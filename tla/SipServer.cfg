CONSTANTS
  CallIds = {a, b, folded}
  FoldedCallId = folded
  CSeqs = {1, 2}
  BadCSeqs = {bad1, bad2}
  NoHeader = NoHeader
  Blank = Blank
  Tag = Tag
SPECIFICATION ServerSpec
INVARIANTS
  DialogIsAnswered
  OneFinalResponse
  EchoesRequest
  ResponsesReadBack
  MediaAsNegotiated
PROPERTIES
  ActiveCallUndisturbed
