CONSTANTS
  c1 = c1
  c2 = c2
  c3 = c3
  p1 = p1
  p2 = p2
  HashOrder <- MCHashOrder
  Descriptions <- MCDescriptions
  Channels <- MCChannels
  Requests <- MCRequests
  Process = {p1, p2}
  Bits = 2
  None = None
SPECIFICATION Spec
INVARIANT RedispatchToHandler
PROPERTIES MostSpecificFirst PredictedIsPossible
