SPECIFICATION Spec
CONSTANTS
  Loc = {l1, l2}
  Node = {n1, n2}
  MaxConversations = 2
  IdMod = 2
  TimeMod = 6
  AddressTimeout = 1
  MatchTimeout = 2
  Slack = 0
  WireSize = 2
  Paced = TRUE
  Patient = TRUE
  None = None
INVARIANT IInv
PROPERTIES IsLookup NotEarly Ends
