CONSTANTS
  File <- Image
  NumMod = 3
  Punctual = TRUE
  None = None
SPECIFICATION FwSpec
INVARIANT ImageComplete
CHECK_DEADLOCK FALSE
