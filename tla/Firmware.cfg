CONSTANTS
  File <- Image
  NumMod = 3
  Punctual = TRUE
  None = None
SPECIFICATION FwSpec
INVARIANTS FwTypeOK InOrder Complete Loaded
PROPERTY TransferEnds
CHECK_DEADLOCK FALSE
