\* A removable serial flash, calls with FTC_WAIT, I/O errors, power failures.
CONSTANTS
  MaxDevs = 1
  MaxBufs = 2
  PageBufs = 0
  WriteSize = 1
  Sectors = 3
  Val = {v1, v2}
  Removable = {1}
  ReadOnly = {}
  Queueing = {1}
  Ops = {"read", "write", "overwrite", "flush"}
  Waits = {TRUE}
  Background = FALSE
  IoErrors = TRUE
  PowerFails = TRUE
SPECIFICATION FairSpec
INVARIANTS CleanMatches FlushComplete
PROPERTIES ReadCurrent Coherent CallEnds
