\* A driver that is often busy or fails, calls without FTC_WAIT.
CONSTANTS
  MaxDevs = 1
  MaxBufs = 2
  PageBufs = 0
  WriteSize = 1
  Sectors = 3
  Val = {v1, v2}
  Removable = {}
  ReadOnly = {}
  Queueing = {}
  Ops = {"read", "write", "overwrite", "flush"}
  Waits = {FALSE}
  Background = TRUE
  IoErrors = TRUE
  PowerFails = FALSE
SPECIFICATION Spec
SYMMETRY Symmetry
INVARIANTS NoDuplicates CleanMatches LruComplete BusyListed
PROPERTIES ReadCurrent Coherent
