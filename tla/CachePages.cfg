\* Pages of two sectors, one page buffer, a serial flash, calls that write.
CONSTANTS
  MaxDevs = 1
  MaxBufs = 2
  PageBufs = 1
  WriteSize = 2
  Sectors = 4
  Val = {v1, v2}
  Removable = {}
  ReadOnly = {}
  Queueing = {1}
  Ops = {"write", "flush"}
  Waits = {TRUE}
  Background = FALSE
  IoErrors = FALSE
  PowerFails = FALSE
SPECIFICATION Spec
SYMMETRY Symmetry
INVARIANTS PagesReleased FlushComplete
PROPERTIES Coherent
