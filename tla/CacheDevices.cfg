\* Two devices, a serial flash and a read-only one, share three buffers.
CONSTANTS
  MaxDevs = 2
  MaxBufs = 3
  PageBufs = 0
  WriteSize = 1
  Sectors = 2
  Val = {v1}
  Removable = {}
  ReadOnly = {2}
  Queueing = {1}
  Ops = {"read", "write", "overwrite", "flush", "tick"}
  Waits = {TRUE, FALSE}
  Background = FALSE
  IoErrors = TRUE
  PowerFails = FALSE
SPECIFICATION Spec
INVARIANTS TypeOK LruComplete
