CONSTANTS
  Device = {d1}
  TableSize = 2
  UserSlots = 1
  Address = {a1, a2}
  WireSize = 2
  LateAnswers = FALSE
  None = None
SPECIFICATION Spec
SYMMETRY AddressSymmetry
INVARIANTS TypeOK QueryTracked AddressFresh JoinedTrue
