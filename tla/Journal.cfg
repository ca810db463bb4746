\* Two byte locations, journal of two entries, no device failure.
CONSTANTS
  Loc = {l1, l2}
  Bare = {l2}
  Chk = {k}
  Val = {nul, x}
  Zero = nul
  MaxEnt = 2
  IoErrors = FALSE
  NoRecovery = FALSE
SPECIFICATION Spec
INVARIANTS TypeOK IInv CallbackData OneCheckpoint
PROPERTY Atomic
