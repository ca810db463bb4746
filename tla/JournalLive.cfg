\* The same journal with device failures during rollback and registration
\* with norecovery: recovery still ends.
CONSTANTS
  Loc = {l1}
  Bare = {}
  Chk = {k}
  Val = {nul, x}
  Zero = nul
  MaxEnt = 2
  IoErrors = TRUE
  NoRecovery = TRUE
SPECIFICATION FairSpec
PROPERTIES Atomic RecoveryEnds
