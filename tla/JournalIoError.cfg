\* Device failures during a rollback: a rollback that fails.
CONSTANTS
  Loc = {l1}
  Bare = {}
  Chk = {k}
  Val = {nul, x}
  Zero = nul
  MaxEnt = 2
  IoErrors = TRUE
  NoRecovery = TRUE
SPECIFICATION Spec
PROPERTY FailedRollbackKeepsJournal
