\* One account, two handlers, four refresh tokens, a threshold of two failures
\* and one password reset; any await may fail.
CONSTANTS
  Handlers = {h1, h2}
  Users = {u1}
  Tokens = {t1, t2, t3, t4}
  MaxFailedLoginAttempts = 2
  MaxFailures = 3
  MaxResets = 1
  None = None
  Failures = TRUE
SPECIFICATION Spec
SYMMETRY SessionSymmetry
\* A deleted account ends the instance.
CHECK_DEADLOCK FALSE
INVARIANTS
  TypeOK
  OneTokenPerSession
  LogoutEndsSession
  ResetSparesOnlyInFlight
  LockEngages
