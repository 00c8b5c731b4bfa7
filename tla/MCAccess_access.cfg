\* Three requests, one good token and one that is not for results; three
\* calls of users, one of whom is there from the beginning and has a passkey.
SPECIFICATION AccessSpec
CONSTANTS
  j1 = j1
  j2 = j2
  t1 = t1
  t2 = t2
  Request = {q1, q2, q3}
  Jti = {j1, j2}
  Task = {t1, t2}
  TaskOf <- TwoTokenTasks
  Foreign = {j2}
  NULL = NULL
  TtlSeconds = 1
  MaxNow = 4
  n1 = n1
  n2 = n2
  seed = seed
  Call = {c1, c2, c3}
  Username = {n1, n2}
  Seeded <- OneSeeded
  Limit <- SmallLimit
  Window <- SmallWindow
  MaxClock = 2
  Nobody = Nobody
SYMMETRY AccessSymmetry
CHECK_DEADLOCK FALSE
INVARIANTS StoredResultWasPaidFor OnlyValidUseConsumes UsedTokenRefusedUntilExpiry
  LoginsAreLimited SameNameNeedsARace LogoutEndsSession
PROPERTIES PasskeyTroubleNeedsOverlap
