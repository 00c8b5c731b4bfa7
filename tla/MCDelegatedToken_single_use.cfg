\* Two requests with one token at the same time.
SPECIFICATION Spec
CONSTANTS
  j1 = j1
  j2 = j2
  t1 = t1
  t2 = t2
  Request = {q1, q2}
  Jti = {j1}
  Task = {t1, t2}
  TaskOf <- OneTokenTask
  Foreign = {}
  NULL = NULL
  TtlSeconds = 1
  MaxNow = 1
SYMMETRY RequestSymmetry
CHECK_DEADLOCK FALSE
INVARIANT SingleUse
