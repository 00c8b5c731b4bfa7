\* Two callers: is an untouched log valid?
SPECIFICATION AuditSpec
CONSTANTS
  Event = {e1, e2}
  Batch = {}
  GENESIS = GENESIS
  MaxNow = 1
  Pages <- SmallPages
  StoredRows <- SmallRows
  Attribute = {"active", "role"}
  MaxFlights = 2
  MaxMoves = 3
  Nothing = Nothing
CHECK_DEADLOCK FALSE
INVARIANT UntouchedLogIsValid
