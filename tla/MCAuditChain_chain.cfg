\* Two callers and a recovery sweep of two rows write at the same time;
\* two requests of an administrator's tab at a time.
SPECIFICATION FairAuditSpec
CONSTANTS
  Event = {e1, e2}
  Batch = {b1, b2}
  GENESIS = GENESIS
  MaxNow = 1
  Pages <- SmallPages
  StoredRows <- SmallRows
  Attribute = {"active", "role"}
  MaxFlights = 2
  MaxMoves = 3
  Nothing = Nothing
CHECK_DEADLOCK FALSE
INVARIANTS ChainedToEarlierRows ForksOnlyBehindLateStamps VerifyHoldsInOrder
  TabsAtRestShowTheServer
PROPERTIES EmissionsEnd
