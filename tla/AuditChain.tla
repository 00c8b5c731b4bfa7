----------------------------- MODULE AuditChain -----------------------------
(***************************************************************************)
(* The hash-chained audit log: emitAuditEvent of policies/audit-service.ts *)
(* with its callers, auditRecoveredRows among them, and the check of       *)
(* GET /api/audit/verify (api/audit.ts).                                   *)
(*                                                                         *)
(* An event is emitted once, and its hash covers its payload, its ts and   *)
(* the hash before it, so a row's hash is named by its event.  The id of a *)
(* row is a random UUID: it orders rows of equal ts in no way that anybody *)
(* chose.                                                                  *)
(***************************************************************************)
EXTENDS Integers, FiniteSets, Sequences

CONSTANTS
  Event,     \* events emitted one by one, each by a caller of its own
  Batch,     \* events of the rows that one recovery sweep returned
  GENESIS,   \* AUDIT_GENESIS_HASH
  MaxNow     \* bound on the clock

ASSUME EventAssumption ==
  /\ Event \cap Batch = {} /\ GENESIS \notin Event \cup Batch
  /\ IsFiniteSet(Event \cup Batch) /\ MaxNow \in Nat

AnyEvent == Event \cup Batch
Ids      == 1 .. Cardinality(AnyEvent)

VARIABLES
  now,           \* milliseconds, as new Date().toISOString() shows them
  audit_events,  \* the committed rows in the order of their commits
  emit           \* per event: where its emission is, its ts, the prev_hash
                 \* it read, and how many rows its snapshot held

vars == <<now, audit_events, emit>>

Committed == {audit_events[i] : i \in 1 .. Len(audit_events)}

(* ORDER BY ts, id *)
Before(a, b) == a.ts < b.ts \/ (a.ts = b.ts /\ a.id < b.id)

(* ORDER BY ts DESC, id DESC LIMIT 1, over the rows of S.                  *)
LatestHash(S) ==
  IF S = {} THEN GENESIS
  ELSE (CHOOSE r \in S : \A s \in S \ {r} : Before(s, r)).event

NotEmitted == [at |-> "idle", ts |-> 0, prev |-> GENESIS, seen |-> 0]

Init ==
  /\ now = 0
  /\ audit_events = <<>>
  /\ emit = [e \in AnyEvent |-> NotEmitted]

-----------------------------------------------------------------------------
(* The caller builds the event: ts is the time now, the emission is later. *)
Stamped == [NotEmitted EXCEPT !.at = "stamped", !.ts = now]

StampEvent(e) ==
  /\ emit[e].at = "idle"
  /\ emit' = [emit EXCEPT ![e] = Stamped]
  /\ UNCHANGED <<now, audit_events>>

(* auditRecoveredRows: one ts for the batch, all emissions at once.        *)
AuditRecoveredRows ==
  /\ \A e \in Batch : emit[e].at = "idle"
  /\ Batch # {}
  /\ emit' = [e \in AnyEvent |-> IF e \in Batch THEN Stamped ELSE emit[e]]
  /\ UNCHANGED <<now, audit_events>>

(* BEGIN ISOLATION LEVEL SERIALIZABLE; the SELECT takes the snapshot.      *)
SelectLatest(e) ==
  /\ emit[e].at = "stamped"
  /\ emit' = [emit EXCEPT ![e].at = "select",
                          ![e].prev = LatestHash(Committed),
                          ![e].seen = Len(audit_events)]
  /\ UNCHANGED <<now, audit_events>>

(* Mutant: whoever has read the row holds a lock on it, and waits for the  *)
(* others that do.                                                         *)
LockAfterShare(e) ==
  /\ emit[e].at = "select"
  /\ \/ emit[e].prev = GENESIS
     \/ \A f \in AnyEvent \ {e} :
          emit[f].at \in {"select", "insert"} => emit[f].prev # emit[e].prev
  /\ emit' = [emit EXCEPT ![e].at = "insert"]
  /\ UNCHANGED <<now, audit_events>>

(* ... FOR UPDATE: waits for whoever has locked the same row.  An empty    *)
(* table has no row to lock.                                               *)
LockLatest(e) ==
  /\ emit[e].at = "select"
  /\ \/ emit[e].prev = GENESIS
     \/ \A f \in AnyEvent : emit[f].at = "insert" => emit[f].prev # emit[e].prev
  /\ emit' = [emit EXCEPT ![e].at = "insert"]
  /\ UNCHANGED <<now, audit_events>>

(* Mutant: READ COMMITTED.                                                 *)
NoConflict(e) == FALSE

(* What the snapshot of e would show as latest if it were taken now is not *)
(* what e read: e cannot come after those rows in a serial order.          *)
SerializationConflict(e) == LatestHash(Committed) # emit[e].prev

(* Mutant: hash and prev_hash are swapped.                                 *)
InsertSwapped(e) ==
  /\ emit[e].at = "insert" /\ ~SerializationConflict(e)
  /\ \E id \in Ids \ {r.id : r \in Committed} :
       audit_events' = Append(audit_events,
         [event |-> emit[e].prev, ts |-> emit[e].ts, id |-> id, prev |-> e])
  /\ emit' = [emit EXCEPT ![e].at = "written"]
  /\ UNCHANGED now

(* INSERT and COMMIT.                                                      *)
InsertAndCommit(e) ==
  /\ emit[e].at = "insert" /\ ~SerializationConflict(e)
  /\ \E id \in Ids \ {r.id : r \in Committed} :
       audit_events' = Append(audit_events,
         [event |-> e, ts |-> emit[e].ts, id |-> id, prev |-> emit[e].prev])
  /\ emit' = [emit EXCEPT ![e].at = "written"]
  /\ UNCHANGED now

(* ROLLBACK, and the error goes to the caller, who logs it: PostgreSQL may *)
(* refuse any transaction that another one overlapped with its own commit. *)
RollBack(e) ==
  /\ emit[e].at = "insert" /\ emit[e].seen < Len(audit_events)
  /\ emit' = [emit EXCEPT ![e].at = "failed"]
  /\ UNCHANGED <<now, audit_events>>

Tick ==
  /\ now < MaxNow
  /\ now' = now + 1
  /\ UNCHANGED <<audit_events, emit>>

EmitAuditEvent(e) ==
  SelectLatest(e) \/ LockLatest(e) \/ InsertAndCommit(e) \/ RollBack(e)

Next ==
  \/ \E e \in Event : StampEvent(e)
  \/ AuditRecoveredRows
  \/ \E e \in AnyEvent : EmitAuditEvent(e)
  \/ Tick

Spec == Init /\ [][Next]_vars

(* An emission that has begun goes on.                                     *)
FairSpec == Spec /\ \A e \in AnyEvent : WF_vars(EmitAuditEvent(e))

-----------------------------------------------------------------------------
(* GET /api/audit/verify: walk the rows by ts and id; each must name the   *)
(* hash of the one before.                                                 *)
Verify ==
  \A r \in Committed :
    r.prev = LatestHash({s \in Committed : Before(s, r)})

-----------------------------------------------------------------------------
(* Every row names a hash that was in the log before it: nothing is ever   *)
(* chained to a row that did not commit.                                   *)
ChainedToEarlierRows ==
  \A i \in 1 .. Len(audit_events) :
    audit_events[i].prev \in {GENESIS} \cup {audit_events[k].event : k \in 1 .. i - 1}

(* What the serializable transactions are for: if two rows have the same   *)
(* prev_hash, then not because two writers read it at the same time, but   *)
(* because the first of them has an older ts than a row that it follows,   *)
(* or the same ts and a smaller id.                                        *)
ForksOnlyBehindLateStamps ==
  \A i, k \in 1 .. Len(audit_events) :
    (i < k /\ audit_events[i].prev = audit_events[k].prev)
      => /\ audit_events[i].prev # GENESIS
         /\ \E p \in Committed : /\ p.event = audit_events[i].prev
                                 /\ Before(audit_events[i], p)

(* The rows lie in the log in the order in which verify reads them.        *)
WrittenInOrder ==
  \A i, k \in 1 .. Len(audit_events) :
    i < k => Before(audit_events[i], audit_events[k])

(* As long as rows are written in the order of their ts (and of their ids, *)
(* where those are equal), verify says the log is valid, however emissions *)
(* overlap and fail.                                                       *)
VerifyHoldsInOrder == WrittenInOrder => Verify

(* Two emissions that wait for the same row do not wait for ever: every    *)
(* event that was stamped is written or given up.                          *)
EmissionsEnd ==
  \A e \in AnyEvent :
    emit[e].at = "stamped" ~> emit[e].at \in {"written", "failed"}

-----------------------------------------------------------------------------
(* What the comments say.                                                  *)

(* audit-service.ts: the prev_hash is "the hash from the most recently     *)
(* inserted audit row"; audit.ts: verify "Reads all rows in insertion      *)
(* order".  So an untouched log is valid.                                  *)
UntouchedLogIsValid == Verify
=============================================================================
