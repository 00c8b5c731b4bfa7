-------------------------- MODULE AuditChainProofs --------------------------
(***************************************************************************)
(* Proofs about AuditChain, for all events, batches and clocks.            *)
(***************************************************************************)
EXTENDS AuditChain, SequenceTheorems, TLAPS

Hash == AnyEvent \cup {GENESIS}
Row  == [event : AnyEvent, ts : Nat, id : Ids, prev : Hash]

Emission ==
  [at : {"idle", "stamped", "select", "insert", "written", "failed"},
   ts : Nat, prev : Hash, seen : Nat]

TypeOK ==
  /\ now \in Nat
  /\ audit_events \in Seq(Row)
  /\ emit \in [AnyEvent -> Emission]

(* An event has one row at most, and only after its emission has ended;    *)
(* ids are not used twice.                                                 *)
RowsAreDistinct ==
  /\ \A i, k \in 1 .. Len(audit_events) :
       i # k => /\ audit_events[i].event # audit_events[k].event
                /\ audit_events[i].id # audit_events[k].id
  /\ \A i \in 1 .. Len(audit_events) :
       emit[audit_events[i].event].at = "written"

(* The rows that were committed before the i-th one was.                   *)
RowsBefore(i) == {audit_events[k] : k \in 1 .. i - 1}

(* m is the row that ORDER BY ts DESC, id DESC LIMIT 1 finds among the     *)
(* first n rows.                                                           *)
IsLatest(m, n) ==
  /\ m \in 1 .. n
  /\ \A k \in 1 .. n : k # m => Before(audit_events[k], audit_events[m])

EveryPrefixHasALatest ==
  \A n \in 1 .. Len(audit_events) : \E m \in 1 .. n : IsLatest(m, n)

(* The serializable transactions: a row names the hash that was the latest *)
(* when it was committed, not only when it was read.                       *)
ChainedToTheLatest ==
  \A i \in 1 .. Len(audit_events) :
    audit_events[i].prev = LatestHash(RowsBefore(i))

ChainInv ==
  TypeOK /\ RowsAreDistinct /\ EveryPrefixHasALatest /\ ChainedToTheLatest

-----------------------------------------------------------------------------
(* ts and id order two rows in one way only, ...                           *)
LEMMA BeforeIsAStrictOrder ==
  ASSUME NEW a \in Row, NEW b \in Row, NEW c \in Row
  PROVE  /\ ~(Before(a, b) /\ Before(b, a))
         /\ Before(a, b) /\ Before(b, c) => Before(a, c)
         /\ a.id # b.id => Before(a, b) \/ Before(b, a)
  BY DEF Before, Row, Ids

(* ... so the query finds the one row that all others are before.          *)
LEMMA LatestHashIsOfTheLast ==
  ASSUME NEW S \in SUBSET Row, NEW r \in S,
         \A s \in S \ {r} : Before(s, r)
  PROVE  LatestHash(S) = r.event
<1>1. \A q \in S : (\A s \in S \ {q} : Before(s, q)) => q = r
  <2> SUFFICES ASSUME NEW q \in S, \A s \in S \ {q} : Before(s, q), q # r
               PROVE  FALSE
    OBVIOUS
  <2>1. Before(r, q) /\ Before(q, r)
    OBVIOUS
  <2> QED BY <2>1, BeforeIsAStrictOrder
<1>2. (CHOOSE q \in S : \A s \in S \ {q} : Before(s, q)) = r
  BY <1>1
<1> QED BY <1>2 DEF LatestHash

(* The log as a function of its places.                                    *)
LEMMA LogIsOfRows ==
  ASSUME TypeOK
  PROVE  /\ Len(audit_events) \in Nat
         /\ \A i \in 1 .. Len(audit_events) :
              /\ audit_events[i] \in Row
              /\ audit_events[i].event \in AnyEvent
              /\ audit_events[i].event # GENESIS
<1>1. audit_events \in Seq(Row)
  BY DEF TypeOK
<1>2. /\ Len(audit_events) \in Nat
      /\ \A i \in 1 .. Len(audit_events) : audit_events[i] \in Row
  BY <1>1, LenProperties, ElementOfSeq
<1> QED BY <1>2, EventAssumption DEF Row, AnyEvent

(* What the query returns, for the first n rows of the log.                *)
LEMMA LatestHashOfPrefix ==
  ASSUME TypeOK, RowsAreDistinct, NEW n \in 1 .. Len(audit_events), NEW m \in 1 .. n,
         IsLatest(m, n)
  PROVE  LatestHash(RowsBefore(n + 1)) = audit_events[m].event
<1> DEFINE S == RowsBefore(n + 1)
<1>1. S \in SUBSET Row /\ audit_events[m] \in S
  BY DEF RowsBefore, TypeOK
<1>2. \A s \in S \ {audit_events[m]} : Before(s, audit_events[m])
  BY DEF RowsBefore, IsLatest
<1> QED BY <1>1, <1>2, LatestHashIsOfTheLast

-----------------------------------------------------------------------------
(* The log is empty before the first event.                                *)
LEMMA ChainStart == Init => ChainInv
  BY DEF Init, ChainInv, TypeOK, RowsAreDistinct, EveryPrefixHasALatest,
         ChainedToTheLatest, NotEmitted, Emission, Hash, Committed

(* The query of a writer returns a hash that a row may name.               *)
LEMMA LatestHashIsAHash ==
  ASSUME ChainInv PROVE LatestHash(Committed) \in Hash
<1>1. CASE audit_events = <<>>
  BY <1>1 DEF Committed, LatestHash, Hash
<1>2. CASE audit_events # <<>>
  <2> DEFINE n == Len(audit_events)
  <2>1. n \in Nat /\ n # 0
    BY <1>2, EmptySeq, LenProperties DEF ChainInv, TypeOK
  <2>2. PICK m \in 1 .. n : IsLatest(m, n)
    BY <2>1 DEF ChainInv, EveryPrefixHasALatest
  <2>3. Committed = RowsBefore(n + 1)
    BY <2>1 DEF Committed, RowsBefore
  <2>4. LatestHash(Committed) = audit_events[m].event
    BY <2>1, <2>2, <2>3, LatestHashOfPrefix DEF ChainInv
  <2> QED BY <2>1, <2>2, <2>4, LogIsOfRows DEF ChainInv, Hash
<1> QED BY <1>1, <1>2

(* A statement that leaves the log alone and moves emissions that have not *)
(* been written.                                                           *)
LEMMA LogUntouched ==
  ASSUME ChainInv, TypeOK', UNCHANGED audit_events,
         \A e \in AnyEvent : emit[e].at = "written" => emit'[e].at = "written"
  PROVE  ChainInv'
<1>1. RowsAreDistinct'
  <2>1. \A i \in 1 .. Len(audit_events) : audit_events[i].event \in AnyEvent
    BY LogIsOfRows DEF ChainInv
  <2> QED BY <2>1 DEF ChainInv, RowsAreDistinct
<1>2. EveryPrefixHasALatest' /\ ChainedToTheLatest'
  BY DEF ChainInv, EveryPrefixHasALatest, ChainedToTheLatest, IsLatest, RowsBefore
<1> QED BY <1>1, <1>2 DEF ChainInv

(* INSERT and COMMIT keep the invariant: the new row is the latest of the  *)
(* log, or the one that was the latest still is.                           *)
LEMMA InsertStep ==
  ASSUME ChainInv, NEW e \in AnyEvent, InsertAndCommit(e)
  PROVE  ChainInv'
<1> PICK n \in Nat : n = Len(audit_events)
  BY LogIsOfRows DEF ChainInv
<1>1. PICK id \in Ids \ {r.id : r \in Committed} :
        audit_events' = Append(audit_events,
          [event |-> e, ts |-> emit[e].ts, id |-> id, prev |-> emit[e].prev])
  BY DEF InsertAndCommit
<1> DEFINE row == [event |-> e, ts |-> emit[e].ts, id |-> id, prev |-> emit[e].prev]
<1>2. row \in Row
  BY DEF ChainInv, TypeOK, Emission, Row
<1>3. /\ n \in Nat /\ audit_events \in Seq(Row)
      /\ audit_events' \in Seq(Row)
      /\ Len(audit_events') = n + 1
      /\ \A i \in 1 .. n : audit_events'[i] = audit_events[i]
      /\ audit_events'[n + 1] = row
      /\ \A i \in 1 .. n : audit_events[i] \in Row
  <2>1. audit_events \in Seq(Row)
    BY DEF ChainInv, TypeOK
  <2> QED BY <1>1, <1>2, <2>1, AppendProperties
<1> HIDE DEF row
<1>4. TypeOK'
  BY <1>3 DEF ChainInv, TypeOK, InsertAndCommit, Emission
<1>5. RowsAreDistinct'
  <2>1. \A i \in 1 .. n : audit_events[i].event # e /\ audit_events[i].id # id
    BY <1>3, <1>1 DEF ChainInv, RowsAreDistinct, InsertAndCommit, Committed
  <2>2. row.event = e /\ row.id = id
    BY DEF row
  <2>3. \A i \in 1 .. n + 1 : i \in 1 .. n \/ i = n + 1
    BY <1>3
  <2>4. \A i, k \in 1 .. n + 1 :
          i # k => /\ audit_events'[i].event # audit_events'[k].event
                   /\ audit_events'[i].id # audit_events'[k].id
    BY <1>3, <2>1, <2>2, <2>3 DEF ChainInv, RowsAreDistinct
  <2>5. \A f \in AnyEvent : emit[f].at = "written" => emit'[f].at = "written"
    BY DEF InsertAndCommit, ChainInv, TypeOK
  <2>6. emit'[e].at = "written"
    BY DEF InsertAndCommit, ChainInv, TypeOK, Emission
  <2>7. \A i \in 1 .. n + 1 : emit'[audit_events'[i].event].at = "written"
    <3>1. \A i \in 1 .. n : audit_events[i].event \in AnyEvent
      BY <1>3 DEF Row
    <3> QED BY <1>3, <2>2, <2>3, <2>5, <2>6, <3>1
               DEF ChainInv, RowsAreDistinct
  <2> QED BY <1>3, <2>4, <2>7 DEF RowsAreDistinct
<1>6. \A k \in 1 .. n : \A m \in 1 .. k : IsLatest(m, k) => IsLatest(m, k)'
  BY <1>3 DEF IsLatest
<1>7. EveryPrefixHasALatest'
  <2>1. \A k \in 1 .. n : \E m \in 1 .. k : IsLatest(m, k)'
    BY <1>6, <1>3 DEF ChainInv, EveryPrefixHasALatest
  <2>2. \E m \in 1 .. n + 1 : IsLatest(m, n + 1)'
    <3>1. CASE n = 0
      BY <3>1, <1>3 DEF IsLatest
    <3>2. CASE n # 0
      <4>1. PICK m \in 1 .. n : IsLatest(m, n)
        BY <3>2, <1>3 DEF ChainInv, EveryPrefixHasALatest
      <4>2. audit_events[m] \in Row /\ audit_events[m].id # id /\ row.id = id
        BY <1>1, <1>3, <4>1 DEF Committed, row
      <4>3. CASE Before(row, audit_events[m])
        <5>1. \A k \in 1 .. n + 1 : k # m => Before(audit_events'[k], audit_events'[m])
          BY <1>3, <4>1, <4>3 DEF IsLatest
        <5> QED BY <5>1, <4>1, <1>3 DEF IsLatest
      <4>4. CASE Before(audit_events[m], row)
        <5>1. \A k \in 1 .. n : Before(audit_events[k], row)
          <6> SUFFICES ASSUME NEW k \in 1 .. n PROVE Before(audit_events[k], row)
            OBVIOUS
          <6>1. audit_events[k] \in Row /\ (k # m => Before(audit_events[k], audit_events[m]))
            BY <1>3, <4>1 DEF IsLatest
          <6> QED BY <6>1, <1>2, <4>2, <4>4, BeforeIsAStrictOrder DEF row
        <5>2. \A k \in 1 .. n + 1 : k # n + 1 => Before(audit_events'[k], audit_events'[n + 1])
          BY <1>3, <5>1
        <5>3. IsLatest(n + 1, n + 1)'
          BY <5>2 DEF IsLatest
        <5> QED BY <5>3
      <4>5. row \in Row
        BY <1>2 DEF row
      <4> QED BY <4>2, <4>3, <4>4, <4>5, BeforeIsAStrictOrder
    <3> QED BY <3>1, <3>2
  <2> QED BY <1>3, <2>1, <2>2 DEF EveryPrefixHasALatest
<1>8. ChainedToTheLatest'
  <2>1. \A i \in 1 .. n + 1 : RowsBefore(i)' = RowsBefore(i)
    BY <1>3 DEF RowsBefore
  <2>2. \A i \in 1 .. n + 1 : LatestHash(RowsBefore(i))' = LatestHash(RowsBefore(i))
    BY <2>1, Zenon
  <2>3. row.prev = LatestHash(RowsBefore(n + 1))
    <3>1. RowsBefore(n + 1) = Committed
      BY <1>3 DEF RowsBefore, Committed
    <3> QED BY <3>1 DEF InsertAndCommit, SerializationConflict, row
  <2> QED BY <1>3, <2>2, <2>3 DEF ChainInv, ChainedToTheLatest
<1> QED BY <1>4, <1>5, <1>7, <1>8 DEF ChainInv

(* Every step of the callers, of the transactions and of the clock.        *)
LEMMA ChainStep == ChainInv /\ [Next]_vars => ChainInv'
<1> SUFFICES ASSUME ChainInv, [Next]_vars PROVE ChainInv'
  OBVIOUS
<1> USE DEF ChainInv, TypeOK
<1>1. NotEmitted \in Emission /\ Stamped \in Emission
  BY DEF NotEmitted, Stamped, Emission, Hash
<1>2. ASSUME NEW e \in Event, StampEvent(e) PROVE ChainInv'
  <2>1. TypeOK' /\ \A f \in AnyEvent : emit[f].at = "written" => emit'[f].at = "written"
    BY <1>1, <1>2 DEF StampEvent, AnyEvent
  <2> QED BY <1>2, <2>1, LogUntouched DEF StampEvent
<1>3. CASE AuditRecoveredRows
  <2>1. TypeOK' /\ \A f \in AnyEvent : emit[f].at = "written" => emit'[f].at = "written"
    BY <1>1, <1>3 DEF AuditRecoveredRows, AnyEvent
  <2> QED BY <1>3, <2>1, LogUntouched DEF AuditRecoveredRows
<1>4. ASSUME NEW e \in AnyEvent, SelectLatest(e) PROVE ChainInv'
  <2>1. LatestHash(Committed) \in Hash /\ Len(audit_events) \in Nat
    BY LatestHashIsAHash, LogIsOfRows
  <2>2. TypeOK' /\ \A f \in AnyEvent : emit[f].at = "written" => emit'[f].at = "written"
    BY <1>4, <2>1 DEF SelectLatest, Emission
  <2> QED BY <1>4, <2>2, LogUntouched DEF SelectLatest
<1>5. ASSUME NEW e \in AnyEvent, LockLatest(e) \/ RollBack(e) PROVE ChainInv'
  <2>1. TypeOK' /\ \A f \in AnyEvent : emit[f].at = "written" => emit'[f].at = "written"
    BY <1>5 DEF LockLatest, RollBack, Emission
  <2> QED BY <1>5, <2>1, LogUntouched DEF LockLatest, RollBack
<1>6. ASSUME NEW e \in AnyEvent, InsertAndCommit(e) PROVE ChainInv'
  BY <1>6, InsertStep
<1>7. CASE Tick \/ UNCHANGED vars
  <2>1. TypeOK' /\ UNCHANGED <<audit_events, emit>>
    BY <1>7 DEF Tick, vars
  <2> QED BY <2>1, LogUntouched
<1> QED BY <1>2, <1>3, <1>4, <1>5, <1>6, <1>7 DEF Next, EmitAuditEvent

-----------------------------------------------------------------------------
(* What a row's prev_hash is, read off the rows before it.                 *)
LEMMA PrevIsOfTheLatest ==
  ASSUME ChainInv, NEW i \in 1 .. Len(audit_events)
  PROVE  \/ i = 1 /\ audit_events[i].prev = GENESIS
         \/ \E m \in 1 .. i - 1 : /\ IsLatest(m, i - 1)
                                 /\ audit_events[i].prev = audit_events[m].event
<1> USE DEF ChainInv
<1>1. Len(audit_events) \in Nat /\ audit_events[i].prev = LatestHash(RowsBefore(i))
  BY LogIsOfRows DEF ChainedToTheLatest
<1>2. CASE i = 1
  <2>1. RowsBefore(i) = {}
    BY <1>2 DEF RowsBefore
  <2> QED BY <1>1, <1>2, <2>1 DEF LatestHash
<1>3. CASE i # 1
  <2>1. i - 1 \in 1 .. Len(audit_events) /\ (i - 1) + 1 = i
    BY <1>1, <1>3
  <2>2. PICK m \in 1 .. i - 1 : IsLatest(m, i - 1)
    BY <2>1 DEF EveryPrefixHasALatest
  <2> QED BY <1>1, <2>1, <2>2, LatestHashOfPrefix
<1> QED BY <1>2, <1>3

(* A row is chained to the start or to a row of the log.                   *)
LEMMA InvImpliesChained == ChainInv => ChainedToEarlierRows
  BY PrevIsOfTheLatest DEF ChainedToEarlierRows

(* Two rows follow one row only if the first of them sorts before it: the  *)
(* second found it to be the latest although the first was there.          *)
LEMMA InvImpliesForks == ChainInv => ForksOnlyBehindLateStamps
<1> SUFFICES ASSUME ChainInv, NEW i \in 1 .. Len(audit_events),
                    NEW k \in 1 .. Len(audit_events),
                    i < k, audit_events[i].prev = audit_events[k].prev
             PROVE  /\ audit_events[i].prev # GENESIS
                    /\ \E p \in Committed : /\ p.event = audit_events[i].prev
                                            /\ Before(audit_events[i], p)
  BY DEF ForksOnlyBehindLateStamps
<1> USE DEF ChainInv
<1>1. Len(audit_events) \in Nat
  BY LogIsOfRows
<1>2. PICK m \in 1 .. k - 1 : /\ IsLatest(m, k - 1)
                              /\ audit_events[k].prev = audit_events[m].event
  BY <1>1, PrevIsOfTheLatest
<1>3. audit_events[i].prev # GENESIS
  BY <1>1, <1>2, LogIsOfRows
<1>4. PICK j \in 1 .. i - 1 : audit_events[i].prev = audit_events[j].event
  BY <1>3, PrevIsOfTheLatest
<1>5. m = j /\ m # i
  BY <1>1, <1>2, <1>4 DEF RowsAreDistinct
<1>6. Before(audit_events[i], audit_events[m])
  BY <1>1, <1>2, <1>5 DEF IsLatest
<1> QED BY <1>1, <1>2, <1>3, <1>6 DEF Committed

(* When the rows lie in the order of ts and id, the rows that verify reads *)
(* before a row are those that were committed before it.                   *)
LEMMA InvImpliesVerify == ChainInv => VerifyHoldsInOrder
<1> SUFFICES ASSUME ChainInv, WrittenInOrder,
                    NEW i \in 1 .. Len(audit_events)
             PROVE  audit_events[i].prev
                      = LatestHash({s \in Committed : Before(s, audit_events[i])})
  BY DEF VerifyHoldsInOrder, Verify, Committed
<1> USE DEF ChainInv
<1>1. /\ Len(audit_events) \in Nat
      /\ \A k \in 1 .. Len(audit_events) : audit_events[k] \in Row
  BY LogIsOfRows
<1>2. \A k \in 1 .. Len(audit_events) :
        Before(audit_events[k], audit_events[i]) <=> k < i
  <2> SUFFICES ASSUME NEW k \in 1 .. Len(audit_events)
               PROVE  Before(audit_events[k], audit_events[i]) <=> k < i
    OBVIOUS
  <2>1. CASE k < i
    BY <2>1 DEF WrittenInOrder
  <2>2. CASE k > i
    BY <1>1, <2>2, BeforeIsAStrictOrder DEF WrittenInOrder
  <2>3. CASE k = i
    BY <1>1, <2>3, BeforeIsAStrictOrder
  <2> QED BY <1>1, <2>1, <2>2, <2>3
<1>3. {s \in Committed : Before(s, audit_events[i])} = RowsBefore(i)
  BY <1>1, <1>2 DEF Committed, RowsBefore
<1> QED BY <1>3 DEF ChainedToTheLatest

-----------------------------------------------------------------------------
(* Nothing is ever chained to a hash that is not in the log: what the      *)
(* SERIALIZABLE transaction of emitAuditEvent is for (audit-service.ts).   *)
THEOREM NothingIsChainedToALostRow == Spec => []ChainedToEarlierRows
  BY ChainStart, ChainStep, InvImpliesChained, PTL DEF Spec

(* However emissions overlap, fail and are delayed, writers fork the chain *)
(* only when a row arrives with a ts older than that of the row it follows *)
(* (emitAuditEvent, and auditRecoveredRows with its one ts for a batch).   *)
THEOREM OnlyLateStampsFork == Spec => []ForksOnlyBehindLateStamps
  BY ChainStart, ChainStep, InvImpliesForks, PTL DEF Spec

(* A log whose rows were committed in the order of ts and id passes the    *)
(* check of GET /api/audit/verify (api/audit.ts).                          *)
THEOREM OrderedLogIsValid == Spec => []VerifyHoldsInOrder
  BY ChainStart, ChainStep, InvImpliesVerify, PTL DEF Spec
=============================================================================
