------------------------ MODULE DelegatedTokenProofs ------------------------
(***************************************************************************)
(* What a delegated token pays for, for all sets of requests, tokens and   *)
(* tasks, every lifetime and every bound on the clock.                     *)
(***************************************************************************)
EXTENDS DelegatedToken, TLAPS

(* The use of j is remembered, or so old that the cleanup may forget it.   *)
Remembered(j) == j \in revoked_tokens \/ Removable(j)

(* A request that has come in names an issued token and a task.            *)
RequestsNameTokens ==
  \A r \in Request :
    req[r].at # "new" => /\ req[r].jti \in Jti /\ req[r].task \in Task
                         /\ exp[req[r].jti] \in Nat

(* Whoever is past the checks has passed them.                             *)
ChecksArePassed ==
  \A r \in Request :
    (req[r].at = "consume" \/ Consumed(r)) => ClaimsMatch(req[r].jti, req[r].task)

UsesAreRemembered ==
  \A r \in Request : (Consumed(r) \/ req[r].late) => Remembered(req[r].jti)

ResultsAreAccepted ==
  \A t \in Task :
    result[t] # NULL => req[result[t]].at = "accepted" /\ req[result[t]].task = t

(* A late request that got past the second lookup was looked up after the  *)
(* expiry.                                                                 *)
LateIsTooLate ==
  \A r \in Request :
    (req[r].late /\ (req[r].at = "consume" \/ Consumed(r)))
      => req[r].seen_at > 2 * exp[req[r].jti]

(* The new requests are not late yet.                                      *)
NewIsNotLate == \A r \in Request : req[r].at = "new" => ~req[r].late

TokenInv ==
  /\ TypeOK
  /\ RequestsNameTokens
  /\ ChecksArePassed
  /\ UsesAreRemembered
  /\ ResultsAreAccepted
  /\ LateIsTooLate
  /\ NewIsNotLate
  /\ OnlyValidUseConsumes

Place == Answered \cup {"new", "verify", "is_revoked", "check", "consume",
                        "parse", "write"}

-----------------------------------------------------------------------------
(* The invariant holds before the first request.                           *)
LEMMA InitInv == Init => TokenInv
<1> SUFFICES ASSUME Init PROVE TokenInv
  OBVIOUS
<1>1. TypeOK
  BY TokenAssumption DEF Init, TypeOK, NewRequest, Answered
<1> QED
  BY <1>1 DEF Init, TokenInv, RequestsNameTokens, ChecksArePassed,
     UsesAreRemembered, ResultsAreAccepted, LateIsTooLate, NewIsNotLate,
     OnlyValidUseConsumes, NewRequest, Consumed

(* The steps of a request that change neither a table nor a time: it does  *)
(* not get past the checks, and one that has consumed stays so.            *)
LEMMA MoveStep ==
  ASSUME TokenInv, NEW r \in Request, NEW to \in Place,
         Move(r, to), UNCHANGED <<now, exp, revoked_tokens, result>>,
         req[r].at \notin Answered \cup {"new"}, to \notin {"new", "consume"},
         Consumed(r) => to \in {"write", "bad_body"},
         to \in {"parse", "write", "accepted", "bad_body"} => Consumed(r)
  PROVE  TokenInv'
<1> USE DEF TokenInv, Move, TypeOK
<1>1. TypeOK'
  BY DEF Place
<1>2. RequestsNameTokens'
  BY DEF RequestsNameTokens
<1>3. ChecksArePassed'
  BY DEF ChecksArePassed, Consumed, ClaimsMatch
<1>4. UsesAreRemembered'
  BY DEF UsesAreRemembered, Consumed, Remembered, Removable
<1>5. ResultsAreAccepted'
  BY DEF ResultsAreAccepted, Answered
<1>6. LateIsTooLate'
  BY DEF LateIsTooLate, Consumed
<1>7. NewIsNotLate'
  BY DEF NewIsNotLate
<1>8. OnlyValidUseConsumes'
  BY DEF OnlyValidUseConsumes, Consumed, Answered
<1> QED
  BY <1>1, <1>2, <1>3, <1>4, <1>5, <1>6, <1>7, <1>8

(* A token is issued once, so that no request knows it yet.                *)
LEMMA IssueStep == ASSUME TokenInv, NEW k \in Jti, Issue(k) PROVE TokenInv'
<1> USE DEF TokenInv, Issue, TypeOK
<1>1. Second + TtlSeconds \in Nat
  BY TokenAssumption DEF Second
<1>2. TypeOK'
  BY <1>1
<1>3. RequestsNameTokens'
  BY <1>1 DEF RequestsNameTokens
<1>4. ASSUME NEW r \in Request, req[r].at # "new"
      PROVE  exp'[req[r].jti] = exp[req[r].jti]
  BY <1>4, TokenAssumption DEF RequestsNameTokens
<1>5. ChecksArePassed'
  BY DEF ChecksArePassed, Consumed, ClaimsMatch
<1>6. UsesAreRemembered'
  BY <1>4 DEF UsesAreRemembered, NewIsNotLate, Consumed, Remembered, Removable
<1>7. ResultsAreAccepted'
  BY DEF ResultsAreAccepted
<1>8. LateIsTooLate'
  BY <1>4 DEF LateIsTooLate, NewIsNotLate, Consumed
<1>9. NewIsNotLate' /\ OnlyValidUseConsumes'
  BY DEF NewIsNotLate, OnlyValidUseConsumes, Consumed
<1> QED
  BY <1>2, <1>3, <1>5, <1>6, <1>7, <1>8, <1>9

(* A request that comes in late finds the use of its token remembered.     *)
LEMMA ReceiveStep ==
  ASSUME TokenInv, NEW r \in Request, NEW j \in Jti, NEW t \in Task,
         Receive(r, j, t)
  PROVE  TokenInv'
<1> USE DEF TokenInv, Receive, TypeOK
<1>1. TypeOK'
  OBVIOUS
<1>2. RequestsNameTokens'
  BY DEF RequestsNameTokens
<1>3. ChecksArePassed'
  BY DEF ChecksArePassed, Consumed, ClaimsMatch
<1>4. req'[r].late => Remembered(j)
  BY DEF UsesAreRemembered, Consumed
<1>5. UsesAreRemembered'
  BY <1>4 DEF UsesAreRemembered, Consumed, Remembered, Removable
<1>6. ResultsAreAccepted'
  BY DEF ResultsAreAccepted
<1>7. LateIsTooLate'
  BY DEF LateIsTooLate, Consumed
<1>8. NewIsNotLate' /\ OnlyValidUseConsumes'
  BY DEF NewIsNotLate, OnlyValidUseConsumes, Consumed
<1> QED
  BY <1>1, <1>2, <1>3, <1>5, <1>6, <1>7, <1>8

(* A late request whose token is not in the table has found it forgotten,  *)
(* which is after its expiry.                                              *)
LEMMA CheckUsedStep ==
  ASSUME TokenInv, NEW r \in Request, CheckUsed(r) PROVE TokenInv'
<1> DEFINE j == req[r].jti
           ok == j \notin revoked_tokens /\ ClaimsMatch(j, req[r].task)
<1>1. /\ req[r].at = "check"
      /\ req' = [req EXCEPT ![r] = [req[r] EXCEPT
                   !.at = IF ok THEN "consume" ELSE "refused", !.seen_at = now]]
      /\ UNCHANGED <<now, exp, revoked_tokens, result>>
  BY DEF CheckUsed
<1> HIDE DEF ok
<1>2. TypeOK'
  <2>1. now \in Nat
    BY TokenAssumption DEF TokenInv, TypeOK
  <2>2. ASSUME NEW s \in Request
        PROVE  req'[s] \in [at : Place, jti : Jti \cup {NULL},
                            task : Task \cup {NULL}, late : BOOLEAN, seen_at : Nat]
    BY <1>1, <2>1 DEF TokenInv, TypeOK, Place, Answered
  <2>3. req' = [s \in Request |-> req'[s]]
    BY <1>1 DEF TokenInv, TypeOK
  <2>4. req' \in [Request -> [at : Place, jti : Jti \cup {NULL},
                             task : Task \cup {NULL}, late : BOOLEAN, seen_at : Nat]]
    BY <2>2, <2>3
  <2> QED
    BY <1>1, <2>4 DEF TokenInv, TypeOK, Place
<1> USE <1>1 DEF TokenInv, TypeOK
<1>3. RequestsNameTokens'
  BY DEF RequestsNameTokens
<1>4. ChecksArePassed'
  BY DEF ChecksArePassed, Consumed, ClaimsMatch, ok
<1>5. UsesAreRemembered'
  BY DEF UsesAreRemembered, Consumed, Remembered, Removable
<1>6. ResultsAreAccepted'
  BY DEF ResultsAreAccepted
<1>7. (req[r].late /\ ok) => now > 2 * exp[j]
  <2> SUFFICES ASSUME req[r].late, ok PROVE now > 2 * exp[j]
    OBVIOUS
  <2>1. Removable(j)
    BY DEF ok, UsesAreRemembered, Remembered
  <2>2. exp[j] \in Nat
    BY DEF RequestsNameTokens
  <2> QED
    BY <2>1, <2>2 DEF Removable
<1>8. LateIsTooLate'
  BY <1>7 DEF LateIsTooLate, Consumed
<1>9. NewIsNotLate' /\ OnlyValidUseConsumes'
  BY DEF NewIsNotLate, OnlyValidUseConsumes, Consumed
<1> QED
  BY <1>2, <1>3, <1>4, <1>5, <1>6, <1>8, <1>9

(* The jti is inserted for a request that has passed the checks.           *)
LEMMA ConsumeStep ==
  ASSUME TokenInv, NEW r \in Request, Consume(r) PROVE TokenInv'
<1> USE DEF TokenInv, Consume, Move, TypeOK
<1>1. TypeOK'
  BY DEF RequestsNameTokens
<1>2. RequestsNameTokens'
  BY DEF RequestsNameTokens
<1>3. ChecksArePassed'
  BY DEF ChecksArePassed, Consumed, ClaimsMatch
<1>4. UsesAreRemembered'
  BY DEF UsesAreRemembered, Consumed, Remembered, Removable
<1>5. ResultsAreAccepted'
  BY DEF ResultsAreAccepted
<1>6. LateIsTooLate'
  BY DEF LateIsTooLate, Consumed
<1>7. NewIsNotLate'
  BY DEF NewIsNotLate
<1>8. OnlyValidUseConsumes'
  BY DEF OnlyValidUseConsumes, ChecksArePassed, ClaimsMatch, Consumed
<1> QED
  BY <1>1, <1>2, <1>3, <1>4, <1>5, <1>6, <1>7, <1>8

(* The result that is stored is that of the request that is answered.      *)
LEMMA WriteStep ==
  ASSUME TokenInv, NEW r \in Request, WriteResult(r) PROVE TokenInv'
<1> USE DEF TokenInv, WriteResult, Move, TypeOK
<1>1. TypeOK'
  BY DEF RequestsNameTokens, Answered
<1>2. RequestsNameTokens'
  BY DEF RequestsNameTokens
<1>3. ChecksArePassed'
  BY DEF ChecksArePassed, Consumed, ClaimsMatch
<1>4. UsesAreRemembered'
  BY DEF UsesAreRemembered, Consumed, Remembered, Removable
<1>5. ResultsAreAccepted'
  BY TokenAssumption DEF ResultsAreAccepted
<1>6. LateIsTooLate'
  BY DEF LateIsTooLate, Consumed
<1>7. NewIsNotLate'
  BY DEF NewIsNotLate
<1>8. OnlyValidUseConsumes'
  BY DEF OnlyValidUseConsumes, Consumed
<1> QED
  BY <1>1, <1>2, <1>3, <1>4, <1>5, <1>6, <1>7, <1>8

(* The server stops: a request in flight is lost, and a token it consumed  *)
(* stays in the table.                                                     *)
LEMMA RestartStep == ASSUME TokenInv, Restart PROVE TokenInv'
<1> USE DEF TokenInv, Restart, TypeOK
<1>1. TypeOK'
  BY DEF Answered
<1>2. RequestsNameTokens'
  BY DEF RequestsNameTokens, Answered
<1>3. ChecksArePassed'
  BY DEF ChecksArePassed, Consumed, ClaimsMatch, Answered
<1>4. UsesAreRemembered'
  BY DEF UsesAreRemembered, Consumed, Remembered, Removable, Answered
<1>5. ResultsAreAccepted'
  BY DEF ResultsAreAccepted, Answered
<1>6. LateIsTooLate'
  BY DEF LateIsTooLate, Consumed, Answered
<1>7. NewIsNotLate'
  BY DEF NewIsNotLate, Answered
<1>8. OnlyValidUseConsumes'
  BY DEF OnlyValidUseConsumes, Consumed, Answered
<1> QED
  BY <1>1, <1>2, <1>3, <1>4, <1>5, <1>6, <1>7, <1>8

(* The cleanup forgets only what may be forgotten, and what may be         *)
(* forgotten now may be so ever after.                                     *)
LEMMA TimeStep ==
  ASSUME TokenInv, CleanupExpiredRevocations \/ Tick PROVE TokenInv'
<1> USE DEF TokenInv
<1>1. TypeOK'
  BY TokenAssumption DEF TypeOK, CleanupExpiredRevocations, Tick
<1>2. UNCHANGED <<exp, result, req>>
  BY DEF CleanupExpiredRevocations, Tick
<1>3. RequestsNameTokens' /\ ChecksArePassed' /\ ResultsAreAccepted'
        /\ LateIsTooLate' /\ NewIsNotLate'
  BY <1>2 DEF RequestsNameTokens, ChecksArePassed, ResultsAreAccepted,
     LateIsTooLate, NewIsNotLate, Consumed, ClaimsMatch
<1>4. ASSUME NEW j \in Jti, exp[j] \in Nat, Remembered(j) PROVE Remembered(j)'
  BY <1>4 DEF TypeOK, Remembered, Removable, CleanupExpiredRevocations, Tick
<1>5. UsesAreRemembered'
  BY <1>2, <1>4 DEF UsesAreRemembered, RequestsNameTokens, NewIsNotLate, Consumed
<1>6. revoked_tokens' \subseteq revoked_tokens
  BY DEF CleanupExpiredRevocations, Tick
<1>7. OnlyValidUseConsumes'
  BY <1>2, <1>6 DEF OnlyValidUseConsumes, Consumed
<1> QED
  BY <1>1, <1>3, <1>5, <1>7

(* Every step keeps the invariant.                                         *)
LEMMA NextStep == TokenInv /\ [Next]_vars => TokenInv'
<1> SUFFICES ASSUME TokenInv, [Next]_vars PROVE TokenInv'
  OBVIOUS
<1>1. ASSUME NEW j \in Jti, Issue(j) PROVE TokenInv'
  BY <1>1, IssueStep
<1>2. ASSUME NEW r \in Request, NEW j \in Jti, NEW t \in Task, Receive(r, j, t)
      PROVE  TokenInv'
  BY <1>2, ReceiveStep
<1>3. ASSUME NEW r \in Request, Handle(r) PROVE TokenInv'
  <2>1. CASE CheckExpiry(r)
    <3> DEFINE to == IF Expired(req[r].jti) THEN "refused" ELSE "is_revoked"
    <3>1. /\ req[r].at = "verify" /\ Move(r, to) /\ to \in {"refused", "is_revoked"}
          /\ UNCHANGED <<now, exp, revoked_tokens, result>>
      BY <2>1 DEF CheckExpiry
    <3> HIDE DEF to
    <3> QED
      BY <3>1, MoveStep DEF Place, Answered, Consumed
  <2>2. CASE IsRevoked(r)
    <3> DEFINE to == IF req[r].jti \in revoked_tokens THEN "refused" ELSE "check"
    <3>1. /\ req[r].at = "is_revoked" /\ Move(r, to) /\ to \in {"refused", "check"}
          /\ UNCHANGED <<now, exp, revoked_tokens, result>>
      BY <2>2 DEF IsRevoked
    <3> HIDE DEF to
    <3> QED
      BY <3>1, MoveStep DEF Place, Answered, Consumed
  <2>3. CASE ParseBody(r)
    <3>1. PICK to \in {"write", "bad_body"} : Move(r, to)
      BY <2>3 DEF ParseBody
    <3>2. req[r].at = "parse" /\ UNCHANGED <<now, exp, revoked_tokens, result>>
      BY <2>3 DEF ParseBody
    <3> QED
      BY <3>1, <3>2, MoveStep DEF Place, Answered, Consumed
  <2> QED
    BY <1>3, <2>1, <2>2, <2>3, CheckUsedStep, ConsumeStep, WriteStep DEF Handle
<1>4. CASE UNCHANGED vars
  BY <1>4 DEF vars, TokenInv, TypeOK, RequestsNameTokens, ChecksArePassed,
     UsesAreRemembered, ResultsAreAccepted, LateIsTooLate, NewIsNotLate,
     OnlyValidUseConsumes, Consumed, ClaimsMatch, Remembered, Removable
<1> QED
  BY <1>1, <1>2, <1>3, <1>4, RestartStep, TimeStep DEF Next

-----------------------------------------------------------------------------
(* The inductive invariant holds throughout.                               *)
THEOREM Invariant == Spec => []TokenInv
  BY InitInv, NextStep, PTL DEF Spec

(* A stored result was sent with a token of that very task, whose use is   *)
(* in revoked_tokens until the expiry.                                     *)
THEOREM PaidFor == Spec => []StoredResultWasPaidFor
<1>1. TokenInv => StoredResultWasPaidFor
  <2> SUFFICES ASSUME TokenInv, NEW t \in Task, result[t] # NULL
               PROVE  /\ ClaimsMatch(req[result[t]].jti, t)
                      /\ Remembered(req[result[t]].jti)
    BY DEF StoredResultWasPaidFor, Remembered
  <2>1. result[t] \in Request
    BY DEF TokenInv, TypeOK
  <2>2. Consumed(result[t]) /\ req[result[t]].task = t
    BY DEF TokenInv, ResultsAreAccepted, Consumed
  <2> QED
    BY <2>1, <2>2 DEF TokenInv, ChecksArePassed, UsesAreRemembered
<1> QED
  BY <1>1, Invariant, PTL

(* Only a request that passed every check uses a token up.                 *)
THEOREM ValidUse == Spec => []OnlyValidUseConsumes
  BY Invariant, PTL DEF TokenInv

(* A token that was accepted is refused until its expiry, also after a     *)
(* restart and whatever the cleanup does.                                  *)
THEOREM UsedIsRefused == Spec => []UsedTokenRefusedUntilExpiry
<1>1. TokenInv => UsedTokenRefusedUntilExpiry
  BY DEF TokenInv, LateIsTooLate, UsedTokenRefusedUntilExpiry
<1> QED
  BY <1>1, Invariant, PTL
=============================================================================
