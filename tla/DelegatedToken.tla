--------------------------- MODULE DelegatedToken ---------------------------
(***************************************************************************)
(* POST /api/tasks/:id/result: requests that present a delegated token,    *)
(* verified by verifyDelegatedToken (auth/delegated-token.ts) on top of    *)
(* verifyJwt (auth/jwt.ts) and the table revoked_tokens (db/revocation.ts),*)
(* which a timer cleans up.  Every query is awaited, so any number of      *)
(* requests are between two queries at any moment.                         *)
(*                                                                         *)
(* Time is counted in half seconds: exp is a whole second, verifyJwt       *)
(* compares it with the second NOW() is in, the cleanup with NOW() itself. *)
(***************************************************************************)
EXTENDS Integers

CONSTANTS
  Request,   \* requests to the endpoint, each handled once
  Jti,       \* tokens that may be issued
  Task,      \* the rows of task_queue
  TaskOf,    \* the task_id that a token carries
  Foreign,   \* tokens whose agent_type, sub or scope is not the task's
  NULL,      \* no value
  TtlSeconds,\* lifetime of a token
  MaxNow     \* bound: the last half second looked at

ASSUME TokenAssumption ==
  /\ TaskOf \in [Jti -> Task] /\ Foreign \subseteq Jti
  /\ NULL \notin Request \cup Jti \cup Task \cup Int
  /\ TtlSeconds \in Nat /\ MaxNow \in Nat

VARIABLES
  now,             \* half seconds
  exp,             \* exp of each token, NULL until it is issued
  revoked_tokens,  \* the jtis in the table
  result,          \* per task, the request whose body is stored
  req              \* per request, its token, its task and where it is

vars == <<now, exp, revoked_tokens, result, req>>

(* late and seen_at record, for the properties, whether the token had been *)
(* accepted before the request came in, and when its use was looked up.    *)
NewRequest == [at |-> "new", jti |-> NULL, task |-> NULL,
               late |-> FALSE, seen_at |-> 0]

Second == now \div 2

Answered == {"accepted", "refused", "bad_body", "lost"}

(* The token has been consumed by this request.                            *)
Consumed(r) == req[r].at \in {"parse", "write", "accepted", "bad_body"}

Init ==
  /\ now = 0
  /\ exp = [j \in Jti |-> NULL]
  /\ revoked_tokens = {}
  /\ result = [t \in Task |-> NULL]
  /\ req = [r \in Request |-> NewRequest]

Move(r, to) == req' = [req EXCEPT ![r].at = to]

-----------------------------------------------------------------------------
(* issueDelegatedToken: exp = the current second + the lifetime.           *)
Issue(j) ==
  /\ exp[j] = NULL
  /\ exp' = [exp EXCEPT ![j] = Second + TtlSeconds]
  /\ UNCHANGED <<now, revoked_tokens, result, req>>

(* A request comes in and the task row of its path is read.                *)
Receive(r, j, t) ==
  /\ req[r].at = "new" /\ exp[j] # NULL
  /\ req' = [req EXCEPT ![r] =
       [at |-> "verify", jti |-> j, task |-> t,
        late |-> \E s \in Request : req[s].at = "accepted" /\ req[s].jti = j,
        seen_at |-> 0]]
  /\ UNCHANGED <<now, exp, revoked_tokens, result>>

(* verifyJwt: "Token expired" if exp < floor(now).                         *)
Expired(j) == exp[j] < Second

CheckExpiry(r) ==
  /\ req[r].at = "verify"
  /\ Move(r, IF Expired(req[r].jti) THEN "refused" ELSE "is_revoked")
  /\ UNCHANGED <<now, exp, revoked_tokens, result>>

(* verifyJwt: "Token revoked".                                             *)
IsRevoked(r) ==
  /\ req[r].at = "is_revoked"
  /\ Move(r, IF req[r].jti \in revoked_tokens THEN "refused" ELSE "check")
  /\ UNCHANGED <<now, exp, revoked_tokens, result>>

(* Checks 3 to 6.                                                          *)
ClaimsMatch(j, t) == TaskOf[j] = t /\ j \notin Foreign

(* Mutant: checks 3 to 6 are left out.                                     *)
CheckUsedOnly(r) ==
  /\ req[r].at = "check"
  /\ req' = [req EXCEPT
       ![r].at = IF req[r].jti \notin revoked_tokens THEN "consume" ELSE "refused",
       ![r].seen_at = now]
  /\ UNCHANGED <<now, exp, revoked_tokens, result>>

(* verifyDelegatedToken: the jti is looked up again, then checks 3 to 6.   *)
CheckUsed(r) ==
  /\ req[r].at = "check"
  /\ LET j  == req[r].jti
         ok == j \notin revoked_tokens /\ ClaimsMatch(j, req[r].task)
     IN  req' = [req EXCEPT ![r] = [@ EXCEPT
                   !.at = IF ok THEN "consume" ELSE "refused", !.seen_at = now]]
  /\ UNCHANGED <<now, exp, revoked_tokens, result>>

(* Mutant: nothing is inserted.                                            *)
ConsumeNothing(r) ==
  /\ req[r].at = "consume"
  /\ Move(r, "parse")
  /\ UNCHANGED <<now, exp, revoked_tokens, result>>

(* INSERT ... ON CONFLICT (jti) DO NOTHING; nobody looks at the outcome.   *)
Consume(r) ==
  /\ req[r].at = "consume"
  /\ revoked_tokens' = revoked_tokens \cup {req[r].jti}
  /\ Move(r, "parse")
  /\ UNCHANGED <<now, exp, result>>

(* The body is read only now; one that is not JSON is answered with 400.   *)
ParseBody(r) ==
  /\ req[r].at = "parse"
  /\ \E to \in {"write", "bad_body"} : Move(r, to)
  /\ UNCHANGED <<now, exp, revoked_tokens, result>>

(* UPDATE task_queue SET status = 'completed', result = ...                *)
WriteResult(r) ==
  /\ req[r].at = "write"
  /\ result' = [result EXCEPT ![req[r].task] = r]
  /\ Move(r, "accepted")
  /\ UNCHANGED <<now, exp, revoked_tokens>>

(* The server stops: its requests in flight are lost.                      *)
Restart ==
  /\ \E r \in Request : req[r].at \notin Answered \cup {"new"}
  /\ req' = [r \in Request |->
               IF req[r].at \in Answered \cup {"new"} THEN req[r]
               ELSE [req[r] EXCEPT !.at = "lost"]]
  /\ UNCHANGED <<now, exp, revoked_tokens, result>>

(* Mutant: DELETE ... WHERE expires_at <= NOW().                           *)
RemovableAtExpiry(j) == 2 * exp[j] <= now

(* cleanupExpiredRevocations: DELETE ... WHERE expires_at < NOW().         *)
Removable(j) == 2 * exp[j] < now

CleanupExpiredRevocations ==
  /\ \E j \in revoked_tokens : Removable(j)
  /\ revoked_tokens' = {j \in revoked_tokens : ~Removable(j)}
  /\ UNCHANGED <<now, exp, result, req>>

Tick ==
  /\ now < MaxNow
  /\ now' = now + 1
  /\ UNCHANGED <<exp, revoked_tokens, result, req>>

Handle(r) ==
  \/ CheckExpiry(r) \/ IsRevoked(r) \/ CheckUsed(r)
  \/ Consume(r) \/ ParseBody(r) \/ WriteResult(r)

Next ==
  \/ \E j \in Jti : Issue(j)
  \/ \E r \in Request, j \in Jti, t \in Task : Receive(r, j, t)
  \/ \E r \in Request : Handle(r)
  \/ Restart
  \/ CleanupExpiredRevocations
  \/ Tick

Spec == Init /\ [][Next]_vars

-----------------------------------------------------------------------------
TypeOK ==
  /\ now \in 0 .. MaxNow
  /\ exp \in [Jti -> Nat \cup {NULL}]
  /\ revoked_tokens \subseteq Jti
  /\ result \in [Task -> Request \cup {NULL}]
  /\ req \in [Request ->
       [at : Answered \cup {"new", "verify", "is_revoked", "check", "consume",
                            "parse", "write"},
        jti : Jti \cup {NULL}, task : Task \cup {NULL},
        late : BOOLEAN, seen_at : Nat]]

(* A stored result was sent with a token of that very task, and the token  *)
(* was in revoked_tokens before the result was in the row: it is there     *)
(* still, unless its expiry has passed and the cleanup took it.            *)
StoredResultWasPaidFor ==
  \A t \in Task :
    result[t] # NULL =>
      LET j == req[result[t]].jti
      IN  ClaimsMatch(j, t) /\ (j \in revoked_tokens \/ Removable(j))

(* Presenting a token at the wrong task, or one that is not meant for      *)
(* results, does not use it up: whatever is in revoked_tokens was consumed *)
(* by a request that passed all six checks.                                *)
OnlyValidUseConsumes ==
  \A j \in revoked_tokens :
    /\ j \notin Foreign
    /\ \E r \in Request : /\ req[r].jti = j /\ req[r].task = TaskOf[j]
                          /\ Consumed(r) \/ req[r].at = "lost"

(* Up to the expiry of the token, its use is remembered: a request that    *)
(* comes in after the token was accepted, and is looked up before the      *)
(* expiry, is turned away -- also across a restart.                        *)
UsedTokenRefusedUntilExpiry ==
  \A r \in Request :
    (req[r].late /\ Consumed(r)) => req[r].seen_at > 2 * exp[req[r].jti]

-----------------------------------------------------------------------------
(* What the header of delegated-token.ts says.                             *)

(* "authorises exactly one worker result submission"                       *)
SingleUse ==
  \A r, s \in Request :
    (req[r].at = "accepted" /\ req[s].at = "accepted" /\ req[r].jti = req[s].jti)
      => r = s

=============================================================================
