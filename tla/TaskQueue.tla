------------------------------ MODULE TaskQueue ------------------------------
(***************************************************************************)
(* The task queue of packages/db/task-queue.ts: one PostgreSQL table, the  *)
(* statements that change it, and everyone who runs them: the Codex        *)
(* runners of apps/worker, the in-process cron worker of                   *)
(* apps/server/src/jobs/scheduler.ts, session callers of /api/tasks-queue, *)
(* and the sweep that recovers stale claims.                               *)
(*                                                                         *)
(* A statement is one atomic step, except the claim: its sub-select locks  *)
(* a row (ClaimSelect) before the update of that row commits               *)
(* (ClaimCommit), and other claims run in between, skipping the lock.      *)
(*                                                                         *)
(* Timestamps are kept relative to NOW(): claim_expires_at is the number   *)
(* of ticks left, -1 once it has passed; next_retry_at is the number of    *)
(* ticks left, 0 once it has come.  Tick lets time pass for all of them.   *)
(***************************************************************************)
EXTENDS Null, Integers, FiniteSets

CONSTANTS
  Task,          \* idempotency keys; a key names at most one row
  Runner,        \* codex workers (agent type "coding")
  CronWorker,    \* in-process cron workers, one per server (agent type "cron")
  Client,        \* session callers of the HTTP API that claim and submit
  RunnerTtl,     \* claim_ttl_seconds of a runner (the default)
  CronTtl,       \* claim_ttl_seconds of the cron worker
  ClientTtl,     \* the values of claim_ttl_seconds that clients ask for
  EnqueueOption, \* [agent_type, priority, max_attempts] of the enqueues made
  PatchStatus    \* the statuses that clients set with PATCH

AgentType == {"coding", "cron"}

Status == {"pending", "claimed", "running", "submitting",
           "completed", "failed", "dead"}

(* The statuses on the right of the state machine in task-queue.ts.        *)
Settled == {"completed", "failed", "dead"}

ASSUME SetsAssumption ==
  /\ NULL \notin Int /\ NULL \notin Task
  /\ NULL \notin Runner \cup CronWorker \cup Client
  /\ Runner \cap CronWorker = {}
  /\ Runner \cap Client = {}
  /\ CronWorker \cap Client = {}

ASSUME FiniteAssumption == IsFiniteSet(Task)

ASSUME TtlAssumption ==
  /\ RunnerTtl \in Nat /\ CronTtl \in Nat
  /\ ClientTtl \subseteq Int /\ \A ttl \in ClientTtl : ttl >= -1

ASSUME OptionAssumption ==
  EnqueueOption \subseteq [agent_type   : AgentType,
                           priority     : Int,
                           max_attempts : Int]

(* POWER(2, attempt) for the attempts that can be retried.                 *)
ASSUME PowerAssumption ==
  \A o \in EnqueueOption : \A a \in 0 .. o.max_attempts : 2 ^ a \in Nat

ASSUME PatchAssumption == PatchStatus \subseteq Status

(* What callers of PATCH must refrain from for claims to be exclusive and  *)
(* for the attempt budget to hold: putting a row back by hand.             *)
NoRequeue == "pending" \notin PatchStatus

(* What they must refrain from for every task to settle.                   *)
OnlySettles == PatchStatus \subseteq Settled

Worker == Runner \cup CronWorker \cup Client

-----------------------------------------------------------------------------
VARIABLES
  task_queue,  \* the table: a row per task, "absent" before its INSERT
  pc,          \* where each worker is
  job          \* the row each worker got from its claim

vars == <<task_queue, pc, job>>

Row == [status           : Status \cup {"absent"},
        agent_type       : AgentType,
        priority         : Int,
        created_at       : Nat,
        attempt          : Nat,
        max_attempts     : {o.max_attempts : o \in EnqueueOption} \cup {0},
        claimed_by       : Worker \cup {NULL},
        claim_expires_at : Int \cup {NULL},
        next_retry_at    : Nat \cup {NULL},
        delegated_token  : {"jwt", NULL},
        result           : {"json", NULL}]

NoRow == [status |-> "absent", agent_type |-> "coding", priority |-> 0,
          created_at |-> 0, attempt |-> 0, max_attempts |-> 0,
          claimed_by |-> NULL, claim_expires_at |-> NULL,
          next_retry_at |-> NULL, delegated_token |-> NULL,
          result |-> NULL]

(* lease is what is left of the claim: no worker reads it, the properties  *)
(* do.                                                                     *)
Job == [task            : Task \cup {NULL},
        attempt         : Nat,
        lease           : Int,
        delegated_token : {"jwt", NULL}]

NoJob == [task |-> NULL, attempt |-> 0, lease |-> -1, delegated_token |-> NULL]

Phase == {"idle", "locked", "executing", "succeeded", "storing", "throwing"}

Exists(t) == task_queue[t].status # "absent"

(* w's claim statement holds the row lock of t.                            *)
Locks(w, t) == pc[w] = "locked" /\ job[w].task = t
(* Mutant: the sub-select has no FOR UPDATE SKIP LOCKED.                   *)
NeverLocked(t) == FALSE

Locked(t)   == \E w \in Worker : Locks(w, t)

(* w has claimed a task and has not finished with it.                      *)
Working(w) == pc[w] \notin {"idle", "locked"}

Put(t, row) == task_queue' = [task_queue EXCEPT ![t] = row]
Goto(w, l)  == pc' = [pc EXCEPT ![w] = l]

Quit(w) == Goto(w, "idle") /\ job' = [job EXCEPT ![w] = NoJob]

Init ==
  /\ task_queue = [t \in Task |-> NoRow]
  /\ pc  = [w \in Worker |-> "idle"]
  /\ job = [w \in Worker |-> NoJob]

-----------------------------------------------------------------------------
(* enqueueTask: INSERT, or the unchanged row if the key is taken.          *)

Inserted(o) == [NoRow EXCEPT
  !.status = "pending",
  !.agent_type = o.agent_type,
  !.priority = o.priority,
  !.max_attempts = o.max_attempts,
  !.created_at = 1 + Cardinality({u \in Task : Exists(u)})]

(* Mutant: ON CONFLICT DO UPDATE in place of the existing row.             *)
EnqueueAgain(t, o) == Put(t, Inserted(o)) /\ UNCHANGED <<pc, job>>

EnqueueTask(t, o) ==
  /\ IF Exists(t) THEN UNCHANGED task_queue ELSE Put(t, Inserted(o))
  /\ UNCHANGED <<pc, job>>

-----------------------------------------------------------------------------
(* claimNextTask, as each kind of worker calls it.                         *)

Serves(w) == IF w \in Runner THEN {"coding"}
             ELSE IF w \in CronWorker THEN {"cron"}
             ELSE AgentType

Ttl(w) == IF w \in Runner THEN {RunnerTtl}
          ELSE IF w \in CronWorker THEN {CronTtl}
          ELSE ClientTtl

(* delegated_token: only an HTTP caller may pass one.                      *)
TokenGiven(w) == IF w \in Client THEN {"jwt", NULL} ELSE {NULL}

(* Mutant: a row that has been recovered is not looked at again.           *)
ClaimableOnce(t, agent) ==
  /\ task_queue[t].agent_type = agent
  /\ task_queue[t].status = "pending"
  /\ task_queue[t].next_retry_at = NULL

Claimable(t, agent) ==
  /\ task_queue[t].agent_type = agent
  /\ task_queue[t].status = "pending"
  /\ task_queue[t].next_retry_at \in {NULL, 0}

(* ORDER BY priority ASC, created_at ASC *)
Precedes(t, u) ==
  LET r == task_queue[t]
      s == task_queue[u]
  IN  \/ r.priority < s.priority
      \/ r.priority = s.priority /\ r.created_at <= s.created_at

(* SELECT id ... LIMIT 1 FOR UPDATE SKIP LOCKED.  NOW() is read here.      *)
ClaimSelect(w) ==
  /\ pc[w] = "idle"
  /\ \E agent \in Serves(w), ttl \in Ttl(w), token \in TokenGiven(w) :
       LET free == {t \in Task : Claimable(t, agent) /\ ~Locked(t)}
       IN  \E t \in free :
             /\ \A u \in free : Precedes(t, u)
             /\ job' = [job EXCEPT ![w] =
                          [task |-> t, attempt |-> 0, lease |-> ttl,
                           delegated_token |-> token]]
  /\ Goto(w, "locked")
  /\ UNCHANGED task_queue

Claimed(row, w) == [row EXCEPT
  !.status = "claimed",
  !.claimed_by = w,
  !.claim_expires_at = job[w].lease,
  !.delegated_token = job[w].delegated_token,
  !.attempt = row.attempt + 1]

(* UPDATE ... WHERE id = (the row selected) RETURNING *                    *)
ClaimCommit(w) ==
  /\ pc[w] = "locked"
  /\ LET t == job[w].task
     IN  /\ Put(t, Claimed(task_queue[t], w))
         /\ job' = [job EXCEPT ![w].attempt = task_queue[t].attempt + 1]
  /\ Goto(w, "executing")

-----------------------------------------------------------------------------
(* updateTaskStatus.  An UPDATE waits for the lock of a claim statement.   *)

StatusSet(row, status, retry) ==
  [row EXCEPT !.status = status, !.next_retry_at = retry]

UpdateTaskStatus(t, status, retry) ==
  /\ Exists(t) /\ ~Locked(t)
  /\ Put(t, StatusSet(task_queue[t], status, retry))

(* submitTaskResult *)
SubmittedResult(row) == [row EXCEPT !.status = "completed", !.result = "json"]

-----------------------------------------------------------------------------
(* A runner: tryClaimAndExecute of runner.ts.                              *)

CodexSucceeds(w) ==
  /\ w \in Runner /\ pc[w] = "executing"
  /\ Goto(w, "succeeded")
  /\ UNCHANGED <<task_queue, job>>

(* Non-zero exit, spawn error, or output that is not JSON.                 *)
CodexFails(w) ==
  /\ w \in Runner /\ pc[w] = "executing"
  /\ Goto(w, "throwing")
  /\ UNCHANGED <<task_queue, job>>

(* "has no delegated token -- cannot submit result".  The branch that does *)
(* submit has no action: claimNextTask leaves a runner without a token.    *)
NoDelegatedToken(w) ==
  /\ w \in Runner /\ pc[w] = "succeeded"
  /\ job[w].delegated_token = NULL
  /\ Goto(w, "throwing")
  /\ UNCHANGED <<task_queue, job>>

(* The catch of the runner and of the cron worker.                         *)
MarkFailed(w) ==
  /\ pc[w] = "throwing"
  /\ UpdateTaskStatus(job[w].task, "failed", NULL)
  /\ Quit(w)

(* The status write of the catch fails; the error is swallowed.            *)
MarkFailedFails(w) ==
  /\ pc[w] = "throwing"
  /\ Quit(w)
  /\ UNCHANGED task_queue

-----------------------------------------------------------------------------
(* The cron worker: processOneCronTask of scheduler.ts.                    *)

(* The executor throws, or there is none for the job type.                 *)
ExecutorFails(w) ==
  /\ w \in CronWorker /\ pc[w] = "executing"
  /\ Goto(w, "throwing")
  /\ UNCHANGED <<task_queue, job>>

(* The executor returns and the task is marked completed.  A failure of    *)
(* that write is swallowed.                                                *)
ExecutorReturns(w) ==
  /\ w \in CronWorker /\ pc[w] = "executing"
  /\ \/ UpdateTaskStatus(job[w].task, "completed", NULL)
     \/ UNCHANGED task_queue
  /\ Goto(w, "storing")
  /\ UNCHANGED job

StoreResult(w) ==
  /\ pc[w] = "storing"
  /\ ~Locked(job[w].task)
  /\ Put(job[w].task, [task_queue[job[w].task] EXCEPT !.result = "json"])
  /\ Quit(w)

StoreResultFails(w) ==
  /\ pc[w] = "storing"
  /\ Goto(w, "throwing")
  /\ UNCHANGED <<task_queue, job>>

-----------------------------------------------------------------------------
(* A session caller.  PATCH and POST .../result look at neither the row's  *)
(* status nor who claimed it; a caller that submits the task it claimed is *)
(* done with it.                                                           *)

PatchTask(c, t, status, retry) ==
  /\ UpdateTaskStatus(t, status, retry)
  /\ UNCHANGED <<pc, job>>

SubmitTaskResult(c, t) ==
  /\ Exists(t) /\ ~Locked(t)
  /\ Put(t, SubmittedResult(task_queue[t]))
  /\ IF Working(c) /\ job[c].task = t THEN Quit(c) ELSE UNCHANGED <<pc, job>>

-----------------------------------------------------------------------------
(* A worker process dies, or gives its task up.  An open claim statement   *)
(* is rolled back; nothing else is written.                                *)
Crash(w) ==
  /\ pc[w] # "idle"
  /\ Quit(w)
  /\ UNCHANGED task_queue

(* recoverStaleClaims: one UPDATE over all rows.                           *)

(* Mutants: an expired claim is enough; a claim is stale in the tick in    *)
(* which it expires; only a row that can be retried is looked at.          *)
StaleWhateverStatus(row) ==
  row.claim_expires_at # NULL /\ row.claim_expires_at < 0

StaleTooSoon(row) ==
  /\ row.status = "claimed"
  /\ row.claim_expires_at # NULL /\ row.claim_expires_at <= 0

StaleIfRetryable(row) ==
  /\ row.status = "claimed" /\ row.attempt < row.max_attempts
  /\ row.claim_expires_at # NULL /\ row.claim_expires_at < 0

Stale(row) ==
  /\ row.status = "claimed"
  /\ row.claim_expires_at # NULL /\ row.claim_expires_at < 0

(* Mutant: one attempt too many.                                           *)
ExhaustedLate(row) == row.attempt > row.max_attempts

Exhausted(row) == row.attempt >= row.max_attempts

(* Mutant: the expiry of the lost claim is not reset.                      *)
RecoveredWithExpiry(row) == [row EXCEPT
  !.status = IF Exhausted(row) THEN "dead" ELSE "pending",
  !.claimed_by = NULL,
  !.delegated_token = NULL,
  !.next_retry_at = IF Exhausted(row) THEN NULL ELSE 2 ^ row.attempt]

Recovered(row) == [row EXCEPT
  !.status = IF Exhausted(row) THEN "dead" ELSE "pending",
  !.claimed_by = NULL,
  !.claim_expires_at = NULL,
  !.delegated_token = NULL,
  !.next_retry_at = IF Exhausted(row) THEN NULL ELSE 2 ^ row.attempt]

RecoverStaleClaims ==
  /\ \E t \in Task : Stale(task_queue[t])
  /\ task_queue' = [t \in Task |-> IF Stale(task_queue[t])
                                   THEN Recovered(task_queue[t])
                                   ELSE task_queue[t]]
  /\ UNCHANGED <<pc, job>>

(* Time passes.                                                            *)

Aged(left, floor) == IF left = NULL \/ left = floor THEN left ELSE left - 1

Older(row) == [row EXCEPT
  !.claim_expires_at = Aged(row.claim_expires_at, -1),
  !.next_retry_at = Aged(row.next_retry_at, 0)]

OlderJob(j) == [j EXCEPT !.lease = Aged(j.lease, -1)]

Tick ==
  /\ task_queue' = [t \in Task |-> Older(task_queue[t])]
  /\ job' = [w \in Worker |-> OlderJob(job[w])]
  /\ <<task_queue', job'>> # <<task_queue, job>>
  /\ UNCHANGED pc

-----------------------------------------------------------------------------
RunnerStep(w) == CodexSucceeds(w) \/ CodexFails(w) \/ NoDelegatedToken(w)

CronStep(w) == \/ ExecutorFails(w) \/ ExecutorReturns(w)
               \/ StoreResult(w) \/ StoreResultFails(w)

CatchStep(w) == MarkFailed(w) \/ MarkFailedFails(w)

ClientStep(c) ==
  \E t \in Task :
    \/ \E s \in PatchStatus, retry \in {NULL, 1} : PatchTask(c, t, s, retry)
    \/ SubmitTaskResult(c, t)

Next ==
  \/ \E t \in Task, o \in EnqueueOption : EnqueueTask(t, o)
  \/ \E w \in Worker :
       \/ ClaimSelect(w) \/ ClaimCommit(w)
       \/ RunnerStep(w) \/ CronStep(w) \/ CatchStep(w)
       \/ Crash(w)
  \/ \E c \in Client : ClientStep(c)
  \/ RecoverStaleClaims
  \/ Tick

Spec == Init /\ [][Next]_vars

(* Time passes and the recovery timer of the server keeps firing.          *)
RecoveryFairness == WF_vars(Tick) /\ WF_vars(RecoverStaleClaims)

(* A claim statement that is started over and over commits at last.        *)
(* Runners and cron workers poll; a subprocess or an executor ends; what   *)
(* follows is straight-line code.  Nothing is asked of the clients.        *)
WorkerFairness ==
  /\ \A w \in Worker : SF_vars(ClaimCommit(w))
  /\ \A w \in Runner \cup CronWorker :
       /\ WF_vars(ClaimSelect(w))
       /\ WF_vars(RunnerStep(w) \/ CronStep(w) \/ CatchStep(w))

RecoverySpec == Spec /\ RecoveryFairness
FairSpec     == Spec /\ RecoveryFairness /\ WorkerFairness

-----------------------------------------------------------------------------
(* Every row and every worker's copy of one has the types of the schema.   *)
TypeOK ==
  /\ task_queue \in [Task -> Row]
  /\ pc \in [Worker -> Phase]
  /\ job \in [Worker -> Job]

(* claimNextTask's exactly-one-winner, carried over time: two workers never*)
(* execute one task while both their claims are live, whoever crashes,     *)
(* stalls, recovers or retries.  It needs NoRequeue.                       *)
ExclusiveClaims ==
  \A v, w \in Worker :
    (v # w /\ Working(v) /\ Working(w) /\ job[v].task = job[w].task)
      => (job[v].lease < 0 \/ job[w].lease < 0)

(* max_attempts bounds the claims of a row, and a row that has used them   *)
(* up never waits for another (the first claim is never refused, even with *)
(* max_attempts = 0).  It needs NoRequeue.                                 *)
Budget(row) == IF row.max_attempts < 1 THEN 1 ELSE row.max_attempts

AttemptBudget ==
  \A t \in Task :
    LET row == task_queue[t]
    IN  Exists(t) => /\ row.attempt <= Budget(row)
                     /\ row.status = "pending" => row.attempt < Budget(row)

(* A task that has settled is never queued or claimed again, although its  *)
(* row keeps the expiry of its last claim and its key may be enqueued      *)
(* again.  It needs OnlySettles.                                           *)
SettledStaysSettled ==
  [][\A t \in Task : task_queue[t].status \in Settled
                       => task_queue'[t].status \in Settled]_vars

(* While a worker's claim is live, its row is neither back in the queue    *)
(* nor claimed by someone else: only an expired claim is ever taken away.  *)
(* It needs NoRequeue.                                                     *)
LiveClaimIsKept ==
  \A w \in Worker :
    (Working(w) /\ job[w].lease >= 0)
      => LET row == task_queue[job[w].task]
         IN  row.status # "pending" /\ row.attempt = job[w].attempt

(* No claim lasts forever: stale-claim recovery takes the row of a crashed *)
(* or hung worker back, whatever the workers do.  It needs OnlySettles.    *)
ClaimsEnd ==
  \A t \in Task : task_queue[t].status = "claimed"
                    ~> task_queue[t].status # "claimed"

(* Every enqueued task is completed, failed or dead in the end.            *)
(* It needs OnlySettles.                                                   *)
EveryTaskSettles ==
  \A t \in Task : Exists(t) ~> task_queue[t].status \in Settled

(***************************************************************************)
(* Why claims are exclusive.  The row lock of a claim statement keeps its  *)
(* row pending and is held by one worker; a pending row has no expiry; a   *)
(* live claim is the one the row records, with the same attempt number and *)
(* the same expiry; and no two claims of a row have the same number.       *)
(***************************************************************************)
LocksArePending ==
  \A w \in Worker :
    /\ pc[w] # "idle" => job[w].task \in Task /\ Exists(job[w].task)
    /\ pc[w] = "locked" => task_queue[job[w].task].status = "pending"

LocksAreExclusive ==
  \A v, w \in Worker :
    (v # w /\ pc[v] = "locked" /\ pc[w] = "locked") => job[v].task # job[w].task

PendingHasNoExpiry ==
  \A t \in Task : task_queue[t].status = "pending"
                    => task_queue[t].claim_expires_at = NULL

LiveClaimIsTheRows ==
  \A w \in Worker :
    Working(w) =>
      LET row == task_queue[job[w].task]
      IN  /\ job[w].attempt <= row.attempt
          /\ job[w].lease >= 0 => /\ job[w].attempt = row.attempt
                                  /\ job[w].lease = row.claim_expires_at

ClaimsAreNumbered ==
  \A v, w \in Worker :
    (v # w /\ Working(v) /\ Working(w) /\ job[v].task = job[w].task)
      => job[v].attempt # job[w].attempt

(* The inductive invariant.  It needs NoRequeue.                           *)
ClaimInv ==
  /\ LocksArePending
  /\ LocksAreExclusive
  /\ PendingHasNoExpiry
  /\ LiveClaimIsTheRows
  /\ ClaimsAreNumbered

-----------------------------------------------------------------------------
(* What comments of the code say of it, and the code does not do.          *)

(* runner.ts, on a successful run: "Submit result via API using the        *)
(* delegated token embedded in the task row".                              *)
RunnerCanSubmit ==
  \A w \in Runner : pc[w] = "succeeded" => job[w].delegated_token # NULL
=============================================================================
