----------------------------- MODULE CronSchedule -----------------------------
(***************************************************************************)
(* The recurring jobs of apps/server/src/jobs: every server schedules all  *)
(* of them and enqueues a task under the key of the present window, which  *)
(* only the first one inserts; every server has an in-process worker that  *)
(* claims and executes tasks of agent type cron.                           *)
(*                                                                         *)
(* Of the queue (module TaskQueue) only what these tasks need is kept: one *)
(* attempt is all they get, and their two last writes are one step.  Time  *)
(* is in instants at which a schedule may be due; a claim lasts one.       *)
(***************************************************************************)
EXTENDS Naturals

CONSTANTS
  Server,
  Job,      \* validation-sweep, audit-digest, ...
  Period,   \* per job: how many instants a window has
  AtStart,  \* jobs that a server also enqueues when it starts
  MaxNow    \* bound: the last instant

ASSUME PeriodAssumption == Period \in [Job -> Nat \ {0}] /\ AtStart \subseteq Job

VARIABLES
  now,
  up,     \* servers that run
  fired,  \* per server: the schedules that have fired in this instant
  tasks,  \* per key: the status of its row, "absent" before the INSERT
  claim,  \* per key: the instant at which its claim expires
  worker, \* per server: the key that its worker executes, Free: workerRunning is false
  begun   \* history: how often the execution of a key began

cronVars == <<now, up, fired, tasks, claim, worker, begun>>

(* <job>:<floor(now / period)>                                             *)
Key == {k \in Job \X (0 .. MaxNow) : k[2] * Period[k[1]] <= MaxNow}

WindowKey(j) == <<j, now \div Period[j]>>

(* The job of no key.                                                      *)
Free == <<>>

CronInit ==
  /\ now = 0
  /\ up = {}
  /\ fired = [s \in Server |-> {}]
  /\ tasks = [k \in Key |-> "absent"]
  /\ claim = [k \in Key |-> 0]
  /\ worker = [s \in Server |-> Free]
  /\ begun = [k \in Key |-> 0]

(* Mutant: a conflict puts the row back.                                   *)
EnqueueAnew(keys) == [k \in Key |-> IF k \in keys THEN "pending" ELSE tasks[k]]

(* enqueueTask: INSERT ... ON CONFLICT (idempotency_key) DO NOTHING.       *)
Enqueue(keys) ==
  [k \in Key |-> IF k \in keys /\ tasks[k] = "absent" THEN "pending" ELSE tasks[k]]

(* startCronScheduler.  The instant it starts in is past for its           *)
(* schedules; the INSERT of the job enqueued at start may fail.            *)
StartCronScheduler(s) ==
  /\ s \notin up
  /\ up' = up \cup {s}
  /\ fired' = [fired EXCEPT ![s] = Job]
  /\ tasks' \in {tasks, Enqueue({WindowKey(j) : j \in AtStart})}
  /\ UNCHANGED <<now, claim, worker, begun>>

Due == {j \in Job : now % Period[j] = 0}

(* A schedule fires; when the INSERT fails it is logged, and that is all.  *)
Fire(s, j) ==
  /\ s \in up /\ j \in Due \ fired[s]
  /\ fired' = [fired EXCEPT ![s] = @ \cup {j}]
  /\ tasks' \in {tasks, Enqueue({WindowKey(j)})}
  /\ UNCHANGED <<now, up, claim, worker, begun>>

Minute ==
  /\ now < MaxNow
  /\ \A s \in up : Due \subseteq fired[s]
  /\ now' = now + 1
  /\ fired' = [s \in Server |-> {}]
  /\ UNCHANGED <<up, tasks, claim, worker, begun>>

(* processOneCronTask, unless workerRunning: the claim.                    *)
ProcessOneCronTask(s) ==
  /\ s \in up /\ worker[s] = Free
  /\ \E k \in Key :
       /\ tasks[k] = "pending"
       /\ tasks' = [tasks EXCEPT ![k] = "claimed"]
       /\ claim' = [claim EXCEPT ![k] = now + 1]
       /\ worker' = [worker EXCEPT ![s] = k]
       /\ begun' = [begun EXCEPT ![k] = @ + 1]
  /\ UNCHANGED <<now, up, fired>>

(* The executor returns or throws; the status is written whatever it is by *)
(* now, or the write fails and is swallowed.                               *)
Finish(s) ==
  /\ worker[s] # Free
  /\ \E status \in {"completed", "failed", tasks[worker[s]]} :
       tasks' = [tasks EXCEPT ![worker[s]] = status]
  /\ worker' = [worker EXCEPT ![s] = Free]
  /\ UNCHANGED <<now, up, fired, claim, begun>>

(* recoverStaleClaims: max_attempts is 1, and the claim was the first.     *)
Recover ==
  /\ up # {}
  /\ \E k \in Key : tasks[k] = "claimed" /\ claim[k] < now
  /\ tasks' = [k \in Key |-> IF tasks[k] = "claimed" /\ claim[k] < now THEN "dead" ELSE tasks[k]]
  /\ UNCHANGED <<now, up, fired, claim, worker, begun>>

(* A server ends, with what its worker was doing.                          *)
StopServer(s) ==
  /\ s \in up
  /\ up' = up \ {s}
  /\ worker' = [worker EXCEPT ![s] = Free]
  /\ UNCHANGED <<now, fired, tasks, claim, begun>>

CronNext ==
  \/ Minute \/ Recover
  \/ \E s \in Server :
       \/ StartCronScheduler(s) \/ StopServer(s)
       \/ ProcessOneCronTask(s) \/ Finish(s)
       \/ \E j \in Job : Fire(s, j)

CronSpec == CronInit /\ [][CronNext]_cronVars

-----------------------------------------------------------------------------
(* However many servers schedule a window, stop, start again and recover   *)
(* each other's claims, its job is begun at most once -- also when a row   *)
(* is settled late, over what recovery made of it.                         *)
OneRunPerWindow == \A k \in Key : begun[k] <= 1
=============================================================================
