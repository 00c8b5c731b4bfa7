--------------------------- MODULE TaskQueueProofs ---------------------------
(***************************************************************************)
(* Proofs about TaskQueue, for every set of tasks, workers, options, claim *)
(* durations and patched statuses that the assumptions of TaskQueue allow. *)
(***************************************************************************)
EXTENDS TaskQueueLifecycle, FiniteSetTheorems, TLAPS

(* Job a worker holds while it is not idle.                                *)
JobsNameTasks == \A w \in Worker : pc[w] # "idle" => job[w].task \in Task

TypeInv == TypeOK /\ JobsNameTasks

-----------------------------------------------------------------------------
(* The row operators yield rows.                                           *)

(* What the table holds of a key before its INSERT is a row.               *)
LEMMA NoRowIsRow == NoRow \in Row
  BY DEF NoRow, Row, AgentType

(* An INSERT yields a row for each of the options.                         *)
LEMMA InsertedIsRow ==
  ASSUME NEW o \in EnqueueOption
  PROVE  Inserted(o) \in Row
<1>1. Cardinality({u \in Task : Exists(u)}) \in Nat
  BY FS_Subset, FS_CardinalityType, FiniteAssumption
<1>2. /\ o.agent_type \in AgentType /\ o.priority \in Int
      /\ o.max_attempts \in {p.max_attempts : p \in EnqueueOption}
  BY OptionAssumption
<1> DEFINE Limits == {p.max_attempts : p \in EnqueueOption} \cup {0}
<1>3. ASSUME NEW row \in Row, NEW n \in Nat
      PROVE  [row EXCEPT
                !.status = "pending",
                !.agent_type = o.agent_type,
                !.priority = o.priority,
                !.max_attempts = o.max_attempts,
                !.created_at = 1 + n] \in Row
  <2>1. o.max_attempts \in Limits /\ 1 + n \in Nat /\ "pending" \in Status
    BY <1>2 DEF Status
  <2> QED
    BY <1>2, <2>1 DEF Row
<1> QED
  BY <1>1, <1>3, NoRowIsRow DEF Inserted

(* So does an update of the status, ...                                    *)
LEMMA StatusSetIsRow ==
  ASSUME NEW row \in Row, NEW s \in Status, NEW retry \in Nat \cup {NULL}
  PROVE  StatusSet(row, s, retry) \in Row
  BY DEF StatusSet, Row

(* ... the recovery, whose back-off is a power of two within the budget,   *)
(* ...                                                                     *)
LEMMA RecoveredIsRow ==
  ASSUME NEW row \in Row
  PROVE  Recovered(row) \in Row
<1>1. CASE Exhausted(row)
  BY <1>1 DEF Recovered, Row, Status
<1>2. CASE ~Exhausted(row)
  <2>1. row.attempt \in Nat /\ row.attempt < row.max_attempts
    BY <1>2, OptionAssumption DEF Exhausted, Row
  <2>2. PICK o \in EnqueueOption : row.max_attempts = o.max_attempts
    BY <2>1 DEF Row
  <2>3. 2 ^ row.attempt \in Nat
    BY <2>1, <2>2, PowerAssumption, OptionAssumption
  <2> QED
    BY <1>2, <2>3 DEF Recovered, Row, Status
<1> QED
  BY <1>1, <1>2

(* ... and the passing of time.                                            *)
LEMMA OlderIsRow ==
  ASSUME NEW row \in Row
  PROVE  Older(row) \in Row
<1>1. Aged(row.claim_expires_at, -1) \in Int \cup {NULL}
  BY DEF Aged, Row
<1>2. Aged(row.next_retry_at, 0) \in Nat \cup {NULL}
  BY DEF Aged, Row
<1> QED
  BY <1>1, <1>2 DEF Older, Row

-----------------------------------------------------------------------------
(* Every row and every worker's copy of one is well typed, and a worker    *)
(* that is not idle names a task.                                          *)

(* The empty table and idle workers are well typed.                        *)
LEMMA InitTypes == Init => TypeInv
<1>1. NoJob \in Job
  BY DEF NoJob, Job
<1> QED
  BY <1>1, NoRowIsRow DEF Init, TypeInv, TypeOK, JobsNameTasks, Phase

(* A worker that quits keeps the types, if the table does.                 *)
LEMMA QuitTypes ==
  ASSUME TypeInv, NEW w \in Worker, Quit(w),
         task_queue' \in [Task -> Row]
  PROVE  TypeInv'
  BY DEF TypeInv, TypeOK, JobsNameTasks, Quit, Goto, NoJob, Job, Phase

(* So does a worker that goes on with its job.                             *)
LEMMA GotoTypes ==
  ASSUME TypeInv, NEW w \in Worker, pc[w] # "idle",
         NEW l \in Phase, Goto(w, l), UNCHANGED job,
         task_queue' \in [Task -> Row]
  PROVE  TypeInv'
  BY DEF TypeInv, TypeOK, JobsNameTasks, Goto

(* updateTaskStatus writes a row.                                          *)
LEMMA UpdateTypes ==
  ASSUME TypeInv, NEW t \in Task, NEW s \in Status,
         NEW retry \in Nat \cup {NULL}, UpdateTaskStatus(t, s, retry)
  PROVE  task_queue' \in [Task -> Row]
  BY StatusSetIsRow DEF TypeInv, TypeOK, UpdateTaskStatus, Put

(* The two halves of a claim keep the types.                               *)
LEMMA ClaimTypes ==
  ASSUME TypeInv, NEW w \in Worker, ClaimSelect(w) \/ ClaimCommit(w)
  PROVE  TypeInv'
<1>1. CASE ClaimSelect(w)
  <2>1. PICK ttl \in Ttl(w), token \in TokenGiven(w), t \in Task :
          job' = [job EXCEPT ![w] = [task |-> t, attempt |-> 0, lease |-> ttl,
                                     delegated_token |-> token]]
    BY <1>1 DEF ClaimSelect
  <2>2. ttl \in Int /\ token \in {"jwt", NULL}
    BY TtlAssumption DEF Ttl, TokenGiven
  <2> QED
    BY <1>1, <2>1, <2>2
    DEF ClaimSelect, Goto, TypeInv, TypeOK, JobsNameTasks, Job, Phase
<1>2. CASE ClaimCommit(w)
  <2> DEFINE t == job[w].task
  <2>1. t \in Task /\ job[w] \in Job /\ task_queue[t] \in Row
    BY <1>2 DEF ClaimCommit, TypeInv, TypeOK, JobsNameTasks
  <2>2. Claimed(task_queue[t], w) \in Row
    <3>1. /\ job[w].lease \in Int \cup {NULL}
          /\ job[w].delegated_token \in {"jwt", NULL}
          /\ task_queue[t].attempt + 1 \in Nat
          /\ "claimed" \in Status
      BY <2>1 DEF Job, Row, Status
    <3> QED
      BY <2>1, <3>1 DEF Claimed, Row
  <2>3. task_queue' \in [Task -> Row]
    BY <1>2, <2>1, <2>2 DEF ClaimCommit, Put, TypeInv, TypeOK
  <2>4. job' = [job EXCEPT ![w].attempt = task_queue[t].attempt + 1]
    BY <1>2 DEF ClaimCommit
  <2>5. task_queue[t].attempt + 1 \in Nat
    BY <2>1 DEF Row
  <2>6. job' \in [Worker -> Job] /\ job'[w].task = job[w].task
    BY <2>1, <2>4, <2>5 DEF TypeInv, TypeOK, Job
  <2> QED
    BY <1>2, <2>1, <2>3, <2>4, <2>6
    DEF ClaimCommit, Goto, TypeInv, TypeOK, JobsNameTasks, Phase
<1> QED
  BY <1>1, <1>2

(* Every step keeps the types.                                             *)
LEMMA StepTypes == TypeInv /\ [Next]_vars => TypeInv'
<1> SUFFICES ASSUME TypeInv, [Next]_vars
             PROVE  TypeInv'
  OBVIOUS
<1> USE DEF TypeInv
<1>0. ASSUME NEW w \in Worker, pc[w] # "idle"
      PROVE  job[w].task \in Task /\ task_queue[job[w].task] \in Row
  BY <1>0 DEF JobsNameTasks, TypeOK
<1>1. ASSUME NEW t \in Task, NEW o \in EnqueueOption, EnqueueTask(t, o)
      PROVE  TypeInv'
  BY <1>1, InsertedIsRow DEF EnqueueTask, Put, TypeOK, JobsNameTasks
<1>2. ASSUME NEW w \in Worker, ClaimSelect(w) \/ ClaimCommit(w)
      PROVE  TypeInv'
  BY <1>2, ClaimTypes
<1>3. ASSUME NEW w \in Worker, RunnerStep(w)
      PROVE  TypeInv'
  BY <1>3, GotoTypes
  DEF RunnerStep, CodexSucceeds, CodexFails, NoDelegatedToken, TypeOK, Phase
<1>4. ASSUME NEW w \in Worker, CronStep(w)
      PROVE  TypeInv'
  <2>1. CASE ExecutorFails(w)
    BY <2>1, GotoTypes DEF ExecutorFails, TypeOK, Phase
  <2>2. CASE ExecutorReturns(w)
    <3>1. pc[w] # "idle" /\ job[w].task \in Task
      BY <2>2, <1>0 DEF ExecutorReturns
    <3>2. task_queue' \in [Task -> Row]
      BY <2>2, <3>1, UpdateTypes DEF ExecutorReturns, TypeOK, Status
    <3> QED
      BY <2>2, <3>1, <3>2, GotoTypes DEF ExecutorReturns, Phase
  <2>3. CASE StoreResult(w)
    <3>1. task_queue' \in [Task -> Row]
      BY <2>3, <1>0 DEF StoreResult, Put, TypeOK, Row
    <3> QED
      BY <2>3, <3>1, QuitTypes DEF StoreResult
  <2>4. CASE StoreResultFails(w)
    BY <2>4, GotoTypes DEF StoreResultFails, TypeOK, Phase
  <2> QED
    BY <1>4, <2>1, <2>2, <2>3, <2>4 DEF CronStep
<1>5. ASSUME NEW w \in Worker, CatchStep(w)
      PROVE  TypeInv'
  <2>1. CASE MarkFailed(w)
    <3>1. task_queue' \in [Task -> Row]
      BY <2>1, <1>0, UpdateTypes DEF MarkFailed, Status
    <3> QED
      BY <2>1, <3>1, QuitTypes DEF MarkFailed
  <2>2. CASE MarkFailedFails(w)
    BY <2>2, QuitTypes DEF MarkFailedFails, TypeOK
  <2> QED
    BY <1>5, <2>1, <2>2 DEF CatchStep
<1>6. ASSUME NEW w \in Worker, Crash(w)
      PROVE  TypeInv'
  BY <1>6, QuitTypes DEF Crash, TypeOK
<1>7. ASSUME NEW c \in Client, ClientStep(c)
      PROVE  TypeInv'
  <2>1. c \in Worker
    BY DEF Worker
  <2>2. PICK t \in Task :
          \/ \E s \in PatchStatus, retry \in {NULL, 1} : PatchTask(c, t, s, retry)
          \/ SubmitTaskResult(c, t)
    BY <1>7 DEF ClientStep
  <2>3. ASSUME NEW s \in PatchStatus, NEW retry \in {NULL, 1},
               PatchTask(c, t, s, retry)
        PROVE  TypeInv'
    <3>1. task_queue' \in [Task -> Row]
      BY <2>3, UpdateTypes, PatchAssumption DEF PatchTask
    <3> QED
      BY <2>3, <3>1 DEF PatchTask, TypeOK, JobsNameTasks
  <2>4. CASE SubmitTaskResult(c, t)
    <3>1. task_queue' \in [Task -> Row]
      <4>1. task_queue[t] \in Row
        BY DEF TypeOK
      <4>2. SubmittedResult(task_queue[t]) \in Row
        BY <4>1 DEF SubmittedResult, Row, Status
      <4> QED
        BY <2>4, <4>2 DEF SubmitTaskResult, Put, TypeOK
    <3> QED
      BY <2>1, <2>4, <3>1, QuitTypes DEF SubmitTaskResult, TypeOK, JobsNameTasks
  <2> QED
    BY <2>2, <2>3, <2>4
<1>8. CASE RecoverStaleClaims
  BY <1>8, RecoveredIsRow DEF RecoverStaleClaims, TypeOK, JobsNameTasks
<1>9. CASE Tick
  <2>1. task_queue' \in [Task -> Row]
    BY <1>9, OlderIsRow DEF Tick, TypeOK
  <2>2. ASSUME NEW w \in Worker
        PROVE  /\ OlderJob(job[w]) \in Job
               /\ OlderJob(job[w]).task = job[w].task
    BY SetsAssumption DEF OlderJob, Aged, Job, TypeOK
  <2> QED
    BY <1>9, <2>1, <2>2 DEF Tick, TypeOK, JobsNameTasks
<1>10. CASE UNCHANGED vars
  BY <1>10 DEF vars, TypeOK, JobsNameTasks
<1> QED
  BY <1>1, <1>2, <1>3, <1>4, <1>5, <1>6, <1>7, <1>8, <1>9, <1>10 DEF Next

(* The types of the schema hold for every row in every reachable state.    *)
THEOREM TypeCorrect == Spec => [](TypeOK /\ JobsNameTasks)
<1>1. Spec => []TypeInv
  BY InitTypes, StepTypes, PTL DEF Spec
<1> QED
  BY <1>1, PTL DEF TypeInv

-----------------------------------------------------------------------------
(***************************************************************************)
(* Claims are exclusive.  Most steps are quiet: they leave the attempt and *)
(* the expiry of existing rows alone, put no row back, do not touch the    *)
(* status of a locked row, and a worker's job only goes away.  The steps   *)
(* that are not are the two halves of a claim, the recovery and Tick.      *)
(***************************************************************************)

RowsQuiet ==
  \A t \in Task :
    /\ Exists(t) =>
         /\ task_queue'[t].status # "absent"
         /\ task_queue'[t].attempt = task_queue[t].attempt
         /\ task_queue'[t].claim_expires_at = task_queue[t].claim_expires_at
         /\ task_queue'[t].status = "pending" => task_queue[t].status = "pending"
         /\ Locked(t) => task_queue'[t].status = task_queue[t].status
    /\ (~Exists(t) /\ task_queue'[t].status = "pending")
         => task_queue'[t].claim_expires_at = NULL

JobsQuiet ==
  \A w \in Worker :
    \/ pc'[w] = "idle"
    \/ /\ pc[w] # "idle" /\ job'[w] = job[w]
       /\ pc'[w] = "locked" <=> pc[w] = "locked"

(* Quiet rows and quiet jobs keep ClaimInv.                                *)
LEMMA QuietStep ==
  ASSUME TypeInv, ClaimInv, RowsQuiet, JobsQuiet
  PROVE  ClaimInv'
<1>1. LocksArePending'
  BY DEF ClaimInv, LocksArePending, RowsQuiet, JobsQuiet, Exists, Locked, Locks
<1>2. LocksAreExclusive'
  BY DEF ClaimInv, LocksAreExclusive, JobsQuiet
<1>3. PendingHasNoExpiry'
  BY DEF ClaimInv, PendingHasNoExpiry, RowsQuiet, Exists
<1>4. LiveClaimIsTheRows'
  <2> SUFFICES ASSUME NEW w \in Worker, Working(w)'
               PROVE  /\ job'[w].attempt <= task_queue'[job'[w].task].attempt
                      /\ job'[w].lease >= 0 =>
                           /\ job'[w].attempt = task_queue'[job'[w].task].attempt
                           /\ job'[w].lease = task_queue'[job'[w].task].claim_expires_at
    BY DEF LiveClaimIsTheRows
  <2>1. Working(w) /\ job'[w] = job[w] /\ pc[w] # "idle"
    BY DEF JobsQuiet, Working
  <2>2. job[w].task \in Task /\ Exists(job[w].task)
    BY <2>1 DEF ClaimInv, LocksArePending
  <2> QED
    BY <2>1, <2>2 DEF ClaimInv, LiveClaimIsTheRows, RowsQuiet
<1>5. ClaimsAreNumbered'
  BY DEF ClaimInv, ClaimsAreNumbered, JobsQuiet, Working
<1> QED
  BY <1>1, <1>2, <1>3, <1>4, <1>5 DEF ClaimInv

(* A statement that sets the status of an unlocked row, to anything but    *)
(* pending, or only its result, is quiet.                                  *)
LEMMA PutIsQuiet ==
  ASSUME TypeInv, NEW t \in Task, Exists(t), ~Locked(t), NEW row \in Row,
         Put(t, row),
         row.attempt = task_queue[t].attempt,
         row.claim_expires_at = task_queue[t].claim_expires_at,
         row.status = task_queue[t].status \/ row.status \in Status \ {"pending"}
  PROVE  RowsQuiet
  BY DEF TypeInv, TypeOK, Put, RowsQuiet, Exists, Status

(* updateTaskStatus is quiet as long as it does not put a row back.        *)
LEMMA UpdateIsQuiet ==
  ASSUME TypeInv, NEW t \in Task, NEW s \in Status \ {"pending"},
         NEW retry \in Nat \cup {NULL}, UpdateTaskStatus(t, s, retry)
  PROVE  RowsQuiet
<1>1. task_queue[t] \in Row
  BY DEF TypeInv, TypeOK
<1>2. /\ StatusSet(task_queue[t], s, retry) \in Row
      /\ StatusSet(task_queue[t], s, retry).attempt = task_queue[t].attempt
      /\ StatusSet(task_queue[t], s, retry).claim_expires_at
           = task_queue[t].claim_expires_at
      /\ StatusSet(task_queue[t], s, retry).status = s
  BY <1>1, StatusSetIsRow DEF StatusSet, Row
<1> QED
  BY <1>2, PutIsQuiet DEF UpdateTaskStatus

(* A table that stays is quiet.                                            *)
LEMMA UnchangedIsQuiet ==
  ASSUME TypeInv, ClaimInv, UNCHANGED task_queue
  PROVE  RowsQuiet
  BY DEF RowsQuiet, Exists

(* A worker that goes on with its job is quiet, ...                        *)
LEMMA GotoIsQuiet ==
  ASSUME TypeInv, NEW w \in Worker, pc[w] \notin {"idle", "locked"},
         NEW l \in Phase \ {"locked"}, Goto(w, l), UNCHANGED job
  PROVE  JobsQuiet
  BY DEF TypeInv, TypeOK, Goto, JobsQuiet

(* ... and so is one that quits.                                           *)
LEMMA QuitIsQuiet ==
  ASSUME TypeInv, NEW w \in Worker, Quit(w)
  PROVE  JobsQuiet
  BY DEF TypeInv, TypeOK, Quit, Goto, JobsQuiet

(* The sub-select takes the lock of a pending row nobody has locked.       *)
LEMMA SelectStep ==
  ASSUME TypeInv, ClaimInv, NEW w \in Worker, ClaimSelect(w)
  PROVE  ClaimInv'
<1>1. PICK ttl \in Ttl(w), token \in TokenGiven(w), t \in Task :
        /\ task_queue[t].status = "pending" /\ ~Locked(t)
        /\ job' = [job EXCEPT ![w] = [task |-> t, attempt |-> 0, lease |-> ttl,
                                     delegated_token |-> token]]
  BY DEF ClaimSelect, Claimable
<1>2. /\ pc[w] = "idle" /\ pc' = [pc EXCEPT ![w] = "locked"]
      /\ task_queue' = task_queue
  BY DEF ClaimSelect, Goto
<1>3. /\ pc'[w] = "locked" /\ job'[w].task = t
      /\ \A v \in Worker \ {w} : pc'[v] = pc[v] /\ job'[v] = job[v]
  BY <1>1, <1>2 DEF TypeInv, TypeOK
<1>4. \A v \in Worker : Working(v)' => v # w /\ Working(v)
  BY <1>3 DEF Working
<1>5. LocksArePending'
  BY <1>1, <1>2, <1>3 DEF ClaimInv, LocksArePending, Exists
<1>6. LocksAreExclusive'
  BY <1>1, <1>3 DEF ClaimInv, LocksAreExclusive, Locked, Locks
<1>7. PendingHasNoExpiry'
  BY <1>2 DEF ClaimInv, PendingHasNoExpiry
<1>8. LiveClaimIsTheRows'
  BY <1>2, <1>3, <1>4 DEF ClaimInv, LiveClaimIsTheRows
<1>9. ClaimsAreNumbered'
  BY <1>3, <1>4 DEF ClaimInv, ClaimsAreNumbered
<1> QED
  BY <1>5, <1>6, <1>7, <1>8, <1>9 DEF ClaimInv

(* The update makes the locked row the claim of w, with a number above     *)
(* that of every earlier claim; those have all expired.                    *)
LEMMA CommitStep ==
  ASSUME TypeInv, ClaimInv, NEW w \in Worker, ClaimCommit(w)
  PROVE  ClaimInv'
<1> DEFINE t == job[w].task
           n == task_queue[t].attempt + 1
<1>1. /\ pc[w] = "locked" /\ pc' = [pc EXCEPT ![w] = "executing"]
      /\ task_queue' = [task_queue EXCEPT ![t] = Claimed(task_queue[t], w)]
      /\ job' = [job EXCEPT ![w].attempt = n]
  BY DEF ClaimCommit, Goto, Put
<1>2. /\ t \in Task /\ task_queue[t] \in Row /\ job[w] \in Job
      /\ task_queue[t].status = "pending"
      /\ task_queue[t].claim_expires_at = NULL
  BY <1>1 DEF TypeInv, TypeOK, ClaimInv, LocksArePending, PendingHasNoExpiry
<1>3. /\ task_queue'[t].status = "claimed"
      /\ task_queue'[t].attempt = n
      /\ task_queue'[t].claim_expires_at = job[w].lease
      /\ \A u \in Task \ {t} : task_queue'[u] = task_queue[u]
  BY <1>1, <1>2 DEF Claimed, Row, TypeInv, TypeOK
<1>4. /\ pc'[w] = "executing"
      /\ job'[w].task = t /\ job'[w].attempt = n /\ job'[w].lease = job[w].lease
      /\ \A v \in Worker \ {w} : pc'[v] = pc[v] /\ job'[v] = job[v]
  BY <1>1, <1>2 DEF TypeInv, TypeOK, Job
<1>5. n \in Nat /\ n > task_queue[t].attempt
  BY <1>2 DEF Row
<1>6. \A v \in Worker \ {w} : Working(v)' => Working(v)
  BY <1>4 DEF Working
<1>7. ASSUME NEW v \in Worker \ {w}, Working(v), job[v].task = t
      PROVE  /\ job[v].attempt < n /\ job[v].attempt \in Nat
             /\ ~(job[v].lease >= 0)
  <2>1. job[v] \in Job
    BY DEF TypeInv, TypeOK
  <2>2. job[v].attempt <= task_queue[t].attempt
    BY <1>7 DEF ClaimInv, LiveClaimIsTheRows
  <2>3. job[v].lease >= 0 => job[v].lease = NULL
    BY <1>2, <1>7 DEF ClaimInv, LiveClaimIsTheRows
  <2> QED
    BY <1>2, <2>1, <2>2, <2>3, SetsAssumption DEF Job, Row
<1> HIDE DEF t, n
<1>8. LocksArePending'
  <2> SUFFICES ASSUME NEW v \in Worker, pc'[v] # "idle"
               PROVE  /\ job'[v].task \in Task
                      /\ task_queue'[job'[v].task].status # "absent"
                      /\ pc'[v] = "locked"
                           => task_queue'[job'[v].task].status = "pending"
    BY DEF LocksArePending, Exists
  <2>1. CASE v = w
    BY <1>2, <1>3, <1>4, <2>1
  <2>2. CASE v # w
    <3>1. /\ job[v].task \in Task /\ Exists(job[v].task)
          /\ pc[v] = "locked" => task_queue[job[v].task].status = "pending"
      BY <1>4, <2>2 DEF ClaimInv, LocksArePending
    <3>2. pc[v] = "locked" => job[v].task # t
      BY <1>1, <2>2 DEF ClaimInv, LocksAreExclusive, t
    <3> QED
      BY <1>3, <1>4, <2>2, <3>1, <3>2 DEF Exists
  <2> QED
    BY <2>1, <2>2
<1>9. LocksAreExclusive'
  BY <1>4 DEF ClaimInv, LocksAreExclusive
<1>10. PendingHasNoExpiry'
  BY <1>3 DEF ClaimInv, PendingHasNoExpiry
<1>11. LiveClaimIsTheRows'
  <2> SUFFICES ASSUME NEW v \in Worker, Working(v)'
               PROVE  /\ job'[v].attempt <= task_queue'[job'[v].task].attempt
                      /\ job'[v].lease >= 0 =>
                           /\ job'[v].attempt = task_queue'[job'[v].task].attempt
                           /\ job'[v].lease = task_queue'[job'[v].task].claim_expires_at
    BY DEF LiveClaimIsTheRows
  <2>1. CASE v = w
    BY <1>3, <1>4, <1>5, <2>1
  <2>2. CASE v # w /\ job[v].task = t
    BY <1>3, <1>4, <1>5, <1>6, <1>7, <2>2
  <2>3. CASE v # w /\ job[v].task # t
    <3>1. job[v].task \in Task /\ Working(v)
      BY <1>6, <2>3 DEF ClaimInv, LocksArePending, Working
    <3> QED
      BY <1>3, <1>4, <2>3, <3>1 DEF ClaimInv, LiveClaimIsTheRows
  <2> QED
    BY <2>1, <2>2, <2>3
<1>12. ClaimsAreNumbered'
  <2> SUFFICES ASSUME NEW u \in Worker, NEW v \in Worker, u # v,
                      Working(u)', Working(v)', job'[u].task = job'[v].task
               PROVE  job'[u].attempt # job'[v].attempt
    BY DEF ClaimsAreNumbered
  <2>1. CASE u = w
    BY <1>4, <1>5, <1>6, <1>7, <2>1
  <2>2. CASE v = w
    BY <1>4, <1>5, <1>6, <1>7, <2>2
  <2>3. CASE u # w /\ v # w
    BY <1>4, <1>6, <2>3 DEF ClaimInv, ClaimsAreNumbered
  <2> QED
    BY <2>1, <2>2, <2>3
<1> QED
  BY <1>8, <1>9, <1>10, <1>11, <1>12 DEF ClaimInv

(* Only claims that have expired are recovered.                            *)
LEMMA RecoveryStep ==
  ASSUME TypeInv, ClaimInv, RecoverStaleClaims
  PROVE  ClaimInv'
<1>1. ASSUME NEW t \in Task
      PROVE  /\ task_queue'[t].attempt = task_queue[t].attempt
             /\ ~Stale(task_queue[t]) => task_queue'[t] = task_queue[t]
             /\ Stale(task_queue[t]) =>
                  /\ task_queue'[t].status \in {"pending", "dead"}
                  /\ task_queue'[t].claim_expires_at = NULL
  <2>1. task_queue[t] \in Row
    BY DEF TypeInv, TypeOK
  <2> QED
    BY <2>1 DEF RecoverStaleClaims, Recovered, Row
<1>2. pc' = pc /\ job' = job
  BY DEF RecoverStaleClaims
<1>3. LocksArePending'
  BY <1>1, <1>2 DEF ClaimInv, LocksArePending, Stale, Exists
<1>4. LocksAreExclusive'
  BY <1>2 DEF ClaimInv, LocksAreExclusive
<1>5. PendingHasNoExpiry'
  BY <1>1 DEF ClaimInv, PendingHasNoExpiry
<1>6. LiveClaimIsTheRows'
  <2> SUFFICES ASSUME NEW w \in Worker, Working(w)
               PROVE  /\ job[w].attempt <= task_queue'[job[w].task].attempt
                      /\ job[w].lease >= 0 =>
                           /\ job[w].attempt = task_queue'[job[w].task].attempt
                           /\ job[w].lease = task_queue'[job[w].task].claim_expires_at
    BY <1>2 DEF LiveClaimIsTheRows, Working
  <2>1. job[w].task \in Task /\ job[w] \in Job
    BY DEF TypeInv, TypeOK, JobsNameTasks, Working
  <2>2. /\ job[w].attempt <= task_queue[job[w].task].attempt
        /\ job[w].lease >= 0 =>
             /\ job[w].attempt = task_queue[job[w].task].attempt
             /\ job[w].lease = task_queue[job[w].task].claim_expires_at
    BY DEF ClaimInv, LiveClaimIsTheRows
  <2>3. job[w].lease >= 0 => ~Stale(task_queue[job[w].task])
    BY <2>1, <2>2 DEF Stale, Job
  <2> QED
    BY <1>1, <2>1, <2>2, <2>3
<1>7. ClaimsAreNumbered'
  BY <1>2 DEF ClaimInv, ClaimsAreNumbered, Working
<1> QED
  BY <1>3, <1>4, <1>5, <1>6, <1>7 DEF ClaimInv

(* A claim and its row age alike.                                          *)
LEMMA TickStep ==
  ASSUME TypeInv, ClaimInv, Tick
  PROVE  ClaimInv'
<1>1. ASSUME NEW t \in Task
      PROVE  /\ task_queue'[t].status = task_queue[t].status
             /\ task_queue'[t].attempt = task_queue[t].attempt
             /\ task_queue'[t].claim_expires_at
                  = Aged(task_queue[t].claim_expires_at, -1)
  BY DEF Tick, Older, TypeInv, TypeOK, Row
<1>2. ASSUME NEW w \in Worker
      PROVE  /\ job'[w].task = job[w].task
             /\ job'[w].attempt = job[w].attempt
             /\ job'[w].lease = Aged(job[w].lease, -1)
             /\ job'[w].lease >= 0 => job[w].lease >= 0
  <2>1. job'[w] = OlderJob(job[w]) /\ job[w] \in Job
    BY DEF Tick, TypeInv, TypeOK
  <2> QED
    BY <2>1, SetsAssumption DEF OlderJob, Aged, Job
<1>3. pc' = pc
  BY DEF Tick
<1>4. LocksArePending'
  BY <1>1, <1>2, <1>3 DEF ClaimInv, LocksArePending, Exists
<1>5. LocksAreExclusive'
  BY <1>2, <1>3 DEF ClaimInv, LocksAreExclusive
<1>6. PendingHasNoExpiry'
  BY <1>1 DEF ClaimInv, PendingHasNoExpiry, Aged
<1>7. LiveClaimIsTheRows'
  BY <1>1, <1>2, <1>3
  DEF ClaimInv, LiveClaimIsTheRows, Working, TypeInv, JobsNameTasks
<1>8. ClaimsAreNumbered'
  BY <1>2, <1>3 DEF ClaimInv, ClaimsAreNumbered, Working
<1> QED
  BY <1>4, <1>5, <1>6, <1>7, <1>8 DEF ClaimInv

-----------------------------------------------------------------------------
(* Every step of the table but the two halves of a claim, the recovery and *)
(* Tick is quiet.                                                          *)
Quiet == RowsQuiet /\ JobsQuiet

(* The cases of the step: quiet, a claim, the recovery, or time.           *)
LEMMA NextCases ==
  ASSUME NoRequeue, TypeInv, ClaimInv, [Next]_vars
  PROVE  \/ Quiet
         \/ \E w \in Worker : ClaimSelect(w) \/ ClaimCommit(w)
         \/ RecoverStaleClaims
         \/ Tick
<1> USE DEF Quiet
<1>0. /\ UNCHANGED task_queue => RowsQuiet
      /\ UNCHANGED <<pc, job>> => JobsQuiet
      /\ \A w \in Worker : pc[w] # "idle" => /\ job[w].task \in Task
                                            /\ Exists(job[w].task)
  BY UnchangedIsQuiet
  DEF JobsQuiet, ClaimInv, LocksArePending
<1>1. ASSUME NEW t \in Task, NEW o \in EnqueueOption, EnqueueTask(t, o)
      PROVE  Quiet
  <2>1. CASE Exists(t)
    BY <1>0, <1>1, <2>1 DEF EnqueueTask
  <2>2. CASE ~Exists(t)
    <3>1. task_queue' = [task_queue EXCEPT ![t] = Inserted(o)]
      BY <1>1, <2>2 DEF EnqueueTask, Put
    <3>2. Inserted(o).claim_expires_at = NULL
      BY DEF Inserted, NoRow
    <3>3. RowsQuiet
      BY <2>2, <3>1, <3>2 DEF RowsQuiet, TypeInv, TypeOK, Exists
    <3> QED
      BY <1>0, <1>1, <3>3 DEF EnqueueTask
  <2> QED
    BY <2>1, <2>2
<1>2. ASSUME NEW w \in Worker, RunnerStep(w)
      PROVE  Quiet
  BY <1>0, <1>2, GotoIsQuiet
  DEF RunnerStep, CodexSucceeds, CodexFails, NoDelegatedToken, Phase
<1>3. ASSUME NEW w \in Worker, CronStep(w)
      PROVE  Quiet
  <2>1. CASE ExecutorFails(w)
    BY <1>0, <2>1, GotoIsQuiet DEF ExecutorFails, Phase
  <2>2. CASE ExecutorReturns(w)
    <3>1. job[w].task \in Task
      BY <1>0, <2>2 DEF ExecutorReturns
    <3>2. RowsQuiet
      BY <1>0, <2>2, <3>1, UpdateIsQuiet DEF ExecutorReturns, Status
    <3>3. JobsQuiet
      BY <2>2, GotoIsQuiet DEF ExecutorReturns, Phase
    <3> QED
      BY <3>2, <3>3
  <2>3. CASE StoreResult(w)
    <3> DEFINE t   == job[w].task
               row == [task_queue[t] EXCEPT !.result = "json"]
    <3>1. t \in Task /\ Exists(t) /\ ~Locked(t) /\ Put(t, row)
      BY <1>0, <2>3 DEF StoreResult
    <3>2. task_queue[t] \in Row
      BY <3>1 DEF TypeInv, TypeOK
    <3>3. /\ row \in Row
          /\ row.attempt = task_queue[t].attempt
          /\ row.claim_expires_at = task_queue[t].claim_expires_at
          /\ row.status = task_queue[t].status
      BY <3>2 DEF Row
    <3> HIDE DEF t, row
    <3>4. RowsQuiet
      BY <3>1, <3>3, PutIsQuiet
    <3> QED
      BY <2>3, <3>4, QuitIsQuiet DEF StoreResult
  <2>4. CASE StoreResultFails(w)
    BY <1>0, <2>4, GotoIsQuiet DEF StoreResultFails, Phase
  <2> QED
    BY <1>3, <2>1, <2>2, <2>3, <2>4 DEF CronStep
<1>4. ASSUME NEW w \in Worker, CatchStep(w)
      PROVE  Quiet
  <2>1. CASE MarkFailed(w)
    <3>1. job[w].task \in Task
      BY <1>0, <2>1 DEF MarkFailed
    <3>2. RowsQuiet
      BY <2>1, <3>1, UpdateIsQuiet DEF MarkFailed, Status
    <3> QED
      BY <2>1, <3>2, QuitIsQuiet DEF MarkFailed
  <2>2. CASE MarkFailedFails(w)
    BY <1>0, <2>2, QuitIsQuiet DEF MarkFailedFails
  <2> QED
    BY <1>4, <2>1, <2>2 DEF CatchStep
<1>5. ASSUME NEW w \in Worker, Crash(w)
      PROVE  Quiet
  BY <1>0, <1>5, QuitIsQuiet DEF Crash
<1>6. ASSUME NEW c \in Client, ClientStep(c)
      PROVE  Quiet
  <2>1. c \in Worker
    BY DEF Worker
  <2>2. PICK t \in Task :
          \/ \E s \in PatchStatus, retry \in {NULL, 1} : PatchTask(c, t, s, retry)
          \/ SubmitTaskResult(c, t)
    BY <1>6 DEF ClientStep
  <2>3. ASSUME NEW s \in PatchStatus, NEW retry \in {NULL, 1},
               PatchTask(c, t, s, retry)
        PROVE  Quiet
    <3>1. s \in Status \ {"pending"} /\ retry \in Nat \cup {NULL}
      BY PatchAssumption DEF NoRequeue
    <3>2. RowsQuiet
      BY <2>3, <3>1, UpdateIsQuiet DEF PatchTask
    <3> QED
      BY <1>0, <2>3, <3>2 DEF PatchTask
  <2>4. CASE SubmitTaskResult(c, t)
    <3> DEFINE row == SubmittedResult(task_queue[t])
    <3>1. Exists(t) /\ ~Locked(t) /\ Put(t, row) /\ task_queue[t] \in Row
      BY <2>4 DEF SubmitTaskResult, TypeInv, TypeOK
    <3>2. /\ row \in Row
          /\ row.attempt = task_queue[t].attempt
          /\ row.claim_expires_at = task_queue[t].claim_expires_at
          /\ row.status \in Status \ {"pending"}
      BY <3>1 DEF SubmittedResult, Row, Status
    <3> HIDE DEF row
    <3>3. RowsQuiet
      BY <3>1, <3>2, PutIsQuiet
    <3> QED
      BY <1>0, <2>1, <2>4, <3>3, QuitIsQuiet DEF SubmitTaskResult
  <2> QED
    BY <2>2, <2>3, <2>4
<1>7. CASE UNCHANGED vars
  BY <1>0, <1>7 DEF vars
<1> QED
  BY <1>1, <1>2, <1>3, <1>4, <1>5, <1>6, <1>7 DEF Next

(* ClaimInv holds of the empty table.                                      *)
LEMMA InitClaims == Init => ClaimInv
  BY DEF Init, ClaimInv, LocksArePending, LocksAreExclusive,
         PendingHasNoExpiry, LiveClaimIsTheRows, ClaimsAreNumbered,
         Working, NoRow

(* Every step keeps ClaimInv.                                              *)
LEMMA StepClaims == NoRequeue /\ TypeInv /\ ClaimInv /\ [Next]_vars => ClaimInv'
  BY NextCases, QuietStep, SelectStep, CommitStep, RecoveryStep, TickStep DEF Quiet

(* ClaimInv is an invariant as long as nobody puts a row back by hand.     *)
THEOREM ClaimsInvariant ==
  ASSUME NoRequeue
  PROVE  Spec => []ClaimInv
<1>1. Init => TypeInv /\ ClaimInv
  BY InitTypes, InitClaims
<1>2. TypeInv /\ ClaimInv /\ [Next]_vars => (TypeInv /\ ClaimInv)'
  BY NoRequeue, StepTypes, StepClaims
<1> QED
  BY <1>1, <1>2, PTL DEF Spec

(* With ClaimInv, claims are exclusive and live ones are kept.             *)
LEMMA ClaimInvIsExclusive ==
  TypeInv /\ ClaimInv => ExclusiveClaims /\ LiveClaimIsKept
<1> SUFFICES ASSUME TypeInv, ClaimInv
             PROVE  ExclusiveClaims /\ LiveClaimIsKept
  OBVIOUS
<1>1. ASSUME NEW w \in Worker, Working(w)
      PROVE  job[w] \in Job /\ job[w].task \in Task
  BY <1>1 DEF TypeInv, TypeOK, JobsNameTasks, Working
<1>2. ExclusiveClaims
  BY <1>1 DEF ClaimInv, LiveClaimIsTheRows, ClaimsAreNumbered, ExclusiveClaims, Job
<1>3. LiveClaimIsKept
  <2> SUFFICES ASSUME NEW w \in Worker, Working(w), job[w].lease >= 0
               PROVE  /\ task_queue[job[w].task].status # "pending"
                      /\ task_queue[job[w].task].attempt = job[w].attempt
    BY DEF LiveClaimIsKept
  <2>1. /\ job[w].attempt = task_queue[job[w].task].attempt
        /\ job[w].lease = task_queue[job[w].task].claim_expires_at
    BY DEF ClaimInv, LiveClaimIsTheRows
  <2> QED
    BY <1>1, <2>1, SetsAssumption DEF ClaimInv, PendingHasNoExpiry, Job
<1> QED
  BY <1>2, <1>3

(* Two workers never execute one task under claims that are both live.     *)
THEOREM Exclusion ==
  ASSUME NoRequeue
  PROVE  Spec => []ExclusiveClaims
<1>1. Init => TypeInv /\ ClaimInv
  BY InitTypes, InitClaims
<1>2. TypeInv /\ ClaimInv /\ [Next]_vars => (TypeInv /\ ClaimInv)'
  BY NoRequeue, StepTypes, StepClaims
<1> QED
  BY <1>1, <1>2, ClaimInvIsExclusive, PTL DEF Spec

(* A live claim is never taken away: its row neither waits again nor       *)
(* belongs to a later claim, whoever recovers, retries or writes late.     *)
THEOREM LiveClaimsAreKept ==
  ASSUME NoRequeue
  PROVE  Spec => []LiveClaimIsKept
<1>1. Init => TypeInv /\ ClaimInv
  BY InitTypes, InitClaims
<1>2. TypeInv /\ ClaimInv /\ [Next]_vars => (TypeInv /\ ClaimInv)'
  BY NoRequeue, StepTypes, StepClaims
<1> QED
  BY <1>1, <1>2, ClaimInvIsExclusive, PTL DEF Spec

-----------------------------------------------------------------------------
(***************************************************************************)
(* The attempt budget.  Only the update of a claim counts an attempt, and  *)
(* its row is pending, so below its budget; the recovery sends a row back  *)
(* only while attempt < max_attempts.                                      *)
(***************************************************************************)

(* The empty table is within its budgets.                                  *)
LEMMA InitBudget == Init => AttemptBudget
  BY DEF Init, AttemptBudget, NoRow, Exists

(* A step that keeps a row's counters, or makes a fresh row, and does not  *)
(* put it back keeps its budget.                                           *)
WithinBudget(row) ==
  row.status # "absent" =>
    /\ row.attempt <= Budget(row)
    /\ row.status = "pending" => row.attempt < Budget(row)

(* What the statements make of a row within its budget is within it: the   *)
(* claim because the row was pending, the recovery because it compares.    *)
LEMMA RowBudget ==
  ASSUME NEW row \in Row, WithinBudget(row)
  PROVE  /\ \A s \in Status \ {"pending"}, retry \in Nat \cup {NULL} :
              row.status # "absent" => WithinBudget(StatusSet(row, s, retry))
         /\ row.status # "absent" => WithinBudget(SubmittedResult(row))
         /\ WithinBudget([row EXCEPT !.result = "json"])
         /\ WithinBudget(Older(row))
         /\ Stale(row) => WithinBudget(Recovered(row))
         /\ \A w \in Worker :
              row.status = "pending" => WithinBudget(Claimed(row, w))
<1>1. /\ row.attempt \in Nat /\ row.max_attempts \in Int
  BY OptionAssumption DEF Row
<1>2. ASSUME NEW s \in Status \ {"pending"}, NEW retry \in Nat \cup {NULL},
             row.status # "absent"
      PROVE  WithinBudget(StatusSet(row, s, retry))
  BY <1>2 DEF StatusSet, WithinBudget, Budget, Row, Status
<1>3. row.status # "absent" => WithinBudget(SubmittedResult(row))
  BY DEF SubmittedResult, WithinBudget, Budget, Row
<1>4. WithinBudget([row EXCEPT !.result = "json"])
  BY DEF WithinBudget, Budget, Row
<1>5. WithinBudget(Older(row))
  BY DEF Older, WithinBudget, Budget, Row
<1>6. Stale(row) => WithinBudget(Recovered(row))
  <2> SUFFICES ASSUME Stale(row)
               PROVE  WithinBudget(Recovered(row))
    OBVIOUS
  <2>1. row.status # "absent"
    BY DEF Stale
  <2>2. /\ Recovered(row).attempt = row.attempt
        /\ Recovered(row).max_attempts = row.max_attempts
        /\ Recovered(row).status = "pending" => row.attempt < row.max_attempts
    BY <1>1 DEF Recovered, Exhausted, Row
  <2> QED
    BY <1>1, <2>1, <2>2 DEF WithinBudget, Budget
<1>7. ASSUME NEW w \in Worker, row.status = "pending"
      PROVE  WithinBudget(Claimed(row, w))
  <2>1. /\ Claimed(row, w).attempt = row.attempt + 1
        /\ Claimed(row, w).max_attempts = row.max_attempts
        /\ Claimed(row, w).status = "claimed"
    BY DEF Claimed, Row
  <2> QED
    BY <1>1, <1>7, <2>1 DEF WithinBudget, Budget
<1> QED
  BY <1>2, <1>3, <1>4, <1>5, <1>6, <1>7

(* A row within its budget may be put in the table.                        *)
LEMMA PutBudget ==
  ASSUME TypeInv, AttemptBudget, NEW t \in Task, NEW row,
         Put(t, row), WithinBudget(row)
  PROVE  AttemptBudget'
  BY DEF TypeInv, TypeOK, AttemptBudget, Put, WithinBudget, Exists, Budget

(* updateTaskStatus keeps the budgets as long as it does not put a row     *)
(* back.                                                                   *)
LEMMA UpdateBudget ==
  ASSUME TypeInv, AttemptBudget, NEW t \in Task, NEW s \in Status \ {"pending"},
         NEW retry \in Nat \cup {NULL}, UpdateTaskStatus(t, s, retry)
  PROVE  AttemptBudget'
<1>1. task_queue[t] \in Row /\ WithinBudget(task_queue[t])
  BY DEF TypeInv, TypeOK, AttemptBudget, WithinBudget, Exists
<1> QED
  BY <1>1, RowBudget, PutBudget DEF UpdateTaskStatus, Exists

(* Every step keeps the budgets.                                           *)
LEMMA StepBudget ==
  NoRequeue /\ TypeInv /\ ClaimInv /\ AttemptBudget /\ [Next]_vars
    => AttemptBudget'
<1> SUFFICES ASSUME NoRequeue, TypeInv, ClaimInv, AttemptBudget, [Next]_vars
             PROVE  AttemptBudget'
  OBVIOUS
<1>0. /\ UNCHANGED task_queue => AttemptBudget'
      /\ \A t \in Task : task_queue[t] \in Row /\ WithinBudget(task_queue[t])
      /\ \A w \in Worker : pc[w] # "idle" => /\ job[w].task \in Task
                                            /\ Exists(job[w].task)
  BY DEF AttemptBudget, WithinBudget, TypeInv, TypeOK, Exists, ClaimInv,
         LocksArePending
<1>1. ASSUME NEW t \in Task, NEW o \in EnqueueOption, EnqueueTask(t, o)
      PROVE  AttemptBudget'
  <2>1. WithinBudget(Inserted(o))
    <3>1. /\ Inserted(o).attempt = 0
          /\ Inserted(o).max_attempts = o.max_attempts /\ o.max_attempts \in Int
      BY OptionAssumption DEF Inserted, NoRow
    <3> QED
      BY <3>1 DEF WithinBudget, Budget
  <2> QED
    BY <1>0, <1>1, <2>1, PutBudget DEF EnqueueTask
<1>2. ASSUME NEW w \in Worker, ClaimSelect(w) \/ ClaimCommit(w)
      PROVE  AttemptBudget'
  <2>1. CASE ClaimSelect(w)
    BY <1>0, <2>1 DEF ClaimSelect
  <2>2. CASE ClaimCommit(w)
    <3>1. job[w].task \in Task /\ task_queue[job[w].task].status = "pending"
      BY <1>0, <2>2 DEF ClaimCommit, ClaimInv, LocksArePending
    <3>2. WithinBudget(Claimed(task_queue[job[w].task], w))
      BY <1>0, <3>1, RowBudget
    <3> QED
      BY <2>2, <3>1, <3>2, PutBudget DEF ClaimCommit
  <2> QED
    BY <1>2, <2>1, <2>2
<1>3. ASSUME NEW w \in Worker, RunnerStep(w)
      PROVE  AttemptBudget'
  BY <1>0, <1>3 DEF RunnerStep, CodexSucceeds, CodexFails, NoDelegatedToken
<1>4. ASSUME NEW w \in Worker, CronStep(w)
      PROVE  AttemptBudget'
  <2>1. CASE ExecutorFails(w)
    BY <1>0, <2>1 DEF ExecutorFails
  <2>2. CASE ExecutorReturns(w)
    BY <1>0, <2>2, UpdateBudget DEF ExecutorReturns, Status
  <2>3. CASE StoreResult(w)
    BY <1>0, <2>3, RowBudget, PutBudget DEF StoreResult
  <2>4. CASE StoreResultFails(w)
    BY <1>0, <2>4 DEF StoreResultFails
  <2> QED
    BY <1>4, <2>1, <2>2, <2>3, <2>4 DEF CronStep
<1>5. ASSUME NEW w \in Worker, CatchStep(w)
      PROVE  AttemptBudget'
  BY <1>0, <1>5, UpdateBudget DEF CatchStep, MarkFailed, MarkFailedFails, Status
<1>6. ASSUME NEW w \in Worker, Crash(w)
      PROVE  AttemptBudget'
  BY <1>0, <1>6 DEF Crash
<1>7. ASSUME NEW c \in Client, ClientStep(c)
      PROVE  AttemptBudget'
  <2>1. PICK t \in Task :
          \/ \E s \in PatchStatus, retry \in {NULL, 1} : PatchTask(c, t, s, retry)
          \/ SubmitTaskResult(c, t)
    BY <1>7 DEF ClientStep
  <2>2. ASSUME NEW s \in PatchStatus, NEW retry \in {NULL, 1},
               PatchTask(c, t, s, retry)
        PROVE  AttemptBudget'
    BY <2>2, PatchAssumption, UpdateBudget DEF PatchTask, NoRequeue
  <2>3. CASE SubmitTaskResult(c, t)
    BY <1>0, <2>3, RowBudget, PutBudget DEF SubmitTaskResult, Exists
  <2> QED
    BY <2>1, <2>2, <2>3
<1>8. CASE RecoverStaleClaims
  <2>1. \A t \in Task : WithinBudget(task_queue'[t])
    BY <1>0, <1>8, RowBudget DEF RecoverStaleClaims
  <2> QED
    BY <2>1 DEF AttemptBudget, WithinBudget, Exists, Budget
<1>9. CASE Tick
  <2>1. \A t \in Task : WithinBudget(task_queue'[t])
    BY <1>0, <1>9, RowBudget DEF Tick
  <2> QED
    BY <2>1 DEF AttemptBudget, WithinBudget, Exists, Budget
<1>10. CASE UNCHANGED vars
  BY <1>0, <1>10 DEF vars
<1> QED
  BY <1>1, <1>2, <1>3, <1>4, <1>5, <1>6, <1>7, <1>8, <1>9, <1>10 DEF Next

(* max_attempts bounds the claims of a task, whatever the order of claims, *)
(* crashes, recoveries and late writes.                                    *)
THEOREM BudgetKept ==
  ASSUME NoRequeue
  PROVE  Spec => []AttemptBudget
<1>1. Init => TypeInv /\ ClaimInv /\ AttemptBudget
  BY InitTypes, InitClaims, InitBudget
<1>2. TypeInv /\ ClaimInv /\ AttemptBudget /\ [Next]_vars
        => (TypeInv /\ ClaimInv /\ AttemptBudget)'
  BY NoRequeue, StepTypes, StepClaims, StepBudget
<1> QED
  BY <1>1, <1>2, PTL DEF Spec

-----------------------------------------------------------------------------
(* Settled tasks stay settled: a claim updates a pending row, the recovery *)
(* claimed ones, and everything else writes a settled status.              *)

(* No step unsettles a row: a claim needs a pending one, a recovery a      *)
(* claimed one.                                                            *)
LEMMA StepSettled ==
  OnlySettles /\ TypeInv /\ ClaimInv /\ [Next]_vars
    => \A t \in Task : task_queue[t].status \in Settled
                         => task_queue'[t].status \in Settled
<1> SUFFICES ASSUME OnlySettles, TypeInv, ClaimInv, [Next]_vars,
                    NEW t \in Task, task_queue[t].status \in Settled
             PROVE  task_queue'[t].status \in Settled
  OBVIOUS
<1>0. /\ task_queue[t] \in Row /\ Exists(t)
      /\ task_queue[t].status \notin {"pending", "claimed"}
  BY DEF TypeInv, TypeOK, Exists, Settled
<1>1. ASSUME NEW u \in Task, NEW s \in Settled, NEW retry,
             UpdateTaskStatus(u, s, retry)
      PROVE  task_queue'[t].status \in Settled
  BY <1>0, <1>1 DEF UpdateTaskStatus, Put, StatusSet, TypeInv, TypeOK, Row
<1>2. ASSUME NEW u \in Task, NEW o \in EnqueueOption, EnqueueTask(u, o)
      PROVE  task_queue'[t].status \in Settled
  BY <1>0, <1>2 DEF EnqueueTask, Put, TypeInv, TypeOK
<1>3. ASSUME NEW w \in Worker, ClaimSelect(w) \/ ClaimCommit(w)
      PROVE  task_queue'[t].status \in Settled
  BY <1>0, <1>3
  DEF ClaimSelect, ClaimCommit, Put, ClaimInv, LocksArePending, TypeInv, TypeOK
<1>4. ASSUME NEW w \in Worker, RunnerStep(w)
      PROVE  task_queue'[t].status \in Settled
  BY <1>4 DEF RunnerStep, CodexSucceeds, CodexFails, NoDelegatedToken
<1>5. ASSUME NEW w \in Worker, CronStep(w)
      PROVE  task_queue'[t].status \in Settled
  <2>1. CASE ExecutorReturns(w)
    BY <1>1, <2>1 DEF ExecutorReturns, TypeInv, JobsNameTasks, Settled
  <2>2. CASE StoreResult(w)
    BY <1>0, <2>2 DEF StoreResult, Put, TypeInv, TypeOK, JobsNameTasks, Row
  <2> QED
    BY <1>5, <2>1, <2>2 DEF CronStep, ExecutorFails, StoreResultFails
<1>6. ASSUME NEW w \in Worker, CatchStep(w)
      PROVE  task_queue'[t].status \in Settled
  BY <1>1, <1>6
  DEF CatchStep, MarkFailed, MarkFailedFails, TypeInv, JobsNameTasks, Settled
<1>7. ASSUME NEW w \in Worker, Crash(w)
      PROVE  task_queue'[t].status \in Settled
  BY <1>7 DEF Crash
<1>8. ASSUME NEW c \in Client, ClientStep(c)
      PROVE  task_queue'[t].status \in Settled
  <2>1. PICK u \in Task :
          \/ \E s \in PatchStatus, retry \in {NULL, 1} : PatchTask(c, u, s, retry)
          \/ SubmitTaskResult(c, u)
    BY <1>8 DEF ClientStep
  <2>2. ASSUME NEW s \in PatchStatus, NEW retry \in {NULL, 1},
               PatchTask(c, u, s, retry)
        PROVE  task_queue'[t].status \in Settled
    BY <1>1, <2>2 DEF PatchTask, OnlySettles
  <2>3. CASE SubmitTaskResult(c, u)
    BY <1>0, <2>3
    DEF SubmitTaskResult, SubmittedResult, Put, TypeInv, TypeOK, Row, Settled
  <2> QED
    BY <2>1, <2>2, <2>3
<1>9. CASE RecoverStaleClaims
  BY <1>0, <1>9 DEF RecoverStaleClaims, Stale
<1>10. CASE Tick
  BY <1>0, <1>10 DEF Tick, Older, Row
<1>11. CASE UNCHANGED vars
  BY <1>11 DEF vars
<1> QED
  BY <1>2, <1>3, <1>4, <1>5, <1>6, <1>7, <1>8, <1>9, <1>10, <1>11 DEF Next

(* A settled task never returns to the queue, although its key may be      *)
(* enqueued again and its last claim still expires.                        *)
THEOREM Settling ==
  ASSUME OnlySettles
  PROVE  Spec => SettledStaysSettled
<1>1. NoRequeue
  BY DEF OnlySettles, NoRequeue, Settled
<1>2. Init => TypeInv /\ ClaimInv
  BY InitTypes, InitClaims
<1>3. TypeInv /\ ClaimInv /\ [Next]_vars => (TypeInv /\ ClaimInv)'
  BY <1>1, StepTypes, StepClaims
<1>4. TypeInv /\ ClaimInv /\ [Next]_vars
        => [\A t \in Task : task_queue[t].status \in Settled
              => task_queue'[t].status \in Settled]_vars
  BY OnlySettles, StepSettled
<1> QED
  BY <1>2, <1>3, <1>4, PTL DEF Spec, SettledStaysSettled

-----------------------------------------------------------------------------
(***************************************************************************)
(* The queue implements TaskLifecycle.  The refinement needs two facts of  *)
(* the rows besides ClaimInv and AttemptBudget: a row that is not there    *)
(* counts no attempt, so a task is submitted untried; and a claimed row    *)
(* counts at least one, so that "attempt >= max_attempts" of the recovery  *)
(* agrees with the budget even when max_attempts is below one.             *)
(***************************************************************************)
AttemptsFit(row) ==
  /\ row.status = "absent" => row.attempt = 0
  /\ row.status = "claimed" => row.attempt > 0

RowsFit == \A t \in Task : AttemptsFit(task_queue[t])

LifecycleInv == TypeInv /\ ClaimInv /\ AttemptBudget /\ RowsFit

(* What the lifecycle sees of the table.                                   *)
PhaseSeen     == [t \in Task |-> PhaseOf(task_queue[t])]
TriesSeen     == [t \in Task |-> task_queue[t].attempt]
AllowanceSeen == [t \in Task |-> Budget(task_queue[t])]

(* A row rewritten to new is invisible, is settled, or is claimed once     *)
(* more.                                                                   *)
SameCounters(row, new) ==
  new.attempt = row.attempt /\ new.max_attempts = row.max_attempts

Unseen(row, new) == SameCounters(row, new) /\ PhaseOf(new) = PhaseOf(row)

Settles(row, new) ==
  /\ row.status # "absent"
  /\ SameCounters(row, new) /\ new.status \in Settled

(* Rewriting one row rewrites one entry of what is seen.                   *)
LEMMA PutIsSeen ==
  ASSUME TypeInv, NEW t \in Task, NEW row, Put(t, row)
  PROVE  /\ PhaseSeen' = [PhaseSeen EXCEPT ![t] = PhaseOf(row)]
         /\ TriesSeen' = [TriesSeen EXCEPT ![t] = row.attempt]
         /\ AllowanceSeen' = [AllowanceSeen EXCEPT ![t] = Budget(row)]
<1>1. task_queue' = [task_queue EXCEPT ![t] = row]
  BY DEF Put
<1>2. \A u \in Task : task_queue'[u] = IF u = t THEN row ELSE task_queue[u]
  BY <1>1 DEF TypeInv, TypeOK
<1> QED
  BY <1>2 DEF PhaseSeen, TriesSeen, AllowanceSeen

(* Rewriting rows without a visible change is a stuttering step.           *)
LEMMA UnseenStep ==
  ASSUME \A t \in Task : Unseen(task_queue[t], task_queue'[t])
  PROVE  UNCHANGED Lifecycle!vars
<1>1. \A t \in Task : /\ PhaseOf(task_queue'[t]) = PhaseOf(task_queue[t])
                      /\ task_queue'[t].attempt = task_queue[t].attempt
                      /\ Budget(task_queue'[t]) = Budget(task_queue[t])
  BY DEF Unseen, SameCounters, Budget
<1> QED
  BY <1>1 DEF Lifecycle!vars

(* So is a row rewritten without a visible change.                         *)
LEMMA PutUnseen ==
  ASSUME TypeInv, NEW t \in Task, NEW row, Put(t, row),
         Unseen(task_queue[t], row)
  PROVE  UNCHANGED Lifecycle!vars
<1>1. \A u \in Task : Unseen(task_queue[u], task_queue'[u])
  BY DEF Put, TypeInv, TypeOK, Unseen, SameCounters
<1> QED
  BY <1>1, UnseenStep

(* Settling a row that is there is a step of the lifecycle, or none if it  *)
(* has settled before.                                                     *)
LEMMA SettlesIsSettle ==
  ASSUME TypeInv, NEW t \in Task, NEW row, Put(t, row),
         Settles(task_queue[t], row)
  PROVE  Lifecycle!Settle(t) \/ UNCHANGED Lifecycle!vars
<1>1. PhaseOf(row) = "settled"
  BY DEF Settles, PhaseOf, Settled
<1>2. CASE task_queue[t].status \in Settled
  <2>1. Unseen(task_queue[t], row)
    BY <1>1, <1>2 DEF Unseen, Settles, PhaseOf, Settled
  <2> QED
    BY <2>1, PutUnseen
<1>3. CASE task_queue[t].status \notin Settled
  <2>1. PhaseSeen[t] \in {"waiting", "tried"}
    BY <1>3 DEF Settles, PhaseOf, PhaseSeen, Settled
  <2>2. /\ PhaseSeen' = [PhaseSeen EXCEPT ![t] = "settled"]
        /\ TriesSeen' = [TriesSeen EXCEPT ![t] = row.attempt]
        /\ AllowanceSeen' = [AllowanceSeen EXCEPT ![t] = Budget(row)]
    BY <1>1, PutIsSeen
  <2>3. row.attempt = TriesSeen[t] /\ Budget(row) = AllowanceSeen[t]
    BY DEF Settles, SameCounters, TriesSeen, AllowanceSeen, Budget
  <2>4. UNCHANGED TriesSeen /\ UNCHANGED AllowanceSeen
    BY <2>2, <2>3 DEF TriesSeen, AllowanceSeen
  <2> QED
    BY <2>1, <2>2, <2>4
    DEF Lifecycle!Settle, PhaseSeen, TriesSeen, AllowanceSeen
<1> QED
  BY <1>2, <1>3

(* updateTaskStatus with a settled status settles.                         *)
LEMMA UpdateIsSettle ==
  ASSUME TypeInv, NEW t \in Task, NEW s \in Settled, NEW retry,
         UpdateTaskStatus(t, s, retry)
  PROVE  Lifecycle!Settle(t) \/ UNCHANGED Lifecycle!vars
<1>1. Settles(task_queue[t], StatusSet(task_queue[t], s, retry))
  BY DEF UpdateTaskStatus, StatusSet, Settles, SameCounters, Exists, TypeInv,
         TypeOK, Row
<1> QED
  BY <1>1, SettlesIsSettle DEF UpdateTaskStatus

(* The insert of a new row is a submission.                                *)
LEMMA InsertIsSubmit ==
  ASSUME LifecycleInv, NEW t \in Task, NEW o \in EnqueueOption,
         EnqueueTask(t, o), ~Exists(t)
  PROVE  Lifecycle!Submit(t)
<1> DEFINE Allowances == {Budget([max_attempts |-> n]) :
                            n \in {p.max_attempts : p \in EnqueueOption} \cup {0}}
<1>1. Put(t, Inserted(o))
  BY DEF EnqueueTask
<1>2. /\ Inserted(o).status = "pending" /\ Inserted(o).attempt = 0
      /\ Inserted(o).max_attempts = o.max_attempts
  BY DEF Inserted, NoRow
<1>3. PhaseOf(Inserted(o)) = "waiting"
  BY <1>2 DEF PhaseOf, Settled
<1>4. Budget(Inserted(o)) = Budget([max_attempts |-> o.max_attempts])
  BY <1>2 DEF Budget
<1>5. Budget(Inserted(o)) \in Allowances
  BY <1>4
<1>6. PhaseSeen[t] = "new" /\ TriesSeen[t] = 0
  BY DEF LifecycleInv, RowsFit, AttemptsFit, Exists, PhaseSeen, PhaseOf,
         TriesSeen, Settled
<1>7. /\ PhaseSeen' = [PhaseSeen EXCEPT ![t] = "waiting"]
      /\ TriesSeen' = [TriesSeen EXCEPT ![t] = 0]
      /\ AllowanceSeen' = [AllowanceSeen EXCEPT ![t] = Budget(Inserted(o))]
  BY <1>1, <1>2, <1>3, PutIsSeen DEF LifecycleInv
<1>8. UNCHANGED TriesSeen
  BY <1>6, <1>7 DEF TriesSeen
<1> QED
  BY <1>5, <1>6, <1>7, <1>8
  DEF Lifecycle!Submit, PhaseSeen, TriesSeen, AllowanceSeen

(* The update of a claim is a try: its row is pending, so within budget.   *)
LEMMA ClaimIsTry ==
  ASSUME LifecycleInv, NEW w \in Worker, ClaimCommit(w),
         NEW t \in Task, t = job[w].task
  PROVE  Lifecycle!Try(t)
<1> DEFINE row == task_queue[t]
           new == Claimed(row, w)
<1>1. t \in Task /\ row \in Row /\ row.status = "pending"
  BY DEF LifecycleInv, ClaimInv, LocksArePending, ClaimCommit, TypeInv, TypeOK
<1>2. Put(t, new)
  BY DEF ClaimCommit
<1>3. /\ new.status = "claimed" /\ new.attempt = row.attempt + 1
      /\ new.max_attempts = row.max_attempts
  BY <1>1 DEF Claimed, Row
<1>4. PhaseOf(new) = "tried" /\ Budget(new) = Budget(row)
  BY <1>3 DEF PhaseOf, Settled, Budget
<1>5. /\ PhaseSeen[t] = "waiting"
      /\ TriesSeen[t] = row.attempt /\ AllowanceSeen[t] = Budget(row)
      /\ row.attempt < Budget(row)
  BY <1>1
  DEF LifecycleInv, AttemptBudget, Exists, PhaseSeen, PhaseOf, TriesSeen,
      AllowanceSeen, Settled
<1> HIDE DEF row, new
<1>6. /\ PhaseSeen' = [PhaseSeen EXCEPT ![t] = "tried"]
      /\ TriesSeen' = [TriesSeen EXCEPT ![t] = row.attempt + 1]
      /\ AllowanceSeen' = [AllowanceSeen EXCEPT ![t] = Budget(row)]
  BY <1>1, <1>2, <1>3, <1>4, PutIsSeen DEF LifecycleInv
<1>7. UNCHANGED AllowanceSeen
  BY <1>5, <1>6 DEF AllowanceSeen
<1>8. TriesSeen' = [TriesSeen EXCEPT ![t] = @ + 1]
  BY <1>5, <1>6
<1> QED
  BY <1>5, <1>6, <1>7, <1>8
  DEF Lifecycle!Try, PhaseSeen, TriesSeen, AllowanceSeen

(* The recovery is a sweep of the stale rows.                              *)
LEMMA RecoveryIsSweep ==
  ASSUME LifecycleInv, RecoverStaleClaims
  PROVE  \E S \in SUBSET Task : Lifecycle!Sweep(S)
<1> DEFINE S == {t \in Task : Stale(task_queue[t])}
<1>1. S # {}
  BY DEF RecoverStaleClaims
<1>2. ASSUME NEW t \in Task
      PROVE  /\ task_queue'[t].attempt = task_queue[t].attempt
             /\ Budget(task_queue'[t]) = Budget(task_queue[t])
             /\ PhaseOf(task_queue'[t]) =
                  IF t \notin S THEN PhaseOf(task_queue[t])
                  ELSE IF task_queue[t].attempt < Budget(task_queue[t])
                       THEN "waiting" ELSE "settled"
             /\ t \in S => PhaseOf(task_queue[t]) = "tried"
  <2>1. PICK row \in Row : row = task_queue[t]
    BY DEF LifecycleInv, TypeInv, TypeOK
  <2>2. task_queue'[t] = IF Stale(row) THEN Recovered(row) ELSE row
    BY <2>1 DEF RecoverStaleClaims
  <2>3. CASE ~Stale(row)
    BY <2>1, <2>2, <2>3
  <2>4. CASE Stale(row)
    <3>1. row.status = "claimed" /\ row.attempt > 0
      BY <2>1, <2>4 DEF Stale, LifecycleInv, RowsFit, AttemptsFit
    <3>2. row.attempt \in Nat /\ row.max_attempts \in Int
      BY OptionAssumption DEF Row
    <3>3. Exhausted(row) <=> ~(row.attempt < Budget(row))
      BY <3>1, <3>2 DEF Exhausted, Budget
    <3>4. /\ Recovered(row).attempt = row.attempt
          /\ Recovered(row).max_attempts = row.max_attempts
          /\ Recovered(row).status = IF Exhausted(row) THEN "dead" ELSE "pending"
      BY DEF Recovered, Row
    <3>5. PhaseOf(Recovered(row)) =
            IF Exhausted(row) THEN "settled" ELSE "waiting"
      BY <3>4 DEF PhaseOf, Settled
    <3>6. PhaseOf(row) = "tried" /\ Budget(Recovered(row)) = Budget(row)
      BY <3>1, <3>4 DEF PhaseOf, Settled, Budget
    <3> QED
      BY <2>1, <2>2, <2>4, <3>3, <3>4, <3>5, <3>6
  <2> QED
    BY <2>3, <2>4
<1> HIDE DEF S
<1>3. \A t \in S : PhaseSeen[t] = "tried"
  BY <1>2 DEF S, PhaseSeen
<1>4. UNCHANGED TriesSeen /\ UNCHANGED AllowanceSeen
  BY <1>2 DEF TriesSeen, AllowanceSeen
<1>5. PhaseSeen' =
        [t \in Task |-> IF t \notin S THEN PhaseSeen[t]
                        ELSE IF PhaseSeen[t] = "tried"
                                /\ TriesSeen[t] < AllowanceSeen[t]
                        THEN "waiting" ELSE "settled"]
  BY <1>2, <1>3 DEF PhaseSeen, TriesSeen, AllowanceSeen
<1>6. Lifecycle!Sweep(S)
  BY <1>1, <1>3, <1>4, <1>5
  DEF Lifecycle!Sweep, Lifecycle!CanReturn, PhaseSeen, TriesSeen, AllowanceSeen
<1>7. S \in SUBSET Task
  BY DEF S
<1> QED
  BY <1>6, <1>7

(* Time is not seen.                                                       *)
LEMMA TickIsUnseen ==
  ASSUME TypeInv, Tick
  PROVE  UNCHANGED Lifecycle!vars
<1>1. ASSUME NEW t \in Task
      PROVE  Unseen(task_queue[t], task_queue'[t])
  <2>1. PICK row \in Row : row = task_queue[t]
    BY DEF TypeInv, TypeOK
  <2>2. task_queue'[t] = Older(row)
    BY <2>1 DEF Tick
  <2>3. /\ Older(row).status = row.status
        /\ Older(row).attempt = row.attempt
        /\ Older(row).max_attempts = row.max_attempts
    BY DEF Older, Row
  <2> QED
    BY <2>1, <2>2, <2>3 DEF Unseen, SameCounters, PhaseOf
<1> QED
  BY <1>1, UnseenStep

(* A table that stays shows nothing.                                       *)
LEMMA UnchangedIsUnseen ==
  ASSUME UNCHANGED task_queue
  PROVE  UNCHANGED Lifecycle!vars
  BY DEF Lifecycle!vars

(* The empty table is a start of the lifecycle.                            *)
LEMMA StartMaps == Init => Lifecycle!Init
<1> SUFFICES ASSUME Init
             PROVE  Lifecycle!Init
  OBVIOUS
<1>1. \A t \in Task : task_queue[t] = NoRow
  BY DEF Init
<1>2. PhaseOf(NoRow) = "new" /\ NoRow.attempt = 0
  BY DEF PhaseOf, NoRow, Settled
<1>3. Budget(NoRow) = Budget([max_attempts |-> 0])
  BY DEF Budget, NoRow
<1> QED
  BY <1>1, <1>2, <1>3 DEF Lifecycle!Init

(* Every step of the queue is a step of the lifecycle, or invisible.       *)
LEMMA StepMaps ==
  OnlySettles /\ LifecycleInv /\ [Next]_vars
    => [Lifecycle!Next]_(Lifecycle!vars)
<1> SUFFICES ASSUME OnlySettles, LifecycleInv, [Next]_vars
             PROVE  Lifecycle!Next \/ UNCHANGED Lifecycle!vars
  OBVIOUS
<1>0. /\ TypeInv
      /\ \A w \in Worker : pc[w] # "idle" => job[w].task \in Task
      /\ \A t \in Task : Lifecycle!Submit(t) \/ Lifecycle!Try(t)
                           \/ Lifecycle!Settle(t) => Lifecycle!Next
  BY DEF LifecycleInv, TypeInv, JobsNameTasks, Lifecycle!Next
<1> DEFINE Mapped == Lifecycle!Next \/ UNCHANGED Lifecycle!vars
<1> HIDE DEF Mapped
<1>u. UNCHANGED task_queue => Mapped
  BY UnchangedIsUnseen DEF Mapped
<1>s. ASSUME NEW t \in Task, NEW s \in Settled, NEW retry,
             UpdateTaskStatus(t, s, retry)
      PROVE  Mapped
  BY <1>0, <1>s, UpdateIsSettle DEF Mapped
<1>1. ASSUME NEW t \in Task, NEW o \in EnqueueOption, EnqueueTask(t, o)
      PROVE  Mapped
  <2>1. CASE Exists(t)
    BY <1>1, <1>u, <2>1 DEF EnqueueTask
  <2>2. CASE ~Exists(t)
    BY <1>0, <1>1, <2>2, InsertIsSubmit DEF Mapped
  <2> QED
    BY <2>1, <2>2
<1>2. ASSUME NEW w \in Worker, ClaimSelect(w) \/ ClaimCommit(w)
      PROVE  Mapped
  <2>1. CASE ClaimSelect(w)
    BY <1>u, <2>1 DEF ClaimSelect
  <2>2. CASE ClaimCommit(w)
    <3>1. PICK t \in Task : t = job[w].task
      BY <1>0, <2>2 DEF ClaimCommit
    <3>2. Lifecycle!Try(t)
      BY <2>2, <3>1, ClaimIsTry
    <3> QED
      BY <1>0, <3>2 DEF Mapped
  <2> QED
    BY <1>2, <2>1, <2>2
<1>3. ASSUME NEW w \in Worker, RunnerStep(w)
      PROVE  Mapped
  BY <1>u, <1>3 DEF RunnerStep, CodexSucceeds, CodexFails, NoDelegatedToken
<1>4. ASSUME NEW w \in Worker, CronStep(w)
      PROVE  Mapped
  <2>1. CASE ExecutorReturns(w)
    <3>1. job[w].task \in Task
      BY <1>0, <2>1 DEF ExecutorReturns
    <3> QED
      BY <1>s, <1>u, <2>1, <3>1 DEF ExecutorReturns, Settled
  <2>2. CASE StoreResult(w)
    <3>1. job[w].task \in Task
      BY <1>0, <2>2 DEF StoreResult
    <3>2. PICK row \in Row : row = task_queue[job[w].task]
      BY <1>0, <3>1 DEF TypeInv, TypeOK
    <3>3. Unseen(row, [row EXCEPT !.result = "json"])
      BY DEF Unseen, SameCounters, PhaseOf, Row
    <3> QED
      BY <1>0, <2>2, <3>1, <3>2, <3>3, PutUnseen DEF StoreResult, Mapped
  <2> QED
    BY <1>u, <1>4, <2>1, <2>2 DEF CronStep, ExecutorFails, StoreResultFails
<1>5. ASSUME NEW w \in Worker, CatchStep(w)
      PROVE  Mapped
  <2>1. CASE MarkFailed(w)
    <3>1. job[w].task \in Task
      BY <1>0, <2>1 DEF MarkFailed
    <3> QED
      BY <1>s, <2>1, <3>1 DEF MarkFailed, Settled
  <2>2. CASE MarkFailedFails(w)
    BY <1>u, <2>2 DEF MarkFailedFails
  <2> QED
    BY <1>5, <2>1, <2>2 DEF CatchStep
<1>6. ASSUME NEW w \in Worker, Crash(w)
      PROVE  Mapped
  BY <1>u, <1>6 DEF Crash
<1>7. ASSUME NEW c \in Client, ClientStep(c)
      PROVE  Mapped
  <2>1. PICK t \in Task :
          \/ \E s \in PatchStatus, retry \in {NULL, 1} : PatchTask(c, t, s, retry)
          \/ SubmitTaskResult(c, t)
    BY <1>7 DEF ClientStep
  <2>2. ASSUME NEW s \in PatchStatus, NEW retry \in {NULL, 1},
               PatchTask(c, t, s, retry)
        PROVE  Mapped
    BY <1>s, <2>2 DEF PatchTask, OnlySettles
  <2>3. CASE SubmitTaskResult(c, t)
    <3>1. PICK row \in Row : row = task_queue[t]
      BY <1>0 DEF TypeInv, TypeOK
    <3>2. Exists(t) /\ Put(t, SubmittedResult(row))
      BY <2>3, <3>1 DEF SubmitTaskResult
    <3>3. Settles(row, SubmittedResult(row))
      BY <3>1, <3>2
      DEF Settles, SubmittedResult, SameCounters, Exists, Row, Settled
    <3> QED
      BY <1>0, <3>1, <3>2, <3>3, SettlesIsSettle DEF Mapped
  <2> QED
    BY <2>1, <2>2, <2>3
<1>8. ASSUME RecoverStaleClaims
      PROVE  Mapped
  BY <1>8, RecoveryIsSweep DEF Mapped, Lifecycle!Next
<1>9. ASSUME Tick
      PROVE  Mapped
  BY <1>0, <1>9, TickIsUnseen DEF Mapped
<1>10. ASSUME UNCHANGED vars
      PROVE  Mapped
  BY <1>u, <1>10 DEF vars
<1>11. Mapped
  BY <1>1, <1>2, <1>3, <1>4, <1>5, <1>6, <1>7, <1>8, <1>9, <1>10 DEF Next
<1> QED
  BY <1>11 DEF Mapped

(* The two facts about attempts are kept: an absent row is only inserted,  *)
(* and a row becomes claimed only by counting an attempt.                  *)
LEMMA PutFits ==
  ASSUME TypeInv, RowsFit, NEW t \in Task, NEW row, Put(t, row),
         AttemptsFit(row)
  PROVE  RowsFit'
  BY DEF TypeInv, TypeOK, RowsFit, Put, AttemptsFit

(* updateTaskStatus with a settled status keeps the two facts.             *)
LEMMA UpdateFits ==
  ASSUME TypeInv, RowsFit, NEW t \in Task, NEW s \in Settled, NEW retry,
         UpdateTaskStatus(t, s, retry)
  PROVE  RowsFit'
<1>1. AttemptsFit(StatusSet(task_queue[t], s, retry))
  BY DEF StatusSet, AttemptsFit, Settled, TypeInv, TypeOK, Row
<1> QED
  BY <1>1, PutFits DEF UpdateTaskStatus

(* Every step keeps the two facts.                                         *)
LEMMA StepFits ==
  OnlySettles /\ LifecycleInv /\ [Next]_vars => RowsFit'
<1> SUFFICES ASSUME OnlySettles, LifecycleInv, [Next]_vars
             PROVE  RowsFit'
  OBVIOUS
<1>0. /\ TypeInv /\ RowsFit
      /\ \A w \in Worker : pc[w] # "idle" => job[w].task \in Task
      /\ \A t \in Task : task_queue[t] \in Row /\ AttemptsFit(task_queue[t])
      /\ UNCHANGED task_queue => RowsFit'
  BY DEF LifecycleInv, TypeInv, TypeOK, JobsNameTasks, RowsFit
<1>1. ASSUME NEW t \in Task, NEW o \in EnqueueOption, EnqueueTask(t, o)
      PROVE  RowsFit'
  <2>1. AttemptsFit(Inserted(o))
    BY DEF Inserted, NoRow, AttemptsFit
  <2> QED
    BY <1>0, <1>1, <2>1, PutFits DEF EnqueueTask
<1>2. ASSUME NEW w \in Worker, ClaimSelect(w) \/ ClaimCommit(w)
      PROVE  RowsFit'
  <2>1. CASE ClaimSelect(w)
    BY <1>0, <2>1 DEF ClaimSelect
  <2>2. CASE ClaimCommit(w)
    <3>1. PICK row \in Row : row = task_queue[job[w].task]
      BY <1>0, <2>2 DEF ClaimCommit
    <3>2. /\ Claimed(row, w).status = "claimed"
          /\ Claimed(row, w).attempt = row.attempt + 1 /\ row.attempt \in Nat
      BY DEF Claimed, Row
    <3>3. AttemptsFit(Claimed(row, w))
      BY <3>2 DEF AttemptsFit
    <3> QED
      BY <1>0, <2>2, <3>1, <3>3, PutFits DEF ClaimCommit
  <2> QED
    BY <1>2, <2>1, <2>2
<1>3. ASSUME NEW w \in Worker, RunnerStep(w)
      PROVE  RowsFit'
  BY <1>0, <1>3 DEF RunnerStep, CodexSucceeds, CodexFails, NoDelegatedToken
<1>4. ASSUME NEW w \in Worker, CronStep(w)
      PROVE  RowsFit'
  <2>1. CASE ExecutorReturns(w)
    BY <1>0, <2>1, UpdateFits DEF ExecutorReturns, Settled
  <2>2. CASE StoreResult(w)
    <3>1. PICK row \in Row : row = task_queue[job[w].task] /\ AttemptsFit(row)
      BY <1>0, <2>2 DEF StoreResult
    <3>2. AttemptsFit([row EXCEPT !.result = "json"])
      BY <3>1 DEF AttemptsFit, Row
    <3> QED
      BY <1>0, <2>2, <3>1, <3>2, PutFits DEF StoreResult
  <2> QED
    BY <1>0, <1>4, <2>1, <2>2 DEF CronStep, ExecutorFails, StoreResultFails
<1>5. ASSUME NEW w \in Worker, CatchStep(w)
      PROVE  RowsFit'
  BY <1>0, <1>5, UpdateFits DEF CatchStep, MarkFailed, MarkFailedFails, Settled
<1>6. ASSUME NEW w \in Worker, Crash(w)
      PROVE  RowsFit'
  BY <1>0, <1>6 DEF Crash
<1>7. ASSUME NEW c \in Client, ClientStep(c)
      PROVE  RowsFit'
  <2>1. PICK t \in Task :
          \/ \E s \in PatchStatus, retry \in {NULL, 1} : PatchTask(c, t, s, retry)
          \/ SubmitTaskResult(c, t)
    BY <1>7 DEF ClientStep
  <2>2. ASSUME NEW s \in PatchStatus, NEW retry \in {NULL, 1},
               PatchTask(c, t, s, retry)
        PROVE  RowsFit'
    BY <1>0, <2>2, UpdateFits DEF PatchTask, OnlySettles
  <2>3. CASE SubmitTaskResult(c, t)
    <3>1. AttemptsFit(SubmittedResult(task_queue[t]))
      BY <1>0 DEF SubmittedResult, AttemptsFit, Row
    <3> QED
      BY <1>0, <2>3, <3>1, PutFits DEF SubmitTaskResult
  <2> QED
    BY <2>1, <2>2, <2>3
<1>8. CASE RecoverStaleClaims
  <2>1. ASSUME NEW t \in Task
        PROVE  AttemptsFit(task_queue'[t])
    <3>1. PICK row \in Row : row = task_queue[t] /\ AttemptsFit(row)
      BY <1>0
    <3>2. AttemptsFit(Recovered(row))
      BY DEF Recovered, AttemptsFit, Row
    <3> QED
      BY <1>8, <3>1, <3>2 DEF RecoverStaleClaims
  <2> QED
    BY <2>1 DEF RowsFit, AttemptsFit
<1>9. CASE Tick
  <2>1. ASSUME NEW t \in Task
        PROVE  AttemptsFit(task_queue'[t])
    <3>1. PICK row \in Row : row = task_queue[t] /\ AttemptsFit(row)
      BY <1>0
    <3>2. AttemptsFit(Older(row))
      BY <3>1 DEF Older, AttemptsFit, Row
    <3> QED
      BY <1>9, <3>1, <3>2 DEF Tick
  <2> QED
    BY <2>1 DEF RowsFit, AttemptsFit
<1>10. CASE UNCHANGED vars
  BY <1>0, <1>10 DEF vars
<1> QED
  BY <1>1, <1>2, <1>3, <1>4, <1>5, <1>6, <1>7, <1>8, <1>9, <1>10 DEF Next

(* Whoever enqueues a task sees the lifecycle and nothing else: the task   *)
(* waits, is tried within its allowance, goes back only while a try is     *)
(* left, and settles for good.                                             *)
THEOREM Refinement ==
  ASSUME OnlySettles
  PROVE  Spec => ImplementsLifecycle
<1>1. NoRequeue
  BY DEF OnlySettles, NoRequeue, Settled
<1>2. Init => RowsFit
  BY DEF Init, RowsFit, AttemptsFit, NoRow
<1>3. Init => LifecycleInv
  BY <1>2, InitTypes, InitClaims, InitBudget DEF LifecycleInv
<1>4. LifecycleInv /\ [Next]_vars => LifecycleInv'
  BY <1>1, OnlySettles, StepTypes, StepClaims, StepBudget, StepFits
  DEF LifecycleInv
<1>5. LifecycleInv /\ [Next]_vars => [Lifecycle!Next]_(Lifecycle!vars)
  BY OnlySettles, StepMaps
<1> QED
  BY <1>3, <1>4, <1>5, StartMaps, PTL
  DEF Spec, ImplementsLifecycle, Lifecycle!Safety

=============================================================================
