----------------------------- MODULE WorkerLoop -----------------------------
(***************************************************************************)
(* runWorkerLoop and createWorkerWaker of packages/db/task-queue-worker.ts:*)
(* a worker claims, waits for a notification or for the poll interval, and *)
(* claims again.  The claim itself is TaskQueue's; here it takes a pending *)
(* task or finds none.                                                     *)
(*                                                                         *)
(* A wait is a promise with a callback in the list of pending ones and a   *)
(* timer.  A notification resolves the promises of all callbacks in the    *)
(* list, and finds none there while the worker is claiming or executing;   *)
(* it does not clear timers, so the timer of a wait that is over may still *)
(* fire when the worker is in its next wait.                               *)
(***************************************************************************)
EXTENDS Naturals

CONSTANTS
  Worker,      \* loops, each with its own LISTEN connection
  Task,        \* tasks of their agent type
  Wait,        \* bound: names for waits, reused once their timer has fired
  MaxRequeues  \* bound: how many recovered tasks return to the queue

ASSUME BoundAssumption == MaxRequeues \in Nat /\ Wait # {}

VARIABLES
  queue,     \* per task: "absent", "pending" or "taken"
  requeues,  \* how often a task has returned to the queue
  at,        \* per worker: where its loop is
  running,   \* per worker: stop() has not been called
  mail,      \* per worker: notifications on their way to it
  current,   \* per worker: its latest wait
  pending,   \* per worker: waits whose callback is in the list
  timers,    \* per worker: waits whose timer is armed
  done       \* per worker: waits whose promise is resolved

loop == <<at, running, mail, current, pending, timers, done>>
vars == <<queue, requeues, loop>>

Init ==
  /\ queue = [t \in Task |-> "absent"]
  /\ requeues = 0
  /\ at = [w \in Worker |-> "claim"]
  /\ running = [w \in Worker |-> TRUE]
  /\ mail = [w \in Worker |-> {}]
  /\ current \in [Worker -> Wait]
  /\ pending = [w \in Worker |-> {}]
  /\ timers = [w \in Worker |-> {}]
  /\ done = [w \in Worker |-> {}]

Goto(w, l) == at' = [at EXCEPT ![w] = l]

-----------------------------------------------------------------------------
(* The INSERT trigger of schema.sql notifies every connection that listens.*)
Insert(t) ==
  /\ queue[t] = "absent"
  /\ queue' = [queue EXCEPT ![t] = "pending"]
  /\ mail' = [w \in Worker |-> IF at[w] = "stopped" THEN {} ELSE mail[w] \cup {t}]
  /\ UNCHANGED <<requeues, at, running, current, pending, timers, done>>

(* A recovered task is pending again by an UPDATE: nobody is notified.     *)
Requeue(t) ==
  /\ queue[t] = "taken" /\ requeues < MaxRequeues
  /\ queue' = [queue EXCEPT ![t] = "pending"]
  /\ requeues' = requeues + 1
  /\ UNCHANGED loop

(* The LISTEN connection breaks; it is made again, without what was sent.  *)
LoseNotifications(w) ==
  /\ mail[w] # {}
  /\ mail' = [mail EXCEPT ![w] = {}]
  /\ UNCHANGED <<queue, requeues, at, running, current, pending, timers, done>>

-----------------------------------------------------------------------------
(* await tryClaimAndExecute()                                              *)
Claim(w) ==
  /\ at[w] = "claim"
  /\ \/ \E t \in Task :
          /\ queue[t] = "pending"
          /\ queue' = [queue EXCEPT ![t] = "taken"]
          /\ Goto(w, "execute")
     \/ /\ \A t \in Task : queue[t] # "pending"
        /\ Goto(w, "claimed")
        /\ UNCHANGED queue
  /\ UNCHANGED <<requeues, running, mail, current, pending, timers, done>>

Executed(w) ==
  /\ at[w] = "execute"
  /\ Goto(w, "claimed")
  /\ UNCHANGED <<queue, requeues, running, mail, current, pending, timers, done>>

(* Mutant: no poll interval.                                               *)
WaitForNotification(w) ==
  /\ at[w] = "claimed" /\ running[w]
  /\ \E i \in Wait \ timers[w] :
       /\ current' = [current EXCEPT ![w] = i]
       /\ pending' = [pending EXCEPT ![w] = @ \cup {i}]
       /\ done'    = [done EXCEPT ![w] = @ \ {i}]
  /\ Goto(w, "wait")
  /\ UNCHANGED <<queue, requeues, running, mail, timers>>

(* waitForWork                                                             *)
WaitForWork(w) ==
  /\ at[w] = "claimed" /\ running[w]
  /\ \E i \in Wait \ timers[w] :
       /\ current' = [current EXCEPT ![w] = i]
       /\ pending' = [pending EXCEPT ![w] = @ \cup {i}]
       /\ timers'  = [timers EXCEPT ![w] = @ \cup {i}]
       /\ done'    = [done EXCEPT ![w] = @ \ {i}]
  /\ Goto(w, "wait")
  /\ UNCHANGED <<queue, requeues, running, mail>>

(* if (!running) break                                                     *)
Break(w) ==
  /\ at[w] = "claimed" /\ ~running[w]
  /\ Goto(w, "ended")
  /\ UNCHANGED <<queue, requeues, running, mail, current, pending, timers, done>>

(* The handler of LISTEN: pending.splice(0), and resolve them all.         *)
Notified(w) ==
  /\ \E t \in mail[w] : mail' = [mail EXCEPT ![w] = @ \ {t}]
  /\ done' = [done EXCEPT ![w] = @ \cup pending[w]]
  /\ pending' = [pending EXCEPT ![w] = {}]
  /\ UNCHANGED <<queue, requeues, at, running, current, timers>>

(* Mutant: whatever the timer finds last in the list is taken out of it.   *)
PollBlindly(w, i) ==
  /\ i \in timers[w]
  /\ timers' = [timers EXCEPT ![w] = @ \ {i}]
  /\ done' = [done EXCEPT ![w] = @ \cup {i}]
  /\ pending' = [pending EXCEPT ![w] = {}]
  /\ UNCHANGED <<queue, requeues, at, running, mail, current>>

(* The timer of a wait: resolves its promise unless it is resolved.        *)
Poll(w, i) ==
  /\ i \in timers[w]
  /\ timers' = [timers EXCEPT ![w] = @ \ {i}]
  /\ IF i \in done[w]
       THEN UNCHANGED <<done, pending>>
       ELSE /\ done' = [done EXCEPT ![w] = @ \cup {i}]
            /\ pending' = [pending EXCEPT ![w] = @ \ {i}]
  /\ UNCHANGED <<queue, requeues, at, running, mail, current>>

(* Mutant: while (true).                                                   *)
ResumeAlways(w) ==
  /\ at[w] = "wait" /\ current[w] \in done[w]
  /\ Goto(w, "claim")
  /\ UNCHANGED <<queue, requeues, running, mail, current, pending, timers, done>>

(* The wait is over: while (running).                                      *)
Resume(w) ==
  /\ at[w] = "wait" /\ current[w] \in done[w]
  /\ Goto(w, IF running[w] THEN "claim" ELSE "ended")
  /\ UNCHANGED <<queue, requeues, running, mail, current, pending, timers, done>>

(* stop(), and what it does when the loop has ended: UNLISTEN.             *)
Stop(w) ==
  /\ running[w]
  /\ running' = [running EXCEPT ![w] = FALSE]
  /\ UNCHANGED <<queue, requeues, at, mail, current, pending, timers, done>>

Unlisten(w) ==
  /\ at[w] = "ended"
  /\ Goto(w, "stopped")
  /\ mail' = [mail EXCEPT ![w] = {}]
  /\ UNCHANGED <<queue, requeues, running, current, pending, timers, done>>

-----------------------------------------------------------------------------
RunWorkerLoop(w) ==
  \/ Claim(w) \/ Executed(w) \/ WaitForWork(w) \/ Break(w) \/ Resume(w)
  \/ Unlisten(w)

Next ==
  \/ \E t \in Task : Insert(t) \/ Requeue(t)
  \/ \E w \in Worker :
       \/ RunWorkerLoop(w) \/ Notified(w) \/ Stop(w) \/ LoseNotifications(w)
       \/ \E i \in Wait : Poll(w, i)

Spec == Init /\ [][Next]_vars

(* A loop runs on, an execution ends and a timer fires.  Nothing is asked  *)
(* of notifications: they are best effort.                                 *)
FairSpec ==
  /\ Spec
  /\ \A w \in Worker : /\ WF_vars(RunWorkerLoop(w))
                       /\ \A i \in Wait : WF_vars(Poll(w, i))

-----------------------------------------------------------------------------
TypeOK ==
  /\ queue \in [Task -> {"absent", "pending", "taken"}]
  /\ requeues \in 0 .. MaxRequeues
  /\ at \in [Worker -> {"claim", "execute", "claimed", "wait", "ended", "stopped"}]
  /\ running \in [Worker -> BOOLEAN]
  /\ mail \in [Worker -> SUBSET Task]
  /\ current \in [Worker -> Wait]
  /\ pending \in [Worker -> SUBSET Wait]
  /\ timers \in [Worker -> SUBSET Wait]
  /\ done \in [Worker -> SUBSET Wait]

(* A worker that sleeps can be woken in both ways, whatever timers of its  *)
(* earlier waits have done in the meantime; and nothing else is in the     *)
(* list: a wait that is over leaves no callback behind.                    *)
SleepersCanBeWoken ==
  \A w \in Worker :
    IF at[w] = "wait" /\ current[w] \notin done[w]
      THEN pending[w] = {current[w]} /\ current[w] \in timers[w]
      ELSE pending[w] = {}

(* stop() lets the current iteration end and starts no other.              *)
NoClaimAfterStop ==
  [][\A w \in Worker : (~running[w] /\ at[w] # "claim") => at'[w] # "claim"]_vars

(* A pending task is taken, although notifications get lost or come when   *)
(* nobody waits, and recovered tasks come without one -- unless the        *)
(* workers are stopped.                                                    *)
TasksAreTaken ==
  \A t \in Task : queue[t] = "pending"
                    ~> queue[t] = "taken" \/ \A w \in Worker : ~running[w]

(* A loop that is told to stop gives its connection back.                  *)
StopEnds == \A w \in Worker : ~running[w] ~> at[w] = "stopped"
=============================================================================
