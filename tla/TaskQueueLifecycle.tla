------------------------- MODULE TaskQueueLifecycle -------------------------
(***************************************************************************)
(* The task queue implements TaskLifecycle: a row's status is a phase, its *)
(* attempt counter the tries, and max_attempts (at least one) the          *)
(* allowance.                                                              *)
(***************************************************************************)
EXTENDS TaskQueue

PhaseOf(row) ==
  CASE row.status = "absent"   -> "new"
    [] row.status = "pending"  -> "waiting"
    [] row.status \in Settled  -> "settled"
    [] OTHER                   -> "tried"

Lifecycle == INSTANCE TaskLifecycle WITH
  Allowance <- {Budget([max_attempts |-> n]) :
                  n \in {o.max_attempts : o \in EnqueueOption} \cup {0}},
  phase     <- [t \in Task |-> PhaseOf(task_queue[t])],
  tries     <- [t \in Task |-> task_queue[t].attempt],
  allowance <- [t \in Task |-> Budget(task_queue[t])]

(* Every step of the table is a step of the lifecycle or invisible to the  *)
(* one who enqueued: retries stay within max_attempts, a row moves back    *)
(* only from an expired claim, and what has settled stays settled.  It     *)
(* needs OnlySettles.                                                      *)
ImplementsLifecycle == Lifecycle!Safety
=============================================================================
