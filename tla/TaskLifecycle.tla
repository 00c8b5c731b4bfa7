--------------------------- MODULE TaskLifecycle ---------------------------
(***************************************************************************)
(* What the task queue promises to whoever enqueues a task, without rows,  *)
(* locks, claims or clocks: the task waits, is tried at most as often as   *)
(* its allowance, goes back to waiting only while a try is left, and       *)
(* settles once, for good.                                                 *)
(***************************************************************************)
EXTENDS Integers

CONSTANTS
  Task,       \* the tasks that may be submitted
  Allowance   \* the numbers of tries a task may be submitted with

VARIABLES
  phase,      \* "new", "waiting", "tried" or "settled"
  tries,      \* how often it has been tried
  allowance   \* how often it may be

vars == <<phase, tries, allowance>>

Init ==
  /\ phase = [t \in Task |-> "new"]
  /\ tries = [t \in Task |-> 0]
  /\ allowance \in [Task -> Allowance]

Submit(t) ==
  /\ phase[t] = "new"
  /\ phase' = [phase EXCEPT ![t] = "waiting"]
  /\ \E n \in Allowance : allowance' = [allowance EXCEPT ![t] = n]
  /\ UNCHANGED tries

Try(t) ==
  /\ phase[t] = "waiting" /\ tries[t] < allowance[t]
  /\ phase' = [phase EXCEPT ![t] = "tried"]
  /\ tries' = [tries EXCEPT ![t] = @ + 1]
  /\ UNCHANGED allowance

CanReturn(t) == phase[t] = "tried" /\ tries[t] < allowance[t]

(* One sweep may send several tasks back and give several others up.       *)
Sweep(S) ==
  /\ S # {}
  /\ \A t \in S : phase[t] = "tried"
  /\ phase' = [t \in Task |-> IF t \notin S THEN phase[t]
                              ELSE IF CanReturn(t) THEN "waiting"
                              ELSE "settled"]
  /\ UNCHANGED <<tries, allowance>>

Settle(t) ==
  /\ phase[t] \in {"waiting", "tried"}
  /\ phase' = [phase EXCEPT ![t] = "settled"]
  /\ UNCHANGED <<tries, allowance>>

Next ==
  \/ \E t \in Task : Submit(t) \/ Try(t) \/ Settle(t)
  \/ \E S \in SUBSET Task : Sweep(S)

Safety == Init /\ [][Next]_vars
=============================================================================
