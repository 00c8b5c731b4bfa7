----------------------------- MODULE MCWaiting -----------------------------
(***************************************************************************)
(* What must come to an end whoever hangs, for TLC: the claims of the task *)
(* queue, and what a user of the web client waits for.  The two share no   *)
(* variable, so that an instance takes one at a time; part says which.     *)
(***************************************************************************)
EXTENDS MCTaskQueue, Intake

VARIABLE part

waitingVars == <<part, vars, intakeVars>>

(* A filer may have an object with its return already, or nothing.         *)
WaitingInit ==
  /\ part \in {"claims", "tab"}
  /\ Init
  /\ cookie \in IF part = "tab" THEN {NULL} \cup Anyone ELSE {NULL}
  /\ app = [Page EXCEPT !.authLoading = part = "tab"]
  /\ runs = [b \in Bootstrap |-> Over]
  /\ returned \in IF part = "tab" THEN SUBSET (Filer \X {1}) ELSE {{}}
  /\ objects = [u \in Anyone |-> IF <<u, 1>> \in returned THEN << <<u, 1>> >> ELSE <<>>]

InClaims(A) == part = "claims" /\ A /\ UNCHANGED <<part, intakeVars>>

InTab(A) == part = "tab" /\ A /\ UNCHANGED <<part, vars>>

(* The fairness of RecoverySpec and of FairIntakeSpec.                     *)
WaitingSpec ==
  /\ WaitingInit
  /\ [][InClaims(Next) \/ InTab(SessionSteps \/ WizardSteps)]_waitingVars
  /\ WF_waitingVars(InClaims(Tick)) /\ WF_waitingVars(InClaims(RecoverStaleClaims))
  /\ WF_waitingVars(InTab(Flush)) /\ WF_waitingVars(InTab(Me)) /\ WF_waitingVars(InTab(Answers))
  /\ \A b \in Bootstrap : WF_waitingVars(InTab(BootstrapStep(b)))
=============================================================================
