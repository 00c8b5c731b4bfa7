---------------------------- MODULE MCBackground ----------------------------
(***************************************************************************)
(* What runs without a user, for TLC: the loops of the workers, the        *)
(* recurring jobs of the servers, and the credentials that workers start   *)
(* with.  They share no variable, so that an instance takes one at a time; *)
(* part says which.                                                        *)
(***************************************************************************)
EXTENDS WorkerLoop, CronSchedule, WorkerCredentials

CONSTANTS hourly, digest

TwoPeriods == [j \in {hourly, digest} |-> IF j = hourly THEN 1 ELSE 2]

VARIABLE part

backgroundVars == <<part, vars, cronVars, credentialVars>>

BackgroundInit ==
  /\ part \in {"loops", "cron", "credentials"}
  /\ Init /\ (part # "loops" => current = [w \in Worker |-> CHOOSE i \in Wait : TRUE])
  /\ CronInit /\ CredentialInit

InLoops(A) == part = "loops" /\ A /\ UNCHANGED <<part, cronVars, credentialVars>>

BackgroundNext ==
  \/ InLoops(Next)
  \/ part = "cron" /\ CronNext /\ UNCHANGED <<part, vars, credentialVars>>
  \/ part = "credentials" /\ CredentialNext /\ UNCHANGED <<part, vars, cronVars>>

(* The fairness of FairSpec.                                               *)
BackgroundSpec ==
  /\ BackgroundInit /\ [][BackgroundNext]_backgroundVars
  /\ \A w \in Worker :
       /\ WF_backgroundVars(InLoops(RunWorkerLoop(w)))
       /\ \A i \in Wait : WF_backgroundVars(InLoops(Poll(w, i)))
=============================================================================
