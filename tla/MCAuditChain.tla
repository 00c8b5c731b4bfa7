---------------------------- MODULE MCAuditChain ----------------------------
(***************************************************************************)
(* The audit log, and the tabs in which an administrator reads it and all  *)
(* the rest, for TLC.  The two share no variable, so that an instance      *)
(* takes one at a time; part says which.                                   *)
(***************************************************************************)
EXTENDS AuditChain, Panels, TLC

-----------------------------------------------------------------------------
(* Two pages of users, of whom a search finds one; two pages of events; a  *)
(* passkey and the ids of two more.                                        *)
AllOnOnePage(ids) == [q \in {""} |-> <<ids>>]

SmallPages ==
  [t \in {"users", "registrations", "events", "verify", "task-queue", "passkeys"} |->
     CASE t = "users"    -> "" :> <<{"ann"}, {"bob"}>> @@ "bob" :> <<{"bob"}>>
       [] t = "events"   -> "" :> <<{"e1"}, {"e2"}>>
       [] t = "passkeys" -> AllOnOnePage({"k1", "k2", "k3"})
       [] OTHER          -> AllOnOnePage({"row"})]

SmallRows ==
  [t \in DOMAIN SmallPages |->
     CASE t = "users"    -> {<<"ann", "active">>, <<"bob", "active">>}
       [] t = "passkeys" -> {<<"k1", "row">>}
       [] OTHER          -> {<<id, "row">> : id \in SmallPages[t][""][1]}]

-----------------------------------------------------------------------------
VARIABLE part

auditVars == <<part, vars, panelVars>>

InChain(A) == part = "chain" /\ A /\ UNCHANGED <<part, panelVars>>

InPanels(A) == part = "panels" /\ A /\ UNCHANGED <<part, vars>>

AuditInit == part \in {"chain", "panels"} /\ Init /\ PanelsInit

AuditSpec == AuditInit /\ [][InChain(Next) \/ InPanels(PanelsNext)]_auditVars

(* The fairness of FairSpec.                                               *)
FairAuditSpec ==
  AuditSpec /\ \A e \in AnyEvent : WF_auditVars(InChain(EmitAuditEvent(e)))
=============================================================================
