------------------------------ MODULE MCFiling ------------------------------
(***************************************************************************)
(* The way of a return, for TLC: the client that finds or creates it, the  *)
(* form, the rows in the database, and what the knowledge base makes of    *)
(* the document.  The modules share no variable, so that an instance takes *)
(* one of them at a time; part says which.                                 *)
(***************************************************************************)
EXTENDS Evaluation, Records, SituationForm, Intake, TLC

Line(type, amount) ==
  [type |-> type, source |-> "payer", amount |-> amount, documentation |-> <<>>]

WithW2(line, withheld) ==
  line @@ [w2Data |-> [wages |-> line.amount, federalTaxWithheld |-> withheld,
                       socialSecurityWages |-> line.amount,
                       socialSecurityTaxWithheld |-> 0,
                       medicareWages |-> line.amount, medicareTaxWithheld |-> 0]]

With1099(line, data) == line @@ [form1099Data |-> data @@ [payerName |-> "payer"]]

IncomeLinesSmall ==
  << WithW2(Line("w2", 60000), 0),
     Line("1099_nec", 399), Line("1099_misc", 1000),
     With1099(Line("1099_b", -3000), [proceeds |-> 1000, costBasis |-> 4000]),
     Line("1099_b", 2000), Line("1099_int", 100), Line("k1", 800),
     Line("rental", 401), Line("1099_nec", 2) >>

Amount(type) == [type |-> type, amount |-> 1, documentation |-> <<>>]

DeductionLinesSmall ==
  << Amount("standard"), Amount("charitable"), Amount("other") >>

CreditLinesSmall == << Amount("earned_income") >>

Person(relationship, born, credit) ==
  [firstName |-> "A", lastName |-> "B", relationship |-> relationship,
   dateOfBirth |-> born, qualifiesForChildTaxCredit |-> credit, qualifiesForEIC |-> credit]

DependentLinesSmall ==
  << Person("spouse", "1998-06-15", FALSE), Person("child", "2015-06-15", TRUE) >>

BlankDocuments ==
  {[id |-> "s1", version |-> "0.1.0", filingYear |-> 2025, filingStatus |-> "single",
    dependents |-> <<>>, incomeStreams |-> <<>>, deductions |-> <<>>,
    credits |-> <<>>, lifeEvents |-> <<>>, priorYearContext |-> <<>>,
    stateResidency |-> [primary |-> "CA", additional |-> <<>>],
    documentationCompleteness |-> 40,
    confidenceScores |-> [overall |-> 45, perField |-> [incomeStreams |-> 30]],
    rawArtifacts |-> <<>>,
    metadata |-> [createdAt |-> "t", updatedAt |-> "t", objectType |-> "individual",
                  schemaVersion |-> "0.1.0"]]}

-----------------------------------------------------------------------------
(* What the form is opened on.                                             *)
Boxes == W2Boxes \cup {"stateName"}

ReadW2(boxes, state, ein) ==
  [b \in boxes |-> IF b = "stateName" THEN state ELSE 10]
  @@ [employerName |-> "text", employerEIN |-> ein]

(* A W-2 that is read, and one of which a box is missing, two are null and *)
(* one is of the model's invention.                                        *)
W2s == {<<>>, ReadW2(Boxes, "CA", "text"),
        ReadW2((Boxes \ {"medicareWages"}) \cup {"box12"}, NULL, NULL)}

(* A description that is understood, and one that comes with types, states *)
(* and properties of the model's invention.                                *)
ParsedDescriptions ==
  {<<>>,
   [incomeStreams |-> <<[type |-> "1099_nec", source |-> "text", amount |-> 1],
                        [type |-> "w2", source |-> "", amount |-> 0]>>,
    lifeEvents |-> <<[type |-> "birth", date |-> "text"]>>,
    stateResidency |-> [primary |-> "NY", additional |-> <<"CA">>]],
   [filingStatus |-> "unmarried",
    incomeStreams |-> <<[type |-> "salary", source |-> "text", currency |-> "USD"]>>,
    lifeEvents |-> <<[type |-> "moved", date |-> NULL]>>,
    stateResidency |-> [primary |-> "New York", additional |-> <<"XX">>]]}

StoredSituations ==
  {<<>>,
   [filingYear |-> 2025, filingStatus |-> "single",
    deductions |-> <<[type |-> "medical", amount |-> 1, documentation |-> <<>>]>>]}

-----------------------------------------------------------------------------
(* Filers are alike, and so are their bootstraps.                          *)
FilingSymmetry == Permutations(Filer) \cup Permutations(Bootstrap)

VARIABLE part

filingVars == <<part, situation_data, recordsVars, formVars, intakeVars>>

Parts ==
  {"evaluation", "accounts", "tasks", "returns", "owners", "form", "tabs", "sessions", "wizard"}

(* Filers have their object and return already, but where tabs race.       *)
FilingInit ==
  /\ part \in Parts
  /\ EvaluationInit /\ RecordsInit
  /\ FormInit /\ (part # "form" => opened = [situation |-> <<>>, w2Data |-> <<>>, parsedFields |-> <<>>])
  /\ cookie \in IF part \in {"tabs", "sessions", "wizard"} THEN {NULL} \cup Filer ELSE {NULL}
  /\ app = Page /\ runs = [b \in Bootstrap |-> Over]
  /\ objects = [u \in Anyone |-> IF part # "tabs" /\ u \in Filer THEN <<<<u, 1>>>> ELSE <<>>]
  /\ returned = IF part # "tabs" THEN Filer \X {1} ELSE {}

EvaluationPart ==
  part = "evaluation" /\ EvaluationNext /\ UNCHANGED <<part, recordsVars, formVars, intakeVars>>

RecordsPart ==
  /\ UNCHANGED <<part, situation_data, formVars, intakeVars>>
  /\ \E q \in Request :
       \/ part = "accounts" /\ (AccountRequests(q) \/ Erase(q) \/ EveryRequest(q))
       \/ part = "tasks"    /\ (TaskRequests(q) \/ EveryRequest(q))
       \/ part = "returns"  /\ (FilingRequests(q) \/ EveryRequest(q))
       \/ part = "owners"   /\ (Creations(q) \/ CountSuperusers(q) \/ EveryRequest(q))

FormPart ==
  part = "form" /\ FormNext /\ UNCHANGED <<part, situation_data, recordsVars, intakeVars>>

(* No superadmin logs in while tabs race.                                  *)
IntakePart ==
  /\ part \in {"tabs", "sessions", "wizard"}
  /\ \/ SessionSteps
     \/ part = "tabs" /\ (Reload \/ BootstrapElsewhere)
     \/ part = "sessions" /\ SessionElsewhere
     \/ part = "wizard" /\ WizardSteps
  /\ part = "tabs" => cookie' \notin Superadmin
  /\ UNCHANGED <<part, situation_data, recordsVars, formVars>>

FilingNext == EvaluationPart \/ RecordsPart \/ FormPart \/ IntakePart

FilingSpec == FilingInit /\ [][FilingNext]_filingVars
=============================================================================
