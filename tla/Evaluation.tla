----------------------------- MODULE Evaluation -----------------------------
(***************************************************************************)
(* The evaluation of one tax return: PATCH of its situation_data, and what *)
(* tier-evaluate and validate answer for the document that is stored.      *)
(*                                                                         *)
(* The caller of PATCH sends whole documents, each of which differs from   *)
(* the stored one in one line or field.  The three tables of the knowledge *)
(* base (tiers, forms, rules) were written independently of each other and *)
(* must tell the same story about every document.                          *)
(***************************************************************************)
EXTENDS TierMapping, ValidationRules

CONSTANTS
  Blank,          \* the documents that a return starts with
  IncomeLines,    \* sequences of the lines that callers put in a document;
  DeductionLines, \* a document lists them in the order of these sequences
  CreditLines,
  DependentLines,
  MaxLines        \* bound on the lines of a list

(* The lists of a document are arrays, and amounts are numbers.            *)
DocumentLists == {"incomeStreams", "deductions", "credits", "dependents"}

ASSUME LinesAssumption ==
  /\ \A lines \in {IncomeLines, DeductionLines, CreditLines, DependentLines} : IsArray(lines)
  /\ \A line \in Range(IncomeLines) : line.amount \in Int
  /\ \A doc \in Blank :
       /\ \A list \in DocumentLists : IsArray(doc[list])
       /\ \A line \in Range(doc.incomeStreams) : line.amount \in Int

VARIABLE situation_data   \* NULL until a document has been stored

(* The document with one more line at the end of a list.                   *)
WithLine(doc, list, lines) ==
  {[doc EXCEPT ![list] = Append(@, lines[i])] :
     i \in {j \in 1 .. Len(lines) :
              /\ Len(doc[list]) < MaxLines
              /\ \A k \in j .. Len(lines) : ~ Contains(doc[list], lines[k])}}

WithoutLine(doc, list) ==
  {[doc EXCEPT ![list] = RemoveAt(@, i)] : i \in 1 .. Len(doc[list])}

Edits(doc) ==
  WithLine(doc, "incomeStreams", IncomeLines)
  \cup WithLine(doc, "deductions", DeductionLines)
  \cup WithLine(doc, "credits", CreditLines)
  \cup WithLine(doc, "dependents", DependentLines)
  \cup (UNION {WithoutLine(doc, list) : list \in DocumentLists})
  \cup {[doc EXCEPT !.filingStatus = f] :
          f \in {"single", "married_filing_separately", "head_of_household"}}
  \cup {[doc EXCEPT !.stateResidency.additional = a] : a \in {<<>>, <<"NY">>}}

EvaluationInit == situation_data = NULL

(* PATCH /returns/:id with a document; a 400 leaves the return as it is.   *)
PatchReturn ==
  \E doc \in IF situation_data = NULL THEN Blank ELSE Edits(situation_data) :
    /\ patchTaxReturnSchema([situationData |-> doc])
    /\ situation_data' = doc

EvaluationNext == PatchReturn

EvaluationSpec == EvaluationInit /\ [][EvaluationNext]_situation_data

(* POST .../tier-evaluate: evaluable is false without a document.          *)
TierEvaluate ==
  IF situation_data = NULL THEN [evaluable |-> FALSE]
  ELSE [evaluable |-> TRUE, evaluations |-> evaluateTierPlacement(situation_data)]

(* POST .../validate: 422 without a document.                              *)
ValidateReturn ==
  IF situation_data = NULL THEN [status |-> 422]
  ELSE [status |-> 200, result |-> validate(situation_data)]

-----------------------------------------------------------------------------
Stored == situation_data # NULL
Tiers  == TierEvaluate.evaluations
Review == ValidateReturn.result

GatingProviders == {"turbotax", "hrblock", "taxact"}

Fitting(tiers, met) ==
  {i \in 1 .. Len(tiers) : met[tiers[i].qualifying] /\ FirstMet(tiers[i].disqualifying, met) = 0}

SelfEmployedTier == {"Self-Employed", "Self-Employed+"}
FreeTier         == {"Free", "Free Online"}
DeluxeTier       == {"Deluxe", "Deluxe+"}
ScheduleFree     == {"form_1040", "w_2", "state_return"}

(* The tiers of a provider that gates by complexity are alternatives:      *)
(* whatever the order they are listed in, at most one of them fits.  And   *)
(* the tier table agrees with the form taxonomy: the self-employed tiers   *)
(* are for the returns with a Schedule SE, the free ones for those with no *)
(* schedule at all, a Schedule A alone needs the deluxe tier, and Cash App *)
(* places every return but those whose K-1 needs a Schedule E.             *)
TiersAgreeWithForms ==
  Stored =>
    LET forms == Review.formsRequired
        met   == Met(situation_data)
        tiers == Tiers
    IN  /\ \A p \in GatingProviders : Cardinality(Fitting(providers[p], met)) <= 1
        /\ \A p \in GatingProviders :
             LET tier == tiers[p].matchedTier
             IN  /\ tier \in SelfEmployedTier <=> "schedule_se" \in forms
                 /\ tier \in FreeTier => forms \subseteq ScheduleFree
                 /\ forms \subseteq ScheduleFree \cup {"schedule_a"}
                      => (tier \in DeluxeTier <=> "schedule_a" \in forms)
        /\ tiers["cashapp"].matchedTier = NULL => "schedule_e" \in forms

(* The required forms are the least set with the triggered ones that is    *)
(* closed under dependencies: nothing is missing, and whatever was not     *)
(* triggered is there for a form that depends on it.                       *)
FormsAreClosed ==
  Stored =>
    LET forms == Review.formsRequired
    IN  /\ \A f \in FormId : isTriggered(f, situation_data) => f \in forms
        /\ \A f \in forms :
             /\ FORM_TAXONOMY[f].dependencies \subseteq forms
             /\ \/ isTriggered(f, situation_data)
                \/ \E g \in forms \ {f} : f \in FORM_TAXONOMY[g].dependencies

(* The rules do not contradict each other or say the same thing in two     *)
(* ways: an amount is above or below the self-employment threshold, a      *)
(* credit is refused for the status or for the income, business lines are  *)
(* missing or unaccounted for; and a missing Schedule D means that Form    *)
(* 8949 cannot be filled in.                                               *)
RulesAgree ==
  Stored =>
    LET violated == {i.code : i \in Issues(situation_data)}
        Exclusive(codes) == Cardinality(codes \cap violated) <= 1
    IN
    /\ Exclusive({"MISSING_SCHEDULE_SE", "THRESHOLD_SE_NET_BELOW_400_WITH_SE"})
    /\ Exclusive({"CONTRADICTION_MFS_WITH_EITC", "THRESHOLD_EITC_ABOVE_QUALIFYING_AGI"})
    /\ Exclusive({"MISSING_SCHEDULE_C", "INCOMPLETE_CHAIN_SCHEDULE_C_WITHOUT_BUSINESS_INCOME"})
    /\ Exclusive({"CONTRADICTION_MFS_WITH_EITC", "CONTRADICTION_HOH_WITHOUT_QUALIFYING_DEPENDENT",
                  "CONTRADICTION_SINGLE_WITH_DEPENDENT_SPOUSE"})
    /\ MISSING_SCHEDULE_D(situation_data)
         => INCOMPLETE_CHAIN_SCHEDULE_D_WITHOUT_FORM_8949(situation_data)

(* A return that validation calls valid is one whose forms can be filled   *)
(* in: its capital transactions have proceeds and basis, its rental has    *)
(* expenses, its credit is within the limit of its status.                 *)
ValidCanBeFiled ==
  Stored /\ Review.valid =>
    /\ "form_8949" \in Review.formsRequired =>
         \A line \in Range(situation_data.incomeStreams) :
           line.type = "1099_b" => Has(form1099(line), {"proceeds", "costBasis"})
    /\ hasIncomeType(situation_data, "rental")
         => Types(situation_data.deductions) \ {"standard"} # {}
    /\ hasCreditType(situation_data, "earned_income") =>
         totalIncome(situation_data) <= eitcLimits(situation_data.filingStatus)[4]

Grows(list) == Len(situation_data'[list]) > Len(situation_data[list])

(* A document with one more income or deduction line never has a cheaper   *)
(* federal return at a provider that places both.                          *)
MoreNeverCheaper ==
  [][Stored /\ (Grows("incomeStreams") \/ Grows("deductions")) =>
       LET met  == Met(situation_data)
           more == Met(situation_data')
       IN
       \A p \in DOMAIN providers :
         LET before == Placement(providers[p], met).federalPrice
             after  == Placement(providers[p], more).federalPrice
         IN  NULL \notin {before, after} => before <= after]_situation_data
=============================================================================
