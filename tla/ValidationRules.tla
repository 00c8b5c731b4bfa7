--------------------------- MODULE ValidationRules ---------------------------
(***************************************************************************)
(* knowledge-base/validation-rules.ts, thresholds.ts (2025, the only year  *)
(* it has) and validation-engine.ts.  A rule is TRUE of a situation that   *)
(* violates it, as in the code.                                            *)
(***************************************************************************)
EXTENDS FormTaxonomy

freeFileAGILimit        == 84000
selfEmploymentThreshold == 400

(* Limits by the number of qualifying children, 0, 1, 2, 3 and more.       *)
eitcLimits(filingStatus) ==
  IF filingStatus = "married_filing_jointly" THEN <<25511, 56004, 62688, 66819>>
  ELSE <<18591, 49084, 55768, 59899>>

(* reduce((acc, s) => acc + s.amount, 0)                                   *)
Total(amounts) ==
  LET acc[n \in 0 .. Len(amounts)] == IF n = 0 THEN 0 ELSE acc[n - 1] + amounts[n]
  IN  acc[Len(amounts)]

totalIncome(s) == Total([i \in 1 .. Len(s.incomeStreams) |-> s.incomeStreams[i].amount])
approximateAGI(s)      == totalIncome(s)
incomeByType(s, type) ==
  Total([i \in 1 .. Len(s.incomeStreams) |->
           IF s.incomeStreams[i].type = type THEN s.incomeStreams[i].amount ELSE 0])
netSelfEmploymentIncome(s) == incomeByType(s, "1099_nec")

hasIncomeType(s, type)    == type \in Types(s.incomeStreams)
hasDeductionType(s, type) == type \in Types(s.deductions)
hasCreditType(s, type)    == type \in Types(s.credits)

NoData == [p \in {} |-> 0]

form1099(line) == Get(line, "form1099Data", NoData)
w2(line)       == Get(line, "w2Data", NoData)
Has(data, keys) == keys \subseteq DOMAIN data

(* new Date(dateOfBirth).getFullYear(), for the dates of the instances.    *)
BirthYear(date) == CASE date = "1998-06-15" -> 1998 [] date = "2015-06-15" -> 2015

-----------------------------------------------------------------------------
MISSING_SCHEDULE_C(s) ==
  hasIncomeType(s, "1099_nec") /\ Types(s.deductions) \subseteq {"standard"}

MISSING_SCHEDULE_SE(s) ==
  netSelfEmploymentIncome(s) > selfEmploymentThreshold /\ hasIncomeType(s, "1099_nec")

MISSING_SCHEDULE_D(s) ==
  /\ hasIncomeType(s, "1099_b")
  /\ \A line \in Range(s.incomeStreams) :
       line.type = "1099_b" => ~ Has(form1099(line), {"proceeds"})

MISSING_SCHEDULE_E(s) ==
  hasIncomeType(s, "rental") /\ {"mortgage_interest", "other"} \cap Types(s.deductions) = {}

(* relationship is compared in lower case, which the instances write it in.*)
CONTRADICTION_SINGLE_WITH_DEPENDENT_SPOUSE(s) ==
  /\ s.filingStatus = "single"
  /\ \E d \in Range(s.dependents) : d.relationship \in {"spouse", "husband", "wife"}

CONTRADICTION_HOH_WITHOUT_QUALIFYING_DEPENDENT(s) ==
  s.filingStatus = "head_of_household" /\ s.dependents = <<>>

CONTRADICTION_MFS_WITH_EITC(s) ==
  s.filingStatus = "married_filing_separately" /\ hasCreditType(s, "earned_income")

IMPLAUSIBLE_NEGATIVE_AGI_WITHOUT_CAPITAL_LOSS_DOCS(s) ==
  /\ approximateAGI(s) < 0
  /\ ~ \E line \in Range(s.incomeStreams) :
         /\ line.type = "1099_b"
         /\ Has(form1099(line), {"costBasis", "proceeds"})
         /\ form1099(line).costBasis - form1099(line).proceeds > 0

IMPLAUSIBLE_W2_WAGES_OVER_10M(s) ==
  \E line \in Range(s.incomeStreams) :
    line.type = "w2" /\ Get(w2(line), "wages", line.amount) > 10000000

IMPLAUSIBLE_NEGATIVE_WITHHOLDING(s) ==
  \E line \in Range(s.incomeStreams) :
    Get(w2(line), "federalTaxWithheld", Get(form1099(line), "federalTaxWithheld", 0)) < 0

IMPLAUSIBLE_DEPENDENT_OVER_24_FOR_CTC(s) ==
  \E d \in Range(s.dependents) :
    /\ d.qualifiesForChildTaxCredit
    /\ d.dateOfBirth # ""
    /\ s.filingYear - BirthYear(d.dateOfBirth) > 24

(* Mutant: one documented transaction excuses the others.                  *)
NoTransactionDocumented(s) ==
  /\ hasIncomeType(s, "1099_b")
  /\ \A line \in Range(s.incomeStreams) :
       line.type = "1099_b" => ~ Has(form1099(line), {"proceeds", "costBasis"})

INCOMPLETE_CHAIN_SCHEDULE_D_WITHOUT_FORM_8949(s) ==
  \E line \in Range(s.incomeStreams) :
    line.type = "1099_b" /\ ~ Has(form1099(line), {"proceeds", "costBasis"})

INCOMPLETE_CHAIN_ITEMIZED_WITHOUT_SCHEDULE_A(s) ==
  /\ s.deductions # <<>>
  /\ {"standard", "mortgage_interest", "state_local_taxes", "charitable", "medical"}
       \cap Types(s.deductions) = {}

INCOMPLETE_CHAIN_SCHEDULE_C_WITHOUT_BUSINESS_INCOME(s) ==
  ~ hasIncomeType(s, "1099_nec") /\ hasDeductionType(s, "other")

THRESHOLD_FREE_FILE_AGI_EXCEEDED(s) == approximateAGI(s) > freeFileAGILimit

eitcQualifyingChildCount(s) ==
  Cardinality({i \in 1 .. Len(s.dependents) : s.dependents[i].qualifiesForEIC})

(* Mutant: married filers who file separately have the limits of others.   *)
EitcAboveForAll(s) ==
  /\ hasCreditType(s, "earned_income")
  /\ approximateAGI(s) > eitcLimits(s.filingStatus)[1 + eitcQualifyingChildCount(s)]

THRESHOLD_EITC_ABOVE_QUALIFYING_AGI(s) ==
  LET count == eitcQualifyingChildCount(s)
      index == 1 + (IF count > 3 THEN 3 ELSE count)
  IN  /\ hasCreditType(s, "earned_income")
      /\ s.filingStatus # "married_filing_separately"
      /\ approximateAGI(s) > eitcLimits(s.filingStatus)[index]

THRESHOLD_SE_NET_BELOW_400_WITH_SE(s) ==
  LET net == netSelfEmploymentIncome(s)
  IN  hasIncomeType(s, "1099_nec") /\ net > 0 /\ net < selfEmploymentThreshold

-----------------------------------------------------------------------------
(* Every rule with what it found, its severity and the field it names      *)
(* (ruleToFieldPath).                                                      *)
Rule(violated, severity, field) ==
  [violated |-> violated, severity |-> severity, field |-> field]

VALIDATION_RULES(s) == [
  MISSING_SCHEDULE_C  |-> Rule(MISSING_SCHEDULE_C(s), "error", "incomeStreams"),
  MISSING_SCHEDULE_SE |-> Rule(MISSING_SCHEDULE_SE(s), "error", "incomeStreams"),
  MISSING_SCHEDULE_D  |-> Rule(MISSING_SCHEDULE_D(s), "error", "incomeStreams"),
  MISSING_SCHEDULE_E  |-> Rule(MISSING_SCHEDULE_E(s), "error", "incomeStreams"),
  CONTRADICTION_SINGLE_WITH_DEPENDENT_SPOUSE |->
    Rule(CONTRADICTION_SINGLE_WITH_DEPENDENT_SPOUSE(s), "error", "dependents"),
  CONTRADICTION_HOH_WITHOUT_QUALIFYING_DEPENDENT |->
    Rule(CONTRADICTION_HOH_WITHOUT_QUALIFYING_DEPENDENT(s), "error", "dependents"),
  CONTRADICTION_MFS_WITH_EITC |-> Rule(CONTRADICTION_MFS_WITH_EITC(s), "error", "credits"),
  IMPLAUSIBLE_NEGATIVE_AGI_WITHOUT_CAPITAL_LOSS_DOCS |->
    Rule(IMPLAUSIBLE_NEGATIVE_AGI_WITHOUT_CAPITAL_LOSS_DOCS(s), "warning", "incomeStreams"),
  IMPLAUSIBLE_W2_WAGES_OVER_10M |->
    Rule(IMPLAUSIBLE_W2_WAGES_OVER_10M(s), "warning", "incomeStreams[].w2Data.wages"),
  IMPLAUSIBLE_NEGATIVE_WITHHOLDING |->
    Rule(IMPLAUSIBLE_NEGATIVE_WITHHOLDING(s), "error", "incomeStreams[].w2Data.federalTaxWithheld"),
  IMPLAUSIBLE_DEPENDENT_OVER_24_FOR_CTC |->
    Rule(IMPLAUSIBLE_DEPENDENT_OVER_24_FOR_CTC(s), "warning", "dependents[].dateOfBirth"),
  INCOMPLETE_CHAIN_SCHEDULE_D_WITHOUT_FORM_8949 |->
    Rule(INCOMPLETE_CHAIN_SCHEDULE_D_WITHOUT_FORM_8949(s), "error", "incomeStreams[].form1099Data"),
  INCOMPLETE_CHAIN_ITEMIZED_WITHOUT_SCHEDULE_A |->
    Rule(INCOMPLETE_CHAIN_ITEMIZED_WITHOUT_SCHEDULE_A(s), "warning", "deductions"),
  INCOMPLETE_CHAIN_SCHEDULE_C_WITHOUT_BUSINESS_INCOME |->
    Rule(INCOMPLETE_CHAIN_SCHEDULE_C_WITHOUT_BUSINESS_INCOME(s), "warning", "deductions"),
  THRESHOLD_FREE_FILE_AGI_EXCEEDED |->
    Rule(THRESHOLD_FREE_FILE_AGI_EXCEEDED(s), "info", "incomeStreams"),
  THRESHOLD_EITC_ABOVE_QUALIFYING_AGI |->
    Rule(THRESHOLD_EITC_ABOVE_QUALIFYING_AGI(s), "error", "credits"),
  THRESHOLD_SE_NET_BELOW_400_WITH_SE |->
    Rule(THRESHOLD_SE_NET_BELOW_400_WITH_SE(s), "warning", "incomeStreams")]

(* The issues of the rules that a situation violates.                      *)
Issues(s) ==
  LET rules == VALIDATION_RULES(s)
  IN  {[code |-> id, severity |-> rules[id].severity, field |-> rules[id].field] :
         id \in {r \in DOMAIN rules : rules[r].violated}}

uncertaintyWarnings(s) ==
  LET Warning(code, field) == [code |-> code, severity |-> "warning", field |-> field]
      scores == s.confidenceScores
  IN  {Warning("LOW_OVERALL_CONFIDENCE", "confidenceScores.overall") :
         low \in {x \in {scores.overall} : x < 50}}
      \cup {Warning("LOW_FIELD_CONFIDENCE", path) :
              path \in {p \in DOMAIN scores.perField : scores.perField[p] < 40}}

(* Ten-thousandths.  Five of the seven fields are always there (the schema *)
(* requires them); the income list may be empty, the prior year null.      *)
(* documentationCompleteness weighs as much as a field.                    *)
computeCompleteness(s) ==
  LET populated == 5 + (IF s.incomeStreams = <<>> THEN 0 ELSE 1)
                     + (IF s.priorYearContext = <<>> THEN 0 ELSE 1)
      eighths   == 100 * populated + s.documentationCompleteness
  IN  (25 * eighths + 1) \div 2

validate(s) ==
  LET errors == {i \in Issues(s) : i.severity = "error"}
  IN  [valid         |-> errors = {},
       errors        |-> errors,
       warnings      |-> (Issues(s) \ errors) \cup uncertaintyWarnings(s),
       completeness  |-> computeCompleteness(s),
       formsRequired |-> getRequiredForms(s)]
=============================================================================
