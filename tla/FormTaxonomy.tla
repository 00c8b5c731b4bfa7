---------------------------- MODULE FormTaxonomy ----------------------------
(***************************************************************************)
(* knowledge-base/form-taxonomy.ts: which forms a situation requires, by   *)
(* trigger rules and by the dependencies between forms.                    *)
(***************************************************************************)
EXTENDS TaxSituation

(* resolveField for the four paths the rules use.  filingStatus and the    *)
(* primary state are required by the schema, so their rules ("exists") are *)
(* about a value that is always there.                                     *)
resolveField(s, field) ==
  CASE field = "incomeStreams[].type"   -> Types(s.incomeStreams)
    [] field = "deductions[].type"      -> Types(s.deductions)
    [] field = "filingStatus"           -> {s.filingStatus}
    [] field = "stateResidency.primary" -> {s.stateResidency.primary}

(* A rule: the field and the values it looks for.  operator contains is a  *)
(* substring test, and no type's name is part of another's; operator       *)
(* exists looks for any value.                                             *)
AnyOf(field, values) == [field |-> field, operator |-> "contains", values |-> values]
Present(field)       == [field |-> field, operator |-> "exists", values |-> {}]

evaluateRule(rule, s) ==
  LET found == resolveField(s, rule.field)
  IN  CASE rule.operator = "exists"   -> found # {}
        [] rule.operator = "contains" -> found \cap rule.values # {}

Form(dependencies, trigger) == [dependencies |-> dependencies, triggeredBy |-> trigger]

Income(types) == AnyOf("incomeStreams[].type", types)

FORM_TAXONOMY == [
  form_1040    |-> Form({}, Present("filingStatus")),
  w_2          |-> Form({"form_1040"}, Income({"w2"})),
  schedule_c   |-> Form({"form_1040"}, Income({"1099_nec", "1099_misc"})),
  schedule_se  |-> Form({"schedule_c"}, Income({"1099_nec", "1099_misc"})),
  schedule_d   |-> Form({"form_1040"}, Income({"1099_b"})),
  form_8949    |-> Form({"schedule_d"}, Income({"1099_b"})),
  schedule_e   |-> Form({"form_1040"}, Income({"rental", "k1"})),
  schedule_a   |-> Form({"form_1040"},
                     AnyOf("deductions[].type",
                           {"mortgage_interest", "charitable", "medical",
                            "state_local_taxes"})),
  schedule_b   |-> Form({"form_1040"}, Income({"1099_int", "1099_div"})),
  form_1099div |-> Form({"form_1040"}, Income({"1099_div"})),
  form_1099int |-> Form({"form_1040"}, Income({"1099_int"})),
  state_return |-> Form({"form_1040"}, Present("stateResidency.primary"))]

FormId == DOMAIN FORM_TAXONOMY

isTriggered(form, s) == evaluateRule(FORM_TAXONOMY[form].triggeredBy, s)

(* Mutant: the dependency relation walked the wrong way.                   *)
WithDependents(s) ==
  LET triggered == {f \in FormId : isTriggered(f, s)}
  IN  triggered \cup {f \in FormId : FORM_TAXONOMY[f].dependencies \cap triggered # {}}

(* Breadth first from the triggered forms: round n adds the dependencies   *)
(* of round n - 1, and there are no more rounds than forms.                *)
getRequiredForms(s) ==
  LET round[n \in 0 .. Cardinality(FormId)] ==
        IF n = 0 THEN {f \in FormId : isTriggered(f, s)}
        ELSE LET seen == round[n - 1]
             IN  seen \cup UNION {FORM_TAXONOMY[f].dependencies : f \in seen}
  IN  round[Cardinality(FormId)]
=============================================================================
