---------------------------- MODULE SituationForm ----------------------------
(***************************************************************************)
(* components/TaxSituationForm.tsx: the form that a filer completes and    *)
(* sends to PATCH /api/tax-objects/:id/returns/:returnId.  It is opened on *)
(* a stored situation, on what was read from a W-2 and on what was parsed  *)
(* from a description, each of which may be missing (<<>>).                *)
(*                                                                         *)
(* Text is "" or some word, as in TaxSituation.  The JSON panel and the    *)
(* download show buildExportPayload and change nothing.                    *)
(***************************************************************************)
EXTENDS TaxSituation, Filtering

CONSTANTS
  Situations,   \* what initialSituation may be
  Extractions,  \* what the W-2 path may hand over
  Descriptions, \* what the description path may hand over
  MaxEdits      \* bound on the edits of one form

VARIABLES
  form,   \* FormState
  opened, \* what the form was opened on
  edits,  \* how many edits there have been
  save    \* the request: its state and its body

formVars == <<form, opened, edits, save>>

FILING_STATUS_OPTIONS ==
  {"single", "married_filing_jointly", "married_filing_separately",
   "head_of_household", "qualifying_surviving_spouse"}

INCOME_STREAM_TYPES ==
  {"w2", "1099_nec", "1099_misc", "1099_b", "1099_div", "1099_int", "1099_r",
   "k1", "rental", "other"}

DEDUCTION_TYPES ==
  {"mortgage_interest", "state_local_taxes", "charitable", "medical",
   "student_loan_interest", "educator_expense", "other"}

(* Mutant: an option that the server calls home_purchase.                  *)
LifeEventsRenamed == {"marriage", "divorce", "birth", "house_purchase", "other"}

LIFE_EVENT_TYPES ==
  {"marriage", "divorce", "birth", "adoption", "death_of_spouse",
   "home_purchase", "home_sale", "job_change", "retirement", "other"}

PRIOR_FILING_METHOD_OPTIONS ==
  {"self_prepared", "tax_professional", "volunteer", "unknown"}

Texts == {"", "text"}

(* In the order of the alphabet.                                           *)
US_STATES == <<"CA", "NY", "TX">>

-----------------------------------------------------------------------------
emptyDependent ==
  [firstName |-> "", lastName |-> "", relationship |-> "", dateOfBirth |-> "",
   qualifiesForChildTaxCredit |-> FALSE, qualifiesForEIC |-> FALSE]

emptyIncomeStream == [type |-> "1099_nec", source |-> "", amount |-> 0, documentation |-> <<>>]

emptyDeduction == [type |-> "charitable", amount |-> 0, documentation |-> <<>>]

emptyLifeEvent == [type |-> "marriage", date |-> "", details |-> ""]

emptyPriorYearContext == [estimatedAGI |-> NULL, filingMethod |-> "unknown", provider |-> NULL]

(* obj?.key ?? default, of a property that may be null.                    *)
Given(obj, key, default) ==
  IF key \in DOMAIN obj /\ obj[key] # NULL THEN obj[key] ELSE default

(* { ...obj, key: value }                                                  *)
With(obj, key, value) ==
  [k \in DOMAIN obj \cup {key} |-> IF k = key THEN value ELSE obj[k]]

Without(seq, i) == RemoveAt(seq, i)

-----------------------------------------------------------------------------
(* What the three origins hand over.  A stored situation is one that the   *)
(* server has accepted.  An extraction is what a language model made of    *)
(* the prompts of the server (extract-w2.ts, parse-description.ts), which  *)
(* nothing checks: any boxes, any properties, types, states and filing     *)
(* status.  Only answers that the form would throw on are left out, where  *)
(* a list is no array; and NULL stands for a type, a payer or a date that  *)
(* is missing.                                                             *)
PriorYearContext ==
  [estimatedAGI : Int \cup {NULL}, filingMethod : PriorYearFilingMethod,
   provider : Texts \cup {NULL}]

IsResidency(r) ==
  Get(r, "primary", "CA") \in StateCode /\ Get(r, "additional", <<>>) \in Seq(StateCode)

ASSUME OriginsAssumption ==
  /\ \A s \in Situations :
       /\ \A list \in {"dependents", "incomeStreams", "deductions", "lifeEvents"} :
            IsArray(Get(s, list, <<>>))
       /\ Every(dependentSchema, Get(s, "dependents", <<>>))
       /\ Every(incomeStreamSchema, Get(s, "incomeStreams", <<>>))
       /\ Every(deductionSchema, Get(s, "deductions", <<>>))
       /\ Every(lifeEventSchema, Get(s, "lifeEvents", <<>>))
       /\ Get(s, "filingStatus", "single") \in FilingStatus
       /\ Given(s, "priorYearContext", emptyPriorYearContext) \in PriorYearContext
       /\ IsResidency(Get(s, "stateResidency", <<>>))
  /\ \A d \in Descriptions :
       /\ \A list \in {"incomeStreams", "lifeEvents"} : IsArray(Get(d, list, <<>>))
       /\ \A line \in Range(Get(d, "incomeStreams", <<>>)) : {"type", "source"} \subseteq DOMAIN line
       /\ \A event \in Range(Get(d, "lifeEvents", <<>>)) : {"type", "date"} \subseteq DOMAIN event
       /\ IsArray(Get(Get(d, "stateResidency", <<>>), "additional", <<>>))

ASSUME NullAssumption ==
  /\ NULL # <<>> /\ NULL \notin PriorYearContext
  /\ NULL \notin {0, 1}
  /\ NULL \notin Texts \cup INCOME_STREAM_TYPES \cup LIFE_EVENT_TYPES

(* useState(() => ...): the three origins are merged.                      *)
FormBoxes == W2Boxes \cup {"stateName", "stateWages", "stateTaxWithheld"}

w2Streams(w2Data, existing) ==
  LET line == [type |-> "w2",
               source |-> Given(w2Data, "employerName", ""),
               amount |-> Given(w2Data, "wages", 0),
               documentation |-> <<>>,
               w2Data |-> [box \in DOMAIN w2Data \cap FormBoxes |-> w2Data[box]]]
  IN  IF w2Data = <<>> \/ "w2" \in Types(existing) THEN <<>>
      ELSE IF "employerEIN" \in DOMAIN w2Data
             THEN <<With(line, "employerEIN", w2Data.employerEIN)>>
             ELSE <<line>>

SameLine(s, t) == s.type = t.type /\ s.source = t.source

parsedLine(s) ==
  With([k \in DOMAIN s \cap {"type", "source", "amount"} |-> s[k]], "documentation", <<>>)

parsedStreams(parsedFields, existing) ==
  LET parsed == Get(parsedFields, "incomeStreams", <<>>)
      lines  == Kept(parsed, {n \in 1 .. Len(parsed) :
                                ~ \E i \in 1 .. Len(existing) : SameLine(existing[i], parsed[n])})
  IN  [i \in 1 .. Len(lines) |-> parsedLine(lines[i])]

parsedLifeEvents(parsedFields) ==
  LET events == Get(parsedFields, "lifeEvents", <<>>)
  IN  [i \in 1 .. Len(events) |->
         [type |-> events[i].type, date |-> events[i].date,
          details |-> Given(events[i], "details", "")]]

Itemized(deductions) ==
  Kept(deductions, {i \in 1 .. Len(deductions) : deductions[i].type # "standard"})

(* Mutant: standard unless something says otherwise.                       *)
deductionModeByList(deductions) ==
  IF Len(deductions) <= 1 THEN "standard" ELSE "itemized"

deductionMode(deductions) ==
  IF "standard" \in Types(deductions) \/ Itemized(deductions) = <<>>
    THEN "standard" ELSE "itemized"

InitialForm(initialSituation, w2Data, parsedFields) ==
  LET existing   == Get(initialSituation, "incomeStreams", <<>>)
      deductions == Get(initialSituation, "deductions", <<>>)
      stored     == Get(initialSituation, "stateResidency", <<>>)
      parsed     == Get(parsedFields, "stateResidency", <<>>)
  IN  [filingStatus |-> Get(parsedFields, "filingStatus",
                            Get(initialSituation, "filingStatus", "single")),
       dependents |-> Get(initialSituation, "dependents", <<>>),
       incomeStreams |-> w2Streams(w2Data, existing)
                           \o parsedStreams(parsedFields, existing) \o existing,
       deductionMode |-> deductionMode(deductions),
       itemizedDeductions |-> Itemized(deductions),
       lifeEvents |-> Get(initialSituation, "lifeEvents", <<>>) \o parsedLifeEvents(parsedFields),
       priorYearContext |-> Given(initialSituation, "priorYearContext", emptyPriorYearContext),
       primaryState |-> Get(parsed, "primary", Get(stored, "primary", "CA")),
       additionalStates |-> Get(parsed, "additional", Get(stored, "additional", <<>>))]

Deductions ==
  IF form.deductionMode = "standard"
    THEN <<[type |-> "standard", amount |-> 0, documentation |-> <<>>]>>
    ELSE form.itemizedDeductions

(* What handleSave sends as situationData.                                 *)
situationData ==
  [filingStatus |-> form.filingStatus, dependents |-> form.dependents,
   incomeStreams |-> form.incomeStreams, deductions |-> Deductions,
   lifeEvents |-> form.lifeEvents, priorYearContext |-> form.priorYearContext,
   stateResidency |-> [primary |-> form.primaryState, additional |-> form.additionalStates]]

-----------------------------------------------------------------------------
FormInit ==
  \E initial \in Situations, w2Data \in Extractions, parsedFields \in Descriptions :
    /\ <<>> \in {w2Data, parsedFields}   \* App.tsx never hands over both
    /\ opened = [situation |-> initial, w2Data |-> w2Data, parsedFields |-> parsedFields]
    /\ form = InitialForm(initial, w2Data, parsedFields)
    /\ edits = 0
    /\ save = [state |-> "none", body |-> <<>>]

update(key, value) ==
  /\ edits < MaxEdits
  /\ edits' = edits + 1
  /\ form' = [form EXCEPT ![key] = value]
  /\ UNCHANGED <<opened, save>>

(* The empty row that Add puts at the end of a list: a state not yet in    *)
(* the list, which may be the primary one; none when all of them are.      *)
NewRow(list) ==
  CASE list = "dependents"         -> <<emptyDependent>>
    [] list = "incomeStreams"      -> <<emptyIncomeStream>>
    [] list = "itemizedDeductions" -> <<emptyDeduction>>
    [] list = "lifeEvents"         -> <<emptyLifeEvent>>
    [] list = "additionalStates"   ->
         LET i == SelectInSeq(US_STATES, LAMBDA s : s \notin Range(form.additionalStates))
         IN  IF i = 0 THEN <<>> ELSE <<US_STATES[i]>>

Lists == {"dependents", "incomeStreams", "itemizedDeductions", "lifeEvents", "additionalStates"}

(* Itemized rows are on the screen in that mode only.                      *)
Shown(list) == list = "itemizedDeductions" => form.deductionMode = "itemized"

AddRow(list) ==
  /\ Shown(list) /\ NewRow(list) # <<>>
  /\ update(list, form[list] \o NewRow(list))

RemoveRow(list) ==
  /\ Shown(list)
  /\ \E i \in 1 .. Len(form[list]) : update(list, Without(form[list], i))

(* What the inputs of a row can make of it.                                *)
Typed(row, keys, values) == {With(row, k, v) : k \in keys, v \in values}

(* The texts of a dependent are filled in together.                        *)
DependentInputs(row) ==
  {[row EXCEPT !.firstName = t, !.lastName = t, !.relationship = t, !.dateOfBirth = t] :
     t \in Texts}
  \cup Typed(row, {"qualifiesForChildTaxCredit", "qualifiesForEIC"}, BOOLEAN)

(* The EIN is asked of the lines of a W-2.                                 *)
IncomeInputs(row) ==
  Typed(row, {"type"}, INCOME_STREAM_TYPES) \cup Typed(row, {"source"}, Texts)
  \cup Typed(row, {"amount"}, {0, 1})
  \cup (IF row.type = "w2" THEN Typed(row, {"employerEIN"}, Texts) ELSE {})

DeductionInputs(row) == Typed(row, {"type"}, DEDUCTION_TYPES) \cup Typed(row, {"amount"}, {0, 1})

LifeEventInputs(row) ==
  Typed(row, {"type"}, LIFE_EVENT_TYPES) \cup Typed(row, {"date", "details"}, Texts)

StateInputs == Range(US_STATES)

PriorYearInputs(context) ==
  Typed(context, {"estimatedAGI"}, {NULL, 0, 1})
  \cup Typed(context, {"provider"}, {NULL, "text"})
  \cup Typed(context, {"filingMethod"}, PRIOR_FILING_METHOD_OPTIONS)

Rewritten(list, row) ==
  CASE list = "dependents"         -> DependentInputs(row)
    [] list = "incomeStreams"      -> IncomeInputs(row)
    [] list = "itemizedDeductions" -> DeductionInputs(row)
    [] list = "lifeEvents"         -> LifeEventInputs(row)
    [] list = "additionalStates"   -> StateInputs

UpdateRow(list) ==
  /\ Shown(list)
  /\ \E i \in 1 .. Len(form[list]) : \E row \in Rewritten(list, form[list][i]) :
       row # form[list][i] /\ update(list, [form[list] EXCEPT ![i] = row])

(* The inputs that are not in a list.                                      *)
UpdateField ==
  \/ \E s \in FILING_STATUS_OPTIONS : update("filingStatus", s)
  \/ \E m \in {"standard", "itemized"} : update("deductionMode", m)
  \/ \E s \in StateInputs : update("primaryState", s)
  \/ \E c \in PriorYearInputs(form.priorYearContext) : update("priorYearContext", c)

(* handleSave: the button is disabled while a request is on its way, the   *)
(* form is not.                                                            *)
HandleSave ==
  /\ save.state # "saving"
  /\ save' = [state |-> "saving",
              body |-> [filingStatus |-> form.filingStatus, situationData |-> situationData]]
  /\ UNCHANGED <<form, opened, edits>>

(* The server checks the body, or the request fails.                       *)
Answer ==
  /\ save.state = "saving"
  /\ save' = [save EXCEPT !.state = IF patchTaxReturnSchema(save.body) THEN "saved" ELSE "refused"]
  /\ UNCHANGED <<form, opened, edits>>

RequestFails ==
  /\ save.state = "saving"
  /\ save' = [save EXCEPT !.state = "failed"]
  /\ UNCHANGED <<form, opened, edits>>

FormNext ==
  \/ \E list \in Lists : AddRow(list) \/ RemoveRow(list) \/ UpdateRow(list)
  \/ UpdateField
  \/ HandleSave \/ Answer \/ RequestFails

FormSpec == FormInit /\ [][FormNext]_formVars

-----------------------------------------------------------------------------
(* Nothing on the form is blank.                                           *)
Filled(doc) ==
  /\ \A i \in 1 .. Len(doc.dependents) :
       LET d == doc.dependents[i]
       IN  "" \notin {d.firstName, d.lastName, d.relationship, d.dateOfBirth}
  /\ \A i \in 1 .. Len(doc.incomeStreams) : doc.incomeStreams[i].source # ""
  /\ \A i \in 1 .. Len(doc.lifeEvents) : doc.lifeEvents[i].date # ""

(* What the form makes of the extraction alone.                            *)
Extracted == InitialForm(<<>>, opened.w2Data, opened.parsedFields)

(* The property of a row is as one of the others has it, or has it not.    *)
AsIn(k, row, rows) ==
  \E r \in Range(rows) :
    IF k \in DOMAIN row THEN k \in DOMAIN r /\ r[k] = row[k] ELSE k \notin DOMAIN r

(* The lists of options of the form, its empty rows and what it makes of   *)
(* an extraction were written independently of the server's schemas.       *)
(* Nothing checks an extraction.  Of a form that is filled in, a schema    *)
(* refuses nothing that the user chose or that the form put there itself:  *)
(* each property that it does refuse is one that the language model wrote  *)
(* so, or left out, and that is as it came.                                *)
SectionsFitSchema ==
  Filled(situationData) =>
    /\ situationData.filingStatus \in FilingStatus \cup {Extracted.filingStatus}
    /\ Every(dependentSchema, situationData.dependents)
    /\ \A s \in Range(situationData.incomeStreams) :
         \A k \in incomeStreamErrors(s) : AsIn(k, s, Extracted.incomeStreams)
    /\ Every(deductionSchema, situationData.deductions)
    /\ \A e \in Range(situationData.lifeEvents) :
         \A k \in lifeEventErrors(e) : AsIn(k, e, Extracted.lifeEvents)
    /\ priorYearContextSchema(situationData.priorYearContext)
    /\ situationData.stateResidency.primary \in StateCode \cup {Extracted.primaryState}
    /\ Range(situationData.stateResidency.additional)
         \subseteq StateCode \cup Range(Extracted.additionalStates)

Reopened(w2Data, parsedFields) == InitialForm(situationData, w2Data, parsedFields)

(* A form that is opened on what another one sent shows the same: no line  *)
(* is lost or changed on the way, except that no itemized line at all is   *)
(* taken for the standard deduction.  Opened again with the extraction     *)
(* that the form came from, it counts no income twice, as long as the      *)
(* lines that came from there are found under their type and payer.        *)
ReopenKeepsForm ==
  /\ LET again == Reopened(<<>>, <<>>)
     IN  /\ \A k \in DOMAIN form \ {"deductionMode", "itemizedDeductions"} : again[k] = form[k]
         /\ form.deductionMode = "standard" => again.deductionMode = "standard"
         /\ form.deductionMode = "itemized" /\ form.itemizedDeductions # <<>> =>
              /\ again.deductionMode = "itemized"
              /\ again.itemizedDeductions = form.itemizedDeductions
  /\ LET extracted == Extracted.incomeStreams
     IN  (\A i \in 1 .. Len(extracted) :
            \E j \in 1 .. Len(form.incomeStreams) :
              SameLine(extracted[i], form.incomeStreams[j]))
         => Reopened(opened.w2Data, opened.parsedFields).incomeStreams = form.incomeStreams

(* TaxSituationForm.tsx:14 says that the form saves through PATCH: a form  *)
(* that is filled in, without an extraction, is not refused.               *)
FormCanBeSaved ==
  save.state = "refused" /\ <<opened.w2Data, opened.parsedFields>> = <<<<>>, <<>>>> =>
    ~ Filled(save.body.situationData)
=============================================================================
