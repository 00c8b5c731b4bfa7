---------------------------- MODULE TaxSituation ----------------------------
(***************************************************************************)
(* The tax situation document of packages/core: its enumerations and the   *)
(* JSON schemas (tax-situation-schema.ts) that the API checks bodies with. *)
(*                                                                         *)
(* A JSON object is a record, and an optional property that is absent is   *)
(* not in its DOMAIN.  Text is "" or some word: the schemas only tell      *)
(* empty from non-empty.  Dollars are integers, confidences and            *)
(* completeness are hundredths.  Documents attached to a line are not told *)
(* apart (they are always an array).  The type of a value (string, number, *)
(* boolean) is taken for granted, but for the nulls that an extraction     *)
(* yields; what is checked is presence, emptiness, range, enumeration and  *)
(* unknown keys.                                                           *)
(***************************************************************************)
EXTENDS Null, Integers, Sequences, FiniteSets, SequencesExt

FilingStatus ==
  {"single", "married_filing_jointly", "married_filing_separately",
   "head_of_household", "qualifying_surviving_spouse"}

IncomeStreamType ==
  {"w2", "1099_nec", "1099_misc", "1099_b", "1099_div", "1099_int", "1099_r",
   "k1", "rental", "other"}

DeductionType ==
  {"standard", "mortgage_interest", "state_local_taxes", "charitable",
   "medical", "student_loan_interest", "educator_expense", "other"}

CreditType ==
  {"child_tax", "earned_income", "education_american_opportunity",
   "education_lifetime_learning", "child_dependent_care", "saver", "other"}

LifeEventType ==
  {"marriage", "divorce", "birth", "adoption", "death_of_spouse",
   "home_purchase", "home_sale", "job_change", "retirement", "other"}

TaxObjectType ==
  {"individual", "joint_household", "business", "dependent", "estate_or_trust"}

(* Three of the 51 codes: which state it is changes nothing.               *)
StateCode == {"CA", "NY", "TX"}

PriorYearFilingMethod ==
  {"self_prepared", "tax_professional", "volunteer", "unknown"}

ArtifactType == {"document", "photo", "recording"}

FilingYear == 2000 .. 2100

-----------------------------------------------------------------------------
(* required and additionalProperties: false of an object schema.           *)
HasKeys(obj, required, optional) ==
  required \subseteq DOMAIN obj /\ DOMAIN obj \subseteq required \cup optional

KeyErrors(obj, required, optional) ==
  (required \ DOMAIN obj) \cup (DOMAIN obj \ (required \cup optional))

(* obj?.key ?? default, of a property that is never null.                  *)
Get(obj, key, default) == IF key \in DOMAIN obj THEN obj[key] ELSE default

IsArray(lines) == lines \in Seq(Range(lines))
Every(Valid(_), lines) == \A line \in Range(lines) : Valid(line)

(* The types of the lines of an income, deduction or credit list.          *)
Types(lines) == {lines[i].type : i \in 1 .. Len(lines)}

W2Boxes == {"wages", "federalTaxWithheld", "socialSecurityWages",
            "socialSecurityTaxWithheld", "medicareWages",
            "medicareTaxWithheld"}

w2DataSchema(d) ==
  /\ HasKeys(d, W2Boxes, {"stateName", "stateWages", "stateTaxWithheld"})
  /\ NULL \notin Range(d)

form1099DataSchema(d) ==
  /\ HasKeys(d, {"payerName"},
             {"payerTIN", "nonEmployeeCompensation", "otherIncome", "proceeds",
              "costBasis", "ordinaryDividends", "qualifiedDividends",
              "interestIncome", "taxablePensionDistributions",
              "federalTaxWithheld"})
  /\ d.payerName # ""

(* The properties of a line that its schema misses, does not know or       *)
(* refuses the value of.                                                   *)
incomeStreamErrors(s) ==
  KeyErrors(s, {"type", "source", "amount", "documentation"},
            {"employerEIN", "w2Data", "form1099Data"})
  \cup {k \in DOMAIN s :
          \/ s[k] = NULL
          \/ k = "type" /\ s[k] \notin IncomeStreamType
          \/ k = "source" /\ s[k] = ""
          \/ k = "w2Data" /\ ~ w2DataSchema(s[k])
          \/ k = "form1099Data" /\ ~ form1099DataSchema(s[k])}

incomeStreamSchema(s) == incomeStreamErrors(s) = {}

(* The four digits of ssn_last4 are not spelled out.                       *)
dependentSchema(d) ==
  /\ HasKeys(d, {"firstName", "lastName", "relationship", "dateOfBirth",
                 "qualifiesForChildTaxCredit", "qualifiesForEIC"}, {"ssn_last4"})
  /\ \A p \in {"firstName", "lastName", "relationship", "dateOfBirth"} : d[p] # ""

deductionSchema(d) ==
  HasKeys(d, {"type", "amount", "documentation"}, {}) /\ d.type \in DeductionType

creditSchema(c) ==
  HasKeys(c, {"type", "amount", "documentation"}, {}) /\ c.type \in CreditType

lifeEventErrors(e) ==
  KeyErrors(e, {"type", "date"}, {"details"})
  \cup {k \in DOMAIN e :
          \/ e[k] = NULL
          \/ k = "type" /\ e[k] \notin LifeEventType
          \/ k = "date" /\ e[k] = ""}

lifeEventSchema(e) == lifeEventErrors(e) = {}

stateResidencySchema(r) ==
  /\ HasKeys(r, {"primary", "additional"}, {})
  /\ {r.primary} \cup Range(r.additional) \subseteq StateCode

priorYearContextSchema(c) ==
  /\ HasKeys(c, {"estimatedAGI", "filingMethod", "provider"}, {})
  /\ c.filingMethod \in PriorYearFilingMethod

rawArtifactSchema(a) ==
  /\ HasKeys(a, {"id", "type", "source"}, {"extractedData"})
  /\ a.type \in ArtifactType
  /\ a.id # "" /\ a.source # ""

situationMetadataSchema(m) ==
  /\ HasKeys(m, {"createdAt", "updatedAt", "objectType", "schemaVersion"}, {})
  /\ m.objectType \in TaxObjectType
  /\ \A p \in {"createdAt", "updatedAt", "schemaVersion"} : m[p] # ""

Confidence == 0 .. 100

confidenceScoresSchema(c) ==
  /\ HasKeys(c, {"overall", "perField"}, {})
  /\ {c.overall} \cup Range(c.perField) \subseteq Confidence

(* priorYearContext may be null: a sequence that is empty or holds it.     *)
taxSituationSchema(s) ==
  /\ HasKeys(s, {"id", "version", "filingYear", "filingStatus", "dependents",
                 "incomeStreams", "deductions", "credits", "lifeEvents",
                 "priorYearContext", "stateResidency",
                 "documentationCompleteness", "confidenceScores",
                 "rawArtifacts", "metadata"}, {})
  /\ s.id # "" /\ s.version # ""
  /\ s.filingYear \in FilingYear
  /\ s.filingStatus \in FilingStatus
  /\ Every(dependentSchema, s.dependents)
  /\ Every(incomeStreamSchema, s.incomeStreams)
  /\ Every(deductionSchema, s.deductions)
  /\ Every(creditSchema, s.credits)
  /\ Every(lifeEventSchema, s.lifeEvents)
  /\ Every(priorYearContextSchema, s.priorYearContext)
  /\ stateResidencySchema(s.stateResidency)
  /\ s.documentationCompleteness \in Confidence
  /\ confidenceScoresSchema(s.confidenceScores)
  /\ Every(rawArtifactSchema, s.rawArtifacts)
  /\ situationMetadataSchema(s.metadata)

-----------------------------------------------------------------------------
(* The bodies of POST and PATCH.  minProperties: 1 of the PATCH schemas    *)
(* refuses {}.                                                             *)
createTaxObjectSchema(b) ==
  /\ HasKeys(b, {"objectType", "filingYear"}, {"label", "ownerId"})
  /\ b.objectType \in TaxObjectType
  /\ b.filingYear \in FilingYear
  /\ "ownerId" \in DOMAIN b => b.ownerId # ""

patchTaxObjectSchema(b) ==
  /\ HasKeys(b, {}, {"objectType", "filingYear", "label"})
  /\ DOMAIN b # {}
  /\ "objectType" \in DOMAIN b => b.objectType \in TaxObjectType
  /\ "filingYear" \in DOMAIN b => b.filingYear \in FilingYear

createTaxReturnSchema(b) ==
  /\ HasKeys(b, {"taxObjectId", "filingYear", "filingStatus"}, {"situationData"})
  /\ b.filingYear \in FilingYear
  /\ b.filingStatus \in FilingStatus
  /\ "situationData" \in DOMAIN b => taxSituationSchema(b.situationData)

patchTaxReturnSchema(b) ==
  /\ HasKeys(b, {}, {"filingStatus", "situationData"})
  /\ DOMAIN b # {}
  /\ "filingStatus" \in DOMAIN b => b.filingStatus \in FilingStatus
  /\ "situationData" \in DOMAIN b => taxSituationSchema(b.situationData)
=============================================================================
