\* A request about preferences changes preferences only.
SPECIFICATION FilingSpec
CONSTANTS
  NULL = NULL
  Blank <- BlankDocuments
  IncomeLines <- IncomeLinesSmall
  DeductionLines <- DeductionLinesSmall
  CreditLines <- CreditLinesSmall
  DependentLines <- DependentLinesSmall
  MaxLines = 2
  User = {u1, u2}
  Object = {o1}
  Return = {r1, r2}
  TaskEntity = {t1}
  Year = {y1}
  Request = {q1, q2}
  Situations <- StoredSituations
  Extractions <- W2s
  Descriptions <- ParsedDescriptions
  MaxEdits = 2
  Filer = {ann, bob}
  Superadmin = {sue}
  Bootstrap = {b1, b2}
  MaxObjects = 2
CHECK_DEADLOCK FALSE
PROPERTY PreferencesKeepTheRest
