\* Documents of up to two lines per list; two requests at a time; forms with
\* up to two edits; two filers who share a tab, and a second tab.
SPECIFICATION FilingSpec
CONSTANTS
  NULL = NULL
  Blank <- BlankDocuments
  IncomeLines <- IncomeLinesSmall
  DeductionLines <- DeductionLinesSmall
  CreditLines <- CreditLinesSmall
  DependentLines <- DependentLinesSmall
  MaxLines = 2
  User = {u1, u2}
  Object = {o1}
  Return = {r1, r2}
  TaskEntity = {t1}
  Year = {y1}
  Request = {q1, q2}
  Situations <- StoredSituations
  Extractions <- W2s
  Descriptions <- ParsedDescriptions
  MaxEdits = 2
  Filer = {ann, bob}
  Superadmin = {sue}
  Bootstrap = {b1, b2}
  MaxObjects = 2
SYMMETRY FilingSymmetry
CHECK_DEADLOCK FALSE
INVARIANTS TiersAgreeWithForms FormsAreClosed RulesAgree ValidCanBeFiled
  RelationsFollowProperties TaskWritesAreAudited SectionsFitSchema ReopenKeepsForm TabFollowsItsUser
PROPERTIES MoreNeverCheaper OnlyOvertakenWritesUndo LastSuperuserNeedsARace DuplicatesNeedARace
