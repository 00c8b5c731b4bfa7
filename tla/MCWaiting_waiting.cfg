\* A runner, the cron worker and two session clients that claim either agent
\* type, submit results and patch settled statuses; workers may hang for ever.
\* A filer who comes and goes in a tab, with two bootstraps at a time.
SPECIFICATION WaitingSpec
CONSTANTS
  Task = {t1}
  Runner = {r1}
  CronWorker = {cron}
  Client = {c1, c2}
  NULL = NULL
  RunnerTtl = 1
  CronTtl = 0
  ClientTtl <- TwoTtls
  EnqueueOption <- MixedRetry
  PatchStatus <- SettledPatches
  Filer = {ann}
  Superadmin = {}
  Bootstrap = {b1, b2}
  MaxObjects = 2
CHECK_DEADLOCK FALSE
PROPERTIES SettledStaysSettled ClaimsEnd WaitingEnds
