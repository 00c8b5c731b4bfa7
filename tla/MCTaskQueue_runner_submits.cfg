\* A runner whose Codex succeeded holds a token to submit with.
SPECIFICATION Spec
CONSTANTS
  Task = {t1}
  Runner = {r1}
  CronWorker = {}
  Client = {}
  NULL = NULL
  RunnerTtl = 0
  CronTtl = 0
  ClientTtl <- NoTtl
  EnqueueOption <- OneRetry
  PatchStatus <- NothingPatched
INVARIANT RunnerCanSubmit
