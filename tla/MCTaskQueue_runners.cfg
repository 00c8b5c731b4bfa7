\* Two runners and the cron worker race for two tasks, crash, outlive their
\* claims and retry.  Every poll and every execution ends.
SPECIFICATION FairSpec
CONSTANTS
  Task = {t1, t2}
  Runner = {r1, r2}
  CronWorker = {cron}
  Client = {}
  NULL = NULL
  RunnerTtl = 1
  CronTtl = 0
  ClientTtl <- NoTtl
  EnqueueOption <- ThreeKinds
  PatchStatus <- NothingPatched
INVARIANTS ExclusiveClaims AttemptBudget LiveClaimIsKept ClaimInv
PROPERTIES ImplementsLifecycle EveryTaskSettles
