\* Two loops with timers of earlier waits still armed; two servers and two
\* jobs over three instants; two bundles and two workers over two days.
SPECIFICATION BackgroundSpec
CONSTANTS
  Worker = {w1, w2}
  Task = {t1}
  Wait = {i1, i2}
  MaxRequeues = 1
  hourly = hourly
  digest = digest
  Server = {s1, s2}
  Job = {hourly, digest}
  Period <- TwoPeriods
  AtStart = {hourly}
  MaxNow = 2
  Bundle = {bundle1, bundle2}
  Starter = {r1, r2}
  Lifetime = 2
  MaxDay = 2
CHECK_DEADLOCK FALSE
INVARIANTS SleepersCanBeWoken OneRunPerWindow
PROPERTIES NoClaimAfterStop TasksAreTaken StopEnds ReplacedIsNotUsed
