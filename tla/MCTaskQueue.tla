---------------------------- MODULE MCTaskQueue ----------------------------
(* Small instances of TaskQueue for TLC.                                   *)
EXTENDS TaskQueueLifecycle

Opt(agent, prio, max) ==
  [agent_type |-> agent, priority |-> prio, max_attempts |-> max]

MixedRetry    == {Opt("coding", 5, 2), Opt("cron", 5, 3)}
OneRetry      == {Opt("coding", 5, 2)}

\* One retry allowed, and none at all (max_attempts is not validated).
ThreeKinds == {Opt("coding", 5, 2), Opt("coding", 1, 0), Opt("cron", 5, 2)}

NoTtl   == {}
\* Already expired when granted, and one tick.
TwoTtls == {-1, 1}

NothingPatched == {}
SettledPatches == {"completed", "failed"}
=============================================================================
