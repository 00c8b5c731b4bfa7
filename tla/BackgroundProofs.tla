-------------------------- MODULE BackgroundProofs --------------------------
(***************************************************************************)
(* Proofs about what runs without a user: WorkerLoop, for all numbers of   *)
(* workers, tasks and waits; CronSchedule, for all servers, jobs, periods  *)
(* and horizons; WorkerCredentials, for all bundles, workers and           *)
(* lifetimes.                                                              *)
(***************************************************************************)
EXTENDS WorkerLoop, CronSchedule, WorkerCredentials, SequenceTheorems, TLAPS

(* The state and every part of it has its type.                            *)
LEMMA TypeStep == TypeOK /\ [Next]_vars => TypeOK'
<1> SUFFICES ASSUME TypeOK, [Next]_vars PROVE TypeOK'
  OBVIOUS
<1> USE DEF TypeOK
<1>1. ASSUME NEW t \in Task, Insert(t) PROVE TypeOK'
  BY <1>1 DEF Insert
<1>2. ASSUME NEW t \in Task, Requeue(t) PROVE TypeOK'
  BY <1>2, BoundAssumption DEF Requeue, loop
<1>3. ASSUME NEW w \in Worker, LoseNotifications(w) PROVE TypeOK'
  BY <1>3 DEF LoseNotifications
<1>4. ASSUME NEW w \in Worker, RunWorkerLoop(w) PROVE TypeOK'
  <2>1. CASE Claim(w)
    BY <2>1 DEF Claim, Goto
  <2>2. CASE Executed(w)
    BY <2>2 DEF Executed, Goto
  <2>3. CASE WaitForWork(w)
    BY <2>3 DEF WaitForWork, Goto
  <2>4. CASE Break(w)
    BY <2>4 DEF Break, Goto
  <2>5. CASE Resume(w)
    BY <2>5 DEF Resume, Goto
  <2>6. CASE Unlisten(w)
    BY <2>6 DEF Unlisten, Goto
  <2> QED
    BY <1>4, <2>1, <2>2, <2>3, <2>4, <2>5, <2>6 DEF RunWorkerLoop
<1>5. ASSUME NEW w \in Worker, Notified(w) PROVE TypeOK'
  BY <1>5 DEF Notified
<1>6. ASSUME NEW w \in Worker, Stop(w) PROVE TypeOK'
  BY <1>6 DEF Stop
<1>7. ASSUME NEW w \in Worker, NEW i \in Wait, Poll(w, i) PROVE TypeOK'
  BY <1>7 DEF Poll
<1>8. CASE UNCHANGED vars
  BY <1>8 DEF vars, loop
<1> QED
  BY <1>1, <1>2, <1>3, <1>4, <1>5, <1>6, <1>7, <1>8 DEF Next

(* The types hold in every behaviour.                                      *)
THEOREM TypeCorrect == Spec => []TypeOK
<1>1. Init => TypeOK
  BY BoundAssumption DEF Init, TypeOK
<1> QED
  BY <1>1, TypeStep, PTL DEF Spec

(* Only what a wait, a notification and a timer do to the list of one      *)
(* worker matters; all other steps leave its waits alone.                  *)
LEMMA SleepersStep ==
  TypeOK /\ SleepersCanBeWoken /\ [Next]_vars => SleepersCanBeWoken'
<1> SUFFICES ASSUME TypeOK, SleepersCanBeWoken, [Next]_vars
             PROVE  SleepersCanBeWoken'
  OBVIOUS
<1> USE DEF TypeOK, SleepersCanBeWoken
<1>1. ASSUME NEW t \in Task, Insert(t) PROVE SleepersCanBeWoken'
  BY <1>1 DEF Insert
<1>2. ASSUME NEW t \in Task, Requeue(t) PROVE SleepersCanBeWoken'
  BY <1>2 DEF Requeue, loop
<1>3. ASSUME NEW w \in Worker, LoseNotifications(w) PROVE SleepersCanBeWoken'
  BY <1>3 DEF LoseNotifications
<1>4. ASSUME NEW w \in Worker, RunWorkerLoop(w) PROVE SleepersCanBeWoken'
  <2>1. CASE Claim(w)
    BY <2>1 DEF Claim, Goto
  <2>2. CASE Executed(w)
    BY <2>2 DEF Executed, Goto
  <2>3. CASE WaitForWork(w)
    <3>1. pending[w] = {}
      BY <2>3 DEF WaitForWork
    <3> QED
      BY <2>3, <3>1 DEF WaitForWork, Goto
  <2>4. CASE Break(w)
    BY <2>4 DEF Break, Goto
  <2>5. CASE Resume(w)
    BY <2>5 DEF Resume, Goto
  <2>6. CASE Unlisten(w)
    BY <2>6 DEF Unlisten, Goto
  <2> QED
    BY <1>4, <2>1, <2>2, <2>3, <2>4, <2>5, <2>6 DEF RunWorkerLoop
<1>5. ASSUME NEW w \in Worker, Notified(w) PROVE SleepersCanBeWoken'
  BY <1>5 DEF Notified
<1>6. ASSUME NEW w \in Worker, Stop(w) PROVE SleepersCanBeWoken'
  BY <1>6 DEF Stop
<1>7. ASSUME NEW w \in Worker, NEW i \in Wait, Poll(w, i)
      PROVE  SleepersCanBeWoken'
  BY <1>7 DEF Poll
<1>8. CASE UNCHANGED vars
  BY <1>8 DEF vars, loop
<1> QED
  BY <1>1, <1>2, <1>3, <1>4, <1>5, <1>6, <1>7, <1>8 DEF Next

(* A worker that sleeps is in the list of callbacks and has its timer      *)
(* armed, and no callback of an earlier wait is left.                      *)
THEOREM Sleepers == Spec => []SleepersCanBeWoken
<1>1. Init => SleepersCanBeWoken
  BY DEF Init, SleepersCanBeWoken
<1> QED
  BY <1>1, TypeCorrect, SleepersStep, PTL DEF Spec

(* After stop() no iteration begins.                                       *)
THEOREM Stopping == Spec => NoClaimAfterStop
<1>1. ASSUME TypeOK, [Next]_vars, NEW w \in Worker, ~running[w], at[w] # "claim"
      PROVE  at'[w] # "claim"
  <2> USE DEF TypeOK
  <2>1. ASSUME NEW t \in Task, Insert(t) \/ Requeue(t) PROVE at'[w] # "claim"
    BY <1>1, <2>1 DEF Insert, Requeue, loop
  <2>2. ASSUME NEW v \in Worker, RunWorkerLoop(v) PROVE at'[w] # "claim"
    BY <1>1, <2>2 DEF RunWorkerLoop, Claim, Executed, WaitForWork, Break,
                      Resume, Unlisten, Goto
  <2>3. ASSUME NEW v \in Worker,
               Notified(v) \/ Stop(v) \/ LoseNotifications(v)
                 \/ \E i \in Wait : Poll(v, i)
        PROVE  at'[w] # "claim"
    BY <1>1, <2>3 DEF Notified, Stop, LoseNotifications, Poll
  <2>4. CASE UNCHANGED vars
    BY <1>1, <2>4 DEF vars, loop
  <2> QED
    BY <1>1, <2>1, <2>2, <2>3, <2>4 DEF Next
<1>2. TypeOK /\ [Next]_vars
        => [\A w \in Worker : (~running[w] /\ at[w] # "claim")
                                => at'[w] # "claim"]_vars
  BY <1>1
<1> QED
  BY <1>2, TypeCorrect, PTL DEF Spec, NoClaimAfterStop

-----------------------------------------------------------------------------
Status == {"absent", "pending", "claimed", "completed", "failed", "dead"}

(* A row that may still be claimed was never begun: no statement puts a    *)
(* row back to pending, a late status write included.                      *)
CronInv ==
  /\ tasks \in [Key -> Status]
  /\ begun \in [Key -> Nat]
  /\ \A k \in Key : begun[k] <= 1
  /\ \A k \in Key : tasks[k] \in {"absent", "pending"} => begun[k] = 0

(* What INSERT ... ON CONFLICT DO NOTHING may change: an absent row        *)
(* becomes pending.                                                        *)
LEMMA EnqueueFillsAbsentRows ==
  ASSUME tasks \in [Key -> Status], NEW keys
  PROVE  /\ Enqueue(keys) \in [Key -> Status]
         /\ \A k \in Key : Enqueue(keys)[k] # tasks[k]
                             => tasks[k] = "absent" /\ Enqueue(keys)[k] = "pending"
  BY DEF Enqueue, Status

(* No server has begun anything before the first one starts.               *)
LEMMA CronStart == CronInit => CronInv
  BY DEF CronInit, CronInv, Status

(* Each statement keeps the invariant.                                     *)
LEMMA CronStep == CronInv /\ [CronNext]_cronVars => CronInv'
<1> SUFFICES ASSUME CronInv, [CronNext]_cronVars PROVE CronInv'
  OBVIOUS
<1>1. ASSUME NEW keys, tasks' \in {tasks, Enqueue(keys)}, UNCHANGED begun
      PROVE  CronInv'
  <2>1. CASE tasks' = tasks
    BY <1>1, <2>1 DEF CronInv
  <2>2. CASE tasks' = Enqueue(keys)
    <3>1. /\ tasks' \in [Key -> Status]
          /\ \A k \in Key : tasks'[k] # tasks[k] => tasks[k] = "absent"
      BY <2>2, EnqueueFillsAbsentRows DEF CronInv
    <3> QED BY <1>1, <3>1 DEF CronInv
  <2> QED BY <1>1, <2>1, <2>2
<1>2. CASE Minute
  BY <1>2 DEF Minute, CronInv
<1>3. CASE Recover
  BY <1>3 DEF Recover, CronInv, Status
<1>4. ASSUME NEW s \in Server, StartCronScheduler(s) PROVE CronInv'
  BY <1>1, <1>4 DEF StartCronScheduler
<1>5. ASSUME NEW s \in Server, StopServer(s) PROVE CronInv'
  BY <1>5 DEF StopServer, CronInv
<1>6. ASSUME NEW s \in Server, ProcessOneCronTask(s) PROVE CronInv'
  <2>1. PICK k \in Key : /\ tasks[k] = "pending"
                         /\ tasks' = [tasks EXCEPT ![k] = "claimed"]
                         /\ begun' = [begun EXCEPT ![k] = @ + 1]
    BY <1>6 DEF ProcessOneCronTask
  <2>2. begun[k] = 0
    BY <2>1 DEF CronInv
  <2> QED BY <2>1, <2>2 DEF CronInv, Status
<1>7. ASSUME NEW s \in Server, Finish(s) PROVE CronInv'
  <2>1. PICK status \in {"completed", "failed", tasks[worker[s]]} :
          tasks' = [tasks EXCEPT ![worker[s]] = status]
    BY <1>7 DEF Finish
  <2>2. \A k \in Key : tasks'[k] \in {"completed", "failed", tasks[k]}
    BY <2>1 DEF CronInv
  <2>3. tasks' \in [Key -> Status]
    BY <2>1, <2>2 DEF CronInv, Status
  <2> QED BY <1>7, <2>2, <2>3 DEF Finish, CronInv
<1>8. ASSUME NEW s \in Server, NEW j \in Job, Fire(s, j) PROVE CronInv'
  BY <1>1, <1>8 DEF Fire
<1>9. CASE UNCHANGED cronVars
  BY <1>9 DEF cronVars, CronInv
<1> QED
  BY <1>2, <1>3, <1>4, <1>5, <1>6, <1>7, <1>8, <1>9 DEF CronNext

(* The execution of a window's task begins at most once, for all numbers   *)
(* of servers that schedule, stop and recover (jobs/scheduler.ts:127-170,  *)
(* task-queue.ts:80).                                                      *)
THEOREM OneRun == CronSpec => []OneRunPerWindow
<1>1. CronInv => OneRunPerWindow
  BY DEF CronInv, OneRunPerWindow
<1> QED BY CronStart, CronStep, <1>1, PTL DEF CronSpec

-----------------------------------------------------------------------------
CredentialTypeOK ==
  /\ day \in Nat
  /\ stored \in Seq(Bundle)
  /\ expires \in [Bundle -> Nat]
  /\ revoked \subseteq Range(stored)
  /\ storing \in [Bundle -> {"no", "insert", "done", "failed"}]
  /\ seen \in [Bundle -> SUBSET Bundle]
  /\ fetched \in [Starter -> SUBSET Bundle]
  /\ known \in [Starter -> SUBSET Bundle]
  /\ started \in [Starter -> Bundle \cup {"off", "refused"}]

(* A row is stored by one call, which has ended.                           *)
StoredByItsCall == \A b \in Range(stored) : storing[b] = "done"

(* What a call saw when it revoked is revoked or expired, whether or not   *)
(* its own insert has followed, and nothing makes it active again.         *)
SeenIsInactive ==
  \A c \in Bundle : seen[c] \subseteq Range(stored) \ Active

(* What a worker has read was replaced by no call that it could know, and  *)
(* such a call revokes nothing any more.                                   *)
FetchedIsNotReplaced ==
  \A w \in Starter : \A b \in known[w] :
    storing[b] # "no" /\ fetched[w] \cap seen[b] = {}

CredentialInv ==
  CredentialTypeOK /\ StoredByItsCall /\ SeenIsInactive /\ FetchedIsNotReplaced

(* What an INSERT adds to the rows.                                        *)
LEMMA RangeOfAppend ==
  ASSUME NEW S, NEW s \in Seq(S), NEW x \in S
  PROVE  Range(Append(s, x)) = Range(s) \cup {x}
<1>1. /\ DOMAIN s = 1 .. Len(s) /\ Len(s) \in Nat
      /\ DOMAIN Append(s, x) = 1 .. Len(s) + 1
      /\ \A i \in 1 .. Len(s) : Append(s, x)[i] = s[i]
      /\ Append(s, x)[Len(s) + 1] = x
  BY AppendProperties, LenProperties
<1>2. 1 .. Len(s) + 1 = (1 .. Len(s)) \cup {Len(s) + 1}
  BY <1>1
<1> QED BY <1>1, <1>2 DEF Range

(* Nothing is stored before the first call.                                *)
LEMMA CredentialStart == CredentialInit => CredentialInv
<1>1. <<>> \in Seq(Bundle) /\ Range(<<>>) = {}
  BY DEF Range
<1> QED BY <1>1 DEF CredentialInit, CredentialInv, CredentialTypeOK, StoredByItsCall,
             SeenIsInactive, FetchedIsNotReplaced

(* Each statement and each day keeps the invariant.                        *)
LEMMA CredentialStep ==
  CredentialInv /\ [CredentialNext]_credentialVars => CredentialInv'
<1> SUFFICES ASSUME CredentialInv, [CredentialNext]_credentialVars
             PROVE  CredentialInv'
  OBVIOUS
<1> USE DEF CredentialInv, CredentialTypeOK
<1>1. Range(stored) \subseteq Bundle
  BY ElementOfSeq, LenProperties DEF Range
<1>2. ASSUME NEW b \in Bundle, RevokeOld(b) PROVE CredentialInv'
  <2>1. CredentialTypeOK'
    BY <1>1, <1>2 DEF RevokeOld, starters, Active
  <2>2. StoredByItsCall'
    BY <1>1, <1>2 DEF RevokeOld, StoredByItsCall
  <2>3. Active' = {}
    BY <1>2 DEF RevokeOld, Active
  <2>4. SeenIsInactive'
    BY <1>1, <1>2, <2>3 DEF RevokeOld, SeenIsInactive
  <2>5. FetchedIsNotReplaced'
    BY <1>2 DEF RevokeOld, starters, FetchedIsNotReplaced
  <2> QED BY <2>1, <2>2, <2>4, <2>5
<1>3. ASSUME NEW b \in Bundle, InsertNew(b) PROVE CredentialInv'
  <2>1. PICK lifetime \in {1, Lifetime} :
          /\ stored' = Append(stored, b)
          /\ expires' = [expires EXCEPT ![b] = day + lifetime]
    BY <1>3 DEF InsertNew
  <2>2. Range(stored') = Range(stored) \cup {b} /\ stored' \in Seq(Bundle)
    BY <2>1, RangeOfAppend, AppendProperties
  <2>3. CredentialTypeOK'
    BY <1>3, <2>1, <2>2, CredentialAssumption DEF InsertNew, starters
  <2>4. StoredByItsCall'
    BY <1>1, <1>3, <2>2 DEF InsertNew, StoredByItsCall
  <2>5. b \notin Range(stored)
    BY <1>3 DEF InsertNew, StoredByItsCall
  <2>6. Active' \subseteq Active \cup {b}
    BY <1>1, <1>3, <2>1, <2>2 DEF InsertNew, Active
  <2>7. SeenIsInactive'
    BY <1>3, <2>2, <2>5, <2>6 DEF InsertNew, SeenIsInactive
  <2>8. FetchedIsNotReplaced'
    BY <1>3 DEF InsertNew, starters, FetchedIsNotReplaced
  <2> QED BY <2>3, <2>4, <2>7, <2>8
<1>4. ASSUME NEW b \in Bundle, InsertFails(b) PROVE CredentialInv'
  BY <1>1, <1>4 DEF InsertFails, starters, StoredByItsCall, SeenIsInactive, Active,
                    FetchedIsNotReplaced
<1>5. CASE RevokeWorkerCredential
  BY <1>1, <1>5 DEF RevokeWorkerCredential, starters, StoredByItsCall,
                    SeenIsInactive, Active, FetchedIsNotReplaced
<1>6. ASSUME NEW w \in Starter, FetchBundle(w) PROVE CredentialInv'
  <2>1. Latest \subseteq Active /\ Latest \subseteq Bundle
    BY <1>1 DEF Latest, Active
  <2>2. \A b \in Bundle : Latest \cap seen[b] = {}
    BY <2>1 DEF SeenIsInactive
  <2>3. FetchedIsNotReplaced'
    BY <1>6, <2>1, <2>2 DEF FetchBundle, FetchedIsNotReplaced
  <2> QED BY <1>6, <2>1, <2>3 DEF FetchBundle, StoredByItsCall, SeenIsInactive, Active
<1>7. ASSUME NEW w \in Starter, WriteAuthFile(w) \/ RestoreFails(w) \/ WorkerEnds(w)
      PROVE  CredentialInv'
  <2>1. UNCHANGED <<day, stored, expires, revoked, storing, seen>>
    BY <1>7 DEF WriteAuthFile, RestoreFails, WorkerEnds
  <2>2. /\ fetched' \in [Starter -> SUBSET Bundle]
        /\ known' \in [Starter -> SUBSET Bundle]
        /\ \A v \in Starter : fetched'[v] \subseteq fetched[v] /\ known'[v] \subseteq known[v]
    BY <1>7 DEF WriteAuthFile, RestoreFails, WorkerEnds
  <2>3. started' \in [Starter -> Bundle \cup {"off", "refused"}]
    BY <1>7 DEF WriteAuthFile, RestoreFails, WorkerEnds
  <2>4. CredentialTypeOK' /\ StoredByItsCall' /\ SeenIsInactive'
    BY <2>1, <2>2, <2>3 DEF StoredByItsCall, SeenIsInactive, Active
  <2>5. FetchedIsNotReplaced'
    BY <2>1, <2>2 DEF FetchedIsNotReplaced
  <2> QED BY <2>4, <2>5
<1>8. CASE Day
  <2>1. Active' \subseteq Active
    BY <1>1, <1>8 DEF Day, Active
  <2>2. CredentialTypeOK'
    BY <1>8 DEF Day, starters
  <2>3. StoredByItsCall' /\ FetchedIsNotReplaced'
    BY <1>8 DEF Day, starters, StoredByItsCall, FetchedIsNotReplaced
  <2>4. SeenIsInactive'
    BY <1>8, <2>1 DEF Day, starters, SeenIsInactive
  <2> QED BY <2>2, <2>3, <2>4
<1>9. CASE UNCHANGED credentialVars
  BY <1>9 DEF credentialVars, starters, StoredByItsCall, SeenIsInactive, Active,
              FetchedIsNotReplaced
<1> QED
  BY <1>2, <1>3, <1>4, <1>5, <1>6, <1>7, <1>8, <1>9 DEF CredentialNext

(* Two bundles are active together only if neither call of                 *)
(* storeWorkerCredential saw the row of the other, and no worker starts    *)
(* with a bundle that was replaced by a call that had revoked before the   *)
(* worker read it, whatever is stored and revoked while it decrypts the    *)
(* bundle and writes it (worker-credentials.ts:58-118,                     *)
(* codex-credentials.ts:59-122).                                           *)
THEOREM ReplacedBundlesAreNotUsed == CredentialSpec => ReplacedIsNotUsed
<1> DEFINE Replaced ==
      /\ \A a, b \in Active' : a \notin seen'[b]
      /\ \A w \in Starter :
           started'[w] # started[w] /\ started'[w] \in Bundle =>
             \A b \in known[w] : started'[w] \notin seen[b]
<1>1. ASSUME CredentialInv, CredentialInv', [CredentialNext]_credentialVars
      PROVE  Replaced
  <2>1. Range(stored) \subseteq Bundle /\ Active' \subseteq Bundle
    BY <1>1, ElementOfSeq, LenProperties
       DEF Range, CredentialInv, CredentialTypeOK, Active
  <2>2. \A a, b \in Active' : a \notin seen'[b]
    BY <1>1, <2>1 DEF CredentialInv, SeenIsInactive
  <2>3. ASSUME NEW w \in Starter, started'[w] # started[w], started'[w] \in Bundle
        PROVE  \A b \in known[w] : started'[w] \notin seen[b]
    <3>1. PICK v \in Starter :
            FetchBundle(v) \/ WriteAuthFile(v) \/ RestoreFails(v) \/ WorkerEnds(v)
      BY <1>1, <2>3 DEF CredentialNext, credentialVars, starters, RevokeOld,
                        InsertNew, InsertFails, RevokeWorkerCredential, Day
    <3>2. started'[w] \in fetched[w]
      BY <1>1, <2>3, <3>1, CredentialAssumption
         DEF FetchBundle, WriteAuthFile, RestoreFails, WorkerEnds, CredentialInv,
             CredentialTypeOK
    <3> QED BY <1>1, <3>2 DEF CredentialInv, FetchedIsNotReplaced
  <2> QED BY <2>2, <2>3
<1> QED BY <1>1, CredentialStart, CredentialStep, PTL DEF CredentialSpec, ReplacedIsNotUsed
=============================================================================
