--------------------------- MODULE WorkerCredentials ---------------------------
(***************************************************************************)
(* packages/db/worker-credentials.ts: the encrypted bundle that the Codex  *)
(* workers of an agent type start with, and how codex-credentials.ts       *)
(* restores it.  Agent types do not meet; one is modelled.                 *)
(***************************************************************************)
EXTENDS Naturals, Sequences, Functions

CONSTANTS
  Bundle,    \* calls of storeWorkerCredential, each with its row
  Starter,   \* workers
  Lifetime,  \* days
  MaxDay     \* bound

ASSUME CredentialAssumption ==
  Lifetime \in Nat /\ {"off", "refused"} \cap Bundle = {}

VARIABLES
  day,
  stored,   \* bundles in the order of created_at
  expires,  \* per bundle
  revoked,  \* bundles with revoked_at
  storing,  \* per bundle: where its call is
  seen,     \* history: the bundles stored when the call revoked
  fetched,  \* per worker: the bundle that its start has read, if any
  known,    \* history: the calls that had revoked when it was read
  started   \* per worker: its bundle, "off", or "refused"

starters == <<fetched, known, started>>
credentialVars == <<day, stored, expires, revoked, storing, seen, starters>>

CredentialInit ==
  /\ day = 0
  /\ stored = <<>>
  /\ expires = [b \in Bundle |-> 0]
  /\ revoked = {}
  /\ storing = [b \in Bundle |-> "no"]
  /\ seen = [b \in Bundle |-> {}]
  /\ fetched = [w \in Starter |-> {}]
  /\ known = [w \in Starter |-> {}]
  /\ started = [w \in Starter |-> "off"]

(* revoked_at IS NULL AND expires_at > NOW()                               *)
Active == {b \in Range(stored) \ revoked : expires[b] > day}

(* Mutant: the latest of the active ones is revoked.                       *)
RevokeLatest(b) ==
  /\ storing[b] = "no"
  /\ storing' = [storing EXCEPT ![b] = "insert"]
  /\ revoked' = revoked \cup {stored[i] : i \in {Len(stored)} \ {0, 1}}
  /\ seen' = [seen EXCEPT ![b] = Range(stored)]
  /\ UNCHANGED <<day, stored, expires, starters>>

(* storeWorkerCredential revokes what is active ...                        *)
RevokeOld(b) ==
  /\ storing[b] = "no"
  /\ storing' = [storing EXCEPT ![b] = "insert"]
  /\ revoked' = revoked \cup Active
  /\ seen' = [seen EXCEPT ![b] = Range(stored)]
  /\ UNCHANGED <<day, stored, expires, starters>>

(* ... and inserts the new row, or fails in between.                       *)
InsertNew(b) ==
  /\ storing[b] = "insert"
  /\ \E lifetime \in {1, Lifetime} :
       /\ stored' = Append(stored, b)
       /\ expires' = [expires EXCEPT ![b] = day + lifetime]
  /\ storing' = [storing EXCEPT ![b] = "done"]
  /\ UNCHANGED <<day, revoked, seen, starters>>

InsertFails(b) ==
  /\ storing[b] = "insert"
  /\ storing' = [storing EXCEPT ![b] = "failed"]
  /\ UNCHANGED <<day, stored, expires, revoked, seen, starters>>

RevokeWorkerCredential ==
  /\ Range(stored) # revoked
  /\ revoked' = Range(stored)
  /\ UNCHANGED <<day, stored, expires, storing, seen, starters>>

(* fetchActiveWorkerCredential: ORDER BY created_at DESC LIMIT 1, a set of *)
(* one row or none.                                                        *)
Latest ==
  {stored[i] : i \in {n \in DOMAIN stored :
                       /\ stored[n] \in Active
                       /\ \A k \in DOMAIN stored : k > n => stored[k] \notin Active}}

(* restoreCodexCredentials reads the row ...                               *)
FetchBundle(w) ==
  /\ started[w] = "off" /\ fetched[w] = {}
  /\ Latest # {}
  /\ fetched' = [fetched EXCEPT ![w] = Latest]
  /\ known' = [known EXCEPT ![w] = {b \in Bundle : storing[b] # "no"}]
  /\ UNCHANGED <<day, stored, expires, revoked, storing, seen, started>>

(* ... and after the decryption and the writing of the file, two awaits    *)
(* later, the worker runs with it.                                         *)
WriteAuthFile(w) ==
  /\ \E b \in fetched[w] : started' = [started EXCEPT ![w] = b]
  /\ fetched' = [fetched EXCEPT ![w] = {}]
  /\ known' = [known EXCEPT ![w] = {}]
  /\ UNCHANGED <<day, stored, expires, revoked, storing, seen>>

(* No row, a bundle that cannot be read or whose token has expired, and    *)
(* any failure of the two awaits end the worker.                           *)
RestoreFails(w) ==
  /\ started[w] = "off"
  /\ started' = [started EXCEPT ![w] = "refused"]
  /\ fetched' = [fetched EXCEPT ![w] = {}]
  /\ known' = [known EXCEPT ![w] = {}]
  /\ UNCHANGED <<day, stored, expires, revoked, storing, seen>>

(* A worker runs on with a bundle that is revoked, until its next start.   *)
WorkerEnds(w) ==
  /\ started[w] # "off"
  /\ started' = [started EXCEPT ![w] = "off"]
  /\ UNCHANGED <<day, stored, expires, revoked, storing, seen, fetched, known>>

Day ==
  /\ day < MaxDay
  /\ day' = day + 1
  /\ UNCHANGED <<stored, expires, revoked, storing, seen, starters>>

CredentialNext ==
  \/ \E b \in Bundle : RevokeOld(b) \/ InsertNew(b) \/ InsertFails(b)
  \/ RevokeWorkerCredential
  \/ \E w \in Starter :
       FetchBundle(w) \/ WriteAuthFile(w) \/ RestoreFails(w) \/ WorkerEnds(w)
  \/ Day

CredentialSpec == CredentialInit /\ [][CredentialNext]_credentialVars

-----------------------------------------------------------------------------
(* worker-credentials.ts:58 wants one active bundle per agent type.  Two   *)
(* are active only if they were stored at the same time: neither call saw  *)
(* the other's row when it revoked.  And a worker that starts may run with *)
(* a bundle that was replaced while it decrypted and wrote it, but with    *)
(* none that was replaced by a call that had revoked before it fetched.    *)
ReplacedIsNotUsed ==
  [][/\ \A a, b \in Active' : a \notin seen'[b]
     /\ \A w \in Starter :
          started'[w] # started[w] /\ started'[w] \in Bundle =>
            \A b \in known[w] : started'[w] \notin seen[b]]_credentialVars
=============================================================================
