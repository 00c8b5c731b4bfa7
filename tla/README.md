# Formal models of Tea Tax

TLA+ models of this repository, from the task queue to the form a filer fills
in, checked with TLC on small instances, and theorems about them checked with
TLAPS for all instances.
Each definition is translated from the source; `PROJECT.json` ("map") gives its
lines.

## The system

A Bun server (`apps/server`) with three PostgreSQL databases (application,
audit, analytics; `packages/db`), a Codex worker (`apps/worker`) and a React
client (`apps/web`). What runs concurrently: HTTP handlers that are suspended
at every `await`, several workers and servers on one database, and timers
(stale-claim recovery every 60 s, cron worker every 5 s, revocation cleanup
every 24 h, croner schedules).

| component | state | operations | interacts with | what makes it correct |
|---|---|---|---|---|
| task queue (`packages/db/task-queue.ts`) | table `task_queue` | enqueue, claim, set status, submit result, recover stale claims | runners, cron worker, HTTP API, recovery timer | one live claim per task, attempts bounded, settled stays settled, claims end |
| Codex runner (`apps/worker/src/runner.ts`) | the row it claimed | claim, run Codex, submit or mark failed | queue, `POST /api/tasks/:id/result` | a result or a failure is recorded |
| cron worker, scheduler, five jobs (`apps/server/src/jobs`) | `workerRunning`, schedules | enqueue by window key, claim, execute, two writes | queue | each window's job runs once, completed means a result |
| worker loop (`packages/db/task-queue-worker.ts`) | waiters, timers, LISTEN connection | wait, wake, poll, stop | queue trigger, runner | no task waits for ever, stop ends |
| queue API (`api/task-queue.ts`) | none | enqueue, claim, PATCH, result | queue, delegated token | |
| delegated token (`auth/delegated-token.ts`) | `revoked_tokens` | issue, verify and consume | JWT, revocation | one result per token, none without |
| JWT, revocation (`auth/jwt.ts`, `db/revocation.ts`) | keys, `revoked_tokens` | sign, verify, revoke, clean up | all handlers | a revoked token stays revoked until it expires |
| auth routes, CSRF | users in `entities`, cookies | register, login, logout | JWT, limiter | one user per name, logout revokes |
| passkeys | challenges, credentials | options, verify | JWT | a challenge is used once, counters grow |
| rate limiter | windows per key | check, consume, clean up | auth routes | at most N in a window |
| audit chain (`policies/audit-service.ts`, `api/audit.ts`) | `audit_events` | emit, verify, list | everyone who audits | one chain, verified as valid |
| stale-claim recovery service | none | audit what was recovered | queue, audit chain | one entry per recovered row |
| tax objects, returns, users, admin | `entities`, `relations` | create, patch, delete | audit, panels | no lost update, entity with relation, a superuser remains |
| data governance | `entities`, audit | retention, erasure, export | audit | erased stays erased |
| task write service | task entities, audit | update | audit | audited before written |
| worker credentials | `worker_credentials` | store, fetch, revoke | runner start | one active bundle per agent type |
| knowledge base (`packages/core/knowledge-base`) | none | tier mapping, forms, thresholds, rules | returns API | its tables agree with each other |
| web client: session and intake (`App.tsx`, `use-tax-object.ts`, wizard) | React state, a cookie | log in and out, bootstrap, capture, describe | auth routes, returns API | a tab shows its user's return, waiting ends |
| web client: form (`TaxSituationForm.tsx`) | `FormState` | pre-fill, edit, save | schema of PATCH | no line lost or doubled, options fit the schema |
| web client: panels (`AdminPanel.tsx`, `SettingsView.tsx`) | list, page, search | list, change, refetch | admin API, passkeys | what is shown is what the server has |
| websocket, encryption, secrets, seeds, provisioning, scripts | | | | |

Hard parts, with their lines, are the hazards in `PROJECT.json`.

## Modules

| module | models | proofs |
|---|---|---|
| `TaskQueue` | the table, its statements and everyone who runs them | `TaskQueueProofs` |
| `TaskLifecycle` | what the queue promises to who enqueues a task | |
| `TaskQueueLifecycle` | the refinement from `TaskQueue` to `TaskLifecycle` | `TaskQueueProofs` |
| `WorkerLoop` | claim, wait, notification, poll, stop | `BackgroundProofs` |
| `CronSchedule` | schedules, window keys and in-process workers of several servers | `BackgroundProofs` |
| `WorkerCredentials` | store, revoke and restore of the Codex bundle | `BackgroundProofs` |
| `DelegatedToken` | `POST /api/tasks/:id/result` with token, revocation and cleanup | `DelegatedTokenProofs` |
| `Accounts` | register, login, logout, limiters, passkey ceremonies | `AccountsProofs` |
| `AuditChain` | concurrent writers of the audit log, and its verification | `AuditChainProofs` |
| `Records` | `entities` and `relations` under the handlers that read, wait and write | `RecordsProofs` |
| `TaxSituation` | the document and its JSON schemas | |
| `TierMapping`, `FormTaxonomy`, `ValidationRules` | the tables of the knowledge base | `FilingProofs` |
| `Evaluation` | a return that is patched, evaluated and validated | `FilingProofs` |
| `SituationForm` | the form: pre-filled, edited, sent | `FilingProofs` |
| `Intake` | the filer's client: tabs, users, bootstrap, wizard | `WebClientProofs` |
| `Panels` | the administrator's and the settings' lists | `FilingProofs` |
| `Filtering` | JavaScript's `filter`, as form and panels use it | `FilingProofs` |
| `Null` | the SQL and JSON null | |

`MC...` modules hold the instances for TLC. A definition under a comment
"Mutant:" is a plausible bug in the definition after it; each property of a
passing run has one that TLC shows to violate it, so that no property holds for
want of cases.

### TaskQueue

`task_queue` maps each idempotency key to its row ("absent" before the INSERT),
`pc` and `job` say where each worker is and which row its claim returned. One
SQL statement is one step, but for `claimNextTask`: `ClaimSelect` is the
sub-select that locks a row, `ClaimCommit` the update that commits, and between
them other claims skip the row and other updates of it wait. A crash in between
rolls back. The actions follow the code: `CodexSucceeds`, `CodexFails`,
`NoDelegatedToken`, `MarkFailed` for `tryClaimAndExecute`; `ExecutorReturns`,
`StoreResult` and their failures for `processOneCronTask`, whose two writes are
two steps; `PatchTask` and `SubmitTaskResult` for the API;
`RecoverStaleClaims` for the sweep over all rows.

The runner's branch that submits a result has no action: a claim by a runner
always has a NULL token (see findings). Should claims keep the token, the
branch must be added, composed with `DelegatedToken`.

Left out: payload, job type, correlation id, error text, `claimed_at`,
`updated_at`, who created a task. Timestamps are kept as ticks that remain.
`2 ^ attempt` is the back-off in seconds, in ticks of one second.

PATCH sets any status, so callers can break what the rest of the code keeps.
Two hypotheses say what they must refrain from: `NoRequeue` (they do not set
`pending`) and `OnlySettles` (they set settled statuses only). Each property
that needs one says so, and so do the theorems.

`TaskLifecycle` forgets rows, locks, claims and clocks. `PhaseOf` maps absent,
pending, settled and the other statuses to new, waiting, settled and tried; the
allowance is `max_attempts`, but at least one, because nothing refuses the first
claim.

### WorkerLoop

A wait has a callback in `pending`, an armed timer in `timers` and a promise in
`done`. A notification resolves what is in the list and leaves timers armed;
timers of earlier waits fire in later ones. `Insert` notifies all who listen;
`Requeue` (recovery) notifies nobody; `LoseNotifications` is a broken
connection. Names of waits are reused when their timer has fired.

### DelegatedToken

A request is in one of the places between two awaits of
`handleTaskQueueResultRequest` and `verifyDelegatedToken`. Time is in half
seconds, because `verifyJwt` compares `exp` with the whole second and the
cleanup with the exact time. The cleanup may run at any time: its period of 24
hours and the calls at start-up say nothing of when that is relative to a
token. A used token is refused
until its expiry (`UsedTokenRefusedUntilExpiry`), but not until `verifyJwt`
refuses it: in the rest of the second of `exp` the cleanup may have forgotten
its use. Signatures and `revokeToken` at logout are left out; `Foreign` stands for
tokens that fail checks 4 to 6.

### AuditChain

A row is named by its event, and so is its hash: SHA-256 is taken to be
injective. PostgreSQL's SERIALIZABLE is external: a transaction whose read is
outdated by what committed meanwhile cannot commit, and one that another commit
overlapped may be refused. `FOR UPDATE` waits for whoever locked the same row.

### CronSchedule, WorkerCredentials

Time is in instants at which a schedule may be due. Each server keeps which of
its schedules have fired, and its worker's key. Of the queue only what these
tasks use is kept: `ON CONFLICT DO NOTHING`, one attempt, recovery to dead, a
status write that may be lost or come late. In `WorkerCredentials` a store is
two statements, `RevokeOld` and `InsertNew`, with other calls, a failure or a
day in between; `seen` remembers which rows the first one saw. A starting worker
reads the row (`FetchBundle`), and after two awaits, the decryption and the writing
of the file, runs with it (`WriteAuthFile`) or ends (`RestoreFails`). Stores and
revocations come between, and nothing looks at the row again: `known` remembers
which stores had revoked when the row was read.

### Accounts

One address and one browser. A call goes from await to await: the limiters are
checked, the body is read, the limiters consumed, the user looked up, the
password verified, the session signed. The browser has the plain and the
`__Host-` cookie, `secure` says which one the server sets; `left` remembers
what a logout took away. Passkeys: a challenge is read, the answer verified, the
challenge deleted, the counter written, each a step. A registration may be begun
by anybody for any user, who may have passkeys already: `register/begin` asks for
no session (`passkey.ts:69-121`) and only `credential_id` is unique, so passkeys
are named by the call that made them. An authenticator counts, or says 0 for ever.
History variables record
whether something came between two steps of a call; the properties about races
say that trouble comes only from there.

### Records

A row of `entities` is a record of the properties that handlers tell apart.
`request` holds what a handler has read while it waits: `Pending` is its
computed row, which the write stores whole. `Erase` is the anonymisation of a
data-subject request, which writes without waiting. A handler may end at any
await. `overtaken` (history) says that another write came after the read, and
`names` which properties the request is about. The PATCH of preferences is about
preferences and writes `Unreadable` over the whole user, which is what a JSON string
in a `jsonb` column is to every reader: `PreferencesKeepTheRest` fails, without a
race, and `OnlyOvertakenWritesUndo` is about all other writes.

### TaxSituation, TierMapping, FormTaxonomy, ValidationRules, Evaluation

Documents are records with the optional fields in or out of their DOMAIN; text
is empty or not. The schemas are predicates, tiers and forms are tables as in
the code, a rule is TRUE of a document that violates it. `Evaluation` walks from
document to document by PATCH, one line or field at a time, so that properties
can compare a document with the next (`MoreNeverCheaper`).

### SituationForm

`InitialForm` merges the stored document, the W-2 and the parsed description as
the component does; each input is an edit. `situationData` is the body of the
save. The form was written apart from the schema: `SectionsFitSchema` compares
the two. Extractions are what a language model answered, which nothing checks
(`parse-description.ts:125-148`, `extract-w2.ts:148`): any types, states, boxes and
properties, so the schema may refuse a form because of them, and the property says
that it refuses nothing else. `ReopenKeepsForm` is about the component, which can
be opened on a stored document; `App.tsx:291-298` never does that.

### Intake

One tab in full, and of others what they do to the cookie (`SessionElsewhere`) and
what their bootstraps do at the server. A run of
`useTaxObject`'s effect is a sequence of requests, each sent with the cookie of
that moment; it may be cancelled, or left behind by a reload. `app` is what React
has committed. Its effects are due until they run, alone (`Flush`) or before the
next update (`TakeUpdate`); so there is a committed state in which a user has come
and `loading` is not yet true, with the ids that an earlier run left.
`TabFollowsItsUser` is about states whose effects have run, and
`FilerViewsAreDeferred`, which is about all, fails. `since` (history) are the
sessions that the browser had since the tab's user came: other tabs may put
another user's session under this one, whose bootstrap then works for that user.

### Panels

Tabs share one shape: page, search, debounce, loading, error, rows. A flight is
a request with its answer, answered and handled in any order; a change (PATCH,
DELETE, passkey registration) reads and writes the server in two steps and
refetches.

## Runs

| run | asks | bounds |
|---|---|---|
| `tq_runners` | exclusive claims, kept claims, attempt budget, `ClaimInv`, refinement; every task settles | 2 runners, 2 tasks with budgets 2 and 0, so that one sweep recovers two rows; claims of one tick |
| `background` | waits, stop, tasks are taken; one run per window; which replaced credentials a worker may start with | 2 loops, 1 task, 2 waits, 1 requeue; 2 servers, 2 jobs with windows of 1 and 2 instants, 3 instants; 2 bundles, 2 workers, 3 days |
| `access` | what tokens pay for; limits, names, logout, passkeys | 3 requests, 2 tokens, 2 tasks, 2 seconds; 3 calls, 2 names, 1 seeded user with a passkey, limits of 1 to 3 |
| `audit_chain` | the chain; no endless waiting; the administrator's tabs | 2 callers and a batch of 2, 2 instants; 2 flights, 3 moves |
| `filing` | the way of a return: documents, rows, form, tabs | lists of up to 2 lines; 2 requests at a time on 2 users, 1 object, 2 returns, 1 task; 2 edits, extractions with and without values that the schema refuses; 2 filers, 2 bootstraps |
| `waiting` | settled rows stay settled, claims end without fair workers; nothing loads for ever | 1 runner, 1 cron worker, 2 clients who claim for either agent type for -1 or 1 tick and patch settled statuses, 1 task; 1 filer who comes and goes, 2 bootstraps, 2 objects |

`MCBackground`, `MCAccess`, `MCAuditChain`, `MCFiling` and `MCWaiting` put
modules side by side that share no variable: `part` is chosen in the initial
state and one module moves at a time, so that TLC explores their sum and not
their product. Interleavings within a module are complete; between these modules
there are none to miss. `access` also divides `Accounts`: password calls with
clock, limits, deactivation and restart; sessions with both kinds of login and
either cookie name; ceremonies whose challenges expire. `filing` divides
`Records` by the rows that requests share: users and their deletion, tasks,
returns with erasure, and creations while owners are deleted; and `Intake` into
tabs that race, sessions that change elsewhere, and a wizard whose filers have
their return. Requests and calls in `access`, filers and bootstraps in `filing`
are symmetric: no definition tells one from another.

Claim conflicts need two workers and a third claim attempt after an expiry;
budgets of two attempts give one retry and then a dead task; two ticks separate
live, last and expired instants. Patches to claimed, running and submitting are
left to the theorems, whose hypothesis `NoRequeue` allows them. Three requests
give a first use, a concurrent one and a late one. Four events give a fork, a
late stamp and a row behind both. Two servers and two windows give a conflict, a
restart in the window and a late settlement. Three calls are two that race and
one before or after them. Two lines per list let a document fall under two
conditions of a tier, two forms with a common dependency, and sums on both sides
of 400 dollars and of a credit limit. Two requests give every read-write
overlap, and a third adds only another of the same. Two flights give an answer
that is overtaken.

Deadlock is not checked where requests, events and edits are used up or stopped
loops do nothing more: in the runs of `MCBackground`, `MCAccess`, `MCAuditChain`,
`MCFiling` and `MCWaiting`.

Runs that TLC must find violated show where the code differs from what a
comment says of it (`PROJECT.json`, "findings"):

- `tq_runner_submits`: a runner has no token to submit with, so every
  successful run of Codex ends as failed;
- `token_single_use`: a token used twice, by concurrent requests;
- `audit_valid`: an untouched log that verify calls invalid;
- `form_saved`: PATCH refuses whatever the form sends;
- `views_deferred`: after a login, for one commit, a filer's views are shown without
  ids or with those of the tab's former user, with which `TierResultsView` posts;
- `preferences`: a PATCH of preferences takes the user's role away.

### Divergences without a run

Met while modelling; the models follow the code. The properties named are what
holds in spite of them.

- A failed task is not retried: `recoverStaleClaims` looks at claimed rows
  only (`runner.ts:160`). `updateTaskStatus` overwrites a settled status by another
  (`task-queue.ts:150` against `:7`); `SettledStaysSettled`.
- A recovered row may lose its audit entry to a serialization failure
  (`stale-claim-recovery-service.ts:4`, `:20`).
- Two deletions at a time leave no superuser (`users.ts:128-150`);
  `LastSuperuserNeedsARace`.
- Updates overwrite what others wrote since their read, an erasure included
  (`tax-returns.ts:355`, `governance.ts:423`, `admin.ts:205-235`);
  `OnlyOvertakenWritesUndo`.
- Two registrations of one name both succeed (`auth.ts:228`);
  `SameNameNeedsARace`.
- With the `__Host-` cookie, a logout revokes nothing (`auth.ts:405`; the comment
  at `:409` wants it always); the browser loses the session all the same
  (`LogoutEndsSession`).
- A login by passkey sets no CSRF cookie, so that its logout is refused; the
  client then shows the login page and keeps the cookie.
- The bootstrap that `use-tax-object.ts:17` calls idempotent creates a second
  object under a race; `DuplicatesNeedARace`.
- The W-2 and the chosen path survive a logout: the next user of the tab finds
  them, unless the view was left (`App.tsx:119`). `TabFollowsItsUser` is about
  the return.
- Tabs share the cookie and none notices when another one logs in: its bootstrap
  then finds or creates the other user's return; `TabFollowsItsUser`.
- Editing the amount of a W-2 line leaves
  `w2Data.wages` as it was. Opening the form again with the same description
  doubles its life events (`TaxSituationForm.tsx:330-340`).
- FreeTaxUSA places complex returns in Deluxe (`tier-mapping.ts:600-634`) although
  it "does not gate" and its free tier handles all (`:590-598`);
  `TiersAgreeWithForms` is about the three that gate.
- Two stores of credentials at a time leave two active bundles
  (`worker-credentials.ts:66`), and a worker may start with a bundle that was
  replaced after it had fetched it (`codex-credentials.ts:61-110`);
  `ReplacedIsNotUsed`.
- `POST /api/auth/passkey/register/begin` takes the user from the body, without a
  session (`passkey.ts:69-121`).
- Extractions reach the form unchecked (`parse-description.ts:137-146`), with types
  and states that the schema of PATCH refuses; `SectionsFitSchema`.
- The audit event of an administrator's change comes after the change and its
  failure is swallowed (`admin.ts:237`), where `audit-service.ts:10` asks for it
  before. `TaskWritesAreAudited` is about the task service, which audits first and
  which no other code of the repository calls.
- Below 400 dollars `getRequiredForms` asks for Schedule SE
  (`form-taxonomy.ts:82`) and `THRESHOLD_SE_NET_BELOW_400_WITH_SE` calls it
  unnecessary (`validation-rules.ts:585`). `form-taxonomy.ts:145-148` documents it as
  a simplification, and no property compares the two.
- The audit digest counts by a column that `audit_events` does not have
  (`audit-digest.ts:43-53`), its error is swallowed and the count is 0.
- The panel waits for `task.*` events (`AdminPanel.tsx:828`, `websocket.ts:9`)
  that nothing sends.

## Fairness

- `RecoveryFairness`: time passes and `setInterval` keeps calling
  `recoverStaleClaims`.
- `WorkerFairness`: a claim statement started again and again commits (strong,
  since crashes may interrupt it); runners and cron workers poll (weak: the
  poll interval of the loop, the 5 s timer); an execution ends and the
  straight-line code after it goes on. That Codex ends is an assumption: it has
  no timeout. `ClaimsEnd` does without it. Clients are never fair.
- `WorkerLoop`: loops run on, executions end, timers fire; not notifications.
- `AuditChain`: an emission that has begun goes on.
- `IntakeFairness`: a request is answered or fails, `fetch` rejects when the
  connection ends, and React runs effects that are due. Users and their clicks are never fair.

## Proofs

`TaskQueueProofs`, for all sets of tasks, workers, durations and options that
the assumptions in `TaskQueue` allow (types of the parameters; tasks finite for
the enqueue order; claims last at least -1 ticks):

- `TypeCorrect`: types, and `JobsNameTasks`, without which the rows that the
  actions write need not be rows of the table.
- `ClaimsInvariant`: `ClaimInv` is inductive with the types. `ExclusiveClaims`
  is not: it says nothing of a claim statement that is about to commit. A
  locked row is pending (`LocksArePending`) and locked once
  (`LocksAreExclusive`); a pending row has no expiry (`PendingHasNoExpiry`), so
  that no live claim can be its own (`LiveClaimIsTheRows`: a live claim has
  the row's expiry); so whoever commits a claim takes the row from nobody. The
  claims of a row differ in their attempt number (`ClaimsAreNumbered`). Needs
  `NoRequeue`.
- `Exclusion` and `LiveClaimsAreKept`: `ExclusiveClaims` and `LiveClaimIsKept`
  follow.
- `BudgetKept`: from `attempt < Budget` of pending rows and the fact that
  recovery compares before it requeues. Needs `NoRequeue`.
- `Settling`: one case per action. Needs `OnlySettles`.
- `Refinement`: `TaskQueue` implements `TaskLifecycle`. One lemma per kind of
  statement: a row that is rewritten stays in its phase, settles, or is claimed
  once more. `LifecycleInv` adds `RowsFit` to the invariants above: a row that is
  absent has no attempt and one that is claimed has at least one, without which an
  insert or a requeue would change the tries that the lifecycle counts. Needs
  `OnlySettles`: a `PATCH` that puts a row back to pending is no step of the
  lifecycle (a hazard without a property).

`DelegatedTokenProofs`: `PaidFor`, `ValidUse` and `UsedIsRefused`, for all sets
of requests, tokens and tasks, every lifetime and clock. None of the three
properties is inductive alone. `TokenInv` adds that the use of a token that any
request consumed, or found accepted when it came in, is in the table or old
enough for the cleanup (`UsesAreRemembered`), and that this only grows with
time; that whoever is past the checks passed them (`ChecksArePassed`); and that
a late request past the second lookup was looked up after the expiry
(`LateIsTooLate`).

`BackgroundProofs`, for all loops, tasks, waits, servers, jobs, periods, horizons,
bundles, workers and lifetimes:

- `Sleepers` (inductive with the types) and `Stopping`: who sleeps has a callback
  or a timer left to wake it, and a stopped loop claims nothing.
- `OneRun`: `OneRunPerWindow` is not inductive; `CronInv` adds that a row that can
  still be claimed was never begun, which no statement undoes.
- `ReplacedBundlesAreNotUsed`: a row was inserted by the call of its bundle
  (`StoredByItsCall`), and what that call saw was revoked by it before, for good
  (`SeenIsInactive`); a start reads active rows, so what it has read was seen by
  no call that had revoked by then, and such a call sees no more rows.

`AuditChainProofs`, for all events, batches and clocks, from `ChainInv`: rows are
distinct (`RowsAreDistinct`), each prefix of the log has one latest row
(`EveryPrefixHasALatest`), and a row names the hash that was the latest when it was
committed, not only when it was read (`ChainedToTheLatest`: what the serializable
transaction with its retry is for).

- `NothingIsChainedToALostRow`: the latest of a prefix is in it.
- `OnlyLateStampsFork`: two rows name one hash only if the latest did not change
  between them, so the first is stamped before a row that it follows.
- `OrderedLogIsValid`: if rows are committed in the order of ts and id, the latest
  is the last, and `verify` finds what each row names.

`RecordsProofs`, for all users, objects, returns, tasks, years and requests in
flight. `RecordsInv` says what a handler may rely on while it waits: the parent in
the row is the one it read (`SameParent`); as long as the row was not overtaken,
what will be written differs from it only where the request says so
(`DiffersInNames`); as long as no user was written, a superuser is left over
(`DeleteOK`).

- `GraphAgrees`: relations follow properties, since no write moves a return or an
  object to another parent.
- `TasksAreAudited`: the task service audits before it writes.
- `UndoNeedsARace` and `LastSuperuserStays`: action properties from the two facts
  above. The requests of preferences are none of those that `UndoNeedsARace` is
  about.

`AccountsProofs`, for all calls, names, users, windows and limits. Each step moves
one call and only marks others as disturbed (lemmas `...Kept` per step), so the
five invariants are proved beside each other:

- `NamesNeedARace` (`NamesInv`): a row has the name of its call, and no row that
  the call saw has it.
- `LogoutEndsIt` (`SessionInv`): a session that a logout took is revoked, or in
  neither cookie; while it runs, each one it found is revoked, about to be, or in
  the cookie that the answer clears.
- `PasskeysNeedOverlap` (`CeremonyInv`, `CounterInv`): a ceremony that nothing came
  between has the newest challenge of those that its query finds, and reads that
  one; an authenticator that does not count has signed nothing but 0 and its row has
  nothing else, so the comparison that lets 0 pass takes no counter back.
- `LoginsStayLimited` (`LimitInv`): hits that counted a login are kept until they
  leave the window and are different, so that the logins that are counted are as
  many as hits; the limiters of the name count in one step, the one of the address
  in two, hence the allowance for bodies that were being read.

`WebClientProofs`, for all filers, superadmins, bootstraps and objects, from
`TabInv`: the session of the browser is one of those that it had since the tab's user
came (`SessionIsKnown`); a bootstrap that was not cancelled acts for one of them,
unless its cancellation is due (`LiveRunsActForTheTab`); and once the hook has run,
nothing is loading and nothing went wrong, the tab has resolved an object of one of
them (`SettledTabsOwnTheirObject`).

- `TabsStayWithTheirUser`: `TabFollowsItsUser`.
- `SecondObjectsNeedARace`: a run that found no object stays right about that
  until another one creates it, which overtakes the run. The proof showed that a
  run need not be cancelled for a duplicate, so the property does not allow for
  that any more.

`FilingProofs`, for every document that can be stored, every way a form can be
opened and edited, and every number of requests on their way:

- `TiersAgree`: `TiersAgreeWithForms`. The tiers of the three providers that gate
  are a ladder (`Ladders`): each document fits at most one of them, its rung
  (`LadderFits`), and the types of lines that decide on the rung are those that
  trigger the forms (`RungOfForms`). No invariant is needed: it is so of every
  document.
- `NeverCheaper`: an action property. A document with more lines stands on the
  same or a dearer rung, if on any (`MoreLinesHigherTier`); the other providers
  are free.
- `FormsClosed`: the forms that are triggered are closed under dependencies
  (`TriggeredAreClosed`), so the rounds of `getRequiredForms` add nothing to the
  first, however many there are.
- `RulesDoNotContradict`, `ValidReturns`: from the invariant that what is stored
  has arrays for lists and numbers for amounts (`DocumentStored`), by which the
  sums that the rules compare are numbers.
- `SectionsFit`: `SectionsFitSchema`, from `FormTyped`: every row of the form
  has each property either as the schema asks for it or as a row of the extraction
  has it. Every edit preserves it, since an edit writes one property, with an option
  or a value of its input; the initial state has it because of what the origins
  hand over. Extractions may hold any types, states, statuses and boxes.
- `ReopenKeeps`: the initialiser undoes `situationData`, field by field, but for
  what the property excepts; extracted lines that are still in the document are
  not added again, because the filter of the parsed lines keeps none of them.
- `TabsShowTheServer`: `TabsAtRestShowTheServer` says nothing while a request is
  on its way, so `PanelsInv` says what the requests will bring. A tab that is
  loading has its list on the way (`LoadingIsListed`). Rows on the screen are the
  server's, except for passkeys whose removal was answered and not yet handled,
  or a list is still to come (`RowsAreCurrent`). The same holds of an answer that
  was not overtaken and after which no other list was sent (`AnswersAreCurrent`):
  it becomes the rows when it is handled, in whatever order that is. Requests are
  for tabs of the section on the screen unless the user has left them
  (`FlightsOfOpenTabs`). A passkey id that was removed does not come back
  (`KeysAreMinted`), or the late answer to its removal would hide a new one.

Sums, filters and rounds are recursive functions. The library's induction theorems
take an operator as a parameter, which the provers cannot instantiate, so such a
function is shown to be right by its smallest counterexample (`SmallestNumber`).
`Filtering` and `Answered` state by positions what the code does with `filter`.

The assumptions on constants are mostly their types and that kinds of ids, NULL and
the like do not meet; each is an `ASSUME` of the module that declares them and holds
in the runs. Five say more:

- `NullIsNoTier`: no tier is called null.
- `LinesAssumption`: the lists of a document are arrays and its amounts numbers,
  as the schema of PATCH demands.
- `OriginsAssumption`: a stored situation has passed that schema; in an extraction
  the lists are arrays, without which the form would throw, and NULL stands for a
  type, payer or date that is missing. Nothing else is assumed of what the language
  model answers.
- `NullAssumption`: null is none of the options, texts and amounts of the form.
- `PanelsAssumption`: the tabs that the code names exist and have rows on the
  server.

Model-checked only: liveness (`ClaimsEnd`, `EveryTaskSettles`, `TasksAreTaken`,
`StopEnds`, `EmissionsEnd`, `WaitingEnds`), which needs ENABLED and fairness, out of
the prover's reach. Every invariant and action property of a passing run is a
theorem.

## Plan

What was planned is modelled, and proved where it can be. Open are six
hazards without a property, for the reasons that `PROJECT.json` gives.

## Not modelled

- Views that only show what they are given (results, comparison, progress,
  sidebar), the install prompt, the service worker's cache of static files.
- The websocket: a set of sockets and a loop. The worker channel: nothing uses it.
- Seeds, DDL and provisioning, containers, shell scripts, manifests, CI: run once,
  by one process.
- Encryption, log formatting, tracing, secrets: no state that several actors change.
- API keys, retention arithmetic, legal holds, payload validation: single
  statements or checks that refuse.
- The calls to an external model (`extract-w2`, `parse-description`): an answer or
  an error in `Intake`, a shape in `SituationForm`.
- Signatures, key rotation, password hashing.

`PROJECT.json` lists every component with its reason.
