-------------------------------- MODULE Intake --------------------------------
(***************************************************************************)
(* The web client of a filer: App.tsx with AuthContext.tsx, the bootstrap  *)
(* of hooks/use-tax-object.ts, the wizard (W2CaptureZone.tsx,              *)
(* DescribeIntakePath.tsx) and TierResultsView.tsx.                        *)
(*                                                                         *)
(* A browser has one cookie and one or more tabs.  One tab is modelled in  *)
(* full, of the others what they do to the cookie and what their           *)
(* bootstraps do at the server.  A request is sent with the cookie of that *)
(* moment, runs at the server later, and its answer is handled with it.    *)
(* React commits what an update leads to, and runs the effects of it       *)
(* later, but before it renders the next update.                           *)
(***************************************************************************)
EXTENDS Null, Naturals, Sequences, FiniteSets

CONSTANTS
  Filer, Superadmin,  \* users
  Bootstrap,          \* runs of useTaxObject's effect, reused when they are over
  MaxObjects          \* bound on the tax objects of all

Anyone == Filer \cup Superadmin

ASSUME IntakeAssumption ==
  /\ Filer \cap Superadmin = {}
  /\ NULL \notin Anyone /\ NULL \notin Anyone \X Nat

VARIABLES
  app,      \* state of the tab
  cookie,   \* whose session the browser has
  runs,     \* per bootstrap: where it is
  objects,  \* server: per user, the tax objects, latest first
  returned  \* server: the objects that have a return

intakeVars == <<app, cookie, runs, objects, returned>>

FilerViews == {"tax-situation", "tier-results", "settings"}
AdminSections == {"users", "registrations", "tax-activity", "audit", "demo-status", "task-queue"}

(* The section with the highest ratio, in the order of sectionStepMap.     *)
sectionStepMap == <<2, 3, 4, 5, 5, 6, 7>>

(* The page is loaded, and asks with the cookie me who the user is.  hook  *)
(* says whether the effect of useTaxObject has run for a filer; since      *)
(* records, for the properties, the sessions that the browser had since    *)
(* the user came.                                                          *)
Page ==
  [user |-> NULL, authLoading |-> TRUE, crashed |-> FALSE, me |-> cookie, hook |-> FALSE,
   taxObjectId |-> NULL, loading |-> FALSE, error |-> FALSE,
   view |-> "tax-situation", path |-> "selector", w2Data |-> NULL, parsedFields |-> NULL,
   step |-> 1, capture |-> "idle", describe |-> "hidden", tiers |-> "none",
   since |-> {}]

Over == [at |-> "over"]

IntakeInit ==
  /\ cookie \in {NULL} \cup Anyone
  /\ app = Page
  /\ runs = [b \in Bootstrap |-> Over]
  /\ objects = [u \in Anyone |-> <<>>]
  /\ returned = {}

-----------------------------------------------------------------------------
(* The gates of App: what is shown of the filer's views.                   *)
Shows(a, view) ==
  /\ ~ a.crashed /\ ~ a.authLoading /\ a.user \in Filer
  /\ ~ a.loading /\ ~ a.error
  /\ a.view = view

CaptureShown(a) == Shows(a, "tax-situation") /\ a.path = "ai-wizard"

(* A component that is not shown is unmounted and forgets its state.       *)
Commit(a) ==
  [a EXCEPT !.capture  = IF CaptureShown(a) THEN @ ELSE "idle",
            !.describe = IF CaptureShown(a) THEN @ ELSE "hidden",
            !.tiers    = IF ~ Shows(a, "tier-results") THEN "none"
                         ELSE IF @ = "none" THEN "mounted" ELSE @]

(* The effects of a committed screen.  Redirects by role, ...              *)
Redirected(c) ==
  IF c.user \in Superadmin /\ c.view \in FilerViews THEN "users"
  ELSE IF c.user \notin Superadmin /\ c.view \in AdminSections THEN "tax-situation"
  ELSE c.view

(* ... the reset of the intake when the view is left, ...                  *)
Reset(c) ==
  IF c.view = "tax-situation" THEN c
  ELSE [c EXCEPT !.w2Data = NULL, !.parsedFields = NULL, !.path = "selector", !.step = 1]

(* ... the bootstrap of a filer, and the first evaluation of the tiers.    *)
Enabled(c) == c.user \in Filer

Starts(c) == Enabled(c) /\ ~ c.hook

Effects(c) ==
  [Reset(c) EXCEPT !.view = Redirected(c), !.hook = Enabled(c),
                   !.loading = @ \/ Starts(c), !.error = @ /\ ~ Starts(c),
                   !.tiers = IF @ = "mounted" THEN "loading" ELSE @]

Listing(tab) ==
  [at |-> "objects", as |-> cookie, tab |-> tab, object |-> NULL, live |-> "yes",
   of |-> cookie, overtaken |-> FALSE]

Live(r) == r.at # "over" /\ r.tab = "this" /\ r.live = "yes"

(* The effect of useTaxObject starts a run, and its cleanup cancels it.    *)
(* The ids of an earlier run stay.                                         *)
HookEffect(rs) ==
  \/ Starts(app) /\ \E b \in Bootstrap : rs[b] = Over /\ runs' = [rs EXCEPT ![b] = Listing("this")]
  \/ Enabled(app) = app.hook /\ runs' = rs
  \/ /\ app.hook /\ ~ Enabled(app)
     /\ runs' = [b \in Bootstrap |->
                   IF Live(rs[b]) THEN [rs[b] EXCEPT !.live = "cancelled"] ELSE rs[b]]

(* Effects that are due come before the update, which makes a of them; rs  *)
(* are the runs without one that ends with it.                             *)
TakeUpdate(a, rs) == HookEffect(rs) /\ app' = Commit(a)

Now == Effects(app)

Due == Now # app

Flush ==
  /\ Due
  /\ TakeUpdate(Now, runs)
  /\ UNCHANGED <<cookie, objects, returned>>

-----------------------------------------------------------------------------
(* AuthContext: GET /api/auth/me on mount.                                 *)
Me ==
  /\ app.authLoading /\ ~ app.crashed
  /\ \E user \in {app.me, NULL} :
       TakeUpdate([Now EXCEPT !.authLoading = FALSE, !.user = user, !.me = NULL,
                           !.since = IF user = NULL THEN {} ELSE {cookie}], runs)
  /\ UNCHANGED <<cookie, objects, returned>>

LoggedOut == ~ app.authLoading /\ ~ app.crashed /\ app.user = NULL

Login ==
  \E u \in Anyone :
    /\ LoggedOut
    /\ cookie' = u
    /\ TakeUpdate([Now EXCEPT !.user = u, !.since = {u}], runs)
    /\ UNCHANGED <<objects, returned>>

(* Whatever the server answers (403 keeps the cookie), the user is logged  *)
(* out; only a request that fails leaves everything as it is.              *)
Logout ==
  /\ app.user # NULL /\ ~ app.crashed
  /\ cookie' \in {cookie, NULL}
  /\ TakeUpdate([Now EXCEPT !.user = NULL, !.since = {}], runs)
  /\ UNCHANGED <<objects, returned>>

(* The page is loaded again: what is on its way to the server gets there,  *)
(* and nobody is left to handle the answer.                                *)
Reload ==
  /\ app # Page
  /\ app' = Page
  /\ runs' = [b \in Bootstrap |->
                IF runs[b].at = "over" \/ runs[b].tab # "this" THEN runs[b]
                ELSE IF runs[b].at \in {"create_object", "create_return"}
                  THEN [runs[b] EXCEPT !.live = "gone"]
                  ELSE Over]
  /\ UNCHANGED <<cookie, objects, returned>>

(* In another tab of the browser somebody logs in or out, ...              *)
SessionElsewhere ==
  /\ cookie' \in ({NULL} \cup Anyone) \ {cookie}
  /\ app' = [app EXCEPT !.since = IF app.user = NULL THEN {} ELSE @ \cup {cookie'}]
  /\ UNCHANGED <<runs, objects, returned>>

(* ... or the hook is mounted.                                             *)
BootstrapElsewhere ==
  \E b \in Bootstrap :
    /\ cookie # NULL /\ runs[b] = Over
    /\ UNCHANGED <<app, cookie, objects, returned>>
    /\ runs' = [runs EXCEPT ![b] = Listing("other")]

-----------------------------------------------------------------------------
(* The run goes on with its next request, or ends.                         *)
Go(b, to, object) ==
  runs' = [runs EXCEPT ![b] =
             IF to = "over" \/ runs[b].live = "gone" THEN Over
             ELSE [@ EXCEPT !.at = to, !.object = object, !.as = cookie]]

(* if (cancelled) return, before the returns are listed.                   *)
GoUnlessCancelled(b, to, object) ==
  Go(b, IF runs[b].live = "cancelled" THEN "over" ELSE to, object)

(* Mutant: the second check of cancelled is left out.                      *)
SetsStateOfTab(b) == runs[b].tab = "this"

SetsState(b) == runs[b].tab = "this" /\ runs[b].live = "yes"

(* Mutant: the list is not looked at.                                      *)
ListNothing(b) ==
  /\ runs[b].at = "objects" /\ runs[b].as # NULL
  /\ Go(b, "create_object", NULL)
  /\ UNCHANGED <<app, cookie, objects, returned>>

(* GET /api/tax-objects.  Without a session it is a 401.                   *)
ListObjects(b) ==
  /\ runs[b].at = "objects" /\ runs[b].as # NULL
  /\ LET mine == objects[runs[b].as]
     IN  IF mine # <<>> THEN GoUnlessCancelled(b, "returns", Head(mine))
                        ELSE Go(b, "create_object", NULL)
  /\ UNCHANGED <<app, cookie, objects, returned>>

(* POST /api/tax-objects, for whoever has the session when it is sent.     *)
CreateObject(b) ==
  /\ runs[b].at = "create_object" /\ runs[b].as # NULL
  /\ Cardinality({o \in Anyone \X (1 .. MaxObjects) : o[2] <= Len(objects[o[1]])}) < MaxObjects
  /\ LET u  == runs[b].as
         id == <<u, Len(objects[u]) + 1>>
     IN  /\ objects' = [objects EXCEPT ![u] = <<id>> \o @]
         /\ LET next == IF runs[b].live = "gone" \/ runs[b].live = "cancelled" THEN Over
                        ELSE [runs[b] EXCEPT !.at = "returns", !.object = id, !.as = cookie]
            IN  runs' = [c \in Bootstrap |->
                           IF c = b THEN next
                           ELSE IF runs[c].at = "create_object" /\ runs[c].as = u
                             THEN [runs[c] EXCEPT !.overtaken = TRUE] ELSE runs[c]]
  /\ UNCHANGED <<app, cookie, returned>>

(* The run is over, and updates the tab unless it was cancelled.           *)
Ends(b, a) ==
  LET others == [runs EXCEPT ![b] = Over]
  IN  IF SetsState(b) THEN TakeUpdate(a, others) ELSE runs' = others /\ UNCHANGED app

Resolve(b) == Ends(b, [Now EXCEPT !.taxObjectId = runs[b].object, !.loading = FALSE])

(* GET /api/tax-objects/:id/returns: the object must be the caller's.      *)
ListReturns(b) ==
  /\ runs[b].at = "returns" /\ runs[b].as = runs[b].object[1]
  /\ IF runs[b].object \in returned THEN Resolve(b)
     ELSE Go(b, "create_return", runs[b].object) /\ UNCHANGED app
  /\ UNCHANGED <<cookie, objects, returned>>

(* POST /api/tax-objects/:id/returns: 409 when there is one.               *)
CreateReturn(b) ==
  /\ runs[b].at = "create_return" /\ runs[b].as = runs[b].object[1]
  /\ runs[b].object \notin returned
  /\ returned' = returned \cup {runs[b].object}
  /\ Resolve(b)
  /\ UNCHANGED <<cookie, objects>>

(* Mutant: loading ends with a success only.                               *)
RequestFailsLoading(b) ==
  /\ runs[b].at # "over"
  /\ Ends(b, [Now EXCEPT !.error = TRUE])
  /\ UNCHANGED <<cookie, objects, returned>>

(* Any of the requests is refused or fails.                                *)
BootstrapFails(b) ==
  /\ runs[b].at # "over"
  /\ Ends(b, [Now EXCEPT !.error = TRUE, !.loading = FALSE])
  /\ UNCHANGED <<cookie, objects, returned>>

BootstrapStep(b) == ListObjects(b) \/ CreateObject(b) \/ ListReturns(b) \/ CreateReturn(b) \/ BootstrapFails(b)

-----------------------------------------------------------------------------
SetState(a) == TakeUpdate(a, runs) /\ UNCHANGED <<cookie, objects, returned>>

Navigate ==
  \E view \in IF app.user \in Superadmin THEN AdminSections ELSE FilerViews :
    /\ ~ app.crashed /\ ~ app.authLoading /\ app.user # NULL
    /\ app.user \in Filer => ~ app.loading /\ ~ app.error
    /\ view # app.view
    /\ SetState([Now EXCEPT !.view = view])

IntakeShown == Shows(app, "tax-situation")

SelectPath ==
  /\ IntakeShown /\ app.path = "selector"
  /\ \E path \in {"ai-wizard", "form"} : SetState([Now EXCEPT !.path = path])

Back ==
  /\ CaptureShown(app) /\ app.capture = "idle" /\ app.describe = "hidden"
  /\ SetState([Now EXCEPT !.path = "selector"])

(* The form tells which section is in view.                                *)
Scroll ==
  /\ IntakeShown /\ app.path = "form"
  /\ \E i \in 1 .. Len(sectionStepMap) : SetState([Now EXCEPT !.step = sectionStepMap[i]])

(* W2CaptureZone: the demo W-2, a file or a photo.                         *)
StartExtraction ==
  /\ CaptureShown(app) /\ app.capture = "idle" /\ app.describe = "hidden"
  /\ SetState([Now EXCEPT !.capture = "loading"])

(* A box that was not read is null; the review calls toLocaleString on it, *)
(* and nothing catches what a render throws.                               *)
ExtractionAnswered ==
  /\ app.capture = "loading"
  /\ \/ \E stage \in {"review", "error"} : SetState([Now EXCEPT !.capture = stage])
     \/ SetState([Now EXCEPT !.crashed = TRUE])

ResetCapture ==
  /\ app.capture \in {"review", "error"}
  /\ SetState([Now EXCEPT !.capture = "idle"])

(* onExtracted: of the two extractions the form gets one.                  *)
ConfirmExtraction ==
  /\ app.capture = "review"
  /\ SetState([Now EXCEPT !.w2Data = app.user, !.parsedFields = NULL, !.path = "form"])

(* DescribeIntakePath, which needs both ids.                               *)
OpenDescription ==
  /\ CaptureShown(app) /\ app.capture = "idle" /\ app.describe = "hidden"
  /\ app.taxObjectId # NULL
  /\ SetState([Now EXCEPT !.describe = "input"])

Describe ==
  \/ /\ app.describe = "input"
     /\ \E stage \in {"hidden", "loading"} : SetState([Now EXCEPT !.describe = stage])
  \/ /\ app.describe \in {"review", "error"}
     /\ SetState([Now EXCEPT !.describe = "input"])

DescriptionAnswered ==
  /\ app.describe = "loading"
  /\ \E stage \in {"review", "error"} : SetState([Now EXCEPT !.describe = stage])

ConfirmDescription ==
  /\ app.describe = "review"
  /\ SetState([Now EXCEPT !.parsedFields = app.user, !.w2Data = NULL, !.path = "form"])

(* TierResultsView: the answer, and Re-evaluate.                           *)
TiersAnswered ==
  /\ app.tiers = "loading"
  /\ \E stage \in {"shown", "error"} : SetState([Now EXCEPT !.tiers = stage])

Reevaluate ==
  /\ app.tiers \in {"shown", "error"}
  /\ SetState([Now EXCEPT !.tiers = "loading"])

-----------------------------------------------------------------------------
Answers == ExtractionAnswered \/ DescriptionAnswered \/ TiersAnswered

(* Told apart, so that an instance can take fewer of them.                 *)
SessionSteps == Flush \/ Me \/ Login \/ Logout \/ \E b \in Bootstrap : BootstrapStep(b)

TabSteps == Reload \/ SessionElsewhere \/ BootstrapElsewhere

WizardSteps ==
  \/ Navigate \/ SelectPath \/ Back \/ Scroll
  \/ StartExtraction \/ ResetCapture \/ ConfirmExtraction
  \/ OpenDescription \/ Describe \/ ConfirmDescription
  \/ Answers \/ Reevaluate

IntakeNext == SessionSteps \/ TabSteps \/ WizardSteps

IntakeSpec == IntakeInit /\ [][IntakeNext]_intakeVars

(* A request is answered or fails, and effects run.                        *)
IntakeFairness ==
  /\ WF_intakeVars(Flush) /\ WF_intakeVars(Me) /\ WF_intakeVars(Answers)
  /\ \A b \in Bootstrap : WF_intakeVars(BootstrapStep(b))

FairIntakeSpec == IntakeSpec /\ IntakeFairness

-----------------------------------------------------------------------------
(* Users may come and go in this tab and in others, with requests of the   *)
(* one before still on their way: once the effects have run, the object    *)
(* that is worked on is one of a session that the browser had since the    *)
(* user of this tab came, so the user's own unless other tabs put another  *)
(* session under it.  And the form is never given a W-2 and a description, *)
(* whose wages it would add up.                                            *)
TabFollowsItsUser ==
  /\ ~ Due /\ (\E view \in FilerViews : Shows(app, view)) =>
       app.taxObjectId # NULL /\ app.taxObjectId[1] \in app.since
  /\ NULL \in {app.w2Data, app.parsedFields}
  /\ app.step # 1 => app.path = "form"

(* App.tsx:141: "Defer filer views until real IDs are resolved".  The code *)
(* defers them only once the effect of useTaxObject has run.               *)
FilerViewsAreDeferred ==
  \A view \in FilerViews :
    Shows(app, view) => app.taxObjectId # NULL /\ app.taxObjectId[1] = app.user

(* A second tax object comes from a race only: from a run that another one *)
(* has overtaken since it found no object, or whose tab has had another    *)
(* user's session put under it.  That a run was cancelled, or left behind  *)
(* by its page, and posts all the same does not suffice.                   *)
DuplicatesNeedARace ==
  [][\A u \in Anyone :
       objects[u] # <<>> /\ objects'[u] # objects[u] =>
         \E b \in Bootstrap :
           /\ runs[b].at = "create_object" /\ runs[b].as = u
           /\ runs[b].overtaken \/ runs[b].of # u]_intakeVars

(* Nobody waits for ever: what is loading ends, or the user is gone.       *)
WaitingEnds ==
  /\ app.authLoading ~> ~ app.authLoading
  /\ (app.loading /\ app.user \in Filer) ~> (~ app.loading \/ app.user \notin Filer)
  /\ app.capture = "loading" ~> app.capture # "loading"
  /\ app.describe = "loading" ~> app.describe # "loading"
  /\ app.tiers \in {"mounted", "loading"} ~> app.tiers \notin {"mounted", "loading"}
=============================================================================
