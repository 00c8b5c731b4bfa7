--------------------------- MODULE WebClientProofs ---------------------------
(***************************************************************************)
(* Proofs about Intake, for all filers, superadmins and numbers of         *)
(* bootstraps and tax objects.                                             *)
(***************************************************************************)
EXTENDS Intake, SequenceTheorems, TLAPS

UserOrNone   == Anyone \cup {NULL}
TaxObject    == Anyone \X Nat
ObjectOrNone == TaxObject \cup {NULL}

AppState ==
  [user         : UserOrNone,
   authLoading  : BOOLEAN,
   crashed      : BOOLEAN,
   me           : UserOrNone,
   hook         : BOOLEAN,
   taxObjectId  : ObjectOrNone,
   loading      : BOOLEAN,
   error        : BOOLEAN,
   view         : FilerViews \cup AdminSections,
   path         : {"selector", "ai-wizard", "form"},
   w2Data       : UserOrNone,
   parsedFields : UserOrNone,
   step         : Nat,
   capture      : {"idle", "loading", "review", "error"},
   describe     : {"hidden", "input", "loading", "review", "error"},
   tiers        : {"none", "mounted", "loading", "shown", "error"},
   since        : SUBSET UserOrNone]

Run ==
  [at        : {"objects", "create_object", "returns", "create_return"},
   as        : UserOrNone,
   tab       : {"this", "other"},
   object    : ObjectOrNone,
   live      : {"yes", "cancelled", "gone"},
   of        : UserOrNone,
   overtaken : BOOLEAN]

TypeOK ==
  /\ app \in AppState
  /\ cookie \in UserOrNone
  /\ runs \in [Bootstrap -> Run \cup {Over}]
  /\ objects \in [Anyone -> Seq(TaxObject)]
  /\ returned \subseteq TaxObject

-----------------------------------------------------------------------------
(***************************************************************************)
(* The inductive invariant.  Of a user who is logged in, since holds the   *)
(* session of the browser; a bootstrap that was not cancelled is of the    *)
(* hook's last mount and acts for a session that the browser had since the *)
(* user came, unless its cancellation is due, so the object that it        *)
(* resolves to is of such a session; and once the hook has run, nothing is *)
(* loading and nothing went wrong, the tab has resolved such an object.  A *)
(* run that has found no object stays right about that until another run   *)
(* creates one, which overtakes it.                                        *)
(***************************************************************************)
SessionIsKnown == app.user # NULL => cookie \in app.since

LiveRunsActForTheTab ==
  \A b \in Bootstrap :
    Live(runs[b]) => app.hook /\ (Enabled(app) => runs[b].as \in app.since)

RunsKnowTheirObject ==
  \A b \in Bootstrap :
    runs[b].at \in {"returns", "create_return"} => runs[b].object \in TaxObject

Owned(a) == a.taxObjectId \in TaxObject /\ a.taxObjectId[1] \in a.since

Settled(a) == a.hook /\ Enabled(a) /\ ~ a.loading /\ ~ a.error

SettledTabsOwnTheirObject == Settled(app) => Owned(app)

(* While the page asks who the user is, it is nobody's.                    *)
NobodysAtFirst(a) == a.authLoading => a.user = NULL /\ ~ a.hook

(* What the intake holds comes from one extraction, and the step is one of *)
(* the form's.                                                             *)
OneExtraction(a) ==
  /\ a.w2Data = NULL \/ a.parsedFields = NULL
  /\ a.step # 1 => a.path = "form"

RunsListForTheirUser ==
  \A b \in Bootstrap : runs[b].at = "objects" => runs[b].as = runs[b].of

(* A run that is about to create an object for the user it listed those    *)
(* of, and that nobody has overtaken, is right that there is none.         *)
Undisturbed(b, u) ==
  /\ runs[b].at = "create_object" /\ runs[b].as = u /\ runs[b].of = u
  /\ ~ runs[b].overtaken

CreatorsAreRight ==
  \A b \in Bootstrap, u \in Anyone : Undisturbed(b, u) => objects[u] = <<>>

TabInv ==
  /\ TypeOK
  /\ SessionIsKnown
  /\ LiveRunsActForTheTab
  /\ RunsKnowTheirObject
  /\ SettledTabsOwnTheirObject
  /\ NobodysAtFirst(app)
  /\ OneExtraction(app)
  /\ RunsListForTheirUser
  /\ CreatorsAreRight

-----------------------------------------------------------------------------
(* Effects and commits clean the intake up and leave the session and the   *)
(* bootstrap's results alone.                                              *)
SameSession(a, b) ==
  /\ a.user = b.user /\ a.taxObjectId = b.taxObjectId /\ a.since = b.since
  /\ a.authLoading = b.authLoading

SameLoading(a, b) == a.hook = b.hook /\ a.loading = b.loading /\ a.error = b.error

LEMMA ResetKeeps ==
  ASSUME NEW a \in AppState, OneExtraction(a)
  PROVE  /\ Reset(a) \in AppState
         /\ OneExtraction(Reset(a))
         /\ SameSession(Reset(a), a) /\ SameLoading(Reset(a), a)
<1>1. CASE a.view = "tax-situation"
  BY <1>1 DEF Reset, SameSession, SameLoading
<1>2. CASE a.view # "tax-situation"
  BY <1>2 DEF Reset, AppState, OneExtraction, SameSession, SameLoading, UserOrNone
<1> QED
  BY <1>1, <1>2

LEMMA CommitKeeps ==
  ASSUME NEW a \in AppState, OneExtraction(a)
  PROVE  /\ Commit(a) \in AppState
         /\ OneExtraction(Commit(a))
         /\ SameSession(Commit(a), a) /\ SameLoading(Commit(a), a)
  BY DEF Commit, AppState, OneExtraction, SameSession, SameLoading

(* After the effects the hook has run for whoever is enabled; a tab that   *)
(* is settled then was settled before.                                     *)
LEMMA EffectsKeep ==
  ASSUME NEW a \in AppState, OneExtraction(a)
  PROVE  /\ Effects(a) \in AppState
         /\ OneExtraction(Effects(a))
         /\ SameSession(Effects(a), a)
         /\ Effects(a).hook = Enabled(a)
         /\ Settled(Effects(a)) => Settled(a)
<1> DEFINE r == Reset(a)
<1>1. r \in AppState /\ OneExtraction(r) /\ SameSession(r, a) /\ SameLoading(r, a)
  BY ResetKeeps
<1> HIDE DEF r
<1>2. Redirected(a) \in FilerViews \cup AdminSections
  BY DEF Redirected, FilerViews, AdminSections, AppState
<1>3. Enabled(a) \in BOOLEAN /\ Starts(a) \in BOOLEAN
  BY DEF Enabled, Starts
<1> DEFINE e == [r EXCEPT !.view = Redirected(a), !.hook = Enabled(a),
                          !.loading = @ \/ Starts(a), !.error = @ /\ ~ Starts(a),
                          !.tiers = IF @ = "mounted" THEN "loading" ELSE @]
<1>4. Effects(a) = e
  BY DEF Effects, r
<1>5. /\ e.user = r.user /\ e.taxObjectId = r.taxObjectId /\ e.since = r.since
      /\ e.authLoading = r.authLoading
      /\ e.hook = Enabled(a)
      /\ e.loading = (r.loading \/ Starts(a))
      /\ e.error = (r.error /\ ~ Starts(a))
      /\ e.w2Data = r.w2Data /\ e.parsedFields = r.parsedFields
      /\ e.step = r.step /\ e.path = r.path
  BY <1>1 DEF AppState
<1>6. e \in AppState
  <2>1. r.loading \in BOOLEAN /\ r.error \in BOOLEAN
    BY <1>1 DEF AppState
  <2>2. PICK loading \in BOOLEAN : loading = (r.loading \/ Starts(a))
    BY <2>1, <1>3
  <2>3. PICK error \in BOOLEAN : error = (r.error /\ ~ Starts(a))
    BY <2>1, <1>3
  <2>4. PICK tiers \in {"none", "mounted", "loading", "shown", "error"} :
          tiers = IF r.tiers = "mounted" THEN "loading" ELSE r.tiers
    BY <1>1 DEF AppState
  <2>5. PICK hook \in BOOLEAN : hook = Enabled(a)
    BY <1>3
  <2>6. PICK view \in FilerViews \cup AdminSections : view = Redirected(a)
    BY <1>2
  <2>7. e = [r EXCEPT !.view = view, !.hook = hook, !.loading = loading,
                      !.error = error, !.tiers = tiers]
    BY <2>2, <2>3, <2>4, <2>5, <2>6 DEF e
  <2> DEFINE shown == [r EXCEPT !.view = view, !.tiers = tiers]
             ran   == [shown EXCEPT !.hook = hook]
             loads == [ran EXCEPT !.loading = loading]
  <2>8. shown \in AppState
    BY <1>1 DEF AppState
  <2> HIDE DEF e, shown
  <2>9. ran \in AppState
    BY <2>8 DEF AppState
  <2> HIDE DEF ran
  <2>10. loads \in AppState
    BY <2>9 DEF AppState
  <2> HIDE DEF loads
  <2>11. [loads EXCEPT !.error = error] \in AppState
    BY <2>10 DEF AppState
  <2>12. e = [loads EXCEPT !.error = error]
    BY <1>1, <2>7 DEF loads, ran, shown, AppState
  <2> QED
    BY <2>11, <2>12
<1> HIDE DEF e
<1>7. Settled(e) => Settled(a)
  BY <1>1, <1>5 DEF Settled, Enabled, Starts, SameSession, SameLoading
<1> QED
  BY <1>1, <1>4, <1>5, <1>6, <1>7 DEF SameSession, OneExtraction

-----------------------------------------------------------------------------
(* What the effect of useTaxObject makes of the runs.                      *)
LEMMA ListingIsRun ==
  ASSUME cookie \in UserOrNone, NEW from \in {"this", "other"}
  PROVE  /\ Listing(from) \in Run
         /\ Listing(from).at = "objects" /\ Listing(from).as = cookie
         /\ Listing(from).of = cookie /\ Listing(from).tab = from
         /\ Listing(from).live = "yes"
<1>1. PICK c \in UserOrNone : c = cookie
  OBVIOUS
<1> QED
  BY <1>1 DEF Listing, Run, ObjectOrNone

(* What is known of a run after it, from what it was before.               *)
Follows(new, r) ==
  \/ new = Over
  \/ /\ new \in Run /\ new.at = "objects" /\ new.as = new.of
     /\ Enabled(app) /\ new.as = cookie
  \/ /\ new \in Run /\ r # Over
     /\ new.at = r.at /\ new.as = r.as /\ new.of = r.of
     /\ new.object = r.object /\ new.overtaken = r.overtaken
     /\ Live(new) => Live(r) /\ Enabled(app)

(* The runs without those that end.                                        *)
Without(rs) ==
  /\ rs \in [Bootstrap -> Run \cup {Over}]
  /\ \A b \in Bootstrap : rs[b] = runs[b] \/ rs[b] = Over

LEMMA HookEffectKeeps ==
  ASSUME TabInv, NEW rs, Without(rs), HookEffect(rs)
  PROVE  /\ runs' \in [Bootstrap -> Run \cup {Over}]
         /\ \A b \in Bootstrap : Follows(runs'[b], runs[b])
<1>0. /\ cookie \in UserOrNone /\ runs \in [Bootstrap -> Run \cup {Over}]
      /\ app.hook \in BOOLEAN
  BY DEF TabInv, TypeOK, AppState
<1>1. ASSUME NEW b \in Bootstrap, Enabled(app) \/ ~ app.hook \/ ~ Live(rs[b])
      PROVE  Follows(rs[b], runs[b])
  BY <1>0, <1>1 DEF Follows, Without, TabInv, LiveRunsActForTheTab, Live, Over
<1>2. CASE Starts(app) /\ \E b \in Bootstrap :
             rs[b] = Over /\ runs' = [rs EXCEPT ![b] = Listing("this")]
  <2>1. PICK b \in Bootstrap : runs' = [rs EXCEPT ![b] = Listing("this")]
    BY <1>2
  <2>2. PICK l \in Run : /\ l = Listing("this") /\ l.at = "objects"
                         /\ l.as = cookie /\ l.of = cookie
    BY <1>0, ListingIsRun
  <2>3. Enabled(app)
    BY <1>2 DEF Starts
  <2>4. runs' \in [Bootstrap -> Run \cup {Over}]
    BY <2>1, <2>2 DEF Without
  <2>5. ASSUME NEW c \in Bootstrap PROVE Follows(runs'[c], runs[c])
    <3>1. CASE c = b
      <4>1. runs'[c] = l
        BY <2>1, <2>2, <3>1 DEF Without
      <4> QED
        BY <2>2, <2>3, <4>1 DEF Follows
    <3>2. CASE c # b
      BY <1>1, <2>1, <2>3, <3>2 DEF Without
    <3> QED
      BY <3>1, <3>2
  <2> QED
    BY <2>4, <2>5
<1>3. CASE Enabled(app) = app.hook /\ runs' = rs
  <2>1. Enabled(app) \/ ~ app.hook
    BY <1>0, <1>3
  <2> QED
    BY <1>1, <1>3, <2>1 DEF Without
<1>4. CASE /\ app.hook /\ ~ Enabled(app)
           /\ runs' = [b \in Bootstrap |->
                         IF Live(rs[b]) THEN [rs[b] EXCEPT !.live = "cancelled"]
                         ELSE rs[b]]
  <2>1. ASSUME NEW b \in Bootstrap
        PROVE  runs'[b] \in Run \cup {Over} /\ Follows(runs'[b], runs[b])
    <3>1. CASE Live(rs[b])
      <4>1. PICK r \in Run : r = rs[b]
        BY <3>1 DEF Without, Live, Over
      <4>2. runs'[b] = [r EXCEPT !.live = "cancelled"]
        BY <1>4, <3>1, <4>1
      <4>3. runs[b] = r /\ r # Over
        BY <3>1, <4>1 DEF Without, Live, Over
      <4>4. /\ runs'[b] \in Run /\ runs'[b].live = "cancelled"
            /\ runs'[b].at = r.at /\ runs'[b].as = r.as /\ runs'[b].of = r.of
            /\ runs'[b].object = r.object /\ runs'[b].overtaken = r.overtaken
        BY <4>2 DEF Run
      <4> QED
        BY <4>3, <4>4 DEF Follows, Live
    <3>2. CASE ~ Live(rs[b])
      BY <1>1, <1>4, <3>2 DEF Without
    <3> QED
      BY <3>1, <3>2
  <2> QED
    BY <1>4, <2>1
<1> QED
  BY <1>2, <1>3, <1>4 DEF HookEffect

(* An update keeps the invariant if the sessions that are known of a user  *)
(* only grow while that user stays, and a tab that it leaves settled owns  *)
(* its object.                                                             *)
LEMMA UpdateKeeps ==
  ASSUME TabInv, NEW a \in AppState, OneExtraction(a), NobodysAtFirst(a),
         NEW rs, Without(rs), TakeUpdate(a, rs),
         a.hook = Enabled(app),
         Enabled(a) /\ Enabled(app) => app.since \subseteq a.since,
         Settled(a) => Owned(a),
         cookie' \in UserOrNone, a.user # NULL => cookie' \in a.since,
         UNCHANGED objects, returned' \subseteq TaxObject
  PROVE  TabInv'
<1>1. /\ app' \in AppState /\ OneExtraction(app')
      /\ SameSession(app', a) /\ SameLoading(app', a)
  BY CommitKeeps DEF TakeUpdate
<1>2. /\ runs' \in [Bootstrap -> Run \cup {Over}]
      /\ \A b \in Bootstrap : Follows(runs'[b], runs[b])
  BY HookEffectKeeps DEF TakeUpdate
<1>3. TypeOK'
  BY <1>1, <1>2 DEF TabInv, TypeOK
<1>4. SessionIsKnown'
  BY <1>1 DEF SessionIsKnown, SameSession
<1>5. LiveRunsActForTheTab'
  <2> SUFFICES ASSUME NEW b \in Bootstrap, Live(runs'[b])
               PROVE  app'.hook /\ (Enabled(app') => runs'[b].as \in app'.since)
    BY DEF LiveRunsActForTheTab, Live, Enabled
  <2>1. Enabled(app) /\ runs'[b].as \in app.since
    <3>1. CASE Enabled(app) /\ runs'[b].as = cookie
      BY <3>1, IntakeAssumption DEF TabInv, SessionIsKnown, Enabled, Anyone
    <3>2. CASE /\ runs'[b].as = runs[b].as
               /\ Live(runs[b]) /\ Enabled(app)
      BY <3>2 DEF TabInv, LiveRunsActForTheTab
    <3> QED
      BY <1>2, <3>1, <3>2 DEF Follows, Live, Over
  <2>2. Enabled(app') = Enabled(a) /\ app'.hook = a.hook /\ app'.since = a.since
    BY <1>1 DEF Enabled, SameSession, SameLoading
  <2> QED
    BY <2>1, <2>2
<1>6. SettledTabsOwnTheirObject' /\ NobodysAtFirst(app)' /\ OneExtraction(app)'
  BY <1>1
  DEF SettledTabsOwnTheirObject, NobodysAtFirst, OneExtraction, Settled, Owned,
      Enabled, SameSession, SameLoading
<1>7. RunsKnowTheirObject'
  BY <1>2 DEF TabInv, RunsKnowTheirObject, Follows, Over
<1>8. RunsListForTheirUser'
  BY <1>2 DEF TabInv, RunsListForTheirUser, Follows, Over
<1>9. CreatorsAreRight'
  <2> SUFFICES ASSUME NEW b \in Bootstrap, NEW u \in Anyone,
                      runs'[b].at = "create_object", runs'[b].as = u,
                      runs'[b].of = u, ~ runs'[b].overtaken
               PROVE  objects[u] = <<>>
    BY DEF CreatorsAreRight, Undisturbed
  <2>1. Undisturbed(b, u)
    BY <1>2 DEF Follows, Undisturbed, Over
  <2> QED
    BY <2>1 DEF TabInv, CreatorsAreRight
<1> QED
  BY <1>3, <1>4, <1>5, <1>6, <1>7, <1>8, <1>9 DEF TabInv

(* Now is such an update, of which the session's part is known.            *)
LEMMA NowIsFine ==
  ASSUME TabInv
  PROVE  /\ Now \in AppState /\ OneExtraction(Now) /\ NobodysAtFirst(Now)
         /\ SameSession(Now, app) /\ Now.hook = Enabled(app)
         /\ Settled(Now) => Owned(Now)
         /\ Without(runs)
         /\ cookie \in UserOrNone
         /\ app.user # NULL => cookie \in app.since
         /\ returned \subseteq TaxObject
<1>1. app \in AppState /\ OneExtraction(app) /\ NobodysAtFirst(app)
  BY DEF TabInv, TypeOK
<1>2. /\ Now \in AppState /\ OneExtraction(Now) /\ SameSession(Now, app)
      /\ Now.hook = Enabled(app)
      /\ Settled(Now) => Settled(app)
  BY <1>1, EffectsKeep DEF Now
<1>3. NobodysAtFirst(Now)
  BY <1>1, <1>2, IntakeAssumption DEF NobodysAtFirst, SameSession, Enabled, Anyone
<1>4. Settled(Now) => Owned(Now)
  BY <1>2 DEF TabInv, SettledTabsOwnTheirObject, Owned, SameSession
<1> QED
  BY <1>2, <1>3, <1>4 DEF TabInv, TypeOK, SessionIsKnown, Without

-----------------------------------------------------------------------------
(* Updates that leave the session alone: effects that were due, and the    *)
(* wizard's.                                                               *)
LEMMA SetStateKeeps ==
  ASSUME TabInv, NEW a \in AppState, OneExtraction(a),
         SameSession(a, Now), SameLoading(a, Now), SetState(a)
  PROVE  TabInv'
<1>1. /\ TakeUpdate(a, runs) /\ cookie' = cookie /\ objects' = objects
      /\ returned' = returned
  BY DEF SetState
<1>2. /\ SameSession(Now, app) /\ Now.hook = Enabled(app) /\ NobodysAtFirst(Now)
      /\ Settled(Now) => Owned(Now)
      /\ Without(runs) /\ cookie \in UserOrNone /\ returned \subseteq TaxObject
      /\ app.user # NULL => cookie \in app.since
  BY NowIsFine
<1>3. /\ a.hook = Enabled(app) /\ NobodysAtFirst(a)
      /\ Enabled(a) /\ Enabled(app) => app.since \subseteq a.since
      /\ a.user # NULL => cookie \in a.since
      /\ Settled(a) => Owned(a)
  BY <1>2 DEF SameSession, SameLoading, NobodysAtFirst, Settled, Owned, Enabled
<1> QED
  BY <1>1, <1>2, <1>3, UpdateKeeps

LEMMA FlushKeeps ==
  ASSUME TabInv, Flush
  PROVE  TabInv'
<1>1. Now \in AppState /\ OneExtraction(Now) /\ SetState(Now)
  BY NowIsFine DEF Flush, SetState
<1>2. SameSession(Now, Now) /\ SameLoading(Now, Now)
  BY DEF SameSession, SameLoading
<1> QED
  BY <1>1, <1>2, SetStateKeeps

(* Each of the wizard's steps is such an update.                           *)
LEMMA WizardKeeps ==
  ASSUME TabInv, WizardSteps
  PROVE  TabInv'
<1>0. /\ Now \in AppState /\ OneExtraction(Now) /\ app \in AppState
      /\ Now.user = app.user /\ app.user \in UserOrNone
  BY NowIsFine DEF SameSession, TabInv, TypeOK, AppState
<1> DEFINE Same(a) == SameSession(a, Now) /\ SameLoading(a, Now)
<1>1. CASE Navigate
  <2>1. PICK view \in FilerViews \cup AdminSections :
          SetState([Now EXCEPT !.view = view])
    BY <1>1 DEF Navigate
  <2>2. /\ [Now EXCEPT !.view = view] \in AppState
        /\ OneExtraction([Now EXCEPT !.view = view])
        /\ Same([Now EXCEPT !.view = view])
    BY <1>0 DEF AppState, OneExtraction, SameSession, SameLoading
  <2> QED
    BY <2>1, <2>2, SetStateKeeps
<1>2. ASSUME NEW path \in {"selector", "ai-wizard", "form"},
             SetState([Now EXCEPT !.path = path]), app.path # "form"
      PROVE  TabInv'
  <2>1. Now.path # "form"
    BY <1>0, <1>2 DEF Now, Effects, Reset, AppState
  <2>2. /\ [Now EXCEPT !.path = path] \in AppState
        /\ OneExtraction([Now EXCEPT !.path = path])
        /\ Same([Now EXCEPT !.path = path])
    BY <1>0, <2>1 DEF AppState, OneExtraction, SameSession, SameLoading
  <2> QED
    BY <1>2, <2>2, SetStateKeeps
<1>3. CASE SelectPath \/ Back
  BY <1>2, <1>3 DEF SelectPath, Back, CaptureShown
<1>4. CASE Scroll
  <2>0. PICK i \in 1 .. Len(sectionStepMap) :
          /\ IntakeShown /\ app.path = "form"
          /\ SetState([Now EXCEPT !.step = sectionStepMap[i]])
    BY <1>4 DEF Scroll
  <2>1. PICK n \in Nat : n = sectionStepMap[i]
    BY DEF sectionStepMap
  <2>2. Now.path = "form"
    BY <1>0, <2>0 DEF IntakeShown, Shows, Now, Effects, Reset, AppState
  <2>3. /\ [Now EXCEPT !.step = n] \in AppState
        /\ OneExtraction([Now EXCEPT !.step = n])
        /\ Same([Now EXCEPT !.step = n])
    BY <1>0, <2>2 DEF AppState, OneExtraction, SameSession, SameLoading
  <2> QED
    BY <2>0, <2>1, <2>3, SetStateKeeps
<1>5. ASSUME NEW stage \in {"idle", "loading", "review", "error"},
             SetState([Now EXCEPT !.capture = stage])
      PROVE  TabInv'
  <2>1. /\ [Now EXCEPT !.capture = stage] \in AppState
        /\ OneExtraction([Now EXCEPT !.capture = stage])
        /\ Same([Now EXCEPT !.capture = stage])
    BY <1>0 DEF AppState, OneExtraction, SameSession, SameLoading
  <2> QED
    BY <1>5, <2>1, SetStateKeeps
<1>6. ASSUME SetState([Now EXCEPT !.crashed = TRUE])
      PROVE  TabInv'
  <2>1. /\ [Now EXCEPT !.crashed = TRUE] \in AppState
        /\ OneExtraction([Now EXCEPT !.crashed = TRUE])
        /\ Same([Now EXCEPT !.crashed = TRUE])
    BY <1>0 DEF AppState, OneExtraction, SameSession, SameLoading
  <2> QED
    BY <1>6, <2>1, SetStateKeeps
<1>7. ASSUME NEW stage \in {"hidden", "input", "loading", "review", "error"},
             SetState([Now EXCEPT !.describe = stage])
      PROVE  TabInv'
  <2>1. /\ [Now EXCEPT !.describe = stage] \in AppState
        /\ OneExtraction([Now EXCEPT !.describe = stage])
        /\ Same([Now EXCEPT !.describe = stage])
    BY <1>0 DEF AppState, OneExtraction, SameSession, SameLoading
  <2> QED
    BY <1>7, <2>1, SetStateKeeps
<1>8. ASSUME NEW stage \in {"none", "loading", "shown", "error"},
             SetState([Now EXCEPT !.tiers = stage])
      PROVE  TabInv'
  <2>1. /\ [Now EXCEPT !.tiers = stage] \in AppState
        /\ OneExtraction([Now EXCEPT !.tiers = stage])
        /\ Same([Now EXCEPT !.tiers = stage])
    BY <1>0 DEF AppState, OneExtraction, SameSession, SameLoading
  <2> QED
    BY <1>8, <2>1, SetStateKeeps
<1>9. ASSUME NEW w \in UserOrNone, NEW p \in UserOrNone, w = NULL \/ p = NULL,
             SetState([Now EXCEPT !.w2Data = w, !.parsedFields = p, !.path = "form"])
      PROVE  TabInv'
  <2> DEFINE a == [Now EXCEPT !.w2Data = w, !.parsedFields = p, !.path = "form"]
  <2>1. a \in AppState /\ OneExtraction(a) /\ Same(a)
    BY <1>0, <1>9 DEF AppState, OneExtraction, SameSession, SameLoading
  <2> HIDE DEF a
  <2>2. SetState(a)
    BY <1>9 DEF a
  <2> QED
    BY <2>1, <2>2, SetStateKeeps
<1>10. CASE ConfirmExtraction \/ ConfirmDescription
  <2>1. NULL \in UserOrNone
    BY DEF UserOrNone
  <2>2. CASE ConfirmExtraction
    <3>1. SetState([Now EXCEPT !.w2Data = app.user, !.parsedFields = NULL, !.path = "form"])
      BY <2>2 DEF ConfirmExtraction
    <3> QED
      BY <1>0, <1>9, <2>1, <3>1
  <2>3. CASE ConfirmDescription
    <3>1. SetState([Now EXCEPT !.parsedFields = app.user, !.w2Data = NULL, !.path = "form"])
      BY <2>3 DEF ConfirmDescription
    <3>2. [Now EXCEPT !.parsedFields = app.user, !.w2Data = NULL, !.path = "form"]
            = [Now EXCEPT !.w2Data = NULL, !.parsedFields = app.user, !.path = "form"]
      BY <1>0 DEF AppState
    <3> QED
      BY <1>0, <1>9, <2>1, <3>1, <3>2
  <2> QED
    BY <1>10, <2>2, <2>3
<1>11. CASE StartExtraction \/ ResetCapture \/ ExtractionAnswered
  BY <1>5, <1>6, <1>11 DEF StartExtraction, ResetCapture, ExtractionAnswered
<1>12. CASE OpenDescription \/ Describe \/ DescriptionAnswered
  BY <1>7, <1>12 DEF OpenDescription, Describe, DescriptionAnswered
<1>13. CASE TiersAnswered \/ Reevaluate
  BY <1>8, <1>13 DEF TiersAnswered, Reevaluate
<1> QED
  BY <1>1, <1>3, <1>4, <1>10, <1>11, <1>12, <1>13 DEF WizardSteps, Answers

-----------------------------------------------------------------------------
(* Mount, login and logout.  Whoever comes finds nobody's tab, in which no *)
(* run is live once the effects have run.                                  *)
LEMMA UserKeeps ==
  ASSUME TabInv, Me \/ Login \/ Logout
  PROVE  TabInv'
<1>0. /\ Now \in AppState /\ OneExtraction(Now) /\ SameSession(Now, app)
      /\ Now.hook = Enabled(app)
      /\ Without(runs) /\ cookie \in UserOrNone /\ returned \subseteq TaxObject
      /\ NULL \notin Filer
  BY NowIsFine, IntakeAssumption DEF Anyone
<1>1. ASSUME NEW a \in AppState, OneExtraction(a), NobodysAtFirst(a), TakeUpdate(a, runs),
             a.hook = Enabled(app), ~ Enabled(a) \/ ~ Enabled(app),
             ~ Settled(a), cookie' \in UserOrNone, a.user # NULL => cookie' \in a.since,
             UNCHANGED <<objects, returned>>
      PROVE  TabInv'
  <2>1. /\ Enabled(a) /\ Enabled(app) => app.since \subseteq a.since
        /\ Settled(a) => Owned(a)
    BY <1>1
  <2> QED
    BY <1>0, <1>1, <2>1, UpdateKeeps
<1>2. CASE Me
  <2>1. PICK user \in {app.me, NULL} :
          TakeUpdate([Now EXCEPT !.authLoading = FALSE, !.user = user, !.me = NULL,
                             !.since = IF user = NULL THEN {} ELSE {cookie}], runs)
    BY <1>2 DEF Me
  <2>2. PICK since \in SUBSET UserOrNone : since = IF user = NULL THEN {} ELSE {cookie}
    BY <1>0
  <2>3. user \in UserOrNone /\ NULL \in UserOrNone
    BY DEF UserOrNone, TabInv, TypeOK, AppState
  <2> DEFINE a == [Now EXCEPT !.authLoading = FALSE, !.user = user, !.me = NULL,
                              !.since = since]
  <2>4. /\ a \in AppState /\ OneExtraction(a) /\ a.hook = Now.hook
        /\ a.user = user /\ a.since = since /\ ~ a.authLoading
    BY <1>0, <2>3 DEF AppState, OneExtraction
  <2>5. TakeUpdate(a, runs)
    BY <2>1, <2>2
  <2> HIDE DEF a
  <2>6. ~ Enabled(app) /\ app.user = NULL
    BY <1>0, <1>2 DEF Me, TabInv, NobodysAtFirst, Enabled
  <2>7. UNCHANGED <<cookie, objects, returned>>
    BY <1>2 DEF Me
  <2>8. NobodysAtFirst(a) /\ ~ Settled(a)
    BY <1>0, <2>4, <2>6 DEF NobodysAtFirst, Settled
  <2>9. a.user # NULL => cookie' \in a.since
    BY <2>2, <2>4, <2>7
  <2> QED
    BY <1>0, <1>1, <2>4, <2>5, <2>6, <2>7, <2>8, <2>9
<1>3. CASE Login
  <2>1. PICK u \in Anyone :
          /\ LoggedOut /\ cookie' = u /\ UNCHANGED <<objects, returned>>
          /\ TakeUpdate([Now EXCEPT !.user = u, !.since = {u}], runs)
    BY <1>3 DEF Login
  <2> DEFINE a == [Now EXCEPT !.user = u, !.since = {u}]
  <2>2. u \in UserOrNone /\ {u} \in SUBSET UserOrNone
    BY DEF UserOrNone
  <2>3. /\ a \in AppState /\ OneExtraction(a) /\ a.hook = Now.hook
        /\ a.user = u /\ a.since = {u} /\ a.authLoading = Now.authLoading
    BY <1>0, <2>2 DEF AppState, OneExtraction
  <2>4. TakeUpdate(a, runs)
    BY <2>1
  <2> HIDE DEF a
  <2>5. ~ Enabled(app) /\ ~ app.authLoading
    BY <1>0, <2>1 DEF LoggedOut, Enabled
  <2>6. NobodysAtFirst(a) /\ ~ Settled(a)
    BY <1>0, <2>3, <2>5 DEF NobodysAtFirst, Settled, SameSession
  <2> QED
    BY <1>0, <1>1, <2>1, <2>2, <2>3, <2>4, <2>5, <2>6
<1>4. CASE Logout
  <2> DEFINE a == [Now EXCEPT !.user = NULL, !.since = {}]
  <2>1. NULL \in UserOrNone /\ {} \in SUBSET UserOrNone
    BY DEF UserOrNone
  <2>2. /\ a \in AppState /\ OneExtraction(a) /\ a.hook = Now.hook
        /\ a.user = NULL /\ a.authLoading = Now.authLoading
    BY <1>0, <2>1 DEF AppState, OneExtraction
  <2>3. /\ TakeUpdate(a, runs) /\ cookie' \in UserOrNone
        /\ UNCHANGED <<objects, returned>>
    BY <1>0, <1>4, <2>1 DEF Logout
  <2> HIDE DEF a
  <2>4. ~ Enabled(a) /\ ~ app.authLoading
    BY <1>0, <1>4, <2>2 DEF Logout, Enabled, TabInv, NobodysAtFirst
  <2>5. NobodysAtFirst(a) /\ ~ Settled(a)
    BY <1>0, <2>2, <2>4 DEF NobodysAtFirst, Settled, SameSession
  <2> QED
    BY <1>0, <1>1, <2>2, <2>3, <2>4, <2>5
<1> QED
  BY <1>2, <1>3, <1>4

(* A page that is loaded.                                                  *)
LEMMA PageIsFine ==
  ASSUME cookie \in UserOrNone
  PROVE  /\ Page \in AppState /\ Page.user = NULL /\ ~ Page.hook
         /\ OneExtraction(Page)
<1>1. PICK c \in UserOrNone : c = cookie
  OBVIOUS
<1> QED
  BY <1>1 DEF Page, AppState, UserOrNone, ObjectOrNone, FilerViews, OneExtraction

(* A reload leaves nobody logged in and no run of the tab live.            *)
LEMMA ReloadKeeps ==
  ASSUME TabInv, Reload
  PROVE  TabInv'
<1>1. app' = Page /\ UNCHANGED <<cookie, objects, returned>>
  BY DEF Reload
<1>2. ASSUME NEW b \in Bootstrap
      PROVE  /\ runs'[b] \in Run \cup {Over}
             /\ ~ Live(runs'[b])
             /\ runs'[b] # Over =>
                  /\ runs[b] # Over
                  /\ runs'[b].at = runs[b].at /\ runs'[b].object = runs[b].object
                  /\ runs'[b].as = runs[b].as /\ runs'[b].of = runs[b].of
                  /\ runs'[b].overtaken = runs[b].overtaken
  <2>0. runs[b] \in Run \cup {Over}
    BY DEF TabInv, TypeOK
  <2>1. CASE runs[b].at = "over" \/ runs[b].tab # "this"
    <3>1. runs'[b] = runs[b]
      BY <2>1 DEF Reload
    <3> QED
      BY <2>0, <2>1, <3>1 DEF Live, Run, Over
  <2>2. CASE /\ runs[b].at # "over" /\ runs[b].tab = "this"
             /\ runs[b].at \in {"create_object", "create_return"}
    <3>1. PICK r \in Run : r = runs[b]
      BY <2>0, <2>2 DEF Over
    <3>2. runs'[b] = [r EXCEPT !.live = "gone"]
      BY <2>2, <3>1 DEF Reload
    <3>3. runs[b] # Over
      BY <2>2 DEF Over
    <3> QED
      BY <3>1, <3>2, <3>3 DEF Run, Live
  <2>3. CASE /\ runs[b].at # "over" /\ runs[b].tab = "this"
             /\ runs[b].at \notin {"create_object", "create_return"}
    BY <2>3 DEF Reload, Live, Over
  <2> QED
    BY <2>1, <2>2, <2>3
<1>3. /\ Page \in AppState /\ Page.user = NULL /\ ~ Page.hook /\ OneExtraction(Page)
  BY PageIsFine DEF TabInv, TypeOK
<1>4. TypeOK'
  <2>1. runs' \in [Bootstrap -> Run \cup {Over}]
    BY <1>2 DEF Reload
  <2> QED
    BY <1>1, <1>3, <2>1 DEF TabInv, TypeOK
<1>5. LiveRunsActForTheTab'
  BY <1>2 DEF LiveRunsActForTheTab, Live
<1>6. /\ SessionIsKnown' /\ SettledTabsOwnTheirObject' /\ NobodysAtFirst(app)'
      /\ OneExtraction(app)'
  BY <1>1, <1>3
  DEF SessionIsKnown, SettledTabsOwnTheirObject, Settled, NobodysAtFirst,
      OneExtraction
<1>7. RunsKnowTheirObject' /\ RunsListForTheirUser'
  BY <1>2 DEF TabInv, RunsKnowTheirObject, RunsListForTheirUser, Over
<1>8. CreatorsAreRight'
  BY <1>1, <1>2 DEF TabInv, CreatorsAreRight, Undisturbed, Over
<1> QED
  BY <1>4, <1>5, <1>6, <1>7, <1>8 DEF TabInv

(* Another session under the tab is one more that the browser had.         *)
LEMMA SessionElsewhereKeeps ==
  ASSUME TabInv, SessionElsewhere
  PROVE  TabInv'
<1>1. PICK c \in UserOrNone : c = cookie'
  BY DEF SessionElsewhere, UserOrNone
<1>2. PICK since \in SUBSET UserOrNone :
        /\ since = IF app.user = NULL THEN {} ELSE app.since \cup {c}
        /\ app' = [app EXCEPT !.since = since]
  BY <1>1 DEF SessionElsewhere, TabInv, TypeOK, AppState
<1>3. /\ app' \in AppState /\ app'.since = since
      /\ app'.user = app.user /\ app'.hook = app.hook /\ app'.loading = app.loading
      /\ app'.error = app.error /\ app'.taxObjectId = app.taxObjectId
      /\ app'.authLoading = app.authLoading /\ app'.w2Data = app.w2Data
      /\ app'.parsedFields = app.parsedFields /\ app'.step = app.step
      /\ app'.path = app.path
  BY <1>2 DEF TabInv, TypeOK, AppState
<1>4. UNCHANGED <<runs, objects, returned>>
  BY DEF SessionElsewhere
<1>5. TypeOK' /\ SessionIsKnown'
  BY <1>1, <1>2, <1>3, <1>4 DEF TabInv, TypeOK, SessionIsKnown
<1>6. Enabled(app) => app.since \subseteq since
  BY <1>2, IntakeAssumption DEF Enabled, Anyone
<1>7. LiveRunsActForTheTab' /\ SettledTabsOwnTheirObject'
  BY <1>3, <1>4, <1>6
  DEF TabInv, LiveRunsActForTheTab, Live, Enabled, SettledTabsOwnTheirObject,
      Settled, Owned
<1>8. NobodysAtFirst(app)' /\ OneExtraction(app)'
  BY <1>3 DEF TabInv, NobodysAtFirst, OneExtraction
<1>9. RunsKnowTheirObject' /\ RunsListForTheirUser' /\ CreatorsAreRight'
  BY <1>4
  DEF TabInv, RunsKnowTheirObject, RunsListForTheirUser, CreatorsAreRight,
      Undisturbed
<1> QED
  BY <1>5, <1>7, <1>8, <1>9 DEF TabInv

(* A bootstrap of another tab lists for the session of the browser.        *)
LEMMA BootstrapElsewhereKeeps ==
  ASSUME TabInv, BootstrapElsewhere
  PROVE  TabInv'
<1>1. PICK b \in Bootstrap :
        /\ runs[b] = Over /\ UNCHANGED <<app, cookie, objects, returned>>
        /\ runs' = [runs EXCEPT ![b] = Listing("other")]
  BY DEF BootstrapElsewhere
<1>2. cookie \in UserOrNone
  BY DEF TabInv, TypeOK
<1>3. PICK l \in Run : /\ l = Listing("other") /\ l.at = "objects"
                       /\ l.as = l.of /\ l.tab = "other"
  BY <1>2, ListingIsRun
<1>4. \A c \in Bootstrap : runs'[c] = IF c = b THEN l ELSE runs[c]
  BY <1>1, <1>3 DEF TabInv, TypeOK
<1>5. TypeOK' /\ SessionIsKnown' /\ SettledTabsOwnTheirObject'
  BY <1>1, <1>3, <1>4
  DEF TabInv, TypeOK, SessionIsKnown, SettledTabsOwnTheirObject, Settled, Owned,
      Enabled
<1>6. LiveRunsActForTheTab'
  BY <1>1, <1>3, <1>4 DEF TabInv, LiveRunsActForTheTab, Live, Enabled
<1>7. RunsKnowTheirObject' /\ RunsListForTheirUser' /\ CreatorsAreRight'
  BY <1>1, <1>3, <1>4
  DEF TabInv, RunsKnowTheirObject, RunsListForTheirUser, CreatorsAreRight,
      Undisturbed
<1>8. NobodysAtFirst(app)' /\ OneExtraction(app)'
  BY <1>1 DEF TabInv, NobodysAtFirst, OneExtraction
<1> QED
  BY <1>5, <1>6, <1>7, <1>8 DEF TabInv

-----------------------------------------------------------------------------
(* A run that goes on keeps what it is, acts for the session of now, and   *)
(* has an object from the moment it asks for its returns.                  *)
GoesOn(r, new) ==
  /\ new \in Run
  /\ new.tab = r.tab /\ new.live = r.live
  /\ new.of = r.of /\ new.overtaken = r.overtaken
  /\ new.as = cookie
  /\ new.at # "objects"
  /\ new.at \in {"returns", "create_return"} => new.object \in TaxObject

(* ... and if it is about to create an object it has found none.           *)
FoundNone(new) ==
  new.at = "create_object" /\ new.as = new.of /\ new.of \in Anyone
    => new.overtaken \/ objects[new.of] = <<>>

(* A live run that goes on acts for a session that the tab knows.          *)
LEMMA LiveRunGoesOn ==
  ASSUME TabInv, NEW b \in Bootstrap, runs[b] # Over,
         NEW new, GoesOn(runs[b], new), Live(new)
  PROVE  app.hook /\ (Enabled(app) => new.as \in app.since)
<1>1. Live(runs[b])
  BY DEF Live, GoesOn, Over, TabInv, TypeOK, Run
<1>2. app.hook
  BY <1>1 DEF TabInv, LiveRunsActForTheTab
<1>3. Enabled(app) => cookie \in app.since
  BY IntakeAssumption DEF TabInv, SessionIsKnown, Enabled, Anyone
<1> QED
  BY <1>2, <1>3 DEF GoesOn

(* A step of one run that creates no object and updates no tab.            *)
LEMMA RunSteps ==
  ASSUME TabInv, NEW b \in Bootstrap, NEW new,
         runs[b] # Over, runs' = [runs EXCEPT ![b] = new],
         new = Over \/ (GoesOn(runs[b], new) /\ FoundNone(new)),
         UNCHANGED <<app, cookie, objects>>, returned' \subseteq TaxObject
  PROVE  TabInv'
<1>1. \A c \in Bootstrap : runs'[c] = IF c = b THEN new ELSE runs[c]
  BY DEF TabInv, TypeOK
<1>2. TypeOK' /\ SessionIsKnown'
  BY DEF TabInv, TypeOK, SessionIsKnown, GoesOn
<1>3. LiveRunsActForTheTab'
  <2> SUFFICES ASSUME NEW c \in Bootstrap, Live(runs'[c])
               PROVE  app.hook /\ (Enabled(app) => runs'[c].as \in app.since)
    BY DEF LiveRunsActForTheTab, Live, Enabled
  <2>1. CASE c = b
    BY <1>1, <2>1, LiveRunGoesOn DEF Live, Over
  <2>2. CASE c # b
    BY <1>1, <2>2 DEF TabInv, LiveRunsActForTheTab
  <2> QED
    BY <2>1, <2>2
<1>4. RunsKnowTheirObject' /\ RunsListForTheirUser'
  BY <1>1 DEF TabInv, RunsKnowTheirObject, RunsListForTheirUser, Over, GoesOn
<1>5. CreatorsAreRight'
  BY <1>1 DEF TabInv, CreatorsAreRight, Undisturbed, Over, GoesOn, FoundNone
<1>6. SettledTabsOwnTheirObject' /\ NobodysAtFirst(app)' /\ OneExtraction(app)'
  BY DEF TabInv, SettledTabsOwnTheirObject, Settled, Owned, Enabled,
         NobodysAtFirst, OneExtraction
<1> QED
  BY <1>2, <1>3, <1>4, <1>5, <1>6 DEF TabInv

(* What Go makes of a run.                                                 *)
LEMMA GoIsAStep ==
  ASSUME TabInv, NEW b \in Bootstrap, runs[b] # Over,
         NEW to \in {"over", "create_object", "returns", "create_return"},
         NEW object \in ObjectOrNone, Go(b, to, object),
         to \in {"returns", "create_return"} => object \in TaxObject
  PROVE  \E new : /\ runs' = [runs EXCEPT ![b] = new]
                  /\ new = Over \/ (/\ GoesOn(runs[b], new) /\ new.at = to
                                    /\ to # "over")
<1>1. PICK r \in Run : r = runs[b]
  BY DEF TabInv, TypeOK
<1>2. PICK c \in UserOrNone : c = cookie
  BY DEF TabInv, TypeOK
<1>3. CASE to = "over" \/ r.live = "gone"
  BY <1>1, <1>3 DEF Go
<1>4. CASE ~(to = "over" \/ r.live = "gone")
  <2> DEFINE new == [r EXCEPT !.at = to, !.object = object, !.as = c]
  <2>1. runs' = [runs EXCEPT ![b] = new]
    BY <1>1, <1>2, <1>4 DEF Go, TabInv, TypeOK
  <2>2. GoesOn(r, new) /\ new.at = to
    BY <1>2, <1>4 DEF GoesOn, Run
  <2> HIDE DEF new
  <2> QED
    BY <1>1, <1>4, <2>1, <2>2
<1> QED
  BY <1>3, <1>4

(* GET /api/tax-objects                                                    *)
LEMMA ListObjectsKeeps ==
  ASSUME TabInv, NEW b \in Bootstrap, ListObjects(b)
  PROVE  TabInv'
<1>1. PICK r \in Run : r = runs[b] /\ r.at = "objects" /\ r.as \in Anyone
  BY DEF ListObjects, TabInv, TypeOK, Over, Run, UserOrNone
<1>2. PICK mine \in Seq(TaxObject) : mine = objects[r.as]
  BY <1>1 DEF TabInv, TypeOK
<1>3. UNCHANGED <<app, cookie, objects, returned>>
  BY DEF ListObjects
<1>4. returned' \subseteq TaxObject
  BY <1>3 DEF TabInv, TypeOK
<1>5. runs[b] # Over
  BY <1>1 DEF Over, Run
<1>6. CASE mine # <<>>
  <2>1. Head(mine) \in TaxObject
    BY <1>6, HeadTailProperties
  <2>2. PICK to \in {"over", "returns"} : Go(b, to, Head(mine))
    BY <1>1, <1>2, <1>6 DEF ListObjects, GoUnlessCancelled
  <2>3. PICK o \in TaxObject : o = Head(mine)
    BY <2>1
  <2>4. PICK new : /\ runs' = [runs EXCEPT ![b] = new]
                   /\ new = Over \/ (/\ GoesOn(runs[b], new) /\ new.at = to
                                     /\ to # "over")
    BY <1>5, <2>2, <2>3, GoIsAStep DEF ObjectOrNone
  <2>5. new = Over \/ (GoesOn(runs[b], new) /\ FoundNone(new))
    BY <2>4 DEF FoundNone
  <2> QED
    BY <1>3, <1>4, <1>5, <2>4, <2>5, RunSteps
<1>7. CASE mine = <<>>
  <2>1. Go(b, "create_object", NULL)
    BY <1>1, <1>2, <1>7 DEF ListObjects
  <2>2. PICK new : /\ runs' = [runs EXCEPT ![b] = new]
                   /\ new = Over \/ (/\ GoesOn(runs[b], new)
                                     /\ new.at = "create_object")
    BY <1>5, <2>1, GoIsAStep DEF ObjectOrNone
  <2>3. r.as = r.of
    BY <1>1 DEF TabInv, RunsListForTheirUser
  <2>4. new = Over \/ (GoesOn(runs[b], new) /\ FoundNone(new))
    BY <1>1, <1>2, <1>7, <2>2, <2>3 DEF GoesOn, FoundNone
  <2> QED
    BY <1>3, <1>4, <1>5, <2>2, <2>4, RunSteps
<1> QED
  BY <1>6, <1>7

(* POST /api/tax-objects                                                   *)
LEMMA CreateObjectKeeps ==
  ASSUME TabInv, NEW b \in Bootstrap, CreateObject(b)
  PROVE  TabInv'
<1>1. PICK r \in Run : r = runs[b] /\ r.at = "create_object" /\ r.as # NULL
  BY DEF CreateObject, TabInv, TypeOK, Over
<1>2. PICK u \in Anyone : u = r.as
  BY <1>1 DEF Run, UserOrNone
<1>3. PICK n \in Nat : n = Len(objects[u])
  BY <1>2 DEF TabInv, TypeOK
<1> DEFINE id == <<u, n + 1>>
<1>4. /\ objects' = [objects EXCEPT ![u] = <<id>> \o @]
      /\ UNCHANGED <<app, cookie, returned>>
  BY <1>1, <1>2, <1>3 DEF CreateObject
<1>5. id \in TaxObject
  BY DEF TaxObject
<1>6. PICK c \in UserOrNone : c = cookie
  BY DEF TabInv, TypeOK
<1> DEFINE next == IF r.live = "gone" \/ r.live = "cancelled" THEN Over
                   ELSE [r EXCEPT !.at = "returns", !.object = id, !.as = c]
<1>7. runs' = [d \in Bootstrap |->
                 IF d = b THEN next
                 ELSE IF runs[d].at = "create_object" /\ runs[d].as = u
                      THEN [runs[d] EXCEPT !.overtaken = TRUE] ELSE runs[d]]
  BY <1>1, <1>2, <1>3, <1>6 DEF CreateObject
<1> HIDE DEF id, next
<1>8. next = Over \/ GoesOn(r, next)
  <2>1. CASE r.live = "gone" \/ r.live = "cancelled"
    BY <2>1 DEF next
  <2>2. CASE ~(r.live = "gone" \/ r.live = "cancelled")
    BY <1>5, <1>6, <2>2 DEF next, GoesOn, Run, ObjectOrNone
  <2> QED
    BY <2>1, <2>2
<1>9. next # Over => next.at = "returns"
  BY DEF next, Run
<1>10. ASSUME NEW d \in Bootstrap, d # b
       PROVE  /\ runs'[d] \in Run \cup {Over}
              /\ runs'[d].at = runs[d].at
              /\ runs'[d] = runs[d]
                   \/ /\ runs'[d].tab = runs[d].tab
                      /\ runs'[d].live = runs[d].live
                      /\ runs'[d].as = runs[d].as /\ runs'[d].of = runs[d].of
                      /\ runs'[d].object = runs[d].object
                      /\ runs'[d].overtaken
              /\ runs[d].at = "create_object" /\ runs[d].as = u
                   => runs'[d].overtaken
  <2>0. runs[d] \in Run \cup {Over}
    BY DEF TabInv, TypeOK
  <2>1. CASE runs[d].at = "create_object" /\ runs[d].as = u
    <3>1. PICK q \in Run : q = runs[d]
      BY <2>0, <2>1 DEF Over
    <3>2. runs'[d] = [q EXCEPT !.overtaken = TRUE]
      BY <1>7, <1>10, <2>1, <3>1
    <3> QED
      BY <3>1, <3>2 DEF Run
  <2>2. CASE ~(runs[d].at = "create_object" /\ runs[d].as = u)
    BY <1>7, <1>10, <2>0, <2>2
  <2> QED
    BY <2>1, <2>2
<1>11. runs'[b] = next
  BY <1>7
<1>12. objects' \in [Anyone -> Seq(TaxObject)]
  <2>1. <<id>> \o objects[u] \in Seq(TaxObject)
    BY <1>5 DEF TabInv, TypeOK
  <2> QED
    BY <1>4, <2>1 DEF TabInv, TypeOK
<1>13. runs' \in [Bootstrap -> Run \cup {Over}]
  <2>1. \A d \in Bootstrap : runs'[d] \in Run \cup {Over}
    BY <1>8, <1>10, <1>11 DEF GoesOn
  <2> QED
    BY <1>7, <2>1
<1>14. TypeOK' /\ SessionIsKnown'
  BY <1>4, <1>12, <1>13 DEF TabInv, TypeOK, SessionIsKnown
<1>15. LiveRunsActForTheTab'
  <2> SUFFICES ASSUME NEW d \in Bootstrap, Live(runs'[d])
               PROVE  app.hook /\ (Enabled(app) => runs'[d].as \in app.since)
    BY <1>4 DEF LiveRunsActForTheTab, Live, Enabled
  <2>1. CASE d = b
    <3>1. next # Over
      BY <1>11, <2>1 DEF Live, Over
    <3>2. GoesOn(runs[b], next) /\ Live(next) /\ runs[b] # Over
      BY <1>1, <1>8, <1>11, <2>1, <3>1 DEF Over
    <3> QED
      BY <1>11, <2>1, <3>2, LiveRunGoesOn
  <2>2. CASE d # b
    BY <1>10, <2>2 DEF TabInv, LiveRunsActForTheTab, Live
  <2> QED
    BY <2>1, <2>2
<1>16. SettledTabsOwnTheirObject' /\ NobodysAtFirst(app)' /\ OneExtraction(app)'
  BY <1>4 DEF TabInv, SettledTabsOwnTheirObject, Settled, Owned, Enabled,
              NobodysAtFirst, OneExtraction
<1>17. RunsKnowTheirObject'
  <2> SUFFICES ASSUME NEW d \in Bootstrap,
                      runs'[d].at \in {"returns", "create_return"}
               PROVE  runs'[d].object \in TaxObject
    BY DEF RunsKnowTheirObject
  <2>1. CASE d = b
    BY <1>8, <1>11, <2>1 DEF GoesOn, Over
  <2>2. CASE d # b
    BY <1>10, <2>2 DEF TabInv, RunsKnowTheirObject
  <2> QED
    BY <2>1, <2>2
<1>18. RunsListForTheirUser'
  <2> SUFFICES ASSUME NEW d \in Bootstrap, runs'[d].at = "objects"
               PROVE  runs'[d].as = runs'[d].of
    BY DEF RunsListForTheirUser
  <2>1. CASE d = b
    BY <1>8, <1>11, <2>1 DEF GoesOn, Over
  <2>2. CASE d # b
    BY <1>10, <2>2 DEF TabInv, RunsListForTheirUser
  <2> QED
    BY <2>1, <2>2
<1>19. CreatorsAreRight'
  <2> SUFFICES ASSUME NEW d \in Bootstrap, NEW v \in Anyone,
                      runs'[d].at = "create_object", runs'[d].as = v,
                      runs'[d].of = v, ~ runs'[d].overtaken
               PROVE  objects'[v] = <<>>
    BY DEF CreatorsAreRight, Undisturbed
  <2>1. d # b
    BY <1>9, <1>11 DEF Over
  <2>2. runs'[d] = runs[d] /\ v # u
    BY <1>10, <2>1
  <2>3. objects[v] = <<>>
    BY <2>2 DEF TabInv, CreatorsAreRight, Undisturbed
  <2> QED
    BY <1>4, <2>2, <2>3 DEF TabInv, TypeOK
<1> QED
  BY <1>14, <1>15, <1>16, <1>17, <1>18, <1>19 DEF TabInv

(* The end of a run: a live one updates the tab, which is settled by it    *)
(* with an object of one of its sessions only.                             *)
LEMMA EndKeeps ==
  ASSUME TabInv, NEW b \in Bootstrap, runs[b] # Over,
         NEW a \in AppState, OneExtraction(a), a.user = Now.user,
         a.since = Now.since, a.authLoading = Now.authLoading,
         a.hook = Now.hook, Settled(a) /\ Live(runs[b]) => Owned(a),
         Ends(b, a), UNCHANGED <<cookie, objects>>, returned' \subseteq TaxObject
  PROVE  TabInv'
<1> DEFINE others == [runs EXCEPT ![b] = Over]
<1>1. CASE SetsState(b)
  <2>1. TakeUpdate(a, others)
    BY <1>1 DEF Ends
  <2>2. Without(others)
    BY DEF Without, TabInv, TypeOK
  <2>3. Live(runs[b])
    BY <1>1 DEF SetsState, Live, TabInv, TypeOK, Run
  <2> HIDE DEF others
  <2>4. /\ NobodysAtFirst(Now) /\ SameSession(Now, app) /\ Now.hook = Enabled(app)
        /\ cookie \in UserOrNone
        /\ app.user # NULL => cookie \in app.since
    BY NowIsFine
  <2>5. /\ NobodysAtFirst(a) /\ a.hook = Enabled(app)
        /\ Enabled(a) /\ Enabled(app) => app.since \subseteq a.since
        /\ a.user # NULL => cookie \in a.since
        /\ Settled(a) => Owned(a)
    BY <2>3, <2>4 DEF NobodysAtFirst, SameSession
  <2> QED
    BY <2>1, <2>2, <2>4, <2>5, UpdateKeeps
<1>2. CASE ~ SetsState(b)
  BY <1>2, RunSteps DEF Ends
<1> QED
  BY <1>1, <1>2

(* A live run gives the tab the object of one of its sessions.             *)
LEMMA ResolveKeeps ==
  ASSUME TabInv, NEW b \in Bootstrap, runs[b] # Over, Resolve(b),
         runs[b].object \in TaxObject, runs[b].as = runs[b].object[1],
         UNCHANGED <<cookie, objects>>, returned' \subseteq TaxObject
  PROVE  TabInv'
<1>0. Now \in AppState /\ OneExtraction(Now) /\ SameSession(Now, app) /\ Now.hook = Enabled(app)
  BY NowIsFine
<1>1. PICK o \in TaxObject : o = runs[b].object
  OBVIOUS
<1> DEFINE a == [Now EXCEPT !.taxObjectId = o, !.loading = FALSE]
<1>2. Ends(b, a)
  BY <1>1 DEF Resolve
<1>3. /\ a \in AppState /\ OneExtraction(a) /\ a.taxObjectId = o
      /\ a.user = Now.user /\ a.since = Now.since /\ a.hook = Now.hook
      /\ a.authLoading = Now.authLoading
  BY <1>0 DEF AppState, ObjectOrNone, OneExtraction
<1> HIDE DEF a
<1>4. Settled(a) /\ Live(runs[b]) => Owned(a)
  BY <1>0, <1>1, <1>3
  DEF TabInv, LiveRunsActForTheTab, Settled, Owned, Enabled, SameSession
<1> QED
  BY <1>2, <1>3, <1>4, EndKeeps

(* GET and POST /api/tax-objects/:id/returns                               *)
LEMMA ReturnsKeep ==
  ASSUME TabInv, NEW b \in Bootstrap, ListReturns(b) \/ CreateReturn(b)
  PROVE  TabInv'
<1>1. /\ runs[b].at \in {"returns", "create_return"}
      /\ runs[b].as = runs[b].object[1] /\ UNCHANGED <<cookie, objects>>
  BY DEF ListReturns, CreateReturn
<1>2. runs[b] # Over /\ runs[b].object \in TaxObject
  BY <1>1 DEF Over, TabInv, RunsKnowTheirObject
<1>3. returned' \subseteq TaxObject
  BY <1>2 DEF ListReturns, CreateReturn, TabInv, TypeOK
<1>4. CASE Resolve(b)
  BY <1>1, <1>2, <1>3, <1>4, ResolveKeeps
<1>5. CASE Go(b, "create_return", runs[b].object) /\ UNCHANGED app
  <2>1. PICK o \in TaxObject : o = runs[b].object
    BY <1>2
  <2>2. PICK new : /\ runs' = [runs EXCEPT ![b] = new]
                   /\ new = Over \/ (/\ GoesOn(runs[b], new)
                                     /\ new.at = "create_return")
    BY <1>2, <1>5, <2>1, GoIsAStep DEF ObjectOrNone
  <2>3. new = Over \/ (GoesOn(runs[b], new) /\ FoundNone(new))
    BY <2>2 DEF FoundNone
  <2> QED
    BY <1>1, <1>2, <1>3, <1>5, <2>2, <2>3, RunSteps
<1> QED
  BY <1>4, <1>5 DEF ListReturns, CreateReturn

(* A run that fails leaves an error, under which nothing is shown.         *)
LEMMA FailureKeeps ==
  ASSUME TabInv, NEW b \in Bootstrap, BootstrapFails(b)
  PROVE  TabInv'
<1>0. Now \in AppState /\ OneExtraction(Now)
  BY NowIsFine
<1> DEFINE a == [Now EXCEPT !.error = TRUE, !.loading = FALSE]
<1>1. /\ Ends(b, a) /\ runs[b] # Over /\ UNCHANGED <<cookie, objects, returned>>
  BY DEF BootstrapFails, Over
<1>2. /\ a \in AppState /\ OneExtraction(a) /\ a.error
      /\ a.user = Now.user /\ a.since = Now.since /\ a.hook = Now.hook
      /\ a.authLoading = Now.authLoading
  BY <1>0 DEF AppState, OneExtraction
<1> HIDE DEF a
<1>3. ~ Settled(a) /\ returned' \subseteq TaxObject
  BY <1>1, <1>2 DEF Settled, TabInv, TypeOK
<1> QED
  BY <1>1, <1>2, <1>3, EndKeeps

-----------------------------------------------------------------------------
(* The invariant holds of a fresh tab.                                     *)
LEMMA TabStart == IntakeInit => TabInv
<1> SUFFICES ASSUME IntakeInit
             PROVE  TabInv
  OBVIOUS
<1>1. /\ app = Page /\ cookie \in UserOrNone
      /\ \A b \in Bootstrap : runs[b] = Over
      /\ objects = [u \in Anyone |-> <<>>]
  BY DEF IntakeInit, UserOrNone
<1>2. /\ Page \in AppState /\ Page.user = NULL /\ ~ Page.hook /\ OneExtraction(Page)
  BY <1>1, PageIsFine
<1>3. TypeOK
  BY <1>1, <1>2 DEF IntakeInit, TypeOK
<1> QED
  BY <1>1, <1>2, <1>3
  DEF TabInv, SessionIsKnown, LiveRunsActForTheTab, Live, Over,
      RunsKnowTheirObject, SettledTabsOwnTheirObject, Settled, NobodysAtFirst,
      RunsListForTheirUser, CreatorsAreRight, Undisturbed

(* Every step of the client keeps the invariant.                           *)
LEMMA TabStep == TabInv /\ [IntakeNext]_intakeVars => TabInv'
<1> SUFFICES ASSUME TabInv, [IntakeNext]_intakeVars
             PROVE  TabInv'
  OBVIOUS
<1>1. CASE SessionSteps
  <2>1. CASE Flush
    BY <2>1, FlushKeeps
  <2>2. CASE Me \/ Login \/ Logout
    BY <2>2, UserKeeps
  <2>3. ASSUME NEW b \in Bootstrap, BootstrapStep(b)
        PROVE  TabInv'
    BY <2>3, ListObjectsKeeps, CreateObjectKeeps, ReturnsKeep, FailureKeeps
    DEF BootstrapStep
  <2> QED
    BY <1>1, <2>1, <2>2, <2>3 DEF SessionSteps
<1>2. CASE TabSteps
  BY <1>2, ReloadKeeps, SessionElsewhereKeeps, BootstrapElsewhereKeeps DEF TabSteps
<1>3. CASE WizardSteps
  BY <1>3, WizardKeeps
<1>4. CASE UNCHANGED intakeVars
  BY <1>4
  DEF intakeVars, TabInv, TypeOK, SessionIsKnown, LiveRunsActForTheTab, Live,
      RunsKnowTheirObject, SettledTabsOwnTheirObject, Settled, Owned, Enabled,
      NobodysAtFirst, OneExtraction, RunsListForTheirUser, CreatorsAreRight,
      Undisturbed
<1> QED
  BY <1>1, <1>2, <1>3, <1>4 DEF IntakeNext

(* Once no effect is due, the hook has run for whoever is enabled.         *)
LEMMA HookHasRun ==
  ASSUME TabInv, ~ Due
  PROVE  app.hook = Enabled(app)
BY NowIsFine DEF Due

(* Whoever logs in and out, in this tab and in others, in whatever order   *)
(* the requests of earlier users are answered, a tab that shows its        *)
(* filer's views after its effects works on a tax object of a session that *)
(* the browser had since that filer came, and on one extraction at most.   *)
THEOREM TabsStayWithTheirUser == IntakeSpec => []TabFollowsItsUser
<1>1. TabInv => TabFollowsItsUser
  <2> SUFFICES ASSUME TabInv
               PROVE  TabFollowsItsUser
    OBVIOUS
  <2>1. ASSUME ~ Due, NEW view \in FilerViews, Shows(app, view)
        PROVE  app.taxObjectId # NULL /\ app.taxObjectId[1] \in app.since
    <3>1. Settled(app)
      BY <2>1, HookHasRun DEF Settled, Shows, Enabled
    <3> QED
      BY <3>1, IntakeAssumption DEF TabInv, SettledTabsOwnTheirObject, Owned, TaxObject
  <2>2. NULL \in {app.w2Data, app.parsedFields} /\ (app.step # 1 => app.path = "form")
    BY DEF TabInv, OneExtraction
  <2> QED
    BY <2>1, <2>2 DEF TabFollowsItsUser
<1> QED
  BY <1>1, TabStart, TabStep, PTL DEF IntakeSpec

(* A user's objects grow by a run that listed none: so a second one needs  *)
(* a run that was overtaken, or that listed for another user.              *)
THEOREM SecondObjectsNeedARace == IntakeSpec => DuplicatesNeedARace
<1> DEFINE Needs ==
      \A u \in Anyone :
        objects[u] # <<>> /\ objects'[u] # objects[u] =>
          \E b \in Bootstrap :
            /\ runs[b].at = "create_object" /\ runs[b].as = u
            /\ runs[b].overtaken \/ runs[b].of # u
<1>1. ASSUME TabInv, [IntakeNext]_intakeVars
      PROVE  Needs
  <2> SUFFICES ASSUME NEW u \in Anyone, objects[u] # <<>>, objects'[u] # objects[u]
               PROVE  \E b \in Bootstrap :
                        /\ runs[b].at = "create_object" /\ runs[b].as = u
                        /\ runs[b].overtaken \/ runs[b].of # u
    OBVIOUS
  <2>1. PICK b \in Bootstrap : CreateObject(b)
    BY <1>1
    DEF IntakeNext, SessionSteps, TabSteps, WizardSteps, Answers, Flush, Me, Login,
        Logout, BootstrapStep, ListObjects, ListReturns, CreateReturn,
        BootstrapFails, Reload, SessionElsewhere, BootstrapElsewhere, SetState,
        Navigate, SelectPath, Back, Scroll, StartExtraction, ExtractionAnswered,
        ResetCapture, ConfirmExtraction, OpenDescription, Describe,
        DescriptionAnswered, ConfirmDescription, TiersAnswered, Reevaluate,
        intakeVars
  <2>2. runs[b].at = "create_object" /\ runs[b].as = u
    BY <2>1 DEF CreateObject, TabInv, TypeOK
  <2>3. runs[b].overtaken \/ runs[b].of # u
    BY <1>1, <2>2 DEF TabInv, CreatorsAreRight, Undisturbed
  <2> QED
    BY <2>2, <2>3
<1> QED
  BY <1>1, TabStart, TabStep, PTL DEF IntakeSpec, DuplicatesNeedARace
=============================================================================
