-------------------------------- MODULE Panels --------------------------------
(***************************************************************************)
(* The tabs that show server data: the sections of AdminPanel.tsx and the  *)
(* ProfileTab of SettingsView.tsx, with the reads and writes of            *)
(* api/admin.ts, api/audit.ts and api/passkey.ts that answer them.         *)
(*                                                                         *)
(* Requests are answered in any order and none is ever aborted.  A row of  *)
(* the server is a pair <<id, attribute>>: a user has those attributes     *)
(* that are set, a passkey has one.                                        *)
(***************************************************************************)
EXTENDS Naturals, Sequences, SequencesExt, Filtering

CONSTANTS
  Pages,       \* per tab and search term: the ids, page by page
  Attribute,   \* of a user, e.g. role and active
  StoredRows,  \* per tab: the rows of the server at the beginning
  MaxFlights,  \* bound: requests on their way
  MaxMoves,    \* bound: sections that are opened and changes that are sent
  Nothing      \* no section, no search pending, no passkey being removed

VARIABLES
  section,   \* what is on the screen
  tab,       \* per tab: the state of its component
  flights,   \* requests, in the order they were sent
  stored,    \* per tab: the rows of the server
  minted,    \* ids of the passkeys that were ever registered
  moves      \* sections opened and changes sent so far

panelVars == <<section, tab, flights, stored, minted, moves>>

Tab     == DOMAIN Pages
Section == (Tab \ {"verify", "events"}) \cup {"audit"}

TabsOf(s) == IF s = "audit" THEN {"verify", "events"} ELSE {s} \cap Tab

ASSUME PanelsAssumption ==
  /\ {"users", "verify", "events", "task-queue", "passkeys"} \subseteq Tab
  /\ Tab \subseteq DOMAIN StoredRows
  /\ Nothing \notin Tab \cup {"audit"}

(* rows is the last answer; crossed records, for the property, that it was *)
(* overtaken, is for another page or search, or misses a change whose      *)
(* answer this component did not get.                                      *)
FreshTab ==
  [page |-> 1, query |-> "", typed |-> Nothing, loading |-> TRUE, error |-> FALSE,
   rows |-> [of |-> <<0, "">>, has |-> {}], crossed |-> FALSE, deleting |-> Nothing]

Displayed(t) == <<tab[t].page, tab[t].query>>

(* A GET of the tab's endpoint with page and q.                            *)
IdsOn(t, of) == IF of[1] \in DOMAIN Pages[t][of[2]] THEN Pages[t][of[2]][of[1]] ELSE {}
Served(t, of) == [of |-> of, has |-> {r \in stored[t] : r[1] \in IdsOn(t, of)}]

TotalPages(t) == Len(Pages[t][tab[t].rows.of[2]])

NewFlight(t, kind) ==
  [tab |-> t, kind |-> kind, of |-> <<0, "">>, id |-> Nothing, attribute |-> Nothing,
   read |-> {}, at |-> "sent", answer |-> {}, overtaken |-> FALSE, gone |-> FALSE]

List(t, of) == [NewFlight(t, "list") EXCEPT !.of = of]

(* The effects of a mount.                                                 *)
FirstLists(s) ==
  IF s = "audit" THEN <<List("verify", <<1, "">>), List("events", <<1, "">>)>>
  ELSE <<List(s, <<1, "">>)>>

PanelsInit ==
  /\ section = Nothing
  /\ tab = [t \in Tab |-> FreshTab]
  /\ flights = <<>>
  /\ stored = StoredRows
  /\ minted = {r[1] : r \in StoredRows["passkeys"]}
  /\ moves = 0

IsOpen(t) == t \in TabsOf(section)
Room(fs)  == Len(fs) < MaxFlights

-----------------------------------------------------------------------------
(* Mounting, unmounting, and what the user does on a tab.                  *)
Open(s) ==
  /\ section = Nothing /\ moves < MaxMoves
  /\ Len(flights) + Len(FirstLists(s)) <= MaxFlights
  /\ section' = s /\ moves' = moves + 1
  /\ tab' = [t \in Tab |-> FreshTab]
  /\ flights' = flights \o FirstLists(s)
  /\ UNCHANGED <<stored, minted>>

(* What was sent stays sent, but its answer finds no component.            *)
Leave ==
  /\ section # Nothing
  /\ section' = Nothing
  /\ tab' = [t \in Tab |-> FreshTab]
  /\ LET abandoned == [i \in DOMAIN flights |-> [flights[i] EXCEPT !.gone = TRUE]]
         matters   == {i \in DOMAIN flights :
                         flights[i].kind # "list" /\ flights[i].at \in {"sent", "read"}}
     IN  flights' = Kept(abandoned, matters)
  /\ UNCHANGED <<stored, minted, moves>>

(* setLoading(true), setError(null) and the request; the task queue's      *)
(* fetchTasks touches neither, fetchCredentials has no error to show.      *)
Fetching(t, v) == IF t = "task-queue" THEN v ELSE [v EXCEPT !.loading = TRUE, !.error = FALSE]

Refetch(t, v, fs) ==
  /\ Room(fs)
  /\ tab' = [tab EXCEPT ![t] = Fetching(t, v)]
  /\ flights' = Append(fs, List(t, <<v.page, v.query>>))

(* While it loads or shows an error a tab has no controls.                 *)
Usable(t) == IsOpen(t) /\ ~ tab[t].loading /\ ~ tab[t].error

TypeSearch(q) ==
  /\ Usable("users")
  /\ tab' = [tab EXCEPT !["users"].typed = q]
  /\ UNCHANGED <<section, flights, stored, minted, moves>>

(* The debounce timer fires, also while the tab is loading.                *)
SearchTimer ==
  /\ IsOpen("users") /\ tab["users"].typed # Nothing
  /\ LET v == [tab["users"] EXCEPT !.query = tab["users"].typed, !.page = 1, !.typed = Nothing]
     IN  IF <<v.page, v.query>> = Displayed("users")
           THEN tab' = [tab EXCEPT !["users"] = v] /\ UNCHANGED flights
           ELSE Refetch("users", v, flights)
  /\ UNCHANGED <<section, stored, minted, moves>>

TurnPage(t, p) ==
  /\ t \in {"users", "events"} /\ Usable(t)
  /\ \/ p = tab[t].page - 1 /\ p >= 1
     \/ p = tab[t].page + 1 /\ p <= TotalPages(t)
  /\ Refetch(t, [tab[t] EXCEPT !.page = p], flights)
  /\ UNCHANGED <<section, stored, minted, moves>>

(* Refresh now of the task queue; Re-verify, which is always there.        *)
Refresh(t) ==
  /\ \/ t = "task-queue" /\ Usable(t)
     \/ t = "verify" /\ IsOpen(t)
  /\ Refetch(t, tab[t], flights)
  /\ UNCHANGED <<section, stored, minted, moves>>

SendChange(f) ==
  /\ Room(flights) /\ moves < MaxMoves
  /\ flights' = Append(flights, f) /\ moves' = moves + 1
  /\ UNCHANGED <<section, stored, minted>>

(* handleRoleChange, handleToggleActive: set the attribute to the opposite *)
(* of what the row shows; the page and search are those of the click.      *)
PatchUser(u, a) ==
  /\ Usable("users") /\ u \in IdsOn("users", tab["users"].rows.of)
  /\ SendChange([NewFlight("users", IF <<u, a>> \in tab["users"].rows.has THEN "unset" ELSE "set")
                   EXCEPT !.of = Displayed("users"), !.id = u, !.attribute = a])
  /\ UNCHANGED tab

(* handleDelete: only the passkey removed last is marked.                  *)
RemoveKey(k) ==
  /\ IsOpen("passkeys") /\ ~ tab["passkeys"].loading
  /\ \E r \in tab["passkeys"].rows.has : r[1] = k
  /\ tab["passkeys"].deleting # k
  /\ SendChange([NewFlight("passkeys", "remove") EXCEPT !.id = k])
  /\ tab' = [tab EXCEPT !["passkeys"].deleting = k]

(* RegisterPasskeyButton, disabled until its own request is over.          *)
RegisterKey ==
  /\ IsOpen("passkeys")
  /\ \A i \in DOMAIN flights : flights[i].kind = "register" => flights[i].gone
  /\ SendChange(NewFlight("passkeys", "register"))
  /\ UNCHANGED tab

-----------------------------------------------------------------------------
(* The server.                                                             *)
Outdate(fs, t, outdated) ==
  [i \in DOMAIN fs |->
     IF fs[i].tab = t /\ fs[i].kind = "list" /\ i \in outdated
       THEN [fs[i] EXCEPT !.overtaken = TRUE] ELSE fs[i]]

Answered(fs) == {i \in DOMAIN fs : fs[i].at = "answered"}

(* A change that no component waits for shows only in what is read later.  *)
Unnoticed(t, fs) ==
  /\ flights' = Outdate(fs, t, Answered(fs))
  /\ tab' = [tab EXCEPT ![t].crossed = @ \/ IsOpen(t)]

AnswerList(i) ==
  LET f == flights[i]
  IN  /\ f.kind = "list" /\ f.at = "sent"
      /\ flights' = [flights EXCEPT ![i].at = "answered",
                                    ![i].answer = Served(f.tab, f.of).has]
      /\ UNCHANGED <<section, tab, stored, minted, moves>>

Changed(i, rows) ==
  /\ stored' = [stored EXCEPT ![flights[i].tab] = rows]
  /\ IF flights[i].gone
       THEN Unnoticed(flights[i].tab, RemoveAt(flights, i))
       ELSE flights' = [flights EXCEPT ![i].at = "answered"] /\ UNCHANGED tab
  /\ UNCHANGED <<section, moves>>

(* PATCH /api/admin/users/:id: SELECT properties, then write them all.     *)
ReadUser(i) ==
  LET f == flights[i]
  IN  /\ f.kind \in {"set", "unset"} /\ f.at = "sent"
      /\ flights' = [flights EXCEPT ![i].at = "read",
                                    ![i].read = {r \in stored["users"] : r[1] = f.id}]
      /\ UNCHANGED <<section, tab, stored, minted, moves>>

WriteUser(i) ==
  LET f == flights[i]
      others == {r \in stored["users"] : r[1] # f.id}
  IN  /\ f.kind \in {"set", "unset"} /\ f.at = "read"
      /\ Changed(i, others \cup IF f.kind = "set" THEN f.read \cup {<<f.id, f.attribute>>}
                                                  ELSE f.read \ {<<f.id, f.attribute>>})
      /\ UNCHANGED minted

(* DELETE /api/auth/passkey/credentials/:id of a row that is there; of one *)
(* that is not it answers 404, which is a Fail.                            *)
DeleteKey(i) ==
  /\ flights[i].kind = "remove" /\ flights[i].at = "sent"
  /\ \E r \in stored["passkeys"] : r[1] = flights[i].id
  /\ Changed(i, {r \in stored["passkeys"] : r[1] # flights[i].id})
  /\ UNCHANGED minted

(* The passkey ceremony as a whole (Accounts has its steps).               *)
InsertKey(i) ==
  /\ flights[i].kind = "register" /\ flights[i].at = "sent"
  /\ \E k \in IdsOn("passkeys", <<1, "">>) \ minted :
       /\ minted' = minted \cup {k}
       /\ Changed(i, stored["passkeys"] \cup {<<k, "row">>})

-----------------------------------------------------------------------------
(* The answers.                                                            *)
Rest(i) == RemoveAt(flights, i)

(* Lists of the tab that were sent before the i-th request.                *)
RestOvertaken(i) == Outdate(Rest(i), flights[i].tab, 1 .. i - 1)

HandleList(i) ==
  LET f == flights[i]
  IN  /\ f.kind = "list" /\ f.at = "answered"
      /\ tab' = [tab EXCEPT ![f.tab].rows = [of |-> f.of, has |-> f.answer],
                            ![f.tab].loading = FALSE,
                            ![f.tab].error = @ /\ f.tab # "task-queue",
                            ![f.tab].crossed = f.overtaken \/ f.of # Displayed(f.tab)]
      /\ flights' = RestOvertaken(i)
      /\ UNCHANGED <<section, stored, minted, moves>>

(* Mutant: what was changed is not read again.                             *)
HandlePatchOnly(i) ==
  /\ flights[i].kind \in {"set", "unset"} /\ flights[i].at = "answered"
  /\ flights' = Rest(i)
  /\ UNCHANGED <<section, tab, stored, minted, moves>>

(* fetchUsers(userPage, searchQuery) of the render in which it was clicked. *)
HandlePatch(i) ==
  /\ flights[i].kind \in {"set", "unset"} /\ flights[i].at = "answered"
  /\ tab' = [tab EXCEPT !["users"] = Fetching("users", @)]
  /\ flights' = Append(Rest(i), List("users", flights[i].of))
  /\ UNCHANGED <<section, stored, minted, moves>>

HandleRemove(i) ==
  LET k == flights[i].id
      older == {j \in DOMAIN Rest(i) : \E r \in Rest(i)[j].answer : r[1] = k}
  IN  /\ flights[i].kind = "remove" /\ flights[i].at = "answered"
      /\ tab' = [tab EXCEPT !["passkeys"].rows.has = {r \in @ : r[1] # k},
                            !["passkeys"].deleting = Nothing]
      /\ flights' = Outdate(Rest(i), "passkeys", older)
      /\ UNCHANGED <<section, stored, minted, moves>>

HandleRegister(i) ==
  /\ flights[i].kind = "register" /\ flights[i].at = "answered"
  /\ Refetch("passkeys", tab["passkeys"], Rest(i))
  /\ UNCHANGED <<section, stored, minted, moves>>

(* A refusal, an exception of the handler, or a broken connection.         *)
ListFails(i) ==
  LET f == flights[i]
  IN  /\ f.kind = "list"
      /\ tab' = [tab EXCEPT ![f.tab].loading = FALSE,
                            ![f.tab].error = @ \/ f.tab # "passkeys",
                            ![f.tab].crossed = @ \/ f.tab = "passkeys"]
      /\ flights' = RestOvertaken(i)
      /\ UNCHANGED <<section, stored, minted, moves>>

ChangeFails(i) ==
  LET f == flights[i]
      undeleted == [tab EXCEPT !["passkeys"].deleting = IF f.kind = "remove" THEN Nothing ELSE @]
  IN  /\ f.kind # "list"
      /\ CASE f.gone             -> flights' = Rest(i) /\ UNCHANGED tab
           [] f.at # "answered"  -> flights' = Rest(i) /\ tab' = undeleted
           [] OTHER              ->
                /\ flights' = Outdate(Rest(i), f.tab, Answered(Rest(i)))
                /\ tab' = [undeleted EXCEPT ![f.tab].crossed = TRUE]
      /\ UNCHANGED <<section, stored, minted, moves>>

-----------------------------------------------------------------------------
PanelsNext ==
  \/ \E s \in Section : Open(s)
  \/ Leave \/ SearchTimer \/ RegisterKey
  \/ \E q \in DOMAIN Pages["users"] : TypeSearch(q)
  \/ \E t \in Tab : Refresh(t) \/ \E p \in DOMAIN Pages[t][""] : TurnPage(t, p)
  \/ \E u \in IdsOn("users", <<1, "">>) \cup IdsOn("users", <<2, "">>), a \in Attribute :
       PatchUser(u, a)
  \/ \E k \in IdsOn("passkeys", <<1, "">>) : RemoveKey(k)
  \/ \E i \in DOMAIN flights :
       \/ AnswerList(i) \/ ReadUser(i) \/ WriteUser(i) \/ DeleteKey(i) \/ InsertKey(i)
       \/ HandleList(i) \/ HandlePatch(i) \/ HandleRemove(i) \/ HandleRegister(i)
       \/ ListFails(i) \/ ChangeFails(i)

PanelsSpec == PanelsInit /\ [][PanelsNext]_panelVars

-----------------------------------------------------------------------------
(* A tab with nothing on its way has stopped loading, and shows an error   *)
(* or what the server has for the page and search it displays, unless an   *)
(* answer was overtaken by another, a refetch was for a page or search the *)
(* user has left since, or the answer to a change was lost or came after   *)
(* the tab was left (AdminPanel.tsx:155-228, SettingsView.tsx:149-187).    *)
TabsAtRestShowTheServer ==
  \A t \in TabsOf(section) :
    (\A i \in DOMAIN flights : flights[i].tab = t => flights[i].gone) =>
      /\ ~ tab[t].loading
      /\ tab[t].error \/ tab[t].crossed \/ tab[t].rows = Served(t, Displayed(t))
=============================================================================
