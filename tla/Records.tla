------------------------------- MODULE Records -------------------------------
(***************************************************************************)
(* The entities table and the handlers that write it: api/tax-objects.ts,  *)
(* api/tax-returns.ts, api/users.ts, the PATCH of api/admin.ts, the data   *)
(* subject requests of packages/db/governance.ts and                       *)
(* policies/task-write-service.ts.                                         *)
(*                                                                         *)
(* A handler stops at every await and others run.  What it does between    *)
(* two statements is one action.  No statement is in a transaction with    *)
(* another, and an UPDATE writes the whole properties that the handler     *)
(* computed from the row that it read before.  Ownership is checked with   *)
(* the read: an object never changes its owner and is never deleted.  The  *)
(* column version is written and never looked at; it is left out, and so   *)
(* is the broadcast to web sockets.                                        *)
(***************************************************************************)
EXTENDS Null, Naturals, FiniteSets

CONSTANTS
  User, Object, Return, TaskEntity,  \* ids, those of objects and returns drawn by POST
  Year,                              \* filing years
  Request                            \* requests in flight

Id == User \cup Object \cup Return \cup TaskEntity

(* The properties of a row, by its type.                                   *)
Properties(id) ==
  CASE id \in User       -> [role : {"superuser", "superadmin", NULL},
                             active : {"false", NULL}, preference : {"old", NULL}]
    [] id \in Object     -> [created_by_user_id : User, filing_year : Year,
                             display_name : {"default", "other"}]
    [] id \in Return     -> [tax_object_id : Object, tax_year : Year,
                             filing_status : {"single", "head_of_household"},
                             situation_data : {"absent", "document", "erased"}]
    [] id \in TaskEntity -> [state : {"new", "done", "blocked"}]

ASSUME IdAssumption ==
  /\ User \cap (Object \cup Return \cup TaskEntity) = {}
  /\ Object \cap (Return \cup TaskEntity) = {} /\ Return \cap TaskEntity = {}
  /\ \A id \in Id : NULL \notin Properties(id)

VARIABLES
  entities,   \* per id: the properties, NULL: no such row
  relations,  \* <<source, target, type>>
  request,    \* per request: what its handler holds while it waits
  interrupted,\* history: ids whose handler ended before their relation was inserted
  trail       \* the task updates in the audit log, as <<id, after>>

recordsVars == <<entities, relations, request, interrupted, trail>>

Idle == [at |-> "idle"]

Exists(id) == entities[id] # NULL

(* What SQL and every handler read of a user whose properties are not an   *)
(* object.                                                                 *)
Unreadable == [role |-> NULL, active |-> NULL, preference |-> NULL]

RecordsInit ==
  /\ entities = [id \in Id |->
       CASE id \in User -> [role |-> "superuser", active |-> NULL, preference |-> "old"]
         [] id \in Object \cup Return -> NULL
         [] id \in TaskEntity -> [state |-> "new"]]
  /\ relations = {}
  /\ request = [q \in Request |-> Idle]
  /\ interrupted = {}
  /\ trail = {}

-----------------------------------------------------------------------------
(* A handler that has read row id and is about to write next.  names:      *)
(* the properties that its request is about.  overtaken (history): the row *)
(* has been written by another handler since.                              *)
Pending(at, id, next, names) ==
  [at |-> at, id |-> id, next |-> next, names |-> names, overtaken |-> FALSE]

Hold(q, pending) ==
  /\ request[q] = Idle
  /\ request' = [request EXCEPT ![q] = pending]
  /\ UNCHANGED <<entities, relations, interrupted, trail>>

Superusers == {u \in User : Exists(u) /\ entities[u].role = "superuser"}

(* A commit has taken a superuser away, or has made target one, so that a  *)
(* handler that has counted them, or had no need to, deletes on old facts. *)
CountIsStale(target) ==
  ~ (Superusers \subseteq Superusers') \/ target \in Superusers' \ Superusers

(* The other handlers that hold what a commit has changed.                 *)
Overtake(q, id, after) ==
  [p \in Request |->
     IF p = q THEN after
     ELSE IF \/ request[p].at \in {"write", "audit"} /\ request[p].id = id
             \/ request[p].at = "delete" /\ CountIsStale(request[p].id)
          THEN [request[p] EXCEPT !.overtaken = TRUE]
          ELSE request[p]]

(* { ...entity.properties, ...patch }                                      *)
Merged(id, patch) ==
  [p \in DOMAIN entities[id] \cup DOMAIN patch |->
     IF p \in DOMAIN patch THEN patch[p] ELSE entities[id][p]]

ReturnBodies ==
  {[filing_status |-> s] : s \in {"single", "head_of_household"}}
  \cup {[filing_status |-> "single", situation_data |-> "document"]}

ObjectBodies == {[display_name |-> "other"]} \cup {[filing_year |-> y] : y \in Year}

(* tax_filer and superadmin are not told apart.                            *)
AdminBodies == {[role |-> "superadmin"], [active |-> "false"]}

(* PATCH /api/tax-objects/:id/returns/:returnId                            *)
PatchTaxReturn(q) ==
  \E id \in Return : \E body \in ReturnBodies :
    Exists(id) /\ Hold(q, Pending("write", id, Merged(id, body), DOMAIN body))

(* PATCH /api/tax-objects/:id                                              *)
PatchTaxObject(q) ==
  \E id \in Object : \E body \in ObjectBodies :
    Exists(id) /\ Hold(q, Pending("write", id, Merged(id, body), DOMAIN body))

(* PATCH /api/users/:id is about preferences.  It writes                   *)
(* JSON.stringify(merged) into the jsonb column, where it is a string      *)
(* (audit-service.ts:49 explains it).                                      *)
PatchPreferences(q) ==
  \E id \in User :
    /\ Exists(id)
    /\ Hold(q, Pending("write", id, Unreadable, {"preference"}))

(* PATCH /api/admin/users/:id                                              *)
PatchUserByAdmin(q) ==
  \E id \in User : \E body \in AdminBodies :
    Exists(id) /\ Hold(q, Pending("write", id, Merged(id, body), DOMAIN body))

(* piiFields: entity_types.sensitive of the id's type.                     *)
sensitive(id) == IF id \in Return THEN {"situation_data"} ELSE {}

anonymizeRecord(id) ==
  [p \in DOMAIN entities[id] |->
     IF p \in sensitive(id) /\ entities[id][p] # "absent" THEN "erased" ELSE entities[id][p]]

(* Mutant: everything that is known about the subject is erased.           *)
EraseAll(q) ==
  \E id \in User \cup Object \cup Return :
    /\ Exists(id)
    /\ Hold(q, Pending("write", id, [p \in DOMAIN entities[id] |-> "erased"], sensitive(id)))

(* handleDataSubjectRequest of kind erasure.  Its audit entry comes after  *)
(* the write, and its failure is swallowed.                                *)
Erase(q) ==
  \E id \in User \cup Object \cup Return :
    Exists(id) /\ Hold(q, Pending("write", id, anonymizeRecord(id), sensitive(id)))

(* applyTaskPatchThroughBoundary: its caller has read the row.             *)
PatchTask(q) ==
  \E id \in TaskEntity : \E s \in {"done", "blocked"} :
    Hold(q, Pending("audit", id, Merged(id, [state |-> s]), {"state"}))

(* Mutant: the write goes ahead without its entry.            *)
AuditTaskBestEffort(q) ==
  /\ request[q].at = "audit"
  /\ UNCHANGED <<entities, relations, interrupted>>
  /\ request' = [request EXCEPT ![q].at = "write"]
  /\ trail' \in {trail, trail \cup {<<request[q].id, request[q].next>>}}

(* The audit entry is written first; when it fails, nothing is.            *)
AuditTask(q) ==
  /\ request[q].at = "audit"
  /\ UNCHANGED <<entities, relations, interrupted>>
  /\ \/ /\ request' = [request EXCEPT ![q].at = "write"]
        /\ trail' = trail \cup {<<request[q].id, request[q].next>>}
     \/ request' = [request EXCEPT ![q] = Idle] /\ UNCHANGED trail

(* UPDATE entities SET properties = ... WHERE id = ...                     *)
Update(q) ==
  /\ request[q].at = "write"
  /\ LET id == request[q].id
     IN  IF Exists(id)
           THEN /\ entities' = [entities EXCEPT ![id] = request[q].next]
                /\ request' = Overtake(q, id, Idle)
           ELSE request' = [request EXCEPT ![q] = Idle] /\ UNCHANGED entities
  /\ UNCHANGED <<relations, interrupted, trail>>

-----------------------------------------------------------------------------
(* DELETE /api/users/:id: the target is read, the superusers are counted,  *)
(* the row is deleted.                                                     *)
DeleteUser(q) ==
  \E id \in User :
    /\ Exists(id)
    /\ Hold(q, Pending(IF entities[id].role = "superuser" THEN "count" ELSE "delete", id,
                       NULL, {}))

(* Mutant: refuses only when there is no superuser at all.                 *)
CountNone(q) ==
  /\ request[q].at = "count"
  /\ request' = [request EXCEPT ![q] = IF Cardinality(Superusers) <= 0 THEN Idle
                                       ELSE [@ EXCEPT !.at = "delete"]]
  /\ UNCHANGED <<entities, relations, interrupted, trail>>

(* 409 LAST_SUPERUSER                                                      *)
CountSuperusers(q) ==
  /\ request[q].at = "count"
  /\ request' = [request EXCEPT ![q] = IF Cardinality(Superusers) <= 1 THEN Idle
                                       ELSE [@ EXCEPT !.at = "delete"]]
  /\ UNCHANGED <<entities, relations, interrupted, trail>>

(* Foreign keys of relations: ON DELETE CASCADE.                           *)
Delete(q) ==
  /\ request[q].at = "delete"
  /\ LET id == request[q].id
     IN  /\ entities' = [entities EXCEPT ![id] = NULL]
         /\ relations' = {r \in relations : id \notin {r[1], r[2]}}
         /\ request' = Overtake(q, id, Idle)
  /\ UNCHANGED <<interrupted, trail>>

-----------------------------------------------------------------------------
(* The entity has been inserted, its relation comes next.                  *)
Relating(id, source, target, type) ==
  [at |-> "relate", id |-> id, relation |-> <<source, target, type>>]

Insert(q, id, properties, relating) ==
  /\ request[q] = Idle /\ ~ Exists(id)
  /\ entities' = [entities EXCEPT ![id] = properties]
  /\ request' = [request EXCEPT ![q] = relating]
  /\ UNCHANGED <<relations, interrupted, trail>>

(* POST /api/tax-objects.  The token of a deleted user is still good.      *)
CreateTaxObject(q) ==
  \E id \in Object, user \in User, y \in Year :
    Insert(q, id,
           [created_by_user_id |-> user, filing_year |-> y, display_name |-> "default"],
           Relating(id, user, id, "owns"))

NewReturn(object, y, data) ==
  [tax_object_id |-> object, tax_year |-> y, filing_status |-> "single",
   situation_data |-> data]

(* POST /api/tax-objects/:id/returns.  idx_entities_tax_return_unique (409)*)
CreateTaxReturn(q) ==
  \E id \in Return, object \in Object, y \in Year, data \in {"absent", "document"} :
    /\ Exists(object)
    /\ \A r \in Return : Exists(r) => <<entities[r].tax_object_id, entities[r].tax_year>> # <<object, y>>
    /\ Insert(q, id, NewReturn(object, y, data), Relating(id, id, object, "belongs_to"))

(* Mutant: the relation goes from the child to itself.                     *)
RelateToSelf(q) ==
  /\ request[q].at = "relate"
  /\ relations' = relations \cup {[request[q].relation EXCEPT ![1] = request[q].id]}
  /\ request' = [request EXCEPT ![q] = Idle]
  /\ UNCHANGED <<entities, interrupted, trail>>

(* INSERT INTO relations: a foreign key that is gone is a 500.             *)
InsertRelation(q) ==
  /\ request[q].at = "relate"
  /\ LET r == request[q].relation
     IN  IF Exists(r[1]) /\ Exists(r[2])
           THEN relations' = relations \cup {r} /\ UNCHANGED interrupted
           ELSE interrupted' = interrupted \cup {request[q].id} /\ UNCHANGED relations
  /\ request' = [request EXCEPT ![q] = Idle]
  /\ UNCHANGED <<entities, trail>>

(* The server ends, or a connection breaks in the middle of a handler.     *)
Abandon(q) ==
  /\ request[q] # Idle
  /\ interrupted' = interrupted \cup
                      IF request[q].at = "relate" THEN {request[q].id} ELSE {}
  /\ request' = [request EXCEPT ![q] = Idle]
  /\ UNCHANGED <<entities, relations, trail>>

-----------------------------------------------------------------------------
(* Requests that share no rows are told apart, so that an instance can     *)
(* take them one group at a time.                                          *)
AccountRequests(q) ==
  PatchPreferences(q) \/ PatchUserByAdmin(q) \/ CountSuperusers(q)

TaskRequests(q) == PatchTask(q) \/ AuditTask(q)

Creations(q) == CreateTaxObject(q) \/ CreateTaxReturn(q) \/ InsertRelation(q)

FilingRequests(q) ==
  \/ Creations(q) \/ PatchTaxReturn(q) \/ PatchTaxObject(q) \/ Erase(q)

EveryRequest(q) == Update(q) \/ DeleteUser(q) \/ Delete(q) \/ Abandon(q)

RecordsNext ==
  \E q \in Request : AccountRequests(q) \/ TaskRequests(q) \/ FilingRequests(q) \/ EveryRequest(q)

RecordsSpec == RecordsInit /\ [][RecordsNext]_recordsVars

-----------------------------------------------------------------------------
Relates(id, r) ==
  \/ r \in relations
  \/ id \in interrupted
  \/ \E q \in Request : request[q].at = "relate" /\ request[q].relation = r

(* Graph and properties agree: a return is related to its object and an    *)
(* object to its owner, unless the handler that created it did not get so  *)
(* far or the owner is gone.                                               *)
RelationsFollowProperties ==
  /\ \A r \in Return :
       Exists(r) => Relates(r, <<r, entities[r].tax_object_id, "belongs_to">>)
  /\ \A o \in Object :
       Exists(o) => LET user == entities[o].created_by_user_id
                    IN  Exists(user) => Relates(o, <<user, o, "owns">>)

(* Request q writes a row that nobody has written since q read it.         *)
Writes(q) ==
  /\ request[q].at = "write" /\ ~ request[q].overtaken
  /\ entities' # entities /\ request'[q] = Idle

ChangesOnlyNames(q) ==
  LET id == request[q].id
  IN  \A p \in DOMAIN entities[id] :
        entities'[id][p] # entities[id][p] => p \in request[q].names

OfPreferences(q) == request[q].names = {"preference"}

(* A write changes what its request is about.  It changes another property *)
(* (gives an erased document back, undoes an administrator's change, takes *)
(* back a filing status) only when the row was written between its read    *)
(* and its write.  The PATCH of preferences is left out: it does so        *)
(* without a race (PreferencesKeepTheRest).                                *)
OnlyOvertakenWritesUndo ==
  [][\A q \in Request :
       Writes(q) /\ ~ OfPreferences(q) => ChangesOnlyNames(q)]_recordsVars

(* users.ts:10 and :85: a PATCH of preferences changes preferences and     *)
(* nothing else of the user.                                               *)
PreferencesKeepTheRest ==
  [][\A q \in Request : Writes(q) /\ OfPreferences(q) => ChangesOnlyNames(q)]_recordsVars

(* The last superuser is deleted only by a handler that counted before     *)
(* another request took a superuser away, or that read its target before   *)
(* another request made it a superuser.                                    *)
LastSuperuserNeedsARace ==
  [][\A q \in Request :
       request[q].at = "delete" /\ ~ request[q].overtaken /\ request'[q] = Idle
         /\ Superusers # {} /\ entities' # entities => Superusers' # {}]_recordsVars

(* Every state that a task has been in is in the audit log.                *)
TaskWritesAreAudited ==
  \A t \in TaskEntity : entities[t] = [state |-> "new"] \/ <<t, entities[t]>> \in trail
=============================================================================
