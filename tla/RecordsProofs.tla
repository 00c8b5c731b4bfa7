--------------------------- MODULE RecordsProofs ---------------------------
(***************************************************************************)
(* Proofs about Records, for all users, objects, returns, tasks, years and *)
(* numbers of requests in flight.                                          *)
(***************************************************************************)
EXTENDS Records, FiniteSetTheorems, TLAPS

Row == UNION {Properties(id) : id \in Id}

(* The names of a row's properties, and what each of them may be.          *)
Column(id) ==
  CASE id \in User       -> {"role", "active", "preference"}
    [] id \in Object     -> {"created_by_user_id", "filing_year", "display_name"}
    [] id \in Return     -> {"tax_object_id", "tax_year", "filing_status", "situation_data"}
    [] id \in TaskEntity -> {"state"}

Value(p) ==
  CASE p = "role"               -> {"superuser", "superadmin", NULL}
    [] p = "active"             -> {"false", NULL}
    [] p = "preference"         -> {"old", NULL}
    [] p = "created_by_user_id" -> User
    [] p = "filing_year"        -> Year
    [] p = "display_name"       -> {"default", "other"}
    [] p = "tax_object_id"      -> Object
    [] p = "tax_year"           -> Year
    [] p = "filing_status"      -> {"single", "head_of_household"}
    [] p = "situation_data"     -> {"absent", "document", "erased"}
    [] p = "state"              -> {"new", "done", "blocked"}

Name == UNION {Column(id) : id \in Id}

(* What a handler holds while it waits: nothing, the row it will write, or *)
(* the relation it will insert.                                            *)
Writing ==
  [at : {"write", "audit"}, id : Id, next : Row, names : SUBSET Name,
   overtaken : BOOLEAN]

Deleting ==
  [at : {"count", "delete"}, id : User, next : {NULL}, names : {{}},
   overtaken : BOOLEAN]

Inserting ==
  {Relating(id, id, object, "belongs_to") : id \in Return, object \in Object}
  \cup {Relating(id, user, id, "owns") : id \in Object, user \in User}

RecordsTypeOK ==
  /\ entities \in [Id -> Row \cup {NULL}]
  /\ \A id \in Id : Exists(id) => entities[id] \in Properties(id)
  /\ \A id \in TaskEntity : Exists(id)
  /\ request \in [Request -> {Idle} \cup Writing \cup Deleting \cup Inserting]

(* The parent that a return or an object names stays the same, so a        *)
(* handler that waits names the parent that the row has.                   *)
SameParent(m) ==
  /\ m.id \in Return => /\ Exists(m.id)
                        /\ m.next.tax_object_id = entities[m.id].tax_object_id
  /\ m.id \in Object => /\ Exists(m.id)
                        /\ m.next.created_by_user_id = entities[m.id].created_by_user_id

(* As long as the row is as it was read, it differs from what is to be     *)
(* written only where the request says so, the PATCH of preferences apart. *)
DiffersInNames(m) ==
  ~ m.overtaken /\ Exists(m.id) /\ m.names # {"preference"} =>
    \A p \in DOMAIN entities[m.id] :
      m.next[p] # entities[m.id][p] => p \in m.names

(* What the handler that holds m may rely on.                              *)
WriteOK(m) ==
  m.at \in {"write", "audit"} =>
    /\ m.next \in Properties(m.id)
    /\ SameParent(m)
    /\ DiffersInNames(m)
    /\ m.at = "audit" => m.id \in TaskEntity
    /\ m.at = "write" /\ m.id \in TaskEntity => <<m.id, m.next>> \in trail

(* As long as the count is good, a superuser is left over.                 *)
DeleteOK(m) ==
  m.at = "delete" /\ ~ m.overtaken /\ Superusers # {} => Superusers \ {m.id} # {}

RecordsInv ==
  /\ RecordsTypeOK
  /\ \A q \in Request : WriteOK(request[q]) /\ DeleteOK(request[q])
  /\ RelationsFollowProperties
  /\ TaskWritesAreAudited

-----------------------------------------------------------------------------
(* The types of the rows, one by one: the four kinds of ids do not meet.   *)
LEMMA PropertiesByKind ==
  /\ \A id \in User : Properties(id) =
       [role : {"superuser", "superadmin", NULL}, active : {"false", NULL},
        preference : {"old", NULL}]
  /\ \A id \in Object : Properties(id) =
       [created_by_user_id : User, filing_year : Year, display_name : {"default", "other"}]
  /\ \A id \in Return : Properties(id) =
       [tax_object_id : Object, tax_year : Year,
        filing_status : {"single", "head_of_household"},
        situation_data : {"absent", "document", "erased"}]
  /\ \A id \in TaskEntity : Properties(id) = [state : {"new", "done", "blocked"}]
  BY IdAssumption DEF Properties, Id

(* A row of a type is a record with the properties of the type, and the    *)
(* other way round.                                                        *)
LEMMA UserRow ==
  ASSUME NEW row
  PROVE  row \in [role : {"superuser", "superadmin", NULL}, active : {"false", NULL},
                  preference : {"old", NULL}]
         <=> /\ row = [p \in {"role", "active", "preference"} |-> row[p]]
             /\ row["role"] \in {"superuser", "superadmin", NULL}
             /\ row["active"] \in {"false", NULL}
             /\ row["preference"] \in {"old", NULL}
  OBVIOUS

(* Likewise for a tax object, ...                                          *)
LEMMA ObjectRow ==
  ASSUME NEW row
  PROVE  row \in [created_by_user_id : User, filing_year : Year,
                  display_name : {"default", "other"}]
         <=> /\ row = [p \in {"created_by_user_id", "filing_year", "display_name"} |-> row[p]]
             /\ row["created_by_user_id"] \in User
             /\ row["filing_year"] \in Year
             /\ row["display_name"] \in {"default", "other"}
  OBVIOUS

(* ... for a tax return, ...                                               *)
LEMMA ReturnRow ==
  ASSUME NEW row
  PROVE  row \in [tax_object_id : Object, tax_year : Year,
                  filing_status : {"single", "head_of_household"},
                  situation_data : {"absent", "document", "erased"}]
         <=> /\ row = [p \in {"tax_object_id", "tax_year", "filing_status", "situation_data"} |-> row[p]]
             /\ row["tax_object_id"] \in Object
             /\ row["tax_year"] \in Year
             /\ row["filing_status"] \in {"single", "head_of_household"}
             /\ row["situation_data"] \in {"absent", "document", "erased"}
  OBVIOUS

(* ... and for a task.                                                     *)
LEMMA TaskRow ==
  ASSUME NEW row
  PROVE  row \in [state : {"new", "done", "blocked"}]
         <=> /\ row = [p \in {"state"} |-> row[p]]
             /\ row["state"] \in {"new", "done", "blocked"}
  OBVIOUS

(* The same for all types at once.                                         *)
LEMMA RowByColumns ==
  ASSUME NEW id \in Id, NEW row
  PROVE  row \in Properties(id)
         <=> /\ row = [p \in Column(id) |-> row[p]]
             /\ \A p \in Column(id) : row[p] \in Value(p)
<1>1. CASE id \in User
  <2>1. Column(id) = {"role", "active", "preference"}
    BY <1>1, IdAssumption DEF Column
  <2> QED BY <1>1, <2>1, UserRow, PropertiesByKind DEF Value
<1>2. CASE id \in Object
  <2>1. Column(id) = {"created_by_user_id", "filing_year", "display_name"}
    BY <1>2, IdAssumption DEF Column
  <2> QED BY <1>2, <2>1, ObjectRow, PropertiesByKind DEF Value
<1>3. CASE id \in Return
  <2>1. Column(id) = {"tax_object_id", "tax_year", "filing_status", "situation_data"}
    BY <1>3, IdAssumption DEF Column
  <2> QED BY <1>3, <2>1, ReturnRow, PropertiesByKind DEF Value
<1>4. CASE id \in TaskEntity
  <2>1. Column(id) = {"state"}
    BY <1>4, IdAssumption DEF Column
  <2> QED BY <1>4, <2>1, TaskRow, PropertiesByKind DEF Value
<1> QED BY <1>1, <1>2, <1>3, <1>4 DEF Id

(* A return names an object and an object names a user.                    *)
LEMMA ParentsExist ==
  /\ \A id \in Return : \A row \in Properties(id) : row.tax_object_id \in Object
  /\ \A id \in Object : \A row \in Properties(id) : row.created_by_user_id \in User
<1>1. ASSUME NEW id \in Return, NEW row \in Properties(id) PROVE row.tax_object_id \in Object
  BY PropertiesByKind, ReturnRow
<1>2. ASSUME NEW id \in Object, NEW row \in Properties(id) PROVE row.created_by_user_id \in User
  BY PropertiesByKind, ObjectRow
<1> QED BY <1>1, <1>2

(* A patch that stays within the type of the row gives a row of the type,  *)
(* and changes only what it names.                                         *)
LEMMA MergedProperties ==
  ASSUME NEW id \in Id, entities[id] \in Properties(id), NEW body,
         DOMAIN body \subseteq Column(id),
         \A p \in DOMAIN body : body[p] \in Value(p)
  PROVE  /\ Merged(id, body) \in Properties(id)
         /\ \A p \in DOMAIN entities[id] :
              Merged(id, body)[p] # entities[id][p] => p \in DOMAIN body
<1>1. /\ DOMAIN entities[id] = Column(id)
      /\ \A p \in Column(id) : entities[id][p] \in Value(p)
  BY RowByColumns
<1>2. Merged(id, body) = [p \in Column(id) |-> IF p \in DOMAIN body THEN body[p] ELSE entities[id][p]]
  BY <1>1 DEF Merged
<1> HIDE DEF Merged
<1>3. Merged(id, body) \in Properties(id)
  BY <1>1, <1>2, RowByColumns
<1> QED BY <1>1, <1>2, <1>3

(* Erasure keeps the type, and changes what is sensitive only.             *)
LEMMA AnonymizedProperties ==
  ASSUME NEW id \in Id, entities[id] \in Properties(id)
  PROVE  /\ anonymizeRecord(id) \in Properties(id)
         /\ \A p \in DOMAIN entities[id] :
              anonymizeRecord(id)[p] # entities[id][p] => p \in sensitive(id)
<1>1. /\ DOMAIN entities[id] = Column(id)
      /\ \A p \in Column(id) : entities[id][p] \in Value(p)
  BY RowByColumns
<1>2. \A p \in sensitive(id) : p = "situation_data"
  BY DEF sensitive
<1>3. "erased" \in Value("situation_data")
  BY DEF Value
<1>4. anonymizeRecord(id) \in Properties(id)
  BY <1>1, <1>2, <1>3, RowByColumns DEF anonymizeRecord
<1> QED BY <1>1, <1>4 DEF anonymizeRecord

(* What the PATCH handlers accept stays within the type of the row.        *)
LEMMA BodiesFit ==
  ASSUME NEW id \in Id, NEW body,
         \/ id \in Return /\ body \in ReturnBodies
         \/ id \in Object /\ body \in ObjectBodies
         \/ id \in User   /\ body \in AdminBodies
         \/ id \in TaskEntity /\ body \in {[state |-> s] : s \in {"done", "blocked"}}
  PROVE  /\ DOMAIN body \subseteq Column(id) \ {"tax_object_id", "created_by_user_id"}
         /\ \A p \in DOMAIN body : body[p] \in Value(p)
<1>1. CASE id \in Return /\ body \in ReturnBodies
  <2>1. Column(id) = {"tax_object_id", "tax_year", "filing_status", "situation_data"}
    BY <1>1, IdAssumption DEF Column
  <2>2. CASE body \in {[filing_status |-> s] : s \in {"single", "head_of_household"}}
    BY <2>1, <2>2 DEF Value
  <2>3. CASE body = [filing_status |-> "single", situation_data |-> "document"]
    BY <2>1, <2>3 DEF Value
  <2> QED BY <1>1, <2>2, <2>3 DEF ReturnBodies
<1>2. CASE id \in Object /\ body \in ObjectBodies
  <2>1. Column(id) = {"created_by_user_id", "filing_year", "display_name"}
    BY <1>2, IdAssumption DEF Column
  <2>2. CASE body = [display_name |-> "other"]
    BY <2>1, <2>2 DEF Value
  <2>3. CASE body \in {[filing_year |-> y] : y \in Year}
    BY <2>1, <2>3 DEF Value
  <2> QED BY <1>2, <2>2, <2>3 DEF ObjectBodies
<1>3. CASE id \in User /\ body \in AdminBodies
  <2>1. Column(id) = {"role", "active", "preference"}
    BY <1>3, IdAssumption DEF Column
  <2>2. CASE body = [role |-> "superadmin"]
    BY <2>1, <2>2 DEF Value
  <2>3. CASE body = [active |-> "false"]
    BY <2>1, <2>3 DEF Value
  <2> QED BY <1>3, <2>2, <2>3 DEF AdminBodies
<1>4. CASE id \in TaskEntity /\ body \in {[state |-> s] : s \in {"done", "blocked"}}
  <2>1. Column(id) = {"state"}
    BY <1>4, IdAssumption DEF Column
  <2> QED BY <1>4, <2>1 DEF Value
<1> QED BY <1>1, <1>2, <1>3, <1>4

(* The invariant holds of the seeded rows.                                 *)
LEMMA RecordsStart == RecordsInit => RecordsInv
<1> SUFFICES ASSUME RecordsInit PROVE RecordsInv
  OBVIOUS
<1>1. /\ \A id \in User :
           entities[id] = [role |-> "superuser", active |-> NULL, preference |-> "old"]
      /\ \A id \in Object \cup Return : entities[id] = NULL
      /\ \A id \in TaskEntity : entities[id] = [state |-> "new"]
  BY IdAssumption DEF RecordsInit, Id
<1>2. /\ \A id \in User \cup TaskEntity : entities[id] \in Properties(id)
      /\ \A id \in Object \cup Return : ~ Exists(id)
  BY <1>1, PropertiesByKind DEF Exists
<1>3. \A id \in TaskEntity : Exists(id)
  BY <1>2, IdAssumption DEF Exists, Id
<1>4. entities \in [Id -> Row \cup {NULL}]
  <2>1. \A id \in Id : entities[id] \in Row \cup {NULL}
    BY <1>1, <1>2 DEF Id, Row
  <2> QED BY <2>1 DEF RecordsInit
<1>5. RecordsTypeOK
  BY <1>2, <1>3, <1>4 DEF RecordsTypeOK, RecordsInit, Id
<1>6. \A q \in Request : WriteOK(request[q]) /\ DeleteOK(request[q])
  BY DEF RecordsInit, Idle, WriteOK, DeleteOK
<1>7. RelationsFollowProperties /\ TaskWritesAreAudited
  BY <1>1, <1>2 DEF RelationsFollowProperties, TaskWritesAreAudited
<1> QED BY <1>5, <1>6, <1>7 DEF RecordsInv

-----------------------------------------------------------------------------
(* Steps that write no row.  What a handler relies on stays true.          *)
LEMMA HandlersUntouched ==
  ASSUME UNCHANGED entities, trail \subseteq trail', NEW m,
         WriteOK(m), DeleteOK(m)
  PROVE  WriteOK(m)' /\ DeleteOK(m)'
<1>1. \A id : Exists(id)' <=> Exists(id)
  BY DEF Exists
<1>2. Superusers' = Superusers
  BY DEF Superusers, Exists
<1> QED BY <1>1, <1>2 DEF WriteOK, DeleteOK, SameParent, DiffersInNames

(* A handler moves on and writes no row.                                   *)
LEMMA RequestMoves ==
  ASSUME RecordsInv, NEW q \in Request,
         NEW m \in {Idle} \cup Writing \cup Deleting \cup Inserting,
         request' = [request EXCEPT ![q] = m],
         UNCHANGED entities, trail \subseteq trail',
         WriteOK(m)', DeleteOK(m)',
         \A r \in Return : \A o \in Object : Relates(r, <<r, o, "belongs_to">>) => Relates(r, <<r, o, "belongs_to">>)',
         \A o \in Object : \A u \in User : Relates(o, <<u, o, "owns">>) => Relates(o, <<u, o, "owns">>)'
  PROVE  RecordsInv'
<1> USE DEF RecordsInv
<1>1. RecordsTypeOK'
  BY DEF RecordsTypeOK, Exists
<1>2. ASSUME NEW k \in Request PROVE WriteOK(request[k])' /\ DeleteOK(request[k])'
  <2>1. PICK n : n = request[k]
    OBVIOUS
  <2>2. WriteOK(n)' /\ DeleteOK(n)'
    BY <2>1, HandlersUntouched
  <2>3. request'[k] = IF k = q THEN m ELSE n
    BY <2>1 DEF RecordsTypeOK
  <2>4. WriteOK(request[k])'
    BY <2>2, <2>3 DEF WriteOK, SameParent, DiffersInNames
  <2>5. DeleteOK(request[k])'
    BY <2>2, <2>3 DEF DeleteOK
  <2> QED BY <2>4, <2>5
<1>3. RelationsFollowProperties'
  <2>1. /\ \A r \in Return : Exists(r) => entities[r].tax_object_id \in Object
        /\ \A o \in Object : Exists(o) => entities[o].created_by_user_id \in User
    BY ParentsExist DEF RecordsTypeOK, Id
  <2> QED BY <2>1 DEF RelationsFollowProperties, Exists
<1>4. TaskWritesAreAudited'
  BY DEF TaskWritesAreAudited
<1> QED BY <1>1, <1>2, <1>3, <1>4

(* A handler has read a row, and relies on what it read.                   *)
LEMMA HoldStep ==
  ASSUME RecordsInv, NEW q \in Request, NEW m \in Writing \cup Deleting,
         WriteOK(m), DeleteOK(m), Hold(q, m)
  PROVE  RecordsInv'
<1>1. WriteOK(m)' /\ DeleteOK(m)'
  BY HandlersUntouched DEF Hold
<1>2. \A id, r : Relates(id, r) => Relates(id, r)'
  <2> SUFFICES ASSUME NEW id, NEW r, Relates(id, r) PROVE Relates(id, r)'
    OBVIOUS
  <2>1. \A k \in Request : request[k].at = "relate" => request'[k] = request[k]
    BY DEF Hold, Idle, RecordsInv, RecordsTypeOK
  <2> QED BY <2>1 DEF Relates, Hold
<1> QED BY <1>1, <1>2, RequestMoves DEF Hold

(* A handler is about to write what it computed from the row it read.      *)
LEMMA PendingWrite ==
  ASSUME RecordsInv, NEW q \in Request, NEW id \in Id, Exists(id),
         NEW at \in {"write", "audit"}, at = "audit" <=> id \in TaskEntity,
         NEW next \in Properties(id), NEW names \in SUBSET Column(id),
         names \cap {"tax_object_id", "created_by_user_id"} = {},
         names # {"preference"} =>
           \A p \in DOMAIN entities[id] : next[p] # entities[id][p] => p \in names,
         Hold(q, Pending(at, id, next, names))
  PROVE  RecordsInv'
<1> DEFINE m == Pending(at, id, next, names)
<1>1. /\ m.at = at /\ m.id = id /\ m.next = next /\ m.names = names
      /\ m.overtaken = FALSE
  BY DEF Pending
<1>2. m \in Writing
  BY DEF Pending, Writing, Row, Name
<1>3. SameParent(m)
  <2>1. DOMAIN entities[id] = Column(id)
    BY RowByColumns DEF RecordsInv, RecordsTypeOK
  <2>2. id \in Return => "tax_object_id" \in Column(id)
    BY IdAssumption DEF Column
  <2>3. id \in Object => "created_by_user_id" \in Column(id)
    BY IdAssumption DEF Column
  <2>4. id \in Return \cup Object => "preference" \notin Column(id)
    BY IdAssumption DEF Column
  <2> QED BY <1>1, <2>1, <2>2, <2>3, <2>4 DEF SameParent
<1> HIDE DEF m
<1>4. WriteOK(m)
  BY <1>1, <1>3 DEF WriteOK, DiffersInNames
<1>5. DeleteOK(m)
  BY <1>1 DEF DeleteOK
<1> QED BY <1>2, <1>4, <1>5, HoldStep DEF m

(* The PATCH handlers, a data subject request and a task update.           *)
LEMMA PatchStep ==
  ASSUME RecordsInv, NEW q \in Request,
         \/ PatchTaxReturn(q) \/ PatchTaxObject(q) \/ PatchUserByAdmin(q)
         \/ PatchPreferences(q) \/ Erase(q) \/ PatchTask(q)
  PROVE  RecordsInv'
<1> USE DEF RecordsInv, RecordsTypeOK
<1>1. ASSUME NEW id \in Id, Exists(id), NEW body,
             \/ id \in Return /\ body \in ReturnBodies
             \/ id \in Object /\ body \in ObjectBodies
             \/ id \in User   /\ body \in AdminBodies
             \/ id \in TaskEntity /\ body \in {[state |-> s] : s \in {"done", "blocked"}},
             NEW at \in {"write", "audit"}, at = "audit" <=> id \in TaskEntity,
             Hold(q, Pending(at, id, Merged(id, body), DOMAIN body))
      PROVE  RecordsInv'
  <2>1. /\ DOMAIN body \subseteq Column(id) \ {"tax_object_id", "created_by_user_id"}
        /\ \A p \in DOMAIN body : body[p] \in Value(p)
    BY <1>1, BodiesFit
  <2>2. /\ Merged(id, body) \in Properties(id)
        /\ \A p \in DOMAIN entities[id] :
             Merged(id, body)[p] # entities[id][p] => p \in DOMAIN body
    BY <1>1, <2>1, MergedProperties
  <2> QED BY <1>1, <2>1, <2>2, PendingWrite
<1>2. CASE PatchTaxReturn(q)
  BY <1>2, <1>1, IdAssumption DEF PatchTaxReturn, Id
<1>3. CASE PatchTaxObject(q)
  BY <1>3, <1>1, IdAssumption DEF PatchTaxObject, Id
<1>4. CASE PatchUserByAdmin(q)
  BY <1>4, <1>1, IdAssumption DEF PatchUserByAdmin, Id
<1>5. CASE PatchPreferences(q)
  <2>1. PICK id \in User : /\ Exists(id)
                           /\ Hold(q, Pending("write", id, Unreadable, {"preference"}))
    BY <1>5 DEF PatchPreferences
  <2>2. id \in Id /\ id \notin TaskEntity /\ Column(id) = {"role", "active", "preference"}
    BY IdAssumption DEF Id, Column
  <2>4. Unreadable \in Properties(id)
    BY PropertiesByKind DEF Unreadable
  <2> QED BY <2>1, <2>2, <2>4, PendingWrite
<1>6. CASE Erase(q)
  <2>1. PICK id \in User \cup Object \cup Return :
          /\ Exists(id)
          /\ Hold(q, Pending("write", id, anonymizeRecord(id), sensitive(id)))
    BY <1>6 DEF Erase
  <2>2. id \in Id /\ id \notin TaskEntity
    BY IdAssumption DEF Id
  <2>3. sensitive(id) \subseteq Column(id) \ {"tax_object_id", "created_by_user_id"}
    BY IdAssumption DEF sensitive, Column
  <2> QED BY <2>1, <2>2, <2>3, AnonymizedProperties, PendingWrite
<1>7. CASE PatchTask(q)
  <2>1. PICK id \in TaskEntity, s \in {"done", "blocked"} :
          Hold(q, Pending("audit", id, Merged(id, [state |-> s]), {"state"}))
    BY <1>7 DEF PatchTask
  <2>2. DOMAIN [state |-> s] = {"state"}
    OBVIOUS
  <2> QED BY <1>1, <2>1, <2>2 DEF Id
<1> QED BY <1>2, <1>3, <1>4, <1>5, <1>6, <1>7

(* DELETE /api/users/:id has read its target.                              *)
LEMMA DeleteUserStep ==
  ASSUME RecordsInv, NEW q \in Request, DeleteUser(q) PROVE RecordsInv'
<1>1. PICK id \in User :
        /\ Exists(id)
        /\ Hold(q, Pending(IF entities[id].role = "superuser" THEN "count" ELSE "delete",
                           id, NULL, {}))
  BY DEF DeleteUser
<1> DEFINE at == IF entities[id].role = "superuser" THEN "count" ELSE "delete"
           m == Pending(at, id, NULL, {})
<1>2. /\ m.at = at /\ m.id = id /\ at \in {"count", "delete"}
      /\ m \in Deleting
  BY DEF Pending, Deleting
<1>3. at = "delete" => id \notin Superusers
  BY DEF Superusers
<1> HIDE DEF m
<1>4. WriteOK(m)
  BY <1>2 DEF WriteOK
<1>5. DeleteOK(m)
  BY <1>2, <1>3 DEF DeleteOK
<1> QED BY <1>1, <1>2, <1>4, <1>5, HoldStep DEF m

(* The audit entry of a task update: the write follows it, or nothing.     *)
LEMMA AuditTaskStep ==
  ASSUME RecordsInv, NEW q \in Request, AuditTask(q) PROVE RecordsInv'
<1> PICK n : n = request[q]
  OBVIOUS
<1>1. n \in Writing /\ n.at = "audit" /\ WriteOK(n)
  BY DEF AuditTask, RecordsInv, RecordsTypeOK, Idle, Deleting, Inserting, Relating
<1>2. \A id, r : Relates(id, r) => Relates(id, r)'
  <2>1. \A k \in Request : request[k].at = "relate" => request'[k] = request[k]
    BY <1>1 DEF AuditTask, RecordsInv, RecordsTypeOK
  <2> QED BY <2>1 DEF Relates, AuditTask
<1>3. CASE request' = [request EXCEPT ![q] = Idle] /\ UNCHANGED trail
  <2>1. WriteOK(Idle)' /\ DeleteOK(Idle)'
    BY DEF WriteOK, DeleteOK, Idle
  <2> QED BY <1>2, <1>3, <2>1, RequestMoves DEF AuditTask
<1>4. CASE /\ request' = [request EXCEPT ![q].at = "write"]
           /\ trail' = trail \cup {<<request[q].id, request[q].next>>}
  <2> PICK m : m = [n EXCEPT !.at = "write"]
    OBVIOUS
  <2>1. /\ m \in Writing /\ m.at = "write"
        /\ m.id = n.id /\ m.next = n.next /\ m.names = n.names /\ m.overtaken = n.overtaken
    BY <1>1 DEF Writing
  <2>2. request' = [request EXCEPT ![q] = m]
    BY <1>4
  <2>3. WriteOK(m)'
    BY <1>1, <1>4, <2>1 DEF WriteOK, SameParent, DiffersInNames, AuditTask, Exists
  <2>4. DeleteOK(m)'
    BY <2>1 DEF DeleteOK
  <2> QED BY <1>2, <1>4, <2>1, <2>2, <2>3, <2>4, RequestMoves DEF AuditTask
<1> QED BY <1>3, <1>4 DEF AuditTask

(* The count of superusers: if there are two, one is left over.            *)
LEMMA CountStep ==
  ASSUME RecordsInv, NEW q \in Request, CountSuperusers(q) PROVE RecordsInv'
<1> PICK n : n = request[q]
  OBVIOUS
<1>1. n \in Deleting /\ n.at = "count"
  BY DEF CountSuperusers, RecordsInv, RecordsTypeOK, Idle, Writing, Inserting, Relating
<1>2. \A id, r : Relates(id, r) => Relates(id, r)'
  <2>1. \A k \in Request : request[k].at = "relate" => request'[k] = request[k]
    BY <1>1 DEF CountSuperusers, RecordsInv, RecordsTypeOK
  <2> QED BY <2>1 DEF Relates, CountSuperusers
<1>3. CASE Cardinality(Superusers) <= 1
  <2>1. WriteOK(Idle)' /\ DeleteOK(Idle)'
    BY DEF WriteOK, DeleteOK, Idle
  <2>2. request' = [request EXCEPT ![q] = Idle]
    BY <1>3 DEF CountSuperusers
  <2> QED BY <1>2, <2>1, <2>2, RequestMoves DEF CountSuperusers
<1>4. CASE ~ (Cardinality(Superusers) <= 1)
  <2> PICK m : m = [n EXCEPT !.at = "delete"]
    OBVIOUS
  <2>1. m \in Deleting /\ m.at = "delete" /\ m.id = n.id
    BY <1>1 DEF Deleting
  <2>2. request' = [request EXCEPT ![q] = m]
    BY <1>4 DEF CountSuperusers
  <2>3. Superusers \ {m.id} # {}
    <3>1. SUFFICES ASSUME Superusers \ {m.id} = {} PROVE FALSE
      OBVIOUS
    <3>2. Superusers = {} \/ Superusers = {m.id}
      BY <3>1
    <3>3. Cardinality(Superusers) = 0 \/ Cardinality(Superusers) = 1
      BY <3>2, FS_EmptySet, FS_Singleton
    <3> QED BY <1>4, <3>3
  <2>4. WriteOK(m)' /\ DeleteOK(m)'
    BY <2>1, <2>3 DEF WriteOK, DeleteOK, Superusers, Exists, CountSuperusers
  <2> QED BY <1>2, <2>1, <2>2, <2>4, RequestMoves DEF CountSuperusers
<1> QED BY <1>3, <1>4

(* The second INSERT of a creation, or its end without one.                *)
LEMMA RelateStep ==
  ASSUME RecordsInv, NEW q \in Request, InsertRelation(q) \/ Abandon(q)
  PROVE  RecordsInv'
<1> PICK n : n = request[q]
  OBVIOUS
<1>1. /\ request' = [request EXCEPT ![q] = Idle] /\ UNCHANGED <<entities, trail>>
      /\ relations \subseteq relations' /\ interrupted \subseteq interrupted'
      /\ n.at = "relate" => n.relation \in relations' \/ n.id \in interrupted'
  BY DEF InsertRelation, Abandon
<1>2. WriteOK(Idle)' /\ DeleteOK(Idle)'
  BY DEF WriteOK, DeleteOK, Idle
<1>3. n.at = "relate" => n \in Inserting
  BY DEF RecordsInv, RecordsTypeOK, Idle, Writing, Deleting
<1>4. \A k \in Request : k # q => request'[k] = request[k]
  BY <1>1 DEF RecordsInv, RecordsTypeOK
<1>5. ASSUME NEW r \in Return, NEW o \in Object, Relates(r, <<r, o, "belongs_to">>)
      PROVE  Relates(r, <<r, o, "belongs_to">>)'
  <2>1. CASE n.at = "relate" /\ n.relation = <<r, o, "belongs_to">>
    <3>1. n.id = r
      BY <1>3, <2>1, IdAssumption DEF Inserting, Relating
    <3> QED BY <1>1, <2>1, <3>1 DEF Relates
  <2>2. CASE ~ (n.at = "relate" /\ n.relation = <<r, o, "belongs_to">>)
    BY <1>1, <1>4, <1>5, <2>2 DEF Relates
  <2> QED BY <2>1, <2>2
<1>6. ASSUME NEW o \in Object, NEW u \in User, Relates(o, <<u, o, "owns">>)
      PROVE  Relates(o, <<u, o, "owns">>)'
  <2>1. CASE n.at = "relate" /\ n.relation = <<u, o, "owns">>
    <3>1. n.id = o
      BY <1>3, <2>1, IdAssumption DEF Inserting, Relating
    <3> QED BY <1>1, <2>1, <3>1 DEF Relates
  <2>2. CASE ~ (n.at = "relate" /\ n.relation = <<u, o, "owns">>)
    BY <1>1, <1>4, <1>6, <2>2 DEF Relates
  <2> QED BY <2>1, <2>2
<1> QED BY <1>1, <1>2, <1>5, <1>6, RequestMoves

-----------------------------------------------------------------------------
(* Steps that write a row.  Whoever holds what was read of it is overtaken,*)
(* everybody else may still rely on what they read.                        *)
LEMMA RowWritten ==
  ASSUME RecordsInv, NEW q \in Request, NEW id \in Id,
         NEW value \in Properties(id) \cup {NULL},
         entities' = [entities EXCEPT ![id] = value], UNCHANGED trail,
         id \notin User => value \in Properties(id),
         id \in Return /\ Exists(id) => value.tax_object_id = entities[id].tax_object_id,
         id \in Object /\ Exists(id) =>
           value.created_by_user_id = entities[id].created_by_user_id,
         NEW after \in {Idle} \cup Inserting, request' = Overtake(q, id, after)
  PROVE  /\ RecordsTypeOK'
         /\ \A k \in Request : WriteOK(request[k])' /\ DeleteOK(request[k])'
<1> USE DEF RecordsInv
<1>1. /\ entities'[id] = value
      /\ \A k \in Id : k # id => entities'[k] = entities[k]
      /\ value # NULL => Exists(id)' /\ value \in Properties(id)
      /\ \A k \in Id : k # id => (Exists(k)' <=> Exists(k))
  BY DEF RecordsTypeOK, Exists
<1>2. /\ entities' \in [Id -> Row \cup {NULL}]
      /\ \A k \in Id : Exists(k)' => entities'[k] \in Properties(k)
      /\ \A k \in TaskEntity : Exists(k)'
  <2>1. value \in Row \cup {NULL}
    BY DEF Row
  <2>2. id \in TaskEntity => value # NULL
    BY IdAssumption
  <2> QED BY <1>1, <2>1, <2>2 DEF RecordsTypeOK, Exists, Id
<1>3. \A k \in Request :
        /\ request[k] \in {Idle} \cup Writing \cup Deleting \cup Inserting
        /\ request'[k] \in {after, request[k], [request[k] EXCEPT !.overtaken = TRUE]}
  BY DEF Overtake, RecordsTypeOK
<1>4. ASSUME NEW k \in Request
      PROVE  /\ request'[k] \in {Idle} \cup Writing \cup Deleting \cup Inserting
             /\ WriteOK(request[k])' /\ DeleteOK(request[k])'
  <2> PICK m : m = request[k]
    OBVIOUS
  <2> PICK n : n = request'[k]
    OBVIOUS
  <2>1. CASE k = q
    <3>1. n = after
      BY <2>1 DEF Overtake
    <3>2. n.at \in {"idle", "relate"}
      BY <3>1 DEF Idle, Inserting, Relating
    <3>3. WriteOK(request[k])' /\ DeleteOK(request[k])'
      BY <3>2 DEF WriteOK, DeleteOK
    <3> QED BY <3>1, <3>3
  <2>2. CASE k # q /\ m.at \in {"write", "audit"}
    <3>1. m \in Writing
      BY <1>3, <2>2 DEF Idle, Deleting, Inserting, Relating
    <3>2. n = IF m.id = id THEN [m EXCEPT !.overtaken = TRUE] ELSE m
      BY <2>2 DEF Overtake
    <3>3. /\ n \in Writing /\ n.at = m.at /\ n.id = m.id /\ n.next = m.next
          /\ n.names = m.names
          /\ IF m.id = id THEN n.overtaken ELSE n.overtaken = m.overtaken
      BY <3>1, <3>2 DEF Writing
    <3>4. WriteOK(m) /\ m.id \in Id
      BY <3>1 DEF Writing
    <3>5. SameParent(n)'
      <4>1. SameParent(m)
        BY <2>2, <3>4 DEF WriteOK
      <4>2. m.id = id /\ id \in Return \cup Object => value # NULL
        BY IdAssumption DEF Id
      <4> QED BY <1>1, <3>3, <3>4, <4>1, <4>2, IdAssumption DEF SameParent, Id
    <3>6. DiffersInNames(n)'
      BY <1>1, <2>2, <3>3, <3>4 DEF WriteOK, DiffersInNames
    <3>7. WriteOK(n)'
      BY <2>2, <3>3, <3>4, <3>5, <3>6 DEF WriteOK
    <3>8. WriteOK(request[k])'
      BY <3>7 DEF WriteOK, SameParent, DiffersInNames
    <3>9. DeleteOK(request[k])'
      BY <2>2, <3>3 DEF DeleteOK
    <3> QED BY <3>3, <3>8, <3>9
  <2>3. CASE k # q /\ m.at \notin {"write", "audit"}
    <3>1. n = IF m.at = "delete" /\ CountIsStale(m.id)
                THEN [m EXCEPT !.overtaken = TRUE] ELSE m
      BY <2>3 DEF Overtake
    <3>2. m.at = "delete" => m \in Deleting
      BY <1>3 DEF Idle, Writing, Inserting, Relating
    <3>3. /\ n \in {Idle} \cup Writing \cup Deleting \cup Inserting
          /\ n.at = m.at
          /\ m.at = "delete" => n.id = m.id
          /\ IF m.at = "delete" /\ CountIsStale(m.id) THEN n.overtaken ELSE n = m
      BY <1>3, <3>1, <3>2 DEF Deleting
    <3>5. DeleteOK(request[k])'
      <4> SUFFICES ASSUME n.at = "delete", ~ n.overtaken, Superusers' # {}
                   PROVE  Superusers' \ {n.id} # {}
        BY DEF DeleteOK
      <4>1. m.at = "delete" /\ n = m /\ ~ m.overtaken /\ ~ CountIsStale(m.id)
        BY <3>3
      <4>2. Superusers \subseteq Superusers' /\ m.id \notin Superusers' \ Superusers
        BY <4>1 DEF CountIsStale
      <4>3. Superusers # {} => Superusers \ {m.id} # {}
        BY <4>1 DEF DeleteOK
      <4> QED BY <4>1, <4>2, <4>3
    <3>6. WriteOK(request[k])'
      BY <2>3, <3>3 DEF WriteOK
    <3> QED BY <3>3, <3>5, <3>6
  <2> QED BY <2>1, <2>2, <2>3
<1>5. request' \in [Request -> {Idle} \cup Writing \cup Deleting \cup Inserting]
  BY <1>4 DEF Overtake
<1> QED BY <1>2, <1>4, <1>5 DEF RecordsTypeOK

(* A relation that is about to be inserted still is, whoever is overtaken. *)
LEMMA OvertakeKeepsInserts ==
  ASSUME NEW q \in Request, NEW id, NEW after, request' = Overtake(q, id, after)
  PROVE  \A k \in Request : k # q /\ request[k].at = "relate" => request'[k] = request[k]
  BY DEF Overtake

(* The UPDATE of a PATCH, of an erasure or of a task.                      *)
LEMMA UpdateStep ==
  ASSUME RecordsInv, NEW q \in Request, Update(q) PROVE RecordsInv'
<1> PICK n : n = request[q]
  OBVIOUS
<1>1. n \in Writing /\ n.at = "write" /\ WriteOK(n)
  BY DEF Update, RecordsInv, RecordsTypeOK, Idle, Deleting, Inserting, Relating
<1>2. CASE ~ Exists(n.id)
  <2>1. request' = [request EXCEPT ![q] = Idle] /\ UNCHANGED <<entities, trail>>
    BY <1>2 DEF Update
  <2>2. WriteOK(Idle)' /\ DeleteOK(Idle)'
    BY DEF WriteOK, DeleteOK, Idle
  <2>3. \A k \in Request : request[k].at = "relate" => request'[k] = request[k]
    BY <1>1, <2>1 DEF RecordsInv, RecordsTypeOK
  <2>4. \A id, r : Relates(id, r) => Relates(id, r)'
    BY <2>3 DEF Relates, Update
  <2> QED BY <2>1, <2>2, <2>4, RequestMoves
<1>3. CASE Exists(n.id)
  <2> PICK id \in Id : id = n.id
    BY <1>1 DEF Writing
  <2>1. /\ entities' = [entities EXCEPT ![id] = n.next]
        /\ request' = Overtake(q, id, Idle)
        /\ UNCHANGED <<relations, interrupted, trail>>
    BY <1>3 DEF Update
  <2>2. n.next \in Properties(id) /\ SameParent(n)
    BY <1>1 DEF WriteOK
  <2>3. RecordsTypeOK' /\ \A k \in Request : WriteOK(request[k])' /\ DeleteOK(request[k])'
    BY <2>1, <2>2, RowWritten DEF SameParent
  <2>4. /\ entities'[id] = n.next
        /\ \A k \in Id : k # id => entities'[k] = entities[k]
        /\ \A k \in Id : Exists(k)' <=> Exists(k)
    BY <1>3, <2>1, <2>2, IdAssumption DEF Exists, RecordsInv, RecordsTypeOK
  <2>5. \A i, r : Relates(i, r) => Relates(i, r)'
    <3>1. \A k \in Request : request[k].at = "relate" => request'[k] = request[k]
      BY <1>1, <2>1, OvertakeKeepsInserts
    <3> QED BY <2>1, <3>1 DEF Relates
  <2>6. RelationsFollowProperties'
    <3>1. \A r \in Return : entities[r] # NULL => entities'[r].tax_object_id = entities[r].tax_object_id
      BY <2>2, <2>4 DEF SameParent, Id
    <3>2. \A o \in Object :
            entities[o] # NULL => entities'[o].created_by_user_id = entities[o].created_by_user_id
      BY <2>2, <2>4 DEF SameParent, Id
    <3>3. \A o \in Object : Exists(o) => entities[o].created_by_user_id \in Id
      BY ParentsExist DEF RecordsInv, RecordsTypeOK, Id
    <3>4. \A r \in Return :
            Exists(r)' => Relates(r, <<r, entities[r].tax_object_id, "belongs_to">>)'
      <4> SUFFICES ASSUME NEW r \in Return, Exists(r)'
                   PROVE  Relates(r, <<r, entities[r].tax_object_id, "belongs_to">>)'
        OBVIOUS
      <4> PICK t : t = <<r, entities[r].tax_object_id, "belongs_to">>
        OBVIOUS
      <4>1. Exists(r) /\ <<r, entities'[r].tax_object_id, "belongs_to">> = t
        BY <2>4, <3>1 DEF Exists, Id
      <4>2. Relates(r, t)'
        BY <2>5, <4>1 DEF RecordsInv, RelationsFollowProperties
      <4> QED BY <4>1, <4>2 DEF Relates
    <3>5. \A o \in Object : Exists(o)' /\ Exists(entities[o].created_by_user_id)' =>
            Relates(o, <<entities[o].created_by_user_id, o, "owns">>)'
      <4> SUFFICES ASSUME NEW o \in Object, Exists(o)', Exists(entities[o].created_by_user_id)'
                   PROVE  Relates(o, <<entities[o].created_by_user_id, o, "owns">>)'
        OBVIOUS
      <4> PICK u : u = entities[o].created_by_user_id
        OBVIOUS
      <4>1. Exists(o) /\ entities'[o].created_by_user_id = u /\ u \in Id
        BY <2>4, <3>2, <3>3 DEF Exists, Id
      <4>2. Exists(u)
        BY <2>4, <4>1 DEF Exists
      <4>3. Relates(o, <<u, o, "owns">>)'
        BY <2>5, <4>1, <4>2 DEF RecordsInv, RelationsFollowProperties
      <4> QED BY <4>1, <4>3 DEF Relates
    <3> QED BY <3>4, <3>5 DEF RelationsFollowProperties
  <2>7. TaskWritesAreAudited'
    <3>1. id \in TaskEntity => <<id, n.next>> \in trail
      BY <1>1 DEF WriteOK
    <3> QED BY <2>1, <2>4, <3>1 DEF TaskWritesAreAudited, RecordsInv, Id
  <2> QED BY <2>3, <2>6, <2>7 DEF RecordsInv
<1> QED BY <1>2, <1>3

(* The DELETE of a user, and of the user's relations.                      *)
LEMMA DeleteStep ==
  ASSUME RecordsInv, NEW q \in Request, Delete(q) PROVE RecordsInv'
<1> PICK n : n = request[q]
  OBVIOUS
<1>1. n \in Deleting /\ n.at = "delete"
  BY DEF Delete, RecordsInv, RecordsTypeOK, Idle, Writing, Inserting, Relating
<1> PICK id \in User : id = n.id
  BY <1>1 DEF Deleting
<1>2. /\ entities' = [entities EXCEPT ![id] = NULL]
      /\ relations' = {r \in relations : id \notin {r[1], r[2]}}
      /\ request' = Overtake(q, id, Idle)
      /\ UNCHANGED <<interrupted, trail>>
  BY DEF Delete
<1>3. id \in Id /\ id \notin Return /\ id \notin Object /\ id \notin TaskEntity
  BY IdAssumption DEF Id
<1>4. RecordsTypeOK' /\ \A k \in Request : WriteOK(request[k])' /\ DeleteOK(request[k])'
  BY <1>2, <1>3, RowWritten
<1>5. /\ ~ Exists(id)'
      /\ \A k \in Id : k # id => entities'[k] = entities[k] /\ (Exists(k)' <=> Exists(k))
  BY <1>2, <1>3 DEF Exists, RecordsInv, RecordsTypeOK
<1>6. ASSUME NEW i, NEW a, NEW b, NEW type, id # a, id # b, Relates(i, <<a, b, type>>)
      PROVE  Relates(i, <<a, b, type>>)'
  <2>1. \A k \in Request : request[k].at = "relate" => request'[k] = request[k]
    BY <1>1, <1>2, OvertakeKeepsInserts
  <2>2. <<a, b, type>> \in relations => <<a, b, type>> \in relations'
    BY <1>2, <1>6
  <2> QED BY <1>2, <1>6, <2>1, <2>2 DEF Relates
<1>7. \A r \in Return :
        Exists(r)' => Relates(r, <<r, entities[r].tax_object_id, "belongs_to">>)'
  <2> SUFFICES ASSUME NEW r \in Return, Exists(r)'
               PROVE  Relates(r, <<r, entities[r].tax_object_id, "belongs_to">>)'
    OBVIOUS
  <2> PICK o : o = entities[r].tax_object_id
    OBVIOUS
  <2>1. Exists(r) /\ entities'[r] = entities[r] /\ o \in Object
    BY <1>3, <1>5, ParentsExist DEF RecordsInv, RecordsTypeOK, Id
  <2>2. Relates(r, <<r, o, "belongs_to">>)
    BY <2>1 DEF RecordsInv, RelationsFollowProperties
  <2>3. Relates(r, <<r, o, "belongs_to">>)'
    BY <1>3, <1>6, <2>1, <2>2
  <2> QED BY <2>1, <2>3 DEF Relates
<1>8. \A o \in Object : Exists(o)' /\ Exists(entities[o].created_by_user_id)' =>
        Relates(o, <<entities[o].created_by_user_id, o, "owns">>)'
  <2> SUFFICES ASSUME NEW o \in Object, Exists(o)', Exists(entities[o].created_by_user_id)'
               PROVE  Relates(o, <<entities[o].created_by_user_id, o, "owns">>)'
    OBVIOUS
  <2> PICK u : u = entities[o].created_by_user_id
    OBVIOUS
  <2>1. Exists(o) /\ entities'[o] = entities[o] /\ u \in User
    BY <1>3, <1>5, ParentsExist DEF RecordsInv, RecordsTypeOK, Id
  <2>2. u # id /\ Exists(u)
    BY <1>5, <2>1 DEF Exists, Id
  <2>3. Relates(o, <<u, o, "owns">>)
    BY <2>1, <2>2 DEF RecordsInv, RelationsFollowProperties
  <2>4. Relates(o, <<u, o, "owns">>)'
    BY <1>3, <1>6, <2>2, <2>3
  <2> QED BY <2>1, <2>4 DEF Relates
<1>9. TaskWritesAreAudited'
  BY <1>2, <1>3, <1>5 DEF TaskWritesAreAudited, RecordsInv, Id
<1> QED BY <1>4, <1>7, <1>8, <1>9 DEF RecordsInv, RelationsFollowProperties

(* The first INSERT of a creation: nobody has read the row before.         *)
LEMMA InsertKeeps ==
  ASSUME RecordsInv, NEW q \in Request, NEW id \in Object \cup Return,
         NEW properties \in Properties(id), NEW relating \in Inserting,
         Insert(q, id, properties, relating), relating.at = "relate",
         relating.relation \in {<<id, properties.tax_object_id, "belongs_to">>,
                               <<properties.created_by_user_id, id, "owns">>},
         relating.relation[3] = IF id \in Return THEN "belongs_to" ELSE "owns"
  PROVE  RecordsInv'
<1>1. id \in Id /\ id \notin User /\ id \notin TaskEntity /\ ~ Exists(id)
  BY IdAssumption DEF Id, Insert
<1>2. request' = Overtake(q, id, relating)
  <2>1. ASSUME NEW k \in Request PROVE ~ (/\ request[k].at \in {"write", "audit"}
                                         /\ request[k].id = id)
    BY <1>1, <2>1 DEF RecordsInv, WriteOK, SameParent
  <2>2. \A u \in User : u # id
    BY <1>1
  <2>3. \A u \in User : entities'[u] = entities[u]
    BY <2>2 DEF Insert, RecordsInv, RecordsTypeOK, Id
  <2>4. Superusers' = Superusers
    BY <2>3 DEF Superusers, Exists
  <2>5. \A k \in Request : ~ CountIsStale(request[k].id)
    BY <2>4 DEF CountIsStale
  <2> QED BY <2>1, <2>5 DEF Insert, Overtake, RecordsInv, RecordsTypeOK
<1>3. /\ entities' = [entities EXCEPT ![id] = properties]
      /\ UNCHANGED <<relations, interrupted, trail>>
  BY DEF Insert
<1>4. RecordsTypeOK' /\ \A k \in Request : WriteOK(request[k])' /\ DeleteOK(request[k])'
  BY <1>1, <1>2, <1>3, RowWritten
<1>5. /\ entities'[id] = properties
      /\ \A k \in Id : k # id => entities'[k] = entities[k] /\ (Exists(k)' <=> Exists(k))
  BY <1>1, <1>3 DEF Exists, RecordsInv, RecordsTypeOK
<1>6. \A i, r : Relates(i, r) => Relates(i, r)'
  <2>1. \A k \in Request : request[k].at = "relate" => request'[k] = request[k]
    BY DEF Insert, Idle, RecordsInv, RecordsTypeOK
  <2> QED BY <1>3, <2>1 DEF Relates
<1>7. Relates(id, relating.relation)'
  <2>1. request'[q] = relating
    BY DEF Insert, RecordsInv, RecordsTypeOK
  <2> QED BY <2>1 DEF Relates
<1>8. \A r \in Return :
        Exists(r)' => Relates(r, <<r, entities[r].tax_object_id, "belongs_to">>)'
  <2> SUFFICES ASSUME NEW r \in Return, Exists(r)'
               PROVE  Relates(r, <<r, entities[r].tax_object_id, "belongs_to">>)'
    OBVIOUS
  <2> PICK t : t = <<r, entities'[r].tax_object_id, "belongs_to">>
    OBVIOUS
  <2>1. Relates(r, t)'
    <3>1. CASE r = id
      <4>1. relating.relation = t
        BY <1>5, <3>1
      <4> QED BY <1>7, <3>1, <4>1
    <3>2. CASE r # id
      <4>1. Exists(r) /\ <<r, entities[r].tax_object_id, "belongs_to">> = t
        BY <1>5, <3>2 DEF Id
      <4> QED BY <1>6, <4>1 DEF RecordsInv, RelationsFollowProperties
    <3> QED BY <3>1, <3>2
  <2> QED BY <2>1 DEF Relates
<1>9. \A o \in Object : Exists(o)' /\ Exists(entities[o].created_by_user_id)' =>
        Relates(o, <<entities[o].created_by_user_id, o, "owns">>)'
  <2> SUFFICES ASSUME NEW o \in Object, Exists(o)', Exists(entities[o].created_by_user_id)'
               PROVE  Relates(o, <<entities[o].created_by_user_id, o, "owns">>)'
    OBVIOUS
  <2> PICK t : t = <<entities'[o].created_by_user_id, o, "owns">>
    OBVIOUS
  <2>1. Relates(o, t)'
    <3>1. CASE o = id
      <4>1. relating.relation = t
        BY <1>5, <3>1, IdAssumption
      <4> QED BY <1>7, <3>1, <4>1
    <3>2. CASE o # id
      <4> PICK u : u = entities[o].created_by_user_id
        OBVIOUS
      <4>1. Exists(o) /\ <<u, o, "owns">> = t /\ u \in User /\ entities'[o] = entities[o]
        BY <1>5, <3>2, ParentsExist DEF Id, RecordsInv, RecordsTypeOK
      <4>2. Exists(u)
        BY <1>1, <1>5, <4>1 DEF Id, Exists
      <4> QED BY <1>6, <4>1, <4>2 DEF RecordsInv, RelationsFollowProperties
    <3> QED BY <3>1, <3>2
  <2> QED BY <2>1 DEF Relates
<1>10. TaskWritesAreAudited'
  BY <1>1, <1>3, <1>5 DEF TaskWritesAreAudited, RecordsInv, Id
<1> QED BY <1>4, <1>8, <1>9, <1>10 DEF RecordsInv, RelationsFollowProperties

(* POST of an object and of a return.                                      *)
LEMMA CreateStep ==
  ASSUME RecordsInv, NEW q \in Request, CreateTaxObject(q) \/ CreateTaxReturn(q)
  PROVE  RecordsInv'
<1>1. CASE CreateTaxObject(q)
  <2>1. PICK id \in Object, user \in User, y \in Year :
          Insert(q, id,
                 [created_by_user_id |-> user, filing_year |-> y, display_name |-> "default"],
                 Relating(id, user, id, "owns"))
    BY <1>1 DEF CreateTaxObject
  <2> DEFINE row == [created_by_user_id |-> user, filing_year |-> y, display_name |-> "default"]
             m   == Relating(id, user, id, "owns")
  <2>2. row \in Properties(id) /\ row.created_by_user_id = user
    BY PropertiesByKind
  <2>3. m \in Inserting /\ m.at = "relate" /\ m.relation = <<user, id, "owns">>
    BY DEF Inserting, Relating
  <2>4. m.relation[3] = "owns" /\ id \notin Return
    BY <2>3, IdAssumption
  <2> HIDE DEF row, m
  <2> QED BY <2>1, <2>2, <2>3, <2>4, InsertKeeps DEF row, m
<1>2. CASE CreateTaxReturn(q)
  <2>1. PICK id \in Return, object \in Object, y \in Year, data \in {"absent", "document"} :
          Insert(q, id, NewReturn(object, y, data), Relating(id, id, object, "belongs_to"))
    BY <1>2 DEF CreateTaxReturn
  <2> DEFINE row == NewReturn(object, y, data)
             m   == Relating(id, id, object, "belongs_to")
  <2>2. row \in Properties(id) /\ row.tax_object_id = object
    BY PropertiesByKind DEF NewReturn
  <2>3. m \in Inserting /\ m.at = "relate" /\ m.relation = <<id, object, "belongs_to">>
    BY DEF Inserting, Relating
  <2>4. m.relation[3] = "belongs_to"
    BY <2>3
  <2> HIDE DEF row, m
  <2> QED BY <2>1, <2>2, <2>3, <2>4, InsertKeeps DEF row, m
<1> QED BY <1>1, <1>2

(* Every step of every handler.                                            *)
LEMMA RecordsStep == RecordsInv /\ [RecordsNext]_recordsVars => RecordsInv'
<1> SUFFICES ASSUME RecordsInv, [RecordsNext]_recordsVars PROVE RecordsInv'
  OBVIOUS
<1>1. CASE UNCHANGED recordsVars
  BY <1>1 DEF recordsVars, RecordsInv, RecordsTypeOK, WriteOK, DeleteOK, SameParent,
              DiffersInNames, Exists, Superusers, RelationsFollowProperties, Relates,
              TaskWritesAreAudited
<1>2. ASSUME NEW q \in Request,
             AccountRequests(q) \/ TaskRequests(q) \/ FilingRequests(q) \/ EveryRequest(q)
      PROVE  RecordsInv'
  BY <1>2, PatchStep, DeleteUserStep, AuditTaskStep, CountStep, RelateStep, UpdateStep,
     DeleteStep, CreateStep
     DEF AccountRequests, TaskRequests, FilingRequests, EveryRequest, Creations
<1> QED BY <1>1, <1>2 DEF RecordsNext

-----------------------------------------------------------------------------
(* Only an UPDATE or a DELETE ends a handler and changes a row.            *)
LEMMA WhoWrites ==
  ASSUME RecordsInv, RecordsNext, NEW q \in Request,
         request[q].at \in {"write", "delete"}, entities' # entities, request'[q] = Idle
  PROVE  Update(q) \/ Delete(q)
<1>1. PICK p \in Request :
        AccountRequests(p) \/ TaskRequests(p) \/ FilingRequests(p) \/ EveryRequest(p)
  BY DEF RecordsNext
<1>2. Update(p) \/ Delete(p) \/ CreateTaxObject(p) \/ CreateTaxReturn(p)
  BY <1>1 DEF AccountRequests, TaskRequests, FilingRequests, EveryRequest, Creations,
       PatchPreferences, PatchUserByAdmin, CountSuperusers, PatchTask, AuditTask,
       InsertRelation, PatchTaxReturn, PatchTaxObject, Erase, DeleteUser, Abandon, Hold
<1>3. CASE Update(p) \/ Delete(p)
  <2>1. CASE p = q
    BY <1>3, <2>1
  <2>2. CASE p # q
    <3>1. PICK id : request' = Overtake(p, id, Idle)
      BY <1>3 DEF Update, Delete
    <3>2. request'[q] \in {request[q], [request[q] EXCEPT !.overtaken = TRUE]}
      BY <2>2, <3>1 DEF Overtake
    <3>3. request'[q].at = request[q].at
      BY <3>2 DEF RecordsInv, RecordsTypeOK, Idle, Writing, Deleting, Inserting, Relating
    <3> QED BY <3>3 DEF Idle
  <2> QED BY <2>1, <2>2
<1>4. CASE CreateTaxObject(p) \/ CreateTaxReturn(p)
  <2>1. PICK m : m.at = "relate" /\ request' = [request EXCEPT ![p] = m]
    BY <1>4 DEF CreateTaxObject, CreateTaxReturn, Insert, Relating
  <2>2. request'[q] = m \/ request'[q] = request[q]
    BY <2>1 DEF RecordsInv, RecordsTypeOK
  <2> QED BY <2>1, <2>2 DEF Idle
<1> QED BY <1>2, <1>3, <1>4

(* Graph and properties agree, whatever handlers overlap, fail or end in   *)
(* the middle (tax-objects.ts:135-146, tax-returns.ts:226-252).            *)
THEOREM GraphAgrees == RecordsSpec => []RelationsFollowProperties
<1>1. RecordsInv => RelationsFollowProperties
  BY DEF RecordsInv
<1> QED BY RecordsStart, RecordsStep, <1>1, PTL DEF RecordsSpec

(* A task is in no state that the audit log does not show: the entry comes *)
(* before the write (task-write-service.ts:52-77).                         *)
THEOREM TasksAreAudited == RecordsSpec => []TaskWritesAreAudited
<1>1. RecordsInv => TaskWritesAreAudited
  BY DEF RecordsInv
<1> QED BY RecordsStart, RecordsStep, <1>1, PTL DEF RecordsSpec

(* Whoever is not overtaken between its read and its write changes nothing *)
(* that its request is not about: the merge of the PATCH handlers, the     *)
(* anonymised row of an erasure.  Not so the PATCH of preferences          *)
(* (users.ts:101).                                                         *)
THEOREM UndoNeedsARace == RecordsSpec => OnlyOvertakenWritesUndo
<1> DEFINE Undo ==
      \A q \in Request : Writes(q) /\ ~ OfPreferences(q) => ChangesOnlyNames(q)
<1>1. ASSUME RecordsInv, [RecordsNext]_recordsVars PROVE Undo
  <2> SUFFICES ASSUME NEW q \in Request, Writes(q), ~ OfPreferences(q)
               PROVE  ChangesOnlyNames(q)
    OBVIOUS
  <2>1. Update(q)
    BY <1>1, WhoWrites DEF Writes, recordsVars, Delete
  <2>2. /\ Exists(request[q].id)
        /\ entities' = [entities EXCEPT ![request[q].id] = request[q].next]
    BY <2>1 DEF Writes, Update
  <2>3. request[q].id \in Id
    BY <1>1 DEF Writes, RecordsInv, RecordsTypeOK, Idle, Writing, Deleting, Inserting,
                Relating
  <2>4. entities'[request[q].id] = request[q].next
    BY <1>1, <2>2, <2>3 DEF RecordsInv, RecordsTypeOK
  <2>5. DiffersInNames(request[q])
    BY <1>1 DEF Writes, RecordsInv, WriteOK
  <2> QED BY <2>2, <2>4, <2>5 DEF Writes, OfPreferences, DiffersInNames, ChangesOnlyNames
<1> QED BY <1>1, RecordsStart, RecordsStep, PTL DEF RecordsSpec, OnlyOvertakenWritesUndo

(* The check of DELETE /api/users/:id keeps a superuser, unless another    *)
(* request takes one away between its count and its DELETE, or makes its   *)
(* target one after its read (users.ts:115-155).                           *)
THEOREM LastSuperuserStays == RecordsSpec => LastSuperuserNeedsARace
<1> DEFINE Stays ==
      \A q \in Request :
        request[q].at = "delete" /\ ~ request[q].overtaken /\ request'[q] = Idle
          /\ Superusers # {} /\ entities' # entities => Superusers' # {}
<1>1. ASSUME RecordsInv, [RecordsNext]_recordsVars PROVE Stays
  <2> SUFFICES ASSUME NEW q \in Request, request[q].at = "delete", ~ request[q].overtaken,
                      request'[q] = Idle, Superusers # {}, entities' # entities
               PROVE  Superusers' # {}
    OBVIOUS
  <2>1. Delete(q)
    BY <1>1, WhoWrites DEF recordsVars, Update
  <2>2. entities' = [entities EXCEPT ![request[q].id] = NULL]
    BY <2>1 DEF Delete
  <2>3. PICK u \in Superusers : u # request[q].id
    BY <1>1 DEF RecordsInv, DeleteOK
  <2>4. entities'[u] = entities[u]
    BY <1>1, <2>2, <2>3 DEF RecordsInv, RecordsTypeOK, Superusers, Id
  <2> QED BY <2>3, <2>4 DEF Superusers, Exists
<1> QED BY <1>1, RecordsStart, RecordsStep, PTL DEF RecordsSpec, LastSuperuserNeedsARace
=============================================================================
