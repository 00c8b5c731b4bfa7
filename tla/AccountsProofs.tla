--------------------------- MODULE AccountsProofs ---------------------------
(***************************************************************************)
(* Proofs about Accounts, for all calls, names, users that are there from  *)
(* the beginning, limits and windows.                                      *)
(***************************************************************************)
EXTENDS Accounts, SequenceTheorems, FiniteSetTheorems, TLAPS

Place ==
  AtServer \cup {"new", "refused", "signed_in", "signed_in_by_key", "ok", "logged_out",
                 "mismatch"}

Row  == {<<c, n>> : c \in Call, n \in Username} \cup Seeded
Hits == UNION {[{"login", n} -> Nat \X Nat] : n \in Username}

CallRecord ==
  [at : Place, name : Username \cup {Nobody}, user : UserId \cup {Nobody},
   key : KeyId \cup {Nobody}, challenge : Call \cup {Nobody}, count : Nat, stored : Nat, cookies : SUBSET Call,
   saw : SUBSET Row, tried : SUBSET Hits, disturbed : BOOLEAN]

ChallengeRow ==
  [id : Call, user : UserId \cup {Nobody}, type : {"authentication", "registration"}]

Field == {"at", "name", "user", "key", "challenge", "count", "stored", "cookies", "saw", "tried",
          "disturbed"}

Value(f) ==
  CASE f = "at" -> Place
    [] f = "name" -> Username \cup {Nobody}
    [] f = "user" -> UserId \cup {Nobody}
    [] f = "key" -> KeyId \cup {Nobody}
    [] f = "challenge" -> Call \cup {Nobody}
    [] f \in {"count", "stored"} -> Nat
    [] f = "cookies" -> SUBSET Call
    [] f = "saw" -> SUBSET Row
    [] f = "tried" -> SUBSET Hits
    [] f = "disturbed" -> BOOLEAN

(* What a call has found out by the time it is somewhere.                  *)
KnowsName == {"lookup", "insert", "find"}
KnowsKey  == {"sent", "challenge", "delete", "update"}

(* A limiter keeps finitely many hits, those of one instant numbered.      *)
StoreOK(l) ==
  /\ IsFiniteSet(store[l])
  /\ \A h \in store[l] :
       h[1] <= clock /\ h[2] <= Cardinality({g \in store[l] : g[1] = h[1]})

TypeOK ==
  /\ clock \in Nat
  /\ store \in [Limiter -> SUBSET (Nat \X Nat)]
  /\ \A l \in Limiter : StoreOK(l)
  /\ users \subseteq Row
  /\ calls \in [Call -> CallRecord]
  /\ \A c \in Call : /\ calls[c].at \in KnowsName => calls[c].name \in Username
                     /\ calls[c].at \in KnowsKey => calls[c].key \in KeyId
  /\ secure \in BOOLEAN
  /\ browser \in [host : Call \cup {Nobody}, plain : Call \cup {Nobody}, csrf : BOOLEAN]
  /\ \A c \in {browser.host, browser.plain} \ {Nobody} : calls[c].at = "ok"
  /\ challenges \in Seq(ChallengeRow)
  /\ passkeys \in [KeyId -> Nat \cup {None}]
  /\ device \in [KeyId -> Nat \cup {None}]

Cookies == {browser.host, browser.plain} \ {Nobody}

(* What a step does to the call it is a step of, and to another call.      *)
Bystander(d) ==
  /\ \A f \in Field \ {"disturbed"} : calls'[d][f] = calls[d][f]
  /\ calls[d].disturbed => calls'[d].disturbed

Becomes(c, to, changed) ==
  /\ calls' \in [Call -> CallRecord]
  /\ calls'[c].at = to
  /\ \A f \in Field \ ({"at"} \cup changed) : calls'[c][f] = calls[c][f]
  /\ \A d \in Call \ {c} : Bystander(d)

Step(c, from, to, changed) == calls[c].at = from /\ Becomes(c, to, changed)

Disturbs(c, others) == \A d \in others \ {c} : calls'[d].disturbed

(* Calls and limiters keep their types.                                    *)
CallsTyped ==
  /\ calls' \in [Call -> CallRecord]
  /\ \A d \in Call : /\ calls'[d].at \in KnowsName => calls'[d].name \in Username
                     /\ calls'[d].at \in KnowsKey => calls'[d].key \in KeyId
  /\ \A d \in Cookies : calls'[d].at = "ok"

LimitsTyped ==
  /\ clock' \in Nat /\ store' \in [Limiter -> SUBSET (Nat \X Nat)]
  /\ \A l \in Limiter : StoreOK(l)'

-----------------------------------------------------------------------------
(* The first state has the types.                                          *)
LEMMA AccountsStart == AccountsInit => TypeOK
<1> SUFFICES ASSUME AccountsInit PROVE TypeOK
  OBVIOUS
<1>1. NewCall \in CallRecord
  BY DEF NewCall, CallRecord, Place
<1>2. <<>> \in Seq(ChallengeRow)
  OBVIOUS
<1> QED BY <1>1, <1>2, FS_EmptySet DEF StoreOK, AccountsInit, TypeOK, NewCall, KnowsName, KnowsKey, Row, None

(* The type of a call, field by field.                                     *)
LEMMA CallFields ==
  ASSUME NEW call
  PROVE  call \in CallRecord
         <=> /\ call = [f \in Field |-> call[f]]
             /\ call["at"] \in Place
             /\ call["name"] \in Username \cup {Nobody}
             /\ call["user"] \in UserId \cup {Nobody}
             /\ call["key"] \in KeyId \cup {Nobody}
             /\ call["challenge"] \in Call \cup {Nobody}
             /\ call["count"] \in Nat
             /\ call["stored"] \in Nat
             /\ call["cookies"] \subseteq Call
             /\ call["saw"] \subseteq Row
             /\ call["tried"] \subseteq Hits
             /\ call["disturbed"] \in BOOLEAN
  BY DEF CallRecord, Field

(* A call takes a new record, and the others keep theirs or are disturbed. *)
LEMMA OneCall ==
  ASSUME TypeOK, NEW c \in Call, NEW call \in CallRecord, NEW others,
         Set(c, call) \/ Disturb(c, call, others)
  PROVE  /\ calls' \in [Call -> CallRecord] /\ calls'[c] = call
         /\ \A d \in Call \ {c} : Bystander(d)
<1>1. \A r \in CallRecord :
        LET s == [r EXCEPT !.disturbed = TRUE]
        IN  /\ s \in CallRecord /\ s.disturbed
            /\ \A f \in Field \ {"disturbed"} : s[f] = r[f]
  BY DEF CallRecord, Field
<1>2. \A d \in Call : calls[d] \in CallRecord
  BY DEF TypeOK
<1>3. CASE Set(c, call)
  BY <1>2, <1>3 DEF Set, TypeOK, Bystander
<1>4. CASE Disturb(c, call, others)
  BY <1>1, <1>2, <1>4 DEF Disturb, Bystander, Field
<1> QED BY <1>3, <1>4

(* So do the steps that only move a call, ...                              *)
LEMMA Moves ==
  ASSUME TypeOK, NEW c \in Call, NEW to \in Place, NEW others,
         \/ Set(c, [calls[c] EXCEPT !.at = to])
         \/ Disturb(c, [calls[c] EXCEPT !.at = to], others)
  PROVE  Becomes(c, to, {})
<1> DEFINE s == [calls[c] EXCEPT !.at = to]
           t == [k \in Field |-> IF k = "at" THEN to ELSE calls[c][k]]
<1>1. calls[c] \in CallRecord
  BY DEF TypeOK
<1>2. s = t
  BY <1>1, CallFields
<1>3. t \in CallRecord
  BY <1>1, CallFields DEF Value, Field
<1>4. /\ calls' \in [Call -> CallRecord] /\ calls'[c] = t
      /\ \A d \in Call \ {c} : Bystander(d)
  <2> HIDE DEF t
  <2> QED BY <1>2, <1>3, OneCall
<1> QED BY <1>3, <1>4 DEF Becomes, Field

(* ... those that also change another field, ...                           *)
LEMMA MovesWith ==
  ASSUME TypeOK, NEW c \in Call, NEW to \in Place,
         NEW f \in Field \ {"at"}, NEW x \in Value(f), NEW others,
         \/ Set(c, [calls[c] EXCEPT !.at = to, ![f] = x])
         \/ Disturb(c, [calls[c] EXCEPT !.at = to, ![f] = x], others)
  PROVE  Becomes(c, to, {f}) /\ calls'[c][f] = x
<1> DEFINE s == [calls[c] EXCEPT !.at = to, ![f] = x]
           t == [k \in Field |-> IF k = f THEN x ELSE IF k = "at" THEN to ELSE calls[c][k]]
<1>1. calls[c] \in CallRecord
  BY DEF TypeOK
<1>2. s = t
  BY <1>1, CallFields
<1>3. t \in CallRecord
  BY <1>1, CallFields DEF Value, Field
<1>4. /\ calls' \in [Call -> CallRecord] /\ calls'[c] = t
      /\ \A d \in Call \ {c} : Bystander(d)
  <2> HIDE DEF t
  <2> QED BY <1>2, <1>3, OneCall
<1> QED BY <1>3, <1>4 DEF Becomes, Field

(* ... and those that change two.                                          *)
LEMMA MovesWithBoth ==
  ASSUME TypeOK, NEW c \in Call, NEW to \in Place,
         NEW f \in Field \ {"at"}, NEW x \in Value(f),
         NEW g \in Field \ {"at", f}, NEW y \in Value(g),
         Set(c, [calls[c] EXCEPT !.at = to, ![f] = x, ![g] = y])
  PROVE  Becomes(c, to, {f, g}) /\ calls'[c][f] = x /\ calls'[c][g] = y
<1> DEFINE s == [calls[c] EXCEPT !.at = to, ![f] = x, ![g] = y]
           t == [k \in Field |-> IF k = g THEN y ELSE IF k = f THEN x
                           ELSE IF k = "at" THEN to ELSE calls[c][k]]
<1>1. calls[c] \in CallRecord
  BY DEF TypeOK
<1>2. s = t
  BY <1>1, CallFields
<1>3. t \in CallRecord
  BY <1>1, CallFields DEF Value, Field
<1>4. /\ calls' \in [Call -> CallRecord] /\ calls'[c] = t
      /\ \A d \in Call \ {c} : Bystander(d)
  <2> HIDE DEF t
  <2> QED BY <1>2, <1>3, OneCall
<1> QED BY <1>3, <1>4 DEF Becomes, Field

-----------------------------------------------------------------------------
(* Taking hits of an earlier instant away leaves the numbers as they are;  *)
(* a hit that is counted is a new one.                                     *)
LEMMA InWindowIsFinite ==
  ASSUME TypeOK, NEW l \in Limiter
  PROVE  /\ IsFiniteSet(store[l]) /\ IsFiniteSet(InWindow(l))
         /\ Cardinality(InWindow(l)) \in Nat
         /\ InWindow(l) \subseteq store[l]
         /\ Hit(l) \in Nat \X Nat
         /\ Hit(l) \notin store[l]
<1>1. IsFiniteSet(store[l]) /\ store[l] \subseteq Nat \X Nat
  BY DEF TypeOK, StoreOK
<1>2. InWindow(l) \in SUBSET store[l] /\ {h \in store[l] : h[1] = clock} \in SUBSET store[l]
  BY DEF InWindow
<1>3. IsFiniteSet(InWindow(l)) /\ IsFiniteSet({h \in store[l] : h[1] = clock})
  BY <1>1, <1>2, FS_Subset
<1>4. Cardinality(InWindow(l)) \in Nat /\ Cardinality({h \in store[l] : h[1] = clock}) \in Nat
  BY <1>3, FS_CardinalityType
<1>5. Hit(l) \in Nat \X Nat /\ Hit(l)[1] = clock
      /\ Hit(l)[2] = Cardinality({h \in store[l] : h[1] = clock}) + 1
  <2> DEFINE k == Cardinality({h \in store[l] : h[1] = clock})
  <2>1. Hit(l) = <<clock, k + 1>>
    BY DEF Hit
  <2>2. clock \in Nat /\ k \in Nat
    BY <1>4 DEF TypeOK
  <2> HIDE DEF k
  <2>3. Hit(l) \in Nat \X Nat /\ Hit(l)[1] = clock /\ Hit(l)[2] = k + 1
    BY <2>1, <2>2
  <2> QED BY <2>3 DEF k
<1>6. Hit(l) \notin store[l]
  <2> SUFFICES ASSUME Hit(l) \in store[l] PROVE FALSE
    OBVIOUS
  <2> DEFINE h == Hit(l)
  <2>1. h[2] <= Cardinality({g \in store[l] : g[1] = h[1]})
    BY DEF TypeOK, StoreOK
  <2> QED BY <2>1, <1>5, <1>4
<1> QED BY <1>1, <1>2, <1>3, <1>4, <1>5, <1>6

(* What is in the window goes on being numbered, with or without a hit.    *)
LEMMA WindowTyped ==
  ASSUME TypeOK, NEW l \in Limiter, clock' = clock,
         store'[l] \in {store[l], {}, InWindow(l), InWindow(l) \cup {Hit(l)}}
  PROVE  store'[l] \subseteq Nat \X Nat /\ StoreOK(l)'
<1>1. /\ IsFiniteSet(store[l]) /\ IsFiniteSet(InWindow(l))
      /\ InWindow(l) \subseteq store[l] /\ store[l] \subseteq Nat \X Nat
      /\ Hit(l) \in Nat \X Nat /\ Hit(l) \notin store[l]
      /\ clock \in Nat /\ Window[l] \in Nat \ {0}
  BY InWindowIsFinite, AccountsAssumption DEF TypeOK
<1>2. \A h \in store[l] :
        h[1] <= clock /\ h[2] <= Cardinality({g \in store[l] : g[1] = h[1]})
  BY DEF TypeOK, StoreOK
<1>3. \A h \in InWindow(l) :
        {g \in InWindow(l) : g[1] = h[1]} = {g \in store[l] : g[1] = h[1]}
  BY <1>1 DEF InWindow
<1>4. CASE store'[l] = store[l]
  BY <1>4, <1>1, <1>2 DEF StoreOK
<1>5. CASE store'[l] = {}
  BY <1>5, FS_EmptySet DEF StoreOK
<1>6. CASE store'[l] = InWindow(l)
  BY <1>6, <1>1, <1>2, <1>3 DEF StoreOK
<1>7. CASE store'[l] = InWindow(l) \cup {Hit(l)}
  <2> DEFINE S == InWindow(l) \cup {Hit(l)}
             Now(T) == {g \in T : g[1] = clock}
  <2>1. IsFiniteSet(S) /\ S \subseteq Nat \X Nat
    BY <1>1, FS_AddElement
  <2>2. Now(S) = Now(store[l]) \cup {Hit(l)} /\ Hit(l) \notin Now(store[l])
    BY <1>1 DEF InWindow, Hit
  <2>3. IsFiniteSet(Now(store[l])) /\ Cardinality(Now(store[l])) \in Nat
    <3>1. Now(store[l]) \in SUBSET store[l]
      OBVIOUS
    <3> QED BY <3>1, <1>1, FS_Subset, FS_CardinalityType
  <2>4. Cardinality(Now(S)) = Cardinality(Now(store[l])) + 1
    BY <2>2, <2>3, FS_AddElement
  <2>5. ASSUME NEW h \in S
        PROVE  h[1] <= clock /\ h[2] <= Cardinality({g \in S : g[1] = h[1]})
    <3>1. CASE h = Hit(l)
      <4>1. h[1] = clock /\ h[2] = Cardinality(Now(store[l])) + 1
        BY <3>1 DEF Hit
      <4>2. {g \in S : g[1] = h[1]} = Now(S)
        BY <4>1
      <4> QED BY <4>1, <4>2, <2>4, <2>3, <1>1
    <3>2. CASE h \in InWindow(l) /\ h[1] = clock
      <4>1. {g \in S : g[1] = h[1]} = Now(S) /\ {g \in store[l] : g[1] = h[1]} = Now(store[l])
        BY <3>2
      <4>2. h[2] \in Nat /\ h[2] <= Cardinality(Now(store[l]))
        BY <3>2, <4>1, <1>1, <1>2
      <4> QED BY <3>2, <4>1, <4>2, <2>4, <2>3, <1>1
    <3>3. CASE h \in InWindow(l) /\ h[1] # clock
      <4>1. {g \in S : g[1] = h[1]} = {g \in InWindow(l) : g[1] = h[1]}
        BY <3>3 DEF Hit
      <4> QED BY <3>3, <4>1, <1>1, <1>2, <1>3
    <3> QED BY <3>1, <3>2, <3>3
  <2> QED BY <1>7, <2>1, <2>5 DEF StoreOK
<1> QED BY <1>4, <1>5, <1>6, <1>7

(* So does every way that a step leaves the limiters.                      *)
LEMMA LimitsKept ==
  ASSUME TypeOK, clock' = clock,
         \/ store' = store \/ store' = [l \in Limiter |-> {}]
         \/ store' = [l \in Limiter |-> InWindow(l)]
         \/ \E limiters : store' = Counted(limiters)
  PROVE  LimitsTyped
<1>1. store' = [l \in Limiter |-> store'[l]]
  BY DEF Counted, TypeOK
<1>2. ASSUME NEW l \in Limiter
      PROVE  store'[l] \in {store[l], {}, InWindow(l), InWindow(l) \cup {Hit(l)}}
  BY DEF Counted
<1>3. \A l \in Limiter : store'[l] \subseteq Nat \X Nat /\ StoreOK(l)'
  BY <1>2, WindowTyped
<1>4. clock' \in Nat
  BY DEF TypeOK
<1> QED BY <1>1, <1>3, <1>4 DEF LimitsTyped

(* A sequence without the element at a position.                           *)
LEMMA RemoveAtProperties ==
  ASSUME NEW S, NEW s \in Seq(S), NEW i \in 1 .. Len(s)
  PROVE  /\ RemoveAt(s, i) \in Seq(S)
         /\ Len(RemoveAt(s, i)) = Len(s) - 1
         /\ \A k \in 1 .. Len(s) - 1 : RemoveAt(s, i)[k] = IF k < i THEN s[k] ELSE s[k + 1]
<1> DEFINE a == SubSeq(s, 1, i - 1)
           b == SubSeq(s, i + 1, Len(s))
<1>1. Len(s) \in Nat /\ i \in Int /\ \A k \in 1 .. Len(s) : s[k] \in S
  BY LenProperties, ElementOfSeq
<1>2. a \in Seq(S) /\ Len(a) = i - 1 /\ \A k \in 1 .. i - 1 : a[k] = s[k]
  <2>1. \A k \in 1 .. i - 1 : s[k] \in S
    BY <1>1
  <2>2. /\ a \in Seq(S) /\ Len(a) = IF 1 <= i - 1 THEN i - 1 - 1 + 1 ELSE 0
        /\ \A k \in 1 .. i - 1 - 1 + 1 : a[k] = s[1 + k - 1]
    BY <2>1, <1>1, SubSeqProperties
  <2> QED BY <2>2, <1>1
<1>3. b \in Seq(S) /\ Len(b) = Len(s) - i /\ \A k \in 1 .. Len(s) - i : b[k] = s[i + k]
  <2>1. \A k \in i + 1 .. Len(s) : s[k] \in S
    BY <1>1
  <2>2. /\ b \in Seq(S) /\ Len(b) = IF i + 1 <= Len(s) THEN Len(s) - (i + 1) + 1 ELSE 0
        /\ \A k \in 1 .. Len(s) - (i + 1) + 1 : b[k] = s[i + 1 + k - 1]
    BY <2>1, <1>1, SubSeqProperties
  <2> QED BY <2>2, <1>1
<1>4. /\ a \o b \in Seq(S) /\ Len(a \o b) = Len(a) + Len(b)
      /\ \A k \in 1 .. Len(a) + Len(b) :
           (a \o b)[k] = IF k <= Len(a) THEN a[k] ELSE b[k - Len(a)]
  BY <1>2, <1>3, ConcatProperties
<1>5. RemoveAt(s, i) = a \o b
  BY DEF RemoveAt
<1> HIDE DEF a, b
<1>6. Len(a) + Len(b) = Len(s) - 1
  BY <1>1, <1>2, <1>3
<1>7. ASSUME NEW k \in 1 .. Len(s) - 1
      PROVE  (a \o b)[k] = IF k < i THEN s[k] ELSE s[k + 1]
  <2>1. (a \o b)[k] = IF k <= i - 1 THEN a[k] ELSE b[k - (i - 1)]
    BY <1>1, <1>2, <1>4, <1>6
  <2>2. CASE k < i
    BY <2>1, <2>2, <1>1, <1>2
  <2>3. CASE ~ k < i
    <3>1. k - (i - 1) \in 1 .. Len(s) - i /\ i + (k - (i - 1)) = k + 1
      BY <2>3, <1>1
    <3> QED BY <2>1, <2>3, <3>1, <1>1, <1>3
  <2> QED BY <2>2, <2>3
<1> QED BY <1>4, <1>5, <1>6, <1>7

(* The challenges that are left when one is used, or the oldest expires.   *)
LEMMA ChallengesTyped ==
  ASSUME challenges \in Seq(ChallengeRow)
  PROVE  /\ \A i \in DOMAIN challenges :
              /\ challenges[i] \in ChallengeRow
              /\ RemoveAt(challenges, i) \in Seq(ChallengeRow)
         /\ challenges # <<>> => Tail(challenges) \in Seq(ChallengeRow)
  BY LenProperties, ElementOfSeq, RemoveAtProperties, HeadTailProperties

-----------------------------------------------------------------------------
(* What each action does to its call: of a password, ...                   *)
LEMMA PasswordCalls ==
  ASSUME TypeOK, NEW c \in Call
  PROVE  /\ \A n \in Username : RegisterBegins(c, n) =>
              \/ Step(c, "new", "lookup", {"name"}) /\ calls'[c].name = n
              \/ Step(c, "new", "refused", {})
         /\ LookUp(c) =>
              \/ /\ Step(c, "lookup", "insert", {"saw"}) /\ calls'[c].saw = users
                 /\ Named(calls[c].name) = {}
              \/ Step(c, "lookup", "refused", {})
         /\ InsertUser(c) => Step(c, "insert", "signed_in", {"user"}) /\ calls'[c].user = c
         /\ LoginBegins(c) => Step(c, "new", "body", {}) \/ Step(c, "new", "refused", {})
         /\ FindUser(c) =>
              \/ /\ Step(c, "find", "verify", {"user"})
                 /\ calls'[c].user \in UserId
              \/ Step(c, "find", "refused", {})
         /\ VerifyPassword(c) => Step(c, "verify", "signed_in", {})
         /\ SignedIn(c) => Step(c, "signed_in", "ok", {})
<1>0. {"lookup", "insert", "signed_in", "body", "refused", "verify", "ok"} \in SUBSET Place
  BY DEF Place, AtServer
<1>f. {"name", "saw", "user"} \in SUBSET (Field \ {"at"})
  BY DEF Field
<1>1. ASSUME NEW n \in Username, RegisterBegins(c, n)
      PROVE  \/ Step(c, "new", "lookup", {"name"}) /\ calls'[c].name = n
             \/ Step(c, "new", "refused", {})
  <2>1. n \in Value("name")
    BY DEF Value
  <2> QED BY <1>0, <1>f, <1>1, <2>1, Moves, MovesWith DEF RegisterBegins, At, Step
<1>2. ASSUME LookUp(c)
      PROVE  \/ /\ Step(c, "lookup", "insert", {"saw"}) /\ calls'[c].saw = users
                /\ Named(calls[c].name) = {}
             \/ Step(c, "lookup", "refused", {})
  <2>1. users \in Value("saw")
    BY DEF Value, TypeOK
  <2> QED BY <1>0, <1>f, <1>2, <2>1, Moves, MovesWith DEF LookUp, At, Step
<1>3. ASSUME InsertUser(c)
      PROVE  Step(c, "insert", "signed_in", {"user"}) /\ calls'[c].user = c
  <2>1. c \in Value("user")
    BY DEF Value, UserId
  <2> QED BY <1>0, <1>f, <1>3, <2>1, MovesWith DEF InsertUser, Step
<1>4. ASSUME FindUser(c)
      PROVE  \/ /\ Step(c, "find", "verify", {"user"})
                /\ calls'[c].user \in UserId
             \/ Step(c, "find", "refused", {})
  <2>1. \A u \in users : u[1] \in UserId /\ u[1] \in Value("user")
    BY DEF Value, UserId, TypeOK, Row
  <2>2. \A n : Named(n) \subseteq users
    BY DEF Named
  <2>3. CASE \E u \in Named(calls[c].name) : Set(c, [calls[c] EXCEPT !.at = "verify", !.user = u[1]])
    <3>1. PICK u \in UserId : u \in Value("user") /\ Set(c, [calls[c] EXCEPT !.at = "verify", !.user = u])
      BY <2>1, <2>2, <2>3
    <3>2. Becomes(c, "verify", {"user"}) /\ calls'[c]["user"] = u
      BY <1>0, <1>f, <3>1, MovesWith
    <3> QED BY <1>4, <3>2 DEF FindUser, Step
  <2>4. CASE At(c, "refused")
    BY <1>0, <1>4, <2>4, Moves DEF FindUser, At, Step
  <2> QED BY <1>4, <2>3, <2>4 DEF FindUser
<1>5. ASSUME LoginBegins(c)
      PROVE  Step(c, "new", "body", {}) \/ Step(c, "new", "refused", {})
  BY <1>0, <1>5, Moves DEF LoginBegins, At, Step
<1>6. ASSUME VerifyPassword(c)
      PROVE  Step(c, "verify", "signed_in", {})
  BY <1>0, <1>6, Moves DEF VerifyPassword, At, Step
<1>7. ASSUME SignedIn(c)
      PROVE  Step(c, "signed_in", "ok", {})
  BY <1>0, <1>7, Moves DEF SignedIn, At, Step
<1> QED BY <1>1, <1>2, <1>3, <1>4, <1>5, <1>6, <1>7

(* ... that counts, with whom it disturbs, ...                             *)
LEMMA CountingCalls ==
  ASSUME TypeOK, NEW c \in Call, NEW n \in Username, LoginCounts(c, n)
  PROVE  \/ /\ Step(c, "body", "find", {"name", "tried"})
            /\ calls'[c].name = n /\ calls'[c].tried = {[l \in {"login", n} |-> Hit(l)]}
            /\ \A d \in Call \ {c} : calls[d].at = "body" => calls'[d].disturbed
         \/ Step(c, "body", "refused", {})
<1> DEFINE hits == [l \in {"login", n} |-> Hit(l)]
           call == [calls[c] EXCEPT !.at = "find", !.name = n, !.tried = {hits}]
<1>1. \A d \in Call : calls[d] \in CallRecord
  BY DEF TypeOK
<1>2. CASE Check(n)
  <2>1. hits \in Hits
    <3>1. \A l \in {"login", n} : Hit(l) \in Nat \X Nat
      BY InWindowIsFinite DEF Limiter
    <3> QED BY <3>1 DEF Hits
  <2>2. calls' = [d \in Call |->
             IF d = c THEN call
             ELSE IF calls[d].at = "body" THEN [calls[d] EXCEPT !.disturbed = TRUE]
             ELSE calls[d]]
    BY <1>2 DEF LoginCounts
  <2> HIDE DEF hits
  <2>3. \A r \in CallRecord :
          LET s == [r EXCEPT !.at = "find", !.name = n, !.tried = {hits}]
          IN  /\ s \in CallRecord /\ s.at = "find" /\ s.name = n /\ s.tried = {hits}
              /\ \A f \in Field \ {"at", "name", "tried"} : s[f] = r[f]
    BY <2>1 DEF CallRecord, Field, Place, AtServer
  <2>4. \A r \in CallRecord :
          LET s == [r EXCEPT !.disturbed = TRUE]
          IN  /\ s \in CallRecord /\ s.disturbed
              /\ \A f \in Field \ {"disturbed"} : s[f] = r[f]
    BY DEF CallRecord, Field
  <2>5. /\ call \in CallRecord /\ call.at = "find" /\ call.name = n /\ call.tried = {hits}
        /\ \A f \in Field \ {"at", "name", "tried"} : call[f] = calls[c][f]
    BY <1>1, <2>3
  <2> HIDE DEF call
  <2>6. calls' \in [Call -> CallRecord]
    BY <1>1, <2>2, <2>4, <2>5
  <2>7. \A d \in Call \ {c} : Bystander(d) /\ (calls[d].at = "body" => calls'[d].disturbed)
    BY <1>1, <2>2, <2>4 DEF Bystander
  <2>8. calls[c].at = "body"
    BY DEF LoginCounts
  <2> QED BY <2>2, <2>5, <2>6, <2>7, <2>8 DEF Becomes, Step, hits
<1>3. CASE ~ Check(n)
  <2>1. "refused" \in Place
    BY DEF Place
  <2> QED BY <1>3, <2>1, Moves DEF LoginCounts, At, Step
<1> QED BY <1>2, <1>3

(* ... of a session, ...                                                   *)
LEMMA SessionCalls ==
  ASSUME TypeOK, NEW c \in Call
  PROVE  /\ Logout(c) =>
              \/ /\ \/ browser.plain # Nobody /\ Step(c, "new", "revoke", {"user", "cookies"})
                    \/ browser.plain = Nobody /\ Step(c, "new", "logged_out", {"user", "cookies"})
                 /\ calls'[c].user = browser.plain /\ calls'[c].cookies = Cookies
              \/ Step(c, "new", "refused", {})
         /\ Revoke(c) =>
              \/ /\ Step(c, "revoke", "logged_out", {})
                 /\ revoked' = revoked \cup {calls[c].user}
              \/ /\ Step(c, "revoke", "logged_out", {"cookies"})
                 /\ calls'[c].cookies = {} /\ UNCHANGED revoked
         /\ LoggedOut(c) => Step(c, "logged_out", "ok", {})
         /\ CallFails(c) => /\ calls[c].at \in AtServer \ {"revoke"}
                            /\ Becomes(c, "refused", {})
<1>0. {"revoke", "logged_out", "ok", "refused"} \in SUBSET Place
  BY DEF Place, AtServer
<1>1. ASSUME Logout(c)
      PROVE  \/ /\ \/ browser.plain # Nobody /\ Step(c, "new", "revoke", {"user", "cookies"})
                   \/ browser.plain = Nobody /\ Step(c, "new", "logged_out", {"user", "cookies"})
                /\ calls'[c].user = browser.plain /\ calls'[c].cookies = Cookies
             \/ Step(c, "new", "refused", {})
  <2> DEFINE to == IF browser.plain # Nobody THEN "revoke" ELSE "logged_out"
  <2>1. /\ browser.plain \in Value("user") /\ Cookies \in Value("cookies")
        /\ "user" \in Field \ {"at"} /\ "cookies" \in Field \ {"at", "user"} /\ to \in Place
    BY <1>0 DEF Value, Field, Cookies, TypeOK, UserId
  <2>2. CASE ~ Check("global")
    BY <1>0, <1>1, <2>2, Moves DEF Logout, At, Step
  <2>3. CASE Check("global")
    <3>1. PICK next \in Place, who \in Value("user"), what \in Value("cookies") :
            next = to /\ who = browser.plain /\ what = Cookies
      BY <2>1
    <3>2. Set(c, [calls[c] EXCEPT !.at = next, !.user = who, !.cookies = what])
      BY <1>1, <2>3, <3>1 DEF Logout, Cookies
    <3>3. /\ Becomes(c, next, {"user", "cookies"})
          /\ calls'[c]["user"] = who /\ calls'[c]["cookies"] = what
      <4>1. "user" \in Field \ {"at"} /\ "cookies" \in Field \ {"at", "user"}
        BY <2>1
      <4>2. Becomes(c, next, {"user", "cookies"})
        BY <3>2, <4>1, MovesWithBoth
      <4>3. calls'[c]["user"] = who
        BY <3>2, <4>1, MovesWithBoth
      <4>4. calls'[c]["cookies"] = what
        BY <3>2 DEF Set, TypeOK, CallRecord
      <4> QED BY <4>2, <4>3, <4>4
    <3> QED BY <1>1, <3>1, <3>3 DEF Logout, Step
  <2> QED BY <2>2, <2>3
<1>2. ASSUME Revoke(c)
      PROVE  \/ /\ Step(c, "revoke", "logged_out", {})
                /\ revoked' = revoked \cup {calls[c].user}
             \/ /\ Step(c, "revoke", "logged_out", {"cookies"})
                /\ calls'[c].cookies = {} /\ UNCHANGED revoked
  <2>1. {} \in Value("cookies") /\ "cookies" \in Field \ {"at"}
    BY DEF Value, Field
  <2> QED BY <1>0, <1>2, <2>1, Moves, MovesWith DEF Revoke, At, Step
<1>3. ASSUME LoggedOut(c)
      PROVE  Step(c, "logged_out", "ok", {})
  BY <1>0, <1>3, Moves DEF LoggedOut, At, Step
<1>4. ASSUME CallFails(c)
      PROVE  calls[c].at \in AtServer \ {"revoke"} /\ Becomes(c, "refused", {})
  BY <1>0, <1>4, Moves DEF CallFails, At
<1> QED BY <1>1, <1>2, <1>3, <1>4

(* Whoever begins, or deletes a challenge, disturbs some of the others.    *)
LEMMA Disturbing ==
  ASSUME TypeOK, NEW c \in Call, NEW call, NEW others \in SUBSET Call, Disturb(c, call, others)
  PROVE  Disturbs(c, others)
<1>1. \A r \in CallRecord : [r EXCEPT !.disturbed = TRUE].disturbed
  BY DEF CallRecord
<1> QED BY <1>1 DEF Disturb, Disturbs, TypeOK

LoginReaders     == {d \in Call : calls[d].at \in Reading}
RegisterReaders(u) == {d \in Call : calls[d].at \in ReadingNew /\ calls[d].user = u}

(* ... and of a passkey.                                                   *)
LEMMA PasskeyCalls ==
  ASSUME TypeOK, NEW c \in Call
  PROVE  /\ LoginBegin(c) => Step(c, "new", "begun", {}) /\ Disturbs(c, LoginReaders)
         /\ RegisterBegin(c) =>
              \E u \in UserId :
                /\ Step(c, "new", "begun_new", {"user"}) /\ calls'[c].user = u
                /\ Disturbs(c, RegisterReaders(u))
                /\ challenges' = Append(challenges, Challenge(c, u, "registration"))
         /\ Sign(c) =>
              \/ /\ Step(c, "begun", "sent", {"key", "count"})
                 /\ calls'[c].key \in KeyId /\ device[calls'[c].key] # None
                 /\ calls'[c].count = (IF device[calls'[c].key] = 0 THEN 0
                                       ELSE device[calls'[c].key] + 1)
                 /\ device' = [device EXCEPT ![calls'[c].key] = calls'[c].count]
              \/ /\ Step(c, "begun_new", "challenge_new", {"count"})
                 /\ calls'[c].count \in {0, 1}
                 /\ device' = [device EXCEPT ![c] = calls'[c].count]
         /\ ReadCredential(c) =>
              \/ Step(c, "sent", "refused", {})
              \/ Step(c, "sent", "challenge", {"user", "stored"})
         /\ ReadChallenge(c) =>
              /\ calls[c].at \in {"challenge", "challenge_new"}
              /\ \/ Becomes(c, "mismatch", {}) /\ Candidates(c) = {}
                 \/ \E i \in Candidates(c) :
                      /\ \A k \in Candidates(c) : k <= i
                      /\ Becomes(c, IF calls[c].at = "challenge" THEN "delete" ELSE "delete_new",
                                 {"challenge"})
                      /\ calls'[c].challenge = challenges[i].id
         /\ DeleteChallenge(c) =>
              /\ calls[c].at \in {"delete", "delete_new"}
              /\ Disturbs(c, {d \in Call : d = calls[c].challenge
                                           /\ calls[d].at \in Reading \cup ReadingNew})
              /\ \E to \in {"mismatch", "insert_key", "refused", "update"} :
                   /\ Becomes(c, to, {})
                   /\ to = "mismatch" => calls[c].challenge # c
                   /\ to = "insert_key" => calls[c].at = "delete_new"
                   /\ to = "update" => calls[c].at = "delete" /\ ~ CounterInvalid(c)
         /\ InsertCredential(c) => Step(c, "insert_key", "ok", {})
         /\ UpdateCounter(c) => Step(c, "update", "signed_in_by_key", {})
         /\ SignedInByKey(c) => Step(c, "signed_in_by_key", "ok", {})
<1>0. {"begun", "begun_new", "sent", "challenge", "challenge_new", "delete", "delete_new",
       "insert_key", "update", "signed_in_by_key", "ok", "refused", "mismatch"} \in SUBSET Place
  BY DEF Place, AtServer, InCeremony, Reading, ReadingNew
<1>f. {"user", "key", "count", "stored", "challenge"} \in SUBSET (Field \ {"at"})
  BY DEF Field
<1>1. ASSUME LoginBegin(c)
      PROVE  Step(c, "new", "begun", {}) /\ Disturbs(c, LoginReaders)
  <2>1. Disturb(c, [calls[c] EXCEPT !.at = "begun"], LoginReaders) /\ LoginReaders \in SUBSET Call
    BY <1>1 DEF LoginBegin, LoginReaders
  <2> HIDE DEF LoginReaders
  <2> QED BY <1>0, <1>1, <2>1, Moves, Disturbing DEF LoginBegin, Step
<1>2. ASSUME RegisterBegin(c)
      PROVE  \E u \in UserId :
               /\ Step(c, "new", "begun_new", {"user"}) /\ calls'[c].user = u
               /\ Disturbs(c, RegisterReaders(u))
               /\ challenges' = Append(challenges, Challenge(c, u, "registration"))
  <2>1. \A row \in users : row[1] \in UserId
    BY DEF TypeOK, Row, UserId
  <2>2. PICK u \in {row[1] : row \in users} :
          /\ challenges' = Append(challenges, Challenge(c, u, "registration"))
          /\ Disturb(c, [calls[c] EXCEPT !.at = "begun_new", !.user = u], RegisterReaders(u))
    BY <1>2, Zenon DEF RegisterBegin, RegisterReaders
  <2>u. u \in UserId
    BY <2>1
  <2>3. u \in Value("user") /\ RegisterReaders(u) \in SUBSET Call
    BY <2>u DEF Value, RegisterReaders
  <2> HIDE DEF RegisterReaders
  <2>4. Becomes(c, "begun_new", {"user"}) /\ calls'[c]["user"] = u
    <3>1. "begun_new" \in Place /\ "user" \in Field \ {"at"}
      BY <1>0, <1>f
    <3>2. Disturb(c, [calls[c] EXCEPT !.at = "begun_new", !.user = u], RegisterReaders(u))
      BY <2>2
    <3> QED BY <2>3, <3>1, <3>2, MovesWith, Zenon
  <2>5. Disturbs(c, RegisterReaders(u))
    BY <2>2, <2>3, Disturbing
  <2> QED BY <1>2, <2>u, <2>2, <2>4, <2>5 DEF RegisterBegin, Step
<1>3. ASSUME Sign(c)
      PROVE  \/ /\ Step(c, "begun", "sent", {"key", "count"})
                /\ calls'[c].key \in KeyId /\ device[calls'[c].key] # None
                /\ calls'[c].count = (IF device[calls'[c].key] = 0 THEN 0
                                      ELSE device[calls'[c].key] + 1)
                /\ device' = [device EXCEPT ![calls'[c].key] = calls'[c].count]
             \/ /\ Step(c, "begun_new", "challenge_new", {"count"})
                /\ calls'[c].count \in {0, 1}
                /\ device' = [device EXCEPT ![c] = calls'[c].count]
  <2>1. CASE calls[c].at = "begun"
    <3>1. PICK k \in KeyId :
            /\ device[k] # None
            /\ device' = [device EXCEPT ![k] = IF @ = 0 THEN 0 ELSE @ + 1]
            /\ Set(c, [calls[c] EXCEPT !.at = "sent", !.key = k, !.count = device'[k]])
      BY <1>3, <2>1, Zenon DEF Sign
    <3>v. device[k] \in Nat
      BY <3>1 DEF TypeOK, None
    <3>w. (IF device[k] = 0 THEN 0 ELSE device[k] + 1) \in Value("count")
      BY <3>v DEF Value
    <3>2. PICK n \in Value("count") : n = IF device[k] = 0 THEN 0 ELSE device[k] + 1
      BY <3>w
    <3>3. device'[k] = n /\ device' = [device EXCEPT ![k] = n]
      BY <3>1, <3>2 DEF TypeOK
    <3>4. /\ k \in Value("key") /\ "sent" \in Place
          /\ "key" \in Field \ {"at"} /\ "count" \in Field \ {"at", "key"}
      BY <1>0, <1>f DEF Value, Field
    <3>5. /\ Becomes(c, "sent", {"key", "count"})
          /\ calls'[c]["key"] = k /\ calls'[c]["count"] = n
      <4>1. Set(c, [calls[c] EXCEPT !.at = "sent", !.key = k, !.count = n])
        BY <3>1, <3>3
      <4>2. Becomes(c, "sent", {"key", "count"})
        BY <3>4, <4>1, MovesWithBoth
      <4>3. calls'[c]["key"] = k
        BY <3>4, <4>1, MovesWithBoth, ZenonT(40)
      <4>4. calls'[c]["count"] = n
        BY <4>1 DEF Set, TypeOK, CallRecord
      <4> QED BY <4>2, <4>3, <4>4
    <3> QED BY <2>1, <3>1, <3>2, <3>3, <3>5 DEF Step
  <2>2. CASE calls[c].at = "begun_new"
    <3>2. {0, 1} \in SUBSET Value("count")
      BY DEF Value
    <3>1. PICK n \in Value("count") :
            /\ n \in {0, 1} /\ device' = [device EXCEPT ![c] = n]
            /\ Set(c, [calls[c] EXCEPT !.at = "challenge_new", !.count = n])
      BY <1>3, <2>2, <3>2 DEF Sign
    <3>3. Becomes(c, "challenge_new", {"count"}) /\ calls'[c]["count"] = n
      BY <1>0, <1>f, <3>1, <3>2, MovesWith
    <3> QED BY <2>2, <3>1, <3>3 DEF Step
  <2> QED BY <1>3, <2>1, <2>2 DEF Sign
<1>4. ASSUME ReadCredential(c)
      PROVE  \/ Step(c, "sent", "refused", {})
             \/ Step(c, "sent", "challenge", {"user", "stored"})
  <2>1. CASE passkeys[calls[c].key] = None
    BY <1>0, <1>4, <2>1, Moves DEF ReadCredential, At, Step
  <2>2. CASE passkeys[calls[c].key] # None
    <3>1. calls[c].key \in KeyId
      BY <1>4 DEF ReadCredential, TypeOK, KnowsKey
    <3>2. PICK n \in Value("stored") : n = passkeys[calls[c].key]
      BY <2>2, <3>1 DEF TypeOK, Value
    <3>3. Owner(calls[c].key) \in UserId \cup {Nobody}
      BY <3>1 DEF Owner, TypeOK, CallRecord, KeyId
    <3>4. PICK u \in Value("user") : u = Owner(calls[c].key)
      BY <3>3 DEF Value
    <3>5. Set(c, [calls[c] EXCEPT !.at = "challenge", !.user = u, !.stored = n])
      BY <1>4, <2>2, <3>2, <3>4 DEF ReadCredential
    <3>6. "stored" \in Field \ {"at", "user"}
      BY DEF Field
    <3>7. Becomes(c, "challenge", {"user", "stored"})
      BY <1>0, <1>f, <3>5, <3>6, MovesWithBoth
    <3> QED BY <1>4, <3>7 DEF ReadCredential, Step
  <2> QED BY <2>1, <2>2
<1>5. ASSUME ReadChallenge(c)
      PROVE  /\ calls[c].at \in {"challenge", "challenge_new"}
             /\ \/ Becomes(c, "mismatch", {}) /\ Candidates(c) = {}
                \/ \E i \in Candidates(c) :
                     /\ \A k \in Candidates(c) : k <= i
                     /\ Becomes(c, IF calls[c].at = "challenge" THEN "delete" ELSE "delete_new",
                                {"challenge"})
                     /\ calls'[c].challenge = challenges[i].id
  <2>1. CASE NotFound(c)
    BY <1>0, <1>5, <2>1, Moves DEF ReadChallenge, NotFound, At
  <2>2. CASE \E i \in Candidates(c) : (\A k \in Candidates(c) : k <= i) /\ Found(c, i)
    <3>1. PICK i \in Candidates(c) : (\A k \in Candidates(c) : k <= i) /\ Found(c, i)
      BY <2>2
    <3>2. PICK to \in {"delete", "delete_new"} :
            to = IF calls[c].at = "challenge" THEN "delete" ELSE "delete_new"
      OBVIOUS
    <3>3. PICK id \in Call : id = challenges[i].id
      BY ChallengesTyped DEF Candidates, TypeOK, ChallengeRow
    <3>4. Set(c, [calls[c] EXCEPT !.at = to, !.challenge = id])
      BY <3>1, <3>2, <3>3 DEF Found
    <3>5. id \in Value("challenge")
      BY DEF Value
    <3>6. Becomes(c, to, {"challenge"}) /\ calls'[c]["challenge"] = id
      BY <1>0, <1>f, <3>2, <3>4, <3>5, MovesWith
    <3> QED BY <1>5, <3>1, <3>2, <3>3, <3>4, <3>6 DEF ReadChallenge
  <2> QED BY <1>5, <2>1, <2>2 DEF ReadChallenge
<1>6. ASSUME DeleteChallenge(c)
      PROVE  /\ calls[c].at \in {"delete", "delete_new"}
             /\ Disturbs(c, {d \in Call : d = calls[c].challenge
                                          /\ calls[d].at \in Reading \cup ReadingNew})
             /\ \E to \in {"mismatch", "insert_key", "refused", "update"} :
                  /\ Becomes(c, to, {})
                  /\ to = "mismatch" => calls[c].challenge # c
                  /\ to = "insert_key" => calls[c].at = "delete_new"
                  /\ to = "update" => calls[c].at = "delete" /\ ~ CounterInvalid(c)
  <2>1. PICK others \in SUBSET Call :
          others = {d \in Call : d = calls[c].challenge /\ calls[d].at \in Reading \cup ReadingNew}
    OBVIOUS
  <2>2. PICK to \in {"mismatch", "insert_key", "refused", "update"} :
          to = IF calls[c].challenge # c THEN "mismatch"
               ELSE IF calls[c].at = "delete_new" THEN "insert_key"
               ELSE IF CounterInvalid(c) THEN "refused"
               ELSE "update"
    OBVIOUS
  <2>3. Disturb(c, [calls[c] EXCEPT !.at = to], others) /\ calls[c].at \in {"delete", "delete_new"}
    BY <1>6, <2>1, <2>2 DEF DeleteChallenge
  <2>4. Becomes(c, to, {}) /\ Disturbs(c, others)
    BY <1>0, <2>2, <2>3, Moves, Disturbing
  <2> QED BY <2>1, <2>2, <2>3, <2>4
<1>7. ASSUME InsertCredential(c)
      PROVE  Step(c, "insert_key", "ok", {})
  BY <1>0, <1>7, Moves DEF InsertCredential, At, Step
<1>8. ASSUME UpdateCounter(c)
      PROVE  Step(c, "update", "signed_in_by_key", {})
  BY <1>0, <1>8, Moves DEF UpdateCounter, At, Step
<1>9. ASSUME SignedInByKey(c)
      PROVE  Step(c, "signed_in_by_key", "ok", {})
  BY <1>0, <1>9, Moves DEF SignedInByKey, At, Step
<1> QED BY <1>1, <1>2, <1>3, <1>4, <1>5, <1>6, <1>7, <1>8, <1>9

-----------------------------------------------------------------------------
(* A call that moves keeps the types of calls, and the cookies name calls  *)
(* that are done.                                                          *)
LEMMA BecomesTyped ==
  ASSUME TypeOK, NEW c \in Call, NEW to, NEW changed, Becomes(c, to, changed),
         to \in KnowsName => calls'[c].name \in Username,
         to \in KnowsKey => calls'[c].key \in KeyId,
         calls[c].at # "ok"
  PROVE  CallsTyped
<1>1. \A d \in Call \ {c} : /\ calls'[d].at = calls[d].at /\ calls'[d].name = calls[d].name
                            /\ calls'[d].key = calls[d].key
  <2>1. {"at", "name", "key"} \in SUBSET (Field \ {"disturbed"})
    BY DEF Field
  <2>2. ASSUME NEW d \in Call \ {c}
        PROVE  /\ calls'[d]["at"] = calls[d]["at"] /\ calls'[d]["name"] = calls[d]["name"]
               /\ calls'[d]["key"] = calls[d]["key"]
    BY <2>1 DEF Becomes, Bystander
  <2> QED BY <2>2
<1>2. c \notin Cookies
  BY DEF TypeOK, Cookies
<1>3. \A d \in Cookies : d \in Call /\ calls[d].at = "ok"
  BY DEF TypeOK, Cookies
<1> QED BY <1>1, <1>2, <1>3 DEF CallsTyped, Becomes, TypeOK

(* A step keeps the types if it keeps those of calls and limiters, and     *)
(* changes nothing else.                                                   *)
LEMMA TypesKept ==
  ASSUME TypeOK, CallsTyped, LimitsTyped,
         UNCHANGED <<users, secure, browser, challenges, passkeys, device>>
  PROVE  TypeOK'
  BY DEF TypeOK, CallsTyped, LimitsTyped, Cookies

(* So does a step after which the cookies name a call that is done now.    *)
LEMMA SessionTyped ==
  ASSUME TypeOK, CallsTyped, LimitsTyped,
         UNCHANGED <<users, secure, challenges, passkeys, device>>,
         NEW c \in Call, Becomes(c, "ok", {}),
         browser' \in [host : Call \cup {Nobody}, plain : Call \cup {Nobody}, csrf : BOOLEAN],
         Cookies' \subseteq Cookies \cup {c}
  PROVE  TypeOK'
<1>1. \A d \in Cookies' : calls'[d].at = "ok"
  BY DEF CallsTyped, Becomes
<1> QED BY <1>1 DEF TypeOK, CallsTyped, LimitsTyped, Cookies

(* Every step of a password keeps the types, ...                           *)
LEMMA PasswordTypes ==
  ASSUME TypeOK, NEW c \in Call, PasswordSteps(c)
  PROVE  TypeOK'
<1> USE DEF limits, rows, cookies, ceremony
<1> DEFINE Quiet == UNCHANGED <<clock, store>>
<1>0. Quiet => LimitsTyped
  BY DEF LimitsTyped, TypeOK, StoreOK
<1>1. ASSUME NEW n \in Username, RegisterBegins(c, n)
      PROVE  TypeOK'
  <2>1. CallsTyped
    BY <1>1, PasswordCalls, BecomesTyped DEF Step, KnowsName, KnowsKey
  <2>2. LimitsTyped
    BY <1>1, LimitsKept DEF RegisterBegins
  <2> QED BY <1>1, <2>1, <2>2, TypesKept DEF RegisterBegins
<1>2. ASSUME NEW n \in Username, LoginCounts(c, n)
      PROVE  TypeOK'
  <2>1. CallsTyped
    BY <1>2, CountingCalls, BecomesTyped DEF Step, KnowsName, KnowsKey
  <2>2. LimitsTyped
    BY <1>2, LimitsKept DEF LoginCounts
  <2> QED BY <1>2, <2>1, <2>2, TypesKept DEF LoginCounts
<1>3. ASSUME LookUp(c)
      PROVE  TypeOK'
  <2>1. CallsTyped
    <3>1. Step(c, "lookup", "insert", {"saw"}) \/ Step(c, "lookup", "refused", {})
      BY <1>3, PasswordCalls
    <3>2. calls[c].name \in Username
      BY <1>3 DEF LookUp, TypeOK, KnowsName
    <3>3. \A to, changed :
            Becomes(c, to, changed) /\ "name" \notin changed => calls'[c]["name"] = calls[c]["name"]
      BY DEF Becomes, Field
    <3> QED BY <3>1, <3>2, <3>3, BecomesTyped DEF Step, KnowsName, KnowsKey
  <2> QED BY <1>0, <1>3, <2>1, TypesKept DEF LookUp
<1>4. ASSUME InsertUser(c)
      PROVE  TypeOK'
  <2>1. CallsTyped
    BY <1>4, PasswordCalls, BecomesTyped DEF Step, KnowsName, KnowsKey
  <2>2. users' \subseteq Row
    BY <1>4 DEF InsertUser, TypeOK, Row, KnowsName
  <2> QED BY <1>0, <1>4, <2>1, <2>2 DEF InsertUser, TypeOK, CallsTyped, LimitsTyped, Cookies
<1>5. ASSUME LoginBegins(c)
      PROVE  TypeOK'
  <2>1. CallsTyped
    BY <1>5, PasswordCalls, BecomesTyped DEF Step, KnowsName, KnowsKey
  <2>2. LimitsTyped
    BY <1>5, LimitsKept DEF LoginBegins
  <2> QED BY <1>5, <2>1, <2>2, TypesKept DEF LoginBegins
<1>6. ASSUME FindUser(c)
      PROVE  TypeOK'
  <2>1. CallsTyped
    BY <1>6, PasswordCalls, BecomesTyped DEF Step, KnowsName, KnowsKey
  <2> QED BY <1>0, <1>6, <2>1, TypesKept DEF FindUser
<1>7. ASSUME VerifyPassword(c)
      PROVE  TypeOK'
  <2>1. CallsTyped
    BY <1>7, PasswordCalls, BecomesTyped DEF Step, KnowsName, KnowsKey
  <2> QED BY <1>0, <1>7, <2>1, TypesKept DEF VerifyPassword
<1>8. ASSUME SignedIn(c)
      PROVE  TypeOK'
  <2>1. Becomes(c, "ok", {}) /\ calls[c].at = "signed_in"
    BY <1>8, PasswordCalls DEF Step
  <2>2. CallsTyped
    BY <2>1, BecomesTyped DEF KnowsName, KnowsKey
  <2>3. /\ browser' \in [host : Call \cup {Nobody}, plain : Call \cup {Nobody}, csrf : BOOLEAN]
        /\ Cookies' \subseteq Cookies \cup {c}
    BY <1>8 DEF SignedIn, TypeOK, Cookies
  <2> QED BY <1>0, <1>8, <2>1, <2>2, <2>3, SessionTyped DEF SignedIn
<1> QED BY <1>1, <1>2, <1>3, <1>4, <1>5, <1>6, <1>7, <1>8 DEF PasswordSteps

(* ... every step of a session, ...                                        *)
LEMMA SessionTypes ==
  ASSUME TypeOK, NEW c \in Call, SessionSteps(c)
  PROVE  TypeOK'
<1> USE DEF limits, rows, cookies, ceremony
<1>0. UNCHANGED <<clock, store>> => LimitsTyped
  BY DEF LimitsTyped, TypeOK, StoreOK
<1>1. ASSUME Logout(c)
      PROVE  TypeOK'
  <2>1. PICK to \in {"revoke", "logged_out", "refused"} :
          Step(c, "new", to, {"user", "cookies"}) \/ Step(c, "new", to, {})
    BY <1>1, SessionCalls
  <2>2. CallsTyped
    BY <2>1, BecomesTyped DEF Step, KnowsName, KnowsKey
  <2>3. LimitsTyped
    BY <1>1, LimitsKept DEF Logout
  <2> QED BY <1>1, <2>2, <2>3, TypesKept DEF Logout
<1>2. ASSUME Revoke(c)
      PROVE  TypeOK'
  <2>1. Step(c, "revoke", "logged_out", {"cookies"}) \/ Step(c, "revoke", "logged_out", {})
    BY <1>2, SessionCalls
  <2>2. CallsTyped
    BY <2>1, BecomesTyped DEF Step, KnowsName, KnowsKey
  <2> QED BY <1>0, <1>2, <2>2, TypesKept DEF Revoke
<1>3. ASSUME LoggedOut(c)
      PROVE  TypeOK'
  <2>1. Becomes(c, "ok", {}) /\ calls[c].at = "logged_out"
    BY <1>3, SessionCalls DEF Step
  <2>2. CallsTyped
    BY <2>1, BecomesTyped DEF KnowsName, KnowsKey
  <2>3. /\ browser' \in [host : Call \cup {Nobody}, plain : Call \cup {Nobody}, csrf : BOOLEAN]
        /\ Cookies' \subseteq Cookies
    BY <1>3 DEF LoggedOut, TypeOK, Cookies
  <2> QED BY <1>0, <1>3, <2>1, <2>2, <2>3, SessionTyped DEF LoggedOut
<1>4. ASSUME CallFails(c)
      PROVE  TypeOK'
  <2>1. Becomes(c, "refused", {}) /\ calls[c].at # "ok"
    BY <1>4, SessionCalls DEF AtServer, InCeremony, Reading, ReadingNew
  <2>2. CallsTyped
    BY <2>1, BecomesTyped DEF KnowsName, KnowsKey
  <2> QED BY <1>0, <1>4, <2>2, TypesKept DEF CallFails
<1> QED BY <1>1, <1>2, <1>3, <1>4 DEF SessionSteps

(* ... and every step of a passkey.                                        *)
LEMMA PasskeyTypes ==
  ASSUME TypeOK, NEW c \in Call, PasskeySteps(c)
  PROVE  TypeOK'
<1> USE DEF limits, rows, cookies, ceremony
<1>0. UNCHANGED <<clock, store>> => LimitsTyped
  BY DEF LimitsTyped, TypeOK, StoreOK
<1>k. calls[c].at \in KnowsKey => calls[c].key \in KeyId
  BY DEF TypeOK
<1>u. ASSUME NEW to, NEW changed, Becomes(c, to, changed), "key" \notin changed
      PROVE  calls'[c].key = calls[c].key
  <2>1. calls'[c]["key"] = calls[c]["key"]
    BY <1>u DEF Becomes, Field
  <2> QED BY <2>1
<1>1. ASSUME LoginBegin(c)
      PROVE  TypeOK'
  <2>1. CallsTyped
    BY <1>1, PasskeyCalls, BecomesTyped DEF Step, KnowsName, KnowsKey
  <2>2. challenges' \in Seq(ChallengeRow)
    BY <1>1 DEF LoginBegin, TypeOK, Challenge, ChallengeRow
  <2> QED BY <1>0, <1>1, <2>1, <2>2 DEF LoginBegin, TypeOK, CallsTyped, LimitsTyped, Cookies
<1>2. ASSUME RegisterBegin(c)
      PROVE  TypeOK'
  <2>1. PICK u \in UserId :
          /\ Step(c, "new", "begun_new", {"user"})
          /\ challenges' = Append(challenges, Challenge(c, u, "registration"))
    BY <1>2, PasskeyCalls
  <2>2. CallsTyped
    BY <2>1, BecomesTyped DEF Step, KnowsName, KnowsKey
  <2>3. Challenge(c, u, "registration") \in ChallengeRow
    BY DEF Challenge, ChallengeRow
  <2>4. challenges' \in Seq(ChallengeRow)
    BY <2>1, <2>3, AppendProperties DEF TypeOK
  <2> QED BY <1>0, <1>2, <2>2, <2>4 DEF RegisterBegin, TypeOK, CallsTyped, LimitsTyped, Cookies
<1>3. ASSUME Sign(c)
      PROVE  TypeOK'
  <2>1. /\ calls[c].at # "ok"
        /\ \/ Becomes(c, "sent", {"key", "count"}) /\ calls'[c].key \in KeyId
           \/ Becomes(c, "challenge_new", {"count"})
    BY <1>3, PasskeyCalls DEF Step
  <2>2. CallsTyped
    BY <2>1, BecomesTyped DEF KnowsName, KnowsKey
  <2>3. calls'[c].count \in Nat
    BY <2>1 DEF Becomes, CallRecord
  <2>4. \E k \in KeyId : device' = [device EXCEPT ![k] = calls'[c].count]
    <3>1. c \in KeyId
      BY DEF KeyId, UserId
    <3> QED BY <1>3, <3>1, PasskeyCalls
  <2>5. device' \in [KeyId -> Nat \cup {None}]
    BY <2>3, <2>4 DEF TypeOK
  <2> QED BY <1>0, <1>3, <2>2, <2>5 DEF Sign, TypeOK, CallsTyped, LimitsTyped, Cookies
<1>4. ASSUME ReadCredential(c)
      PROVE  TypeOK'
  <2>1. \/ Step(c, "sent", "refused", {}) \/ Step(c, "sent", "challenge", {"user", "stored"})
    BY <1>4, PasskeyCalls
  <2>2. CallsTyped
    BY <1>k, <1>u, <2>1, BecomesTyped DEF Step, KnowsName, KnowsKey
  <2> QED BY <1>0, <1>4, <2>2, TypesKept DEF ReadCredential
<1>5. ASSUME ReadChallenge(c)
      PROVE  TypeOK'
  <2>1. PICK to \in {"mismatch", "delete", "delete_new"} :
          /\ calls[c].at \in {"challenge", "challenge_new"}
          /\ to = "delete" => calls[c].at = "challenge"
          /\ Becomes(c, to, {}) \/ Becomes(c, to, {"challenge"})
    BY <1>5, PasskeyCalls
  <2>2. CallsTyped
    BY <1>k, <1>u, <2>1, BecomesTyped DEF KnowsName, KnowsKey
  <2> QED BY <1>0, <1>5, <2>2, TypesKept DEF ReadChallenge
<1>6. ASSUME DeleteChallenge(c)
      PROVE  TypeOK'
  <2>1. PICK to \in {"mismatch", "insert_key", "refused", "update"} :
          /\ calls[c].at \in {"delete", "delete_new"} /\ Becomes(c, to, {})
          /\ to = "update" => calls[c].at = "delete"
    BY <1>6, PasskeyCalls
  <2>2. CallsTyped
    BY <1>k, <1>u, <2>1, BecomesTyped DEF KnowsName, KnowsKey
  <2>3. challenges' \in Seq(ChallengeRow)
    BY <1>6, ChallengesTyped DEF DeleteChallenge, TypeOK
  <2> QED BY <1>0, <1>6, <2>2, <2>3 DEF DeleteChallenge, TypeOK, CallsTyped, LimitsTyped, Cookies
<1>7. ASSUME InsertCredential(c)
      PROVE  TypeOK'
  <2>1. CallsTyped
    BY <1>7, PasskeyCalls, BecomesTyped DEF Step, KnowsName, KnowsKey
  <2>2. passkeys' \in [KeyId -> Nat \cup {None}]
    BY <1>7 DEF InsertCredential, TypeOK, CallRecord
  <2> QED BY <1>0, <1>7, <2>1, <2>2 DEF InsertCredential, TypeOK, CallsTyped, LimitsTyped, Cookies
<1>8. ASSUME UpdateCounter(c)
      PROVE  TypeOK'
  <2>1. CallsTyped
    BY <1>8, PasskeyCalls, BecomesTyped DEF Step, KnowsName, KnowsKey
  <2>2. passkeys' \in [KeyId -> Nat \cup {None}]
    BY <1>8 DEF UpdateCounter, TypeOK, CallRecord
  <2> QED BY <1>0, <1>8, <2>1, <2>2 DEF UpdateCounter, TypeOK, CallsTyped, LimitsTyped, Cookies
<1>9. ASSUME SignedInByKey(c)
      PROVE  TypeOK'
  <2>1. Becomes(c, "ok", {}) /\ calls[c].at = "signed_in_by_key"
    BY <1>9, PasskeyCalls DEF Step
  <2>2. CallsTyped
    BY <2>1, BecomesTyped DEF KnowsName, KnowsKey
  <2>3. /\ browser' \in [host : Call \cup {Nobody}, plain : Call \cup {Nobody}, csrf : BOOLEAN]
        /\ Cookies' \subseteq Cookies \cup {c}
    BY <1>9 DEF SignedInByKey, TypeOK, Cookies
  <2> QED BY <1>0, <1>9, <2>1, <2>2, <2>3, SessionTyped DEF SignedInByKey
<1> QED BY <1>1, <1>2, <1>3, <1>4, <1>5, <1>6, <1>7, <1>8, <1>9 DEF PasskeySteps

(* What a restart does to the calls.                                       *)
LEMMA RestartCalls ==
  ASSUME TypeOK, ServerRestarts
  PROVE  /\ calls' \in [Call -> CallRecord]
         /\ \A c \in Call :
              /\ calls'[c].at = IF calls[c].at \in AtServer THEN "refused" ELSE calls[c].at
              /\ calls'[c].tried = {}
              /\ \A f \in Field \ {"at", "tried"} : calls'[c][f] = calls[c][f]
<1>2. \A c \in Call : \E to \in Place :
        /\ to = IF calls[c].at \in AtServer THEN "refused" ELSE calls[c].at
        /\ calls'[c] = [calls[c] EXCEPT !.at = to, !.tried = {}]
  BY DEF ServerRestarts, TypeOK, CallRecord, Place
<1>3. \A c \in Call : calls[c] \in CallRecord
  BY DEF TypeOK
<1>4. calls' = [c \in Call |-> calls'[c]]
  BY DEF ServerRestarts
<1>5. ASSUME NEW c \in Call
      PROVE  /\ calls'[c] \in CallRecord
             /\ calls'[c].at = IF calls[c].at \in AtServer THEN "refused" ELSE calls[c].at
             /\ calls'[c].tried = {}
             /\ \A f \in Field \ {"at", "tried"} : calls'[c][f] = calls[c][f]
  <2>1. PICK to \in Place :
          /\ to = IF calls[c].at \in AtServer THEN "refused" ELSE calls[c].at
          /\ calls'[c] = [calls[c] EXCEPT !.at = to, !.tried = {}]
    BY <1>2
  <2>2. PICK r \in CallRecord : r = calls[c]
    BY <1>3
  <2>3. calls'[c] = [r EXCEPT !.at = to, !.tried = {}]
    BY <2>1, <2>2
  <2>4. /\ calls'[c] \in CallRecord /\ calls'[c].at = to /\ calls'[c].tried = {}
        /\ \A f \in Field \ {"at", "tried"} : calls'[c][f] = r[f]
    BY <2>1, <2>2, <2>3 DEF CallRecord, Field
  <2>5. to = IF calls[c].at \in AtServer THEN "refused" ELSE calls[c].at
    BY <2>1
  <2>6. \A f \in Field \ {"at", "tried"} : calls'[c][f] = calls[c][f]
    BY <2>2, <2>4
  <2> QED BY <2>4, <2>5, <2>6
<1>6. calls' \in [Call -> CallRecord]
  BY <1>4, <1>5
<1> QED BY <1>5, <1>6

(* The expiry of a challenge disturbs the ceremony that began with it.     *)
LEMMA ExpiryCalls ==
  ASSUME TypeOK, ChallengeExpires
  PROVE  /\ calls' \in [Call -> CallRecord] /\ \A d \in Call : Bystander(d)
         /\ challenges[1].id \in Call
         /\ calls[challenges[1].id].at \in Reading \cup ReadingNew =>
              calls'[challenges[1].id].disturbed
<1>1. PICK d \in Call : d = challenges[1].id
  BY ChallengesTyped DEF ChallengeExpires, TypeOK, ChallengeRow
<1>2. PICK mark \in BOOLEAN : mark = (calls[d].disturbed \/ calls[d].at \in Reading \cup ReadingNew)
  OBVIOUS
<1>3. calls' = [calls EXCEPT ![d] = [calls[d] EXCEPT !.disturbed = mark]]
  BY <1>1, <1>2 DEF ChallengeExpires
<1>4. \A r \in CallRecord :
        LET s == [r EXCEPT !.disturbed = mark]
        IN  /\ s \in CallRecord /\ s.disturbed = mark
            /\ \A f \in Field \ {"disturbed"} : s[f] = r[f]
  BY DEF CallRecord, Field
<1>5. \A c \in Call : calls[c] \in CallRecord
  BY DEF TypeOK
<1>6. calls' \in [Call -> CallRecord] /\ \A c \in Call \ {d} : calls'[c] = calls[c]
  BY <1>3, <1>4, <1>5 DEF TypeOK
<1>7. calls'[d].disturbed = mark /\ \A f \in Field \ {"disturbed"} : calls'[d][f] = calls[d][f]
  <2>1. calls'[d] = [calls[d] EXCEPT !.disturbed = mark] /\ calls[d] \in CallRecord
    BY <1>3 DEF TypeOK
  <2> QED BY <1>4, <2>1
<1> QED BY <1>1, <1>2, <1>6, <1>7 DEF Bystander

(* Every step keeps the types.                                             *)
LEMMA AccountsTypes == TypeOK /\ [AccountsNext]_accountVars => TypeOK'
<1> SUFFICES ASSUME TypeOK, [AccountsNext]_accountVars
             PROVE  TypeOK'
  OBVIOUS
<1> USE DEF limits, rows, cookies, ceremony
<1>0. UNCHANGED <<clock, store>> => LimitsTyped
  BY DEF LimitsTyped, TypeOK, StoreOK
<1>1. UNCHANGED calls => CallsTyped
  BY DEF CallsTyped, TypeOK, Cookies
<1>2. ASSUME NEW c \in Call, PasswordSteps(c) \/ SessionSteps(c) \/ PasskeySteps(c)
      PROVE  TypeOK'
  BY <1>2, PasswordTypes, SessionTypes, PasskeyTypes
<1>3. ASSUME RemovePasskey
      PROVE  TypeOK'
  <2>1. passkeys' \in [KeyId -> Nat \cup {None}]
    BY <1>3 DEF RemovePasskey, TypeOK
  <2> QED BY <1>0, <1>1, <1>3, <2>1
          DEF RemovePasskey, TypeOK, CallsTyped, LimitsTyped, Cookies
<1>4. ASSUME ChallengeExpires
      PROVE  TypeOK'
  <2>1. challenges' \in Seq(ChallengeRow)
    BY <1>4, ChallengesTyped DEF ChallengeExpires, TypeOK
  <2>2. \A c \in Call : /\ calls'[c].at = calls[c].at /\ calls'[c].name = calls[c].name
                        /\ calls'[c].key = calls[c].key
    <3>1. {"at", "name", "key"} \in SUBSET (Field \ {"disturbed"})
      BY DEF Field
    <3>2. ASSUME NEW c \in Call
          PROVE  /\ calls'[c]["at"] = calls[c]["at"] /\ calls'[c]["name"] = calls[c]["name"]
                 /\ calls'[c]["key"] = calls[c]["key"]
      BY <1>4, <3>1, ExpiryCalls DEF Bystander
    <3> QED BY <3>2
  <2>3. CallsTyped
    BY <1>4, <2>2, ExpiryCalls DEF CallsTyped, TypeOK, Cookies
  <2> QED BY <1>0, <1>4, <2>1, <2>3
          DEF ChallengeExpires, TypeOK, CallsTyped, LimitsTyped, Cookies
<1>5. ASSUME NEW u \in users, Deactivate(u)
      PROVE  TypeOK'
  BY <1>0, <1>1, <1>5, TypesKept DEF Deactivate
<1>6. ASSUME Me \/ Cleanup
      PROVE  TypeOK'
  <2>1. LimitsTyped
    BY <1>6, LimitsKept DEF Me, Cleanup
  <2> QED BY <1>1, <1>6, <2>1, TypesKept DEF Me, Cleanup
<1>7. ASSUME ServerRestarts
      PROVE  TypeOK'
  <2>1. LimitsTyped
    BY <1>7, LimitsKept DEF ServerRestarts
  <2>2. \A c \in Call : calls'[c].name = calls[c].name /\ calls'[c].key = calls[c].key
    <3>1. \A c \in Call : /\ calls'[c]["name"] = calls[c]["name"]
                          /\ calls'[c]["key"] = calls[c]["key"]
      BY <1>7, RestartCalls DEF Field
    <3> QED BY <3>1
  <2>3. \A c \in Call : calls'[c].at \in {calls[c].at, "refused"}
                        /\ (calls[c].at = "ok" => calls'[c].at = "ok")
    BY <1>7, RestartCalls DEF AtServer, InCeremony, Reading, ReadingNew
  <2>4. calls' \in [Call -> CallRecord]
    BY <1>7, RestartCalls
  <2>5. CallsTyped
    BY <2>2, <2>3, <2>4 DEF CallsTyped, TypeOK, Cookies, KnowsName, KnowsKey
  <2> QED BY <1>7, <2>1, <2>5, TypesKept DEF ServerRestarts
<1>8. ASSUME Instant
      PROVE  TypeOK'
  <2>1. \A l \in Limiter : \A h \in store[l] : h[1] \in Nat /\ h[1] <= clock
    <3>1. \A l \in Limiter : store[l] \subseteq Nat \X Nat
      BY DEF TypeOK
    <3> QED BY <3>1 DEF TypeOK, StoreOK
  <2>2. clock' = clock + 1 /\ clock \in Nat /\ store' = store
    BY <1>8 DEF Instant, TypeOK
  <2>3. \A l \in Limiter : \A h \in store[l] : h[1] <= clock + 1
    BY <2>1, <2>2
  <2>4. LimitsTyped
    BY <2>2, <2>3 DEF LimitsTyped, TypeOK, StoreOK
  <2> QED BY <1>1, <1>8, <2>4, TypesKept DEF Instant
<1>9. CASE UNCHANGED accountVars
  BY <1>9 DEF accountVars, TypeOK, StoreOK
<1> QED BY <1>2, <1>3, <1>4, <1>5, <1>6, <1>7, <1>8, <1>9 DEF AccountsNext

-----------------------------------------------------------------------------
(* What the steps that are nobody's do to the calls.                       *)
LEMMA NobodysStep ==
  ASSUME TypeOK,
         \/ RemovePasskey \/ ChallengeExpires \/ \E u \in users : Deactivate(u)
         \/ Me \/ Cleanup \/ ServerRestarts \/ Instant \/ UNCHANGED accountVars
  PROVE  /\ calls' \in [Call -> CallRecord]
         /\ UNCHANGED <<users, revoked, secure, browser, left>>
         /\ \A d \in Call :
              /\ \A f \in Field \ {"at", "tried", "disturbed"} : calls'[d][f] = calls[d][f]
              /\ \/ calls'[d].at = calls[d].at
                 \/ calls'[d].at = "refused" /\ calls[d].at \in AtServer
              /\ calls[d].disturbed => calls'[d].disturbed
<1> USE DEF limits, rows, cookies, ceremony
<1>1. CASE UNCHANGED calls
  BY <1>1 DEF TypeOK, RemovePasskey, ChallengeExpires, Deactivate, Me, Cleanup,
              ServerRestarts, Instant, accountVars
<1>2. CASE ChallengeExpires
  <2>1. {"at"} \in SUBSET (Field \ {"disturbed"})
    BY DEF Field
  <2>2. \A d \in Call : calls'[d]["at"] = calls[d]["at"]
    BY <1>2, <2>1, ExpiryCalls DEF Bystander
  <2> QED BY <1>2, <2>2, ExpiryCalls DEF ChallengeExpires, Bystander
<1>3. CASE ServerRestarts
  <2>1. \A d \in Call : calls'[d]["disturbed"] = calls[d]["disturbed"]
    BY <1>3, RestartCalls DEF Field
  <2>2. /\ calls' \in [Call -> CallRecord]
        /\ \A d \in Call :
             /\ calls'[d].at = IF calls[d].at \in AtServer THEN "refused" ELSE calls[d].at
             /\ \A f \in Field \ {"at", "tried"} : calls'[d][f] = calls[d][f]
    BY <1>3, RestartCalls
  <2>3. UNCHANGED <<users, revoked, secure, browser, left>>
    BY <1>3 DEF ServerRestarts
  <2> QED BY <2>1, <2>2, <2>3
<1> QED BY <1>1, <1>2, <1>3 DEF RemovePasskey, Deactivate, Me, Cleanup, Instant, accountVars

(* What the steps of a session or a passkey leave alone, ...               *)
LEMMA Asides ==
  ASSUME TypeOK, NEW c \in Call, SessionSteps(c) \/ PasskeySteps(c)
  PROVE  /\ UNCHANGED users
         /\ calls[c].at # "ok"
         /\ \E to, changed :
              /\ to \in Place \ {"new", "body", "lookup", "insert", "find", "verify"}
              /\ Becomes(c, to, changed)
              /\ changed \cap {"name", "saw", "tried", "disturbed"} = {}
<1> USE DEF limits, rows, cookies, ceremony
<1>0. {"revoke", "logged_out", "refused", "ok", "begun", "begun_new", "sent", "challenge",
       "challenge_new", "delete", "delete_new", "mismatch", "insert_key", "update",
       "signed_in_by_key"} \in SUBSET (Place \ {"new", "body", "lookup", "insert", "find", "verify"})
  BY DEF Place, AtServer, InCeremony, Reading, ReadingNew
<1>1. CASE SessionSteps(c)
  <2>1. UNCHANGED users
    BY <1>1 DEF SessionSteps, Logout, Revoke, LoggedOut, CallFails
  <2>2. calls[c].at # "ok"
    BY <1>1 DEF SessionSteps, Logout, Revoke, LoggedOut, CallFails, AtServer, InCeremony, Reading, ReadingNew
  <2>3. \E to \in {"revoke", "logged_out", "refused", "ok"},
           changed \in {{}, {"user", "cookies"}, {"cookies"}} : Becomes(c, to, changed)
    BY <1>1, SessionCalls DEF SessionSteps, Step
  <2> QED BY <1>0, <2>1, <2>2, <2>3
<1>2. CASE PasskeySteps(c)
  <2>1. UNCHANGED users
    BY <1>2 DEF PasskeySteps, LoginBegin, RegisterBegin, Sign, ReadCredential, ReadChallenge,
                DeleteChallenge, InsertCredential, UpdateCounter, SignedInByKey
  <2>2. calls[c].at # "ok"
    BY <1>2 DEF PasskeySteps, LoginBegin, RegisterBegin, Sign, ReadCredential, ReadChallenge,
                DeleteChallenge, InsertCredential, UpdateCounter, SignedInByKey
  <2>3. \E to \in {"refused", "ok", "begun", "begun_new", "sent", "challenge",
                   "challenge_new", "delete", "delete_new", "mismatch", "insert_key", "update",
                   "signed_in_by_key"},
           changed \in {{}, {"user"}, {"key", "count"}, {"count"}, {"user", "stored"},
                        {"challenge"}} : Becomes(c, to, changed)
    BY <1>2, PasskeyCalls DEF PasskeySteps, Step
  <2> QED BY <1>0, <2>1, <2>2, <2>3
<1> QED BY <1>1, <1>2

(* ... and what that means for a call.                                     *)
LEMMA CallKeeps ==
  ASSUME NEW c \in Call, NEW to, NEW changed, Becomes(c, to, changed)
  PROVE  /\ calls'[c].at = to
         /\ "name" \notin changed => calls'[c].name = calls[c].name
         /\ "user" \notin changed => calls'[c].user = calls[c].user
         /\ "cookies" \notin changed => calls'[c].cookies = calls[c].cookies
         /\ "saw" \notin changed => calls'[c].saw = calls[c].saw
         /\ "tried" \notin changed => calls'[c].tried = calls[c].tried
         /\ \A d \in Call \ {c} :
              /\ calls'[d].at = calls[d].at /\ calls'[d].name = calls[d].name
              /\ calls'[d].user = calls[d].user /\ calls'[d].cookies = calls[d].cookies
              /\ calls'[d].saw = calls[d].saw /\ calls'[d].tried = calls[d].tried
              /\ calls[d].disturbed => calls'[d].disturbed
<1>1. {"at", "name", "user", "cookies", "saw", "tried"} \in SUBSET (Field \ {"disturbed"})
  BY DEF Field
<1>2. \A d \in Call \ {c}, f \in Field \ {"disturbed"} : calls'[d][f] = calls[d][f]
  BY DEF Becomes, Bystander
<1>3. ASSUME NEW d \in Call \ {c}
      PROVE  /\ calls'[d]["at"] = calls[d]["at"] /\ calls'[d]["name"] = calls[d]["name"]
             /\ calls'[d]["user"] = calls[d]["user"] /\ calls'[d]["cookies"] = calls[d]["cookies"]
             /\ calls'[d]["saw"] = calls[d]["saw"] /\ calls'[d]["tried"] = calls[d]["tried"]
             /\ calls[d].disturbed => calls'[d].disturbed
  BY <1>1, <1>2 DEF Becomes, Bystander
<1>4. /\ "name" \notin changed => calls'[c]["name"] = calls[c]["name"]
      /\ "user" \notin changed => calls'[c]["user"] = calls[c]["user"]
      /\ "cookies" \notin changed => calls'[c]["cookies"] = calls[c]["cookies"]
      /\ "saw" \notin changed => calls'[c]["saw"] = calls[c]["saw"]
      /\ "tried" \notin changed => calls'[c]["tried"] = calls[c]["tried"]
  BY DEF Becomes, Field
<1> QED BY <1>3, <1>4 DEF Becomes

-----------------------------------------------------------------------------
Early == {"new", "body", "lookup", "insert"}

(* A row that a registration inserted has the name of its call, which no   *)
(* row had that the call saw.                                              *)
SawOthers(c) ==
  /\ calls[c].at \in {"new", "body", "lookup"} => calls[c].saw = {}
  /\ \A v \in calls[c].saw : v[2] # calls[c].name

NamesInv ==
  /\ \A c \in Call : SawOthers(c)
  /\ \A u \in users \ Seeded :
       u[1] \in Call /\ u[2] = calls[u[1]].name /\ calls[u[1]].at \notin Early

(* It is so in the first state.                                            *)
LEMMA NamesStart == AccountsInit => NamesInv
  BY DEF AccountsInit, NewCall, NamesInv, SawOthers

(* One call moves.                                                         *)
LEMMA NamesKept ==
  ASSUME NamesInv, NEW c \in Call, NEW to, NEW changed, Becomes(c, to, changed),
         SawOthers(c)',
         calls[c].at \in Early \/ (to \notin Early /\ calls'[c].name = calls[c].name),
         \/ UNCHANGED users
         \/ /\ users' = users \cup {<<c, calls'[c].name>>}
            /\ to \notin Early /\ calls'[c].name = calls[c].name
  PROVE  NamesInv'
<1>1. \A d \in Call \ {c} : /\ calls'[d].at = calls[d].at /\ calls'[d].name = calls[d].name
                            /\ calls'[d].saw = calls[d].saw
  BY CallKeeps
<1>2. calls'[c].at = to
  BY CallKeeps
<1>3. ASSUME NEW u \in users' \ Seeded
      PROVE  u[1] \in Call /\ u[2] = calls'[u[1]].name /\ calls'[u[1]].at \notin Early
  BY <1>1, <1>2, <1>3 DEF NamesInv
<1>4. ASSUME NEW d \in Call
      PROVE  SawOthers(d)'
  BY <1>1, <1>2 DEF NamesInv, SawOthers
<1> QED BY <1>3, <1>4 DEF NamesInv

(* Every step leaves it so.                                                *)
LEMMA NamesStep == TypeOK /\ NamesInv /\ [AccountsNext]_accountVars => NamesInv'
<1> SUFFICES ASSUME TypeOK, NamesInv, [AccountsNext]_accountVars
             PROVE  NamesInv'
  OBVIOUS
<1> USE DEF limits, rows, cookies, ceremony
<1>1. ASSUME NEW c \in Call, SessionSteps(c) \/ PasskeySteps(c)
      PROVE  NamesInv'
  <2>1. UNCHANGED users
    BY <1>1, Asides
  <2>2. PICK to, changed :
          /\ to \in Place \ {"new", "body", "lookup", "insert", "find", "verify"}
          /\ Becomes(c, to, changed)
          /\ changed \cap {"name", "saw", "tried", "disturbed"} = {}
    BY <1>1, Asides
  <2>3. calls'[c].name = calls[c].name /\ calls'[c].saw = calls[c].saw
    BY <2>2, CallKeeps
  <2>4. SawOthers(c)'
    BY <2>2, <2>3, CallKeeps DEF NamesInv, SawOthers
  <2> QED BY <2>1, <2>2, <2>3, <2>4, NamesKept DEF Early
<1>2. ASSUME NEW c \in Call, PasswordSteps(c)
      PROVE  NamesInv'
  <2>1. ASSUME NEW n \in Username, RegisterBegins(c, n) \/ LoginCounts(c, n)
        PROVE  NamesInv'
    <3>1. UNCHANGED users /\ calls[c].at \in {"new", "body"}
      BY <2>1 DEF RegisterBegins, LoginCounts
    <3>2. \E to \in {"lookup", "refused", "find"}, changed \in {{}, {"name"}, {"name", "tried"}} :
            Becomes(c, to, changed)
      BY <2>1, PasswordCalls, CountingCalls DEF Step
    <3>3. PICK to, changed : Becomes(c, to, changed) /\ "saw" \notin changed
      BY <3>2
    <3>4. calls'[c].saw = calls[c].saw /\ calls[c].saw = {}
      BY <3>1, <3>3, CallKeeps DEF NamesInv, SawOthers
    <3>5. SawOthers(c)'
      BY <3>4 DEF SawOthers
    <3> QED BY <3>1, <3>3, <3>5, NamesKept DEF Early
  <2>2. CASE LookUp(c)
    <3>1. UNCHANGED users /\ calls[c].at = "lookup"
      BY <2>2 DEF LookUp
    <3>2. CASE /\ Becomes(c, "insert", {"saw"}) /\ calls'[c].saw = users
               /\ Named(calls[c].name) = {}
      <4>1. SawOthers(c)'
        BY <3>2, CallKeeps DEF SawOthers, Named
      <4> QED BY <3>1, <3>2, <4>1, NamesKept DEF Early
    <3>3. CASE Becomes(c, "refused", {})
      <4>1. SawOthers(c)'
        BY <3>3, CallKeeps DEF SawOthers, NamesInv
      <4> QED BY <3>1, <3>3, <4>1, NamesKept DEF Early
    <3> QED BY <2>2, <3>2, <3>3, PasswordCalls DEF Step
  <2>3. CASE InsertUser(c)
    <3>1. Becomes(c, "signed_in", {"user"})
      BY <2>3, PasswordCalls DEF Step
    <3>2. calls'[c].name = calls[c].name /\ SawOthers(c)'
      BY <3>1, CallKeeps DEF SawOthers, NamesInv
    <3>3. users' = users \cup {<<c, calls'[c].name>>}
      BY <2>3, <3>2 DEF InsertUser
    <3> QED BY <3>1, <3>2, <3>3, NamesKept DEF Early
  <2>4. CASE LoginBegins(c)
    <3>1. UNCHANGED users /\ calls[c].at = "new"
      BY <2>4 DEF LoginBegins
    <3>2. PICK to : Becomes(c, to, {})
      BY <2>4, PasswordCalls DEF Step
    <3>3. calls'[c].saw = calls[c].saw /\ calls[c].saw = {}
      BY <3>1, <3>2, CallKeeps DEF NamesInv, SawOthers
    <3>4. SawOthers(c)'
      BY <3>3 DEF SawOthers
    <3> QED BY <3>1, <3>2, <3>4, NamesKept DEF Early
  <2>5. CASE FindUser(c) \/ VerifyPassword(c) \/ SignedIn(c)
    <3>1. UNCHANGED users
      BY <2>5 DEF FindUser, VerifyPassword, SignedIn
    <3>2. PICK to \in {"verify", "refused", "signed_in", "ok"}, changed \in {{}, {"user"}} :
            Becomes(c, to, changed)
      BY <2>5, PasswordCalls DEF Step
    <3>3. calls'[c].name = calls[c].name /\ SawOthers(c)'
      BY <3>2, CallKeeps DEF SawOthers, NamesInv
    <3> QED BY <3>1, <3>2, <3>3, NamesKept DEF Early
  <2> QED BY <1>2, <2>1, <2>2, <2>3, <2>4, <2>5 DEF PasswordSteps
<1>3. CASE \/ RemovePasskey \/ ChallengeExpires \/ \E u \in users : Deactivate(u)
           \/ Me \/ Cleanup \/ ServerRestarts \/ Instant \/ UNCHANGED accountVars
  <2>1. \A d \in Call : /\ calls'[d]["name"] = calls[d]["name"] /\ calls'[d]["saw"] = calls[d]["saw"]
                        /\ calls'[d].at \in {calls[d].at, "refused"}
    BY <1>3, NobodysStep DEF Field
  <2>2. UNCHANGED users
    BY <1>3, NobodysStep
  <2>3. \A d \in Call : SawOthers(d)'
    BY <2>1 DEF NamesInv, SawOthers
  <2> QED BY <2>1, <2>2, <2>3 DEF NamesInv, Early
<1> QED BY <1>1, <1>2, <1>3 DEF AccountsNext

(* The types of the variables hold in every state.                         *)
LEMMA Typed == AccountsSpec => []TypeOK
<1> QED BY AccountsStart, AccountsTypes, PTL DEF AccountsSpec

(* Two rows have one name only if neither registration saw the other:      *)
(* api/auth.ts looks the name up and inserts the row in two statements,    *)
(* and nothing else lets two rows of one name through.                     *)
THEOREM NamesNeedARace == AccountsSpec => []SameNameNeedsARace
<1>1. NamesInv => SameNameNeedsARace
  <2> SUFFICES ASSUME NamesInv, NEW u \in users, NEW v \in users, u[2] = v[2],
                      NEW c \in Call, c = u[1], v \in calls[c].saw
               PROVE  FALSE
    BY DEF SameNameNeedsARace
  <2>1. u \notin Seeded
    BY AccountsAssumption
  <2> QED BY <2>1 DEF NamesInv, SawOthers
<1> QED BY <1>1, Typed, NamesStart, NamesStep, PTL DEF AccountsSpec

-----------------------------------------------------------------------------
(* While a call logs out, each session that it found in the browser is     *)
(* revoked or about to be, or in the cookie that the answer clears.        *)
LoggingOut(c) ==
  \A s \in calls[c].cookies :
    /\ calls[s].at = "ok"
    /\ calls[c].at \in {"revoke", "logged_out"} =>
         \/ s \in revoked
         \/ calls[c].at = "revoke" /\ s = calls[c].user
         \/ secure /\ s # browser.plain

(* A session that a logout took is revoked, or in neither cookie.          *)
SessionInv ==
  /\ browser.host # Nobody => secure
  /\ \A c \in Call : LoggingOut(c)
  /\ \A s \in left : /\ s \in Call /\ calls[s].at = "ok"
                     /\ s \in revoked \/ (s # browser.host /\ s # browser.plain)

(* Nobody is logged in in the first state.                                 *)
LEMMA SessionStart == AccountsInit => SessionInv
  BY DEF AccountsInit, NewCall, SessionInv, LoggingOut

(* A call moves, and may have got a session by it.                         *)
LEMMA SessionKept ==
  ASSUME TypeOK, SessionInv, NEW c \in Call, NEW to, NEW changed, Becomes(c, to, changed),
         calls[c].at # "ok", to \notin {"revoke", "logged_out"},
         "cookies" \notin changed, UNCHANGED <<secure, left, revoked>>,
         browser'.plain \in {browser.plain, c},
         browser'.host = browser.host \/ (secure /\ browser'.host = c)
  PROVE  SessionInv'
<1>1. \A d \in Call \ {c} : /\ calls'[d].at = calls[d].at /\ calls'[d].user = calls[d].user
                            /\ calls'[d].cookies = calls[d].cookies
  BY CallKeeps
<1>2. calls'[c].at = to /\ calls'[c].cookies = calls[c].cookies
  BY CallKeeps
<1>3. \A s \in Call : calls[s].at = "ok" => s # c /\ calls'[s].at = "ok"
  BY <1>1
<1>4. \A d \in Call : calls[d].cookies \subseteq Call
  BY DEF TypeOK, CallRecord
<1>5. ASSUME NEW d \in Call
      PROVE  LoggingOut(d)'
  <2> SUFFICES ASSUME NEW s \in calls'[d].cookies
               PROVE  /\ calls'[s].at = "ok"
                      /\ calls'[d].at \in {"revoke", "logged_out"} =>
                           \/ s \in revoked'
                           \/ calls'[d].at = "revoke" /\ s = calls'[d].user
                           \/ secure' /\ s # browser'.plain
    BY DEF LoggingOut
  <2>1. s \in Call /\ s \in calls[d].cookies /\ LoggingOut(d)
    BY <1>1, <1>2, <1>4 DEF SessionInv
  <2>2. calls[s].at = "ok" /\ s # c /\ calls'[s].at = "ok"
    BY <1>3, <2>1 DEF LoggingOut
  <2>3. CASE d = c
    BY <1>2, <2>2, <2>3
  <2>4. CASE d # c
    BY <1>1, <2>1, <2>2, <2>4 DEF LoggingOut
  <2> QED BY <2>3, <2>4
<1>6. ASSUME NEW s \in left'
      PROVE  /\ s \in Call /\ calls'[s].at = "ok"
             /\ s \in revoked' \/ (s # browser'.host /\ s # browser'.plain)
  BY <1>3 DEF SessionInv
<1>7. browser'.host # Nobody => secure'
  BY DEF SessionInv
<1> QED BY <1>5, <1>6, <1>7 DEF SessionInv

(* A logout begins with the sessions of the two cookies, ...               *)
LEMMA LogoutKept ==
  ASSUME TypeOK, SessionInv, NEW c \in Call, Logout(c)
  PROVE  SessionInv'
<1> USE DEF limits, rows, cookies, ceremony
<1>1. UNCHANGED <<secure, left, revoked, browser>> /\ calls[c].at = "new"
  BY DEF Logout
<1>2. CASE Step(c, "new", "refused", {})
  BY <1>1, <1>2, SessionKept DEF Step
<1>3. CASE /\ \/ browser.plain # Nobody /\ Step(c, "new", "revoke", {"user", "cookies"})
              \/ browser.plain = Nobody /\ Step(c, "new", "logged_out", {"user", "cookies"})
           /\ calls'[c].user = browser.plain /\ calls'[c].cookies = Cookies
  <2>1. /\ calls'[c].at = IF browser.plain # Nobody THEN "revoke" ELSE "logged_out"
        /\ \A d \in Call \ {c} : /\ calls'[d].at = calls[d].at /\ calls'[d].user = calls[d].user
                                 /\ calls'[d].cookies = calls[d].cookies
    BY <1>3, CallKeeps DEF Step
  <2>2. \A s \in Call : calls[s].at = "ok" => calls'[s].at = "ok"
    BY <1>1, <2>1
  <2>3. \A d \in Call : calls[d].cookies \subseteq Call
    BY DEF TypeOK, CallRecord
  <2>4. \A d \in Call \ {c} : LoggingOut(d)'
    BY <1>1, <2>1, <2>2, <2>3 DEF SessionInv, LoggingOut
  <2>5. LoggingOut(c)'
    <3> SUFFICES ASSUME NEW s \in Cookies
                 PROVE  /\ calls'[s].at = "ok"
                        /\ \/ s \in revoked
                           \/ calls'[c].at = "revoke" /\ s = calls'[c].user
                           \/ secure /\ s # browser.plain
      BY <1>1, <1>3 DEF LoggingOut
    <3>1. s \in Call /\ calls[s].at = "ok"
      BY DEF Cookies, TypeOK
    <3>2. CASE s = browser.plain
      BY <1>3, <2>1, <2>2, <3>1, <3>2 DEF Cookies
    <3>3. CASE s # browser.plain
      BY <2>2, <3>1, <3>3 DEF Cookies, SessionInv
    <3> QED BY <3>2, <3>3
  <2> QED BY <1>1, <2>2, <2>4, <2>5 DEF SessionInv
<1> QED BY <1>2, <1>3, SessionCalls

(* ... revokes that of the plain cookie, ...                               *)
LEMMA RevokeKept ==
  ASSUME TypeOK, SessionInv, NEW c \in Call, Revoke(c)
  PROVE  SessionInv'
<1> USE DEF limits, rows, cookies, ceremony
<1>1. UNCHANGED <<secure, left, browser>> /\ calls[c].at = "revoke"
  BY DEF Revoke
<1>2. /\ Becomes(c, "logged_out", {}) \/ Becomes(c, "logged_out", {"cookies"})
      /\ \/ calls'[c].cookies = calls[c].cookies /\ revoked' = revoked \cup {calls[c].user}
         \/ calls'[c].cookies = {} /\ UNCHANGED revoked
  BY SessionCalls, CallKeeps DEF Step
<1>3. /\ calls'[c].at = "logged_out"
      /\ \A d \in Call \ {c} : /\ calls'[d].at = calls[d].at /\ calls'[d].user = calls[d].user
                               /\ calls'[d].cookies = calls[d].cookies
  BY <1>2, CallKeeps
<1>4. \A s \in Call : calls[s].at = "ok" => calls'[s].at = "ok"
  BY <1>1, <1>3
<1>5. \A d \in Call : calls[d].cookies \subseteq Call
  BY DEF TypeOK, CallRecord
<1>6. \A d \in Call \ {c} : LoggingOut(d)'
  BY <1>1, <1>2, <1>3, <1>4, <1>5 DEF SessionInv, LoggingOut
<1>7. LoggingOut(c)'
  BY <1>1, <1>2, <1>3, <1>4, <1>5 DEF SessionInv, LoggingOut
<1> QED BY <1>1, <1>2, <1>4, <1>6, <1>7 DEF SessionInv

(* ... and clears the cookie that the context names.                       *)
LEMMA LoggedOutKept ==
  ASSUME TypeOK, SessionInv, NEW c \in Call, LoggedOut(c)
  PROVE  SessionInv'
<1> USE DEF limits, rows, cookies, ceremony
<1>1. /\ UNCHANGED <<secure, revoked>> /\ left' = left \cup calls[c].cookies
      /\ calls[c].at = "logged_out"
      /\ browser'.host = IF secure THEN Nobody ELSE browser.host
      /\ browser'.plain = IF secure THEN browser.plain ELSE Nobody
  BY DEF LoggedOut, TypeOK
<1>2. Becomes(c, "ok", {})
  BY SessionCalls DEF Step
<1>3. /\ calls'[c].at = "ok"
      /\ \A d \in Call \ {c} : /\ calls'[d].at = calls[d].at /\ calls'[d].user = calls[d].user
                               /\ calls'[d].cookies = calls[d].cookies
      /\ calls'[c].cookies = calls[c].cookies
  BY <1>2, CallKeeps
<1>4. \A s \in Call : calls[s].at = "ok" => calls'[s].at = "ok"
  BY <1>3
<1>5. (\A d \in Call : calls[d].cookies \subseteq Call) /\ Nobody \notin Call
  BY AccountsAssumption DEF TypeOK, CallRecord, UserId
<1>6. \A d \in Call : LoggingOut(d)'
  BY <1>1, <1>3, <1>4, <1>5 DEF SessionInv, LoggingOut
<1>7. ASSUME NEW s \in left'
      PROVE  /\ s \in Call /\ calls'[s].at = "ok"
             /\ s \in revoked' \/ (s # browser'.host /\ s # browser'.plain)
  <2>1. CASE s \in left
    BY <1>1, <1>4, <1>5, <2>1 DEF SessionInv
  <2>2. CASE s \in calls[c].cookies
    BY <1>1, <1>4, <1>5, <2>2 DEF SessionInv, LoggingOut
  <2> QED BY <1>1, <2>1, <2>2
<1> QED BY <1>1, <1>6, <1>7 DEF SessionInv

(* Every step leaves it so.                                                *)
LEMMA SessionStep == TypeOK /\ SessionInv /\ [AccountsNext]_accountVars => SessionInv'
<1> SUFFICES ASSUME TypeOK, SessionInv, [AccountsNext]_accountVars
             PROVE  SessionInv'
  OBVIOUS
<1> USE DEF limits, rows, cookies, ceremony
<1>1. ASSUME NEW c \in Call, PasswordSteps(c)
      PROVE  SessionInv'
  <2>1. UNCHANGED <<secure, left, revoked>> /\ calls[c].at # "ok"
    BY <1>1 DEF PasswordSteps, RegisterBegins, LookUp, InsertUser, LoginBegins, LoginCounts,
                FindUser, VerifyPassword, SignedIn
  <2>2. /\ browser'.plain \in {browser.plain, c}
        /\ browser'.host = browser.host \/ (secure /\ browser'.host = c)
    BY <1>1 DEF PasswordSteps, RegisterBegins, LookUp, InsertUser, LoginBegins, LoginCounts,
                FindUser, VerifyPassword, SignedIn, TypeOK
  <2>3. \E to \in {"lookup", "refused", "insert", "signed_in", "body", "find", "verify", "ok"},
           changed \in {{}, {"name"}, {"saw"}, {"user"}, {"name", "tried"}} :
             Becomes(c, to, changed)
    BY <1>1, PasswordCalls, CountingCalls DEF PasswordSteps, Step
  <2>4. PICK to, changed : /\ Becomes(c, to, changed) /\ "cookies" \notin changed
                           /\ to \notin {"revoke", "logged_out"}
    BY <2>3
  <2> QED BY <2>1, <2>2, <2>4, SessionKept
<1>2. ASSUME NEW c \in Call, PasskeySteps(c)
      PROVE  SessionInv'
  <2>1. UNCHANGED <<secure, left, revoked>> /\ calls[c].at # "ok"
    BY <1>2 DEF PasskeySteps, LoginBegin, RegisterBegin, Sign, ReadCredential, ReadChallenge,
                DeleteChallenge, InsertCredential, UpdateCounter, SignedInByKey
  <2>2. browser'.plain \in {browser.plain, c} /\ browser'.host = browser.host
    BY <1>2 DEF PasskeySteps, LoginBegin, RegisterBegin, Sign, ReadCredential, ReadChallenge,
                DeleteChallenge, InsertCredential, UpdateCounter, SignedInByKey, TypeOK
  <2>3. \E to \in {"refused", "ok", "begun", "begun_new", "sent", "challenge",
                   "challenge_new", "delete", "delete_new", "mismatch", "insert_key", "update",
                   "signed_in_by_key"},
           changed \in {{}, {"user"}, {"key", "count"}, {"count"}, {"user", "stored"},
                        {"challenge"}} : Becomes(c, to, changed)
    BY <1>2, PasskeyCalls DEF PasskeySteps, Step
  <2>4. PICK to, changed : /\ Becomes(c, to, changed) /\ "cookies" \notin changed
                           /\ to \notin {"revoke", "logged_out"}
    BY <2>3
  <2> QED BY <2>1, <2>2, <2>4, SessionKept
<1>3. ASSUME NEW c \in Call, CallFails(c)
      PROVE  SessionInv'
  <2>1. /\ UNCHANGED <<secure, left, revoked, browser>> /\ calls[c].at # "ok"
        /\ Becomes(c, "refused", {})
    BY <1>3, SessionCalls DEF CallFails, AtServer, InCeremony, Reading, ReadingNew
  <2> QED BY <2>1, SessionKept
<1>4. ASSUME NEW c \in Call, Logout(c) \/ Revoke(c) \/ LoggedOut(c)
      PROVE  SessionInv'
  BY <1>4, LogoutKept, RevokeKept, LoggedOutKept
<1>5. CASE \/ RemovePasskey \/ ChallengeExpires \/ \E u \in users : Deactivate(u)
           \/ Me \/ Cleanup \/ ServerRestarts \/ Instant \/ UNCHANGED accountVars
  <2>1. \A d \in Call : /\ calls'[d]["user"] = calls[d]["user"]
                        /\ calls'[d]["cookies"] = calls[d]["cookies"]
    BY <1>5, NobodysStep DEF Field
  <2>2. \A d \in Call : /\ calls'[d].at \in {calls[d].at, "refused"}
                        /\ calls[d].at = "ok" => calls'[d].at = "ok"
    BY <1>5, NobodysStep DEF AtServer, InCeremony, Reading, ReadingNew
  <2>3. UNCHANGED <<revoked, secure, browser, left>>
    BY <1>5, NobodysStep
  <2>4. \A d \in Call : calls[d].cookies \subseteq Call
    BY DEF TypeOK, CallRecord
  <2> QED BY <2>1, <2>2, <2>3, <2>4 DEF SessionInv, LoggingOut
<1> QED BY <1>1, <1>2, <1>3, <1>4, <1>5 DEF AccountsNext, SessionSteps

(* After a logout whose revocation did not fail the browser has none of    *)
(* the sessions it had: api/auth.ts revokes the one of the plain cookie    *)
(* and clears the one of the context, which together are all of them.      *)
THEOREM LogoutEndsIt == AccountsSpec => []LogoutEndsSession
<1>1. TypeOK /\ SessionInv => LogoutEndsSession
  <2>1. Nobody \notin Call
    BY AccountsAssumption DEF UserId
  <2> QED BY <2>1 DEF SessionInv, LogoutEndsSession, Session, Presented
<1> QED BY <1>1, Typed, SessionStart, SessionStep, PTL DEF AccountsSpec

-----------------------------------------------------------------------------
(* The rows that a ceremony asks for when it reads its challenge.          *)
Asked(c, h) ==
  IF calls[c].at \in Reading THEN h.type = "authentication"
  ELSE h.type = "registration" /\ h.user = calls[c].user

IsNewest(c, i) ==
  /\ challenges[i].id = c /\ Asked(c, challenges[i])
  /\ calls[c].at \in Reading => challenges[i].user = Nobody
  /\ \A k \in DOMAIN challenges : Asked(c, challenges[k]) => k <= i

(* A ceremony that nothing came between has its challenge as the newest of *)
(* those, ...                                                              *)
FindsItsOwn(c) ==
  calls[c].at \in Reading \cup ReadingNew => \E i \in DOMAIN challenges : IsNewest(c, i)

(* ... and reads that one.                                                 *)
OnItsOwn(c) ==
  ~ calls[c].disturbed =>
    /\ FindsItsOwn(c)
    /\ calls[c].at \in {"delete", "delete_new"} => calls[c].challenge = c

CeremonyInv == \A c \in Call : OnItsOwn(c)

(* No ceremony has begun in the first state.                               *)
LEMMA CeremonyStart == AccountsInit => CeremonyInv
<1> SUFFICES ASSUME AccountsInit PROVE CeremonyInv
  OBVIOUS
<1>1. \A c \in Call : calls[c].at = "new"
  BY DEF AccountsInit, NewCall
<1> QED BY <1>1 DEF CeremonyInv, OnItsOwn, FindsItsOwn, Reading, ReadingNew

(* What a step of one call leaves of the ceremonies.                       *)
LEMMA CeremonyKeeps ==
  ASSUME NEW c \in Call, NEW to, NEW changed, Becomes(c, to, changed)
  PROVE  /\ "challenge" \notin changed => calls'[c].challenge = calls[c].challenge
         /\ "key" \notin changed => calls'[c].key = calls[c].key
         /\ "count" \notin changed => calls'[c].count = calls[c].count
         /\ "stored" \notin changed => calls'[c].stored = calls[c].stored
         /\ "disturbed" \notin changed => calls'[c].disturbed = calls[c].disturbed
         /\ \A d \in Call \ {c} :
              /\ calls'[d].at = calls[d].at /\ calls'[d].user = calls[d].user
              /\ calls'[d].challenge = calls[d].challenge /\ calls'[d].key = calls[d].key
              /\ calls'[d].count = calls[d].count /\ calls'[d].stored = calls[d].stored
              /\ calls[d].disturbed => calls'[d].disturbed
<1>1. {"at", "user", "challenge", "key", "count", "stored"} \in SUBSET (Field \ {"disturbed"})
  BY DEF Field
<1>2. ASSUME NEW d \in Call \ {c}
      PROVE  /\ calls'[d]["at"] = calls[d]["at"] /\ calls'[d]["user"] = calls[d]["user"]
             /\ calls'[d]["challenge"] = calls[d]["challenge"]
             /\ calls'[d]["key"] = calls[d]["key"]
             /\ calls'[d]["count"] = calls[d]["count"] /\ calls'[d]["stored"] = calls[d]["stored"]
             /\ calls[d].disturbed => calls'[d].disturbed
  BY <1>1 DEF Becomes, Bystander
<1>3. /\ "challenge" \notin changed => calls'[c]["challenge"] = calls[c]["challenge"]
      /\ "key" \notin changed => calls'[c]["key"] = calls[c]["key"]
      /\ "count" \notin changed => calls'[c]["count"] = calls[c]["count"]
      /\ "stored" \notin changed => calls'[c]["stored"] = calls[c]["stored"]
      /\ "disturbed" \notin changed => calls'[c]["disturbed"] = calls[c]["disturbed"]
  BY DEF Becomes, Field
<1> QED BY <1>2, <1>3

(* A call moves: what is to be shown of it and of the others.              *)
LEMMA CeremonyKept ==
  ASSUME CeremonyInv, NEW c \in Call, NEW to, NEW changed, Becomes(c, to, changed),
         OnItsOwn(c)',
         \A d \in Call \ {c} : FindsItsOwn(d) /\ ~ calls'[d].disturbed => FindsItsOwn(d)'
  PROVE  CeremonyInv'
<1>1. \A d \in Call \ {c} :
        /\ calls'[d].at = calls[d].at /\ calls'[d].challenge = calls[d].challenge
        /\ calls[d].disturbed => calls'[d].disturbed
  BY CallKeeps, CeremonyKeeps
<1>2. ASSUME NEW d \in Call \ {c}
      PROVE  OnItsOwn(d)'
  BY <1>1 DEF CeremonyInv, OnItsOwn
<1> QED BY <1>2 DEF CeremonyInv

(* The challenges stay the same.                                           *)
LEMMA ChallengesKept ==
  ASSUME CeremonyInv, NEW c \in Call, NEW to, NEW changed, Becomes(c, to, changed),
         UNCHANGED challenges, OnItsOwn(c)'
  PROVE  CeremonyInv'
<1>1. \A d \in Call \ {c} : calls'[d].at = calls[d].at /\ calls'[d].user = calls[d].user
  BY CallKeeps, CeremonyKeeps
<1>2. \A d \in Call \ {c} : FindsItsOwn(d) => FindsItsOwn(d)'
  BY <1>1 DEF FindsItsOwn, IsNewest, Asked
<1> QED BY <1>2, CeremonyKept

(* A challenge goes that is not that of c.                                 *)
LEMMA ChallengeGone ==
  ASSUME TypeOK, NEW c \in Call, FindsItsOwn(c),
         calls'[c].at = calls[c].at, calls'[c].user = calls[c].user,
         NEW j \in 1 .. Len(challenges), challenges[j].id # c,
         DOMAIN challenges' = 1 .. Len(challenges) - 1,
         \A k \in 1 .. Len(challenges) - 1 :
           challenges'[k] = IF k < j THEN challenges[k] ELSE challenges[k + 1]
  PROVE  FindsItsOwn(c)'
<1> SUFFICES ASSUME calls[c].at \in Reading \cup ReadingNew
             PROVE  \E i \in DOMAIN challenges' : IsNewest(c, i)'
  BY DEF FindsItsOwn
<1>1. PICK n \in Nat : n = Len(challenges) /\ DOMAIN challenges = 1 .. n
  BY LenProperties DEF TypeOK
<1>2. PICK i \in 1 .. n : IsNewest(c, i)
  BY <1>1 DEF FindsItsOwn
<1>3. i # j /\ j \in 1 .. n
  BY <1>1, <1>2 DEF IsNewest
<1>4. PICK m \in 1 .. n - 1 : (i < j /\ m = i) \/ (j < i /\ m = i - 1)
  <2>1. CASE i < j
    <3>1. i \in 1 .. n - 1
      BY <1>3, <2>1
    <3> QED BY <2>1, <3>1
  <2>2. CASE j < i
    <3>1. i - 1 \in 1 .. n - 1
      BY <1>3, <2>2
    <3> QED BY <2>2, <3>1
  <2> QED BY <1>3, <2>1, <2>2
<1>5. challenges'[m] = challenges[i]
  <2>1. CASE i < j
    BY <1>1, <1>4, <2>1
  <2>2. CASE j < i
    <3>1. m = i - 1 /\ ~ m < j /\ m + 1 = i
      BY <1>3, <1>4, <2>2
    <3> QED BY <1>1, <3>1
  <2> QED BY <1>3, <2>1, <2>2
<1>6. \A h : Asked(c, h)' <=> Asked(c, h)
  BY DEF Asked
<1>7. ASSUME NEW k \in 1 .. n - 1, Asked(c, challenges'[k])
      PROVE  k <= m
  <2>1. CASE k < j
    <3>1. k \in 1 .. n /\ challenges'[k] = challenges[k]
      BY <1>1, <2>1
    <3>2. k <= i
      BY <1>1, <1>2, <1>7, <3>1 DEF IsNewest
    <3> QED BY <1>3, <1>4, <2>1, <3>2
  <2>2. CASE ~ k < j
    <3>1. k + 1 \in 1 .. n /\ challenges'[k] = challenges[k + 1]
      BY <1>1, <2>2
    <3>2. k + 1 <= i
      BY <1>1, <1>2, <1>7, <3>1 DEF IsNewest
    <3> QED BY <1>3, <1>4, <2>2, <3>2
  <2> QED BY <2>1, <2>2
<1>8. IsNewest(c, m)'
  <2>1. \A k \in DOMAIN challenges' : Asked(c, challenges[k])' => k <= m
    <3>1. \A k \in 1 .. n - 1 : Asked(c, challenges[k])' => Asked(c, challenges'[k])
      BY DEF Asked
    <3> QED BY <1>1, <1>7, <3>1
  <2>2. Asked(c, challenges[m])'
    BY <1>2, <1>5 DEF IsNewest, Asked
  <2> QED BY <1>2, <1>5, <2>1, <2>2 DEF IsNewest
<1>9. m \in DOMAIN challenges'
  BY <1>1
<1> QED BY <1>8, <1>9

(* A ceremony begins, and comes between those that ask for such a row.     *)
LEMMA BeginsKept ==
  ASSUME TypeOK, CeremonyInv, NEW c \in Call, LoginBegin(c) \/ RegisterBegin(c)
  PROVE  CeremonyInv'
<1>1. PICK to, changed, u, type :
        /\ u \in UserId \cup {Nobody} /\ type \in {"authentication", "registration"}
        /\ Becomes(c, to, changed)
        /\ challenges' = Append(challenges, Challenge(c, u, type))
        /\ \/ /\ to = "begun" /\ type = "authentication" /\ u = Nobody
              /\ Disturbs(c, LoginReaders)
           \/ /\ to = "begun_new" /\ type = "registration" /\ u = calls'[c].user
              /\ Disturbs(c, RegisterReaders(u))
  <2> DEFINE Begins(to, changed, u, type) ==
               /\ u \in UserId \cup {Nobody} /\ type \in {"authentication", "registration"}
               /\ Becomes(c, to, changed)
               /\ challenges' = Append(challenges, Challenge(c, u, type))
               /\ \/ /\ to = "begun" /\ type = "authentication" /\ u = Nobody
                     /\ Disturbs(c, LoginReaders)
                  \/ /\ to = "begun_new" /\ type = "registration" /\ u = calls'[c].user
                     /\ Disturbs(c, RegisterReaders(u))
  <2>1. LoginBegin(c) => Begins("begun", {}, Nobody, "authentication")
    BY PasskeyCalls DEF Step, LoginBegin
  <2>2. RegisterBegin(c) => \E u \in UserId : Begins("begun_new", {"user"}, u, "registration")
    BY PasskeyCalls DEF Step
  <2>3. \E to, changed, u, type : Begins(to, changed, u, type)
    <3> HIDE DEF Begins
    <3> QED BY <2>1, <2>2
  <2> QED BY <2>3
<1>2. PICK n \in Nat : n = Len(challenges) /\ DOMAIN challenges = 1 .. n
  BY LenProperties DEF TypeOK
<1>3. /\ DOMAIN challenges' = 1 .. n + 1 /\ challenges'[n + 1] = Challenge(c, u, type)
      /\ \A i \in 1 .. n : challenges'[i] = challenges[i]
  <2> DEFINE h == Challenge(c, u, type)
  <2>1. h \in ChallengeRow /\ challenges \in Seq(ChallengeRow)
    BY <1>1 DEF Challenge, ChallengeRow, TypeOK
  <2>2. challenges' = Append(challenges, h)
    BY <1>1
  <2> HIDE DEF h
  <2>3. /\ challenges' \in Seq(ChallengeRow) /\ Len(challenges') = Len(challenges) + 1
        /\ \A i \in 1 .. Len(challenges) : challenges'[i] = challenges[i]
        /\ challenges'[Len(challenges) + 1] = h
    BY <2>1, <2>2, AppendProperties
  <2>4. DOMAIN challenges' = 1 .. Len(challenges')
    BY <2>3, LenProperties
  <2> QED BY <1>2, <2>3, <2>4 DEF h
<1>4. calls'[c].at = to /\ to \in {"begun", "begun_new"}
  BY <1>1, CallKeeps
<1>5. OnItsOwn(c)'
  <2>1. /\ challenges'[n + 1].id = c /\ challenges'[n + 1].user = u
        /\ challenges'[n + 1].type = type
    BY <1>3 DEF Challenge
  <2>2. IsNewest(c, n + 1)'
    BY <1>1, <1>3, <1>4, <2>1 DEF IsNewest, Asked, Reading
  <2>3. n + 1 \in DOMAIN challenges'
    BY <1>2, <1>3
  <2> QED BY <1>4, <2>2, <2>3 DEF OnItsOwn, FindsItsOwn
<1>6. ASSUME NEW d \in Call \ {c}, FindsItsOwn(d), ~ calls'[d].disturbed
      PROVE  FindsItsOwn(d)'
  <2>1. calls'[d].at = calls[d].at /\ calls'[d].user = calls[d].user
    BY <1>1, CallKeeps
  <2> SUFFICES ASSUME calls[d].at \in Reading \cup ReadingNew
               PROVE  \E i \in DOMAIN challenges' : IsNewest(d, i)'
    BY <2>1 DEF FindsItsOwn
  <2>2. PICK i \in 1 .. n : IsNewest(d, i)
    BY <1>2, <1>6 DEF FindsItsOwn
  <2>3. ~ Asked(d, challenges[n + 1])'
    <3>1. challenges'[n + 1].user = u /\ challenges'[n + 1].type = type
      BY <1>3 DEF Challenge
    <3> QED BY <1>1, <1>6, <2>1, <3>1
            DEF Disturbs, LoginReaders, RegisterReaders, Asked, Reading, ReadingNew
  <2>4. \A k \in 1 .. n : Asked(d, challenges[k])' <=> Asked(d, challenges[k])
    BY <1>3, <2>1 DEF Asked
  <2>5. IsNewest(d, i)'
    <3>1. ASSUME NEW k \in DOMAIN challenges', Asked(d, challenges[k])'
          PROVE  k <= i
      <4>1. k \in 1 .. n
        BY <1>3, <2>3, <3>1
      <4> QED BY <1>2, <2>2, <2>4, <3>1, <4>1 DEF IsNewest
    <3> QED BY <1>3, <2>1, <2>2, <2>4, <3>1 DEF IsNewest
  <2>6. i \in DOMAIN challenges'
    BY <1>3
  <2> QED BY <2>5, <2>6
<1> QED BY <1>1, <1>5, <1>6, CeremonyKept

(* A challenge is read: by a ceremony on its own, its own.                 *)
LEMMA ReadsItsOwn ==
  ASSUME TypeOK, CeremonyInv, NEW c \in Call, ~ calls[c].disturbed,
         calls[c].at \in {"challenge", "challenge_new"}
  PROVE  /\ Candidates(c) # {}
         /\ \A i \in Candidates(c) : (\A k \in Candidates(c) : k <= i) => challenges[i].id = c
<1>1. PICK n \in Nat : DOMAIN challenges = 1 .. n
  BY LenProperties DEF TypeOK
<1>2. PICK i \in 1 .. n : IsNewest(c, i)
  BY <1>1 DEF CeremonyInv, OnItsOwn, FindsItsOwn, Reading, ReadingNew
<1>3. i \in Candidates(c)
  BY <1>1, <1>2 DEF Candidates, IsNewest, Asked, Reading
<1>4. \A k \in Candidates(c) : k \in 1 .. n /\ k <= i
  BY <1>1, <1>2 DEF Candidates, IsNewest, Asked, Reading
<1>5. \A k \in Candidates(c) : i <= k => k = i
  BY <1>4
<1> QED BY <1>2, <1>3, <1>5 DEF IsNewest

(* So it is on its own with that one.                                      *)
LEMMA ReadChallengeKept ==
  ASSUME TypeOK, CeremonyInv, NEW c \in Call, ReadChallenge(c)
  PROVE  CeremonyInv'
<1>1. UNCHANGED challenges /\ calls[c].at \in {"challenge", "challenge_new"}
  BY DEF ReadChallenge, ceremony
<1>2. CASE Becomes(c, "mismatch", {})
  <2>1. OnItsOwn(c)'
    BY <1>2, CallKeeps DEF OnItsOwn, FindsItsOwn, Reading, ReadingNew
  <2> QED BY <1>1, <1>2, <2>1, ChallengesKept
<1>3. ASSUME NEW i \in Candidates(c), \A k \in Candidates(c) : k <= i,
             Becomes(c, IF calls[c].at = "challenge" THEN "delete" ELSE "delete_new", {"challenge"}),
             calls'[c].challenge = challenges[i].id
      PROVE  CeremonyInv'
  <2>1. calls'[c].disturbed = calls[c].disturbed /\ calls'[c].at \in {"delete", "delete_new"}
    BY <1>3, CallKeeps, CeremonyKeeps
  <2>2. OnItsOwn(c)'
    BY <1>1, <1>3, <2>1, ReadsItsOwn DEF OnItsOwn, FindsItsOwn, Reading, ReadingNew
  <2> QED BY <1>1, <1>3, <2>2, ChallengesKept
<1> QED BY <1>2, <1>3, PasskeyCalls

(* The challenge that was read is deleted: its call is disturbed if it has *)
(* not read it.                                                            *)
LEMMA DeleteChallengeKept ==
  ASSUME TypeOK, CeremonyInv, NEW c \in Call, DeleteChallenge(c)
  PROVE  CeremonyInv'
<1>1. PICK to \in {"mismatch", "insert_key", "refused", "update"} : Becomes(c, to, {})
  BY PasskeyCalls
<1>2. OnItsOwn(c)'
  BY <1>1, CallKeeps DEF OnItsOwn, FindsItsOwn, Reading, ReadingNew
<1>3. CASE UNCHANGED challenges
  BY <1>1, <1>2, <1>3, ChallengesKept
<1>4. CASE \E i \in DOMAIN challenges : /\ challenges[i].id = calls[c].challenge
                                        /\ challenges' = RemoveAt(challenges, i)
  <2>1. DOMAIN challenges = 1 .. Len(challenges) /\ challenges \in Seq(ChallengeRow)
    BY LenProperties DEF TypeOK
  <2>2. PICK j \in 1 .. Len(challenges) : /\ challenges[j].id = calls[c].challenge
                                          /\ challenges' = RemoveAt(challenges, j)
    BY <1>4, <2>1
  <2>3. /\ challenges' \in Seq(ChallengeRow) /\ Len(challenges') = Len(challenges) - 1
        /\ \A k \in 1 .. Len(challenges) - 1 :
             challenges'[k] = IF k < j THEN challenges[k] ELSE challenges[k + 1]
    BY <2>1, <2>2, RemoveAtProperties
  <2>4. DOMAIN challenges' = 1 .. Len(challenges) - 1
    BY <2>3, LenProperties
  <2>5. ASSUME NEW d \in Call \ {c}, FindsItsOwn(d), ~ calls'[d].disturbed
        PROVE  FindsItsOwn(d)'
    <3>1. calls'[d].at = calls[d].at /\ calls'[d].user = calls[d].user
      BY <1>1, CallKeeps
    <3>2. CASE calls[d].at \notin Reading \cup ReadingNew
      BY <3>1, <3>2 DEF FindsItsOwn
    <3>3. CASE calls[d].at \in Reading \cup ReadingNew
      <4>1. calls[c].challenge # d
        BY <2>5, <3>3, PasskeyCalls DEF Disturbs
      <4> QED BY <2>2, <2>3, <2>4, <2>5, <3>1, <4>1, ChallengeGone
    <3> QED BY <3>2, <3>3
  <2> QED BY <1>1, <1>2, <2>5, CeremonyKept
<1> QED BY <1>3, <1>4 DEF DeleteChallenge

(* Another step of a call: to where it has not read its challenge, from    *)
(* where it had not, or to where it has nothing to do with challenges.     *)
LEMMA OtherStepsKept ==
  ASSUME TypeOK, CeremonyInv, NEW c \in Call, NEW to, NEW changed, Becomes(c, to, changed),
         UNCHANGED challenges, "disturbed" \notin changed,
         \/ to \notin InCeremony
         \/ to \in {"insert_key", "update"}
         \/ calls[c].at \in Reading /\ to \in Reading
         \/ calls[c].at = "begun_new" /\ to = "challenge_new" /\ "user" \notin changed
  PROVE  CeremonyInv'
<1>1. calls'[c].at = to /\ calls'[c].disturbed = calls[c].disturbed
      /\ ("user" \notin changed => calls'[c].user = calls[c].user)
  BY CallKeeps, CeremonyKeeps
<1>2. OnItsOwn(c)'
  <2>1. CASE to \notin InCeremony \/ to \in {"insert_key", "update"}
    BY <1>1, <2>1 DEF OnItsOwn, FindsItsOwn, InCeremony, Reading, ReadingNew
  <2>2. CASE calls[c].at \in Reading /\ to \in Reading
    <3>1. FindsItsOwn(c) => FindsItsOwn(c)'
      BY <1>1, <2>2 DEF FindsItsOwn, IsNewest, Asked
    <3> QED BY <1>1, <2>2, <3>1 DEF CeremonyInv, OnItsOwn, Reading
  <2>3. CASE calls[c].at = "begun_new" /\ to = "challenge_new" /\ "user" \notin changed
    <3>1. FindsItsOwn(c) => FindsItsOwn(c)'
      BY <1>1, <2>3 DEF FindsItsOwn, IsNewest, Asked, Reading, ReadingNew
    <3> QED BY <1>1, <2>3, <3>1 DEF CeremonyInv, OnItsOwn
  <2> QED BY <2>1, <2>2, <2>3
<1> QED BY <1>2, ChallengesKept

(* A challenge expires, which disturbs the ceremony it is of.              *)
LEMMA ExpiryKept ==
  ASSUME TypeOK, CeremonyInv, ChallengeExpires
  PROVE  CeremonyInv'
<1>1. challenges # <<>> /\ challenges' = Tail(challenges)
  BY DEF ChallengeExpires
<1>2. \A d \in Call :
        /\ calls'[d].at = calls[d].at /\ calls'[d].user = calls[d].user
        /\ calls'[d].challenge = calls[d].challenge
        /\ calls[d].disturbed => calls'[d].disturbed
  <2>1. {"at", "user", "challenge"} \in SUBSET (Field \ {"disturbed"})
    BY DEF Field
  <2>2. ASSUME NEW d \in Call
        PROVE  /\ calls'[d]["at"] = calls[d]["at"] /\ calls'[d]["user"] = calls[d]["user"]
               /\ calls'[d]["challenge"] = calls[d]["challenge"]
               /\ calls[d].disturbed => calls'[d].disturbed
    BY <2>1, ExpiryCalls DEF Bystander
  <2> QED BY <2>2
<1>3. PICK n \in Nat : n = Len(challenges) /\ n > 0 /\ DOMAIN challenges = 1 .. n
  BY <1>1, LenProperties, EmptySeq DEF TypeOK
<1>4. /\ DOMAIN challenges' = 1 .. n - 1
      /\ \A k \in 1 .. n - 1 : challenges'[k] = challenges[k + 1]
  <2>1. /\ Tail(challenges) \in Seq(ChallengeRow) /\ Len(Tail(challenges)) = Len(challenges) - 1
        /\ \A k \in 1 .. Len(challenges) - 1 : Tail(challenges)[k] = challenges[k + 1]
    BY <1>1, HeadTailProperties DEF TypeOK
  <2> QED BY <1>1, <1>3, <2>1, LenProperties
<1>5. ASSUME NEW c \in Call, FindsItsOwn(c), ~ calls'[c].disturbed
      PROVE  FindsItsOwn(c)'
  <2>1. CASE calls[c].at \notin Reading \cup ReadingNew
    BY <1>2, <2>1 DEF FindsItsOwn
  <2>2. CASE calls[c].at \in Reading \cup ReadingNew
    <3>1. challenges[1].id # c
      BY <1>5, <2>2, ExpiryCalls
    <3>2. /\ 1 \in 1 .. Len(challenges) /\ DOMAIN challenges' = 1 .. Len(challenges) - 1
          /\ \A k \in 1 .. Len(challenges) - 1 :
               challenges'[k] = IF k < 1 THEN challenges[k] ELSE challenges[k + 1]
      BY <1>3, <1>4
    <3>3. calls'[c].at = calls[c].at /\ calls'[c].user = calls[c].user
      BY <1>2
    <3> QED BY <1>5, <3>1, <3>2, <3>3, ChallengeGone
  <2> QED BY <2>1, <2>2
<1>6. ASSUME NEW c \in Call
      PROVE  OnItsOwn(c)'
  BY <1>2, <1>5 DEF CeremonyInv, OnItsOwn
<1> QED BY <1>6 DEF CeremonyInv

(* What the other steps of nobody's leave.                                 *)
LEMMA NobodysKept ==
  ASSUME TypeOK, CeremonyInv, UNCHANGED challenges,
         \/ RemovePasskey \/ \E u \in users : Deactivate(u)
         \/ Me \/ Cleanup \/ ServerRestarts \/ Instant \/ UNCHANGED accountVars
  PROVE  CeremonyInv'
<1>1. \A d \in Call :
        /\ calls'[d].at = calls[d].at \/ calls'[d].at = "refused"
        /\ calls'[d].user = calls[d].user /\ calls'[d].challenge = calls[d].challenge
        /\ calls[d].disturbed => calls'[d].disturbed
  <2>1. {"user", "challenge"} \in SUBSET (Field \ {"at", "tried", "disturbed"})
    BY DEF Field
  <2>2. ASSUME NEW d \in Call
        PROVE  /\ calls'[d].at = calls[d].at \/ calls'[d].at = "refused"
               /\ calls'[d]["user"] = calls[d]["user"]
               /\ calls'[d]["challenge"] = calls[d]["challenge"]
               /\ calls[d].disturbed => calls'[d].disturbed
    BY <2>1, NobodysStep
  <2> QED BY <2>2
<1>2. \A c \in Call : FindsItsOwn(c) => FindsItsOwn(c)'
  BY <1>1 DEF FindsItsOwn, IsNewest, Asked, Reading, ReadingNew
<1>3. \A c \in Call : OnItsOwn(c)'
  BY <1>1, <1>2 DEF CeremonyInv, OnItsOwn
<1> QED BY <1>3 DEF CeremonyInv

(* Every step leaves it so.                                                *)
LEMMA CeremonyStep == TypeOK /\ CeremonyInv /\ [AccountsNext]_accountVars => CeremonyInv'
<1> SUFFICES ASSUME TypeOK, CeremonyInv, [AccountsNext]_accountVars
             PROVE  CeremonyInv'
  OBVIOUS
<1> USE DEF limits, rows, cookies, ceremony
<1>1. ASSUME NEW c \in Call, PasswordSteps(c)
      PROVE  CeremonyInv'
  <2>1. UNCHANGED challenges
    BY <1>1 DEF PasswordSteps, RegisterBegins, LookUp, InsertUser, LoginBegins, LoginCounts,
                FindUser, VerifyPassword, SignedIn
  <2>2. \E to \in {"lookup", "refused", "insert", "signed_in", "body", "find", "verify", "ok"},
           changed \in {{}, {"name"}, {"saw"}, {"user"}, {"name", "tried"}} :
             Becomes(c, to, changed)
    BY <1>1, PasswordCalls, CountingCalls DEF PasswordSteps, Step
  <2>3. PICK to, changed : /\ Becomes(c, to, changed) /\ "disturbed" \notin changed
                           /\ to \notin InCeremony
    BY <2>2 DEF InCeremony, Reading, ReadingNew
  <2> QED BY <2>1, <2>3, OtherStepsKept
<1>2. ASSUME NEW c \in Call, SessionSteps(c)
      PROVE  CeremonyInv'
  <2>1. UNCHANGED challenges
    BY <1>2 DEF SessionSteps, Logout, Revoke, LoggedOut, CallFails
  <2>2. \E to \in {"revoke", "logged_out", "refused", "ok"},
           changed \in {{}, {"user", "cookies"}, {"cookies"}} : Becomes(c, to, changed)
    BY <1>2, SessionCalls DEF SessionSteps, Step
  <2>3. PICK to, changed : /\ Becomes(c, to, changed) /\ "disturbed" \notin changed
                           /\ to \notin InCeremony
    BY <2>2 DEF InCeremony, Reading, ReadingNew
  <2> QED BY <2>1, <2>3, OtherStepsKept
<1>3. ASSUME NEW c \in Call,
             Sign(c) \/ ReadCredential(c) \/ InsertCredential(c) \/ UpdateCounter(c) \/ SignedInByKey(c)
      PROVE  CeremonyInv'
  <2>1. UNCHANGED challenges
    BY <1>3 DEF Sign, ReadCredential, InsertCredential, UpdateCounter, SignedInByKey
  <2>2. \/ Step(c, "begun", "sent", {"key", "count"})
        \/ Step(c, "begun_new", "challenge_new", {"count"})
        \/ Step(c, "sent", "refused", {}) \/ Step(c, "sent", "challenge", {"user", "stored"})
        \/ Step(c, "insert_key", "ok", {}) \/ Step(c, "update", "signed_in_by_key", {})
        \/ Step(c, "signed_in_by_key", "ok", {})
    BY <1>3, PasskeyCalls
  <2>3. \E to, changed :
          /\ Becomes(c, to, changed) /\ "disturbed" \notin changed
          /\ \/ to \notin InCeremony
             \/ calls[c].at \in Reading /\ to \in Reading
             \/ calls[c].at = "begun_new" /\ to = "challenge_new" /\ "user" \notin changed
    BY <2>2 DEF Step, InCeremony, Reading, ReadingNew
  <2> QED BY <2>1, <2>3, OtherStepsKept
<1>4. ASSUME NEW c \in Call, PasskeySteps(c)
      PROVE  CeremonyInv'
  BY <1>3, <1>4, BeginsKept, ReadChallengeKept, DeleteChallengeKept DEF PasskeySteps
<1>5. CASE \/ RemovePasskey \/ \E u \in users : Deactivate(u)
           \/ Me \/ Cleanup \/ ServerRestarts \/ Instant \/ UNCHANGED accountVars
  <2>1. UNCHANGED challenges
    BY <1>5 DEF RemovePasskey, Deactivate, Me, Cleanup, ServerRestarts, Instant, accountVars
  <2> QED BY <1>5, <2>1, NobodysKept
<1> QED BY <1>1, <1>2, <1>4, <1>5, ExpiryKept DEF AccountsNext

-----------------------------------------------------------------------------
(* An authenticator that does not count has signed nothing but 0, and its  *)
(* row has nothing else; one that there is not has no row.                 *)
Signed(c) ==
  calls[c].at \in KnowsKey =>
    device[calls[c].key] # None /\ (calls[c].count = 0 <=> device[calls[c].key] = 0)

Registering(c) ==
  /\ calls[c].at \in {"new", "begun_new", "challenge_new", "delete_new", "insert_key"} =>
       passkeys[c] = None
  /\ calls[c].at \in {"new", "begun_new"} => device[c] = None
  /\ calls[c].at \in {"challenge_new", "delete_new", "insert_key"} =>
       device[c] # None /\ (calls[c].count = 0 <=> device[c] = 0)

Compared(c) == calls[c].at = "update" => calls[c].stored < calls[c].count \/ calls[c].count = 0

Stored(k) == device[k] <= 0 => passkeys[k] <= device[k]

CounterInv ==
  /\ \A c \in Call : Signed(c) /\ Registering(c) /\ Compared(c)
  /\ \A k \in KeyId : Stored(k)

(* The passkeys that are there from the beginning count.                   *)
LEMMA CounterStart == AccountsInit => CounterInv
<1> SUFFICES ASSUME AccountsInit PROVE CounterInv
  OBVIOUS
<1>1. \A c \in Call : calls[c].at = "new" /\ c \in KeyId /\ device[c] = None
  BY DEF AccountsInit, NewCall, KeyId, UserId
<1>2. \A k \in KeyId : passkeys[k] = device[k] /\ device[k] \in {None, 1}
  BY DEF AccountsInit
<1> QED BY <1>1, <1>2 DEF CounterInv, Signed, Registering, Compared, Stored, KnowsKey, None

(* Nothing is signed or stored, and who goes on goes on as before.         *)
LEMMA CountersKept ==
  ASSUME TypeOK, CounterInv, UNCHANGED device,
         \A k \in KeyId : passkeys'[k] \in {passkeys[k], None},
         \A c \in Call :
           /\ calls'[c].key = calls[c].key /\ calls'[c].count = calls[c].count
           /\ \/ calls'[c].at = calls[c].at /\ calls'[c].stored = calls[c].stored
              \/ calls'[c].at \notin KnowsKey
                   \cup {"new", "begun_new", "challenge_new", "delete_new", "insert_key"}
              \/ /\ calls[c].at \in KnowsKey /\ calls'[c].at \in KnowsKey \ {"update"}
              \/ calls[c].at = "delete" /\ calls'[c].at = "update" /\ Compared(c)'
              \/ calls[c].at = "new" /\ calls'[c].at = "begun_new"
              \/ /\ calls[c].at \in {"challenge_new", "delete_new"}
                 /\ calls'[c].at \in {"delete_new", "insert_key"}
  PROVE  CounterInv'
<1>1. ASSUME NEW c \in Call
      PROVE  Signed(c)' /\ Registering(c)' /\ Compared(c)'
  <2>1. Signed(c) /\ Registering(c) /\ Compared(c) /\ c \in KeyId
    BY DEF CounterInv, KeyId, UserId
  <2> QED BY <2>1 DEF Signed, Registering, Compared, KnowsKey
<1>2. \A k \in KeyId : Stored(k)'
  <2> TAKE k \in KeyId
  <2>1. Stored(k) /\ device[k] \in Nat \cup {None} /\ passkeys[k] \in Nat \cup {None}
    BY DEF CounterInv, TypeOK
  <2> QED BY <2>1 DEF Stored, None
<1> QED BY <1>1, <1>2 DEF CounterInv

(* A step of one call that does neither.                                   *)
LEMMA CountersAside ==
  ASSUME TypeOK, CounterInv, UNCHANGED <<passkeys, device>>,
         NEW c \in Call, NEW to, NEW changed, Becomes(c, to, changed),
         changed \cap {"key", "count"} = {},
         \/ to \notin KnowsKey
              \cup {"new", "begun_new", "challenge_new", "delete_new", "insert_key"}
         \/ calls[c].at \in KnowsKey /\ to \in KnowsKey \ {"update"}
         \/ calls[c].at = "delete" /\ to = "update" /\ Compared(c)'
         \/ calls[c].at = "new" /\ to = "begun_new"
         \/ calls[c].at \in {"challenge_new", "delete_new"} /\ to \in {"delete_new", "insert_key"}
  PROVE  CounterInv'
<1>1. /\ calls'[c].at = to /\ calls'[c].key = calls[c].key /\ calls'[c].count = calls[c].count
      /\ \A d \in Call \ {c} :
           /\ calls'[d].at = calls[d].at /\ calls'[d].key = calls[d].key
           /\ calls'[d].count = calls[d].count /\ calls'[d].stored = calls[d].stored
  BY CallKeeps, CeremonyKeeps
<1>2. \A k \in KeyId : passkeys'[k] \in {passkeys[k], None}
  OBVIOUS
<1>3. \A d \in Call :
        /\ calls'[d].key = calls[d].key /\ calls'[d].count = calls[d].count
        /\ \/ calls'[d].at = calls[d].at /\ calls'[d].stored = calls[d].stored
           \/ calls'[d].at \notin KnowsKey
                \cup {"new", "begun_new", "challenge_new", "delete_new", "insert_key"}
           \/ /\ calls[d].at \in KnowsKey /\ calls'[d].at \in KnowsKey \ {"update"}
           \/ calls[d].at = "delete" /\ calls'[d].at = "update" /\ Compared(d)'
           \/ calls[d].at = "new" /\ calls'[d].at = "begun_new"
           \/ /\ calls[d].at \in {"challenge_new", "delete_new"}
              /\ calls'[d].at \in {"delete_new", "insert_key"}
  BY <1>1
<1> QED BY <1>2, <1>3, CountersKept

(* An authenticator signs.                                                 *)
LEMMA SignKept ==
  ASSUME TypeOK, CounterInv, NEW c \in Call, Sign(c)
  PROVE  CounterInv'
<1>0. /\ UNCHANGED passkeys /\ c \in KeyId /\ device \in [KeyId -> Nat \cup {None}]
      /\ passkeys \in [KeyId -> Nat \cup {None}]
  BY DEF Sign, TypeOK, KeyId, UserId
<1>t. \A d \in Call : /\ calls[d].count \in Nat
                      /\ calls[d].at \in KnowsKey => calls[d].key \in KeyId
  BY DEF TypeOK, CallRecord
<1>1. ASSUME NEW k \in KeyId, NEW n \in Nat,
             Step(c, "begun", "sent", {"key", "count"}),
             calls'[c].key = k, calls'[c].count = n, device[k] # None,
             n = (IF device[k] = 0 THEN 0 ELSE device[k] + 1),
             device' = [device EXCEPT ![k] = n]
      PROVE  CounterInv'
  <2>1. /\ calls'[c].at = "sent"
        /\ \A d \in Call \ {c} :
             /\ calls'[d].at = calls[d].at /\ calls'[d].key = calls[d].key
             /\ calls'[d].count = calls[d].count /\ calls'[d].stored = calls[d].stored
    BY <1>1, CallKeeps, CeremonyKeeps DEF Step
  <2>2. /\ device'[k] = n /\ \A j \in KeyId \ {k} : device'[j] = device[j]
        /\ (n = 0 <=> device[k] = 0) /\ device[k] \in Nat
    BY <1>0, <1>1 DEF None
  <2>3. \A j \in KeyId : (device'[j] = None <=> device[j] = None) /\ (device'[j] = 0 <=> device[j] = 0)
    BY <1>1, <2>2 DEF None
  <2>4. ASSUME NEW d \in Call
        PROVE  Signed(d)' /\ Registering(d)' /\ Compared(d)'
    <3>1. CASE d = c
      <4>1. device'[k] # None /\ calls'[c].key = k /\ calls'[c].count = n
        BY <1>1, <2>2 DEF None
      <4> QED BY <2>1, <2>2, <3>1, <4>1 DEF Signed, Registering, Compared
    <3>2. CASE d # c
      <4>1. Signed(d) /\ Registering(d) /\ Compared(d) /\ d \in KeyId
        BY DEF CounterInv, KeyId, UserId
      <4>2. /\ calls'[d].at = calls[d].at /\ calls'[d].key = calls[d].key
            /\ calls'[d].count = calls[d].count /\ calls'[d].stored = calls[d].stored
        BY <2>1, <3>2
      <4>3. Signed(d)'
        BY <1>t, <2>3, <4>1, <4>2 DEF Signed
      <4>4. Registering(d)'
        BY <1>0, <2>3, <4>1, <4>2 DEF Registering
      <4> QED BY <4>1, <4>2, <4>3, <4>4 DEF Compared
    <3> QED BY <3>1, <3>2
  <2>5. ASSUME NEW j \in KeyId
        PROVE  Stored(j)'
    <3>1. Stored(j) /\ device[j] \in Nat \cup {None} /\ device'[j] \in Nat \cup {None}
      BY <1>0, <1>1, <2>2 DEF CounterInv
    <3> QED BY <1>0, <2>3, <3>1 DEF Stored, None
  <2> QED BY <2>4, <2>5 DEF CounterInv
<1>2. ASSUME NEW n \in {0, 1},
             Step(c, "begun_new", "challenge_new", {"count"}), calls'[c].count = n,
             device' = [device EXCEPT ![c] = n]
      PROVE  CounterInv'
  <2>1. /\ calls'[c].at = "challenge_new" /\ calls[c].at = "begun_new"
        /\ \A d \in Call \ {c} :
             /\ calls'[d].at = calls[d].at /\ calls'[d].key = calls[d].key
             /\ calls'[d].count = calls[d].count /\ calls'[d].stored = calls[d].stored
    BY <1>2, CallKeeps, CeremonyKeeps DEF Step
  <2>2. device[c] = None /\ passkeys[c] = None
    <3>1. Registering(c)
      BY DEF CounterInv
    <3> QED BY <2>1, <3>1 DEF Registering
  <2>3. device'[c] = n /\ \A j \in KeyId \ {c} : device'[j] = device[j]
    BY <1>0, <1>2
  <2>4. ASSUME NEW d \in Call
        PROVE  Signed(d)' /\ Registering(d)' /\ Compared(d)'
    <3>1. CASE d = c
      <4>1. device'[c] # None /\ passkeys'[c] = None /\ calls'[c].count = n
        BY <1>0, <1>2, <2>2, <2>3 DEF None
      <4> QED BY <2>1, <2>3, <3>1, <4>1 DEF Signed, Registering, Compared, KnowsKey
    <3>2. CASE d # c
      <4>1. Signed(d) /\ Registering(d) /\ Compared(d) /\ d \in KeyId
        BY DEF CounterInv, KeyId, UserId
      <4>2. calls[d].at \in KnowsKey => calls[d].key # c
        BY <2>2, <4>1 DEF Signed
      <4>3. /\ calls'[d].at = calls[d].at /\ calls'[d].key = calls[d].key
            /\ calls'[d].count = calls[d].count /\ calls'[d].stored = calls[d].stored
        BY <2>1, <3>2
      <4>4. Signed(d)'
        BY <1>t, <2>3, <4>1, <4>2, <4>3 DEF Signed
      <4>5. Registering(d)'
        BY <1>0, <2>3, <3>2, <4>1, <4>3 DEF Registering
      <4> QED BY <4>1, <4>3, <4>4, <4>5 DEF Compared
    <3> QED BY <3>1, <3>2
  <2>5. ASSUME NEW j \in KeyId
        PROVE  Stored(j)'
    <3>1. CASE j = c
      BY <1>0, <1>2, <2>2, <2>3, <3>1 DEF Stored, None
    <3>2. CASE j # c
      BY <1>0, <2>3, <3>2 DEF CounterInv, Stored
    <3> QED BY <3>1, <3>2
  <2> QED BY <2>4, <2>5 DEF CounterInv
<1>3. CASE /\ Step(c, "begun", "sent", {"key", "count"})
           /\ calls'[c].key \in KeyId /\ device[calls'[c].key] # None
           /\ calls'[c].count = (IF device[calls'[c].key] = 0 THEN 0
                                 ELSE device[calls'[c].key] + 1)
           /\ device' = [device EXCEPT ![calls'[c].key] = calls'[c].count]
  <2>1. calls'[c].count \in Nat
    BY <1>3 DEF Step, Becomes, CallRecord
  <2> QED BY <1>1, <1>3, <2>1
<1> QED BY <1>2, <1>3, PasskeyCalls

(* A count is stored.                                                      *)
LEMMA StoreKept ==
  ASSUME TypeOK, CounterInv, NEW c \in Call, InsertCredential(c) \/ UpdateCounter(c)
  PROVE  CounterInv'
<1>0. /\ UNCHANGED device /\ c \in KeyId /\ device \in [KeyId -> Nat \cup {None}]
      /\ passkeys \in [KeyId -> Nat \cup {None}] /\ calls[c].count \in Nat
  BY DEF InsertCredential, UpdateCounter, TypeOK, KeyId, UserId, CallRecord
<1>1. PICK k \in KeyId :
        /\ \/ /\ passkeys' = [passkeys EXCEPT ![k] = calls[c].count]
              /\ k = c \/ passkeys[k] # None
           \/ passkeys' = passkeys
        /\ device[k] # None /\ (calls[c].count = 0 <=> device[k] = 0)
  <2>1. CASE InsertCredential(c)
    BY <1>0, <2>1 DEF InsertCredential, CounterInv, Registering
  <2>2. CASE UpdateCounter(c)
    <3>1. calls[c].key \in KeyId
      BY <2>2 DEF UpdateCounter, TypeOK, KnowsKey
    <3>2. device[calls[c].key] # None /\ (calls[c].count = 0 <=> device[calls[c].key] = 0)
      BY <2>2 DEF UpdateCounter, CounterInv, Signed, KnowsKey
    <3>3. \/ /\ passkeys' = [passkeys EXCEPT ![calls[c].key] = calls[c].count]
             /\ passkeys[calls[c].key] # None
          \/ passkeys' = passkeys
      BY <1>0, <2>2 DEF UpdateCounter
    <3> QED BY <3>1, <3>2, <3>3
  <2> QED BY <2>1, <2>2
<1>2. ASSUME NEW j \in KeyId
      PROVE  Stored(j)'
  <2>1. Stored(j) /\ device[j] \in Nat \cup {None} /\ passkeys[j] \in Nat \cup {None}
    BY <1>0 DEF CounterInv
  <2>2. CASE passkeys'[j] = passkeys[j]
    BY <1>0, <2>1, <2>2 DEF Stored
  <2>3. CASE j = k /\ passkeys'[j] = calls[c].count
    BY <1>0, <1>1, <2>1, <2>3 DEF Stored, None
  <2> QED BY <1>0, <1>1, <2>2, <2>3
<1>3. PICK to \in {"ok", "signed_in_by_key"} : Becomes(c, to, {})
  BY PasskeyCalls DEF Step
<1>4. /\ calls'[c].at = to
      /\ \A d \in Call \ {c} :
           /\ calls'[d].at = calls[d].at /\ calls'[d].key = calls[d].key
           /\ calls'[d].count = calls[d].count /\ calls'[d].stored = calls[d].stored
  BY <1>3, CallKeeps, CeremonyKeeps
<1>5. ASSUME NEW d \in Call
      PROVE  Signed(d)' /\ Registering(d)' /\ Compared(d)'
  <2>1. CASE d = c
    BY <1>3, <1>4, <2>1 DEF Signed, Registering, Compared, KnowsKey
  <2>2. CASE d # c
    <3>1. Signed(d) /\ Registering(d) /\ Compared(d) /\ d \in KeyId
      BY DEF CounterInv, KeyId, UserId
    <3>2. passkeys[d] = None => passkeys'[d] = None
      BY <1>0, <1>1, <2>2, <3>1
    <3> QED BY <1>0, <1>4, <2>2, <3>1, <3>2 DEF Signed, Registering, Compared
  <2> QED BY <2>1, <2>2
<1> QED BY <1>2, <1>5 DEF CounterInv

(* Every step leaves it so.                                                *)
LEMMA CounterStep == TypeOK /\ CounterInv /\ [AccountsNext]_accountVars => CounterInv'
<1> SUFFICES ASSUME TypeOK, CounterInv, [AccountsNext]_accountVars
             PROVE  CounterInv'
  OBVIOUS
<1> USE DEF limits, rows, cookies, ceremony
<1> DEFINE Elsewhere(to) ==
      to \notin KnowsKey \cup {"new", "begun_new", "challenge_new", "delete_new", "insert_key"}
<1>1. ASSUME NEW c \in Call, PasswordSteps(c) \/ SessionSteps(c)
      PROVE  CounterInv'
  <2>1. UNCHANGED <<passkeys, device>>
    BY <1>1 DEF PasswordSteps, RegisterBegins, LookUp, InsertUser, LoginBegins, LoginCounts,
                FindUser, VerifyPassword, SignedIn, SessionSteps, Logout, Revoke, LoggedOut,
                CallFails
  <2>2. \E to \in {"lookup", "refused", "insert", "signed_in", "body", "find", "verify", "ok",
                   "revoke", "logged_out"},
           changed \in {{}, {"name"}, {"saw"}, {"user"}, {"name", "tried"}, {"user", "cookies"},
                        {"cookies"}} : Becomes(c, to, changed)
    <3>1. CASE PasswordSteps(c)
      BY <3>1, PasswordCalls, CountingCalls DEF PasswordSteps, Step
    <3>2. CASE SessionSteps(c)
      BY <3>2, SessionCalls DEF SessionSteps, Step
    <3> QED BY <1>1, <3>1, <3>2
  <2>3. PICK to, changed : /\ Becomes(c, to, changed) /\ changed \cap {"key", "count"} = {}
                           /\ Elsewhere(to)
    BY <2>2 DEF KnowsKey
  <2> QED BY <2>1, <2>3, CountersAside
<1>2. ASSUME NEW c \in Call,
             LoginBegin(c) \/ RegisterBegin(c) \/ ReadCredential(c) \/ ReadChallenge(c) \/ SignedInByKey(c)
      PROVE  CounterInv'
  <2>1. UNCHANGED <<passkeys, device>>
    BY <1>2 DEF LoginBegin, RegisterBegin, ReadCredential, ReadChallenge, SignedInByKey
  <2>2. \E to, changed :
          /\ Becomes(c, to, changed) /\ changed \cap {"key", "count"} = {}
          /\ \/ Elsewhere(to)
             \/ calls[c].at \in KnowsKey /\ to \in KnowsKey \ {"update"}
             \/ calls[c].at = "new" /\ to = "begun_new"
             \/ /\ calls[c].at \in {"challenge_new", "delete_new"}
                /\ to \in {"delete_new", "insert_key"}
    <3>1. CASE LoginBegin(c)
      <4>1. Becomes(c, "begun", {}) /\ Elsewhere("begun")
        BY <3>1, PasskeyCalls DEF Step, KnowsKey
      <4> QED BY <4>1
    <3>2. CASE RegisterBegin(c)
      <4>1. Becomes(c, "begun_new", {"user"}) /\ calls[c].at = "new"
        BY <3>2, PasskeyCalls DEF Step
      <4> QED BY <4>1
    <3>3. CASE ReadCredential(c)
      <4>1. /\ calls[c].at = "sent"
            /\ Becomes(c, "refused", {}) \/ Becomes(c, "challenge", {"user", "stored"})
        BY <3>3, PasskeyCalls DEF Step
      <4> QED BY <4>1 DEF KnowsKey
    <3>4. CASE ReadChallenge(c)
      <4>1. PICK to : /\ \/ to = "mismatch"
                         \/ calls[c].at = "challenge" /\ to = "delete"
                         \/ calls[c].at = "challenge_new" /\ to = "delete_new"
                      /\ Becomes(c, to, {}) \/ Becomes(c, to, {"challenge"})
        BY <3>4, PasskeyCalls
      <4> QED BY <4>1 DEF KnowsKey
    <3>5. CASE SignedInByKey(c)
      <4>1. Becomes(c, "ok", {}) /\ Elsewhere("ok")
        BY <3>5, PasskeyCalls DEF Step, KnowsKey
      <4> QED BY <4>1
    <3> QED BY <1>2, <3>1, <3>2, <3>3, <3>4, <3>5
  <2> QED BY <2>1, <2>2, CountersAside
<1>3. ASSUME NEW c \in Call, DeleteChallenge(c)
      PROVE  CounterInv'
  <2>1. UNCHANGED <<passkeys, device>>
    BY <1>3 DEF DeleteChallenge
  <2>2. PICK to \in {"mismatch", "insert_key", "refused", "update"} :
          /\ Becomes(c, to, {})
          /\ to = "insert_key" => calls[c].at = "delete_new"
          /\ to = "update" => calls[c].at = "delete" /\ ~ CounterInvalid(c)
    BY <1>3, PasskeyCalls
  <2>3. to = "update" => Compared(c)'
    <3>1. calls'[c].count = calls[c].count /\ calls'[c].stored = calls[c].stored
      BY <2>2, CeremonyKeeps
    <3>2. calls[c].count \in Nat /\ calls[c].stored \in Nat
      BY DEF TypeOK, CallRecord
    <3> QED BY <2>2, <3>1, <3>2 DEF CounterInvalid, Compared
  <2>4. Elsewhere(to) \/ to \in {"insert_key", "update"}
    BY <2>2 DEF KnowsKey
  <2> QED BY <2>1, <2>2, <2>3, <2>4, CountersAside
<1>4. ASSUME NEW c \in Call, PasskeySteps(c)
      PROVE  CounterInv'
  BY <1>2, <1>3, <1>4, SignKept, StoreKept DEF PasskeySteps
<1>5. CASE \/ RemovePasskey \/ ChallengeExpires \/ \E u \in users : Deactivate(u)
           \/ Me \/ Cleanup \/ ServerRestarts \/ Instant \/ UNCHANGED accountVars
  <2>1. UNCHANGED device /\ \A k \in KeyId : passkeys'[k] \in {passkeys[k], None}
    BY <1>5 DEF RemovePasskey, ChallengeExpires, Deactivate, Me, Cleanup, ServerRestarts, Instant,
                accountVars, TypeOK
  <2>2. ASSUME NEW d \in Call
        PROVE  /\ calls'[d].key = calls[d].key /\ calls'[d].count = calls[d].count
               /\ calls'[d].stored = calls[d].stored
               /\ calls'[d].at = calls[d].at \/ calls'[d].at = "refused"
    <3>1. {"key", "count", "stored"} \in SUBSET (Field \ {"at", "tried", "disturbed"})
      BY DEF Field
    <3>2. /\ calls'[d]["key"] = calls[d]["key"] /\ calls'[d]["count"] = calls[d]["count"]
          /\ calls'[d]["stored"] = calls[d]["stored"]
          /\ calls'[d].at = calls[d].at \/ calls'[d].at = "refused"
      BY <1>5, <3>1, NobodysStep
    <3> QED BY <3>2
  <2>3. \A d \in Call :
          /\ calls'[d].key = calls[d].key /\ calls'[d].count = calls[d].count
          /\ \/ calls'[d].at = calls[d].at /\ calls'[d].stored = calls[d].stored
             \/ Elsewhere(calls'[d].at)
    BY <2>2 DEF KnowsKey
  <2> QED BY <2>1, <2>3, CountersKept
<1> QED BY <1>1, <1>4, <1>5 DEF AccountsNext

(* A challenge is mistaken only for a ceremony that another one, or the    *)
(* expiry, came between, and a counter goes back only by a login that was  *)
(* compared with an older one: api/passkey.ts reads the newest challenge   *)
(* of anybody, and stores the counter two awaits after it has read it.     *)
THEOREM PasskeysNeedOverlap == AccountsSpec => PasskeyTroubleNeedsOverlap
<1> DEFINE Overlap ==
      /\ \A c \in Call :
           calls'[c].at = "mismatch" /\ calls[c].at # "mismatch" => calls[c].disturbed
      /\ \A k \in KeyId :
           passkeys'[k] # None /\ passkeys'[k] < passkeys[k] =>
             \E c \in Call : /\ calls[c].at = "update" /\ calls[c].key = k
                            /\ calls[c].stored < passkeys[k]
<1>1. ASSUME TypeOK, CeremonyInv, CounterInv, [AccountsNext]_accountVars PROVE Overlap
  <2> USE DEF limits, rows, cookies, ceremony
  <2>1. ASSUME NEW c \in Call, calls'[c].at = "mismatch", calls[c].at # "mismatch",
               ~ calls[c].disturbed
        PROVE  FALSE
    <3>1. \E d \in Call : PasswordSteps(d) \/ SessionSteps(d) \/ PasskeySteps(d)
      BY <1>1, <2>1, NobodysStep DEF AccountsNext
    <3>2. PICK d \in Call : PasswordSteps(d) \/ SessionSteps(d) \/ PasskeySteps(d)
      BY <3>1
    <3>3. CASE ReadChallenge(d)
      <4>1. d = c
        BY <1>1, <2>1, <3>3, PasskeyCalls, CallKeeps
      <4>2. calls[c].at \in {"challenge", "challenge_new"}
        BY <3>3, <4>1 DEF ReadChallenge
      <4>3. Candidates(c) # {}
        BY <1>1, <2>1, <4>2, ReadsItsOwn
      <4>4. \E to \in {"delete", "delete_new"} : Becomes(c, to, {"challenge"})
        BY <1>1, <3>3, <4>1, <4>3, PasskeyCalls
      <4> QED BY <2>1, <4>4, CallKeeps
    <3>4. CASE DeleteChallenge(d)
      <4>1. PICK to : /\ Becomes(d, to, {}) /\ calls[d].at \in {"delete", "delete_new"}
                      /\ to = "mismatch" => calls[d].challenge # d
        BY <1>1, <3>4, PasskeyCalls
      <4>2. d = c /\ to = "mismatch"
        BY <2>1, <4>1, CallKeeps
      <4> QED BY <1>1, <2>1, <4>1, <4>2 DEF CeremonyInv, OnItsOwn
    <3>5. CASE ~ ReadChallenge(d) /\ ~ DeleteChallenge(d)
      <4>1. \E to \in {"lookup", "refused", "insert", "signed_in", "body", "find", "verify", "ok",
                       "revoke", "logged_out", "begun", "begun_new", "sent", "challenge",
                       "challenge_new", "signed_in_by_key"},
               changed \in {{}, {"name"}, {"saw"}, {"user"}, {"name", "tried"}, {"cookies"},
                            {"user", "cookies"}, {"key", "count"}, {"count"}, {"user", "stored"}} :
                 Becomes(d, to, changed)
        <5>1. CASE PasswordSteps(d)
          BY <1>1, <5>1, PasswordCalls, CountingCalls DEF PasswordSteps, Step
        <5>2. CASE SessionSteps(d)
          BY <1>1, <5>2, SessionCalls DEF SessionSteps, Step
        <5>3. CASE PasskeySteps(d)
          BY <1>1, <3>5, <5>3, PasskeyCalls DEF PasskeySteps, Step
        <5> QED BY <3>2, <5>1, <5>2, <5>3
      <4>2. PICK to, changed : Becomes(d, to, changed) /\ to # "mismatch"
        BY <4>1
      <4> QED BY <2>1, <4>2, CallKeeps
    <3> QED BY <3>3, <3>4, <3>5
  <2>2. ASSUME NEW k \in KeyId, passkeys'[k] # None, passkeys'[k] < passkeys[k]
        PROVE  \E c \in Call : /\ calls[c].at = "update" /\ calls[c].key = k
                              /\ calls[c].stored < passkeys[k]
    <3>0. passkeys \in [KeyId -> Nat \cup {None}] /\ passkeys'[k] # passkeys[k]
      BY <1>1, <2>2 DEF TypeOK, None
    <3>1. ~ UNCHANGED passkeys /\ ~ RemovePasskey
      BY <2>2, <3>0 DEF RemovePasskey
    <3>2. PICK c \in Call : InsertCredential(c) \/ UpdateCounter(c)
      BY <1>1, <3>1 DEF AccountsNext, PasswordSteps, SessionSteps, PasskeySteps,
           RegisterBegins, LookUp, InsertUser, LoginBegins, LoginCounts, FindUser, VerifyPassword,
           SignedIn, Logout, Revoke, LoggedOut, CallFails, LoginBegin, RegisterBegin, Sign,
           ReadCredential, ReadChallenge, DeleteChallenge, SignedInByKey, ChallengeExpires,
           Deactivate, Me, Cleanup, ServerRestarts, Instant, accountVars
    <3>3. calls[c].count \in Nat /\ calls[c].stored \in Nat
      BY <1>1 DEF TypeOK, CallRecord
    <3>4. ~ InsertCredential(c)
      <4> SUFFICES ASSUME InsertCredential(c) PROVE FALSE
        OBVIOUS
      <4>1. k = c /\ passkeys'[k] = calls[c].count /\ calls[c].at = "insert_key"
        BY <2>2, <3>0 DEF InsertCredential
      <4>2. passkeys[k] \in Nat /\ calls[c].count < passkeys[k]
        BY <2>2, <3>0, <3>3, <4>1 DEF None
      <4>3. passkeys[c] = None
        BY <1>1, <4>1 DEF CounterInv, Registering
      <4> QED BY <4>1, <4>2, <4>3 DEF None
    <3>5. calls[c].at = "update" /\ calls[c].key = k /\ passkeys'[k] = calls[c].count
      BY <2>2, <3>0, <3>2, <3>4 DEF UpdateCounter
    <3>6. passkeys[k] \in Nat /\ calls[c].count < passkeys[k]
      BY <2>2, <3>0, <3>3, <3>5 DEF None
    <3>7. calls[c].stored < calls[c].count \/ calls[c].count = 0
      BY <1>1, <3>5 DEF CounterInv, Compared
    <3>8. calls[c].count # 0
      <4>1. Signed(c) /\ Stored(k)
        BY <1>1 DEF CounterInv
      <4>2. calls[c].count = 0 => device[k] = 0
        BY <3>5, <4>1 DEF Signed, KnowsKey
      <4> QED BY <3>6, <4>1, <4>2 DEF Stored
    <3> QED BY <3>3, <3>5, <3>6, <3>7, <3>8
  <2> QED BY <2>1, <2>2
<1> QED BY <1>1, Typed, CeremonyStart, CeremonyStep, CounterStart, CounterStep, PTL
        DEF AccountsSpec, PasskeyTroubleNeedsOverlap

-----------------------------------------------------------------------------
Watched == {"login"} \cup Username

(* A hit that counted a login is kept until it is out of the window, ...   *)
Kept(l, h) == h \in store[l] \/ h[1] + Window[l] <= clock

HitsKept ==
  \A c \in Call : \A hits \in calls[c].tried : \A l \in DOMAIN hits : Kept(l, hits[l])

(* ... and counted no other one.                                           *)
HitsDiffer ==
  \A c, d \in Call : c # d =>
    \A hits \in calls[c].tried, others \in calls[d].tried :
      \A l \in DOMAIN hits \cap DOMAIN others : hits[l] # others[l]

(* Whoever reads its body without another login being counted has found    *)
(* the limiter of the address open, and it is.                             *)
FoundOpen ==
  \A c \in Call : calls[c].at = "body" /\ ~ calls[c].disturbed =>
                    Cardinality(InWindow("login")) < Limit["login"]

Undisturbed == {c \in Tried("login") : ~ calls[c].disturbed}

LimitInv ==
  /\ HitsKept /\ HitsDiffer /\ FoundOpen
  /\ \A n \in Username : Cardinality(InWindow(n)) <= Limit[n]
  /\ Cardinality(Undisturbed) <= Limit["login"]

(* Nothing has been counted in the first state.                            *)
LEMMA LimitStart == AccountsInit => LimitInv
<1> SUFFICES ASSUME AccountsInit PROVE LimitInv
  OBVIOUS
<1>1. \A c \in Call : calls[c].tried = {} /\ calls[c].at = "new"
  BY DEF AccountsInit, NewCall
<1>2. \A n \in Username : InWindow(n) = {}
  BY DEF InWindow, AccountsInit, Limiter
<1>3. Undisturbed = {}
  BY <1>1 DEF Undisturbed, Tried
<1>4. \A l \in Watched : 0 <= Limit[l]
  BY AccountsAssumption DEF Limiter, Watched
<1>5. Cardinality({}) = 0
  BY FS_EmptySet
<1> QED BY <1>1, <1>2, <1>3, <1>4, <1>5
        DEF LimitInv, HitsKept, HitsDiffer, FoundOpen, Watched

(* The limiters that are watched.                                          *)
LEMMA WatchedTypes ==
  ASSUME TypeOK, NEW l \in Watched
  PROVE  /\ l \in Limiter /\ l \notin {"global", "register"}
         /\ Limit[l] \in Nat /\ Window[l] \in Nat /\ Window[l] > 0 /\ clock \in Nat
         /\ store[l] \subseteq Nat \X Nat
  BY AccountsAssumption DEF Watched, Limiter, TypeOK

(* The hits by which a call was counted are hits.                          *)
LEMMA TriedTypes ==
  ASSUME TypeOK, NEW c \in Call, NEW hits \in calls[c].tried
  PROVE  \A l \in DOMAIN hits : l \in Watched /\ hits[l] \in Nat \X Nat /\ hits[l][1] \in Nat
<1>1. hits \in Hits
  BY DEF TypeOK, CallRecord
<1>2. PICK n \in Username : hits \in [{"login", n} -> Nat \X Nat]
  BY <1>1 DEF Hits
<1> QED BY <1>2 DEF Watched

TriedFits(l) ==
  /\ IsFiniteSet(Tried(l)) /\ Cardinality(Tried(l)) \in Nat
  /\ Cardinality(Tried(l)) <= Cardinality(InWindow(l))

(* So no more logins have been counted in a window than it has hits.       *)
LEMMA TriedIsCounted == TypeOK /\ HitsKept /\ HitsDiffer => \A l \in Watched : TriedFits(l)
<1> SUFFICES ASSUME TypeOK, HitsKept, HitsDiffer, NEW l \in Watched
             PROVE  TriedFits(l)
  OBVIOUS
<1> DEFINE Counts1(c, h) == \E hits \in calls[c].tried : l \in DOMAIN hits /\ hits[l] = h
           f == [c \in Tried(l) |-> CHOOSE h \in InWindow(l) : Counts1(c, h)]
<1>1. ASSUME NEW c \in Tried(l)
      PROVE  \E h \in InWindow(l) : Counts1(c, h)
  <2>1. PICK hits \in calls[c].tried : l \in DOMAIN hits /\ hits[l][1] + Window[l] > clock
    BY DEF Tried
  <2>2. c \in Call
    BY DEF Tried
  <2>3. hits[l][1] \in Nat /\ Window[l] \in Nat /\ clock \in Nat
    BY <2>1, <2>2, TriedTypes, WatchedTypes
  <2>4. hits[l] \in store[l]
    BY <2>1, <2>2, <2>3 DEF HitsKept, Kept
  <2> QED BY <2>1, <2>4 DEF InWindow
<1>2. \A c \in Tried(l) : f[c] \in InWindow(l) /\ Counts1(c, f[c])
  BY <1>1
<1>3. f \in [Tried(l) -> InWindow(l)]
  BY <1>2
<1> HIDE DEF f
<1>4. ASSUME NEW c \in Tried(l), NEW d \in Tried(l), f[c] = f[d]
      PROVE  c = d
  <2>1. c \in Call /\ d \in Call
    BY DEF Tried
  <2>2. PICK hits \in calls[c].tried : l \in DOMAIN hits /\ hits[l] = f[c]
    BY <1>2
  <2>3. PICK others \in calls[d].tried : l \in DOMAIN others /\ others[l] = f[d]
    BY <1>2
  <2>4. hits[l] = others[l] /\ l \in DOMAIN hits \cap DOMAIN others
    BY <1>4, <2>2, <2>3
  <2> QED BY <2>1, <2>2, <2>3, <2>4 DEF HitsDiffer
<1>5. f \in Injection(Tried(l), InWindow(l))
  BY <1>3, <1>4 DEF Injection, IsInjective
<1>6. IsFiniteSet(InWindow(l))
  BY InWindowIsFinite, WatchedTypes
<1> QED BY <1>5, <1>6, FS_Injection, FS_CardinalityType DEF TriedFits

(* This holds after a step as well.                                        *)
LEMMA TriedIsCountedNext ==
  TypeOK' /\ HitsKept' /\ HitsDiffer' => \A l \in Watched : TriedFits(l)'
<1>1. (TypeOK /\ HitsKept /\ HitsDiffer => \A l \in Watched : TriedFits(l))'
  BY TriedIsCounted, PTL
<1> QED BY <1>1

(* A step that counts none of the watched limiters leaves it so.           *)
LEMMA LimitKept ==
  ASSUME TypeOK, TypeOK', LimitInv, clock' \in {clock, clock + 1},
         \A l \in Watched : store'[l] \in {store[l], InWindow(l)},
         \A c \in Call :
           /\ calls'[c].tried = calls[c].tried
           /\ calls[c].disturbed => calls'[c].disturbed
           /\ calls'[c].at = "body" /\ calls[c].at # "body" =>
                Cardinality(InWindow("login")) < Limit["login"]
  PROVE  LimitInv'
<1>1. ASSUME NEW l \in Watched
      PROVE  /\ InWindow(l)' \subseteq InWindow(l)
             /\ Cardinality(InWindow(l)') <= Cardinality(InWindow(l))
             /\ Cardinality(InWindow(l)') \in Nat /\ Cardinality(InWindow(l)) \in Nat
  <2>1. /\ IsFiniteSet(InWindow(l)) /\ Cardinality(InWindow(l)) \in Nat
        /\ Window[l] \in Nat /\ clock \in Nat /\ store[l] \subseteq Nat \X Nat
    BY InWindowIsFinite, WatchedTypes
  <2>2. InWindow(l)' \in SUBSET InWindow(l)
    BY <2>1 DEF InWindow
  <2> QED BY <2>1, <2>2, FS_Subset, FS_CardinalityType
<1>2. HitsKept'
  <2> SUFFICES ASSUME NEW c \in Call, NEW hits \in calls[c].tried, NEW l \in DOMAIN hits
               PROVE  Kept(l, hits[l])'
    BY DEF HitsKept
  <2>1. Kept(l, hits[l])
    BY DEF LimitInv, HitsKept
  <2>2. l \in Watched /\ hits[l][1] \in Nat
    BY TriedTypes
  <2>3. Window[l] \in Nat /\ clock \in Nat
    BY <2>2, WatchedTypes
  <2> QED BY <2>1, <2>2, <2>3 DEF Kept, InWindow
<1>3. HitsDiffer'
  BY DEF LimitInv, HitsDiffer
<1>4. FoundOpen'
  <2>1. "login" \in Watched
    BY DEF Watched
  <2>2. Limit["login"] \in Nat
    BY <2>1, WatchedTypes
  <2>3. \A c \in Call : calls'[c].at = "body" /\ ~ calls'[c].disturbed =>
                          Cardinality(InWindow("login")) < Limit["login"]
    BY DEF LimitInv, FoundOpen
  <2>4. /\ Cardinality(InWindow("login")') <= Cardinality(InWindow("login"))
        /\ Cardinality(InWindow("login")') \in Nat /\ Cardinality(InWindow("login")) \in Nat
    BY <1>1, <2>1
  <2> QED BY <2>2, <2>3, <2>4 DEF FoundOpen
<1>5. \A n \in Username : Cardinality(InWindow(n)') <= Limit[n]
  <2> SUFFICES ASSUME NEW n \in Username
               PROVE  Cardinality(InWindow(n)') <= Limit[n]
    OBVIOUS
  <2>1. n \in Watched
    BY DEF Watched
  <2>2. Limit[n] \in Nat /\ Cardinality(InWindow(n)) <= Limit[n]
    BY <2>1, WatchedTypes DEF LimitInv
  <2> QED BY <1>1, <2>1, <2>2
<1>6. Cardinality(Undisturbed') <= Limit["login"]
  <2>1. "login" \in Watched
    BY DEF Watched
  <2>2. IsFiniteSet(Tried("login")) /\ Limit["login"] \in Nat
    BY <2>1, TriedIsCounted, WatchedTypes DEF LimitInv, TriedFits
  <2>3. Undisturbed \in SUBSET Tried("login")
    BY DEF Undisturbed
  <2>4. IsFiniteSet(Undisturbed)
    BY <2>2, <2>3, FS_Subset
  <2>5. \A c \in Call : \A hits \in calls[c].tried :
          "login" \in DOMAIN hits =>
            hits["login"][1] \in Nat /\ Window["login"] \in Nat /\ clock \in Nat
    BY <2>1, TriedTypes, WatchedTypes
  <2>6. Undisturbed' \in SUBSET Undisturbed
    BY <2>5 DEF Undisturbed, Tried
  <2>7. /\ IsFiniteSet(Undisturbed') /\ Cardinality(Undisturbed') <= Cardinality(Undisturbed)
    BY <2>4, <2>6, FS_Subset
  <2>8. Cardinality(Undisturbed') \in Nat /\ Cardinality(Undisturbed) \in Nat
    BY <2>4, <2>7, FS_CardinalityType
  <2> QED BY <2>2, <2>7, <2>8 DEF LimitInv
<1> QED BY <1>2, <1>3, <1>4, <1>5, <1>6 DEF LimitInv

(* What is in a window, once a hit is counted.                             *)
LEMMA WindowCounts ==
  ASSUME TypeOK, NEW l \in Watched, clock' = clock, store'[l] = InWindow(l) \cup {Hit(l)}
  PROVE  /\ IsFiniteSet(InWindow(l)') /\ Cardinality(InWindow(l)') \in Nat
         /\ Cardinality(InWindow(l)) \in Nat
         /\ Cardinality(InWindow(l)') <= Cardinality(InWindow(l)) + 1
<1>1. IsFiniteSet(InWindow(l)) /\ Cardinality(InWindow(l)) \in Nat
  BY InWindowIsFinite, WatchedTypes
<1>2. InWindow(l)' \in SUBSET (InWindow(l) \cup {Hit(l)})
  BY DEF InWindow
<1>3. /\ IsFiniteSet(InWindow(l) \cup {Hit(l)})
      /\ Cardinality(InWindow(l) \cup {Hit(l)}) \in {Cardinality(InWindow(l)), Cardinality(InWindow(l)) + 1}
  BY <1>1, FS_AddElement
<1>4. /\ IsFiniteSet(InWindow(l)')
      /\ Cardinality(InWindow(l)') <= Cardinality(InWindow(l) \cup {Hit(l)})
  BY <1>2, <1>3, FS_Subset
<1>5. Cardinality(InWindow(l)') \in Nat
  BY <1>4, FS_CardinalityType
<1> QED BY <1>1, <1>3, <1>4, <1>5

(* A login is counted: by the limiters of the address and of its name, ... *)
LEMMA CountsKept ==
  ASSUME TypeOK, TypeOK', LimitInv, NEW c \in Call, NEW n \in Username, LoginCounts(c, n), Check(n),
         Becomes(c, "find", {"name", "tried"}),
         calls'[c].tried = {[l \in {"login", n} |-> Hit(l)]},
         \A d \in Call \ {c} : calls[d].at = "body" => calls'[d].disturbed
  PROVE  LimitInv'
<1>1. /\ clock' = clock
      /\ \A l \in Watched : store'[l] = IF l \in {"login", n} THEN InWindow(l) \cup {Hit(l)}
                                                                ELSE store[l]
      /\ calls[c].at = "body"
  <2>1. store' = Counted({"login", n}) /\ clock' = clock /\ calls[c].at = "body"
    BY DEF LoginCounts
  <2> QED BY <2>1, WatchedTypes DEF Counted
<1>2. /\ calls'[c].at = "find" /\ calls'[c].disturbed = calls[c].disturbed
      /\ \A d \in Call \ {c} : /\ calls'[d].at = calls[d].at /\ calls'[d].tried = calls[d].tried
                               /\ calls[d].disturbed => calls'[d].disturbed
  BY CallKeeps, CeremonyKeeps
<1>3. \A l \in {"login", n} : l \in Watched /\ Hit(l) \notin store[l] /\ Hit(l)[1] = clock
                              /\ Window[l] > 0 /\ Window[l] \in Nat /\ clock \in Nat
  <2>1. \A l \in {"login", n} : l \in Watched
    BY DEF Watched
  <2> QED BY <2>1, WatchedTypes, InWindowIsFinite DEF Hit
<1>4. PICK new : new = [l \in {"login", n} |-> Hit(l)]
  OBVIOUS
<1>5. /\ calls'[c].tried = {new}
      /\ DOMAIN new = {"login", n} /\ \A l \in {"login", n} : new[l] = Hit(l)
  BY <1>4
<1>6. HitsKept'
  <2>1. \A l \in {"login", n} : Kept(l, new[l])'
    BY <1>1, <1>3, <1>5 DEF Kept
  <2>2. ASSUME NEW d \in Call \ {c}, NEW hits \in calls[d].tried, NEW l \in DOMAIN hits
        PROVE  Kept(l, hits[l])'
    <3>1. Kept(l, hits[l])
      BY DEF LimitInv, HitsKept
    <3>2. l \in Watched /\ hits[l][1] \in Nat
      BY TriedTypes
    <3>3. Window[l] \in Nat /\ clock \in Nat
      BY <3>2, WatchedTypes
    <3>4. store'[l] = store[l] \/ store'[l] = InWindow(l) \cup {Hit(l)}
      BY <1>1, <3>2
    <3> QED BY <1>1, <3>1, <3>2, <3>3, <3>4 DEF Kept, InWindow
  <2>3. ASSUME NEW d \in Call, NEW hits \in calls'[d].tried, NEW l \in DOMAIN hits
        PROVE  Kept(l, hits[l])'
    <3>1. CASE d = c
      BY <1>5, <2>1, <2>3, <3>1
    <3>2. CASE d # c
      BY <1>2, <2>2, <2>3, <3>2
    <3> QED BY <3>1, <3>2
  <2> QED BY <2>3 DEF HitsKept
<1>7. HitsDiffer'
  <2>1. ASSUME NEW d \in Call \ {c}, NEW hits \in calls[d].tried,
               NEW l \in DOMAIN hits \cap {"login", n}
        PROVE  hits[l] # new[l]
    <3>1. Kept(l, hits[l])
      BY DEF LimitInv, HitsKept
    <3>2. l \in Watched /\ hits[l][1] \in Nat
      BY TriedTypes
    <3> QED BY <1>3, <1>5, <3>1, <3>2 DEF Kept
  <2>2. ASSUME NEW d \in Call, NEW e \in Call, d # e,
               NEW hits \in calls'[d].tried, NEW others \in calls'[e].tried,
               NEW l \in DOMAIN hits \cap DOMAIN others
        PROVE  hits[l] # others[l]
    <3>1. CASE d = c
      <4>1. hits = new /\ others \in calls[e].tried
        BY <1>2, <1>5, <2>2, <3>1
      <4> QED BY <1>5, <2>1, <2>2, <3>1, <4>1
    <3>2. CASE e = c
      <4>1. others = new /\ hits \in calls[d].tried
        BY <1>2, <1>5, <2>2, <3>2
      <4> QED BY <1>5, <2>1, <2>2, <3>2, <4>1
    <3>3. CASE d # c /\ e # c
      BY <1>2, <2>2, <3>3 DEF LimitInv, HitsDiffer
    <3> QED BY <3>1, <3>2, <3>3
  <2> QED BY <2>2 DEF HitsDiffer
<1>8. FoundOpen'
  BY <1>2 DEF FoundOpen
<1>9. ASSUME NEW m \in Username
      PROVE  Cardinality(InWindow(m)') <= Limit[m]
  <2>1. m \in Watched /\ Limit[m] \in Nat /\ m # "login"
    BY WatchedTypes, AccountsAssumption DEF Watched
  <2>2. CASE m = n
    <3>1. Cardinality(InWindow(n)) < Limit[n]
      BY DEF Check
    <3>2. store'[m] = InWindow(m) \cup {Hit(m)}
      BY <1>1, <2>1, <2>2
    <3>3. /\ Cardinality(InWindow(m)') \in Nat /\ Cardinality(InWindow(m)) \in Nat
          /\ Cardinality(InWindow(m)') <= Cardinality(InWindow(m)) + 1
      BY <1>1, <2>1, <3>2, WindowCounts
    <3> QED BY <2>1, <2>2, <3>1, <3>3
  <2>3. CASE m # n
    <3>1. store'[m] = store[m]
      BY <1>1, <2>1, <2>3
    <3>2. InWindow(m)' = InWindow(m)
      BY <1>1, <3>1 DEF InWindow
    <3> QED BY <3>2 DEF LimitInv
  <2> QED BY <2>2, <2>3
<1>10. Cardinality(Undisturbed') <= Limit["login"]
  <2>1. "login" \in Watched /\ Limit["login"] \in Nat
    BY WatchedTypes DEF Watched
  <2>2. CASE calls[c].disturbed
    <3>1. Undisturbed' \in SUBSET Undisturbed
      BY <1>1, <1>2, <2>2 DEF Undisturbed, Tried
    <3>2. IsFiniteSet(Undisturbed)
      <4>1. IsFiniteSet(Tried("login")) /\ Undisturbed \in SUBSET Tried("login")
        BY <2>1, TriedIsCounted DEF LimitInv, Undisturbed, TriedFits
      <4> QED BY <4>1, FS_Subset
    <3>3. /\ IsFiniteSet(Undisturbed')
          /\ Cardinality(Undisturbed') <= Cardinality(Undisturbed)
      BY <3>1, <3>2, FS_Subset
    <3>4. Cardinality(Undisturbed') \in Nat /\ Cardinality(Undisturbed) \in Nat
      BY <3>2, <3>3, FS_CardinalityType
    <3> QED BY <2>1, <3>3, <3>4 DEF LimitInv
  <2>3. CASE ~ calls[c].disturbed
    <3>1. Cardinality(InWindow("login")) < Limit["login"]
      BY <1>1, <2>3 DEF LimitInv, FoundOpen
    <3>2. /\ Cardinality(InWindow("login")') <= Cardinality(InWindow("login")) + 1
          /\ Cardinality(InWindow("login")') \in Nat /\ Cardinality(InWindow("login")) \in Nat
      BY <1>1, <2>1, WindowCounts
    <3>3. /\ IsFiniteSet(Tried("login")') /\ Cardinality(Tried("login")') \in Nat
          /\ Cardinality(Tried("login")') <= Cardinality(InWindow("login")')
      BY <1>6, <1>7, <2>1, TriedIsCountedNext DEF TriedFits
    <3>4. Undisturbed' \in SUBSET Tried("login")'
      BY DEF Undisturbed
    <3>5. /\ IsFiniteSet(Undisturbed')
          /\ Cardinality(Undisturbed') <= Cardinality(Tried("login")')
      BY <3>3, <3>4, FS_Subset
    <3>6. Cardinality(Undisturbed') \in Nat
      BY <3>5, FS_CardinalityType
    <3> QED BY <2>1, <3>1, <3>2, <3>3, <3>5, <3>6
  <2> QED BY <2>2, <2>3
<1> QED BY <1>6, <1>7, <1>8, <1>9, <1>10 DEF LimitInv

(* ... and only by those.                                                  *)
LEMMA CountedElsewhere ==
  ASSUME TypeOK, store' \in {store, Counted({"global"}), Counted({"global", "register"})}
  PROVE  \A l \in Watched : store'[l] = store[l]
  BY WatchedTypes DEF Counted

(* A restart forgets the hits and the logins.                              *)
LEMMA LimitRestarts ==
  ASSUME TypeOK, ServerRestarts
  PROVE  LimitInv'
<1>1. \A c \in Call : calls'[c].tried = {} /\ calls'[c].at # "body"
  BY RestartCalls DEF AtServer
<1>2. \A n \in Username : InWindow(n)' = {}
  BY DEF ServerRestarts, InWindow, Limiter
<1>3. Undisturbed' = {}
  BY <1>1 DEF Undisturbed, Tried
<1>4. \A l \in Watched : 0 <= Limit[l]
  BY WatchedTypes
<1>5. Cardinality({}) = 0
  BY FS_EmptySet
<1>6. HitsKept' /\ HitsDiffer' /\ FoundOpen'
  BY <1>1 DEF HitsKept, HitsDiffer, FoundOpen
<1>7. \A n \in Username : Cardinality(InWindow(n)') <= Limit[n]
  BY <1>2, <1>4, <1>5 DEF Watched
<1>8. Cardinality(Undisturbed') <= Limit["login"]
  BY <1>3, <1>4, <1>5 DEF Watched
<1> QED BY <1>6, <1>7, <1>8 DEF LimitInv

(* Every step leaves it so.                                                *)
LEMMA LimitStep == TypeOK /\ LimitInv /\ [AccountsNext]_accountVars => LimitInv'
<1> SUFFICES ASSUME TypeOK, LimitInv, [AccountsNext]_accountVars
             PROVE  LimitInv'
  OBVIOUS
<1> USE DEF limits, rows, cookies, ceremony
<1>0. TypeOK' /\ clock \in Nat
  BY AccountsTypes DEF TypeOK
<1>1. ASSUME NEW c \in Call, NEW n \in Username, LoginCounts(c, n)
      PROVE  LimitInv'
  <2>1. CASE /\ Check(n) /\ Becomes(c, "find", {"name", "tried"})
             /\ calls'[c].tried = {[l \in {"login", n} |-> Hit(l)]}
             /\ \A d \in Call \ {c} : calls[d].at = "body" => calls'[d].disturbed
    BY <1>0, <1>1, <2>1, CountsKept
  <2>2. CASE ~ Check(n)
    <3>1. At(c, "refused") /\ UNCHANGED <<clock, store>>
      BY <1>1, <2>2 DEF LoginCounts
    <3>2. Becomes(c, "refused", {})
      BY <3>1, Moves DEF At, Place
    <3>3. \A d \in Call : /\ calls'[d].tried = calls[d].tried
                          /\ calls[d].disturbed => calls'[d].disturbed
                          /\ calls'[d].at = "body" => calls[d].at = "body"
      BY <3>2, CallKeeps, CeremonyKeeps
    <3> QED BY <1>0, <3>1, <3>3, LimitKept
  <2>3. CASE Check(n)
    <3>1. Set(c, [calls[c] EXCEPT !.at = "refused"]) => Becomes(c, "refused", {})
      BY Moves DEF Place
    <3>2. calls'[c].at = "find"
      <4>1. calls' = [d \in Call |->
               IF d = c THEN [calls[c] EXCEPT !.at = "find", !.name = n,
                                              !.tried = {[l \in {"login", n} |-> Hit(l)]}]
               ELSE IF calls[d].at = "body" THEN [calls[d] EXCEPT !.disturbed = TRUE]
               ELSE calls[d]]
        BY <1>1, <2>3 DEF LoginCounts
      <4>2. calls'[c] = [calls[c] EXCEPT !.at = "find", !.name = n,
                                         !.tried = {[l \in {"login", n} |-> Hit(l)]}]
        BY <4>1
      <4>3. calls[c] \in CallRecord
        BY DEF TypeOK
      <4> QED BY <4>2, <4>3 DEF CallRecord
    <3>3. ~ Becomes(c, "refused", {})
      BY <3>2 DEF Becomes
    <3> QED BY <1>1, <2>1, <2>3, <3>3, CountingCalls DEF Step
  <2> QED BY <2>2, <2>3
<1>2. ASSUME NEW c \in Call, PasswordSteps(c), \A n \in Username : ~ LoginCounts(c, n)
      PROVE  LimitInv'
  <2>1. /\ clock' = clock
        /\ store' \in {store, Counted({"global"}), Counted({"global", "register"})}
    BY <1>2 DEF PasswordSteps, RegisterBegins, LookUp, InsertUser, LoginBegins, FindUser,
                VerifyPassword, SignedIn
  <2>2. \A l \in Watched : store'[l] = store[l]
    BY <2>1, CountedElsewhere
  <2>3. \E to \in {"lookup", "refused", "insert", "signed_in", "body", "verify", "ok"},
           changed \in {{}, {"name"}, {"saw"}, {"user"}} : Becomes(c, to, changed)
    BY <1>2, PasswordCalls DEF PasswordSteps, Step
  <2>4. PICK to, changed : Becomes(c, to, changed) /\ changed \cap {"tried", "disturbed"} = {}
    BY <2>3
  <2>5. /\ calls'[c].tried = calls[c].tried /\ calls'[c].disturbed = calls[c].disturbed
        /\ \A d \in Call \ {c} : /\ calls'[d].tried = calls[d].tried
                                 /\ calls[d].disturbed => calls'[d].disturbed
                                 /\ calls'[d].at = calls[d].at
    BY <2>4, CallKeeps, CeremonyKeeps
  <2>6. calls'[c].at = "body" => Cardinality(InWindow("login")) < Limit["login"]
    <3>1. CASE LoginBegins(c) /\ Check("login")
      BY <3>1 DEF Check
    <3>2. CASE LoginBegins(c) /\ ~ Check("login")
      <4>1. Set(c, [calls[c] EXCEPT !.at = "refused"])
        BY <3>2 DEF LoginBegins, At
      <4>2. Becomes(c, "refused", {})
        BY <4>1, Moves DEF Place
      <4> QED BY <4>2 DEF Becomes
    <3>3. CASE ~ LoginBegins(c)
      <4>1. \E dest \in {"lookup", "refused", "insert", "signed_in", "verify", "ok"},
               fields \in {{}, {"name"}, {"saw"}, {"user"}} : Becomes(c, dest, fields)
        BY <1>2, <3>3, PasswordCalls DEF PasswordSteps, Step
      <4> QED BY <4>1 DEF Becomes
    <3> QED BY <3>1, <3>2, <3>3
  <2>7. \A d \in Call :
          /\ calls'[d].tried = calls[d].tried
          /\ calls[d].disturbed => calls'[d].disturbed
          /\ calls'[d].at = "body" /\ calls[d].at # "body" =>
               Cardinality(InWindow("login")) < Limit["login"]
    BY <2>5, <2>6
  <2> QED BY <1>0, <2>1, <2>2, <2>7, LimitKept
<1>3. ASSUME NEW c \in Call, SessionSteps(c) \/ PasskeySteps(c)
      PROVE  LimitInv'
  <2>1. clock' = clock /\ store' \in {store, Counted({"global"})}
    BY <1>3 DEF SessionSteps, Logout, Revoke, LoggedOut, CallFails, PasskeySteps, LoginBegin,
                RegisterBegin, Sign, ReadCredential, ReadChallenge, DeleteChallenge,
                InsertCredential, UpdateCounter, SignedInByKey
  <2>2. \A l \in Watched : store'[l] = store[l]
    BY <2>1, CountedElsewhere
  <2>3. PICK to, changed :
          /\ to \in Place \ {"new", "body", "lookup", "insert", "find", "verify"}
          /\ Becomes(c, to, changed)
          /\ changed \cap {"name", "saw", "tried", "disturbed"} = {}
    BY <1>3, Asides
  <2>4. /\ calls'[c].tried = calls[c].tried /\ calls'[c].disturbed = calls[c].disturbed
        /\ calls'[c].at # "body"
        /\ \A d \in Call \ {c} : /\ calls'[d].tried = calls[d].tried
                                 /\ calls[d].disturbed => calls'[d].disturbed
                                 /\ calls'[d].at = calls[d].at
    BY <2>3, CallKeeps, CeremonyKeeps
  <2>5. \A d \in Call : /\ calls'[d].tried = calls[d].tried
                        /\ calls[d].disturbed => calls'[d].disturbed
                        /\ calls'[d].at = "body" => calls[d].at = "body"
    BY <2>4
  <2> QED BY <1>0, <2>1, <2>2, <2>5, LimitKept
<1>4. CASE \/ RemovePasskey \/ ChallengeExpires \/ \E u \in users : Deactivate(u)
           \/ Me \/ Cleanup \/ Instant \/ UNCHANGED accountVars
  <2>1. \A l \in Watched : store'[l] \in {store[l], InWindow(l)}
    <3>1. CASE Cleanup
      BY <3>1, WatchedTypes DEF Cleanup
    <3>2. CASE ~ Cleanup
      <4>1. store' \in {store, Counted({"global"})}
        BY <1>4, <3>2 DEF RemovePasskey, ChallengeExpires, Deactivate, Me, Instant, accountVars
      <4> QED BY <4>1, CountedElsewhere
    <3> QED BY <3>1, <3>2
  <2>2. clock' \in {clock, clock + 1}
    BY <1>4 DEF RemovePasskey, ChallengeExpires, Deactivate, Me, Cleanup, Instant, accountVars
  <2>3. \A d \in Call : /\ calls[d].disturbed => calls'[d].disturbed
                        /\ calls'[d].at = "body" => calls[d].at = "body"
    BY <1>4, NobodysStep
  <2>4. \A d \in Call : calls'[d].tried = calls[d].tried
    <3>1. CASE ChallengeExpires
      <4>1. \A d \in Call : calls'[d]["tried"] = calls[d]["tried"]
        BY <3>1, ExpiryCalls DEF Bystander, Field
      <4> QED BY <4>1
    <3>2. CASE ~ ChallengeExpires
      BY <1>4, <3>2 DEF RemovePasskey, Deactivate, Me, Cleanup, Instant, accountVars
    <3> QED BY <3>1, <3>2
  <2> QED BY <1>0, <2>1, <2>2, <2>3, <2>4, LimitKept
<1> QED BY <1>1, <1>2, <1>3, <1>4, LimitRestarts DEF AccountsNext, PasswordSteps

(* No more logins than the limit reach the password of a name in a window; *)
(* that of the address is exceeded only by logins whose bodies were being  *)
(* read meanwhile: api/auth.ts asks before it reads, and counts after.     *)
THEOREM LoginsStayLimited == AccountsSpec => []LoginsAreLimited
<1>1. TypeOK /\ LimitInv => LoginsAreLimited
  <2> SUFFICES ASSUME TypeOK, LimitInv PROVE LoginsAreLimited
    OBVIOUS
  <2>1. ASSUME NEW n \in Username
        PROVE  Cardinality(Tried(n)) <= Limit[n]
    <3>1. n \in Watched /\ n \in Limiter
      BY WatchedTypes DEF Watched
    <3>2. Cardinality(InWindow(n)) <= Limit[n]
      BY DEF LimitInv
    <3>3. Cardinality(InWindow(n)) \in Nat /\ Limit[n] \in Nat
      BY <3>1, InWindowIsFinite, WatchedTypes
    <3>4. Cardinality(Tried(n)) \in Nat /\ Cardinality(Tried(n)) <= Cardinality(InWindow(n))
      BY <3>1, TriedIsCounted DEF LimitInv, TriedFits
    <3> QED BY <3>2, <3>3, <3>4
  <2> QED BY <2>1 DEF LimitInv, LoginsAreLimited, Undisturbed
<1> QED BY <1>1, Typed, LimitStart, LimitStep, PTL DEF AccountsSpec
=============================================================================
