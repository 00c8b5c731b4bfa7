------------------------------- MODULE Accounts -------------------------------
(***************************************************************************)
(* Accounts and sessions: register, login and logout of                    *)
(* apps/server/src/api/auth.ts behind the limiters of                      *)
(* security/rate-limiter.ts, and the passkeys of api/passkey.ts.           *)
(*                                                                         *)
(* One address and one browser are modelled, whose cookies name sessions   *)
(* by the call that made them.  A call goes from await to await; its       *)
(* answer is on its way for a while.                                       *)
(***************************************************************************)
EXTENDS Integers, Sequences, SequencesExt, FiniteSets

CONSTANTS
  Call,      \* calls, each made once; a row of users has the id of its call
  Username,
  Seeded,    \* rows <<id, username>> that are there from the beginning
  Limit,     \* per limiter: maxRequests
  Window,    \* per limiter: windowMs, in instants
  MaxClock,  \* bound: the last instant
  Nobody     \* no session, no user

VARIABLES
  clock,
  store,       \* per limiter: the hits it keeps, <<timestamp, number>>
  users,       \* rows of type user
  inactive,    \* ids of users that an admin has deactivated
  calls,       \* per call: where it is and what it has read
  revoked,     \* sessions in revoked_tokens
  secure,      \* whether isSecureContext()
  browser,     \* its cookies
  left,        \* history: the sessions that a logout took from the browser
  challenges,  \* passkey_challenges that have not expired, oldest first
  passkeys,    \* per passkey: the counter in passkey_credentials, or none
  device       \* per passkey: the counter of its authenticator, or none

accountVars == <<clock, store, users, inactive, calls, revoked, secure, browser,
                 left, challenges, passkeys, device>>

limits   == <<clock, store>>
rows     == <<users, inactive, revoked>>
cookies  == <<secure, browser, left>>
ceremony == <<challenges, passkeys, device>>

Limiter == {"global", "login", "register"} \cup Username
UserId  == Call \cup {u[1] : u \in Seeded}
KeyId   == UserId  \* of the call that made the passkey, or of the seeded user
None    == -1

ASSUME AccountsAssumption ==
  /\ Nobody \notin UserId
  /\ \A u \in Seeded : u[1] \notin Call
  /\ {"global", "login", "register"} \cap Username = {}
  /\ Limit \in [Limiter -> Nat] /\ Window \in [Limiter -> Nat \ {0}]

(* tried, disturbed and saw record, for the properties, the hits by which  *)
(* the limiters counted a login, whether something came between two of its *)
(* steps, and the rows that a registration saw.                            *)
NewCall ==
  [at |-> "new", name |-> Nobody, user |-> Nobody, key |-> Nobody, challenge |-> Nobody,
   count |-> 0, stored |-> 0, cookies |-> {}, saw |-> {}, tried |-> {}, disturbed |-> FALSE]

AccountsInit ==
  /\ clock = 1
  /\ store = [l \in Limiter |-> {}]
  /\ users = Seeded
  /\ inactive = {}
  /\ calls = [c \in Call |-> NewCall]
  /\ revoked = {}
  /\ secure \in BOOLEAN
  /\ browser \in [host : {Nobody}, plain : {Nobody}, csrf : BOOLEAN]
  /\ left = {}
  /\ challenges = <<>>
  /\ passkeys = [k \in KeyId |-> IF k \in Call THEN None ELSE 1]
  /\ device = passkeys

Set(c, call) == calls' = [calls EXCEPT ![c] = call]
At(c, to)    == Set(c, [calls[c] EXCEPT !.at = to])

-----------------------------------------------------------------------------
(* RateLimiter.  The hits of one instant are numbered: a limiter keeps a   *)
(* list of timestamps, of which several may be the same.                   *)
InWindow(l) == {h \in store[l] : h[1] + Window[l] > clock}

Check(l) == Cardinality(InWindow(l)) < Limit[l]

Hit(l) == <<clock, Cardinality({h \in store[l] : h[1] = clock}) + 1>>

Counted(limiters) ==
  [l \in Limiter |-> IF l \in limiters THEN InWindow(l) \cup {Hit(l)} ELSE store[l]]

(* Mutant: what is in the window is forgotten with the rest.               *)
CleanupAll ==
  /\ store' = [l \in Limiter |-> {}]
  /\ UNCHANGED <<clock, rows, calls, cookies, ceremony>>

Cleanup ==
  /\ store' = [l \in Limiter |-> InWindow(l)]
  /\ UNCHANGED <<clock, rows, calls, cookies, ceremony>>

(* GET /api/auth/me counts like every request to /api/auth.                *)
Me ==
  /\ Check("global")
  /\ store' = Counted({"global"})
  /\ UNCHANGED <<clock, rows, calls, cookies, ceremony>>

-----------------------------------------------------------------------------
(* POST /api/auth/register.                                                *)
RegisterBegins(c, n) ==
  /\ calls[c].at = "new"
  /\ IF Check("global") /\ Check("register")
       THEN /\ store' = Counted({"global", "register"})
            /\ Set(c, [calls[c] EXCEPT !.at = "lookup", !.name = n])
       ELSE /\ store' = IF Check("global") THEN Counted({"global"}) ELSE store
            /\ At(c, "refused")
  /\ UNCHANGED <<clock, rows, cookies, ceremony>>

Named(n) == {u \in users : u[2] = n}

(* Mutant: the name is not looked up.                                      *)
LookUpNothing(c) ==
  /\ calls[c].at = "lookup"
  /\ Set(c, [calls[c] EXCEPT !.at = "insert", !.saw = users])
  /\ UNCHANGED <<limits, rows, cookies, ceremony>>

(* SELECT; then the password is hashed.                                    *)
LookUp(c) ==
  /\ calls[c].at = "lookup"
  /\ IF Named(calls[c].name) = {}
       THEN Set(c, [calls[c] EXCEPT !.at = "insert", !.saw = users])
       ELSE At(c, "refused")
  /\ UNCHANGED <<limits, rows, cookies, ceremony>>

InsertUser(c) ==
  /\ calls[c].at = "insert"
  /\ users' = users \cup {<<c, calls[c].name>>}
  /\ Set(c, [calls[c] EXCEPT !.at = "signed_in", !.user = c])
  /\ UNCHANGED <<limits, inactive, revoked, cookies, ceremony>>

-----------------------------------------------------------------------------
(* POST /api/auth/login.  The limiter of the address is asked before the   *)
(* body is read ...                                                        *)
LoginBegins(c) ==
  /\ calls[c].at = "new"
  /\ store' = IF Check("global") THEN Counted({"global"}) ELSE store
  /\ At(c, IF Check("global") /\ Check("login") THEN "body" ELSE "refused")
  /\ UNCHANGED <<clock, rows, cookies, ceremony>>

(* ... and counts after it, with the limiter of the name.                  *)
LoginCounts(c, n) ==
  /\ calls[c].at = "body"
  /\ IF Check(n)
       THEN /\ store' = Counted({"login", n})
            /\ calls' = [d \in Call |->
                 IF d = c THEN [calls[c] EXCEPT !.at = "find", !.name = n,
                                                !.tried = {[l \in {"login", n} |-> Hit(l)]}]
                 ELSE IF calls[d].at = "body" THEN [calls[d] EXCEPT !.disturbed = TRUE]
                 ELSE calls[d]]
       ELSE At(c, "refused") /\ UNCHANGED store
  /\ UNCHANGED <<clock, rows, cookies, ceremony>>

(* SELECT without an order: any of the rows with that name.                *)
FindUser(c) ==
  /\ calls[c].at = "find"
  /\ \/ \E u \in Named(calls[c].name) :
          /\ u[1] \notin inactive
          /\ Set(c, [calls[c] EXCEPT !.at = "verify", !.user = u[1]])
     \/ /\ Named(calls[c].name) = {} \/ \E u \in Named(calls[c].name) : u[1] \in inactive
        /\ At(c, "refused")
  /\ UNCHANGED <<limits, rows, cookies, ceremony>>

(* A password that does not match is CallFails.                            *)
VerifyPassword(c) ==
  /\ calls[c].at = "verify"
  /\ At(c, "signed_in")
  /\ UNCHANGED <<limits, rows, cookies, ceremony>>

(* authCookieHeader and csrfCookieHeader.                                  *)
SignedIn(c) ==
  /\ calls[c].at = "signed_in"
  /\ browser' = [(IF secure THEN [browser EXCEPT !.host = c] ELSE [browser EXCEPT !.plain = c])
                   EXCEPT !.csrf = TRUE]
  /\ At(c, "ok")
  /\ UNCHANGED <<limits, rows, secure, left, ceremony>>

(* PATCH /api/admin/users/:id of an admin.                                 *)
Deactivate(u) ==
  /\ u[1] \notin inactive
  /\ inactive' = inactive \cup {u[1]}
  /\ UNCHANGED <<limits, users, revoked, calls, cookies, ceremony>>

-----------------------------------------------------------------------------
(* getAuthenticatedUser: the session that the browser presents.            *)
Presented == IF browser.host # Nobody THEN browser.host ELSE browser.plain

Session == IF Presented \in revoked THEN Nobody ELSE Presented

(* POST /api/auth/logout: verifyCsrf asks for the cookie.  Only the plain  *)
(* cookie is looked at.                                                    *)
Logout(c) ==
  /\ calls[c].at = "new" /\ browser.csrf
  /\ store' = IF Check("global") THEN Counted({"global"}) ELSE store
  /\ IF Check("global")
       THEN Set(c, [calls[c] EXCEPT
                      !.at = IF browser.plain # Nobody THEN "revoke" ELSE "logged_out",
                      !.user = browser.plain,
                      !.cookies = {browser.host, browser.plain} \ {Nobody}])
       ELSE At(c, "refused")
  /\ UNCHANGED <<clock, rows, cookies, ceremony>>

(* revokeToken, best effort.                                               *)
Revoke(c) ==
  /\ calls[c].at = "revoke"
  /\ \/ revoked' = revoked \cup {calls[c].user} /\ At(c, "logged_out")
     \/ UNCHANGED revoked /\ Set(c, [calls[c] EXCEPT !.at = "logged_out", !.cookies = {}])
  /\ UNCHANGED <<limits, users, inactive, cookies, ceremony>>

(* Mutant: the plain cookie is cleared whatever the context.               *)
LoggedOutPlain(c) ==
  /\ calls[c].at = "logged_out"
  /\ browser' = [browser EXCEPT !.plain = Nobody, !.csrf = FALSE]
  /\ left' = left \cup calls[c].cookies
  /\ At(c, "ok")
  /\ UNCHANGED <<limits, rows, secure, ceremony>>

(* clearAuthCookieHeader.                                                  *)
LoggedOut(c) ==
  /\ calls[c].at = "logged_out"
  /\ browser' = [(IF secure THEN [browser EXCEPT !.host = Nobody]
                            ELSE [browser EXCEPT !.plain = Nobody]) EXCEPT !.csrf = FALSE]
  /\ left' = left \cup calls[c].cookies
  /\ At(c, "ok")
  /\ UNCHANGED <<limits, rows, secure, ceremony>>

-----------------------------------------------------------------------------
(* A ceremony of PasskeyButton.tsx: begin, the authenticator, complete.    *)
(* Its challenge is not read yet, ...                                      *)
Reading    == {"begun", "sent", "challenge"}
ReadingNew == {"begun_new", "challenge_new"}

(* ... or it is.                                                           *)
InCeremony == Reading \cup ReadingNew \cup {"delete", "delete_new", "insert_key", "update"}

(* A step of c gets in the way of other calls.                             *)
Disturb(c, call, others) ==
  calls' = [d \in Call |-> IF d = c THEN call
                           ELSE IF d \in others THEN [calls[d] EXCEPT !.disturbed = TRUE]
                           ELSE calls[d]]

Challenge(c, u, type) == [id |-> c, user |-> u, type |-> type]

(* login/begin: the button sends no userId, so that the challenge is good  *)
(* for everybody.                                                          *)
LoginBegin(c) ==
  /\ calls[c].at = "new"
  /\ challenges' = Append(challenges, Challenge(c, Nobody, "authentication"))
  /\ Disturb(c, [calls[c] EXCEPT !.at = "begun"], {d \in Call : calls[d].at \in Reading})
  /\ UNCHANGED <<limits, rows, cookies, passkeys, device>>

(* register/begin: the body names a user, who need not be signed in and    *)
(* may have passkeys; another authenticator makes one more.                *)
RegisterBegin(c) ==
  /\ calls[c].at = "new"
  /\ \E u \in {row[1] : row \in users} :
       /\ challenges' = Append(challenges, Challenge(c, u, "registration"))
       /\ Disturb(c, [calls[c] EXCEPT !.at = "begun_new", !.user = u],
                  {d \in Call : calls[d].at \in ReadingNew /\ calls[d].user = u})
  /\ UNCHANGED <<limits, rows, cookies, passkeys, device>>

(* An authenticator signs the challenge.  It counts its signatures, or     *)
(* says 0 for ever.  register/complete has verifyCsrf before it,           *)
(* login/complete has not.                                                 *)
Sign(c) ==
  /\ \/ /\ calls[c].at = "begun"
        /\ \E k \in KeyId :
             /\ device[k] # None
             /\ device' = [device EXCEPT ![k] = IF @ = 0 THEN 0 ELSE @ + 1]
             /\ Set(c, [calls[c] EXCEPT !.at = "sent", !.key = k, !.count = device'[k]])
     \/ /\ calls[c].at = "begun_new" /\ browser.csrf
        /\ \E first \in {0, 1} :
             /\ device' = [device EXCEPT ![c] = first]
             /\ Set(c, [calls[c] EXCEPT !.at = "challenge_new", !.count = first])
  /\ UNCHANGED <<limits, rows, cookies, challenges, passkeys>>

Owner(k) == IF k \in Call THEN calls[k].user ELSE k

ReadCredential(c) ==
  /\ calls[c].at = "sent"
  /\ LET k == calls[c].key IN
       IF passkeys[k] = None THEN At(c, "refused")
       ELSE Set(c, [calls[c] EXCEPT !.at = "challenge", !.user = Owner(k),
                                    !.stored = passkeys[k]])
  /\ UNCHANGED <<limits, rows, cookies, ceremony>>

(* The rows that the query of c finds.                                     *)
Candidates(c) ==
  {i \in DOMAIN challenges :
     LET h == challenges[i]
     IN  IF calls[c].at = "challenge"
           THEN h.type = "authentication" /\ h.user \in {calls[c].user, Nobody}
           ELSE h.type = "registration" /\ h.user = calls[c].user}

Found(c, i) ==
  Set(c, [calls[c] EXCEPT !.at = IF @ = "challenge" THEN "delete" ELSE "delete_new",
                          !.challenge = challenges[i].id])

NotFound(c) == Candidates(c) = {} /\ At(c, "mismatch")

(* Mutant: ORDER BY created_at.                                            *)
ReadOldest(c) ==
  /\ calls[c].at \in {"challenge", "challenge_new"}
  /\ \/ NotFound(c)
     \/ \E i \in Candidates(c) : (\A k \in Candidates(c) : i <= k) /\ Found(c, i)
  /\ UNCHANGED <<limits, rows, cookies, ceremony>>

(* ORDER BY created_at DESC LIMIT 1.                                       *)
ReadChallenge(c) ==
  /\ calls[c].at \in {"challenge", "challenge_new"}
  /\ \/ NotFound(c)
     \/ \E i \in Candidates(c) : (\A k \in Candidates(c) : k <= i) /\ Found(c, i)
  /\ UNCHANGED <<limits, rows, cookies, ceremony>>

(* newCounter <= cred.counter && newCounter !== 0                          *)
CounterInvalid(c) == calls[c].count <= calls[c].stored /\ calls[c].count # 0

(* DELETE of the challenge, which may be that of another call; the         *)
(* response is verified with what was read.                                *)
DeleteChallenge(c) ==
  /\ calls[c].at \in {"delete", "delete_new"}
  /\ \/ \E i \in DOMAIN challenges : /\ challenges[i].id = calls[c].challenge
                                    /\ challenges' = RemoveAt(challenges, i)
     \/ /\ \A i \in DOMAIN challenges : challenges[i].id # calls[c].challenge
        /\ UNCHANGED challenges
  /\ Disturb(c, [calls[c] EXCEPT
                   !.at = IF calls[c].challenge # c THEN "mismatch"
                          ELSE IF @ = "delete_new" THEN "insert_key"
                          ELSE IF CounterInvalid(c) THEN "refused"
                          ELSE "update"],
             {d \in Call : d = calls[c].challenge /\ calls[d].at \in Reading \cup ReadingNew})
  /\ UNCHANGED <<limits, rows, cookies, passkeys, device>>

(* INSERT of a credential_id that no other passkey has.                    *)
InsertCredential(c) ==
  /\ calls[c].at = "insert_key"
  /\ passkeys' = [passkeys EXCEPT ![c] = calls[c].count]
  /\ At(c, "ok")
  /\ UNCHANGED <<limits, rows, cookies, challenges, device>>

(* UPDATE, of a row that may be gone; then the session.                    *)
UpdateCounter(c) ==
  /\ calls[c].at = "update"
  /\ passkeys' = [passkeys EXCEPT ![calls[c].key] = IF @ = None THEN None ELSE calls[c].count]
  /\ At(c, "signed_in_by_key")
  /\ UNCHANGED <<limits, rows, cookies, challenges, device>>

(* The plain cookie in any context, and no cookie for CSRF.                *)
SignedInByKey(c) ==
  /\ calls[c].at = "signed_in_by_key"
  /\ browser' = [browser EXCEPT !.plain = c]
  /\ At(c, "ok")
  /\ UNCHANGED <<limits, rows, secure, left, ceremony>>

(* DELETE /api/auth/passkey/credentials/:id                                *)
RemovePasskey ==
  /\ Session # Nobody
  /\ \E k \in KeyId : /\ passkeys[k] # None /\ Owner(k) = calls[Session].user
                      /\ passkeys' = [passkeys EXCEPT ![k] = None]
  /\ UNCHANGED <<limits, rows, calls, cookies, challenges, device>>

ChallengeExpires ==
  /\ challenges # <<>>
  /\ challenges' = Tail(challenges)
  /\ calls' = [calls EXCEPT ![challenges[1].id].disturbed =
                  @ \/ calls[challenges[1].id].at \in Reading \cup ReadingNew]
  /\ UNCHANGED <<limits, rows, cookies, passkeys, device>>

-----------------------------------------------------------------------------
AtServer == InCeremony \cup {"lookup", "insert", "body", "find", "verify", "revoke"}

(* A body that is refused, a wrong password, a query that fails, a user    *)
(* who gives up: the call ends where it is.                                *)
CallFails(c) ==
  /\ calls[c].at \in AtServer \ {"revoke"}
  /\ At(c, "refused")
  /\ UNCHANGED <<limits, rows, cookies, ceremony>>

(* The limiters are in memory.                                             *)
ServerRestarts ==
  /\ store # [l \in Limiter |-> {}]
  /\ store' = [l \in Limiter |-> {}]
  /\ calls' = [c \in Call |->
                 [calls[c] EXCEPT !.at = IF @ \in AtServer THEN "refused" ELSE @, !.tried = {}]]
  /\ UNCHANGED <<clock, rows, cookies, ceremony>>

Instant ==
  /\ clock < MaxClock
  /\ clock' = clock + 1
  /\ UNCHANGED <<store, rows, calls, cookies, ceremony>>

PasswordSteps(c) ==
  \/ \E n \in Username : RegisterBegins(c, n) \/ LoginCounts(c, n)
  \/ LookUp(c) \/ InsertUser(c)
  \/ LoginBegins(c) \/ FindUser(c) \/ VerifyPassword(c) \/ SignedIn(c)

SessionSteps(c) == Logout(c) \/ Revoke(c) \/ LoggedOut(c) \/ CallFails(c)

PasskeySteps(c) ==
  \/ LoginBegin(c) \/ RegisterBegin(c) \/ Sign(c)
  \/ ReadCredential(c) \/ ReadChallenge(c) \/ DeleteChallenge(c)
  \/ InsertCredential(c) \/ UpdateCounter(c) \/ SignedInByKey(c)

AccountsNext ==
  \/ \E c \in Call : PasswordSteps(c) \/ SessionSteps(c) \/ PasskeySteps(c)
  \/ RemovePasskey \/ ChallengeExpires
  \/ \E u \in users : Deactivate(u)
  \/ Me \/ Cleanup \/ ServerRestarts \/ Instant

AccountsSpec == AccountsInit /\ [][AccountsNext]_accountVars

-----------------------------------------------------------------------------
Tried(l) ==
  {c \in Call : \E hits \in calls[c].tried :
                  l \in DOMAIN hits /\ hits[l][1] + Window[l] > clock}

(* Between restarts no more logins than its limit reach the password of a  *)
(* name in a window, however they interleave; the limit of the address is  *)
(* exceeded only by logins that were reading their body meanwhile.         *)
LoginsAreLimited ==
  /\ \A n \in Username : Cardinality(Tried(n)) <= Limit[n]
  /\ Cardinality({c \in Tried("login") : ~ calls[c].disturbed}) <= Limit["login"]

(* Two users have one name only if neither registration saw the other.     *)
SameNameNeedsARace ==
  \A u, v \in users :
    u # v /\ u[2] = v[2] => \A c \in Call : (c = u[1] => v \notin calls[c].saw)
                                         /\ (c = v[1] => u \notin calls[c].saw)

(* Whatever sessions the browser had, in whichever cookies, it has none of *)
(* them after a logout whose revocation did not fail.                      *)
LogoutEndsSession == Session \notin left

(* A ceremony is verified against the challenge of another one, or finds   *)
(* none, only when another one began, or took its challenge, or it         *)
(* expired, before it read it; and the counter of a passkey goes back only *)
(* by a login that was compared with an older counter than the row has.    *)
(* Further passkeys of a user, their removal, registrations of others and  *)
(* authenticators that do not count cause neither.                         *)
PasskeyTroubleNeedsOverlap ==
  [][/\ \A c \in Call :
          calls'[c].at = "mismatch" /\ calls[c].at # "mismatch" => calls[c].disturbed
     /\ \A k \in KeyId :
          passkeys'[k] # None /\ passkeys'[k] < passkeys[k] =>
            \E c \in Call : /\ calls[c].at = "update" /\ calls[c].key = k
                           /\ calls[c].stored < passkeys[k]
    ]_accountVars
=============================================================================
