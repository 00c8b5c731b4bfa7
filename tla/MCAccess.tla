------------------------------ MODULE MCAccess ------------------------------
(***************************************************************************)
(* Who is let in, for TLC: workers with a delegated token, and users with  *)
(* a password or a passkey.  The two share no variable that changes what   *)
(* the other does (a session's jti is never a token's), so that an         *)
(* instance takes one at a time; part says which, and which calls of users *)
(* are made.                                                               *)
(***************************************************************************)
EXTENDS MCDelegatedToken, Accounts

CONSTANTS n1, n2, seed

SmallLimit  == [l \in Limiter |-> CASE l = "global" -> 3 [] l = "register" -> 2 [] OTHER -> 1]
SmallWindow == [l \in Limiter |-> IF l = "global" THEN 1 ELSE 2]
OneSeeded   == {<<seed, n1>>}

VARIABLE part

accessVars == <<part, vars, accountVars>>

AccessInit ==
  /\ part \in {"tokens", "passwords", "sessions", "ceremonies"}
  /\ Init /\ AccountsInit /\ (part # "sessions" => ~ secure)
  /\ browser.csrf = (part = "ceremonies")

AccountsPart ==
  \/ /\ part = "passwords"
     /\ \/ \E c \in Call : PasswordSteps(c) \/ CallFails(c)
        \/ \E u \in users : Deactivate(u)
        \/ Me \/ Cleanup \/ ServerRestarts \/ Instant
  \/ /\ part = "sessions"
     /\ \/ \E c \in Call : PasswordSteps(c) \/ SessionSteps(c) \/ PasskeySteps(c)
        \/ RemovePasskey
  \/ /\ part = "ceremonies"
     /\ (\E c \in Call : PasskeySteps(c) \/ CallFails(c)) \/ ChallengeExpires

AccessNext ==
  \/ part = "tokens" /\ Next /\ UNCHANGED <<part, accountVars>>
  \/ AccountsPart /\ UNCHANGED <<part, vars>>

AccessSpec == AccessInit /\ [][AccessNext]_accessVars

AccessSymmetry == RequestSymmetry \cup Permutations(Call)
=============================================================================
