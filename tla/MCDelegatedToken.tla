-------------------------- MODULE MCDelegatedToken --------------------------
(* Small instances of DelegatedToken for TLC.                              *)
EXTENDS DelegatedToken, TLC

CONSTANTS j1, j2, t1, t2

OneTokenTask   == j1 :> t1
TwoTokenTasks  == j1 :> t1 @@ j2 :> t1

RequestSymmetry == Permutations(Request)
=============================================================================
