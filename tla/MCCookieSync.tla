---------------------------- MODULE MCCookieSync ----------------------------
(***************************************************************************)
(* Model-checking instances of CookieSync.  Threads, names and the values  *)
(* of each kind are interchangeable.                                       *)
(***************************************************************************)
EXTENDS CookieSync, TLC

Symmetry ==
    Permutations(Threads) \cup Permutations(Names) \cup
    Permutations(UserValues) \cup Permutations(ServerValues)
=============================================================================
