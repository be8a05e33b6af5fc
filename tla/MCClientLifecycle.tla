-------------------------- MODULE MCClientLifecycle --------------------------
(***************************************************************************)
(* Model-checking instance of ClientLifecycle: threads, clients and        *)
(* identifiers are each interchangeable.                                   *)
(***************************************************************************)
EXTENDS ClientLifecycle, TLC

Symmetry == Permutations(Threads) \cup Permutations(Clients) \cup Permutations(Ids)
=============================================================================
