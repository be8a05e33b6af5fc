-------------------------- MODULE MCSessionRegistry --------------------------
(***************************************************************************)
(* Model-checking instance of SessionRegistry.  The threads are            *)
(* interchangeable, which the safety run uses; liveness runs do not.       *)
(***************************************************************************)
EXTENDS SessionRegistry, TLC

Symmetry == Permutations(Threads)
=============================================================================
