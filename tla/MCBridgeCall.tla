---------------------------- MODULE MCBridgeCall ----------------------------
(***************************************************************************)
(* Model-checking instance of BridgeCall: threads, bridges and addresses   *)
(* are each interchangeable.  The error messages have words of two classes *)
(* or half of what a class asks for.                                       *)
(***************************************************************************)
EXTENDS BridgeCall, TLC

Reply(kind, words) == [kind |-> kind, words |-> words]
MCReplies ==
    {Reply("result", {}), Reply("garbage", {}), Reply("error", {"proxy", "dial"}),
     Reply("error", {"redirect"})}

Symmetry == Permutations(Threads) \cup Permutations(Bridges) \cup Permutations(Addresses)
=============================================================================
