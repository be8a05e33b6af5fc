---------------------------- MODULE MCAsyncPool ----------------------------
(***************************************************************************)
(* Model-checking instance of AsyncPool.                                   *)
(***************************************************************************)
EXTENDS AsyncPool
=============================================================================
