-------------------------- MODULE BridgeCallProofs --------------------------
(***************************************************************************)
(* Proofs of the safety properties of BridgeCall, for any set of threads,  *)
(* bridges, addresses and replies.                                         *)
(*                                                                         *)
(* The inductive invariant adds to the properties how a thread comes to a  *)
(* loaded bridge (LoadInv) and that what stands at the address of a reply  *)
(* not read yet is what Go answered to that thread (ReplyInv).             *)
(***************************************************************************)
EXTENDS BridgeCall, TLAPS

LoadInv ==
    /\ instance # NoBridge => instance \in loaded
    /\ \A t \in Threads :
          /\ pc[t] \in {"load", "publish"} => inst[t] \in Bridges
          /\ pc[t] = "publish" => inst[t] \in loaded
          /\ pc[t] = "return" => instance # NoBridge

ReplyInv ==
    \A t \in Threads :
        /\ pc[t] \in {"decode", "free"} => ptr[t] \in Addresses
        /\ pc[t] = "decode" => said[t] # NoReply /\ mem[ptr[t]] = said[t]

LoadPart == LoadInv /\ BridgeIsLoaded
ReplyPart == FreedOnce /\ ReplyInv /\ OwnAnswer
IndInv == TypeOK /\ LoadPart /\ ReplyPart

(***************************************************************************)
(* _call turns every answer into a result or one of the exceptions.        *)
(***************************************************************************)
LEMMA OutcomeType == ASSUME NEW r \in Replies PROVE Outcome(r) \in Outcomes
  <1>1. r.kind \in {"result", "garbage", "error"}
    BY ReplyAssumption
  <1> QED
    BY <1>1 DEF Outcome, ErrorClass, Outcomes

LEMMA Initially == Init => IndInv
  BY ReplyAssumption, NothingAssumption
     DEF Init, IndInv, TypeOK, LoadPart, ReplyPart, LoadInv, BridgeIsLoaded, FreedOnce,
         ReplyInv, OwnAnswer

-----------------------------------------------------------------------------
(***************************************************************************)
(* Bridge(): these steps touch no reply.                                   *)
(***************************************************************************)
\* A step that leaves the replies alone and moves t between points without one.
LEMMA ReplyFrame ==
    ASSUME TypeOK, ReplyPart, NEW t \in Threads, NEW p, pc' = [pc EXCEPT ![t] = p],
           pc[t] \notin {"decode", "free"}, p \notin {"decode", "free"},
           UNCHANGED <<ptr, owner, mem, said, got>>
    PROVE  ReplyPart'
  BY DEF TypeOK, ReplyPart, FreedOnce, ReplyInv, OwnAnswer

LEMMA CheckInstanceKeeps ==
    ASSUME IndInv, NEW t \in Threads, CheckInstance(t) PROVE IndInv'
  <1> USE DEF IndInv
  <1>1. TypeOK'
    BY DEF CheckInstance, Goto, TypeOK, replyVars, newVars
  <1>2. LoadPart'
    BY DEF CheckInstance, Goto, Fresh, TypeOK, LoadPart, LoadInv, BridgeIsLoaded, replyVars,
           newVars
  <1>3. ReplyPart'
    BY ReplyFrame DEF CheckInstance, Goto, replyVars, newVars
  <1> QED BY <1>1, <1>2, <1>3

LEMMA LoadKeeps ==
    ASSUME IndInv, NEW t \in Threads, Load(t) PROVE IndInv'
  <1> USE DEF IndInv
  <1>1. TypeOK'
    BY DEF Load, Goto, TypeOK, LoadPart, LoadInv, replyVars
  <1>2. LoadPart'
    BY DEF Load, Goto, TypeOK, LoadPart, LoadInv, BridgeIsLoaded
  <1>3. ReplyPart'
    BY ReplyFrame DEF Load, Goto, replyVars
  <1> QED BY <1>1, <1>2, <1>3

LEMMA PublishKeeps ==
    ASSUME IndInv, NEW t \in Threads, Publish(t) PROVE IndInv'
  <1> USE DEF IndInv
  <1>1. TypeOK'
    BY DEF Publish, Goto, TypeOK, replyVars
  <1>2. LoadPart'
    BY NothingAssumption DEF Publish, Goto, TypeOK, LoadPart, LoadInv, BridgeIsLoaded
  <1>3. ReplyPart'
    BY ReplyFrame DEF Publish, Goto, replyVars
  <1> QED BY <1>1, <1>2, <1>3

LEMMA ReturnInstanceKeeps ==
    ASSUME IndInv, NEW t \in Threads, ReturnInstance(t) PROVE IndInv'
  <1> USE DEF IndInv
  <1>1. TypeOK'
    BY DEF ReturnInstance, Goto, TypeOK, replyVars, newVars
  <1>2. LoadPart'
    BY DEF ReturnInstance, Goto, TypeOK, LoadPart, LoadInv, BridgeIsLoaded, newVars
  <1>3. ReplyPart'
    BY ReplyFrame DEF ReturnInstance, Goto, replyVars
  <1> QED BY <1>1, <1>2, <1>3

LEMMA DropClientKeeps ==
    ASSUME IndInv, NEW t \in Threads, DropClient(t) PROVE IndInv'
  <1> USE DEF IndInv
  <1>1. TypeOK'
    BY DEF DropClient, Goto, TypeOK, newVars
  <1>2. LoadPart'
    BY DEF DropClient, Goto, TypeOK, LoadPart, LoadInv, BridgeIsLoaded, newVars
  <1>3. ReplyPart'
    BY DEF DropClient, Goto, TypeOK, ReplyPart, FreedOnce, ReplyInv, OwnAnswer
  <1> QED BY <1>1, <1>2, <1>3

-----------------------------------------------------------------------------
(***************************************************************************)
(* _call: these steps touch no bridge.                                     *)
(***************************************************************************)
LEMMA LoadFrame ==
    ASSUME TypeOK, LoadPart, NEW t \in Threads, NEW p, pc' = [pc EXCEPT ![t] = p],
           p \notin {"load", "publish", "return"}, UNCHANGED <<instance, loaded, inst, bridge>>
    PROVE  LoadPart'
  BY DEF TypeOK, LoadPart, LoadInv, BridgeIsLoaded

LEMMA GoReturnsKeeps ==
    ASSUME IndInv, NEW t \in Threads, GoReturns(t) PROVE IndInv'
  <1> USE DEF IndInv
  <1>1. PICK a \in Addresses, reply \in Replies :
          /\ owner[a] = NoThread
          /\ owner' = [owner EXCEPT ![a] = t]
          /\ ptr' = [ptr EXCEPT ![t] = a]
          /\ mem' = [mem EXCEPT ![a] = reply]
          /\ said' = [said EXCEPT ![t] = reply]
    BY DEF GoReturns
  <1>2. /\ pc[t] = "ready" /\ pc' = [pc EXCEPT ![t] = "decode"]
        /\ got' = [got EXCEPT ![t] = NoReply]
        /\ UNCHANGED <<instance, loaded, inst, bridge>>
    BY DEF GoReturns, Goto, newVars
  <1>3. TypeOK'
    BY <1>1, <1>2, NothingAssumption, ReplyAssumption DEF TypeOK
  <1>4. LoadPart'
    BY <1>2, LoadFrame
  <1>5. FreedOnce'
    BY <1>1, <1>2, NothingAssumption DEF TypeOK, ReplyPart, FreedOnce
  <1>6. ReplyInv'
    BY <1>1, <1>2, NothingAssumption, ReplyAssumption DEF TypeOK, ReplyPart, FreedOnce, ReplyInv
  <1>7. OwnAnswer'
    BY <1>1, <1>2 DEF TypeOK, ReplyPart, OwnAnswer
  <1> QED BY <1>3, <1>4, <1>5, <1>6, <1>7 DEF ReplyPart

LEMMA GoReturnsNullKeeps ==
    ASSUME IndInv, NEW t \in Threads, GoReturnsNull(t) PROVE IndInv'
  <1> USE DEF IndInv
  <1>1. TypeOK'
    BY DEF GoReturnsNull, TypeOK, newVars, Outcomes
  <1>2. LoadPart'
    BY DEF GoReturnsNull, LoadPart, LoadInv, BridgeIsLoaded, newVars
  <1>3. ReplyPart'
    BY DEF GoReturnsNull, TypeOK, ReplyPart, FreedOnce, ReplyInv, OwnAnswer
  <1> QED BY <1>1, <1>2, <1>3

LEMMA DecodeKeeps ==
    ASSUME IndInv, NEW t \in Threads, Decode(t) PROVE IndInv'
  <1> USE DEF IndInv
  <1>1. /\ pc[t] = "decode" /\ pc' = [pc EXCEPT ![t] = "free"]
        /\ got' = [got EXCEPT ![t] = Outcome(mem[ptr[t]])]
        /\ UNCHANGED <<instance, loaded, inst, bridge, ptr, owner, mem, said>>
    BY DEF Decode, Goto, newVars
  <1>2. mem[ptr[t]] = said[t] /\ said[t] \in Replies
    BY <1>1 DEF TypeOK, ReplyPart, ReplyInv
  <1>3. TypeOK'
    BY <1>1, <1>2, OutcomeType DEF TypeOK
  <1>4. LoadPart'
    BY <1>1, LoadFrame
  <1>5. FreedOnce' /\ ReplyInv'
    BY <1>1 DEF TypeOK, ReplyPart, FreedOnce, ReplyInv
  <1>6. OwnAnswer'
    BY <1>1, <1>2 DEF TypeOK, ReplyPart, OwnAnswer
  <1> QED BY <1>3, <1>4, <1>5, <1>6 DEF ReplyPart

LEMMA FreeKeeps ==
    ASSUME IndInv, NEW t \in Threads, Free(t) PROVE IndInv'
  <1> USE DEF IndInv
  <1>1. /\ pc[t] = "free" /\ pc' = [pc EXCEPT ![t] = "ready"]
        /\ owner' = [owner EXCEPT ![ptr[t]] = NoThread]
        /\ mem' = [mem EXCEPT ![ptr[t]] = NoReply]
        /\ ptr' = [ptr EXCEPT ![t] = NoAddress]
        /\ UNCHANGED <<instance, loaded, inst, bridge, said, got>>
    BY DEF Free, Goto, newVars
  <1>2. ptr[t] \in Addresses /\ owner[ptr[t]] = t
    BY <1>1 DEF ReplyPart, ReplyInv, FreedOnce
  <1>3. TypeOK'
    BY <1>1, <1>2 DEF TypeOK
  <1>4. LoadPart'
    BY <1>1, LoadFrame
  <1>5. \A u \in Threads \ {t} : pc[u] \in {"decode", "free"} => ptr[u] # ptr[t]
    BY <1>2 DEF ReplyPart, FreedOnce
  <1>6. FreedOnce'
    BY <1>1, <1>2, <1>5, NothingAssumption DEF TypeOK, ReplyPart, FreedOnce, ReplyInv
  <1>7. ReplyInv'
    BY <1>1, <1>2, <1>5 DEF TypeOK, ReplyPart, ReplyInv
  <1>8. OwnAnswer'
    BY <1>1 DEF ReplyPart, OwnAnswer
  <1> QED BY <1>3, <1>4, <1>6, <1>7, <1>8 DEF ReplyPart

-----------------------------------------------------------------------------
LEMMA StepKeeps == IndInv /\ [Next]_vars => IndInv'
  <1> SUFFICES ASSUME IndInv, [Next]_vars PROVE IndInv'
    OBVIOUS
  <1>1. CASE Next
    <2>1. PICK t \in Threads :
            \/ CheckInstance(t) \/ Load(t) \/ Publish(t) \/ ReturnInstance(t) \/ DropClient(t)
            \/ GoReturns(t) \/ GoReturnsNull(t) \/ Decode(t) \/ Free(t)
      BY <1>1 DEF Next
    <2> QED
      BY <2>1, CheckInstanceKeeps, LoadKeeps, PublishKeeps, ReturnInstanceKeeps,
         DropClientKeeps, GoReturnsKeeps, GoReturnsNullKeeps, DecodeKeeps, FreeKeeps
  <1>2. CASE UNCHANGED vars
    BY <1>2 DEF vars, newVars, replyVars, IndInv, TypeOK, LoadPart, LoadInv, BridgeIsLoaded,
                ReplyPart, FreedOnce, ReplyInv, OwnAnswer
  <1> QED BY <1>1, <1>2

LEMMA Invariant == Spec => []IndInv
  BY Initially, StepKeeps, PTL DEF Spec

(***************************************************************************)
(* Every variable of the bridge keeps its type (Bridge, Bridge._call).     *)
(***************************************************************************)
THEOREM BridgeTypes == Spec => []TypeOK
  BY Invariant, PTL DEF IndInv

(***************************************************************************)
(* Whatever threads race through Bridge.__new__, every client gets a       *)
(* bridge whose library is loaded.                                         *)
(***************************************************************************)
THEOREM BridgesAreLoaded == Spec => []BridgeIsLoaded
  BY Invariant, PTL DEF IndInv, LoadPart

(***************************************************************************)
(* Bridge._call frees every reply once, on every way out.                  *)
(***************************************************************************)
THEOREM RepliesAreFreedOnce == Spec => []FreedOnce
  BY Invariant, PTL DEF IndInv, ReplyPart

(***************************************************************************)
(* Every call of Bridge._call gives what Go answered to that call.         *)
(***************************************************************************)
THEOREM AnswersAreOwn == Spec => []OwnAnswer
  BY Invariant, PTL DEF IndInv, ReplyPart
=============================================================================
