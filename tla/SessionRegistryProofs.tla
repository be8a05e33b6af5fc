----------------------- MODULE SessionRegistryProofs -----------------------
(***************************************************************************)
(* Proofs about SessionRegistry, for every set of threads, every set of    *)
(* operations and every bound on the number of sessions.                   *)
(*                                                                         *)
(* None of the properties is inductive.  What carries them is the          *)
(* discipline of the lock (LockInv), the flow of identifiers from the      *)
(* counter to the one CreateSession that owns them and on to the callers   *)
(* (FlowInv), and what each point of the code knows of the map and of the  *)
(* closes of the session it works on (OwnerInv, CloseInv).                 *)
(***************************************************************************)
EXTENDS SessionRegistry, TLAPS

\* A thread holds the lock exactly at the points between Lock and Unlock, and
\* nobody reads while somebody writes.
LockInv ==
    /\ \A t \in Threads : writer = t <=> pc[t] \in WriteHeld \cup WritePending
    /\ \A t \in Threads : t \in readers <=> pc[t] \in ReadHeld
    /\ \A t \in Threads : pc[t] \in WriteHeld => readers = {}

CreatePoints == {"insert_lock", "insert_wait", "insert", "insert_unlock", "decode",
                 "rlock", "read", "runlock", "branch", "use", "delete_lock",
                 "delete_wait", "close", "delete", "delete_unlock", "reply"}
ClosePoints == {"delete_lock", "delete_wait", "close", "delete", "delete_unlock", "reply"}
UsePoints == {"rlock", "read", "runlock", "branch", "use", "reply"}

\* Which function a thread is in bounds where it can be, and what it returns.
PathInv ==
    \A t \in Threads :
        /\ pc[t] = "idle" <=> op[t] = "none"
        /\ op[t] = "create" => pc[t] \in CreatePoints
        /\ op[t] = "close" => pc[t] \in ClosePoints
        /\ op[t] \in UseOps => pc[t] \in UsePoints
        /\ pc[t] \in {"insert_lock", "insert_wait", "insert", "insert_unlock", "decode"} =>
               op[t] = "create"
        /\ pc[t] \in {"delete_lock", "delete_wait", "close", "delete", "delete_unlock"} =>
               op[t] \in {"create", "close"}
        /\ pc[t] \in {"rlock", "read", "runlock", "branch", "use"} =>
               op[t] \in UseOps \cup {"create"}
        /\ pc[t] # "reply" => res[t] = "none"
        /\ op[t] = "create" /\ pc[t] = "reply" => res[t] \in {"ok", "error"}

\* Identifiers come from the counter, belong to one CreateSession until it
\* returns, and only then reach other callers.
FlowInv ==
    /\ \A id \in sessionMap \cup handed : id <= nextID
    /\ \A t \in Threads : IF pc[t] = "idle" THEN sid[t] = NoId ELSE sid[t] \in 1 .. nextID
    /\ \A t \in Threads : op[t] = "close" \/ op[t] \in UseOps => sid[t] \in handed
    /\ \A t \in Threads : op[t] = "create" => sid[t] \notin handed
    /\ \A t, u \in Threads : op[t] = "create" /\ op[u] # "none" /\ sid[u] = sid[t] => u = t

\* What a CreateSession knows of its own session at each of its points.
Owned(t) ==
    /\ pc[t] \in {"insert_lock", "insert_wait", "insert"} =>
           sid[t] \notin sessionMap /\ closes[sid[t]] = 0
    /\ pc[t] \in {"insert_unlock", "decode", "rlock", "read", "runlock", "branch",
                  "use", "delete_lock", "delete_wait", "close"} =>
           sid[t] \in sessionMap /\ closes[sid[t]] = 0
    /\ pc[t] = "reply" /\ res[t] = "ok" => sid[t] \in sessionMap /\ closes[sid[t]] = 0
    /\ pc[t] = "delete_unlock" => sid[t] \notin sessionMap
    /\ pc[t] = "reply" /\ res[t] = "error" => sid[t] \notin sessionMap
    /\ pc[t] \in {"runlock", "branch", "use"} => found[t]

OwnerInv == \A t \in Threads : op[t] = "create" => Owned(t)

\* How often each session has been closed.
CloseInv ==
    /\ \A t \in Threads : pc[t] = "delete" => sid[t] \in sessionMap /\ closes[sid[t]] = 1
    /\ \A id \in sessionMap :
           (\A t \in Threads : pc[t] = "delete" => sid[t] # id) => closes[id] = 0
    /\ \A id \in handed : id \notin sessionMap => closes[id] = 1
    /\ \A id \in Ids : id > nextID => closes[id] = 0

IndInv == TypeOK /\ LockInv /\ PathInv /\ FlowInv /\ OwnerInv /\ CloseInv /\ NoOrphan

LEMMA BusyHasId ==
    ASSUME IndInv, NEW t \in Threads, pc[t] # "idle"
    PROVE  sid[t] \in Ids /\ sid[t] # NoId
    BY DEF IndInv, TypeOK, FlowInv, NoId

LEMMA RLockKeeps ==
    ASSUME IndInv, NEW t \in Threads, RLock(t)
    PROVE  IndInv'
<1>1. TypeOK'
    BY DEF IndInv, TypeOK, RLock, Goto, mapVars, callVars, Points, ReadHeld
<1>2. LockInv'
    BY ThreadsAssumption
    DEF IndInv, TypeOK, LockInv, RLock, Goto, WriteHeld, WritePending, ReadHeld
<1>3. PathInv'
    BY OpsAssumption
    DEF IndInv, TypeOK, PathInv, RLock, Goto, callVars, CreatePoints, UsePoints
<1>4. FlowInv'
    BY DEF IndInv, TypeOK, FlowInv, RLock, Goto, mapVars, callVars
<1>5. OwnerInv'
    BY DEF IndInv, TypeOK, OwnerInv, Owned, RLock, Goto, mapVars, callVars
<1>6. CloseInv'
    BY DEF IndInv, TypeOK, CloseInv, RLock, Goto, mapVars, callVars
<1>7. NoOrphan'
    BY DEF IndInv, TypeOK, NoOrphan, Building, RLock, Goto, mapVars, callVars
<1> QED BY <1>1, <1>2, <1>3, <1>4, <1>5, <1>6, <1>7 DEF IndInv

LEMMA AnnounceKeeps ==
    ASSUME IndInv, NEW t \in Threads, Announce(t)
    PROVE  IndInv'
<1>1. TypeOK'
    BY DEF IndInv, TypeOK, Announce, Goto, mapVars, callVars, Points, WritePending
<1>2. LockInv'
    BY ThreadsAssumption
    DEF IndInv, TypeOK, LockInv, Announce, Goto, WriteHeld, WritePending, ReadHeld
<1>3. PathInv'
    BY OpsAssumption
    DEF IndInv, TypeOK, PathInv, Announce, Goto, callVars, CreatePoints, ClosePoints
<1>4. FlowInv'
    BY DEF IndInv, TypeOK, FlowInv, Announce, Goto, mapVars, callVars
<1>5. OwnerInv'
    BY DEF IndInv, TypeOK, OwnerInv, Owned, Announce, Goto, mapVars, callVars
<1>6. CloseInv'
    BY DEF IndInv, TypeOK, CloseInv, Announce, Goto, mapVars, callVars
<1>7. NoOrphan'
    BY DEF IndInv, TypeOK, NoOrphan, Building, Announce, Goto, mapVars, callVars
<1> QED BY <1>1, <1>2, <1>3, <1>4, <1>5, <1>6, <1>7 DEF IndInv

LEMMA AcquireKeeps ==
    ASSUME IndInv, NEW t \in Threads, Acquire(t)
    PROVE  IndInv'
<1>1. TypeOK'
    BY DEF IndInv, TypeOK, Acquire, Goto, mapVars, lockVars, callVars, Points, WriteHeld
<1>2. LockInv'
    BY DEF IndInv, TypeOK, LockInv, Acquire, Goto, lockVars, WriteHeld, WritePending,
           ReadHeld
<1>3. PathInv'
    BY OpsAssumption
    DEF IndInv, TypeOK, PathInv, Acquire, Goto, callVars, CreatePoints, ClosePoints
<1>4. FlowInv'
    BY DEF IndInv, TypeOK, FlowInv, Acquire, Goto, mapVars, callVars
<1>5. OwnerInv'
    BY DEF IndInv, TypeOK, OwnerInv, Owned, Acquire, Goto, mapVars, callVars
<1>6. CloseInv'
    BY DEF IndInv, TypeOK, CloseInv, Acquire, Goto, mapVars, callVars
<1>7. NoOrphan'
    BY DEF IndInv, TypeOK, NoOrphan, Building, Acquire, Goto, mapVars, callVars
<1> QED BY <1>1, <1>2, <1>3, <1>4, <1>5, <1>6, <1>7 DEF IndInv

LEMMA NewSessionKeeps ==
    ASSUME IndInv, NEW t \in Threads, NewSession(t)
    PROVE  IndInv'
<1>1. TypeOK'
    BY MaxIDAssumption DEF IndInv, TypeOK, NewSession, Goto, lockVars, Points, Ops, Ids
<1>2. LockInv'
    BY DEF IndInv, TypeOK, LockInv, NewSession, Goto, lockVars, WriteHeld, WritePending,
           ReadHeld
<1>3. PathInv'
    BY OpsAssumption DEF IndInv, TypeOK, PathInv, NewSession, Goto, CreatePoints
<1>4. FlowInv'
    BY OpsAssumption DEF IndInv, TypeOK, PathInv, FlowInv, NewSession, Goto, Ids
<1>5. OwnerInv'
  <2> SUFFICES ASSUME NEW u \in Threads, op'[u] = "create"
               PROVE  Owned(u)'
    BY DEF OwnerInv
  <2>1. CASE u = t
    <3>1. sid'[t] = nextID + 1 /\ pc'[t] = "insert_lock" /\ nextID + 1 \in Ids
      BY MaxIDAssumption DEF IndInv, TypeOK, NewSession, Goto, Ids
    <3>2. nextID + 1 \notin sessionMap /\ closes[nextID + 1] = 0
      BY <3>1 DEF IndInv, TypeOK, FlowInv, CloseInv
    <3> QED
      BY <2>1, <3>1, <3>2 DEF Owned, NewSession
  <2>2. CASE u # t
    <3>1. op[u] = "create" /\ Owned(u)
      BY <2>2 DEF IndInv, TypeOK, OwnerInv, NewSession
    <3> QED
      BY <2>2, <3>1 DEF IndInv, TypeOK, Owned, NewSession, Goto
  <2> QED
    BY <2>1, <2>2
<1>6. CloseInv'
    BY DEF IndInv, TypeOK, PathInv, CloseInv, NewSession, Goto, Ids
<1>7. NoOrphan'
    BY DEF IndInv, TypeOK, PathInv, NoOrphan, Building, NewSession, Goto
<1> QED BY <1>1, <1>2, <1>3, <1>4, <1>5, <1>6, <1>7 DEF IndInv

LEMMA InsertKeeps ==
    ASSUME IndInv, NEW t \in Threads, Insert(t)
    PROVE  IndInv'
<1>1. TypeOK'
  <2>1. sessionMap' \subseteq Ids
    BY BusyHasId DEF IndInv, TypeOK, Insert, Goto
  <2>2. pc' \in [Threads -> Points]
    BY DEF IndInv, TypeOK, Insert, Goto, Points, WriteHeld
  <2> QED
    BY <2>1, <2>2 DEF IndInv, TypeOK, Insert, lockVars, callVars
<1>2. LockInv'
    BY DEF IndInv, TypeOK, LockInv, Insert, Goto, lockVars, WriteHeld, ReadHeld
<1>3. PathInv'
    BY OpsAssumption DEF IndInv, TypeOK, PathInv, Insert, Goto, callVars, CreatePoints
<1>4. FlowInv'
    BY DEF IndInv, TypeOK, FlowInv, Insert, Goto, callVars
<1>5. OwnerInv'
    BY DEF IndInv, TypeOK, PathInv, FlowInv, OwnerInv, Owned, Insert, Goto, callVars
<1>6. CloseInv'
    BY DEF IndInv, TypeOK, PathInv, OwnerInv, Owned, CloseInv, Insert, Goto, callVars
<1>7. NoOrphan'
    BY DEF IndInv, TypeOK, PathInv, NoOrphan, Building, Insert, Goto, callVars
<1> QED BY <1>1, <1>2, <1>3, <1>4, <1>5, <1>6, <1>7 DEF IndInv

LEMMA InsertUnlockKeeps ==
    ASSUME IndInv, NEW t \in Threads, InsertUnlock(t)
    PROVE  IndInv'
<1>1. TypeOK'
    BY DEF IndInv, TypeOK, InsertUnlock, Goto, mapVars, callVars, Points
<1>2. LockInv'
    BY ThreadsAssumption
    DEF IndInv, TypeOK, LockInv, InsertUnlock, Goto, WriteHeld, WritePending, ReadHeld
<1>3. PathInv'
    BY OpsAssumption DEF IndInv, TypeOK, PathInv, InsertUnlock, Goto, callVars, CreatePoints
<1>4. FlowInv'
    BY DEF IndInv, TypeOK, FlowInv, InsertUnlock, Goto, mapVars, callVars
<1>5. OwnerInv'
    BY DEF IndInv, TypeOK, OwnerInv, Owned, InsertUnlock, Goto, mapVars, callVars
<1>6. CloseInv'
    BY DEF IndInv, TypeOK, CloseInv, InsertUnlock, Goto, mapVars, callVars
<1>7. NoOrphan'
    BY DEF IndInv, TypeOK, NoOrphan, Building, InsertUnlock, Goto, mapVars, callVars
<1> QED BY <1>1, <1>2, <1>3, <1>4, <1>5, <1>6, <1>7 DEF IndInv

LEMMA LookupKeeps ==
    ASSUME IndInv, NEW t \in Threads, Lookup(t)
    PROVE  IndInv'
<1>1. TypeOK'
    BY DEF IndInv, TypeOK, Lookup, Goto, mapVars, lockVars, Points, ReadHeld
<1>2. LockInv'
    BY DEF IndInv, TypeOK, LockInv, Lookup, Goto, lockVars, WriteHeld, WritePending,
           ReadHeld
<1>3. PathInv'
    BY OpsAssumption DEF IndInv, TypeOK, PathInv, Lookup, Goto, CreatePoints, UsePoints
<1>4. FlowInv'
    BY DEF IndInv, TypeOK, FlowInv, Lookup, Goto, mapVars
<1>5. OwnerInv'
  <2> SUFFICES ASSUME NEW u \in Threads, op[u] = "create"
               PROVE  Owned(u)'
    BY DEF OwnerInv, Lookup
  <2>1. Owned(u)
    BY DEF IndInv, OwnerInv
  <2>2. CASE u = t
    BY <2>1 DEF IndInv, TypeOK, Owned, Lookup, Goto, mapVars
  <2>3. CASE u # t
    BY <2>1 DEF IndInv, TypeOK, Owned, Lookup, Goto, mapVars
  <2> QED
    BY <2>2, <2>3
<1>6. CloseInv'
    BY DEF IndInv, TypeOK, CloseInv, Lookup, Goto, mapVars
<1>7. NoOrphan'
    BY DEF IndInv, TypeOK, NoOrphan, Building, Lookup, Goto, mapVars
<1> QED BY <1>1, <1>2, <1>3, <1>4, <1>5, <1>6, <1>7 DEF IndInv

LEMMA RUnlockKeeps ==
    ASSUME IndInv, NEW t \in Threads, RUnlock(t)
    PROVE  IndInv'
<1>1. TypeOK'
    BY DEF IndInv, TypeOK, RUnlock, Goto, mapVars, callVars, Points
<1>2. LockInv'
    BY DEF IndInv, TypeOK, LockInv, RUnlock, Goto, WriteHeld, WritePending, ReadHeld
<1>3. PathInv'
    BY OpsAssumption
    DEF IndInv, TypeOK, PathInv, RUnlock, Goto, callVars, CreatePoints, UsePoints
<1>4. FlowInv'
    BY DEF IndInv, TypeOK, FlowInv, RUnlock, Goto, mapVars, callVars
<1>5. OwnerInv'
    BY DEF IndInv, TypeOK, OwnerInv, Owned, RUnlock, Goto, mapVars, callVars
<1>6. CloseInv'
    BY DEF IndInv, TypeOK, CloseInv, RUnlock, Goto, mapVars, callVars
<1>7. NoOrphan'
    BY DEF IndInv, TypeOK, NoOrphan, Building, RUnlock, Goto, mapVars, callVars
<1> QED BY <1>1, <1>2, <1>3, <1>4, <1>5, <1>6, <1>7 DEF IndInv

LEMMA CloseIfPresentKeeps ==
    ASSUME IndInv, NEW t \in Threads, CloseIfPresent(t)
    PROVE  IndInv'
<1>1. TypeOK'
  <2>1. closes' \in [Ids -> Nat]
    BY DEF IndInv, TypeOK, CloseIfPresent
  <2>2. pc' \in [Threads -> Points]
    BY DEF IndInv, TypeOK, CloseIfPresent, Goto, Points, WriteHeld
  <2> QED
    BY <2>2 DEF IndInv, TypeOK, CloseIfPresent, lockVars, callVars
<1>2. LockInv'
    BY DEF IndInv, TypeOK, LockInv, CloseIfPresent, Goto, lockVars, WriteHeld, ReadHeld
<1>3. PathInv'
    BY OpsAssumption
    DEF IndInv, TypeOK, PathInv, CloseIfPresent, Goto, callVars, CreatePoints, ClosePoints
<1>4. FlowInv'
    BY DEF IndInv, TypeOK, FlowInv, CloseIfPresent, Goto, callVars
<1>5. OwnerInv'
  <2> SUFFICES ASSUME NEW u \in Threads, op[u] = "create"
               PROVE  Owned(u)'
    BY DEF OwnerInv, CloseIfPresent, callVars
  <2>1. Owned(u)
    BY DEF IndInv, OwnerInv
  <2>2. CASE u = t
    BY <2>1, <2>2 DEF IndInv, TypeOK, Owned, CloseIfPresent, Goto
  <2>3. CASE u # t
    <3>1. sid[u] # sid[t]
      BY <2>3 DEF IndInv, PathInv, FlowInv, CloseIfPresent, Goto
    <3>2. pc'[u] = pc[u]
      BY <2>3 DEF IndInv, TypeOK, CloseIfPresent, Goto
    <3>3. closes'[sid[u]] = closes[sid[u]]
      <4>1. CASE closes' = [closes EXCEPT ![sid[t]] = @ + 1]
        BY <3>1, <4>1 DEF IndInv, TypeOK
      <4>2. CASE UNCHANGED closes
        BY <4>2
      <4> QED
        BY <4>1 DEF CloseIfPresent
    <3> QED
      BY <2>1, <3>2, <3>3 DEF Owned, CloseIfPresent, callVars
  <2> QED
    BY <2>2, <2>3
<1>6. CloseInv'
  <2>1. CASE sid[t] \in sessionMap
    <3>1. closes[sid[t]] = 0
      BY <2>1 DEF IndInv, LockInv, CloseInv, CloseIfPresent, Goto, WriteHeld
    <3>2. closes' = [closes EXCEPT ![sid[t]] = 1]
      BY <2>1, <3>1 DEF IndInv, TypeOK, CloseIfPresent
    <3> QED
      BY <3>2 DEF IndInv, TypeOK, CloseInv, FlowInv, CloseIfPresent, Goto, callVars
  <2>2. CASE sid[t] \notin sessionMap
    BY <2>2 DEF IndInv, TypeOK, CloseInv, CloseIfPresent, Goto, callVars
  <2> QED
    BY <2>1, <2>2
<1>7. NoOrphan'
    BY DEF IndInv, TypeOK, NoOrphan, Building, CloseIfPresent, Goto, callVars
<1> QED BY <1>1, <1>2, <1>3, <1>4, <1>5, <1>6, <1>7 DEF IndInv

LEMMA DeleteKeeps ==
    ASSUME IndInv, NEW t \in Threads, Delete(t)
    PROVE  IndInv'
<1>1. TypeOK'
  <2>1. sessionMap' \subseteq Ids
    BY DEF IndInv, TypeOK, Delete, Goto
  <2>2. pc' \in [Threads -> Points]
    BY DEF IndInv, TypeOK, Delete, Goto, Points, WriteHeld
  <2> QED
    BY <2>2 DEF IndInv, TypeOK, Delete, lockVars, callVars
<1>2. LockInv'
    BY DEF IndInv, TypeOK, LockInv, Delete, Goto, lockVars, WriteHeld, ReadHeld
<1>3. PathInv'
    BY OpsAssumption
    DEF IndInv, TypeOK, PathInv, Delete, Goto, callVars, CreatePoints, ClosePoints
<1>4. FlowInv'
    BY DEF IndInv, TypeOK, FlowInv, Delete, Goto, callVars
<1>5. OwnerInv'
    BY DEF IndInv, TypeOK, PathInv, FlowInv, OwnerInv, Owned, Delete, Goto, callVars
<1>6. CloseInv'
    BY DEF IndInv, TypeOK, LockInv, CloseInv, Delete, Goto, WriteHeld
<1>7. NoOrphan'
    BY DEF IndInv, TypeOK, NoOrphan, Building, Delete, Goto, callVars
<1> QED BY <1>1, <1>2, <1>3, <1>4, <1>5, <1>6, <1>7 DEF IndInv

LEMMA DeleteUnlockKeeps ==
    ASSUME IndInv, NEW t \in Threads, DeleteUnlock(t)
    PROVE  IndInv'
<1>1. TypeOK'
    BY DEF IndInv, TypeOK, DeleteUnlock, Goto, mapVars, Points, Results
<1>2. LockInv'
    BY ThreadsAssumption
    DEF IndInv, TypeOK, LockInv, DeleteUnlock, Goto, WriteHeld, WritePending, ReadHeld
<1>3. PathInv'
    BY OpsAssumption
    DEF IndInv, TypeOK, PathInv, DeleteUnlock, Goto, CreatePoints, ClosePoints
<1>4. FlowInv'
    BY DEF IndInv, TypeOK, FlowInv, DeleteUnlock, Goto, mapVars
<1>5. OwnerInv'
    BY DEF IndInv, TypeOK, OwnerInv, Owned, DeleteUnlock, Goto, mapVars
<1>6. CloseInv'
    BY DEF IndInv, TypeOK, CloseInv, DeleteUnlock, Goto, mapVars
<1>7. NoOrphan'
    BY DEF IndInv, TypeOK, NoOrphan, Building, DeleteUnlock, Goto, mapVars
<1> QED BY <1>1, <1>2, <1>3, <1>4, <1>5, <1>6, <1>7 DEF IndInv

LEMMA CloseSessionKeeps ==
    ASSUME IndInv, NEW t \in Threads, CloseSession(t)
    PROVE  IndInv'
<1>1. TypeOK'
    BY DEF IndInv, TypeOK, CloseSession, Goto, mapVars, lockVars, Begin, Points, Ops
<1>2. LockInv'
    BY DEF IndInv, TypeOK, LockInv, CloseSession, Goto, lockVars, Begin, WriteHeld,
           WritePending, ReadHeld
<1>3. PathInv'
    BY OpsAssumption DEF IndInv, TypeOK, PathInv, CloseSession, Goto, Begin, ClosePoints
<1>4. FlowInv'
    BY DEF IndInv, TypeOK, FlowInv, CloseSession, Goto, mapVars, Begin, Ids
<1>5. OwnerInv'
    BY DEF IndInv, TypeOK, OwnerInv, Owned, CloseSession, Goto, mapVars, Begin
<1>6. CloseInv'
    BY DEF IndInv, TypeOK, CloseInv, CloseSession, Goto, mapVars, Begin
<1>7. NoOrphan'
  <2> SUFFICES ASSUME NEW id \in sessionMap, id \notin handed
               PROVE  \E u \in Threads : Building(u, id)'
    BY DEF NoOrphan, CloseSession, Begin, mapVars
  <2>1. PICK u \in Threads : Building(u, id)
    BY DEF IndInv, NoOrphan
  <2>2. u # t
    BY <2>1 DEF IndInv, PathInv, Building, CloseSession, Begin, Goto
  <2> QED
    BY <2>1, <2>2 DEF IndInv, TypeOK, Building, CloseSession, Begin, Goto
<1> QED BY <1>1, <1>2, <1>3, <1>4, <1>5, <1>6, <1>7 DEF IndInv

LEMMA UseSessionKeeps ==
    ASSUME IndInv, NEW t \in Threads, UseSession(t)
    PROVE  IndInv'
<1>1. TypeOK'
    BY DEF IndInv, TypeOK, UseSession, Goto, mapVars, lockVars, Begin, Points, Ops
<1>2. LockInv'
    BY DEF IndInv, TypeOK, LockInv, UseSession, Goto, lockVars, Begin, WriteHeld,
           WritePending, ReadHeld
<1>3. PathInv'
    BY OpsAssumption DEF IndInv, TypeOK, PathInv, UseSession, Goto, Begin, UsePoints
<1>4. FlowInv'
    BY OpsAssumption DEF IndInv, TypeOK, FlowInv, UseSession, Goto, mapVars, Begin, Ids
<1>5. OwnerInv'
    BY OpsAssumption DEF IndInv, TypeOK, OwnerInv, Owned, UseSession, Goto, mapVars, Begin
<1>6. CloseInv'
    BY DEF IndInv, TypeOK, CloseInv, UseSession, Goto, mapVars, Begin
<1>7. NoOrphan'
  <2> SUFFICES ASSUME NEW id \in sessionMap, id \notin handed
               PROVE  \E u \in Threads : Building(u, id)'
    BY DEF NoOrphan, UseSession, Begin, mapVars
  <2>1. PICK u \in Threads : Building(u, id)
    BY DEF IndInv, NoOrphan
  <2>2. u # t
    BY <2>1 DEF IndInv, PathInv, Building, UseSession, Begin, Goto
  <2> QED
    BY <2>1, <2>2 DEF IndInv, TypeOK, Building, UseSession, Begin, Goto
<1> QED BY <1>1, <1>2, <1>3, <1>4, <1>5, <1>6, <1>7 DEF IndInv

LEMMA ReturnKeeps ==
    ASSUME IndInv, NEW t \in Threads, Return(t)
    PROVE  IndInv'
<1>1. TypeOK'
  <2>1. handed' \subseteq Ids
    BY BusyHasId DEF IndInv, TypeOK, Return, Goto
  <2>2. pc' \in [Threads -> Points] /\ op' \in [Threads -> Ops] /\ res' \in [Threads -> Results]
    BY DEF IndInv, TypeOK, Return, Goto, Points, Ops, Results
  <2>3. sid' \in [Threads -> Ids \cup {NoId}] /\ found' \in [Threads -> BOOLEAN]
    BY DEF IndInv, TypeOK, Return
  <2> QED
    BY <2>1, <2>2 DEF IndInv, TypeOK, Return, lockVars
<1>2. LockInv'
    BY DEF IndInv, TypeOK, LockInv, Return, Goto, lockVars, WriteHeld, WritePending,
           ReadHeld
<1>3. PathInv'
    BY OpsAssumption DEF IndInv, TypeOK, PathInv, Return, Goto
<1>4. FlowInv'
    BY OpsAssumption DEF IndInv, TypeOK, FlowInv, Return, Goto
<1>5. OwnerInv'
    BY DEF IndInv, TypeOK, OwnerInv, Owned, Return, Goto
<1>6. CloseInv'
    BY DEF IndInv, TypeOK, OwnerInv, Owned, CloseInv, Return, Goto
<1>7. NoOrphan'
    BY DEF IndInv, TypeOK, NoOrphan, Building, Return, Goto
<1> QED BY <1>1, <1>2, <1>3, <1>4, <1>5, <1>6, <1>7 DEF IndInv

\* The two ways a function moves on without touching anything shared.
LEMMA FinishKeeps ==
    ASSUME IndInv, NEW t \in Threads,
           NEW from \in {"decode", "branch", "use"}, NEW r \in Results \ {"none"},
           op[t] = "create" => r = "ok",
           Finish(t, from, r)
    PROVE  IndInv'
<1>1. TypeOK'
    BY DEF IndInv, TypeOK, Finish, Goto, mapVars, lockVars, Points
<1>2. LockInv'
    BY DEF IndInv, TypeOK, LockInv, Finish, Goto, lockVars, WriteHeld, WritePending,
           ReadHeld
<1>3. PathInv'
    BY DEF IndInv, TypeOK, PathInv, Finish, Goto, CreatePoints, ClosePoints, UsePoints
<1>4. FlowInv'
    BY DEF IndInv, TypeOK, FlowInv, Finish, Goto, mapVars
<1>5. OwnerInv'
    BY DEF IndInv, TypeOK, OwnerInv, Owned, Finish, Goto, mapVars
<1>6. CloseInv'
    BY DEF IndInv, TypeOK, CloseInv, Finish, Goto, mapVars
<1>7. NoOrphan'
    BY DEF IndInv, TypeOK, NoOrphan, Building, Finish, Goto, mapVars
<1> QED BY <1>1, <1>2, <1>3, <1>4, <1>5, <1>6, <1>7 DEF IndInv

LEMMA AdvanceKeeps ==
    ASSUME IndInv, NEW t \in Threads,
           NEW from \in {"decode", "branch", "use"}, NEW to \in {"rlock", "use", "delete_lock"},
           from = "branch" <=> to = "use",
           to = "delete_lock" => op[t] = "create",
           op[t] = "create" \/ found[t],
           Advance(t, from, to)
    PROVE  IndInv'
<1>1. TypeOK'
    BY DEF IndInv, TypeOK, Advance, Goto, mapVars, lockVars, callVars, Points
<1>2. LockInv'
    BY DEF IndInv, TypeOK, LockInv, Advance, Goto, lockVars, WriteHeld, WritePending,
           ReadHeld
<1>3. PathInv'
    BY OpsAssumption
    DEF IndInv, TypeOK, PathInv, Advance, Goto, callVars, CreatePoints, UsePoints
<1>4. FlowInv'
    BY DEF IndInv, TypeOK, FlowInv, Advance, Goto, mapVars, callVars
<1>5. OwnerInv'
    BY DEF IndInv, TypeOK, OwnerInv, Owned, Advance, Goto, mapVars, callVars
<1>6. CloseInv'
    BY DEF IndInv, TypeOK, CloseInv, Advance, Goto, mapVars, callVars
<1>7. NoOrphan'
    BY DEF IndInv, TypeOK, NoOrphan, Building, Advance, Goto, mapVars, callVars
<1> QED BY <1>1, <1>2, <1>3, <1>4, <1>5, <1>6, <1>7 DEF IndInv

LEMMA DecodeConfigKeeps ==
    ASSUME IndInv, NEW t \in Threads, DecodeConfig(t)
    PROVE  IndInv'
<1>1. op[t] = "create"
    BY DEF IndInv, PathInv, DecodeConfig, Finish, Advance, Goto
<1>2. CASE Finish(t, "decode", "ok")
    BY <1>2, FinishKeeps DEF Results
<1>3. CASE Advance(t, "decode", "delete_lock")
    BY <1>1, <1>3, AdvanceKeeps
<1>4. CASE Advance(t, "decode", "rlock")
    BY <1>1, <1>4, AdvanceKeeps
<1> QED BY <1>2, <1>3, <1>4 DEF DecodeConfig

LEMMA AfterLookupKeeps ==
    ASSUME IndInv, NEW t \in Threads, AfterLookup(t)
    PROVE  IndInv'
<1>1. CASE (op[t] = "create" \/ found[t]) /\ Advance(t, "branch", "use")
    BY <1>1, AdvanceKeeps
<1>2. CASE (op[t] # "create" /\ ~found[t]) /\ Finish(t, "branch", "missing")
    BY <1>2, FinishKeeps DEF Results
<1>3. CASE (op[t] \in {"request", "configure"} /\ found[t]) /\ Finish(t, "branch", "error")
    BY <1>3, FinishKeeps DEF Results
<1> QED BY <1>1, <1>2, <1>3 DEF AfterLookup

LEMMA WorkOnSessionKeeps ==
    ASSUME IndInv, NEW t \in Threads, WorkOnSession(t)
    PROVE  IndInv'
<1>1. CASE Finish(t, "use", "ok")
    BY <1>1, FinishKeeps DEF Results
<1>2. CASE op[t] \notin {"create", "clear_proxy"} /\ Finish(t, "use", "error")
    BY <1>2, FinishKeeps DEF Results
<1>3. CASE op[t] = "create" /\ Advance(t, "use", "delete_lock")
    BY <1>3, AdvanceKeeps
<1> QED BY <1>1, <1>2, <1>3 DEF WorkOnSession

LEMMA NextKeeps ==
    ASSUME IndInv, [Next]_vars
    PROVE  IndInv'
<1>1. ASSUME NEW t \in Threads, NewSession(t) \/ CloseSession(t) \/ UseSession(t)
      PROVE  IndInv'
    BY <1>1, NewSessionKeeps, CloseSessionKeeps, UseSessionKeeps
<1>2. ASSUME NEW t \in Threads, LockStep(t)
      PROVE  IndInv'
    BY <1>2, RLockKeeps, AnnounceKeeps DEF LockStep
<1>3. ASSUME NEW t \in Threads, RunStep(t)
      PROVE  IndInv'
    BY <1>3, AcquireKeeps, InsertKeeps, InsertUnlockKeeps, LookupKeeps, RUnlockKeeps,
       CloseIfPresentKeeps, DeleteKeeps, DeleteUnlockKeeps, DecodeConfigKeeps,
       AfterLookupKeeps, WorkOnSessionKeeps, ReturnKeeps
    DEF RunStep
<1>4. CASE UNCHANGED vars
    BY <1>4
    DEF vars, mapVars, lockVars, callVars, IndInv, TypeOK, LockInv, PathInv, FlowInv,
        OwnerInv, Owned, CloseInv, NoOrphan, Building
<1> QED BY <1>1, <1>2, <1>3, <1>4 DEF Next, BoundReached

LEMMA InitHolds == Init => IndInv
    BY ThreadsAssumption, OpsAssumption, MaxIDAssumption
    DEF Init, IndInv, TypeOK, LockInv, PathInv, FlowInv, OwnerInv, CloseInv, NoOrphan,
        Points, Ops, Results, WriteHeld, WritePending, ReadHeld

LEMMA Invariance == SafetySpec => []IndInv
<1>1. IndInv /\ [Next]_vars => IndInv'
    BY NextKeeps
<1> QED BY InitHolds, <1>1, PTL DEF SafetySpec

-----------------------------------------------------------------------------
(***************************************************************************)
(* The registry's variables keep their types, and the counter its bound.   *)
(***************************************************************************)
THEOREM TypeCorrect == SafetySpec => []TypeOK
<1>1. IndInv => TypeOK
    BY DEF IndInv
<1> QED BY Invariance, <1>1, PTL

(***************************************************************************)
(* sessionMutex does its work: no thread ever stands before a write of the *)
(* map while another stands before an access to it (go/session_manager.go).*)
(***************************************************************************)
THEOREM MapIsRaceFree == SafetySpec => []MapRaceFree
<1>1. IndInv => MapRaceFree
    BY DEF IndInv, LockInv, MapRaceFree, Writing, Reading, WriteHeld, ReadHeld
<1> QED BY Invariance, <1>1, PTL

(***************************************************************************)
(* However many threads close a session, deleteSession closes it once.     *)
(***************************************************************************)
THEOREM SessionsCloseOnce == SafetySpec => []ClosedOnce
<1>1. IndInv => ClosedOnce
    BY DEF IndInv, TypeOK, CloseInv, ClosedOnce
<1> QED BY Invariance, <1>1, PTL

(***************************************************************************)
(* No session stays in the map that nobody can close.                      *)
(***************************************************************************)
THEOREM NothingLeaks == SafetySpec => []NoOrphan
<1>1. IndInv => NoOrphan
    BY DEF IndInv
<1> QED BY Invariance, <1>1, PTL

(***************************************************************************)
(* CreateSession never configures a missing, closed or shared session,     *)
(* although it ignores what its lookup says.                               *)
(***************************************************************************)
THEOREM CreateIsAlone == SafetySpec => []CreateOwnsSession
<1>1. IndInv => CreateOwnsSession
  <2> SUFFICES ASSUME IndInv, NEW t \in Threads, op[t] = "create", pc[t] = "use"
               PROVE  /\ found[t] /\ sid[t] \in sessionMap
                      /\ closes[sid[t]] = 0
                      /\ \A u \in Threads \ {t} : sid[u] # sid[t]
    BY DEF CreateOwnsSession
  <2>1. Owned(t)
    BY DEF IndInv, OwnerInv
  <2>2. ASSUME NEW u \in Threads \ {t}, sid[u] = sid[t]
        PROVE  FALSE
    <3>1. pc[u] # "idle"
      BY <2>2, BusyHasId DEF IndInv, FlowInv
    <3> QED
      BY <2>2, <3>1 DEF IndInv, PathInv, FlowInv
  <2> QED
    BY <2>1, <2>2 DEF Owned
<1> QED BY Invariance, <1>1, PTL

(***************************************************************************)
(* SessionRegistry implements SessionStore: what goes on inside the map,   *)
(* the lock and the exported functions looks to the callers like a store   *)
(* whose operations happen in one step each.                               *)
(*                                                                         *)
(* A creation takes effect when CreateSession settles on success or        *)
(* failure, a lookup when the map is read, a removal when the map entry is *)
(* deleted or found missing; every other step is invisible.                *)
(***************************************************************************)

\* A step of t changes what the store sees of t's call only.
LEMMA CallFrame ==
    ASSUME TypeOK, TypeOK', NEW t \in Threads,
           \A u \in Threads \ {t} : /\ pc'[u] = pc[u] /\ op'[u] = op[u]
                                    /\ sid'[u] = sid[u] /\ found'[u] = found[u]
                                    /\ res'[u] = res[u]
    PROVE  storeCall' = [storeCall EXCEPT ![t] = callOf(t)']
<1>1. \A u \in Threads \ {t} : callOf(u)' = callOf(u)
    BY DEF callOf, Answered, Succeeded
<1> QED BY <1>1 DEF storeCall

\* A step that leaves a call looking the same leaves all of storeCall the same.
LEMMA CallSame ==
    ASSUME TypeOK, TypeOK', NEW t \in Threads,
           \A u \in Threads \ {t} : /\ pc'[u] = pc[u] /\ op'[u] = op[u]
                                    /\ sid'[u] = sid[u] /\ found'[u] = found[u]
                                    /\ res'[u] = res[u],
           callOf(t)' = callOf(t)
    PROVE  storeCall' = storeCall
<1>1. \A u \in Threads \ {t} : callOf(u)' = callOf(u)
    BY DEF callOf, Answered, Succeeded
<1> QED BY <1>1 DEF storeCall

\* The store sees no change of the sessions when the granted identifiers and
\* their presence in the map stay the same.
LEMMA StatusSame ==
    ASSUME Granted' = Granted,
           \A id \in Granted : id \in sessionMap' <=> id \in sessionMap
    PROVE  storeStatus' = storeStatus
<1>1. \A id \in Ids : statusOf(id)' = statusOf(id)
    BY DEF statusOf
<1> QED BY <1>1 DEF storeStatus

\* Nothing is granted while no answer of a creation changes.
LEMMA GrantedSame ==
    ASSUME TypeOK, TypeOK', NEW t \in Threads,
           handed' = handed,
           \A u \in Threads \ {t} : op'[u] = op[u] /\ sid'[u] = sid[u] /\ res'[u] = res[u],
           ~(op[t] = "create" /\ res[t] = "ok"),
           ~(op'[t] = "create" /\ res'[t] = "ok")
    PROVE  Granted' = Granted
    BY DEF Granted

\* A creation that has not answered has granted nothing yet.
LEMMA NotGranted ==
    ASSUME IndInv, NEW t \in Threads, op[t] = "create", res[t] # "ok"
    PROVE  sid[t] \notin Granted
    BY DEF IndInv, FlowInv, Granted

-----------------------------------------------------------------------------
LEMMA NewSessionRefines ==
    ASSUME IndInv, IndInv', NEW t \in Threads, NewSession(t)
    PROVE  Store!InvokeCreate(t)
<1>1. storeCall' = [storeCall EXCEPT ![t] = callOf(t)']
    BY CallFrame DEF IndInv, TypeOK, NewSession, Goto
<1>2. storeStatus' = storeStatus
  <2>1. Granted' = Granted
    BY GrantedSame DEF IndInv, TypeOK, PathInv, NewSession, Goto
  <2> QED
    BY <2>1, StatusSame DEF NewSession
<1>3. storeCall[t] = Store!Idle
    BY DEF IndInv, TypeOK, PathInv, FlowInv, storeCall, callOf, Answered, Succeeded,
           Store!Idle, NewSession, Goto
<1>4. callOf(t)' = [phase |-> "called", op |-> "create", id |-> NoId, ok |-> FALSE]
    BY DEF IndInv, TypeOK, PathInv, callOf, Answered, Succeeded, NewSession, Goto
<1> QED BY <1>1, <1>2, <1>3, <1>4 DEF Store!InvokeCreate, Store!Invoke

LEMMA CloseSessionRefines ==
    ASSUME IndInv, IndInv', NEW t \in Threads, CloseSession(t)
    PROVE  \E o \in UseOps \cup {"close"} : Store!InvokeOn(t, o)
<1>1. PICK id \in handed, o \in UseOps \cup {"close"}, to \in {"delete_lock", "rlock"} :
          Begin(t, o, id, to)
    BY DEF CloseSession
<1>2. storeCall' = [storeCall EXCEPT ![t] = callOf(t)']
    BY <1>1, CallFrame DEF IndInv, TypeOK, Begin, Goto
<1>3. storeStatus' = storeStatus
  <2>1. Granted' = Granted
    BY <1>1, GrantedSame DEF IndInv, TypeOK, PathInv, Begin, Goto, mapVars
  <2> QED
    BY <1>1, <2>1, StatusSame DEF Begin, mapVars
<1>4. storeCall[t] = Store!Idle
    BY <1>1
    DEF IndInv, TypeOK, PathInv, FlowInv, storeCall, callOf, Answered, Succeeded,
        Store!Idle, Begin, Goto
<1>5. callOf(t)' = [phase |-> "called", op |-> o, id |-> id, ok |-> FALSE]
    BY <1>1, OpsAssumption DEF IndInv, TypeOK, callOf, Answered, Succeeded, Begin, Goto
<1>6. id \in Ids /\ storeStatus[id] # "unused"
    BY DEF IndInv, TypeOK, storeStatus, statusOf, Granted
<1> QED BY <1>2, <1>3, <1>4, <1>5, <1>6 DEF Store!InvokeOn, Store!Invoke


LEMMA UseSessionRefines ==
    ASSUME IndInv, IndInv', NEW t \in Threads, UseSession(t)
    PROVE  \E o \in UseOps \cup {"close"} : Store!InvokeOn(t, o)
<1>1. PICK id \in handed, o \in UseOps \cup {"close"}, to \in {"delete_lock", "rlock"} :
          Begin(t, o, id, to)
    BY DEF UseSession
<1>2. storeCall' = [storeCall EXCEPT ![t] = callOf(t)']
    BY <1>1, CallFrame DEF IndInv, TypeOK, Begin, Goto
<1>3. storeStatus' = storeStatus
  <2>1. Granted' = Granted
    BY <1>1, GrantedSame DEF IndInv, TypeOK, PathInv, Begin, Goto, mapVars
  <2> QED
    BY <1>1, <2>1, StatusSame DEF Begin, mapVars
<1>4. storeCall[t] = Store!Idle
    BY <1>1
    DEF IndInv, TypeOK, PathInv, FlowInv, storeCall, callOf, Answered, Succeeded,
        Store!Idle, Begin, Goto
<1>5. callOf(t)' = [phase |-> "called", op |-> o, id |-> id, ok |-> FALSE]
    BY <1>1, OpsAssumption DEF IndInv, TypeOK, callOf, Answered, Succeeded, Begin, Goto
<1>6. id \in Ids /\ storeStatus[id] # "unused"
    BY DEF IndInv, TypeOK, storeStatus, statusOf, Granted
<1> QED BY <1>2, <1>3, <1>4, <1>5, <1>6 DEF Store!InvokeOn, Store!Invoke

LEMMA RLockIsSilent ==
    ASSUME IndInv, IndInv', NEW t \in Threads, RLock(t)
    PROVE  UNCHANGED Store!vars
<1>1. storeCall' = storeCall
    BY CallSame DEF IndInv, TypeOK, RLock, Goto, callVars, callOf, Answered, Succeeded
<1>2. storeStatus' = storeStatus
  <2>1. Granted' = Granted
    BY DEF Granted, RLock, mapVars, callVars
  <2> QED
    BY <2>1, StatusSame DEF RLock, mapVars
<1> QED BY <1>1, <1>2 DEF Store!vars

LEMMA AnnounceIsSilent ==
    ASSUME IndInv, IndInv', NEW t \in Threads, Announce(t)
    PROVE  UNCHANGED Store!vars
<1>1. storeCall' = storeCall
  <2>1. ~Answered(t) /\ ~Answered(t)' /\ pc[t] # "idle" /\ pc'[t] # "idle"
    BY OpsAssumption DEF IndInv, TypeOK, PathInv, Announce, Goto, callVars, Answered
  <2>2. callOf(t)' = callOf(t)
    BY <2>1 DEF Announce, callVars, callOf
  <2> QED
    BY <2>2, CallSame DEF IndInv, TypeOK, Announce, Goto, callVars
<1>2. storeStatus' = storeStatus
  <2>1. Granted' = Granted
    BY DEF Granted, Announce, mapVars, callVars
  <2> QED
    BY <2>1, StatusSame DEF Announce, mapVars
<1> QED BY <1>1, <1>2 DEF Store!vars

LEMMA AcquireIsSilent ==
    ASSUME IndInv, IndInv', NEW t \in Threads, Acquire(t)
    PROVE  UNCHANGED Store!vars
<1>1. storeCall' = storeCall
  <2>1. ~Answered(t) /\ ~Answered(t)' /\ pc[t] # "idle" /\ pc'[t] # "idle"
    BY OpsAssumption DEF IndInv, TypeOK, PathInv, Acquire, Goto, callVars, Answered
  <2>2. callOf(t)' = callOf(t)
    BY <2>1 DEF Acquire, callVars, callOf
  <2> QED
    BY <2>2, CallSame DEF IndInv, TypeOK, Acquire, Goto, callVars
<1>2. storeStatus' = storeStatus
  <2>1. Granted' = Granted
    BY DEF Granted, Acquire, mapVars, callVars
  <2> QED
    BY <2>1, StatusSame DEF Acquire, mapVars
<1> QED BY <1>1, <1>2 DEF Store!vars

LEMMA InsertUnlockIsSilent ==
    ASSUME IndInv, IndInv', NEW t \in Threads, InsertUnlock(t)
    PROVE  UNCHANGED Store!vars
<1>1. storeCall' = storeCall
    BY CallSame
    DEF IndInv, TypeOK, InsertUnlock, Goto, callVars, callOf, Answered, Succeeded
<1>2. storeStatus' = storeStatus
  <2>1. Granted' = Granted
    BY DEF Granted, InsertUnlock, mapVars, callVars
  <2> QED
    BY <2>1, StatusSame DEF InsertUnlock, mapVars
<1> QED BY <1>1, <1>2 DEF Store!vars

LEMMA RUnlockIsSilent ==
    ASSUME IndInv, IndInv', NEW t \in Threads, RUnlock(t)
    PROVE  UNCHANGED Store!vars
<1>1. storeCall' = storeCall
    BY CallSame DEF IndInv, TypeOK, RUnlock, Goto, callVars, callOf, Answered, Succeeded
<1>2. storeStatus' = storeStatus
  <2>1. Granted' = Granted
    BY DEF Granted, RUnlock, mapVars, callVars
  <2> QED
    BY <2>1, StatusSame DEF RUnlock, mapVars
<1> QED BY <1>1, <1>2 DEF Store!vars

LEMMA InsertIsSilent ==
    ASSUME IndInv, IndInv', NEW t \in Threads, Insert(t)
    PROVE  UNCHANGED Store!vars
<1>1. storeCall' = storeCall
    BY CallSame DEF IndInv, TypeOK, Insert, Goto, callVars, callOf, Answered, Succeeded
<1>2. storeStatus' = storeStatus
  <2>1. Granted' = Granted
    BY DEF Granted, Insert, callVars
  <2>2. sid[t] \notin Granted
    BY NotGranted DEF IndInv, PathInv, Insert, Goto
  <2> QED
    BY <2>1, <2>2, StatusSame DEF Insert
<1> QED BY <1>1, <1>2 DEF Store!vars

\* The read of the map decides a lookup, except CreateSession's, which nobody sees.
LEMMA LookupRefines ==
    ASSUME IndInv, IndInv', NEW t \in Threads, Lookup(t)
    PROVE  (\E o \in UseOps : Store!Find(t, o)) \/ UNCHANGED Store!vars
<1>1. storeStatus' = storeStatus
  <2>1. Granted' = Granted
    BY DEF Granted, Lookup, mapVars
  <2> QED
    BY <2>1, StatusSame DEF Lookup, mapVars
<1>2. CASE op[t] = "create"
  <2>1. storeCall' = storeCall
    BY <1>2, CallSame, OpsAssumption
    DEF IndInv, TypeOK, Lookup, Goto, callOf, Answered, Succeeded
  <2> QED
    BY <1>1, <2>1 DEF Store!vars
<1>3. CASE op[t] \in UseOps
  <2>1. storeCall' = [storeCall EXCEPT ![t] = callOf(t)']
    BY CallFrame DEF IndInv, TypeOK, Lookup, Goto
  <2>2. storeCall[t].phase = "called" /\ storeCall[t].op = op[t] /\ storeCall[t].id = sid[t]
    BY <1>3, OpsAssumption DEF IndInv, TypeOK, storeCall, callOf, Answered, Lookup, Goto
  <2>3. callOf(t)' = [phase |-> "answered", op |-> op[t], id |-> sid[t],
                      ok |-> sid[t] \in sessionMap]
    BY <1>3, OpsAssumption DEF IndInv, TypeOK, callOf, Answered, Succeeded, Lookup, Goto
  <2>4. (storeStatus[sid[t]] = "open") = (sid[t] \in sessionMap)
    BY <1>3, BusyHasId DEF IndInv, FlowInv, Lookup, Goto, storeStatus, statusOf, Granted
  <2>5. Store!Find(t, op[t])
    BY <1>1, <2>1, <2>2, <2>3, <2>4 DEF Store!Find, Store!Answer
  <2> QED
    BY <1>3, <2>5
<1> QED BY <1>2, <1>3 DEF IndInv, PathInv, Lookup, Goto

\* Closing changes nothing yet while the entry is in the map; an entry that is
\* missing makes the removal a no-op, which only CloseSession can meet.
LEMMA CloseIfPresentRefines ==
    ASSUME IndInv, IndInv', NEW t \in Threads, CloseIfPresent(t)
    PROVE  Store!Drop(t) \/ UNCHANGED Store!vars
<1>1. storeStatus' = storeStatus
  <2>1. Granted' = Granted
    BY DEF Granted, CloseIfPresent, callVars
  <2> QED
    BY <2>1, StatusSame DEF CloseIfPresent
<1>2. CASE sid[t] \in sessionMap
  <2>1. ~Answered(t) /\ ~Answered(t)' /\ pc[t] # "idle" /\ pc'[t] # "idle"
    BY <1>2, OpsAssumption
    DEF IndInv, TypeOK, PathInv, CloseIfPresent, Goto, callVars, Answered
  <2>2. callOf(t)' = callOf(t)
    BY <2>1 DEF CloseIfPresent, callVars, callOf
  <2>3. storeCall' = storeCall
    BY <2>2, CallSame DEF IndInv, TypeOK, CloseIfPresent, Goto, callVars
  <2> QED
    BY <1>1, <2>3 DEF Store!vars
<1>3. CASE sid[t] \notin sessionMap
  <2>1. op[t] = "close" /\ sid[t] \in handed
    BY <1>3 DEF IndInv, PathInv, FlowInv, OwnerInv, Owned, CloseIfPresent, Goto
  <2>2. storeCall' = [storeCall EXCEPT ![t] = callOf(t)']
    BY CallFrame DEF IndInv, TypeOK, CloseIfPresent, Goto, callVars
  <2>3. storeCall[t].phase = "called" /\ storeCall[t].op = "close" /\ storeCall[t].id = sid[t]
    BY <2>1 DEF IndInv, TypeOK, storeCall, callOf, Answered, CloseIfPresent, Goto
  <2>4. callOf(t)' = [phase |-> "answered", op |-> "close", id |-> sid[t], ok |-> TRUE]
    BY <1>3, <2>1
    DEF IndInv, TypeOK, callOf, Answered, Succeeded, CloseIfPresent, Goto, callVars
  <2>5. storeStatus' = [storeStatus EXCEPT ![sid[t]] = "closed"]
    BY <1>1, <1>3, <2>1 DEF IndInv, TypeOK, storeStatus, statusOf, Granted
  <2> QED
    BY <2>2, <2>3, <2>4, <2>5 DEF Store!Drop, Store!Answer
<1> QED BY <1>2, <1>3

\* The removal of the entry closes the session for its callers; a session
\* that was never handed out disappears unseen.
LEMMA DeleteRefines ==
    ASSUME IndInv, IndInv', NEW t \in Threads, Delete(t)
    PROVE  Store!Drop(t) \/ UNCHANGED Store!vars
<1>1. Granted' = Granted
    BY DEF Granted, Delete, callVars
<1>2. CASE op[t] = "create"
  <2>1. storeCall' = storeCall
    BY <1>2, CallSame
    DEF IndInv, TypeOK, Delete, Goto, callVars, callOf, Answered, Succeeded
  <2>2. sid[t] \notin Granted
    BY <1>2, NotGranted DEF IndInv, PathInv, Delete, Goto
  <2>3. storeStatus' = storeStatus
    BY <1>1, <2>2, StatusSame DEF Delete
  <2> QED
    BY <2>1, <2>3 DEF Store!vars
<1>3. CASE op[t] = "close"
  <2>1. sid[t] \in handed
    BY <1>3 DEF IndInv, FlowInv
  <2>2. storeCall' = [storeCall EXCEPT ![t] = callOf(t)']
    BY CallFrame DEF IndInv, TypeOK, Delete, Goto, callVars
  <2>3. storeCall[t].phase = "called" /\ storeCall[t].op = "close" /\ storeCall[t].id = sid[t]
    BY <1>3 DEF IndInv, TypeOK, storeCall, callOf, Answered, Delete, Goto
  <2>4. callOf(t)' = [phase |-> "answered", op |-> "close", id |-> sid[t], ok |-> TRUE]
    BY <1>3 DEF IndInv, TypeOK, callOf, Answered, Succeeded, Delete, Goto, callVars
  <2>5. storeStatus' = [storeStatus EXCEPT ![sid[t]] = "closed"]
    <3>1. sid[t] \in Granted'
      BY <1>1, <2>1 DEF IndInv, TypeOK, Granted
    <3>2. \A id \in Ids : statusOf(id)' = IF id = sid[t] THEN "closed" ELSE statusOf(id)
      BY <1>1, <3>1 DEF statusOf, Delete
    <3> QED
      BY <3>2 DEF storeStatus
  <2> QED
    BY <2>2, <2>3, <2>4, <2>5 DEF Store!Drop, Store!Answer
<1> QED BY <1>2, <1>3 DEF IndInv, PathInv, Delete, Goto

\* The clean-up of a failed creation ends in its error; CloseSession has
\* been answered already.
LEMMA DeleteUnlockRefines ==
    ASSUME IndInv, IndInv', NEW t \in Threads, DeleteUnlock(t)
    PROVE  Store!Refuse(t) \/ UNCHANGED Store!vars
<1>1. storeStatus' = storeStatus
  <2>1. Granted' = Granted
    BY GrantedSame DEF IndInv, TypeOK, PathInv, DeleteUnlock, Goto, mapVars
  <2> QED
    BY <2>1, StatusSame DEF DeleteUnlock, mapVars
<1>2. CASE op[t] = "create"
  <2>1. storeCall' = [storeCall EXCEPT ![t] = callOf(t)']
    BY CallFrame DEF IndInv, TypeOK, DeleteUnlock, Goto
  <2>2. storeCall[t].phase = "called" /\ storeCall[t].op = "create"
    BY <1>2 DEF IndInv, TypeOK, storeCall, callOf, Answered, DeleteUnlock, Goto
  <2>3. callOf(t)' = [phase |-> "answered", op |-> "create", id |-> NoId, ok |-> FALSE]
    BY <1>2, OpsAssumption
    DEF IndInv, TypeOK, callOf, Answered, Succeeded, DeleteUnlock, Goto
  <2> QED
    BY <1>1, <2>1, <2>2, <2>3 DEF Store!Refuse, Store!Answer
<1>3. CASE op[t] = "close"
  <2>1. storeCall' = storeCall
    BY <1>3, CallSame DEF IndInv, TypeOK, DeleteUnlock, Goto, callOf, Answered, Succeeded
  <2> QED
    BY <1>1, <2>1 DEF Store!vars
<1> QED BY <1>2, <1>3 DEF IndInv, PathInv, DeleteUnlock, Goto

\* A creation that settles on success opens its session.
LEMMA SuccessOpens ==
    ASSUME IndInv, IndInv', NEW t \in Threads, NEW from \in {"decode", "use"},
           op[t] = "create", Finish(t, from, "ok")
    PROVE  Store!Open(t)
<1>1. storeCall' = [storeCall EXCEPT ![t] = callOf(t)']
    BY CallFrame DEF IndInv, TypeOK, Finish, Goto
<1>2. storeCall[t].phase = "called" /\ storeCall[t].op = "create"
    BY OpsAssumption DEF IndInv, TypeOK, storeCall, callOf, Answered, Finish, Goto
<1>3. callOf(t)' = [phase |-> "answered", op |-> "create", id |-> sid[t], ok |-> TRUE]
    BY DEF IndInv, TypeOK, callOf, Answered, Succeeded, Finish, Goto
<1>4. sid[t] \in Ids /\ sid[t] \notin Granted /\ sid[t] \in sessionMap
    BY BusyHasId, NotGranted DEF IndInv, PathInv, OwnerInv, Owned, Finish, Goto
<1>5. Granted' = Granted \cup {sid[t]}
  <2>1. \A u \in Threads : res'[u] = IF u = t THEN "ok" ELSE res[u]
    BY DEF IndInv, TypeOK, Finish
  <2> QED
    BY <1>4, <2>1 DEF Granted, Finish, mapVars
<1>6. storeStatus' = [storeStatus EXCEPT ![sid[t]] = "open"] /\ storeStatus[sid[t]] = "unused"
    BY <1>4, <1>5 DEF storeStatus, statusOf, Finish, mapVars
<1> QED BY <1>1, <1>2, <1>3, <1>4, <1>6 DEF Store!Open, Store!Answer

\* A use that ends, and every step to another point, is invisible.
LEMMA FinishedUseIsSilent ==
    ASSUME IndInv, IndInv', NEW t \in Threads, NEW from \in {"branch", "use"},
           NEW r \in Results, op[t] \in UseOps, Finish(t, from, r)
    PROVE  UNCHANGED Store!vars
<1>1. storeCall' = storeCall
    BY CallSame, OpsAssumption DEF IndInv, TypeOK, Finish, Goto, callOf, Answered, Succeeded
<1>2. storeStatus' = storeStatus
  <2>1. Granted' = Granted
    BY GrantedSame, OpsAssumption DEF IndInv, TypeOK, Finish, mapVars
  <2> QED
    BY <2>1, StatusSame DEF Finish, mapVars
<1> QED BY <1>1, <1>2 DEF Store!vars

LEMMA AdvanceIsSilent ==
    ASSUME IndInv, IndInv', NEW t \in Threads,
           NEW from \in {"decode", "branch", "use"}, NEW to \in {"rlock", "use", "delete_lock"},
           op[t] = "create" \/ (from = "branch" /\ to = "use"),
           Advance(t, from, to)
    PROVE  UNCHANGED Store!vars
<1>1. storeCall' = storeCall
    BY CallSame, OpsAssumption
    DEF IndInv, TypeOK, Advance, Goto, callVars, callOf, Answered, Succeeded
<1>2. storeStatus' = storeStatus
  <2>1. Granted' = Granted
    BY DEF Granted, Advance, mapVars, callVars
  <2> QED
    BY <2>1, StatusSame DEF Advance, mapVars
<1> QED BY <1>1, <1>2 DEF Store!vars

LEMMA DecodeConfigRefines ==
    ASSUME IndInv, IndInv', NEW t \in Threads, DecodeConfig(t)
    PROVE  Store!Open(t) \/ UNCHANGED Store!vars
<1>1. op[t] = "create"
    BY DEF IndInv, PathInv, DecodeConfig, Finish, Advance, Goto
<1> QED BY <1>1, SuccessOpens, AdvanceIsSilent DEF DecodeConfig

LEMMA AfterLookupIsSilent ==
    ASSUME IndInv, IndInv', NEW t \in Threads, AfterLookup(t)
    PROVE  UNCHANGED Store!vars
<1>1. op[t] \in UseOps \cup {"create"}
    BY DEF IndInv, PathInv, AfterLookup, Finish, Advance, Goto
<1>2. CASE Advance(t, "branch", "use")
    BY <1>2, AdvanceIsSilent
<1>3. CASE op[t] # "create" /\ \E r \in Results : Finish(t, "branch", r)
    BY <1>1, <1>3, FinishedUseIsSilent
<1> QED BY <1>2, <1>3 DEF AfterLookup, Results

LEMMA WorkOnSessionRefines ==
    ASSUME IndInv, IndInv', NEW t \in Threads, WorkOnSession(t)
    PROVE  Store!Open(t) \/ UNCHANGED Store!vars
<1>1. op[t] \in UseOps \cup {"create"}
    BY DEF IndInv, PathInv, WorkOnSession, Finish, Goto
<1>2. CASE op[t] = "create"
    BY <1>2, SuccessOpens, AdvanceIsSilent DEF WorkOnSession
<1>3. CASE op[t] # "create"
    BY <1>1, <1>3, FinishedUseIsSilent DEF WorkOnSession, Results
<1> QED BY <1>2, <1>3

LEMMA ReturnRefines ==
    ASSUME IndInv, IndInv', NEW t \in Threads, Return(t)
    PROVE  Store!Return(t)
<1>1. storeCall' = [storeCall EXCEPT ![t] = callOf(t)']
    BY CallFrame DEF IndInv, TypeOK, Return, Goto
<1>2. storeCall[t].phase = "answered"
    BY DEF IndInv, TypeOK, storeCall, callOf, Answered, Return, Goto
<1>3. callOf(t)' = Store!Idle
    BY DEF IndInv, TypeOK, callOf, Answered, Succeeded, Store!Idle, Return, Goto
<1>4. storeStatus' = storeStatus
  <2>1. \A u \in Threads \ {t} : op'[u] = op[u] /\ sid'[u] = sid[u] /\ res'[u] = res[u]
    BY DEF IndInv, TypeOK, Return
  <2>2. op'[t] = "none"
    BY DEF IndInv, TypeOK, Return
  <2>3. handed' = handed \cup {id \in Ids : op[t] = "create" /\ res[t] = "ok" /\ sid[t] = id}
    BY BusyHasId DEF IndInv, Return, Goto
  <2>4. Granted' = Granted
    BY <2>1, <2>2, <2>3 DEF Granted
  <2> QED
    BY <2>4, StatusSame DEF Return
<1> QED BY <1>1, <1>2, <1>3, <1>4 DEF Store!Return

-----------------------------------------------------------------------------
LEMMA InitRefines == Init => Store!Init
<1> SUFFICES ASSUME Init
             PROVE  Store!Init
    OBVIOUS
<1>1. Granted = {}
    BY DEF Init, Granted
<1>2. storeStatus = [id \in Ids |-> "unused"]
    BY <1>1 DEF storeStatus, statusOf
<1>3. \A t \in Threads : callOf(t) = Store!Idle
    BY DEF Init, Store!Idle, callOf, Answered, Succeeded
<1> QED BY <1>2, <1>3 DEF Store!Init, storeCall

LEMMA StepRefines ==
    ASSUME IndInv, IndInv', [Next]_vars
    PROVE  [Store!Next]_(Store!vars)
<1>1. ASSUME NEW t \in Threads, NewSession(t) \/ CloseSession(t) \/ UseSession(t)
      PROVE  Store!Next
    BY <1>1, NewSessionRefines, CloseSessionRefines, UseSessionRefines DEF Store!Next
<1>2. ASSUME NEW t \in Threads, LockStep(t)
      PROVE  UNCHANGED Store!vars
    BY <1>2, RLockIsSilent, AnnounceIsSilent DEF LockStep
<1>3. ASSUME NEW t \in Threads, RunStep(t)
      PROVE  [Store!Next]_(Store!vars)
    BY <1>3, AcquireIsSilent, InsertIsSilent, InsertUnlockIsSilent, LookupRefines,
       RUnlockIsSilent, CloseIfPresentRefines, DeleteRefines, DeleteUnlockRefines,
       DecodeConfigRefines, AfterLookupIsSilent, WorkOnSessionRefines, ReturnRefines
    DEF RunStep, Store!Next
<1>4. CASE UNCHANGED vars
    BY <1>4
    DEF vars, mapVars, callVars, Store!vars, storeStatus, statusOf, Granted, storeCall,
        callOf, Answered, Succeeded
<1> QED BY <1>1, <1>2, <1>3, <1>4 DEF Next, BoundReached

(***************************************************************************)
(* To its callers the library is the atomic store of sessions: fresh       *)
(* identifiers, lookups that succeed exactly while the session is open, no *)
(* session left behind by a failed creation, no identifier that comes back *)
(* to life (go/session_manager.go, go/main.go).                            *)
(***************************************************************************)
THEOREM RegistryImplementsStore == SafetySpec => ImplementsStore
<1>1. IndInv /\ IndInv' /\ [Next]_vars => [Store!Next]_(Store!vars)
    BY StepRefines
<1> QED BY InitRefines, Invariance, <1>1, PTL DEF SafetySpec, ImplementsStore, Store!Spec

\* No step of the store revives an identifier.
LEMMA StoreStepKeepsLife ==
    ASSUME [Store!Next]_(Store!vars), NEW i \in Ids
    PROVE  /\ storeStatus[i] = "closed" => storeStatus'[i] = "closed"
           /\ storeStatus'[i] = "unused" => storeStatus[i] = "unused"
<1>1. DOMAIN storeStatus = Ids
    BY DEF storeStatus
<1>2. CASE storeStatus' = storeStatus
    BY <1>2
<1>3. CASE \E t \in Threads : Store!Open(t)
    BY <1>1, <1>3 DEF Store!Open
<1>4. CASE \E t \in Threads : Store!Drop(t)
    BY <1>1, <1>4 DEF Store!Drop
<1> QED
    BY <1>2, <1>3, <1>4
    DEF Store!Next, Store!vars, Store!InvokeCreate, Store!InvokeOn, Store!Invoke,
        Store!Refuse, Store!Find, Store!Return

(***************************************************************************)
(* A closed identifier stays closed for every caller that still holds it   *)
(* (the counter of newSession and the removal in deleteSession).           *)
(***************************************************************************)
THEOREM StaleIdsStayClosed == SafetySpec => StaleStaysClosed
<1>1. ASSUME IndInv, IndInv', [Next]_vars
      PROVE  [\A i \in Ids : /\ storeStatus[i] = "closed" => storeStatus'[i] = "closed"
                             /\ storeStatus'[i] = "unused" => storeStatus[i] = "unused"]_(Store!vars)
    BY <1>1, StepRefines, StoreStepKeepsLife
<1> QED
    BY <1>1, Invariance, PTL DEF SafetySpec, StaleStaysClosed, Store!OneLife
=============================================================================
