-------------------------- MODULE SessionRegistry --------------------------
(***************************************************************************)
(* The session registry of the Go shared library: go/session_manager.go    *)
(* and the exported entry points of go/main.go that go through it.         *)
(*                                                                         *)
(* Every foreign call of Python's Bridge runs on the calling thread with   *)
(* the interpreter lock released, so the calls of different threads        *)
(* interleave.  A thread is a program counter that walks through one       *)
(* exported function at a time; one step is one access to shared state     *)
(* (the counter, the map, the lock) or one call on a session.              *)
(*                                                                         *)
(* sync.RWMutex is modelled from how it is used: a writer first becomes    *)
(* the only pending writer, which keeps new readers out, then waits for    *)
(* the readers inside to leave.                                            *)
(***************************************************************************)
EXTENDS Integers, FiniteSets

CONSTANTS
    Threads,   \* the Python threads that call into the library
    NoThread,  \* nobody holds the write side of sessionMutex
    UseOps,    \* entry points that look a session up and work on it
    MaxID      \* bound on nextID: how many sessions are ever created

ASSUME ThreadsAssumption == NoThread \notin Threads
ASSUME OpsAssumption == UseOps \cap {"none", "create", "close"} = {}
ASSUME MaxIDAssumption == MaxID \in Nat

NoId == 0
Ids == 1 .. MaxID

VARIABLES
    nextID,      \* the atomic counter
    sessionMap,  \* the identifiers present in the map
    closes,      \* closes[id]: how often Close was called on id's session
    handed,      \* identifiers some CreateSession has returned
    writer,      \* the thread pending on, or inside, the write lock
    readers,     \* the threads inside the read lock
    pc,          \* pc[t]: where t is
    op,          \* op[t]: the exported function t is in
    sid,         \* sid[t]: the identifier t works on
    found,       \* found[t]: what t's last lookup returned
    res          \* res[t]: what t's call will return

lockVars == <<writer, readers>>
mapVars == <<nextID, sessionMap, closes, handed>>
callVars == <<op, sid, found, res>>
vars == <<mapVars, lockVars, pc, callVars>>

(***************************************************************************)
(* Program points.                                                         *)
(***************************************************************************)
WriteHeld == {"insert", "insert_unlock", "close", "delete", "delete_unlock"}
WritePending == {"insert_wait", "delete_wait"}
ReadHeld == {"read", "runlock"}
Points == {"idle", "insert_lock", "decode", "rlock", "branch", "use",
           "delete_lock", "reply"} \cup WriteHeld \cup WritePending \cup ReadHeld
Results == {"none", "ok", "error", "missing"}
Ops == UseOps \cup {"none", "create", "close"}

TypeOK ==
    /\ nextID \in 0 .. MaxID
    /\ sessionMap \subseteq Ids
    /\ closes \in [Ids -> Nat]
    /\ handed \subseteq Ids
    /\ writer \in Threads \cup {NoThread}
    /\ readers \subseteq Threads
    /\ pc \in [Threads -> Points]
    /\ op \in [Threads -> Ops]
    /\ sid \in [Threads -> Ids \cup {NoId}]
    /\ found \in [Threads -> BOOLEAN]
    /\ res \in [Threads -> Results]

Init ==
    /\ nextID = 0
    /\ sessionMap = {}
    /\ closes = [id \in Ids |-> 0]
    /\ handed = {}
    /\ writer = NoThread
    /\ readers = {}
    /\ pc = [t \in Threads |-> "idle"]
    /\ op = [t \in Threads |-> "none"]
    /\ sid = [t \in Threads |-> NoId]
    /\ found = [t \in Threads |-> FALSE]
    /\ res = [t \in Threads |-> "none"]

Goto(t, from, to) == pc[t] = from /\ pc' = [pc EXCEPT ![t] = to]

(***************************************************************************)
(* sync.RWMutex.                                                           *)
(***************************************************************************)
\* RLock that ignores a pending writer and only respects one that is inside.
Mut_RLock(t) ==
    /\ Goto(t, "rlock", "read")
    /\ \A u \in Threads : pc[u] \notin WriteHeld
    /\ readers' = readers \cup {t}
    /\ UNCHANGED <<mapVars, writer, callVars>>

RLock(t) ==
    /\ Goto(t, "rlock", "read")
    /\ writer = NoThread
    /\ readers' = readers \cup {t}
    /\ UNCHANGED <<mapVars, writer, callVars>>

\* Lock, first half: become the pending writer.
Announce(t) ==
    /\ \/ Goto(t, "insert_lock", "insert_wait")
       \/ Goto(t, "delete_lock", "delete_wait")
    /\ writer = NoThread
    /\ writer' = t
    /\ UNCHANGED <<mapVars, readers, callVars>>

\* Lock that is granted while readers are still inside.
Mut_Acquire(t) ==
    /\ \/ Goto(t, "insert_wait", "insert")
       \/ Goto(t, "delete_wait", "close")
    /\ UNCHANGED <<mapVars, lockVars, callVars>>

\* Lock, second half: the readers have left.
Acquire(t) ==
    /\ \/ Goto(t, "insert_wait", "insert")
       \/ Goto(t, "delete_wait", "close")
    /\ readers = {}
    /\ UNCHANGED <<mapVars, lockVars, callVars>>

(***************************************************************************)
(* newSession.                                                             *)
(***************************************************************************)
\* AddInt64 taken for a fetch-then-add: the first identifier is 0.
Mut_NewSession_Old(t) ==
    /\ nextID < MaxID
    /\ nextID' = nextID + 1
    /\ Goto(t, "idle", "insert_lock")
    /\ op' = [op EXCEPT ![t] = "create"]
    /\ sid' = [sid EXCEPT ![t] = nextID]
    /\ UNCHANGED <<sessionMap, closes, handed, lockVars, found, res>>

\* Identifiers taken from the size of the map instead of a counter.
Mut_NewSession_Size(t) ==
    /\ nextID < MaxID
    /\ nextID' = nextID + 1
    /\ Goto(t, "idle", "insert_lock")
    /\ op' = [op EXCEPT ![t] = "create"]
    /\ sid' = [sid EXCEPT ![t] = Cardinality(sessionMap) + 1]
    /\ UNCHANGED <<sessionMap, closes, handed, lockVars, found, res>>

\* A thread enters CreateSession, whose first shared access is
\* id := atomic.AddInt64(&nextID, 1); azuretls.NewSession() touches nothing shared.
NewSession(t) ==
    /\ nextID < MaxID
    /\ nextID' = nextID + 1
    /\ Goto(t, "idle", "insert_lock")
    /\ op' = [op EXCEPT ![t] = "create"]
    /\ sid' = [sid EXCEPT ![t] = nextID + 1]
    /\ UNCHANGED <<sessionMap, closes, handed, lockVars, found, res>>

Insert(t) ==
    /\ Goto(t, "insert", "insert_unlock")
    /\ sessionMap' = sessionMap \cup {sid[t]}
    /\ UNCHANGED <<nextID, closes, handed, lockVars, callVars>>

InsertUnlock(t) ==
    /\ Goto(t, "insert_unlock", "decode")
    /\ writer' = NoThread
    /\ UNCHANGED <<mapVars, readers, callVars>>

(***************************************************************************)
(* getSession.                                                             *)
(***************************************************************************)
\* A lookup that does not report a missing session.
Mut_Lookup(t) ==
    /\ Goto(t, "read", "runlock")
    /\ found' = [found EXCEPT ![t] = TRUE]
    /\ UNCHANGED <<mapVars, lockVars, op, sid, res>>

Lookup(t) ==
    /\ Goto(t, "read", "runlock")
    /\ found' = [found EXCEPT ![t] = sid[t] \in sessionMap]
    /\ UNCHANGED <<mapVars, lockVars, op, sid, res>>

RUnlock(t) ==
    /\ Goto(t, "runlock", "branch")
    /\ readers' = readers \ {t}
    /\ UNCHANGED <<mapVars, writer, callVars>>

(***************************************************************************)
(* deleteSession.                                                          *)
(***************************************************************************)
\* s.Close() inside the critical section, if the session is still there.
CloseIfPresent(t) ==
    /\ \/ /\ sid[t] \in sessionMap
          /\ Goto(t, "close", "delete")
          /\ closes' = [closes EXCEPT ![sid[t]] = @ + 1]
       \/ /\ sid[t] \notin sessionMap
          /\ Goto(t, "close", "delete_unlock")
          /\ UNCHANGED closes
    /\ UNCHANGED <<nextID, sessionMap, handed, lockVars, callVars>>

\* delete forgotten: the closed session stays in the map.
Mut_Delete(t) ==
    /\ Goto(t, "delete", "delete_unlock")
    /\ UNCHANGED <<mapVars, lockVars, callVars>>

Delete(t) ==
    /\ Goto(t, "delete", "delete_unlock")
    /\ sessionMap' = sessionMap \ {sid[t]}
    /\ UNCHANGED <<nextID, closes, handed, lockVars, callVars>>

\* A failed CreateSession goes on to return its error.
DeleteUnlock(t) ==
    /\ Goto(t, "delete_unlock", "reply")
    /\ writer' = NoThread
    /\ res' = [res EXCEPT ![t] = IF op[t] = "create" THEN "error" ELSE "ok"]
    /\ UNCHANGED <<mapVars, readers, op, sid, found>>

(***************************************************************************)
(* The exported functions.                                                 *)
(***************************************************************************)
Begin(t, o, id, to) ==
    /\ Goto(t, "idle", to)
    /\ op' = [op EXCEPT ![t] = o]
    /\ sid' = [sid EXCEPT ![t] = id]
    /\ UNCHANGED <<mapVars, lockVars, found, res>>

\* Callers pass identifiers CreateSession gave them, which may be closed by now.
CloseSession(t) == \E id \in handed : Begin(t, "close", id, "delete_lock")

UseSession(t) == \E id \in handed, o \in UseOps : Begin(t, o, id, "rlock")

Finish(t, from, r) ==
    /\ Goto(t, from, "reply")
    /\ res' = [res EXCEPT ![t] = r]
    /\ UNCHANGED <<mapVars, lockVars, op, sid, found>>

Advance(t, from, to) ==
    /\ Goto(t, from, to)
    /\ UNCHANGED <<mapVars, lockVars, callVars>>

\* The bad-JSON path without its deleteSession.
Mut_DecodeConfig(t) ==
    \/ Finish(t, "decode", "ok")
    \/ Finish(t, "decode", "error")
    \/ Advance(t, "decode", "rlock")

\* No configuration, configuration that is no JSON, configuration to apply.
DecodeConfig(t) ==
    \/ Finish(t, "decode", "ok")
    \/ Advance(t, "decode", "delete_lock")
    \/ Advance(t, "decode", "rlock")

\* CreateSession ignores the flag of its lookup; the others stop on a missing
\* session, and Request and ConfigureSession on input that is no JSON.
AfterLookup(t) ==
    \/ /\ op[t] = "create" \/ found[t]
       /\ Advance(t, "branch", "use")
    \/ /\ op[t] # "create" /\ ~found[t]
       /\ Finish(t, "branch", "missing")
    \/ /\ op[t] \in {"request", "configure"} /\ found[t]
       /\ Finish(t, "branch", "error")

\* The work on the session itself (applyConfig, doRequest, ApplyJa3, ...): it
\* succeeds or fails.  CreateSession drops the session it could not configure.
WorkOnSession(t) ==
    \/ Finish(t, "use", "ok")
    \/ op[t] \notin {"create", "clear_proxy"} /\ Finish(t, "use", "error")
    \/ op[t] = "create" /\ Advance(t, "use", "delete_lock")

\* Back in Python: a successful CreateSession has now given its identifier away.
Return(t) ==
    /\ Goto(t, "reply", "idle")
    /\ handed' = IF op[t] = "create" /\ res[t] = "ok" THEN handed \cup {sid[t]} ELSE handed
    /\ op' = [op EXCEPT ![t] = "none"]
    /\ sid' = [sid EXCEPT ![t] = NoId]
    /\ found' = [found EXCEPT ![t] = FALSE]
    /\ res' = [res EXCEPT ![t] = "none"]
    /\ UNCHANGED <<nextID, sessionMap, closes, lockVars>>

LockStep(t) == RLock(t) \/ Announce(t)

RunStep(t) ==
    \/ Acquire(t)
    \/ Insert(t) \/ InsertUnlock(t)
    \/ Lookup(t) \/ RUnlock(t)
    \/ CloseIfPresent(t) \/ Delete(t) \/ DeleteUnlock(t)
    \/ DecodeConfig(t) \/ AfterLookup(t) \/ WorkOnSession(t)
    \/ Return(t)

\* The bound on nextID is used up and every creation failed: no call is left to make.
BoundReached ==
    /\ nextID = MaxID /\ handed = {}
    /\ \A t \in Threads : pc[t] = "idle"
    /\ UNCHANGED vars

Next ==
    \/ \E t \in Threads :
          \/ NewSession(t) \/ CloseSession(t) \/ UseSession(t)
          \/ LockStep(t) \/ RunStep(t)
    \/ BoundReached

(***************************************************************************)
(* A call that can run is run by the operating system, and the azuretls    *)
(* calls end (they time out).  A pending writer shuts new readers out, so  *)
(* weak fairness gets it inside; sync.Mutex serves writers that wait too   *)
(* long first, and Unlock lets the waiting readers in before the next      *)
(* writer, hence strong fairness for entering.                             *)
(***************************************************************************)
Fairness == \A t \in Threads : WF_vars(RunStep(t)) /\ SF_vars(LockStep(t))

SafetySpec == Init /\ [][Next]_vars
Spec == SafetySpec /\ Fairness

-----------------------------------------------------------------------------
(***************************************************************************)
(* Properties.                                                             *)
(***************************************************************************)
Writing == {t \in Threads : pc[t] \in {"insert", "delete"}}
Reading == {t \in Threads : pc[t] \in {"read", "close"}}

(***************************************************************************)
(* Go maps must not be written while anyone else reads or writes them: two *)
(* threads never stand before conflicting accesses to sessionMap.          *)
(***************************************************************************)
MapRaceFree ==
    \A t \in Writing : \A u \in Writing \cup Reading : u = t

(***************************************************************************)
(* However many CloseSession calls race on one identifier, the session's   *)
(* Close runs once: a handed session is either in the map, unclosed unless *)
(* a thread is just about to remove it, or closed exactly once.            *)
(***************************************************************************)
ClosedOnce ==
    \A id \in handed :
        closes[id] = IF \/ id \notin sessionMap
                        \/ \E t \in Threads : pc[t] = "delete" /\ sid[t] = id
                     THEN 1 ELSE 0

\* The points of CreateSession between the map insertion and a settled answer.
Building(t, id) ==
    /\ op[t] = "create"
    /\ sid[t] = id
    /\ \/ pc[t] \notin {"insert_lock", "insert_wait", "insert", "delete_unlock", "reply"}
       \/ pc[t] = "reply" /\ res[t] = "ok"

(***************************************************************************)
(* No session leaks: whatever is in the map either was handed to a caller, *)
(* who can close it, or belongs to a CreateSession that will hand it out   *)
(* or remove it.  A CreateSession that fails leaves nothing behind.        *)
(***************************************************************************)
NoOrphan ==
    \A id \in sessionMap : id \in handed \/ \E t \in Threads : Building(t, id)

(***************************************************************************)
(* CreateSession drops the flag of its lookup (s, _ := getSession(id)); it *)
(* nevertheless never configures a missing or closed session.              *)
(***************************************************************************)
CreateOwnsSession ==
    \A t \in Threads :
        op[t] = "create" /\ pc[t] = "use" =>
            /\ found[t] /\ sid[t] \in sessionMap
            /\ closes[sid[t]] = 0
            /\ \A u \in Threads \ {t} : sid[u] # sid[t]

(***************************************************************************)
(* Every call into the library returns, whatever the others do.            *)
(***************************************************************************)
CallsReturn == \A t \in Threads : pc[t] # "idle" ~> pc[t] = "idle"

(***************************************************************************)
(* The registry implements the atomic store.  A session counts as open     *)
(* from the moment CreateSession has settled on success until the map      *)
(* entry is gone; a call is answered once its lookup, its removal or its   *)
(* success is decided.                                                     *)
(***************************************************************************)
Granted ==
    handed \cup {id \in Ids : \E t \in Threads :
                      op[t] = "create" /\ res[t] = "ok" /\ sid[t] = id}

statusOf(id) ==
    IF id \notin Granted THEN "unused" ELSE IF id \in sessionMap THEN "open" ELSE "closed"

Answered(t) ==
    \/ pc[t] = "reply"
    \/ op[t] = "close" /\ pc[t] = "delete_unlock"
    \/ op[t] \in UseOps /\ pc[t] \in {"runlock", "branch", "use"}

Succeeded(t) ==
    \/ op[t] = "create" /\ res[t] = "ok"
    \/ op[t] = "close"
    \/ op[t] \in UseOps /\ found[t]

callOf(t) ==
    [phase |-> IF pc[t] = "idle" THEN "idle" ELSE IF Answered(t) THEN "answered" ELSE "called",
     op    |-> op[t],
     id    |-> IF op[t] = "create" /\ res[t] # "ok" THEN NoId ELSE sid[t],
     ok    |-> Answered(t) /\ Succeeded(t)]

storeStatus == [id \in Ids |-> statusOf(id)]
storeCall == [t \in Threads |-> callOf(t)]

Store == INSTANCE SessionStore WITH status <- storeStatus, call <- storeCall

ImplementsStore == Store!Spec

(***************************************************************************)
(* An identifier a caller keeps after closing it never names an open       *)
(* session again, whatever is created meanwhile: a stale call can fail but *)
(* cannot work on somebody else's session.                                 *)
(***************************************************************************)
StaleStaysClosed == Store!OneLife

(***************************************************************************)
(* "Thread-safe: the underlying Go code uses mutexes" (httpz/_bridge.py).  *)
(* The mutex guards the map, not the sessions: the fields of a session the *)
(* entry points read and write once they hold its pointer.                 *)
(***************************************************************************)
Fields == {"Browser", "UserAgent", "TimeOut", "Proxy", "OrderedHeaders"}

Reads(o) == IF o = "request" THEN Fields ELSE {}

Writes(o) ==
    CASE o \in {"create", "configure"}   -> Fields
      [] o \in {"set_proxy", "clear_proxy"} -> {"Proxy"}
      [] OTHER                           -> {}

SessionRaceFree ==
    \A t, u \in Threads :
        t # u /\ pc[t] = "use" /\ pc[u] = "use" /\ sid[t] = sid[u] =>
            Writes(op[t]) \cap (Reads(op[u]) \cup Writes(op[u])) = {}
=============================================================================
