--------------------------- MODULE ClientLifecycle ---------------------------
(***************************************************************************)
(* The life of Python's Client objects over the Go session store:          *)
(* construction, requests, configuration calls, close() and the finalizer  *)
(* (httpz/client.py, httpz/_bridge.py).                                    *)
(*                                                                         *)
(* Several threads may hold a reference to one client.  A method is a few  *)
(* steps: what it reads or writes of the object under the interpreter      *)
(* lock, and the foreign call, during which the lock is free.  The Go side *)
(* is SessionStore, which SessionRegistry implements.                      *)
(***************************************************************************)
EXTENDS Naturals, FiniteSets

CONSTANTS
    Threads,   \* Python threads
    Clients,   \* Client objects; each is constructed at most once
    NoClient,  \* the client of a thread that is in no method
    Ids,       \* session identifiers the Go side can issue
    NoId       \* _session_id before it is assigned

ASSUME NothingAssumption == NoClient \notin Clients /\ NoId \notin Ids

VARIABLES
    status,     \* the Go store: the state of each session
    call,       \* the Go store: the call each thread is in
    obj,        \* obj[c]: how far the object c has come
    closed,     \* closed[c]: c._closed
    sessionId,  \* sessionId[c]: c._session_id
    refs,       \* refs[c]: the threads that hold a reference to c
    pc,         \* pc[t]: where thread t is in a method
    cur,        \* cur[t]: the client whose method t runs
    overlap     \* overlap[t]: a close() was under way during t's request (history)

goVars == <<status, call>>
objVars == <<obj, closed, sessionId, refs>>
vars == <<goVars, objVars, pc, cur, overlap>>

\* applying a fingerprint and setting or clearing the proxy are all "config"
UseOps == {"request", "config"}
Go == INSTANCE SessionStore

Life == {"none", "building", "live", "finalizing", "dead"}
Points == {"idle", "init", "init_wait", "init_flag", "request", "wait",
           "close", "close_wait", "close_flag", "del"}

TypeOK ==
    /\ Go!TypeOK
    /\ obj \in [Clients -> Life]
    /\ closed \in [Clients -> BOOLEAN]
    /\ sessionId \in [Clients -> Ids \cup {NoId}]
    /\ refs \in [Clients -> SUBSET Threads]
    /\ pc \in [Threads -> Points]
    /\ cur \in [Threads -> Clients \cup {NoClient}]
    /\ overlap \in [Threads -> BOOLEAN]
    /\ \A t \in Threads : pc[t] = "idle" <=> cur[t] = NoClient

Init ==
    /\ Go!Init
    /\ obj = [c \in Clients |-> "none"]
    /\ closed = [c \in Clients |-> TRUE]
    /\ sessionId = [c \in Clients |-> NoId]
    /\ refs = [c \in Clients |-> {}]
    /\ pc = [t \in Threads |-> "idle"]
    /\ cur = [t \in Threads |-> NoClient]
    /\ overlap = [t \in Threads |-> FALSE]

Enter(t, c, to) ==
    /\ pc[t] = "idle"
    /\ pc' = [pc EXCEPT ![t] = to]
    /\ cur' = [cur EXCEPT ![t] = c]

Goto(t, from, to) ==
    /\ pc[t] = from
    /\ pc' = [pc EXCEPT ![t] = to]
    /\ UNCHANGED cur

Leave(t, from) ==
    /\ pc[t] = from
    /\ pc' = [pc EXCEPT ![t] = "idle"]
    /\ cur' = [cur EXCEPT ![t] = NoClient]

\* A foreign call of t returns; its answer is still in call[t] before the step.
Answered(t) == call[t].phase = "answered"

Closing(c) == {t \in Threads : cur[t] = c /\ pc[t] \in {"close", "close_wait", "close_flag"}}
Requesting(c) == {t \in Threads : cur[t] = c /\ pc[t] \in {"request", "wait"}}

(***************************************************************************)
(* __init__: _closed is True until the very end.                           *)
(***************************************************************************)
Construct(t, c) ==
    /\ obj[c] = "none"
    /\ Enter(t, c, "init")
    /\ obj' = [obj EXCEPT ![c] = "building"]
    /\ refs' = [refs EXCEPT ![c] = {t}]
    /\ closed' = [closed EXCEPT ![c] = TRUE]
    /\ UNCHANGED <<goVars, sessionId, overlap>>

\* The exception leaves __init__ with the last reference: __del__ follows.
Abandon(t, from) ==
    /\ Goto(t, from, "del")
    /\ obj' = [obj EXCEPT ![cur[t]] = "finalizing"]
    /\ refs' = [refs EXCEPT ![cur[t]] = {}]
    /\ UNCHANGED <<closed, sessionId, overlap>>

\* Unknown preset, ja3 without browser, library not found.
InitRaises(t) == Abandon(t, "init") /\ UNCHANGED goVars

InitCallsGo(t) ==
    /\ Goto(t, "init", "init_wait")
    /\ Go!InvokeCreate(t)
    /\ UNCHANGED <<objVars, overlap>>

InitReturns(t) ==
    /\ Answered(t)
    /\ Go!Return(t)
    /\ \/ /\ call[t].ok
          /\ Goto(t, "init_wait", "init_flag")
          /\ sessionId' = [sessionId EXCEPT ![cur[t]] = call[t].id]
          /\ UNCHANGED <<obj, closed, refs, overlap>>
       \/ /\ ~call[t].ok
          /\ Abandon(t, "init_wait")

\* An __init__ that leaves the safe default in place.
Mut_InitDone(t) ==
    /\ Leave(t, "init_flag")
    /\ obj' = [obj EXCEPT ![cur[t]] = "live"]
    /\ UNCHANGED <<goVars, closed, sessionId, refs, overlap>>

InitDone(t) ==
    /\ Leave(t, "init_flag")
    /\ closed' = [closed EXCEPT ![cur[t]] = FALSE]
    /\ obj' = [obj EXCEPT ![cur[t]] = "live"]
    /\ UNCHANGED <<goVars, sessionId, refs, overlap>>

(***************************************************************************)
(* References.                                                             *)
(***************************************************************************)
Share(t, u, c) ==
    /\ obj[c] = "live"
    /\ t \in refs[c] /\ u \notin refs[c]
    /\ refs' = [refs EXCEPT ![c] = @ \cup {u}]
    /\ UNCHANGED <<goVars, obj, closed, sessionId, pc, cur, overlap>>

\* A frame that keeps the session identifier but not the client alive.
Mut_DropRef(t, c) ==
    /\ t \in refs[c]
    /\ refs' = [refs EXCEPT ![c] = {}]
    /\ Enter(t, c, "del")
    /\ obj' = [obj EXCEPT ![c] = "finalizing"]
    /\ UNCHANGED <<goVars, closed, sessionId, overlap>>

\* A thread in a method keeps its reference; dropping the last one finalizes.
DropRef(t, c) ==
    /\ t \in refs[c]
    /\ refs' = [refs EXCEPT ![c] = @ \ {t}]
    /\ \/ /\ refs[c] = {t}
          /\ Enter(t, c, "del")
          /\ obj' = [obj EXCEPT ![c] = "finalizing"]
       \/ /\ refs[c] # {t}
          /\ pc[t] = "idle"
          /\ UNCHANGED <<obj, pc, cur>>
    /\ UNCHANGED <<goVars, closed, sessionId, overlap>>

(***************************************************************************)
(* request() and the configuration methods.                                *)
(***************************************************************************)
\* A request that does not look at _closed.
Mut_Request(t, c) ==
    /\ obj[c] = "live" /\ t \in refs[c]
    /\ Enter(t, c, "request")
    /\ overlap' = [overlap EXCEPT ![t] = Closing(c) # {}]
    /\ UNCHANGED <<goVars, objVars>>

\* On a closed client request() raises at once and changes nothing.
Request(t, c) ==
    /\ obj[c] = "live" /\ t \in refs[c]
    /\ ~closed[c]
    /\ Enter(t, c, "request")
    /\ overlap' = [overlap EXCEPT ![t] = Closing(c) # {}]
    /\ UNCHANGED <<goVars, objVars>>

SendRequest(t) ==
    /\ Goto(t, "request", "wait")
    /\ Go!Invoke(t, "request", sessionId[cur[t]])
    /\ UNCHANGED <<objVars, overlap>>

\* These methods do not look at _closed.
Configure(t, c) ==
    /\ obj[c] = "live" /\ t \in refs[c]
    /\ Enter(t, c, "wait")
    /\ Go!Invoke(t, "config", sessionId[c])
    /\ UNCHANGED <<objVars, overlap>>

\* Return without clearing the frame's client.
Mut_CallReturns(t) ==
    /\ Answered(t)
    /\ pc[t] = "wait"
    /\ pc' = [pc EXCEPT ![t] = "idle"]
    /\ Go!Return(t)
    /\ overlap' = [overlap EXCEPT ![t] = FALSE]
    /\ UNCHANGED <<objVars, cur>>

\* A response, or the exception made from the error.
CallReturns(t) ==
    /\ Answered(t)
    /\ Leave(t, "wait")
    /\ Go!Return(t)
    /\ overlap' = [overlap EXCEPT ![t] = FALSE]
    /\ UNCHANGED objVars

(***************************************************************************)
(* close() and __del__.                                                    *)
(***************************************************************************)
Overlapped(c) == [t \in Threads |-> overlap[t] \/ t \in Requesting(c)]

\* A close() that sets _closed first, so that nobody else calls the Go side.
Mut_Close(t, c) ==
    /\ obj[c] = "live" /\ t \in refs[c]
    /\ ~closed[c]
    /\ Enter(t, c, "close")
    /\ closed' = [closed EXCEPT ![c] = TRUE]
    /\ overlap' = Overlapped(c)
    /\ UNCHANGED <<goVars, obj, sessionId, refs>>

Close(t, c) ==
    /\ obj[c] = "live" /\ t \in refs[c]
    /\ ~closed[c]
    /\ Enter(t, c, "close")
    /\ overlap' = Overlapped(c)
    /\ UNCHANGED <<goVars, objVars>>

\* A thread inside __del__ of a client that is not closed enters close().
Mut_Finalize(t) ==
    /\ Leave(t, "del")
    /\ obj' = [obj EXCEPT ![cur[t]] = "dead"]
    /\ UNCHANGED <<goVars, closed, sessionId, refs, overlap>>

Finalize(t) ==
    \/ /\ Goto(t, "del", "close")
       /\ ~closed[cur[t]]
       /\ overlap' = Overlapped(cur[t])
       /\ UNCHANGED <<goVars, objVars>>
    \/ /\ Leave(t, "del")
       /\ closed[cur[t]]
       /\ obj' = [obj EXCEPT ![cur[t]] = "dead"]
       /\ UNCHANGED <<goVars, closed, sessionId, refs, overlap>>

SendClose(t) ==
    /\ Goto(t, "close", "close_wait")
    /\ Go!Invoke(t, "close", sessionId[cur[t]])
    /\ UNCHANGED <<objVars, overlap>>

CloseReturns(t) ==
    /\ Answered(t)
    /\ Goto(t, "close_wait", "close_flag")
    /\ Go!Return(t)
    /\ UNCHANGED <<objVars, overlap>>

\* close() that forgets to set _closed.
Mut_CloseDone(t) ==
    /\ Leave(t, "close_flag")
    /\ obj' = IF obj[cur[t]] = "finalizing" THEN [obj EXCEPT ![cur[t]] = "dead"] ELSE obj
    /\ UNCHANGED <<goVars, closed, sessionId, refs, overlap>>

CloseDone(t) ==
    /\ Leave(t, "close_flag")
    /\ closed' = [closed EXCEPT ![cur[t]] = TRUE]
    /\ obj' = IF obj[cur[t]] = "finalizing" THEN [obj EXCEPT ![cur[t]] = "dead"] ELSE obj
    /\ UNCHANGED <<goVars, sessionId, refs, overlap>>

\* The Go side settles the call of t.
GoSettles(t) ==
    /\ \/ Go!Open(t) \/ Go!Refuse(t)
       \/ \E o \in UseOps : Go!Find(t, o)
       \/ Go!Drop(t)
    /\ UNCHANGED <<objVars, pc, cur, overlap>>

\* What a thread does on its own once it is inside a method.
RunStep(t) ==
    \/ InitRaises(t) \/ InitCallsGo(t) \/ InitReturns(t) \/ InitDone(t)
    \/ SendRequest(t) \/ CallReturns(t)
    \/ Finalize(t) \/ SendClose(t) \/ CloseReturns(t) \/ CloseDone(t)
    \/ GoSettles(t)

\* What the program using the library decides to do.
UserStep(t, c) ==
    \/ Construct(t, c)
    \/ Request(t, c) \/ Configure(t, c) \/ Close(t, c)
    \/ DropRef(t, c)
    \/ \E u \in Threads : Share(t, u, c)

\* Every client has come and gone.
AllDead ==
    /\ \A c \in Clients : obj[c] = "dead"
    /\ UNCHANGED vars

Next ==
    \/ \E t \in Threads : RunStep(t) \/ \E c \in Clients : UserStep(t, c)
    \/ AllDead

\* A thread inside a method is scheduled; foreign calls end.
Fairness == \A t \in Threads : WF_vars(RunStep(t))

SafetySpec == Init /\ [][Next]_vars
Spec == SafetySpec /\ Fairness

-----------------------------------------------------------------------------
(***************************************************************************)
(* _closed tells the truth about the Go session, up to the window of the   *)
(* method that is changing both: an open client has an open session unless *)
(* a close() is under way, and a closed one has none.                      *)
(***************************************************************************)
FlagMatchesSession ==
    \A c \in Clients : obj[c] = "live" =>
        LET open == sessionId[c] \in Ids /\ status[sessionId[c]] = "open"
        IN  (~closed[c] /\ Closing(c) = {} => open) /\ (closed[c] => ~open)

(***************************************************************************)
(* Sessions do not leak: an open session belongs to a client that is not   *)
(* dead, or to a constructor that is about to take it.                     *)
(***************************************************************************)
NoLeak ==
    \A i \in Ids : status[i] = "open" =>
        \/ \E c \in Clients : sessionId[c] = i /\ obj[c] # "dead"
        \/ \E t \in Threads : pc[t] = "init_wait" /\ Answered(t) /\ call[t].id = i

(***************************************************************************)
(* "session not found" reaches a caller of request() only when a close()   *)
(* of the same client overlapped it: a request made after close() returned *)
(* is refused in Python.                                                   *)
(***************************************************************************)
MissOnlyIfOverlapped ==
    \A t \in Threads :
        call[t].op = "request" /\ Answered(t) /\ ~call[t].ok => overlap[t]

(***************************************************************************)
(* The finalizer never closes a session under a running call.              *)
(***************************************************************************)
FinalizerIsAlone ==
    \A t \in Threads :
        cur[t] # NoClient /\ obj[cur[t]] = "finalizing" =>
            \A u \in Threads \ {t} : cur[u] # cur[t]

(***************************************************************************)
(* A client nobody refers to any more gives its session back.              *)
(***************************************************************************)
DroppedIsClosed ==
    \A c \in Clients :
        obj[c] = "finalizing" ~>
            /\ obj[c] = "dead"
            /\ sessionId[c] # NoId => status[sessionId[c]] = "closed"
=============================================================================
