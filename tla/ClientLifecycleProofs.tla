----------------------- MODULE ClientLifecycleProofs -----------------------
(***************************************************************************)
(* Proofs of the safety properties of ClientLifecycle, for any sets of     *)
(* threads, clients and session identifiers.                               *)
(*                                                                         *)
(* None of the properties is inductive.  The invariant below says, besides *)
(* the types: who holds a client while a method runs (RefInv), what the    *)
(* call of a thread is about at each point of a method (CallInv), which    *)
(* session a client has and that it is nobody else's (SessionInv), how far *)
(* _closed may be behind the session (FlagInv), that no open session is    *)
(* forgotten (NoLeak), and that a request notices every close() of its     *)
(* client (OverlapInv).                                                    *)
(*                                                                         *)
(* At the end, AsyncClient: whatever the loop and the pool do is something *)
(* threads may do to clients, so all that is proved of ClientLifecycle     *)
(* holds there as well, and an awaited close() has closed.                 *)
(***************************************************************************)
EXTENDS AsyncPool, SequenceTheorems, TLAPS

Inside(c) == {t \in Threads : cur[t] = c}
Running == {"building", "live", "finalizing"}

\* Whoever runs a method of a client holds it; the first and the last method have it alone.
RefInv ==
    /\ \A c \in Clients :
          /\ obj[c] \in {"none", "finalizing", "dead"} => refs[c] = {}
          /\ obj[c] = "building" => refs[c] \subseteq Inside(c)
          /\ \A t \in Inside(c) :
                /\ obj[c] \in Running
                /\ obj[c] # "finalizing" => t \in refs[c]
                /\ obj[c] # "live" => Inside(c) \subseteq {t}
    /\ \A t \in Threads :
          /\ pc[t] \in {"init", "init_wait", "init_flag"} => obj[cur[t]] = "building"
          /\ pc[t] \in {"request", "wait"} => obj[cur[t]] = "live"
          /\ pc[t] \in {"close", "close_wait", "close_flag"} => obj[cur[t]] # "building"
          /\ pc[t] = "del" => obj[cur[t]] = "finalizing"

\* The session a creation has opened for a constructor that does not know it yet.
Created(t) == pc[t] = "init_wait" /\ Answered(t) /\ call[t].ok

CallInv ==
    \A t \in Threads :
        /\ pc[t] \notin {"init_wait", "wait", "close_wait"} => call[t] = Go!Idle
        /\ pc[t] = "init_wait" => call[t].op = "create" /\ (call[t].ok \/ call[t].id = NoId)
        /\ pc[t] = "wait" => call[t].op \in UseOps /\ call[t].id = sessionId[cur[t]]
        /\ pc[t] = "close_wait" => call[t].op = "close" /\ call[t].id = sessionId[cur[t]]

SessionInv ==
    /\ \A c \in Clients :
          /\ obj[c] = "none" => sessionId[c] = NoId
          /\ obj[c] = "live" => sessionId[c] \in Ids
          /\ sessionId[c] \in Ids => status[sessionId[c]] # "unused"
          /\ \A d \in Clients : sessionId[c] = sessionId[d] => c = d \/ sessionId[c] = NoId
    /\ \A t \in Threads :
          /\ pc[t] \in {"init", "init_wait"} => sessionId[cur[t]] = NoId
          /\ pc[t] = "init_flag" =>
                sessionId[cur[t]] \in Ids /\ status[sessionId[cur[t]]] = "open"
          /\ pc[t] \in {"close", "close_wait", "close_flag"} => sessionId[cur[t]] \in Ids
          /\ Created(t) =>
                /\ call[t].id \in Ids /\ status[call[t].id] = "open"
                /\ \A c \in Clients : sessionId[c] # call[t].id
                /\ \A u \in Threads : Created(u) /\ call[u].id = call[t].id => u = t

\* Go has closed the session for t, which has not said so in _closed yet.
Settled(t) == pc[t] = "close_flag" \/ (pc[t] = "close_wait" /\ Answered(t))

FlagInv ==
    /\ \A c \in Clients :
          /\ ~closed[c] =>
                /\ obj[c] \in {"live", "finalizing"}
                /\ sessionId[c] \in Ids
                /\ status[sessionId[c]] = "open" \/ \E t \in Inside(c) : Settled(t)
          /\ closed[c] /\ sessionId[c] \in Ids =>
                status[sessionId[c]] = "closed" \/ obj[c] = "building"
    /\ \A t \in Threads : Settled(t) => status[sessionId[cur[t]]] = "closed"

\* t is in request() and the answer of Go is still to come.
Asking(t) ==
    pc[t] = "request" \/ (pc[t] = "wait" /\ call[t].op = "request" /\ call[t].phase = "called")

OverlapInv ==
    \A t \in Threads :
        Asking(t) /\ ~overlap[t] =>
            /\ \A u \in Inside(cur[t]) : pc[u] \notin {"close", "close_wait", "close_flag"}
            /\ status[sessionId[cur[t]]] = "open"

IndInv ==
    /\ TypeOK /\ RefInv /\ CallInv /\ SessionInv /\ FlagInv /\ NoLeak
    /\ OverlapInv /\ MissOnlyIfOverlapped
-----------------------------------------------------------------------------
(***************************************************************************)
(* One lemma per action.  Each begins with what the step does and what the *)
(* invariant says of the client and the thread it is about.                *)
(***************************************************************************)
LEMMA ConstructKeeps ==
    ASSUME IndInv, NEW t \in Threads, NEW c \in Clients, Construct(t, c)
    PROVE  IndInv'
  <1> USE NothingAssumption DEF IndInv, goVars
  <1>1. TypeOK'
    BY DEF Construct, Enter, TypeOK, Go!TypeOK, Points, Life
  <1>2. RefInv'
    BY DEF Construct, Enter, RefInv, Inside, Running, TypeOK
  <1>3. CallInv'
    BY DEF Construct, Enter, CallInv, RefInv, Inside, Running, TypeOK
  <1>4. SessionInv'
    BY DEF Construct, Enter, SessionInv, Created, Answered, TypeOK
  <1>5. FlagInv'
    BY DEF Construct, Enter, FlagInv, Settled, Answered, RefInv, Inside, SessionInv, TypeOK
  <1>6. NoLeak'
    BY DEF Construct, Enter, NoLeak, Answered, TypeOK
  <1>7. OverlapInv'
    BY DEF Construct, Enter, OverlapInv, Asking, Inside, TypeOK
  <1>8. MissOnlyIfOverlapped'
    BY DEF Construct, MissOnlyIfOverlapped, Answered
  <1> QED
    BY <1>1, <1>2, <1>3, <1>4, <1>5, <1>6, <1>7, <1>8

\* An exception out of __init__: there is no session, and nobody else has the object.
LEMMA AbandonKeeps ==
    ASSUME IndInv, NEW t \in Threads, pc[t] \in {"init", "init_wait"}, Abandon(t, pc[t]),
           UNCHANGED status, call' = [call EXCEPT ![t] = Go!Idle],
           pc[t] = "init_wait" => ~call[t].ok
    PROVE  IndInv'
  <1> USE NothingAssumption DEF IndInv
  <1>a. /\ pc' = [pc EXCEPT ![t] = "del"]
        /\ obj' = [obj EXCEPT ![cur[t]] = "finalizing"]
        /\ refs' = [refs EXCEPT ![cur[t]] = {}]
        /\ UNCHANGED <<closed, sessionId, overlap, cur>>
    BY DEF Abandon, Goto
  <1>b. cur[t] \in Clients /\ obj[cur[t]] = "building" /\ sessionId[cur[t]] = NoId
    BY DEF TypeOK, RefInv, SessionInv
  <1>1. TypeOK'
    BY <1>a, <1>b DEF TypeOK, Go!TypeOK, Go!Idle, Points, Life
  <1>2. RefInv'
    BY <1>a, <1>b DEF RefInv, Inside, Running, TypeOK
  <1>3. CallInv'
    BY <1>a, <1>b DEF CallInv, TypeOK, Go!TypeOK
  <1>4. SessionInv'
    BY <1>a, <1>b DEF SessionInv, Created, Answered, RefInv, Inside, TypeOK, Go!TypeOK
  <1>5. FlagInv'
    BY <1>a, <1>b DEF FlagInv, Settled, Answered, Inside, TypeOK, Go!TypeOK
  <1>6. NoLeak'
    <2>1. pc[t] = "init_wait" => call[t].id \notin Ids
      BY DEF CallInv
    <2> QED
      BY <1>a, <1>b, <2>1 DEF NoLeak, Answered, TypeOK, Go!TypeOK
  <1>7. OverlapInv'
    BY <1>a, <1>b DEF OverlapInv, Asking, RefInv, Inside, TypeOK, Go!TypeOK
  <1>8. MissOnlyIfOverlapped'
    BY <1>a DEF MissOnlyIfOverlapped, Answered, TypeOK, Go!TypeOK, Go!Idle
  <1> QED
    BY <1>1, <1>2, <1>3, <1>4, <1>5, <1>6, <1>7, <1>8

LEMMA InitRaisesKeeps ==
    ASSUME IndInv, NEW t \in Threads, InitRaises(t)
    PROVE  IndInv'
  <1>1. pc[t] = "init" /\ call[t] = Go!Idle
    BY DEF InitRaises, Abandon, Goto, IndInv, CallInv
  <1>2. call' = [call EXCEPT ![t] = Go!Idle]
    BY <1>1 DEF InitRaises, goVars, IndInv, TypeOK, Go!TypeOK
  <1> QED
    BY <1>1, <1>2, AbandonKeeps DEF InitRaises, goVars

LEMMA InitCallsGoKeeps ==
    ASSUME IndInv, NEW t \in Threads, InitCallsGo(t)
    PROVE  IndInv'
  <1> USE NothingAssumption DEF IndInv, objVars
  <1>a. /\ pc[t] = "init"
        /\ pc' = [pc EXCEPT ![t] = "init_wait"]
        /\ call' = [call EXCEPT ![t] = [phase |-> "called", op |-> "create", id |-> NoId,
                                        ok |-> FALSE]]
        /\ UNCHANGED <<status, objVars, cur, overlap>>
    BY DEF InitCallsGo, Goto, Go!InvokeCreate, Go!Invoke
  <1>b. cur[t] \in Clients
    BY <1>a DEF TypeOK
  <1>1. TypeOK'
    BY <1>a, <1>b DEF TypeOK, Go!TypeOK, Points
  <1>2. RefInv'
    BY <1>a, <1>b DEF RefInv, Inside, Running, TypeOK
  <1>3. CallInv'
    BY <1>a, <1>b DEF CallInv, TypeOK, Go!TypeOK
  <1>4. SessionInv'
    BY <1>a, <1>b DEF SessionInv, Created, Answered, TypeOK, Go!TypeOK
  <1>5. FlagInv'
    BY <1>a, <1>b DEF FlagInv, Settled, Answered, Inside, TypeOK, Go!TypeOK
  <1>6. NoLeak'
    BY <1>a, <1>b DEF NoLeak, Answered, TypeOK, Go!TypeOK
  <1>7. OverlapInv'
    BY <1>a, <1>b DEF OverlapInv, Asking, Inside, TypeOK, Go!TypeOK
  <1>8. MissOnlyIfOverlapped'
    BY <1>a DEF MissOnlyIfOverlapped, Answered, TypeOK, Go!TypeOK
  <1> QED
    BY <1>1, <1>2, <1>3, <1>4, <1>5, <1>6, <1>7, <1>8

LEMMA InitSucceedsKeeps ==
    ASSUME IndInv, NEW t \in Threads, InitReturns(t), call[t].ok
    PROVE  IndInv'
  <1> USE NothingAssumption DEF IndInv, goVars, objVars
  <1>a. /\ pc[t] = "init_wait" /\ Answered(t) /\ Created(t)
        /\ call' = [call EXCEPT ![t] = Go!Idle] /\ status' = status
        /\ pc' = [pc EXCEPT ![t] = "init_flag"]
        /\ sessionId' = [sessionId EXCEPT ![cur[t]] = call[t].id]
        /\ UNCHANGED <<obj, closed, refs, overlap, cur>>
    BY DEF InitReturns, Abandon, Goto, Go!Return, Created
  <1>b. cur[t] \in Clients /\ obj[cur[t]] = "building" /\ sessionId[cur[t]] = NoId
    BY <1>a DEF TypeOK, RefInv, SessionInv
  <1>c. call[t].id \in Ids /\ status[call[t].id] = "open"
    BY <1>a DEF SessionInv
  <1>1. TypeOK'
    BY <1>a, <1>b, <1>c DEF TypeOK, Go!TypeOK, Go!Idle, Points
  <1>2. RefInv'
    BY <1>a, <1>b DEF RefInv, Inside, TypeOK
  <1>3. CallInv'
    BY <1>a, <1>b DEF CallInv, RefInv, Inside, TypeOK, Go!TypeOK
  <1>4. SessionInv'
    BY <1>a, <1>b, <1>c DEF SessionInv, RefInv, Inside, TypeOK, Go!TypeOK, Created, Answered
  <1>5. FlagInv'
    BY <1>a, <1>b, <1>c
       DEF FlagInv, Settled, RefInv, Inside, SessionInv, TypeOK, Go!TypeOK, Answered
  <1>6. NoLeak'
    BY <1>a, <1>b, <1>c DEF NoLeak, TypeOK, Go!TypeOK, Answered
  <1>7. OverlapInv'
    BY <1>a, <1>b DEF OverlapInv, Asking, RefInv, Inside, TypeOK, Go!TypeOK
  <1>8. MissOnlyIfOverlapped'
    BY <1>a DEF MissOnlyIfOverlapped, Answered, TypeOK, Go!TypeOK, Go!Idle
  <1> QED
    BY <1>1, <1>2, <1>3, <1>4, <1>5, <1>6, <1>7, <1>8

LEMMA InitReturnsKeeps ==
    ASSUME IndInv, NEW t \in Threads, InitReturns(t)
    PROVE  IndInv'
  <1>1. CASE call[t].ok
    BY <1>1, InitSucceedsKeeps
  <1>2. CASE ~call[t].ok
    BY <1>2, AbandonKeeps DEF InitReturns, Abandon, Goto, Go!Return
  <1> QED
    BY <1>1, <1>2

LEMMA InitDoneKeeps ==
    ASSUME IndInv, NEW t \in Threads, InitDone(t)
    PROVE  IndInv'
  <1> USE NothingAssumption DEF IndInv
  <1>a. /\ pc[t] = "init_flag"
        /\ pc' = [pc EXCEPT ![t] = "idle"]
        /\ cur' = [cur EXCEPT ![t] = NoClient]
        /\ closed' = [closed EXCEPT ![cur[t]] = FALSE]
        /\ obj' = [obj EXCEPT ![cur[t]] = "live"]
        /\ UNCHANGED <<status, call, sessionId, refs, overlap>>
    BY DEF InitDone, Leave, goVars
  <1>b. /\ cur[t] \in Clients /\ obj[cur[t]] = "building" /\ call[t] = Go!Idle
        /\ sessionId[cur[t]] \in Ids /\ status[sessionId[cur[t]]] = "open"
    BY <1>a DEF TypeOK, RefInv, SessionInv, CallInv
  <1>1. TypeOK'
    BY <1>a, <1>b DEF TypeOK, Go!TypeOK, Points, Life
  <1>2. RefInv'
    BY <1>a, <1>b DEF RefInv, Inside, Running, TypeOK
  <1>3. CallInv'
    BY <1>a, <1>b DEF CallInv, TypeOK
  <1>4. SessionInv'
    BY <1>a, <1>b DEF SessionInv, Created, Answered, TypeOK
  <1>5. FlagInv'
    BY <1>a, <1>b DEF FlagInv, Settled, Answered, RefInv, Inside, TypeOK
  <1>6. NoLeak'
    BY <1>a, <1>b DEF NoLeak, Answered, TypeOK
  <1>7. OverlapInv'
    BY <1>a, <1>b DEF OverlapInv, Asking, RefInv, Inside, TypeOK
  <1>8. MissOnlyIfOverlapped'
    BY <1>a DEF MissOnlyIfOverlapped, Answered
  <1> QED
    BY <1>1, <1>2, <1>3, <1>4, <1>5, <1>6, <1>7, <1>8

LEMMA ShareKeeps ==
    ASSUME IndInv, NEW t \in Threads, NEW u \in Threads, NEW c \in Clients, Share(t, u, c)
    PROVE  IndInv'
  <1> USE NothingAssumption DEF IndInv, Share, goVars
  <1>1. TypeOK'
    BY DEF TypeOK, Go!TypeOK
  <1>2. RefInv'
    BY DEF RefInv, Inside, Running, TypeOK
  <1>3. CallInv' /\ SessionInv' /\ FlagInv'
    BY DEF CallInv, SessionInv, FlagInv, Settled, Created, Answered, Inside
  <1>4. NoLeak' /\ OverlapInv' /\ MissOnlyIfOverlapped'
    BY DEF NoLeak, OverlapInv, Asking, Inside, MissOnlyIfOverlapped, Answered
  <1> QED
    BY <1>1, <1>2, <1>3, <1>4

\* Nobody is inside a client when its last reference goes.
LEMMA DropLastKeeps ==
    ASSUME IndInv, NEW t \in Threads, NEW c \in Clients, DropRef(t, c), refs[c] = {t}
    PROVE  IndInv'
  <1> USE NothingAssumption DEF IndInv
  <1>a. /\ pc[t] = "idle"
        /\ refs' = [refs EXCEPT ![c] = {}]
        /\ obj' = [obj EXCEPT ![c] = "finalizing"]
        /\ pc' = [pc EXCEPT ![t] = "del"]
        /\ cur' = [cur EXCEPT ![t] = c]
        /\ UNCHANGED <<status, call, closed, sessionId, overlap>>
    BY DEF DropRef, Enter, goVars
  <1>b. cur[t] = NoClient /\ call[t] = Go!Idle
    BY <1>a DEF TypeOK, CallInv
  <1>c. obj[c] = "live" /\ Inside(c) = {}
    BY <1>a, <1>b DEF RefInv, Inside, Running, TypeOK, Life
  <1>1. TypeOK'
    BY <1>a DEF TypeOK, Go!TypeOK, Points, Life
  <1>2. RefInv'
    BY <1>a, <1>b, <1>c DEF RefInv, Inside, Running, TypeOK
  <1>3. CallInv'
    BY <1>a, <1>b, <1>c DEF CallInv, TypeOK
  <1>4. SessionInv'
    BY <1>a, <1>b, <1>c DEF SessionInv, Created, Answered, TypeOK
  <1>5. FlagInv'
    BY <1>a, <1>b, <1>c DEF FlagInv, Settled, Answered, Inside, TypeOK
  <1>6. NoLeak'
    BY <1>a DEF NoLeak, Answered, TypeOK
  <1>7. OverlapInv'
    BY <1>a, <1>b, <1>c DEF OverlapInv, Asking, Inside, TypeOK
  <1>8. MissOnlyIfOverlapped'
    BY <1>a DEF MissOnlyIfOverlapped, Answered
  <1> QED
    BY <1>1, <1>2, <1>3, <1>4, <1>5, <1>6, <1>7, <1>8

LEMMA DropOtherKeeps ==
    ASSUME IndInv, NEW t \in Threads, NEW c \in Clients, DropRef(t, c), refs[c] # {t}
    PROVE  IndInv'
  <1> USE NothingAssumption DEF IndInv
  <1>a. /\ pc[t] = "idle"
        /\ t \in refs[c]
        /\ refs' = [refs EXCEPT ![c] = @ \ {t}]
        /\ UNCHANGED <<status, call, obj, pc, cur, closed, sessionId, overlap>>
    BY DEF DropRef, goVars
  <1>b. cur[t] = NoClient
    BY <1>a DEF TypeOK
  <1>1. TypeOK'
    BY <1>a DEF TypeOK, Go!TypeOK
  <1>2. RefInv'
    BY <1>a, <1>b DEF RefInv, Inside, Running, TypeOK
  <1>3. CallInv' /\ SessionInv' /\ FlagInv'
    BY <1>a DEF CallInv, SessionInv, FlagInv, Settled, Created, Answered, Inside
  <1>4. NoLeak' /\ OverlapInv' /\ MissOnlyIfOverlapped'
    BY <1>a DEF NoLeak, OverlapInv, Asking, Inside, MissOnlyIfOverlapped, Answered
  <1> QED
    BY <1>1, <1>2, <1>3, <1>4

\* A request that finds the client open and nobody closing it has an open session.
LEMMA RequestKeeps ==
    ASSUME IndInv, NEW t \in Threads, NEW c \in Clients, Request(t, c)
    PROVE  IndInv'
  <1> USE NothingAssumption DEF IndInv
  <1>a. /\ obj[c] = "live" /\ t \in refs[c] /\ ~closed[c]
        /\ pc[t] = "idle"
        /\ pc' = [pc EXCEPT ![t] = "request"]
        /\ cur' = [cur EXCEPT ![t] = c]
        /\ UNCHANGED <<status, call, obj, closed, sessionId, refs>>
    BY DEF Request, Enter, goVars, objVars
  <1>b. overlap' \in [Threads -> BOOLEAN] /\ overlap' = [overlap EXCEPT ![t] = Closing(c) # {}]
    BY DEF Request, TypeOK
  <1>c. cur[t] = NoClient /\ call[t] = Go!Idle
    BY <1>a DEF TypeOK, CallInv
  <1>d. ~overlap'[t] => /\ \A u \in Inside(c) : pc[u] \notin {"close", "close_wait", "close_flag"}
                        /\ status[sessionId[c]] = "open"
    <2>1. ~overlap'[t] => Closing(c) = {}
      BY <1>b DEF TypeOK
    <2> QED
      BY <1>a, <2>1 DEF Closing, Inside, FlagInv, Settled
  <1>1. TypeOK'
    BY <1>a, <1>b DEF TypeOK, Go!TypeOK, Points
  <1>2. RefInv'
    BY <1>a, <1>c DEF RefInv, Inside, Running, TypeOK
  <1>3. CallInv'
    BY <1>a, <1>c DEF CallInv, TypeOK
  <1>4. SessionInv'
    BY <1>a, <1>c DEF SessionInv, Created, Answered, TypeOK
  <1>5. FlagInv'
    BY <1>a, <1>c DEF FlagInv, Settled, Answered, Inside, TypeOK
  <1>6. NoLeak'
    BY <1>a DEF NoLeak, Answered, TypeOK
  <1>7. OverlapInv'
    <2> SUFFICES ASSUME NEW u \in Threads, Asking(u)', ~overlap'[u]
                 PROVE  /\ \A v \in Inside(cur[u])' :
                              pc'[v] \notin {"close", "close_wait", "close_flag"}
                        /\ status'[sessionId'[cur'[u]]] = "open"
      BY DEF OverlapInv
    <2>1. CASE u = t
      BY <1>a, <1>d, <2>1 DEF Inside, TypeOK
    <2>2. CASE u # t
      <3>1. Asking(u) /\ ~overlap[u] /\ cur'[u] = cur[u]
        BY <1>a, <1>b, <2>2 DEF Asking, TypeOK
      <3> QED
        BY <1>a, <1>c, <2>2, <3>1 DEF OverlapInv, Inside, TypeOK
    <2> QED
      BY <2>1, <2>2
  <1>8. MissOnlyIfOverlapped'
    BY <1>a, <1>b, <1>c DEF MissOnlyIfOverlapped, Answered, TypeOK, Go!Idle
  <1> QED
    BY <1>1, <1>2, <1>3, <1>4, <1>5, <1>6, <1>7, <1>8

LEMMA SendRequestKeeps ==
    ASSUME IndInv, NEW t \in Threads, SendRequest(t)
    PROVE  IndInv'
  <1> USE NothingAssumption DEF IndInv
  <1>a. /\ pc[t] = "request"
        /\ pc' = [pc EXCEPT ![t] = "wait"]
        /\ call' = [call EXCEPT ![t] = [phase |-> "called", op |-> "request",
                                        id |-> sessionId[cur[t]], ok |-> FALSE]]
        /\ UNCHANGED <<status, obj, closed, sessionId, refs, cur, overlap>>
    BY DEF SendRequest, Goto, Go!Invoke, objVars
  <1>b. cur[t] \in Clients /\ obj[cur[t]] = "live"
    BY <1>a DEF TypeOK, RefInv
  <1>c. sessionId[cur[t]] \in Ids
    BY <1>b DEF SessionInv
  <1>1. TypeOK'
    BY <1>a, <1>b, <1>c DEF TypeOK, Go!TypeOK, Points, UseOps
  <1>2. RefInv'
    BY <1>a, <1>b DEF RefInv, Inside, Running, TypeOK
  <1>3. CallInv'
    BY <1>a, <1>b DEF CallInv, TypeOK, Go!TypeOK, UseOps
  <1>4. SessionInv'
    BY <1>a, <1>b DEF SessionInv, Created, Answered, TypeOK, Go!TypeOK
  <1>5. FlagInv'
    BY <1>a, <1>b DEF FlagInv, Settled, Answered, Inside, TypeOK, Go!TypeOK
  <1>6. NoLeak'
    BY <1>a DEF NoLeak, Answered, TypeOK, Go!TypeOK
  <1>7. OverlapInv'
    BY <1>a, <1>b DEF OverlapInv, Asking, Inside, TypeOK, Go!TypeOK
  <1>8. MissOnlyIfOverlapped'
    BY <1>a DEF MissOnlyIfOverlapped, Answered, TypeOK, Go!TypeOK
  <1> QED
    BY <1>1, <1>2, <1>3, <1>4, <1>5, <1>6, <1>7, <1>8

LEMMA ConfigureKeeps ==
    ASSUME IndInv, NEW t \in Threads, NEW c \in Clients, Configure(t, c)
    PROVE  IndInv'
  <1> USE NothingAssumption DEF IndInv
  <1>a. /\ obj[c] = "live" /\ t \in refs[c] /\ pc[t] = "idle"
        /\ pc' = [pc EXCEPT ![t] = "wait"]
        /\ cur' = [cur EXCEPT ![t] = c]
        /\ call' = [call EXCEPT ![t] = [phase |-> "called", op |-> "config",
                                        id |-> sessionId[c], ok |-> FALSE]]
        /\ UNCHANGED <<status, obj, closed, sessionId, refs, overlap>>
    BY DEF Configure, Enter, Go!Invoke, objVars
  <1>b. cur[t] = NoClient /\ sessionId[c] \in Ids
    BY <1>a DEF TypeOK, SessionInv
  <1>1. TypeOK'
    BY <1>a, <1>b DEF TypeOK, Go!TypeOK, Points, UseOps
  <1>2. RefInv'
    BY <1>a, <1>b DEF RefInv, Inside, Running, TypeOK
  <1>3. CallInv'
    BY <1>a, <1>b DEF CallInv, TypeOK, Go!TypeOK, UseOps
  <1>4. SessionInv'
    BY <1>a, <1>b DEF SessionInv, Created, Answered, TypeOK, Go!TypeOK
  <1>5. FlagInv'
    BY <1>a, <1>b DEF FlagInv, Settled, Answered, Inside, TypeOK, Go!TypeOK
  <1>6. NoLeak'
    BY <1>a DEF NoLeak, Answered, TypeOK, Go!TypeOK
  <1>7. OverlapInv'
    BY <1>a, <1>b DEF OverlapInv, Asking, Inside, TypeOK, Go!TypeOK
  <1>8. MissOnlyIfOverlapped'
    BY <1>a DEF MissOnlyIfOverlapped, Answered, TypeOK, Go!TypeOK
  <1> QED
    BY <1>1, <1>2, <1>3, <1>4, <1>5, <1>6, <1>7, <1>8

LEMMA CallReturnsKeeps ==
    ASSUME IndInv, NEW t \in Threads, CallReturns(t)
    PROVE  IndInv'
  <1> USE NothingAssumption DEF IndInv
  <1>a. /\ pc[t] = "wait"
        /\ pc' = [pc EXCEPT ![t] = "idle"]
        /\ cur' = [cur EXCEPT ![t] = NoClient]
        /\ call' = [call EXCEPT ![t] = Go!Idle]
        /\ overlap' = [overlap EXCEPT ![t] = FALSE]
        /\ UNCHANGED <<status, obj, closed, sessionId, refs>>
    BY DEF CallReturns, Leave, Go!Return, objVars
  <1>b. cur[t] \in Clients /\ obj[cur[t]] = "live"
    BY <1>a DEF TypeOK, RefInv
  <1>1. TypeOK'
    BY <1>a, <1>b DEF TypeOK, Go!TypeOK, Go!Idle, Points
  <1>2. RefInv'
    BY <1>a, <1>b DEF RefInv, Inside, Running, TypeOK
  <1>3. CallInv'
    BY <1>a, <1>b DEF CallInv, TypeOK, Go!TypeOK
  <1>4. SessionInv'
    BY <1>a, <1>b DEF SessionInv, Created, Answered, TypeOK, Go!TypeOK
  <1>5. FlagInv'
    BY <1>a, <1>b DEF FlagInv, Settled, Answered, Inside, TypeOK, Go!TypeOK
  <1>6. NoLeak'
    BY <1>a DEF NoLeak, Answered, TypeOK, Go!TypeOK
  <1>7. OverlapInv'
    BY <1>a, <1>b DEF OverlapInv, Asking, Inside, TypeOK, Go!TypeOK
  <1>8. MissOnlyIfOverlapped'
    BY <1>a DEF MissOnlyIfOverlapped, Answered, TypeOK, Go!TypeOK, Go!Idle
  <1> QED
    BY <1>1, <1>2, <1>3, <1>4, <1>5, <1>6, <1>7, <1>8

\* A thread enters close() of an open client, by itself or from __del__.
LEMMA BeginCloseKeeps ==
    ASSUME IndInv, NEW t \in Threads, NEW c \in Clients, ~closed[c],
           pc' = [pc EXCEPT ![t] = "close"], cur' = [cur EXCEPT ![t] = c],
           overlap' = Overlapped(c),
           UNCHANGED <<status, call, obj, closed, sessionId, refs>>,
           \/ pc[t] = "idle" /\ obj[c] = "live" /\ t \in refs[c]
           \/ pc[t] = "del" /\ cur[t] = c
    PROVE  IndInv'
  <1> USE NothingAssumption DEF IndInv
  <1>a. /\ obj[c] \in {"live", "finalizing"} /\ sessionId[c] \in Ids /\ call[t] = Go!Idle
        /\ cur[t] \in {NoClient, c}
    BY DEF FlagInv, CallInv, TypeOK
  <1>b. /\ overlap' \in [Threads -> BOOLEAN]
        /\ \A u \in Threads : overlap'[u] <=> overlap[u] \/ u \in Requesting(c)
    BY DEF Overlapped, TypeOK
  <1>1. TypeOK'
    BY <1>b DEF TypeOK, Go!TypeOK, Points
  <1>2. RefInv'
    BY <1>a DEF RefInv, Inside, Running, TypeOK
  <1>3. CallInv'
    BY <1>a DEF CallInv, TypeOK
  <1>4. SessionInv'
    BY <1>a DEF SessionInv, Created, Answered, TypeOK
  <1>5. FlagInv'
    BY <1>a DEF FlagInv, Settled, Answered, Inside, TypeOK
  <1>6. NoLeak'
    BY DEF NoLeak, Answered, TypeOK
  <1>7. OverlapInv'
    <2> SUFFICES ASSUME NEW u \in Threads, Asking(u)', ~overlap'[u]
                 PROVE  /\ \A v \in Inside(cur[u])' :
                              pc'[v] \notin {"close", "close_wait", "close_flag"}
                        /\ status'[sessionId'[cur'[u]]] = "open"
      BY DEF OverlapInv
    <2>1. u # t /\ Asking(u) /\ ~overlap[u] /\ cur'[u] = cur[u]
      BY <1>a, <1>b DEF Asking, TypeOK
    <2>2. cur[u] # c
      BY <1>b, <2>1 DEF Asking, Requesting
    <2> QED
      BY <2>1, <2>2 DEF OverlapInv, Inside, TypeOK
  <1>8. MissOnlyIfOverlapped'
    BY <1>b DEF MissOnlyIfOverlapped, Answered
  <1> QED
    BY <1>1, <1>2, <1>3, <1>4, <1>5, <1>6, <1>7, <1>8

LEMMA CloseKeeps ==
    ASSUME IndInv, NEW t \in Threads, NEW c \in Clients, Close(t, c)
    PROVE  IndInv'
  BY BeginCloseKeeps DEF Close, Enter, goVars, objVars

\* The finalizer has nothing to close.
LEMMA FinalizeClosedKeeps ==
    ASSUME IndInv, NEW t \in Threads, Finalize(t), closed[cur[t]]
    PROVE  IndInv'
  <1> USE NothingAssumption DEF IndInv
  <1>a. /\ pc[t] = "del"
        /\ pc' = [pc EXCEPT ![t] = "idle"]
        /\ cur' = [cur EXCEPT ![t] = NoClient]
        /\ obj' = [obj EXCEPT ![cur[t]] = "dead"]
        /\ UNCHANGED <<status, call, closed, sessionId, refs, overlap>>
    BY DEF Finalize, Leave, Goto, goVars
  <1>b. /\ cur[t] \in Clients /\ obj[cur[t]] = "finalizing" /\ call[t] = Go!Idle
        /\ Inside(cur[t]) = {t}
    BY <1>a DEF TypeOK, RefInv, CallInv, Inside
  <1>c. sessionId[cur[t]] \in Ids => status[sessionId[cur[t]]] = "closed"
    BY <1>b DEF FlagInv
  <1>1. TypeOK'
    BY <1>a, <1>b DEF TypeOK, Go!TypeOK, Points, Life
  <1>2. RefInv'
    BY <1>a, <1>b DEF RefInv, Inside, Running, TypeOK
  <1>3. CallInv'
    BY <1>a, <1>b DEF CallInv, TypeOK
  <1>4. SessionInv'
    BY <1>a, <1>b DEF SessionInv, Created, Answered, TypeOK
  <1>5. FlagInv'
    BY <1>a, <1>b, <1>c DEF FlagInv, Settled, Answered, Inside, TypeOK
  <1>6. NoLeak'
    BY <1>a, <1>b, <1>c DEF NoLeak, Answered, TypeOK
  <1>7. OverlapInv'
    BY <1>a, <1>b DEF OverlapInv, Asking, Inside, TypeOK
  <1>8. MissOnlyIfOverlapped'
    BY <1>a DEF MissOnlyIfOverlapped, Answered
  <1> QED
    BY <1>1, <1>2, <1>3, <1>4, <1>5, <1>6, <1>7, <1>8

LEMMA FinalizeKeeps ==
    ASSUME IndInv, NEW t \in Threads, Finalize(t)
    PROVE  IndInv'
  <1>1. pc[t] = "del" /\ cur[t] \in Clients
    BY NothingAssumption DEF Finalize, Goto, Leave, IndInv, TypeOK
  <1>2. CASE closed[cur[t]]
    BY <1>2, FinalizeClosedKeeps
  <1>3. CASE ~closed[cur[t]]
    <2>1. cur' = [cur EXCEPT ![t] = cur[t]]
      BY <1>3 DEF Finalize, Goto, Leave, IndInv, TypeOK
    <2> QED
      BY <1>1, <1>3, <2>1, BeginCloseKeeps DEF Finalize, Goto, Leave, goVars, objVars
  <1> QED
    BY <1>2, <1>3

LEMMA SendCloseKeeps ==
    ASSUME IndInv, NEW t \in Threads, SendClose(t)
    PROVE  IndInv'
  <1> USE NothingAssumption DEF IndInv
  <1>a. /\ pc[t] = "close"
        /\ pc' = [pc EXCEPT ![t] = "close_wait"]
        /\ call' = [call EXCEPT ![t] = [phase |-> "called", op |-> "close",
                                        id |-> sessionId[cur[t]], ok |-> FALSE]]
        /\ UNCHANGED <<status, obj, closed, sessionId, refs, cur, overlap>>
    BY DEF SendClose, Goto, Go!Invoke, objVars
  <1>b. cur[t] \in Clients /\ sessionId[cur[t]] \in Ids
    BY <1>a DEF TypeOK, SessionInv
  <1>1. TypeOK'
    BY <1>a, <1>b DEF TypeOK, Go!TypeOK, Points
  <1>2. RefInv'
    BY <1>a, <1>b DEF RefInv, Inside, Running, TypeOK
  <1>3. CallInv'
    BY <1>a, <1>b DEF CallInv, TypeOK, Go!TypeOK
  <1>4. SessionInv'
    BY <1>a, <1>b DEF SessionInv, Created, Answered, TypeOK, Go!TypeOK
  <1>5. FlagInv'
    BY <1>a, <1>b DEF FlagInv, Settled, Answered, Inside, TypeOK, Go!TypeOK
  <1>6. NoLeak'
    BY <1>a DEF NoLeak, Answered, TypeOK, Go!TypeOK
  <1>7. OverlapInv'
    BY <1>a, <1>b DEF OverlapInv, Asking, Inside, TypeOK, Go!TypeOK
  <1>8. MissOnlyIfOverlapped'
    BY <1>a DEF MissOnlyIfOverlapped, Answered, TypeOK, Go!TypeOK
  <1> QED
    BY <1>1, <1>2, <1>3, <1>4, <1>5, <1>6, <1>7, <1>8

LEMMA CloseReturnsKeeps ==
    ASSUME IndInv, NEW t \in Threads, CloseReturns(t)
    PROVE  IndInv'
  <1> USE NothingAssumption DEF IndInv
  <1>a. /\ pc[t] = "close_wait" /\ Settled(t)
        /\ pc' = [pc EXCEPT ![t] = "close_flag"]
        /\ call' = [call EXCEPT ![t] = Go!Idle]
        /\ UNCHANGED <<status, obj, closed, sessionId, refs, cur, overlap>>
    BY DEF CloseReturns, Goto, Go!Return, Settled, objVars
  <1>b. cur[t] \in Clients /\ status[sessionId[cur[t]]] = "closed"
    BY <1>a DEF TypeOK, FlagInv
  <1>1. TypeOK'
    BY <1>a, <1>b DEF TypeOK, Go!TypeOK, Go!Idle, Points
  <1>2. RefInv'
    BY <1>a, <1>b DEF RefInv, Inside, Running, TypeOK
  <1>3. CallInv'
    BY <1>a, <1>b DEF CallInv, TypeOK, Go!TypeOK
  <1>4. SessionInv'
    BY <1>a, <1>b DEF SessionInv, Created, Answered, TypeOK, Go!TypeOK
  <1>5. FlagInv'
    BY <1>a, <1>b DEF FlagInv, Settled, Answered, Inside, TypeOK, Go!TypeOK
  <1>6. NoLeak'
    BY <1>a DEF NoLeak, Answered, TypeOK, Go!TypeOK
  <1>7. OverlapInv'
    BY <1>a, <1>b DEF OverlapInv, Asking, Inside, TypeOK, Go!TypeOK
  <1>8. MissOnlyIfOverlapped'
    BY <1>a DEF MissOnlyIfOverlapped, Answered, TypeOK, Go!TypeOK, Go!Idle
  <1> QED
    BY <1>1, <1>2, <1>3, <1>4, <1>5, <1>6, <1>7, <1>8

LEMMA CloseDoneKeeps ==
    ASSUME IndInv, NEW t \in Threads, CloseDone(t)
    PROVE  IndInv'
  <1> USE NothingAssumption DEF IndInv
  <1>a. /\ pc[t] = "close_flag"
        /\ pc' = [pc EXCEPT ![t] = "idle"]
        /\ cur' = [cur EXCEPT ![t] = NoClient]
        /\ closed' = [closed EXCEPT ![cur[t]] = TRUE]
        /\ obj' = IF obj[cur[t]] = "finalizing" THEN [obj EXCEPT ![cur[t]] = "dead"] ELSE obj
        /\ UNCHANGED <<status, call, sessionId, refs, overlap>>
    BY DEF CloseDone, Leave, goVars
  <1>b. /\ cur[t] \in Clients /\ obj[cur[t]] \in {"live", "finalizing"} /\ call[t] = Go!Idle
        /\ status[sessionId[cur[t]]] = "closed"
        /\ obj[cur[t]] = "finalizing" => Inside(cur[t]) = {t}
    BY <1>a DEF TypeOK, RefInv, CallInv, FlagInv, Settled, Inside, Running
  <1>1. TypeOK'
    BY <1>a, <1>b DEF TypeOK, Go!TypeOK, Points, Life
  <1>2. RefInv'
    BY <1>a, <1>b DEF RefInv, Inside, Running, TypeOK
  <1>3. CallInv'
    BY <1>a, <1>b DEF CallInv, TypeOK
  <1>4. SessionInv'
    BY <1>a, <1>b DEF SessionInv, Created, Answered, TypeOK
  <1>5. FlagInv'
    <2>1. \A c \in Clients : c # cur[t] => \A u \in Inside(c) : u # t /\ u \in Inside(c)'
      BY <1>a DEF Inside, TypeOK
    <2> QED
      BY <1>a, <1>b, <2>1 DEF FlagInv, Settled, Answered, Inside, TypeOK
  <1>6. NoLeak'
    BY <1>a, <1>b DEF NoLeak, Answered, TypeOK
  <1>7. OverlapInv'
    BY <1>a, <1>b DEF OverlapInv, Asking, Inside, TypeOK
  <1>8. MissOnlyIfOverlapped'
    BY <1>a DEF MissOnlyIfOverlapped, Answered
  <1> QED
    BY <1>1, <1>2, <1>3, <1>4, <1>5, <1>6, <1>7, <1>8

-----------------------------------------------------------------------------
(***************************************************************************)
(* The steps of the store.  They leave Python alone.                       *)
(***************************************************************************)
PythonUnchanged == UNCHANGED <<objVars, pc, cur, overlap>>

LEMMA OpenKeeps ==
    ASSUME IndInv, NEW t \in Threads, Go!Open(t), PythonUnchanged
    PROVE  IndInv'
  <1> USE NothingAssumption DEF IndInv, PythonUnchanged, objVars
  <1> PICK i \in Ids :
        /\ status[i] = "unused" /\ status' = [status EXCEPT ![i] = "open"]
        /\ call[t].phase = "called" /\ call[t].op = "create"
        /\ call' = [call EXCEPT ![t] = [phase |-> "answered", op |-> "create", id |-> i,
                                        ok |-> TRUE]]
    BY DEF Go!Open, Go!Answer
  <1>a. pc[t] = "init_wait"
    BY DEF CallInv, Go!Idle, UseOps, TypeOK, Points
  <1>b. \A c \in Clients : sessionId[c] # i
    BY DEF SessionInv
  <1>c. \A u \in Threads : Created(u) => call[u].id # i
    BY DEF SessionInv
  <1>1. TypeOK'
    BY DEF TypeOK, Go!TypeOK
  <1>2. RefInv'
    BY DEF RefInv, Inside
  <1>3. CallInv'
    BY <1>a DEF CallInv, TypeOK, Go!TypeOK
  <1>4. SessionInv'
    BY <1>a, <1>b, <1>c DEF SessionInv, Created, Answered, TypeOK, Go!TypeOK
  <1>5. FlagInv'
    BY <1>a, <1>b DEF FlagInv, Settled, Answered, Inside, TypeOK, Go!TypeOK
  <1>6. NoLeak'
    BY <1>a, <1>b DEF NoLeak, Answered, TypeOK, Go!TypeOK
  <1>7. OverlapInv'
    BY <1>a, <1>b DEF OverlapInv, Asking, Inside, TypeOK, Go!TypeOK
  <1>8. MissOnlyIfOverlapped'
    BY <1>a DEF MissOnlyIfOverlapped, Answered, TypeOK, Go!TypeOK
  <1> QED
    BY <1>1, <1>2, <1>3, <1>4, <1>5, <1>6, <1>7, <1>8

LEMMA RefuseKeeps ==
    ASSUME IndInv, NEW t \in Threads, Go!Refuse(t), PythonUnchanged
    PROVE  IndInv'
  <1> USE NothingAssumption DEF IndInv, PythonUnchanged, objVars
  <1>a. /\ call[t].phase = "called" /\ call[t].op = "create" /\ UNCHANGED status
        /\ call' = [call EXCEPT ![t] = [phase |-> "answered", op |-> "create", id |-> NoId,
                                        ok |-> FALSE]]
    BY DEF Go!Refuse, Go!Answer
  <1>b. pc[t] = "init_wait"
    BY <1>a DEF CallInv, Go!Idle, UseOps, TypeOK, Points
  <1>1. TypeOK'
    BY <1>a DEF TypeOK, Go!TypeOK
  <1>2. RefInv'
    BY DEF RefInv, Inside
  <1>3. CallInv'
    BY <1>a, <1>b DEF CallInv, TypeOK, Go!TypeOK
  <1>4. SessionInv'
    BY <1>a, <1>b DEF SessionInv, Created, Answered, TypeOK, Go!TypeOK
  <1>5. FlagInv'
    BY <1>a, <1>b DEF FlagInv, Settled, Answered, Inside, TypeOK, Go!TypeOK
  <1>6. NoLeak'
    BY <1>a, <1>b DEF NoLeak, Answered, TypeOK, Go!TypeOK
  <1>7. OverlapInv'
    BY <1>a, <1>b DEF OverlapInv, Asking, Inside, TypeOK, Go!TypeOK
  <1>8. MissOnlyIfOverlapped'
    BY <1>a DEF MissOnlyIfOverlapped, Answered, TypeOK, Go!TypeOK
  <1> QED
    BY <1>1, <1>2, <1>3, <1>4, <1>5, <1>6, <1>7, <1>8

LEMMA FindKeeps ==
    ASSUME IndInv, NEW t \in Threads, NEW o \in UseOps, Go!Find(t, o), PythonUnchanged
    PROVE  IndInv'
  <1> USE NothingAssumption DEF IndInv, PythonUnchanged, objVars
  <1>a. /\ call[t].phase = "called" /\ call[t].op = o /\ UNCHANGED status
        /\ call' = [call EXCEPT ![t] = [phase |-> "answered", op |-> o, id |-> call[t].id,
                                        ok |-> status[call[t].id] = "open"]]
    BY DEF Go!Find, Go!Answer
  <1>b. pc[t] = "wait" /\ call[t].id = sessionId[cur[t]]
    BY <1>a DEF CallInv, Go!Idle, UseOps, TypeOK, Points
  <1>1. TypeOK'
    BY <1>a DEF TypeOK, Go!TypeOK, UseOps
  <1>2. RefInv'
    BY DEF RefInv, Inside
  <1>3. CallInv'
    BY <1>a, <1>b DEF CallInv, TypeOK, Go!TypeOK, UseOps
  <1>4. SessionInv'
    BY <1>a, <1>b DEF SessionInv, Created, Answered, TypeOK, Go!TypeOK
  <1>5. FlagInv'
    BY <1>a, <1>b DEF FlagInv, Settled, Answered, Inside, TypeOK, Go!TypeOK
  <1>6. NoLeak'
    BY <1>a, <1>b DEF NoLeak, Answered, TypeOK, Go!TypeOK
  <1>7. OverlapInv'
    BY <1>a, <1>b DEF OverlapInv, Asking, Inside, TypeOK, Go!TypeOK
  <1>8. MissOnlyIfOverlapped'
    \* A request that nothing overlapped still has its session when Go looks it up.
    <2>1. call'[t].op = "request" /\ ~call'[t].ok => overlap[t]
      BY <1>a, <1>b DEF OverlapInv, Asking, TypeOK, Go!TypeOK
    <2> QED
      BY <1>a, <2>1 DEF MissOnlyIfOverlapped, Answered, TypeOK, Go!TypeOK
  <1> QED
    BY <1>1, <1>2, <1>3, <1>4, <1>5, <1>6, <1>7, <1>8

LEMMA DropKeeps ==
    ASSUME IndInv, NEW t \in Threads, Go!Drop(t), PythonUnchanged
    PROVE  IndInv'
  <1> USE NothingAssumption DEF IndInv, PythonUnchanged, objVars
  <1>a. /\ call[t].phase = "called" /\ call[t].op = "close"
        /\ call' = [call EXCEPT ![t] = [phase |-> "answered", op |-> "close",
                                        id |-> call[t].id, ok |-> TRUE]]
        /\ status' = [status EXCEPT ![call[t].id] = "closed"]
    BY DEF Go!Drop, Go!Answer
  <1>b. pc[t] = "close_wait" /\ call[t].id = sessionId[cur[t]]
    BY <1>a DEF CallInv, Go!Idle, UseOps, TypeOK, Points
  <1>c. cur[t] \in Clients /\ sessionId[cur[t]] \in Ids /\ t \in Inside(cur[t])
    BY <1>b DEF TypeOK, SessionInv, Inside
  \* The session is nobody else's.
  <1>d. \A c \in Clients : c # cur[t] => sessionId[c] # call[t].id
    BY <1>b, <1>c DEF SessionInv
  <1>e. \A u \in Threads : Created(u) => call[u].id # call[t].id
    BY <1>b, <1>c DEF SessionInv
  <1>1. TypeOK'
    BY <1>a, <1>b, <1>c DEF TypeOK, Go!TypeOK
  <1>2. RefInv'
    BY DEF RefInv, Inside
  <1>3. CallInv'
    BY <1>a, <1>b DEF CallInv, TypeOK, Go!TypeOK
  <1>4. SessionInv'
    BY <1>a, <1>b, <1>c, <1>d, <1>e
       DEF SessionInv, Created, Answered, RefInv, TypeOK, Go!TypeOK
  <1>5. FlagInv'
    BY <1>a, <1>b, <1>c, <1>d DEF FlagInv, Settled, Answered, Inside, TypeOK, Go!TypeOK
  <1>6. NoLeak'
    BY <1>a, <1>b, <1>c DEF NoLeak, Answered, TypeOK, Go!TypeOK
  <1>7. OverlapInv'
    <2> SUFFICES ASSUME NEW u \in Threads, Asking(u)', ~overlap[u]
                 PROVE  /\ \A v \in Inside(cur[u]) :
                              pc[v] \notin {"close", "close_wait", "close_flag"}
                        /\ status'[sessionId[cur[u]]] = "open"
      BY DEF OverlapInv, Inside
    <2>1. Asking(u)
      BY <1>a, <1>b DEF Asking, TypeOK, Go!TypeOK
    \* The close() of t would have left its mark on u.
    <2>2. cur[u] # cur[t]
      BY <1>b, <1>c, <2>1 DEF OverlapInv
    <2>3. cur[u] \in Clients
      BY <2>1 DEF Asking, TypeOK
    <2> QED
      BY <1>a, <1>d, <2>1, <2>2, <2>3 DEF OverlapInv, TypeOK, Go!TypeOK
  <1>8. MissOnlyIfOverlapped'
    BY <1>a DEF MissOnlyIfOverlapped, Answered, TypeOK, Go!TypeOK
  <1> QED
    BY <1>1, <1>2, <1>3, <1>4, <1>5, <1>6, <1>7, <1>8

LEMMA GoSettlesKeeps ==
    ASSUME IndInv, NEW t \in Threads, GoSettles(t)
    PROVE  IndInv'
  BY OpenKeeps, RefuseKeeps, FindKeeps, DropKeeps DEF GoSettles, PythonUnchanged

-----------------------------------------------------------------------------
LEMMA IndInvInit == Init => IndInv
  <1> SUFFICES ASSUME Init PROVE IndInv
    OBVIOUS
  <1> USE NothingAssumption DEF Init, Go!Init
  <1>1. TypeOK
    BY DEF TypeOK, Go!TypeOK, Go!Idle, Life, Points
  <1>2. RefInv /\ CallInv /\ SessionInv
    BY DEF RefInv, CallInv, SessionInv, Created, Answered, Inside, Go!Idle
  <1>3. FlagInv /\ NoLeak /\ OverlapInv /\ MissOnlyIfOverlapped
    BY DEF FlagInv, Settled, NoLeak, OverlapInv, Asking, MissOnlyIfOverlapped, Answered, Go!Idle
  <1> QED
    BY <1>1, <1>2, <1>3 DEF IndInv

LEMMA StutterKeeps == IndInv /\ UNCHANGED vars => IndInv'
  BY DEF IndInv, vars, goVars, objVars, TypeOK, Go!TypeOK, RefInv, Inside, CallInv, SessionInv,
         Created, Answered, FlagInv, Settled, NoLeak, OverlapInv, Asking, MissOnlyIfOverlapped

LEMMA RunStepKeeps ==
    ASSUME IndInv, NEW t \in Threads, RunStep(t)
    PROVE  IndInv'
  BY InitRaisesKeeps, InitCallsGoKeeps, InitReturnsKeeps, InitDoneKeeps, SendRequestKeeps,
     CallReturnsKeeps, FinalizeKeeps, SendCloseKeeps, CloseReturnsKeeps, CloseDoneKeeps,
     GoSettlesKeeps DEF RunStep

LEMMA DropRefKeeps ==
    ASSUME IndInv, NEW t \in Threads, NEW c \in Clients, DropRef(t, c)
    PROVE  IndInv'
  BY DropLastKeeps, DropOtherKeeps

LEMMA UserStepKeeps ==
    ASSUME IndInv, NEW t \in Threads, NEW c \in Clients, UserStep(t, c)
    PROVE  IndInv'
  BY ConstructKeeps, RequestKeeps, ConfigureKeeps, CloseKeeps, DropRefKeeps, ShareKeeps
     DEF UserStep

LEMMA IndInvStep == IndInv /\ [Next]_vars => IndInv'
  BY RunStepKeeps, UserStepKeeps, StutterKeeps DEF Next, AllDead

LEMMA Inductive == SafetySpec => []IndInv
  BY IndInvInit, IndInvStep, PTL DEF SafetySpec

(***************************************************************************)
(* Type correctness: every variable of the clients, of the threads in them *)
(* and of the store under them keeps its type.                             *)
(***************************************************************************)
THEOREM TypeCorrect == SafetySpec => []TypeOK
  BY Inductive, PTL DEF IndInv

LEMMA FlagFollows == IndInv => FlagMatchesSession
  BY DEF IndInv, FlagMatchesSession, FlagInv, SessionInv, Settled, Inside, Closing

(***************************************************************************)
(* An open client has an open session unless a close() of it is under way, *)
(* and a client marked closed has none (Client.close reads _closed, calls  *)
(* Go and only then sets it; __init__ clears it last).                     *)
(***************************************************************************)
THEOREM FlagIsTruthful == SafetySpec => []FlagMatchesSession
  BY Inductive, FlagFollows, PTL

(***************************************************************************)
(* Every open session belongs to a client or to a constructor about to     *)
(* take it, whatever exceptions __init__ raises and whoever drops the last *)
(* reference.                                                              *)
(***************************************************************************)
THEOREM SessionsDoNotLeak == SafetySpec => []NoLeak
  BY Inductive, PTL DEF IndInv

(***************************************************************************)
(* request() hears "session not found" only when a close() overlapped it.  *)
(***************************************************************************)
THEOREM MissesAreOverlaps == SafetySpec => []MissOnlyIfOverlapped
  BY Inductive, PTL DEF IndInv

(***************************************************************************)
(* __del__ never runs while another thread is in a method of the client.   *)
(***************************************************************************)
THEOREM FinalizersAreAlone == SafetySpec => []FinalizerIsAlone
  <1>1. IndInv => FinalizerIsAlone
    BY DEF IndInv, TypeOK, RefInv, Inside, FinalizerIsAlone
  <1> QED
    BY <1>1, Inductive, PTL

-----------------------------------------------------------------------------
(***************************************************************************)
(* What clients do to the Go side is what SessionStore allows its callers: *)
(* one call at a time for each thread, and only on identifiers that Go has *)
(* issued, however calls, close() and finalizers interleave (every method  *)
(* passes self._session_id, which __init__ sets last).                     *)
(***************************************************************************)
LEMMA CallsAreStoreCalls ==
    ASSUME IndInv, [Next]_vars
    PROVE  [Go!Next]_(Go!vars)
  <1> USE DEF IndInv, goVars
  <1>1. \A c \in Clients : sessionId[c] \in Ids => status[sessionId[c]] # "unused"
    BY DEF SessionInv
  <1>2. ASSUME NEW t \in Threads, InitCallsGo(t) PROVE Go!Next
    BY <1>2 DEF InitCallsGo, Go!Next
  <1>3. ASSUME NEW t \in Threads, InitReturns(t) \/ CallReturns(t) \/ CloseReturns(t) PROVE Go!Next
    BY <1>3 DEF InitReturns, CallReturns, CloseReturns, Go!Next
  <1>4. ASSUME NEW t \in Threads, SendRequest(t) PROVE Go!Next
    <2>1. cur[t] \in Clients /\ sessionId[cur[t]] \in Ids
      BY <1>4 DEF SendRequest, Goto, TypeOK, RefInv, SessionInv
    <2> QED
      BY <1>1, <1>4, <2>1 DEF SendRequest, Go!Next, Go!InvokeOn, UseOps
  <1>5. ASSUME NEW t \in Threads, NEW c \in Clients, Configure(t, c) PROVE Go!Next
    <2>1. sessionId[c] \in Ids
      BY <1>5 DEF Configure, SessionInv
    <2> QED
      BY <1>1, <1>5, <2>1 DEF Configure, Go!Next, Go!InvokeOn, UseOps
  <1>6. ASSUME NEW t \in Threads, SendClose(t) PROVE Go!Next
    <2>1. cur[t] \in Clients /\ sessionId[cur[t]] \in Ids
      BY <1>6, NothingAssumption DEF SendClose, Goto, TypeOK, SessionInv
    <2> QED
      BY <1>1, <1>6, <2>1 DEF SendClose, Go!Next, Go!InvokeOn
  <1>7. ASSUME NEW t \in Threads, GoSettles(t) PROVE Go!Next
    BY <1>7 DEF GoSettles, Go!Next
  <1>8. ASSUME NEW t \in Threads, InitRaises(t) \/ InitDone(t) \/ Finalize(t) \/ CloseDone(t)
        PROVE  UNCHANGED Go!vars
    BY <1>8 DEF InitRaises, InitDone, Finalize, CloseDone, Go!vars
  <1>9. ASSUME NEW t \in Threads, NEW c \in Clients,
               \/ Construct(t, c) \/ Request(t, c) \/ Close(t, c) \/ DropRef(t, c)
               \/ \E u \in Threads : Share(t, u, c)
        PROVE  UNCHANGED Go!vars
    BY <1>9 DEF Construct, Request, Close, DropRef, Share, Go!vars
  <1>10. CASE UNCHANGED vars \/ AllDead
    BY <1>10 DEF vars, AllDead, Go!vars
  <1> QED
    BY <1>2, <1>3, <1>4, <1>5, <1>6, <1>7, <1>8, <1>9, <1>10 DEF Next, RunStep, UserStep

(***************************************************************************)
(* Composition: every step of the clients calls the store as SessionStore  *)
(* lets it be called -- a session that exists, one call per thread -- or   *)
(* does not touch it.  What the registry is proved to implement is thus    *)
(* what the clients are proved to use.                                     *)
(***************************************************************************)
THEOREM ClientsUseTheStore == SafetySpec => Go!Spec
  <1>1. Init => Go!Init
    BY DEF Init
  <1> QED
    BY <1>1, Inductive, CallsAreStoreCalls, PTL DEF SafetySpec, Go!Spec
-----------------------------------------------------------------------------
(***************************************************************************)
(* AsyncClient, for any number of workers, clients, sessions and awaits.   *)
(***************************************************************************)
\* A client whose constructor has returned.
Constructed(c) == obj[c] \notin {"none", "building"}

\* Every item waits in the queue once, and belongs to a client that has had a session.
QueueInv ==
    /\ queue \in Seq(Awaits)
    /\ \A i, j \in 1 .. Len(queue) : queue[i] = queue[j] => i = j
    /\ DOMAIN item = Awaits /\ item = [a \in Awaits |-> item[a]]
    /\ \A a \in Awaits : state[a] # "free" =>
          Constructed(item[a].client) /\ sessionId[item[a].client] \in Ids
    /\ \A w \in Workers : job[w] # NoAwait => state[job[w]] \notin {"free", "queued"}

\* A close() that a worker has begun, and that no worker has any more, has set _closed.
CloseInv ==
    /\ \A a \in Awaits :
          state[a] \in {"finished", "answered"} /\ item[a].method = "close" =>
              closed[item[a].client]
    /\ \A w \in Workers :
          step[w] = "end" /\ item[job[w]].method = "close" =>
              \/ closed[item[job[w]].client]
              \/ /\ cur[w] = item[job[w]].client
                 /\ pc[w] \in {"close", "close_wait", "close_flag"}

PoolInv == AsyncTypeOK /\ QueueInv /\ CloseInv
AsyncInv == IndInv /\ PoolInv
-----------------------------------------------------------------------------
(***************************************************************************)
(* What every step of ClientLifecycle leaves true.                         *)
(***************************************************************************)
\* A client is constructed once, keeps its session, and is not opened again.
LEMMA ClosedForGood ==
    ASSUME IndInv, [Next]_vars, NEW c \in Clients, Constructed(c)
    PROVE  Constructed(c)' /\ (closed[c] => closed'[c]) /\ sessionId'[c] = sessionId[c]
  <1> USE NothingAssumption DEF IndInv, Constructed, goVars, objVars
  <1>1. ASSUME NEW t \in Threads, RunStep(t)
        PROVE  Constructed(c)' /\ (closed[c] => closed'[c]) /\ sessionId'[c] = sessionId[c]
    <2>1. pc[t] \in {"init", "init_wait", "init_flag"} => obj[cur[t]] = "building"
      BY DEF RefInv
    <2>2. CASE InitRaises(t) \/ InitReturns(t)
      BY <2>1, <2>2 DEF InitRaises, InitReturns, Abandon, Goto, TypeOK
    <2>3. CASE InitDone(t)
      BY <2>1, <2>3 DEF InitDone, Leave, TypeOK
    <2>4. CASE Finalize(t) \/ CloseDone(t)
      BY <2>4 DEF Finalize, CloseDone, Goto, Leave, TypeOK
    <2>5. CASE InitCallsGo(t) \/ SendRequest(t) \/ CallReturns(t) \/ SendClose(t)
               \/ CloseReturns(t) \/ GoSettles(t)
      BY <2>5 DEF InitCallsGo, SendRequest, CallReturns, SendClose, CloseReturns, GoSettles
    <2> QED
      BY <1>1, <2>2, <2>3, <2>4, <2>5 DEF RunStep
  <1>2. ASSUME NEW t \in Threads, NEW d \in Clients, UserStep(t, d)
        PROVE  Constructed(c)' /\ (closed[c] => closed'[c]) /\ sessionId'[c] = sessionId[c]
    <2>1. CASE Construct(t, d)
      BY <2>1 DEF Construct, TypeOK
    <2>2. CASE DropRef(t, d)
      BY <2>2 DEF DropRef, TypeOK
    <2>3. CASE Request(t, d) \/ Configure(t, d) \/ Close(t, d) \/ \E u \in Threads : Share(t, u, d)
      BY <2>3 DEF Request, Configure, Close, Share
    <2> QED
      BY <1>2, <2>1, <2>2, <2>3 DEF UserStep
  <1>3. CASE UNCHANGED vars
    BY <1>3 DEF vars
  <1> QED
    BY <1>1, <1>2, <1>3 DEF Next, AllDead

Closes(t, c) == cur[t] = c /\ pc[t] \in {"close", "close_wait", "close_flag"}

\* A thread leaves close() only when _closed is set.
LEMMA CloseRunsOn ==
    ASSUME IndInv, [Next]_vars, NEW t \in Threads, NEW c \in Clients, Closes(t, c)
    PROVE  Closes(t, c)' \/ closed'[c]
  <1> USE NothingAssumption DEF IndInv, Closes, goVars, objVars
  <1>1. ASSUME NEW u \in Threads, RunStep(u) PROVE Closes(t, c)' \/ closed'[c]
    <2>1. CASE CloseDone(u)
      BY <2>1 DEF CloseDone, Leave, TypeOK
    <2>2. CASE SendClose(u) \/ CloseReturns(u) \/ Finalize(u)
      BY <2>2 DEF SendClose, CloseReturns, Finalize, Goto, Leave, TypeOK
    <2>3. CASE InitRaises(u) \/ InitCallsGo(u) \/ InitReturns(u) \/ InitDone(u)
      BY <2>3 DEF InitRaises, InitCallsGo, InitReturns, InitDone, Abandon, Goto, Leave, TypeOK
    <2>4. CASE SendRequest(u) \/ CallReturns(u) \/ GoSettles(u)
      BY <2>4 DEF SendRequest, CallReturns, GoSettles, Goto, Leave, TypeOK
    <2> QED
      BY <1>1, <2>1, <2>2, <2>3, <2>4 DEF RunStep
  <1>2. ASSUME NEW u \in Threads, NEW d \in Clients, UserStep(u, d)
        PROVE  Closes(t, c)' \/ closed'[c]
    BY <1>2 DEF UserStep, Construct, Request, Configure, Close, DropRef, Share, Enter, TypeOK
  <1>3. CASE UNCHANGED vars
    BY <1>3 DEF vars
  <1> QED
    BY <1>1, <1>2, <1>3 DEF Next, AllDead

-----------------------------------------------------------------------------
(***************************************************************************)
(* The queue.                                                              *)
(***************************************************************************)
LEMMA SubmitToQueue ==
    ASSUME queue \in Seq(Awaits), NEW a \in Awaits, a \notin Queued,
           \A i, j \in 1 .. Len(queue) : queue[i] = queue[j] => i = j,
           queue' = Append(queue, a)
    PROVE  /\ queue' \in Seq(Awaits)
           /\ \A i, j \in 1 .. Len(queue') : queue'[i] = queue'[j] => i = j
           /\ Queued' = Queued \cup {a}
  <1>1. queue' \in Seq(Awaits) /\ Len(queue') = Len(queue) + 1
    BY AppendProperties
  <1>2. \A i \in 1 .. Len(queue) : queue'[i] = queue[i]
    BY AppendProperties
  <1>3. queue'[Len(queue) + 1] = a
    BY AppendProperties
  <1>4. /\ DOMAIN queue = 1 .. Len(queue) /\ DOMAIN queue' = 1 .. (Len(queue) + 1)
        /\ Len(queue) \in Nat
    BY <1>1, LenProperties
  <1> QED
    BY <1>1, <1>2, <1>3, <1>4 DEF Queued

LEMMA TakeFromQueue ==
    ASSUME queue \in Seq(Awaits), queue # <<>>,
           \A i, j \in 1 .. Len(queue) : queue[i] = queue[j] => i = j,
           queue' = Tail(queue)
    PROVE  /\ Head(queue) \in Awaits /\ Head(queue) \in Queued
           /\ queue' \in Seq(Awaits)
           /\ \A i, j \in 1 .. Len(queue') : queue'[i] = queue'[j] => i = j
           /\ Queued' = Queued \ {Head(queue)}
  <1>1. /\ Head(queue) \in Awaits /\ queue' \in Seq(Awaits)
        /\ Len(queue') = Len(queue) - 1
        /\ \A i \in 1 .. Len(queue') : queue'[i] = queue[i + 1]
    BY HeadTailProperties
  <1>2. Head(queue) = queue[1] /\ Len(queue) \in Nat /\ Len(queue) # 0
    BY EmptySeq, LenProperties
  <1>3. DOMAIN queue = 1 .. Len(queue) /\ DOMAIN queue' = 1 .. (Len(queue) - 1)
    BY <1>1, LenProperties
  <1>4. Queued' \subseteq Queued \ {Head(queue)}
    BY <1>1, <1>2, <1>3 DEF Queued
  <1>5. ASSUME NEW i \in 1 .. Len(queue), queue[i] # Head(queue) PROVE queue[i] \in Queued'
    <2>1. i - 1 \in DOMAIN queue' /\ queue'[i - 1] = queue[i]
      BY <1>1, <1>2, <1>3, <1>5
    <2> QED
      BY <2>1 DEF Queued
  <1> QED
    BY <1>1, <1>2, <1>3, <1>4, <1>5 DEF Queued
-----------------------------------------------------------------------------
(***************************************************************************)
(* Whatever the loop and the pool do is a step of ClientLifecycle.         *)
(***************************************************************************)
LEMMA ItemsAreTyped ==
    ASSUME AsyncInv
    PROVE  /\ \A a \in Awaits : state[a] # "free" =>
                 item[a] \in [client : Clients, method : Methods]
           /\ \A a \in Queued : a \in Awaits /\ state[a] # "free"
           /\ \A w \in Workers : step[w] # "none" =>
                 job[w] \in Awaits /\ state[job[w]] \notin {"free", "queued"}
  BY DEF AsyncInv, PoolInv, AsyncTypeOK, QueueInv

LEMMA PoolStepIsClientStep ==
    ASSUME AsyncInv, [AsyncNext]_asyncVars
    PROVE  [Next]_vars
  <1>0. Loop \in Threads /\ Workers \subseteq Threads
    BY AsyncAssumption DEF Workers
  <1>1. ASSUME NEW c \in Clients, ConstructOnLoop(c) \/ DropOnLoop(c) PROVE Next
    BY <1>0, <1>1 DEF ConstructOnLoop, DropOnLoop, Next, UserStep
  <1>2. ASSUME NEW a \in Awaits,
               \/ \E c \in Clients, m \in Methods : Submit(a, c, m)
               \/ Cancel(a) \/ Resume(a)
        PROVE  UNCHANGED vars
    BY <1>2 DEF Submit, Cancel, Resume
  <1>3. ASSUME NEW w \in Workers, Take(w) PROVE Next
    <2>1. Head(queue) \in Queued
      BY <1>3, TakeFromQueue, HeadTailProperties DEF Take, AsyncInv, PoolInv, QueueInv, Queued
    <2>2. item[Head(queue)].client \in Clients
      BY <2>1, ItemsAreTyped
    <2> QED
      BY <1>0, <1>3, <2>2 DEF Take, Next, UserStep
  <1>4. ASSUME NEW w \in Workers, Begin(w) PROVE Next \/ UNCHANGED vars
    <2>1. item[job[w]].client \in Clients
      BY <1>4, ItemsAreTyped DEF Begin
    <2> QED
      BY <1>0, <1>4, <2>1 DEF Begin, Next, UserStep
  <1>5. ASSUME NEW w \in Workers, SetResult(w) PROVE UNCHANGED vars
    BY <1>5 DEF SetResult
  <1>6. ASSUME NEW w \in Workers, Release(w) PROVE Next
    <2>1. item[job[w]].client \in Clients
      BY <1>6, ItemsAreTyped DEF Release
    <2> QED
      BY <1>0, <1>6, <2>1 DEF Release, Next, UserStep
  <1>7. ASSUME NEW t \in Threads, MethodStep(t) PROVE Next
    BY <1>7 DEF MethodStep, Next
  <1>8. CASE UNCHANGED asyncVars \/ AllDead
    BY <1>8 DEF asyncVars, AllDead
  <1> QED
    BY <1>1, <1>2, <1>3, <1>4, <1>5, <1>6, <1>7, <1>8 DEF AsyncNext, WorkerStep

-----------------------------------------------------------------------------
(***************************************************************************)
(* The pool's part of the invariant, one lemma per action.                 *)
(***************************************************************************)
\* What a step of the clients alone does to the promises about items.
LEMMA ClientStepKeepsItems ==
    ASSUME AsyncInv, [Next]_vars
    PROVE  /\ \A a \in Awaits : state[a] # "free" =>
                 /\ obj'[item[a].client] \notin {"none", "building"}
                 /\ closed[item[a].client] => closed'[item[a].client]
                 /\ sessionId'[item[a].client] \in Ids
           /\ \A w \in Workers, c \in Clients : Closes(w, c) => Closes(w, c)' \/ closed'[c]
  <1>1. IndInv
    BY DEF AsyncInv
  <1>2. ASSUME NEW c \in Clients, Constructed(c)
        PROVE  /\ obj'[c] \notin {"none", "building"}
               /\ closed[c] => closed'[c]
               /\ sessionId'[c] = sessionId[c]
    BY <1>1, <1>2, ClosedForGood DEF Constructed
  <1>3. ASSUME NEW a \in Awaits, state[a] # "free"
        PROVE  /\ item[a].client \in Clients /\ Constructed(item[a].client)
               /\ sessionId[item[a].client] \in Ids
    BY <1>3, ItemsAreTyped DEF AsyncInv, PoolInv, QueueInv
  <1>4. ASSUME NEW w \in Workers, NEW c \in Clients, Closes(w, c)
        PROVE  Closes(w, c)' \/ closed'[c]
    BY <1>1, <1>4, CloseRunsOn DEF Workers
  <1> QED
    BY <1>2, <1>3, <1>4

LEMMA ClientStepKeeps ==
    ASSUME AsyncInv, [Next]_vars, UNCHANGED poolVars
    PROVE  PoolInv'
  <1> USE ClientStepKeepsItems DEF AsyncInv, PoolInv, poolVars
  <1>1. AsyncTypeOK'
    BY IndInvStep DEF AsyncTypeOK, IndInv, Queued
  <1>2. QueueInv'
    BY ItemsAreTyped DEF QueueInv, Constructed
  <1>3. CloseInv'
    <2>1. \A w \in Workers : step[w] = "end" =>
              item[job[w]].client \in Clients /\ state[job[w]] # "free" /\ job[w] \in Awaits
      BY ItemsAreTyped
    <2> QED
      BY <2>1 DEF CloseInv, Closes
  <1> QED
    BY <1>1, <1>2, <1>3

LEMMA SubmitKeeps ==
    ASSUME AsyncInv, NEW a \in Awaits, NEW c \in Clients, NEW m \in Methods, Submit(a, c, m)
    PROVE  PoolInv'
  <1> USE DEF AsyncInv, PoolInv
  <1>a. /\ obj[c] = "live" /\ state[a] = "free"
        /\ state' = [state EXCEPT ![a] = "queued"]
        /\ item' = [item EXCEPT ![a] = [client |-> c, method |-> m]]
        /\ queue' = Append(queue, a)
        /\ UNCHANGED <<job, step, obj, closed, sessionId, cur, pc>>
    BY DEF Submit, vars, objVars
  <1>b. a \notin Queued
    BY <1>a, ItemsAreTyped
  <1>c. /\ queue' \in Seq(Awaits)
        /\ \A i, j \in 1 .. Len(queue') : queue'[i] = queue'[j] => i = j
        /\ Queued' = Queued \cup {a}
    BY <1>a, <1>b, SubmitToQueue DEF QueueInv
  <1>d. \A w \in Workers : job[w] # a
    <2>1. a # NoAwait
      BY AsyncAssumption DEF Awaits, NoAwait
    <2> QED
      BY <1>a, <2>1 DEF QueueInv
  <1>e. /\ item'[a] = [client |-> c, method |-> m] /\ state'[a] = "queued"
        /\ DOMAIN item' = Awaits /\ item' = [b \in Awaits |-> item'[b]]
        /\ \A b \in Awaits \ {a} : item'[b] = item[b] /\ state'[b] = state[b]
    BY <1>a DEF QueueInv, AsyncTypeOK, Constructed
  <1>f. sessionId[c] \in Ids
    BY <1>a DEF IndInv, SessionInv
  <1>1. AsyncTypeOK'
    <2>1. TypeOK'
      BY IndInvStep DEF Submit, IndInv
    <2> QED
      BY <1>a, <1>c, <1>d, <1>e, <2>1 DEF AsyncTypeOK
  <1>2. QueueInv'
    BY <1>a, <1>c, <1>d, <1>e, <1>f DEF QueueInv, AsyncTypeOK, Constructed
  <1>3. CloseInv'
    BY <1>a, <1>d, <1>e, ItemsAreTyped DEF CloseInv, AsyncTypeOK
  <1> QED
    BY <1>1, <1>2, <1>3

LEMMA CancelKeeps ==
    ASSUME AsyncInv, NEW a \in Awaits, Cancel(a)
    PROVE  PoolInv'
  <1> USE DEF AsyncInv, PoolInv
  <1>a. /\ Waiting(a)
        /\ state' = [state EXCEPT ![a] = "cancelled"]
        /\ UNCHANGED <<item, queue, job, step, obj, closed, sessionId, cur, pc, Queued>>
    BY DEF Cancel, vars, objVars, Queued
  <1>1. AsyncTypeOK'
    <2>1. TypeOK'
      BY IndInvStep DEF Cancel, IndInv
    <2> QED
      BY <1>a, <2>1 DEF AsyncTypeOK, Waiting
  <1>2. QueueInv'
    BY <1>a DEF QueueInv, AsyncTypeOK, Waiting, Constructed
  <1>3. CloseInv'
    BY <1>a DEF CloseInv, AsyncTypeOK
  <1> QED
    BY <1>1, <1>2, <1>3

LEMMA ResumeKeeps ==
    ASSUME AsyncInv, NEW a \in Awaits, Resume(a)
    PROVE  PoolInv'
  <1> USE DEF AsyncInv, PoolInv
  <1>a. /\ state[a] = "finished"
        /\ state' = [state EXCEPT ![a] = "answered"]
        /\ UNCHANGED <<item, queue, job, step, obj, closed, sessionId, cur, pc, Queued>>
    BY DEF Resume, vars, objVars, Queued
  <1>1. AsyncTypeOK'
    <2>1. TypeOK'
      BY IndInvStep DEF Resume, IndInv
    <2> QED
      BY <1>a, <2>1 DEF AsyncTypeOK
  <1>2. QueueInv'
    BY <1>a DEF QueueInv, AsyncTypeOK, Constructed
  <1>3. CloseInv'
    BY <1>a DEF CloseInv, AsyncTypeOK
  <1> QED
    BY <1>1, <1>2, <1>3

LEMMA TakeKeeps ==
    ASSUME AsyncInv, [Next]_vars, NEW w \in Workers, Take(w)
    PROVE  PoolInv'
  <1> USE DEF AsyncInv, PoolInv
  <1> DEFINE a == Head(queue)
  <1>a. /\ job[w] = NoAwait /\ queue # <<>>
        /\ job' = [job EXCEPT ![w] = a]
        /\ step' = [step EXCEPT ![w] = IF state[a] = "cancelled" THEN "release" ELSE "run"]
        /\ state' = [state EXCEPT ![a] = IF @ = "cancelled" THEN @ ELSE "running"]
        /\ queue' = Tail(queue)
        /\ UNCHANGED <<item, obj, closed, sessionId, cur, pc>>
    BY DEF Take, Share
  <1>b. /\ a \in Awaits /\ a \in Queued
        /\ queue' \in Seq(Awaits)
        /\ \A i, j \in 1 .. Len(queue') : queue'[i] = queue'[j] => i = j
        /\ Queued' = Queued \ {a}
    BY <1>a, TakeFromQueue DEF QueueInv
  <1>c. state[a] \in {"queued", "cancelled"}
    BY <1>b DEF AsyncTypeOK
  <1>d. \A v \in Workers : job[v] # a
    BY <1>b DEF AsyncTypeOK
  <1>e. a # NoAwait
    BY <1>b, AsyncAssumption DEF Awaits, NoAwait
  <1> HIDE DEF a
  <1>1. AsyncTypeOK'
    <2>1. TypeOK'
      BY IndInvStep DEF IndInv
    <2> QED
      BY <1>a, <1>b, <1>c, <1>e, <2>1 DEF AsyncTypeOK
  <1>2. QueueInv'
    BY <1>a, <1>b, <1>c, <1>d DEF QueueInv, AsyncTypeOK, Constructed
  <1>3. CloseInv'
    BY <1>a, <1>b, <1>c, <1>d DEF CloseInv, AsyncTypeOK
  <1> QED
    BY <1>1, <1>2, <1>3

LEMMA BeginKeeps ==
    ASSUME AsyncInv, [Next]_vars, NEW w \in Workers, Begin(w)
    PROVE  PoolInv'
  <1> USE DEF AsyncInv, PoolInv
  <1>a. /\ step[w] = "run"
        /\ step' = [step EXCEPT ![w] = "end"]
        /\ UNCHANGED <<state, item, queue, job, Queued>>
    BY DEF Begin, Queued
  <1>b. job[w] \in Awaits /\ item[job[w]].client \in Clients /\ state[job[w]] # "free"
    BY <1>a, ItemsAreTyped
  <1>c. item[job[w]].method = "close" =>
            closed'[item[job[w]].client] \/ Closes(w, item[job[w]].client)'
    BY <1>b DEF Begin, Close, Request, Configure, Enter, vars, objVars, Closes, IndInv, TypeOK,
                Workers
  <1>1. AsyncTypeOK'
    <2>1. TypeOK'
      BY IndInvStep DEF IndInv
    <2> QED
      BY <1>a, <1>b, <2>1 DEF AsyncTypeOK
  <1>2. QueueInv'
    BY <1>a, ClientStepKeepsItems DEF QueueInv, Constructed
  <1>3. CloseInv'
    <2>1. \A v \in Workers : step[v] = "end" =>
              item[job[v]].client \in Clients /\ state[job[v]] # "free" /\ job[v] \in Awaits
      BY ItemsAreTyped
    <2> QED
      BY <1>a, <1>c, <2>1, ClientStepKeepsItems DEF CloseInv, Closes, AsyncTypeOK
  <1> QED
    BY <1>1, <1>2, <1>3

LEMMA SetResultKeeps ==
    ASSUME AsyncInv, NEW w \in Workers, SetResult(w)
    PROVE  PoolInv'
  <1> USE DEF AsyncInv, PoolInv
  <1>a. /\ step[w] = "end" /\ pc[w] = "idle"
        /\ step' = [step EXCEPT ![w] = "release"]
        /\ state' = [state EXCEPT ![job[w]] = IF @ = "running" THEN "finished" ELSE @]
        /\ UNCHANGED <<item, queue, job, obj, closed, sessionId, cur, pc, Queued>>
    BY DEF SetResult, vars, objVars, Queued
  <1>b. job[w] \in Awaits /\ state[job[w]] \notin {"free", "queued"}
    BY <1>a, ItemsAreTyped
  <1>1. AsyncTypeOK'
    <2>1. TypeOK'
      BY IndInvStep DEF SetResult, IndInv
    <2> QED
      BY <1>a, <1>b, <2>1 DEF AsyncTypeOK
  <1>2. QueueInv'
    BY <1>a, <1>b DEF QueueInv, AsyncTypeOK, Constructed
  <1>3. CloseInv'
    BY <1>a, <1>b DEF CloseInv, AsyncTypeOK
  <1> QED
    BY <1>1, <1>2, <1>3

LEMMA ReleaseKeeps ==
    ASSUME AsyncInv, [Next]_vars, NEW w \in Workers, Release(w)
    PROVE  PoolInv'
  <1> USE DEF AsyncInv, PoolInv
  <1>a. /\ step[w] = "release"
        /\ step' = [step EXCEPT ![w] = "none"]
        /\ job' = [job EXCEPT ![w] = NoAwait]
        /\ UNCHANGED <<state, item, queue, Queued>>
    BY DEF Release, Queued
  <1>1. AsyncTypeOK'
    <2>1. TypeOK'
      BY IndInvStep DEF IndInv
    <2>2. NoAwait \notin Queued
      BY AsyncAssumption DEF AsyncTypeOK, Awaits, NoAwait
    <2> QED
      BY <1>a, <2>1, <2>2 DEF AsyncTypeOK
  <1>2. QueueInv'
    BY <1>a, ClientStepKeepsItems DEF QueueInv, Constructed, AsyncTypeOK
  <1>3. CloseInv'
    <2>1. \A v \in Workers : step[v] = "end" =>
              item[job[v]].client \in Clients /\ state[job[v]] # "free" /\ job[v] \in Awaits
      BY ItemsAreTyped
    <2> QED
      BY <1>a, <2>1, ClientStepKeepsItems DEF CloseInv, Closes, AsyncTypeOK
  <1> QED
    BY <1>1, <1>2, <1>3

-----------------------------------------------------------------------------
LEMMA AsyncInvInit == AsyncInit => AsyncInv
  <1> SUFFICES ASSUME AsyncInit PROVE AsyncInv
    OBVIOUS
  <1>1. IndInv
    BY IndInvInit DEF AsyncInit
  <1>2. queue = <<>> /\ queue \in Seq(Awaits) /\ Len(queue) = 0 /\ Queued = {}
    BY EmptySeq DEF AsyncInit, Queued
  <1>3. PoolInv
    BY <1>1, <1>2, AsyncAssumption
       DEF AsyncInit, PoolInv, AsyncTypeOK, QueueInv, CloseInv, IndInv, NoAwait, Awaits
  <1> QED
    BY <1>1, <1>3 DEF AsyncInv

LEMMA AsyncInvStep == AsyncInv /\ [AsyncNext]_asyncVars => AsyncInv'
  <1> SUFFICES ASSUME AsyncInv, [AsyncNext]_asyncVars PROVE AsyncInv'
    OBVIOUS
  <1>1. [Next]_vars
    BY PoolStepIsClientStep
  <1>2. IndInv'
    BY <1>1, IndInvStep DEF AsyncInv
  <1>3. PoolInv'
    <2>1. CASE \E c \in Clients : ConstructOnLoop(c) \/ DropOnLoop(c)
      BY <1>1, <2>1, ClientStepKeeps DEF ConstructOnLoop, DropOnLoop
    <2>2. CASE \E a \in Awaits : \/ \E c \in Clients, m \in Methods : Submit(a, c, m)
                                 \/ Cancel(a) \/ Resume(a)
      BY <2>2, SubmitKeeps, CancelKeeps, ResumeKeeps
    <2>3. CASE \E w \in Workers : WorkerStep(w)
      BY <1>1, <2>3, TakeKeeps, BeginKeeps, SetResultKeeps, ReleaseKeeps DEF WorkerStep
    <2>4. CASE \E t \in Threads : MethodStep(t)
      BY <1>1, <2>4, ClientStepKeeps DEF MethodStep
    <2>5. CASE (AllDead /\ UNCHANGED poolVars) \/ UNCHANGED asyncVars
      BY <1>1, <2>5, ClientStepKeeps DEF asyncVars
    <2> QED
      BY <2>1, <2>2, <2>3, <2>4, <2>5 DEF AsyncNext
  <1> QED
    BY <1>2, <1>3 DEF AsyncInv

AsyncSafety == AsyncInit /\ [][AsyncNext]_asyncVars

LEMMA AsyncInductive == AsyncSafety => []AsyncInv
  BY AsyncInvInit, AsyncInvStep, PTL DEF AsyncSafety

LEMMA SpecIsSafe == AsyncSpec => AsyncSafety
  BY DEF AsyncSpec, AsyncSafety

(***************************************************************************)
(* Type correctness: the variables of the loop and of the pool keep their  *)
(* types, no item is in the queue and with a worker at the same time, and  *)
(* those of the clients keep theirs.                                       *)
(***************************************************************************)
THEOREM AsyncTypes == AsyncSpec => []AsyncTypeOK
  BY AsyncInductive, SpecIsSafe, PTL DEF AsyncInv, PoolInv

(***************************************************************************)
(* Refinement: AsyncClient is a user of Client like any other.  Every step *)
(* of the loop or of a worker, cancellation included, is a step threads    *)
(* may take with clients or leaves the clients alone.                      *)
(***************************************************************************)
THEOREM AsyncClientsAreClients == AsyncSpec => SafetySpec
  <1>1. AsyncInit => Init
    BY DEF AsyncInit
  <1>2. AsyncInv /\ [AsyncNext]_asyncVars => [Next]_vars
    BY PoolStepIsClientStep
  <1> QED
    BY <1>1, <1>2, AsyncInductive, SpecIsSafe, PTL DEF AsyncSafety, SafetySpec

(***************************************************************************)
(* With that, what holds of clients holds of AsyncClients: no session      *)
(* leaks, however awaits are cancelled, and "session not found" reaches an *)
(* await of request() only if a close() overlapped it.                     *)
(***************************************************************************)
THEOREM AsyncSessionsDoNotLeak == AsyncSpec => [](NoLeak /\ MissOnlyIfOverlapped)
  BY AsyncInductive, SpecIsSafe, PTL DEF AsyncInv, IndInv

(***************************************************************************)
(* When "await client.close()" has an answer the session is closed in the  *)
(* store, whoever closed it.                                               *)
(***************************************************************************)
THEOREM AwaitedCloseHasClosed == AsyncSpec => []AwaitedCloseCloses
  <1>1. ASSUME AsyncInv PROVE AwaitedCloseCloses
    <2> USE <1>1 DEF AsyncInv, PoolInv
    <2> SUFFICES ASSUME NEW a \in Awaits, state[a] \in {"finished", "answered"},
                        item[a].method = "close"
                 PROVE  status[sessionId[item[a].client]] = "closed"
      BY DEF AwaitedCloseCloses
    <2>1. item[a].client \in Clients
      BY ItemsAreTyped
    <2>2. /\ closed[item[a].client] /\ sessionId[item[a].client] \in Ids
          /\ obj[item[a].client] # "building"
      BY DEF CloseInv, QueueInv, Constructed
    <2> QED
      BY <2>1, <2>2 DEF IndInv, FlagInv
  <1> QED
    BY <1>1, AsyncInductive, SpecIsSafe, PTL
=============================================================================
