----------------------------- MODULE AsyncPool -----------------------------
(***************************************************************************)
(* AsyncClient (httpz/async_client.py) over ClientLifecycle: every method  *)
(* is awaited through asyncio.to_thread, which queues it for the event     *)
(* loop's pool of worker threads.  An await can be cancelled: a method     *)
(* that waits in the queue is then skipped, one that a worker has begun    *)
(* runs to its end and its result is dropped.                              *)
(*                                                                         *)
(* The constructor and the finalizer of a client are not awaited: they run *)
(* on the thread that creates it, the loop's, or drops it.  A queued       *)
(* method keeps its client alive; in this module the loop keeps its own    *)
(* reference until the worker has one.                                     *)
(***************************************************************************)
EXTENDS ClientLifecycle, Sequences

CONSTANTS
    Loop,      \* the thread of the event loop; the other threads are the pool's
    MaxAwaits  \* bound: the number of awaited calls

ASSUME AsyncAssumption == Loop \in Threads /\ MaxAwaits \in Nat

Workers == Threads \ {Loop}
Awaits == 1 .. MaxAwaits
NoAwait == 0
Methods == {"request", "config", "close"}

VARIABLES
    state,  \* state[a]: what has become of the await
    item,   \* item[a]: the client and the method
    queue,  \* the pool's work queue
    job,    \* job[w]: the await worker w works for
    step    \* step[w]: where w is in its job

poolVars == <<state, item, queue, job, step>>
asyncVars == <<vars, poolVars>>

\* The awaits somebody still waits for.
Waiting(a) == state[a] \in {"queued", "running", "finished"}
Queued == {queue[i] : i \in DOMAIN queue}

AsyncTypeOK ==
    /\ TypeOK
    /\ state \in [Awaits -> {"free", "queued", "running", "finished", "answered", "cancelled"}]
    /\ \A a \in Awaits : state[a] = "free" \/ item[a] \in [client : Clients, method : Methods]
    /\ Queued \subseteq {a \in Awaits : state[a] \in {"queued", "cancelled"}}
    /\ job \in [Workers -> Awaits \cup {NoAwait}]
    /\ step \in [Workers -> {"none", "run", "end", "release"}]
    /\ \A w \in Workers : job[w] \notin Queued
    /\ \A w \in Workers : step[w] = "none" <=> job[w] = NoAwait

AsyncInit ==
    /\ Init
    /\ state = [a \in Awaits |-> "free"]
    /\ item = [a \in Awaits |-> NoAwait]
    /\ queue = <<>>
    /\ job = [w \in Workers |-> NoAwait]
    /\ step = [w \in Workers |-> "none"]

(***************************************************************************)
(* The event loop, which does nothing else while it is inside a method.    *)
(***************************************************************************)
LoopIsFree == pc[Loop] = "idle"

ConstructOnLoop(c) == Construct(Loop, c) /\ UNCHANGED poolVars

Submit(a, c, m) ==
    /\ LoopIsFree
    /\ obj[c] = "live" /\ Loop \in refs[c]
    /\ state[a] = "free"
    /\ \A b \in 1 .. (a - 1) : state[b] # "free"
    /\ state' = [state EXCEPT ![a] = "queued"]
    /\ item' = [item EXCEPT ![a] = [client |-> c, method |-> m]]
    /\ queue' = Append(queue, a)
    /\ UNCHANGED <<vars, job, step>>

Cancel(a) ==
    /\ LoopIsFree
    /\ Waiting(a)
    /\ state' = [state EXCEPT ![a] = "cancelled"]
    /\ UNCHANGED <<vars, item, queue, job, step>>

\* The coroutine that awaits goes on with the result or the exception.
Resume(a) ==
    /\ LoopIsFree
    /\ state[a] = "finished"
    /\ state' = [state EXCEPT ![a] = "answered"]
    /\ UNCHANGED <<vars, item, queue, job, step>>

\* The last variable on the loop's side that refers to the client.
DropOnLoop(c) ==
    /\ LoopIsFree
    /\ \A a \in Awaits : Waiting(a) \/ a \in Queued => item[a].client # c
    /\ DropRef(Loop, c)
    /\ UNCHANGED poolVars

(***************************************************************************)
(* The workers of the pool.                                                *)
(***************************************************************************)
\* A worker that leaves the item in the queue until it is done.
Mut_Take(w) ==
    /\ job[w] = NoAwait /\ pc[w] = "idle"
    /\ queue # <<>>
    /\ LET a == Head(queue)
       IN  /\ Share(Loop, w, item[a].client)
           /\ job' = [job EXCEPT ![w] = a]
           /\ step' = [step EXCEPT ![w] = IF state[a] = "cancelled" THEN "release" ELSE "run"]
           /\ state' = [state EXCEPT ![a] = IF @ = "cancelled" THEN @ ELSE "running"]
    /\ UNCHANGED <<item, queue>>

Take(w) ==
    /\ job[w] = NoAwait /\ pc[w] = "idle"
    /\ queue # <<>>
    /\ LET a == Head(queue)
       IN  /\ Share(Loop, w, item[a].client)
           /\ job' = [job EXCEPT ![w] = a]
           /\ step' = [step EXCEPT ![w] = IF state[a] = "cancelled" THEN "release" ELSE "run"]
           /\ state' = [state EXCEPT ![a] = IF @ = "cancelled" THEN @ ELSE "running"]
    /\ queue' = Tail(queue)
    /\ UNCHANGED item

\* An exception out of the method that ends the worker's job without a result.
Mut_Begin(w) ==
    /\ step[w] = "run"
    /\ LET c == item[job[w]].client
           m == item[job[w]].method
       IN  \/ /\ step' = [step EXCEPT ![w] = "end"]
              /\ \/ m = "request" /\ Request(w, c)
                 \/ m = "config" /\ Configure(w, c)
                 \/ m = "close" /\ Close(w, c)
           \/ /\ step' = [step EXCEPT ![w] = "release"]
              /\ m # "config" /\ closed[c] /\ UNCHANGED vars
    /\ UNCHANGED <<state, item, queue, job>>

\* On a closed client request() raises and close() has nothing to do.
Begin(w) ==
    /\ step[w] = "run"
    /\ LET c == item[job[w]].client
           m == item[job[w]].method
       IN  \/ m = "request" /\ Request(w, c)
           \/ m = "config" /\ Configure(w, c)
           \/ m = "close" /\ Close(w, c)
           \/ m # "config" /\ closed[c] /\ UNCHANGED vars
    /\ step' = [step EXCEPT ![w] = "end"]
    /\ UNCHANGED <<state, item, queue, job>>

\* The method has returned or raised; nobody is told if the await was cancelled.
SetResult(w) ==
    /\ step[w] = "end" /\ pc[w] = "idle"
    /\ step' = [step EXCEPT ![w] = "release"]
    /\ state' = [state EXCEPT ![job[w]] = IF @ = "running" THEN "finished" ELSE @]
    /\ UNCHANGED <<vars, item, queue, job>>

\* The work item is deleted, which may finalize the client on this thread.
Release(w) ==
    /\ step[w] = "release"
    /\ DropRef(w, item[job[w]].client)
    /\ step' = [step EXCEPT ![w] = "none"]
    /\ job' = [job EXCEPT ![w] = NoAwait]
    /\ UNCHANGED <<state, item, queue>>

WorkerStep(w) == Take(w) \/ Begin(w) \/ SetResult(w) \/ Release(w)
MethodStep(t) == RunStep(t) /\ UNCHANGED poolVars

AsyncNext ==
    \/ \E c \in Clients : ConstructOnLoop(c) \/ DropOnLoop(c)
    \/ \E a \in Awaits :
          \/ \E c \in Clients, m \in Methods : Submit(a, c, m)
          \/ Cancel(a) \/ Resume(a)
    \/ \E w \in Workers : WorkerStep(w)
    \/ \E t \in Threads : MethodStep(t)
    \/ AllDead /\ UNCHANGED poolVars

\* Threads are scheduled, foreign calls end, and the loop runs what is ready.
AsyncFairness ==
    /\ \A t \in Threads : WF_asyncVars(MethodStep(t))
    /\ \A w \in Workers : WF_asyncVars(WorkerStep(w))
    /\ \A a \in Awaits : WF_asyncVars(Resume(a))

AsyncSpec == AsyncInit /\ [][AsyncNext]_asyncVars /\ AsyncFairness

-----------------------------------------------------------------------------
(***************************************************************************)
(* Every await is answered, by a result, an exception or its cancellation, *)
(* also when there are more of them than workers and when the client is    *)
(* closed under them.                                                      *)
(***************************************************************************)
AwaitsAnswered ==
    \A a \in Awaits : state[a] = "queued" ~> state[a] \in {"answered", "cancelled"}

(***************************************************************************)
(* When "await client.close()" returns, the session is closed, although    *)
(* another close() or requests may be under way in other workers and       *)
(* although close() itself may have found nothing to do.                   *)
(***************************************************************************)
AwaitedCloseCloses ==
    \A a \in Awaits :
        state[a] \in {"finished", "answered"} /\ item[a].method = "close" =>
            status[sessionId[item[a].client]] = "closed"
=============================================================================
