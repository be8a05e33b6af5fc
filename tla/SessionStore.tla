---------------------------- MODULE SessionStore ----------------------------
(***************************************************************************)
(* What the Go half of httpz promises to its callers, as an atomic store   *)
(* of sessions (go/session_manager.go, go/main.go).                        *)
(*                                                                         *)
(* A caller creates a session and gets a fresh identifier, or an error and *)
(* no session; it uses a session by its identifier and is told whether the *)
(* session was open at some moment of the call; it closes one, after which *)
(* that identifier never names an open session again.  SessionRegistry is  *)
(* shown to implement this module.                                         *)
(***************************************************************************)
CONSTANTS
    Threads,  \* the callers
    Ids,      \* session identifiers
    NoId,     \* the identifier of a call that has none (yet)
    UseOps    \* the operations that look a session up and work on it

VARIABLES
    status,   \* status[id]: has id been issued, is its session open?
    call      \* call[t]: the operation t is in, and its answer

vars == <<status, call>>

Idle == [phase |-> "idle", op |-> "none", id |-> NoId, ok |-> FALSE]

TypeOK ==
    /\ status \in [Ids -> {"unused", "open", "closed"}]
    /\ call \in [Threads -> [phase : {"idle", "called", "answered"},
                             op    : UseOps \cup {"none", "create", "close"},
                             id    : Ids \cup {NoId},
                             ok    : BOOLEAN]]

Init ==
    /\ status = [id \in Ids |-> "unused"]
    /\ call = [t \in Threads |-> Idle]

Invoke(t, o, i) ==
    /\ call[t] = Idle
    /\ call' = [call EXCEPT ![t] = [phase |-> "called", op |-> o, id |-> i, ok |-> FALSE]]
    /\ UNCHANGED status

InvokeCreate(t) == Invoke(t, "create", NoId)

\* Only an identifier that was issued can be used or closed; it may be stale.
InvokeOn(t, o) == \E i \in Ids : status[i] # "unused" /\ Invoke(t, o, i)

Answer(t, o, i, ok) ==
    /\ call[t].phase = "called"
    /\ call[t].op = o
    /\ call' = [call EXCEPT ![t] = [phase |-> "answered", op |-> o, id |-> i, ok |-> ok]]

\* A session is created under an identifier no session ever had.
Open(t) ==
    \E i \in Ids :
        /\ status[i] = "unused"
        /\ Answer(t, "create", i, TRUE)
        /\ status' = [status EXCEPT ![i] = "open"]

\* The configuration was refused: an error, and no session.
Refuse(t) ==
    /\ Answer(t, "create", NoId, FALSE)
    /\ UNCHANGED status

\* A use finds the session exactly when it is open.
Find(t, o) ==
    /\ Answer(t, o, call[t].id, status[call[t].id] = "open")
    /\ UNCHANGED status

Drop(t) ==
    /\ Answer(t, "close", call[t].id, TRUE)
    /\ status' = [status EXCEPT ![call[t].id] = "closed"]

Return(t) ==
    /\ call[t].phase = "answered"
    /\ call' = [call EXCEPT ![t] = Idle]
    /\ UNCHANGED status

Next ==
    \E t \in Threads :
        \/ InvokeCreate(t)
        \/ \E o \in UseOps \cup {"close"} : InvokeOn(t, o)
        \/ Open(t)
        \/ Refuse(t)
        \/ \E o \in UseOps : Find(t, o)
        \/ Drop(t)
        \/ Return(t)

Spec == Init /\ [][Next]_vars

(***************************************************************************)
(* An identifier's life has one direction: unused, open, closed            *)
(* (session_manager.go counts nextID up and never takes one back).         *)
(***************************************************************************)
OneLife ==
    [][\A i \in Ids : /\ status[i] = "closed" => status'[i] = "closed"
                      /\ status'[i] = "unused" => status[i] = "unused"]_vars
=============================================================================
