----------------------------- MODULE BridgeCall -----------------------------
(***************************************************************************)
(* The foreign-function bridge (httpz/_bridge.py): how threads come by the *)
(* one Bridge of the process, and how a call's reply, a C string the Go    *)
(* side allocated (go/main.go, returnJSON), is read and freed.             *)
(*                                                                         *)
(* The interpreter lock is free while a library is loaded and during every *)
(* foreign call, so the steps of threads interleave.  An address that was  *)
(* freed may be handed out again for another thread's reply.  A reply is   *)
(* the text of a result, no JSON at all, or an error message, of which     *)
(* only the words _classify_error looks for count.                         *)
(***************************************************************************)
EXTENDS FiniteSets

CONSTANTS
    Threads,    \* Python threads
    NoThread,   \* nobody
    Bridges,    \* Bridge objects
    NoBridge,   \* None
    Addresses,  \* where the C allocator can put replies
    NoAddress,  \* NULL
    Replies,    \* what Go may answer: records of a kind and the words in the message
    NoReply     \* no answer yet; the content of free memory

Words == {"timeout", "deadline", "proxy", "too many redirect", "redirect", "max",
          "no such host", "connection refused", "dial"}

ASSUME ReplyAssumption ==
    /\ Replies \subseteq [kind : {"result", "garbage", "error"}, words : SUBSET Words]
    /\ NoReply \notin Replies
ASSUME NothingAssumption ==
    NoThread \notin Threads /\ NoBridge \notin Bridges /\ NoAddress \notin Addresses

VARIABLES
    instance,  \* Bridge._instance
    loaded,    \* the objects whose _load has finished
    inst,      \* inst[t]: the object t is constructing
    bridge,    \* bridge[t]: the bridge of t's client
    pc,        \* where a thread is in __new__ or _call
    ptr,       \* ptr[t]: the reply t has got
    owner,     \* owner[a]: the thread for whose call a is allocated now
    mem,       \* mem[a]: what is written there
    said,      \* said[t]: what Go answered to the last call of t (history)
    got        \* got[t]: what that call makes of the reply it has read

newVars == <<instance, loaded, inst>>
replyVars == <<ptr, owner, mem, said, got>>
vars == <<newVars, bridge, pc, replyVars>>

Outcomes == {"result", "TransportError", "TimeoutError", "ProxyError", "TooManyRedirects",
             "ConnectionError", "BridgeError"}

TypeOK ==
    /\ instance \in Bridges \cup {NoBridge}
    /\ loaded \subseteq Bridges
    /\ inst \in [Threads -> Bridges \cup {NoBridge}]
    /\ bridge \in [Threads -> Bridges \cup {NoBridge}]
    /\ pc \in [Threads -> {"idle", "load", "publish", "return", "ready", "decode", "free"}]
    /\ ptr \in [Threads -> Addresses \cup {NoAddress}]
    /\ owner \in [Addresses -> Threads \cup {NoThread}]
    /\ mem \in [Addresses -> Replies \cup {NoReply}]
    /\ \A a \in Addresses : mem[a] = NoReply <=> owner[a] = NoThread
    /\ said \in [Threads -> Replies \cup {NoReply}]
    /\ got \in [Threads -> Outcomes \cup {NoReply}]

Init ==
    /\ instance = NoBridge
    /\ loaded = {}
    /\ inst = [t \in Threads |-> NoBridge]
    /\ bridge = [t \in Threads |-> NoBridge]
    /\ pc = [t \in Threads |-> "idle"]
    /\ ptr = [t \in Threads |-> NoAddress]
    /\ owner = [a \in Addresses |-> NoThread]
    /\ mem = [a \in Addresses |-> NoReply]
    /\ said = [t \in Threads |-> NoReply]
    /\ got = [t \in Threads |-> NoReply]

Goto(t, from, to) == pc[t] = from /\ pc' = [pc EXCEPT ![t] = to]

(***************************************************************************)
(* Bridge().                                                               *)
(***************************************************************************)
\* An object that no variable of the program refers to.
Fresh(b) == b # instance /\ \A u \in Threads : b # inst[u] /\ b # bridge[u]

\* The instance published before it is loaded, as a lock-free singleton often is.
Mut_CheckInstance(t) ==
    \/ /\ instance = NoBridge
       /\ Goto(t, "idle", "load")
       /\ \E b \in Bridges :
             /\ Fresh(b)
             /\ inst' = [inst EXCEPT ![t] = b]
             /\ loaded' = loaded \ {b}
             /\ instance' = b
       /\ UNCHANGED <<bridge, replyVars>>
    \/ /\ instance # NoBridge
       /\ Goto(t, "idle", "return")
       /\ UNCHANGED <<newVars, bridge, replyVars>>

CheckInstance(t) ==
    \/ /\ instance = NoBridge
       /\ Goto(t, "idle", "load")
       /\ \E b \in Bridges :
             /\ Fresh(b)
             /\ inst' = [inst EXCEPT ![t] = b]
             /\ loaded' = loaded \ {b}
       /\ UNCHANGED <<instance, bridge, replyVars>>
    \/ /\ instance # NoBridge
       /\ Goto(t, "idle", "return")
       /\ UNCHANGED <<newVars, bridge, replyVars>>

\* _load: the library may be missing or unusable, which raises out of __new__.
Load(t) ==
    /\ \/ /\ Goto(t, "load", "publish")
          /\ loaded' = loaded \cup {inst[t]}
          /\ UNCHANGED inst
       \/ /\ Goto(t, "load", "idle")
          /\ inst' = [inst EXCEPT ![t] = NoBridge]
          /\ UNCHANGED loaded
    /\ UNCHANGED <<instance, bridge, replyVars>>

Publish(t) ==
    /\ Goto(t, "publish", "return")
    /\ instance' = inst[t]
    /\ inst' = [inst EXCEPT ![t] = NoBridge]
    /\ UNCHANGED <<loaded, bridge, replyVars>>

\* return cls._instance: not necessarily the object this thread has loaded.
ReturnInstance(t) ==
    /\ Goto(t, "return", "ready")
    /\ bridge' = [bridge EXCEPT ![t] = instance]
    /\ UNCHANGED <<newVars, replyVars>>

\* The client goes away; the thread may construct another.
DropClient(t) ==
    /\ Goto(t, "ready", "idle")
    /\ bridge' = [bridge EXCEPT ![t] = NoBridge]
    /\ said' = [said EXCEPT ![t] = NoReply]
    /\ got' = [got EXCEPT ![t] = NoReply]
    /\ UNCHANGED <<newVars, ptr, owner, mem>>

(***************************************************************************)
(* _call.                                                                  *)
(***************************************************************************)
\* _classify_error: the first word found decides.
ErrorClass(words) ==
    IF words \cap {"timeout", "deadline"} # {} THEN "TimeoutError"
    ELSE IF "proxy" \in words THEN "ProxyError"
    ELSE IF "too many redirect" \in words \/ {"redirect", "max"} \subseteq words
         THEN "TooManyRedirects"
    ELSE IF words \cap {"no such host", "connection refused", "dial"} # {} THEN "ConnectionError"
    ELSE "BridgeError"

\* What _call makes of a reply: the result, or the exception it raises.
Outcome(reply) ==
    CASE reply.kind = "result" -> "result"
      [] reply.kind = "garbage" -> "TransportError"
      [] reply.kind = "error" -> ErrorClass(reply.words)

\* A function declared to return c_char_p: ctypes copies the string and drops the pointer.
Mut_GoReturns(t) ==
    /\ Goto(t, "ready", "decode")
    /\ \E a \in Addresses, reply \in Replies :
          /\ owner[a] = NoThread
          /\ owner' = [owner EXCEPT ![a] = t]
          /\ mem' = [mem EXCEPT ![a] = reply]
          /\ said' = [said EXCEPT ![t] = reply]
    /\ got' = [got EXCEPT ![t] = NoReply]
    /\ ptr' = [ptr EXCEPT ![t] = "a copy"]
    /\ UNCHANGED <<newVars, bridge>>

\* The Go function allocates and returns its reply.
GoReturns(t) ==
    /\ Goto(t, "ready", "decode")
    /\ \E a \in Addresses, reply \in Replies :
          /\ owner[a] = NoThread
          /\ owner' = [owner EXCEPT ![a] = t]
          /\ ptr' = [ptr EXCEPT ![t] = a]
          /\ mem' = [mem EXCEPT ![a] = reply]
          /\ said' = [said EXCEPT ![t] = reply]
    /\ got' = [got EXCEPT ![t] = NoReply]
    /\ UNCHANGED <<newVars, bridge>>

\* It returns NULL.
GoReturnsNull(t) ==
    /\ pc[t] = "ready"
    /\ said' = [said EXCEPT ![t] = NoReply]
    /\ got' = [got EXCEPT ![t] = "TransportError"]
    /\ UNCHANGED <<newVars, bridge, pc, ptr, owner, mem>>

\* Reading the string after FreeMemory, as a "with" around the call would.
Mut_Decode(t) ==
    \/ /\ pc[t] = "decode" /\ owner[ptr[t]] = t
       /\ owner' = [owner EXCEPT ![ptr[t]] = NoThread]
       /\ mem' = [mem EXCEPT ![ptr[t]] = NoReply]
       /\ UNCHANGED <<newVars, bridge, pc, ptr, said, got>>
    \/ /\ Goto(t, "decode", "free")
       /\ mem[ptr[t]] # NoReply
       /\ got' = [got EXCEPT ![t] = Outcome(mem[ptr[t]])]
       /\ UNCHANGED <<newVars, bridge, ptr, owner, mem, said>>

\* string_at and json.loads, which succeed or raise; either way finally follows.
Decode(t) ==
    /\ Goto(t, "decode", "free")
    /\ got' = [got EXCEPT ![t] = Outcome(mem[ptr[t]])]
    /\ UNCHANGED <<newVars, bridge, ptr, owner, mem, said>>

\* An error raised before the reply is freed.
Mut_Free(t) ==
    /\ Goto(t, "free", "ready")
    /\ IF got[t] = "result"
       THEN /\ owner' = [owner EXCEPT ![ptr[t]] = NoThread]
            /\ mem' = [mem EXCEPT ![ptr[t]] = NoReply]
       ELSE UNCHANGED <<owner, mem>>
    /\ ptr' = [ptr EXCEPT ![t] = NoAddress]
    /\ UNCHANGED <<newVars, bridge, said, got>>

\* FreeMemory; then _call returns the result or raises what the reply says.
Free(t) ==
    /\ Goto(t, "free", "ready")
    /\ owner' = [owner EXCEPT ![ptr[t]] = NoThread]
    /\ mem' = [mem EXCEPT ![ptr[t]] = NoReply]
    /\ ptr' = [ptr EXCEPT ![t] = NoAddress]
    /\ UNCHANGED <<newVars, bridge, said, got>>

Next ==
    \E t \in Threads :
        \/ CheckInstance(t) \/ Load(t) \/ Publish(t) \/ ReturnInstance(t) \/ DropClient(t)
        \/ GoReturns(t) \/ GoReturnsNull(t) \/ Decode(t) \/ Free(t)

Spec == Init /\ [][Next]_vars

-----------------------------------------------------------------------------
(***************************************************************************)
(* However many threads construct their first client at the same time, and *)
(* although they may make several bridges, no client gets a bridge whose   *)
(* library is not loaded and typed yet.                                    *)
(***************************************************************************)
BridgeIsLoaded == \A t \in Threads : bridge[t] \in loaded \cup {NoBridge}

(***************************************************************************)
(* Every allocated reply belongs to the one call that is about to read or  *)
(* free it: no way out of _call, by result or exception, leaks one, and    *)
(* none is freed twice, under another thread that got the address next.    *)
(***************************************************************************)
FreedOnce ==
    /\ \A t \in Threads : pc[t] \in {"decode", "free"} => owner[ptr[t]] = t
    /\ \A a \in Addresses : owner[a] # NoThread =>
          pc[owner[a]] \in {"decode", "free"} /\ ptr[owner[a]] = a

(***************************************************************************)
(* A caller gets the result, or the exception for the message, that Go     *)
(* answered to its own call, although replies of other threads come to     *)
(* stand at the same address (the pointer of c_void_p is read before it is *)
(* freed; Bridge._call).                                                   *)
(***************************************************************************)
OwnAnswer ==
    \A t \in Threads : said[t] # NoReply /\ got[t] # NoReply => got[t] = Outcome(said[t])
=============================================================================
