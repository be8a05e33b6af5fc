----------------------------- MODULE CookieSync -----------------------------
(***************************************************************************)
(* The two cookie jars of a client: the Cookies object the user sees       *)
(* (httpz/cookies.py), whose user-set part request() serializes into a     *)
(* Cookie header, and the jar of the Go session, which follows Set-Cookie  *)
(* on its own (httpz/client.py, go/main.go).                               *)
(*                                                                         *)
(* Threads, or an event loop and the pool of an AsyncClient, change        *)
(* client.cookies while other threads are in request().  A step is what    *)
(* the interpreter does without giving its lock away: one operation on the *)
(* dict or the set, one item of an iteration.  An iteration over a set     *)
(* raises when the size of the set is not what it was; when names both     *)
(* came and went, and the size is, CPython promises nothing but that the   *)
(* iteration passes over nothing before the first name it yields: a table  *)
(* built anew may hold any name before or behind where it stands then.     *)
(***************************************************************************)
EXTENDS Naturals, FiniteSets

CONSTANTS
    Threads,       \* threads that use the client
    Names,         \* cookie names
    UserValues,    \* values the user sets
    ServerValues,  \* values servers set, told apart from the user's
    NoValue,       \* no cookie of that name
    NoName         \* no change under way

ASSUME ValuesAssumption ==
    /\ UserValues \cap ServerValues = {} /\ NoValue \notin UserValues \cup ServerValues
    /\ IsFiniteSet(Names) /\ NoName \notin Names

VARIABLES
    cookies,   \* client.cookies._cookies
    userSet,   \* client.cookies._user_set
    jar,       \* the Go session's cookie jar
    pc,        \* where a thread is in request(), __setitem__ or __delitem__
    arg,       \* the name it is setting or deleting
    start,     \* _user_set when its user_set_items() began to iterate, or yielded a first name
    header,    \* the user cookies it has collected for the Cookie header
    seen,      \* the names the iteration has yielded
    found,     \* the name it has found in the dict and not read yet
    changed,   \* how _user_set has changed since then: names came, names went
    reply,     \* resp.Cookies of the response it got
    owed,      \* user cookies that are settled (history)
    due,       \* those settled since before its request began (history)
    touched,   \* names the user changed after the last response with them (history)
    raced      \* names that two responses carried at the same time (history)

pyVars == <<cookies, userSet>>
reqVars == <<start, header, seen, found, changed, reply>>
histVars == <<owed, due, touched, raced>>
vars == <<pyVars, jar, pc, arg, reqVars, histVars>>

Maybe(S) == S \cup {NoValue}
Jars(S) == [Names -> Maybe(S)]
Empty == [n \in Names |-> NoValue]
Having(m) == {n \in Names : m[n] # NoValue}

TypeOK ==
    /\ cookies \in Jars(UserValues \cup ServerValues)
    /\ userSet \subseteq Names
    /\ jar \in Jars(ServerValues)
    /\ pc \in [Threads -> {"idle", "add", "discard", "collect", "read", "wait", "sync"}]
    /\ arg \in [Threads -> Names \cup {NoName}]
    /\ start \in [Threads -> SUBSET Names]
    /\ header \in [Threads -> Jars(UserValues \cup ServerValues)]
    /\ seen \in [Threads -> SUBSET Names]
    /\ found \in [Threads -> Names \cup {NoName}]
    /\ changed \in [Threads -> SUBSET {"added", "removed"}]
    /\ reply \in [Threads -> Jars(ServerValues)]
    /\ owed \in Jars(UserValues)
    /\ due \in [Threads -> Jars(UserValues)]
    /\ touched \subseteq Names /\ raced \subseteq Names
    /\ \A t \in Threads : arg[t] # NoName <=> pc[t] \in {"add", "discard"}
    /\ \A t \in Threads : found[t] # NoName <=> pc[t] = "read"

\* Cookies(given): a dict of the user's.
Given == Jars(UserValues)

Init ==
    /\ cookies \in Given
    /\ userSet = Having(cookies)
    /\ jar = Empty
    /\ pc = [t \in Threads |-> "idle"]
    /\ arg = [t \in Threads |-> NoName]
    /\ start = [t \in Threads |-> {}]
    /\ header = [t \in Threads |-> Empty]
    /\ seen = [t \in Threads |-> {}]
    /\ found = [t \in Threads |-> NoName]
    /\ changed = [t \in Threads |-> {}]
    /\ reply = [t \in Threads |-> Empty]
    /\ owed = cookies
    /\ due = [t \in Threads |-> Empty]
    /\ touched = userSet
    /\ raced = {}

Goto(t, from, to) == pc[t] = from /\ pc' = [pc EXCEPT ![t] = to]

\* A set may be iterated as long as its size stays what it was.
SameSize(t) == Cardinality(userSet) = Cardinality(start[t])

Iterating == {t \in Threads : pc[t] \in {"collect", "read"}}

\* The iterations under way see a set that is not the one they began with.
Notice(how, differs) ==
    changed' = [t \in Threads |->
                   IF differs /\ t \in Iterating THEN changed[t] \cup {how} ELSE changed[t]]

\* The names N change: requests under way may or may not see the old values.
Unsettle(N) ==
    /\ owed' = [n \in Names |-> IF n \in N THEN NoValue ELSE owed[n]]
    /\ due' = [t \in Threads |-> [n \in Names |-> IF n \in N THEN NoValue ELSE due[t][n]]]

-----------------------------------------------------------------------------
(***************************************************************************)
(* The user's changes.                                                     *)
(***************************************************************************)
SetCookie(t, n, v) ==
    /\ Goto(t, "idle", "add")
    /\ arg' = [arg EXCEPT ![t] = n]
    /\ cookies' = [cookies EXCEPT ![n] = v]
    /\ Unsettle({n})
    /\ touched' = touched \cup {n}
    /\ UNCHANGED <<userSet, jar, reqVars, raced>>

\* The user's cookie is settled unless the value or the mark is being changed again.
Settle(t, n) ==
    owed' = [owed EXCEPT ![n] =
                IF cookies[n] \in UserValues /\ \A u \in Threads \ {t} : arg[u] # n
                THEN cookies[n] ELSE NoValue]

\* An assignment that marks the value instead of the name.
Mut_AddUserSet_Value(t) ==
    /\ Goto(t, "add", "idle")
    /\ userSet' = userSet \cup {cookies[arg[t]]}
    /\ Notice("added", userSet' # userSet)
    /\ arg' = [arg EXCEPT ![t] = NoName]
    /\ Settle(t, arg[t])
    /\ UNCHANGED <<cookies, jar, start, header, seen, found, reply, due, touched, raced>>

AddUserSet(t) ==
    /\ Goto(t, "add", "idle")
    /\ userSet' = userSet \cup {arg[t]}
    /\ Notice("added", arg[t] \notin userSet)
    /\ arg' = [arg EXCEPT ![t] = NoName]
    /\ Settle(t, arg[t])
    /\ UNCHANGED <<cookies, jar, start, header, seen, found, reply, due, touched, raced>>

\* del of a missing name raises before anything changes.
DeleteCookie(t, n) ==
    /\ cookies[n] # NoValue
    /\ Goto(t, "idle", "discard")
    /\ arg' = [arg EXCEPT ![t] = n]
    /\ cookies' = [cookies EXCEPT ![n] = NoValue]
    /\ Unsettle({n})
    /\ touched' = touched \cup {n}
    /\ UNCHANGED <<userSet, jar, reqVars, raced>>

DiscardUserSet(t) ==
    /\ Goto(t, "discard", "idle")
    /\ userSet' = userSet \ {arg[t]}
    /\ Notice("removed", arg[t] \in userSet)
    /\ arg' = [arg EXCEPT ![t] = NoName]
    /\ Unsettle({arg[t]})
    /\ UNCHANGED <<cookies, jar, start, header, seen, found, reply, touched, raced>>

\* What may become of an iteration over an object that has been replaced, where only
\* the changes that were under way still come: it raises, or it yet gets the names N.
Changing == {u \in Threads : pc[u] \in {"add", "discard"}}

MayRaise(t) ==
    \/ ~SameSize(t) \/ Changing # {}
    \/ pc[t] = "read" /\ cookies[found[t]] = NoValue

MayGet(t, N) ==
    /\ SameSize(t) \/ Changing # {}
    /\ pc[t] = "read" => found[t] \in N /\ cookies[found[t]] # NoValue
    /\ N \subseteq userSet \cup {arg[u] : u \in Changing}
    /\ (changed[t] = {} \/ seen[t] = {}) /\ Changing = {} =>
           N = (userSet \ seen[t]) \cup ({found[t]} \ {NoName})

\* client.cookies = given: a new object.  Whoever was changing or iterating over
\* the old one goes on there.
ReplaceCookies(t, given) ==
    /\ pc[t] = "idle"
    /\ cookies' = given
    /\ userSet' = Having(given)
    /\ \E raising \in SUBSET Iterating, got \in [Iterating -> SUBSET Names] :
          /\ \A u \in Iterating : IF u \in raising THEN MayRaise(u) /\ got[u] = {}
                                  ELSE MayGet(u, got[u])
          /\ pc' = [u \in Threads |-> IF u \in Changing \cup raising THEN "idle"
                                     ELSE IF u \in Iterating THEN "wait" ELSE pc[u]]
          /\ header' = [u \in Threads |->
                IF u \in raising THEN Empty
                ELSE IF u \notin Iterating THEN header[u]
                ELSE [n \in Names |-> IF n \in got[u] THEN cookies[n] ELSE header[u][n]]]
    /\ arg' = [u \in Threads |-> NoName]
    /\ found' = [u \in Threads |-> NoName]
    /\ start' = [u \in Threads |-> {}]
    /\ seen' = [u \in Threads |-> {}]
    /\ changed' = [u \in Threads |-> {}]
    /\ owed' = given
    /\ due' = [u \in Threads |-> Empty]
    /\ touched' = Names
    /\ UNCHANGED <<jar, reply, raced>>

-----------------------------------------------------------------------------
(***************************************************************************)
(* request().                                                              *)
(***************************************************************************)
BeginRequest(t) ==
    /\ Goto(t, "idle", "collect")
    /\ start' = [start EXCEPT ![t] = userSet]
    /\ header' = [header EXCEPT ![t] = Empty]
    /\ seen' = [seen EXCEPT ![t] = {}]
    /\ changed' = [changed EXCEPT ![t] = {}]
    /\ due' = [due EXCEPT ![t] = owed]
    /\ UNCHANGED <<pyVars, jar, arg, found, reply, owed, touched, raced>>

\* user_set_items(): the iteration yields one more name, or after a change one it has
\* yielded before, and the dict is asked for it.
CollectName(t) ==
    /\ pc[t] = "collect" /\ SameSize(t)
    /\ \E n \in userSet :
          /\ n \in seen[t] => changed[t] # {}
          /\ seen' = [seen EXCEPT ![t] = @ \cup {n}]
          /\ IF seen[t] # {} THEN UNCHANGED <<start, changed>>
             ELSE start' = [start EXCEPT ![t] = userSet] /\ changed' = [changed EXCEPT ![t] = {}]
          /\ IF cookies[n] = NoValue THEN UNCHANGED <<pc, found>>
             ELSE Goto(t, "collect", "read") /\ found' = [found EXCEPT ![t] = n]
    /\ UNCHANGED <<pyVars, jar, arg, header, reply, histVars>>

\* The value is read, if it is still there.
CollectValue(t) ==
    /\ Goto(t, "read", "collect")
    /\ cookies[found[t]] # NoValue
    /\ found' = [found EXCEPT ![t] = NoName]
    /\ header' = [header EXCEPT ![t][found[t]] = cookies[found[t]]]
    /\ UNCHANGED <<pyVars, jar, arg, start, seen, changed, reply, histVars>>

\* An iteration that does not notice what happens to the set.
Mut_CollectDone(t) ==
    /\ Goto(t, "collect", "wait")
    /\ changed[t] = {} \/ seen[t] = {} => userSet \subseteq seen[t]
    /\ start' = [start EXCEPT ![t] = {}]
    /\ seen' = [seen EXCEPT ![t] = {}]
    /\ UNCHANGED <<pyVars, jar, arg, header, found, changed, reply, histVars>>

\* The end: of a set that changed after the first name, any may have been passed over.
CollectDone(t) ==
    /\ Goto(t, "collect", "wait")
    /\ SameSize(t)
    /\ changed[t] = {} \/ seen[t] = {} => userSet \subseteq seen[t]
    /\ start' = [start EXCEPT ![t] = {}]
    /\ seen' = [seen EXCEPT ![t] = {}]
    /\ UNCHANGED <<pyVars, jar, arg, header, found, changed, reply, histVars>>

Abort(t, from) ==
    /\ Goto(t, from, "idle")
    /\ start' = [start EXCEPT ![t] = {}]
    /\ seen' = [seen EXCEPT ![t] = {}]
    /\ found' = [found EXCEPT ![t] = NoName]
    /\ changed' = [changed EXCEPT ![t] = {}]
    /\ header' = [header EXCEPT ![t] = Empty]
    /\ due' = [due EXCEPT ![t] = Empty]
    /\ UNCHANGED <<pyVars, jar, arg, reply, owed, touched, raced>>

\* RuntimeError: Set changed size during iteration.
CollectRaises(t) == ~SameSize(t) /\ Abort(t, "collect")

\* KeyError: the cookie was deleted between the question and the reading.
ReadRaises(t) == pc[t] = "read" /\ cookies[found[t]] = NoValue /\ Abort(t, "read")

RequestFails(t) == Abort(t, "wait")

\* The response sets a cookie, deletes one or does neither.  The Go jar follows at
\* once; what resp.Cookies lists is the response's cookie or the whole jar.
Receive(t, n, v) ==
    /\ Goto(t, "wait", "sync")
    /\ jar' = [jar EXCEPT ![n] = v]
    /\ \/ reply' = [reply EXCEPT ![t] = jar']
       \/ reply' = [reply EXCEPT ![t] = [Empty EXCEPT ![n] = v]]
       \/ v = jar[n] /\ UNCHANGED reply
    /\ IF jar' = jar THEN UNCHANGED <<touched, raced>>
       ELSE IF \E u \in Threads : pc[u] = "sync" /\ reply[u][n] # NoValue
            THEN raced' = raced \cup {n} /\ UNCHANGED touched
            ELSE raced' = raced \ {n} /\ touched' = touched \ {n}
    /\ header' = [header EXCEPT ![t] = Empty]
    /\ due' = [due EXCEPT ![t] = Empty]
    /\ changed' = [changed EXCEPT ![t] = {}]
    /\ UNCHANGED <<pyVars, arg, start, seen, found, owed>>

\* A sync that leaves the names it knows alone.
Mut_Sync(t) ==
    /\ Goto(t, "sync", "idle")
    /\ cookies' = [n \in Names |-> IF cookies[n] = NoValue THEN reply[t][n] ELSE cookies[n]]
    /\ Unsettle(Having(reply[t]))
    /\ reply' = [reply EXCEPT ![t] = Empty]
    /\ UNCHANGED <<userSet, jar, arg, start, header, seen, found, changed, touched, raced>>

\* update_from_response: dict.update with what the response listed.
Sync(t) ==
    /\ Goto(t, "sync", "idle")
    /\ cookies' = [n \in Names |-> IF reply[t][n] # NoValue THEN reply[t][n] ELSE cookies[n]]
    /\ Unsettle(Having(reply[t]))
    /\ reply' = [reply EXCEPT ![t] = Empty]
    /\ UNCHANGED <<userSet, jar, arg, start, header, seen, found, changed, touched, raced>>

Next ==
    \E t \in Threads :
        \/ \E n \in Names, v \in UserValues : SetCookie(t, n, v)
        \/ AddUserSet(t)
        \/ \E n \in Names : DeleteCookie(t, n)
        \/ DiscardUserSet(t)
        \/ \E given \in Given : ReplaceCookies(t, given)
        \/ BeginRequest(t) \/ CollectName(t) \/ CollectValue(t) \/ CollectDone(t)
        \/ CollectRaises(t) \/ ReadRaises(t)
        \/ \E n \in Names, v \in Maybe(ServerValues) : Receive(t, n, v)
        \/ RequestFails(t)
        \/ Sync(t)

Spec == Init /\ [][Next]_vars

-----------------------------------------------------------------------------
(***************************************************************************)
(* Every cookie the user has set, and that nobody has changed since before *)
(* the request began, reaches the server with that request, whatever is    *)
(* being set, deleted or synced while the names are collected: the request *)
(* fails rather than leave one out, unless names both came and went in the *)
(* meantime, which the iteration cannot tell from no change.               *)
(***************************************************************************)
CarriesSettled(t) == \A n \in Having(due[t]) : header[t][n] = due[t][n]

SettledCookiesAreSent ==
    \A t \in Threads :
        pc[t] = "wait" => CarriesSettled(t) \/ changed[t] = {"added", "removed"}

Pending(n) == \E t \in Threads : pc[t] = "sync" /\ reply[t][n] # NoValue

(***************************************************************************)
(* client.cookies shows what the Go jar will send for every name, once the *)
(* responses that carry it are synced, except for a name the user changed  *)
(* since, and one whose responses overlapped in two threads.               *)
(***************************************************************************)
ViewFollowsJar ==
    \A n \in Names \ (touched \cup raced) :
        jar[n] # NoValue /\ ~Pending(n) => cookies[n] = jar[n]

-----------------------------------------------------------------------------
(***************************************************************************)
(* "Response-set cookies are kept here for visibility but are sent         *)
(* automatically by the Go session's cookie jar, so they're not duplicated *)
(* into the header" (docstring of Cookies).                                *)
(***************************************************************************)
ResponseCookiesStayOut ==
    \A t \in Threads, n \in Names : pc[t] = "wait" => header[t][n] \notin ServerValues

=============================================================================
