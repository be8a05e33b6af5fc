--------------------------- MODULE HeaderPipeline ---------------------------
(***************************************************************************)
(* How the headers of a request are put together: the Headers multi-dict   *)
(* (httpz/headers.py), the constructor's merge of browser defaults and     *)
(* user headers and request()'s merge of client and request headers        *)
(* (httpz/client.py), and the merge into the session's ordered headers     *)
(* (go/main.go).                                                           *)
(*                                                                         *)
(* A header is a pair <<name, value>>; names stand for what they are up to *)
(* letter case, which every comparison here ignores, and a value is the    *)
(* sequence of the parts that "; " separates in it.  Threads (or the       *)
(* event loop and the pool of an AsyncClient) change client.headers while  *)
(* requests read it; the list operations that make up one change are steps *)
(* of their own.                                                           *)
(***************************************************************************)
EXTENDS Naturals, Sequences, SequencesExt

CONSTANTS
    Mutators,         \* threads that assign to client.headers
    Names, Parts,     \* header names, and what values are made of
    ContentType,      \* the name of the Content-Type header
    Cookie,           \* the name of the Cookie header
    NoValue,          \* no value
    BrowserDefaults,  \* header lists default_browser_headers may return
    UserHeaders,      \* what the caller passes to Client(headers=...)
    RequestHeaders,   \* what the caller passes to request(headers=...)
    UserCookies,      \* what user_set_items() returns, as the value of a Cookie header
    BodyTypes,        \* content types of request bodies, NoValue for none
    Assigned,         \* the pairs that threads assign
    MaxLen            \* bound: no assignment starts while a list is longer than this

Values == Seq(Parts)
Pairs == Names \X Values

ASSUME HeaderAssumption ==
    /\ {ContentType, Cookie} \subseteq Names /\ ContentType # Cookie
    /\ NoValue \notin Values
    /\ BrowserDefaults \cup UserHeaders \cup RequestHeaders \subseteq Seq(Pairs)
    /\ Assigned \subseteq Pairs
    /\ UserCookies \subseteq Values
    /\ BodyTypes \subseteq Values \cup {NoValue}

VARIABLES
    headers,  \* client.headers._list
    session,  \* s.OrderedHeaders, set from the configuration at creation
    pc, arg,  \* where a mutator is in __setitem__ or __delitem__, and its pair
    tmp,      \* the filtered list it has computed
    want,     \* what completed changes ask for (history)
    clashed,  \* names whose last change overlapped another thread's (history)
    sent      \* the request made from the current state: what it was given, what it sends

histVars == <<want, clashed>>
vars == <<headers, session, pc, arg, tmp, histVars, sent>>

(***************************************************************************)
(* Headers, as operators on its list of pairs.                             *)
(***************************************************************************)
NamesOf(h) == {h[i][1] : i \in DOMAIN h}
Without(h, n) == FoldLeft(LAMBDA g, p : IF p[1] = n THEN g ELSE Append(g, p), <<>>, h)

\* __getitem__: the first match.
FirstValue(h, n) ==
    IF n \in NamesOf(h) THEN h[SelectInSeq(h, LAMBDA p : p[1] = n)][2] ELSE NoValue

\* What the wire ends up with for a name that occurs several times: the last.
LastValue(h, n) == FirstValue(Reverse(h), n)

\* __setitem__, when nobody interferes: the header moves to the end.
SetItem(h, p) == Append(Without(h, p[1]), p)

\* The Go merges: replace the first match in place, or append.
Mut_PutFirst(h, p) == SetItem(h, p)
PutFirst(h, p) ==
    IF p[1] \in NamesOf(h)
    THEN [h EXCEPT ![SelectInSeq(h, LAMBDA q : q[1] = p[1])] = p]
    ELSE Append(h, p)

\* merged[k] = v for every pair, or for those whose name is not there yet.
AssignAll(h, pairs) == FoldLeft(SetItem, h, pairs)
SetMissing(h, p) == IF p[1] \in NamesOf(h) THEN h ELSE SetItem(h, p)

(***************************************************************************)
(* __init__: the browser's headers in the browser's order with the user's  *)
(* values, then the user's other headers.                                  *)
(***************************************************************************)
ConstructorMerge(browser, user) ==
    IF browser = <<>> THEN user
    ELSE LET seeded == AssignAll(<<>>, [i \in DOMAIN browser |->
                           <<browser[i][1], IF browser[i][1] \in NamesOf(user)
                                            THEN FirstValue(user, browser[i][1])
                                            ELSE browser[i][2]>>])
         IN  FoldLeft(SetMissing, seeded, user)

\* request(): every pair of headers= is assigned to a copy of client.headers.
RequestMerge(base, over) == AssignAll(base, over)

\* The user's cookies follow those that a Cookie header gives already, if it is not
\* there or empty they are all of it.
Joined(existing, cookies) == IF existing = NoValue THEN cookies ELSE existing \o cookies

\* A merge in which the user's cookies replace the header.
Mut_AddCookies(pairs, cookies) ==
    IF cookies = <<>> THEN pairs ELSE SetItem(pairs, <<Cookie, cookies>>)

\* merged["cookie"] is assigned again, so it moves to the end.
AddCookies(pairs, cookies) ==
    IF cookies = <<>> THEN pairs
    ELSE SetItem(pairs, <<Cookie, Joined(FirstValue(pairs, Cookie), cookies)>>)

\* doRequest: the merged pairs go into a copy of the session's headers.
SessionMerge(ordered, pairs) == FoldLeft(PutFirst, ordered, pairs)

\* ... if there are any, and the content type of the body on top.  azuretls falls
\* back to the session's headers for a request that has none at all.
Wire(ordered, pairs, contentType) ==
    LET merged == IF pairs = <<>> THEN <<>> ELSE SessionMerge(ordered, pairs)
        typed  == IF contentType = NoValue THEN merged
                  ELSE PutFirst(merged, <<ContentType, contentType>>)
    IN  IF typed = <<>> THEN ordered ELSE typed

-----------------------------------------------------------------------------
NoRequest == [wire |-> <<>>, pairs |-> <<>>, over |-> <<>>, cookies |-> <<>>,
              body |-> NoValue, made |-> FALSE]

\* req_data["headers"] = pairs, as the session s.OrderedHeaders turns it into the wire.
Sent(pairs, over, cookies, contentType) ==
    [wire  |-> Wire(session, pairs, contentType),
     pairs |-> pairs, over |-> over, cookies |-> cookies, body |-> contentType, made |-> TRUE]

Init ==
    /\ \E b \in BrowserDefaults, u \in UserHeaders : headers = ConstructorMerge(b, u)
    /\ session = headers
    /\ pc = [t \in Mutators |-> "idle"]
    /\ arg = [t \in Mutators |-> <<>>]
    /\ tmp = [t \in Mutators |-> <<>>]
    /\ want = [n \in Names |-> LastValue(headers, n)]
    /\ clashed = {}
    /\ sent = NoRequest

\* Interfering assignments can duplicate headers without end.
Short == Len(headers) <= MaxLen /\ \A u \in Mutators : Len(tmp[u]) <= MaxLen

\* t begins to change n.  Overlapping changes can undo each other, whatever their names.
Begins(t, n) ==
    LET others == {arg[u][1] : u \in {v \in Mutators \ {t} : pc[v] # "idle"}}
    IN  clashed' = IF others = {} THEN clashed \ {n} ELSE clashed \cup others \cup {n}

\* Whatever overlapping changes left behind of n is what the next change of n finds.
Settled(n) == IF n \in clashed THEN [want EXCEPT ![n] = LastValue(headers, n)] ELSE want

\* An assignment that takes the header out of the list itself.
Mut_SetHeader(t, p) ==
    /\ pc[t] = "idle"
    /\ Short
    /\ pc' = [pc EXCEPT ![t] = "assign"]
    /\ arg' = [arg EXCEPT ![t] = p]
    /\ tmp' = [tmp EXCEPT ![t] = Without(headers, p[1])]
    /\ headers' = Without(headers, p[1])
    /\ Begins(t, p[1])
    /\ want' = Settled(p[1])
    /\ sent' = NoRequest
    /\ UNCHANGED session

\* __setitem__ filters the list into a new one,
SetHeader(t, p) ==
    /\ pc[t] = "idle"
    /\ Short
    /\ pc' = [pc EXCEPT ![t] = "assign"]
    /\ arg' = [arg EXCEPT ![t] = p]
    /\ tmp' = [tmp EXCEPT ![t] = Without(headers, p[1])]
    /\ Begins(t, p[1])
    /\ want' = Settled(p[1])
    /\ sent' = NoRequest
    /\ UNCHANGED <<headers, session>>

\* makes that the list,
AssignFiltered(t) ==
    /\ pc[t] = "assign"
    /\ pc' = [pc EXCEPT ![t] = "append"]
    /\ headers' = tmp[t]
    /\ sent' = NoRequest
    /\ UNCHANGED <<session, arg, tmp, histVars>>

\* An append of the value alone.
Mut_AppendPair(t) ==
    /\ pc[t] = "append"
    /\ pc' = [pc EXCEPT ![t] = "idle"]
    /\ headers' = headers \o <<arg[t][2]>>
    /\ want' = [want EXCEPT ![arg[t][1]] = arg[t][2]]
    /\ arg' = [arg EXCEPT ![t] = <<>>]
    /\ tmp' = [tmp EXCEPT ![t] = <<>>]
    /\ sent' = NoRequest
    /\ UNCHANGED <<session, clashed>>

\* and appends to whatever is the list by then.
AppendPair(t) ==
    /\ pc[t] = "append"
    /\ pc' = [pc EXCEPT ![t] = "idle"]
    /\ headers' = Append(headers, arg[t])
    /\ want' = [want EXCEPT ![arg[t][1]] = arg[t][2]]
    /\ arg' = [arg EXCEPT ![t] = <<>>]
    /\ tmp' = [tmp EXCEPT ![t] = <<>>]
    /\ sent' = NoRequest
    /\ UNCHANGED <<session, clashed>>

\* __delitem__ filters and assigns; a missing name raises after that.
DeleteHeader(t, n) ==
    /\ pc[t] = "idle"
    /\ pc' = [pc EXCEPT ![t] = "delete"]
    /\ arg' = [arg EXCEPT ![t] = <<n, NoValue>>]
    /\ tmp' = [tmp EXCEPT ![t] = Without(headers, n)]
    /\ Begins(t, n)
    /\ want' = Settled(n)
    /\ sent' = NoRequest
    /\ UNCHANGED <<headers, session>>

AssignDeleted(t) ==
    /\ pc[t] = "delete"
    /\ pc' = [pc EXCEPT ![t] = "idle"]
    /\ headers' = tmp[t]
    /\ want' = [want EXCEPT ![arg[t][1]] = NoValue]
    /\ arg' = [arg EXCEPT ![t] = <<>>]
    /\ tmp' = [tmp EXCEPT ![t] = <<>>]
    /\ sent' = NoRequest
    /\ UNCHANGED <<session, clashed>>

\* client.headers = h: a new Headers object.  Changes under way go on on the old
\* one, which nobody reads any more.
ReplaceHeaders(t, h) ==
    /\ pc[t] = "idle"
    /\ headers' = h
    /\ pc' = [u \in Mutators |-> "idle"]
    /\ arg' = [u \in Mutators |-> <<>>]
    /\ tmp' = [u \in Mutators |-> <<>>]
    /\ want' = [n \in Names |-> LastValue(h, n)]
    /\ clashed' = {}
    /\ sent' = NoRequest
    /\ UNCHANGED session

\* A request that leaves the client's headers to the session.
Mut_Request(over, cookies, contentType) ==
    /\ sent = NoRequest
    /\ sent' = Sent(AddCookies(over, cookies), over, cookies, contentType)
    /\ UNCHANGED <<headers, session, pc, arg, tmp, histVars>>

\* A request copies the list once; everything after that works on the copy, on the
\* user's cookies (CookieSync) and on the session's headers, which no one changes.
Request(over, cookies, contentType) ==
    /\ sent = NoRequest
    /\ sent' = Sent(AddCookies(RequestMerge(headers, over), cookies), over, cookies, contentType)
    /\ UNCHANGED <<headers, session, pc, arg, tmp, histVars>>

Next ==
    \/ \E t \in Mutators :
          \/ \E p \in Assigned : SetHeader(t, p)
          \/ \E n \in Names : DeleteHeader(t, n)
          \/ \E h \in UserHeaders : ReplaceHeaders(t, h)
          \/ AssignFiltered(t) \/ AppendPair(t) \/ AssignDeleted(t)
    \/ \E o \in RequestHeaders, k \in UserCookies, v \in BodyTypes : Request(o, k, v)

Spec == Init /\ [][Next]_vars

-----------------------------------------------------------------------------
TypeOK ==
    /\ headers \in Seq(Pairs)
    /\ session \in Seq(Pairs)
    /\ pc \in [Mutators -> {"idle", "assign", "append", "delete"}]
    /\ \A t \in Mutators :
          /\ tmp[t] \in Seq(Pairs)
          /\ arg[t] \in Pairs \cup (Names \X {NoValue}) \cup {<<>>}
    /\ want \in [Names -> Values \cup {NoValue}]
    /\ clashed \subseteq Names
    /\ {sent.wire, sent.pairs, sent.over} \subseteq Seq(Pairs)
    /\ sent.cookies \in Values

\* The header names of a list, in order.
Order(h) == [i \in DOMAIN h |-> h[i][1]]

\* Names for which the request under way decides itself: headers= and the body.
Decided(n) == n \in NamesOf(sent.over) \/ (n = ContentType /\ sent.body # NoValue)

\* Names somebody is just now assigning or deleting.
Changing == {arg[t][1] : t \in {u \in Mutators : pc[u] # "idle"}}

SentValue(n) == FirstValue(sent.wire, n)

\* What becomes of the value v of n in the request under way: the user's cookies
\* follow the value of a Cookie header.
WithCookies(n, v) ==
    IF n = Cookie /\ sent.cookies # <<>> THEN Joined(v, sent.cookies) ELSE v

Once(h, n) == \A i, j \in DOMAIN h : h[i][1] = n /\ h[j][1] = n => i = j

(***************************************************************************)
(* What the caller passes to one request is what that request carries, the *)
(* last value of a name winning, no matter what the browser, the client    *)
(* and the session say and who is changing client.headers meanwhile.  A    *)
(* cookie header carries the caller's cookies first, then those of         *)
(* client.cookies that the user has set, and none of client.headers.       *)
(***************************************************************************)
OverrideWins ==
    sent.made =>
        \A n \in NamesOf(sent.over) :
            \/ SentValue(n) = WithCookies(n, LastValue(sent.over, n))
            \/ n = ContentType /\ sent.body # NoValue /\ SentValue(n) = sent.body

(***************************************************************************)
(* Fingerprint: although Python's merges move a header to the end of the   *)
(* list, the wire keeps the order the session was created with, extra      *)
(* names follow, and no name is sent twice.  Only a request for which      *)
(* Python has no header left may go out with its content type alone.       *)
(***************************************************************************)
WireOrderKept ==
    sent.made =>
        /\ \/ IsPrefix(Order(session), Order(sent.wire))
           \/ sent.pairs = <<>> /\ sent.wire = <<<<ContentType, sent.body>>>>
        /\ IsInjective(Order(sent.wire))

(***************************************************************************)
(* client.headers[k] = v counts for the requests after it: a name somebody *)
(* set, and nobody is changing, is sent with the value last set (the       *)
(* user's cookies behind it, if it is the cookie header), and a name that  *)
(* was deleted is not sent unless the session has it from its creation.    *)
(* What changes that overlap leave behind is anyone's guess, and of        *)
(* several cookie headers the merge keeps the first.                       *)
(***************************************************************************)
LatestValueSent ==
    sent.made =>
        \A n \in Names \ (Changing \cup clashed) :
            /\ ~Decided(n)
            /\ n = Cookie /\ sent.cookies # <<>> => Once(headers, n)
            /\ WithCookies(n, want[n]) # NoValue \/ n \notin NamesOf(session)
            => SentValue(n) = WithCookies(n, want[n])

(***************************************************************************)
(* A header that one thread is replacing or deleting is sent with its old  *)
(* value until the list without it has been assigned, and only from then   *)
(* until the append with none but the session's: what a request in the     *)
(* middle of __setitem__ loses is the one header, for that one step.       *)
(***************************************************************************)
MissingOnlyInBetween ==
    sent.made =>
        \A t \in {u \in Mutators : pc[u] # "idle"} :
            LET n    == arg[t][1]
                held == WithCookies(n, IF pc[t] = "append" THEN NoValue ELSE want[n])
            IN  /\ n \notin clashed /\ ~Decided(n)
                /\ n = Cookie /\ sent.cookies # <<>> => Once(headers, n)
                => IF held # NoValue THEN SentValue(n) = held
                   ELSE SentValue(n) \in {NoValue, FirstValue(session, n)}

-----------------------------------------------------------------------------
(***************************************************************************)
(* client.headers is documented as the client's default headers, mutable   *)
(* (README, client attributes): a deleted default should not be sent.      *)
(***************************************************************************)
DeletedNotSent ==
    sent.made =>
        \A n \in Names \ (Changing \cup clashed) :
            ~Decided(n) /\ WithCookies(n, want[n]) = NoValue => SentValue(n) = NoValue

=============================================================================
