---------------------------- MODULE ClientConfig ----------------------------
(***************************************************************************)
(* How the options of a Client reach its Go session and each request:      *)
(* __init__ (preset, explicit arguments, default headers), applyConfig,    *)
(* set_proxy and clear_proxy, and the options of request()                 *)
(* (httpz/client.py, go/main.go).                                          *)
(*                                                                         *)
(* One client and the threads that share it.  set_proxy is a Go call and   *)
(* an assignment in Python after it; other threads run in between.  What   *)
(* azuretls does with a proxy it refuses is not known.                     *)
(***************************************************************************)
EXTENDS BrowserHeaders, SequencesExt

CONSTANTS
    Threads,
    Calls,        \* the arguments Client() may be called with
    Presets,      \* Presets[name]: what resolve_impersonate returns
    Device,       \* Device[ua]: the platform the agent really has, and whether it is mobile
    Refused,      \* the proxies and fingerprints azuretls refuses
    Proxies,      \* the proxies given to Client() and to set_proxy
    RequestCalls  \* the options request() may be given

CallFields == {"impersonate", "ja3", "h2", "browser", "agent", "proxy", "timeout", "redirects",
               "verify", "headers", "browserHeaders", "force"}
Timeouts == Nat \cup {None}

ASSUME ConfigAssumption ==
    /\ \A c \in Calls :
          /\ DOMAIN c = CallFields
          /\ c.impersonate # None => c.impersonate \in DOMAIN Presets
          /\ c.proxy \in Proxies \cup {None}
          /\ c.timeout \in Timeouts /\ c.redirects \in Nat
          /\ c.verify \in BOOLEAN /\ c.browserHeaders \in BOOLEAN
          /\ c.agent \in Agents \cup {None}
          /\ c.headers \in Seq(Range(c.headers))
    /\ \A n \in DOMAIN Presets : Presets[n].agent \in Agents \cup {None}
    /\ \A r \in RequestCalls :
          r \in [timeout : Timeouts, redirects : Nat \cup {None},
                 follow : BOOLEAN, force : BOOLEAN \cup {None}]

\* What User-Agents look like: which of the words stand in those of a device, and Edge
\* counts like Chrome.  An agent with none of the words is taken for one of Windows.
ASSUME AgentAssumption ==
    \A ua \in Agents :
        /\ Version[ua]["Edg"] \in {0, Version[ua]["Chrome"]}
        /\ \/ Device[ua] = <<"Android", TRUE>> /\ "Android" \in Marks[ua]
           \/ /\ Device[ua] = <<"iOS", TRUE>>
              /\ Marks[ua] \subseteq {"iPhone", "iPad", "Macintosh", "Mac OS X"}
              /\ Marks[ua] \cap {"iPhone", "iPad"} # {}
           \/ Device[ua] = <<"Windows", FALSE>> /\ Marks[ua] \subseteq {"Windows"}
           \/ /\ Device[ua] = <<"macOS", FALSE>>
              /\ Marks[ua] \subseteq {"Macintosh", "Mac OS X"} /\ Marks[ua] # {}
           \/ /\ Device[ua] = <<"Linux", FALSE>>
              /\ Marks[ua] \subseteq {"Linux", "X11"} /\ Marks[ua] # {}

VARIABLES
    stage,      \* "new", the step of applyConfig that comes next, "live", "failed"
    asked,      \* the arguments of __init__
    config,     \* the configuration sent to CreateSession
    session,    \* the fields of the Go session, NoSession before and after it exists
    proxy,      \* client._proxy
    pc,         \* where a thread is
    work,       \* work[t]: the value its setter is about, or the data of its request
    sent,       \* the options in force for the request sent last, until the next call begins
    unsettled   \* a proxy call failed, or the last one overlapped another (history)

clientVars == <<stage, asked, config, proxy>>
vars == <<clientVars, session, pc, work, sent, unsettled>>

Steps == {"fields", "proxy", "ja3", "h2", "headers"}
NoSession == [browser |-> None]

TypeOK ==
    /\ stage \in {"new", "live", "failed"} \cup Steps
    /\ (session = NoSession) <=> (stage \in {"new", "failed"})
    /\ proxy \in Proxies \cup {None}
    /\ pc \in [Threads -> {"idle", "set", "clear", "assign", "send"}]
    /\ unsettled \in BOOLEAN

Init ==
    /\ stage = "new"
    /\ asked = None /\ config = None
    /\ session = NoSession
    /\ proxy = None
    /\ pc = [t \in Threads |-> "idle"]
    /\ work = [t \in Threads |-> None]
    /\ sent = None
    /\ unsettled = FALSE

(***************************************************************************)
(* Client.__init__.                                                        *)
(***************************************************************************)
Else(x, y) == IF x # None THEN x ELSE y

\* A preset whose fingerprints are fixed, whatever the caller gave.
Mut_WithPreset(c) ==
    IF c.impersonate = None THEN c
    ELSE LET p == Presets[c.impersonate]
         IN  [c EXCEPT !.ja3 = Else(p.ja3, @), !.h2 = Else(p.h2, @),
                       !.browser = Else(@, p.browser), !.agent = Else(@, p.agent)]

\* The arguments with what is missing taken from the preset.
WithPreset(c) ==
    IF c.impersonate = None THEN c
    ELSE LET p == Presets[c.impersonate]
         IN  [c EXCEPT !.ja3 = Else(@, p.ja3), !.h2 = Else(@, p.h2),
                       !.browser = Else(@, p.browser), !.agent = Else(@, p.agent)]

NamesIn(pairs) == {pairs[i][1] : i \in DOMAIN pairs}

\* headers[n]: of the values a list may have for a name, the first.
ValueIn(pairs, n) == pairs[SelectInSeq(pairs, LAMBDA pair : pair[1] = n)][2]

\* if k not in merged: merged[k] = v
AddMissing(h, pair) == IF pair[1] \in NamesIn(h) THEN h ELSE Append(h, pair)

\* The browser's headers in its order, the caller's values in their places.
Seeded(rows, headers) ==
    [i \in DOMAIN rows |->
        <<rows[i][1], IF rows[i][1] \in NamesIn(headers)
                      THEN ValueIn(headers, rows[i][1]) ELSE rows[i][2]>>]

\* ... and the caller's other headers after them.
ClientHeaders(c) ==
    IF c.browserHeaders /\ c.browser # None
    THEN FoldLeft(AddMissing, Seeded(DefaultHeaders(c.browser, c.agent), c.headers), c.headers)
    ELSE c.headers

\* What __init__ leaves out of the configuration: azuretls has the same limit by itself.
LibraryLimit == 10

\* Timeouts are in microseconds here and in whole milliseconds in the configuration.
Milliseconds(timeout) == IF timeout = None THEN 0 ELSE timeout \div 1000

\* The agent always goes into the field of its own as well.
Mut_AgentField(c, headers) == c.agent
AgentField(c, headers) == IF "user-agent" \in NamesIn(headers) THEN None ELSE c.agent

Configuration(c) ==
    LET headers == ClientHeaders(c)
    IN  [browser |-> c.browser, timeout |-> Milliseconds(c.timeout),
         redirects |-> IF c.redirects = LibraryLimit THEN 0 ELSE c.redirects,
         insecure |-> ~c.verify, proxy |-> c.proxy,
         ja3 |-> c.ja3, navigator |-> IF c.ja3 = None THEN None ELSE c.browser, h2 |-> c.h2,
         headers |-> headers, agent |-> AgentField(c, headers)]

\* azuretls.NewSession: a timeout of 0, and None, stand for the library's defaults.
FreshSession ==
    [browser |-> "default", agent |-> None, timeout |-> 0, redirects |-> LibraryLimit,
     insecure |-> FALSE, proxy |-> None, ja3 |-> None, navigator |-> None, h2 |-> None,
     headers |-> <<>>]

Construct(c) ==
    /\ stage = "new"
    /\ asked' = c
    /\ LET merged == WithPreset(c)
       IN  \/ /\ merged.ja3 # None /\ merged.browser = None
              /\ stage' = "failed"
              /\ UNCHANGED <<config, session>>
           \/ /\ merged.ja3 = None \/ merged.browser # None
              /\ stage' = "fields"
              /\ config' = Configuration(merged)
              /\ session' = FreshSession
    /\ UNCHANGED <<proxy, pc, work, sent, unsettled>>

(***************************************************************************)
(* applyConfig, step by step; CreateSession deletes the session of a       *)
(* configuration that is refused.                                          *)
(***************************************************************************)
Then(from, to) == stage = from /\ stage' = to
Mut_Refuse == stage' = "failed" /\ UNCHANGED session
Refuse == stage' = "failed" /\ session' = NoSession

ApplyFields ==
    /\ Then("fields", "proxy")
    /\ session' = [session EXCEPT
          !.browser = Else(config.browser, @), !.agent = Else(config.agent, @),
          !.timeout = Or(config.timeout, @), !.redirects = Or(config.redirects, @),
          !.insecure = @ \/ config.insecure]
    /\ UNCHANGED <<asked, config, proxy, pc, work, sent, unsettled>>

ApplyProxy ==
    /\ stage = "proxy"
    /\ IF config.proxy \in Refused THEN Refuse
       ELSE /\ stage' = "ja3"
            /\ session' = [session EXCEPT !.proxy = Else(config.proxy, @)]
    /\ UNCHANGED <<asked, config, proxy, pc, work, sent, unsettled>>

ApplyJa3 ==
    /\ stage = "ja3"
    /\ IF config.ja3 \in Refused THEN Refuse
       ELSE /\ stage' = "h2"
            /\ session' = IF config.ja3 = None THEN session
                          ELSE [session EXCEPT !.ja3 = config.ja3,
                                               !.navigator = Else(config.navigator, "chrome")]
    /\ UNCHANGED <<asked, config, proxy, pc, work, sent, unsettled>>

ApplyH2 ==
    /\ stage = "h2"
    /\ IF config.h2 \in Refused THEN Refuse
       ELSE /\ stage' = "headers"
            /\ session' = [session EXCEPT !.h2 = Else(config.h2, @)]
    /\ UNCHANGED <<asked, config, proxy, pc, work, sent, unsettled>>

\* The headers; then CreateSession returns and __init__ takes what stays in Python.
ApplyHeaders ==
    /\ Then("headers", "live")
    /\ session' = [session EXCEPT !.headers = config.headers]
    /\ proxy' = asked.proxy
    /\ UNCHANGED <<asked, config, pc, work, sent, unsettled>>

(***************************************************************************)
(* The setters.                                                            *)
(***************************************************************************)
Goto(t, from, to) == pc[t] = from /\ pc' = [pc EXCEPT ![t] = to]

ProxyCalls == {t \in Threads : pc[t] \in {"set", "clear", "assign"}}

Begin(t, what, value) ==
    /\ stage = "live"
    /\ Goto(t, "idle", what)
    /\ work' = [work EXCEPT ![t] = value]
    /\ sent' = None
    /\ UNCHANGED <<clientVars, session>>

SetProxy(t) ==
    \E p \in Proxies : Begin(t, "set", p) /\ unsettled' = (ProxyCalls # {})
ClearProxy(t) == Begin(t, "clear", None) /\ unsettled' = (ProxyCalls # {})

\* When azuretls refuses, the call raises; the session may have the proxy or not.
GoSetProxy(t) ==
    /\ pc[t] = "set"
    /\ LET after == [session EXCEPT !.proxy = work[t]]
       IN  IF work[t] \in Refused
           THEN /\ pc' = [pc EXCEPT ![t] = "idle"] /\ work' = [work EXCEPT ![t] = None]
                /\ session' \in {session, after}
                /\ unsettled' = TRUE
           ELSE Goto(t, "set", "assign") /\ session' = after /\ UNCHANGED <<work, unsettled>>
    /\ UNCHANGED <<clientVars, sent>>

\* A clear_proxy that only tells Python.
Mut_GoClearProxy(t) ==
    /\ Goto(t, "clear", "assign")
    /\ UNCHANGED <<clientVars, session, work, sent, unsettled>>

GoClearProxy(t) ==
    /\ Goto(t, "clear", "assign")
    /\ session' = [session EXCEPT !.proxy = None]
    /\ UNCHANGED <<clientVars, work, sent, unsettled>>

\* Back in Python: self._proxy = ...
AssignProxy(t) ==
    /\ Goto(t, "assign", "idle")
    /\ proxy' = work[t]
    /\ work' = [work EXCEPT ![t] = None]
    /\ UNCHANGED <<stage, asked, config, session, sent, unsettled>>

(***************************************************************************)
(* request(): the options that Python puts together, and what is in force  *)
(* for the request once doRequest has added what the session has.          *)
(***************************************************************************)
\* A request that cannot switch the client's force_http1 off.
Mut_RequestData(r) ==
    [timeout |-> Milliseconds(Else(r.timeout, asked.timeout)),
     redirects |-> Else(r.redirects, 0), follow |-> r.follow,
     force |-> r.force = TRUE \/ asked.force]

RequestData(r) ==
    [timeout |-> Milliseconds(Else(r.timeout, asked.timeout)),
     redirects |-> Else(r.redirects, 0), follow |-> r.follow,
     force |-> Else(r.force, asked.force)]

Request(t) ==
    \E r \in RequestCalls :
        /\ Begin(t, "send", [call |-> r, data |-> RequestData(r)])
        /\ UNCHANGED unsettled

\* A request's own timeout and limit count when they are positive.
Do(t) ==
    /\ Goto(t, "send", "idle")
    /\ LET data == work[t].data
       IN  sent' = [call |-> work[t].call,
                    timeout |-> Or(data.timeout, session.timeout),
                    redirects |-> Or(data.redirects, session.redirects),
                    follow |-> data.follow, force |-> data.force]
    /\ work' = [work EXCEPT ![t] = None]
    /\ UNCHANGED <<clientVars, session, unsettled>>

\* The constructor has raised; there is no client.
Failed == stage = "failed" /\ UNCHANGED vars

Next ==
    \/ \E c \in Calls : Construct(c)
    \/ ApplyFields \/ ApplyProxy \/ ApplyJa3 \/ ApplyH2 \/ ApplyHeaders
    \/ \E t \in Threads :
          \/ SetProxy(t) \/ ClearProxy(t) \/ Request(t)
          \/ GoSetProxy(t) \/ GoClearProxy(t) \/ AssignProxy(t) \/ Do(t)
    \/ Failed

Spec == Init /\ [][Next]_vars

-----------------------------------------------------------------------------
Expected(field) ==
    IF asked[field] # None THEN asked[field]
    ELSE IF asked.impersonate # None THEN Presets[asked.impersonate][field]
    ELSE None

\* What Go takes for given: a timeout of a millisecond at least, a limit above zero.
Usable(timeout) == timeout # None /\ timeout >= 1000
TimeoutOf(timeout) == IF Usable(timeout) THEN timeout \div 1000 ELSE 0
LimitOf(redirects) == IF redirects > 0 THEN redirects ELSE LibraryLimit

\* Browser headers are sent, and the caller's merged into them.
Merging == asked.browserHeaders /\ Expected("browser") # None
Once(n, pairs) == \A i, j \in DOMAIN pairs : pairs[i][1] = n /\ pairs[j][1] = n => i = j

\* Every header of the caller has the caller's first value.  They are the browser's in
\* the browser's order and then the caller's others, each once; or just the caller's.
HeadersAsked(headers) ==
    LET rows == DefaultHeaders(Expected("browser"), Expected("agent"))
    IN  /\ \A n \in NamesIn(asked.headers) :
              n \in NamesIn(headers) /\ ValueIn(headers, n) = ValueIn(asked.headers, n)
        /\ ~Merging => headers = asked.headers
        /\ Merging =>
              /\ NamesIn(headers) = NamesIn(rows) \cup NamesIn(asked.headers)
              /\ \A i \in DOMAIN rows : i \in DOMAIN headers /\ headers[i][1] = rows[i][1]
              /\ \A n \in NamesIn(headers) \ NamesIn(asked.headers) :
                    ValueIn(headers, n) = ValueIn(rows, n)
              /\ \A n \in NamesIn(headers) : Once(n, headers)

(***************************************************************************)
(* A constructor that returns has configured the session with what it was  *)
(* asked for: an explicit argument wins over the preset ("Any other        *)
(* explicit kwarg you pass still wins over the preset", client.py), what   *)
(* is not given comes from the preset, the JA3 goes with the navigator of  *)
(* the same browser, a timeout and a redirect limit that Go takes for      *)
(* given are the session's, others are the library's, and the headers are  *)
(* the caller's over the browser's.                                        *)
(***************************************************************************)
FullyConfigured ==
    [][stage # "live" /\ stage' = "live" =>
        /\ session'.ja3 = Expected("ja3")
        /\ session'.h2 = Expected("h2")
        /\ session'.browser = Else(Expected("browser"), "default")
        /\ session'.ja3 # None => session'.navigator = session'.browser
        /\ session'.proxy = asked.proxy
        /\ session'.insecure = ~asked.verify
        /\ session'.timeout = TimeoutOf(asked.timeout)
        /\ session'.redirects = LimitOf(asked.redirects)
        /\ HeadersAsked(session'.headers)]_vars

(***************************************************************************)
(* The User-Agent reaches the server from one place: the one of headers=   *)
(* wins, then user_agent=, then the preset's; it is never lost, never      *)
(* given both as a header and as the session's own, and a header only once *)
(* unless the caller's list, sent as it is, repeats it.                    *)
(***************************************************************************)
AgentHeaders == {i \in DOMAIN session.headers : session.headers[i][1] = "user-agent"}
AgentSent ==
    IF AgentHeaders # {} THEN ValueIn(session.headers, "user-agent") ELSE session.agent

OneAgent ==
    stage = "live" =>
        /\ AgentHeaders # {} => session.agent = None
        /\ Merging \/ Once("user-agent", asked.headers) => \A i, j \in AgentHeaders : i = j
        /\ AgentSent = IF "user-agent" \in NamesIn(asked.headers)
                       THEN ValueIn(asked.headers, "user-agent") ELSE Expected("agent")

(***************************************************************************)
(* The client hints tell the same story as the User-Agent that is sent     *)
(* ("the sec-ch-ua version and Accept-Encoding track the Chrome version;   *)
(* the platform/mobile hints track the User-Agent", README.md), unless the *)
(* caller's headers= replace one of them.                                  *)
(***************************************************************************)
Hints == {"user-agent", "sec-ch-ua", "sec-ch-ua-mobile", "sec-ch-ua-platform", "accept-encoding"}

HintsSay(ua) ==
    LET hint(n) == ValueIn(session.headers, n)
        chrome  == Version[ua]["Chrome"]
    IN  /\ <<hint("sec-ch-ua-platform"), hint("sec-ch-ua-mobile")>> = Device[ua]
        /\ chrome # 0 =>
              /\ \E i \in DOMAIN hint("sec-ch-ua") : hint("sec-ch-ua")[i] = <<"Chromium", chrome>>
              /\ hint("accept-encoding") = "with zstd" <=> chrome >= 123

HintsTrackAgent ==
    /\ stage = "live"
    /\ Hints \cap NamesIn(asked.headers) = {}
    /\ {"user-agent", "sec-ch-ua"} \subseteq NamesIn(session.headers)
    => HintsSay(AgentSent)

(***************************************************************************)
(* client._proxy is the proxy of the session whenever no proxy call is     *)
(* under way, if the last one neither failed nor overlapped another one.   *)
(***************************************************************************)
ProxyFollows ==
    stage = "live" /\ ProxyCalls = {} /\ ~unsettled => session.proxy = proxy

(***************************************************************************)
(* What is in force for a request: what request() is given, or else what   *)
(* the client was given, or else the library's default, field by field,    *)
(* force_http1=False included.  A timeout below a millisecond and a limit  *)
(* of zero count as not given.                                             *)
(***************************************************************************)
OptionsHonoured ==
    sent # None =>
        LET r == sent.call
        IN  /\ sent.force = (IF r.force = None THEN asked.force ELSE r.force)
            /\ sent.follow = r.follow
            /\ sent.timeout = IF Usable(r.timeout) THEN TimeoutOf(r.timeout)
                              ELSE TimeoutOf(asked.timeout)
            /\ sent.redirects = IF r.redirects # None /\ r.redirects > 0 THEN r.redirects
                                ELSE LimitOf(asked.redirects)

-----------------------------------------------------------------------------
(***************************************************************************)
(* The docstring of Client: "Per-request timeout= overrides", and          *)
(* "max_redirects: Maximum redirect-chain length".  Whatever its value,    *)
(* what is given to a request, or the limit given to the client, counts.   *)
(***************************************************************************)
OptionsInForce ==
    sent # None =>
        /\ sent.call.timeout # None => sent.timeout = Milliseconds(sent.call.timeout)
        /\ sent.redirects = Else(sent.call.redirects, asked.redirects)
=============================================================================
