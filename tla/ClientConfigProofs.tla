------------------------- MODULE ClientConfigProofs -------------------------
(***************************************************************************)
(* Proofs about the options of a Client: what __init__ is asked for        *)
(* reaches the session whatever the preset, client._proxy follows the      *)
(* session's, and request() honours what it is given; for any calls,       *)
(* presets and threads.  Then the headers: one User-Agent reaches the      *)
(* server, and the client hints agree with it.                             *)
(***************************************************************************)
EXTENDS ClientConfig, SequenceFolds

SessionFields == {"browser", "agent", "timeout", "redirects", "insecure", "proxy", "ja3",
                  "navigator", "h2", "headers"}

\* Nobody has a client before __init__ returns.
StageInv ==
    /\ stage \in Steps \cup {"live"} => asked \in Calls /\ DOMAIN session = SessionFields
    /\ stage # "live" => sent = None /\ ~unsettled /\ \A t \in Threads : pc[t] = "idle"

\* The configuration that was sent says what was asked for, or else what the preset says.
ConfigInv ==
    stage \in Steps =>
        /\ config.ja3 = Expected("ja3") /\ config.h2 = Expected("h2")
        /\ config.browser = Expected("browser")
        /\ config.ja3 # None => config.browser # None /\ config.navigator = config.browser
        /\ config.proxy = asked.proxy /\ config.insecure = ~asked.verify
        /\ config.timeout = Milliseconds(asked.timeout)
        /\ config.redirects = IF asked.redirects = LibraryLimit THEN 0 ELSE asked.redirects

\* How much of it each step of applyConfig finds in the session.
AppliedInv ==
    /\ stage = "fields" =>
          /\ session.browser = "default" /\ session.insecure = FALSE
          /\ session.timeout = 0 /\ session.redirects = LibraryLimit
    /\ stage \in Steps \ {"fields"} =>
          session.browser = Else(config.browser, "default") /\ session.insecure = config.insecure
    /\ stage \in {"proxy", "ja3", "h2", "headers", "live"} =>
          /\ session.timeout = Milliseconds(asked.timeout)
          /\ session.redirects = LimitOf(asked.redirects)
    /\ stage \in {"fields", "proxy"} => session.proxy = None
    /\ stage \in {"ja3", "h2", "headers"} => session.proxy = config.proxy
    /\ stage \in {"fields", "proxy", "ja3"} => session.ja3 = None
    /\ stage \in {"h2", "headers"} =>
          session.ja3 = config.ja3 /\ (session.ja3 # None => session.navigator = session.browser)
    /\ stage \in Steps \ {"headers"} => session.h2 = None
    /\ stage = "headers" => session.h2 = config.h2

\* A proxy call that is alone has changed the session before it changes the client.
ProxyInv ==
    stage = "live" /\ ~unsettled =>
        /\ \A t, u \in ProxyCalls : t = u
        /\ ProxyCalls = {} => session.proxy = proxy
        /\ \A t \in ProxyCalls : pc[t] = "assign" => session.proxy = work[t]

\* What the setters and the requests that are under way work with.
WorkInv ==
    /\ DOMAIN work = Threads
    /\ \A t \in Threads :
          /\ pc[t] \in {"set", "clear", "assign"} => work[t] \in Proxies \cup {None}
          /\ pc[t] = "clear" => work[t] = None
          /\ pc[t] = "send" =>
                \E r \in RequestCalls : work[t] = [call |-> r, data |-> RequestData(r)]

IndInv ==
    TypeOK /\ StageInv /\ ConfigInv /\ AppliedInv /\ ProxyInv /\ WorkInv /\ OptionsHonoured
-----------------------------------------------------------------------------
LEMMA IndInvInit == Init => IndInv
  <1> SUFFICES ASSUME Init PROVE IndInv
    OBVIOUS
  <1> QED
    BY DEF Init, IndInv, TypeOK, StageInv, ConfigInv, AppliedInv, ProxyInv, WorkInv,
       OptionsHonoured, Steps

-----------------------------------------------------------------------------
(***************************************************************************)
(* The constructor.                                                        *)
(***************************************************************************)
\* An argument that is given wins over the preset, field by field.
LEMMA PresetFillsIn ==
    ASSUME NEW c \in Calls
    PROVE  LET m == WithPreset(c)
               given(f) == IF c[f] # None THEN c[f]
                           ELSE IF c.impersonate # None THEN Presets[c.impersonate][f] ELSE None
           IN  /\ m.ja3 = given("ja3") /\ m.h2 = given("h2") /\ m.browser = given("browser")
               /\ m.agent = given("agent") /\ m.headers = c.headers
               /\ m.proxy = c.proxy /\ m.verify = c.verify /\ m.timeout = c.timeout
               /\ m.redirects = c.redirects /\ m.browserHeaders = c.browserHeaders
  <1>1. DOMAIN c = CallFields
    BY ConfigAssumption
  <1>2. CASE c.impersonate = None
    BY <1>2 DEF WithPreset
  <1>3. CASE c.impersonate # None
    <2> DEFINE p == Presets[c.impersonate]
    <2>1. WithPreset(c) = [c EXCEPT !.ja3 = Else(@, p.ja3), !.h2 = Else(@, p.h2),
                                    !.browser = Else(@, p.browser), !.agent = Else(@, p.agent)]
      BY <1>3 DEF WithPreset
    <2> QED
      BY <1>1, <1>3, <2>1 DEF CallFields, Else
  <1> QED
    BY <1>2, <1>3

LEMMA ConstructKeeps ==
    ASSUME IndInv, NEW c \in Calls, Construct(c)
    PROVE  IndInv'
  <1> USE DEF IndInv
  <1> DEFINE m == WithPreset(c)
  <1>a. stage = "new" /\ asked' = c /\ UNCHANGED <<proxy, pc, work, sent, unsettled>>
    BY DEF Construct
  <1>b. /\ sent = None /\ ~unsettled /\ \A t \in Threads : pc[t] = "idle"
        /\ session = NoSession /\ proxy \in Proxies \cup {None}
    BY <1>a DEF StageInv, TypeOK, Steps
  <1>c. \/ stage' = "failed" /\ session' = session
        \/ /\ stage' = "fields" /\ session' = FreshSession
           /\ config' = Configuration(m)
           /\ m.ja3 # None => m.browser # None
    BY DEF Construct
  <1>d. DOMAIN FreshSession = SessionFields /\ FreshSession # NoSession
    BY DEF FreshSession, SessionFields, NoSession
  <1>1. TypeOK'
    BY <1>a, <1>b, <1>c, <1>d DEF TypeOK, Steps
  <1>2. StageInv'
    BY <1>a, <1>b, <1>c, <1>d DEF StageInv, Steps
  <1>3. ConfigInv'
    <2> SUFFICES ASSUME stage' = "fields" PROVE ConfigInv'
      BY <1>c DEF ConfigInv, Steps
    <2>1. config' = Configuration(m) /\ (m.ja3 # None => m.browser # None)
      BY <1>c
    <2>2. /\ config'.ja3 = m.ja3 /\ config'.h2 = m.h2 /\ config'.browser = m.browser
          /\ config'.navigator = IF m.ja3 = None THEN None ELSE m.browser
          /\ config'.proxy = m.proxy /\ config'.timeout = Milliseconds(m.timeout)
          /\ config'.redirects = IF m.redirects = LibraryLimit THEN 0 ELSE m.redirects
      BY <2>1 DEF Configuration
    <2>3. config'.insecure = ~m.verify
      BY <2>1 DEF Configuration
    <2>4. /\ m.ja3 = Expected("ja3")' /\ m.h2 = Expected("h2")'
          /\ m.browser = Expected("browser")'
          /\ m.proxy = c.proxy /\ m.verify = c.verify /\ m.timeout = c.timeout
          /\ m.redirects = c.redirects
      BY <1>a, PresetFillsIn DEF Expected
    <2> QED
      BY <1>a, <2>1, <2>2, <2>3, <2>4 DEF ConfigInv
  <1>4. AppliedInv'
    BY <1>c DEF AppliedInv, FreshSession, Steps
  <1>5. ProxyInv' /\ WorkInv' /\ OptionsHonoured'
    BY <1>a, <1>b, <1>c DEF ProxyInv, WorkInv, OptionsHonoured, ProxyCalls
  <1> QED
    BY <1>1, <1>2, <1>3, <1>4, <1>5

\* What every step of applyConfig has in common.
LEMMA ApplyKeeps ==
    ASSUME IndInv, stage \in Steps, UNCHANGED <<asked, config, pc, work, sent, unsettled>>,
           \/ stage' = "failed" /\ session' = NoSession /\ proxy' = proxy
           \/ /\ stage' \in Steps \cup {"live"} /\ DOMAIN session' = SessionFields
              /\ proxy' \in Proxies \cup {None}
              /\ AppliedInv'
              /\ stage' = "live" => session'.proxy = proxy'
    PROVE  IndInv'
  <1> USE DEF IndInv
  <1>b. sent = None /\ ~unsettled /\ asked \in Calls /\ \A t \in Threads : pc[t] = "idle"
    BY DEF StageInv, Steps
  <1>c. DOMAIN session' = SessionFields => session' # NoSession
    BY DEF SessionFields, NoSession
  <1>1. TypeOK'
    BY <1>c DEF TypeOK, Steps
  <1>2. StageInv'
    BY <1>b DEF StageInv, Steps
  <1>3. ConfigInv'
    BY DEF ConfigInv, Expected, Steps
  <1>4. AppliedInv'
    BY DEF AppliedInv, Steps
  <1>5. ProxyInv' /\ WorkInv' /\ OptionsHonoured'
    BY <1>b DEF ProxyInv, WorkInv, OptionsHonoured, ProxyCalls
  <1> QED
    BY <1>1, <1>2, <1>3, <1>4, <1>5

LEMMA ApplyFieldsKeeps == ASSUME IndInv, ApplyFields PROVE IndInv'
  <1> USE DEF IndInv
  <1>a. /\ stage = "fields" /\ stage' = "proxy"
        /\ session' = [session EXCEPT
              !.browser = Else(config.browser, @), !.agent = Else(config.agent, @),
              !.timeout = Or(config.timeout, @), !.redirects = Or(config.redirects, @),
              !.insecure = @ \/ config.insecure]
        /\ UNCHANGED <<asked, config, proxy, pc, work, sent, unsettled>>
    BY DEF ApplyFields, Then
  <1>b. DOMAIN session = SessionFields /\ asked \in Calls /\ asked.verify \in BOOLEAN
    BY <1>a, ConfigAssumption DEF StageInv, Steps
  <1>c. /\ DOMAIN session' = SessionFields
        /\ session'.browser = Else(config.browser, session.browser)
        /\ session'.timeout = Or(config.timeout, session.timeout)
        /\ session'.redirects = Or(config.redirects, session.redirects)
        /\ session'.ja3 = session.ja3 /\ session'.h2 = session.h2
        /\ session'.proxy = session.proxy
    BY <1>a, <1>b DEF SessionFields
  <1>d. session'.insecure = (session.insecure \/ config.insecure)
    BY <1>a, <1>b DEF SessionFields
  <1>e. session'.insecure = config.insecure
    <2>1. session.insecure = FALSE /\ config.insecure = ~asked.verify
      BY <1>a DEF AppliedInv, ConfigInv, Steps
    <2> QED
      BY <1>b, <1>d, <2>1
  <1>f. AppliedInv'
    <2>1. /\ session.browser = "default" /\ session.timeout = 0 /\ session.proxy = None
          /\ session.redirects = LibraryLimit /\ session.ja3 = None /\ session.h2 = None
          /\ config.timeout = Milliseconds(asked.timeout)
          /\ config.redirects = IF asked.redirects = LibraryLimit THEN 0 ELSE asked.redirects
      BY <1>a DEF AppliedInv, ConfigInv, Steps
    <2>2. session'.timeout = Milliseconds(asked.timeout)
      BY <1>c, <2>1 DEF Or
    <2>3. asked.redirects \in Nat
      BY <1>b, ConfigAssumption
    <2>4. session'.redirects = LimitOf(asked.redirects)
      BY <1>c, <2>1, <2>3 DEF Or, LimitOf, LibraryLimit
    <2> QED
      BY <1>a, <1>c, <1>e, <2>1, <2>2, <2>4 DEF AppliedInv, Steps
  <1> QED
    BY <1>a, <1>c, <1>f, ApplyKeeps DEF Steps, TypeOK

LEMMA ApplyProxyKeeps == ASSUME IndInv, ApplyProxy PROVE IndInv'
  <1> USE DEF IndInv
  <1>a. /\ stage = "proxy" /\ UNCHANGED <<asked, config, proxy, pc, work, sent, unsettled>>
        /\ \/ stage' = "failed" /\ session' = NoSession
           \/ stage' = "ja3" /\ session' = [session EXCEPT !.proxy = Else(config.proxy, @)]
    BY DEF ApplyProxy, Refuse
  <1>b. DOMAIN session = SessionFields
    BY <1>a DEF StageInv, Steps
  <1>c. CASE stage' = "ja3" /\ session' = [session EXCEPT !.proxy = Else(config.proxy, @)]
    <2>1. /\ DOMAIN session' = SessionFields
          /\ session'.proxy = Else(config.proxy, session.proxy)
          /\ \A f \in SessionFields \ {"proxy"} : session'[f] = session[f]
      BY <1>b, <1>c DEF SessionFields
    <2>2. AppliedInv'
      BY <1>a, <1>c, <2>1 DEF AppliedInv, Steps, SessionFields, Else
    <2> QED
      BY <1>a, <1>c, <2>1, <2>2, ApplyKeeps DEF Steps, TypeOK
  <1> QED
    BY <1>a, <1>c, ApplyKeeps DEF Steps

LEMMA ApplyJa3Keeps == ASSUME IndInv, ApplyJa3 PROVE IndInv'
  <1> USE DEF IndInv
  <1> DEFINE after == IF config.ja3 = None THEN session
                      ELSE [session EXCEPT !.ja3 = config.ja3,
                                           !.navigator = Else(config.navigator, "chrome")]
  <1>a. /\ stage = "ja3" /\ UNCHANGED <<asked, config, proxy, pc, work, sent, unsettled>>
        /\ \/ stage' = "failed" /\ session' = NoSession
           \/ stage' = "h2" /\ session' = after
    BY DEF ApplyJa3, Refuse
  <1>b. DOMAIN session = SessionFields /\ session.ja3 = None
    BY <1>a DEF StageInv, AppliedInv, Steps
  <1>c. CASE stage' = "h2" /\ session' = after
    <2>1. /\ DOMAIN session' = SessionFields
          /\ session'.ja3 = config.ja3
          /\ config.ja3 # None => session'.navigator = Else(config.navigator, "chrome")
          /\ \A f \in SessionFields \ {"ja3", "navigator"} : session'[f] = session[f]
      BY <1>b, <1>c DEF SessionFields
    <2>2. config.ja3 # None => Else(config.navigator, "chrome") = session.browser
      BY <1>a DEF ConfigInv, AppliedInv, Steps, Else
    <2>3. AppliedInv'
      BY <1>a, <1>c, <2>1, <2>2 DEF AppliedInv, Steps, SessionFields
    <2> QED
      BY <1>a, <1>c, <2>1, <2>3, ApplyKeeps DEF Steps, TypeOK
  <1> QED
    BY <1>a, <1>c, ApplyKeeps DEF Steps

LEMMA ApplyH2Keeps == ASSUME IndInv, ApplyH2 PROVE IndInv'
  <1> USE DEF IndInv
  <1>a. /\ stage = "h2" /\ UNCHANGED <<asked, config, proxy, pc, work, sent, unsettled>>
        /\ \/ stage' = "failed" /\ session' = NoSession
           \/ stage' = "headers" /\ session' = [session EXCEPT !.h2 = Else(config.h2, @)]
    BY DEF ApplyH2, Refuse
  <1>b. DOMAIN session = SessionFields
    BY <1>a DEF StageInv, Steps
  <1>c. CASE stage' = "headers" /\ session' = [session EXCEPT !.h2 = Else(config.h2, @)]
    <2>1. /\ DOMAIN session' = SessionFields
          /\ session'.h2 = Else(config.h2, session.h2)
          /\ \A f \in SessionFields \ {"h2"} : session'[f] = session[f]
      BY <1>b, <1>c DEF SessionFields
    <2>2. AppliedInv'
      BY <1>a, <1>c, <2>1 DEF AppliedInv, Steps, SessionFields, Else
    <2> QED
      BY <1>a, <1>c, <2>1, <2>2, ApplyKeeps DEF Steps, TypeOK
  <1> QED
    BY <1>a, <1>c, ApplyKeeps DEF Steps

\* The last step: what it hands over to the client is what was asked for.
LEMMA ApplyHeadersConfigures ==
    ASSUME IndInv, ApplyHeaders
    PROVE  /\ DOMAIN session' = SessionFields /\ asked \in Calls
           /\ session'.ja3 = Expected("ja3")
           /\ session'.h2 = Expected("h2")
           /\ session'.browser = Else(Expected("browser"), "default")
           /\ session'.ja3 # None => session'.navigator = session'.browser
           /\ session'.proxy = asked.proxy
           /\ session'.insecure = ~asked.verify
           /\ session'.timeout = Milliseconds(asked.timeout)
           /\ session'.redirects = LimitOf(asked.redirects)
  <1> USE DEF IndInv
  <1>a. stage = "headers" /\ session' = [session EXCEPT !.headers = config.headers]
    BY DEF ApplyHeaders, Then
  <1>b. DOMAIN session = SessionFields /\ asked \in Calls
    BY <1>a DEF StageInv, Steps
  <1>c. /\ DOMAIN session' = SessionFields
        /\ \A f \in SessionFields \ {"headers"} : session'[f] = session[f]
    BY <1>a, <1>b DEF SessionFields
  <1>d. /\ session'.ja3 = session.ja3 /\ session'.h2 = session.h2
        /\ session'.browser = session.browser /\ session'.navigator = session.navigator
        /\ session'.proxy = session.proxy /\ session'.timeout = session.timeout
        /\ session'.redirects = session.redirects
    BY <1>c DEF SessionFields
  <1>e. session'.insecure = ~asked.verify
    <2>1. session'.insecure = session.insecure
      BY <1>c DEF SessionFields
    <2>2. session.insecure = config.insecure /\ config.insecure = ~asked.verify
      BY <1>a DEF AppliedInv, ConfigInv, Steps
    <2> QED
      BY <2>1, <2>2
  <1> QED
    BY <1>a, <1>b, <1>c, <1>d, <1>e DEF AppliedInv, ConfigInv, Steps

LEMMA ApplyHeadersKeeps == ASSUME IndInv, ApplyHeaders PROVE IndInv'
  <1>a. /\ stage = "headers" /\ stage' = "live" /\ proxy' = asked.proxy
        /\ UNCHANGED <<asked, config, pc, work, sent, unsettled>>
    BY DEF ApplyHeaders, Then
  <1>b. asked.proxy \in Proxies \cup {None}
    BY ApplyHeadersConfigures, ConfigAssumption
  <1>c. AppliedInv'
    BY <1>a, ApplyHeadersConfigures DEF AppliedInv, Steps
  <1> QED
    BY <1>a, <1>b, <1>c, ApplyHeadersConfigures, ApplyKeeps DEF Steps

-----------------------------------------------------------------------------
(***************************************************************************)
(* The setters.                                                            *)
(***************************************************************************)
\* What is the same for every step of a thread of a client that is live.
LEMMA LiveKeeps ==
    ASSUME IndInv, stage = "live", UNCHANGED <<stage, asked, config>>,
           DOMAIN session' = SessionFields,
           session'.timeout = session.timeout, session'.redirects = session.redirects,
           proxy' \in Proxies \cup {None}, unsettled' \in BOOLEAN,
           pc' \in [Threads -> {"idle", "set", "clear", "assign", "send"}],
           ProxyInv', WorkInv', OptionsHonoured'
    PROVE  IndInv'
  <1> USE DEF IndInv
  <1>c. session' # NoSession
    BY DEF SessionFields, NoSession
  <1>1. TypeOK'
    BY <1>c DEF TypeOK, Steps
  <1>2. StageInv' /\ ConfigInv' /\ AppliedInv'
    BY DEF StageInv, ConfigInv, AppliedInv, Steps
  <1> QED
    BY <1>1, <1>2

LEMMA BeginKeeps ==
    ASSUME IndInv, NEW t \in Threads, NEW what \in {"set", "clear", "send"}, NEW value,
           Begin(t, what, value),
           what \in {"set", "clear"} => unsettled' = (ProxyCalls # {}),
           what = "send" => unsettled' = unsettled,
           what = "set" => value \in Proxies,
           what = "clear" => value = None,
           what = "send" =>
              \E r \in RequestCalls : value = [call |-> r, data |-> RequestData(r)]
    PROVE  IndInv'
  <1> USE DEF IndInv
  <1>a. /\ stage = "live" /\ pc[t] = "idle"
        /\ pc' = [pc EXCEPT ![t] = what]
        /\ work' = [work EXCEPT ![t] = value]
        /\ sent' = None
        /\ UNCHANGED <<stage, asked, config, proxy, session>>
    BY DEF Begin, Goto, clientVars
  <1>b. /\ pc'[t] = what /\ work'[t] = value
        /\ \A u \in Threads \ {t} : pc'[u] = pc[u] /\ work'[u] = work[u]
    BY <1>a DEF TypeOK, WorkInv
  <1>c. ProxyCalls' = IF what = "send" THEN ProxyCalls ELSE ProxyCalls \cup {t}
    BY <1>a, <1>b DEF ProxyCalls
  <1>1. ProxyInv'
    <2>1. CASE what = "send"
      <3>1. ProxyCalls' = ProxyCalls /\ t \notin ProxyCalls
        BY <1>a, <1>c, <2>1 DEF ProxyCalls
      <3> QED
        BY <1>a, <1>b, <2>1, <3>1 DEF ProxyInv, ProxyCalls
    <2>2. CASE what # "send"
      <3>1. ~unsettled' => ProxyCalls' = {t}
        BY <1>c, <2>2
      <3>2. t \in ProxyCalls' /\ pc'[t] # "assign"
        BY <1>b, <1>c, <2>2
      <3> QED
        BY <3>1, <3>2 DEF ProxyInv
    <2> QED
      BY <2>1, <2>2
  <1>2. WorkInv'
    <2>1. \A o \in RequestCalls : RequestData(o)' = RequestData(o)
      BY <1>a DEF RequestData
    <2>2. DOMAIN work' = Threads
      BY <1>a DEF WorkInv
    <2>3. /\ what = "set" => value \in Proxies
          /\ what = "clear" => value = None
          /\ what = "send" =>
                \E r \in RequestCalls : value = [call |-> r, data |-> RequestData(r)']
      BY <2>1
    <2> QED
      BY <1>b, <2>1, <2>2, <2>3 DEF WorkInv
  <1>3. OptionsHonoured'
    BY <1>a DEF OptionsHonoured
  <1>4. unsettled' \in BOOLEAN
    BY DEF TypeOK
  <1> QED
    BY <1>a, <1>1, <1>2, <1>3, <1>4, LiveKeeps DEF StageInv, TypeOK

LEMMA GoSetProxyKeeps ==
    ASSUME IndInv, NEW t \in Threads, GoSetProxy(t)
    PROVE  IndInv'
  <1> USE DEF IndInv
  <1> DEFINE after == [session EXCEPT !.proxy = work[t]]
  <1>a. /\ pc[t] = "set"
        /\ UNCHANGED <<stage, asked, config, proxy, sent>>
        /\ \/ /\ pc' = [pc EXCEPT ![t] = "idle"] /\ work' = [work EXCEPT ![t] = None]
              /\ session' \in {session, after} /\ unsettled' = TRUE
           \/ /\ pc' = [pc EXCEPT ![t] = "assign"]
              /\ session' = after /\ UNCHANGED <<work, unsettled>>
    BY DEF GoSetProxy, Goto, clientVars
  <1>b. stage = "live" /\ DOMAIN session = SessionFields
    BY <1>a DEF StageInv, TypeOK, Steps
  <1>c. /\ DOMAIN session' = SessionFields
        /\ session'.timeout = session.timeout /\ session'.redirects = session.redirects
    BY <1>a, <1>b DEF SessionFields
  <1>d. after.proxy = work[t]
    BY <1>b DEF SessionFields
  <1> HIDE DEF after
  <1>1. ProxyInv'
    BY <1>a, <1>b, <1>d DEF ProxyInv, ProxyCalls, TypeOK
  <1>2. WorkInv'
    <2>1. \A u \in Threads : pc'[u] = "send" => pc[u] = "send" /\ work'[u] = work[u]
      BY <1>a DEF TypeOK, WorkInv
    <2>2. \A u \in Threads : pc'[u] \in {"set", "clear", "assign"} =>
              pc[u] \in {"set", "clear", "assign"} /\ work'[u] = work[u]
              /\ (pc'[u] = "clear" => pc[u] = "clear")
      BY <1>a DEF TypeOK, WorkInv
    <2>3. \A o \in RequestCalls : RequestData(o)' = RequestData(o)
      BY <1>a DEF RequestData
    <2>4. DOMAIN work' = Threads
      BY <1>a DEF WorkInv
    <2> QED
      BY <2>1, <2>2, <2>3, <2>4 DEF WorkInv
  <1>3. OptionsHonoured'
    BY <1>a DEF OptionsHonoured
  <1> QED
    BY <1>a, <1>b, <1>c, <1>1, <1>2, <1>3, LiveKeeps DEF TypeOK

LEMMA GoClearProxyKeeps ==
    ASSUME IndInv, NEW t \in Threads, GoClearProxy(t)
    PROVE  IndInv'
  <1> USE DEF IndInv
  <1>a. /\ pc[t] = "clear" /\ pc' = [pc EXCEPT ![t] = "assign"]
        /\ session' = [session EXCEPT !.proxy = None]
        /\ UNCHANGED <<stage, asked, config, proxy, sent, work, unsettled>>
    BY DEF GoClearProxy, Goto, clientVars
  <1>b. stage = "live" /\ DOMAIN session = SessionFields /\ work[t] = None
    BY <1>a DEF StageInv, TypeOK, Steps, WorkInv
  <1>c. /\ DOMAIN session' = SessionFields /\ session'.timeout = session.timeout
        /\ session'.redirects = session.redirects /\ session'.proxy = None
    BY <1>a, <1>b DEF SessionFields
  <1>1. ProxyInv'
    BY <1>a, <1>b, <1>c DEF ProxyInv, ProxyCalls, TypeOK
  <1>2. WorkInv'
    BY <1>a DEF WorkInv, RequestData, TypeOK
  <1>3. OptionsHonoured'
    BY <1>a DEF OptionsHonoured
  <1> QED
    BY <1>a, <1>b, <1>c, <1>1, <1>2, <1>3, LiveKeeps DEF TypeOK

LEMMA AssignProxyKeeps ==
    ASSUME IndInv, NEW t \in Threads, AssignProxy(t)
    PROVE  IndInv'
  <1> USE DEF IndInv
  <1>a. /\ pc[t] = "assign" /\ pc' = [pc EXCEPT ![t] = "idle"]
        /\ proxy' = work[t] /\ work' = [work EXCEPT ![t] = None]
        /\ UNCHANGED <<stage, asked, config, session, sent, unsettled>>
    BY DEF AssignProxy, Goto
  <1>b. /\ stage = "live" /\ DOMAIN session = SessionFields
        /\ work[t] \in Proxies \cup {None}
    BY <1>a DEF StageInv, TypeOK, Steps, WorkInv
  <1>1. ProxyInv'
    BY <1>a, <1>b DEF ProxyInv, ProxyCalls, TypeOK
  <1>2. WorkInv'
    <2>1. \A u \in Threads : pc'[u] # "idle" => u # t /\ pc'[u] = pc[u] /\ work'[u] = work[u]
      BY <1>a DEF TypeOK, WorkInv
    <2>2. \A o \in RequestCalls : RequestData(o)' = RequestData(o)
      BY <1>a DEF RequestData
    <2>3. DOMAIN work' = Threads
      BY <1>a DEF WorkInv
    <2> QED
      BY <2>1, <2>2, <2>3 DEF WorkInv
  <1>3. OptionsHonoured'
    BY <1>a DEF OptionsHonoured
  <1> QED
    BY <1>a, <1>b, <1>1, <1>2, <1>3, LiveKeeps DEF TypeOK

-----------------------------------------------------------------------------
(***************************************************************************)
(* request().                                                              *)
(***************************************************************************)
\* Milliseconds makes of every timeout that is not usable what "or" skips.
LEMMA UsableTimeouts ==
    ASSUME NEW x \in Timeouts
    PROVE  /\ Milliseconds(x) = TimeoutOf(x)
           /\ Usable(x) <=> TimeoutOf(x) # 0
  BY DEF Timeouts, Usable, TimeoutOf, Milliseconds

LEMMA DoKeeps ==
    ASSUME IndInv, NEW t \in Threads, Do(t)
    PROVE  IndInv'
  <1> USE DEF IndInv
  <1>a. /\ pc[t] = "send" /\ pc' = [pc EXCEPT ![t] = "idle"]
        /\ work' = [work EXCEPT ![t] = None]
        /\ UNCHANGED <<stage, asked, config, proxy, session, unsettled>>
    BY DEF Do, Goto, clientVars
  <1>b. /\ stage = "live" /\ asked \in Calls
        /\ session.timeout = Milliseconds(asked.timeout)
        /\ session.redirects = LimitOf(asked.redirects)
        /\ DOMAIN session = SessionFields
    BY <1>a DEF StageInv, AppliedInv, TypeOK, Steps
  <1>c. PICK r \in RequestCalls : work[t] = [call |-> r, data |-> RequestData(r)]
    BY <1>a DEF WorkInv
  <1>d. /\ sent'.call = r
        /\ sent'.timeout = Or(Milliseconds(Else(r.timeout, asked.timeout)), session.timeout)
        /\ sent'.redirects = Or(Else(r.redirects, 0), session.redirects)
        /\ sent'.follow = r.follow
        /\ sent'.force = Else(r.force, asked.force)
    BY <1>c DEF Do, RequestData
  <1>e. asked.timeout \in Timeouts /\ r.timeout \in Timeouts /\ r.redirects \in Nat \cup {None}
    BY <1>b, ConfigAssumption
  <1>1. OptionsHonoured'
    <2>1. sent'.timeout = IF Usable(r.timeout) THEN TimeoutOf(r.timeout)
                          ELSE TimeoutOf(asked.timeout)
      <3>1. CASE Usable(r.timeout)
        BY <1>d, <1>e, <3>1, UsableTimeouts DEF Usable, Else, Or
      <3>2. CASE ~Usable(r.timeout)
        <4>1. Milliseconds(Else(r.timeout, asked.timeout)) \in {0, session.timeout}
          BY <1>b, <1>e, <3>2, UsableTimeouts DEF Else
        <4>2. sent'.timeout = session.timeout
          BY <1>d, <4>1 DEF Or
        <4> QED
          BY <1>b, <1>e, <3>2, <4>2, UsableTimeouts
      <3> QED
        BY <3>1, <3>2
    <2>2. sent'.redirects = IF r.redirects # None /\ r.redirects > 0 THEN r.redirects
                            ELSE LimitOf(asked.redirects)
      BY <1>b, <1>d, <1>e DEF Else, Or
    <2>3. sent'.force = IF r.force = None THEN asked.force ELSE r.force
      BY <1>d DEF Else
    <2> QED
      BY <1>a, <1>d, <2>1, <2>2, <2>3 DEF OptionsHonoured
  <1>2. ProxyInv'
    BY <1>a DEF ProxyInv, ProxyCalls, TypeOK
  <1>3. WorkInv'
    <2>1. \A u \in Threads : pc'[u] # "idle" => u # t /\ pc'[u] = pc[u] /\ work'[u] = work[u]
      BY <1>a DEF TypeOK, WorkInv
    <2>2. \A o \in RequestCalls : RequestData(o)' = RequestData(o)
      BY <1>a DEF RequestData
    <2>3. DOMAIN work' = Threads
      BY <1>a DEF WorkInv
    <2> QED
      BY <2>1, <2>2, <2>3 DEF WorkInv
  <1> QED
    BY <1>a, <1>b, <1>1, <1>2, <1>3, LiveKeeps DEF TypeOK

-----------------------------------------------------------------------------
LEMMA IndInvStep == IndInv /\ [Next]_vars => IndInv'
  <1> SUFFICES ASSUME IndInv, [Next]_vars PROVE IndInv'
    OBVIOUS
  <1>1. CASE \E c \in Calls : Construct(c)
    BY <1>1, ConstructKeeps
  <1>2. CASE ApplyFields \/ ApplyProxy \/ ApplyJa3 \/ ApplyH2 \/ ApplyHeaders
    BY <1>2, ApplyFieldsKeeps, ApplyProxyKeeps, ApplyJa3Keeps, ApplyH2Keeps, ApplyHeadersKeeps
  <1>3. ASSUME NEW t \in Threads, SetProxy(t) PROVE IndInv'
    BY <1>3, BeginKeeps DEF SetProxy
  <1>4. ASSUME NEW t \in Threads, ClearProxy(t) PROVE IndInv'
    BY <1>4, BeginKeeps DEF ClearProxy
  <1>5. ASSUME NEW t \in Threads, Request(t) PROVE IndInv'
    BY <1>5, BeginKeeps DEF Request
  <1>6. ASSUME NEW t \in Threads, GoSetProxy(t) \/ GoClearProxy(t) \/ AssignProxy(t) \/ Do(t)
        PROVE  IndInv'
    BY <1>6, GoSetProxyKeeps, GoClearProxyKeeps, AssignProxyKeeps, DoKeeps
  <1>7. CASE UNCHANGED vars
    <2> USE <1>7 DEF vars, clientVars, IndInv
    <2>1. TypeOK' /\ StageInv' /\ ConfigInv' /\ AppliedInv'
      BY DEF TypeOK, StageInv, ConfigInv, AppliedInv, Expected
    <2>2. ProxyInv'
      BY DEF ProxyInv, ProxyCalls
    <2>3. WorkInv'
      BY DEF WorkInv, RequestData
    <2>4. OptionsHonoured'
      BY DEF OptionsHonoured
    <2> QED
      BY <2>1, <2>2, <2>3, <2>4
  <1> QED
    BY <1>1, <1>2, <1>3, <1>4, <1>5, <1>6, <1>7 DEF Next, Failed

LEMMA Inductive == Spec => []IndInv
  BY IndInvInit, IndInvStep, PTL DEF Spec

(***************************************************************************)
(* Type correctness: in particular, there is a Go session from the start   *)
(* of applyConfig on, and none once a configuration was refused.           *)
(***************************************************************************)
THEOREM TypeCorrect == Spec => []TypeOK
  BY Inductive, PTL DEF IndInv

(***************************************************************************)
(* set_proxy and clear_proxy keep client._proxy and the session's proxy in *)
(* step, for any number of threads, unless one failed or two overlapped.   *)
(***************************************************************************)
THEOREM ProxyIsTheSessions == Spec => []ProxyFollows
  <1>1. IndInv => ProxyFollows
    BY DEF IndInv, ProxyInv, ProxyFollows
  <1> QED
    BY <1>1, Inductive, PTL

(***************************************************************************)
(* What is in force for a request is what request() is given, or else what *)
(* the client was given, or else the library's default, field by field,    *)
(* for every timeout and limit; a timeout below a millisecond and a limit  *)
(* of zero count as not given.                                             *)
(***************************************************************************)
THEOREM OptionsAreHonoured == Spec => []OptionsHonoured
  BY Inductive, PTL DEF IndInv

-----------------------------------------------------------------------------
(***************************************************************************)
(* Lists of headers: what Headers and the two loops of __init__ leave.     *)
(***************************************************************************)
IsList(h) == h \in Seq(Range(h))
Unique(h) == \A i, j \in DOMAIN h : h[i][1] = h[j][1] => i = j

LEMMA ListIs ==
    ASSUME NEW h, IsList(h)
    PROVE  /\ Len(h) \in Nat /\ DOMAIN h = 1 .. Len(h)
           /\ \A i \in DOMAIN h : h[i] \in Range(h)
           /\ NamesIn(h) = {p[1] : p \in Range(h)}
<1>1. h \in Seq(Range(h))
  BY DEF IsList
<1>2. Len(h) \in Nat /\ DOMAIN h = 1 .. Len(h) /\ \A i \in DOMAIN h : h[i] \in Range(h)
  BY <1>1
<1> QED BY <1>2 DEF NamesIn, Range

LEMMA IsListOf ==
    ASSUME NEW S, NEW h \in Seq(S)
    PROVE  IsList(h)
<1>1. \A i \in 1 .. Len(h) : h[i] \in Range(h)
  BY DEF Range
<1> QED BY <1>1 DEF IsList

\* The value of a name is the one of its first occurrence.
LEMMA FirstOf ==
    ASSUME NEW h, IsList(h), NEW n \in NamesIn(h)
    PROVE  \E i \in DOMAIN h : /\ h[i][1] = n /\ ValueIn(h, n) = h[i][2]
                               /\ \A j \in DOMAIN h : h[j][1] = n => i <= j
<1> DEFINE I == {i \in 1 .. Len(h) : h[i][1] = n}
<1>1. Len(h) \in Nat /\ DOMAIN h = 1 .. Len(h)
  BY ListIs
<1>2. I # {} /\ I \in SUBSET (1 .. Len(h))
  BY <1>1 DEF NamesIn
<1>3. Min(I) \in I /\ \A j \in I : Min(I) <= j
  BY <1>1, <1>2, Least
<1>4. SelectInSeq(h, LAMBDA pair : pair[1] = n) = Min(I)
  BY <1>2 DEF SelectInSeq
<1>5. ValueIn(h, n) = h[Min(I)][2]
  BY <1>4 DEF ValueIn
<1> QED BY <1>1, <1>3, <1>5

LEMMA ValueOfFirst ==
    ASSUME NEW h, IsList(h), NEW i \in DOMAIN h,
           \A j \in DOMAIN h : h[j][1] = h[i][1] => i <= j
    PROVE  ValueIn(h, h[i][1]) = h[i][2]
<1> DEFINE n == h[i][1]
<1>1. n \in NamesIn(h)
  BY DEF NamesIn
<1>2. PICK k \in DOMAIN h : /\ h[k][1] = n /\ ValueIn(h, n) = h[k][2]
                            /\ \A j \in DOMAIN h : h[j][1] = n => k <= j
  BY <1>1, FirstOf
<1>3. i <= k /\ k <= i /\ i \in Nat /\ k \in Nat
  BY <1>2, ListIs
<1>4. k = i
  BY <1>3
<1> QED BY <1>2, <1>4

\* A name that stands once in a list has the value that stands there.
LEMMA ValueOf ==
    ASSUME NEW h, IsList(h), Unique(h), NEW i \in DOMAIN h
    PROVE  ValueIn(h, h[i][1]) = h[i][2]
<1>1. \A j \in DOMAIN h : h[j][1] = h[i][1] => i <= j
  <2>1. i \in Nat
    BY ListIs
  <2> QED BY <2>1 DEF Unique
<1> QED BY <1>1, ValueOfFirst

LEMMA Joined ==
    ASSUME NEW s, NEW t, IsList(s), IsList(t)
    PROVE  /\ IsList(s \o t) /\ Range(s \o t) = Range(s) \cup Range(t)
           /\ NamesIn(s \o t) = NamesIn(s) \cup NamesIn(t)
           /\ Unique(s) /\ Unique(t) /\ NamesIn(s) \cap NamesIn(t) = {} => Unique(s \o t)
<1> DEFINE S == Range(s) \cup Range(t)
           h == s \o t
           m == Len(s)
           n == Len(t)
<1>1. m \in Nat /\ n \in Nat /\ DOMAIN s = 1 .. m /\ DOMAIN t = 1 .. n
  BY ListIs
<1>2. s \in Seq(S) /\ t \in Seq(S)
  BY <1>1, ListIs DEF IsList
<1>3. h \in Seq(S) /\ Len(h) = m + n /\ DOMAIN h = 1 .. (m + n)
  BY <1>1, <1>2
<1>4. \A i \in 1 .. (m + n) : h[i] = IF i <= m THEN s[i] ELSE t[i - m]
  BY <1>1, <1>2
<1> HIDE DEF h
<1>5. \A i \in 1 .. m : i \in 1 .. (m + n) /\ h[i] = s[i]
  BY <1>1, <1>4
<1>6. \A i \in 1 .. n : m + i \in 1 .. (m + n) /\ h[m + i] = t[i]
  BY <1>1, <1>4
<1>7. \A i \in 1 .. (m + n) :
        \/ i \in 1 .. m /\ h[i] = s[i]
        \/ i - m \in 1 .. n /\ h[i] = t[i - m]
  BY <1>1, <1>4
<1>8. IsList(h)
  BY <1>3, IsListOf
<1> HIDE DEF m, n
<1>9. Range(h) = S
  <2>1. ASSUME NEW p \in Range(h) PROVE p \in S
    <3>1. PICK i \in 1 .. (m + n) : h[i] = p
      BY <1>3 DEF Range
    <3> QED BY <1>1, <1>7, <3>1 DEF Range
  <2>2. ASSUME NEW p \in Range(s) PROVE p \in Range(h)
    BY <1>1, <1>3, <1>5 DEF Range
  <2>3. ASSUME NEW p \in Range(t) PROVE p \in Range(h)
    <3>1. PICK i \in 1 .. n : t[i] = p
      BY <1>1 DEF Range
    <3> QED BY <1>3, <1>6, <3>1 DEF Range
  <2> QED BY <2>1, <2>2, <2>3
<1>10. NamesIn(h) = NamesIn(s) \cup NamesIn(t)
  BY <1>8, <1>9, ListIs
<1>11. ASSUME Unique(s), Unique(t), NamesIn(s) \cap NamesIn(t) = {},
              NEW i \in 1 .. (m + n), NEW j \in 1 .. (m + n), h[i][1] = h[j][1]
       PROVE  i = j
  <2>0. i \in Nat /\ j \in Nat /\ m \in Nat
    BY <1>1
  <2>1. \A k \in 1 .. m : s[k][1] \in NamesIn(s)
    BY <1>1 DEF NamesIn
  <2>2. \A k \in 1 .. n : t[k][1] \in NamesIn(t)
    BY <1>1 DEF NamesIn
  <2>3. CASE i \in 1 .. m /\ h[i] = s[i] /\ j \in 1 .. m /\ h[j] = s[j]
    BY <1>1, <1>11, <2>3 DEF Unique
  <2>4. CASE i - m \in 1 .. n /\ h[i] = t[i - m] /\ j - m \in 1 .. n /\ h[j] = t[j - m]
    <3>1. i - m = j - m
      BY <1>1, <1>11, <2>4 DEF Unique
    <3> QED BY <3>1, <2>0
  <2>5. CASE i \in 1 .. m /\ h[i] = s[i] /\ j - m \in 1 .. n /\ h[j] = t[j - m]
    <3>1. h[i][1] \in NamesIn(s) /\ h[j][1] \in NamesIn(t)
      BY <2>1, <2>2, <2>5
    <3> QED BY <1>11, <3>1
  <2>6. CASE j \in 1 .. m /\ h[j] = s[j] /\ i - m \in 1 .. n /\ h[i] = t[i - m]
    <3>1. h[j][1] \in NamesIn(s) /\ h[i][1] \in NamesIn(t)
      BY <2>1, <2>2, <2>6
    <3> QED BY <1>11, <3>1
  <2> QED BY <1>7, <2>3, <2>4, <2>5, <2>6
<1>12. Unique(s) /\ Unique(t) /\ NamesIn(s) \cap NamesIn(t) = {} => Unique(h)
  BY <1>3, <1>11 DEF Unique
<1> QED BY <1>8, <1>9, <1>10, <1>12 DEF h

\* if k not in merged: merged[k] = v
LEMMA MissingAdded ==
    ASSUME NEW P, NEW h \in Seq(P), NEW p \in P
    PROVE  /\ AddMissing(h, p) \in Seq(P)
           /\ NamesIn(AddMissing(h, p)) = NamesIn(h) \cup {p[1]}
           /\ Unique(h) => Unique(AddMissing(h, p))
           /\ Len(h) <= Len(AddMissing(h, p))
           /\ \A i \in 1 .. Len(h) : AddMissing(h, p)[i] = h[i]
           /\ p[1] \notin NamesIn(h) => p \in Range(AddMissing(h, p))
<1>1. CASE p[1] \in NamesIn(h)
  <2>1. AddMissing(h, p) = h /\ Len(h) \in Nat
    BY <1>1 DEF AddMissing
  <2> QED BY <1>1, <2>1
<1>2. CASE p[1] \notin NamesIn(h)
  <2> DEFINE g == AddMissing(h, p)
             n == Len(h)
  <2>1. g = Append(h, p)
    BY <1>2 DEF AddMissing
  <2>2. n \in Nat /\ DOMAIN h = 1 .. n /\ g \in Seq(P) /\ DOMAIN g = 1 .. (n + 1)
    BY <2>1
  <2>3. \A i \in 1 .. n : g[i] = h[i] /\ i \in 1 .. (n + 1)
    BY <2>1, <2>2
  <2>4. g[n + 1] = p /\ n + 1 \in 1 .. (n + 1)
    BY <2>1, <2>2
  <2>5. \A i \in 1 .. (n + 1) : i \in 1 .. n \/ i = n + 1
    BY <2>2
  <2> HIDE DEF g, n
  <2>6. NamesIn(g) = NamesIn(h) \cup {p[1]}
    BY <2>2, <2>3, <2>4, <2>5 DEF NamesIn
  <2>7. p \in Range(g)
    BY <2>2, <2>4 DEF Range
  <2>8. ASSUME Unique(h) PROVE Unique(g)
    <3>1. \A i \in 1 .. n : h[i][1] # p[1]
      BY <1>2, <2>2 DEF NamesIn
    <3> QED BY <2>2, <2>3, <2>4, <2>5, <2>8, <3>1 DEF Unique
  <2>9. n <= Len(g) /\ \A i \in 1 .. n : g[i] = h[i]
    BY <2>2, <2>3
  <2> QED BY <2>2, <2>6, <2>7, <2>8, <2>9 DEF g, n
<1> QED BY <1>1, <1>2

\* The second loop of __init__.
AllAdded(h, user) == FoldLeft(AddMissing, h, user)

LEMMA AddMissingFold ==
    ASSUME NEW P, NEW base \in Seq(P), NEW seq \in Seq(P)
    PROVE  \E f : /\ f[0] = base /\ f[Len(seq)] = AllAdded(base, seq)
                  /\ \A k \in 0 .. Len(seq) : f[k] \in Seq(P)
                  /\ \A k \in 1 .. Len(seq) : f[k] = AddMissing(f[k - 1], seq[k])
<1> DEFINE step == [x \in Seq(P) \X P |-> AddMissing(x[1], x[2])]
           Iterates(it) == it = [s \in SUBSET (DOMAIN seq) |->
                                    IF s = {} THEN base
                                    ELSE AddMissing(it[s \ {Max(s)}], seq[Max(s)])]
           it == CHOOSE it : Iterates(it)
<1>a. seq \in Seq(P) /\ Len(seq) \in Nat /\ DOMAIN seq = 1 .. Len(seq)
      /\ \A i \in DOMAIN seq : seq[i] \in P
  OBVIOUS
<1>b. \A h \in Seq(P), p \in P : AddMissing(h, p) \in Seq(P)
  BY MissingAdded
<1>1. step \in [Seq(P) \X P -> Seq(P)]
  BY <1>b
<1> HIDE DEF step
<1>2. PICK g : /\ IsFold(g, step, base, seq)
               /\ \A s \in SUBSET (DOMAIN seq) : g[s] \in Seq(P)
  BY <1>1, <1>a, FoldExists
<1>3. Iterates(g)
  <2>1. ASSUME NEW s \in SUBSET (DOMAIN seq), s # {}
        PROVE  g[s \ {Max(s)}] \in Seq(P) /\ seq[Max(s)] \in P
    BY <1>2, <1>a, <2>1, LargestIn
  <2>2. ASSUME NEW s \in SUBSET (DOMAIN seq), s # {}
        PROVE  step[g[s \ {Max(s)}], seq[Max(s)]] = AddMissing(g[s \ {Max(s)}], seq[Max(s)])
    BY <2>1, <2>2 DEF step
  <2> QED BY <1>2, <2>2 DEF IsFold
<1> HIDE DEF Iterates
<1>4. Iterates(it)
  BY <1>3
<1>5. FoldLeft(AddMissing, base, seq) = it[DOMAIN seq]
  BY DEF FoldLeft, MapThenFoldSet, Iterates
<1> HIDE DEF it
<1> DEFINE f == [k \in 0 .. Len(seq) |-> it[1 .. k]]
<1>6. f[0] = base
  <2>1. it[{}] = base
    BY <1>4 DEF Iterates
  <2>2. 1 .. 0 = {}
    OBVIOUS
  <2> QED BY <1>a, <2>1, <2>2
<1>7. f[Len(seq)] = AllAdded(base, seq)
  BY <1>5, <1>a DEF AllAdded
<1>8. ASSUME NEW k \in 1 .. Len(seq) PROVE f[k] = AddMissing(f[k - 1], seq[k])
  <2>1. k \in Nat \ {0} /\ k \in 1 .. k /\ 1 .. k \in SUBSET (DOMAIN seq)
    BY <1>a
  <2>2. Max(1 .. k) = k /\ (1 .. k) \ {k} = 1 .. (k - 1)
    BY <2>1, LastIndex
  <2>3. it[1 .. k] = AddMissing(it[1 .. (k - 1)], seq[k])
    BY <1>4, <2>1, <2>2 DEF Iterates
  <2>4. f[k] = it[1 .. k] /\ f[k - 1] = it[1 .. (k - 1)]
    BY <1>a
  <2> QED BY <2>3, <2>4
<1> HIDE DEF f
<1>9. \A k \in 0 .. Len(seq) : f[k] \in Seq(P)
  <2> DEFINE S == {k \in 0 .. Len(seq) : f[k] \in Seq(P)}
  <2>1. 0 \in S
    BY <1>6, <1>a
  <2>2. ASSUME NEW k \in 1 .. Len(seq), k - 1 \in S PROVE k \in S
    <3>1. f[k - 1] \in Seq(P) /\ seq[k] \in P /\ k \in 0 .. Len(seq)
      BY <1>a, <2>2
    <3>2. f[k] \in Seq(P)
      BY <1>8, <1>b, <3>1
    <3> QED BY <3>1, <3>2
  <2> HIDE DEF S
  <2>3. \A k \in 0 .. Len(seq) : k \in S
    BY <1>a, <2>1, <2>2, UpTo
  <2> QED BY <2>3 DEF S
<1> QED BY <1>6, <1>7, <1>8, <1>9

\* After the second loop every header of both lists is there once, and the first list
\* as it was; a header that only the second has is its first one of that name.
FirstAt(seq, i) == \A j \in 1 .. (i - 1) : seq[j][1] # seq[i][1]

LEMMA MissingFolded ==
    ASSUME NEW P, NEW base \in Seq(P), NEW seq \in Seq(P), Unique(base)
    PROVE  LET h == AllAdded(base, seq)
           IN  /\ h \in Seq(P) /\ Unique(h) /\ NamesIn(h) = NamesIn(base) \cup NamesIn(seq)
               /\ Len(base) <= Len(h) /\ \A i \in 1 .. Len(base) : h[i] = base[i]
               /\ \A i \in DOMAIN seq :
                     seq[i][1] \notin NamesIn(base) /\ FirstAt(seq, i) => seq[i] \in Range(h)
<1> DEFINE n == Len(seq)
           b == Len(base)
           Seen(k) == {seq[i][1] : i \in 1 .. k}
<1>1. PICK f : /\ f[0] = base /\ f[n] = AllAdded(base, seq)
               /\ \A k \in 0 .. n : f[k] \in Seq(P)
               /\ \A k \in 1 .. n : f[k] = AddMissing(f[k - 1], seq[k])
  BY AddMissingFold
<1>2. n \in Nat /\ b \in Nat /\ DOMAIN seq = 1 .. n /\ \A k \in 1 .. n : seq[k] \in P
  OBVIOUS
<1> HIDE DEF n
<1> DEFINE Kept(k) == b <= Len(f[k]) /\ \A i \in 1 .. b : f[k][i] = base[i]
           Found(k) == \A i \in 1 .. k : seq[i][1] \notin NamesIn(base) /\ FirstAt(seq, i)
                                            => seq[i] \in Range(f[k])
           Good(k) == /\ Unique(f[k]) /\ NamesIn(f[k]) = NamesIn(base) \cup Seen(k)
                      /\ Kept(k) /\ Found(k)
           S == {k \in 0 .. n : Good(k)}
<1>3. 0 \in S
  <2>1. Seen(0) = {} /\ 1 .. 0 = {}
    OBVIOUS
  <2>2. Good(0)
    BY <1>1, <1>2, <2>1
  <2> QED BY <1>2, <2>2
<1>4. ASSUME NEW k \in 1 .. n, k - 1 \in S PROVE k \in S
  <2> DEFINE g == f[k - 1]
             p == seq[k]
  <2>1. Good(k - 1) /\ g \in Seq(P) /\ p \in P /\ f[k] = AddMissing(g, p) /\ k \in 0 .. n
    BY <1>1, <1>2, <1>4
  <2>2. \A i \in 1 .. k : i \in 1 .. (k - 1) \/ i = k
    BY <1>2
  <2>3. Seen(k) = Seen(k - 1) \cup {p[1]}
    BY <1>2, <2>2
  <2>4. FirstAt(seq, k) => p[1] \notin Seen(k - 1)
    BY DEF FirstAt
  <2>5. /\ f[k] \in Seq(P) /\ Unique(f[k]) /\ NamesIn(f[k]) = NamesIn(g) \cup {p[1]}
        /\ Len(g) <= Len(f[k]) /\ \A i \in 1 .. Len(g) : f[k][i] = g[i]
        /\ p[1] \notin NamesIn(g) => p \in Range(f[k])
    <3>1. g \in Seq(P) /\ p \in P /\ f[k] = AddMissing(g, p) /\ Unique(g)
      BY <2>1
    <3> HIDE DEF g, p
    <3> QED BY <3>1, MissingAdded
  <2>6. NamesIn(f[k]) = NamesIn(base) \cup Seen(k)
    BY <2>1, <2>3, <2>5
  <2>7. p[1] \notin NamesIn(base) /\ FirstAt(seq, k) => p \in Range(f[k])
    BY <2>1, <2>4, <2>5
  <2>8. Range(g) \subseteq Range(f[k])
    <3>1. Len(g) \in Nat /\ Len(f[k]) \in Nat /\ DOMAIN g = 1 .. Len(g) /\ DOMAIN f[k] = 1 .. Len(f[k])
      BY <2>1, <2>5
    <3> HIDE DEF g
    <3> QED BY <2>5, <3>1 DEF Range
  <2>9. Kept(k)
    <3>1. Len(g) \in Nat /\ Len(f[k]) \in Nat /\ Kept(k - 1)
      BY <2>1, <2>5
    <3> QED BY <1>2, <2>5, <3>1
  <2> HIDE DEF Seen, Kept
  <2>10. Found(k)
    BY <2>1, <2>2, <2>7, <2>8
  <2> HIDE DEF Found
  <2>11. Good(k)
    BY <2>5, <2>6, <2>9, <2>10
  <2> QED BY <2>1, <2>11
<1> HIDE DEF Good
<1>5. Good(n) /\ n \in 0 .. n
  <2> HIDE DEF S
  <2>1. \A k \in 0 .. n : k \in S
    BY <1>2, <1>3, <1>4, UpTo
  <2> QED BY <2>1, <1>2 DEF S
<1>6. Seen(n) = NamesIn(seq)
  BY <1>2 DEF NamesIn
<1> QED BY <1>1, <1>2, <1>5, <1>6 DEF Good

\* merged[k] = user_headers[k] if k in user_headers else v
LEMMA SeededIs ==
    ASSUME NEW rows, NEW user, IsList(rows), Unique(rows)
    PROVE  LET h == Seeded(rows, user)
           IN  /\ IsList(h) /\ Unique(h) /\ NamesIn(h) = NamesIn(rows)
               /\ DOMAIN h = DOMAIN rows /\ \A i \in DOMAIN rows : h[i][1] = rows[i][1]
               /\ \A n \in NamesIn(h) :
                     ValueIn(h, n) = IF n \in NamesIn(user) THEN ValueIn(user, n) ELSE ValueIn(rows, n)
<1> DEFINE h == Seeded(rows, user)
           v(i) == IF rows[i][1] \in NamesIn(user) THEN ValueIn(user, rows[i][1]) ELSE rows[i][2]
<1>1. Len(rows) \in Nat /\ DOMAIN rows = 1 .. Len(rows)
  BY ListIs
<1>2. h = [i \in 1 .. Len(rows) |-> <<rows[i][1], v(i)>>]
  BY <1>1 DEF Seeded
<1>3. DOMAIN h = 1 .. Len(rows)
  BY <1>2
<1>4. \A i \in 1 .. Len(rows) : h[i] = <<rows[i][1], v(i)>>
  BY <1>2
<1>5. IsList(h)
  <2>1. \A i \in 1 .. Len(rows) : h[i] \in Range(h)
    BY <1>3 DEF Range
  <2>2. h = [i \in 1 .. Len(rows) |-> h[i]]
    BY <1>2
  <2> HIDE DEF h
  <2> QED BY <1>1, <2>1, <2>2 DEF IsList
<1> HIDE DEF h, v
<1>6. \A i \in DOMAIN h : i \in DOMAIN rows /\ h[i][1] = rows[i][1] /\ h[i][2] = v(i)
  BY <1>1, <1>3, <1>4
<1>7. Unique(h)
  BY <1>6 DEF Unique
<1>8. NamesIn(h) = NamesIn(rows)
  BY <1>1, <1>3, <1>6 DEF NamesIn
<1>9. ASSUME NEW n \in NamesIn(h)
      PROVE  ValueIn(h, n) = IF n \in NamesIn(user) THEN ValueIn(user, n) ELSE ValueIn(rows, n)
  <2>1. PICK i \in DOMAIN h : h[i][1] = n
    BY DEF NamesIn
  <2>2. ValueIn(h, n) = v(i) /\ i \in DOMAIN rows /\ rows[i][1] = n
    BY <1>5, <1>6, <1>7, <2>1, ValueOf
  <2>3. ValueIn(rows, n) = rows[i][2]
    BY <2>2, ValueOf
  <2> QED BY <2>2, <2>3 DEF v
<1> QED BY <1>1, <1>3, <1>5, <1>6, <1>7, <1>8, <1>9 DEF h

-----------------------------------------------------------------------------
(***************************************************************************)
(* default_browser_headers.                                                *)
(***************************************************************************)
\* Lists of one pair, and the repeated values of a family.
LEMMA Single ==
    ASSUME NEW p
    PROVE  IsList(<<p>>) /\ Unique(<<p>>) /\ Range(<<p>>) = {p} /\ NamesIn(<<p>>) = {p[1]}
<1> DEFINE h == <<p>>
<1>1. h \in Seq({p}) /\ DOMAIN h = {1} /\ h[1] = p
  OBVIOUS
<1> HIDE DEF h
<1>2. IsList(h) /\ Unique(h) /\ Range(h) = {p}
  BY <1>1, IsListOf DEF Unique, Range
<1>3. NamesIn(h) = {p[1]}
  BY <1>1 DEF NamesIn
<1> QED BY <1>2, <1>3 DEF h

LEMMA RowsAre ==
    ASSUME NEW S, NEW names \in Seq(S), \A i, j \in DOMAIN names : names[i] = names[j] => i = j,
           NEW value
    PROVE  /\ IsList(Rows(names, value)) /\ Unique(Rows(names, value))
           /\ NamesIn(Rows(names, value)) = Range(names)
<1> DEFINE h == Rows(names, value)
           n == Len(names)
<1>1. n \in Nat /\ DOMAIN names = 1 .. n
  OBVIOUS
<1>2. h = [i \in 1 .. n |-> <<names[i], value>>]
  BY <1>1 DEF Rows
<1>3. h \in Seq({<<names[i], value>> : i \in 1 .. n}) /\ DOMAIN h = 1 .. n
  BY <1>1, <1>2
<1>4. \A i \in 1 .. n : h[i][1] = names[i]
  BY <1>2
<1> HIDE DEF h, n
<1>5. IsList(h)
  BY <1>3, IsListOf
<1>6. Unique(h)
  BY <1>1, <1>3, <1>4 DEF Unique
<1>7. NamesIn(h) = Range(names)
  BY <1>1, <1>3, <1>4 DEF NamesIn, Range
<1> QED BY <1>5, <1>6, <1>7 DEF h

LEMMA AgentRowIs ==
    ASSUME NEW ua
    PROVE  /\ IsList(AgentRow(ua)) /\ Unique(AgentRow(ua))
           /\ NamesIn(AgentRow(ua)) = IF ua = None THEN {} ELSE {"user-agent"}
           /\ \A p \in Range(AgentRow(ua)) : p = <<"user-agent", ua>>
<1>1. CASE ua = None
  <2>1. AgentRow(ua) = <<>>
    BY <1>1 DEF AgentRow
  <2>2. IsList(<<>>) /\ Unique(<<>>) /\ NamesIn(<<>>) = {} /\ Range(<<>>) = {}
    BY DEF IsList, Unique, NamesIn, Range
  <2> QED BY <1>1, <2>1, <2>2
<1>2. CASE ua # None
  <2> DEFINE p == <<"user-agent", ua>>
  <2>1. AgentRow(ua) = <<p>> /\ p[1] = "user-agent"
    BY <1>2 DEF AgentRow
  <2> HIDE DEF p
  <2>2. IsList(<<p>>) /\ Unique(<<p>>) /\ Range(<<p>>) = {p} /\ NamesIn(<<p>>) = {p[1]}
    BY Single
  <2> QED BY <1>2, <2>1, <2>2 DEF p
<1> QED BY <1>1, <1>2

HintRows(brands, ua) ==
    <<<<"sec-ch-ua", brands>>,
      <<"sec-ch-ua-mobile", Platform(ua)[2]>>,
      <<"sec-ch-ua-platform", Platform(ua)[1]>>,
      <<"upgrade-insecure-requests", "1">>>>

LEMMA HintRowsAre ==
    ASSUME NEW brands, NEW ua
    PROVE  LET h == HintRows(brands, ua)
           IN  /\ IsList(h) /\ Unique(h)
               /\ NamesIn(h) = {"sec-ch-ua", "sec-ch-ua-mobile", "sec-ch-ua-platform",
                                "upgrade-insecure-requests"}
               /\ {<<"sec-ch-ua", brands>>, <<"sec-ch-ua-mobile", Platform(ua)[2]>>,
                   <<"sec-ch-ua-platform", Platform(ua)[1]>>} \subseteq Range(h)
<1> DEFINE h == HintRows(brands, ua)
           a == <<"sec-ch-ua", brands>>
           b == <<"sec-ch-ua-mobile", Platform(ua)[2]>>
           c == <<"sec-ch-ua-platform", Platform(ua)[1]>>
           d == <<"upgrade-insecure-requests", "1">>
<1>1. h = <<a, b, c, d>>
  BY DEF HintRows
<1>2. /\ a[1] = "sec-ch-ua" /\ b[1] = "sec-ch-ua-mobile" /\ c[1] = "sec-ch-ua-platform"
      /\ d[1] = "upgrade-insecure-requests"
  OBVIOUS
<1> HIDE DEF a, b, c, d, h
<1>3. /\ h \in Seq({a, b, c, d}) /\ DOMAIN h = {1, 2, 3, 4}
      /\ h[1] = a /\ h[2] = b /\ h[3] = c /\ h[4] = d
  BY <1>1
<1>4. IsList(h)
  BY <1>3, IsListOf
<1>5. Unique(h)
  BY <1>2, <1>3 DEF Unique
<1>6. NamesIn(h) = {a[1], b[1], c[1], d[1]}
  BY <1>3 DEF NamesIn
<1>7. {a, b, c} \subseteq Range(h)
  BY <1>3 DEF Range
<1> QED BY <1>2, <1>4, <1>5, <1>6, <1>7 DEF a, b, c, h

\* The rows of a Chromium browser: each name once, and what the hints say.
LEMMA ChromiumIs ==
    ASSUME NEW brands, NEW ua, NEW chromium
    PROVE  LET h == Chromium(brands, ua, chromium)
           IN  /\ IsList(h) /\ Unique(h)
               /\ "user-agent" \in NamesIn(h) => ua # None /\ <<"user-agent", ua>> \in Range(h)
               /\ {<<"sec-ch-ua", brands>>, <<"sec-ch-ua-mobile", Platform(ua)[2]>>,
                   <<"sec-ch-ua-platform", Platform(ua)[1]>>,
                   <<"accept-encoding", AcceptEncoding(chromium)>>} \subseteq Range(h)
<1> DEFINE a == HintRows(brands, ua)
           b == AgentRow(ua)
           n == <<"accept", "sec-fetch-site", "sec-fetch-mode", "sec-fetch-user", "sec-fetch-dest">>
           c == Rows(n, "chromium")
           q == <<"accept-encoding", AcceptEncoding(chromium)>>
           d == <<q>>
           m == <<"accept-language", "priority">>
           e == Rows(m, "chromium")
<1>1. Chromium(brands, ua, chromium) = a \o b \o c \o d \o e
  BY DEF Chromium, HintRows
<1>2. /\ IsList(a) /\ Unique(a)
      /\ NamesIn(a) = {"sec-ch-ua", "sec-ch-ua-mobile", "sec-ch-ua-platform",
                       "upgrade-insecure-requests"}
      /\ {<<"sec-ch-ua", brands>>, <<"sec-ch-ua-mobile", Platform(ua)[2]>>,
          <<"sec-ch-ua-platform", Platform(ua)[1]>>} \subseteq Range(a)
  BY HintRowsAre
<1>3. IsList(b) /\ Unique(b) /\ NamesIn(b) \subseteq {"user-agent"}
  BY AgentRowIs
<1>3a. "user-agent" \in NamesIn(b) => ua # None /\ <<"user-agent", ua>> \in Range(b)
  BY AgentRowIs, ListIs
<1>4. /\ IsList(c) /\ Unique(c)
      /\ NamesIn(c) = {"accept", "sec-fetch-site", "sec-fetch-mode", "sec-fetch-user", "sec-fetch-dest"}
  <2>2. /\ n \in Seq({"accept", "sec-fetch-site", "sec-fetch-mode", "sec-fetch-user", "sec-fetch-dest"}) /\ DOMAIN n = {1, 2, 3, 4, 5}
        /\ n[1] = "accept" /\ n[2] = "sec-fetch-site" /\ n[3] = "sec-fetch-mode"
        /\ n[4] = "sec-fetch-user" /\ n[5] = "sec-fetch-dest"
    OBVIOUS
  <2> HIDE DEF n
  <2>1. \A i, j \in DOMAIN n : n[i] = n[j] => i = j
    BY <2>2
  <2>3. Range(n) = {"accept", "sec-fetch-site", "sec-fetch-mode", "sec-fetch-user", "sec-fetch-dest"}
    BY <2>2 DEF Range
  <2> QED BY <2>1, <2>2, <2>3, RowsAre
<1>5. IsList(d) /\ Unique(d) /\ Range(d) = {q} /\ NamesIn(d) = {"accept-encoding"}
  <2>1. q[1] = "accept-encoding"
    OBVIOUS
  <2> HIDE DEF q
  <2> QED BY <2>1, Single
<1>6. IsList(e) /\ Unique(e) /\ NamesIn(e) = {"accept-language", "priority"}
  <2>2. /\ m \in Seq({"accept-language", "priority"}) /\ DOMAIN m = {1, 2}
        /\ m[1] = "accept-language" /\ m[2] = "priority"
    OBVIOUS
  <2> HIDE DEF m
  <2>1. \A i, j \in DOMAIN m : m[i] = m[j] => i = j
    BY <2>2
  <2>3. Range(m) = {"accept-language", "priority"}
    BY <2>2 DEF Range
  <2> QED BY <2>1, <2>2, <2>3, RowsAre
<1> HIDE DEF a, b, c, d, e
<1>7. /\ IsList(a \o b) /\ Range(a \o b) = Range(a) \cup Range(b)
      /\ NamesIn(a \o b) = NamesIn(a) \cup NamesIn(b) /\ Unique(a \o b)
  BY <1>2, <1>3, Joined
<1>8. /\ IsList(a \o b \o c) /\ Range(a \o b \o c) = Range(a) \cup Range(b) \cup Range(c)
      /\ NamesIn(a \o b \o c) = NamesIn(a) \cup NamesIn(b) \cup NamesIn(c) /\ Unique(a \o b \o c)
  <2>1. NamesIn(a \o b) \cap NamesIn(c) = {}
    BY <1>2, <1>3, <1>4, <1>7
  <2> QED BY <1>4, <1>7, <2>1, Joined
<1>9. /\ IsList(a \o b \o c \o d) /\ Range(a \o b \o c \o d) = Range(a \o b \o c) \cup {q}
      /\ NamesIn(a \o b \o c \o d) = NamesIn(a \o b \o c) \cup NamesIn(d) /\ Unique(a \o b \o c \o d)
  <2>1. NamesIn(a \o b \o c) \cap NamesIn(d) = {}
    BY <1>2, <1>3, <1>4, <1>5, <1>8
  <2> QED BY <1>5, <1>8, <2>1, Joined
<1> DEFINE f == a \o b \o c \o d
<1>10. /\ IsList(f \o e) /\ Range(f \o e) = Range(f) \cup Range(e)
       /\ NamesIn(f \o e) = NamesIn(f) \cup NamesIn(e) /\ Unique(f \o e)
  <2>1. NamesIn(f) \cap NamesIn(e) = {}
    BY <1>2, <1>3, <1>4, <1>5, <1>6, <1>8, <1>9
  <2>2. IsList(f) /\ Unique(f)
    BY <1>9
  <2> HIDE DEF f
  <2> QED BY <1>6, <2>1, <2>2, Joined
<1>11. "user-agent" \in NamesIn(f \o e) => "user-agent" \in NamesIn(b)
  BY <1>2, <1>4, <1>5, <1>6, <1>8, <1>9, <1>10
<1> QED BY <1>1, <1>2, <1>3a, <1>8, <1>9, <1>10, <1>11 DEF q

\* Those of the other families have no client hints.
LEMMA PlainIs ==
    ASSUME NEW ua, NEW S, NEW names \in Seq(S), NEW value,
           \A i, j \in DOMAIN names : names[i] = names[j] => i = j,
           Range(names) \cap {"user-agent", "sec-ch-ua"} = {}
    PROVE  LET h == AgentRow(ua) \o Rows(names, value)
           IN  /\ IsList(h) /\ Unique(h) /\ "sec-ch-ua" \notin NamesIn(h)
               /\ "user-agent" \in NamesIn(h) => ua # None /\ <<"user-agent", ua>> \in Range(h)
<1> DEFINE a == AgentRow(ua)
           b == Rows(names, value)
<1>1. IsList(a) /\ Unique(a) /\ NamesIn(a) \subseteq {"user-agent"}
  BY AgentRowIs
<1>2. "user-agent" \in NamesIn(a) => ua # None /\ <<"user-agent", ua>> \in Range(a)
  BY AgentRowIs, ListIs
<1>3. IsList(b) /\ Unique(b) /\ NamesIn(b) = Range(names)
  BY RowsAre
<1> HIDE DEF a, b
<1>4. /\ IsList(a \o b) /\ Range(a \o b) = Range(a) \cup Range(b)
      /\ NamesIn(a \o b) = NamesIn(a) \cup NamesIn(b) /\ Unique(a \o b)
  BY <1>1, <1>3, Joined
<1> QED BY <1>1, <1>2, <1>3, <1>4 DEF a, b

LEMMA ValueAt ==
    ASSUME NEW h, IsList(h), Unique(h), NEW n, NEW v, <<n, v>> \in Range(h)
    PROVE  n \in NamesIn(h) /\ ValueIn(h, n) = v
<1>1. PICK i \in DOMAIN h : h[i] = <<n, v>>
  BY DEF Range
<1>2. h[i][1] = n /\ h[i][2] = v
  BY <1>1
<1> QED BY <1>2, ValueOf DEF NamesIn

\* The client hints are there for Chromium's families only, and give its version.
LEMMA ChromiumFamilies ==
    ASSUME NEW browser \in {"chrome", "edge", "opera"}, NEW ua \in Agents, ua # None
    PROVE  \E brands, chromium :
              /\ DefaultHeaders(browser, ua) = Chromium(brands, ua, chromium)
              /\ Version[ua]["Chrome"] # 0 =>
                    /\ chromium = Version[ua]["Chrome"]
                    /\ \E i \in DOMAIN brands : brands[i] = <<"Chromium", Version[ua]["Chrome"]>>
<1> DEFINE c == Version[ua]["Chrome"]
           edg == Version[ua]["Edg"]
           m == Or(c, 131)
           w == Or(edg, m)
<1>1. Major(ua, "Chrome") = c /\ Major(ua, "Edg") = edg
  BY DEF Major
<1>2. edg \in {0, c}
  BY AgentAssumption
<1>3. c # 0 => m = c /\ w = c /\ Or(c, w) = c
  BY <1>2 DEF Or
<1>4. CASE browser = "chrome"
  <2> DEFINE brands == <<<<"Chromium", m>>, <<"Google Chrome", m>>>>
  <2>1. DefaultHeaders(browser, ua) = Chromium(brands, ua, m)
    BY <1>1, <1>4 DEF DefaultHeaders, Chrome
  <2>2. DOMAIN brands = {1, 2} /\ brands[1] = <<"Chromium", m>>
    OBVIOUS
  <2> HIDE DEF brands
  <2>3. c # 0 => \E i \in DOMAIN brands : brands[i] = <<"Chromium", c>>
    BY <1>3, <2>2
  <2> HIDE DEF m, c
  <2> QED BY <1>3, <2>1, <2>3 DEF c
<1>5. CASE browser = "edge"
  <2> DEFINE brands == <<<<"Microsoft Edge", w>>, <<"Chromium", w>>>>
  <2>1. DefaultHeaders(browser, ua) = Chromium(brands, ua, Or(c, w))
    BY <1>1, <1>5 DEF DefaultHeaders, Edge
  <2>2. DOMAIN brands = {1, 2} /\ brands[2] = <<"Chromium", w>>
    OBVIOUS
  <2> HIDE DEF brands
  <2>3. c # 0 => \E i \in DOMAIN brands : brands[i] = <<"Chromium", c>>
    BY <1>3, <2>2
  <2> HIDE DEF m, w, c
  <2> QED BY <1>3, <2>1, <2>3 DEF c
<1>6. CASE browser = "opera"
  <2> DEFINE brands == <<<<"Chromium", m>>, <<"Opera", Or(Major(ua, "OPR"), 115)>>>>
  <2>1. DefaultHeaders(browser, ua) = Chromium(brands, ua, m)
    BY <1>1, <1>6 DEF DefaultHeaders, Opera
  <2>2. DOMAIN brands = {1, 2} /\ brands[1] = <<"Chromium", m>>
    OBVIOUS
  <2> HIDE DEF brands
  <2>3. c # 0 => \E i \in DOMAIN brands : brands[i] = <<"Chromium", c>>
    BY <1>3, <2>2
  <2> HIDE DEF m, c
  <2> QED BY <1>3, <2>1, <2>3 DEF c
<1> QED BY <1>4, <1>5, <1>6

LEMMA ChromiumNamesAgent ==
    ASSUME NEW browser \in {"chrome", "edge", "opera"}, NEW ua
    PROVE  \E brands, chromium : DefaultHeaders(browser, ua) = Chromium(brands, ua, chromium)
  BY DEF DefaultHeaders, Chrome, Edge, Opera

\* Whatever the family, no name stands twice, and the agent is the one that was asked for.
LEMMA DefaultHeadersAre ==
    ASSUME NEW browser, NEW ua
    PROVE  LET h == DefaultHeaders(browser, ua)
           IN  /\ IsList(h) /\ Unique(h)
               /\ "user-agent" \in NamesIn(h) => ua # None /\ ValueIn(h, "user-agent") = ua
               /\ "sec-ch-ua" \in NamesIn(h) => browser \in {"chrome", "edge", "opera"}
<1> DEFINE h == DefaultHeaders(browser, ua)
<1>0. SUFFICES /\ IsList(h) /\ Unique(h)
               /\ "user-agent" \in NamesIn(h) => ua # None /\ <<"user-agent", ua>> \in Range(h)
               /\ "sec-ch-ua" \in NamesIn(h) => browser \in {"chrome", "edge", "opera"}
  <2> HIDE DEF h
  <2> QED BY ValueAt DEF h
<1>1. CASE browser \in {"chrome", "edge", "opera"}
  <2>1. PICK brands, chromium : h = Chromium(brands, ua, chromium)
    BY <1>1, ChromiumNamesAgent
  <2> HIDE DEF h
  <2> QED BY <1>1, <2>1, ChromiumIs
<1>2. CASE browser = "firefox"
  <2> DEFINE n == <<"accept", "accept-language", "accept-encoding", "upgrade-insecure-requests",
                    "sec-fetch-dest", "sec-fetch-mode", "sec-fetch-site", "sec-fetch-user",
                    "priority", "te">>
             S == {"accept", "accept-language", "accept-encoding", "upgrade-insecure-requests",
                   "sec-fetch-dest", "sec-fetch-mode", "sec-fetch-site", "sec-fetch-user",
                   "priority", "te"}
  <2>1. h = AgentRow(ua) \o Rows(n, "firefox")
    BY <1>2 DEF DefaultHeaders, Firefox
  <2>2. /\ n \in Seq(S) /\ DOMAIN n = 1 .. 10
        /\ n[1] = "accept" /\ n[2] = "accept-language" /\ n[3] = "accept-encoding"
        /\ n[4] = "upgrade-insecure-requests" /\ n[5] = "sec-fetch-dest"
        /\ n[6] = "sec-fetch-mode" /\ n[7] = "sec-fetch-site" /\ n[8] = "sec-fetch-user"
        /\ n[9] = "priority" /\ n[10] = "te"
    OBVIOUS
  <2> HIDE DEF n, h
  <2>3. \A i, j \in DOMAIN n : n[i] = n[j] => i = j
    BY <2>2
  <2>4. Range(n) \subseteq S
    BY <2>2 DEF Range
  <2>5. Range(n) \cap {"user-agent", "sec-ch-ua"} = {}
    BY <2>4
  <2> HIDE DEF S
  <2> QED BY <2>1, <2>2, <2>3, <2>5, PlainIs
<1>3. CASE browser \in {"safari", "ios"}
  <2> DEFINE n == <<"accept", "accept-language", "accept-encoding">>
             S == {"accept", "accept-language", "accept-encoding"}
  <2>1. h = AgentRow(ua) \o Rows(n, "safari")
    BY <1>3 DEF DefaultHeaders, Safari
  <2>2. /\ n \in Seq(S) /\ DOMAIN n = {1, 2, 3}
        /\ n[1] = "accept" /\ n[2] = "accept-language" /\ n[3] = "accept-encoding"
    OBVIOUS
  <2> HIDE DEF n, h
  <2>3. \A i, j \in DOMAIN n : n[i] = n[j] => i = j
    BY <2>2
  <2>5. Range(n) \cap {"user-agent", "sec-ch-ua"} = {}
    BY <2>2 DEF Range
  <2> HIDE DEF S
  <2> QED BY <2>1, <2>2, <2>3, <2>5, PlainIs
<1>4. CASE browser \notin {"chrome", "edge", "opera", "firefox", "safari", "ios"}
  <2>1. h = <<>>
    BY <1>4 DEF DefaultHeaders
  <2>2. IsList(<<>>) /\ Unique(<<>>) /\ NamesIn(<<>>) = {}
    BY DEF IsList, Unique, NamesIn
  <2> HIDE DEF h
  <2> QED BY <2>1, <2>2
<1> QED BY <1>1, <1>2, <1>3, <1>4

\* The order of _platform's tests finds the device, whatever other words an agent has.
LEMMA PlatformIsDevice ==
    ASSUME NEW ua \in Agents, ua # None
    PROVE  Platform(ua) = Device[ua]
<1> DEFINE M == Marks[ua]
<1> DEFINE d == Device[ua]
<1>1. \/ d = <<"Android", TRUE>> /\ "Android" \in M
      \/ /\ d = <<"iOS", TRUE>>
         /\ M \subseteq {"iPhone", "iPad", "Macintosh", "Mac OS X"} /\ M \cap {"iPhone", "iPad"} # {}
      \/ d = <<"Windows", FALSE>> /\ M \subseteq {"Windows"}
      \/ /\ d = <<"macOS", FALSE>>
         /\ M \subseteq {"Macintosh", "Mac OS X"} /\ M # {}
      \/ d = <<"Linux", FALSE>> /\ M \subseteq {"Linux", "X11"} /\ M # {}
  BY AgentAssumption
<1>2. \A word : Has(ua, word) <=> word \in M
  BY DEF Has
<1> HIDE DEF M, d
<1>3. Platform(ua) =
         IF "Android" \in M THEN <<"Android", TRUE>>
         ELSE IF "iPhone" \in M \/ "iPad" \in M THEN <<"iOS", TRUE>>
         ELSE IF "Windows" \in M THEN <<"Windows", FALSE>>
         ELSE IF "Macintosh" \in M \/ "Mac OS X" \in M THEN <<"macOS", FALSE>>
         ELSE IF "Linux" \in M \/ "X11" \in M THEN <<"Linux", FALSE>>
         ELSE <<"Windows", FALSE>>
  BY <1>2 DEF Platform
<1>4. Platform(ua) = d
  <2>1. CASE d = <<"Android", TRUE>> /\ "Android" \in M
    BY <1>3, <2>1
  <2>2. CASE /\ d = <<"iOS", TRUE>>
             /\ M \subseteq {"iPhone", "iPad", "Macintosh", "Mac OS X"} /\ M \cap {"iPhone", "iPad"} # {}
    <3>1. "Android" \notin M /\ ("iPhone" \in M \/ "iPad" \in M)
      BY <2>2
    <3> QED BY <1>3, <2>2, <3>1
  <2>3. CASE d = <<"Windows", FALSE>> /\ M \subseteq {"Windows"}
    <3>1. /\ "Android" \notin M /\ "iPhone" \notin M /\ "iPad" \notin M
          /\ "Macintosh" \notin M /\ "Mac OS X" \notin M /\ "Linux" \notin M /\ "X11" \notin M
      BY <2>3
    <3> QED BY <1>3, <2>3, <3>1
  <2>4. CASE /\ d = <<"macOS", FALSE>>
             /\ M \subseteq {"Macintosh", "Mac OS X"} /\ M # {}
    <3>1. /\ "Android" \notin M /\ "iPhone" \notin M /\ "iPad" \notin M /\ "Windows" \notin M
          /\ "Macintosh" \in M \/ "Mac OS X" \in M
      BY <2>4
    <3> QED BY <1>3, <2>4, <3>1
  <2>5. CASE d = <<"Linux", FALSE>> /\ M \subseteq {"Linux", "X11"} /\ M # {}
    <3>1. /\ "Android" \notin M /\ "iPhone" \notin M /\ "iPad" \notin M /\ "Windows" \notin M
          /\ "Macintosh" \notin M /\ "Mac OS X" \notin M /\ ("Linux" \in M \/ "X11" \in M)
      BY <2>5
    <3> QED BY <1>3, <2>5, <3>1
  <2> QED BY <1>1, <2>1, <2>2, <2>3, <2>4, <2>5
<1> QED BY <1>4 DEF d

\* What the default headers say of the agent they were made from.
LEMMA HintsAre ==
    ASSUME NEW browser, NEW ua \in Agents, ua # None,
           "sec-ch-ua" \in NamesIn(DefaultHeaders(browser, ua))
    PROVE  LET h == DefaultHeaders(browser, ua)
               chrome == Version[ua]["Chrome"]
           IN  /\ {"sec-ch-ua-platform", "sec-ch-ua-mobile", "accept-encoding"} \subseteq NamesIn(h)
               /\ <<ValueIn(h, "sec-ch-ua-platform"), ValueIn(h, "sec-ch-ua-mobile")>> = Device[ua]
               /\ chrome # 0 =>
                     /\ \E i \in DOMAIN ValueIn(h, "sec-ch-ua") :
                           ValueIn(h, "sec-ch-ua")[i] = <<"Chromium", chrome>>
                     /\ ValueIn(h, "accept-encoding") = AcceptEncoding(chrome)
<1> DEFINE h == DefaultHeaders(browser, ua)
           chrome == Version[ua]["Chrome"]
<1>1. browser \in {"chrome", "edge", "opera"}
  BY DefaultHeadersAre
<1>2. PICK brands, chromium :
         /\ h = Chromium(brands, ua, chromium)
         /\ chrome # 0 => /\ chromium = chrome
                          /\ \E i \in DOMAIN brands : brands[i] = <<"Chromium", chrome>>
  BY <1>1, ChromiumFamilies
<1> HIDE DEF h, chrome
<1>3. /\ IsList(h) /\ Unique(h)
      /\ {<<"sec-ch-ua", brands>>, <<"sec-ch-ua-mobile", Platform(ua)[2]>>,
          <<"sec-ch-ua-platform", Platform(ua)[1]>>,
          <<"accept-encoding", AcceptEncoding(chromium)>>} \subseteq Range(h)
  BY <1>2, ChromiumIs
<1>4. /\ {"sec-ch-ua-platform", "sec-ch-ua-mobile", "accept-encoding"} \subseteq NamesIn(h)
      /\ ValueIn(h, "sec-ch-ua") = brands
      /\ ValueIn(h, "sec-ch-ua-mobile") = Platform(ua)[2]
      /\ ValueIn(h, "sec-ch-ua-platform") = Platform(ua)[1]
      /\ ValueIn(h, "accept-encoding") = AcceptEncoding(chromium)
  BY <1>3, ValueAt
<1>5. <<Platform(ua)[1], Platform(ua)[2]>> = Platform(ua)
  BY DEF Platform
<1>6. Platform(ua) = Device[ua]
  BY PlatformIsDevice
<1> QED BY <1>2, <1>4, <1>5, <1>6 DEF h, chrome

(***************************************************************************)
(* The headers of a client.                                                *)
(***************************************************************************)
\* The caller's headers, or the browser's with the caller's values and then the others.
LEMMA ClientHeadersAre ==
    ASSUME NEW c, IsList(c.headers)
    PROVE  LET h == ClientHeaders(c)
               rows == DefaultHeaders(c.browser, c.agent)
               merging == c.browserHeaders /\ c.browser # None
           IN  /\ IsList(h)
               /\ \A n \in NamesIn(c.headers) :
                     n \in NamesIn(h) /\ ValueIn(h, n) = ValueIn(c.headers, n)
               /\ \A n \in NamesIn(h) \ NamesIn(c.headers) :
                     n \in NamesIn(rows) /\ ValueIn(h, n) = ValueIn(rows, n)
               /\ ~merging => h = c.headers
               /\ merging => /\ Unique(h)
                             /\ NamesIn(h) = NamesIn(rows) \cup NamesIn(c.headers)
                             /\ \A i \in DOMAIN rows : i \in DOMAIN h /\ h[i][1] = rows[i][1]
<1> DEFINE h == ClientHeaders(c)
           u == c.headers
           rows == DefaultHeaders(c.browser, c.agent)
<1>1. CASE ~ (c.browserHeaders /\ c.browser # None)
  <2>1. h = u
    BY <1>1 DEF ClientHeaders
  <2> HIDE DEF h, rows
  <2>2. /\ IsList(h) /\ NamesIn(h) = NamesIn(u)
        /\ \A n : ValueIn(h, n) = ValueIn(u, n)
    BY <2>1
  <2> QED BY <1>1, <2>1, <2>2 DEF h
<1>2. CASE c.browserHeaders /\ c.browser # None
  <2> DEFINE s == Seeded(rows, u)
             P == Range(s) \cup Range(u)
  <2>1. h = AllAdded(s, u)
    BY <1>2 DEF ClientHeaders, AllAdded
  <2>2. IsList(rows) /\ Unique(rows)
    BY DefaultHeadersAre
  <2> HIDE DEF h, rows
  <2>3. /\ IsList(s) /\ Unique(s) /\ NamesIn(s) = NamesIn(rows)
        /\ DOMAIN s = DOMAIN rows /\ \A i \in DOMAIN rows : s[i][1] = rows[i][1]
        /\ \A n \in NamesIn(s) :
              ValueIn(s, n) = IF n \in NamesIn(u) THEN ValueIn(u, n) ELSE ValueIn(rows, n)
    BY <2>2, SeededIs
  <2> HIDE DEF s
  <2>4. s \in Seq(P) /\ u \in Seq(P) /\ IsList(u)
    BY <2>3, ListIs DEF IsList
  <2> HIDE DEF P, u
  <2>5. /\ h \in Seq(P) /\ Unique(h) /\ NamesIn(h) = NamesIn(s) \cup NamesIn(u)
        /\ Len(s) <= Len(h) /\ \A i \in 1 .. Len(s) : h[i] = s[i]
        /\ \A i \in DOMAIN u : u[i][1] \notin NamesIn(s) /\ FirstAt(u, i) => u[i] \in Range(h)
    <3>1. Unique(s)
      BY <2>3
    <3>2. /\ AllAdded(s, u) \in Seq(P) /\ Unique(AllAdded(s, u))
          /\ NamesIn(AllAdded(s, u)) = NamesIn(s) \cup NamesIn(u)
          /\ Len(s) <= Len(AllAdded(s, u)) /\ \A i \in 1 .. Len(s) : AllAdded(s, u)[i] = s[i]
          /\ \A i \in DOMAIN u :
                u[i][1] \notin NamesIn(s) /\ FirstAt(u, i) => u[i] \in Range(AllAdded(s, u))
      BY <2>4, <3>1, MissingFolded
    <3> QED BY <2>1, <3>2
  <2>6. IsList(h) /\ \A i \in DOMAIN s : i \in DOMAIN h /\ h[i] = s[i]
    <3>1. IsList(h)
      BY <2>5, IsListOf
    <3>2. /\ Len(s) \in Nat /\ DOMAIN s = 1 .. Len(s)
          /\ Len(h) \in Nat /\ DOMAIN h = 1 .. Len(h)
      BY <2>3, <3>1, ListIs
    <3> QED BY <2>5, <3>1, <3>2
  <2>7. \A n \in NamesIn(s) : ValueIn(h, n) = ValueIn(s, n)
    <3> TAKE n \in NamesIn(s)
    <3>1. PICK i \in DOMAIN s : s[i][1] = n
      BY DEF NamesIn
    <3> QED BY <2>3, <2>5, <2>6, <3>1, ValueOf
  <2>8. \A n \in NamesIn(u) \ NamesIn(s) : ValueIn(h, n) = ValueIn(u, n)
    <3> TAKE n \in NamesIn(u) \ NamesIn(s)
    <3>1. PICK i \in DOMAIN u : /\ u[i][1] = n /\ ValueIn(u, n) = u[i][2]
                                /\ \A j \in DOMAIN u : u[j][1] = n => i <= j
      BY <2>4, FirstOf
    <3>2. FirstAt(u, i)
      <4>1. i \in Nat /\ \A j \in 1 .. (i - 1) : j \in DOMAIN u /\ ~ (i <= j)
        BY <2>4, ListIs
      <4> QED BY <3>1, <4>1 DEF FirstAt
    <3>3. PICK j \in DOMAIN h : h[j] = u[i]
      BY <2>5, <3>1, <3>2 DEF Range
    <3> QED BY <2>5, <2>6, <3>1, <3>3, ValueOf
  <2>9. \A i \in DOMAIN rows : i \in DOMAIN h /\ h[i][1] = rows[i][1]
    BY <2>3, <2>6
  <2> QED BY <1>2, <2>3, <2>5, <2>6, <2>7, <2>8, <2>9 DEF h, u, rows
<1> QED BY <1>1, <1>2

-----------------------------------------------------------------------------
(***************************************************************************)
(* The headers that were asked for, on their way to the session.           *)
(***************************************************************************)
\* The headers and the agent field that the arguments of __init__ come to.
Wanted == ClientHeaders(WithPreset(asked))
WantedAgent == AgentField(WithPreset(asked), Wanted)

\* They are in the configuration, and then in the session.
HeaderInv ==
    /\ stage \in Steps => config.headers = Wanted /\ config.agent = WantedAgent
    /\ stage = "fields" => session.agent = None
    /\ stage \in {"proxy", "ja3", "h2", "headers", "live"} => session.agent = WantedAgent
    /\ stage = "live" => session.headers = Wanted

LEMMA WantedKept == UNCHANGED asked => Wanted' = Wanted /\ WantedAgent' = WantedAgent
  BY DEF Wanted, WantedAgent

LEMMA ConstructWants ==
    ASSUME NEW c \in Calls, Construct(c)
    PROVE  HeaderInv'
<1> DEFINE m == WithPreset(c)
           h == ClientHeaders(m)
<1>1. /\ asked' = c
      /\ \/ stage' = "failed"
         \/ stage' = "fields" /\ session' = FreshSession /\ config' = Configuration(m)
  BY DEF Construct
<1>2. Configuration(m).headers = h /\ Configuration(m).agent = AgentField(m, h)
  BY DEF Configuration
<1>3. FreshSession.agent = None
  BY DEF FreshSession
<1>4. Wanted' = h /\ WantedAgent' = AgentField(m, h)
  BY <1>1 DEF Wanted, WantedAgent
<1> HIDE DEF m, h
<1> QED BY <1>1, <1>2, <1>3, <1>4 DEF HeaderInv, Steps

\* What a step leaves alone.
LEMMA SameHeaders ==
    ASSUME HeaderInv, UNCHANGED <<asked, config>>,
           \/ stage' \notin Steps \cup {"live"}
           \/ stage' = stage /\ session'.agent = session.agent /\ session'.headers = session.headers
           \/ /\ stage \in {"proxy", "ja3", "h2"} /\ stage' \in {"ja3", "h2", "headers"}
              /\ session'.agent = session.agent
    PROVE  HeaderInv'
<1>1. Wanted' = Wanted /\ WantedAgent' = WantedAgent /\ config' = config
  BY WantedKept
<1>2. CASE stage' \notin Steps \cup {"live"}
  BY <1>2 DEF HeaderInv, Steps
<1>3. CASE stage' = stage /\ session'.agent = session.agent /\ session'.headers = session.headers
  BY <1>1, <1>3 DEF HeaderInv
<1>4. CASE /\ stage \in {"proxy", "ja3", "h2"} /\ stage' \in {"ja3", "h2", "headers"}
           /\ session'.agent = session.agent
  BY <1>1, <1>4 DEF HeaderInv, Steps
<1> QED BY <1>2, <1>3, <1>4

LEMMA ApplyFieldsWants == ASSUME IndInv, HeaderInv, ApplyFields PROVE HeaderInv'
<1>1. /\ stage = "fields" /\ stage' = "proxy" /\ UNCHANGED <<asked, config>>
      /\ DOMAIN session = SessionFields
  BY DEF ApplyFields, Then, IndInv, StageInv, Steps
<1>2. session'.agent = Else(config.agent, session.agent)
  BY <1>1 DEF ApplyFields, SessionFields
<1>3. Wanted' = Wanted /\ WantedAgent' = WantedAgent
  BY <1>1, WantedKept
<1>4. session'.agent = config.agent
  BY <1>1, <1>2 DEF HeaderInv, Else
<1> QED BY <1>1, <1>3, <1>4 DEF HeaderInv, Steps

LEMMA ApplyHeadersWants == ASSUME IndInv, HeaderInv, ApplyHeaders PROVE HeaderInv'
<1>1. /\ stage = "headers" /\ stage' = "live" /\ UNCHANGED <<asked, config>>
      /\ DOMAIN session = SessionFields
  BY DEF ApplyHeaders, Then, IndInv, StageInv, Steps
<1>2. session'.headers = config.headers /\ session'.agent = session.agent
  BY <1>1 DEF ApplyHeaders, SessionFields
<1>3. Wanted' = Wanted /\ WantedAgent' = WantedAgent
  BY <1>1, WantedKept
<1> QED BY <1>1, <1>2, <1>3 DEF HeaderInv, Steps

\* The refusals and the other steps of applyConfig.
LEMMA ApplyRestWants ==
    ASSUME IndInv, HeaderInv, ApplyProxy \/ ApplyJa3 \/ ApplyH2
    PROVE  HeaderInv'
<1>1. stage \in {"proxy", "ja3", "h2"} /\ UNCHANGED <<asked, config>>
  BY DEF ApplyProxy, ApplyJa3, ApplyH2
<1>2. DOMAIN session = SessionFields
  BY <1>1 DEF IndInv, StageInv, Steps
<1>3. \/ stage' = "failed"
      \/ stage' \in {"ja3", "h2", "headers"} /\ session'.agent = session.agent
  <2>1. CASE ApplyProxy
    BY <1>2, <2>1 DEF ApplyProxy, Refuse, SessionFields
  <2>2. CASE ApplyJa3
    BY <1>2, <2>2 DEF ApplyJa3, Refuse, SessionFields
  <2>3. CASE ApplyH2
    BY <1>2, <2>3 DEF ApplyH2, Refuse, SessionFields
  <2> QED BY <2>1, <2>2, <2>3
<1>4. "failed" \notin Steps \cup {"live"}
  BY DEF Steps
<1> QED BY <1>1, <1>3, <1>4, SameHeaders

LEMMA CallsWant ==
    ASSUME IndInv, HeaderInv, NEW t \in Threads,
           \/ SetProxy(t) \/ ClearProxy(t) \/ Request(t)
           \/ GoSetProxy(t) \/ GoClearProxy(t) \/ AssignProxy(t) \/ Do(t)
    PROVE  HeaderInv'
<1>1. UNCHANGED <<asked, config, stage>>
  BY DEF SetProxy, ClearProxy, Request, Begin, GoSetProxy, GoClearProxy, AssignProxy, Do, clientVars
<1>2. session'.agent = session.agent /\ session'.headers = session.headers
  <2>1. CASE SetProxy(t) \/ ClearProxy(t) \/ Request(t) \/ AssignProxy(t) \/ Do(t)
    BY <2>1 DEF SetProxy, ClearProxy, Request, Begin, AssignProxy, Do
  <2>2. CASE GoSetProxy(t) \/ GoClearProxy(t)
    <3>1. stage = "live"
      BY <2>2 DEF IndInv, StageInv, GoSetProxy, GoClearProxy, Goto
    <3>2. DOMAIN session = SessionFields
      BY <3>1 DEF IndInv, StageInv
    <3>3. session' = session \/ \E p : session' = [session EXCEPT !.proxy = p]
      BY <2>2 DEF GoSetProxy, GoClearProxy
    <3> QED BY <3>2, <3>3 DEF SessionFields
  <2> QED BY <2>1, <2>2
<1> QED BY <1>1, <1>2, SameHeaders

LEMMA HeaderStep == IndInv /\ HeaderInv /\ [Next]_vars => HeaderInv'
<1> SUFFICES ASSUME IndInv, HeaderInv, [Next]_vars PROVE HeaderInv'
  OBVIOUS
<1>1. ASSUME NEW c \in Calls, Construct(c) PROVE HeaderInv'
  BY <1>1, ConstructWants
<1>2. CASE ApplyFields
  BY <1>2, ApplyFieldsWants
<1>3. CASE ApplyProxy \/ ApplyJa3 \/ ApplyH2
  BY <1>3, ApplyRestWants
<1>4. CASE ApplyHeaders
  BY <1>4, ApplyHeadersWants
<1>5. ASSUME NEW t \in Threads,
             \/ SetProxy(t) \/ ClearProxy(t) \/ Request(t)
             \/ GoSetProxy(t) \/ GoClearProxy(t) \/ AssignProxy(t) \/ Do(t)
      PROVE  HeaderInv'
  BY <1>5, CallsWant
<1>6. CASE UNCHANGED vars
  BY <1>6, SameHeaders DEF vars, clientVars
<1>7. CASE Failed
  BY <1>6, <1>7 DEF Failed
<1> QED BY <1>1, <1>2, <1>3, <1>4, <1>5, <1>6, <1>7 DEF Next

LEMMA HeadersWanted == Spec => []HeaderInv
<1>1. Init => HeaderInv
  BY DEF Init, HeaderInv, Steps
<1> QED BY <1>1, HeaderStep, Inductive, PTL DEF Spec

\* What the arguments come to is what was asked for.
LEMMA WantedIs ==
    ASSUME asked \in Calls
    PROVE  \E c : /\ Wanted = ClientHeaders(c) /\ WantedAgent = AgentField(c, Wanted)
                  /\ c.headers = asked.headers /\ IsList(asked.headers)
                  /\ c.browser = Expected("browser") /\ c.agent = Expected("agent")
                  /\ c.agent \in Agents \cup {None}
                  /\ c.browserHeaders = asked.browserHeaders
<1> DEFINE c == WithPreset(asked)
<1>1. Wanted = ClientHeaders(c) /\ WantedAgent = AgentField(c, Wanted)
  BY DEF Wanted, WantedAgent
<1>2. /\ c.headers = asked.headers /\ c.browserHeaders = asked.browserHeaders
      /\ c.browser = Expected("browser") /\ c.agent = Expected("agent")
  BY PresetFillsIn DEF Expected
<1>3. IsList(asked.headers)
  BY ConfigAssumption DEF IsList
<1>4. Expected("agent") \in Agents \cup {None}
  <2>1. /\ asked.agent \in Agents \cup {None}
        /\ asked.impersonate # None => Presets[asked.impersonate].agent \in Agents \cup {None}
    BY ConfigAssumption
  <2> QED BY <2>1 DEF Expected
<1> HIDE DEF c
<1> QED BY <1>1, <1>2, <1>3, <1>4

\* The headers of a client are the caller's over the browser's.
LEMMA WantedAsAsked ==
    ASSUME asked \in Calls
    PROVE  /\ HeadersAsked(Wanted) /\ IsList(Wanted) /\ IsList(asked.headers)
           /\ Merging => Unique(Wanted)
           /\ LET rows == DefaultHeaders(Expected("browser"), Expected("agent"))
              IN  \A n \in NamesIn(Wanted) \ NamesIn(asked.headers) :
                     n \in NamesIn(rows) /\ ValueIn(Wanted, n) = ValueIn(rows, n)
<1> DEFINE h == Wanted
           u == asked.headers
           rows == DefaultHeaders(Expected("browser"), Expected("agent"))
<1>1. PICK c : /\ h = ClientHeaders(c)
               /\ c.headers = u /\ IsList(c.headers)
               /\ c.browser = Expected("browser") /\ c.agent = Expected("agent")
               /\ c.browserHeaders = asked.browserHeaders
  BY WantedIs
<1>2. Merging <=> c.browserHeaders /\ c.browser # None
  BY <1>1 DEF Merging
<1>3. /\ IsList(h)
      /\ \A n \in NamesIn(u) : n \in NamesIn(h) /\ ValueIn(h, n) = ValueIn(u, n)
      /\ \A n \in NamesIn(h) \ NamesIn(u) : n \in NamesIn(rows) /\ ValueIn(h, n) = ValueIn(rows, n)
      /\ ~Merging => h = u
      /\ Merging => /\ Unique(h)
                    /\ NamesIn(h) = NamesIn(rows) \cup NamesIn(u)
                    /\ \A i \in DOMAIN rows : i \in DOMAIN h /\ h[i][1] = rows[i][1]
  BY <1>1, <1>2, ClientHeadersAre
<1>4. Unique(h) => \A n : Once(n, h)
  BY DEF Unique, Once
<1>5. HeadersAsked(h)
  <2> HIDE DEF h
  <2> QED BY <1>3, <1>4 DEF HeadersAsked
<1> QED BY <1>1, <1>3, <1>5

\* The header, when there is one, is what AgentSent means.
LEMMA AgentSentIs ==
    /\ AgentHeaders # {} <=> "user-agent" \in NamesIn(session.headers)
    /\ AgentSent = IF "user-agent" \in NamesIn(session.headers)
                   THEN ValueIn(session.headers, "user-agent") ELSE session.agent
  BY DEF AgentHeaders, AgentSent, NamesIn

(***************************************************************************)
(* A constructor that returns has given the session what it was asked for, *)
(* or else what the preset says, whatever the presets contain: the         *)
(* fingerprints, the proxy, the verification, the timeout and the limit    *)
(* that Go takes for given, and the caller's headers over the browser's.   *)
(***************************************************************************)
THEOREM ConstructorConfigures == Spec => FullyConfigured
  <1> DEFINE Configured == /\ session'.ja3 = Expected("ja3")
                           /\ session'.h2 = Expected("h2")
                           /\ session'.browser = Else(Expected("browser"), "default")
                           /\ session'.ja3 # None => session'.navigator = session'.browser
                           /\ session'.proxy = asked.proxy
                           /\ session'.insecure = ~asked.verify
                           /\ session'.timeout = TimeoutOf(asked.timeout)
                           /\ session'.redirects = LimitOf(asked.redirects)
                           /\ HeadersAsked(session'.headers)
  <1>1. ASSUME IndInv, HeaderInv, ApplyHeaders PROVE Configured
    <2>1. asked \in Calls /\ asked.timeout \in Timeouts
      BY <1>1, ApplyHeadersConfigures, ConfigAssumption
    <2>2. Milliseconds(asked.timeout) = TimeoutOf(asked.timeout)
      BY <2>1, UsableTimeouts
    <2>3. session'.headers = Wanted
      <3>1. stage = "headers" /\ DOMAIN session = SessionFields
        BY <1>1 DEF ApplyHeaders, Then, IndInv, StageInv, Steps
      <3>2. session'.headers = config.headers
        BY <1>1, <3>1 DEF ApplyHeaders, SessionFields
      <3> QED BY <1>1, <3>1, <3>2 DEF HeaderInv, Steps
    <2>4. HeadersAsked(session'.headers)
      BY <2>1, <2>3, WantedAsAsked
    <2> QED BY <1>1, <2>2, <2>4, ApplyHeadersConfigures
  <1>2. ASSUME IndInv, HeaderInv, [Next]_vars
        PROVE  [stage # "live" /\ stage' = "live" => Configured]_vars
    <2> SUFFICES ASSUME stage # "live", stage' = "live" PROVE ApplyHeaders
      BY <1>1, <1>2
    <2>1. CASE \E c \in Calls : Construct(c)
      BY <2>1 DEF Construct
    <2>2. CASE ApplyFields \/ ApplyProxy \/ ApplyJa3 \/ ApplyH2 \/ ApplyHeaders
      BY <2>2 DEF ApplyFields, ApplyProxy, ApplyJa3, ApplyH2, Then, Refuse
    <2>3. ASSUME NEW t \in Threads,
                 \/ SetProxy(t) \/ ClearProxy(t) \/ Request(t)
                 \/ GoSetProxy(t) \/ GoClearProxy(t) \/ AssignProxy(t) \/ Do(t)
          PROVE  UNCHANGED stage
      BY <2>3 DEF SetProxy, ClearProxy, Request, Begin, GoSetProxy, GoClearProxy, AssignProxy,
                  Do, clientVars
    <2>4. CASE UNCHANGED vars
      BY <2>4 DEF vars, clientVars
    <2> QED
      BY <1>2, <2>1, <2>2, <2>3, <2>4 DEF Next, Failed
  <1> QED
    BY <1>2, Inductive, HeadersWanted, PTL DEF Spec, FullyConfigured

(***************************************************************************)
(* One User-Agent reaches the server, for any call, preset and browser:    *)
(* the one in headers=, or else the one of user_agent= or of the preset,   *)
(* as a header or as the session's own and never as both; a header of that *)
(* name is repeated only by a caller's list that is sent as it is.         *)
(***************************************************************************)
THEOREM AgentIsOne == Spec => []OneAgent
<1>1. ASSUME IndInv, HeaderInv PROVE OneAgent
  <2> DEFINE h == session.headers
             u == asked.headers
             n == "user-agent"
             rows == DefaultHeaders(Expected("browser"), Expected("agent"))
  <2>0. SUFFICES ASSUME stage = "live"
                 PROVE  /\ AgentHeaders # {} => session.agent = None
                        /\ Merging \/ Once(n, u) => \A i, j \in AgentHeaders : i = j
                        /\ AgentSent = IF n \in NamesIn(u) THEN ValueIn(u, n)
                                       ELSE Expected("agent")
    BY DEF OneAgent
  <2>1. asked \in Calls /\ h = Wanted /\ session.agent = WantedAgent
    BY <1>1, <2>0 DEF IndInv, StageInv, HeaderInv
  <2>2. /\ HeadersAsked(h) /\ (Merging => Unique(h))
        /\ \A k \in NamesIn(h) \ NamesIn(u) : k \in NamesIn(rows) /\ ValueIn(h, k) = ValueIn(rows, k)
    BY <2>1, WantedAsAsked
  <2>3. /\ \A k \in NamesIn(u) : k \in NamesIn(h) /\ ValueIn(h, k) = ValueIn(u, k)
        /\ ~Merging => h = u
    BY <2>2 DEF HeadersAsked
  <2>4. n \in NamesIn(rows) => ValueIn(rows, n) = Expected("agent")
    BY DefaultHeadersAre
  <2>5. session.agent = IF n \in NamesIn(h) THEN None ELSE Expected("agent")
    BY <2>1, WantedIs DEF AgentField
  <2>6. Merging \/ Once(n, u) => \A i, j \in AgentHeaders : i = j
    BY <2>2, <2>3 DEF AgentHeaders, Unique, Once
  <2> HIDE DEF h, rows, u
  <2>7. /\ AgentHeaders # {} <=> n \in NamesIn(h)
        /\ AgentSent = IF n \in NamesIn(h) THEN ValueIn(h, n) ELSE session.agent
    BY AgentSentIs DEF h
  <2>8. AgentSent = IF n \in NamesIn(u) THEN ValueIn(u, n) ELSE Expected("agent")
    BY <2>2, <2>3, <2>4, <2>5, <2>7
  <2> QED BY <2>5, <2>6, <2>7, <2>8
<1> QED BY <1>1, Inductive, HeadersWanted, PTL

(***************************************************************************)
(* The client hints and the encodings that default_browser_headers makes   *)
(* name the device and the Chromium version of the agent that is sent,     *)
(* whatever browser, preset and agent are combined.                        *)
(***************************************************************************)
THEOREM HintsAgree == Spec => []HintsTrackAgent
<1>1. ASSUME IndInv, HeaderInv PROVE HintsTrackAgent
  <2> DEFINE h == session.headers
             hint(n) == ValueIn(h, n)
             chrome == Version[AgentSent]["Chrome"]
             rows == DefaultHeaders(Expected("browser"), Expected("agent"))
             u == asked.headers
  <2>0. SUFFICES ASSUME stage = "live", Hints \cap NamesIn(u) = {},
                        {"user-agent", "sec-ch-ua"} \subseteq NamesIn(h)
                 PROVE  /\ <<hint("sec-ch-ua-platform"), hint("sec-ch-ua-mobile")>> = Device[AgentSent]
                        /\ chrome # 0 =>
                              /\ \E i \in DOMAIN hint("sec-ch-ua") :
                                    hint("sec-ch-ua")[i] = <<"Chromium", chrome>>
                              /\ hint("accept-encoding") = "with zstd" <=> chrome >= 123
    BY DEF HintsTrackAgent, HintsSay
  <2>1. asked \in Calls /\ h = Wanted
    BY <1>1, <2>0 DEF IndInv, StageInv, HeaderInv
  <2>2. /\ HeadersAsked(h)
        /\ \A k \in NamesIn(h) \ NamesIn(u) : k \in NamesIn(rows) /\ ValueIn(h, k) = ValueIn(rows, k)
    BY <2>1, WantedAsAsked
  <2>3. \A k \in Hints : k \notin NamesIn(u)
    BY <2>0
  <2>4. Hints = {"user-agent", "sec-ch-ua", "sec-ch-ua-mobile", "sec-ch-ua-platform", "accept-encoding"}
    BY DEF Hints
  <2>5. AgentSent = ValueIn(h, "user-agent")
    BY <2>0, AgentSentIs
  <2>6. "user-agent" \in NamesIn(rows) =>
           Expected("agent") # None /\ ValueIn(rows, "user-agent") = Expected("agent")
    BY DefaultHeadersAre
  <2>a. Expected("agent") \in Agents \cup {None}
    BY <2>1, WantedIs
  <2>b. ~Merging => NamesIn(h) = NamesIn(u)
    BY <2>2 DEF HeadersAsked
  <2>c. Merging => NamesIn(h) = NamesIn(rows) \cup NamesIn(u)
    BY <2>2 DEF HeadersAsked
  <2> HIDE DEF h, rows, u
  <2>7. AgentSent = Expected("agent") /\ Expected("agent") # None /\ Expected("agent") \in Agents
    BY <2>0, <2>a, <2>2, <2>3, <2>4, <2>5, <2>6
  <2>8. "sec-ch-ua" \in NamesIn(rows) /\ NamesIn(rows) \subseteq NamesIn(h)
    BY <2>0, <2>2, <2>3, <2>4, <2>b, <2>c
  <2>9. /\ {"sec-ch-ua-platform", "sec-ch-ua-mobile", "accept-encoding"} \subseteq NamesIn(rows)
        /\ <<ValueIn(rows, "sec-ch-ua-platform"), ValueIn(rows, "sec-ch-ua-mobile")>> = Device[AgentSent]
        /\ chrome # 0 =>
              /\ \E i \in DOMAIN ValueIn(rows, "sec-ch-ua") :
                    ValueIn(rows, "sec-ch-ua")[i] = <<"Chromium", chrome>>
              /\ ValueIn(rows, "accept-encoding") = AcceptEncoding(chrome)
    BY <2>7, <2>8, HintsAre DEF rows
  <2>10. \A k \in {"sec-ch-ua", "sec-ch-ua-platform", "sec-ch-ua-mobile", "accept-encoding"} :
            hint(k) = ValueIn(rows, k)
    BY <2>2, <2>3, <2>4, <2>8, <2>9
  <2>11. \A v : AcceptEncoding(v) = "with zstd" <=> v >= 123
    BY DEF AcceptEncoding, ZstdSince
  <2> HIDE DEF hint, chrome
  <2> QED BY <2>7, <2>9, <2>10, <2>11
<1> QED BY <1>1, Inductive, HeadersWanted, PTL
=============================================================================
