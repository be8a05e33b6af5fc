# httpz: a TLA+ model of the client, its bridge and its session registry

httpz is a Python HTTP client whose requests are made by a Go shared library
(azuretls-client) so that they carry a browser's TLS and HTTP/2 fingerprint.
This directory holds TLA+ modules translated from that code, TLC configurations
that check them on small instances, and TLAPS proofs, for instances of any size, of every
safety property and of the refinements of the session registry, the bridge, the clients,
`AsyncClient`, the headers, the cookies, the configuration and the preset generator.

Run a check with `tlc -config <X>.cfg <MCmodule>.tla`, a proof with
`tlapm <module>.tla`.  `PROJECT.json` lists the runs, the mutated definitions
every property was tried against, the source lines of every definition, the
hazards, the findings and the theorems.

## 1. Inventory

| Part | State | Operations | Talks to |
|---|---|---|---|
| Session registry, `go/session_manager.go`, entry points in `go/main.go` | `nextID`, `sessionMap`, `sessionMutex` | `newSession`, `getSession`, `deleteSession`; `CreateSession`, `CloseSession`, `Request`, `ConfigureSession`, `ApplyJA3`, `ApplyHTTP2Fingerprint`, `SetProxy`, `ClearProxy`, `FreeMemory` | called through ctypes on Python threads; calls azuretls |
| Request execution, `doRequest` and `applyConfig` in `go/main.go` | the fields of a session (`OrderedHeaders`, `Proxy`, ...) | header merge, body, content type, timeout, redirects, `s.Do`, reply | azuretls |
| FFI bridge, `httpz/_bridge.py` | `Bridge._instance`, the loaded library | `__new__`, `_load`, `_call`, one method per exported function, `_classify_error` | `Client` above, Go below |
| Client, `httpz/client.py` | `_session_id`, `_closed`, `_proxy`, `_timeout`, `_force_http1`, `headers`, `cookies` | constructor, `request` and its shorthands, `apply_*`, `set_proxy`, `clear_proxy`, `close`, `__exit__`, `__del__` | bridge |
| AsyncClient, `httpz/async_client.py` | a `Client` | every method of `Client` in `asyncio.to_thread` | `Client`, the loop's default pool |
| Headers, `httpz/headers.py` | a list of pairs | multi-dict operations | `Client`, `Response` |
| Cookies, `httpz/cookies.py` | a dict and the set of names the user set | dict operations, `update_from_response`, `user_set_items` | `Client`, `Response` |
| Presets, `httpz/presets.py`, `_types.py` | constant tables | `resolve_impersonate`, `list_impersonate_targets` | `Client.__init__` |
| Browser headers, `httpz/_impersonate_headers.py` | none | `default_browser_headers` | `Client.__init__` |
| Scraper, `scripts/scrape_fingerprints.py` | the captures of one run; the two generated files | probe, deduplicate, alias, `--augment`, write | other HTTP libraries; writes `presets.py` and `_types.py` |
| Response, exceptions, module shortcuts | values | - | `Client` |
| azuretls-client, CPython, the Go runtime | external | - | - |

**What is hard here.**  ctypes releases the interpreter lock during a foreign
call, so calls of different threads (a thread pool over one client, an
`AsyncClient` under `asyncio.gather`) interleave inside the Go library, and the
bytecodes of `close()`, `request()`, `headers[k] = v` or `cookies[k] = v`
interleave in Python.  The finalizer may run on any thread.  State is kept twice,
in Python and in the Go session (`_closed` and the map entry, `client.headers` and
`OrderedHeaders`, `client.cookies` and the Go jar), and the copies are brought
together by steps that are not atomic.  A `KeyboardInterrupt` can end a method between two of
them.  Creating a session inserts it before it is
known to be valid.  `set_proxy` writes the same fact on both sides of a foreign call.
An `await` can be cancelled while its method goes on in a worker thread.  The client
persists nothing, so there is no crash recovery, and network failures are errors of one
call; the preset generator does write files, two of them, the first opened before its
text exists, and may be stopped anywhere.  It also reads its own earlier output, so
what one run gets wrong the next one builds on.

**What makes each part correct.**  Registry: no data race on the map, an
identifier names at most one session ever, `Close` runs once per session, a failed
creation leaves nothing, every call returns; to its callers it is an atomic store.
Client: `_closed` tells the truth, no session leaks, a finalizer never closes under a
running call.  AsyncClient: every await is answered, an awaited `close()` has closed.
Configuration: explicit arguments win over the preset, one User-Agent, client hints that
agree with it, the proxy of Python is that of Go.  Headers: per-request values win, later
assignments count, the wire keeps the fingerprint's order.  Cookies: what the user set is
sent, what the server set is shown.  Bridge: a loaded library, every reply freed once and
read by the call it answers.  Presets: every listed name resolves, nothing is stored
twice, old names keep their meaning.  The hazards behind these, line by line, are in
`PROJECT.json`.

## 2. Modules

| Module | Models | Size of a step |
|---|---|---|
| `SessionStore` | abstract: what the Go half promises | one operation of the store |
| `SessionRegistry` | `session_manager.go` and the entry points of `main.go` | one access to the counter, the map or the lock, or one call on a session |
| `ClientLifecycle` | `Client` objects over `SessionStore` | what Python does between two points where another thread can run |
| `AsyncPool` | `AsyncClient`, `asyncio.to_thread` and the pool, over `ClientLifecycle` | one step of the loop, of a worker or of the method it runs |
| `BrowserHeaders` | `_impersonate_headers.py` (pure) | |
| `ClientConfig` | constructor arguments, `applyConfig`, proxy setters, request options | one stage of `applyConfig`; a setter's Go call and its assignment apart |
| `HeaderPipeline` | `Headers`, the merges in Python and Go, the Cookie header | one operation on the list object; a request reads it once |
| `CookieSync` | `Cookies`, its use in `request()`, the Go jar | one operation on the dict or the set: an iteration yields a name, and the value is read apart |
| `BridgeCall` | `Bridge.__new__`, `_load`, `_call`, `_classify_error` | one step between releases of the interpreter lock |
| `Presets` | `resolve_impersonate`, `list_impersonate_targets` (pure) | |
| `Catalogue` | the table httpz ships, `presets.py` and `_types.py` | |
| `Scraper` | `scrape_fingerprints.py` | one probe, one entry of `augment`, one write |
| `<M>Proofs` for `SessionRegistry`, `BridgeCall`, `ClientLifecycle` (with `AsyncPool`), `HeaderPipeline`, `CookieSync`, `ClientConfig`, `Scraper` | proofs about module `<M>` (section 5) | |
| `SequenceFolds` | lemmas about folds over sequences, for the proofs about lists | |
| `MC...` | instances and symmetries for TLC | |

How they fit together.  `SessionRegistry` is shown to implement `SessionStore` (`Store ==
INSTANCE SessionStore WITH status <- storeStatus, call <- storeCall`), and `ClientLifecycle`
uses `SessionStore` as its Go side (`Go == INSTANCE SessionStore`): the client is checked
against exactly the promise the registry is proved to keep, without the lock and the map in its
state space.  That the clients use the store only as it allows is proved too
(`ClientsUseTheStore`).  `AsyncPool` extends `ClientLifecycle`: its workers take the client's
own actions (`Request`, `Configure`, `Close`, `DropRef`), so everything a thread can do to a
client a cancelled or late await can do too; and nothing else, as `AsyncClientsAreClients`
proves, so what holds of clients holds of clients under `AsyncClient`.  `ClientConfig` extends
`BrowserHeaders`, `Scraper` extends `Presets`, and `MCScraper` takes its initial files from
`Catalogue`, so the runs of the scraper start from the shipped table.

### SessionRegistry

`pc[t]` walks a thread through one exported function:

    CreateSession   idle -NewSession-> insert_lock -> insert_wait -> insert -> insert_unlock
                    -> decode -> (reply | rlock ... branch -> use -> (reply | delete_lock ...))
    CloseSession    idle -> delete_lock -> delete_wait -> close -> delete -> delete_unlock -> reply
    the other calls idle -> rlock -> read -> runlock -> branch -> use -> reply

`sessionMap` is the set of identifiers in the map, `closes[id]` counts calls of `Close`,
`handed` holds the identifiers Python has got back.  `sync.RWMutex` is external: `Lock` first
announces the writer, which keeps new readers out, then waits for the readers inside.
`DecodeConfig` is the check for an empty or malformed configuration, `AfterLookup` the
`if !ok` of the entry points (which `CreateSession` drops), `WorkOnSession` everything done
with the pointer.  `CloseSession` and `UseSession` only use identifiers that were handed out,
because Python code never makes one up; they may be closed.

The refinement mapping: a session counts as open once its creation has settled on success and
until its map entry goes; a call is answered when its lookup has read the map, its removal has
removed (or missed) the entry, or its creation has succeeded or removed its session.

### ClientLifecycle

`obj[c]` follows an object from `none` over `building`, `live` and `finalizing` to `dead`,
`closed[c]` and `sessionId[c]` are the fields `_closed` and `_session_id`, `refs[c]` the
threads that hold a reference (reference counting is external: `DropRef` of the last one
starts `__del__` on that thread, and a thread in a method keeps its reference).  A method
reads its guard in one step and makes its foreign call in later ones, so `_closed` may change
in between.  `overlap[t]` is a history variable.  All configuration calls are one operation,
`"config"`: none of them looks at `_closed`.

### HeaderPipeline

A header is a pair of a name (up to letter case) and a value, a value a sequence of parts, so
that cookies can be appended to one.  The merges are operators: `ConstructorMerge` (`__init__`),
`RequestMerge` (the headers of `request()`), `AddCookies` (the cookies the user has set, behind
those of a Cookie header that is there, which moves to the end), `SessionMerge` and `Wire`
(`doRequest`); each of the loops they stand for is a fold of one assignment (`SetItem`,
`SetMissing`, `PutFirst`) over a list.  Mutators run `__setitem__` in three steps and
`__delitem__` in two; assigning a new object to `client.headers` lets changes under way continue
on the old one, unseen.  A request copies the list once and is otherwise a function of the copy
and of the session's own list, so it is one step.  Which cookies the user has set is
`CookieSync`'s subject and left open here.  `want` and `clashed` (history) are what completed
changes ask for, and the names whose last change overlapped another; when such a name is changed
again, `Settled` takes over what the overlapping changes left.  An append that hits a list
object replaced meanwhile is lost in the code; the model reaches the same lists by an append
that precedes the other thread's assignment.

### CookieSync

User values and server values are disjoint sets, so a value shows where it came from.
`user_set_items` iterates over a live set.  CPython raises when its size is not what it was; when
one name came and another went the size is the same, the table may have been built anew in
between, and the iteration may skip a name that was there all the time, or yield one twice
(CPython 3.11: of `{1, 33, 4}`, with 4 discarded and another name added after 1 and 4 were
yielded, and undone again, 33 is never seen and nothing is raised).  `changed[t]` keeps what
happened to the set since the first name was yielded, and `CollectDone` lets names be passed over
only when something did.  `k in self._cookies` and `self._cookies[k]` are two steps
(`CollectName`, `CollectValue`); a deletion between them is a `KeyError` out of `request()`
(`ReadRaises`).  What the library lists in `resp.Cookies`, the response's cookies or the whole
jar, is left open and the properties hold for both.  Redirect chains and the scoping of cookies
by domain and path are the library's business and left out: one origin.

### BridgeCall

`owner[a]` says for whose call the C allocator's address `a` is allocated now, `mem[a]` what
stands there; freed addresses are reused.  A reply is a result, no JSON, or an error message,
which counts by the words `_classify_error` looks for (`ErrorClass`).  `said[t]` is what Go
answered (history), `got[t]` what `_call` made of it.  `GoReturns`, `Decode` and `Free` are the
foreign call, `string_at` with `json.loads`, and the `finally` with `FreeMemory`.

### AsyncPool

One thread is the event loop's, the others are the pool's workers.  `Submit` is a call of
`asyncio.to_thread`, `Take` a worker that gets the next item of the queue, `Begin` the first step
of the `Client` method, whose other steps are `ClientLifecycle`'s; `SetResult` hands the outcome
to the loop unless the await was cancelled, `Release` deletes the work item, which may run the
finalizer in the worker.  `asyncio` and the executor are external and modelled from their use:
a cancelled item that has not started is skipped, one that has goes on.  The loop does nothing
else while it is inside a constructor or a finalizer.

### ClientConfig and BrowserHeaders

`stage` walks the constructor through `applyConfig`: `fields`, `proxy`, `ja3`, `h2`, `headers`,
`live`; the three stages in the middle may refuse, which deletes the session and raises.
`WithPreset` fills what the caller left out, `ClientHeaders` merges the browser's headers with
`headers=`, `AgentField` decides whether the User-Agent travels as a header or as a field.
`RequestData` is what `request()` puts together, `Do` adds the session's values as `doRequest`
does.  Timeouts are in microseconds, so that truncation to milliseconds shows.  A limit of 10 is
left out by `__init__` and is taken to be the library's own (`LibraryLimit`).  The caller's
`headers=` may name a header several times: `Headers` gives the first value, and without browser
headers the list is sent as it is.  A proxy call is two steps with other threads in between.
`unsettled` (history) is set when one failed, since it is not known what azuretls does with a
proxy it refuses, or when it began during another one.
A User-Agent is a model value with the versions (`Version`) and words (`Marks`) that the regular
expressions find in it; `Device` says which platform it really names, independently of `Platform`.

### Presets, Catalogue and Scraper

A table has `targets` (name to profile) and `aliases` (name to name of a target).  A profile is
the browser family and one value for JA3, HTTP/2 fingerprint and User-Agent, which is what the
scraper compares; in the shipped table they all differ, so a target's name stands for its own. A
job is a mode and the sequence of libraries that `--only` and `--skip` leave. `Resolve` tries
the name among the targets, then among the aliases, then its normalised form among the aliases.
`Scraper` runs jobs one after the other.  `Probe` and `ProbeFails` fill `scraped` in the order
of its dict; `Rebuilt` is `dedupe_targets` and `build_aliases`, with the winner of a group of
equal fingerprints by `rank()`, the aliases of dropped names assigned last; `WireDuplicate` and
`AddNew` are one entry of `augment()` in sorted order.  `OpenFile` truncates `presets.py` before
its text is rendered, `OpenTypes` does the same to `_types.py`, `WriteTable` and `WriteTypes`
are the two writes, and `Interrupt` ends a job anywhere.  `Position` and `Length` stand for
sorting and `len()` of names.

## 3. Runs

| Run | Instance | States | Shows |
|---|---|---|---|
| `SessionRegistry.cfg` | 2 threads, 3 identifiers, `request` and `clear_proxy` | 88,154 | `MapRaceFree`, `ClosedOnce`, `NoOrphan`, `CreateOwnsSession`, `ImplementsStore`, `CallsReturn` |
| `ClientLifecycle.cfg` | 3 threads, 2 clients, 2 identifiers, symmetry | 45,854 | `FlagMatchesSession`, `NoLeak`, `MissOnlyIfOverlapped`, `FinalizerIsAlone` |
| `AsyncPool.cfg` | the loop and 2 workers, 1 client, 3 awaits | 155,164 | `AwaitedCloseCloses`, `AwaitsAnswered`, `DroppedIsClosed` |
| `ClientConfig.cfg` | 40 constructor calls, 6 presets, 7 agents, 2 threads, symmetry | 65,704 | `FullyConfigured`, `OneAgent`, `HintsTrackAgent`, `ProxyFollows`, `OptionsHonoured` |
| `HeaderPipeline.cfg` | 2 mutators, 3 names (one ordinary, the content type, the cookie header), 3 parts of values, symmetry | 988,407 | `OverrideWins`, `WireOrderKept`, `LatestValueSent`, `MissingOnlyInBetween` |
| `CookieSync.cfg` | 2 threads, 2 names, 1 user and 2 server values, symmetry | 1,248,466 | `SettledCookiesAreSent`, `ViewFollowsJar` |
| `BridgeCall.cfg` | 3 threads, 4 bridges, 3 addresses, 4 replies, symmetry | 12,346 | `BridgeIsLoaded`, `FreedOnce`, `OwnAnswer` |
| `Scraper.cfg` | the shipped table, 3 libraries, 2 jobs | 73,745 | `ListedNamesResolve`, `StoredOnce`, `DroppedNamesResolve`, `TypesInSync`, `AugmentKeepsNames` |

All of them also check their module's type invariant.  Four more runs, on the same instances or
smaller ones, are expected to fail; section 4 lists them.

**Why the bounds are enough.**  `SessionRegistry`: two threads are the least that conflict;
the safety properties and the refinement are proved for any number of threads, so the run is
there for liveness and for what a proof would not notice, a guard that never opens; the same
goes for the other modules with proofs.  Three identifiers (`MaxID`) let a thread close,
create and fail in turn while another holds a stale one.  `ClientLifecycle`: a client is
constructed once; two clients and two identifiers let one client's session be closed and the
other's be created at any moment, and a third thread lets a `close()` overlap a request while
the finalizer is due.  `AsyncPool`: three awaits on two workers make one wait in the queue, be
cancelled there, or start behind a `close()`; other clients share nothing but the pool with
this one.  `ClientConfig`: every argument of the constructor occurs given and missing, with
and without a preset, each refusal occurs, and every family of browser headers, and lists that
name a header twice; the arguments of `request()` take each boundary value (0, below one
millisecond, a limit of 0).  `HeaderPipeline`: every combination of a Cookie header in
`client.headers`, in `headers=` or in neither with cookies of the user or none; `MaxLen`
bounds the list an assignment may start from: two racing assignments can duplicate a header
without end, and one duplicate more shows nothing new.  `CookieSync`: two responses with two
server values for one name is the smallest case in which their order matters.  `BridgeCall`:
one bridge more than threads makes sure that a failed load never blocks another.  `Scraper`:
two jobs, so that one reads what the other wrote, complete, torn or truncated.  The libraries
offer two spellings of one name, a name two of them share, one without a browser family, a
fingerprint that the table has, that it has under another name, and new ones.

**Fairness.**  `SessionRegistry`: weak fairness of a thread's own steps (the
operating system runs threads that can run, and azuretls' calls time out), strong
fairness of getting into the lock (`sync.RWMutex` lets waiting readers in when a writer
leaves, and `sync.Mutex` goes to a starving writer first).  New calls are never forced.
`AsyncPool` (`AsyncFairness`): weak fairness of every step inside a `Client` method and of
every worker's steps, because threads are scheduled and a foreign call ends, by its timeout if
nothing else; weak fairness of `Resume`, because the loop runs what is ready.  Nothing forces a
program to submit, to cancel or to drop a reference.  No other module claims liveness.

## 4. Where code and documentation disagree

Each of these is a run that TLC finds violated.

| Run | Documented | The code |
|---|---|---|
| `SessionRegistryRace.cfg` | "Thread-safe: the underlying Go code uses mutexes" (`_bridge.py:63`) | the mutex guards the map; fields of a session are written and read without it |
| `HeaderDeleted.cfg` | `client.headers` is the "mutable `Headers` instance for the client's default headers" (`README.md:477`) | a header deleted there is still sent from the session's copy |
| `CookieEcho.cfg` | response cookies are "not duplicated into the header" (`cookies.py:13`) | a user-set name keeps its mark when the server takes it over |
| `ClientOptions.cfg` | "Per-request `timeout=` overrides"; `max_redirects` is the "Maximum redirect-chain length" (`client.py:56-58`) | a limit of 0 is dropped by the Go side, a request's timeout of 0 or below a millisecond by either: the library's limit and the client's timeout stay |

`OptionsHonoured` and `FullyConfigured` say of the last one what is in force instead, field by
field.

More follow from the modules and have no run of their own.  For most of them a property of the
passing runs names the case and says what holds in all others:

* `ClientLifecycle`: a client that is closed "when garbage-collected" gives its session back
  (`client.py:35-37`).  `_closed` is true until after the session exists (`client.py:203-204`), so
  a `KeyboardInterrupt` in between leaves an open session that `__del__` takes for closed.
  `NoLeak` is about constructors that fail by themselves.
* `HeaderPipeline`: "Default headers merged into every request" (`README.md:418`), but in the
  middle of `client.headers[k] = v` the list has neither the old value nor the new one.
  `MissingOnlyInBetween` says which requests are hit, and `LatestValueSent` that no others are.
* `HeaderPipeline`: headers arrive "exactly as specified, including ordering, casing, overrides,
  and multi-value behavior" (`tests/test_headers.py:4`), but of a header given twice to a request
  the last value is sent alone (`OverrideWins`), and a default header given twice to a client
  without browser headers arrives with its second value twice: `RequestMerge` keeps both,
  `PutFirst` replaces the first match.
* `CookieSync`: user cookies "get re-sent on subsequent requests via a `Cookie:` header"
  (`cookies.py:10`), but an iteration over a set in which one name came and one went can pass over
  a third without an error.  `SettledCookiesAreSent` names this as the only case.
* `CookieSync`: a "jar that auto-syncs with `Set-Cookie` responses" (`README.md:208`), but
  responses are synced in the order the threads are scheduled in, and the older of two values can
  stay.  `ViewFollowsJar` is about responses that do not overlap.
* `ClientConfig`: "the platform/mobile hints track the User-Agent" (`README.md:101`), but a
  `user-agent` in `headers=` replaces the agent and not the hints made from the other one.
  `HintsTrackAgent` is about the agents of presets and of `user_agent=`.
* `ClientConfig`: two threads that call `set_proxy` can leave `_proxy` different from the
  session's proxy; nothing reads or documents `_proxy`, and `ProxyFollows` leaves that out.
* `Presets` and `Catalogue`: "Names are normalized before lookup, so all of these resolve to the
  same profile: `chrome131`, `chrome_131`, ..." (`README.md:151`), but the name as given is looked
  up first, and `chrome131` and `chrome_131` are two targets of the shipped table; so are twelve
  more pairs.
* `Scraper`: "Names that lost the dedupe race still resolve to the canonical winner"
  (`scrape_fingerprints.py:303`), but when one lost name is the normal form of another, the later
  one takes the alias.  `DroppedNamesResolve` says that the name then leads to that one's
  fingerprint and to no third.
* `Scraper`: "Keep the BrowserTypeLiteral in sync with the presets"
  (`scrape_fingerprints.py:539`), but a job stopped between opening the first file and writing the
  second leaves no table or two files that disagree.  `TypesInSync` says that the next job that
  finishes repairs it.  `ListedNamesResolve` also holds of a truncated `presets.py`, which lists
  nothing; that the table is there is part of `TypesInSync`.
* `BridgeCall`: two threads that construct the first client at the same time end up with two
  `Bridge` objects although the class calls itself a singleton (`_bridge.py:64`); both refer to
  the same library, and `BridgeIsLoaded` holds.  `OwnAnswer` takes the order of the tests in
  `_classify_error` as it is: nothing says which exception an ambiguous message deserves.

## 5. Proofs

Every theorem holds for any values of the constants that satisfy the named assumptions of the
module, which TLC evaluates for the instances it checks.  None of the properties is inductive;
each proof module begins with the strengthening it needs.  One lemma per action (`...Keeps`)
shows that the action preserves it.

| Module | Theorem | States |
|---|---|---|
| `SessionRegistryProofs` | `TypeCorrect`, `MapIsRaceFree`, `SessionsCloseOnce`, `NothingLeaks`, `CreateIsAlone` | `SafetySpec => []TypeOK`, `[]MapRaceFree`, `[]ClosedOnce`, `[]NoOrphan`, `[]CreateOwnsSession` |
| | `RegistryImplementsStore`, `StaleIdsStayClosed` | `SafetySpec => ImplementsStore`, `StaleStaysClosed` |
| `BridgeCallProofs` | `BridgeTypes`, `BridgesAreLoaded`, `RepliesAreFreedOnce`, `AnswersAreOwn` | `Spec => []TypeOK`, `[]BridgeIsLoaded`, `[]FreedOnce`, `[]OwnAnswer` |
| `ClientLifecycleProofs` | `TypeCorrect`, `FlagIsTruthful`, `SessionsDoNotLeak`, `MissesAreOverlaps`, `FinalizersAreAlone` | `SafetySpec => []TypeOK`, `[]FlagMatchesSession`, `[]NoLeak`, `[]MissOnlyIfOverlapped`, `[]FinalizerIsAlone` |
| | `ClientsUseTheStore` | `SafetySpec => Go!Spec` |
| | `AsyncTypes`, `AwaitedCloseHasClosed` | `AsyncSpec => []AsyncTypeOK`, `[]AwaitedCloseCloses` |
| | `AsyncClientsAreClients`, `AsyncSessionsDoNotLeak` | `AsyncSpec => SafetySpec`, `[]NoLeak` |
| `HeaderPipelineProofs` | `TypeCorrect`, `OverridesWin`, `LatestIsSent`, `LostInBetween`, `OrderIsKept` | `Spec => []TypeOK`, `[]OverrideWins`, `[]LatestValueSent`, `[]MissingOnlyInBetween`, `[]WireOrderKept` |
| `CookieSyncProofs` | `TypeCorrect`, `SettledCookiesReachTheServer`, `ViewIsTheJar` | `Spec => []TypeOK`, `[]SettledCookiesAreSent`, `[]ViewFollowsJar` |
| `ClientConfigProofs` | `TypeCorrect`, `ProxyIsTheSessions`, `ConstructorConfigures`, `OptionsAreHonoured` | `Spec => []TypeOK`, `[]ProxyFollows`, `[]FullyConfigured`, `[]OptionsHonoured` |
| | `AgentIsOne`, `HintsAgree` | `Spec => []OneAgent`, `[]HintsTrackAgent` |
| `ScraperProofs` | `TypeCorrect`, `TypeFollowsTable`, `NamesResolve`, `EachStoredOnce`, `DroppedNamesAreFound` | `Spec => []TypeOK`, `[]TypesInSync`, `[]ListedNamesResolve`, `[]StoredOnce`, `[]DroppedNamesResolve` |
| | `AugmentPreserves` | `Spec => [][AugmentKeepsNames]_vars` |

**SessionRegistry.**  `IndInv` has five parts besides the types: `LockInv` (who stands at a
point that holds the lock really holds it, and a writer inside excludes readers), `PathInv`
(which operation can be at which point), `FlowInv` (what a thread knows of its identifier,
lookup and result at each point), `OwnerInv` (an identifier not handed out belongs to exactly
one creation, and where its session is follows from that creation's point) and `CloseInv` (how
often `Close` ran, from the presence in the map and the thread at `delete`).  For the
refinement, each action maps to an operation of the store or to no change, by `IndInv` and
three lemmas on when `storeCall` and `storeStatus` stay as they are; `StaleIdsStayClosed`
follows from the same steps, so no run checks it apart.  Assumptions: `NoThread` is no thread,
`"none"`, `"create"` and `"close"` are not among `UseOps`, `MaxID` is a natural number.

**BridgeCall.**  Two independent halves: `LoadInv` (the published instance is loaded, and so is
what a thread is about to publish) under `BridgeIsLoaded`, and `ReplyInv` (what stands at the
address of a reply not read yet is what Go answered to that thread) under `FreedOnce` and
`OwnAnswer`.  Each action touches one half and frames the other.  Assumptions:
`ReplyAssumption` (what a reply is) and `NothingAssumption` (the null values are no values).

**ClientLifecycle.**  `RefInv` says who holds a client while a method runs, and that the first
and the last method have it to themselves; `CallInv` what the call of a thread is about at each
point; `SessionInv` that a client's session is its own, and that one which a creation has opened
for a constructor still waiting is nobody's yet.  On these rest the two parts that carry the
properties: `FlagInv` (`_closed` may lag behind the session only while some thread is between
Go's answer to `close` and the assignment) and `OverlapInv` (a request that has met no `close()`
has an open session under it).  Assumption: `NothingAssumption`.

**AsyncPool.**  The theorems of `ClientLifecycle` are reused through `AsyncClientsAreClients`:
each step of the loop or of a worker is a step of `ClientLifecycle` or leaves it alone.  That
needs `QueueInv` (an item waits in the queue once, and its client has been constructed), because
`Begin` is a `Client` method only on such a client.  `CloseInv` says that a `close()` begun by a
worker has set `_closed` unless that worker is still inside it.

**HeaderPipeline.**  `ArgInv` says what the pair and the filtered list of a change under way
are, and that the names of changes that overlap are in `clashed`.  `OneInv` carries
`LatestValueSent`: a name that nobody is changing and nobody clashed over has the value `want`
both in `client.headers` and in every filtered list about to replace it, so whichever
assignment comes last loses nothing of it.  `MidInv`, under `MissingOnlyInBetween`, says what
the list has of a name in the middle of a change that meets no other.  `SentInv` says that a
request is a function of the current lists.  The rest is about the lists: one lemma per merge
tells which names it leaves, with which value, and that no name is doubled (`WithoutValues`,
`SetItemValues`, `AssignedValues`, `PutFirstValues`, `MergedValues`, `ConstructedList`,
`WireIs`).  Their loops run over lists of any length: `FoldLeft` is expanded to the recursive
function behind it, `FoldExists` in `SequenceFolds` proves that this function exists, and
`UpTo` is induction up to a number, by the smallest number it fails for (the well-foundedness
of `<` is a theorem of the library that needs no operator for a parameter).  `OrderIsKept` has
a hypothesis: where no browser headers are merged in, the caller of `Client()` names no header
twice.  Without it the property does not hold: the session then has the name twice, and so has
the wire.  With browser headers it needs no hypothesis, because `__init__` drops the second
one.  Assumption: `HeaderAssumption` (what the constants are).

**CookieSync.**  `OwedInv`: nothing that touches a name leaves it owed to the server.
`CollectInv`: of the names an iteration has yielded, the header has the owed value.  `ChangeInv`:
how the set differs from the one the iteration started with: if none came, or none went, an
unchanged size means an unchanged set, and the iteration has yielded all of it.  `ViewInv`: a
response still to be synced lists what the jar has, for
names that no two responses have raced for.  Assumption: `ValuesAssumption`.

**ClientConfig.**  `ConfigInv` says what the configuration holds for each argument given or
missing, `AppliedInv` how much of it each stage of `applyConfig` finds in the session;
`ProxyInv` that a proxy call which is alone changes the session before it changes the client;
`WorkInv` what the setters and requests under way work with.  `HeaderInv` follows the headers
and the agent from the arguments through the configuration to the session.  What they are is
proved from `default_browser_headers` down: no family's list has a name twice
(`DefaultHeadersAre`), its agent is the one asked for, its hints are there for Chromium's
families only and name the device and the version (`HintsAre`), and the two loops of
`__init__` keep each name once, with the caller's value where there is one (`SeededIs`,
`MissingFolded`, `ClientHeadersAre`). A caller's list may name a header twice: the first value
counts (`ValueIn`), and only where no browser headers are merged in does the list keep both.
Assumptions: `ConfigAssumption`, which says of what types the arguments are;
`AgentAssumption`, which says of User-Agent strings which of the words that `_platform` looks
for stand in those of a device, and that Edge's version is Chrome's.  Without them the hints
need not agree: an agent that says Windows and Android is taken for Android.

**Scraper.**  `TableInv` has four parts: the types; `SyncInv` (the two files agree until a job
opens the first, and between the writes the table is the draft that the type is made from);
`CaptureInv` (the keys of the captures differ, and what a library still offers has not been
captured from it), and `DraftInv` (table and draft are `Whole`: no alias dangles, no fingerprint
twice; the draft stores every capture already looked at, is `Rebuilt` at the end of a full job,
and gives every old name its old meaning while augmenting).  That `Rebuilt` is whole and serves
every capture needs the winner of a group and the last alias assigned to a name, both the first
of a finite set in some order.  `FirstExists` proves that it exists, for any total and transitive
order, from a smallest counterexample: with the library's well-foundedness of the strict-subset
order such an induction is first-order and within the provers' reach.  Assumptions: `Offer-`,
`Variant-`, `Order-`, `Job-` and `InitialAssumption`; the last says that the first job starts
from two files that agree and from a whole table, true of the shipped ones.

Only model-checked:

* the liveness properties (`CallsReturn`, `AwaitsAnswered`, `DroppedIsClosed`), which are out of
  the prover's reach, as is the fairness they rest on;
* what the shipped preset table itself contains: `Scraper`'s theorems assume that the first job
  starts from a whole table and two files that agree, and TLC evaluates that for `Catalogue`.

## 6. Not modelled

* azuretls, TLS, HTTP/2, sockets, redirect chains, cookie scoping: external.
* `Response` and the exceptions: values built once, no state.  Which exception an error message
  becomes is in `BridgeCall`.
* The module-level shortcuts (`httpz.get(...)`): a `Client` used once in a `with` block, a
  behaviour of `ClientLifecycle`.
* `Bridge.configure_session`: nothing in httpz calls it; `ConfigureSession` is covered by
  `SessionRegistry` as a use of a session, and what it applies by `ClientConfig`'s stages.
* URL parameters, JSON, form and base64 encodings, letter case: conversions that no property is
  about.  The scraper's repair of HTTP/2 fingerprints is text as well.
* `KeyboardInterrupt` and other asynchronous exceptions in Python: between `create_session` and
  `_closed = False` (section 4), or in the middle of a change of headers, cookies or the proxy.
* Build scripts, CI, benchmarks and tests: not part of the running system.

## 7. Plan

The modules planned are there, and every invariant, action property and refinement that a run
checks is proved.  What could follow:

1. `HeaderPipeline` over `ClientConfig`: the session's list of the one is what the other
   configures, so far by two definitions of the same merge.
2. `LatestValueSent` for names that two threads changed at the same time: either value, or none.
