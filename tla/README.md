# Model mapper plugin: specification and proofs

TLA+ specifications, TLC runs and TLAPS proofs for the CLIProxyAPI (CPA) model
mapper plugin, the Go package in the repository root. The code is the reference:
`map` in `PROJECT.json` names, for every definition, the lines it stands for.
Where a document disagrees with the code, the model follows the code and a run
shows the disagreement.

1. [The system](#1-the-system)
2. [Modules and code](#2-modules-and-code)
3. [Runs and bounds](#3-runs-and-bounds)
4. [Fairness](#4-fairness)
5. [Proofs](#5-proofs)
6. [What is not modelled](#6-what-is-not-modelled)
7. [Plan](#7-plan)

## 1. The system

The plugin is a shared library. The host calls it through a C ABI; the plugin
calls the host back through one callback. It renames models: a request for model
`a` is routed to the model `b` that the configured rules give, executed by the
host with `b`, and every response is rewritten so that the client still sees `a`.

| component | source | state | operations |
| --- | --- | --- | --- |
| Plugin lifetime | `abi_cgo.go`, `main.go` | host callback under a RW lock | init, call, shutdown, host call |
| C ABI buffers and dispatch | `abi_cgo.go`, `main.go` | C memory of both sides | copy a request, a response, the arguments and the answer of a host call; free |
| Configuration | `config.go` | the published configuration under a RW lock | decode, compile four rulesets, publish |
| Routing | `model_router.go` | none of its own | select rules, derive the caller's key, route |
| Caller-pattern cache | `model_router.go` | two generations under a RW lock | lookup, store, rotate, reset |
| Rules | `rules.go` | none | parse, match, replace |
| JSON model fields | `json_model.go` | none | rewrite a request, restore a response |
| Non-stream executor | `executor.go` | none | decide, rewrite, execute, restore |
| Executor streams | `executor_stream.go` | counters, active map, WaitGroup; per stream outcome, two `sync.Once` | prepare, admit, forward, finish, shutdown, reset |
| Stream chunk rewriter | `stream_rewriter.go` | pending bytes, framing state | write, flush, finish |
| SSE rewriter | `sse_rewriter.go` | buffer, scan position, byte order mark, event state | write, flush |
| Release tooling | `.github/scripts` | none | packaging, compatibility checks |

**Interaction.** ABI calls arrive on any host thread, several at a time. A
`model.route` RPC and the `executor.*` RPC that follows it load the configuration
separately and map the model separately. Between them the host runs
interceptors, which may change the headers that carry the caller's credential.
`executor.execute_stream` prepares on the thread of the call and then leaves a
goroutine behind, which reads chunks from the host, rewrites them and emits them
to the host until the upstream ends. `plugin.reconfigure` replaces the
configuration at any time. `cliproxyPluginShutdown` may come at any time and on
more than one thread; `cliproxy_plugin_init` may follow it in the same process.

**What is hard.** The behaviours this development is about, each listed with its
line and its properties under `hazards` in `PROJECT.json`:

- *Shutdown against streams.* A shutdown races with preparation, admission,
  forwarding and completion of every stream. It has to end calls into the host
  that block (a silent upstream, a consumer that does not drain), let exactly
  one outcome per stream win, close each side once, and return only when no
  goroutine is left, because the host unloads the library then.
- *Failures in the middle.* Reads, chunks, rewriting, emits, the flush and
  either close can fail, together with a shutdown. A stream that is cut short
  must never look complete to the consumer.
- *Two decisions for one request.* Route and execute may see different
  configurations and credentials. Each must decide under one of them.
- *A shared cache filled outside its lock,* rotated and reset between a caller's
  lookup and its store.
- *Chunk boundaries anywhere:* inside a delimiter, a CRLF, a byte order mark, a
  JSON value, the name of a field. A chunk may be a raw value, several, elements of
  an array, events with or without a blank line, or a single field of one; what it
  is may show only with a later chunk, and only what is unfinished is limited.
- *Memory of two sides:* the plugin frees what it allocated, the host what it
  allocated, on every error path, and a length is a `size_t` on one side and a
  `C.int` on the other.
- *Small languages read by several scanners:* rule texts with escapes, wildcard
  matching without backtracking, JSON with repeated and escaped keys.

**What makes each component correct:**

| component | correctness |
| --- | --- |
| Streams | nothing runs after shutdown; shutdown ends; a clean close means a complete stream; the outcome is selected once; each side is closed as often as it should be |
| Lifetime | a stream's calls reach the live host of this load; a new load starts afresh; shutdown leaves nothing |
| ABI buffers | a buffer arrives whole or as an error; whoever allocated it frees it, once, on every path |
| Configuration | no RPC sees a part of a configuration |
| Routing | the documented table of rulesets, one pass, callers that cannot be checked skip scoped entries, an invalid mapping is an error and never native execution |
| Cache | nobody is answered for another key or pattern; bounded; evicts the oldest only |
| Rules | the scanners read one language; what is accepted can be written again and is safe to apply; matching is the documented cutting |
| JSON | a request names one model for every reader; the documented response fields are restored and nothing else; changes are reported exactly |
| Stream chunks, SSE | what the client reads does not depend on the cut: every piece once, in order, restored and well formed, as soon as its end shows; nothing in part; the limit is on what is unfinished |

## 2. Modules and code

Each `MC*` module only gives constants their values. `*Properties` modules hold
what is claimed, apart from the mechanism. `*Proofs` modules EXTEND the component
and TLAPS; `Induction` has the lemmas with which they unroll recursive definitions. Operators whose comment begins with "Mistake" are plausible bugs of
the operator after them. They are not used by any specification; each is there
to show that a property would notice it (`mutants` in `PROJECT.json`).

```
StreamService <-- implemented by -- StreamLifecycle -- StreamLifecycleProperties -- MCStreamLifecycle
      ^                                                       \-- StreamLifecycleProofs
      |  INSTANCE
PluginLifetime
      ^
      |  implemented by, EXTENDS
NativePlugin -- NativePluginProofs

CallerPatternCache -- MCCallerPatternCache, CallerPatternCacheProofs
RuleApplication -- ModelRouting -- ModelRoutingProperties -- MCModelRouting, ModelRoutingProofs
RuleText -- RuleTextProperties -- MCRuleText, RuleTextProofs
TokenMatcher -- TokenMatcherProperties -- TokenMatcherProofs
                                       \-- TokenReplacement -- MCTokenMatcher
JsonText -- JsonModel -- JsonModelProperties -- MCJsonModel, JsonModelProofs
SseDelimiter -- StreamText -- SseEvents -- SseScanner -- SseStream -- StreamChunks
                          StreamChunks -- StreamChunksProperties -- MCStreamChunks

Induction -- ModelRoutingProofs, TokenMatcherProofs, RuleTextProofs, JsonModelProofs
```

**StreamService** is what the streaming executor promises: streams are accepted
and admitted only while serving, decided once, and gone before a drain is
reported complete; a drain fails whatever is open and undecided in one step.

**StreamLifecycle** is how. One process per `execute_stream` call (first the RPC's
goroutine, then the worker) and one per thread in shutdown. A critical section
of `executorStreamLifecycle.mu`, which also guards the outcome of each stream, is
one step; a call to the host is two steps, because the process is blocked in
between. `stopping`, `preparing`, `shutdowns`, `active`, `wg` are the
fields of the lifecycle; `terminalSelected`, `terminalErr`, `outputFinished`,
`hostOnce`, `hostErr`, `pluginOnce` those of a stream. A `sync.Once` is `"new"`,
`"running"` or `"done"`, and whoever comes second waits until it is done. An
error is the set of causes it joins: `errors.Join` is union and nil is the empty
set. The rewriter is reduced to how many emits a chunk leads to or which error.
`opened`, `closes` and `reports` are what the host saw.

**PluginLifetime** composes: it uses StreamService, by INSTANCE with the same
variables, for the streams (StreamLifecycle is shown to implement it, so what
holds here of any StreamService holds with the mechanism in its place), and adds
the callback, the cache, the order of the steps of init and shutdown, and the
host's API, valid from init until shutdown returns. Calls, here, are those that
look into the cache and call the host. `guarded` says whether the
host waits for its synchronous calls before it shuts the plugin down. The plugin
does not track these calls (docs/superpowers/specs/2026-09-08-cpa-model-mapper-0.5.2-audit-design.md:124-128),
so the claims that concern them are made for a guarded host only; those about
streams are made for both.

**NativePlugin** adds the buffers of `abi_cgo.go` to the steps of PluginLifetime,
which it conjoins. For every caller, a synchronous call or a stream: the block of
arguments that the callback of `cliproxy_plugin_init` copies, the answer the host leaves in `response`
with its return code, what the callback makes of them (`result`), and for the call
itself the copy of the request, the host's `cliproxy_buffer` (`slot`) and the return
code. `HostAnswers` is any answer the host may give: any code, any
length, with a buffer of its own or none. A success that names a length and no buffer is refused of a request
(`copyPluginRequest`); of an answer the callback makes an empty success
(abi_cgo.go:116-118), which `callHost` then cannot decode (main.go:178-181). So `WholeOrRefused` is about
what `callHost` returns, not what the callback does. `TakeAnswer`, `EnterCall`, `LeaveCall` take any of their error
paths: a length beyond `C.int`, a response beyond its limit, a failed malloc, an
error of the callback. A length is a number; MaxCInt and MaxResponse keep their order.

**CallerPatternCache**: `callerPatternMatch` in its steps (lookup under the read
lock, the match outside any lock, second look and store with rotation under the
write lock), with resets and reconfigurations between any two.

**RuleApplication, ModelRouting**: `selectRules`, `callerAPIKeyForSelectedRules`,
`callerMatchesRule`, `applyRules` and `routeModel` as operators. A request's two
RPCs load, decide and go on in separate steps; a lifecycle call decodes, compiles
field by field and publishes in separate steps. A rule is who it is for and a
map of names; a rule field that does not compile is the value `Bad`.

**RuleText**: `parseRules` with its scanners, on texts of characters. **TokenMatcher**:
the loops of `matchTokens`, a step per token or character tried.
**TokenReplacement**: `buildReplacement`.

**JsonText, JsonModel**: a text is a sequence of atoms (marks, spaces, strings as
a whole, numbers). A string is spelled plainly or with escapes. JsonText is
`encoding/json` as the code uses it (external); JsonModel is `json_model.go`: the
scan that rewrites requests, the canonical rewriting of repeated members, the
marker scan and the walk that restore responses, and the byte edits.

**SseDelimiter, StreamText, SseEvents, SseScanner, SseStream, StreamChunks** are the
two stream rewriters, bottom up. A text is a sequence of symbols: punctuation, line
breaks, digits, pieces of words (`data:` is three of them, so it can be cut).

- SseDelimiter: `findSSEEventDelimiter`, with the place where a later scan resumes.
- StreamText: what is read off bytes: JSON values as the decoder takes them (whole,
  cut short or none; external), lines, the tests that tell values from events.
- SseEvents: one event: a data line, several data lines as one value, framing.
- SseScanner: the resumed scan of an event that no blank line ends (formats
  `interactions` and `openai-response`), and the fields that come as chunks of their
  own. The scanner's state is a record of the code's fields.
- SseStream: `sseRewriter.Write` and `Flush`: the buffer, the drain loop, the limit.
- StreamChunks: `streamChunkRewriter.Write`, `Flush` and `Finish`: the byte order mark,
  the choice between values and events, the resumed scan of an incomplete value,
  arrays of Gemini, white space between values, the limit, framing.

An operation takes the state and returns the state it leaves, what it emits and its
errors; the specification chooses a stream and writes its text in chunks until it
ends or an operation fails. StreamChunksProperties says what a client gets, from the
pieces the upstream sent, without the rewriter's state.

## 3. Runs and bounds

| run | instance | distinct states | what it shows |
| --- | --- | --- | --- |
| `stream_safety` | 2 streams, 2 shutdown threads, 1 emit per chunk; setup, reads and emits may fail | 773k | `Accounting`: counters, WaitGroup and active map agree with the goroutines. `QuietAfterShutdown`. `NoAddDuringWait`: no `wg.Add` while a shutdown may be in `wg.Wait`. `BlockedWorkersReleased`: when shutdown reaches `Wait`, the plugin stream of every worker that may emit and the host stream of every worker are closed. `OutcomeSelectedOnce`. `ImplementsService` |
| `stream_faults` | 1 stream, 2 shutdown threads, 2 emits per chunk, every fault | 53k | `CleanCloseIsComplete`: a close without an error means read to the end, all accepted, host stream closed well. `SelectedErrorReported`: every close carries the selected error. `CloseDiscipline`: host stream closed exactly once, plugin stream again only after a close that failed |
| `stream_liveness` | 2 streams, 1 shutdown thread, fair; either close may fail | 448k | `ShutdownEnds`, although consumers do not drain and upstreams are silent, unless the host refused the close a worker waits on. `FinishedWorkersLeave` |
| `plugin_lifetime` | 3 loads, 1 stream, 1 call, guarded and unguarded; lengths 0, 2, 3, 4 with a response limit of 2 and a `C.int` of 3 | 4.03M | `StreamsCallALiveHost`, `ReadyIsFresh`, `NothingLeftBehind` of the lifetime; of the buffers `AnswersGoBack`, `ResponsesHaveOneOwner`, and `WholeOrRefused`: what crosses is complete or an error |
| `cache_generations` | 2 callers, 2 scopes, 2 patterns, 2 rule positions, generations of 2 | 320k | `Bounded`, `AnswersOwnQuestion`, `EvictsOnlyOldest` |
| `cache_readme` | the same | 5k, up to the violation | expected violation, see below |
| `routing_rpcs` | 1 request, 2 lifecycle calls; every pair of global and Claude rulesets of up to two entries of five kinds | 753k | `DecidesUnderOneConfiguration`: every decision is what the README's table and rules say of one configuration in force during the RPC. `PublishedIsWhole`, `NeverNativePastARule`, `DeclinesOnlyAfterChange`, `SkipsWhatItCannotCheck` |
| `rule_text` | texts of up to 7, 9, 6 or 5 pieces, by kind of piece | 1.08M | `ScannersAgree`: the scanners accept and read what one reading of escapes accepts and reads. `RulesCanBeWritten`, `AcceptedRulesAreSafe` |
| `token_matcher` | names of up to 5 characters of 2, up to 4 tokens, literals of up to 2 | 59k | `AcceptsAsDocumented`, `CapturesEveryWildcard`, `RebuildsTheName` |
| `json_bodies` | objects of up to 3 members, arrays, scalars, truncations | 139k | `RequestNamesOneModel`, `ResponseNamesTheClientsModel`, `ChangesAreReported` |
| `stream_chunks` | 7311 streams of one to eight pieces, five formats, limit 24; every cut, ended anywhere | 205k | `DeliveredWhateverTheCut`: every piece that came, once, in order, restored, and an error if a framed value is cut off. `ClientReadsEveryPiece`: a reader of events finds one event per value and all fields of every event. `EmittedAtOnce`: nothing whose end shows is held back. `NothingEmittedInPart`. `LimitIsOnTheUnfinished`: an overflow only by a piece beyond the limit, and always by one |
| `sse_native_fields` | 8 streams of fields sent one by one | 72, up to the violation | expected violation, see below |

**Why the bounds are enough.**

- *Streams.* The streams share the counters, the lock and the shutdown calls and
  nothing else. Two streams show a shutdown that interrupts one while the other
  is prepared or leaves; two shutdown threads show one that finds the other's
  closes under way. The faults of one stream do not touch another's, so the run
  with every fault has one stream. Two emits per chunk show a failure between
  emits of one payload. For the accounts and the refinement the proofs remove
  the bounds.
- *Lifetime.* Two loads show what one leaves to the next, a third one that the
  second, which found something, leaves no more. The streams of StreamService share
  the phase only, so one is enough here. A length is below both limits, at either or
  above both. *Cache.* Four keys and
  generations of two make every key rotate out while a caller still computes it;
  two rule positions show entries shared between rules. *Routing.* One request is
  enough because requests share only the published configuration, which the
  lifecycle calls change; two calls show one overtaking the other. In that run
  either the configuration changes while a request of any format is made, or
  nothing interferes and the configuration is any of the many.
- *Texts.* Three names of a wildcard pattern, an escape before each separator and
  an arrow in every position fit into the lengths, and so do a pattern of ten wildcards and a
  reference of two digits.
- *Stream chunks.* The rewriter decides anew after each piece, so what matters is
  which piece follows which: the streams are all pairs, and where three matter (a
  value before a value before an event, array elements, events without a blank line,
  whole events between fields) triples, of every form of piece. `ValueStreams` are
  values of every kind with and without space between, in arrays or not;
  `EventStreams` events, among them comments with every sequence of line breaks of up
  to six symbols; `MixedStreams` values before events; `LongStreams` pieces at the
  limit of 24, which no other piece reaches; `MarkedStreams` a byte order mark, cut or
  repeated, and texts that begin like one; `FieldStreams` events of `openai-response` whose
  fields are chunks. Every stream but the last kind is cut at every place and every
  set of places, and may end after any chunk.
- Two things are excluded, both in `MCStreamChunks`. In `openai-response` an id or a
  comment at the end of a chunk gets a line feed, because the upstream may send single
  fields without one (docs/superpowers/specs/2026-10-22-native-sse-field-boundaries-design.md,
  R5 and R6); so in this format events with such fields, or whose data could be an event
  of their own, are not cut inside. And a data field without a header is not followed
  by an extension field and an id, which is the second disagreement below.

**Deadlock** is checked in the stream and cache runs. In the stream runs only a
lifecycle without streams and shutdowns can be reset, so a stream or a shutdown
that nothing can move any more would be reported; the cache can always be reset.
The other runs end: a text is read to its end, a request is answered, the
last load of the plugin is over; their configurations say `CHECK_DEADLOCK FALSE`.

**The disagreements.** README.md:62 says "Reconfiguration clears the cache."
`applyLifecycleConfig` (config.go:136) publishes the new configuration and does
not touch the cache. `cache_readme` checks `ReconfigurationClears` and shows a
reconfiguration that leaves entries behind. The consequence is small:
`AnswersOwnQuestion` holds across reconfigurations, because an entry depends on
the caller's scope and the text of the pattern only.

The design of native fields
(docs/superpowers/specs/2026-10-22-native-sse-field-boundaries-design.md:42, R3)
promises to "deliver each real non-empty data value exactly once" and to keep pending
metadata in order. After a data field without a header the scanner holds an extension
field (or a bare `id`) as a candidate of the next event. An id, a retry or a comment that
follows is then no field of its own: `fieldBoundary` (sse_rewriter.go:184) looks at
`metadataEnd` and `completeEnd` and not at `candidateEnd`. It is appended without a line
break, the scan takes the whole for an unknown suffix and gives up, and the next data
field ends up on the same line. `sse_native_fields` checks `EveryDataValueOnce` and shows
the chunks `data: {E}`, `x:1`, `id:1`, `data: {C}`, of which the client can read neither value.

## 4. Fairness

Only `stream_liveness` assumes fairness (`FairSpec` in StreamLifecycle):

- weak fairness of the steps of preparation, forwarding, closing and of each
  running shutdown: Go schedules runnable goroutines, the locks are held for
  bounded sections, and `sync.Once` wakes its waiters;
- weak fairness of the host's answers to `execute_stream` and to both closes:
  the host answers these calls;
- a read returns for sure only once the host stream has been closed with success,
  an emit only once the plugin stream has. Nothing is assumed of a read from an
  open upstream or of an emit to a consumer that does not drain, which is what
  shutdown is for. Nothing is assumed about new streams, shutdowns or loads.

So `ShutdownEnds` excepts a worker that waits on a stream the host refused to
close (`Abandoned`): the plugin does not retry that close while it waits.

## 5. Proofs

`tlapm` checks every leaf. Assumptions: those named in the modules (finite sets
of streams and shutdown threads, known faults, naturals where numbers are meant,
calls that are not streams, a response limit within `C.int`, the marks of rule texts among
the characters), and nothing else. No bound of a run is assumed.

| theorem | module | says, for all values of the constants |
| --- | --- | --- |
| `LifecycleInvariant` | StreamLifecycleProofs | the inductive invariant below |
| `TypeCorrect`, `AccountsCorrect`, `ShutdownIsQuiet`, `WaitGroupNotReused`, `OutcomeStays` | StreamLifecycleProofs | `TypeOK`, `Accounting`, `QuietAfterShutdown`, `NoAddDuringWait`, `OutcomeSelectedOnce` |
| `LifecycleImplementsService` | StreamLifecycleProofs | `Spec => ImplementsService` |
| `ClosingInvariant`, `ClosesOnce`, `CleanCloseCorrect`, `ErrorReported`, `WorkersReleased` | StreamLifecycleProofs | `CloseDiscipline`, `CleanCloseIsComplete`, `SelectedErrorReported`, `BlockedWorkersReleased` |
| `LifetimeInvariant`, `StreamsAlwaysCallALiveHost` | NativePluginProofs | `StreamsCallALiveHost` |
| `FreshInvariant`, `LoadIsFresh`, `ShutdownLeavesNothing` | NativePluginProofs | `ReadyIsFresh`, `NothingLeftBehind` |
| `NativeImplementsLifetime`, `NativeLifetime` | NativePluginProofs | a step of NativePlugin is a step of PluginLifetime or a stutter, so the three properties above hold with the buffers |
| `NativeInvariant`, `AnswersAlwaysGoBack`, `ResponsesAlwaysOwned`, `LengthsSurvive` | NativePluginProofs | `AnswersGoBack`, `ResponsesHaveOneOwner`, `WholeOrRefused` |
| `CacheInvariant`, `CacheTypeCorrect`, `CacheIsBounded`, `CacheAnswersOwnQuestion`, `CacheEvictsOnlyOldest` | CallerPatternCacheProofs | `TypeOK`, `Bounded`, `AnswersOwnQuestion`, `EvictsOnlyOldest` |
| `RoutingInvariant`, `ConfigurationsAreWhole`, `ClaimsAreKept` | ModelRoutingProofs | `PublishedIsWhole`, `DeclinesOnlyAfterChange` |
| `DecidedUnderOne` | ModelRoutingProofs | every RPC goes where `routeModel` under one configuration in force during the RPC sends it |
| `NoMixture`, `NativeOnlyUnmapped`, `UncheckableAreSkipped` | ModelRoutingProofs | `DecidesUnderOneConfiguration`, `NeverNativePastARule`, `SkipsWhatItCannotCheck` |
| `MatcherInvariant`, `MatcherTypeCorrect`, `MatcherAsDocumented`, `MatcherCapturesEveryWildcard`, `MatcherRebuilds` | TokenMatcherProofs | `TypeOK`, `AcceptsAsDocumented`, `CapturesEveryWildcard`, `RebuildsTheName` |
| `TextIsTyped`, `AcceptedAreSafe` | RuleTextProofs | `AcceptedRulesAreSafe` |
| `ScannersReadAlike` | RuleTextProofs | `ScannersAgree` |
| `RulesAreWritten` | RuleTextProofs | `RulesCanBeWritten` |
| `OutcomeInvariant`, `JsonChangesAreReported`, `JsonRestoresResponses`, `JsonRewritesRequests` | JsonModelProofs | `ChangesAreReported`, `ResponseNamesTheClientsModel`, `RequestNamesOneModel` |

**Streams.** `QuietAfterShutdown` is not inductive: that no goroutine is left
follows from `wg = 0` only if `wg` counts them. `LifecycleInv` adds `Accounting`
(each counter is the cardinality of the set of goroutines at certain labels, so
each action's proof is how one goroutine's label changes those sets),
`StoppedIsEmpty` (a shutdown counted means stopping; stopping without one means
an empty WaitGroup, which is why `reset` may clear the flag and nothing else), and
`OutputLeft`, which types the subtraction when an emit returns. With it,
`NoAddDuringWait` follows because the only `wg.Add` outside admission is guarded
by `stopping`, and admission moves a stream from one counted label to another.

**Closes.** `ClosingInv` says of each stream what its worker's label, its outcome, the
shutdown that took it, the two Onces, the host's closes and the reports to the
consumer say of one another, a named stage for each; and of each shutdown which streams
it has passed (`ReleasedStage`). A step of one stream leaves the stages of the others
alone (`StagesUntouched`), so each action is proved for the stream it is about. That a
shutdown which sweeps has passed every stream needs that none is admitted meanwhile,
which is `StoppedIsEmpty` and `BusyShutdownsCounted` of `LifecycleInv`.

**Refinement.** Under the mapping of StreamLifecycleProperties (`phase` from
`stopping` and `shutdowns`, `pending` and `open` from the labels, `outcome` from
the selected error) every step is a step of StreamService or a stutter. Leaving
needs a decided outcome, so the invariant adds `LeaversDecided`: a worker past its
loop has selected one. The step `Stopped` needs `Accounting` to conclude from
`wg = 0` that `pending` and `open` are empty.

**Lifetime.** Inductive: streams exist only from the end of init to the end of
the drain, the callback is that of the valid API all that time, and a stream in a
call exists and holds that callback. `FreshInv` adds what the host's thread has
reset so far at each of its steps, and, if the host waits for its calls, that calls run
and store only while a load is ready.

**Buffers.** `NativeInv` has a half for callbacks and a half for calls: which blocks,
answers and results a caller has at each stage. Each step concerns one caller, and the
steps of PluginLifetime say when a callback or a call begins and ends. That the answer
of a stream goes back to a live host is `StreamsCallALiveHost`, carried over by the
refinement. The bytes a callback returns are as many as the host named, or none when it gave no
buffer; since `callHost` makes no answer of none, `LengthsSurvive` follows.

**Cache.** Inductive: every entry of either generation is the match of its own
scope and pattern, whoever stored it; a caller that has matched its tokens, or
was answered, carries the match of its own question; generations are finite,
bounded and disjoint. `EvictsOnlyOldest` is an action property: only a store drops
entries, and it does so when the younger generation was full and has become the older
one.

**Routing.** Inductive: a call that compiles has a candidate whose fields are
valid so far; and as long as nothing changed, the snapshot of a request is the
configuration in force and a request that was claimed would be claimed again. `UnderOne`
is inductive with its types: what was in force only grows while an RPC runs. That leaves
`routeModel` against the README's pass, for rules of any number. `RoutesInOnePass` follows
both from entry to entry: the code's two rule sets are the table's entries cut in two
(`SelectionIsEntries`), and after each entry the code has applied what the pass has
(`EntryAgrees`: the same model, the same end, and the model that was asked for as long as
nothing matched). The key that was looked up for all the entries together answers each as the
credential would (`KeyIsEnough`).

**Matcher.** Inductive: what was cut so far is the documented cutting of the part
of the name that was read, and any documented cutting of the whole name starts
with it. So the loop's refusal means that there is none, and no induction over
patterns is needed. For `RebuildsTheName` the invariant adds that the capture of a wildcard
is the part of the name between its two cuts; the parts between all cuts in a row are the
name (`CutsRejoin`), by induction over the tokens.

**Rule texts.** `AcceptedRulesAreSafe` needs no invariant but the type of the text. The
lemmas go up with the calls. Every scanner moves to the right, so it reads any text to its
end (`PatternIsRead`, `ReplacementIsRead`), and what it reads are tokens: a number that does
not begin with 0 is not 0 (`NumberIsPositive`), and `flush` leaves no two literals side by
side (`JoinFlushes`). `parseScope`, `parseBody` and `parseEntry` pass on no part that is empty,
and what the loop of `parseRules` returns was accepted entry by entry (`RulesAreParsed`).

**Scanners.** `ScannersAgree` needs no invariant either; it is about one text and its symbols,
related by the place where each symbol begins (`Reads`). Every place of the text is in one
symbol (`EveryPlaceInASymbol`), and a place is escaped in the sense of any scanner exactly
inside a symbol that is an escape, so both ways of telling find the marks that are symbols
(`MarksAgree`, `OddEscapes`). A text cut at such marks gives pieces that the pieces of its symbols
read (`PiecesAgree`), which carries the relation from texts to entries, from entries to fields and
from a body to its two sides. There `parseFind` and `parseReplace` are followed from the right:
what they read from the first place of a symbol on is the symbol's token before what they read
from the next one's (`FindSymbol`, `ReplaceSymbol`). An arrow, which they read as two literals,
and the digits of a number, which are symbols of their own, are the cases that need more
(`JoinTwo`, `NumbersAgree`). That an escape of nothing at the end is refused by
`splitEscaped` in a part, but by the pattern or replacement in a body, is `NothingIsRefused`.

**Written rules.** `RulesCanBeWritten` writes an accepted rule with the documented escapes and
parses it again. `Reading` is enough for both directions. The entry a rule comes from has
symbols (`SymbolsRead`), and the tokens of each part say which. Two texts in a row are read as their
symbols in a row (`ReadingJoined`), unless the first ends in a backslash or in the `=` of an
arrow: this is why a `=` is escaped before a `>`, in a literal or across two (`NoArrowAcross`). So what is
written for a pattern, a replacement, a scope and a body has the symbols of what was read, those
that are marks escaped (`PatternWritten`, `ReplacementWritten`, `ScopeWritten`, `BodyWritten`), and means
the same (`PatternKept`, `MappingWritten`). A reference is written with the digits it was read of, because it begins
with 1 to 9 (`DecimalOfNumber`, `NumberWritten`), and no literal behind it begins with a digit, on which the
reference would have read on. A rule of
any text is then an entry (`EntryWritten`) that is one text on its own (`OneEntryParsed`).
The lemmas need that the marks are characters (`MarksAssumption`), which the provers do not know of
the letters of a string.

**JSON bodies.** `Outcome` is inductive: what is given is what a rewriting makes of the body.
So the property is about one text. A text is read in at most one way (`OneReading`), and two
texts that differ in their strings only are read with the same ends (`ShapeOfReadings`), so
the walk finds the same members in both (`ShapeOfWalk`). The edits of a response replace strings that
are no keys (`ResponseEditsAre`): the restored text has the shape of the body and the same keys,
and a second walk finds the fields it would edit to be the model already (`NothingLeft`).
Reading an object or array visits what the walk finds, in its order, in both texts (`ObjectIsRead`,
`ArrayIsRead`). Each value read lies apart from the others, so an edit reaches its own member only
(`LocalMembers`, `LocalElements`), and a value whose atoms are carried over is the same value wherever
it stands (`CarriedReading`). Hence the restored tree, from the innermost member to the body
(`MemberRestored`, `InnerRestored`, `WholeRestored`, `BodyRestored`). The search for the two words before
the walk skips nothing that would be edited, provided the strings of a body are spelled plainly or with escapes
(`BodiesAssumption`, `EditsAreExpected`).
A request is scanned by counting marks. The marks of every value nest (`ReadingNests`), so that the count is
level first where the value ends and the scan finds the members that the decoder finds (`SkipAgrees`,
`WalksAgree`). The members are apart and in order (`WalkIsOrderly`), so a deleted one
makes the text shorter (`CanonicalIsShorter`).
What is written joins pieces of the body, each of at most one atom, and each has its place in it (`PiecesStand`).
The members lie in a row (`RowOfChain`): of each the canonical edits keep everything, or only key and colon before
the model, or nothing, not even the comma before it (`RowIsRewritten`), and what is kept in a row is carried over together
(`KeptIsCarried`). So the written text can be read from the last member back: after each member comes the rest of the
object with one model (`RestWritten`), and before the first its opening mark (`RootWritten`). The edit of a
single model is the same text (`OneReplaced`), and a model that is the mapped one already is left
(`NamesItAlready`).

**Induction over data.** The library's induction theorems take a predicate, which no backend
can instantiate. `Induction` states them for sets: `NatInductionOnSets` (a set with 0 and each
successor contains Nat), proved from the cardinality of intervals, and from it
`RankInduction` and the existence of what a recursive definition defines, whose step is
a function (`RecursionSolved`, `LoopSolved`, `LoopUnique`). So a recursive function of the
model (`CHOOSE f : f = ...`) is shown to satisfy its own equation and is then followed step by step. The
modules these proofs are about have recursive functions and no RECURSIVE operators.

**Model-checked only.** Liveness (`ShutdownEnds`, `FinishedWorkersLeave`), which
needs ENABLED. The properties of stream chunks, whose modules use RECURSIVE operators (the
backends do not work with these) and whose statements are about the streams of the run.

## 6. What is not modelled

- *Parts of the stream rewriters*: the final `[DONE]` of `Finish` and its tracking,
  because `executor_stream.go:295` never frames a stream of the format `openai`; the choice
  of when to reallocate a buffer; an error of rewriting inside the drain loop, which the
  JSON rewriter does not return for a value the scan has found valid.
- *Parts of the executors*: headers and query parameters (including which of them
  a credential comes from) and the envelopes of upstream errors: conversions without
  state, whose content no property here tells apart.
- *YAML structure* of the configuration: decoding is a step that fails or not.
- *Registration and envelopes*: static data and its JSON encoding. The dispatch by
  method name is the choice of a step.
- *Synchronous calls that outlive a shutdown*: the plugin makes no promise about
  them; PluginLifetime shows what holds when the host waits for them.
- *Release tooling*: not part of the plugin.

## 7. Plan

Done, in this order: StreamLifecycle with StreamService and their proofs; the
cache; the token matcher and its proofs; routing; PluginLifetime as the
composition; rule texts; JSON bodies; the proofs about the cache, routing and the
refinement; the stream chunk and SSE rewriters as a whole; the buffers of the C ABI
and their refinement of the lifetime; the proofs about closes, loads and buffers;
induction over data, and with it routing as one pass, the matcher's captures, the
safety of accepted rules, the agreement of the scanners and that rules can be written again; JsonModel with recursive
functions in place of RECURSIVE operators, that its changes are reported, its responses
restored and its requests rewritten.

Next:

1. The chunks of StreamChunks as the data of StreamLifecycle: a stream's worker with
   the rewriter in place of the number of its emits, so that `CleanCloseIsComplete` speaks
   of the pieces a client reads.
2. The executors' headers and error envelopes in ModelRouting, where a property
   tells them apart.
3. StreamChunks and the SSE modules with recursive functions in place of RECURSIVE operators,
   as JsonModel has them, so that their properties can be proved.

The number of runs is kept small on purpose: a new component takes its run by merging
runs that ask similar questions of one module family, and a shallower property gives
way to a deeper one.
