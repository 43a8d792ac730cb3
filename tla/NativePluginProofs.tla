--------------------------- MODULE NativePluginProofs ---------------------------
(***************************************************************************)
(* Streams call a live host only, for any number of streams, calls and     *)
(* loads, with or without the host's guard.  Streams exist only between    *)
(* the end of an init and the end of the drain, and all that time the      *)
(* callback is the one of the host whose API is valid.  And every load     *)
(* finds the plugin as the first one did.                                  *)
(*                                                                         *)
(* The buffers of the C ABI for any number of callers and loads and any    *)
(* lengths.  Every step of NativePlugin is one of PluginLifetime or leaves *)
(* it alone, so what is proved of that module holds here; and each step    *)
(* concerns the buffers of one caller, either those of its callback or     *)
(* those of its call.                                                      *)
(***************************************************************************)
EXTENDS NativePlugin, TLAPS

Up == lpc \in {"ready", "drain"}

(* The callback belongs to the valid API while streams may exist.          *)
CallbackOfThisLoad ==
  /\ lpc = "absent" <=> api = 0
  /\ Up => callback = api
  /\ inits \in Nat /\ api \in {0, inits} /\ callback \in Nat

(* Streams exist only while the plugin is up, and begin only before the    *)
(* shutdown.                                                               *)
StreamsOnlyWhileUp ==
  /\ pending \union open # {} => Up
  /\ lpc = "drain" => phase = "draining"
  /\ lpc \in {"resetCacheAgain", "clearCallback", "return"} => phase = "stopped"

(* Only streams that exist are in a call, and it is one to the valid API.  *)
StreamCalls ==
  /\ refused = {}
  /\ held \in [Calls \union Streams -> Nat]
  /\ \A s \in Streams : held[s] # 0 => s \in pending \union open /\ held[s] = api

IInv == CallbackOfThisLoad /\ StreamsOnlyWhileUp /\ StreamCalls

(* Steps of the host's thread.                                             *)
Thread ==
  \/ BeginInit \/ InitResetStreams \/ InitResetCache \/ InitSetCallback
  \/ BeginShutdown \/ DrainEnds \/ ShutdownResetCache \/ ShutdownClearCallback \/ ShutdownReturns

(* Steps of a call.                                                        *)
CallStep(c) == BeginCall(c) \/ MatchCaller(c) \/ CallHost(c) \/ HostReturns(c) \/ EndCall(c)

(* Steps of a stream.                                                      *)
StreamWork(s) == BeginStream(s) \/ StreamCallsHost(s) \/ StreamHostReturns(s) \/ StreamStep(s)

-----------------------------------------------------------------------------
(* The plugin as it is first loaded.                                       *)
LEMMA InitIInv == ASSUME Init PROVE IInv
<1>1. StreamsOnlyWhileUp /\ CallbackOfThisLoad
  BY DEF Init, StreamsOnlyWhileUp, CallbackOfThisLoad, Up, Executor!Init
<1>2. StreamCalls
  BY DEF Init, StreamCalls
<1> QED BY <1>1, <1>2 DEF IInv

(* The host's thread keeps the invariant.                                  *)
LEMMA ThreadKeepsIInv == ASSUME IInv, Thread PROVE IInv'
<1>0. CallbackOfThisLoad /\ StreamsOnlyWhileUp /\ StreamCalls
  BY DEF IInv
<1>1. UNCHANGED <<held, refused, pending, open>>
  BY DEF Thread, BeginInit, InitResetStreams, InitResetCache, InitSetCallback, BeginShutdown,
         DrainEnds, ShutdownResetCache, ShutdownClearCallback, ShutdownReturns, streams,
         Executor!Drain, Executor!Stopped, Executor!Restart
<1>2. CallbackOfThisLoad'
  BY <1>0 DEF CallbackOfThisLoad, Up, Thread, BeginInit, InitResetStreams, InitResetCache,
         InitSetCallback, BeginShutdown, DrainEnds, ShutdownResetCache, ShutdownClearCallback,
         ShutdownReturns
<1>3. StreamsOnlyWhileUp'
  BY <1>0 DEF StreamsOnlyWhileUp, Up, Thread, BeginInit, InitResetStreams, InitResetCache,
         InitSetCallback, BeginShutdown, DrainEnds, ShutdownResetCache, ShutdownClearCallback,
         ShutdownReturns, streams, Executor!Drain, Executor!Stopped, Executor!Restart
<1>4. StreamCalls'
  <2>1. pending \union open # {} => api' = api
    BY <1>0 DEF StreamsOnlyWhileUp, Up, Thread, BeginInit, InitResetStreams, InitResetCache,
         InitSetCallback, BeginShutdown, DrainEnds, ShutdownResetCache, ShutdownClearCallback,
         ShutdownReturns
  <2> QED BY <1>0, <1>1, <2>1 DEF StreamCalls
<1> QED BY <1>2, <1>3, <1>4 DEF IInv

(* Calls concern no stream.                                                *)
LEMMA CallKeepsIInv == ASSUME IInv, NEW c \in Calls, CallStep(c) PROVE IInv'
<1>0. CallbackOfThisLoad /\ StreamsOnlyWhileUp /\ StreamCalls
  BY DEF IInv
<1>1. UNCHANGED <<thread, callback, refused, streams>>
  BY DEF CallStep, BeginCall, MatchCaller, CallHost, HostReturns, EndCall
<1>2. CallbackOfThisLoad' /\ StreamsOnlyWhileUp'
  BY <1>0, <1>1 DEF CallbackOfThisLoad, StreamsOnlyWhileUp, Up, thread, streams
<1>3. held' \in [Calls \union Streams -> Nat] /\ \A s \in Streams : held'[s] = held[s]
  <2>1. c \notin Streams /\ callback \in Nat /\ held \in [Calls \union Streams -> Nat]
    BY <1>0, CallsAssumption DEF CallbackOfThisLoad, StreamCalls
  <2> QED BY <2>1 DEF CallStep, BeginCall, MatchCaller, CallHost, HostReturns, EndCall
<1>4. StreamCalls'
  BY <1>0, <1>1, <1>3 DEF StreamCalls, thread, streams
<1> QED BY <1>2, <1>4 DEF IInv

(* A stream begins while the plugin is up, calls the callback of the valid *)
(* API, and leaves when it is in no call.                                  *)
LEMMA StreamKeepsIInv == ASSUME IInv, NEW s \in Streams, StreamWork(s) PROVE IInv'
<1>0. CallbackOfThisLoad /\ StreamsOnlyWhileUp /\ StreamCalls
  BY DEF IInv
<1>1. UNCHANGED <<thread, callback, phase>>
  BY DEF StreamWork, BeginStream, StreamCallsHost, StreamHostReturns, StreamStep, streams,
         Executor!Accept, Executor!Admit, Executor!Abandon, Executor!Decide, Executor!Leave
<1>2. CallbackOfThisLoad'
  BY <1>0, <1>1 DEF CallbackOfThisLoad, Up, thread
<1>3. CASE BeginStream(s)
  <2>1. phase = "serving" /\ pending' = pending \union {s} /\ UNCHANGED <<open, held, refused>>
    BY <1>3 DEF BeginStream, Executor!Accept
  <2>2. Up
    BY <1>0, <1>3, <2>1 DEF BeginStream, Callable, Up, StreamsOnlyWhileUp
  <2>3. StreamsOnlyWhileUp'
    BY <1>0, <1>1, <2>2 DEF StreamsOnlyWhileUp, Up, thread
  <2>4. StreamCalls'
    BY <1>0, <1>1, <2>1 DEF StreamCalls, thread
  <2> QED BY <1>2, <2>3, <2>4 DEF IInv
<1>4. CASE StreamCallsHost(s)
  <2>1. Up /\ callback = api /\ api # 0 /\ api \in Nat
    BY <1>0, <1>4 DEF StreamCallsHost, StreamsOnlyWhileUp, CallbackOfThisLoad, Up
  <2>2. held' = [held EXCEPT ![s] = api] /\ refused' = refused /\ s \in pending \union open
        /\ UNCHANGED <<pending, open>>
    BY <1>4, <2>1 DEF StreamCallsHost, streams
  <2>3. StreamsOnlyWhileUp'
    BY <1>0, <1>1, <2>2 DEF StreamsOnlyWhileUp, Up, thread
  <2>4. StreamCalls'
    BY <1>0, <1>1, <2>1, <2>2 DEF StreamCalls, thread
  <2> QED BY <1>2, <2>3, <2>4 DEF IInv
<1>5. CASE StreamHostReturns(s)
  <2>1. held' = [held EXCEPT ![s] = 0] /\ UNCHANGED <<refused, pending, open>>
    BY <1>5 DEF StreamHostReturns, streams
  <2>2. StreamsOnlyWhileUp'
    BY <1>0, <1>1, <2>1 DEF StreamsOnlyWhileUp, Up, thread
  <2>3. StreamCalls'
    BY <1>0, <1>1, <2>1 DEF StreamCalls, thread
  <2> QED BY <1>2, <2>2, <2>3 DEF IInv
<1>6. CASE StreamStep(s)
  <2>1. /\ held[s] = 0 /\ UNCHANGED <<held, refused>>
        /\ pending' \union open' \subseteq pending \union open
        /\ (pending \union open) \ {s} \subseteq pending' \union open'
    BY <1>6 DEF StreamStep, Executor!Admit, Executor!Abandon, Executor!Decide, Executor!Leave
  <2>2. StreamsOnlyWhileUp'
    BY <1>0, <1>1, <2>1 DEF StreamsOnlyWhileUp, Up, thread
  <2>3. StreamCalls'
    BY <1>0, <1>1, <2>1 DEF StreamCalls, thread
  <2> QED BY <1>2, <2>2, <2>3 DEF IInv
<1> QED BY <1>3, <1>4, <1>5, <1>6 DEF StreamWork

(* The inductive invariant of the plugin's lifetime.                       *)
THEOREM LifetimeInvariant == Spec => []IInv
<1>1. Init => IInv
  BY InitIInv
<1>2. IInv /\ [Next]_vars => IInv'
  <2> SUFFICES ASSUME IInv, [Next]_vars PROVE IInv'
    OBVIOUS
  <2>1. CASE UNCHANGED vars
    BY <2>1 DEF vars, thread, streams, IInv, CallbackOfThisLoad, StreamsOnlyWhileUp, StreamCalls, Up
  <2>2. CASE Next
    BY <2>2, ThreadKeepsIInv, CallKeepsIInv, StreamKeepsIInv DEF Next, Thread, CallStep, StreamWork
  <2> QED BY <2>1, <2>2
<1> QED BY <1>1, <1>2, PTL DEF Spec

(* Every call of a stream reaches the host that loaded the plugin, while   *)
(* its API is valid: cliproxyPluginShutdown (abi_cgo.go) waits for the     *)
(* streams before it clears the callback.                                  *)
THEOREM StreamsAlwaysCallALiveHost == Spec => []StreamsCallALiveHost
<1>1. IInv => StreamsCallALiveHost
  BY DEF IInv, StreamCalls, StreamsCallALiveHost
<1> QED BY <1>1, LifetimeInvariant, PTL

-----------------------------------------------------------------------------
Returned == lpc \in {"absent", "return"}
Loading == lpc \in {"resetStreams", "resetCache", "setCallback"}

(* What the host's thread has made of the streams and the callback.        *)
ThreadDone ==
  /\ lpc \in {"absent", "resetStreams"} => phase \in {"serving", "stopped"}
  /\ lpc \in {"resetCache", "setCallback", "ready"} => phase = "serving"
  /\ Returned \/ Loading => callback = 0

(* A call that is in the host is running.                                  *)
CallsRun ==
  /\ running \in [Calls -> Nat]
  /\ \A c \in Calls : held[c] # 0 => running[c] # 0

(* With the guard calls run, and leave entries, only in the load that is   *)
(* ready.                                                                  *)
CallsOfThisLoad ==
  guarded =>
    /\ \A c \in Calls : running[c] # 0 => lpc = "ready" /\ running[c] = api
    /\ cache \subseteq {api}
    /\ Returned \/ Loading \/ lpc = "clearCallback" => cache = {}

FreshInv == ThreadDone /\ CallsRun /\ CallsOfThisLoad

(* The host's thread: a load empties what a shutdown has left, and a       *)
(* guarded shutdown finds no call.                                         *)
LEMMA ThreadKeepsFreshInv == ASSUME IInv, FreshInv, Thread PROVE FreshInv'
<1>0. CallbackOfThisLoad /\ StreamsOnlyWhileUp /\ ThreadDone /\ CallsRun /\ CallsOfThisLoad
  BY DEF IInv, FreshInv
<1>1. UNCHANGED <<held, running, guarded>>
  BY DEF Thread, BeginInit, InitResetStreams, InitResetCache, InitSetCallback, BeginShutdown,
         DrainEnds, ShutdownResetCache, ShutdownClearCallback, ShutdownReturns
<1>2. ThreadDone'
  BY <1>0 DEF ThreadDone, StreamsOnlyWhileUp, Up, Returned, Loading, Thread, BeginInit,
         InitResetStreams, InitResetCache, InitSetCallback, BeginShutdown, DrainEnds,
         ShutdownResetCache, ShutdownClearCallback, ShutdownReturns, streams, Executor!Restart
<1>3. CallsRun'
  BY <1>0, <1>1 DEF CallsRun
<1>4. CallsOfThisLoad'
  <2>1. lpc' = "ready" => \A c \in Calls : guarded => running[c] = 0
    BY <1>0 DEF CallsOfThisLoad, Thread, BeginInit, InitResetStreams, InitResetCache, InitSetCallback,
         BeginShutdown, DrainEnds, ShutdownResetCache, ShutdownClearCallback, ShutdownReturns
  <2>2. guarded => \A c \in Calls : running[c] = 0
    BY <1>0, <2>1 DEF CallsOfThisLoad, Thread, BeginInit, InitResetStreams, InitResetCache,
         InitSetCallback, BeginShutdown, DrainEnds, ShutdownResetCache, ShutdownClearCallback,
         ShutdownReturns, NoCallInProgress
  <2>3. guarded => cache' \subseteq {api'} /\ ((Returned \/ Loading \/ lpc = "clearCallback")' => cache' = {})
    BY <1>0 DEF CallsOfThisLoad, Returned, Loading, Thread, BeginInit, InitResetStreams, InitResetCache,
         InitSetCallback, BeginShutdown, DrainEnds, ShutdownResetCache, ShutdownClearCallback,
         ShutdownReturns
  <2> QED BY <1>1, <2>2, <2>3 DEF CallsOfThisLoad
<1> QED BY <1>2, <1>3, <1>4 DEF FreshInv

(* A call begins while the plugin is ready, if the host has the guard, and *)
(* leaves entries of its own load.                                         *)
LEMMA CallKeepsFreshInv == ASSUME IInv, FreshInv, NEW c \in Calls, CallStep(c) PROVE FreshInv'
<1>0. CallbackOfThisLoad /\ StreamCalls /\ ThreadDone /\ CallsRun /\ CallsOfThisLoad
  BY DEF IInv, FreshInv
<1>1. UNCHANGED <<thread, callback, streams, guarded>>
  BY DEF CallStep, BeginCall, MatchCaller, CallHost, HostReturns, EndCall
<1>2. ThreadDone'
  BY <1>0, <1>1 DEF ThreadDone, Returned, Loading, thread, streams
<1>3. held \in [Calls \union Streams -> Nat] /\ running \in [Calls -> Nat] /\ inits \in Nat
  BY <1>0 DEF StreamCalls, CallsRun, CallbackOfThisLoad
<1>4. CallsRun'
  BY <1>0, <1>3 DEF CallsRun, CallbackOfThisLoad, CallStep, BeginCall, MatchCaller, CallHost,
         HostReturns, EndCall
<1>5. CallsOfThisLoad'
  <2> SUFFICES ASSUME guarded
               PROVE  /\ \A d \in Calls : running'[d] # 0 => lpc = "ready" /\ running'[d] = api
                      /\ cache' \subseteq {api}
                      /\ Returned \/ Loading \/ lpc = "clearCallback" => cache' = {}
    BY <1>1 DEF CallsOfThisLoad, Returned, Loading, thread
  <2>1. CASE BeginCall(c)
    <3>1. lpc = "ready" /\ inits = api /\ cache' = cache
      BY <1>0, <2>1 DEF BeginCall, Callable, CallbackOfThisLoad
    <3>2. running' = [running EXCEPT ![c] = api]
      BY <2>1, <3>1 DEF BeginCall
    <3> QED BY <1>0, <1>3, <3>1, <3>2 DEF CallsOfThisLoad
  <2>2. CASE MatchCaller(c)
    <3>1. lpc = "ready" /\ running[c] = api /\ running' = running /\ cache' = cache \union {api}
      BY <1>0, <2>2 DEF MatchCaller, CallsOfThisLoad
    <3> QED BY <1>0, <3>1 DEF CallsOfThisLoad, Returned, Loading
  <2>3. CASE CallHost(c) \/ HostReturns(c)
    BY <1>0, <2>3 DEF CallHost, HostReturns, CallsOfThisLoad
  <2>4. CASE EndCall(c)
    BY <1>0, <1>3, <2>4 DEF EndCall, CallsOfThisLoad
  <2> QED BY <2>1, <2>2, <2>3, <2>4 DEF CallStep
<1> QED BY <1>2, <1>4, <1>5 DEF FreshInv

(* A stream begins only while the plugin serves, and may leave an entry of *)
(* this load then.                                                         *)
LEMMA StreamKeepsFreshInv == ASSUME IInv, FreshInv, NEW s \in Streams, StreamWork(s) PROVE FreshInv'
<1>0. CallbackOfThisLoad /\ StreamCalls /\ ThreadDone /\ CallsRun /\ CallsOfThisLoad
  BY DEF IInv, FreshInv
<1>1. UNCHANGED <<thread, callback, phase, running, guarded>>
  BY DEF StreamWork, BeginStream, StreamCallsHost, StreamHostReturns, StreamStep, streams,
         Executor!Accept, Executor!Admit, Executor!Abandon, Executor!Decide, Executor!Leave
<1>2. ThreadDone'
  BY <1>0, <1>1 DEF ThreadDone, Returned, Loading, thread
<1>3. \A c \in Calls : held'[c] = held[c]
  <2>1. s \notin Calls /\ held \in [Calls \union Streams -> Nat]
    BY <1>0, CallsAssumption DEF StreamCalls
  <2> QED BY <2>1 DEF StreamWork, BeginStream, StreamCallsHost, StreamHostReturns, StreamStep
<1>4. CallsRun'
  BY <1>0, <1>1, <1>3 DEF CallsRun
<1>5. CallsOfThisLoad'
  <2>1. CASE BeginStream(s)
    <3>1. guarded => lpc = "ready" /\ inits = api
      BY <1>0, <2>1 DEF BeginStream, Callable, CallbackOfThisLoad
    <3>2. guarded => cache' \subseteq cache \union {api}
      BY <2>1, <3>1 DEF BeginStream
    <3> QED BY <1>0, <1>1, <3>1, <3>2 DEF CallsOfThisLoad, Returned, Loading, thread
  <2>2. CASE StreamCallsHost(s) \/ StreamHostReturns(s) \/ StreamStep(s)
    <3>1. cache' = cache
      BY <2>2 DEF StreamCallsHost, StreamHostReturns, StreamStep
    <3> QED BY <1>0, <1>1, <3>1 DEF CallsOfThisLoad, Returned, Loading, thread
  <2> QED BY <2>1, <2>2 DEF StreamWork
<1> QED BY <1>2, <1>4, <1>5 DEF FreshInv

(* What a load finds and what a shutdown leaves, step by step.             *)
THEOREM FreshInvariant == Spec => []FreshInv
<1>1. Init => FreshInv
  BY DEF Init, FreshInv, ThreadDone, CallsRun, CallsOfThisLoad, Returned, Loading, Executor!Init
<1>2. IInv /\ FreshInv /\ [Next]_vars => FreshInv'
  <2> SUFFICES ASSUME IInv, FreshInv, [Next]_vars PROVE FreshInv'
    OBVIOUS
  <2>1. CASE UNCHANGED vars
    BY <2>1 DEF vars, thread, streams, FreshInv, ThreadDone, CallsRun, CallsOfThisLoad, Returned, Loading
  <2>2. CASE Next
    BY <2>2, ThreadKeepsFreshInv, CallKeepsFreshInv, StreamKeepsFreshInv
       DEF Next, Thread, CallStep, StreamWork
  <2> QED BY <2>1, <2>2
<1> QED BY <1>1, <1>2, LifetimeInvariant, PTL DEF Spec

(* Whatever an earlier load has left, a plugin that was loaded serves      *)
(* streams with the callback of this load, and with the guard it decides   *)
(* nothing by a decision of an earlier one (cliproxy_plugin_init,          *)
(* abi_cgo.go).                                                            *)
THEOREM LoadIsFresh == Spec => []ReadyIsFresh
<1>1. IInv /\ FreshInv => ReadyIsFresh
  BY DEF IInv, CallbackOfThisLoad, Up, FreshInv, ThreadDone, CallsOfThisLoad, ReadyIsFresh
<1> QED BY <1>1, LifetimeInvariant, FreshInvariant, PTL

(* When cliproxyPluginShutdown has returned, the plugin holds no stream    *)
(* and no callback, and with the guard no call and no entry.               *)
THEOREM ShutdownLeavesNothing == Spec => []NothingLeftBehind
<1>1. IInv /\ FreshInv => NothingLeftBehind
  <2> SUFFICES ASSUME IInv, FreshInv, lpc = "absent"
               PROVE  /\ callback = 0 /\ pending = {} /\ open = {}
                      /\ \A s \in Streams : held[s] = 0
                      /\ guarded => cache = {} /\ \A c \in Calls : held[c] = 0
    BY DEF NothingLeftBehind
  <2>1. callback = 0
    BY DEF FreshInv, ThreadDone, Returned
  <2>2. pending = {} /\ open = {}
    BY DEF IInv, StreamsOnlyWhileUp, Up
  <2>3. \A s \in Streams : held[s] = 0
    BY <2>2 DEF IInv, StreamCalls
  <2>4. guarded => cache = {} /\ \A c \in Calls : held[c] = 0
    BY DEF FreshInv, CallsRun, CallsOfThisLoad, Returned
  <2> QED BY <2>1, <2>2, <2>3, <2>4
<1> QED BY <1>1, LifetimeInvariant, FreshInvariant, PTL

-----------------------------------------------------------------------------

(* The call of a stream lasts as long as its preparation.                  *)
InCall(x) == IF x \in Calls THEN running[x] # 0 ELSE x \in pending

Result == {Pending, Failed} \union {Bytes(n) : n \in Int}

CallbackType ==
  /\ response \in [Callers -> [rc : {0, 1}, ptr : {"nil", "block"}, len : Int]]
  /\ result \in [Callers -> Result]

(* Outside a callback there is no buffer of one.                           *)
CallbackOf(x) ==
  /\ x \in answers <=> held[x] # 0 /\ response[x].ptr = "block"
  /\ <<"arguments", x>> \in blocks <=> held[x] # 0
  /\ held[x] = 0 => response[x] = Empty /\ result[x] = Pending
  /\ result[x].kind = "bytes" =>
       response[x].rc = 0 /\ result[x].len = IF response[x].ptr = "nil" THEN 0 ELSE response[x].len

CallbackInv == CallbackType /\ \A x \in Callers : CallbackOf(x)

CallType ==
  /\ given \in [Callers -> Int]
  /\ request \in [Callers -> Result]
  /\ slot \in [Callers -> [ptr : {"stale", "nil", "block"}, len : Int]]
  /\ returned \in [Callers -> {"no", "0", "1"}]

(* The host's buffer of a call is nil until the call returns.              *)
CallOf(x) ==
  /\ <<"response", x>> \in blocks <=> slot[x].ptr = "block"
  /\ slot[x].ptr = "block" <=> returned[x] = "0"
  /\ returned[x] = "1" => slot[x].ptr = "nil"
  /\ InCall(x) => returned[x] = "no" /\ slot[x] = Nil
  /\ request[x].kind = "bytes" => request[x].len = given[x]

CallInv == CallType /\ \A x \in Callers : CallOf(x)

-----------------------------------------------------------------------------
(* Every behaviour with buffers is one of the plugin's lifetime.           *)
THEOREM NativeImplementsLifetime == NativeSpec => Spec
<1>1. NativeInit => Init
  BY DEF NativeInit
<1>2. [NativeNext]_<<vars, buffers>> => [Next]_vars
  <2> SUFFICES ASSUME [NativeNext]_<<vars, buffers>> PROVE Next \/ UNCHANGED vars
    OBVIOUS
  <2>1. CASE NativeThread
    BY <2>1 DEF NativeThread, Next
  <2>2. CASE \E c \in Calls : NativeCall(c)
    BY <2>2 DEF NativeCall, Next
  <2>3. CASE \E s \in Streams : NativeStream(s) \/ RefuseStream(s)
    BY <2>3 DEF NativeStream, RefuseStream, Next
  <2>4. CASE \E x \in Callers : HostAnswers(x) \/ TakeAnswer(x) \/ HostTakesResponse(x)
    BY <2>4 DEF HostAnswers, TakeAnswer, HostTakesResponse
  <2> QED BY <2>1, <2>2, <2>3, <2>4 DEF NativeNext
<1> QED BY <1>1, <1>2, PTL DEF NativeSpec, Spec

-----------------------------------------------------------------------------
(* A length that is a C.int is itself.                                     *)
LEMMA CIntLengthIsWhole ==
  ASSUME NEW size \in Int
  PROVE  cIntLength(size) \in {Failed, Bytes(size)}
BY DEF cIntLength, CInt

(* What is copied of a request is all of it.                               *)
LEMMA CopyIsWhole ==
  ASSUME NEW null, NEW size \in Int
  PROVE  copyPluginRequest(null, size) \in {Failed, Bytes(size)}
BY CIntLengthIsWhole DEF copyPluginRequest

(* A step outside the callbacks keeps their buffers.                       *)
LEMMA CallbacksUntouched ==
  ASSUME CallbackInv, UNCHANGED <<held, inCallback>>,
         \A x \in Callers : <<"arguments", x>> \in blocks' <=> <<"arguments", x>> \in blocks
  PROVE  CallbackInv'
BY DEF CallbackInv, CallbackType, CallbackOf, inCallback

(* The host is called: the arguments are copied.                           *)
LEMMA CopyArgumentsKeeps ==
  ASSUME CallbackInv, NEW x \in Callers, CopyArguments(x), held \in [Callers -> Nat],
         NEW k \in Nat \ {0}, held[x] = 0, held' = [held EXCEPT ![x] = k]
  PROVE  CallbackInv'
<1>1. CallbackType'
  BY DEF CallbackInv, CallbackType, CopyArguments, inCallback
<1>2. ASSUME NEW y \in Callers PROVE CallbackOf(y)'
  BY <1>2 DEF CallbackInv, CallbackOf, CopyArguments, inCallback, Empty
<1> QED BY <1>1, <1>2 DEF CallbackInv

(* The host answers.                                                       *)
LEMMA HostAnswersKeeps ==
  ASSUME CallbackInv, NEW x \in Callers, HostAnswers(x)
  PROVE  CallbackInv'
<1>1. PICK rc \in {0, 1}, n \in Lengths, ptr \in {"nil", "block"} :
        /\ response' = [response EXCEPT ![x] = [rc |-> rc, ptr |-> ptr, len |-> n]]
        /\ answers' = IF ptr = "block" THEN answers \union {x} ELSE answers
  BY DEF HostAnswers
<1>2. held[x] # 0 /\ result[x] = Pending /\ response[x] = Empty /\ UNCHANGED <<held, blocks, result>>
  BY DEF HostAnswers, vars
<1>3. n \in Int
  BY LengthsAssumption
<1>4. CallbackType'
  BY <1>1, <1>2, <1>3 DEF CallbackInv, CallbackType
<1>5. ASSUME NEW y \in Callers PROVE CallbackOf(y)'
  BY <1>1, <1>2, <1>5 DEF CallbackInv, CallbackType, CallbackOf, Empty, Pending
<1> QED BY <1>4, <1>5 DEF CallbackInv

(* The answer is taken.                                                    *)
LEMMA TakeAnswerKeeps ==
  ASSUME CallbackInv, NEW x \in Callers, TakeAnswer(x)
  PROVE  CallbackInv'
<1> DEFINE r == IF response[x].rc # 0 THEN Failed
                ELSE IF response[x].ptr = "nil" \/ response[x].len = 0 THEN Bytes(0)
                ELSE cIntLength(response[x].len)
<1>1. held[x] # 0 /\ result' = [result EXCEPT ![x] = r] /\ UNCHANGED <<held, blocks, answers, response>>
  BY DEF TakeAnswer, vars
<1>2. response[x].len \in Int
  BY DEF CallbackInv, CallbackType
<1> DEFINE n == IF response[x].ptr = "nil" THEN 0 ELSE response[x].len
<1>3. n \in Int /\ (r = Failed \/ (response[x].rc = 0 /\ r = Bytes(n)))
  BY <1>2, CIntLengthIsWhole
<1> HIDE DEF n
<1>4. r \in Result /\ (r.kind = "bytes" => response[x].rc = 0 /\ r.len = n)
  BY <1>3 DEF Result, Failed, Bytes
<1> HIDE DEF r
<1>5. CallbackType'
  BY <1>1, <1>4 DEF CallbackInv, CallbackType
<1>6. ASSUME NEW y \in Callers PROVE CallbackOf(y)'
  BY <1>1, <1>4, <1>6 DEF CallbackInv, CallbackType, CallbackOf, n
<1> QED BY <1>5, <1>6 DEF CallbackInv

(* The callback returns, and frees what it has copied and been given.      *)
LEMMA FreeAnswerKeeps ==
  ASSUME CallbackInv, NEW x \in Callers, FreeAnswer(x), held \in [Callers -> Nat],
         held' = [held EXCEPT ![x] = 0]
  PROVE  CallbackInv'
<1>1. CallbackType'
  BY DEF CallbackInv, CallbackType, FreeAnswer, Empty, Pending, Result
<1>2. ASSUME NEW y \in Callers PROVE CallbackOf(y)'
  BY <1>2 DEF CallbackInv, CallbackType, CallbackOf, FreeAnswer, Empty, Pending
<1> QED BY <1>1, <1>2 DEF CallbackInv

-----------------------------------------------------------------------------
(* A step outside the calls keeps theirs.                                  *)
LEMMA CallsUntouched ==
  ASSUME CallInv, UNCHANGED inCall,
         \A x \in Callers : <<"response", x>> \in blocks' <=> <<"response", x>> \in blocks,
         \A x \in Callers : InCall(x)' => InCall(x)
  PROVE  CallInv'
BY DEF CallInv, CallType, CallOf, inCall

(* A call begins: whatever its request is, the host's buffer is nil.       *)
LEMMA EnterCallKeeps ==
  ASSUME CallInv, NEW x \in Callers, EnterCall(x),
         \A y \in Callers \ {x} : InCall(y)' => InCall(y)
  PROVE  CallInv'
<1>1. PICK method \in BOOLEAN, null \in BOOLEAN, n \in Lengths :
        /\ request' = [request EXCEPT ![x] = IF method THEN copyPluginRequest(null, n) ELSE Failed]
        /\ given' = [given EXCEPT ![x] = IF request'[x] = Failed THEN 0 ELSE n]
  BY DEF EnterCall, TakeRequest
<1>2. n \in Int
  BY LengthsAssumption
<1>3. PICK r \in {Failed, Bytes(n)} : request' = [request EXCEPT ![x] = r]
  BY <1>1, <1>2, CopyIsWhole
<1>4. request'[x] = r
  BY <1>3 DEF CallInv, CallType
<1>5. given' = [given EXCEPT ![x] = IF r = Failed THEN 0 ELSE n]
  BY <1>1, <1>4
<1>6. r \in Result /\ (r.kind = "bytes" => r # Failed /\ r.len = n)
  BY <1>2 DEF Result, Failed, Bytes
<1>7. /\ returned[x] = "no" /\ slot' = [slot EXCEPT ![x] = Nil]
      /\ UNCHANGED <<blocks, returned>>
  BY DEF EnterCall
<1>8. CallType'
  BY <1>2, <1>3, <1>5, <1>6, <1>7 DEF CallInv, CallType, Nil
<1>9. ASSUME NEW y \in Callers PROVE CallOf(y)'
  <2>1. CASE y = x
    BY <1>3, <1>5, <1>6, <1>7, <2>1 DEF CallInv, CallType, CallOf, Nil
  <2>2. CASE y # x
    BY <1>3, <1>5, <1>7, <2>2 DEF CallInv, CallType, CallOf
  <2> QED BY <2>1, <2>2
<1> QED BY <1>8, <1>9 DEF CallInv

(* A call returns: with a block and 0, or with nothing and 1.              *)
LEMMA LeaveCallKeeps ==
  ASSUME CallInv, NEW x \in Callers, LeaveCall(x), InCall(x), ~InCall(x)',
         \A y \in Callers \ {x} : InCall(y)' => InCall(y)
  PROVE  CallInv'
<1>1. /\ given' = [given EXCEPT ![x] = 0]
      /\ request' = [request EXCEPT ![x] = Failed]
  BY DEF LeaveCall
<1>2. returned[x] = "no" /\ slot[x] = Nil
  BY DEF CallInv, CallOf
<1>3. CASE /\ returned' = [returned EXCEPT ![x] = "1"]
           /\ UNCHANGED <<blocks, slot>>
  <2>1. CallType'
    BY <1>1, <1>3 DEF CallInv, CallType, Result
  <2>2. ASSUME NEW y \in Callers PROVE CallOf(y)'
    BY <1>1, <1>2, <1>3, <2>2 DEF CallInv, CallType, CallOf, Nil, Failed
  <2> QED BY <2>1, <2>2 DEF CallInv
<1>4. CASE \E n \in Lengths \ {0} :
             /\ blocks' = blocks \union {<<"response", x>>}
             /\ slot' = [slot EXCEPT ![x] = [ptr |-> "block", len |-> n]]
             /\ returned' = [returned EXCEPT ![x] = "0"]
  <2>1. PICK n \in Lengths \ {0} :
          /\ blocks' = blocks \union {<<"response", x>>}
          /\ slot' = [slot EXCEPT ![x] = [ptr |-> "block", len |-> n]]
          /\ returned' = [returned EXCEPT ![x] = "0"]
    BY <1>4
  <2>2. n \in Int
    BY LengthsAssumption
  <2>3. CallType'
    BY <1>1, <2>1, <2>2 DEF CallInv, CallType, Result
  <2>4. ASSUME NEW y \in Callers PROVE CallOf(y)'
    BY <1>1, <2>1, <2>4 DEF CallInv, CallType, CallOf, Failed
  <2> QED BY <2>3, <2>4 DEF CallInv
<1> QED BY <1>3, <1>4 DEF LeaveCall

(* The host takes what a call has returned, and its buffer is stale.       *)
LEMMA HostTakesResponseKeeps ==
  ASSUME CallInv, NEW x \in Callers, HostTakesResponse(x)
  PROVE  CallInv'
<1>1. /\ returned[x] # "no" /\ UNCHANGED <<given, request>>
      /\ blocks' = IF slot[x].ptr = "nil" THEN blocks ELSE blocks \ {<<"response", x>>}
      /\ slot' = [slot EXCEPT ![x] = Stale]
      /\ returned' = [returned EXCEPT ![x] = "no"]
  BY DEF HostTakesResponse
<1>2. ~InCall(x) /\ \A y \in Callers : InCall(y)' <=> InCall(y)
  BY <1>1 DEF HostTakesResponse, CallInv, CallOf, InCall, vars, streams
<1>3. CallType'
  BY <1>1 DEF CallInv, CallType, Stale
<1>4. ASSUME NEW y \in Callers PROVE CallOf(y)'
  BY <1>1, <1>2, <1>4 DEF CallInv, CallType, CallOf, Stale
<1> QED BY <1>3, <1>4 DEF CallInv

(* A call of a stream is refused at once.                                  *)
LEMMA RefuseStreamKeeps ==
  ASSUME CallInv, NEW s \in Streams, RefuseStream(s)
  PROVE  CallInv'
<1>1. /\ s \notin pending /\ returned[s] = "no" /\ UNCHANGED <<blocks, given, request>>
      /\ slot' = [slot EXCEPT ![s] = Nil]
      /\ returned' = [returned EXCEPT ![s] = "1"]
  BY DEF RefuseStream
<1>2. ~InCall(s) /\ \A y \in Callers : InCall(y)' <=> InCall(y)
  BY <1>1, CallsAssumption DEF RefuseStream, InCall, vars, streams
<1>3. CallType'
  BY <1>1 DEF CallInv, CallType, Nil, Callers
<1>4. ASSUME NEW y \in Callers PROVE CallOf(y)'
  BY <1>1, <1>2, <1>4 DEF CallInv, CallType, CallOf, Nil, Callers
<1> QED BY <1>3, <1>4 DEF CallInv

-----------------------------------------------------------------------------
NativeInv == CallbackInv /\ CallInv

(* Nothing is called yet.                                                  *)
LEMMA InitNativeInv == ASSUME NativeInit PROVE NativeInv
<1>1. \A x \in Callers : held[x] = 0
  BY DEF NativeInit, Init, Callers
<1>2. CallbackInv
  BY <1>1 DEF NativeInit, CallbackInv, CallbackType, CallbackOf, Empty, Pending, Result
<1>3. \A x \in Callers : ~InCall(x)
  BY DEF NativeInit, Init, InCall, Executor!Init
<1>4. CallInv
  BY <1>3 DEF NativeInit, CallInv, CallType, CallOf, Failed, Stale, Result
<1> QED BY <1>2, <1>4 DEF NativeInv

(* The host's thread has no buffers.                                       *)
LEMMA ThreadKeepsNativeInv == ASSUME NativeInv, NativeThread PROVE NativeInv'
<1>1. UNCHANGED <<held, running, pending, buffers>>
  BY DEF NativeThread, BeginInit, InitResetStreams, InitResetCache, InitSetCallback, BeginShutdown,
         DrainEnds, ShutdownResetCache, ShutdownClearCallback, ShutdownReturns, streams,
         Executor!Drain, Executor!Stopped, Executor!Restart
<1>2. CallbackInv'
  BY <1>1, CallbacksUntouched DEF NativeInv, buffers, inCallback
<1>3. CallInv'
  BY <1>1, CallsUntouched DEF NativeInv, buffers, inCall, InCall
<1> QED BY <1>2, <1>3 DEF NativeInv

(* A call: its request, its callbacks, and its response.                   *)
LEMMA CallKeepsNativeInv == ASSUME NativeInv, IInv, FreshInv, NEW c \in Calls, NativeCall(c) PROVE NativeInv'
<1>0. /\ CallbackInv /\ CallInv
      /\ c \in Callers /\ held \in [Callers -> Nat] /\ running \in [Calls -> Nat] /\ callback \in Nat
  BY DEF NativeInv, IInv, FreshInv, StreamCalls, CallsRun, CallbackOfThisLoad, Callers
<1>1. CASE BeginCall(c) /\ EnterCall(c)
  <2>1. held' = held /\ pending' = pending /\ \A d \in Calls \ {c} : running'[d] = running[d]
    BY <1>0, <1>1 DEF BeginCall, streams
  <2>2. CallbackInv'
    BY <1>0, <1>1, <2>1, CallbacksUntouched DEF EnterCall
  <2>3. CallInv'
    BY <1>0, <1>1, <2>1, EnterCallKeeps DEF InCall
  <2> QED BY <2>2, <2>3 DEF NativeInv
<1>2. CASE MatchCaller(c) /\ UNCHANGED buffers
  <2>1. UNCHANGED <<held, running, pending, buffers>>
    BY <1>2 DEF MatchCaller, streams
  <2>2. CallbackInv' /\ CallInv'
    BY <1>0, <2>1, CallbacksUntouched, CallsUntouched DEF buffers, inCallback, inCall, InCall
  <2> QED BY <2>2 DEF NativeInv
<1>3. CASE CallHost(c) /\ CopyArguments(c)
  <2>1. /\ held[c] = 0 /\ callback # 0 /\ held' = [held EXCEPT ![c] = callback]
        /\ UNCHANGED <<running, pending>>
    BY <1>3 DEF CallHost, streams
  <2>2. CallbackInv'
    BY <1>0, <1>3, <2>1, CopyArgumentsKeeps
  <2>3. CallInv'
    BY <1>0, <1>3, <2>1, CallsUntouched DEF CopyArguments, InCall
  <2> QED BY <2>2, <2>3 DEF NativeInv
<1>4. CASE HostReturns(c) /\ FreeAnswer(c)
  <2>1. held' = [held EXCEPT ![c] = 0] /\ UNCHANGED <<running, pending>>
    BY <1>4 DEF HostReturns, streams
  <2>2. CallbackInv'
    BY <1>0, <1>4, <2>1, FreeAnswerKeeps
  <2>3. CallInv'
    BY <1>0, <1>4, <2>1, CallsUntouched DEF FreeAnswer, InCall
  <2> QED BY <2>2, <2>3 DEF NativeInv
<1>5. CASE EndCall(c) /\ LeaveCall(c)
  <2>1. /\ running[c] # 0 /\ running' = [running EXCEPT ![c] = 0]
        /\ UNCHANGED <<held, pending>>
    BY <1>5 DEF EndCall, streams
  <2>2. CallbackInv'
    BY <1>0, <1>5, <2>1, CallbacksUntouched DEF LeaveCall
  <2>3. CallInv'
    BY <1>0, <1>5, <2>1, LeaveCallKeeps DEF InCall
  <2> QED BY <2>2, <2>3 DEF NativeInv
<1> QED BY <1>1, <1>2, <1>3, <1>4, <1>5 DEF NativeCall

(* A stream: the call that prepares it, and its callbacks.                 *)
LEMMA StreamKeepsNativeInv == ASSUME NativeInv, IInv, NEW s \in Streams, NativeStream(s) PROVE NativeInv'
<1>0. /\ CallbackInv /\ CallInv
      /\ s \in Callers /\ s \notin Calls /\ held \in [Callers -> Nat] /\ callback \in Nat
  BY CallsAssumption DEF NativeInv, IInv, StreamCalls, CallbackOfThisLoad, Callers
<1>1. CASE BeginStream(s) /\ EnterCall(s)
  <2>1. held' = held /\ running' = running /\ pending' = pending \union {s}
    BY <1>1 DEF BeginStream, Executor!Accept
  <2>2. CallbackInv'
    BY <1>0, <1>1, <2>1, CallbacksUntouched DEF EnterCall
  <2>3. CallInv'
    BY <1>0, <1>1, <2>1, EnterCallKeeps DEF InCall
  <2> QED BY <2>2, <2>3 DEF NativeInv
<1>2. CASE StreamCallsHost(s) /\ IF held'[s] = 0 THEN UNCHANGED buffers ELSE CopyArguments(s)
  <2>1. held[s] = 0 /\ UNCHANGED <<running, pending>>
    BY <1>2 DEF StreamCallsHost, streams
  <2>2. CASE held' = held /\ UNCHANGED buffers
    BY <1>0, <2>1, <2>2, CallbacksUntouched, CallsUntouched
       DEF NativeInv, buffers, inCallback, inCall, InCall
  <2>3. CASE callback # 0 /\ held' = [held EXCEPT ![s] = callback] /\ CopyArguments(s)
    <3>1. CallbackInv'
      BY <1>0, <2>1, <2>3, CopyArgumentsKeeps
    <3>2. CallInv'
      BY <1>0, <2>1, <2>3, CallsUntouched DEF CopyArguments, InCall
    <3> QED BY <3>1, <3>2 DEF NativeInv
  <2> QED BY <1>0, <1>2, <2>1, <2>2, <2>3 DEF StreamCallsHost
<1>3. CASE StreamHostReturns(s) /\ FreeAnswer(s)
  <2>1. held' = [held EXCEPT ![s] = 0] /\ UNCHANGED <<running, pending>>
    BY <1>3 DEF StreamHostReturns, streams
  <2>2. CallbackInv'
    BY <1>0, <1>3, <2>1, FreeAnswerKeeps
  <2>3. CallInv'
    BY <1>0, <1>3, <2>1, CallsUntouched DEF FreeAnswer, InCall
  <2> QED BY <2>2, <2>3 DEF NativeInv
<1>4. CASE StreamStep(s) /\ IF s \in pending \ pending' THEN LeaveCall(s) ELSE UNCHANGED buffers
  <2>1. UNCHANGED <<held, running>> /\ pending' \subseteq pending /\ pending \ {s} \subseteq pending'
    BY <1>4 DEF StreamStep, Executor!Admit, Executor!Abandon, Executor!Decide, Executor!Leave
  <2>2. CASE s \in pending \ pending' /\ LeaveCall(s)
    <3>1. CallbackInv'
      BY <1>0, <2>1, <2>2, CallbacksUntouched DEF LeaveCall
    <3>2. CallInv'
      BY <1>0, <2>1, <2>2, LeaveCallKeeps DEF InCall
    <3> QED BY <3>1, <3>2 DEF NativeInv
  <2>3. CASE UNCHANGED buffers
    BY <1>0, <2>1, <2>3, CallbacksUntouched, CallsUntouched
       DEF NativeInv, buffers, inCallback, inCall, InCall
  <2> QED BY <1>4, <2>2, <2>3
<1> QED BY <1>1, <1>2, <1>3, <1>4 DEF NativeStream

(* The steps that are the buffers' own.                                    *)
LEMMA BuffersKeepNativeInv ==
  ASSUME NativeInv, NEW x \in Callers, HostAnswers(x) \/ TakeAnswer(x) \/ HostTakesResponse(x)
  PROVE  NativeInv'
<1>0. CallbackInv /\ CallInv /\ UNCHANGED <<held, running, pending>>
  BY DEF NativeInv, HostAnswers, TakeAnswer, HostTakesResponse, vars, streams
<1>1. CASE HostAnswers(x)
  BY <1>0, <1>1, HostAnswersKeeps, CallsUntouched DEF NativeInv, HostAnswers, InCall
<1>2. CASE TakeAnswer(x)
  BY <1>0, <1>2, TakeAnswerKeeps, CallsUntouched DEF NativeInv, TakeAnswer, InCall
<1>3. CASE HostTakesResponse(x)
  BY <1>0, <1>3, HostTakesResponseKeeps, CallbacksUntouched DEF NativeInv, HostTakesResponse
<1> QED BY <1>1, <1>2, <1>3

(* The inductive invariant of the buffers.                                 *)
THEOREM NativeInvariant == NativeSpec => [](IInv /\ NativeInv)
<1>1. NativeInit => NativeInv
  BY InitNativeInv
<1>2. NativeInv /\ IInv /\ FreshInv /\ [NativeNext]_<<vars, buffers>> => NativeInv'
  <2> SUFFICES ASSUME NativeInv, IInv, FreshInv, [NativeNext]_<<vars, buffers>> PROVE NativeInv'
    OBVIOUS
  <2>1. CASE UNCHANGED <<vars, buffers>>
    BY <2>1, CallbacksUntouched, CallsUntouched
       DEF NativeInv, vars, streams, buffers, inCallback, inCall, InCall
  <2>2. CASE NativeThread
    BY <2>2, ThreadKeepsNativeInv
  <2>3. CASE \E c \in Calls : NativeCall(c)
    BY <2>3, CallKeepsNativeInv
  <2>4. ASSUME NEW s \in Streams, NativeStream(s) PROVE NativeInv'
    BY <2>4, StreamKeepsNativeInv
  <2>5. ASSUME NEW s \in Streams, RefuseStream(s) PROVE NativeInv'
    BY <2>5, RefuseStreamKeeps, CallbacksUntouched DEF NativeInv, RefuseStream, vars
  <2>6. CASE \E x \in Callers : HostAnswers(x) \/ TakeAnswer(x) \/ HostTakesResponse(x)
    BY <2>6, BuffersKeepNativeInv
  <2> QED BY <2>1, <2>2, <2>3, <2>4, <2>5, <2>6 DEF NativeNext
<1>3. NativeSpec => [](IInv /\ FreshInv)
  BY NativeImplementsLifetime, LifetimeInvariant, FreshInvariant, PTL
<1> QED BY <1>1, <1>2, <1>3, PTL DEF NativeSpec

(* The plugin leaks nothing of a callback and frees none of it twice, and  *)
(* a stream gives its answers back to a live host (the deferred frees of   *)
(* cliproxy_plugin_init, abi_cgo.go).                                      *)
THEOREM AnswersAlwaysGoBack == NativeSpec => []AnswersGoBack
<1>1. IInv /\ NativeInv => AnswersGoBack
  BY DEF IInv, StreamCalls, NativeInv, CallbackInv, CallbackOf, AnswersGoBack
<1> QED BY <1>1, NativeInvariant, PTL

(* What cliproxyPluginCall allocates is the host's exactly when the call   *)
(* returned 0; otherwise the host finds nil.                               *)
THEOREM ResponsesAlwaysOwned == NativeSpec => []ResponsesHaveOneOwner
<1>1. NativeInv => ResponsesHaveOneOwner
  BY DEF NativeInv, CallInv, CallOf, ResponsesHaveOneOwner
<1> QED BY <1>1, NativeInvariant, PTL

(* No length is cut where a size_t becomes a C.int, and no answer is made  *)
(* of nothing.  When the host names a length but no buffer, the callback   *)
(* returns no bytes and no error, and callHost finds no envelope.          *)
THEOREM LengthsSurvive == NativeSpec => []WholeOrRefused
<1>1. NativeInv => WholeOrRefused
  <2> SUFFICES ASSUME NativeInv, NEW x \in Callers
               PROVE  /\ \A answer \in callHost(result[x]) : answer.kind = "bytes" =>
                           response[x].rc = 0 /\ response[x].ptr = "block" /\ answer.len = response[x].len
                      /\ request[x].kind = "bytes" => request[x].len = given[x]
    BY DEF WholeOrRefused
  <2>1. request[x].kind = "bytes" => request[x].len = given[x]
    BY DEF NativeInv, CallInv, CallOf
  <2>2. ASSUME NEW answer \in callHost(result[x]), answer.kind = "bytes"
        PROVE  response[x].rc = 0 /\ response[x].ptr = "block" /\ answer.len = response[x].len
    <3>1. answer = result[x] /\ result[x] # Bytes(0)
      BY <2>2 DEF callHost, Failed
    <3>2. result[x].len # 0
      BY <2>2, <3>1 DEF NativeInv, CallbackInv, CallbackType, Result, Pending, Failed, Bytes
    <3>3. response[x].rc = 0 /\ result[x].len = IF response[x].ptr = "nil" THEN 0 ELSE response[x].len
      BY <2>2, <3>1 DEF NativeInv, CallbackInv, CallbackOf
    <3>4. response[x].ptr \in {"nil", "block"}
      BY DEF NativeInv, CallbackInv, CallbackType
    <3> QED BY <3>1, <3>2, <3>3, <3>4
  <2> QED BY <2>1, <2>2
<1> QED BY <1>1, NativeInvariant, PTL

(* The promises of the plugin's lifetime, with its buffers.                *)
THEOREM NativeLifetime ==
  NativeSpec => [](StreamsCallALiveHost /\ ReadyIsFresh /\ NothingLeftBehind)
BY NativeImplementsLifetime, StreamsAlwaysCallALiveHost, LoadIsFresh, ShutdownLeavesNothing, PTL
=============================================================================
