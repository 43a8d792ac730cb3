------------------------------ MODULE NativePlugin ------------------------------
(***************************************************************************)
(* The buffers that cross the C ABI (abi_cgo.go) in the steps of           *)
(* PluginLifetime.  A call to the host copies its arguments into C memory, *)
(* and gets a buffer that goes back to the host; a call to the plugin gets *)
(* the host's cliproxy_buffer, and may leave a block in it that the host   *)
(* gives to cliproxyPluginFree.  A length is a size_t until it is needed   *)
(* as a C.int.                                                             *)
(***************************************************************************)
EXTENDS PluginLifetime, Integers

CONSTANTS
  Lengths,      \* the lengths of the buffers
  MaxCInt,      \* maxCIntLength, 2^31 - 1
  MaxResponse   \* maxPluginResponseBytes, 2^30

ASSUME LengthsAssumption ==
  /\ MaxResponse \in Nat /\ MaxCInt \in Nat /\ MaxResponse <= MaxCInt
  /\ Lengths \subseteq 0 .. 2 * MaxCInt + 1

VARIABLES
  blocks,     \* the blocks the plugin has malloc'ed: a use and a caller
  answers,    \* the callers whose answer the host has allocated
  response,   \* per caller: cliproxy_buffer response, and rc, of the callback
  result,     \* per caller: what the callback will return
  given,      \* history, per caller: the length of the request the handler works on
  request,    \* per caller: what copyPluginRequest has made of it
  slot,       \* per caller: the host's cliproxy_buffer for its call
  returned    \* per caller: the return code of its call, until the host has seen it

buffers == <<blocks, answers, response, result, given, request, slot, returned>>
inCallback == <<answers, response, result>>
inCall == <<given, request, slot, returned>>

Callers == Calls \union Streams

Empty == [rc |-> 0, ptr |-> "nil", len |-> 0]
Pending == [kind |-> "pending", len |-> 0]
Failed == [kind |-> "error", len |-> 0]
Bytes(n) == [kind |-> "bytes", len |-> n]
Stale == [ptr |-> "stale", len |-> 0]
Nil == [ptr |-> "nil", len |-> 0]

(* The host's cliproxy_buffer is not initialized.                          *)
NativeInit ==
  /\ Init
  /\ blocks = {} /\ answers = {}
  /\ response = [x \in Callers |-> Empty]
  /\ result = [x \in Callers |-> Pending]
  /\ given = [x \in Callers |-> 0]
  /\ request = [x \in Callers |-> Failed]
  /\ slot = [x \in Callers |-> Stale]
  /\ returned = [x \in Callers |-> "no"]

-----------------------------------------------------------------------------
(* The conversion of a size to a C.int of twice MaxCInt and two values.    *)
CInt(size) == IF size > MaxCInt THEN size - 2 * (MaxCInt + 1) ELSE size

(* Mistake: the length is converted without a check.                       *)
cIntLengthUnchecked(size) == Bytes(CInt(size))

cIntLength(size) == IF size > MaxCInt THEN Failed ELSE Bytes(CInt(size))

(* copyPluginRequest of a null or a valid pointer.                         *)
copyPluginRequest(null, size) ==
  IF cIntLength(size) = Failed \/ (null /\ size # 0) THEN Failed
  ELSE IF size = 0 THEN Bytes(0) ELSE cIntLength(size)

-----------------------------------------------------------------------------
(* The callback of cliproxy_plugin_init: before the host is called, ...    *)
CopyArguments(x) ==
  /\ blocks' = blocks \union {<<"arguments", x>>}
  /\ UNCHANGED <<inCallback, inCall>>

(* ... when it answers with any return code, any length and a buffer of    *)
(* its own or none, ...                                                    *)
HostAnswers(x) ==
  /\ held[x] # 0 /\ result[x] = Pending /\ response[x] = Empty
  /\ \E rc \in {0, 1}, n \in Lengths, ptr \in {"nil", "block"} :
       /\ response' = [response EXCEPT ![x] = [rc |-> rc, ptr |-> ptr, len |-> n]]
       /\ answers' = IF ptr = "block" THEN answers \union {x} ELSE answers
  /\ UNCHANGED <<vars, blocks, result, inCall>>

(* ... when it has returned and the answer, if there is one, is copied ... *)
TakeAnswer(x) ==
  /\ held[x] # 0 /\ result[x] = Pending
  /\ result' = [result EXCEPT ![x] =
       IF response[x].rc # 0 THEN Failed
       ELSE IF response[x].ptr = "nil" \/ response[x].len = 0 THEN Bytes(0)
       ELSE cIntLength(response[x].len)]
  /\ UNCHANGED <<vars, blocks, answers, response, inCall>>

(* Mistake: an answer without bytes is taken for a success.                *)
callHostOfNothing(returns) == {Failed, returns}

(* What callHost may make of it: the callback's error, or an error when    *)
(* what it returned is not an envelope (and nothing is none) or is one of  *)
(* an error, or the answer.                                                *)
callHost(returns) ==
  IF returns = Failed \/ returns = Bytes(0) THEN {Failed} ELSE {Failed, returns}

(* Mistake: the free is deferred after the check of the return code.       *)
FreeAnswerUnlessFailed(x) ==
  /\ result[x] # Pending
  /\ answers' = IF response[x].ptr = "block" /\ response[x].rc = 0 THEN answers \ {x} ELSE answers
  /\ blocks' = blocks \ {<<"arguments", x>>}
  /\ response' = [response EXCEPT ![x] = Empty]
  /\ result' = [result EXCEPT ![x] = Pending]
  /\ UNCHANGED inCall

(* ... and when it returns, through the deferred frees.                    *)
FreeAnswer(x) ==
  /\ result[x] # Pending
  /\ answers' = IF response[x].ptr = "block" THEN answers \ {x} ELSE answers
  /\ blocks' = blocks \ {<<"arguments", x>>}
  /\ response' = [response EXCEPT ![x] = Empty]
  /\ result' = [result EXCEPT ![x] = Pending]
  /\ UNCHANGED inCall

-----------------------------------------------------------------------------
(* cliproxyPluginCall up to handleMethod: without a method, or with a      *)
(* request it cannot copy, it returns 1.                                   *)
TakeRequest(x) ==
  \E method, null \in BOOLEAN, n \in Lengths :
    /\ request' = [request EXCEPT ![x] = IF method THEN copyPluginRequest(null, n) ELSE Failed]
    /\ given' = [given EXCEPT ![x] = IF request'[x] = Failed THEN 0 ELSE n]

(* Mistake: the host's buffer is left as it is until there is a response.  *)
EnterCallUnreset(x) ==
  /\ returned[x] = "no"
  /\ TakeRequest(x)
  /\ UNCHANGED <<blocks, inCallback, slot, returned>>

EnterCall(x) ==
  /\ returned[x] = "no"
  /\ slot' = [slot EXCEPT ![x] = Nil]
  /\ TakeRequest(x)
  /\ UNCHANGED <<blocks, inCallback, returned>>

(* The rest of it: a payload, which wrapEnvelope makes at least an         *)
(* envelope, is refused for its length, or malloc fails, or it is handed   *)
(* over.                                                                   *)
LeaveCall(x) ==
  /\ \/ /\ request[x] # Failed
        /\ \E n \in Lengths \ {0} :
             /\ n <= MaxResponse
             /\ blocks' = blocks \union {<<"response", x>>}
             /\ slot' = [slot EXCEPT ![x] = [ptr |-> "block", len |-> n]]
        /\ returned' = [returned EXCEPT ![x] = "0"]
     \/ /\ returned' = [returned EXCEPT ![x] = "1"]
        /\ UNCHANGED <<blocks, slot>>
  /\ given' = [given EXCEPT ![x] = 0] /\ request' = [request EXCEPT ![x] = Failed]
  /\ UNCHANGED inCallback

(* The host frees what it finds in its buffer, whatever the return code,   *)
(* and uses the buffer again.                                              *)
HostTakesResponse(x) ==
  /\ returned[x] # "no"
  /\ blocks' = IF slot[x].ptr = "nil" THEN blocks ELSE blocks \ {<<"response", x>>}
  /\ slot' = [slot EXCEPT ![x] = Stale]
  /\ returned' = [returned EXCEPT ![x] = "no"]
  /\ UNCHANGED <<vars, inCallback, given, request>>

(* An executor.execute_stream call whose request is refused begins nothing.*)
RefuseStream(s) ==
  /\ Callable /\ s \notin pending \union open
  /\ returned[s] = "no"
  /\ slot' = [slot EXCEPT ![s] = Nil]
  /\ returned' = [returned EXCEPT ![s] = "1"]
  /\ UNCHANGED <<vars, blocks, inCallback, given, request>>

-----------------------------------------------------------------------------
NativeThread ==
  /\ \/ BeginInit \/ InitResetStreams \/ InitResetCache \/ InitSetCallback
     \/ BeginShutdown \/ DrainEnds \/ ShutdownResetCache \/ ShutdownClearCallback \/ ShutdownReturns
  /\ UNCHANGED buffers

NativeCall(c) ==
  \/ BeginCall(c) /\ EnterCall(c)
  \/ MatchCaller(c) /\ request[c] # Failed /\ UNCHANGED buffers
  \/ CallHost(c) /\ request[c] # Failed /\ CopyArguments(c)
  \/ HostReturns(c) /\ FreeAnswer(c)
  \/ EndCall(c) /\ LeaveCall(c)

(* The call of a stream returns when its preparation ends.                 *)
NativeStream(s) ==
  \/ BeginStream(s) /\ EnterCall(s) /\ request'[s] # Failed
  \/ StreamCallsHost(s) /\ IF held'[s] = 0 THEN UNCHANGED buffers ELSE CopyArguments(s)
  \/ StreamHostReturns(s) /\ FreeAnswer(s)
  \/ StreamStep(s) /\ IF s \in pending \ pending' THEN LeaveCall(s) ELSE UNCHANGED buffers

NativeNext ==
  \/ NativeThread
  \/ \E c \in Calls : NativeCall(c)
  \/ \E s \in Streams : NativeStream(s) \/ RefuseStream(s)
  \/ \E x \in Callers : HostAnswers(x) \/ TakeAnswer(x) \/ HostTakesResponse(x)

NativeSpec == NativeInit /\ [][NativeNext]_<<vars, buffers>>

-----------------------------------------------------------------------------
(* Every buffer the host answered with goes back to it, and the copies of  *)
(* the arguments are freed, when the callback of cliproxy_plugin_init      *)
(* returns: with whatever error, never before the answer was copied, and,  *)
(* of a stream, while the API of the host that allocated it is valid.      *)
AnswersGoBack ==
  \A x \in Callers :
    /\ x \in answers <=> held[x] # 0 /\ response[x].ptr = "block"
    /\ x \in answers /\ x \in Streams => held[x] = api
    /\ <<"arguments", x>> \in blocks <=> held[x] # 0

(* A block of the plugin lives as long as the host holds it in the buffer  *)
(* of a call that returned 0; a call that returned 1 left that buffer nil, *)
(* so that the host frees nothing of an earlier call again.                *)
ResponsesHaveOneOwner ==
  \A x \in Callers :
    /\ <<"response", x>> \in blocks <=> slot[x].ptr = "block"
    /\ slot[x].ptr = "block" <=> returned[x] = "0"
    /\ returned[x] = "1" => slot[x].ptr = "nil"

(* What crosses the ABI arrives whole or as an error.  An error of the     *)
(* host, a length that is not a C.int and a length without a buffer, of    *)
(* which the callback makes an empty success, never become an answer that  *)
(* the executor goes on with.                                              *)
WholeOrRefused ==
  \A x \in Callers :
    /\ \A answer \in callHost(result[x]) : answer.kind = "bytes" =>
         response[x].rc = 0 /\ response[x].ptr = "block" /\ answer.len = response[x].len
    /\ request[x].kind = "bytes" => request[x].len = given[x]
=============================================================================
