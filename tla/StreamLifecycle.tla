--------------------------- MODULE StreamLifecycle ---------------------------
(***************************************************************************)
(* The asynchronous streams of the executor (executor_stream.go) and the   *)
(* shutdown that has to end them.  A stream is prepared on the goroutine   *)
(* of the RPC and then forwarded by a worker goroutine that reads the host *)
(* model stream, rewrites each chunk and emits it to the plugin stream.    *)
(* Shutdown calls race with every step of it.  A critical section of       *)
(* executorStreamLifecycle.mu is one step; a call to the host is two, its  *)
(* start and its return, because the process is blocked in between.        *)
(*                                                                         *)
(* An error is the set of the causes it joins: errors.Join is union,       *)
(* errors.Is is inclusion, nil is {}, and an error text is empty exactly   *)
(* when the set is.                                                        *)
(***************************************************************************)
EXTENDS Naturals, Sequences, FiniteSets

CONSTANTS
  Streams,    \* executor.execute_stream calls; each makes at most one stream
  Shutdowns,  \* threads of the host that call cliproxyPluginShutdown
  Faults,     \* what may go wrong in this instance
  MaxOut      \* most emits one rewritten chunk leads to

FaultKinds ==
  {"setup", "read", "chunk", "rewrite", "emit", "flush", "closeHost", "closePlugin"}
Causes == (FaultKinds \ {"setup"}) \union {"shutdown"}

ASSUME StreamsFinite == IsFiniteSet(Streams) /\ IsFiniteSet(Shutdowns)
ASSUME FaultsKnown == Faults \subseteq FaultKinds
ASSUME MaxOutNat == MaxOut \in Nat

VARIABLES
  (* executorStreamLifecycle *)
  stopping, preparing, shutdowns, active, wg,
  (* per stream: executorStream, shared with shutdown *)
  terminalSelected, terminalErr, outputFinished,
  hostOnce, hostErr, pluginOnce,
  (* per stream: the goroutine that prepares, then the worker *)
  pc, err, eof, quiet, flushing, emitFailed, out,
  (* per stream: what the host saw *)
  opened, closes, reports,
  (* per shutdown call *)
  spc, toInterrupt, toClose, cur

lifecycle == <<stopping, preparing, shutdowns, active, wg>>
terminal  == <<terminalSelected, terminalErr, outputFinished>>
closing   == <<hostOnce, hostErr, pluginOnce>>
worker    == <<err, eof, quiet, flushing, emitFailed, out>>
host      == <<opened, closes, reports>>
shutdown  == <<spc, toInterrupt, toClose, cur>>
vars == <<lifecycle, terminal, closing, pc, worker, host, shutdown>>

PreparePcs == {"prepare", "opening", "dropHost", "droppingHost", "admit", "endPreparation"}
EmitPcs    == {"emit", "emitting"}
WritePcs   == {"loop", "reading", "chunkError", "write", "select", "flush", "complete"}
            \union EmitPcs
LeavePcs   == {"closeHost", "closingHost", "closePlugin", "closingPlugin",
               "return", "outerClosing", "reclosing", "unregister"}
ActivePcs  == WritePcs \union LeavePcs
TrackedPcs == PreparePcs \union {"preparationEnded", "unregistered"} \union ActivePcs
Pcs        == TrackedPcs \union {"idle", "done"}
SweepPcs   == {"sweep", "interrupting", "closing", "waited"}

Report == [causes : SUBSET Causes, ok : BOOLEAN]
OnceState == {"new", "running", "done"}

LifecycleTypeOK ==
  /\ stopping \in BOOLEAN
  /\ preparing \in Nat /\ shutdowns \in Nat /\ wg \in Nat
  /\ active \subseteq Streams

TerminalTypeOK ==
  /\ terminalSelected \in [Streams -> BOOLEAN]
  /\ terminalErr \in [Streams -> SUBSET Causes]
  /\ outputFinished \in [Streams -> BOOLEAN]

ClosingTypeOK ==
  /\ hostOnce \in [Streams -> OnceState]
  /\ hostErr \in [Streams -> BOOLEAN]
  /\ pluginOnce \in [Streams -> OnceState]

WorkerTypeOK ==
  /\ err \in [Streams -> SUBSET Causes]
  /\ eof \in [Streams -> BOOLEAN]
  /\ quiet \in [Streams -> BOOLEAN]
  /\ flushing \in [Streams -> BOOLEAN]
  /\ emitFailed \in [Streams -> BOOLEAN]
  /\ out \in [Streams -> 0 .. MaxOut]

HostTypeOK ==
  /\ opened \in [Streams -> BOOLEAN]
  /\ closes \in [Streams -> Nat]
  /\ reports \in [Streams -> Seq(Report)]

ShutdownTypeOK ==
  /\ spc \in [Shutdowns -> SweepPcs \union {"idle"}]
  /\ toInterrupt \in [Shutdowns -> SUBSET Streams]
  /\ toClose \in [Shutdowns -> SUBSET Streams]
  /\ cur \in [Shutdowns -> SUBSET Streams]

TypeOK ==
  /\ LifecycleTypeOK
  /\ TerminalTypeOK
  /\ ClosingTypeOK
  /\ pc \in [Streams -> Pcs]
  /\ WorkerTypeOK
  /\ HostTypeOK
  /\ ShutdownTypeOK

Init ==
  /\ stopping = FALSE
  /\ preparing = 0 /\ shutdowns = 0 /\ wg = 0
  /\ active = {}
  /\ terminalSelected = [s \in Streams |-> FALSE]
  /\ terminalErr = [s \in Streams |-> {}]
  /\ outputFinished = [s \in Streams |-> FALSE]
  /\ hostOnce = [s \in Streams |-> "new"]
  /\ hostErr = [s \in Streams |-> FALSE]
  /\ pluginOnce = [s \in Streams |-> "new"]
  /\ pc = [s \in Streams |-> "idle"]
  /\ err = [s \in Streams |-> {}]
  /\ eof = [s \in Streams |-> FALSE]
  /\ quiet = [s \in Streams |-> FALSE]
  /\ flushing = [s \in Streams |-> FALSE]
  /\ emitFailed = [s \in Streams |-> FALSE]
  /\ out = [s \in Streams |-> 0]
  /\ opened = [s \in Streams |-> FALSE]
  /\ closes = [s \in Streams |-> 0]
  /\ reports = [s \in Streams |-> <<>>]
  /\ spc = [d \in Shutdowns |-> "idle"]
  /\ toInterrupt = [d \in Shutdowns |-> {}]
  /\ toClose = [d \in Shutdowns |-> {}]
  /\ cur = [d \in Shutdowns |-> {}]

Goto(s, label) == pc' = [pc EXCEPT ![s] = label]
At(s, label) == pc[s] = label

(* A failure of kind f of a call about s: only the kinds in Faults occur.  *)
MayFail(f) == f \in Faults
Failing(f) == IF MayFail(f) THEN BOOLEAN ELSE {FALSE}

(* closePluginErr: the close made under closePluginOnce failed.            *)
ClosePluginErr(s) == reports[s] # <<>> /\ ~reports[s][1].ok

(* The host no longer takes output: a close of the plugin stream worked.   *)
PluginClosed(s) == \E i \in DOMAIN reports[s] : reports[s][i].ok

(* The host stream was closed, and the host said so.                       *)
HostClosed(s) == hostOnce[s] = "done" /\ ~hostErr[s]

-----------------------------------------------------------------------------
(* Preparation, on the goroutine of the RPC.                               *)

BeginRefused(s) ==
  /\ At(s, "idle") /\ stopping
  /\ Goto(s, "done")
  /\ UNCHANGED <<lifecycle, terminal, closing, worker, host, shutdown>>

(* Mistake: the preparation does not look at stopping.                     *)
BeginUnguarded(s) ==
  /\ At(s, "idle")
  /\ preparing' = preparing + 1
  /\ wg' = wg + 1
  /\ Goto(s, "prepare")
  /\ UNCHANGED <<stopping, shutdowns, active, terminal, closing, worker, host, shutdown>>

(* Mistake: wg.Add is left to the admission, so nobody waits for this.     *)
BeginUntracked(s) ==
  /\ At(s, "idle") /\ ~stopping
  /\ preparing' = preparing + 1
  /\ Goto(s, "prepare")
  /\ UNCHANGED <<stopping, shutdowns, active, wg, terminal, closing, worker, host, shutdown>>

Begin(s) ==
  /\ At(s, "idle") /\ ~stopping
  /\ preparing' = preparing + 1
  /\ wg' = wg + 1
  /\ Goto(s, "prepare")
  /\ UNCHANGED <<stopping, shutdowns, active, terminal, closing, worker, host, shutdown>>

(* Routing or rewriting the request fails before the host is called.       *)
PrepareFails(s) ==
  /\ At(s, "prepare") /\ MayFail("setup")
  /\ Goto(s, "endPreparation")
  /\ UNCHANGED <<lifecycle, terminal, closing, worker, host, shutdown>>

CallExecuteStream(s) ==
  /\ At(s, "prepare")
  /\ Goto(s, "opening")
  /\ UNCHANGED <<lifecycle, terminal, closing, worker, host, shutdown>>

(* host.model.execute_stream returns: a stream that can be forwarded, a    *)
(* failure that left a host stream open (bad response with an id, status   *)
(* >= 400, headers that do not encode), or a failure that left none.       *)
ExecuteStreamReturns(s) ==
  /\ At(s, "opening")
  /\ \/ /\ opened' = [opened EXCEPT ![s] = TRUE]
        /\ \/ Goto(s, "admit")
           \/ MayFail("setup") /\ Goto(s, "dropHost")
     \/ /\ MayFail("setup")
        /\ Goto(s, "endPreparation")
        /\ UNCHANGED opened
  /\ UNCHANGED <<lifecycle, terminal, closing, worker, closes, reports, shutdown>>

(* Mistake: a stream is admitted without a second look at stopping.        *)
AdmitUnguarded(s) ==
  /\ At(s, "admit")
  /\ preparing' = preparing - 1
  /\ active' = active \union {s}
  /\ Goto(s, "loop")
  /\ UNCHANGED <<stopping, shutdowns, wg, terminal, closing, worker, host, shutdown>>

(* Mistake: the admission ends the preparation's share of wg as well.      *)
AdmitDone(s) ==
  /\ At(s, "admit") /\ ~stopping
  /\ preparing' = preparing - 1
  /\ wg' = wg - 1
  /\ active' = active \union {s}
  /\ Goto(s, "loop")
  /\ UNCHANGED <<stopping, shutdowns, terminal, closing, worker, host, shutdown>>

(* Mistake: an admitted stream is still counted as preparing.              *)
AdmitStillPreparing(s) ==
  /\ At(s, "admit") /\ ~stopping
  /\ active' = active \union {s}
  /\ Goto(s, "loop")
  /\ UNCHANGED <<stopping, preparing, shutdowns, wg, terminal, closing, worker, host, shutdown>>

Admit(s) ==
  /\ At(s, "admit") /\ ~stopping
  /\ preparing' = preparing - 1
  /\ active' = active \union {s}
  /\ Goto(s, "loop")
  /\ UNCHANGED <<stopping, shutdowns, wg, terminal, closing, worker, host, shutdown>>

AdmitRefused(s) ==
  /\ At(s, "admit") /\ stopping
  /\ Goto(s, "dropHost")
  /\ UNCHANGED <<lifecycle, terminal, closing, worker, host, shutdown>>

DropHost(s) ==
  /\ At(s, "dropHost")
  /\ hostOnce' = [hostOnce EXCEPT ![s] = "running"]
  /\ Goto(s, "droppingHost")
  /\ UNCHANGED <<lifecycle, terminal, hostErr, pluginOnce, worker, host, shutdown>>

(* The call of host.model.stream_close made by closeHost returns.          *)
HostCloseReturns(s) ==
  /\ hostOnce' = [hostOnce EXCEPT ![s] = "done"]
  /\ closes' = [closes EXCEPT ![s] = @ + 1]
  /\ \E failed \in Failing("closeHost") : hostErr' = [hostErr EXCEPT ![s] = failed]

DropHostReturns(s) ==
  /\ At(s, "droppingHost")
  /\ HostCloseReturns(s)
  /\ Goto(s, "endPreparation")
  /\ UNCHANGED <<lifecycle, terminal, pluginOnce, worker, opened, reports, shutdown>>

(* finishExecutorStreamPreparation: the counter under the lock ...         *)
EndPreparation(s) ==
  /\ At(s, "endPreparation")
  /\ preparing' = preparing - 1
  /\ Goto(s, "preparationEnded")
  /\ UNCHANGED <<stopping, shutdowns, active, wg, terminal, closing, worker, host, shutdown>>

(* ... and wg.Done after it.                                               *)
PreparationDone(s) ==
  /\ At(s, "preparationEnded")
  /\ wg' = wg - 1
  /\ Goto(s, "done")
  /\ UNCHANGED <<stopping, preparing, shutdowns, active, terminal, closing, worker, host, shutdown>>

-----------------------------------------------------------------------------
(* The worker: runStreamForward.                                           *)

(* selectTerminal(primary, completed), a critical section.                 *)
SelectTerminal(s, primary, completed) ==
  LET selects == ~terminalSelected[s] /\ (primary # {} \/ completed)
  IN /\ outputFinished' = [outputFinished EXCEPT ![s] = @ \/ completed]
     /\ terminalSelected' = [terminalSelected EXCEPT ![s] = @ \/ selects]
     /\ terminalErr' = [terminalErr EXCEPT ![s] = IF selects THEN primary ELSE @]

(* Mistake: the result leaves out an outcome selected by someone else.     *)
SelectedErrPrimary(s, primary) == err' = [err EXCEPT ![s] = primary]

(* Its result: the primary error joined with the terminal error.           *)
SelectedErr(s, primary) == err' = [err EXCEPT ![s] = primary \union terminalErr'[s]]

CheckTerminal(s) ==
  /\ At(s, "loop")
  /\ IF terminalErr[s] # {}
     THEN /\ err' = [err EXCEPT ![s] = terminalErr[s]]
          /\ Goto(s, "select")
     ELSE Goto(s, "reading") /\ UNCHANGED err
  /\ UNCHANGED <<lifecycle, terminal, closing, eof, quiet, flushing, emitFailed, out, host, shutdown>>

(* The read fails or its result does not decode.                           *)
ReadFails(s) ==
  /\ At(s, "reading")
  /\ MayFail("read") \/ closes[s] > 0
  /\ err' = [err EXCEPT ![s] = {"read"}]
  /\ quiet' = [quiet EXCEPT ![s] = TRUE]
  /\ Goto(s, "select")
  /\ UNCHANGED <<lifecycle, terminal, closing, eof, flushing, emitFailed, out, host, shutdown>>

(* A chunk arrives, the last one or not, with an upstream error or not.    *)
ReadChunk(s) ==
  /\ At(s, "reading")
  /\ \E done \in BOOLEAN : eof' = [eof EXCEPT ![s] = done]
  /\ \/ /\ MayFail("chunk")
        /\ err' = [err EXCEPT ![s] = {"chunk"}]
        /\ Goto(s, "chunkError")
     \/ /\ Goto(s, "write")
        /\ UNCHANGED err
  /\ UNCHANGED <<lifecycle, terminal, closing, quiet, flushing, emitFailed, out, host, shutdown>>

(* An upstream error is selected before its payload is processed.          *)
ChunkError(s) ==
  /\ At(s, "chunkError")
  /\ SelectTerminal(s, err[s], FALSE)
  /\ SelectedErr(s, err[s])
  /\ Goto(s, "write")
  /\ UNCHANGED <<lifecycle, closing, eof, quiet, flushing, emitFailed, out, host, shutdown>>

(* processPayload up to its emits: the rewriter turns the payload into     *)
(* some output and, perhaps, an error that is selected at once.            *)
WritePayload(s) ==
  /\ At(s, "write")
  /\ \E n \in 0 .. MaxOut : out' = [out EXCEPT ![s] = n]
  /\ \/ UNCHANGED <<terminal, err>>
     \/ /\ MayFail("rewrite")
        /\ SelectTerminal(s, {"rewrite"}, FALSE)
        /\ err' = [err EXCEPT ![s] = @ \union {"rewrite"}]
  /\ Goto(s, "emit")
  /\ UNCHANGED <<lifecycle, closing, eof, quiet, flushing, emitFailed, host, shutdown>>

Emit(s) ==
  /\ At(s, "emit") /\ out[s] > 0
  /\ Goto(s, "emitting")
  /\ UNCHANGED <<lifecycle, terminal, closing, worker, host, shutdown>>

EmitReturns(s) ==
  /\ At(s, "emitting")
  /\ out' = [out EXCEPT ![s] = @ - 1]
  /\ Goto(s, "emit")
  /\ UNCHANGED <<lifecycle, terminal, closing, err, eof, quiet, flushing, emitFailed, host, shutdown>>

(* A failed emit gives up the rest of the output, this chunk's and later.  *)
EmitFails(s) ==
  /\ At(s, "emitting")
  /\ MayFail("emit") \/ PluginClosed(s)
  /\ out' = [out EXCEPT ![s] = 0]
  /\ emitFailed' = [emitFailed EXCEPT ![s] = TRUE]
  /\ err' = [err EXCEPT ![s] = @ \union {"emit"}]
  /\ Goto(s, "emit")
  /\ UNCHANGED <<lifecycle, terminal, closing, eof, quiet, flushing, host, shutdown>>

(* All emitted: read on, begin to finish, or complete after the flush.     *)
EmitEnds(s) ==
  /\ At(s, "emit") /\ out[s] = 0
  /\ Goto(s, IF flushing[s] THEN "complete"
             ELSE IF err[s] # {} \/ eof[s] THEN "select"
             ELSE "loop")
  /\ UNCHANGED <<lifecycle, terminal, closing, worker, host, shutdown>>

(* finish: select what is known, without completing.                       *)
SelectPrimary(s) ==
  /\ At(s, "select")
  /\ SelectTerminal(s, err[s], FALSE)
  /\ SelectedErr(s, err[s])
  /\ Goto(s, "flush")
  /\ UNCHANGED <<lifecycle, closing, eof, quiet, flushing, emitFailed, out, host, shutdown>>

(* flushAndEmit up to its emits: Finish or Flush of the rewriter.          *)
FlushRewriter(s) ==
  /\ At(s, "flush")
  /\ \E n \in 0 .. MaxOut : /\ emitFailed[s] => n = 0
                           /\ out' = [out EXCEPT ![s] = n]
  /\ flushing' = [flushing EXCEPT ![s] = TRUE]
  /\ \/ UNCHANGED <<terminal, err>>
     \/ /\ MayFail("flush")
        /\ SelectTerminal(s, {"flush"}, FALSE)
        /\ err' = [err EXCEPT ![s] = @ \union {"flush"}]
  /\ Goto(s, "emit")
  /\ UNCHANGED <<lifecycle, closing, eof, quiet, emitFailed, host, shutdown>>

(* The output is finished: the outcome is selected now if it was not.      *)
Complete(s) ==
  /\ At(s, "complete")
  /\ SelectTerminal(s, err[s], TRUE)
  /\ SelectedErr(s, err[s])
  /\ Goto(s, "closeHost")
  /\ UNCHANGED <<lifecycle, closing, eof, quiet, flushing, emitFailed, out, host, shutdown>>

-----------------------------------------------------------------------------
(* The worker: closing both streams and leaving.                           *)

CloseHost(s) ==
  /\ At(s, "closeHost") /\ hostOnce[s] = "new"
  /\ hostOnce' = [hostOnce EXCEPT ![s] = "running"]
  /\ Goto(s, "closingHost")
  /\ UNCHANGED <<lifecycle, terminal, hostErr, pluginOnce, worker, host, shutdown>>

(* Mistake: the error of the host close is dropped.                        *)
AfterHostCloseIgnored(s) ==
  /\ Goto(s, IF quiet[s] THEN "return" ELSE "closePlugin")
  /\ UNCHANGED <<lifecycle, terminal, pluginOnce, err, eof, quiet, flushing, emitFailed, out,
                 opened, reports, shutdown>>

(* A close error joins the result; a read error returns without a close.   *)
AfterHostClose(s) ==
  /\ err' = [err EXCEPT ![s] = IF hostErr'[s] THEN @ \union {"closeHost"} ELSE @]
  /\ Goto(s, IF quiet[s] THEN "return" ELSE "closePlugin")
  /\ UNCHANGED <<lifecycle, terminal, pluginOnce, eof, quiet, flushing, emitFailed, out,
                 opened, reports, shutdown>>

CloseHostReturns(s) ==
  /\ At(s, "closingHost")
  /\ HostCloseReturns(s)
  /\ AfterHostClose(s)

(* Mistake: the worker insists on a host close that worked.                *)
HostAlreadyClosedWell(s) ==
  /\ At(s, "closeHost") /\ HostClosed(s)
  /\ UNCHANGED <<hostOnce, hostErr, closes>>
  /\ AfterHostClose(s)

HostAlreadyClosed(s) ==
  /\ At(s, "closeHost") /\ hostOnce[s] = "done"
  /\ UNCHANGED <<hostOnce, hostErr, closes>>
  /\ AfterHostClose(s)

(* Entering closePluginOnce.Do when nobody has: from finish, or from the   *)
(* goroutine around runStreamForward after it returned an error.           *)
ClosePlugin(s) ==
  /\ pluginOnce[s] = "new"
  /\ \/ At(s, "closePlugin") /\ Goto(s, "closingPlugin")
     \/ At(s, "return") /\ Goto(s, "outerClosing")
  /\ pluginOnce' = [pluginOnce EXCEPT ![s] = "running"]
  /\ UNCHANGED <<lifecycle, terminal, hostOnce, hostErr, worker, host, shutdown>>

(* host.stream.close was called with the text of causes and returns.       *)
PluginCloseReturns(s, causes) ==
  \E failed \in Failing("closePlugin") :
     reports' = [reports EXCEPT ![s] = Append(@, [causes |-> causes, ok |-> ~failed])]

(* finish returns nil when the plugin stream is closed, else the error.    *)
FinishReturns(s, failed) ==
  IF failed
  THEN err' = [err EXCEPT ![s] = @ \union {"closePlugin"}] /\ Goto(s, "return")
  ELSE UNCHANGED err /\ Goto(s, "unregister")

ClosePluginReturns(s) ==
  /\ At(s, "closingPlugin")
  /\ PluginCloseReturns(s, err[s])
  /\ pluginOnce' = [pluginOnce EXCEPT ![s] = "done"]
  /\ FinishReturns(s, ~reports'[s][1].ok)
  /\ UNCHANGED <<lifecycle, terminal, hostOnce, hostErr, eof, quiet, flushing, emitFailed, out,
                 opened, closes, shutdown>>

PluginAlreadyClosed(s) ==
  /\ At(s, "closePlugin") /\ pluginOnce[s] = "done"
  /\ FinishReturns(s, ClosePluginErr(s))
  /\ UNCHANGED <<lifecycle, terminal, closing, eof, quiet, flushing, emitFailed, out, host, shutdown>>

OuterCloseReturns(s) ==
  /\ At(s, "outerClosing")
  /\ PluginCloseReturns(s, err[s])
  /\ pluginOnce' = [pluginOnce EXCEPT ![s] = "done"]
  /\ Goto(s, "unregister")
  /\ UNCHANGED <<lifecycle, terminal, hostOnce, hostErr, worker, opened, closes, shutdown>>

(* Mistake: the remedial close does not ask whether the first one failed.  *)
RecloseAlways(s) ==
  /\ At(s, "return") /\ pluginOnce[s] = "done"
  /\ Goto(s, "reclosing")
  /\ UNCHANGED <<lifecycle, terminal, closing, worker, host, shutdown>>

(* An error was returned and someone else used the Once: close once more   *)
(* when that close failed.                                                 *)
Reclose(s) ==
  /\ At(s, "return") /\ pluginOnce[s] = "done"
  /\ IF ClosePluginErr(s)
     THEN err' = [err EXCEPT ![s] = @ \union {"closePlugin"}] /\ Goto(s, "reclosing")
     ELSE UNCHANGED err /\ Goto(s, "unregister")
  /\ UNCHANGED <<lifecycle, terminal, closing, eof, quiet, flushing, emitFailed, out, host, shutdown>>

RecloseReturns(s) ==
  /\ At(s, "reclosing")
  /\ PluginCloseReturns(s, err[s])
  /\ Goto(s, "unregister")
  /\ UNCHANGED <<lifecycle, terminal, closing, worker, opened, closes, shutdown>>

(* unregisterExecutorStream: out of active under the lock, then wg.Done.   *)
Unregister(s) ==
  /\ At(s, "unregister")
  /\ active' = active \ {s}
  /\ Goto(s, "unregistered")
  /\ UNCHANGED <<stopping, preparing, shutdowns, wg, terminal, closing, worker, host, shutdown>>

WorkerDone(s) ==
  /\ At(s, "unregistered")
  /\ wg' = wg - 1
  /\ Goto(s, "done")
  /\ UNCHANGED <<stopping, preparing, shutdowns, active, terminal, closing, worker, host, shutdown>>

-----------------------------------------------------------------------------
(* Shutdown calls, and the reset made by the next cliproxy_plugin_init.    *)

(* Mistake: the marking overrides the outcomes selected before it.         *)
BeginShutdownOverrides(d) ==
  /\ spc[d] = "idle"
  /\ stopping' = TRUE
  /\ shutdowns' = shutdowns + 1
  /\ terminalSelected' = [s \in Streams |-> s \in active \/ terminalSelected[s]]
  /\ terminalErr' = [s \in Streams |-> IF s \in active THEN {"shutdown"} ELSE terminalErr[s]]
  /\ toInterrupt' = [toInterrupt EXCEPT ![d] = {s \in active : ~outputFinished[s]}]
  /\ toClose' = [toClose EXCEPT ![d] = active]
  /\ spc' = [spc EXCEPT ![d] = "sweep"]
  /\ UNCHANGED <<preparing, active, wg, outputFinished, closing, pc, worker, host, cur>>

(* Mistake: no output is interrupted, only the host streams are closed.    *)
BeginShutdownClosesHosts(d) ==
  LET marked == {s \in active : ~terminalSelected[s]}
  IN /\ spc[d] = "idle"
     /\ stopping' = TRUE
     /\ shutdowns' = shutdowns + 1
     /\ terminalSelected' = [s \in Streams |-> s \in marked \/ terminalSelected[s]]
     /\ terminalErr' = [s \in Streams |-> IF s \in marked THEN {"shutdown"} ELSE terminalErr[s]]
     /\ toClose' = [toClose EXCEPT ![d] = active]
     /\ spc' = [spc EXCEPT ![d] = "sweep"]
     /\ UNCHANGED <<preparing, active, wg, outputFinished, closing, pc, worker, host,
                    toInterrupt, cur>>

(* The marking: select the shutdown for every undecided active stream, and *)
(* take the streams whose output has to be interrupted.                    *)
BeginShutdown(d) ==
  LET marked == {s \in active : ~terminalSelected[s]}
  IN /\ spc[d] = "idle"
     /\ stopping' = TRUE
     /\ shutdowns' = shutdowns + 1
     /\ terminalSelected' = [s \in Streams |-> s \in marked \/ terminalSelected[s]]
     /\ terminalErr' = [s \in Streams |-> IF s \in marked THEN {"shutdown"} ELSE terminalErr[s]]
     /\ toInterrupt' = [toInterrupt EXCEPT
                          ![d] = {s \in active : terminalErr'[s] # {} /\ ~outputFinished[s]}]
     /\ toClose' = [toClose EXCEPT ![d] = active]
     /\ spc' = [spc EXCEPT ![d] = "sweep"]
     /\ UNCHANGED <<preparing, active, wg, outputFinished, closing, pc, worker, host, cur>>

Sweeping(d) == spc[d] = "sweep"

(* closePlugin of an interrupted stream: first every one of these ...      *)
Interrupt(d, s) ==
  /\ Sweeping(d) /\ s \in toInterrupt[d] /\ pluginOnce[s] = "new"
  /\ pluginOnce' = [pluginOnce EXCEPT ![s] = "running"]
  /\ spc' = [spc EXCEPT ![d] = "interrupting"]
  /\ cur' = [cur EXCEPT ![d] = {s}]
  /\ UNCHANGED <<lifecycle, terminal, hostOnce, hostErr, pc, worker, host, toInterrupt, toClose>>

InterruptReturns(d, s) ==
  /\ spc[d] = "interrupting" /\ s \in cur[d]
  /\ PluginCloseReturns(s, terminalErr[s])
  /\ pluginOnce' = [pluginOnce EXCEPT ![s] = "done"]
  /\ toInterrupt' = [toInterrupt EXCEPT ![d] = @ \ {s}]
  /\ cur' = [cur EXCEPT ![d] = {}]
  /\ spc' = [spc EXCEPT ![d] = "sweep"]
  /\ UNCHANGED <<lifecycle, terminal, hostOnce, hostErr, pc, worker, opened, closes, toClose>>

InterruptSkipped(d, s) ==
  /\ Sweeping(d) /\ s \in toInterrupt[d] /\ pluginOnce[s] = "done"
  /\ toInterrupt' = [toInterrupt EXCEPT ![d] = @ \ {s}]
  /\ UNCHANGED <<lifecycle, terminal, closing, pc, worker, host, spc, toClose, cur>>

(* ... then closeHost of every active stream ...                           *)
CloseActive(d, s) ==
  /\ Sweeping(d) /\ toInterrupt[d] = {} /\ s \in toClose[d] /\ hostOnce[s] = "new"
  /\ hostOnce' = [hostOnce EXCEPT ![s] = "running"]
  /\ spc' = [spc EXCEPT ![d] = "closing"]
  /\ cur' = [cur EXCEPT ![d] = {s}]
  /\ UNCHANGED <<lifecycle, terminal, hostErr, pluginOnce, pc, worker, host, toInterrupt, toClose>>

CloseActiveReturns(d, s) ==
  /\ spc[d] = "closing" /\ s \in cur[d]
  /\ HostCloseReturns(s)
  /\ toClose' = [toClose EXCEPT ![d] = @ \ {s}]
  /\ cur' = [cur EXCEPT ![d] = {}]
  /\ spc' = [spc EXCEPT ![d] = "sweep"]
  /\ UNCHANGED <<lifecycle, terminal, pluginOnce, pc, worker, opened, reports, toInterrupt>>

CloseActiveSkipped(d, s) ==
  /\ Sweeping(d) /\ toInterrupt[d] = {} /\ s \in toClose[d] /\ hostOnce[s] = "done"
  /\ toClose' = [toClose EXCEPT ![d] = @ \ {s}]
  /\ UNCHANGED <<lifecycle, terminal, closing, pc, worker, host, spc, toInterrupt, cur>>

(* ... then wg.Wait, and the count of running shutdowns under the lock.    *)
WaitEnds(d) ==
  /\ Sweeping(d) /\ toInterrupt[d] = {} /\ toClose[d] = {}
  /\ wg = 0
  /\ spc' = [spc EXCEPT ![d] = "waited"]
  /\ UNCHANGED <<lifecycle, terminal, closing, pc, worker, host, toInterrupt, toClose, cur>>

ShutdownReturns(d) ==
  /\ spc[d] = "waited"
  /\ shutdowns' = shutdowns - 1
  /\ spc' = [spc EXCEPT ![d] = "idle"]
  /\ UNCHANGED <<stopping, preparing, active, wg, terminal, closing, pc, worker, host,
                 toInterrupt, toClose, cur>>

ResetLifecycle ==
  /\ active = {} /\ preparing = 0 /\ shutdowns = 0
  /\ stopping' = FALSE
  /\ active' = {}
  /\ UNCHANGED <<preparing, shutdowns, wg, terminal, closing, pc, worker, host, shutdown>>

-----------------------------------------------------------------------------
Prepare(s) ==
  \/ PrepareFails(s) \/ CallExecuteStream(s) \/ Admit(s) \/ AdmitRefused(s)
  \/ DropHost(s) \/ DropHostReturns(s) \/ EndPreparation(s) \/ PreparationDone(s)

Forward(s) ==
  \/ CheckTerminal(s) \/ ChunkError(s) \/ WritePayload(s) \/ Emit(s) \/ EmitEnds(s)
  \/ SelectPrimary(s) \/ FlushRewriter(s) \/ Complete(s)

Close(s) ==
  \/ CloseHost(s) \/ CloseHostReturns(s) \/ HostAlreadyClosed(s)
  \/ ClosePlugin(s) \/ ClosePluginReturns(s) \/ PluginAlreadyClosed(s)
  \/ OuterCloseReturns(s) \/ Reclose(s) \/ RecloseReturns(s)
  \/ Unregister(s) \/ WorkerDone(s)

ReadReturns(s) == ReadFails(s) \/ ReadChunk(s)
EmitCallReturns(s) == EmitReturns(s) \/ EmitFails(s)

Stream(s) ==
  \/ BeginRefused(s) \/ Begin(s) \/ Prepare(s) \/ ExecuteStreamReturns(s)
  \/ Forward(s) \/ ReadReturns(s) \/ EmitCallReturns(s) \/ Close(s)

Sweep(d) ==
  \/ \E s \in Streams : \/ Interrupt(d, s) \/ InterruptReturns(d, s) \/ InterruptSkipped(d, s)
                        \/ CloseActive(d, s) \/ CloseActiveReturns(d, s) \/ CloseActiveSkipped(d, s)
  \/ WaitEnds(d) \/ ShutdownReturns(d)

Next ==
  \/ \E s \in Streams : Stream(s)
  \/ \E d \in Shutdowns : BeginShutdown(d) \/ Sweep(d)
  \/ ResetLifecycle

Spec == Init /\ [][Next]_vars

(* Go runs its goroutines, and the host answers execute_stream and closes. *)
(* Upstream may be silent and the consumer may not drain for ever: a read  *)
(* is sure to return only once the host has closed the host stream, and an *)
(* emit only once it has closed the plugin stream.                         *)
Fairness ==
  /\ \A s \in Streams :
        /\ WF_vars(Prepare(s)) /\ WF_vars(ExecuteStreamReturns(s))
        /\ WF_vars(Forward(s)) /\ WF_vars(Close(s))
        /\ WF_vars(HostClosed(s) /\ ReadReturns(s))
        /\ WF_vars(PluginClosed(s) /\ EmitCallReturns(s))
  /\ \A d \in Shutdowns : WF_vars(Sweep(d))

FairSpec == Spec /\ Fairness
=============================================================================
