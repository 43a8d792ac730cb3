---------------------- MODULE StreamLifecycleProperties ----------------------
(***************************************************************************)
(* What the stream lifecycle has to guarantee whatever the interleaving of *)
(* preparations, workers, shutdown calls and answers of the host.          *)
(***************************************************************************)
EXTENDS StreamLifecycle

(* How many of the processes in P are at one of the labels in L.           *)
Count(P, label, L) == Cardinality({p \in P : label[p] \in L})

(* The two counters and the map agree with the goroutines they stand for:  *)
(* wg counts every goroutine from its wg.Add to its wg.Done, preparing the *)
(* ones still being prepared, active the workers not yet unregistered.     *)
Accounting ==
  /\ active = {s \in Streams : pc[s] \in ActivePcs}
  /\ preparing = Count(Streams, pc, PreparePcs)
  /\ wg = Count(Streams, pc, TrackedPcs)
  /\ shutdowns = Count(Shutdowns, spc, SweepPcs)

(* No stream is counted while the lifecycle is stopped, nor while a        *)
(* shutdown is on its way out of wg.Wait: nothing is admitted meanwhile.   *)
StoppedIsEmpty ==
  /\ shutdowns > 0 => stopping
  /\ stopping /\ shutdowns = 0 => wg = 0
  /\ \A d \in Shutdowns : spc[d] = "waited" => wg = 0

(* An emit is in flight only for output that is still to be emitted.       *)
OutputLeft == \A s \in Streams : pc[s] = "emitting" => out[s] > 0

(* Once some shutdown's Wait has returned, and until the lifecycle is      *)
(* reset, no preparation or worker is running: none is inside a call to    *)
(* the host, and none will make one.                                       *)
QuietAfterShutdown ==
  \/ stopping /\ shutdowns = 0
  \/ \E d \in Shutdowns : spc[d] = "waited"
  => \A s \in Streams : pc[s] \in {"idle", "done"}

(* The inductive invariant of the accounts.                                *)
LifecycleInv == TypeOK /\ Accounting /\ StoppedIsEmpty /\ OutputLeft

(* No wg.Add while a shutdown is on its way to wg.Wait or has not returned *)
(* from it: a WaitGroup reused that way panics or waits for ever.          *)
NoAddDuringWait == [][wg' > wg => \A d \in Shutdowns : spc[d] = "idle"]_vars

(* A shutdown that has gone through its interrupts leaves no active worker *)
(* that could still wait for a consumer: the plugin stream of every worker *)
(* that may emit is closed, and once it has gone through its closes, the   *)
(* host stream of every worker is.  This is why its wg.Wait can end.       *)
BlockedWorkersReleased ==
  \A d \in Shutdowns : Sweeping(d) /\ toInterrupt[d] = {} =>
     \A s \in active :
        /\ pc[s] \in WritePcs => pluginOnce[s] = "done"
        /\ toClose[d] = {} => hostOnce[s] = "done"

(* The plugin stream is closed without an error only for a stream that was *)
(* read to its end, whose output was all accepted, whose outcome was       *)
(* selected as natural, and whose host stream was closed first.            *)
CleanCloseIsComplete ==
  \A s \in Streams : \A i \in DOMAIN reports[s] :
     reports[s][i].causes = {} =>
        /\ i = 1
        /\ eof[s] /\ ~emitFailed[s] /\ out[s] = 0
        /\ terminalSelected[s] /\ terminalErr[s] = {} /\ outputFinished[s]
        /\ hostOnce[s] = "done" /\ ~hostErr[s]

(* Every close of the plugin stream reports at least the selected error:   *)
(* a shutdown that interrupts a stream is always reported as an error, and *)
(* it never hides an error that was selected before it.                    *)
SelectedErrorReported ==
  \A s \in Streams : \A i \in DOMAIN reports[s] :
     terminalSelected[s] /\ terminalErr[s] \subseteq reports[s][i].causes

(* Worker and shutdown together close the host stream at most once and     *)
(* never repeat a close of the plugin stream that worked; a worker that is *)
(* gone has closed both.                                                   *)
CloseDiscipline ==
  \A s \in Streams :
     /\ closes[s] <= 1
     /\ Len(reports[s]) <= 2
     /\ Len(reports[s]) = 2 => ~reports[s][1].ok
     /\ pc[s] \in {"unregistered", "done"} =>
           /\ opened[s] => closes[s] = 1
           /\ terminalSelected[s] => reports[s] # <<>>

(* Why the closes are as they should be: what the label of a worker says   *)
(* of its own variables, ...                                               *)
NotYetPcs == PreparePcs \union {"idle", "preparationEnded"}
LeftPcs == {"unregistered", "done"}
AfterHostPcs == (LeavePcs \ {"closeHost", "closingHost"}) \union {"unregistered"}

Finishing(s) ==
  \/ pc[s] \in {"select", "flush", "complete", "unregistered"} \union LeavePcs
  \/ pc[s] \in EmitPcs /\ flushing[s]

WorkerStage(s) ==
  /\ pc[s] \in NotYetPcs \union {"loop", "reading"} =>
        err[s] = {} /\ ~eof[s] /\ ~flushing[s] /\ ~quiet[s] /\ ~emitFailed[s]
  /\ pc[s] \in {"chunkError", "write"} => ~flushing[s]
  /\ emitFailed[s] \/ quiet[s] => err[s] # {}
  /\ Finishing(s) /\ err[s] = {} => eof[s]
  /\ pc[s] \in {"complete"} \union LeavePcs => out[s] = 0
  /\ pc[s] \in {"return", "outerClosing", "reclosing"} => err[s] # {}

(* ... of its outcome, which is natural only when its output is finished,  *)
OutcomeStage(s) ==
  /\ terminalErr[s] # {} => terminalSelected[s]
  /\ outputFinished[s] => pc[s] \in LeavePcs \union LeftPcs
  /\ pc[s] \in LeavePcs => outputFinished[s] /\ terminalSelected[s] /\ terminalErr[s] \subseteq err[s]
  /\ pc[s] \in WritePcs /\ terminalSelected[s] => terminalErr[s] # {}
  /\ pc[s] \in NotYetPcs => ~terminalSelected[s]

(* ... of the streams a shutdown has taken, ...                            *)
TakenStage(s) ==
  \A d \in Shutdowns :
    /\ s \in toInterrupt[d] \union toClose[d] \union cur[d] => pc[s] \in ActivePcs \union LeftPcs
    /\ s \in toInterrupt[d] => terminalErr[s] # {}
    /\ spc[d] = "interrupting" /\ s \in cur[d] => terminalErr[s] # {}

(* ... of who is inside the Once of the host stream, ...                   *)
HostStage(s) ==
  /\ closes[s] = IF hostOnce[s] = "done" THEN 1 ELSE 0
  /\ pc[s] \in {"idle", "prepare", "opening", "admit", "dropHost"} => hostOnce[s] = "new"
  /\ pc[s] \in {"idle", "prepare", "opening"} => ~opened[s]
  /\ pc[s] \in {"droppingHost", "closingHost"} => hostOnce[s] = "running"
  /\ pc[s] \in AfterHostPcs => hostOnce[s] = "done" /\ (hostErr[s] => err[s] # {})
  /\ pc[s] \in {"endPreparation", "preparationEnded", "done"} /\ opened[s] => hostOnce[s] = "done"
  /\ \A d \in Shutdowns : spc[d] = "closing" /\ s \in cur[d] =>
        /\ hostOnce[s] = "running" /\ pc[s] \notin {"droppingHost", "closingHost"}
        /\ \A e \in Shutdowns : spc[e] = "closing" /\ s \in cur[e] => d = e

(* ... and inside the Once of the plugin stream,                           *)
PluginStage(s) ==
  /\ pluginOnce[s] # "done" => reports[s] = <<>>
  /\ pluginOnce[s] = "done" => Len(reports[s]) \in 1 .. 2
  /\ Len(reports[s]) = 2 => ~reports[s][1].ok /\ pc[s] \in {"unregister"} \union LeftPcs
  /\ pc[s] \in {"closingPlugin", "outerClosing"} => pluginOnce[s] = "running"
  /\ pc[s] = "reclosing" => pluginOnce[s] = "done" /\ ~reports[s][1].ok
  /\ pc[s] \in {"unregister", "unregistered"} => pluginOnce[s] = "done"
  /\ pc[s] = "done" /\ terminalSelected[s] => pluginOnce[s] = "done"
  /\ \A d \in Shutdowns : spc[d] = "interrupting" /\ s \in cur[d] =>
        /\ pluginOnce[s] = "running" /\ pc[s] \notin {"closingPlugin", "outerClosing"}
        /\ \A e \in Shutdowns : spc[e] = "interrupting" /\ s \in cur[e] => d = e

(* ... and what has been reported: a clean close comes from the worker.    *)
CleanReport(s) ==
  /\ eof[s] /\ ~emitFailed[s] /\ out[s] = 0
  /\ terminalErr[s] = {} /\ outputFinished[s]
  /\ hostOnce[s] = "done" /\ ~hostErr[s]
  /\ pc[s] \in {"return", "reclosing", "unregister"} \union LeftPcs

ReportStage(s) ==
  \A i \in DOMAIN reports[s] :
    /\ terminalSelected[s] /\ terminalErr[s] \subseteq reports[s][i].causes
    /\ reports[s][i].causes = {} => i = 1 /\ CleanReport(s)

(* While a shutdown runs no worker is added, so all that are active were   *)
(* in its two lists.                                                       *)
ReleasedStage(d) ==
  spc[d] \in SweepPcs => \A s \in active :
    /\ s \notin toClose[d] => hostOnce[s] = "done"
    /\ pc[s] \in WritePcs /\ s \notin toInterrupt[d] => pluginOnce[s] = "done"

(* The inductive invariant of the closes.                                  *)
ClosingInv ==
  /\ LifecycleInv
  /\ \A s \in Streams : /\ WorkerStage(s) /\ OutcomeStage(s) /\ TakenStage(s)
                        /\ HostStage(s) /\ PluginStage(s) /\ ReportStage(s)
  /\ \A d \in Shutdowns : ReleasedStage(d)

(* The outcome of a stream, once selected, is not replaced by the worker   *)
(* or by any shutdown.                                                     *)
OutcomeSelectedOnce ==
  [][\A s \in Streams : terminalSelected[s] =>
        terminalSelected'[s] /\ terminalErr'[s] = terminalErr[s]]_vars

-----------------------------------------------------------------------------
(* The mechanism implements the promise.                                   *)
ServicePhase == IF ~stopping THEN "serving" ELSE IF shutdowns > 0 THEN "draining" ELSE "stopped"
ServicePending == {s \in Streams : pc[s] \in PreparePcs \union {"preparationEnded"}}
ServiceOpen == {s \in Streams : pc[s] \in ActivePcs \union {"unregistered"}}
ServiceOutcome ==
  [s \in Streams |-> IF ~terminalSelected[s] THEN "none"
                     ELSE IF terminalErr[s] = {} THEN "completed" ELSE "failed"]

Service == INSTANCE StreamService WITH
  phase <- ServicePhase, pending <- ServicePending, open <- ServiceOpen, outcome <- ServiceOutcome

(* Every behaviour of the lifecycle is one of the abstract service.        *)
ImplementsService == Service!Spec

-----------------------------------------------------------------------------
(* A worker the host has abandoned: it waits inside a read or an emit, and *)
(* the host answered the close that should have ended the wait with an     *)
(* error.  Nothing in the plugin retries that close.                       *)
Abandoned(s) ==
  \/ pc[s] = "reading" /\ hostOnce[s] = "done" /\ hostErr[s]
  \/ pc[s] = "emitting" /\ pluginOnce[s] = "done" /\ ~PluginClosed(s)

(* A shutdown returns, although consumers do not drain and upstreams stay  *)
(* silent, unless the host refused to close a stream a worker waits on.    *)
ShutdownEnds ==
  \A d \in Shutdowns : spc[d] # "idle" ~> spc[d] = "idle" \/ \E s \in Streams : Abandoned(s)

(* A worker whose output is finished leaves, whoever closes its streams.   *)
FinishedWorkersLeave ==
  \A s \in Streams : outputFinished[s] ~> pc[s] = "done"
=============================================================================
