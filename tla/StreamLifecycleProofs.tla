------------------------- MODULE StreamLifecycleProofs -------------------------
(***************************************************************************)
(* Proofs about the stream lifecycle for any number of streams and of      *)
(* shutdown calls, any set of faults and any amount of output: its safety, *)
(* that its closes are as they should be whoever makes them, and that it   *)
(* implements StreamService.                                               *)
(***************************************************************************)
EXTENDS StreamLifecycleProperties, FiniteSetTheorems, TLAPS

USE StreamsFinite, MaxOutNat

-----------------------------------------------------------------------------
(* Counting processes by their labels.                                     *)

(* A count is a natural number, and it is zero when no process counts.     *)
LEMMA CountIsNat ==
  ASSUME NEW P, IsFiniteSet(P), NEW label, NEW L
  PROVE  /\ Count(P, label, L) \in Nat
         /\ Count(P, label, L) = 0 <=> \A p \in P : label[p] \notin L
<1> DEFINE S == {p \in P : label[p] \in L}
<1>1. IsFiniteSet(S)
  BY FS_Subset
<1>2. Cardinality(S) \in Nat /\ (Cardinality(S) = 0 <=> S = {})
  BY <1>1, FS_CardinalityType, FS_EmptySet
<1> QED
  BY <1>2 DEF Count

(* Moving one process changes a count by what its two labels contribute.   *)
CountMoves(P, label, moved, p, L) ==
  /\ (label[p] \in L <=> moved[p] \in L) => Count(P, moved, L) = Count(P, label, L)
  /\ label[p] \notin L /\ moved[p] \in L => Count(P, moved, L) = Count(P, label, L) + 1
  /\ label[p] \in L /\ moved[p] \notin L => Count(P, moved, L) = Count(P, label, L) - 1

(* Relabelling one process changes the count of a class of labels by one   *)
(* when it enters or leaves the class, and not otherwise.                  *)
LEMMA CountMove ==
  ASSUME NEW P, IsFiniteSet(P), NEW V, NEW label \in [P -> V], NEW p \in P,
         NEW l, NEW moved, moved = [label EXCEPT ![p] = l], NEW L
  PROVE  CountMoves(P, label, moved, p, L)
<1> USE DEF CountMoves
<1> DEFINE S == {q \in P : label[q] \in L}
           T == {q \in P : moved[q] \in L}
<1>1. IsFiniteSet(S) /\ IsFiniteSet(T)
  BY FS_Subset
<1>2. CASE label[p] \in L <=> l \in L
  <2>1. S = T
    BY <1>2
  <2> QED
    BY <2>1, <1>2 DEF Count
<1>3. CASE label[p] \notin L /\ l \in L
  <2>1. T = S \union {p} /\ p \notin S
    BY <1>3
  <2>2. Cardinality(T) = Cardinality(S) + 1
    BY <2>1, <1>1, FS_AddElement
  <2> QED
    BY <2>2, <1>3 DEF Count
<1>4. CASE label[p] \in L /\ l \notin L
  <2>1. T = S \ {p} /\ p \in S
    BY <1>4
  <2>2. Cardinality(T) = Cardinality(S) - 1
    BY <2>1, <1>1, FS_RemoveElement
  <2> QED
    BY <2>2, <1>4 DEF Count
<1> QED
  BY <1>2, <1>3, <1>4

-----------------------------------------------------------------------------
(* Types.                                                                  *)

(* Every cause of a failure the worker or a shutdown can record is one of  *)
(* Causes, so the sets of causes keep their type without expanding Causes  *)
(* in every step.                                                          *)
LEMMA CausesKnown ==
  {"shutdown", "read", "chunk", "rewrite", "emit", "flush", "closeHost", "closePlugin"}
     \subseteq Causes
  BY DEF Causes, FaultKinds

(* A group of variables that a step leaves alone keeps its types.          *)
LEMMA TypeUnchanged ==
  /\ LifecycleTypeOK /\ UNCHANGED lifecycle => LifecycleTypeOK'
  /\ TerminalTypeOK /\ UNCHANGED terminal => TerminalTypeOK'
  /\ ClosingTypeOK /\ UNCHANGED closing => ClosingTypeOK'
  /\ WorkerTypeOK /\ UNCHANGED worker => WorkerTypeOK'
  /\ HostTypeOK /\ UNCHANGED host => HostTypeOK'
  /\ ShutdownTypeOK /\ UNCHANGED shutdown => ShutdownTypeOK'
  BY DEF LifecycleTypeOK, lifecycle, TerminalTypeOK, terminal, ClosingTypeOK, closing,
         WorkerTypeOK, worker, HostTypeOK, host, ShutdownTypeOK, shutdown

(* Selecting an outcome keeps the types of the outcome, and what the       *)
(* caller gets back is a set of causes.                                    *)
LEMMA SelectTypes ==
  ASSUME TerminalTypeOK, NEW s \in Streams,
         NEW primary \in SUBSET Causes, NEW completed \in BOOLEAN,
         SelectTerminal(s, primary, completed)
  PROVE  TerminalTypeOK' /\ terminalErr'[s] \in SUBSET Causes
  BY DEF TerminalTypeOK, SelectTerminal

(* The answer of the host to a close of the host stream keeps the types.   *)
LEMMA HostCloseTypes ==
  ASSUME ClosingTypeOK, HostTypeOK, NEW s \in Streams,
         HostCloseReturns(s), UNCHANGED <<pluginOnce, opened, reports>>
  PROVE  ClosingTypeOK' /\ HostTypeOK'
<1>1. PICK failed \in BOOLEAN : hostErr' = [hostErr EXCEPT ![s] = failed]
  BY DEF HostCloseReturns, Failing
<1>2. hostErr' \in [Streams -> BOOLEAN]
  BY <1>1 DEF ClosingTypeOK
<1>3. hostOnce' \in [Streams -> OnceState]
  BY DEF ClosingTypeOK, HostCloseReturns, OnceState
<1>4. closes' \in [Streams -> Nat]
  BY DEF HostTypeOK, HostCloseReturns
<1> QED
  BY <1>2, <1>3, <1>4 DEF ClosingTypeOK, HostTypeOK

(* The answer of the host to a close of the plugin stream appends one      *)
(* well-formed report.                                                     *)
LEMMA PluginCloseTypes ==
  ASSUME HostTypeOK, NEW s \in Streams, NEW causes \in SUBSET Causes,
         PluginCloseReturns(s, causes), UNCHANGED <<opened, closes>>
  PROVE  HostTypeOK'
<1>1. PICK failed \in BOOLEAN :
         reports' = [reports EXCEPT ![s] = Append(@, [causes |-> causes, ok |-> ~failed])]
  BY DEF PluginCloseReturns, Failing
<1>2. [causes |-> causes, ok |-> ~failed] \in Report
  BY DEF Report
<1>3. Append(reports[s], [causes |-> causes, ok |-> ~failed]) \in Seq(Report)
  BY <1>2 DEF HostTypeOK
<1> QED
  BY <1>1, <1>3 DEF HostTypeOK

(* The steps of the goroutine that prepares and admits a stream keep the   *)
(* types.                                                                  *)
LEMMA TypePrepare ==
  ASSUME TypeOK, NEW s \in Streams, LifecycleTypeOK',
         BeginRefused(s) \/ Begin(s) \/ Prepare(s) \/ ExecuteStreamReturns(s)
  PROVE  TypeOK'
<1> USE TypeUnchanged DEF TypeOK, Goto, At, Pcs, TrackedPcs, PreparePcs, ActivePcs, WritePcs
<1>1. CASE BeginRefused(s)
  BY <1>1 DEF BeginRefused
<1>2. CASE Begin(s)
  BY <1>2 DEF Begin
<1>3. CASE PrepareFails(s) \/ CallExecuteStream(s) \/ AdmitRefused(s)
  BY <1>3 DEF PrepareFails, CallExecuteStream, AdmitRefused
<1>4. CASE Admit(s)
  BY <1>4 DEF Admit
<1>5. CASE DropHost(s)
  BY <1>5 DEF DropHost, ClosingTypeOK, OnceState
<1>6. CASE DropHostReturns(s)
  <2>1. ClosingTypeOK' /\ HostTypeOK'
    BY <1>6, HostCloseTypes DEF DropHostReturns
  <2> QED
    BY <1>6, <2>1 DEF DropHostReturns
<1>7. CASE EndPreparation(s) \/ PreparationDone(s)
  BY <1>7 DEF EndPreparation, PreparationDone
<1>8. CASE ExecuteStreamReturns(s)
  BY <1>8 DEF ExecuteStreamReturns, HostTypeOK
<1> QED
  BY <1>1, <1>2, <1>3, <1>4, <1>5, <1>6, <1>7, <1>8 DEF Prepare

(* The steps of the worker that reads, rewrites and emits keep the types.  *)
(* OutputLeft is needed: EmitReturns takes one from the output that is     *)
(* left.                                                                   *)
LEMMA TypeForward ==
  ASSUME TypeOK, OutputLeft, NEW s \in Streams,
         Forward(s) \/ ReadReturns(s) \/ EmitCallReturns(s)
  PROVE  TypeOK'
<1> USE TypeUnchanged, CausesKnown
    DEF TypeOK, Goto, At, Pcs, TrackedPcs, ActivePcs, WritePcs, EmitPcs, LeavePcs
<1>1. CASE CheckTerminal(s)
  BY <1>1 DEF CheckTerminal, WorkerTypeOK, TerminalTypeOK
<1>2. CASE ChunkError(s)
  <2>1. TerminalTypeOK' /\ terminalErr'[s] \in SUBSET Causes
    BY <1>2, SelectTypes DEF ChunkError, WorkerTypeOK
  <2> QED
    BY <1>2, <2>1 DEF ChunkError, SelectedErr, WorkerTypeOK
<1>3. CASE WritePayload(s)
  <2>1. TerminalTypeOK'
    BY <1>3, SelectTypes DEF WritePayload
  <2>2. out' \in [Streams -> 0 .. MaxOut]
    BY <1>3 DEF WritePayload, WorkerTypeOK
  <2>3. err' \in [Streams -> SUBSET Causes]
    <3>1. err' = err \/ err' = [err EXCEPT ![s] = @ \union {"rewrite"}]
      BY <1>3 DEF WritePayload
    <3> QED
      BY <3>1 DEF WorkerTypeOK
  <2> QED
    BY <1>3, <2>1, <2>2, <2>3 DEF WritePayload, WorkerTypeOK
<1>4. CASE Emit(s) \/ EmitEnds(s)
  BY <1>4 DEF Emit, EmitEnds
<1>5. CASE SelectPrimary(s)
  <2>1. TerminalTypeOK' /\ terminalErr'[s] \in SUBSET Causes
    BY <1>5, SelectTypes DEF SelectPrimary, WorkerTypeOK
  <2> QED
    BY <1>5, <2>1 DEF SelectPrimary, SelectedErr, WorkerTypeOK
<1>6. CASE FlushRewriter(s)
  <2>1. TerminalTypeOK'
    BY <1>6, SelectTypes DEF FlushRewriter
  <2>2. out' \in [Streams -> 0 .. MaxOut]
    BY <1>6 DEF FlushRewriter, WorkerTypeOK
  <2>3. err' \in [Streams -> SUBSET Causes]
    <3>1. err' = err \/ err' = [err EXCEPT ![s] = @ \union {"flush"}]
      BY <1>6 DEF FlushRewriter
    <3> QED
      BY <3>1 DEF WorkerTypeOK
  <2>4. flushing' \in [Streams -> BOOLEAN]
    BY <1>6 DEF FlushRewriter, WorkerTypeOK
  <2> QED
    BY <1>6, <2>1, <2>2, <2>3, <2>4 DEF FlushRewriter, WorkerTypeOK
<1>7. CASE Complete(s)
  <2>1. TerminalTypeOK' /\ terminalErr'[s] \in SUBSET Causes
    BY <1>7, SelectTypes DEF Complete, WorkerTypeOK
  <2> QED
    BY <1>7, <2>1 DEF Complete, SelectedErr, WorkerTypeOK
<1>8. CASE ReadFails(s)
  BY <1>8 DEF ReadFails, WorkerTypeOK
<1>11. CASE ReadChunk(s)
  <2>1. eof' \in [Streams -> BOOLEAN]
    BY <1>11 DEF ReadChunk, WorkerTypeOK
  <2>2. err' \in [Streams -> SUBSET Causes]
    BY <1>11 DEF ReadChunk, WorkerTypeOK
  <2> QED
    BY <1>11, <2>1, <2>2 DEF ReadChunk, WorkerTypeOK
<1>9. CASE EmitReturns(s)
  BY <1>9 DEF EmitReturns, OutputLeft, WorkerTypeOK
<1>10. CASE EmitFails(s)
  BY <1>10 DEF EmitFails, WorkerTypeOK
<1> QED
  BY <1>1, <1>2, <1>3, <1>4, <1>5, <1>6, <1>7, <1>8, <1>9, <1>10, <1>11
  DEF Forward, ReadReturns, EmitCallReturns

(* The steps of the worker that close its two streams and unregister it    *)
(* keep the types.                                                         *)
LEMMA TypeClose ==
  ASSUME TypeOK, LifecycleTypeOK', NEW s \in Streams, Close(s)
  PROVE  TypeOK'
<1> USE TypeUnchanged, CausesKnown
    DEF TypeOK, Goto, At, Pcs, TrackedPcs, ActivePcs, LeavePcs
<1>1. CASE CloseHost(s)
  BY <1>1 DEF CloseHost, ClosingTypeOK, OnceState
<1>2. CASE CloseHostReturns(s)
  <2>1. ClosingTypeOK' /\ HostTypeOK'
    BY <1>2, HostCloseTypes DEF CloseHostReturns, AfterHostClose
  <2> QED
    BY <1>2, <2>1 DEF CloseHostReturns, AfterHostClose, WorkerTypeOK
<1>3. CASE HostAlreadyClosed(s)
  <2>1. UNCHANGED <<closing, host>>
    BY <1>3 DEF HostAlreadyClosed, AfterHostClose, closing, host
  <2> QED
    BY <1>3, <2>1 DEF HostAlreadyClosed, AfterHostClose, WorkerTypeOK
<1>4. CASE ClosePlugin(s)
  BY <1>4 DEF ClosePlugin, ClosingTypeOK, OnceState
<1>5. CASE ClosePluginReturns(s)
  <2>1. HostTypeOK'
    BY <1>5, PluginCloseTypes DEF ClosePluginReturns, WorkerTypeOK
  <2> QED
    BY <1>5, <2>1 DEF ClosePluginReturns, FinishReturns, WorkerTypeOK, ClosingTypeOK, OnceState
<1>6. CASE PluginAlreadyClosed(s)
  BY <1>6 DEF PluginAlreadyClosed, FinishReturns, WorkerTypeOK
<1>7. CASE OuterCloseReturns(s)
  <2>1. HostTypeOK'
    BY <1>7, PluginCloseTypes DEF OuterCloseReturns, WorkerTypeOK
  <2> QED
    BY <1>7, <2>1 DEF OuterCloseReturns, ClosingTypeOK, OnceState
<1>8. CASE Reclose(s)
  BY <1>8 DEF Reclose, WorkerTypeOK
<1>9. CASE RecloseReturns(s)
  <2>1. HostTypeOK'
    BY <1>9, PluginCloseTypes DEF RecloseReturns, WorkerTypeOK
  <2> QED
    BY <1>9, <2>1 DEF RecloseReturns
<1>10. CASE Unregister(s) \/ WorkerDone(s)
  BY <1>10 DEF Unregister, WorkerDone
<1> QED
  BY <1>1, <1>2, <1>3, <1>4, <1>5, <1>6, <1>7, <1>8, <1>9, <1>10 DEF Close

(* The steps of a shutdown call keep the types.                            *)
LEMMA TypeShutdown ==
  ASSUME TypeOK, LifecycleTypeOK', NEW d \in Shutdowns, BeginShutdown(d) \/ Sweep(d)
  PROVE  TypeOK'
<1> USE TypeUnchanged, CausesKnown DEF TypeOK, Sweeping
<1>1. CASE BeginShutdown(d)
  <2>1. TerminalTypeOK'
    BY <1>1 DEF BeginShutdown, TerminalTypeOK
  <2>2. ShutdownTypeOK'
    BY <1>1 DEF BeginShutdown, ShutdownTypeOK, LifecycleTypeOK, SweepPcs
  <2> QED
    BY <1>1, <2>1, <2>2 DEF BeginShutdown
<1>2. ASSUME NEW s \in Streams, Interrupt(d, s)
      PROVE  TypeOK'
  BY <1>2 DEF Interrupt, ClosingTypeOK, OnceState, ShutdownTypeOK, SweepPcs
<1>3. ASSUME NEW s \in Streams, InterruptReturns(d, s)
      PROVE  TypeOK'
  <2>1. HostTypeOK'
    BY <1>3, PluginCloseTypes DEF InterruptReturns, TerminalTypeOK
  <2> QED
    BY <1>3, <2>1 DEF InterruptReturns, ClosingTypeOK, OnceState, ShutdownTypeOK, SweepPcs
<1>4. ASSUME NEW s \in Streams, InterruptSkipped(d, s) \/ CloseActiveSkipped(d, s)
      PROVE  TypeOK'
  BY <1>4 DEF InterruptSkipped, CloseActiveSkipped, ShutdownTypeOK
<1>5. ASSUME NEW s \in Streams, CloseActive(d, s)
      PROVE  TypeOK'
  BY <1>5 DEF CloseActive, ClosingTypeOK, OnceState, ShutdownTypeOK, SweepPcs
<1>6. ASSUME NEW s \in Streams, CloseActiveReturns(d, s)
      PROVE  TypeOK'
  <2>1. ClosingTypeOK' /\ HostTypeOK'
    BY <1>6, HostCloseTypes DEF CloseActiveReturns
  <2> QED
    BY <1>6, <2>1 DEF CloseActiveReturns, ShutdownTypeOK, SweepPcs
<1>7. CASE WaitEnds(d) \/ ShutdownReturns(d)
  BY <1>7 DEF WaitEnds, ShutdownReturns, ShutdownTypeOK, SweepPcs
<1> QED
  BY <1>1, <1>2, <1>3, <1>4, <1>5, <1>6, <1>7 DEF Sweep

-----------------------------------------------------------------------------
(* The accounts of the lifecycle.                                          *)

(* Which steps stay inside one class of labels and touch no account.       *)
Moves(s, A, B) ==
  /\ pc[s] \in A
  /\ \E b \in B : Goto(s, b)
  /\ UNCHANGED shutdown

WorkerStays(s) ==
  \/ Forward(s) \/ ReadReturns(s) \/ EmitCallReturns(s)
  \/ CloseHost(s) \/ CloseHostReturns(s) \/ HostAlreadyClosed(s)
  \/ ClosePlugin(s) \/ ClosePluginReturns(s) \/ PluginAlreadyClosed(s)
  \/ OuterCloseReturns(s) \/ Reclose(s) \/ RecloseReturns(s)

PreparationStays(s) ==
  \/ PrepareFails(s) \/ CallExecuteStream(s) \/ AdmitRefused(s)
  \/ DropHost(s) \/ DropHostReturns(s) \/ ExecuteStreamReturns(s)

(* A worker between its admission and its unregistration stays active and  *)
(* touches no counter.                                                     *)
LEMMA ActiveMove ==
  ASSUME NEW s \in Streams, WorkerStays(s)
  PROVE  Moves(s, ActivePcs, ActivePcs) /\ UNCHANGED lifecycle
<1> USE DEF Goto, At, ActivePcs, WritePcs, EmitPcs, LeavePcs, Moves
<1>1. CASE Forward(s)
  BY <1>1 DEF Forward, CheckTerminal, ChunkError, WritePayload, Emit, EmitEnds,
              SelectPrimary, FlushRewriter, Complete
<1>2. CASE ReadReturns(s) \/ EmitCallReturns(s)
  BY <1>2 DEF ReadReturns, ReadFails, ReadChunk, EmitCallReturns, EmitReturns, EmitFails
<1>3. CASE CloseHost(s) \/ CloseHostReturns(s) \/ HostAlreadyClosed(s)
  BY <1>3 DEF CloseHost, CloseHostReturns, HostAlreadyClosed, AfterHostClose
<1>4. CASE ClosePlugin(s) \/ ClosePluginReturns(s) \/ PluginAlreadyClosed(s)
  BY <1>4 DEF ClosePlugin, ClosePluginReturns, PluginAlreadyClosed, FinishReturns
<1>5. CASE OuterCloseReturns(s) \/ Reclose(s) \/ RecloseReturns(s)
  BY <1>5 DEF OuterCloseReturns, Reclose, RecloseReturns
<1> QED
  BY <1>1, <1>2, <1>3, <1>4, <1>5 DEF WorkerStays

(* A stream that is being prepared and neither admitted nor ended stays in *)
(* preparation and touches no counter.                                     *)
LEMMA PreparationMove ==
  ASSUME NEW s \in Streams, PreparationStays(s)
  PROVE  Moves(s, PreparePcs, PreparePcs) /\ UNCHANGED lifecycle
  BY DEF Goto, At, PreparePcs, Moves, PreparationStays, PrepareFails, CallExecuteStream,
         AdmitRefused, DropHost, DropHostReturns, ExecuteStreamReturns

(* How each account changes when a stream moves between classes.           *)
LEMMA AccountsOfMove ==
  ASSUME TypeOK, Accounting, NEW s \in Streams, NEW b \in Pcs, Goto(s, b), UNCHANGED shutdown
  PROVE  /\ Count(Shutdowns, spc', SweepPcs) = shutdowns
         /\ {t \in Streams : pc'[t] \in ActivePcs} =
              IF b \in ActivePcs THEN active \union {s} ELSE active \ {s}
         /\ Count(Streams, pc', PreparePcs) =
              IF pc[s] \in PreparePcs
              THEN IF b \in PreparePcs THEN preparing ELSE preparing - 1
              ELSE IF b \in PreparePcs THEN preparing + 1 ELSE preparing
         /\ Count(Streams, pc', TrackedPcs) =
              IF pc[s] \in TrackedPcs
              THEN IF b \in TrackedPcs THEN wg ELSE wg - 1
              ELSE IF b \in TrackedPcs THEN wg + 1 ELSE wg
         /\ pc[s] \in PreparePcs => preparing > 0
         /\ pc[s] \in TrackedPcs => wg > 0
<1>1. pc \in [Streams -> Pcs] /\ pc' = [pc EXCEPT ![s] = b]
  BY DEF TypeOK, Goto
<1>2. Count(Shutdowns, spc', SweepPcs) = shutdowns
  BY DEF Accounting, shutdown
<1>3. {t \in Streams : pc'[t] \in ActivePcs} =
        IF b \in ActivePcs THEN active \union {s} ELSE active \ {s}
  BY <1>1 DEF Accounting
<1>4. preparing = Count(Streams, pc, PreparePcs) /\ wg = Count(Streams, pc, TrackedPcs)
  BY DEF Accounting
<1>5. /\ Count(Streams, pc', PreparePcs) =
           IF pc[s] \in PreparePcs
           THEN IF b \in PreparePcs THEN preparing ELSE preparing - 1
           ELSE IF b \in PreparePcs THEN preparing + 1 ELSE preparing
      /\ pc[s] \in PreparePcs => preparing > 0
  <2>1. preparing > 0 \/ pc[s] \notin PreparePcs
    BY <1>4, CountIsNat DEF TypeOK, LifecycleTypeOK
  <2>2. CountMoves(Streams, pc, pc', s, PreparePcs)
    BY <1>1, CountMove
  <2> QED
    BY <1>1, <1>4, <2>1, <2>2 DEF CountMoves
<1>6. /\ Count(Streams, pc', TrackedPcs) =
           IF pc[s] \in TrackedPcs
           THEN IF b \in TrackedPcs THEN wg ELSE wg - 1
           ELSE IF b \in TrackedPcs THEN wg + 1 ELSE wg
      /\ pc[s] \in TrackedPcs => wg > 0
  <2>1. wg > 0 \/ pc[s] \notin TrackedPcs
    BY <1>4, CountIsNat DEF TypeOK, LifecycleTypeOK
  <2>2. CountMoves(Streams, pc, pc', s, TrackedPcs)
    BY <1>1, CountMove
  <2> QED
    BY <1>1, <1>4, <2>1, <2>2 DEF CountMoves
<1> QED
  BY <1>2, <1>3, <1>5, <1>6

(* Steps of a stream that leave the accounts as they are.                  *)
LEMMA InvStays ==
  ASSUME LifecycleInv, NEW s \in Streams, WorkerStays(s) \/ PreparationStays(s), TypeOK'
  PROVE  LifecycleInv'
<1>1. \/ Moves(s, ActivePcs, ActivePcs) /\ UNCHANGED lifecycle
      \/ Moves(s, PreparePcs, PreparePcs) /\ UNCHANGED lifecycle
  BY ActiveMove, PreparationMove
<1>2. PICK b \in Pcs : /\ Goto(s, b)
                       /\ \/ pc[s] \in ActivePcs /\ b \in ActivePcs
                          \/ pc[s] \in PreparePcs /\ b \in PreparePcs
  BY <1>1 DEF Moves, Pcs, TrackedPcs
<1>3. UNCHANGED <<stopping, preparing, shutdowns, active, wg, spc>>
  BY <1>1 DEF Moves, lifecycle, shutdown
<1>4. Accounting'
  <2>1. ActivePcs \subseteq TrackedPcs /\ PreparePcs \subseteq TrackedPcs
    BY DEF TrackedPcs
  <2>2. ActivePcs \intersect PreparePcs = {}
    BY DEF ActivePcs, WritePcs, EmitPcs, LeavePcs, PreparePcs
  <2>3. pc[s] \in ActivePcs <=> s \in active
    BY DEF LifecycleInv, Accounting
  <2> QED
    BY <1>1, <1>2, <1>3, <2>1, <2>2, <2>3, AccountsOfMove DEF LifecycleInv, Accounting, Moves
<1>5. StoppedIsEmpty'
  BY <1>3 DEF LifecycleInv, StoppedIsEmpty
<1>6. OutputLeft'
  <2>1. CASE Emit(s)
    BY <2>1 DEF Emit, At, Goto, OutputLeft, LifecycleInv, TypeOK, worker
  <2>2. CASE ~Emit(s)
    <3>1. b # "emitting"
      BY <2>2, <1>2
      DEF WorkerStays, PreparationStays, Goto, At, LifecycleInv, TypeOK,
          Forward, CheckTerminal, ChunkError, WritePayload, EmitEnds, SelectPrimary,
          FlushRewriter, Complete, ReadReturns, ReadFails, ReadChunk,
          EmitCallReturns, EmitReturns, EmitFails, CloseHost, CloseHostReturns,
          HostAlreadyClosed, AfterHostClose, ClosePlugin, ClosePluginReturns,
          PluginAlreadyClosed, FinishReturns, OuterCloseReturns, Reclose, RecloseReturns,
          PrepareFails, CallExecuteStream, AdmitRefused, DropHost, DropHostReturns,
          ExecuteStreamReturns
    <3>2. out' = out \/ \E n : out' = [out EXCEPT ![s] = n]
      BY DEF WorkerStays, PreparationStays, worker,
          Forward, CheckTerminal, ChunkError, WritePayload, Emit, EmitEnds, SelectPrimary,
          FlushRewriter, Complete, ReadReturns, ReadFails, ReadChunk,
          EmitCallReturns, EmitReturns, EmitFails, CloseHost, CloseHostReturns,
          HostAlreadyClosed, AfterHostClose, ClosePlugin, ClosePluginReturns,
          PluginAlreadyClosed, FinishReturns, OuterCloseReturns, Reclose, RecloseReturns,
          PrepareFails, CallExecuteStream, AdmitRefused, DropHost, DropHostReturns,
          ExecuteStreamReturns
    <3> QED
      BY <3>1, <3>2, <1>2 DEF OutputLeft, LifecycleInv, TypeOK, WorkerTypeOK, Goto
  <2> QED
    BY <2>1, <2>2
<1> QED
  BY <1>4, <1>5, <1>6 DEF LifecycleInv

(* How the classes of labels lie in one another: the two classes the       *)
(* counters stand for are disjoint parts of the tracked ones.              *)
LEMMA ClassesDisjoint ==
  /\ PreparePcs \subseteq TrackedPcs /\ ActivePcs \subseteq TrackedPcs /\ TrackedPcs \subseteq Pcs
  /\ PreparePcs \intersect ActivePcs = {}
  /\ {"preparationEnded", "unregistered"} \subseteq TrackedPcs \ (PreparePcs \union ActivePcs)
  /\ {"idle", "done"} \subseteq Pcs \ TrackedPcs
  /\ {"prepare", "admit", "endPreparation"} \subseteq PreparePcs
  /\ {"loop", "unregister"} \subseteq ActivePcs
  BY DEF PreparePcs, ActivePcs, WritePcs, EmitPcs, LeavePcs, TrackedPcs, Pcs

(* A shutdown call that has begun and not returned is counted.             *)
LEMMA BusyShutdownsCounted ==
  ASSUME LifecycleInv, NEW d \in Shutdowns, spc[d] \in SweepPcs
  PROVE  shutdowns > 0
<1>1. Count(Shutdowns, spc, SweepPcs) # 0
  BY CountIsNat
<1> QED
  BY <1>1 DEF LifecycleInv, Accounting, TypeOK, LifecycleTypeOK

(* The steps of a stream that change an account, one by one.               *)
LEMMA InvBegin ==
  ASSUME LifecycleInv, NEW s \in Streams, BeginRefused(s) \/ Begin(s)
  PROVE  LifecycleInv'
<1> USE ClassesDisjoint DEF LifecycleInv
<1>1. LifecycleTypeOK'
  BY DEF BeginRefused, Begin, TypeOK, LifecycleTypeOK, lifecycle
<1>2. TypeOK'
  BY <1>1, TypePrepare
<1>3. Accounting'
  <2>1. CASE BeginRefused(s)
    <3>1. Goto(s, "done") /\ UNCHANGED shutdown /\ pc[s] = "idle"
      BY <2>1 DEF BeginRefused, At
    <3> QED
      BY <2>1, <3>1, AccountsOfMove DEF Accounting, BeginRefused, lifecycle
  <2>2. CASE Begin(s)
    <3>1. Goto(s, "prepare") /\ UNCHANGED shutdown /\ pc[s] = "idle"
      BY <2>2 DEF Begin, At
    <3> QED
      BY <2>2, <3>1, AccountsOfMove DEF Accounting, Begin
  <2> QED
    BY <2>1, <2>2
<1>4. StoppedIsEmpty'
  <2>1. CASE BeginRefused(s)
    BY <2>1 DEF StoppedIsEmpty, BeginRefused, lifecycle, shutdown
  <2>2. CASE Begin(s)
    BY <2>2, BusyShutdownsCounted DEF StoppedIsEmpty, Begin, shutdown, SweepPcs
  <2> QED
    BY <2>1, <2>2
<1>5. OutputLeft'
  BY DEF OutputLeft, BeginRefused, Begin, Goto, TypeOK, worker
<1> QED
  BY <1>2, <1>3, <1>4, <1>5

(* An admission moves a stream from the ones in preparation to the active  *)
(* ones, under one lock.                                                   *)
LEMMA InvAdmit ==
  ASSUME LifecycleInv, NEW s \in Streams, Admit(s)
  PROVE  LifecycleInv'
<1> USE ClassesDisjoint DEF LifecycleInv
<1>1. Goto(s, "loop") /\ UNCHANGED shutdown /\ pc[s] = "admit"
  BY DEF Admit, At
<1>2. Accounting' /\ preparing > 0
  BY <1>1, AccountsOfMove DEF Accounting, Admit
<1>3. LifecycleTypeOK'
  BY <1>2 DEF Admit, TypeOK, LifecycleTypeOK
<1>4. TypeOK'
  BY <1>3, TypePrepare DEF Prepare
<1>5. StoppedIsEmpty'
  BY DEF StoppedIsEmpty, Admit, shutdown
<1>6. OutputLeft'
  BY <1>1 DEF OutputLeft, Admit, Goto, TypeOK, worker
<1> QED
  BY <1>2, <1>4, <1>5, <1>6

(* The end of a preparation that was not admitted leaves the WaitGroup's   *)
(* count to the step after it.                                             *)
LEMMA InvEndPreparation ==
  ASSUME LifecycleInv, NEW s \in Streams, EndPreparation(s)
  PROVE  LifecycleInv'
<1> USE ClassesDisjoint DEF LifecycleInv
<1>1. Goto(s, "preparationEnded") /\ UNCHANGED shutdown /\ pc[s] = "endPreparation"
  BY DEF EndPreparation, At
<1>2. Accounting' /\ preparing > 0
  BY <1>1, AccountsOfMove DEF Accounting, EndPreparation
<1>3. LifecycleTypeOK'
  BY <1>2 DEF EndPreparation, TypeOK, LifecycleTypeOK
<1>4. TypeOK'
  BY <1>3, TypePrepare DEF Prepare
<1>5. StoppedIsEmpty'
  BY DEF StoppedIsEmpty, EndPreparation, shutdown
<1>6. OutputLeft'
  BY <1>1 DEF OutputLeft, EndPreparation, Goto, TypeOK, worker
<1> QED
  BY <1>2, <1>4, <1>5, <1>6

(* A worker leaves the map before it leaves the WaitGroup.                 *)
LEMMA InvUnregister ==
  ASSUME LifecycleInv, NEW s \in Streams, Unregister(s)
  PROVE  LifecycleInv'
<1> USE ClassesDisjoint DEF LifecycleInv
<1>1. Goto(s, "unregistered") /\ UNCHANGED shutdown /\ pc[s] = "unregister"
  BY DEF Unregister, At
<1>2. Accounting'
  BY <1>1, AccountsOfMove DEF Accounting, Unregister
<1>3. LifecycleTypeOK'
  BY DEF Unregister, TypeOK, LifecycleTypeOK
<1>4. TypeOK'
  BY <1>3, TypeClose DEF Close
<1>5. StoppedIsEmpty'
  BY DEF StoppedIsEmpty, Unregister, shutdown
<1>6. OutputLeft'
  BY <1>1 DEF OutputLeft, Unregister, Goto, TypeOK, worker
<1> QED
  BY <1>2, <1>4, <1>5, <1>6

(* wg.Done of a worker or of a preparation takes one from a count that is  *)
(* not zero.                                                               *)
LEMMA InvDone ==
  ASSUME LifecycleInv, NEW s \in Streams, PreparationDone(s) \/ WorkerDone(s)
  PROVE  LifecycleInv'
<1> USE ClassesDisjoint DEF LifecycleInv
<1>1. /\ Goto(s, "done") /\ UNCHANGED shutdown
      /\ pc[s] \in {"preparationEnded", "unregistered"}
      /\ wg' = wg - 1 /\ UNCHANGED <<stopping, preparing, shutdowns, active, worker>>
  BY DEF PreparationDone, WorkerDone, At
<1>2. Accounting' /\ wg > 0
  <2>1. s \notin active
    BY <1>1 DEF Accounting
  <2> QED
    BY <1>1, <2>1, AccountsOfMove DEF Accounting
<1>3. LifecycleTypeOK'
  BY <1>1, <1>2 DEF TypeOK, LifecycleTypeOK
<1>4. TypeOK'
  BY <1>3, TypePrepare, TypeClose DEF Prepare, Close
<1>5. StoppedIsEmpty'
  BY <1>1, <1>2 DEF StoppedIsEmpty, shutdown
<1>6. OutputLeft'
  BY <1>1 DEF OutputLeft, Goto, TypeOK, worker
<1> QED
  BY <1>2, <1>4, <1>5, <1>6

(* A shutdown that begins stops the lifecycle and counts itself.           *)
LEMMA InvBeginShutdown ==
  ASSUME LifecycleInv, NEW d \in Shutdowns, BeginShutdown(d)
  PROVE  LifecycleInv'
<1> USE DEF LifecycleInv
<1>1. LifecycleTypeOK'
  BY DEF BeginShutdown, TypeOK, LifecycleTypeOK
<1>2. TypeOK'
  BY <1>1, TypeShutdown
<1>3. Accounting'
  <2>1. /\ spc \in [Shutdowns -> SweepPcs \union {"idle"}]
        /\ spc' = [spc EXCEPT ![d] = "sweep"]
        /\ spc[d] = "idle"
    BY DEF BeginShutdown, TypeOK, ShutdownTypeOK
  <2>2. CountMoves(Shutdowns, spc, spc', d, SweepPcs)
    BY <2>1, CountMove
  <2>3. Count(Shutdowns, spc', SweepPcs) = shutdowns + 1
    BY <2>1, <2>2 DEF CountMoves, SweepPcs, Accounting
  <2> QED
    BY <2>3 DEF Accounting, BeginShutdown
<1>4. StoppedIsEmpty'
  <2>1. shutdowns' > 0 /\ stopping'
    BY DEF BeginShutdown, TypeOK, LifecycleTypeOK
  <2>2. \A e \in Shutdowns : spc'[e] = "waited" => spc[e] = "waited"
    BY DEF BeginShutdown, TypeOK, ShutdownTypeOK
  <2> QED
    BY <2>1, <2>2 DEF StoppedIsEmpty, BeginShutdown
<1>5. OutputLeft'
  BY DEF OutputLeft, BeginShutdown, worker
<1> QED
  BY <1>2, <1>3, <1>4, <1>5

(* The steps of a shutdown between its marking and its return.             *)
LEMMA InvSweep ==
  ASSUME LifecycleInv, NEW d \in Shutdowns, Sweep(d), ~ShutdownReturns(d)
  PROVE  LifecycleInv'
<1> USE DEF LifecycleInv
<1>1. /\ UNCHANGED <<lifecycle, pc, worker>>
      /\ spc[d] \in SweepPcs
      /\ \E b \in SweepPcs : /\ spc' = [spc EXCEPT ![d] = b]
                             /\ b = "waited" => wg = 0 \/ spc[d] = "waited"
  <2>1. spc' = spc => spc' = [spc EXCEPT ![d] = spc[d]]
    BY DEF TypeOK, ShutdownTypeOK
  <2> QED
    BY <2>1 DEF Sweep, Interrupt, InterruptReturns, InterruptSkipped, CloseActive,
           CloseActiveReturns, CloseActiveSkipped, WaitEnds, Sweeping, SweepPcs
<1>2. TypeOK'
  BY <1>1, TypeShutdown, TypeUnchanged DEF TypeOK
<1>3. Accounting'
  <2>1. CountMoves(Shutdowns, spc, spc', d, SweepPcs)
    BY <1>1, CountMove DEF TypeOK, ShutdownTypeOK
  <2>2. Count(Shutdowns, spc', SweepPcs) = shutdowns
    BY <1>1, <2>1 DEF CountMoves, Accounting, TypeOK, ShutdownTypeOK
  <2> QED
    BY <1>1, <2>2 DEF Accounting, lifecycle
<1>4. StoppedIsEmpty'
  BY <1>1 DEF StoppedIsEmpty, lifecycle, TypeOK, ShutdownTypeOK
<1>5. OutputLeft'
  BY <1>1 DEF OutputLeft, worker
<1> QED
  BY <1>2, <1>3, <1>4, <1>5

(* A shutdown returns after its wait, with the lifecycle stopped and the   *)
(* WaitGroup at zero for the next reset.                                   *)
LEMMA InvShutdownReturns ==
  ASSUME LifecycleInv, NEW d \in Shutdowns, ShutdownReturns(d)
  PROVE  LifecycleInv'
<1> USE DEF LifecycleInv
<1>1. /\ spc \in [Shutdowns -> SweepPcs \union {"idle"}]
      /\ spc' = [spc EXCEPT ![d] = "idle"]
      /\ spc[d] = "waited"
      /\ shutdowns' = shutdowns - 1 /\ UNCHANGED <<stopping, preparing, active, wg, pc, worker>>
  BY DEF ShutdownReturns, TypeOK, ShutdownTypeOK
<1>2. shutdowns > 0
  BY <1>1, BusyShutdownsCounted DEF SweepPcs
<1>3. TypeOK'
  BY <1>1, <1>2, TypeShutdown DEF Sweep, TypeOK, LifecycleTypeOK
<1>4. Accounting'
  <2>1. CountMoves(Shutdowns, spc, spc', d, SweepPcs)
    BY <1>1, CountMove
  <2> QED
    BY <1>1, <2>1 DEF CountMoves, Accounting, SweepPcs
<1>5. StoppedIsEmpty'
  BY <1>1, <1>2 DEF StoppedIsEmpty, TypeOK, LifecycleTypeOK
<1>6. OutputLeft'
  BY <1>1 DEF OutputLeft, worker
<1> QED
  BY <1>3, <1>4, <1>5, <1>6

(* A reset is refused while a shutdown is counted, so it finds the         *)
(* accounts as they were.                                                  *)
LEMMA InvReset ==
  ASSUME LifecycleInv, ResetLifecycle
  PROVE  LifecycleInv'
<1> USE DEF LifecycleInv
<1>1. TypeOK'
  BY TypeUnchanged DEF ResetLifecycle, TypeOK, LifecycleTypeOK
<1>2. UNCHANGED <<preparing, shutdowns, active, wg, pc, spc, out>> /\ shutdowns = 0 /\ ~stopping'
  BY DEF ResetLifecycle, shutdown, worker
<1>3. Accounting'
  BY <1>2 DEF Accounting
<1>4. StoppedIsEmpty'
  BY <1>2 DEF StoppedIsEmpty
<1>5. OutputLeft'
  BY <1>2 DEF OutputLeft
<1> QED
  BY <1>1, <1>3, <1>4, <1>5

(* The accounts are right in a plugin that was just loaded.                *)
LEMMA InvInit == Init => LifecycleInv
<1> SUFFICES ASSUME Init
             PROVE  LifecycleInv
  OBVIOUS
<1>1. TypeOK
  <2>1. LifecycleTypeOK /\ TerminalTypeOK /\ ClosingTypeOK
    BY DEF Init, LifecycleTypeOK, TerminalTypeOK, ClosingTypeOK, OnceState
  <2>2. WorkerTypeOK /\ ShutdownTypeOK
    BY DEF Init, WorkerTypeOK, ShutdownTypeOK, SweepPcs
  <2>3. <<>> \in Seq(Report)
    OBVIOUS
  <2>4. HostTypeOK
    BY <2>3 DEF Init, HostTypeOK
  <2> QED
    BY <2>1, <2>2, <2>4 DEF Init, TypeOK, Pcs
<1>2. Accounting
  <2>1. \A s \in Streams : pc[s] \notin TrackedPcs
    BY ClassesDisjoint DEF Init
  <2>2. Count(Streams, pc, PreparePcs) = 0 /\ Count(Streams, pc, TrackedPcs) = 0
    BY <2>1, CountIsNat, ClassesDisjoint
  <2>3. Count(Shutdowns, spc, SweepPcs) = 0
    BY CountIsNat DEF Init, SweepPcs
  <2> QED
    BY <2>1, <2>2, <2>3, ClassesDisjoint DEF Init, Accounting
<1>3. StoppedIsEmpty /\ OutputLeft
  BY DEF Init, StoppedIsEmpty, OutputLeft
<1> QED
  BY <1>1, <1>2, <1>3 DEF LifecycleInv

(* Every step keeps the accounts right: the goroutine's steps that leave   *)
(* the counters alone together, the others one lemma each.                 *)
LEMMA InvStep == LifecycleInv /\ [Next]_vars => LifecycleInv'
<1> SUFFICES ASSUME LifecycleInv, [Next]_vars
             PROVE  LifecycleInv'
  OBVIOUS
<1>1. ASSUME NEW s \in Streams, WorkerStays(s)
      PROVE  LifecycleInv'
  <2>1. UNCHANGED lifecycle
    BY <1>1, ActiveMove
  <2>2. TypeOK'
    BY <1>1, <2>1, TypeForward, TypeClose, TypeUnchanged DEF WorkerStays, Close, LifecycleInv, TypeOK
  <2> QED
    BY <1>1, <2>2, InvStays
<1>2. ASSUME NEW s \in Streams, PreparationStays(s)
      PROVE  LifecycleInv'
  <2>1. UNCHANGED lifecycle
    BY <1>2, PreparationMove
  <2>2. TypeOK'
    BY <1>2, <2>1, TypePrepare, TypeUnchanged DEF PreparationStays, Prepare, LifecycleInv, TypeOK
  <2> QED
    BY <1>2, <2>2, InvStays
<1>3. ASSUME NEW s \in Streams, Stream(s)
      PROVE  LifecycleInv'
  BY <1>1, <1>2, <1>3, InvBegin, InvAdmit, InvEndPreparation, InvUnregister, InvDone
  DEF Stream, Prepare, Close, WorkerStays, PreparationStays
<1>4. ASSUME NEW d \in Shutdowns, BeginShutdown(d) \/ Sweep(d)
      PROVE  LifecycleInv'
  BY <1>4, InvBeginShutdown, InvSweep, InvShutdownReturns
<1>5. CASE UNCHANGED vars
  <2>1. UNCHANGED <<lifecycle, terminal, closing, pc, worker, host, shutdown>>
    BY <1>5 DEF vars
  <2>2. TypeOK'
    BY <2>1, TypeUnchanged DEF LifecycleInv, TypeOK
  <2> QED
    BY <2>1, <2>2
    DEF LifecycleInv, Accounting, StoppedIsEmpty, OutputLeft, lifecycle, shutdown, worker
<1> QED
  BY <1>3, <1>4, <1>5, InvReset DEF Next

(* The types and the accounts hold in every state.                         *)
THEOREM LifecycleInvariant == Spec => []LifecycleInv
  BY InvInit, InvStep, PTL DEF Spec

(* The variables keep their types.                                         *)
THEOREM TypeCorrect == Spec => []TypeOK
<1>1. LifecycleInv => TypeOK
  BY DEF LifecycleInv
<1> QED
  BY <1>1, LifecycleInvariant, PTL

(* wg, preparing, active and shutdowns count exactly what they stand for.  *)
THEOREM AccountsCorrect == Spec => []Accounting
<1>1. LifecycleInv => Accounting
  BY DEF LifecycleInv
<1> QED
  BY <1>1, LifecycleInvariant, PTL

(* Nothing of a stream runs once a shutdown has returned from its wait.    *)
THEOREM ShutdownIsQuiet == Spec => []QuietAfterShutdown
<1>1. LifecycleInv => QuietAfterShutdown
  <2> SUFFICES ASSUME LifecycleInv,
                      (stopping /\ shutdowns = 0) \/ \E d \in Shutdowns : spc[d] = "waited"
               PROVE  \A s \in Streams : pc[s] \in {"idle", "done"}
    BY DEF QuietAfterShutdown
  <2>1. wg = 0
    BY DEF LifecycleInv, StoppedIsEmpty
  <2>2. \A s \in Streams : pc[s] \notin TrackedPcs
    BY <2>1, CountIsNat DEF LifecycleInv, Accounting
  <2> QED
    BY <2>2 DEF LifecycleInv, TypeOK, Pcs
<1> QED
  BY <1>1, LifecycleInvariant, PTL

(* No wg.Add while a shutdown is in progress.                              *)
THEOREM WaitGroupNotReused == Spec => NoAddDuringWait
<1>1. LifecycleInv /\ [Next]_vars => [wg' > wg => \A d \in Shutdowns : spc[d] = "idle"]_vars
  <2> SUFFICES ASSUME LifecycleInv, Next, wg' > wg
               PROVE  \A d \in Shutdowns : spc[d] = "idle"
    OBVIOUS
  <2>1. \E s \in Streams : Begin(s)
    <3>1. wg \in Nat
      BY DEF LifecycleInv, TypeOK, LifecycleTypeOK
    <3>2. \A s \in Streams : WorkerStays(s) => wg' = wg
      BY ActiveMove DEF lifecycle
    <3>3. \A s \in Streams : PreparationStays(s) => wg' = wg
      BY PreparationMove DEF lifecycle
    <3> QED
      BY <3>1, <3>2, <3>3
      DEF Next, Stream, Prepare, Close, WorkerStays, PreparationStays, BeginRefused, Admit,
          EndPreparation, PreparationDone, Unregister, WorkerDone, BeginShutdown, Sweep,
          Interrupt, InterruptReturns, InterruptSkipped, CloseActive, CloseActiveReturns,
          CloseActiveSkipped, WaitEnds, ShutdownReturns, ResetLifecycle, lifecycle
  <2>2. shutdowns = 0
    BY <2>1 DEF Begin, LifecycleInv, StoppedIsEmpty, TypeOK, LifecycleTypeOK
  <2> QED
    BY <2>2, BusyShutdownsCounted DEF LifecycleInv, TypeOK, ShutdownTypeOK
<1> QED
  BY <1>1, LifecycleInvariant, PTL DEF Spec, NoAddDuringWait
-----------------------------------------------------------------------------
(* Outcomes.                                                               *)

(* Outcomes that are selected are left as they are.                        *)
OutcomesStay ==
  \A s \in Streams : terminalSelected[s] =>
     terminalSelected'[s] /\ terminalErr'[s] = terminalErr[s]

(* A worker that selects does so for its own stream, when nobody has.      *)
LEMMA SelectionIsFirst ==
  ASSUME TypeOK, NEW s \in Streams, NEW primary, NEW completed,
         SelectTerminal(s, primary, completed)
  PROVE  OutcomesStay
BY DEF OutcomesStay, SelectTerminal, TypeOK, TerminalTypeOK

(* The steps of a worker that select: all others leave the outcomes alone. *)
LEMMA WorkerKeepsOutcomes ==
  ASSUME TypeOK, NEW s \in Streams, Forward(s) \/ ReadReturns(s) \/ EmitCallReturns(s)
  PROVE  OutcomesStay
<1>1. CASE UNCHANGED terminal
  BY <1>1 DEF terminal, OutcomesStay
<1>2. CASE ChunkError(s) \/ SelectPrimary(s) \/ Complete(s)
  BY <1>2, SelectionIsFirst DEF ChunkError, SelectPrimary, Complete
<1>3. CASE WritePayload(s) /\ ~UNCHANGED terminal
  BY <1>3, SelectionIsFirst DEF WritePayload
<1>4. CASE FlushRewriter(s) /\ ~UNCHANGED terminal
  BY <1>4, SelectionIsFirst DEF FlushRewriter
<1> QED
  BY <1>1, <1>2, <1>3, <1>4
  DEF Forward, ReadReturns, EmitCallReturns, CheckTerminal, Emit, EmitEnds, ReadFails,
      ReadChunk, EmitReturns, EmitFails

(* A shutdown marks only the streams without an outcome.                   *)
LEMMA ShutdownKeepsOutcomes ==
  ASSUME TypeOK, NEW d \in Shutdowns, BeginShutdown(d)
  PROVE  OutcomesStay
BY DEF OutcomesStay, BeginShutdown, TypeOK, TerminalTypeOK

(* No step changes an outcome that is selected.                            *)
LEMMA StepKeepsOutcomes ==
  ASSUME LifecycleInv, Next
  PROVE  OutcomesStay
<1>0. TypeOK
  BY DEF LifecycleInv
<1>1. CASE UNCHANGED terminal
  BY <1>1 DEF terminal, OutcomesStay
<1>2. CASE \E s \in Streams : Forward(s) \/ ReadReturns(s) \/ EmitCallReturns(s)
  BY <1>0, <1>2, WorkerKeepsOutcomes
<1>3. CASE \E d \in Shutdowns : BeginShutdown(d)
  BY <1>0, <1>3, ShutdownKeepsOutcomes
<1>4. ASSUME NEW s \in Streams, Close(s)
      PROVE  UNCHANGED terminal
  BY <1>4
  DEF Close, CloseHost, CloseHostReturns, HostAlreadyClosed, AfterHostClose, ClosePlugin,
      ClosePluginReturns, PluginAlreadyClosed, OuterCloseReturns, Reclose, RecloseReturns,
      Unregister, WorkerDone
<1>5. ASSUME NEW s \in Streams,
             BeginRefused(s) \/ Begin(s) \/ Prepare(s) \/ ExecuteStreamReturns(s)
      PROVE  UNCHANGED terminal
  BY <1>5
  DEF BeginRefused, Begin, Prepare, PrepareFails, CallExecuteStream, ExecuteStreamReturns,
      Admit, AdmitRefused, DropHost, DropHostReturns, EndPreparation, PreparationDone
<1>6. ASSUME NEW d \in Shutdowns, Sweep(d)
      PROVE  UNCHANGED terminal
  BY <1>6
  DEF Sweep, Interrupt, InterruptReturns, InterruptSkipped, CloseActive, CloseActiveReturns,
      CloseActiveSkipped, WaitEnds, ShutdownReturns
<1>7. CASE ResetLifecycle
  BY <1>7, <1>1 DEF ResetLifecycle
<1> QED
  BY <1>1, <1>2, <1>3, <1>4, <1>5, <1>6, <1>7 DEF Next, Stream

(* The first selection of an outcome is the last.                          *)
THEOREM OutcomeStays == Spec => OutcomeSelectedOnce
<1>1. LifecycleInv /\ [Next]_vars => [OutcomesStay]_vars
  BY StepKeepsOutcomes
<1>2. [][OutcomesStay]_vars => OutcomeSelectedOnce
  BY PTL DEF OutcomeSelectedOnce, OutcomesStay
<1> QED
  BY <1>1, <1>2, LifecycleInvariant, PTL DEF Spec

-----------------------------------------------------------------------------
(* The stream lifecycle implements StreamService: its initial states map   *)
(* to initial states of the service, and every step maps to a step of the  *)
(* service or to none.                                                     *)

(* A worker closes its streams and leaves only with an outcome.            *)
LeavingPcs == LeavePcs \union {"unregistered"}
LeaversDecided == \A s \in Streams : pc[s] \in LeavingPcs => terminalSelected[s]

IInv == LifecycleInv /\ LeaversDecided

-----------------------------------------------------------------------------
(* One stream's step moves that stream only.                               *)
LEMMA StreamMoves ==
  ASSUME NEW s \in Streams, Stream(s)
  PROVE  \E b : Goto(s, b)
<1>1. CASE BeginRefused(s) \/ Begin(s) \/ Prepare(s) \/ ExecuteStreamReturns(s)
  BY <1>1
  DEF BeginRefused, Begin, Prepare, PrepareFails, CallExecuteStream, ExecuteStreamReturns,
      Admit, AdmitRefused, DropHost, DropHostReturns, EndPreparation, PreparationDone
<1>2. CASE Forward(s) \/ ReadReturns(s) \/ EmitCallReturns(s)
  BY <1>2
  DEF Forward, CheckTerminal, ChunkError, WritePayload, Emit, EmitEnds, SelectPrimary,
      FlushRewriter, Complete, ReadReturns, ReadFails, ReadChunk, EmitCallReturns,
      EmitReturns, EmitFails
<1>3. CASE Close(s)
  BY <1>3
  DEF Close, CloseHost, CloseHostReturns, HostAlreadyClosed, AfterHostClose, ClosePlugin,
      ClosePluginReturns, PluginAlreadyClosed, FinishReturns, OuterCloseReturns, Reclose,
      RecloseReturns, Unregister, WorkerDone
<1> QED
  BY <1>1, <1>2, <1>3 DEF Stream

(* A worker begins to leave by completing its output.                      *)
LEMMA LeavingBegins ==
  ASSUME TypeOK, NEW s \in Streams, Stream(s), pc[s] \notin LeavingPcs, pc'[s] \in LeavingPcs
  PROVE  Complete(s)
<1> USE DEF Goto, At, LeavingPcs, LeavePcs, TypeOK
<1>1. CASE BeginRefused(s) \/ Begin(s) \/ Prepare(s) \/ ExecuteStreamReturns(s)
  BY <1>1
  DEF BeginRefused, Begin, Prepare, PrepareFails, CallExecuteStream, ExecuteStreamReturns,
      Admit, AdmitRefused, DropHost, DropHostReturns, EndPreparation, PreparationDone
<1>2. CASE Forward(s) \/ ReadReturns(s) \/ EmitCallReturns(s)
  BY <1>2
  DEF Forward, CheckTerminal, ChunkError, WritePayload, Emit, EmitEnds, SelectPrimary,
      FlushRewriter, ReadReturns, ReadFails, ReadChunk, EmitCallReturns, EmitReturns, EmitFails
<1>3. CASE Close(s)
  BY <1>3
  DEF Close, CloseHost, CloseHostReturns, HostAlreadyClosed, ClosePlugin,
      ClosePluginReturns, PluginAlreadyClosed, OuterCloseReturns, Reclose,
      RecloseReturns, Unregister, WorkerDone
<1> QED
  BY <1>1, <1>2, <1>3 DEF Stream

(* The workers that leave keep being decided.                              *)
LEMMA StepKeepsDecided ==
  ASSUME IInv, [Next]_vars
  PROVE  LeaversDecided'
<1> USE DEF IInv
<1>1. CASE UNCHANGED vars
  BY <1>1 DEF vars, terminal, LeaversDecided
<1>2. CASE Next
  <2> SUFFICES ASSUME NEW s \in Streams, pc'[s] \in LeavingPcs
               PROVE  terminalSelected'[s]
    BY DEF LeaversDecided
  <2>1. CASE pc[s] \in LeavingPcs
    BY <1>2, <2>1, StepKeepsOutcomes DEF LeaversDecided, OutcomesStay
  <2>2. CASE pc[s] \notin LeavingPcs
    <3>1. Stream(s)
      <4>1. ASSUME NEW t \in Streams, Stream(t), t # s
            PROVE  pc'[s] = pc[s]
        BY <4>1, StreamMoves DEF Goto, LifecycleInv, TypeOK
      <4>2. ASSUME NEW d \in Shutdowns, BeginShutdown(d) \/ Sweep(d)
            PROVE  pc' = pc
        BY <4>2 DEF BeginShutdown, Sweep, Interrupt, InterruptReturns, InterruptSkipped,
               CloseActive, CloseActiveReturns, CloseActiveSkipped, WaitEnds, ShutdownReturns
      <4> QED
        BY <1>2, <2>2, <4>1, <4>2 DEF Next, ResetLifecycle
    <3>2. Complete(s)
      BY <2>2, <3>1, LeavingBegins DEF LifecycleInv
    <3> QED
      BY <3>2 DEF Complete, SelectTerminal, LifecycleInv, TypeOK, TerminalTypeOK
  <2> QED
    BY <2>1, <2>2
<1> QED
  BY <1>1, <1>2

-----------------------------------------------------------------------------
(* What the service sees of a stream depends on its label and outcome.     *)
LEMMA ServiceVariables ==
  /\ UNCHANGED <<stopping, shutdowns>> => UNCHANGED ServicePhase
  /\ UNCHANGED pc => UNCHANGED <<ServicePending, ServiceOpen>>
  /\ UNCHANGED terminal => UNCHANGED ServiceOutcome
BY DEF ServicePhase, ServicePending, ServiceOpen, ServiceOutcome, terminal

(* The service sees nothing of a move within one class of labels.          *)
LEMMA UnseenMove ==
  ASSUME TypeOK, NEW s \in Streams, NEW b \in Pcs, Goto(s, b),
         pc[s] \in PreparePcs \union {"preparationEnded"}
           <=> b \in PreparePcs \union {"preparationEnded"},
         pc[s] \in ActivePcs \union {"unregistered"}
           <=> b \in ActivePcs \union {"unregistered"}
  PROVE  UNCHANGED <<ServicePending, ServiceOpen>>
BY DEF ServicePending, ServiceOpen, Goto, TypeOK

(* A selection of a worker's is a decision of the service, or was made     *)
(* before, or selects nothing yet.                                         *)
LEMMA SelectionDecides ==
  ASSUME TypeOK, NEW s \in Streams, NEW primary \in SUBSET Causes, NEW completed \in BOOLEAN,
         SelectTerminal(s, primary, completed), s \in ServiceOpen,
         UNCHANGED <<ServicePhase, ServicePending, ServiceOpen>>
  PROVE  Service!Decide(s) \/ UNCHANGED ServiceOutcome
<1> USE DEF TypeOK, TerminalTypeOK, ServiceOutcome
<1>1. CASE ~terminalSelected[s] /\ (primary # {} \/ completed)
  <2> DEFINE o == IF primary = {} THEN "completed" ELSE "failed"
  <2>1. terminalSelected'[s] /\ terminalErr'[s] = primary
    BY <1>1 DEF SelectTerminal
  <2>2. \A t \in Streams \ {s} : /\ terminalSelected'[t] = terminalSelected[t]
                                 /\ terminalErr'[t] = terminalErr[t]
    BY DEF SelectTerminal
  <2>3. ServiceOutcome' = [ServiceOutcome EXCEPT ![s] = o]
    BY <2>1, <2>2
  <2>4. ServiceOutcome[s] = "none" /\ o \in Service!Outcome \ {"none"}
    BY <1>1 DEF Service!Outcome
  <2> QED
    BY <2>3, <2>4 DEF Service!Decide
<1>2. CASE ~(~terminalSelected[s] /\ (primary # {} \/ completed))
  <2>1. \A t \in Streams : /\ terminalSelected'[t] = terminalSelected[t]
                           /\ terminalErr'[t] = terminalErr[t]
    BY <1>2 DEF SelectTerminal
  <2> QED
    BY <2>1
<1> QED
  BY <1>1, <1>2

(* A worker's steps decide the outcome of its stream or show nothing.      *)
LEMMA WorkerStep ==
  ASSUME IInv, NEW s \in Streams, WorkerStays(s)
  PROVE  Service!Decide(s) \/ UNCHANGED Service!vars
<1>0. TypeOK
  BY DEF IInv, LifecycleInv
<1>1. /\ UNCHANGED <<ServicePhase, ServicePending, ServiceOpen>>
      /\ s \in ServiceOpen
  <2>1. Moves(s, ActivePcs, ActivePcs) /\ UNCHANGED lifecycle
    BY ActiveMove
  <2>2. PICK b \in ActivePcs : Goto(s, b)
    BY <2>1 DEF Moves
  <2>3. UNCHANGED <<ServicePending, ServiceOpen>>
    BY <1>0, <2>1, <2>2, UnseenMove, ClassesDisjoint DEF Moves
  <2> QED
    BY <2>1, <2>3, ServiceVariables DEF Moves, ServiceOpen, lifecycle
<1>2. UNCHANGED ServiceOutcome => UNCHANGED Service!vars
  BY <1>1 DEF Service!vars
<1>3. CASE UNCHANGED terminal
  BY <1>2, <1>3, ServiceVariables
<1>4. CASE ~UNCHANGED terminal
  <2>1. \E primary \in SUBSET Causes, completed \in BOOLEAN : SelectTerminal(s, primary, completed)
    <3>1. err[s] \in SUBSET Causes
      BY <1>0 DEF TypeOK, WorkerTypeOK
    <3>2. CASE ChunkError(s) \/ SelectPrimary(s) \/ Complete(s)
      BY <3>1, <3>2 DEF ChunkError, SelectPrimary, Complete
    <3>3. CASE WritePayload(s) \/ FlushRewriter(s)
      BY <1>4, <3>3, CausesKnown DEF WritePayload, FlushRewriter
    <3> QED
      BY <1>4, <3>2, <3>3
      DEF WorkerStays, Forward, ReadReturns, EmitCallReturns, CheckTerminal, Emit, EmitEnds,
          ReadFails, ReadChunk, EmitReturns, EmitFails, CloseHost, CloseHostReturns,
          HostAlreadyClosed, AfterHostClose, ClosePlugin, ClosePluginReturns,
          PluginAlreadyClosed, OuterCloseReturns, Reclose, RecloseReturns
  <2> QED
    BY <1>0, <1>1, <1>2, <2>1, SelectionDecides
<1> QED
  BY <1>3, <1>4

(* A preparation shows nothing before its admission or its end.            *)
LEMMA PreparationStep ==
  ASSUME IInv, NEW s \in Streams,
         PreparationStays(s) \/ EndPreparation(s) \/ Unregister(s) \/ BeginRefused(s)
  PROVE  UNCHANGED Service!vars
<1> USE ClassesDisjoint
<1>0. TypeOK
  BY DEF IInv, LifecycleInv
<1>1. UNCHANGED <<stopping, shutdowns, terminal>>
  BY DEF PreparationStays, PrepareFails, CallExecuteStream, AdmitRefused, DropHost,
         DropHostReturns, ExecuteStreamReturns, EndPreparation, Unregister, BeginRefused, lifecycle
<1>2. UNCHANGED <<ServicePending, ServiceOpen>>
  <2>1. CASE PreparationStays(s)
    <3>1. pc[s] \in PreparePcs /\ \E b \in PreparePcs : Goto(s, b)
      BY <2>1, PreparationMove DEF Moves
    <3> QED
      BY <1>0, <3>1, UnseenMove
  <2>2. CASE EndPreparation(s)
    <3>1. pc[s] \in PreparePcs /\ Goto(s, "preparationEnded")
      BY <2>2 DEF EndPreparation, At
    <3> QED
      BY <1>0, <3>1, UnseenMove
  <2>3. CASE Unregister(s)
    <3>1. pc[s] \in ActivePcs /\ Goto(s, "unregistered")
      BY <2>3 DEF Unregister, At
    <3> QED
      BY <1>0, <3>1, UnseenMove
  <2>4. CASE BeginRefused(s)
    <3>1. pc[s] = "idle" /\ Goto(s, "done")
      BY <2>4 DEF BeginRefused, At
    <3> QED
      BY <1>0, <3>1, UnseenMove
  <2> QED
    BY <2>1, <2>2, <2>3, <2>4
<1> QED
  BY <1>1, <1>2, ServiceVariables DEF Service!vars

(* The steps of a stream that the service sees.                            *)
LEMMA StreamStep ==
  ASSUME IInv, NEW s \in Streams, Stream(s)
  PROVE  Service!Next \/ UNCHANGED Service!vars
<1> USE ClassesDisjoint DEF Goto, At
<1>0. TypeOK /\ StoppedIsEmpty /\ LeaversDecided
  BY DEF IInv, LifecycleInv
<1>1. CASE Begin(s)
  <2>1. UNCHANGED <<ServicePhase, ServiceOutcome>> /\ ServicePhase = "serving"
    BY <1>1, ServiceVariables DEF Begin, ServicePhase
  <2>2. ServicePending' = ServicePending \union {s} /\ UNCHANGED ServiceOpen
    BY <1>0, <1>1 DEF Begin, ServicePending, ServiceOpen, TypeOK
  <2>3. s \notin ServicePending \union ServiceOpen
    BY <1>1 DEF Begin, ServicePending, ServiceOpen
  <2> QED
    BY <2>1, <2>2, <2>3 DEF Service!Next, Service!Accept
<1>2. CASE Admit(s)
  <2>1. UNCHANGED <<ServicePhase, ServiceOutcome>> /\ ServicePhase = "serving"
    BY <1>2, ServiceVariables DEF Admit, ServicePhase
  <2>2. ServicePending' = ServicePending \ {s} /\ ServiceOpen' = ServiceOpen \union {s}
    BY <1>0, <1>2 DEF Admit, ServicePending, ServiceOpen, TypeOK
  <2>3. s \in ServicePending
    BY <1>2 DEF Admit, ServicePending
  <2> QED
    BY <2>1, <2>2, <2>3 DEF Service!Next, Service!Admit
<1>3. CASE PreparationDone(s)
  <2>1. UNCHANGED <<ServicePhase, ServiceOutcome>>
    BY <1>3, ServiceVariables DEF PreparationDone
  <2>2. ServicePending' = ServicePending \ {s} /\ UNCHANGED ServiceOpen
    BY <1>0, <1>3 DEF PreparationDone, ServicePending, ServiceOpen, TypeOK
  <2>3. s \in ServicePending
    BY <1>3 DEF PreparationDone, ServicePending
  <2> QED
    BY <2>1, <2>2, <2>3 DEF Service!Next, Service!Abandon
<1>4. CASE WorkerDone(s)
  <2>1. UNCHANGED <<ServicePhase, ServiceOutcome>>
    BY <1>4, ServiceVariables DEF WorkerDone
  <2>2. ServiceOpen' = ServiceOpen \ {s} /\ UNCHANGED ServicePending
    BY <1>0, <1>4 DEF WorkerDone, ServicePending, ServiceOpen, TypeOK
  <2>3. s \in ServiceOpen /\ ServiceOutcome[s] # "none"
    BY <1>0, <1>4 DEF WorkerDone, ServiceOpen, ServiceOutcome, LeaversDecided, LeavingPcs
  <2> QED
    BY <2>1, <2>2, <2>3 DEF Service!Next, Service!Leave
<1>5. CASE WorkerStays(s)
  BY <1>5, WorkerStep DEF Service!Next
<1> QED
  BY <1>1, <1>2, <1>3, <1>4, <1>5, PreparationStep
  DEF Stream, Prepare, Close, WorkerStays, PreparationStays

(* A shutdown that begins is a drain: it fails exactly the streams that    *)
(* are open and undecided, the unregistered ones being decided.            *)
LEMMA ShutdownDrains ==
  ASSUME IInv, NEW d \in Shutdowns, BeginShutdown(d)
  PROVE  Service!Drain
<1>0. TypeOK /\ Accounting /\ LeaversDecided
  BY DEF IInv, LifecycleInv
<1>1. ServicePhase' = "draining"
  BY <1>0 DEF BeginShutdown, ServicePhase, TypeOK, LifecycleTypeOK
<1>2. UNCHANGED <<ServicePending, ServiceOpen>>
  BY ServiceVariables DEF BeginShutdown
<1>3. \A s \in Streams : s \in ServiceOpen /\ ~terminalSelected[s] <=> s \in active /\ ~terminalSelected[s]
  BY <1>0 DEF ServiceOpen, Accounting, LeaversDecided, LeavingPcs
<1>4. ServiceOutcome' =
        [s \in Streams |-> IF s \in ServiceOpen /\ ServiceOutcome[s] = "none"
                           THEN "failed" ELSE ServiceOutcome[s]]
  <2> SUFFICES ASSUME NEW s \in Streams
               PROVE  ServiceOutcome'[s] = IF s \in ServiceOpen /\ ServiceOutcome[s] = "none"
                                           THEN "failed" ELSE ServiceOutcome[s]
    BY DEF ServiceOutcome
  <2>1. CASE s \in active /\ ~terminalSelected[s]
    BY <1>3, <2>1 DEF BeginShutdown, ServiceOutcome
  <2>2. CASE ~(s \in active /\ ~terminalSelected[s])
    <3>1. terminalSelected'[s] = terminalSelected[s] /\ terminalErr'[s] = terminalErr[s]
      BY <1>0, <2>2 DEF BeginShutdown, TypeOK, TerminalTypeOK
    <3> QED
      BY <1>3, <2>2, <3>1 DEF ServiceOutcome
  <2> QED
    BY <2>1, <2>2
<1> QED
  BY <1>1, <1>2, <1>4 DEF Service!Drain

(* The last shutdown to return reports the service stopped.                *)
LEMMA ShutdownStops ==
  ASSUME IInv, NEW d \in Shutdowns, Sweep(d)
  PROVE  Service!Stopped \/ UNCHANGED Service!vars
<1>0. LifecycleInv /\ TypeOK /\ Accounting /\ StoppedIsEmpty
  BY DEF IInv, LifecycleInv
<1>1. UNCHANGED <<ServicePending, ServiceOpen, ServiceOutcome>>
  BY ServiceVariables
  DEF Sweep, Interrupt, InterruptReturns, InterruptSkipped, CloseActive, CloseActiveReturns,
      CloseActiveSkipped, WaitEnds, ShutdownReturns
<1>2. CASE UNCHANGED lifecycle
  BY <1>1, <1>2, ServiceVariables DEF lifecycle, Service!vars
<1>3. CASE ShutdownReturns(d)
  <2>1. spc[d] = "waited" /\ shutdowns' = shutdowns - 1 /\ UNCHANGED stopping
    BY <1>3 DEF ShutdownReturns
  <2>2. shutdowns > 0 /\ stopping /\ wg = 0 /\ shutdowns \in Nat
    BY <1>0, <2>1, BusyShutdownsCounted DEF SweepPcs, StoppedIsEmpty, TypeOK, LifecycleTypeOK
  <2>3. \A s \in Streams : pc[s] \notin TrackedPcs
    <3>1. Count(Streams, pc, TrackedPcs) = 0
      BY <1>0, <2>2 DEF Accounting
    <3> QED
      BY <3>1, StreamsFinite, CountIsNat
  <2>4. ServicePending = {} /\ ServiceOpen = {}
    BY <2>3, ClassesDisjoint DEF ServicePending, ServiceOpen
  <2> QED
    BY <1>1, <2>1, <2>2, <2>4 DEF ServicePhase, Service!Stopped, Service!vars
<1> QED
  BY <1>2, <1>3
  DEF Sweep, Interrupt, InterruptReturns, InterruptSkipped, CloseActive, CloseActiveReturns,
      CloseActiveSkipped, WaitEnds

(* A reset restarts the service, or does nothing to one that serves.       *)
LEMMA ResetRestarts ==
  ASSUME IInv, ResetLifecycle
  PROVE  Service!Restart \/ UNCHANGED Service!vars
<1>1. UNCHANGED <<ServicePending, ServiceOpen, ServiceOutcome>>
  BY ServiceVariables DEF ResetLifecycle
<1>2. ServicePhase' = "serving" /\ ServicePhase \in {"serving", "stopped"}
  BY DEF ResetLifecycle, ServicePhase
<1> QED
  BY <1>1, <1>2 DEF Service!Restart, Service!vars

-----------------------------------------------------------------------------
(* A plugin just loaded is a service just started.                         *)
LEMMA InitMaps == ASSUME Init PROVE IInv /\ Service!Init
<1>1. LifecycleInv
  BY InvInit
<1>2. LeaversDecided
  BY DEF Init, LeaversDecided, LeavingPcs, LeavePcs
<1>3. ServicePending = {} /\ ServiceOpen = {}
  BY ClassesDisjoint DEF Init, ServicePending, ServiceOpen
<1>4. ServicePhase = "serving" /\ ServiceOutcome = [s \in Streams |-> "none"]
  BY DEF Init, ServicePhase, ServiceOutcome
<1> QED
  BY <1>1, <1>2, <1>3, <1>4 DEF IInv, Service!Init

(* Every step is a step of the service, or none.                           *)
LEMMA StepMaps == ASSUME IInv, [Next]_vars PROVE [Service!Next]_(Service!vars)
<1>1. CASE UNCHANGED vars
  BY <1>1, ServiceVariables DEF vars, lifecycle, Service!vars
<1>2. CASE Next
  BY <1>2, StreamStep, ShutdownDrains, ShutdownStops, ResetRestarts DEF Next, Service!Next
<1> QED
  BY <1>1, <1>2

(* The goroutines, counters, locks and host calls of executor_stream.go    *)
(* keep the promise of StreamService.                                      *)
THEOREM LifecycleImplementsService == Spec => ImplementsService
<1>1. IInv /\ [Next]_vars => IInv'
  BY InvStep, StepKeepsDecided DEF IInv
<1>2. Spec => []IInv
  BY <1>1, InitMaps, PTL DEF Spec
<1> QED
  BY <1>2, InitMaps, StepMaps, PTL DEF Spec, Service!Spec, ImplementsService

-----------------------------------------------------------------------------
(* The closes of a stream, whoever makes them.                             *)

(* What the label of a worker, its outcome, the shutdowns that took its    *)
(* stream and the closes say of one another.                               *)
StagesOf(s) ==
  /\ WorkerStage(s) /\ OutcomeStage(s) /\ TakenStage(s)
  /\ HostStage(s) /\ PluginStage(s) /\ ReportStage(s)

(* All that a step of one stream may change is about that stream.          *)
Untouched(t) ==
  /\ pc'[t] = pc[t]
  /\ terminalSelected'[t] = terminalSelected[t] /\ terminalErr'[t] = terminalErr[t]
  /\ outputFinished'[t] = outputFinished[t]
  /\ hostOnce'[t] = hostOnce[t] /\ hostErr'[t] = hostErr[t] /\ pluginOnce'[t] = pluginOnce[t]
  /\ err'[t] = err[t] /\ eof'[t] = eof[t] /\ quiet'[t] = quiet[t]
  /\ flushing'[t] = flushing[t] /\ emitFailed'[t] = emitFailed[t] /\ out'[t] = out[t]
  /\ opened'[t] = opened[t] /\ closes'[t] = closes[t] /\ reports'[t] = reports[t]

(* A stream of which nothing changes keeps its stages, whatever happens to *)
(* other streams.                                                          *)
LEMMA StagesUntouched ==
  ASSUME NEW t, StagesOf(t), Untouched(t), UNCHANGED shutdown
  PROVE  StagesOf(t)'
<1> USE DEF Untouched, shutdown
<1>1. WorkerStage(t)'
  BY DEF StagesOf, WorkerStage, Finishing
<1>2. OutcomeStage(t)'
  BY DEF StagesOf, OutcomeStage
<1>3. TakenStage(t)'
  BY DEF StagesOf, TakenStage
<1>4. HostStage(t)'
  BY DEF StagesOf, HostStage
<1>5. PluginStage(t)'
  BY DEF StagesOf, PluginStage
<1>6. ReportStage(t)'
  BY DEF StagesOf, ReportStage, CleanReport
<1> QED
  BY <1>1, <1>2, <1>3, <1>4, <1>5, <1>6 DEF StagesOf

(* The steps of a stream touch no other stream.                            *)
LEMMA OthersUntouched ==
  ASSUME TypeOK, NEW s \in Streams, Stream(s), NEW t \in Streams, t # s
  PROVE  Untouched(t) /\ UNCHANGED shutdown
<1> USE DEF Untouched, TypeOK, TerminalTypeOK, ClosingTypeOK, WorkerTypeOK, HostTypeOK,
            terminal, closing, worker, host, Goto
<1>1. CASE BeginRefused(s) \/ Begin(s) \/ ExecuteStreamReturns(s)
  BY <1>1 DEF BeginRefused, Begin, ExecuteStreamReturns
<1>2. CASE Prepare(s)
  BY <1>2 DEF Prepare, PrepareFails, CallExecuteStream, Admit, AdmitRefused, DropHost,
              DropHostReturns, HostCloseReturns, EndPreparation, PreparationDone
<1>3. CASE CheckTerminal(s) \/ ChunkError(s) \/ WritePayload(s) \/ Emit(s) \/ EmitEnds(s)
  BY <1>3 DEF CheckTerminal, ChunkError, WritePayload, Emit, EmitEnds, SelectTerminal, SelectedErr
<1>4. CASE SelectPrimary(s) \/ FlushRewriter(s) \/ Complete(s)
  BY <1>4 DEF SelectPrimary, FlushRewriter, Complete, SelectTerminal, SelectedErr
<1>5. CASE ReadReturns(s) \/ EmitCallReturns(s)
  BY <1>5 DEF ReadReturns, ReadFails, ReadChunk, EmitCallReturns, EmitReturns, EmitFails
<1>6. CASE CloseHost(s) \/ CloseHostReturns(s) \/ HostAlreadyClosed(s)
  BY <1>6 DEF CloseHost, CloseHostReturns, HostAlreadyClosed, HostCloseReturns, AfterHostClose
<1>7. CASE ClosePlugin(s) \/ ClosePluginReturns(s) \/ PluginAlreadyClosed(s)
  BY <1>7 DEF ClosePlugin, ClosePluginReturns, PluginAlreadyClosed, PluginCloseReturns, FinishReturns
<1>8. CASE OuterCloseReturns(s) \/ Reclose(s) \/ RecloseReturns(s)
  BY <1>8 DEF OuterCloseReturns, Reclose, RecloseReturns, PluginCloseReturns
<1>9. CASE Unregister(s) \/ WorkerDone(s)
  BY <1>9 DEF Unregister, WorkerDone
<1> QED
  BY <1>1, <1>2, <1>3, <1>4, <1>5, <1>6, <1>7, <1>8, <1>9 DEF Stream, Forward, Close

-----------------------------------------------------------------------------
(* The stream that takes a step, one group of actions after the other.     *)

(* A stream that is being prepared has no outcome, nothing is reported of  *)
(* it and no shutdown has taken it.                                        *)
LEMMA StagesPrepared ==
  ASSUME LifecycleInv, NEW s \in Streams, StagesOf(s),
         BeginRefused(s) \/ Begin(s) \/ Prepare(s) \/ ExecuteStreamReturns(s)
  PROVE  StagesOf(s)'
<1> USE DEF LifecycleInv, TypeOK, TerminalTypeOK, ClosingTypeOK, WorkerTypeOK, HostTypeOK,
            terminal, closing, worker, host, shutdown, Goto, At,
            NotYetPcs, LeftPcs, AfterHostPcs, PreparePcs, ActivePcs, WritePcs, EmitPcs, LeavePcs
<1> USE DEF BeginRefused, Begin, ExecuteStreamReturns, Prepare, PrepareFails, CallExecuteStream,
            Admit, AdmitRefused, DropHost, DropHostReturns, HostCloseReturns, EndPreparation,
            PreparationDone
<1>1. WorkerStage(s)'
  BY DEF StagesOf, WorkerStage, Finishing
<1>2. OutcomeStage(s)'
  BY DEF StagesOf, OutcomeStage
<1>3. TakenStage(s)'
  BY DEF StagesOf, TakenStage
<1>4. HostStage(s)'
  BY DEF StagesOf, HostStage
<1>5. PluginStage(s)'
  <2>1. /\ ~terminalSelected[s] /\ UNCHANGED <<terminalSelected, pluginOnce, reports, spc, cur>>
        /\ pc'[s] \in NotYetPcs \union {"loop", "done"}
    BY DEF StagesOf, OutcomeStage
  <2> QED
    BY <2>1 DEF StagesOf, PluginStage
<1>6. ReportStage(s)'
  BY DEF StagesOf, ReportStage, CleanReport
<1> QED
  BY <1>1, <1>2, <1>3, <1>4, <1>5, <1>6 DEF StagesOf

(* A worker that reads, rewrites and emits touches none of the closes; it  *)
(* selects its outcome, and the outcome is natural only when the output is *)
(* finished.                                                               *)
LEMMA StagesForwarded ==
  ASSUME LifecycleInv, NEW s \in Streams, StagesOf(s),
         Forward(s) \/ ReadReturns(s) \/ EmitCallReturns(s)
  PROVE  StagesOf(s)'
<1> USE DEF LifecycleInv, TypeOK, TerminalTypeOK, WorkerTypeOK, OutputLeft,
            terminal, closing, worker, host, shutdown, Goto, At,
            NotYetPcs, LeftPcs, AfterHostPcs, PreparePcs, ActivePcs, WritePcs, EmitPcs, LeavePcs
<1>0. pc'[s] \in WritePcs \union {"closeHost"} /\ pc[s] \in WritePcs
  BY DEF Forward, CheckTerminal, ChunkError, WritePayload, Emit, EmitEnds, SelectPrimary,
         FlushRewriter, Complete, ReadReturns, ReadFails, ReadChunk, EmitCallReturns,
         EmitReturns, EmitFails
<1>a. UNCHANGED <<closing, host, shutdown>>
  BY DEF Forward, CheckTerminal, ChunkError, WritePayload, Emit, EmitEnds, SelectPrimary,
         FlushRewriter, Complete, ReadReturns, ReadFails, ReadChunk, EmitCallReturns,
         EmitReturns, EmitFails
<1>b. OutcomesStay
  BY WorkerKeepsOutcomes
<1>1. WorkerStage(s)' /\ OutcomeStage(s)'
  <2> USE DEF StagesOf, WorkerStage, OutcomeStage, Finishing
  <2>1. CASE CheckTerminal(s)
    BY <2>1 DEF CheckTerminal
  <2>2. CASE ChunkError(s)
    BY <2>2 DEF ChunkError, SelectTerminal, SelectedErr
  <2>3. CASE WritePayload(s)
    <3>1. CASE UNCHANGED <<terminal, err>>
      BY <2>3, <3>1 DEF WritePayload
    <3>2. CASE SelectTerminal(s, {"rewrite"}, FALSE) /\ err' = [err EXCEPT ![s] = @ \union {"rewrite"}]
      BY <2>3, <3>2 DEF WritePayload, SelectTerminal
    <3> QED
      BY <2>3, <3>1, <3>2 DEF WritePayload
  <2>4. CASE Emit(s)
    BY <2>4 DEF Emit
  <2>5. CASE EmitEnds(s)
    BY <2>5 DEF EmitEnds
  <2>6. CASE SelectPrimary(s)
    BY <2>6 DEF SelectPrimary, SelectTerminal, SelectedErr
  <2>7. CASE FlushRewriter(s)
    <3>1. CASE UNCHANGED <<terminal, err>>
      BY <2>7, <3>1 DEF FlushRewriter
    <3>2. CASE SelectTerminal(s, {"flush"}, FALSE) /\ err' = [err EXCEPT ![s] = @ \union {"flush"}]
      BY <2>7, <3>2 DEF FlushRewriter, SelectTerminal
    <3> QED
      BY <2>7, <3>1, <3>2 DEF FlushRewriter
  <2>8. CASE Complete(s)
    BY <2>8 DEF Complete, SelectTerminal, SelectedErr
  <2>9. CASE ReadFails(s)
    BY <2>9 DEF ReadFails
  <2>10. CASE ReadChunk(s)
    BY <2>10 DEF ReadChunk
  <2>11. CASE EmitReturns(s)
    BY <2>11 DEF EmitReturns
  <2>12. CASE EmitFails(s)
    BY <2>12 DEF EmitFails
  <2> QED
    BY <2>1, <2>2, <2>3, <2>4, <2>5, <2>6, <2>7, <2>8, <2>9, <2>10, <2>11, <2>12
    DEF Forward, ReadReturns, EmitCallReturns
<1>3. TakenStage(s)'
  BY <1>0, <1>a, <1>b DEF StagesOf, TakenStage, OutcomeStage, OutcomesStay
<1>4. HostStage(s)'
  BY <1>0, <1>a DEF StagesOf, HostStage
<1>5. PluginStage(s)'
  BY <1>0, <1>a DEF StagesOf, PluginStage
<1>6. ReportStage(s)'
  BY <1>0, <1>a, <1>b DEF StagesOf, ReportStage, CleanReport, OutcomesStay
<1> QED
  BY <1>1, <1>3, <1>4, <1>5, <1>6 DEF StagesOf

(* A worker closes the host stream when nobody is inside its Once, and     *)
(* takes the error of the close with it whoever made it.                   *)
LEMMA StagesHostClosed ==
  ASSUME LifecycleInv, NEW s \in Streams, StagesOf(s),
         CloseHost(s) \/ CloseHostReturns(s) \/ HostAlreadyClosed(s)
  PROVE  StagesOf(s)'
<1> USE DEF LifecycleInv, TypeOK, ClosingTypeOK, WorkerTypeOK, HostTypeOK,
            terminal, closing, worker, host, shutdown, Goto, At,
            NotYetPcs, LeftPcs, AfterHostPcs, PreparePcs, ActivePcs, WritePcs, EmitPcs, LeavePcs
<1>1. /\ pc[s] \in {"closeHost", "closingHost"}
      /\ pc'[s] \in {"closingHost", "return", "closePlugin"}
      /\ UNCHANGED <<terminal, pluginOnce, eof, quiet, flushing, emitFailed, out, opened,
                     reports, shutdown>>
  BY DEF CloseHost, CloseHostReturns, HostAlreadyClosed, AfterHostClose
<1>2. err[s] \subseteq err'[s]
  BY DEF CloseHost, CloseHostReturns, HostAlreadyClosed, AfterHostClose
<1>3. WorkerStage(s)'
  <2>1. pc'[s] = "return" => quiet[s]
    BY DEF CloseHost, CloseHostReturns, HostAlreadyClosed, AfterHostClose
  <2> QED
    BY <1>1, <1>2, <2>1 DEF StagesOf, WorkerStage, Finishing
<1>4. OutcomeStage(s)'
  BY <1>1, <1>2 DEF StagesOf, OutcomeStage
<1>5. TakenStage(s)'
  BY <1>1 DEF StagesOf, TakenStage
<1>6. HostStage(s)'
  <2> USE DEF StagesOf, HostStage
  <2>1. CASE CloseHost(s)
    BY <2>1 DEF CloseHost
  <2>2. CASE CloseHostReturns(s)
    BY <2>2 DEF CloseHostReturns, HostCloseReturns, AfterHostClose
  <2>3. CASE HostAlreadyClosed(s)
    BY <2>3 DEF HostAlreadyClosed, AfterHostClose
  <2> QED
    BY <2>1, <2>2, <2>3
<1>7. PluginStage(s)'
  BY <1>1 DEF StagesOf, PluginStage
<1>8. ReportStage(s)'
  BY <1>1 DEF StagesOf, ReportStage, CleanReport
<1> QED
  BY <1>3, <1>4, <1>5, <1>6, <1>7, <1>8 DEF StagesOf

(* What a close of the plugin stream adds to the reports.                  *)
LEMMA Reported ==
  ASSUME HostTypeOK, NEW s \in Streams, NEW causes, PluginCloseReturns(s, causes)
  PROVE  /\ Len(reports'[s]) = Len(reports[s]) + 1 /\ Len(reports[s]) \in Nat
         /\ DOMAIN reports[s] = 1 .. Len(reports[s])
         /\ DOMAIN reports'[s] = 1 .. Len(reports[s]) + 1
         /\ \A i \in DOMAIN reports[s] : reports'[s][i] = reports[s][i]
         /\ reports'[s][Len(reports[s]) + 1].causes = causes
         /\ \A t \in Streams \ {s} : reports'[t] = reports[t]
<1>1. reports[s] \in Seq(Report) /\ reports \in [Streams -> Seq(Report)]
  BY DEF HostTypeOK
<1>2. PICK failed : reports' = [reports EXCEPT ![s] = Append(@, [causes |-> causes, ok |-> ~failed])]
  BY DEF PluginCloseReturns
<1>3. reports'[s] = Append(reports[s], [causes |-> causes, ok |-> ~failed])
  BY <1>1, <1>2
<1>4. \A t \in Streams \ {s} : reports'[t] = reports[t]
  BY <1>1, <1>2
<1>5. /\ Len(reports'[s]) = Len(reports[s]) + 1 /\ Len(reports[s]) \in Nat
      /\ DOMAIN reports[s] = 1 .. Len(reports[s])
      /\ DOMAIN reports'[s] = 1 .. Len(reports[s]) + 1
      /\ \A i \in DOMAIN reports[s] : reports'[s][i] = reports[s][i]
      /\ reports'[s][Len(reports[s]) + 1] = [causes |-> causes, ok |-> ~failed]
  BY <1>1, <1>3
<1> QED
  BY <1>4, <1>5

(* The worker that enters or skips the Once of the plugin stream, or asks  *)
(* whether the close of someone else failed: nothing is reported.          *)
LEMMA StagesPluginClosing ==
  ASSUME LifecycleInv, NEW s \in Streams, StagesOf(s),
         ClosePlugin(s) \/ PluginAlreadyClosed(s) \/ Reclose(s)
  PROVE  StagesOf(s)'
<1> USE DEF LifecycleInv, TypeOK, ClosingTypeOK, WorkerTypeOK,
            terminal, closing, worker, host, shutdown, Goto, At,
            NotYetPcs, LeftPcs, AfterHostPcs, PreparePcs, ActivePcs, WritePcs, EmitPcs, LeavePcs
<1>1. /\ pc[s] \in {"closePlugin", "return"}
      /\ pc'[s] \in {"closingPlugin", "outerClosing", "return", "reclosing", "unregister"}
      /\ UNCHANGED <<terminal, hostOnce, hostErr, eof, quiet, flushing, emitFailed, out, host, shutdown>>
  BY DEF ClosePlugin, PluginAlreadyClosed, Reclose, FinishReturns
<1>2. err[s] \subseteq err'[s] /\ (pc'[s] \in {"return", "outerClosing", "reclosing"} => err'[s] # {})
  BY DEF ClosePlugin, PluginAlreadyClosed, Reclose, FinishReturns, StagesOf, WorkerStage
<1>3. WorkerStage(s)'
  BY <1>1, <1>2 DEF StagesOf, WorkerStage, Finishing
<1>4. OutcomeStage(s)'
  BY <1>1, <1>2 DEF StagesOf, OutcomeStage
<1>5. TakenStage(s)'
  BY <1>1 DEF StagesOf, TakenStage
<1>6. HostStage(s)'
  BY <1>1, <1>2 DEF StagesOf, HostStage
<1>7. PluginStage(s)'
  <2> USE DEF StagesOf, PluginStage
  <2>1. CASE ClosePlugin(s)
    BY <2>1 DEF ClosePlugin
  <2>2. CASE PluginAlreadyClosed(s)
    BY <2>2 DEF PluginAlreadyClosed, FinishReturns, ClosePluginErr
  <2>3. CASE Reclose(s)
    BY <2>3 DEF Reclose, ClosePluginErr
  <2> QED
    BY <2>1, <2>2, <2>3
<1>8. ReportStage(s)'
  <2>1. pc'[s] \in {"closingPlugin", "outerClosing"} => reports[s] = <<>>
    BY DEF ClosePlugin, PluginAlreadyClosed, Reclose, FinishReturns, StagesOf, PluginStage
  <2>2. reports[s] = <<>> => DOMAIN reports'[s] = {}
    BY <1>1
  <2>3. CASE pc'[s] \in {"outerClosing", "closingPlugin"}
    BY <1>1, <2>1, <2>2, <2>3 DEF ReportStage
  <2>4. CASE pc'[s] \in {"return", "reclosing", "unregister"}
    BY <1>1, <2>4 DEF StagesOf, ReportStage, CleanReport
  <2> QED
    BY <1>1, <2>3, <2>4
<1> QED
  BY <1>3, <1>4, <1>5, <1>6, <1>7, <1>8 DEF StagesOf

(* The worker's own close of the plugin stream: it reports the worker's    *)
(* error, which holds the selected one, and reports none only when the     *)
(* stream was read to its end and all of it was accepted.                  *)
LEMMA StagesPluginClosed ==
  ASSUME LifecycleInv, NEW s \in Streams, StagesOf(s),
         ClosePluginReturns(s) \/ OuterCloseReturns(s) \/ RecloseReturns(s)
  PROVE  StagesOf(s)'
<1> USE DEF LifecycleInv, TypeOK, ClosingTypeOK, WorkerTypeOK,
            terminal, closing, worker, shutdown, Goto, At,
            NotYetPcs, LeftPcs, AfterHostPcs, PreparePcs, ActivePcs, WritePcs, EmitPcs, LeavePcs
<1>1. /\ pc[s] \in {"closingPlugin", "outerClosing", "reclosing"}
      /\ pc'[s] \in {"return", "unregister"}
      /\ pluginOnce'[s] = "done"
      /\ UNCHANGED <<terminal, hostOnce, hostErr, eof, quiet, flushing, emitFailed, out,
                     opened, closes, shutdown>>
  BY DEF ClosePluginReturns, OuterCloseReturns, RecloseReturns, FinishReturns, StagesOf, PluginStage
<1>2. err[s] \subseteq err'[s] /\ (pc'[s] = "return" => err'[s] # {})
  BY DEF ClosePluginReturns, OuterCloseReturns, RecloseReturns, FinishReturns
<1>3. PluginCloseReturns(s, err[s])
  BY DEF ClosePluginReturns, OuterCloseReturns, RecloseReturns
<1>4. /\ Len(reports'[s]) = Len(reports[s]) + 1 /\ Len(reports[s]) \in Nat
      /\ DOMAIN reports[s] = 1 .. Len(reports[s])
      /\ DOMAIN reports'[s] = 1 .. Len(reports[s]) + 1
      /\ \A i \in DOMAIN reports[s] : reports'[s][i] = reports[s][i]
      /\ reports'[s][Len(reports[s]) + 1].causes = err[s]
  BY <1>3, Reported
<1>5. /\ pc[s] = "reclosing" => Len(reports[s]) = 1 /\ ~reports[s][1].ok
      /\ pc[s] # "reclosing" => Len(reports[s]) = 0
  BY <1>1, <1>4 DEF StagesOf, PluginStage
<1>6. WorkerStage(s)'
  BY <1>1, <1>2 DEF StagesOf, WorkerStage, Finishing
<1>7. OutcomeStage(s)'
  BY <1>1, <1>2 DEF StagesOf, OutcomeStage
<1>8. TakenStage(s)'
  BY <1>1 DEF StagesOf, TakenStage
<1>9. HostStage(s)'
  BY <1>1, <1>2 DEF StagesOf, HostStage
<1>10. PluginStage(s)'
  <2>1. pc[s] = "reclosing" => pc'[s] = "unregister"
    BY DEF ClosePluginReturns, OuterCloseReturns, RecloseReturns
  <2>2. \A d \in Shutdowns : ~(spc[d] = "interrupting" /\ s \in cur[d])
    BY <1>1 DEF StagesOf, PluginStage
  <2>3. /\ Len(reports'[s]) \in 1 .. 2
        /\ Len(reports'[s]) = 2 => ~reports'[s][1].ok /\ pc'[s] = "unregister"
    <3>1. CASE pc[s] = "reclosing"
      <4>1. Len(reports[s]) = 1 /\ ~reports[s][1].ok /\ 1 \in DOMAIN reports[s]
        BY <1>4, <1>5, <3>1
      <4> QED
        BY <1>4, <2>1, <3>1, <4>1
    <3>2. CASE pc[s] # "reclosing"
      BY <1>4, <1>5, <3>2
    <3> QED
      BY <3>1, <3>2
  <2> QED
    BY <1>1, <2>2, <2>3 DEF PluginStage
<1>11. ReportStage(s)'
  <2>1. pc[s] \in {"outerClosing", "reclosing"} => err[s] # {}
    BY DEF StagesOf, WorkerStage
  <2>2. err[s] = {} => CleanReport(s)'
    BY <1>1, <2>1 DEF StagesOf, WorkerStage, OutcomeStage, HostStage, CleanReport, Finishing
  <2>3. terminalSelected'[s] /\ terminalErr'[s] \subseteq err[s]
    BY <1>1 DEF StagesOf, OutcomeStage
  <2>4. ASSUME NEW i \in DOMAIN reports'[s], i # Len(reports[s]) + 1
        PROVE  /\ terminalSelected[s] /\ terminalErr[s] \subseteq reports'[s][i].causes
               /\ reports'[s][i].causes = {} => i = 1 /\ CleanReport(s)
    <3>1. i \in DOMAIN reports[s] /\ reports'[s][i] = reports[s][i]
      BY <1>4, <2>4
    <3> QED
      BY <3>1 DEF StagesOf, ReportStage
  <2>5. CleanReport(s) => CleanReport(s)'
    BY <1>1 DEF CleanReport
  <2> QED
    BY <1>1, <1>4, <1>5, <2>1, <2>2, <2>3, <2>4, <2>5 DEF ReportStage
<1> QED
  BY <1>6, <1>7, <1>8, <1>9, <1>10, <1>11 DEF StagesOf

(* A worker that leaves has closed both of its streams.                    *)
LEMMA StagesLeft ==
  ASSUME LifecycleInv, NEW s \in Streams, StagesOf(s), Unregister(s) \/ WorkerDone(s)
  PROVE  StagesOf(s)'
<1> USE DEF LifecycleInv, TypeOK,
            terminal, closing, worker, host, shutdown, Goto, At,
            NotYetPcs, LeftPcs, AfterHostPcs, PreparePcs, ActivePcs, WritePcs, EmitPcs, LeavePcs
<1>1. /\ \/ pc[s] = "unregister" /\ pc'[s] = "unregistered"
         \/ pc[s] = "unregistered" /\ pc'[s] = "done"
      /\ UNCHANGED <<terminal, closing, worker, host, shutdown>>
  BY DEF Unregister, WorkerDone
<1>2. WorkerStage(s)' /\ OutcomeStage(s)'
  BY <1>1 DEF StagesOf, WorkerStage, OutcomeStage, Finishing
<1>3. TakenStage(s)' /\ HostStage(s)'
  BY <1>1 DEF StagesOf, TakenStage, HostStage
<1>4. PluginStage(s)' /\ ReportStage(s)'
  BY <1>1 DEF StagesOf, PluginStage, ReportStage, CleanReport
<1> QED
  BY <1>2, <1>3, <1>4 DEF StagesOf

-----------------------------------------------------------------------------
(* The steps of a shutdown call, for every stream.                         *)

(* What a step of a shutdown keeps of a stream whose closes and outcome it *)
(* does not touch, if it has not taken it either.                          *)
LEMMA StagesMarked ==
  ASSUME LifecycleInv, NEW d \in Shutdowns, BeginShutdown(d), NEW t \in Streams, StagesOf(t)
  PROVE  StagesOf(t)'
<1> USE DEF LifecycleInv, TypeOK, TerminalTypeOK, ShutdownTypeOK, Accounting,
            closing, worker, host,
            NotYetPcs, LeftPcs, PreparePcs, ActivePcs, WritePcs, EmitPcs, LeavePcs
<1>1. /\ spc[d] = "idle" /\ spc' = [spc EXCEPT ![d] = "sweep"]
      /\ UNCHANGED <<outputFinished, closing, pc, worker, host, cur>>
  BY DEF BeginShutdown
<1>2. \/ UNCHANGED <<terminalSelected[t], terminalErr[t]>>
      \/ /\ pc[t] \in ActivePcs /\ ~terminalSelected[t]
         /\ terminalSelected'[t] /\ terminalErr'[t] = {"shutdown"}
  BY DEF BeginShutdown
<1>3. WorkerStage(t)'
  BY <1>1 DEF StagesOf, WorkerStage, Finishing
<1>4. OutcomeStage(t)'
  BY <1>1, <1>2 DEF StagesOf, OutcomeStage
<1>5. TakenStage(t)'
  <2>1. \A e \in Shutdowns : e # d => UNCHANGED <<toInterrupt[e], toClose[e], cur[e], spc[e]>>
    BY <1>1 DEF BeginShutdown
  <2>2. /\ t \in toInterrupt'[d] => pc[t] \in ActivePcs /\ terminalErr'[t] # {}
        /\ t \in toClose'[d] => pc[t] \in ActivePcs
    BY DEF BeginShutdown
  <2>3. terminalErr[t] # {} => terminalErr'[t] # {}
    BY <1>2
  <2> QED
    BY <1>1, <2>1, <2>2, <2>3 DEF StagesOf, TakenStage
<1>6. HostStage(t)'
  BY <1>1 DEF StagesOf, HostStage
<1>7. PluginStage(t)'
  BY <1>1, <1>2 DEF StagesOf, PluginStage
<1>8. ReportStage(t)'
  BY <1>1, <1>2 DEF StagesOf, ReportStage, CleanReport
<1> QED
  BY <1>3, <1>4, <1>5, <1>6, <1>7, <1>8 DEF StagesOf

(* A shutdown enters the Once of the plugin stream when nobody else has,   *)
(* for a stream with an error to report.                                   *)
LEMMA StagesInterrupted ==
  ASSUME LifecycleInv, NEW d \in Shutdowns, NEW s \in Streams, Interrupt(d, s) \/ InterruptSkipped(d, s),
         NEW t \in Streams, StagesOf(t)
  PROVE  StagesOf(t)'
<1> USE DEF LifecycleInv, TypeOK, ClosingTypeOK, ShutdownTypeOK,
            terminal, closing, worker, host, Sweeping,
            NotYetPcs, LeftPcs, AfterHostPcs, PreparePcs, ActivePcs, WritePcs, EmitPcs, LeavePcs
<1> USE DEF Interrupt, InterruptSkipped
<1>1. WorkerStage(t)' /\ OutcomeStage(t)'
  BY DEF StagesOf, WorkerStage, OutcomeStage, Finishing
<1>2. TakenStage(t)'
  BY DEF StagesOf, TakenStage
<1>3. HostStage(t)'
  BY DEF StagesOf, HostStage
<1>4. PluginStage(t)'
  BY DEF StagesOf, PluginStage
<1>5. ReportStage(t)'
  BY DEF StagesOf, ReportStage, CleanReport
<1> QED
  BY <1>1, <1>2, <1>3, <1>4, <1>5 DEF StagesOf

(* The close of an interrupted stream reports its outcome, an error.       *)
LEMMA StagesInterruptReturned ==
  ASSUME LifecycleInv, NEW d \in Shutdowns, NEW s \in Streams, InterruptReturns(d, s),
         StagesOf(s), NEW t \in Streams, StagesOf(t)
  PROVE  StagesOf(t)'
<1> USE DEF LifecycleInv, TypeOK, ClosingTypeOK, ShutdownTypeOK,
            terminal, closing, worker, host,
            NotYetPcs, LeftPcs, AfterHostPcs, PreparePcs, ActivePcs, WritePcs, EmitPcs, LeavePcs
<1>1. /\ spc[d] = "interrupting" /\ s \in cur[d]
      /\ pluginOnce' = [pluginOnce EXCEPT ![s] = "done"]
      /\ toInterrupt' = [toInterrupt EXCEPT ![d] = @ \ {s}]
      /\ cur' = [cur EXCEPT ![d] = {}]
      /\ spc' = [spc EXCEPT ![d] = "sweep"]
      /\ UNCHANGED <<lifecycle, terminal, hostOnce, hostErr, pc, worker, opened, closes, toClose>>
  BY DEF InterruptReturns
<1>2. /\ DOMAIN reports[s] = 1 .. Len(reports[s])
      /\ Len(reports[s]) \in Nat /\ Len(reports'[s]) = Len(reports[s]) + 1
      /\ DOMAIN reports'[s] = 1 .. Len(reports[s]) + 1
      /\ reports'[s][Len(reports[s]) + 1].causes = terminalErr[s]
      /\ t # s => reports'[t] = reports[t]
  BY Reported DEF InterruptReturns
<1>3. /\ pluginOnce[s] = "running" /\ pc[s] \notin {"closingPlugin", "outerClosing"}
      /\ terminalErr[s] # {} /\ terminalSelected[s]
      /\ reports[s] = <<>>
  BY <1>1 DEF StagesOf, PluginStage, TakenStage, OutcomeStage
<1>4. Len(reports'[s]) = 1 /\ DOMAIN reports'[s] = {1} /\ reports'[s][1].causes = terminalErr[s]
  BY <1>2, <1>3
<1>5. WorkerStage(t)' /\ OutcomeStage(t)'
  BY <1>1 DEF StagesOf, WorkerStage, OutcomeStage, Finishing
<1>6. TakenStage(t)'
  BY <1>1 DEF StagesOf, TakenStage
<1>7. HostStage(t)'
  BY <1>1 DEF StagesOf, HostStage
<1>8. PluginStage(t)'
  <2>1. CASE t = s
    <3>1. pc[s] \notin {"closingPlugin", "outerClosing", "reclosing"}
      BY <1>3 DEF StagesOf, PluginStage
    <3>2. pluginOnce'[s] = "done" /\ pc'[s] = pc[s]
      BY <1>1
    <3>3. \A e \in Shutdowns : ~(spc'[e] = "interrupting" /\ s \in cur'[e])
      BY <1>1 DEF StagesOf, PluginStage
    <3>4. Len(reports'[s]) \in 1 .. 2 /\ Len(reports'[s]) # 2
      BY <1>4
    <3> QED
      BY <2>1, <3>1, <3>2, <3>3, <3>4 DEF PluginStage
  <2>2. CASE t # s
    BY <1>1, <1>2, <2>2 DEF StagesOf, PluginStage
  <2> QED
    BY <2>1, <2>2
<1>9. ReportStage(t)'
  <2>1. CASE t = s
    BY <1>1, <1>3, <1>4, <2>1 DEF ReportStage
  <2>2. CASE t # s
    BY <1>1, <1>2, <2>2 DEF StagesOf, ReportStage, CleanReport
  <2> QED
    BY <2>1, <2>2
<1> QED
  BY <1>5, <1>6, <1>7, <1>8, <1>9 DEF StagesOf

(* A shutdown closes the host streams that nobody has begun to close.      *)
LEMMA StagesHostSwept ==
  ASSUME LifecycleInv, NEW d \in Shutdowns, NEW s \in Streams,
         CloseActive(d, s) \/ CloseActiveReturns(d, s) \/ CloseActiveSkipped(d, s),
         StagesOf(s), NEW t \in Streams, StagesOf(t)
  PROVE  StagesOf(t)'
<1> USE DEF LifecycleInv, TypeOK, ClosingTypeOK, ShutdownTypeOK, HostTypeOK,
            terminal, closing, worker, host, Sweeping,
            NotYetPcs, LeftPcs, AfterHostPcs, PreparePcs, ActivePcs, WritePcs, EmitPcs, LeavePcs
<1>1. /\ UNCHANGED <<lifecycle, terminal, pluginOnce, pc, worker, opened, reports, toInterrupt>>
      /\ \A e \in Shutdowns : e # d => UNCHANGED <<spc[e], cur[e], toClose[e]>>
      /\ spc'[d] \in {"sweep", "closing"} /\ toClose'[d] \subseteq toClose[d]
      /\ cur'[d] \subseteq cur[d] \union toClose[d]
  BY DEF CloseActive, CloseActiveReturns, CloseActiveSkipped
<1>2. WorkerStage(t)' /\ OutcomeStage(t)'
  BY <1>1 DEF StagesOf, WorkerStage, OutcomeStage, Finishing
<1>3. TakenStage(t)'
  BY <1>1 DEF StagesOf, TakenStage
<1>4. HostStage(t)'
  <2> USE DEF StagesOf, HostStage
  <2>1. CASE CloseActive(d, s)
    BY <2>1 DEF CloseActive, TakenStage
  <2>2. CASE CloseActiveReturns(d, s)
    <3>1. PICK failed \in BOOLEAN : hostErr' = [hostErr EXCEPT ![s] = failed]
      BY <2>2 DEF CloseActiveReturns, HostCloseReturns, Failing
    <3> QED
      BY <2>2, <3>1 DEF CloseActiveReturns, HostCloseReturns, TakenStage
  <2>3. CASE CloseActiveSkipped(d, s)
    BY <2>3 DEF CloseActiveSkipped
  <2> QED
    BY <2>1, <2>2, <2>3
<1>5. PluginStage(t)'
  BY <1>1 DEF StagesOf, PluginStage
<1>6. ReportStage(t)'
  <2>1. hostOnce[t] = "done" => UNCHANGED <<hostOnce[t], hostErr[t]>>
    BY DEF CloseActive, CloseActiveReturns, CloseActiveSkipped, HostCloseReturns, StagesOf, HostStage
  <2> QED
    BY <1>1, <2>1 DEF StagesOf, ReportStage, CleanReport
<1> QED
  BY <1>2, <1>3, <1>4, <1>5, <1>6 DEF StagesOf

(* The end of a shutdown, and a reset, change nothing of any stream.       *)
LEMMA StagesQuiet ==
  ASSUME LifecycleInv, NEW t \in Streams, StagesOf(t),
         \/ \E d \in Shutdowns : WaitEnds(d) \/ ShutdownReturns(d)
         \/ ResetLifecycle \/ UNCHANGED vars
  PROVE  StagesOf(t)'
<1> USE DEF LifecycleInv, TypeOK, ShutdownTypeOK, Untouched,
            terminal, closing, worker, host, shutdown, Sweeping
<1>1. CASE ResetLifecycle \/ UNCHANGED vars
  <2>1. Untouched(t) /\ UNCHANGED shutdown
    BY <1>1 DEF ResetLifecycle, vars
  <2> QED
    BY <2>1, StagesUntouched
<1>2. ASSUME NEW d \in Shutdowns, WaitEnds(d) \/ ShutdownReturns(d)
      PROVE  StagesOf(t)'
  <2>1. /\ Untouched(t) /\ UNCHANGED <<toInterrupt, toClose, cur>>
        /\ \A e \in Shutdowns : spc'[e] \in {"interrupting", "closing"} => spc'[e] = spc[e]
    BY <1>2 DEF WaitEnds, ShutdownReturns
  <2>2. WorkerStage(t)' /\ OutcomeStage(t)' /\ TakenStage(t)'
    BY <2>1 DEF StagesOf, WorkerStage, OutcomeStage, TakenStage, Finishing
  <2>3. HostStage(t)' /\ PluginStage(t)' /\ ReportStage(t)'
    BY <2>1 DEF StagesOf, HostStage, PluginStage, ReportStage, CleanReport
  <2> QED
    BY <2>2, <2>3 DEF StagesOf
<1> QED
  BY <1>1, <1>2

-----------------------------------------------------------------------------
(* What a shutdown may rely on when it has gone through its lists.         *)

(* A close that has ended stays ended.                                     *)
LEMMA OnceStays ==
  ASSUME LifecycleInv, Next, \A s \in Streams : StagesOf(s), NEW t \in Streams
  PROVE  /\ hostOnce[t] = "done" => hostOnce'[t] = "done"
         /\ pluginOnce[t] = "done" => pluginOnce'[t] = "done"
<1> USE DEF LifecycleInv, TypeOK, ClosingTypeOK, closing
<1>1. ASSUME NEW s \in Streams, Stream(s)
      PROVE  /\ hostOnce[t] = "done" => hostOnce'[t] = "done"
             /\ pluginOnce[t] = "done" => pluginOnce'[t] = "done"
  <2>1. CASE t # s
    BY <1>1, <2>1, OthersUntouched DEF Untouched
  <2>2. CASE t = s
    BY <1>1, <2>2
    DEF Stream, BeginRefused, Begin, Prepare, ExecuteStreamReturns, Forward, ReadReturns,
        EmitCallReturns, Close, PrepareFails, CallExecuteStream, Admit, AdmitRefused, DropHost,
        DropHostReturns, EndPreparation, PreparationDone, HostCloseReturns, CheckTerminal,
        ChunkError, WritePayload, Emit, EmitEnds, SelectPrimary, FlushRewriter, Complete,
        ReadFails, ReadChunk, EmitReturns, EmitFails, CloseHost, CloseHostReturns,
        HostAlreadyClosed, ClosePlugin, ClosePluginReturns, PluginAlreadyClosed,
        OuterCloseReturns, Reclose, RecloseReturns, Unregister, WorkerDone, AfterHostClose,
        StagesOf, HostStage, At
  <2> QED
    BY <2>1, <2>2
<1>2. ASSUME NEW d \in Shutdowns, BeginShutdown(d) \/ Sweep(d)
      PROVE  /\ hostOnce[t] = "done" => hostOnce'[t] = "done"
             /\ pluginOnce[t] = "done" => pluginOnce'[t] = "done"
  BY <1>2 DEF BeginShutdown, Sweep, Interrupt, InterruptReturns, InterruptSkipped, CloseActive,
              CloseActiveReturns, CloseActiveSkipped, HostCloseReturns, WaitEnds, ShutdownReturns
<1> QED
  BY <1>1, <1>2 DEF Next, ResetLifecycle

(* A worker is never added to the active ones while a shutdown runs, and   *)
(* does not come back to its output once it has left it.                   *)
LEMMA NoneJoins ==
  ASSUME LifecycleInv, NEW s \in Streams, Stream(s), NEW d \in Shutdowns, spc[d] \in SweepPcs
  PROVE  /\ active' \subseteq active
         /\ \A t \in active : pc'[t] \in WritePcs => pc[t] \in WritePcs
<1> USE DEF LifecycleInv
<1>1. stopping
  BY BusyShutdownsCounted DEF StoppedIsEmpty
<1>2. active' \subseteq active
  <2>1. WorkerStays(s) \/ PreparationStays(s) => active' = active
    BY ActiveMove, PreparationMove DEF lifecycle
  <2> QED
    BY <1>1, <2>1
    DEF Stream, Prepare, Close, WorkerStays, PreparationStays, BeginRefused, Begin, Admit,
        EndPreparation, PreparationDone, Unregister, WorkerDone, lifecycle
<1>3. ASSUME NEW t \in active, pc'[t] \in WritePcs
      PROVE  pc[t] \in WritePcs
  <2>1. t \in Streams /\ pc[t] \in ActivePcs /\ TypeOK
    BY DEF Accounting
  <2>2. CASE t # s
    BY <1>3, <2>1, <2>2, OthersUntouched DEF Untouched
  <2>3. CASE t = s
    <3> USE DEF ActivePcs, WritePcs, EmitPcs, LeavePcs, TypeOK, At, Goto
    <3>1. CASE Forward(s) \/ ReadReturns(s) \/ EmitCallReturns(s)
      BY <2>3, <3>1
      DEF Forward, ReadReturns, EmitCallReturns, CheckTerminal, ChunkError, WritePayload, Emit,
          EmitEnds, SelectPrimary, FlushRewriter, Complete, ReadFails, ReadChunk, EmitReturns,
          EmitFails
    <3>2. CASE Close(s)
      BY <1>3, <2>1, <2>3, <3>2
      DEF Close, CloseHost, CloseHostReturns, HostAlreadyClosed, ClosePlugin, ClosePluginReturns,
          PluginAlreadyClosed, OuterCloseReturns, Reclose, RecloseReturns, Unregister, WorkerDone,
          AfterHostClose, FinishReturns
    <3>3. CASE BeginRefused(s) \/ Begin(s) \/ Prepare(s) \/ ExecuteStreamReturns(s)
      BY <2>1, <2>3, <3>3
      DEF BeginRefused, Begin, Prepare, ExecuteStreamReturns, PrepareFails, CallExecuteStream,
          Admit, AdmitRefused, DropHost, DropHostReturns, EndPreparation, PreparationDone
    <3> QED
      BY <1>3, <3>1, <3>2, <3>3 DEF Stream
  <2> QED
    BY <2>2, <2>3
<1> QED
  BY <1>2, <1>3

(* A step of a stream leaves what the shutdowns have achieved.             *)
LEMMA ReleasedByStream ==
  ASSUME LifecycleInv, \A t \in Streams : StagesOf(t), NEW s \in Streams, Stream(s),
         NEW d \in Shutdowns, ReleasedStage(d)
  PROVE  ReleasedStage(d)'
<1>1. UNCHANGED shutdown
  BY DEF Stream, BeginRefused, Begin, Prepare, ExecuteStreamReturns, Forward, ReadReturns,
        EmitCallReturns, Close, PrepareFails, CallExecuteStream, Admit, AdmitRefused, DropHost,
        DropHostReturns, EndPreparation, PreparationDone, CheckTerminal,
        ChunkError, WritePayload, Emit, EmitEnds, SelectPrimary, FlushRewriter, Complete,
        ReadFails, ReadChunk, EmitReturns, EmitFails, CloseHost, CloseHostReturns,
        HostAlreadyClosed, ClosePlugin, ClosePluginReturns, PluginAlreadyClosed,
        OuterCloseReturns, Reclose, RecloseReturns, Unregister, WorkerDone, AfterHostClose
<1>2. \A t \in Streams : /\ hostOnce[t] = "done" => hostOnce'[t] = "done"
                         /\ pluginOnce[t] = "done" => pluginOnce'[t] = "done"
  BY OnceStays DEF Next
<1>3. CASE spc[d] \in SweepPcs
  <2>1. active' \subseteq active /\ \A t \in active : pc'[t] \in WritePcs => pc[t] \in WritePcs
    BY <1>3, NoneJoins
  <2>2. active \subseteq Streams
    BY DEF LifecycleInv, Accounting
  <2> QED
    BY <1>1, <1>2, <1>3, <2>1, <2>2 DEF ReleasedStage, shutdown
<1> QED
  BY <1>1, <1>3 DEF ReleasedStage, shutdown

(* The marking: a worker that may still emit has no natural outcome, so it *)
(* is interrupted.                                                         *)
LEMMA ReleasedByMarking ==
  ASSUME LifecycleInv, \A t \in Streams : StagesOf(t), NEW e \in Shutdowns, BeginShutdown(e),
         NEW d \in Shutdowns, ReleasedStage(d)
  PROVE  ReleasedStage(d)'
<1> USE DEF LifecycleInv, TypeOK, TerminalTypeOK, ShutdownTypeOK, closing
<1>1. CASE d # e
  BY <1>1 DEF BeginShutdown, ReleasedStage
<1>2. CASE d = e
  <2>1. toClose'[d] = active'
    BY <1>2 DEF BeginShutdown
  <2>2. ASSUME NEW t \in active, pc[t] \in WritePcs
        PROVE  t \in toInterrupt'[d]
    <3>1. t \in Streams /\ ~outputFinished[t] /\ (terminalSelected[t] => terminalErr[t] # {})
      BY <2>2 DEF Accounting, StagesOf, OutcomeStage, WritePcs, EmitPcs, LeavePcs, LeftPcs
    <3>2. terminalErr'[t] # {}
      BY <3>1, <2>2 DEF BeginShutdown
    <3> QED
      BY <1>2, <2>2, <3>1, <3>2 DEF BeginShutdown
  <2>3. active' = active /\ pc' = pc
    BY DEF BeginShutdown
  <2> QED
    BY <2>1, <2>2, <2>3 DEF ReleasedStage
<1> QED
  BY <1>1, <1>2

(* A stream leaves a shutdown's lists only with the close done.            *)
LEMMA ReleasedBySweep ==
  ASSUME LifecycleInv, \A t \in Streams : StagesOf(t), NEW e \in Shutdowns, Sweep(e),
         NEW d \in Shutdowns, ReleasedStage(d)
  PROVE  ReleasedStage(d)'
<1>1. /\ \A t \in Streams : /\ hostOnce[t] = "done" => hostOnce'[t] = "done"
                            /\ pluginOnce[t] = "done" => pluginOnce'[t] = "done"
      /\ active \subseteq Streams
  BY OnceStays DEF Next, LifecycleInv, Accounting
<1>2. UNCHANGED <<active, pc>>
  BY DEF Sweep, Interrupt, InterruptReturns, InterruptSkipped, CloseActive,
         CloseActiveReturns, CloseActiveSkipped, WaitEnds, ShutdownReturns, lifecycle
<1>3. CASE d # e
  <2>1. UNCHANGED <<spc[d], toInterrupt[d], toClose[d]>>
    BY <1>3 DEF Sweep, Interrupt, InterruptReturns, InterruptSkipped, CloseActive,
           CloseActiveReturns, CloseActiveSkipped, WaitEnds, ShutdownReturns,
           LifecycleInv, TypeOK, ShutdownTypeOK
  <2>2. (spc[d] \in SweepPcs)' = (spc[d] \in SweepPcs)
    BY <2>1
  <2>3. ASSUME spc[d] \in SweepPcs, NEW t \in active
        PROVE  /\ t \notin toClose'[d] => hostOnce'[t] = "done"
               /\ pc'[t] \in WritePcs /\ t \notin toInterrupt'[d] => pluginOnce'[t] = "done"
    <3>1. /\ t \in Streams /\ pc'[t] = pc[t]
          /\ t \notin toClose[d] => hostOnce[t] = "done"
          /\ pc[t] \in WritePcs /\ t \notin toInterrupt[d] => pluginOnce[t] = "done"
      BY <1>1, <1>2, <2>3 DEF ReleasedStage
    <3>2. toClose'[d] = toClose[d] /\ toInterrupt'[d] = toInterrupt[d]
      BY <2>1
    <3>3. /\ hostOnce[t] = "done" => hostOnce'[t] = "done"
          /\ pluginOnce[t] = "done" => pluginOnce'[t] = "done"
      BY <1>1, <3>1
    <3> QED
      BY <3>1, <3>2, <3>3
  <2> QED
    BY <1>2, <2>2, <2>3 DEF ReleasedStage
<1>4. CASE d = e
  <2>1. spc[d] \in SweepPcs
    BY <1>4 DEF Sweep, Interrupt, InterruptReturns, InterruptSkipped, CloseActive,
                CloseActiveReturns, CloseActiveSkipped, WaitEnds, ShutdownReturns,
                SweepPcs, Sweeping
  <2>2. ASSUME NEW t \in Streams, t \in toClose[d], t \notin toClose'[d]
        PROVE  hostOnce'[t] = "done"
    <3>1. PICK s \in Streams : CloseActiveReturns(d, s) \/ CloseActiveSkipped(d, s)
      BY <1>4, <2>2 DEF Sweep, Interrupt, InterruptReturns, InterruptSkipped, CloseActive,
                        WaitEnds, ShutdownReturns
    <3>2. toClose'[d] = toClose[d] \ {s}
      BY <3>1 DEF CloseActiveReturns, CloseActiveSkipped, LifecycleInv, TypeOK, ShutdownTypeOK
    <3>3. hostOnce'[s] = "done"
      BY <3>1 DEF CloseActiveReturns, CloseActiveSkipped, HostCloseReturns, closing,
                  LifecycleInv, TypeOK, ClosingTypeOK
    <3> QED
      BY <2>2, <3>2, <3>3
  <2>3. ASSUME NEW t \in Streams, t \in toInterrupt[d], t \notin toInterrupt'[d]
        PROVE  pluginOnce'[t] = "done"
    BY <1>4, <2>3 DEF Sweep, Interrupt, InterruptReturns, InterruptSkipped, CloseActive,
                CloseActiveReturns, CloseActiveSkipped, WaitEnds, ShutdownReturns,
                LifecycleInv, TypeOK, ShutdownTypeOK, ClosingTypeOK, closing
  <2>4. ASSUME NEW t \in active
        PROVE  /\ t \notin toClose'[d] => hostOnce'[t] = "done"
               /\ pc'[t] \in WritePcs /\ t \notin toInterrupt'[d] => pluginOnce'[t] = "done"
    <3>1. /\ t \in Streams /\ pc'[t] = pc[t]
          /\ t \notin toClose[d] => hostOnce[t] = "done"
          /\ pc[t] \in WritePcs /\ t \notin toInterrupt[d] => pluginOnce[t] = "done"
      BY <1>1, <1>2, <2>1 DEF ReleasedStage
    <3>2. /\ hostOnce[t] = "done" => hostOnce'[t] = "done"
          /\ pluginOnce[t] = "done" => pluginOnce'[t] = "done"
      BY <1>1, <3>1
    <3>3. t \notin toClose'[d] => hostOnce'[t] = "done"
      BY <2>2, <3>1, <3>2
    <3>4. t \notin toInterrupt'[d] /\ pc'[t] \in WritePcs => pluginOnce'[t] = "done"
      BY <2>3, <3>1, <3>2
    <3> QED
      BY <3>3, <3>4
  <2> QED
    BY <1>2, <2>4 DEF ReleasedStage
<1> QED
  BY <1>3, <1>4

-----------------------------------------------------------------------------
(* A plugin that was just loaded has closed nothing.                       *)
LEMMA ClosingInit == Init => ClosingInv
<1> SUFFICES ASSUME Init
             PROVE  ClosingInv
  OBVIOUS
<1>1. LifecycleInv
  BY InvInit
<1> USE DEF Init, NotYetPcs, LeftPcs, AfterHostPcs, PreparePcs, ActivePcs, WritePcs, EmitPcs,
            LeavePcs, SweepPcs
<1>2. ASSUME NEW s \in Streams
      PROVE  WorkerStage(s) /\ OutcomeStage(s) /\ TakenStage(s)
  BY <1>2 DEF WorkerStage, OutcomeStage, TakenStage, Finishing
<1>3. ASSUME NEW s \in Streams
      PROVE  HostStage(s) /\ PluginStage(s) /\ ReportStage(s)
  BY <1>3 DEF HostStage, PluginStage, ReportStage
<1>4. \A d \in Shutdowns : ReleasedStage(d)
  BY DEF ReleasedStage
<1> QED
  BY <1>1, <1>2, <1>3, <1>4 DEF ClosingInv

(* Every step keeps the stages of every stream and what every shutdown has *)
(* achieved.                                                               *)
LEMMA ClosingStep == ClosingInv /\ [Next]_vars => ClosingInv'
<1> SUFFICES ASSUME ClosingInv, [Next]_vars
             PROVE  ClosingInv'
  OBVIOUS
<1>0. LifecycleInv /\ LifecycleInv' /\ (\A t \in Streams : StagesOf(t)) /\ TypeOK
  BY InvStep DEF ClosingInv, StagesOf, LifecycleInv
<1>1. ASSUME NEW s \in Streams, Stream(s)
      PROVE  ClosingInv'
  <2>1. StagesOf(s)'
    BY <1>0, <1>1, StagesPrepared, StagesForwarded, StagesHostClosed, StagesPluginClosing,
       StagesPluginClosed, StagesLeft
    DEF Stream, Close
  <2>2. \A t \in Streams : StagesOf(t)'
    BY <1>0, <1>1, <2>1, OthersUntouched, StagesUntouched
  <2>3. \A d \in Shutdowns : ReleasedStage(d)'
    BY <1>0, <1>1, ReleasedByStream DEF ClosingInv
  <2> QED
    BY <1>0, <2>2, <2>3 DEF ClosingInv, StagesOf
<1>2. ASSUME NEW d \in Shutdowns, BeginShutdown(d)
      PROVE  ClosingInv'
  <2>1. \A t \in Streams : StagesOf(t)'
    BY <1>0, <1>2, StagesMarked
  <2>2. \A e \in Shutdowns : ReleasedStage(e)'
    BY <1>0, <1>2, ReleasedByMarking DEF ClosingInv
  <2> QED
    BY <1>0, <2>1, <2>2 DEF ClosingInv, StagesOf
<1>3. ASSUME NEW d \in Shutdowns, Sweep(d)
      PROVE  ClosingInv'
  <2>1. \A t \in Streams : StagesOf(t)'
    BY <1>0, <1>3, StagesInterrupted, StagesInterruptReturned, StagesHostSwept, StagesQuiet DEF Sweep
  <2>2. \A e \in Shutdowns : ReleasedStage(e)'
    BY <1>0, <1>3, ReleasedBySweep DEF ClosingInv
  <2> QED
    BY <1>0, <2>1, <2>2 DEF ClosingInv, StagesOf
<1>4. CASE ResetLifecycle \/ UNCHANGED vars
  <2>1. \A t \in Streams : StagesOf(t)'
    BY <1>0, <1>4, StagesQuiet
  <2>2. ASSUME NEW d \in Shutdowns
        PROVE  ReleasedStage(d)'
    BY <1>4 DEF ClosingInv, ReleasedStage, ResetLifecycle, vars, lifecycle, closing, shutdown
  <2> QED
    BY <1>0, <2>1, <2>2 DEF ClosingInv, StagesOf
<1> QED
  BY <1>1, <1>2, <1>3, <1>4 DEF Next

(* The stages hold in every state.                                         *)
THEOREM ClosingInvariant == Spec => []ClosingInv
  BY ClosingInit, ClosingStep, PTL DEF Spec

(* The worker and any number of shutdowns close the host stream at most    *)
(* once, repeat no close of the plugin stream that worked, and leave none  *)
(* of the two open.                                                        *)
THEOREM ClosesOnce == Spec => []CloseDiscipline
<1>1. ClosingInv => CloseDiscipline
  <2> SUFFICES ASSUME ClosingInv, NEW s \in Streams
               PROVE  /\ closes[s] <= 1
                      /\ Len(reports[s]) <= 2
                      /\ Len(reports[s]) = 2 => ~reports[s][1].ok
                      /\ pc[s] \in {"unregistered", "done"} =>
                            /\ opened[s] => closes[s] = 1
                            /\ terminalSelected[s] => reports[s] # <<>>
    BY DEF CloseDiscipline
  <2>1. HostStage(s) /\ PluginStage(s) /\ pluginOnce[s] \in OnceState
    BY DEF ClosingInv, LifecycleInv, TypeOK, ClosingTypeOK
  <2>2. reports[s] = <<>> => Len(reports[s]) = 0
    OBVIOUS
  <2>3. Len(reports[s]) <= 2 /\ (pluginOnce[s] = "done" => reports[s] # <<>>)
    <3>1. CASE pluginOnce[s] = "done"
      <4>1. Len(reports[s]) \in 1 .. 2
        BY <2>1, <3>1, Zenon DEF PluginStage
      <4>2. Len(reports[s]) # 0 /\ Len(reports[s]) <= 2
        <5>1. \A n : n \in 1 .. 2 => n # 0 /\ n <= 2
          OBVIOUS
        <5> QED
          BY <4>1, <5>1, Zenon
      <4> QED
        BY <2>2, <4>2, Zenon
    <3>2. CASE pluginOnce[s] # "done"
      BY <2>1, <2>2, <3>2 DEF PluginStage
    <3> QED
      BY <3>1, <3>2
  <2> QED
    BY <2>1, <2>3 DEF HostStage, PluginStage, AfterHostPcs, LeavePcs
<1> QED
  BY <1>1, ClosingInvariant, PTL

(* A close of the plugin stream without an error tells of a stream that    *)
(* was read to its end, all of it accepted and its host stream closed.     *)
THEOREM CleanCloseCorrect == Spec => []CleanCloseIsComplete
<1>1. ClosingInv => CleanCloseIsComplete
  BY DEF ClosingInv, ReportStage, CleanReport, CleanCloseIsComplete
<1> QED
  BY <1>1, ClosingInvariant, PTL

(* No close of the plugin stream leaves out the selected error.            *)
THEOREM ErrorReported == Spec => []SelectedErrorReported
<1>1. ClosingInv => SelectedErrorReported
  BY DEF ClosingInv, ReportStage, SelectedErrorReported
<1> QED
  BY <1>1, ClosingInvariant, PTL

(* After its interrupts and its closes a shutdown waits for no worker that *)
(* waits for the host.                                                     *)
THEOREM WorkersReleased == Spec => []BlockedWorkersReleased
<1>1. ClosingInv => BlockedWorkersReleased
  BY DEF ClosingInv, ReleasedStage, BlockedWorkersReleased, Sweeping, SweepPcs
<1> QED
  BY <1>1, ClosingInvariant, PTL
=============================================================================
