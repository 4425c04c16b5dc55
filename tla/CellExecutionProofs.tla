------------------------ MODULE CellExecutionProofs ------------------------
(***************************************************************************)
(* Proofs about CellExecution, for every set of cells, runs and concurrent *)
(* handlers: the types, what is registered in inflight, and that every     *)
(* step of the controller is a step of CellLifecycle or a stutter.         *)
(***************************************************************************)
EXTENDS CellExecution, TLAPS

RunTypes ==
  /\ pc \in [Runs -> {"idle", "clearing", "connecting", "awaiting", "done"}]
  /\ exec \in [Runs -> {"none", "started", "claimedOk", "claimedFailed", "ok",
                        "failed"}]
  /\ agent \in [Runs -> {"none", "dispatched", "open", "emitted", "closed"}]
  /\ kernel \in {"pending", "up", "failed"}

ControllerTypes ==
  /\ outputs \in [Runs -> SUBSET Runs]
  /\ inflight \in [Cells -> Slots]
  /\ activeRunSink \in Slots

PosTypes == pos \in [Handlers -> Nat] /\ \A h \in Handlers : pos[h] \in 0 .. Len(Batch[h])

TerminalTypes == terminal \in [Runs -> BOOLEAN]

\* The four parts are the type invariant.
LEMMA TypeParts == TypeOK <=> RunTypes /\ ControllerTypes /\ PosTypes /\ TerminalTypes
BY DEF TypeOK, RunTypes, ControllerTypes, PosTypes, TerminalTypes

\* An execution is opened by runOne and still open while the outputs are
\* cleared; before that there is none.
RunInv ==
  \A r \in Runs :
    /\ pc[r] = "idle" => exec[r] = "none"
    /\ pc[r] = "clearing" => exec[r] = "started"

IndInv == TypeOK /\ RunInv /\ InflightIsOpen

-----------------------------------------------------------------------------
\* The initial states are well typed.
LEMMA InitTypeOK == Init => TypeOK
<1>. SUFFICES ASSUME Init PROVE TypeOK
  OBVIOUS
<1>1. RunTypes
  BY DEF Init, RunTypes
<1>2. ControllerTypes
  BY DEF Init, ControllerTypes, Slots
<1>3. PosTypes
  BY RunsAssumption DEF Init, PosTypes
<1>4. TerminalTypes
  BY DEF Init, TerminalTypes
<1>. QED
  BY <1>1, <1>2, <1>3, <1>4, TypeParts

\* The tail of runOne keeps the types of what it changes.
LEMMA TailTypes ==
  ASSUME NEW h \in Handlers, NEW r \in Runs, TypeOK, Current(h, r), tail(h, r)
  PROVE  /\ pc' \in [Runs -> {"idle", "clearing", "connecting", "awaiting", "done"}]
         /\ exec' \in [Runs -> {"none", "started", "claimedOk", "claimedFailed", "ok",
                                "failed"}]
         /\ inflight' \in [Cells -> Slots]
         /\ PosTypes'
<1>1. Len(Batch[h]) \in Nat
  BY RunsAssumption
<1>2. PosTypes'
  <2>1. pos' = [pos EXCEPT ![h] = @ + 1] \/ pos' = [pos EXCEPT ![h] = Len(Batch[h])]
    BY DEF tail
  <2>. QED
    BY <1>1, <2>1 DEF TypeOK, PosTypes, Current
<1>3. exec' \in {exec, [exec EXCEPT ![r] = "failed"]}
  BY DEF tail
<1>4. inflight' \in {inflight, [inflight EXCEPT ![CellOf[r]] = NoRun]}
  BY DEF tail
<1>5. pc' = [pc EXCEPT ![r] = "done"]
  BY DEF tail
<1>. QED
  BY <1>2, <1>3, <1>4, <1>5 DEF TypeOK, Slots

\* An output goes to a run or nowhere.
LEMMA AppendTypes ==
  ASSUME NEW r \in Runs, outputs \in [Runs -> SUBSET Runs], AppendOutput(r)
  PROVE  outputs' \in [Runs -> SUBSET Runs]
BY DEF AppendOutput

\* A closed span changes one execution, its registration and its outputs.
LEMMA ClosedTypes ==
  ASSUME NEW r \in Runs, NEW status \in StatusCodes, TypeOK, closedSpan(r, status)
  PROVE  /\ outputs' \in [Runs -> SUBSET Runs]
         /\ exec' \in [Runs -> {"none", "started", "claimedOk", "claimedFailed", "ok",
                                "failed"}]
         /\ inflight' \in [Cells -> Slots]
         /\ terminal' \in [Runs -> BOOLEAN]
<1>. DEFINE result == IF status = "OK" THEN "claimedOk" ELSE "claimedFailed"
<1>1. result \in {"claimedOk", "claimedFailed"}
  OBVIOUS
<1>2. onRunComplete(r, result)
  BY DEF closedSpan
<1>3. terminal' \in [Runs -> BOOLEAN]
  BY Zenon DEF closedSpan
<1>. HIDE DEF result
<1>4. /\ outputs' \in [Runs -> SUBSET Runs]
      /\ exec' \in [Runs -> {"none", "started", "claimedOk", "claimedFailed", "ok",
                             "failed"}]
      /\ inflight' \in [Cells -> Slots]
  BY <1>1, <1>2 DEF onRunComplete, TypeOK, Slots
<1>. QED
  BY <1>3, <1>4

\* No step leaves the types.
LEMMA StepTypeOK == TypeOK /\ [Next]_vars => TypeOK'
<1>. SUFFICES ASSUME TypeOK, [Next]_vars PROVE TypeOK'
  OBVIOUS
<1>1. CASE KernelSettles
  BY <1>1 DEF TypeOK, KernelSettles
<1>2. ASSUME NEW r \in Runs, Register(r) PROVE TypeOK'
  BY <1>2, RunsAssumption DEF TypeOK, Register, Slots
<1>3. ASSUME NEW r \in Runs, CommitEnd(r) PROVE TypeOK'
  BY <1>3 DEF TypeOK, CommitEnd
<1>4. ASSUME NEW r \in Runs, SpanOpens(r) PROVE TypeOK'
  BY <1>4, AppendTypes DEF TypeOK, SpanOpens
<1>5. ASSUME NEW r \in Runs, SpanEvent(r) PROVE TypeOK'
  BY <1>5, AppendTypes DEF TypeOK, SpanEvent
<1>6. ASSUME NEW r \in Runs, ChildSpan(r) PROVE TypeOK'
  BY <1>6, ClosedTypes DEF TypeOK, ChildSpan
<1>7. ASSUME NEW r \in Runs, SpanCloses(r) PROVE TypeOK'
  BY <1>7, ClosedTypes DEF TypeOK, SpanCloses
<1>8. ASSUME NEW h \in Handlers, NEW r \in Runs, Current(h, r), SkipMarkup(h, r)
      PROVE  TypeOK'
  <2>1. PosTypes'
    BY <1>8, RunsAssumption DEF TypeOK, PosTypes, SkipMarkup, Current
  <2>. QED
    BY <1>8, <2>1 DEF TypeOK, PosTypes, SkipMarkup
<1>9. ASSUME NEW h \in Handlers, NEW r \in Runs, BeginRun(h, r) PROVE TypeOK'
  BY <1>9 DEF TypeOK, BeginRun
<1>10. ASSUME NEW h \in Handlers, NEW r \in Runs, DispatchAndWait(h, r) PROVE TypeOK'
  BY <1>10 DEF TypeOK, DispatchAndWait, Slots
<1>11. ASSUME NEW h \in Handlers, NEW r \in Runs, Current(h, r), tail(h, r),
              activeRunSink' \in Slots, UNCHANGED <<outputs, terminal, kernel, agent>>
       PROVE  TypeOK'
  BY <1>11, TailTypes DEF TypeOK, PosTypes
<1>12. ASSUME NEW h \in Handlers, NEW r \in Runs, HandlerNext(h, r) PROVE TypeOK'
  <2>1. CASE DispatchAndReturn(h, r)
    BY <1>11, <1>12, <2>1 DEF HandlerNext, DispatchAndReturn, Slots
  <2>2. CASE ConnectFails(h, r) \/ TerminalReached(h, r) \/ TimesOut(h, r)
    BY <1>11, <1>12, <2>2 DEF HandlerNext, ConnectFails, TerminalReached, TimesOut, TypeOK
  <2>. QED
    BY <1>8, <1>9, <1>10, <1>12, <2>1, <2>2 DEF HandlerNext
<1>13. CASE UNCHANGED vars
  BY <1>13 DEF TypeOK, vars
<1>. QED
  BY <1>1, <1>2, <1>3, <1>4, <1>5, <1>6, <1>7, <1>12, <1>13 DEF Next, AgentNext

\* Type correctness: no handler runs past the end of its batch, whichever of
\* its runs are cut short.
THEOREM TypeCorrect == Spec => []TypeOK
BY InitTypeOK, StepTypeOK, PTL DEF Spec

-----------------------------------------------------------------------------
\* The slot of a cell always belongs to an open execution of that cell.
LEMMA TailInv ==
  ASSUME NEW h \in Handlers, NEW r \in Runs, IndInv, tail(h, r)
  PROVE  RunInv' /\ InflightIsOpen'
<1>. USE RunsAssumption DEF IndInv, TypeOK, RunInv, InflightIsOpen, Slots
<1>1. CASE inflight[CellOf[r]] = NoRun
  BY <1>1 DEF tail
<1>2. CASE inflight[CellOf[r]] # NoRun /\ Executing(r)
  <2>1. /\ pc' = [pc EXCEPT ![r] = "done"]
        /\ exec' = [exec EXCEPT ![r] = "failed"]
        /\ inflight' = [inflight EXCEPT ![CellOf[r]] = NoRun]
    BY <1>2 DEF tail
  <2>2. RunInv'
    BY <2>1
  <2>3. ASSUME NEW c \in Cells, inflight'[c] # NoRun
        PROVE  /\ exec'[inflight'[c]] = "started" /\ CellOf[inflight'[c]] = c
               /\ pc'[inflight'[c]] \in {"connecting", "awaiting"}
    <3>1. c # CellOf[r] /\ inflight'[c] = inflight[c]
      BY <2>1, <2>3
    <3>2. /\ exec[inflight[c]] = "started" /\ CellOf[inflight[c]] = c
          /\ pc[inflight[c]] \in {"connecting", "awaiting"}
      BY <2>3, <3>1
    <3>3. inflight[c] \in Runs /\ inflight[c] # r
      BY <2>3, <3>1, <3>2
    <3>. QED
      BY <2>1, <3>1, <3>2, <3>3
  <2>. QED
    BY <2>2, <2>3
<1>3. CASE inflight[CellOf[r]] # NoRun /\ ~Executing(r)
  BY <1>3 DEF tail, Executing
<1>. QED
  BY <1>1, <1>2, <1>3

\* onRunComplete takes the registration away together with the open state.
LEMMA CompleteInv ==
  ASSUME NEW r \in Runs, NEW result \in {"claimedOk", "claimedFailed"}, IndInv,
         onRunComplete(r, result), UNCHANGED pc
  PROVE  RunInv' /\ InflightIsOpen'
<1>1. CASE UNCHANGED <<exec, inflight>>
  BY <1>1 DEF IndInv, RunInv, InflightIsOpen
<1>2. ASSUME NEW e \in Runs, RoutedTo(e), exec' = [exec EXCEPT ![e] = result],
             inflight' = [c \in Cells |-> IF inflight[c] = e THEN NoRun ELSE inflight[c]]
      PROVE  RunInv' /\ InflightIsOpen'
  <2>1. pc[e] \in {"connecting", "awaiting"}
    BY <1>2, RunsAssumption DEF IndInv, InflightIsOpen, RoutedTo
  <2>2. RunInv'
    BY <1>2, <2>1 DEF IndInv, TypeOK, RunInv
  <2>3. InflightIsOpen'
    BY <1>2, RunsAssumption DEF IndInv, TypeOK, InflightIsOpen, Slots
  <2>. QED
    BY <2>2, <2>3
<1>. QED
  BY <1>1, <1>2 DEF onRunComplete

\* Every step keeps it.
LEMMA StepInv == IndInv /\ [Next]_vars => RunInv' /\ InflightIsOpen'
<1>. SUFFICES ASSUME IndInv, [Next]_vars PROVE RunInv' /\ InflightIsOpen'
  OBVIOUS
<1>1. CASE UNCHANGED <<pc, exec, inflight>>
  BY <1>1 DEF IndInv, RunInv, InflightIsOpen
<1>2. ASSUME NEW r \in Runs, Register(r) PROVE RunInv' /\ InflightIsOpen'
  BY <1>2, RunsAssumption DEF IndInv, TypeOK, RunInv, InflightIsOpen, Slots, Register
<1>3. ASSUME NEW r \in Runs, CommitEnd(r) PROVE RunInv' /\ InflightIsOpen'
  BY <1>3, RunsAssumption DEF IndInv, TypeOK, RunInv, InflightIsOpen, Slots, CommitEnd
<1>4. ASSUME NEW r \in Runs, NEW status \in StatusCodes, closedSpan(r, status), UNCHANGED pc
      PROVE  RunInv' /\ InflightIsOpen'
  BY <1>4, CompleteInv DEF closedSpan
<1>5. ASSUME NEW h \in Handlers, NEW r \in Runs, BeginRun(h, r)
      PROVE  RunInv' /\ InflightIsOpen'
  BY <1>5, RunsAssumption DEF IndInv, TypeOK, RunInv, InflightIsOpen, Slots, BeginRun
<1>6. ASSUME NEW h \in Handlers, NEW r \in Runs, DispatchAndWait(h, r)
      PROVE  RunInv' /\ InflightIsOpen'
  BY <1>6, RunsAssumption DEF IndInv, TypeOK, RunInv, InflightIsOpen, Slots, DispatchAndWait
<1>7. ASSUME NEW h \in Handlers, NEW r \in Runs, HandlerNext(h, r)
      PROVE  RunInv' /\ InflightIsOpen'
  <2>1. CASE SkipMarkup(h, r)
    BY <1>1, <2>1 DEF SkipMarkup
  <2>2. CASE ConnectFails(h, r) \/ DispatchAndReturn(h, r) \/ TerminalReached(h, r)
             \/ TimesOut(h, r)
    BY <2>2, TailInv DEF ConnectFails, DispatchAndReturn, TerminalReached, TimesOut
  <2>. QED
    BY <1>5, <1>6, <1>7, <2>1, <2>2 DEF HandlerNext
<1>8. ASSUME NEW r \in Runs, AgentNext(r) PROVE RunInv' /\ InflightIsOpen'
  BY <1>1, <1>4, <1>8 DEF AgentNext, SpanOpens, SpanEvent, ChildSpan, SpanCloses
<1>. QED
  BY <1>1, <1>2, <1>3, <1>7, <1>8 DEF Next, KernelSettles, vars

\* The inductive invariant.
THEOREM Invariance == Spec => []IndInv
<1>1. Init => IndInv
  <2>1. Init => RunInv
    BY DEF Init, RunInv
  <2>2. Init => InflightIsOpen
    BY DEF Init, InflightIsOpen
  <2>. QED
    BY <2>1, <2>2, InitTypeOK DEF IndInv
<1>2. IndInv /\ [Next]_vars => IndInv'
  BY StepTypeOK, StepInv DEF IndInv
<1>. QED
  BY <1>1, <1>2, PTL DEF Spec

\* What onRunComplete and runOne's fallback find in inflight is an execution
\* that is still open, whose runOne still goes on, under its own cell: for any
\* number of concurrent calls of the execute handler.
THEOREM InflightCorrect == Spec => []InflightIsOpen
<1>1. IndInv => InflightIsOpen
  BY DEF IndInv
<1>. QED
  BY <1>1, Invariance, PTL

-----------------------------------------------------------------------------
(* The refinement of CellLifecycle, its fairness aside.                    *)

\* The initial state is one of CellLifecycle.
LEMMA InitRefines == Init => Lifecycle!Init
BY DEF Init, Lifecycle!Init, Status

\* An output reaches only an execution that is running.
LEMMA AppendRefines ==
  ASSUME NEW r \in Runs, IndInv, AppendOutput(r), UNCHANGED exec
  PROVE  [Lifecycle!Next]_(Lifecycle!vars)
<1>0. UNCHANGED Status
  BY DEF Status
<1>1. CASE UNCHANGED outputs
  BY <1>0, <1>1 DEF Lifecycle!vars
<1>2. ASSUME NEW e \in Runs, RoutedTo(e), outputs' = [outputs EXCEPT ![e] = @ \cup {r}]
      PROVE  Lifecycle!Next
  <2>1. Status[e] = "running"
    BY <1>2, RunsAssumption DEF IndInv, InflightIsOpen, RoutedTo, Status
  <2>2. Lifecycle!Output(e, r)
    BY <1>0, <1>2, <2>1 DEF Lifecycle!Output
  <2>. QED
    BY <2>2 DEF Lifecycle!Next
<1>. QED
  BY <1>1, <1>2 DEF AppendOutput

\* A closed span is an output of a running execution, which is still running
\* for its user until the append is committed.
LEMMA CompleteRefines ==
  ASSUME NEW r \in Runs, NEW result \in {"claimedOk", "claimedFailed"}, IndInv,
         onRunComplete(r, result)
  PROVE  [Lifecycle!Next]_(Lifecycle!vars)
<1>1. CASE UNCHANGED <<outputs, exec>>
  BY <1>1 DEF Lifecycle!vars, Status
<1>2. ASSUME NEW e \in Runs, RoutedTo(e), outputs' = [outputs EXCEPT ![e] = @ \cup {r}],
             exec' = [exec EXCEPT ![e] = result]
      PROVE  Lifecycle!Next
  <2>1. exec[e] = "started"
    BY <1>2, RunsAssumption DEF IndInv, InflightIsOpen, RoutedTo
  <2>2. Status[e] = "running"
    BY <2>1 DEF Status
  <2>3. UNCHANGED Status
    BY <1>2, <2>1 DEF IndInv, TypeOK, Status
  <2>4. Lifecycle!Output(e, r)
    BY <1>2, <2>2, <2>3 DEF Lifecycle!Output
  <2>. QED
    BY <2>4 DEF Lifecycle!Next
<1>. QED
  BY <1>1, <1>2 DEF onRunComplete

\* An execution that ends was running and has its one result.
LEMMA EndRefines ==
  ASSUME NEW r \in Runs, NEW result \in {"ok", "failed"}, IndInv, Executing(r),
         exec' = [exec EXCEPT ![r] = result], UNCHANGED outputs
  PROVE  Lifecycle!Next
<1>1. Status[r] = "running"
  BY DEF Executing, Status
<1>2. Status' = [Status EXCEPT ![r] = result]
  BY DEF IndInv, TypeOK, Status
<1>3. Lifecycle!End(r, result)
  BY <1>1, <1>2 DEF Lifecycle!End
<1>. QED
  BY <1>3 DEF Lifecycle!Next

\* Every step of the controller is a step of CellLifecycle or a stutter.
LEMMA StepRefines == IndInv /\ [Next]_vars => [Lifecycle!Next]_(Lifecycle!vars)
<1>. SUFFICES ASSUME IndInv, [Next]_vars PROVE [Lifecycle!Next]_(Lifecycle!vars)
  OBVIOUS
<1>1. CASE UNCHANGED <<exec, outputs>>
  BY <1>1 DEF Lifecycle!vars, Status
<1>2. ASSUME NEW h \in Handlers, NEW r \in Runs, BeginRun(h, r) PROVE Lifecycle!Next
  <2>1. exec[r] = "none" /\ exec' = [exec EXCEPT ![r] = "started"] /\ UNCHANGED outputs
    BY <1>2 DEF IndInv, RunInv, BeginRun
  <2>2. Status[r] = "idle" /\ Status' = [Status EXCEPT ![r] = "running"]
    BY <2>1 DEF IndInv, TypeOK, Status
  <2>3. Lifecycle!Begin(r)
    BY <2>1, <2>2 DEF Lifecycle!Begin
  <2>. QED
    BY <2>3 DEF Lifecycle!Next
<1>3. ASSUME NEW h \in Handlers, NEW r \in Runs, tail(h, r), UNCHANGED outputs
      PROVE  [Lifecycle!Next]_(Lifecycle!vars)
  <2>1. UNCHANGED exec \/ (Executing(r) /\ exec' = [exec EXCEPT ![r] = "failed"])
    BY <1>3 DEF tail
  <2>. QED
    BY <1>1, <1>3, <2>1, EndRefines
<1>4. ASSUME NEW r \in Runs, CommitEnd(r) PROVE Lifecycle!Next
  <2>1. PICK result \in {"ok", "failed"} : exec' = [exec EXCEPT ![r] = result]
    BY <1>4 DEF CommitEnd
  <2>2. Executing(r) /\ UNCHANGED outputs
    BY <1>4 DEF CommitEnd, Executing
  <2>. QED
    BY <2>1, <2>2, EndRefines
<1>5. ASSUME NEW r \in Runs, NEW status \in StatusCodes, closedSpan(r, status)
      PROVE  [Lifecycle!Next]_(Lifecycle!vars)
  BY <1>5, CompleteRefines DEF closedSpan
<1>6. ASSUME NEW r \in Runs, AgentNext(r) PROVE [Lifecycle!Next]_(Lifecycle!vars)
  BY <1>5, <1>6, AppendRefines DEF AgentNext, SpanOpens, SpanEvent, ChildSpan, SpanCloses
<1>7. ASSUME NEW h \in Handlers, NEW r \in Runs, HandlerNext(h, r)
      PROVE  [Lifecycle!Next]_(Lifecycle!vars)
  <2>1. CASE SkipMarkup(h, r) \/ DispatchAndWait(h, r)
    BY <1>1, <2>1 DEF SkipMarkup, DispatchAndWait
  <2>2. CASE ConnectFails(h, r) \/ DispatchAndReturn(h, r) \/ TerminalReached(h, r)
             \/ TimesOut(h, r)
    BY <1>3, <2>2 DEF ConnectFails, DispatchAndReturn, TerminalReached, TimesOut
  <2>. QED
    BY <1>2, <1>7, <2>1, <2>2 DEF HandlerNext
<1>8. ASSUME NEW r \in Runs, Register(r) PROVE [Lifecycle!Next]_(Lifecycle!vars)
  BY <1>1, <1>8 DEF Register
<1>. QED
  BY <1>1, <1>4, <1>6, <1>7, <1>8 DEF Next, KernelSettles, vars

\* The controller implements CellLifecycle, for every set of cells, runs and
\* concurrent handlers: an execution ends once, and nothing is appended to one
\* that has ended.  (That it does end is left to TLC.)
THEOREM Refinement == Spec => Lifecycle!Init /\ [][Lifecycle!Next]_(Lifecycle!vars)
BY InitRefines, StepRefines, Invariance, PTL DEF Spec

-----------------------------------------------------------------------------
(* NoCrossTalk.                                                            *)

\* An output that is appended goes to the only execution in flight.
LEMMA AppendedToRouted ==
  ASSUME TypeOK, NEW owner \in Runs, NEW e \in Runs, NEW r \in Runs,
         \/ AppendOutput(owner)
         \/ \E result : onRunComplete(owner, result),
         r \in outputs'[e] \ outputs[e]
  PROVE  r = owner /\ RoutedTo(e)
BY DEF TypeOK, AppendOutput, onRunComplete

\* A span never lands in another cell while its own execution is in flight,
\* for all runs, cells and handlers: findExecForCorrelation gives up when two
\* executions are in flight, so the one it finds is the span's own or the
\* span's own has left the map.
THEOREM SpansStayHome == Spec => NoCrossTalk
<1>1. TypeOK /\ [Next]_vars =>
        [\A e, r \in Runs :
           r # e /\ r \in outputs'[e] \ outputs[e] => inflight[CellOf[r]] # r]_vars
  <2>. SUFFICES ASSUME TypeOK, [Next]_vars, NEW e \in Runs, NEW r \in Runs, r # e,
                       r \in outputs'[e] \ outputs[e], inflight[CellOf[r]] = r
                PROVE  FALSE
    OBVIOUS
  <2>1. CellOf[r] \in Cells /\ r # NoRun
    BY RunsAssumption
  <2>2. ~RoutedTo(e)
    BY <2>1 DEF RoutedTo
  <2>3. \A owner \in Runs :
          ~AppendOutput(owner) /\ \A result : ~onRunComplete(owner, result)
    BY <2>2, AppendedToRouted
  <2>4. outputs' # outputs
    OBVIOUS
  <2>5. ASSUME NEW q \in Runs, AgentNext(q) PROVE FALSE
    BY <2>3, <2>5 DEF AgentNext, SpanOpens, SpanEvent, ChildSpan, SpanCloses, closedSpan
  <2>6. ASSUME NEW h \in Handlers, NEW q \in Runs, HandlerNext(h, q) PROVE FALSE
    BY <2>4, <2>6 DEF HandlerNext, SkipMarkup, BeginRun, ConnectFails, DispatchAndReturn,
                      DispatchAndWait, TerminalReached, TimesOut
  <2>7. ASSUME NEW q \in Runs, Register(q) \/ CommitEnd(q) PROVE FALSE
    BY <2>4, <2>7 DEF Register, CommitEnd
  <2>8. CASE KernelSettles \/ UNCHANGED vars
    BY <2>4, <2>8 DEF KernelSettles, vars
  <2>. QED
    BY <2>5, <2>6, <2>7, <2>8 DEF Next
<1>. QED
  BY <1>1, TypeCorrect, PTL DEF Spec, NoCrossTalk
=============================================================================
