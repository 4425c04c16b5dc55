--------------------------- MODULE CellExecution ---------------------------
(***************************************************************************)
(* Running cells: LlmnbNotebookController (execute, runOne and the run     *)
(* observer hooks, extension/src/notebook/controller.ts),                  *)
(* PtyKernelClient.executeCell with its one activeRunSink and the span     *)
(* dispatch routeSpan -> routeRunMime -> onRun*.                           *)
(*                                                                         *)
(* VS Code calls the execute handler once per "run" gesture with a batch   *)
(* of cells; several handlers may be pending at once, each runs its batch  *)
(* in order.  Every run has its own NotebookCellExecution, so a run also   *)
(* names the execution.  The agents that answer run in the kernel, which   *)
(* is not in the repository: once dispatched, a run's agent may emit its   *)
(* spans at any time, late ones and none at all included.                  *)
(*                                                                         *)
(* TailSkipsNext, NeverTimesOut, RouteToAny, CompleteWithoutClaim and      *)
(* CommitEndAgain are faulty variants of the definition that follows each; *)
(* no action uses them.                                                    *)
(***************************************************************************)
EXTENDS Integers, Sequences

CONSTANTS
  Runs,     \* one per cell execution
  Cells,    \* cell URIs
  Handlers, \* calls of the execute handler
  Batch,    \* [Handlers -> Seq(Runs)]: the cells each call was given
  CellOf,   \* [Runs -> Cells]
  Kind,     \* [Runs -> {"markup", "await", "fire"}]: what the directive asks for
  NoRun

ASSUME RunsAssumption ==
  /\ NoRun \notin Runs
  /\ CellOf \in [Runs -> Cells]
  /\ Kind \in [Runs -> {"markup", "await", "fire"}]
  /\ Batch \in [Handlers -> Seq(Runs)]

VARIABLES
  pos,           \* how many runs of its batch a handler has finished
  pc,            \* where runOne stands
  exec,          \* the NotebookCellExecution
  outputs,       \* whose spans were appended to it
  inflight,      \* cellKey -> execution
  activeRunSink, \* whose executeCell installed the sink
  terminal,      \* whether terminalReached has resolved
  kernel,        \* the client's ready promise
  agent          \* how far the dispatched agent has got

vars == <<pos, pc, exec, outputs, inflight, activeRunSink, terminal, kernel, agent>>

Slots == Runs \cup {NoRun}

TypeOK ==
  /\ pos \in [Handlers -> Nat] /\ \A h \in Handlers : pos[h] \in 0 .. Len(Batch[h])
  /\ pc \in [Runs -> {"idle", "clearing", "connecting", "awaiting", "done"}]
  /\ exec \in [Runs -> {"none", "started", "claimedOk", "claimedFailed", "ok",
                        "failed"}]
  /\ outputs \in [Runs -> SUBSET Runs]
  /\ inflight \in [Cells -> Slots]
  /\ activeRunSink \in Slots
  /\ terminal \in [Runs -> BOOLEAN]
  /\ kernel \in {"pending", "up", "failed"}
  /\ agent \in [Runs -> {"none", "dispatched", "open", "emitted", "closed"}]

Init ==
  /\ pos = [h \in Handlers |-> 0]
  /\ pc = [r \in Runs |-> "idle"]
  /\ exec = [r \in Runs |-> "none"]
  /\ outputs = [r \in Runs |-> {}]
  /\ inflight = [c \in Cells |-> NoRun]
  /\ activeRunSink = NoRun
  /\ terminal = [r \in Runs |-> FALSE]
  /\ kernel = "pending"
  /\ agent = [r \in Runs |-> "none"]

-----------------------------------------------------------------------------
(* execute() and runOne().                                                 *)

\* The run a handler is at: the only one its steps are about (HandlerNext).
Current(h, r) == pos[h] < Len(Batch[h]) /\ Batch[h][pos[h] + 1] = r

Executing(r) == exec[r] \in {"started", "claimedOk", "claimedFailed"}

\* A resolved promise is resumed before the next timer or event: only further
\* frames of the same socket read come in between.
MicrotasksDone == \A r \in Runs : ~(pc[r] = "awaiting" /\ terminal[r])

\* Markup cells are skipped before an execution is created.
SkipMarkup(h, r) ==
  /\ MicrotasksDone
  /\ Kind[r] = "markup"
  /\ pos' = [pos EXCEPT ![h] = @ + 1]
  /\ UNCHANGED <<pc, exec, outputs, inflight, activeRunSink, terminal, kernel, agent>>

\* createNotebookCellExecution and start, up to the await of clearOutput().
\* VS Code refuses a second execution of a cell that is still executing.
BeginRun(h, r) ==
  /\ MicrotasksDone
  /\ Kind[r] # "markup" /\ pc[r] = "idle"
  /\ \A q \in Runs : CellOf[q] = CellOf[r] => ~Executing(q)
  /\ pc' = [pc EXCEPT ![r] = "clearing"]
  /\ exec' = [exec EXCEPT ![r] = "started"]
  /\ UNCHANGED <<pos, outputs, inflight, activeRunSink, terminal, kernel, agent>>

Register(r) ==
  /\ MicrotasksDone
  /\ pc[r] = "clearing"
  /\ pc' = [pc EXCEPT ![r] = "connecting"]
  /\ inflight' = [inflight EXCEPT ![CellOf[r]] = r]
  /\ UNCHANGED <<pos, exec, outputs, activeRunSink, terminal, kernel, agent>>

\* The ready promise settles (KernelClient!StartSettles).
KernelSettles ==
  /\ MicrotasksDone
  /\ kernel = "pending"
  /\ kernel' \in {"up", "failed"}
  /\ UNCHANGED <<pos, pc, exec, outputs, inflight, activeRunSink, terminal, agent>>

TailSkipsNext(h, r) ==
  /\ pc' = [pc EXCEPT ![r] = "done"]
  /\ pos' = [pos EXCEPT ![h] = @ + 2]
  /\ exec' = [exec EXCEPT ![r] = IF Executing(r) THEN "failed" ELSE @]
  /\ inflight' = [inflight EXCEPT ![CellOf[r]] = NoRun]

\* The tail of runOne, after executeCell returned or threw: while something is
\* registered under the cell's key it ends its own execution unsuccessfully.
\* end() on an execution that has already ended throws: execute() rejects and
\* the rest of its batch is abandoned.
tail(h, r) ==
  /\ pc' = [pc EXCEPT ![r] = "done"]
  /\ \/ /\ inflight[CellOf[r]] = NoRun
        /\ pos' = [pos EXCEPT ![h] = @ + 1]
        /\ UNCHANGED <<exec, inflight>>
     \/ /\ inflight[CellOf[r]] # NoRun /\ Executing(r)
        /\ pos' = [pos EXCEPT ![h] = @ + 1]
        /\ exec' = [exec EXCEPT ![r] = "failed"]
        /\ inflight' = [inflight EXCEPT ![CellOf[r]] = NoRun]
     \/ /\ inflight[CellOf[r]] # NoRun /\ ~Executing(r)
        /\ pos' = [pos EXCEPT ![h] = Len(Batch[h])]
        /\ UNCHANGED <<exec, inflight>>

ConnectFails(h, r) ==
  /\ MicrotasksDone
  /\ pc[r] = "connecting" /\ kernel = "failed"
  /\ tail(h, r)
  /\ UNCHANGED <<outputs, activeRunSink, terminal, kernel, agent>>

\* executeCell after the ready promise: install the sink, write the envelope.
\* Every directive but /spawn and @agent: returns at once ...
DispatchAndReturn(h, r) ==
  /\ MicrotasksDone
  /\ pc[r] = "connecting" /\ kernel = "up" /\ Kind[r] = "fire"
  /\ activeRunSink' = r
  /\ tail(h, r)
  /\ UNCHANGED <<outputs, terminal, kernel, agent>>

\* ... those two wait for a terminal span.
DispatchAndWait(h, r) ==
  /\ MicrotasksDone
  /\ pc[r] = "connecting" /\ kernel = "up" /\ Kind[r] = "await"
  /\ activeRunSink' = r
  /\ pc' = [pc EXCEPT ![r] = "awaiting"]
  /\ agent' = [agent EXCEPT ![r] = "dispatched"]
  /\ UNCHANGED <<pos, exec, outputs, inflight, terminal, kernel>>

TerminalReached(h, r) ==
  /\ pc[r] = "awaiting" /\ terminal[r]
  /\ tail(h, r)
  /\ UNCHANGED <<outputs, activeRunSink, terminal, kernel, agent>>

NeverTimesOut(h, r) == FALSE /\ tail(h, r) /\ UNCHANGED vars

\* The 60s cap wins the race against the terminal span.
TimesOut(h, r) ==
  /\ MicrotasksDone
  /\ pc[r] = "awaiting" /\ ~terminal[r]
  /\ tail(h, r)
  /\ UNCHANGED <<outputs, activeRunSink, terminal, kernel, agent>>

-----------------------------------------------------------------------------
(* Spans from the data plane.                                              *)

RouteToAny(e) == \E c \in Cells : inflight[c] = e

\* findExecForCorrelation: no caller binds a span to a cell, so a span belongs
\* to the only cell in flight, and to none when there are several.
RoutedTo(e) ==
  \E c \in Cells : inflight[c] = e /\ \A d \in Cells : d # c => inflight[d] = NoRun

\* onRunStart, onRunEvent: the payload becomes an output.
AppendOutput(owner) ==
  \/ \E e \in Runs : /\ RoutedTo(e)
                     /\ outputs' = [outputs EXCEPT ![e] = @ \cup {owner}]
  \/ (\A e \in Runs : ~RoutedTo(e)) /\ UNCHANGED outputs

CompleteWithoutClaim(owner, result) ==
  \/ \E e \in Runs :
       /\ RoutedTo(e)
       /\ outputs' = [outputs EXCEPT ![e] = @ \cup {owner}]
       /\ exec' = [exec EXCEPT ![e] = result]
       /\ UNCHANGED inflight
  \/ (\A e \in Runs : ~RoutedTo(e)) /\ UNCHANGED <<outputs, exec, inflight>>

\* onRunComplete: claim the inflight slot at once, append, and end the
\* execution when the append has been committed.
onRunComplete(owner, result) ==
  \/ \E e \in Runs :
       /\ RoutedTo(e)
       /\ outputs' = [outputs EXCEPT ![e] = @ \cup {owner}]
       /\ exec' = [exec EXCEPT ![e] = result]
       /\ inflight' = [c \in Cells |-> IF inflight[c] = e THEN NoRun ELSE inflight[c]]
  \/ (\A e \in Runs : ~RoutedTo(e)) /\ UNCHANGED <<outputs, exec, inflight>>

\* An open span of the run, then any event inside it.
SpanOpens(r) ==
  /\ agent[r] = "dispatched"
  /\ agent' = [agent EXCEPT ![r] = "open"]
  /\ AppendOutput(r)
  /\ UNCHANGED <<pos, pc, exec, inflight, activeRunSink, terminal, kernel>>

SpanEvent(r) ==
  /\ agent[r] \in {"open", "emitted"}
  /\ AppendOutput(r)
  /\ UNCHANGED <<pos, pc, exec, inflight, activeRunSink, terminal, kernel, agent>>

\* A closed span: the controller first, then whoever installed the sink takes
\* it for its terminal span unless its status is unset.
closedSpan(r, status) ==
  /\ onRunComplete(r, IF status = "OK" THEN "claimedOk" ELSE "claimedFailed")
  /\ terminal' = [q \in Runs |-> terminal[q] \/ (q = activeRunSink /\ status # "UNSET")]

StatusCodes == {"OK", "ERROR", "UNSET"}

\* agent_emit and other child spans arrive closed while the run goes on.
ChildSpan(r) ==
  /\ agent[r] = "open"
  /\ agent' = [agent EXCEPT ![r] = "emitted"]
  /\ \E status \in StatusCodes : closedSpan(r, status)
  /\ UNCHANGED <<pos, pc, activeRunSink, kernel>>

SpanCloses(r) ==
  /\ agent[r] \in {"open", "emitted"}
  /\ agent' = [agent EXCEPT ![r] = "closed"]
  /\ \E status \in StatusCodes : closedSpan(r, status)
  /\ UNCHANGED <<pos, pc, activeRunSink, kernel>>

CommitEndAgain(r) ==
  /\ MicrotasksDone
  /\ exec[r] \in {"claimedOk", "claimedFailed", "failed"}
  /\ exec' = [exec EXCEPT ![r] = IF @ = "claimedFailed" THEN "failed" ELSE "ok"]
  /\ UNCHANGED <<pos, pc, outputs, inflight, activeRunSink, terminal, kernel, agent>>

\* The awaited appendOutput is done: exec.end(ok).
CommitEnd(r) ==
  /\ MicrotasksDone
  /\ exec[r] \in {"claimedOk", "claimedFailed"}
  /\ exec' = [exec EXCEPT ![r] = IF @ = "claimedOk" THEN "ok" ELSE "failed"]
  /\ UNCHANGED <<pos, pc, outputs, inflight, activeRunSink, terminal, kernel, agent>>

-----------------------------------------------------------------------------
HandlerNext(h, r) ==
  /\ Current(h, r)
  /\ \/ SkipMarkup(h, r) \/ BeginRun(h, r) \/ ConnectFails(h, r)
     \/ DispatchAndReturn(h, r) \/ DispatchAndWait(h, r)
     \/ TerminalReached(h, r) \/ TimesOut(h, r)

AgentNext(r) == SpanOpens(r) \/ SpanEvent(r) \/ ChildSpan(r) \/ SpanCloses(r)

Next ==
  \/ KernelSettles
  \/ \E r \in Runs : Register(r) \/ AgentNext(r) \/ CommitEnd(r)
  \/ \E h \in Handlers, r \in Runs : HandlerNext(h, r)

Spec == Init /\ [][Next]_vars

\* The event loop resumes what can be resumed and fires timers; the ready
\* promise settles.  (Register and CommitEnd happen once per run, so one
\* condition for all of them starves none.)  Nothing is assumed of the agents.
Fairness ==
  /\ WF_vars(KernelSettles)
  /\ WF_vars(\E r \in Runs : Register(r) \/ CommitEnd(r))
  /\ \A h \in Handlers : WF_vars(\E r \in Runs : HandlerNext(h, r))

FairSpec == Spec /\ Fairness

-----------------------------------------------------------------------------
(* Properties.                                                             *)

\* The execution as its user sees it: ending until the append is committed.
Status ==
  [r \in Runs |-> CASE exec[r] = "none"      -> "idle"
                    [] exec[r] \in {"ok", "failed"} -> exec[r]
                    [] OTHER                 -> "running"]

Lifecycle == INSTANCE CellLifecycle WITH Sources <- Runs, status <- Status

\* The controller implements CellLifecycle: an execution ends exactly once,
\* whichever of onRunComplete, the fallback of runOne and its catch block gets
\* there first, it does end, and no output is appended to one that has ended.
ImplementsLifecycle == Lifecycle!Spec

\* What is registered in inflight is an execution that is still open and whose
\* runOne is still going on, and it is registered under its own cell.
InflightIsOpen ==
  \A c \in Cells :
    inflight[c] # NoRun =>
      /\ exec[inflight[c]] = "started" /\ CellOf[inflight[c]] = c
      /\ pc[inflight[c]] \in {"connecting", "awaiting"}

\* A span shows up in another cell than its own only when its own cell is no
\* longer in flight: while both are, it is dropped instead (the size check of
\* findExecForCorrelation).
NoCrossTalk ==
  [][\A e, r \in Runs :
       r # e /\ r \in outputs'[e] \ outputs[e] => inflight[CellOf[r]] # r]_vars

\* Every call of the execute handler comes to an end, whatever the agents and
\* the other handlers do (the 60s cap of executeCell).
BatchesFinish == <>(\A h \in Handlers : pos[h] = Len(Batch[h]))

-----------------------------------------------------------------------------
(* What the documentation says and the code does not do.                   *)

\* The comment on executeCell: it returns once a terminal span has been
\* observed for the dispatched directive.
TerminalIsOwn ==
  [][\A r \in Runs :
       pc[r] = "awaiting" /\ terminal[r] /\ pc'[r] = "done" => agent[r] = "closed"]_vars

\* The comment in runOne: the terminal span is the canonical end of the cell,
\* the code after executeCell ends it only if there was none.
FallbackOnlyWithoutTerminal ==
  \A r \in Runs : pc[r] = "awaiting" /\ ~Executing(r) => inflight[CellOf[r]] = NoRun
=============================================================================
