------------------------------ MODULE RunViews ------------------------------
(***************************************************************************)
(* One notebook, the kernel that keeps its run records, and the views of   *)
(* them: the throttled sidebar source with the Agents tree, its fleet      *)
(* badge, stop buttons and decorations, the activity feed, and the badges  *)
(* of the cells (extension/src/sidebar/, inspect/, three-pane-badges.ts).  *)
(*                                                                         *)
(* The kernel and VS Code are external.  The kernel writes a run's frame   *)
(* at its start and again at its end: in place, or as a second record of   *)
(* the same run (run-frame-reader.ts:280), with any status but "running",  *)
(* known to the readers or not, and with or without ended_at               *)
(* (agent-run-state.ts:13).  It logs the envelopes it receives, those it   *)
(* then refuses among them (PLAN-S6.0-event-log-substrate.md:106).  VS     *)
(* Code asks for the decoration of a row the first time it draws it and    *)
(* keeps the answer until the provider fires for that row.                 *)
(*                                                                         *)
(* TrustTheRow is a faulty variant of the definition that follows it; no   *)
(* action uses it.                                                         *)
(***************************************************************************)
EXTENDS RunReaders

CONSTANTS
  Agents, Cells,
  None,
  Bounds,       \* bounds on run frames, event log, spans, the kernel's writes
                \* and uses of "Load more"
  MaxVisible,   \* stands for DEFAULT_MAX_VISIBLE_ENTRIES
  Step          \* stands for LOAD_MORE_STEP

ASSUME RunViewsAssumption ==
  /\ None \notin Agents /\ "" \notin Cells
  /\ Bounds \subseteq [frames : Nat, log : Nat, spans : Nat, writes : Nat, loads : Nat]
  /\ MaxVisible \in Nat \ {0} /\ Step \in Nat \ {0}

VARIABLES
  frames, log, spans, agents,  \* run_frames, event_log, tagged spans, statuses
  live,        \* the runs that are running in the kernel
  writes,      \* the number of the kernel's writes
  bound,       \* the member of Bounds this behaviour keeps to
  active,      \* the notebook has the active editor
  pending,     \* pendingTimer of the sidebar source
  rows,        \* the Agents tree and its badge as rendered last
  memo,        \* AgentDecorationProvider.lastCondition
  cached,      \* the decorations that VS Code holds, "unasked" without one
  maxVisible,  \* of the activity feed
  interrupt    \* the cell, agent and run of the last interrupt sent

document == <<frames, log, spans, agents, live, writes, bound>>
views    == <<rows, memo, cached>>
vars == <<document, active, pending, views, maxVisible, interrupt>>

\* The kernel's clock: two writes in a row may carry the same time.
now == 1 + writes \div 2

Condition(a) ==
  deriveAgentCondition(frames, spans, a, IF a \in DOMAIN agents THEN agents[a] ELSE "idle")

\* getActiveZone()?.metadata: what the providers read.
Render ==
  IF ~active THEN [agents |-> {}, running |-> {}, alive |-> 0]
  ELSE [agents |-> DOMAIN agents,
        running |-> {a \in DOMAIN agents : hasInFlightRun(frames, a)},
        alive |-> computeAliveAgentCount(agents)]

Init ==
  /\ frames = <<>> /\ log = <<>> /\ spans = <<>> /\ agents = <<>>
  /\ live = {} /\ writes = 0 /\ bound \in Bounds
  /\ active = TRUE /\ pending = FALSE
  /\ rows = [agents |-> {}, running |-> {}, alive |-> 0]
  /\ memo = [a \in Agents |-> "unset"] /\ cached = [a \in Agents |-> "unasked"]
  /\ maxVisible = MaxVisible /\ interrupt = None

-----------------------------------------------------------------------------
(* The kernel writes; the applier puts the result into the document.       *)

\* onDidChangeNotebookDocument, onLastAcceptedVersion and the others.
scheduleFire == pending' = TRUE

KernelWrites(f, l, s, a) ==
  /\ writes < bound.writes /\ writes' = writes + 1
  /\ frames' = f /\ log' = l /\ spans' = s /\ agents' = a
  /\ scheduleFire
  /\ UNCHANGED <<bound, active, views, maxVisible, interrupt>>

Frame(run, cell, agent, status, start, end) ==
  [run |-> run, cell |-> cell, agent |-> agent, status |-> status,
   start |-> start, end |-> end]

StartRun(a, c) ==
  LET run == Len(frames) + 1
  IN  /\ run <= bound.frames
      /\ live' = live \cup {run}
      /\ KernelWrites(Append(frames, Frame(run, c, a, "running", now, 0)), log, spans,
                      [x \in DOMAIN agents \cup {a} |-> IF x = a THEN "alive" ELSE agents[x]])

\* "unknown" stands for a status that no reader has in its tables.
EndStatuses == {"complete", "interrupted", "cancelled", "unknown"}

\* stamped: ended_at is written with the status.
Ended(f, status, stamped) ==
  [f EXCEPT !.status = status, !.end = IF stamped THEN now ELSE 0]

EndRun(run, status, stamped) ==
  /\ run \in live /\ live' = live \ {run}
  /\ KernelWrites([frames EXCEPT ![run] = Ended(@, status, stamped)], log, spans, agents)

\* The second record of the run, a terminal one, goes under a key of its own.
EndRunBeside(run, status, stamped) ==
  /\ run \in live /\ live' = live \ {run} /\ Len(frames) < bound.frames
  /\ status \in RUN_FRAME_TERMINAL_STATUSES
  /\ KernelWrites(Append(frames, Ended(frames[run], status, stamped)), log, spans, agents)

\* A span is logged when it closes: a later entry may have an earlier start.
CloseSpan(a, kind, start) ==
  /\ Len(spans) < bound.spans /\ start \in 1 .. now
  /\ UNCHANGED live
  /\ KernelWrites(frames, log, Append(spans, [agent |-> a, kind |-> kind, start |-> start]),
                  agents)

\* An operator's request to fork a to b is logged when it arrives.  The kernel
\* carries it out when it has a and not yet b; no reader sees the outcome.
LogFork(a, b, ts) ==
  LET made == a \in DOMAIN agents /\ b \notin DOMAIN agents
      more == [x \in DOMAIN agents \cup {b} |-> IF x = b THEN "idle" ELSE agents[x]]
  IN  /\ Len(log) < bound.log
      /\ UNCHANGED live
      /\ KernelWrites(frames,
                      Append(log, [type |-> "fork", agent |-> a, branch |-> b, ts |-> ts,
                                   outcome |-> IF made THEN "made" ELSE "refused"]),
                      spans, IF made THEN more ELSE agents)

LogOther(a, type) ==
  /\ Len(log) < bound.log /\ a \in DOMAIN agents
  /\ UNCHANGED live
  /\ KernelWrites(frames,
                  Append(log, [type |-> type, agent |-> a, branch |-> a, ts |-> now,
                               outcome |-> "made"]),
                  spans, agents)

AgentTerminates(a) ==
  /\ a \in DOMAIN agents /\ agents[a] # "terminated"
  /\ UNCHANGED live
  /\ KernelWrites(frames, log, spans, [agents EXCEPT ![a] = "terminated"])

-----------------------------------------------------------------------------
(* The sidebar.                                                            *)

\* The operator goes to another editor, or comes back to the notebook.
FocusChanges ==
  /\ active' = ~active
  /\ scheduleFire
  /\ UNCHANGED <<document, views, maxVisible, interrupt>>

\* provideFileDecoration, for the agent rows of the Zones tree (there with and
\* without the focus) and of the Agents tree.
Asked(a) == IF active THEN Condition(a) ELSE "steady"

DrawRow(a) ==
  /\ a \in DOMAIN agents /\ cached[a] = "unasked"
  /\ cached' = [cached EXCEPT ![a] = Asked(a)]
  /\ UNCHANGED <<document, active, pending, rows, memo, maxVisible, interrupt>>

\* fireChanged: the agents whose condition differs from the memo.
changed == IF active THEN {a \in DOMAIN agents : memo[a] # Condition(a)} ELSE {}

\* The throttle expires: the tree is rendered anew, the badge is set, and VS
\* Code asks again for the decorations it holds and that fired.
Fire ==
  /\ pending /\ pending' = FALSE
  /\ rows' = Render
  /\ memo' = [a \in Agents |-> IF a \in changed THEN Condition(a) ELSE memo[a]]
  /\ cached' = [a \in Agents |->
       IF a \in changed /\ cached[a] # "unasked" THEN Condition(a) ELSE cached[a]]
  /\ UNCHANGED <<document, active, maxVisible, interrupt>>

TrustTheRow(a) ==
  /\ a \in rows.running
  /\ interrupt' = [agent |-> a, cell |-> frames[Len(frames)].cell, run |-> frames[Len(frames)].run]

\* llmnb.sidebar.interruptAgent resolves the run when the button is clicked; a
\* frame without a cell has nothing to route the interrupt to.
resolveInterruptTarget(a) ==
  LET i == IF active THEN getActiveRunFrame(frames, a) ELSE 0
  IN  /\ i # 0 /\ frames[i].cell # ""
      /\ interrupt' = [agent |-> a, cell |-> frames[i].cell, run |-> frames[i].run]

ClickStop(a) ==
  /\ a \in rows.running
  /\ resolveInterruptTarget(a)
  /\ UNCHANGED <<document, active, pending, views, maxVisible>>

\* The row is there when entries are hidden.
LoadMore ==
  /\ active /\ ActivityPage(log, frames, maxVisible).more
  /\ maxVisible < MaxVisible + Step * bound.loads
  /\ maxVisible' = maxVisible + Step
  /\ UNCHANGED <<document, active, pending, views, interrupt>>

OtherTypes == {"operator_revert", "ref_move", "agent_spawn", "other"}

Next ==
  \/ \E a \in Agents :
       \/ \E c \in Cells \cup {""} : StartRun(a, c)
       \/ \E kind \in {"question", "progress"}, t \in 1 .. now : CloseSpan(a, kind, t)
       \/ \E b \in Agents, ts \in {0, now} : LogFork(a, b, ts)
       \/ \E type \in OtherTypes : LogOther(a, type)
       \/ AgentTerminates(a) \/ DrawRow(a) \/ ClickStop(a)
  \/ \E run \in live, s \in EndStatuses, stamped \in BOOLEAN :
       EndRun(run, s, stamped) \/ EndRunBeside(run, s, stamped)
  \/ FocusChanges \/ Fire \/ LoadMore

\* The throttle's timer expires.
Spec == Init /\ [][Next]_vars /\ WF_vars(Fire)

-----------------------------------------------------------------------------
(* Properties.                                                             *)

Conditions == {"attention", "running", "terminated", "steady"}

\* Types.  Every frame names a run that was started, and every live run has
\* its start frame under the key of the run.
TypeOK ==
  /\ Len(frames) <= bound.frames /\ Len(log) <= bound.log /\ Len(spans) <= bound.spans
  /\ \A i \in DOMAIN frames :
       /\ frames[i].run \in 1 .. i
       /\ frames[i].end # 0 => frames[i].end >= frames[i].start
  /\ \A r \in live : frames[r].run = r /\ frames[r].status = "running"
  /\ DOMAIN agents \subseteq Agents
  /\ rows.running \subseteq rows.agents /\ rows.alive <= Cardinality(rows.agents)
  /\ memo \in [Agents -> Conditions \cup {"unset"}]
  /\ cached \in [Agents -> Conditions \cup {"unasked"}]

\* The Inspect badge of a cell shows its newest run, and of a run that is over
\* the record that says so, however many records the run has; the badge
\* is missing only when the cell has no readable record; the history has every
\* run that is over once, oldest first, and the count agrees with both.
InspectTruthful ==
  \A c \in Cells :
    LET own == runFramesOf(frames, c)
        badge == computeInspectCellStatus(frames, c)
        i == badge.frame
        past == runFrameHistoryForCell(frames, c)
    IN  /\ (i = 0) <=> (own = {})
        /\ i # 0 => /\ \A j \in own : frames[j].start <= frames[i].start
                    /\ isTerminal(frames[i]) <=> frames[i].run \notin live
        /\ \A k \in 1 .. Len(past) - 1 : frames[past[k]].start <= frames[past[k + 1]].start
        /\ Len(past) + Cardinality({r \in live : frames[r].cell = c}) = badge.count

\* The run is over by another of its records.
Superseded(i) ==
  /\ ~isTerminal(frames[i])
  /\ \E j \in DOMAIN frames : frames[j].run = frames[i].run /\ isTerminal(frames[j])

\* The record has no ended_at and a status that the sidebar does not know.
Unsettled(i) == frames[i].end = 0 /\ frames[i].status \notin TERMINAL_STATUSES \cup {"running"}

\* Four readers answer "is it running?" from the same frames, each with a test
\* of its own.  None of them hides a run that is live.  What the sidebar takes
\* for running is live, has another record that says it is over, or carries a
\* status the sidebar does not know and no ended_at; the decorations say the
\* same as the sidebar, and a cell that streams is one of such a run, of an
\* agent that the sidebar has in flight.
ReadersAgree ==
  /\ \A r \in live :
       /\ hasInFlightRun(frames, frames[r].agent)
       /\ Condition(frames[r].agent) \in {"running", "attention"}
       /\ frames[r].cell # "" => streaming(frames, frames[r].cell)
  /\ \A a \in Agents :
       /\ hasInFlightRun(frames, a) =>
            LET i == getActiveRunFrame(frames, a)
            IN  frames[i].run \in live \/ Superseded(i) \/ Unsettled(i)
       /\ hasInFlightRun(frames, a) <=> hasInFlightRunFrame(frames, a)
  /\ \A c \in Cells : streaming(frames, c) =>
       \E i \in DOMAIN frames :
         /\ frames[i].cell = c /\ (frames[i].run \in live \/ Superseded(i))
         /\ hasInFlightRun(frames, frames[i].agent)

\* agent-run-state.ts:13, "Statuses that mean the run is over even if `ended_at`
\* was never written": those are the terminal statuses of a run frame
\* (run-frame-reader.ts), so that the sidebar has none of them in flight.
TerminalNotInFlight ==
  \A i \in DOMAIN frames : isTerminal(frames[i]) => ~isInFlight(frames[i])

parentOf(b) == {log[i].agent : i \in {k \in parents(log) : log[k].branch = b}}

ForksTo(b) == {i \in DOMAIN log : log[i].type = "fork" /\ log[i].branch = b}

\* Every request in the log to fork to b was carried out.
Carried(b) == \A i \in ForksTo(b) : log[i].outcome = "made"

\* The branches form a forest.  A branch whose requests in the log were carried
\* out hangs under the agent it was forked from and under no other, and once;
\* following the parents of such branches never comes back to an agent.  Of all
\* agents, the roots are those without a parent, and the branches of an agent
\* are in the order in which they were requested as far as the times are known.
LineageForest ==
  /\ \A b \in Agents : Carried(b) => parentOf(b) = {log[i].agent : i \in ForksTo(b)}
  /\ \A a \in Agents :
       LET kids == children(log, a)
       IN  /\ \A k \in DOMAIN kids : LET b == log[kids[k]].branch IN Carried(b) =>
                /\ parentOf(b) = {a}
                /\ \A m \in DOMAIN kids : log[kids[m]].branch = b => m = k
           /\ \A k, m \in DOMAIN kids : k < m /\ log[kids[k]].ts > 0 /\ log[kids[m]].ts > 0
                => log[kids[k]].ts <= log[kids[m]].ts
  /\ \A b \in Agents : parentOf(b) = {} <=> b \in rootAgentIds(Agents, log)
  /\ \A loop \in (SUBSET {b \in Agents : Carried(b)}) \ {{}} :
       \E b \in loop : parentOf(b) \cap loop = {}

\* agent-lineage.ts:63, "The same `new_agent_id` can only be forked once (the
\* kernel rejects duplicate ids)": no branch is listed under two agents.
OneParent ==
  \A a \in Agents : \A k \in DOMAIN children(log, a) :
    parentOf(log[children(log, a)[k]].branch) = {a}

\* The activity feed never hides an entry behind "Load more" while it shows an
\* older one, offers "Load more" exactly when something is hidden, and has the
\* start of every record once and no end of a run that is live.
FeedNewestFirst ==
  LET all == synthesizeActivity(log, frames)
      page == ActivityPage(log, frames, maxVisible)
      pos(type, run) == {i \in DOMAIN all : all[i].type = type /\ all[i].of = run}
  IN  /\ \A i \in DOMAIN page.entries : \A j \in DOMAIN all :
           all[j].ts > page.entries[i].ts => j \in DOMAIN page.entries
      /\ page.more <=> Len(page.entries) < Len(all)
      /\ \A r \in {frames[i].run : i \in DOMAIN frames} :
           Cardinality(pos("run_start", r)) = Cardinality({i \in DOMAIN frames : frames[i].run = r})
      /\ \A r \in live : pos("run_end", r) = {}

\* A click on a stop button, however old the row it is on, interrupts a run
\* that the document shows in flight, and routes it to a cell of that run.
NoStrayInterrupt ==
  [][interrupt' # interrupt =>
       /\ active
       /\ \E i \in DOMAIN frames :
            /\ isInFlight(frames[i]) /\ frames[i].agent = interrupt'.agent
            /\ frames[i].run = interrupt'.run /\ frames[i].cell = interrupt'.cell
            /\ frames[i].cell # ""]_vars

\* PLAN-V2-sidebar-glanceability.md:29, "Every agent row gets a badge encoding
\* the highest-attention condition": when nothing is pending, the badges that
\* are drawn in the active notebook are those of the document.
BadgeCurrent ==
  active /\ ~pending => \A a \in Agents : cached[a] \in {"unasked", Condition(a)}
=============================================================================
