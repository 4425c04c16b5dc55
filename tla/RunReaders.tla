----------------------------- MODULE RunReaders -----------------------------
(***************************************************************************)
(* What the extension derives from the run frames, the event log and the   *)
(* tagged spans that the kernel keeps in metadata.rts: the Inspect badge   *)
(* of a cell, its streaming badge, the in-flight state of an agent, its    *)
(* decoration, the branches of an agent and the activity feed              *)
(* (inspect/run-frame-reader.ts, notebook/three-pane-badges.ts,            *)
(* sidebar/agent-run-state.ts, agent-decoration-logic.ts,                  *)
(* agent-lineage.ts, activity-tree.ts, view-badge.ts).                     *)
(*                                                                         *)
(* run_frames is a sequence in the order of its keys; a frame names its    *)
(* run by number.  Times are numbers, 0 one that is absent or unreadable;  *)
(* a cell "" is one that the record lacks.                                 *)
(*                                                                         *)
(* FirstRecord, EndedOrNothing, AnyHeadMove and OldestFirst are faulty     *)
(* variants of the definition that follows each.                           *)
(***************************************************************************)
EXTENDS Integers, Sequences, FiniteSets

\* The elements of S in the order before: each one stands after those before
\* it.  SortSeq would do, but the provers do not know it.
SortedBy(S, before(_, _)) ==
  LET rank == [x \in S |-> Cardinality({y \in S : before(y, x)})]
  IN  [k \in 1 .. Cardinality(S) |-> CHOOSE x \in S : rank[x] = k - 1]

RunFrameStatus == {"running", "complete", "failed", "interrupted"}
RUN_FRAME_TERMINAL_STATUSES == {"complete", "failed", "interrupted"}

\* TERMINAL_STATUSES of the sidebar and SETTLED_RUN_STATUSES of its badges.
TERMINAL_STATUSES == {"complete", "completed", "error", "failed", "cancelled"}

isTerminal(f) == f.status \in RUN_FRAME_TERMINAL_STATUSES

-----------------------------------------------------------------------------
(* The Inspect surface: one badge per cell.                                *)

\* parseRunFrame drops a record without a cell, a start or a known status.
parseRunFrame(f) == f.cell # "" /\ f.start > 0 /\ f.status \in RunFrameStatus

runFramesOf(frames, cell) ==
  {i \in DOMAIN frames : parseRunFrame(frames[i]) /\ frames[i].cell = cell}

FirstRecord(frames, cell) ==
  LET own == runFramesOf(frames, cell)
  IN  {i \in own : \A j \in own : frames[j].run = frames[i].run => i <= j}

\* bestByRunId: the first terminal record of a run, else its first record.
bestByRunId(frames, cell) ==
  LET own == runFramesOf(frames, cell)
      better(j, i) == \/ isTerminal(frames[j]) /\ ~isTerminal(frames[i])
                      \/ (isTerminal(frames[j]) <=> isTerminal(frames[i])) /\ j < i
  IN  {i \in own : \A j \in own : frames[j].run = frames[i].run => ~better(j, i)}

compareStartedAtDesc(a, b) ==
  a.start > b.start \/ (a.start = b.start /\ a.run < b.run)

\* 0 for a cell that has no recorded run.
latestRunFrameForCell(frames, cell) ==
  LET best == bestByRunId(frames, cell)
  IN  IF best = {} THEN 0
      ELSE CHOOSE i \in best :
             \A j \in best \ {i} : compareStartedAtDesc(frames[i], frames[j])

runFrameHistoryForCell(frames, cell) ==
  SortedBy({i \in bestByRunId(frames, cell) : isTerminal(frames[i])},
           LAMBDA i, j : compareStartedAtDesc(frames[j], frames[i]))

runCountForCell(frames, cell) ==
  Cardinality({frames[i].run : i \in runFramesOf(frames, cell)})

\* The badge of a cell: the record it shows and the number of runs in its
\* tooltip; the manifest only adds to the text.
computeInspectCellStatus(frames, cell) ==
  LET i == latestRunFrameForCell(frames, cell)
  IN  [frame |-> i, count |-> IF i = 0 THEN 0 ELSE runCountForCell(frames, cell)]

\* computeThreePaneBadges: the cell is streaming.
streaming(frames, cell) ==
  \E i \in DOMAIN frames :
    frames[i].status = "running" /\ frames[i].end = 0 /\ frames[i].cell = cell

-----------------------------------------------------------------------------
(* Agents.                                                                 *)

EndedOrNothing(f) == f.end = 0

isInFlight(f) == f.end = 0 /\ f.status \notin TERMINAL_STATUSES

\* The newest in-flight run of the agent, the first of those that tie; 0
\* without one.
getActiveRunFrame(frames, agent) ==
  LET own == {i \in DOMAIN frames : frames[i].agent = agent /\ isInFlight(frames[i])}
  IN  IF own = {} THEN 0
      ELSE CHOOSE i \in own : \A j \in own :
             frames[i].start > frames[j].start \/ (frames[i].start = frames[j].start /\ i <= j)

hasInFlightRun(frames, agent) == getActiveRunFrame(frames, agent) # 0

\* The decorations have a copy of the test of their own.
hasInFlightRunFrame(frames, agent) ==
  \E i \in DOMAIN frames :
    /\ frames[i].agent = agent /\ frames[i].end = 0
    /\ frames[i].status \notin TERMINAL_STATUSES

\* The kind of the agent's tagged span with the latest start; of those that
\* tie, the last one in the log.
latestTaggedSpanKind(spans, agent) ==
  LET own == {i \in DOMAIN spans : spans[i].agent = agent /\ spans[i].kind # ""}
  IN  IF own = {} THEN ""
      ELSE spans[CHOOSE i \in own : \A j \in own :
             \/ spans[i].start > spans[j].start
             \/ (spans[i].start = spans[j].start /\ j <= i)].kind

ATTENTION_KINDS == {"question", "decision"}

deriveAgentCondition(frames, spans, agent, status) ==
  IF latestTaggedSpanKind(spans, agent) \in ATTENTION_KINDS THEN "attention"
  ELSE IF hasInFlightRunFrame(frames, agent) THEN "running"
  ELSE IF status = "terminated" THEN "terminated"
  ELSE "steady"

computeAliveAgentCount(agents) ==
  Cardinality({a \in DOMAIN agents : agents[a] = "alive"})

-----------------------------------------------------------------------------
(* Branches: what the captured fork_agent intents say.                     *)

AnyHeadMove(e) == e.type \in {"fork", "move_head", "ref_move"}

\* extractForkRecord: only a zone_mutate envelope with a fork_agent intent.
extractForkRecord(e) == e.type = "fork"

\* lineage.parents: the first record of a branch.
parents(log) ==
  LET forks == {i \in DOMAIN log : extractForkRecord(log[i])}
  IN  {i \in forks : \A j \in forks : log[j].branch = log[i].branch => i <= j}

\* lineage.children: in the order of capture, those without a time last.
children(log, agent) ==
  LET earlier(i, j) ==
        LET known(k) == log[k].ts > 0
        IN  \/ known(i) /\ ~known(j)
            \/ known(i) /\ known(j) /\ log[i].ts < log[j].ts
            \/ (known(i) <=> known(j)) /\ (log[i].ts = log[j].ts) /\ i < j
  IN  SortedBy({i \in DOMAIN log : extractForkRecord(log[i]) /\ log[i].agent = agent},
               earlier)

rootAgentIds(agents, log) == agents \ {log[i].branch : i \in parents(log)}

-----------------------------------------------------------------------------
(* The activity feed.                                                      *)

\* An entry, with its place in the array before that is sorted.
Entry(type, ts, of, at) == [type |-> type, ts |-> ts, of |-> of, at |-> at]

\* Legacy records by their reason, envelopes by action type and intent; what
\* is none of these is not shown.
classifyEventLogEntry(e, at) ==
  CASE e.type \in {"operator_revert", "move_revert"} -> {Entry("agent_revert", e.ts, e.agent, at)}
    [] e.type \in {"operator_branch", "fork"} -> {Entry("agent_branch", e.ts, e.agent, at)}
    [] e.type \in {"ref_move", "move_head"} -> {Entry("ref_move", e.ts, e.agent, at)}
    [] e.type = "agent_spawn" -> {Entry("agent_spawn", e.ts, e.agent, at)}
    [] OTHER -> {}

classifyRunFrame(f, at) ==
  (IF f.start > 0 THEN {Entry("run_start", f.start, f.run, at)} ELSE {})
  \cup (IF f.end > 0 THEN {Entry("run_end", f.end, f.run, at + 1)} ELSE {})

EventLogEntries(log) == UNION {classifyEventLogEntry(log[i], i) : i \in DOMAIN log}

RunFrameEntries(frames, after) ==
  UNION {classifyRunFrame(frames[i], after + 2 * i - 1) : i \in DOMAIN frames}

OldestFirst(es) ==
  SortedBy(es, LAMBDA d, e : d.ts < e.ts \/ (d.ts = e.ts /\ d.at < e.at))

\* A stable sort, the most recent first.
NewestFirst(es) ==
  SortedBy(es, LAMBDA d, e : d.ts > e.ts \/ (d.ts = e.ts /\ d.at < e.at))

\* The log first, then the frames.
synthesizeActivity(log, frames) ==
  NewestFirst(EventLogEntries(log) \cup RunFrameEntries(frames, Len(log)))

\* getChildren of the feed: a page of it, and whether "Load more" follows.
ActivityPage(log, frames, maxVisible) ==
  LET all == synthesizeActivity(log, frames)
      n == IF Len(all) <= maxVisible THEN Len(all) ELSE maxVisible
  IN  [entries |-> SubSeq(all, 1, n), more |-> Len(all) > maxVisible]
=============================================================================
