--------------------------- MODULE SnapshotViews ---------------------------
(***************************************************************************)
(* What the operator sees of notebook.metadata snapshots: the agent,       *)
(* contamination and pin registries fed by the router, the optimistic      *)
(* override of the interrupt button, the document-backed section source,   *)
(* and the status-bar items VS Code collects from their providers          *)
(* (notebook/cell-badge.ts, interrupt-button.ts, contamination-badge.ts,   *)
(* pin-status-header.ts, sections/, wired in this order by extension.ts).  *)
(*                                                                         *)
(* The kernel is external and may publish any of the Snapshots, also out   *)
(* of version order.  VS Code is external: it collects the items of a      *)
(* provider some time after the provider's event, or after the cell has    *)
(* changed.  An agent's provider travels with its runtime_status and is    *)
(* left out; so are texts, tooltips and colours.                           *)
(*                                                                         *)
(* SetSilently, DeferToRegistry and KeepRows are faulty variants of the    *)
(* definition that follows each; no action uses them.                      *)
(***************************************************************************)
EXTENDS Integers, Sequences, FiniteSets

CONSTANTS
  Agents, Cells, Ids, Sections, None,
  Absent,     \* the value of a key that is missing ...
  Malformed,  \* ... and one that is not an object
  KindOf,     \* the kind of each cell, "markup" for a markup cell
  IdsOf,      \* candidateCellIds of each cell
  BoundTo,    \* bound_agent_id of each cell, None without one
  Snapshots,  \* the payloads the kernel may publish
  MaxSnapshots, \* bound on the snapshots published
  MaxClicks     \* bound on the clicks of the interrupt button

Statuses == {"spawning", "active", "alive", "idle", "exited"}

ASSUME ViewsAssumption ==
  /\ KindOf \in [Cells -> STRING]
  /\ IdsOf \in [Cells -> Seq(Ids)]
  /\ BoundTo \in [Cells -> Agents \cup {None}]
  /\ MaxSnapshots \in Nat /\ MaxClicks \in Nat
  /\ \A s \in Snapshots :
       /\ s.mode \in {"patch", "snapshot"}
       /\ s.agents = None \/ s.agents \in [Agents -> Statuses \cup {"undefined", Absent}]
       /\ s.cells = None \/
            /\ DOMAIN s.cells = Ids
            /\ \A id \in Ids : /\ s.cells[id] # None
                               /\ s.cells[id] \in {Absent, Malformed} \/ s.cells[id].log \in Seq(Nat)
       /\ s.config = None \/ s.config \in [hash : BOOLEAN, accepted : BOOLEAN]
       /\ DOMAIN s.sections = Sections
  /\ Absent # Malformed

\* The providers whose items VS Code collects.
Views == {"badge", "interrupt", "contamination", "section"}

VARIABLES
  wire,        \* snapshots under way to the router, in order
  published,   \* how many the kernel has published
  rows,        \* AgentRegistryImpl.byId: a runtime_status or "undefined"
  overrides,   \* LocalOverrideStore: the agents marked "interrupting"
  slots,       \* ContaminationRegistry.byCellId
  config,      \* PinStatusRegistry.state
  accepted,    \* the applier has a lastAcceptedVersion
  edits,       \* metadata edits handed to VS Code and not applied yet
  doc,         \* metadata.rts of the open notebook, None before the first
  span,        \* the agent of each cell's last span, None without a span
  focus,       \* an llmnb notebook is the active editor
  chip,        \* what the pin chip shows, None while it is hidden
  items,       \* the status-bar item of each view and cell, None without one
  dirty,       \* views whose items VS Code has to collect again
  clicks,      \* agent_interrupt envelopes shipped, in order
  fate         \* history: what became of the last snapshot the router saw

registries == <<rows, overrides, slots, config>>
document   == <<accepted, edits, doc>>
display    == <<focus, chip, items, dirty>>
vars == <<wire, published, registries, document, span, display, clicks, fate>>

-----------------------------------------------------------------------------
(* The pure functions behind the items.                                    *)

\* Markup, operator-side and reserved kinds carry no agent identity.
badgeIsApplicable(c) ==
  KindOf[c] \notin {"markup", "markdown", "scratch", "checkpoint",
                    "tool", "artifact", "control", "native"}

\* The binding written on directive parse, else the agent of the last span.
resolveAgentIdForInterrupt(c) == IF BoundTo[c] # None THEN BoundTo[c] ELSE span[c]

computeCellBadge(c) ==
  LET a == resolveAgentIdForInterrupt(c)
  IN  IF ~badgeIsApplicable(c) \/ a = None THEN None
      ELSE [agent |-> a,
            status |-> IF rows[a] \in {None, "undefined"} THEN "idle" ELSE rows[a]]

INTERRUPTIBLE_STATUSES == {"active", "alive", "spawning"}

DeferToRegistry(c) ==
  LET a == resolveAgentIdForInterrupt(c)
  IN  IF /\ badgeIsApplicable(c) /\ a # None
         /\ rows[a] \in INTERRUPTIBLE_STATUSES
      THEN a ELSE None

\* The override wins over the registry, and "interrupting" hides the button.
computeInterruptButton(c) ==
  LET a == resolveAgentIdForInterrupt(c)
  IN  IF /\ badgeIsApplicable(c) /\ a # None
         /\ a \notin overrides
         /\ rows[a] \in INTERRUPTIBLE_STATUSES
      THEN a ELSE None

\* The first of the candidate ids that is one of ids, None if there is none.
FirstId(c, ids) ==
  LET hits == {i \in 1 .. Len(IdsOf[c]) : IdsOf[c][i] \in ids}
  IN  IF hits = {} THEN None
      ELSE IdsOf[c][CHOOSE i \in hits : \A j \in hits : i <= j]

Tail3(log) == SubSeq(log, IF Len(log) > 3 THEN Len(log) - 2 ELSE 1, Len(log))

computeContaminationBadge(c) ==
  LET id == FirstId(c, {k \in Ids : slots[k] # None /\ slots[k].contaminated})
  IN  IF id = None THEN None
      ELSE [cell |-> id, count |-> Len(slots[id].log), tail |-> Tail3(slots[id].log)]

\* The section a cell record of the document names, if the document has it.
SectionOf(id) ==
  IF \/ doc = None \/ doc.cells = None \/ doc.cells[id] \in {Absent, Malformed}
  THEN None
  ELSE LET s == doc.cells[id].section
       IN  IF s = None \/ doc.sections[s] = None THEN None ELSE s

SectionStatuses == {"open", "in_progress", "complete", "frozen"}

computeSectionHeader(c) ==
  LET id == FirstId(c, {k \in Ids : SectionOf(k) # None})
  IN  IF id = None THEN None
      ELSE LET sec == doc.sections[SectionOf(id)]
           IN  [section |-> SectionOf(id), title |-> sec.title,
                status |-> IF sec.status \in SectionStatuses THEN sec.status ELSE "open",
                first |-> sec.range # <<>> /\ Head(sec.range) = id,
                count |-> Len(sec.range)]

Compute(v, c) ==
  CASE v = "badge" -> computeCellBadge(c)
    [] v = "interrupt" -> computeInterruptButton(c)
    [] v = "contamination" -> computeContaminationBadge(c)
    [] v = "section" -> computeSectionHeader(c)

Off == [hash |-> FALSE, accepted |-> FALSE]

TypeOK ==
  /\ wire \in Seq([payload : Snapshots, stale : BOOLEAN])
  /\ rows \in [Agents -> Statuses \cup {"undefined", None}]
  /\ overrides \in SUBSET Agents
  /\ DOMAIN slots = Ids
  /\ config \in [hash : BOOLEAN, accepted : BOOLEAN]
  /\ chip \in {None} \cup [hash : BOOLEAN, accepted : BOOLEAN]
  /\ published \in 0 .. MaxSnapshots
  /\ span \in [Cells -> Agents \cup {None}]
  /\ DOMAIN items = Views /\ \A v \in Views : DOMAIN items[v] = Cells
  /\ dirty \in SUBSET Views
  /\ \A c \in Cells : /\ items["interrupt"][c] \in Agents \cup {None}
                      /\ KindOf[c] = "scratch" => items["badge"][c] = None
  /\ clicks \in Seq(Agents) /\ Len(clicks) <= MaxClicks
  /\ fate \in {"none", "taken", "rejected", "refused"}

Init ==
  /\ wire = <<>> /\ published = 0
  /\ rows = [a \in Agents |-> None] /\ overrides = {}
  /\ slots = [id \in Ids |-> None] /\ config = Off
  /\ accepted = FALSE /\ edits = <<>> /\ doc = None
  /\ span = [c \in Cells |-> None]
  /\ focus = FALSE /\ chip = None
  /\ items = [v \in Views |-> [c \in Cells |-> None]] /\ dirty = Views
  /\ clicks = <<>>
  /\ fate = "none"

-----------------------------------------------------------------------------
(* The observers, each as a function of the payload.                       *)

\* AgentRegistryImpl: rows are upserted and never removed.
agentRows(p) ==
  [a \in Agents |->
     IF p.mode # "snapshot" \/ p.agents = None \/ p.agents[a] = Absent
     THEN rows[a] ELSE p.agents[a]]

\* The override clearer of activate(): any runtime_status of the agent counts.
clearedOverrides(p) ==
  IF p.mode # "snapshot" \/ p.agents = None THEN overrides
  ELSE {a \in overrides : p.agents[a] \in {Absent, "undefined"}}

SameSlot(x, y) ==
  /\ x.contaminated = y.contaminated
  /\ Len(x.log) = Len(y.log)
  /\ x.bound = y.bound

KeepRows(p) ==
  [id \in Ids |->
     IF p.mode # "snapshot" \/ p.cells = None \/ p.cells[id] \in {Absent, Malformed}
     THEN slots[id] ELSE p.cells[id]]

\* ContaminationRegistry: a row is replaced if it differs in what SameSlot
\* compares, and dropped if the snapshot does not mention the cell.
contaminationSlots(p) ==
  [id \in Ids |->
     IF p.mode # "snapshot" \/ p.cells = None THEN slots[id]
     ELSE IF p.cells[id] = Absent THEN None
     ELSE IF \/ p.cells[id] = Malformed
             \/ (slots[id] # None /\ SameSlot(slots[id], p.cells[id]))
     THEN slots[id] ELSE p.cells[id]]

\* PinStatusRegistry: what is not true, or not a string, counts as off.
pinConfig(p) ==
  IF p.mode # "snapshot" \/ p.config = None THEN config ELSE p.config

\* PinStatusHeaderHost.refresh.
refresh(cfg, active) == IF active THEN cfg ELSE None

\* The events the registries fire when something has changed; the document-
\* backed source fires on every payload.
Fired(p) ==
  {"section"}
  \cup (IF agentRows(p) # rows THEN {"badge", "interrupt"} ELSE {})
  \cup (IF clearedOverrides(p) # overrides THEN {"interrupt"} ELSE {})
  \cup (IF contaminationSlots(p) # slots THEN {"contamination"} ELSE {})

\* MessageRouter.route calls the observers one after the other in one turn,
\* the applier first: its edit is on its way when the others run.
SnapshotArrives ==
  /\ wire # <<>>
  /\ wire' = Tail(wire)
  /\ LET p == Head(wire).payload
         rejected == p.mode # "snapshot" \/ (accepted /\ Head(wire).stale)
     IN  /\ edits' = IF rejected THEN edits ELSE Append(edits, p)
         /\ rows' = agentRows(p)
         /\ overrides' = clearedOverrides(p)
         /\ slots' = contaminationSlots(p)
         /\ config' = pinConfig(p)
         /\ chip' = IF pinConfig(p) = config THEN chip ELSE refresh(pinConfig(p), focus)
         /\ dirty' = dirty \cup Fired(p)
         /\ fate' = IF p.mode # "snapshot" THEN fate ELSE IF rejected THEN "rejected" ELSE "taken"
  /\ UNCHANGED <<published, accepted, doc, span, focus, items, clicks>>

KernelPublishes(p, stale) ==
  /\ published < MaxSnapshots /\ published' = published + 1
  /\ stale => accepted
  /\ wire' = Append(wire, [payload |-> p, stale |-> stale])
  /\ UNCHANGED <<registries, document, span, display, clicks, fate>>

-----------------------------------------------------------------------------
(* The document and the cells change; both make VS Code collect again.     *)

\* applyEdit succeeded: onDidChangeNotebookDocument reaches the source.
EditApplied ==
  /\ edits # <<>>
  /\ doc' = Head(edits) /\ edits' = Tail(edits) /\ accepted' = TRUE
  /\ dirty' = dirty \cup {"section"}
  /\ UNCHANGED <<wire, published, registries, span, focus, chip, items, clicks, fate>>

EditRefused ==
  /\ edits # <<>>
  /\ edits' = Tail(edits)
  /\ fate' = IF edits' = <<>> /\ fate = "taken" THEN "refused" ELSE fate
  /\ UNCHANGED <<wire, published, registries, accepted, doc, span, display, clicks>>

\* A span is appended to the cell's output: the document-backed source hears
\* of it, and VS Code collects the items of a cell whose outputs change.
SpanAppended(c, a) ==
  /\ span' = [span EXCEPT ![c] = a]
  /\ dirty' = Views
  /\ UNCHANGED <<wire, published, registries, document, focus, chip, items, clicks, fate>>

Collect(v) ==
  /\ v \in dirty
  /\ dirty' = dirty \ {v}
  /\ items' = [items EXCEPT ![v] = [c \in Cells |-> Compute(v, c)]]
  /\ UNCHANGED <<wire, published, registries, document, span, focus, chip, clicks, fate>>

\* onDidChangeActiveNotebookEditor.
FocusChanges ==
  /\ focus' = ~focus
  /\ chip' = refresh(config, focus')
  /\ UNCHANGED <<wire, published, registries, document, span, items, dirty, clicks, fate>>

-----------------------------------------------------------------------------
(* The interrupt button.                                                   *)

SetSilently(a) == overrides' = overrides \cup {a} /\ UNCHANGED dirty

\* LocalOverrideStore.set fires when the mark is new.
markInterrupting(a) ==
  /\ overrides' = overrides \cup {a}
  /\ dirty' = IF a \in overrides THEN dirty ELSE dirty \cup {"interrupt"}

\* The envelope is queued and the mark is set in one turn.
postAgentInterrupt(a) == clicks' = Append(clicks, a) /\ markInterrupting(a)

\* The click carries the agent of the item that is displayed.
ClickInterrupt(c) ==
  /\ items["interrupt"][c] # None
  /\ Len(clicks) < MaxClicks
  /\ postAgentInterrupt(items["interrupt"][c])
  /\ UNCHANGED <<wire, published, rows, slots, config, document, span, focus, chip, items, fate>>

Next ==
  \/ SnapshotArrives
  \/ EditApplied \/ EditRefused
  \/ FocusChanges
  \/ \E p \in Snapshots, stale \in BOOLEAN : KernelPublishes(p, stale)
  \/ \E c \in Cells, a \in Agents : SpanAppended(c, a)
  \/ \E v \in Views : Collect(v)
  \/ \E c \in Cells : ClickInterrupt(c)

Spec == Init /\ [][Next]_vars

-----------------------------------------------------------------------------
(* Properties.                                                             *)

\* Whatever order snapshots, edits, clicks and collections come in, an item
\* VS Code has not been told to collect again is the one its provider would
\* compute now, and the pin chip, written by refresh() itself, is that of the
\* registry: no store changes without its event.
ItemsCurrent ==
  /\ \A v \in Views \ dirty, c \in Cells : items[v][c] = Compute(v, c)
  /\ chip = refresh(config, focus)

\* The cells whose contamination log is append-only, as PLAN-S5.0.1 3.6 has it:
\* of two logs the shorter one is the beginning of the longer one.
AppendOnlyIds ==
  {id \in Ids :
     \A s, t \in Snapshots :
       /\ s.cells # None /\ s.cells[id] \notin {Absent, Malformed}
       /\ t.cells # None /\ t.cells[id] \notin {Absent, Malformed}
       /\ Len(s.cells[id].log) <= Len(t.cells[id].log)
       => SubSeq(t.cells[id].log, 1, Len(s.cells[id].log)) = s.cells[id].log}

\* What a snapshot says and the registries show are the same.
AgentsShow(p) == p.agents # None => \A a \in Agents : p.agents[a] = Absent \/ rows[a] = p.agents[a]

CellShows(p, id) ==
  CASE p.cells[id] = Absent -> slots[id] = None
    [] p.cells[id] = Malformed -> TRUE
    [] OTHER -> /\ slots[id] # None
                /\ slots[id].contaminated = p.cells[id].contaminated
                /\ slots[id].log = p.cells[id].log
                /\ slots[id].bound = p.cells[id].bound

Shows(p) ==
  /\ AgentsShow(p)
  /\ p.config = None \/ config = p.config
  /\ p.cells # None => \A id \in AppendOnlyIds : CellShows(p, id)

\* Two paths, one picture: the registries take a snapshot at once and skip the
\* rows they take for unchanged, the document gets it by an edit some time later;
\* once the edits are through, badges, button and chip say of every agent, cell
\* and field in the document what the document says, the log lines of the
\* contamination tooltip included although only lengths are compared (logs being
\* append-only).  Excepted is a last snapshot that never became the document,
\* because W8 rejected it or VS Code refused the edit.
RegistriesMatchDocument == edits = <<>> /\ fate = "taken" => Shows(doc)

\* An agent that is already marked interrupting is only interrupted again
\* through a button VS Code has yet to collect: the optimistic hide works for
\* every cell of the agent, not only for the one that was clicked.
NoBlindSecondInterrupt ==
  [][\A a \in overrides :
       clicks' = Append(clicks, a) => "interrupt" \in dirty]_vars

\* RFC-006 W8: of a snapshot that is older than the last accepted one the
\* receiver logs the fact and retains its current state.
StaleSnapshotIgnored ==
  [][accepted /\ wire # <<>> /\ wire' = Tail(wire) /\ Head(wire).stale
       => UNCHANGED <<rows, slots, config>>]_vars
=============================================================================
