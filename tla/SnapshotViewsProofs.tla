------------------------ MODULE SnapshotViewsProofs ------------------------
(***************************************************************************)
(* Proofs about SnapshotViews, for every set of agents, cells and ids,     *)
(* every binding, and every set of payloads the kernel may publish.        *)
(*                                                                         *)
(* ItemsCurrent is inductive once the types are known, because every store *)
(* changes in the same turn as the event that makes VS Code collect again; *)
(* NoBlindSecondInterrupt follows from ItemsCurrent: a button that need    *)
(* not be collected again is the one computeInterruptButton gives now, and *)
(* that defers to the override.  RegistriesMatchDocument needs MatchInv:   *)
(* every row of the contamination registry is one a snapshot brought, and  *)
(* the registries show the snapshot whose edit is applied last.            *)
(***************************************************************************)
EXTENDS SnapshotViews, TLAPS

Frames == [payload : Snapshots, stale : BOOLEAN]

\* What ViewsAssumption says of one payload.
LEMMA PayloadShape ==
  ASSUME NEW p \in Snapshots
  PROVE  /\ p.agents = None \/ p.agents \in [Agents -> Statuses \cup {"undefined", Absent}]
         /\ p.cells = None \/ \A id \in Ids : p.cells[id] # None
         /\ p.cells # None => \A id \in Ids : \/ p.cells[id] \in {Absent, Malformed}
                                             \/ p.cells[id].log \in Seq(Nat)
         /\ p.config = None \/ p.config \in [hash : BOOLEAN, accepted : BOOLEAN]
BY ViewsAssumption

\* The agent of a cell is an agent, if it has one.
LEMMA ResolveType ==
  ASSUME span \in [Cells -> Agents \cup {None}], NEW c \in Cells
  PROVE  resolveAgentIdForInterrupt(c) \in Agents \cup {None}
BY ViewsAssumption DEF resolveAgentIdForInterrupt

\* A queue keeps the type of its elements when one is added or taken away.
LEMMA QueueType ==
  ASSUME NEW S, NEW s \in Seq(S), NEW e \in S
  PROVE  /\ Append(s, e) \in Seq(S) /\ Len(Append(s, e)) = Len(s) + 1 /\ Len(s) \in Nat
         /\ s # <<>> => Tail(s) \in Seq(S) /\ Head(s) \in S
OBVIOUS

\* The wire, when its first frame is taken off.
LEMMA WireTail ==
  ASSUME TypeOK, wire # <<>>
  PROVE  Tail(wire) \in Seq(Frames) /\ Head(wire) \in Frames /\ Head(wire).payload \in Snapshots
<1>1. wire \in Seq(Frames)
  BY DEF TypeOK, Frames
<1>2. Tail(wire) \in Seq(Frames) /\ Head(wire) \in Frames
  BY <1>1
<1>. QED
  BY <1>2 DEF Frames

\* Each observer keeps the type of its store.
LEMMA ObserverTypes ==
  ASSUME TypeOK, NEW p \in Snapshots
  PROVE  /\ agentRows(p) \in [Agents -> Statuses \cup {"undefined", None}]
         /\ clearedOverrides(p) \in SUBSET Agents
         /\ DOMAIN contaminationSlots(p) = Ids
         /\ pinConfig(p) \in [hash : BOOLEAN, accepted : BOOLEAN]
         /\ Fired(p) \in SUBSET Views
<1>1. agentRows(p) \in [Agents -> Statuses \cup {"undefined", None}]
  BY PayloadShape DEF agentRows, TypeOK
<1>2. clearedOverrides(p) \in SUBSET Agents
  BY DEF clearedOverrides, TypeOK
<1>3. DOMAIN contaminationSlots(p) = Ids
  BY DEF contaminationSlots
<1>4. pinConfig(p) \in [hash : BOOLEAN, accepted : BOOLEAN]
  BY PayloadShape DEF pinConfig, TypeOK
<1>5. Fired(p) \in SUBSET Views
  BY DEF Fired, Views
<1>. QED
  BY <1>1, <1>2, <1>3, <1>4, <1>5

-----------------------------------------------------------------------------
\* The registries, the queues and the items keep their types, for every set of
\* payloads: rows hold a status, and an interrupt button names an agent.
THEOREM TypeCorrect == Spec => []TypeOK
<1>1. Init => TypeOK
  <2>. SUFFICES ASSUME Init PROVE TypeOK
    OBVIOUS
  <2>1. wire \in Seq([payload : Snapshots, stale : BOOLEAN]) /\ clicks \in Seq(Agents)
        /\ Len(clicks) <= MaxClicks /\ published \in 0 .. MaxSnapshots
    BY ViewsAssumption DEF Init
  <2>2. rows \in [Agents -> Statuses \cup {"undefined", None}] /\ overrides \in SUBSET Agents
        /\ DOMAIN slots = Ids /\ span \in [Cells -> Agents \cup {None}]
    BY DEF Init
  <2>3. config \in [hash : BOOLEAN, accepted : BOOLEAN] /\ chip = None
    BY DEF Init, Off
  <2>4. /\ DOMAIN items = Views /\ \A v \in Views : DOMAIN items[v] = Cells
        /\ \A c \in Cells : items["interrupt"][c] = None /\ items["badge"][c] = None
        /\ dirty \in SUBSET Views /\ fate \in {"none", "taken", "rejected", "refused"}
    BY DEF Init, Views
  <2>. QED
    BY <2>1, <2>2, <2>3, <2>4 DEF TypeOK
<1>2. TypeOK /\ [Next]_vars => TypeOK'
  <2>. SUFFICES ASSUME TypeOK, [Next]_vars PROVE TypeOK'
    OBVIOUS
  <2>1. CASE SnapshotArrives
    <3>. DEFINE p == Head(wire).payload
    <3>1. p \in Snapshots /\ wire' \in Seq([payload : Snapshots, stale : BOOLEAN])
      BY <2>1, WireTail DEF SnapshotArrives, Frames
    <3>2. /\ rows' = agentRows(p) /\ overrides' = clearedOverrides(p)
          /\ slots' = contaminationSlots(p) /\ config' = pinConfig(p)
          /\ chip' = (IF pinConfig(p) = config THEN chip ELSE refresh(pinConfig(p), focus))
          /\ dirty' = dirty \cup Fired(p)
          /\ UNCHANGED <<published, span, items, clicks>>
      BY <2>1 DEF SnapshotArrives
    <3>0. fate' \in {"none", "taken", "rejected", "refused"}
      BY <2>1 DEF SnapshotArrives, TypeOK
    <3>. HIDE DEF p
    <3>3. /\ rows' \in [Agents -> Statuses \cup {"undefined", None}]
          /\ overrides' \in SUBSET Agents /\ DOMAIN slots' = Ids
          /\ config' \in [hash : BOOLEAN, accepted : BOOLEAN]
      BY <3>1, <3>2, ObserverTypes
    <3>4. dirty' \in SUBSET Views
      BY <3>1, <3>2, ObserverTypes DEF TypeOK
    <3>5. chip' \in {None} \cup [hash : BOOLEAN, accepted : BOOLEAN]
      BY <3>2, <3>3 DEF refresh, TypeOK
    <3>. QED
      BY <3>0, <3>1, <3>2, <3>3, <3>4, <3>5 DEF TypeOK
  <2>2. CASE EditApplied
    BY <2>2 DEF TypeOK, EditApplied, registries, Views
  <2>3. CASE EditRefused
    BY <2>3 DEF TypeOK, EditRefused, registries, display
  <2>4. CASE FocusChanges
    <3>1. chip' \in {None} \cup [hash : BOOLEAN, accepted : BOOLEAN]
      BY <2>4 DEF FocusChanges, refresh, TypeOK
    <3>. QED
      BY <2>4, <3>1 DEF TypeOK, FocusChanges, registries
  <2>5. ASSUME NEW p \in Snapshots, NEW stale \in BOOLEAN, KernelPublishes(p, stale)
        PROVE  TypeOK'
    <3>1. [payload |-> p, stale |-> stale] \in Frames /\ wire \in Seq(Frames)
      BY DEF TypeOK, Frames
    <3>2. wire' \in Seq([payload : Snapshots, stale : BOOLEAN])
      BY <2>5, <3>1, QueueType DEF KernelPublishes, Frames
    <3>3. published' \in 0 .. MaxSnapshots
      BY <2>5, ViewsAssumption DEF TypeOK, KernelPublishes
    <3>. QED
      BY <2>5, <3>2, <3>3 DEF TypeOK, KernelPublishes, registries, display
  <2>6. ASSUME NEW c \in Cells, NEW a \in Agents, SpanAppended(c, a)
        PROVE  TypeOK'
    BY <2>6 DEF TypeOK, SpanAppended, registries
  <2>7. ASSUME NEW v \in Views, Collect(v)
        PROVE  TypeOK'
    <3>1. /\ items' = [items EXCEPT ![v] = [c \in Cells |-> Compute(v, c)]]
          /\ dirty' = dirty \ {v} /\ DOMAIN items = Views
          /\ UNCHANGED <<wire, published, registries, span, chip, clicks, fate>>
      BY <2>7 DEF Collect, TypeOK
    <3>2. DOMAIN items' = Views /\ \A w \in Views : DOMAIN items'[w] = Cells
      BY <3>1 DEF TypeOK
    <3>3. ASSUME NEW c \in Cells
          PROVE  /\ items'["interrupt"][c] \in Agents \cup {None}
                 /\ KindOf[c] = "scratch" => items'["badge"][c] = None
      <4>1. \A w \in Views : items'[w][c] = IF w = v THEN Compute(v, c) ELSE items[w][c]
        BY <3>1
      <4>2. Compute("interrupt", c) \in Agents \cup {None}
        <5>1. Compute("interrupt", c) = computeInterruptButton(c)
          BY DEF Compute
        <5>. QED
          BY <5>1, ResolveType DEF computeInterruptButton, TypeOK
      <4>3. KindOf[c] = "scratch" => Compute("badge", c) = None
        BY DEF Compute, computeCellBadge, badgeIsApplicable
      <4>4. /\ items["interrupt"][c] \in Agents \cup {None}
            /\ KindOf[c] = "scratch" => items["badge"][c] = None
        BY DEF TypeOK
      <4>. QED
        BY <4>1, <4>2, <4>3, <4>4 DEF Views
    <3>. QED
      BY <3>1, <3>2, <3>3 DEF TypeOK, registries
  <2>8. ASSUME NEW c \in Cells, ClickInterrupt(c)
        PROVE  TypeOK'
    <3>. DEFINE a == items["interrupt"][c]
    <3>1. /\ a \in Agents /\ clicks' = Append(clicks, a) /\ overrides' = overrides \cup {a}
          /\ dirty' \in SUBSET Views /\ Len(clicks) < MaxClicks
          /\ UNCHANGED <<wire, published, rows, slots, config, span, chip, items, fate>>
      BY <2>8 DEF TypeOK, ClickInterrupt, postAgentInterrupt, markInterrupting, Views
    <3>. HIDE DEF a
    <3>2. clicks' \in Seq(Agents) /\ Len(clicks') <= MaxClicks
      BY <3>1, QueueType, ViewsAssumption DEF TypeOK
    <3>. QED
      BY <3>1, <3>2 DEF TypeOK
  <2>9. CASE UNCHANGED vars
    BY <2>9 DEF TypeOK, vars, registries, display
  <2>. QED
    BY <2>1, <2>2, <2>3, <2>4, <2>5, <2>6, <2>7, <2>8, <2>9 DEF Next
<1>. QED
  BY <1>1, <1>2, PTL DEF Spec

-----------------------------------------------------------------------------
(* ItemsCurrent.                                                           *)

\* What an item is computed from, by view.
LEMMA ComputeFrom ==
  ASSUME NEW v \in Views, NEW c \in Cells,
         v \in {"badge", "interrupt"} => UNCHANGED <<rows, span>>,
         v = "interrupt" => UNCHANGED overrides,
         v = "contamination" => UNCHANGED slots,
         v = "section" => UNCHANGED doc
  PROVE  Compute(v, c)' = Compute(v, c)
<1>1. CASE v = "badge"
  BY <1>1 DEF Compute, computeCellBadge, resolveAgentIdForInterrupt
<1>2. CASE v = "interrupt"
  BY <1>2 DEF Compute, computeInterruptButton, resolveAgentIdForInterrupt
<1>3. CASE v = "contamination"
  BY <1>3 DEF Compute, computeContaminationBadge
<1>4. CASE v = "section"
  BY <1>4 DEF Compute, computeSectionHeader, SectionOf
<1>. QED
  BY <1>1, <1>2, <1>3, <1>4 DEF Views

\* A store that changes makes the views it feeds collect again.
LEMMA StepItems == TypeOK /\ ItemsCurrent /\ [Next]_vars => ItemsCurrent'
<1>. SUFFICES ASSUME TypeOK, ItemsCurrent, [Next]_vars PROVE ItemsCurrent'
  OBVIOUS
<1>a. ASSUME dirty \in SUBSET dirty', UNCHANGED items, chip' = refresh(config', focus'),
             ASSUME NEW v \in Views \ dirty'
             PROVE  /\ v \in {"badge", "interrupt"} => UNCHANGED <<rows, span>>
                    /\ v = "interrupt" => UNCHANGED overrides
                    /\ v = "contamination" => UNCHANGED slots
                    /\ v = "section" => UNCHANGED doc
      PROVE  ItemsCurrent'
  <2>1. ASSUME NEW v \in Views \ dirty', NEW c \in Cells
        PROVE  items'[v][c] = Compute(v, c)'
    <3>1. Compute(v, c)' = Compute(v, c)
      BY <1>a, ComputeFrom
    <3>2. items[v][c] = Compute(v, c)
      BY <1>a DEF ItemsCurrent
    <3>. QED
      BY <1>a, <3>1, <3>2
  <2>. QED
    BY <1>a, <2>1 DEF ItemsCurrent
<1>1. CASE SnapshotArrives
  <2>. DEFINE p == Head(wire).payload
  <2>1. /\ rows' = agentRows(p) /\ overrides' = clearedOverrides(p)
        /\ slots' = contaminationSlots(p) /\ config' = pinConfig(p)
        /\ chip' = (IF pinConfig(p) = config THEN chip ELSE refresh(pinConfig(p), focus))
        /\ dirty' = dirty \cup Fired(p)
        /\ UNCHANGED <<span, items, doc, focus>>
    BY <1>1 DEF SnapshotArrives
  <2>. HIDE DEF p
  <2>2. chip' = refresh(config', focus')
    BY <2>1 DEF ItemsCurrent
  <2>3. ASSUME NEW v \in Views \ dirty'
        PROVE  /\ v \in {"badge", "interrupt"} => UNCHANGED <<rows, span>>
               /\ v = "interrupt" => UNCHANGED overrides
               /\ v = "contamination" => UNCHANGED slots
               /\ v = "section" => UNCHANGED doc
    BY <2>1 DEF Fired
  <2>4. dirty \in SUBSET dirty'
    BY <2>1
  <2>. QED
    BY <1>a, <2>1, <2>2, <2>3, <2>4
<1>2. CASE EditApplied
  BY <1>2, <1>a DEF EditApplied, registries, ItemsCurrent
<1>3. CASE EditRefused
  BY <1>3, <1>a DEF EditRefused, registries, display, ItemsCurrent
<1>4. CASE FocusChanges
  BY <1>4, <1>a DEF FocusChanges, registries, document
<1>5. ASSUME NEW p \in Snapshots, NEW stale \in BOOLEAN, KernelPublishes(p, stale)
      PROVE  ItemsCurrent'
  BY <1>5, <1>a DEF KernelPublishes, registries, document, display, ItemsCurrent
<1>6. ASSUME NEW c \in Cells, NEW a \in Agents, SpanAppended(c, a)
      PROVE  ItemsCurrent'
  BY <1>6 DEF SpanAppended, registries, ItemsCurrent
<1>7. ASSUME NEW v \in Views, Collect(v)
      PROVE  ItemsCurrent'
  <2>1. /\ items' = [items EXCEPT ![v] = [c \in Cells |-> Compute(v, c)]]
        /\ dirty' = dirty \ {v} /\ DOMAIN items = Views
        /\ UNCHANGED <<registries, document, span, focus, chip>>
    BY <1>7 DEF Collect, TypeOK
  <2>2. ASSUME NEW w \in Views \ dirty', NEW c \in Cells
        PROVE  items'[w][c] = Compute(w, c)'
    <3>1. Compute(w, c)' = Compute(w, c)
      BY <2>1, ComputeFrom DEF registries, document
    <3>2. CASE w = v
      BY <2>1, <3>1, <3>2
    <3>3. CASE w # v
      BY <2>1, <3>1, <3>3 DEF ItemsCurrent
    <3>. QED
      BY <3>2, <3>3
  <2>3. chip' = refresh(config', focus')
    BY <2>1 DEF ItemsCurrent, registries
  <2>. QED
    BY <2>2, <2>3 DEF ItemsCurrent
<1>8. ASSUME NEW c \in Cells, ClickInterrupt(c)
      PROVE  ItemsCurrent'
  <2>. DEFINE a == items["interrupt"][c]
  <2>1. /\ overrides' = overrides \cup {a}
        /\ dirty' = (IF a \in overrides THEN dirty ELSE dirty \cup {"interrupt"})
        /\ UNCHANGED <<rows, slots, config, doc, span, focus, chip, items>>
    BY <1>8 DEF ClickInterrupt, postAgentInterrupt, markInterrupting, document
  <2>. HIDE DEF a
  <2>2. "interrupt" \notin dirty' => UNCHANGED overrides
    BY <2>1
  <2>3. dirty \in SUBSET dirty' /\ chip' = refresh(config', focus')
    BY <2>1 DEF ItemsCurrent
  <2>. QED
    BY <1>a, <2>1, <2>2, <2>3
<1>9. CASE UNCHANGED vars
  BY <1>9, <1>a DEF vars, registries, document, display, ItemsCurrent
<1>. QED
  BY <1>1, <1>2, <1>3, <1>4, <1>5, <1>6, <1>7, <1>8, <1>9 DEF Next

\* No store changes without its event, for every set of cells, agents and
\* payloads: an item that VS Code has not been told to collect again is the one
\* its provider would compute now, and the pin chip shows the registry's state.
THEOREM ItemsAreCurrent == Spec => []ItemsCurrent
<1>1. Init => ItemsCurrent
  BY DEF Init, ItemsCurrent, refresh
<1>. QED
  BY <1>1, StepItems, TypeCorrect, PTL DEF Spec

\* An agent that is marked interrupting is not interrupted again through a
\* button that is current, whichever cell of the agent shows it.
THEOREM SecondInterruptSeen == Spec => NoBlindSecondInterrupt
<1>1. TypeOK /\ ItemsCurrent /\ [Next]_vars =>
        [\A a \in overrides : clicks' = Append(clicks, a) => "interrupt" \in dirty]_vars
  <2>. SUFFICES ASSUME TypeOK, ItemsCurrent, [Next]_vars, NEW a \in overrides,
                       clicks' = Append(clicks, a), "interrupt" \notin dirty
                PROVE  FALSE
    OBVIOUS
  <2>1. clicks \in Seq(Agents) /\ a \in Agents
    BY DEF TypeOK
  <2>2. clicks' # clicks
    BY <2>1, QueueType
  <2>3. ASSUME NEW c \in Cells, ClickInterrupt(c) PROVE FALSE
    <3>1. /\ items["interrupt"][c] \in Agents
          /\ clicks' = Append(clicks, items["interrupt"][c])
      BY <2>3 DEF ClickInterrupt, postAgentInterrupt, TypeOK
    <3>2. items["interrupt"][c] = a
      <4>1. \A x \in Agents : Append(clicks, x)[Len(clicks) + 1] = x
        BY <2>1
      <4>. QED
        BY <2>1, <3>1, <4>1
    <3>3. items["interrupt"][c] = computeInterruptButton(c)
      BY DEF ItemsCurrent, Views, Compute
    <3>4. a # None /\ a = computeInterruptButton(c)
      BY <2>3, <3>2, <3>3 DEF ClickInterrupt
    <3>. QED
      BY <3>4 DEF computeInterruptButton
  <2>. QED
    BY <2>2, <2>3 DEF Next, SnapshotArrives, EditApplied, EditRefused, FocusChanges,
                      KernelPublishes, SpanAppended, Collect, vars, registries, document, display
<1>. QED
  BY <1>1, ItemsAreCurrent, TypeCorrect, PTL DEF Spec, NoBlindSecondInterrupt

-----------------------------------------------------------------------------
(* RegistriesMatchDocument.                                                *)

\* A snapshot has a well-formed row for a cell.
HasRow(s, id) == s.cells # None /\ s.cells[id] \notin {Absent, Malformed}

\* The snapshot the document comes to when the edits are through.
Recent == IF edits = <<>> THEN doc ELSE edits[Len(edits)]

FromSnapshot(id) ==
  slots[id] # None => \E s \in Snapshots : HasRow(s, id) /\ slots[id] = s.cells[id]

\* The inductive invariant.
MatchInv ==
  /\ edits \in Seq(Snapshots)
  /\ \A id \in Ids : FromSnapshot(id)
  /\ fate = "taken" => Recent \in Snapshots /\ Shows(Recent)

\* Of an append-only log the length tells the whole.
LEMMA EqualLogs ==
  ASSUME NEW id \in AppendOnlyIds, NEW s \in Snapshots, NEW t \in Snapshots,
         HasRow(s, id), HasRow(t, id), Len(s.cells[id].log) = Len(t.cells[id].log)
  PROVE  s.cells[id].log = t.cells[id].log
<1>1. id \in Ids /\ s.cells[id].log \in Seq(Nat) /\ t.cells[id].log \in Seq(Nat)
  BY PayloadShape DEF HasRow, AppendOnlyIds
<1>2. SubSeq(t.cells[id].log, 1, Len(s.cells[id].log)) = s.cells[id].log
  <2>1. Len(s.cells[id].log) <= Len(t.cells[id].log)
    BY <1>1
  <2>. QED
    BY <2>1 DEF HasRow, AppendOnlyIds
<1>3. ASSUME NEW u \in Seq(Nat) PROVE SubSeq(u, 1, Len(u)) = u
  OBVIOUS
<1>. QED
  BY <1>1, <1>2, <1>3

\* The row of a cell after a payload: kept, dropped or the payload's.
LEMMA SlotCases ==
  ASSUME NEW p \in Snapshots, NEW id \in Ids, slots' = contaminationSlots(p)
  PROVE  /\ p.mode # "snapshot" \/ p.cells = None => slots'[id] = slots[id]
         /\ p.mode = "snapshot" /\ p.cells # None =>
              /\ p.cells[id] = Absent => slots'[id] = None
              /\ p.cells[id] = Malformed => slots'[id] = slots[id]
              /\ HasRow(p, id) =>
                   \/ slots'[id] = p.cells[id]
                   \/ slots'[id] = slots[id] /\ slots[id] # None /\ SameSlot(slots[id], p.cells[id])
BY ViewsAssumption DEF contaminationSlots, HasRow

\* Every row of the registry is one some snapshot brought.
LEMMA OriginKept ==
  ASSUME NEW p \in Snapshots, NEW id \in Ids, slots' = contaminationSlots(p), FromSnapshot(id)
  PROVE  FromSnapshot(id)'
<1>1. slots'[id] \in {slots[id], None} \/ (HasRow(p, id) /\ slots'[id] = p.cells[id])
  BY SlotCases DEF HasRow
<1>2. CASE slots'[id] = slots[id]
  BY <1>2 DEF FromSnapshot, HasRow
<1>3. CASE slots'[id] = None
  BY <1>3 DEF FromSnapshot
<1>4. CASE HasRow(p, id) /\ slots'[id] = p.cells[id]
  BY <1>4 DEF FromSnapshot, HasRow
<1>. QED
  BY <1>1, <1>2, <1>3, <1>4

\* A snapshot the applier takes is on display in the same turn.
LEMMA DeliveryShows ==
  ASSUME TypeOK, NEW p \in Snapshots, p.mode = "snapshot",
         \A id \in Ids : FromSnapshot(id),
         rows' = agentRows(p), slots' = contaminationSlots(p), config' = pinConfig(p)
  PROVE  Shows(p)'
<1>1. AgentsShow(p)'
  BY DEF AgentsShow, agentRows
<1>2. p.config = None \/ config' = p.config
  BY DEF pinConfig
<1>3. ASSUME p.cells # None, NEW id \in AppendOnlyIds PROVE CellShows(p, id)'
  <2>0. id \in Ids
    BY DEF AppendOnlyIds
  <2>1. CASE p.cells[id] = Absent
    <3>1. slots'[id] = None
      BY <1>3, <2>0, <2>1, SlotCases
    <3>. QED
      BY <2>1, <3>1, ViewsAssumption DEF CellShows
  <2>2. CASE p.cells[id] = Malformed
    BY <2>2, ViewsAssumption DEF CellShows
  <2>3. CASE HasRow(p, id)
    <3>1. p.cells[id] # None
      BY <1>3, <2>0, PayloadShape
    <3>2. CASE slots'[id] = p.cells[id]
      BY <2>3, <3>1, <3>2 DEF CellShows, HasRow
    <3>3. CASE slots'[id] = slots[id] /\ slots[id] # None /\ SameSlot(slots[id], p.cells[id])
      <4>1. PICK s \in Snapshots : HasRow(s, id) /\ slots[id] = s.cells[id]
        BY <2>0, <3>3 DEF FromSnapshot
      <4>2. Len(s.cells[id].log) = Len(p.cells[id].log)
        BY <3>3, <4>1 DEF SameSlot
      <4>3. s.cells[id].log = p.cells[id].log
        BY <2>3, <4>1, <4>2, EqualLogs
      <4>4. /\ slots'[id] # None /\ slots'[id].log = p.cells[id].log
            /\ slots'[id].contaminated = p.cells[id].contaminated
            /\ slots'[id].bound = p.cells[id].bound
        BY <3>3, <4>1, <4>3 DEF SameSlot
      <4>. QED
        BY <2>3, <4>4 DEF CellShows, HasRow
    <3>. QED
      BY <1>3, <2>0, <2>3, <3>2, <3>3, SlotCases
  <2>. QED
    BY <1>3, <2>1, <2>2, <2>3 DEF HasRow
<1>. QED
  BY <1>1, <1>2, <1>3 DEF Shows

\* The last of the edits, as they are queued and taken off.
LEMMA LastEdit ==
  ASSUME NEW q \in Seq(Snapshots)
  PROVE  /\ \A p \in Snapshots : /\ Append(q, p) \in Seq(Snapshots) /\ Append(q, p) # <<>>
                                 /\ Append(q, p)[Len(Append(q, p))] = p
         /\ q # <<>> => /\ Tail(q) \in Seq(Snapshots)
                        /\ Tail(q) = <<>> => q[Len(q)] = Head(q)
                        /\ Tail(q) # <<>> => Tail(q)[Len(Tail(q))] = q[Len(q)]
OBVIOUS

\* Once the edits are through, the registries and the document agree, unless the
\* last snapshot was rejected by W8 or its edit refused: for every sequence of
\* payloads, partial and malformed ones included, and every order of edits,
\* clicks and collections, provided contamination logs only grow.
THEOREM RegistriesMatch == Spec => []RegistriesMatchDocument
<1>1. Init => MatchInv
  <2>. SUFFICES ASSUME Init PROVE MatchInv
    OBVIOUS
  <2>1. edits \in Seq(Snapshots) /\ fate # "taken" /\ \A id \in Ids : slots[id] = None
    BY DEF Init
  <2>. QED
    BY <2>1 DEF MatchInv, FromSnapshot
<1>2. TypeOK /\ MatchInv /\ [Next]_vars => MatchInv'
  <2>. SUFFICES ASSUME TypeOK, MatchInv, [Next]_vars PROVE MatchInv'
    OBVIOUS
  <2>0. edits \in Seq(Snapshots)
    BY DEF MatchInv
  <2>1. CASE SnapshotArrives
    <3>. DEFINE p == Head(wire).payload
                rejected == p.mode # "snapshot" \/ (accepted /\ Head(wire).stale)
    <3>1. p \in Snapshots
      BY <2>1, WireTail DEF SnapshotArrives
    <3>2. /\ rows' = agentRows(p) /\ slots' = contaminationSlots(p) /\ config' = pinConfig(p)
          /\ edits' = (IF rejected THEN edits ELSE Append(edits, p)) /\ doc' = doc
          /\ fate' = (IF p.mode # "snapshot" THEN fate ELSE IF rejected THEN "rejected" ELSE "taken")
      BY <2>1 DEF SnapshotArrives
    <3>2a. p.mode # "snapshot" => rejected
      OBVIOUS
    <3>. HIDE DEF p, rejected
    <3>3. \A id \in Ids : FromSnapshot(id)'
      BY <3>1, <3>2, OriginKept DEF MatchInv
    <3>4. edits' \in Seq(Snapshots)
      BY <2>0, <3>1, <3>2, LastEdit
    <3>5. CASE p.mode # "snapshot"
      <4>1. edits' = edits /\ doc' = doc /\ fate' = fate
        BY <3>2, <3>2a, <3>5
      <4>2. Recent' = Recent
        BY <4>1 DEF Recent
      <4>3. fate = "taken" => Shows(Recent)'
        <5>. SUFFICES ASSUME fate = "taken" PROVE Shows(Recent)'
          OBVIOUS
        <5>. DEFINE q == Recent
        <5>1. Shows(q)
          BY DEF MatchInv
        <5>2. q' = q
          BY <4>2
        <5>. HIDE DEF q
        <5>3. Shows(q)'
          <6>1. \A a \in Agents : rows'[a] = rows[a]
            BY <3>2, <3>5 DEF agentRows
          <6>2. config' = config
            BY <3>2, <3>5 DEF pinConfig
          <6>3. \A id \in AppendOnlyIds : slots'[id] = slots[id]
            BY <3>2, <3>5 DEF contaminationSlots, AppendOnlyIds
          <6>. QED
            BY <5>1, <5>2, <6>1, <6>2, <6>3 DEF Shows, AgentsShow, CellShows
        <5>. QED
          BY <5>3 DEF q
      <4>. QED
        BY <3>3, <3>4, <4>1, <4>2, <4>3 DEF MatchInv
    <3>6. CASE p.mode = "snapshot" /\ rejected
      <4>1. fate' # "taken"
        BY <3>2, <3>6
      <4>. QED
        BY <3>3, <3>4, <4>1 DEF MatchInv
    <3>7. CASE p.mode = "snapshot" /\ ~rejected
      <4>1. edits' = Append(edits, p)
        BY <3>2, <3>7
      <4>2. Recent' = p
        BY <2>0, <3>1, <4>1, LastEdit DEF Recent
      <4>3. Shows(Recent)'
        BY <3>1, <3>2, <3>7, <4>2, DeliveryShows DEF MatchInv, Shows, AgentsShow, CellShows
      <4>. QED
        BY <3>1, <3>3, <3>4, <4>2, <4>3 DEF MatchInv
    <3>. QED
      BY <3>5, <3>6, <3>7
  <2>2. CASE EditApplied
    <3>1. /\ edits # <<>> /\ doc' = Head(edits) /\ edits' = Tail(edits)
          /\ UNCHANGED <<rows, slots, config, fate>>
      BY <2>2 DEF EditApplied, registries
    <3>2. Recent' = Recent
      BY <2>0, <3>1, LastEdit DEF Recent
    <3>3. edits' \in Seq(Snapshots)
      BY <2>0, <3>1, LastEdit
    <3>. QED
      BY <3>1, <3>2, <3>3 DEF MatchInv, FromSnapshot, Shows, AgentsShow, CellShows
  <2>3. CASE EditRefused
    <3>1. /\ edits # <<>> /\ edits' = Tail(edits)
          /\ fate' = (IF edits' = <<>> /\ fate = "taken" THEN "refused" ELSE fate)
          /\ UNCHANGED <<rows, slots, config, doc>>
      BY <2>3 DEF EditRefused, registries
    <3>2. fate' = "taken" => fate = "taken" /\ Recent' = Recent
      BY <2>0, <3>1, LastEdit DEF Recent
    <3>3. edits' \in Seq(Snapshots)
      BY <2>0, <3>1, LastEdit
    <3>. QED
      BY <3>1, <3>2, <3>3 DEF MatchInv, FromSnapshot, Shows, AgentsShow, CellShows
  <2>4. ASSUME UNCHANGED <<rows, slots, config, edits, doc, fate>> PROVE MatchInv'
    BY <2>4 DEF MatchInv, Recent, FromSnapshot, Shows, AgentsShow, CellShows
  <2>. QED
    BY <2>1, <2>2, <2>3, <2>4 DEF Next, FocusChanges, KernelPublishes,
                      SpanAppended, Collect, ClickInterrupt, vars, registries, document
<1>3. MatchInv => RegistriesMatchDocument
  BY DEF MatchInv, RegistriesMatchDocument, Recent
<1>. QED
  BY <1>1, <1>2, <1>3, TypeCorrect, PTL DEF Spec
=============================================================================
