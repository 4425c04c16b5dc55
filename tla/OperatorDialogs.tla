-------------------------- MODULE OperatorDialogs --------------------------
(***************************************************************************)
(* The commands that ask the operator something before they act: section   *)
(* operations and their actions menu, reset of contamination, the @auth    *)
(* flows behind the pin chip, and the reveal of a cell with its fade-out   *)
(* timer (extension/src/notebook/commands, pin-status-header.ts,           *)
(* sections/section-header-provider.ts).                                   *)
(*                                                                         *)
(* Each command captures its arguments when it is invoked and awaits one   *)
(* or more prompts; sections, configuration, focus and the notebook's      *)
(* cells may all have changed when the answer comes.  VS Code is external: *)
(* it shows one quick input at a time (another one cancels it) and one     *)
(* modal, which blocks everything else.                                    *)
(*                                                                         *)
(* ShipUnlessCancelled and OneTimer are faulty variants of the definition  *)
(* that follows each; no action uses them.                                 *)
(***************************************************************************)
EXTENDS Integers, Sequences, FiniteSets

CONSTANTS
  Titles,      \* what an operator may type as a title
  Tails,       \* the random tails of minted section ids
  Notebooks,   \* llmnb notebooks
  None,
  MaxActions,  \* bound on envelopes shipped plus @auth cells inserted
  MaxReveals   \* bound on reveals

ASSUME DialogsAssumption ==
  /\ None \notin Titles \cup Notebooks
  /\ MaxActions \in Nat /\ MaxReveals \in Nat

Ids == [title : Titles, tail : Tails]
Config == [hash : BOOLEAN, accepted : BOOLEAN]

VARIABLES
  sections,  \* the ids of the document's sections
  config,    \* PinStatusRegistry.state
  focus,     \* the open llmnb notebook whose editor is active, or None
  cells,     \* the cells of each notebook, top first: 1, 2 and @auth cells (0)
  quick,     \* the quick pick or input box on display, None without one
  modal,     \* the modal on display, None without one
  minted,    \* the section ids created so far
  acts,      \* how many envelopes were shipped and @auth cells inserted, ...
  last,      \* ... and the last of them
  flash,     \* the cell selected by a reveal in each notebook, None without one
  timers,    \* the fade-out timers that run: notebook, index, number
  reveals    \* how many reveals there were

world   == <<sections, config, focus>>
prompts == <<quick, modal>>
effects == <<minted, acts, last>>
reveal  == <<flash, timers, reveals>>
vars == <<world, cells, prompts, effects, reveal>>

\* A prompt: the flow it belongs to, what that flow has captured, and (history)
\* the notebook whose pin chip started it.
Prompt(flow, target, from) == [flow |-> flow, target |-> target, from |-> from]

\* An envelope or an inserted cell: what it does and to what, the button that
\* was pressed, and for an @auth cell the notebook whose chip asked for it.
Act(kind, target, button, from) ==
  [kind |-> kind, target |-> target, button |-> button, from |-> from]

SectionKinds == {"create_section", "rename_section", "set_section_status", "delete_section"}
AuthKinds == {"set", "rotate", "verify", "off", "refuse"}
Destructive == {"delete_section", "reset_contamination", "refuse"}

TypeOK ==
  /\ sections \in SUBSET Ids /\ minted \in SUBSET Ids
  /\ config \in Config
  /\ focus \in Notebooks \cup {None}
  /\ \A m \in {quick, modal} \ {None} : DOMAIN m = {"flow", "target", "from"}
  /\ acts \in 0 .. MaxActions /\ (last = None <=> acts = 0)
  /\ last # None /\ last.kind \in SectionKinds => last.target \in Ids
  /\ cells \in [Notebooks -> Seq(0 .. 2)]
  /\ flash \in [Notebooks -> {None} \cup 0 .. 2]
  /\ \A t \in timers : t.notebook \in Notebooks /\ t.index \in Nat
  /\ reveals \in 0 .. MaxReveals

Init ==
  /\ sections = {} /\ minted = {}
  /\ config = [hash |-> FALSE, accepted |-> FALSE]
  /\ focus = None
  /\ cells = [n \in Notebooks |-> <<1, 2>>]
  /\ quick = None /\ modal = None
  /\ acts = 0 /\ last = None
  /\ flash = [n \in Notebooks |-> None] /\ timers = {} /\ reveals = 0

-----------------------------------------------------------------------------
(* The world around a flow.                                                *)

\* Snapshots change sections and configuration at any time: an overlay commit
\* takes effect, a pin is set.
SectionChanges(i) ==
  /\ sections' = (sections \ {i}) \cup ({i} \ sections)
  /\ UNCHANGED <<config, focus, cells, prompts, effects, reveal>>

ConfigChanges(c) ==
  /\ config' = c
  /\ UNCHANGED <<sections, focus, cells, prompts, effects, reveal>>

FocusMoves(n) ==
  /\ modal = None /\ n # focus
  /\ focus' = n
  /\ UNCHANGED <<sections, config, cells, prompts, effects, reveal>>

-----------------------------------------------------------------------------
(* Prompts.                                                                *)

\* A new quick input takes the place of the one on display, whose promise
\* resolves to undefined: its flow ends without an effect.
ask(p) == quick' = p /\ UNCHANGED modal
confirm(p) == modal' = p /\ quick' = None
close == quick' = None /\ UNCHANGED modal

CanStart == modal = None /\ acts < MaxActions

\* Escape, an empty answer (trimmed), or the Cancel button.
Dismiss ==
  /\ \/ quick # None /\ modal = None /\ close
     \/ modal # None /\ modal' = None /\ UNCHANGED quick
  /\ UNCHANGED <<world, cells, effects, reveal>>

perform(act) == acts < MaxActions /\ acts' = acts + 1 /\ last' = act

\* MessageRouter.enqueueOutbound of a builder's envelope.
enqueue(kind, target, button) == perform(Act(kind, target, button, None))

-----------------------------------------------------------------------------
(* Section operations.                                                     *)

RunSectionCreate ==
  /\ CanStart /\ ask(Prompt("create", None, None))
  /\ UNCHANGED <<world, cells, effects, reveal>>

\* The slug of the title and a random tail: an id nobody has.
mintSectionIdFromTitle(title) == {i \in Ids : i.title = title} \ (sections \cup minted)

SectionCreated(title) ==
  /\ modal = None /\ quick # None /\ quick.flow = "create"
  /\ \E i \in mintSectionIdFromTitle(title) :
       /\ enqueue("create_section", i, None)
       /\ minted' = minted \cup {i}
  /\ close
  /\ UNCHANGED <<world, cells, reveal>>

\* The status-bar item of a section carries its id, title and status.
RunSectionActions(i) ==
  /\ CanStart /\ i \in sections
  /\ ask(Prompt("actions", i, None))
  /\ UNCHANGED <<world, cells, effects, reveal>>

\* runSectionActionsCommand: the pick dispatches with the captured arguments.
ActionPicked(flow) ==
  /\ modal = None /\ quick # None /\ quick.flow = "actions"
  /\ LET p == Prompt(flow, quick.target, quick.from)
     IN  IF flow = "delete" THEN confirm(p) ELSE ask(p)
  /\ UNCHANGED <<world, cells, effects, reveal>>

\* The title or status given is part of the envelope and of nothing else.
SectionRenamed ==
  /\ modal = None /\ quick # None /\ quick.flow = "rename"
  /\ enqueue("rename_section", quick.target, None)
  /\ close
  /\ UNCHANGED <<world, cells, minted, reveal>>

StatusPicked ==
  /\ modal = None /\ quick # None /\ quick.flow = "status"
  /\ enqueue("set_section_status", quick.target, None)
  /\ close
  /\ UNCHANGED <<world, cells, minted, reveal>>

ShipUnlessCancelled(button) == button # "cancel"

\* A modal that is closed without a button gives undefined.
accepts(button) == button = "accept"

ModalFlow(flow) == modal # None /\ modal.flow = flow

runSectionDelete(button) ==
  /\ ModalFlow("delete")
  /\ modal' = None /\ UNCHANGED quick
  /\ IF accepts(button) THEN enqueue("delete_section", modal.target, button)
                        ELSE UNCHANGED <<acts, last>>
  /\ UNCHANGED <<world, cells, minted, reveal>>

-----------------------------------------------------------------------------
(* Reset of contamination.                                                 *)

\* The chip of a cell carries the id under which its cell is contaminated.
RunReset(k) ==
  /\ CanStart /\ focus # None
  /\ confirm(Prompt("reset", k, None))
  /\ UNCHANGED <<world, cells, effects, reveal>>

runResetContamination(button) ==
  /\ ModalFlow("reset")
  /\ modal' = None /\ UNCHANGED quick
  /\ IF accepts(button) THEN enqueue("reset_contamination", modal.target, button)
                        ELSE UNCHANGED <<acts, last>>
  /\ UNCHANGED <<world, cells, minted, reveal>>

-----------------------------------------------------------------------------
(* The pin menu and the @auth flows.                                       *)

actionsForChip(c) ==
  CASE c.hash -> {"verify", "rotate", "off"}
    [] ~c.hash /\ c.accepted -> {"set"}
    [] OTHER -> {"set", "refuse"}

\* The chip is visible while an llmnb editor is active.
OpenPinStatusMenu ==
  /\ CanStart /\ focus # None
  /\ ask(Prompt("pinMenu", actionsForChip(config), focus))
  /\ UNCHANGED <<world, cells, effects, reveal>>

\* ActiveNotebookCellInserter: the active llmnb notebook, else an open one
\* (the first of the workspace), looked up when the flow comes to insert.
InsertTargets == IF focus # None THEN {focus} ELSE Notebooks

\* VS Code may refuse the edit.
insertTopCell(kind, button, from) ==
  \/ UNCHANGED <<cells, acts, last>>
  \/ \E n \in InsertTargets :
       /\ cells' = [cells EXCEPT ![n] = <<0>> \o @]
       /\ perform(Act(kind, "notebook", button, from))

\* dispatchPinAction: off is inserted at once, refuse warns first, the others
\* ask for a pin of at least twelve characters.
PinActionPicked(a) ==
  /\ modal = None /\ quick # None /\ quick.flow = "pinMenu" /\ a \in quick.target
  /\ \/ /\ a = "off"
        /\ insertTopCell("off", None, quick.from) /\ close
     \/ /\ a = "refuse"
        /\ confirm(Prompt("refuse", "notebook", quick.from))
        /\ UNCHANGED <<cells, acts, last>>
     \/ /\ a \in {"set", "rotate", "verify"}
        /\ ask(Prompt("pin", a, quick.from))
        /\ UNCHANGED <<cells, acts, last>>
  /\ UNCHANGED <<world, minted, reveal>>

PinEntered ==
  /\ modal = None /\ quick # None /\ quick.flow = "pin"
  /\ insertTopCell(quick.target, None, quick.from) /\ close
  /\ UNCHANGED <<world, minted, reveal>>

\* "Tell me more" shows the explanation and comes back to the warning.
TellMeMore ==
  /\ ModalFlow("refuse") \/ ModalFlow("refuseInfo")
  /\ modal' = [modal EXCEPT !.flow = IF @ = "refuse" THEN "refuseInfo" ELSE "refuse"]
  /\ UNCHANGED <<world, cells, quick, effects, reveal>>

refuseHashMode(button) ==
  /\ ModalFlow("refuse")
  /\ modal' = None /\ UNCHANGED quick
  /\ IF accepts(button) THEN insertTopCell("refuse", button, modal.from)
                        ELSE UNCHANGED <<cells, acts, last>>
  /\ UNCHANGED <<world, minted, reveal>>

-----------------------------------------------------------------------------
(* Reveal with flash.                                                      *)

OneTimer(n, k) ==
  IF timers = {} THEN {[notebook |-> n, index |-> k, no |-> reveals]} ELSE timers

\* Every reveal starts a timer of its own, which keeps editor and index.
scheduleFadeOut(n, k) == timers \cup {[notebook |-> n, index |-> k, no |-> reveals]}

\* The active editor is searched for the cell; without a match nothing happens.
RunRevealCell(k) ==
  /\ modal = None /\ focus # None /\ k \in DOMAIN cells[focus]
  /\ reveals < MaxReveals /\ reveals' = reveals + 1
  /\ flash' = [flash EXCEPT ![focus] = cells[focus][k]]
  /\ timers' = scheduleFadeOut(focus, k)
  /\ UNCHANGED <<world, cells, prompts, effects>>

\* The timer collapses the editor's selection at the index it has kept,
\* whichever cell is there and whichever cell flashes by now.
FadeOut(t) ==
  /\ timers' = timers \ {t}
  /\ flash' = [flash EXCEPT ![t.notebook] = None]
  /\ UNCHANGED <<world, cells, prompts, effects, reveals>>

Next ==
  \/ \E i \in Ids : SectionChanges(i) \/ RunSectionActions(i)
  \/ \E c \in Config : ConfigChanges(c)
  \/ \E n \in Notebooks \cup {None} : FocusMoves(n)
  \/ Dismiss
  \/ RunSectionCreate
  \/ \E title \in Titles : SectionCreated(title)
  \/ SectionRenamed \/ StatusPicked
  \/ \E flow \in {"rename", "delete", "status"} : ActionPicked(flow)
  \/ \E k \in 1 .. 2 : RunReset(k) \/ RunRevealCell(k)
  \/ OpenPinStatusMenu
  \/ \E a \in AuthKinds : PinActionPicked(a)
  \/ PinEntered
  \/ TellMeMore
  \/ \E b \in {"accept", "cancel", "dismissed"} :
       runSectionDelete(b) \/ runResetContamination(b) \/ refuseHashMode(b)
  \/ \E t \in timers : FadeOut(t)

Spec == Init /\ [][Next]_vars

-----------------------------------------------------------------------------
(* Properties.                                                             *)

\* Deleting a section, clearing contamination and accepting code injection
\* happen only as the answer "accept" to a modal about that very target: not
\* when the modal is closed without a button, and not through a flow that
\* another prompt has replaced.
ConsentFirst ==
  [][acts' # acts /\ last'.kind \in Destructive
       => /\ modal # None /\ modal.target = last'.target
          /\ last'.button = "accept" /\ modal' = None]_vars

\* An @auth cell is what the chip would offer when the cell is inserted, and it
\* goes to the notebook whose chip was clicked ("this notebook" of the warning).
\* The code looks at neither again: configuration and focus may have moved on
\* while the prompts were up.
AuthAsChosen ==
  [][acts' # acts /\ last'.kind \in AuthKinds
       => /\ last'.kind \in actionsForChip(config)
          /\ cells'[last'.from] # cells[last'.from]]_vars

\* The selection a reveal makes is sure to be lifted: whatever reveals follow
\* in this or another editor, and whatever cells are inserted above meanwhile,
\* a cell that flashes has a fade-out timer of its editor running.
FlashHasTimer ==
  \A n \in Notebooks : flash[n] # None => \E t \in timers : t.notebook = n
=============================================================================
