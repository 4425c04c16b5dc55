--------------------------- MODULE MetadataPlane ---------------------------
(***************************************************************************)
(* notebook.metadata envelopes, in both directions: activate() and its     *)
(* wiring order (extension/src/extension.ts), MetadataLoader with its      *)
(* hydrate watchdogs, NotebookMetadataApplier with the W7 and W8 checks    *)
(* and the asynchronous applyEdit, and the throttled sidebar source that   *)
(* rereads the documents.                                                  *)
(*                                                                         *)
(* The kernel is external.  It takes one hydrate per session and confirms  *)
(* it; apart from that it may send any snapshot at any time, since W7 and  *)
(* W8 are there for a kernel that misbehaves.  VS Code applies workspace   *)
(* edits in the order they are submitted and may refuse any of them.       *)
(*                                                                         *)
(* ShipUncleared, NoMonotonicCheck, FocusClosed and WatchdogRearms are     *)
(* faulty variants of the definition that follows each; no action uses     *)
(* them.                                                                   *)
(***************************************************************************)
EXTENDS Integers, Sequences, FiniteSets

CONSTANTS
  Notebooks,  \* URIs of llmnb notebooks
  None,
  MaxVersion, \* bound on snapshot_version
  MaxEdits,   \* bound on the applyEdit calls in flight
  MaxOpens    \* bound on how often a notebook is opened

ASSUME PlaneAssumption ==
  /\ None \notin Notebooks
  /\ MaxVersion \in Nat /\ MaxEdits \in Nat /\ MaxOpens \in Nat

\* metadata.rts of a document: usable, or not (it is missing, of another schema
\* major, or a field of its config looks like a secret).
Rts == {"unusable", "valid"}

\* What the checks of onNotebookMetadata and handleConfirmation tell apart.
Payloads ==
  [shape : {"patch", "noSnapshot", "wrongMajor", "snapshot"},
   version : 0 .. MaxVersion,
   trigger : {"hydrate_complete", "timer"}]

Undefined == -1

VARIABLES
  subscribed,   \* activate() has run: the kernel client is the outbound subscriber
  open,         \* vscode.workspace.notebookDocuments
  focus,        \* the notebook of vscode.window.activeNotebookEditor
  rts,          \* metadata.rts of each document, the file's while it is closed
  opens,        \* how often each was opened
  pending,      \* MetadataLoader.pending: the URIs ...
  timers,       \* ... and how many watchdog timers run for each
  toKernel,     \* hydrate envelopes on their way
  hydrated,     \* the notebook the kernel was hydrated from
  confirmed,    \* whether it has sent hydrate_complete
  edits,        \* applyEdit calls in flight
  lastAccepted, \* NotebookMetadataApplier.lastAcceptedVersion
  pendingTimer  \* DocumentBackedSidebarMetadataSource.pendingTimer

loaderVars  == <<pending, timers, toKernel>>
applierVars == <<edits, lastAccepted>>
kernelVars  == <<hydrated, confirmed>>
docVars     == <<open, focus, rts, opens>>
vars == <<subscribed, docVars, loaderVars, kernelVars, applierVars, pendingTimer>>

Edits == [notebook : Notebooks, version : 0 .. MaxVersion, alone : BOOLEAN]

TypeOK ==
  /\ subscribed \in BOOLEAN
  /\ open \in SUBSET Notebooks /\ focus \in open \cup {None}
  /\ rts \in [Notebooks -> Rts]
  /\ opens \in [Notebooks -> 0 .. MaxOpens]
  /\ pending \in SUBSET Notebooks
  /\ timers \in [Notebooks -> Nat]
  /\ toKernel \in Seq(Notebooks)
  /\ hydrated \in Notebooks \cup {None} /\ confirmed \in BOOLEAN
  /\ edits \in Seq(Edits) /\ Len(edits) <= MaxEdits
  /\ lastAccepted \in {Undefined} \cup 0 .. MaxVersion
  /\ pendingTimer \in BOOLEAN

\* After a restart of the extension host the notebooks of the window are open
\* when activate() is called.
Init ==
  /\ subscribed = FALSE
  /\ open \in SUBSET Notebooks /\ focus \in open \cup {None}
  /\ rts \in [Notebooks -> Rts]
  /\ opens = [n \in Notebooks |-> 0]
  /\ pending = {} /\ timers = [n \in Notebooks |-> 0] /\ toKernel = <<>>
  /\ hydrated = None /\ confirmed = FALSE
  /\ edits = <<>> /\ lastAccepted = Undefined
  /\ pendingTimer = FALSE

-----------------------------------------------------------------------------
(* The sidebar source: any number of signals, one timer.                   *)

scheduleFire == pendingTimer' = TRUE

SidebarFires ==
  /\ pendingTimer
  /\ pendingTimer' = FALSE
  /\ UNCHANGED <<subscribed, docVars, loaderVars, kernelVars, applierVars>>

-----------------------------------------------------------------------------
(* Opening notebooks and hydrating the kernel.                             *)

\* MessageRouter.enqueueOutbound drops what nobody subscribes to.
enqueueOutbound(n) ==
  toKernel' = IF subscribed THEN Append(toKernel, n) ELSE toKernel

ShipUncleared(n) ==
  IF rts[n] = "valid"
  THEN /\ enqueueOutbound(n)
       /\ pending' = pending \cup {n}
       /\ timers' = [timers EXCEPT ![n] = @ + 1]
  ELSE UNCHANGED loaderVars

\* shipHydrate: ship usable state only, then arm the watchdog of the URI in
\* place of the one it may already have.
shipHydrate(n) ==
  IF rts[n] = "valid"
  THEN /\ enqueueOutbound(n)
       /\ pending' = pending \cup {n}
       /\ timers' = [timers EXCEPT ![n] = IF n \in pending THEN @ ELSE @ + 1]
  ELSE UNCHANGED loaderVars

\* activate() is one synchronous call.  It ships the notebooks that are open
\* already, then subscribes the kernel client to the router's outbound side,
\* then starts the kernel.
Activate ==
  /\ ~subscribed
  /\ subscribed' = TRUE
  /\ LET shipped == {n \in open : rts[n] = "valid"}
     IN  /\ pending' = shipped
         /\ timers' = [n \in Notebooks |-> IF n \in shipped THEN 1 ELSE 0]
  /\ UNCHANGED toKernel
  /\ UNCHANGED <<docVars, kernelVars, applierVars, pendingTimer>>

OpenNotebook(n) ==
  /\ subscribed /\ n \notin open /\ opens[n] < MaxOpens
  /\ open' = open \cup {n}
  /\ opens' = [opens EXCEPT ![n] = @ + 1]
  /\ shipHydrate(n)
  /\ scheduleFire
  /\ UNCHANGED <<subscribed, focus, rts, kernelVars, applierVars>>

FocusClosed(n) ==
  /\ subscribed /\ n \in open
  /\ open' = open \ {n}
  /\ scheduleFire
  /\ UNCHANGED <<subscribed, focus, rts, opens, loaderVars, kernelVars, applierVars>>

\* Nothing but the sidebar listens to the closing of a notebook.
CloseNotebook(n) ==
  /\ subscribed /\ n \in open
  /\ open' = open \ {n}
  /\ focus' = IF focus = n THEN None ELSE focus
  /\ scheduleFire
  /\ UNCHANGED <<subscribed, rts, opens, loaderVars, kernelVars, applierVars>>

Focus(n) ==
  /\ subscribed /\ n \in open /\ n # focus
  /\ focus' = n
  /\ scheduleFire
  /\ UNCHANGED <<subscribed, open, rts, opens, loaderVars, kernelVars, applierVars>>

WatchdogRearms(n) ==
  /\ timers[n] > 0 /\ n \in Notebooks
  /\ UNCHANGED vars

\* Ten seconds without a confirmation: forget the URI and warn the operator.
WatchdogFires(n) ==
  /\ timers[n] > 0
  /\ timers' = [timers EXCEPT ![n] = @ - 1]
  /\ pending' = pending \ {n}
  /\ UNCHANGED <<subscribed, docVars, toKernel, kernelVars, applierVars, pendingTimer>>

\* The kernel processes at most one hydrate per session and rejects the others.
KernelReadsHydrate ==
  /\ toKernel # <<>>
  /\ toKernel' = Tail(toKernel)
  /\ hydrated' = IF hydrated = None THEN Head(toKernel) ELSE hydrated
  /\ UNCHANGED <<subscribed, docVars, pending, timers, confirmed, applierVars, pendingTimer>>

-----------------------------------------------------------------------------
(* Snapshots from the kernel.                                              *)

\* getActiveLlmnbNotebook: the focused notebook, or else any open one.
Target(n) == IF focus # None THEN n = focus ELSE n \in open

NoMonotonicCheck(p) == p.shape = "snapshot"

\* Snapshot mode, with a snapshot, of this schema major (W7), and not older
\* than the last accepted one (W8).
passesChecks(p) ==
  /\ p.shape = "snapshot"
  /\ lastAccepted # Undefined => p.version >= lastAccepted

\* apply() up to its await.
apply(p) ==
  IF open = {} \/ ~passesChecks(p)
  THEN UNCHANGED edits
  ELSE \E n \in Notebooks :
         /\ Target(n)
         /\ edits' = Append(edits, [notebook |-> n, version |-> p.version,
                                    alone |-> edits = <<>>])

\* handleConfirmation looks at mode and trigger only and, the confirmation
\* naming no notebook, clears every watchdog.
handleConfirmation(p) ==
  IF p.shape # "patch" /\ p.trigger = "hydrate_complete"
  THEN pending' = {} /\ timers' = [n \in Notebooks |-> 0]
  ELSE UNCHANGED <<pending, timers>>

\* The router hands the payload to the applier, then to the loader.
SnapshotArrives(p) ==
  /\ subscribed /\ Len(edits) < MaxEdits
  /\ p.trigger = "hydrate_complete" => hydrated # None /\ ~confirmed
  /\ confirmed' = (confirmed \/ p.trigger = "hydrate_complete")
  /\ apply(p)
  /\ handleConfirmation(p)
  /\ UNCHANGED <<subscribed, docVars, toKernel, hydrated, lastAccepted, pendingTimer>>

\* applyEdit resolves to true: the document has changed, and only now is the
\* version the last accepted one.
EditApplied ==
  /\ edits # <<>> /\ Head(edits).notebook \in open
  /\ edits' = Tail(edits)
  /\ rts' = [rts EXCEPT ![Head(edits).notebook] = "valid"]
  /\ lastAccepted' = Head(edits).version
  /\ scheduleFire
  /\ UNCHANGED <<subscribed, open, focus, opens, loaderVars, kernelVars>>

EditRefused ==
  /\ edits # <<>>
  /\ edits' = Tail(edits)
  /\ UNCHANGED <<subscribed, docVars, loaderVars, kernelVars, lastAccepted, pendingTimer>>

-----------------------------------------------------------------------------
Next ==
  \/ Activate \/ SidebarFires \/ KernelReadsHydrate \/ EditApplied \/ EditRefused
  \/ \E n \in Notebooks :
       OpenNotebook(n) \/ CloseNotebook(n) \/ Focus(n) \/ WatchdogFires(n)
  \/ \E p \in Payloads : SnapshotArrives(p)

Spec == Init /\ [][Next]_vars

\* Timers fire, and the kernel reads what it is sent; nothing is assumed of
\* the operator, of the snapshots or of VS Code's edits.
Fairness ==
  /\ WF_vars(KernelReadsHydrate)
  /\ \A n \in Notebooks : WF_vars(WatchdogFires(n))

FairSpec == Spec /\ Fairness

-----------------------------------------------------------------------------
(* Properties.                                                             *)

\* MetadataLoader.pending and the timers agree: a URI that waits for its
\* confirmation has exactly one watchdog, however often it was opened again,
\* and no watchdog is left to warn about a hydrate that was confirmed.
TimerPerPending ==
  \A n \in Notebooks : timers[n] = IF n \in pending THEN 1 ELSE 0

\* What the W8 check does guarantee: an edit submitted while no other one was
\* in flight never takes the accepted version back.  It is made against a
\* version that is set only after the await of applyEdit, so of two edits in
\* flight the second may be the older one.
MonotonicWhenAlone ==
  [][edits # <<>> /\ Head(edits).alone => lastAccepted' >= lastAccepted]_vars

\* Every hydrate comes to an end for the operator, confirmed or warned about
\* (the watchdog of shipHydrate), the ones nobody reads included.
HydrateSettles == \A n \in Notebooks : n \in pending ~> n \notin pending

-----------------------------------------------------------------------------
(* What the documentation says and the code does not do.                   *)

\* The comment in activate(): a notebook that is open at activation is
\* hydrated too, so that a reload after a crash works.
OpenNotebooksHydrate == (pending # {}) ~> (hydrated # None)

\* RFC-006 W8: a snapshot older than the last accepted one is discarded, so the
\* accepted version never goes back.  Two snapshots that arrive before the edit
\* of the first has been applied are both compared with the version before it.
AcceptedMonotonic == [][lastAccepted' >= lastAccepted]_vars
=============================================================================
