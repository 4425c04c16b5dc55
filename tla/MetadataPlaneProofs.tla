------------------------ MODULE MetadataPlaneProofs ------------------------
(***************************************************************************)
(* Proofs about MetadataPlane, for every set of notebooks and every bound: *)
(* the types, one watchdog per pending hydrate, and what the W8 check      *)
(* guarantees of the accepted version.                                     *)
(***************************************************************************)
EXTENDS MetadataPlane, TLAPS

DocTypes ==
  /\ subscribed \in BOOLEAN
  /\ open \in SUBSET Notebooks /\ focus \in open \cup {None}
  /\ rts \in [Notebooks -> Rts]
  /\ opens \in [Notebooks -> 0 .. MaxOpens]
  /\ hydrated \in Notebooks \cup {None} /\ confirmed \in BOOLEAN
  /\ pendingTimer \in BOOLEAN

LoaderTypes ==
  /\ pending \in SUBSET Notebooks
  /\ timers \in [Notebooks -> Nat]
  /\ toKernel \in Seq(Notebooks)

ApplierTypes ==
  /\ edits \in Seq(Edits) /\ Len(edits) <= MaxEdits
  /\ lastAccepted \in {Undefined} \cup 0 .. MaxVersion

\* The three parts are the type invariant.
LEMMA TypeParts == TypeOK <=> DocTypes /\ LoaderTypes /\ ApplierTypes
BY DEF TypeOK, DocTypes, LoaderTypes, ApplierTypes

\* The edit that was submitted alone is the first one in flight, and no version
\* accepted since then is newer than its own.
AloneInv ==
  /\ \A i \in 2 .. Len(edits) : ~edits[i].alone
  /\ edits # <<>> /\ edits[1].alone => edits[1].version >= lastAccepted

IndInv == TypeOK /\ TimerPerPending /\ AloneInv

-----------------------------------------------------------------------------
\* The initial states are well typed.
LEMMA InitTypeOK == Init => TypeOK
<1>. SUFFICES ASSUME Init PROVE TypeOK
  OBVIOUS
<1>1. DocTypes
  <2>1. opens \in [Notebooks -> 0 .. MaxOpens]
    BY PlaneAssumption DEF Init
  <2>. QED
    BY <2>1 DEF Init, DocTypes
<1>2. LoaderTypes
  BY DEF Init, LoaderTypes
<1>3. ApplierTypes
  BY PlaneAssumption DEF Init, ApplierTypes, Undefined
<1>. QED
  BY <1>1, <1>2, <1>3, TypeParts

\* shipHydrate keeps the loader's types.
LEMMA ShipTypes ==
  ASSUME NEW n \in Notebooks, LoaderTypes, shipHydrate(n)
  PROVE  LoaderTypes'
<1>1. CASE rts[n] = "valid"
  <2>1. toKernel' \in {toKernel, Append(toKernel, n)}
    BY <1>1, Zenon DEF shipHydrate, enqueueOutbound
  <2>2. toKernel' \in Seq(Notebooks)
    BY <2>1 DEF LoaderTypes
  <2>3. pending' \in SUBSET Notebooks /\ timers' \in [Notebooks -> Nat]
    BY <1>1 DEF LoaderTypes, shipHydrate
  <2>. QED
    BY <2>2, <2>3 DEF LoaderTypes
<1>2. CASE rts[n] # "valid"
  BY <1>2 DEF LoaderTypes, shipHydrate, loaderVars
<1>. QED
  BY <1>1, <1>2

\* An edit that apply() submits is a well-typed one, and the bound holds.
LEMMA ApplyTypes ==
  ASSUME ApplierTypes, NEW p \in Payloads, Len(edits) < MaxEdits, apply(p),
         UNCHANGED lastAccepted
  PROVE  ApplierTypes'
<1>1. CASE UNCHANGED edits
  BY <1>1 DEF ApplierTypes
<1>2. CASE \E n \in Notebooks :
             edits' = Append(edits, [notebook |-> n, version |-> p.version,
                                     alone |-> edits = <<>>])
  <2>. PICK n \in Notebooks :
         edits' = Append(edits, [notebook |-> n, version |-> p.version,
                                 alone |-> edits = <<>>])
    BY <1>2
  <2>. DEFINE e == [notebook |-> n, version |-> p.version, alone |-> edits = <<>>]
  <2>1. p.version \in 0 .. MaxVersion
    BY DEF Payloads
  <2>2. e \in Edits
    BY <2>1 DEF Edits
  <2>3. edits' \in Seq(Edits) /\ Len(edits') = Len(edits) + 1
    BY <2>2 DEF ApplierTypes
  <2>. QED
    BY <2>3, PlaneAssumption DEF ApplierTypes
<1>. QED
  BY <1>1, <1>2 DEF apply

\* No step leaves the types.
LEMMA StepTypeOK == TypeOK /\ [Next]_vars => TypeOK'
<1>. SUFFICES ASSUME TypeOK, [Next]_vars PROVE TypeOK'
  OBVIOUS
<1>. USE TypeParts
<1>1. CASE Activate
  <2>1. DocTypes'
    BY <1>1 DEF DocTypes, Activate, docVars, kernelVars
  <2>2. LoaderTypes'
    BY <1>1 DEF LoaderTypes, DocTypes, Activate
  <2>3. ApplierTypes'
    BY <1>1 DEF ApplierTypes, Activate, applierVars
  <2>. QED
    BY <2>1, <2>2, <2>3 DEF TypeOK, DocTypes, LoaderTypes, ApplierTypes
<1>2. CASE SidebarFires
  BY <1>2 DEF TypeOK, SidebarFires, docVars, kernelVars, loaderVars, applierVars
<1>3. CASE KernelReadsHydrate
  <2>1. DocTypes'
    BY <1>3 DEF DocTypes, LoaderTypes, KernelReadsHydrate, docVars
  <2>2. LoaderTypes'
    BY <1>3 DEF LoaderTypes, KernelReadsHydrate
  <2>3. ApplierTypes'
    BY <1>3 DEF ApplierTypes, KernelReadsHydrate, applierVars
  <2>. QED
    BY <2>1, <2>2, <2>3 DEF TypeOK, DocTypes, LoaderTypes, ApplierTypes
<1>4. CASE EditApplied
  <2>1. Head(edits) \in Edits /\ Tail(edits) \in Seq(Edits) /\ Len(Tail(edits)) <= MaxEdits
    BY <1>4, PlaneAssumption DEF ApplierTypes, EditApplied
  <2>2. DocTypes'
    BY <1>4, <2>1 DEF DocTypes, EditApplied, scheduleFire, kernelVars, Rts
  <2>3. LoaderTypes'
    BY <1>4 DEF LoaderTypes, EditApplied, loaderVars
  <2>4. ApplierTypes'
    BY <1>4, <2>1 DEF ApplierTypes, EditApplied, Edits
  <2>. QED
    BY <2>2, <2>3, <2>4 DEF TypeOK, DocTypes, LoaderTypes, ApplierTypes
<1>5. CASE EditRefused
  <2>1. Tail(edits) \in Seq(Edits) /\ Len(Tail(edits)) <= MaxEdits
    BY <1>5, PlaneAssumption DEF ApplierTypes, EditRefused
  <2>. QED
    BY <1>5, <2>1 DEF TypeOK, EditRefused, docVars, kernelVars, loaderVars
<1>6. ASSUME NEW n \in Notebooks, OpenNotebook(n) PROVE TypeOK'
  <2>1. DocTypes'
    <3>1. opens' \in [Notebooks -> 0 .. MaxOpens]
      BY <1>6, PlaneAssumption DEF DocTypes, OpenNotebook
    <3>. QED
      BY <1>6, <3>1 DEF DocTypes, OpenNotebook, scheduleFire, kernelVars
  <2>2. LoaderTypes'
    BY <1>6, ShipTypes DEF OpenNotebook
  <2>3. ApplierTypes'
    BY <1>6 DEF ApplierTypes, OpenNotebook, applierVars
  <2>. QED
    BY <2>1, <2>2, <2>3 DEF TypeOK, DocTypes, LoaderTypes, ApplierTypes
<1>7. ASSUME NEW n \in Notebooks, CloseNotebook(n) PROVE TypeOK'
  BY <1>7 DEF TypeOK, CloseNotebook, scheduleFire, kernelVars,
              loaderVars, applierVars
<1>8. ASSUME NEW n \in Notebooks, Focus(n) PROVE TypeOK'
  BY <1>8 DEF TypeOK, Focus, scheduleFire, kernelVars, loaderVars, applierVars
<1>9. ASSUME NEW n \in Notebooks, WatchdogFires(n) PROVE TypeOK'
  <2>1. LoaderTypes'
    BY <1>9 DEF LoaderTypes, WatchdogFires
  <2>2. DocTypes' /\ ApplierTypes'
    BY <1>9 DEF DocTypes, ApplierTypes, WatchdogFires, docVars, kernelVars, applierVars
  <2>. QED
    BY <2>1, <2>2 DEF TypeOK, DocTypes, LoaderTypes, ApplierTypes
<1>10. ASSUME NEW p \in Payloads, SnapshotArrives(p) PROVE TypeOK'
  <2>1. DocTypes'
    BY <1>10 DEF DocTypes, SnapshotArrives, docVars
  <2>2. LoaderTypes'
    BY <1>10 DEF LoaderTypes, SnapshotArrives, handleConfirmation
  <2>3. ApplierTypes'
    BY <1>10, ApplyTypes DEF SnapshotArrives
  <2>. QED
    BY <2>1, <2>2, <2>3 DEF TypeOK, DocTypes, LoaderTypes, ApplierTypes
<1>11. CASE UNCHANGED vars
  BY <1>11 DEF TypeOK, vars, docVars, loaderVars, kernelVars, applierVars
<1>. QED
  BY <1>1, <1>2, <1>3, <1>4, <1>5, <1>6, <1>7, <1>8, <1>9, <1>10, <1>11 DEF Next

\* Type correctness, for every set of notebooks and every bound.
THEOREM TypeCorrect == Spec => []TypeOK
BY InitTypeOK, StepTypeOK, PTL DEF Spec

-----------------------------------------------------------------------------
\* The watchdogs: shipHydrate replaces the one a URI has, a watchdog that fires
\* takes its URI along, a confirmation clears both.
LEMMA StepTimers ==
  TypeOK /\ TimerPerPending /\ [Next]_vars => TimerPerPending'
<1>. SUFFICES ASSUME TypeOK, TimerPerPending, [Next]_vars PROVE TimerPerPending'
  OBVIOUS
<1>. USE DEF TimerPerPending
<1>1. CASE UNCHANGED <<pending, timers>>
  BY <1>1
<1>2. CASE Activate
  BY <1>2 DEF Activate, TypeOK
<1>3. ASSUME NEW n \in Notebooks, shipHydrate(n) PROVE TimerPerPending'
  <2>1. CASE rts[n] = "valid"
    BY <1>3, <2>1 DEF TypeOK, shipHydrate
  <2>2. CASE rts[n] # "valid"
    BY <1>3, <2>2 DEF shipHydrate, loaderVars
  <2>. QED
    BY <2>1, <2>2
<1>4. ASSUME NEW n \in Notebooks, WatchdogFires(n) PROVE TimerPerPending'
  BY <1>4 DEF TypeOK, WatchdogFires
<1>5. ASSUME NEW p \in Payloads, handleConfirmation(p) PROVE TimerPerPending'
  BY <1>5 DEF TypeOK, handleConfirmation
<1>. QED
  BY <1>1, <1>2, <1>3, <1>4, <1>5
     DEF Next, SidebarFires, KernelReadsHydrate, EditApplied, EditRefused, OpenNotebook,
         CloseNotebook, Focus, SnapshotArrives, vars, loaderVars

\* Edits: one is submitted alone only into an empty queue, after the W8 check
\* against the version that is still the accepted one.
LEMMA StepAlone == TypeOK /\ AloneInv /\ [Next]_vars => AloneInv'
<1>. SUFFICES ASSUME TypeOK, AloneInv, [Next]_vars PROVE AloneInv'
  OBVIOUS
<1>1. CASE UNCHANGED <<edits, lastAccepted>>
  BY <1>1 DEF AloneInv
<1>2. CASE edits # <<>> /\ edits' = Tail(edits)
  <2>1. edits \in Seq(Edits)
    BY DEF TypeOK
  <2>2. Len(edits') = Len(edits) - 1 /\ \A i \in 1 .. Len(edits') : edits'[i] = edits[i + 1]
    BY <1>2, <2>1
  <2>3. \A i \in 1 .. Len(edits') : ~edits'[i].alone
    BY <2>1, <2>2 DEF AloneInv
  <2>4. edits' # <<>> => 1 \in 1 .. Len(edits')
    BY <1>2, <2>1
  <2>. QED
    BY <2>3, <2>4, <2>1, <1>2 DEF AloneInv
<1>3. ASSUME NEW p \in Payloads, apply(p), UNCHANGED lastAccepted PROVE AloneInv'
  <2>1. CASE UNCHANGED edits
    BY <1>3, <2>1 DEF AloneInv
  <2>2. CASE passesChecks(p) /\
             \E n \in Notebooks :
               edits' = Append(edits, [notebook |-> n, version |-> p.version,
                                       alone |-> edits = <<>>])
    <3>. PICK n \in Notebooks :
           edits' = Append(edits, [notebook |-> n, version |-> p.version,
                                   alone |-> edits = <<>>])
      BY <2>2
    <3>. DEFINE e == [notebook |-> n, version |-> p.version, alone |-> edits = <<>>]
    <3>1. edits \in Seq(Edits) /\ p.version \in Nat
      BY PlaneAssumption DEF TypeOK, Payloads
    <3>2. p.version >= lastAccepted
      BY <2>2, <3>1 DEF passesChecks, Undefined
    <3>3. CASE edits = <<>>
      <4>1. edits' = <<e>>
        BY <3>3
      <4>2. e.version = p.version
        OBVIOUS
      <4>. HIDE DEF e
      <4>3. Len(edits') = 1 /\ edits'[1] = e
        BY <4>1
      <4>. QED
        BY <1>3, <3>2, <4>2, <4>3 DEF AloneInv
    <3>4. CASE edits # <<>>
      <4>1. /\ Len(edits') = Len(edits) + 1 /\ Len(edits) >= 1
            /\ \A i \in 1 .. Len(edits) : edits'[i] = edits[i]
            /\ edits'[Len(edits) + 1] = e
        BY <3>1, <3>4
      <4>2. ~e.alone
        BY <3>4
      <4>3. \A i \in 2 .. Len(edits') : ~edits'[i].alone
        BY <3>1, <4>1, <4>2 DEF AloneInv
      <4>4. edits'[1] = edits[1]
        BY <3>1, <4>1
      <4>. QED
        BY <1>3, <3>4, <4>3, <4>4 DEF AloneInv
    <3>. QED
      BY <3>3, <3>4
  <2>. QED
    BY <1>3, <2>1, <2>2 DEF apply
<1>. QED
  BY <1>1, <1>2, <1>3
     DEF Next, Activate, SidebarFires, KernelReadsHydrate, EditApplied, EditRefused,
         OpenNotebook, CloseNotebook, Focus, WatchdogFires, SnapshotArrives, vars, applierVars

\* The inductive invariant.
THEOREM Invariance == Spec => []IndInv
<1>1. Init => IndInv
  <2>. SUFFICES ASSUME Init PROVE IndInv
    OBVIOUS
  <2>1. TypeOK
    BY InitTypeOK
  <2>2. TimerPerPending
    BY DEF Init, TimerPerPending
  <2>3. AloneInv
    BY DEF Init, AloneInv
  <2>. QED
    BY <2>1, <2>2, <2>3 DEF IndInv
<1>2. IndInv /\ [Next]_vars => IndInv'
  BY StepTypeOK, StepTimers, StepAlone DEF IndInv
<1>. QED
  BY <1>1, <1>2, PTL DEF Spec

\* MetadataLoader keeps exactly one watchdog per pending URI, however many
\* notebooks there are and however often they are opened.
THEOREM WatchdogsCorrect == Spec => []TimerPerPending
<1>1. IndInv => TimerPerPending
  BY DEF IndInv
<1>. QED
  BY <1>1, Invariance, PTL

\* W8: an edit submitted while no other one was in flight never takes the
\* accepted version back.
THEOREM VersionsMonotonic == Spec => MonotonicWhenAlone
<1>1. IndInv /\ [Next]_vars
        => [edits # <<>> /\ Head(edits).alone => lastAccepted' >= lastAccepted]_vars
  <2>. SUFFICES ASSUME IndInv, [Next]_vars, edits # <<>>, Head(edits).alone
                PROVE  lastAccepted' >= lastAccepted
    OBVIOUS
  <2>1. edits \in Seq(Edits) /\ Head(edits) = edits[1] /\ lastAccepted \in Int
    BY PlaneAssumption DEF IndInv, TypeOK, Undefined
  <2>2. edits[1].version >= lastAccepted
    BY <2>1 DEF IndInv, AloneInv
  <2>3. CASE UNCHANGED lastAccepted
    BY <2>1, <2>3
  <2>4. CASE EditApplied
    BY <2>1, <2>2, <2>4 DEF EditApplied
  <2>. QED
    BY <2>3, <2>4
       DEF Next, Activate, SidebarFires, KernelReadsHydrate, EditRefused, OpenNotebook,
           CloseNotebook, Focus, WatchdogFires, SnapshotArrives, vars, applierVars
<1>. QED
  BY <1>1, Invariance, PTL DEF Spec, MonotonicWhenAlone
=============================================================================
