----------------------- MODULE OperatorDialogsProofs -----------------------
(***************************************************************************)
(* Proofs about OperatorDialogs, for every set of notebooks and titles and *)
(* any number of actions and reveals.                                      *)
(*                                                                         *)
(* ConsentFirst speaks of what was done last; what makes it true is what a *)
(* flow has captured before it came to its last prompt.  Captured says it  *)
(* of every prompt on display: a pin prompt asks for one of the three      *)
(* actions that take a pin, and a warning about the risk is about the      *)
(* notebook.                                                               *)
(***************************************************************************)
EXTENDS OperatorDialogs, TLAPS

QuickInv ==
  quick # None /\ quick.flow = "pin" => quick.target \in {"set", "rotate", "verify"}

ModalInv ==
  modal # None =>
    /\ modal = Prompt(modal.flow, modal.target, modal.from)
    /\ modal.flow \in {"refuse", "refuseInfo"} => modal.target = "notebook"

Captured == QuickInv /\ ModalInv

FlashInv == DOMAIN flash = Notebooks /\ FlashHasTimer

IInv == Captured /\ FlashInv
-----------------------------------------------------------------------------
\* The fields of what is built.
LEMMA Fields ==
  /\ \A f, t, s : /\ Prompt(f, t, s).flow = f /\ Prompt(f, t, s).target = t
                  /\ Prompt(f, t, s).from = s
  /\ \A k, t, b, m : /\ Act(k, t, b, m).kind = k /\ Act(k, t, b, m).target = t
                     /\ Act(k, t, b, m).button = b /\ Act(k, t, b, m).from = m
BY DEF Prompt, Act

\* Whatever prompt a step puts up has captured the right things.
LEMMA StepCaptured == Captured /\ [Next]_vars => Captured'
<1>. SUFFICES ASSUME Captured, [Next]_vars PROVE Captured'
  OBVIOUS
<1>. USE DEF Captured
<1>1. CASE UNCHANGED <<quick, modal>>
  BY <1>1 DEF QuickInv, ModalInv
<1>3. CASE UNCHANGED modal /\ quick' = None
  BY <1>3 DEF QuickInv, ModalInv
<1>4. CASE UNCHANGED quick /\ modal' = None
  BY <1>4 DEF QuickInv, ModalInv
<1>5. ASSUME NEW f \in {"create", "actions", "rename", "status", "pinMenu"}, NEW t, NEW s,
             UNCHANGED modal, quick' = Prompt(f, t, s)
      PROVE  Captured'
  BY <1>5, Fields DEF QuickInv, ModalInv
<1>6. ASSUME NEW f \in {"delete", "reset"}, NEW t, NEW s,
             quick' = None, modal' = Prompt(f, t, s)
      PROVE  Captured'
  BY <1>6, Fields DEF QuickInv, ModalInv
<1>7. CASE OpenPinStatusMenu
  BY <1>7, <1>5 DEF OpenPinStatusMenu, ask
<1>8. ASSUME NEW a \in AuthKinds, PinActionPicked(a) PROVE Captured'
  <2>2. CASE UNCHANGED modal /\ quick' = None
    BY <1>3, <2>2
  <2>3. CASE a = "refuse" /\ confirm(Prompt("refuse", "notebook", quick.from))
    BY <2>3, Fields DEF confirm, QuickInv, ModalInv
  <2>4. CASE a \in {"set", "rotate", "verify"} /\ ask(Prompt("pin", a, quick.from))
    BY <2>4, Fields DEF ask, QuickInv, ModalInv
  <2>. QED
    BY <1>8, <2>2, <2>3, <2>4 DEF PinActionPicked, close
<1>9. CASE TellMeMore
  <2>1. /\ modal # None /\ modal = Prompt(modal.flow, modal.target, modal.from)
        /\ modal.target = "notebook" /\ UNCHANGED quick
    BY <1>9 DEF TellMeMore, ModalFlow, ModalInv
  <2>2. \E f \in {"refuse", "refuseInfo"} : modal' = Prompt(f, modal.target, modal.from)
    BY <1>9, <2>1 DEF TellMeMore, Prompt
  <2>. QED
    BY <2>1, <2>2, Fields DEF QuickInv, ModalInv
<1>10. ASSUME NEW i \in Ids, SectionChanges(i) \/ RunSectionActions(i) PROVE Captured'
  BY <1>10, <1>1, <1>5 DEF SectionChanges, RunSectionActions, ask, world, prompts
<1>11. ASSUME NEW c \in Config, ConfigChanges(c) PROVE Captured'
  BY <1>11, <1>1 DEF ConfigChanges, prompts
<1>12. ASSUME NEW n \in Notebooks \cup {None}, FocusMoves(n) PROVE Captured'
  BY <1>12, <1>1 DEF FocusMoves, prompts
<1>13. CASE Dismiss
  BY <1>13, <1>3, <1>4 DEF Dismiss, close, world
<1>14. CASE RunSectionCreate
  BY <1>14, <1>5 DEF RunSectionCreate, ask, world
<1>15. ASSUME NEW title \in Titles, SectionCreated(title) PROVE Captured'
  BY <1>15, <1>3 DEF SectionCreated, close, world
<1>16. CASE SectionRenamed \/ StatusPicked \/ PinEntered
  BY <1>16, <1>3 DEF SectionRenamed, StatusPicked, PinEntered, close, world
<1>17. ASSUME NEW f \in {"rename", "delete", "status"}, ActionPicked(f) PROVE Captured'
  BY <1>17, <1>5, <1>6 DEF ActionPicked, ask, confirm, world
<1>18. ASSUME NEW k \in 1 .. 2, RunReset(k) \/ RunRevealCell(k) PROVE Captured'
  BY <1>18, <1>1, <1>6 DEF RunReset, RunRevealCell, confirm, world, prompts
<1>19. ASSUME NEW b \in {"accept", "cancel", "dismissed"},
              runSectionDelete(b) \/ runResetContamination(b) \/ refuseHashMode(b)
       PROVE  Captured'
  BY <1>19, <1>4 DEF runSectionDelete, runResetContamination, refuseHashMode, world
<1>20. ASSUME NEW t \in timers, FadeOut(t) PROVE Captured'
  BY <1>20, <1>1 DEF FadeOut, world, prompts
<1>21. CASE UNCHANGED vars
  BY <1>21, <1>1 DEF vars, world, prompts
<1>. QED
  BY <1>7, <1>8, <1>9, <1>10, <1>11, <1>12, <1>13, <1>14, <1>15, <1>16, <1>17, <1>18,
     <1>19, <1>20, <1>21 DEF Next

\* What a step may have done: an operation that needs no consent, one that was
\* accepted in a modal about its target, or an @auth cell that needs no consent.
Plain == last'.kind \in {"create_section", "rename_section", "set_section_status"}

Consented ==
  /\ modal # None /\ modal' = None
  /\ last'.target = modal.target /\ last'.button = "accept"

Inserted == last'.kind \in {"set", "rotate", "verify", "off"}

LEMMA StepActs ==
  ASSUME Captured, [Next]_vars
  PROVE  UNCHANGED <<acts, last>> \/ Plain \/ Consented \/ Inserted
<1>1. ASSUME NEW title \in Titles, SectionCreated(title) PROVE Plain
  BY <1>1, Fields DEF SectionCreated, enqueue, perform, Plain
<1>2. CASE SectionRenamed \/ StatusPicked
  BY <1>2, Fields DEF SectionRenamed, StatusPicked, enqueue, perform, Plain
<1>3. ASSUME NEW b \in {"accept", "cancel", "dismissed"},
             runSectionDelete(b) \/ runResetContamination(b)
      PROVE  UNCHANGED <<acts, last>> \/ Consented
  BY <1>3, Fields DEF runSectionDelete, runResetContamination, ModalFlow, accepts, enqueue,
     perform, Consented
<1>4. ASSUME NEW kind, NEW button, NEW from, insertTopCell(kind, button, from)
      PROVE  \/ UNCHANGED <<acts, last>>
             \/ last'.kind = kind /\ last'.target = "notebook" /\ last'.button = button
  BY <1>4, Fields DEF insertTopCell, perform
<1>5. ASSUME NEW b \in {"accept", "cancel", "dismissed"}, refuseHashMode(b)
      PROVE  UNCHANGED <<acts, last>> \/ Consented
  <2>1. modal # None /\ modal' = None /\ modal.target = "notebook"
    BY <1>5 DEF refuseHashMode, ModalFlow, Captured, ModalInv
  <2>2. CASE b = "accept" /\ insertTopCell("refuse", b, modal.from)
    BY <1>4, <2>1, <2>2 DEF Consented
  <2>. QED
    BY <1>5, <2>2 DEF refuseHashMode, accepts
<1>6. CASE PinEntered
  <2>1. /\ quick.target \in {"set", "rotate", "verify"}
        /\ insertTopCell(quick.target, None, quick.from)
    BY <1>6 DEF PinEntered, Captured, QuickInv
  <2>. QED
    BY <1>4, <2>1 DEF Inserted
<1>7. ASSUME NEW a \in AuthKinds, PinActionPicked(a)
      PROVE  UNCHANGED <<acts, last>> \/ Inserted
  <2>2. CASE a = "off" /\ insertTopCell("off", None, quick.from)
    BY <1>4, <2>2 DEF Inserted
  <2>. QED
    BY <1>7, <2>2 DEF PinActionPicked
<1>8. ASSUME NEW i \in Ids, SectionChanges(i) \/ RunSectionActions(i)
      PROVE  UNCHANGED <<acts, last>>
  BY <1>8 DEF SectionChanges, RunSectionActions, effects
<1>9. ASSUME NEW c \in Config, ConfigChanges(c) PROVE UNCHANGED <<acts, last>>
  BY <1>9 DEF ConfigChanges, effects
<1>10. ASSUME NEW n \in Notebooks \cup {None}, FocusMoves(n) PROVE UNCHANGED <<acts, last>>
  BY <1>10 DEF FocusMoves, effects
<1>11. Dismiss \/ RunSectionCreate \/ OpenPinStatusMenu \/ TellMeMore => UNCHANGED <<acts, last>>
  BY DEF Dismiss, RunSectionCreate, OpenPinStatusMenu, TellMeMore, effects
<1>12. ASSUME NEW f \in {"rename", "delete", "status"}, ActionPicked(f)
       PROVE  UNCHANGED <<acts, last>>
  BY <1>12 DEF ActionPicked, effects
<1>13. ASSUME NEW k \in 1 .. 2, RunReset(k) \/ RunRevealCell(k) PROVE UNCHANGED <<acts, last>>
  BY <1>13 DEF RunReset, RunRevealCell, effects
<1>14. ASSUME NEW t \in timers, FadeOut(t) PROVE UNCHANGED <<acts, last>>
  BY <1>14 DEF FadeOut, effects
<1>15. UNCHANGED vars => UNCHANGED <<acts, last>>
  BY DEF vars, effects
<1>. QED
  BY <1>1, <1>2, <1>3, <1>5, <1>6, <1>7, <1>8, <1>9, <1>10, <1>11, <1>12, <1>13,
     <1>14, <1>15
  DEF Next

\* A flash keeps its timer: only RunRevealCell and FadeOut touch either.
LEMMA StepFlash == FlashInv /\ [Next]_vars => FlashInv'
<1>. SUFFICES ASSUME FlashInv, [Next]_vars PROVE FlashInv'
  OBVIOUS
<1>1. CASE UNCHANGED <<flash, timers>>
  BY <1>1 DEF FlashInv, FlashHasTimer
<1>2. ASSUME NEW k \in 1 .. 2, RunRevealCell(k) PROVE FlashInv'
  <2>1. /\ flash' = [flash EXCEPT ![focus] = cells[focus][k]]
        /\ timers' = timers \cup {[notebook |-> focus, index |-> k, no |-> reveals]}
    BY <1>2 DEF RunRevealCell, scheduleFadeOut
  <2>2. DOMAIN flash' = Notebooks
    BY <2>1 DEF FlashInv
  <2>3. ASSUME NEW n \in Notebooks, flash'[n] # None PROVE \E t \in timers' : t.notebook = n
    <3>1. CASE n = focus
      <4>. DEFINE t == [notebook |-> focus, index |-> k, no |-> reveals]
      <4>1. t.notebook = n /\ t \in timers'
        BY <2>1, <3>1
      <4>. QED
        BY <4>1
    <3>2. CASE n # focus
      <4>1. flash'[n] = flash[n]
        BY <2>1, <3>2 DEF FlashInv
      <4>. QED
        BY <2>1, <2>3, <4>1 DEF FlashInv, FlashHasTimer
    <3>. QED
      BY <3>1, <3>2
  <2>. QED
    BY <2>2, <2>3 DEF FlashInv, FlashHasTimer
<1>3. ASSUME NEW t \in timers, FadeOut(t) PROVE FlashInv'
  <2>1. flash' = [flash EXCEPT ![t.notebook] = None] /\ timers' = timers \ {t}
    BY <1>3 DEF FadeOut
  <2>2. DOMAIN flash' = Notebooks
    BY <2>1 DEF FlashInv
  <2>3. ASSUME NEW n \in Notebooks, flash'[n] # None PROVE \E u \in timers' : u.notebook = n
    <3>1. n # t.notebook /\ flash'[n] = flash[n]
      BY <2>1, <2>3 DEF FlashInv
    <3>2. PICK u \in timers : u.notebook = n
      BY <2>3, <3>1 DEF FlashInv, FlashHasTimer
    <3>. QED
      BY <2>1, <3>1, <3>2
  <2>. QED
    BY <2>2, <2>3 DEF FlashInv, FlashHasTimer
<1>4. ASSUME NEW i \in Ids, SectionChanges(i) \/ RunSectionActions(i) PROVE UNCHANGED <<flash, timers>>
  BY <1>4 DEF SectionChanges, RunSectionActions, reveal
<1>5. ASSUME NEW c \in Config, ConfigChanges(c) PROVE UNCHANGED <<flash, timers>>
  BY <1>5 DEF ConfigChanges, reveal
<1>6. ASSUME NEW n \in Notebooks \cup {None}, FocusMoves(n) PROVE UNCHANGED <<flash, timers>>
  BY <1>6 DEF FocusMoves, reveal
<1>7. Dismiss \/ RunSectionCreate \/ OpenPinStatusMenu \/ TellMeMore \/ SectionRenamed
      \/ StatusPicked \/ PinEntered => UNCHANGED <<flash, timers>>
  BY DEF Dismiss, RunSectionCreate, OpenPinStatusMenu, TellMeMore, SectionRenamed,
     StatusPicked, PinEntered, reveal
<1>8. ASSUME NEW f \in {"rename", "delete", "status"}, ActionPicked(f) PROVE UNCHANGED <<flash, timers>>
  BY <1>8 DEF ActionPicked, reveal
<1>9. ASSUME NEW title \in Titles, SectionCreated(title) PROVE UNCHANGED <<flash, timers>>
  BY <1>9 DEF SectionCreated, reveal
<1>10. ASSUME NEW k \in 1 .. 2, RunReset(k) PROVE UNCHANGED <<flash, timers>>
  BY <1>10 DEF RunReset, reveal
<1>11. ASSUME NEW a \in AuthKinds, PinActionPicked(a) PROVE UNCHANGED <<flash, timers>>
  BY <1>11 DEF PinActionPicked, reveal
<1>12. ASSUME NEW b \in {"accept", "cancel", "dismissed"},
              runSectionDelete(b) \/ runResetContamination(b) \/ refuseHashMode(b)
       PROVE  UNCHANGED <<flash, timers>>
  BY <1>12 DEF runSectionDelete, runResetContamination, refuseHashMode, reveal
<1>13. UNCHANGED vars => UNCHANGED <<flash, timers>>
  BY DEF vars, reveal
<1>. QED
  BY <1>1, <1>2, <1>3, <1>4, <1>5, <1>6, <1>7, <1>8, <1>9, <1>10, <1>11, <1>12, <1>13
     DEF Next
-----------------------------------------------------------------------------
\* The inductive invariant holds in every reachable state.
THEOREM Invariance == Spec => []IInv
<1>1. Init => IInv
  BY DEF Init, IInv, Captured, QuickInv, ModalInv, FlashInv, FlashHasTimer
<1>2. IInv /\ [Next]_vars => IInv'
  BY StepCaptured, StepFlash DEF IInv
<1>. QED
  BY <1>1, <1>2, PTL DEF Spec

\* Nothing destructive without consent: a section is deleted, contamination
\* cleared and code injection accepted only by the button of a modal about that
\* target (runSectionDeleteCommand, runResetContaminationCommand,
\* refuseHashModeFlow), for any number of sections, notebooks and prompts.
THEOREM NothingWithoutConsent == Spec => ConsentFirst
<1>1. IInv /\ [Next]_vars =>
        [acts' # acts /\ last'.kind \in Destructive
           => /\ modal # None /\ modal.target = last'.target
              /\ last'.button = "accept" /\ modal' = None]_vars
  <2>. SUFFICES ASSUME IInv, [Next]_vars, acts' # acts, last'.kind \in Destructive
                PROVE  /\ modal # None /\ modal.target = last'.target
                       /\ last'.button = "accept" /\ modal' = None
    OBVIOUS
  <2>1. Plain \/ Consented \/ Inserted
    BY StepActs DEF IInv
  <2>. QED
    BY <2>1 DEF Plain, Consented, Inserted, Destructive
<1>. QED
  BY <1>1, Invariance, PTL DEF Spec, ConsentFirst

\* A cell that flashes has a fade-out timer of its editor running
\* (runRevealCellCommand), for any number of reveals in any number of editors.
THEOREM FlashIsLifted == Spec => []FlashHasTimer
<1>1. IInv => FlashHasTimer
  BY DEF IInv, FlashInv
<1>. QED
  BY <1>1, Invariance, PTL
=============================================================================
