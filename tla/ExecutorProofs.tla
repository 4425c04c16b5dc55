--------------------------- MODULE ExecutorProofs ---------------------------
(***************************************************************************)
(* Proofs about Executor, for every notebook (any number of cells of any   *)
(* kinds in any order), every bound on unread frames and a recv that may   *)
(* or may not raise.                                                       *)
(*                                                                         *)
(* CountedOnce and ReplayAgrees speak of a run that is over.  Their        *)
(* inductive forms follow the loop: CountInv says it of the cells before   *)
(* pos and that the others are not counted at all; ReplayInv compares the  *)
(* recording with the cells before pos, entry by entry, a recording that   *)
(* has fallen behind the loop being one that replay mode refuses.          *)
(* RefusedNeverSucceeds rests on VerdictInv: a refusal of the cell being   *)
(* drained that has arrived, and is not lost, is still to be read.         *)
(***************************************************************************)
EXTENDS Executor, FiniteSetTheorems, SequenceTheorems, TLAPS

NotIn(c, s) == \A i \in DOMAIN s : s[i] # c

OnceIn(c, s) == \E i \in DOMAIN s : s[i] = c /\ \A j \in DOMAIN s : s[j] = c => j = i

Once(c) ==
  \/ OnceIn(c, succeeded) /\ NotIn(c, failed)
  \/ NotIn(c, succeeded) /\ OnceIn(c, failed)

CountInv ==
  /\ phase \in {"tail", "done"} => pos = Len(Ordered) + 1
  /\ \A i \in DOMAIN Ordered :
       IF i < pos THEN kind[Ordered[i]] # "missing" /\ Ordered[i] \notin raised => Once(Ordered[i])
                  ELSE NotIn(Ordered[i], succeeded) /\ NotIn(Ordered[i], failed)

\* As long as the recording has kept up with the loop, its entries are those of
\* the cells before pos, and k_code is what the cell was counted by.
ReplayInv ==
  phase # "interrupted" =>
    /\ Len(recording) < pos
    /\ raised = {} /\ Len(recording) = pos - 1 =>
         \A i \in 1 .. pos - 1 : /\ recording[i].kcode <=> NotIn(Ordered[i], succeeded)
                                 /\ recording[i].status \in Status

\* The cells that have been shipped.
Reached(c) ==
  \E i \in DOMAIN Ordered :
    Ordered[i] = c /\ (i < pos \/ (i = pos /\ phase \in {"drain", "interrupted"}))

VerdictInv ==
  /\ \A i \in DOMAIN inbox :
       inbox[i].kind # "snapshot" => verdict[inbox[i].cell] \in {inbox[i].kind, "lost"}
  /\ phase = "drain" /\ verdict[cid] = "kcode" =>
       \E i \in DOMAIN inbox : inbox[i].kind = "kcode" /\ inbox[i].cell = cid
  /\ \A c \in Cells : verdict[c] # "idle" => kind[c] = "agent" /\ Reached(c)
-----------------------------------------------------------------------------
(* Sequences of cells and of entries.                                      *)

\* The cells that remain, in the order of the notebook.
LEMMA Remaining ==
  ASSUME pos \in 1 .. Len(Ordered) + 1
  PROVE  /\ SubSeq(Ordered, pos, Len(Ordered)) \in Seq(Cells)
         /\ Len(SubSeq(Ordered, pos, Len(Ordered))) = Len(Ordered) - pos + 1
         /\ \A i \in 1 .. Len(Ordered) - pos + 1 :
              SubSeq(Ordered, pos, Len(Ordered))[i] = Ordered[pos + i - 1]
<1>1. /\ Ordered \in Seq(Cells) /\ Len(Ordered) \in Nat /\ pos \in Int /\ Len(Ordered) \in Int
      /\ \A i \in pos .. Len(Ordered) : Ordered[i] \in Cells
  BY ExecutorAssumption
<1>2. /\ SubSeq(Ordered, pos, Len(Ordered)) \in Seq(Cells)
      /\ Len(SubSeq(Ordered, pos, Len(Ordered))) =
           IF pos <= Len(Ordered) THEN Len(Ordered) - pos + 1 ELSE 0
      /\ \A i \in 1 .. Len(Ordered) - pos + 1 :
           SubSeq(Ordered, pos, Len(Ordered))[i] = Ordered[pos + i - 1]
  BY <1>1, SubSeqProperties
<1>. QED
  BY <1>1, <1>2

\* The cell the loop is at, while it is at one.
LEMMA AtPos ==
  ASSUME pos \in 1 .. Len(Ordered) + 1, pos <= Len(Ordered)
  PROVE  pos \in DOMAIN Ordered /\ cid \in Cells /\ pos + 1 \in 1 .. Len(Ordered) + 1
BY ExecutorAssumption DEF cid

\* The places of a sequence that has grown by one.
LEMMA AppendAt ==
  ASSUME NEW S, NEW s \in Seq(S), NEW e \in S
  PROVE  /\ Len(s) \in Nat /\ DOMAIN s = 1 .. Len(s)
         /\ Append(s, e) \in Seq(S) /\ Len(Append(s, e)) = Len(s) + 1
         /\ DOMAIN Append(s, e) = 1 .. Len(s) + 1
         /\ \A i \in 1 .. Len(s) : Append(s, e)[i] = s[i]
         /\ Append(s, e)[Len(s) + 1] = e
OBVIOUS

\* The places of two sequences in a row.
LEMMA ConcatAt ==
  ASSUME NEW S, NEW s \in Seq(S), NEW r \in Seq(S)
  PROVE  /\ Len(s) \in Nat /\ DOMAIN s = 1 .. Len(s) /\ Len(r) \in Nat
         /\ s \o r \in Seq(S) /\ Len(s \o r) = Len(s) + Len(r)
         /\ DOMAIN (s \o r) = 1 .. Len(s) + Len(r)
         /\ \A i \in 1 .. Len(s) : (s \o r)[i] = s[i]
         /\ \A i \in 1 .. Len(r) : (s \o r)[Len(s) + i] = r[i]
OBVIOUS

\* The first n of them.
LEMMA PrefixAt ==
  ASSUME NEW S, NEW s \in Seq(S), NEW n \in 0 .. Len(s)
  PROVE  /\ SubSeq(s, 1, n) \in Seq(S) /\ Len(SubSeq(s, 1, n)) = n
         /\ DOMAIN SubSeq(s, 1, n) = 1 .. n
         /\ \A i \in 1 .. n : i \in DOMAIN s /\ SubSeq(s, 1, n)[i] = s[i]
OBVIOUS

\* A frame that answers a cell has one of the two statuses.
LEMMA ReplyStatus ==
  ASSUME inbox \in Seq(Replies \cup Snapshots), inbox # <<>>, Head(inbox).kind # "snapshot"
  PROVE  Head(inbox) \in Replies /\ Head(inbox).status \in Status
<1>1. Head(inbox) \in Replies \cup Snapshots
  OBVIOUS
<1>2. Head(inbox) \in Replies
  BY <1>1 DEF Snapshots
<1>. QED
  BY <1>2 DEF Replies

\* What one more count does to a cell's own counts, and to another cell's.
LEMMA CountAppend ==
  ASSUME NEW s \in Seq(Cells), NEW c \in Cells, NEW d \in Cells
  PROVE  /\ c # d /\ NotIn(c, s) => NotIn(c, Append(s, d))
         /\ c # d /\ OnceIn(c, s) => OnceIn(c, Append(s, d))
         /\ NotIn(c, s) => OnceIn(c, Append(s, c))
<1>1. /\ Len(s) \in Nat /\ DOMAIN s = 1 .. Len(s)
      /\ DOMAIN Append(s, d) = 1 .. Len(s) + 1
      /\ \A i \in 1 .. Len(s) : Append(s, d)[i] = s[i]
      /\ Append(s, d)[Len(s) + 1] = d
  BY AppendAt
<1>2. /\ DOMAIN Append(s, c) = 1 .. Len(s) + 1
      /\ \A i \in 1 .. Len(s) : Append(s, c)[i] = s[i]
      /\ Append(s, c)[Len(s) + 1] = c
  BY AppendAt
<1>3. c # d /\ NotIn(c, s) => NotIn(c, Append(s, d))
  BY <1>1 DEF NotIn
<1>4. ASSUME c # d, OnceIn(c, s) PROVE OnceIn(c, Append(s, d))
  <2>1. PICK i \in 1 .. Len(s) : s[i] = c /\ \A j \in 1 .. Len(s) : s[j] = c => j = i
    BY <1>1, <1>4 DEF OnceIn
  <2>2. i \in 1 .. Len(s) + 1 /\ Append(s, d)[i] = c
    BY <1>1, <2>1
  <2>3. ASSUME NEW j \in 1 .. Len(s) + 1, Append(s, d)[j] = c PROVE j = i
    BY <1>1, <1>4, <2>1, <2>3
  <2>. QED
    BY <1>1, <2>2, <2>3 DEF OnceIn
<1>5. ASSUME NotIn(c, s) PROVE OnceIn(c, Append(s, c))
  <2>1. Len(s) + 1 \in 1 .. Len(s) + 1
    BY <1>1
  <2>2. ASSUME NEW j \in 1 .. Len(s) + 1, Append(s, c)[j] = c PROVE j = Len(s) + 1
    BY <1>1, <1>2, <1>5, <2>2 DEF NotIn
  <2>. QED
    BY <1>2, <2>1, <2>2 DEF OnceIn
<1>. QED
  BY <1>3, <1>4, <1>5

\* The fail-fast counts every remaining cell once and no other.
LEMMA CountRemaining ==
  ASSUME NEW s \in Seq(Cells), pos \in 1 .. Len(Ordered) + 1, NEW k \in DOMAIN Ordered
  PROVE  LET t == s \o SubSeq(Ordered, pos, Len(Ordered)) IN
         /\ k < pos /\ NotIn(Ordered[k], s) => NotIn(Ordered[k], t)
         /\ k < pos /\ OnceIn(Ordered[k], s) => OnceIn(Ordered[k], t)
         /\ ~(k < pos) /\ NotIn(Ordered[k], s) => OnceIn(Ordered[k], t)
<1>. DEFINE r == SubSeq(Ordered, pos, Len(Ordered))
            t == s \o r
            c == Ordered[k]
<1>1. /\ r \in Seq(Cells) /\ Len(r) = Len(Ordered) - pos + 1 /\ Len(Ordered) \in Nat
      /\ DOMAIN Ordered = 1 .. Len(Ordered)
      /\ \A i \in 1 .. Len(r) : r[i] = Ordered[pos + i - 1]
  BY Remaining, ExecutorAssumption
<1>. HIDE DEF r
<1>2. /\ Len(s) \in Nat /\ DOMAIN s = 1 .. Len(s) /\ DOMAIN t = 1 .. Len(s) + Len(r)
      /\ Len(r) \in Nat
      /\ \A i \in 1 .. Len(s) : t[i] = s[i]
      /\ \A i \in 1 .. Len(r) : t[Len(s) + i] = r[i]
  <2>1. s \in Seq(Cells) /\ r \in Seq(Cells)
    BY <1>1
  <2>. QED
    BY <2>1, ConcatAt
<1>. HIDE DEF t
<1>3. ASSUME NEW i \in 1 .. Len(s) + Len(r), ~(i <= Len(s)), t[i] = c
      PROVE  pos + (i - Len(s)) - 1 = k
  <2>1. i - Len(s) \in 1 .. Len(r) /\ Len(s) + (i - Len(s)) = i
    BY <1>2, <1>3
  <2>2. t[i] = Ordered[pos + (i - Len(s)) - 1]
    BY <1>1, <1>2, <2>1
  <2>3. pos + (i - Len(s)) - 1 \in DOMAIN Ordered
    BY <1>1, <2>1
  <2>. QED
    BY <1>3, <2>2, <2>3, ExecutorAssumption
<1>4. ASSUME k < pos, NEW i \in 1 .. Len(s) + Len(r), t[i] = c PROVE i \in 1 .. Len(s)
  BY <1>1, <1>2, <1>3, <1>4
<1>5. ASSUME k < pos, NotIn(c, s) PROVE NotIn(c, t)
  BY <1>2, <1>4, <1>5 DEF NotIn
<1>6. ASSUME k < pos, OnceIn(c, s) PROVE OnceIn(c, t)
  <2>1. PICK i \in 1 .. Len(s) : s[i] = c /\ \A j \in 1 .. Len(s) : s[j] = c => j = i
    BY <1>2, <1>6 DEF OnceIn
  <2>2. i \in 1 .. Len(s) + Len(r) /\ t[i] = c
    BY <1>2, <2>1
  <2>3. ASSUME NEW j \in 1 .. Len(s) + Len(r), t[j] = c PROVE j = i
    BY <1>2, <1>4, <1>6, <2>1, <2>3
  <2>. QED
    BY <1>2, <2>2, <2>3 DEF OnceIn
<1>7. ASSUME ~(k < pos), NotIn(c, s) PROVE OnceIn(c, t)
  <2>. DEFINE i == k - pos + 1
  <2>1. i \in 1 .. Len(r) /\ pos + i - 1 = k /\ Len(s) + i \in 1 .. Len(s) + Len(r)
    BY <1>1, <1>2, <1>7
  <2>2. t[Len(s) + i] = c
    BY <1>1, <1>2, <2>1
  <2>3. ASSUME NEW j \in 1 .. Len(s) + Len(r), t[j] = c PROVE j = Len(s) + i
    <3>1. ~(j <= Len(s))
      BY <1>2, <1>7, <2>3 DEF NotIn
    <3>2. pos + (j - Len(s)) - 1 = k
      BY <1>3, <2>3, <3>1
    <3>. QED
      BY <1>1, <1>2, <3>2
  <2>. QED
    BY <1>2, <2>1, <2>2, <2>3 DEF OnceIn
<1>. QED
  BY <1>5, <1>6, <1>7 DEF r, t

\* A cell that is counted once, as succeeded or as failed, is counted once.
LEMMA OnceTimes ==
  ASSUME NEW c \in Cells, succeeded \in Seq(Cells), failed \in Seq(Cells), Once(c)
  PROVE  Times(c, succeeded \o failed) = 1
<1>. DEFINE t == succeeded \o failed
<1>1. /\ Len(succeeded) \in Nat /\ Len(failed) \in Nat
      /\ DOMAIN succeeded = 1 .. Len(succeeded) /\ DOMAIN failed = 1 .. Len(failed)
      /\ DOMAIN t = 1 .. Len(succeeded) + Len(failed)
      /\ \A i \in 1 .. Len(succeeded) : t[i] = succeeded[i]
      /\ \A i \in 1 .. Len(failed) : t[Len(succeeded) + i] = failed[i]
  OBVIOUS
<1>. HIDE DEF t
<1>2. \A i \in DOMAIN t : i \in DOMAIN succeeded \/ i - Len(succeeded) \in DOMAIN failed
  BY <1>1
<1>3. ASSUME OnceIn(c, succeeded), NotIn(c, failed)
      PROVE  \E i : {j \in DOMAIN t : t[j] = c} = {i}
  <2>1. PICK i \in DOMAIN succeeded :
          succeeded[i] = c /\ \A j \in DOMAIN succeeded : succeeded[j] = c => j = i
    BY <1>3 DEF OnceIn
  <2>2. i \in DOMAIN t /\ t[i] = c
    BY <1>1, <2>1
  <2>3. ASSUME NEW j \in DOMAIN t, t[j] = c PROVE j = i
    <3>1. CASE j \in DOMAIN succeeded
      BY <1>1, <2>1, <2>3, <3>1
    <3>2. CASE j - Len(succeeded) \in DOMAIN failed
      <4>1. t[j] = failed[j - Len(succeeded)]
        BY <1>1, <3>2
      <4>. QED
        BY <1>3, <2>3, <3>2, <4>1 DEF NotIn
    <3>. QED
      BY <1>2, <3>1, <3>2
  <2>. QED
    BY <2>2, <2>3
<1>4. ASSUME NotIn(c, succeeded), OnceIn(c, failed)
      PROVE  \E i : {j \in DOMAIN t : t[j] = c} = {i}
  <2>1. PICK i \in DOMAIN failed :
          failed[i] = c /\ \A j \in DOMAIN failed : failed[j] = c => j = i
    BY <1>4 DEF OnceIn
  <2>2. Len(succeeded) + i \in DOMAIN t /\ t[Len(succeeded) + i] = c
    BY <1>1, <2>1
  <2>3. ASSUME NEW j \in DOMAIN t, t[j] = c PROVE j = Len(succeeded) + i
    <3>1. CASE j \in DOMAIN succeeded
      BY <1>1, <1>4, <2>3, <3>1 DEF NotIn
    <3>2. CASE j - Len(succeeded) \in DOMAIN failed
      <4>1. t[j] = failed[j - Len(succeeded)]
        BY <1>1, <3>2
      <4>2. j - Len(succeeded) = i
        BY <2>1, <2>3, <3>2, <4>1
      <4>. QED
        BY <1>1, <2>1, <4>2
    <3>. QED
      BY <1>2, <3>1, <3>2
  <2>. QED
    BY <2>2, <2>3
<1>5. \E i : {j \in DOMAIN t : t[j] = c} = {i}
  BY <1>3, <1>4 DEF Once
<1>. QED
  BY <1>5, FS_Singleton DEF Times, t
-----------------------------------------------------------------------------
\* The executor's state keeps its type, and a cell that is being drained is one
\* that was shipped, for every notebook.
THEOREM TypeCorrect == Spec => []TypeOK
<1>1. Init => TypeOK
  <2>. SUFFICES ASSUME Init PROVE TypeOK
    OBVIOUS
  <2>1. pos \in 1 .. Len(Ordered) + 1
    BY ExecutorAssumption DEF Init
  <2>2. inbox \in Seq(Replies \cup Snapshots) /\ Len(inbox) <= MaxInbox
    BY ExecutorAssumption DEF Init
  <2>3. succeeded \in Seq(Cells) /\ failed \in Seq(Cells) /\ recording \in Seq(Entries)
    BY DEF Init
  <2>. QED
    BY <2>1, <2>2, <2>3 DEF Init, TypeOK
<1>2. TypeOK /\ [Next]_vars => TypeOK'
  <2>. SUFFICES ASSUME TypeOK, [Next]_vars PROVE TypeOK'
    OBVIOUS
  <2>. USE DEF TypeOK
  <2>0. /\ pos \in 1 .. Len(Ordered) + 1 /\ Len(Ordered) \in Nat /\ MaxInbox \in Nat
        /\ inbox \in Seq(Replies \cup Snapshots)
    BY ExecutorAssumption
  <2>1. ASSUME NEW c \in Cells, NEW answer \in {"ok", "kcode"}, NEW status \in Status,
               KernelAnswers(c, answer, status)
        PROVE  TypeOK'
    <3>. DEFINE e == [kind |-> answer, cell |-> c, status |-> status]
    <3>1. e \in Replies \cup Snapshots
      BY DEF Replies
    <3>2. inbox' = Append(inbox, e) /\ Len(inbox) < MaxInbox
      BY <2>1 DEF KernelAnswers
    <3>. HIDE DEF e
    <3>3. Append(inbox, e) \in Seq(Replies \cup Snapshots)
          /\ Len(Append(inbox, e)) = Len(inbox) + 1 /\ Len(inbox) \in Nat
      BY <2>0, <3>1
    <3>4. inbox' \in Seq(Replies \cup Snapshots) /\ Len(inbox') <= MaxInbox
      BY <2>0, <3>2, <3>3
    <3>. QED
      BY <2>1, <3>4 DEF KernelAnswers
  <2>2. CASE KernelSnapshots
    <3>1. [kind |-> "snapshot"] \in Replies \cup Snapshots
      BY DEF Snapshots
    <3>2. Append(inbox, [kind |-> "snapshot"]) \in Seq(Replies \cup Snapshots)
          /\ Len(Append(inbox, [kind |-> "snapshot"])) = Len(inbox) + 1 /\ Len(inbox) \in Nat
      BY <2>0, <3>1
    <3>3. inbox' \in Seq(Replies \cup Snapshots) /\ Len(inbox') <= MaxInbox
      BY <2>0, <2>2, <3>2 DEF KernelSnapshots
    <3>. QED
      BY <2>2, <3>3 DEF KernelSnapshots
  <2>b. CASE ConnectionLost
    <3>1. PICK n \in 0 .. Len(inbox) : inbox' = SubSeq(inbox, 1, n)
      BY <2>b DEF ConnectionLost
    <3>2. inbox' \in Seq(Replies \cup Snapshots) /\ Len(inbox') = n
      BY <2>0, <3>1, PrefixAt
    <3>3. Len(inbox') <= MaxInbox
      BY <2>0, <3>2
    <3>4. verdict' \in [Cells -> {"idle", "asked", "ok", "kcode", "lost"}]
      BY <2>b DEF ConnectionLost
    <3>. QED
      BY <2>b, <3>2, <3>3, <3>4 DEF ConnectionLost
  <2>3. CASE RunDeadlinePasses
    BY <2>3 DEF RunDeadlinePasses
  <2>4. CASE Hydrate \/ HydrateFails \/ LoopEnds \/ TailEnds
    BY <2>4 DEF Hydrate, HydrateFails, LoopEnds, TailEnds
  <2>5. AtCell => pos \in DOMAIN Ordered /\ cid \in Cells /\ pos + 1 \in 1 .. Len(Ordered) + 1
    BY <2>0, AtPos DEF AtCell
  <2>a. \A c \in Cells : Append(succeeded, c) \in Seq(Cells) /\ Append(failed, c) \in Seq(Cells)
    OBVIOUS
  <2>6. CASE CellOverdue \/ CellMissing
    <3>1. cid \in Cells /\ pos' \in 1 .. Len(Ordered) + 1 /\ phase' # "drain"
      BY <2>5, <2>6 DEF CellOverdue, CellMissing, AtCell
    <3>2. failed' \in Seq(Cells)
      BY <2>a, <2>6, <3>1 DEF CellOverdue, CellMissing
    <3>. QED
      BY <2>6, <3>1, <3>2 DEF CellOverdue, CellMissing
  <2>7. \A sent \in BOOLEAN, kcode \in BOOLEAN, status \in Status \cup {"none"} :
          Append(recording, [sent |-> sent, kcode |-> kcode, status |-> status])
            \in Seq(Entries)
    BY DEF Entries
  <2>8. CASE CellNoop
    <3>1. cid \in Cells /\ pos' \in 1 .. Len(Ordered) + 1 /\ phase' # "drain"
      BY <2>5, <2>8 DEF CellNoop, AtCell
    <3>2. succeeded' \in Seq(Cells) /\ recording' \in Seq(Entries)
      BY <2>a, <2>7, <2>8, <3>1 DEF CellNoop, Status
    <3>. QED
      BY <2>8, <3>1, <3>2 DEF CellNoop
  <2>9. CASE CellShipped
    BY <2>5, <2>9 DEF CellShipped, AtCell, cid
  <2>10. CASE CellSendFails
    <3>1. failed' \in Seq(Cells)
      BY <2>0, <2>10, Remaining DEF CellSendFails
    <3>2. recording' \in Seq(Entries)
      BY <2>7, <2>10 DEF CellSendFails, Status
    <3>. QED
      BY <2>0, <2>10, <3>1, <3>2 DEF CellSendFails, AtCell
  <2>11. phase = "drain" =>
           pos \in DOMAIN Ordered /\ cid \in Cells /\ pos + 1 \in 1 .. Len(Ordered) + 1
    BY <2>0, AtPos
  <2>12. inbox # <<>> => /\ Tail(inbox) \in Seq(Replies \cup Snapshots)
                         /\ Len(Tail(inbox)) <= MaxInbox
    BY <2>0
  <2>13. ASSUME NEW kcode \in BOOLEAN, NEW status \in Status, phase = "drain",
                decide(kcode, status)
         PROVE  /\ recording' \in Seq(Entries) /\ phase' = "cells"
                /\ pos' \in 1 .. Len(Ordered) + 1
    BY <2>7, <2>11, <2>13 DEF decide
  <2>14. CASE RecvOther
    BY <2>12, <2>14 DEF RecvOther, read
  <2>15. CASE RecvAnswer
    <3>1. /\ recording' \in Seq(Entries) /\ phase' = "cells"
          /\ pos' \in 1 .. Len(Ordered) + 1
      <4>1. Head(inbox).status \in Status
        BY <2>0, <2>15, ReplyStatus DEF RecvAnswer, answers
      <4>. QED
        BY <2>13, <2>15, <4>1 DEF RecvAnswer
    <3>2. succeeded' \in Seq(Cells) /\ failed' \in Seq(Cells)
      BY <2>a, <2>11, <2>15 DEF RecvAnswer
    <3>. QED
      BY <2>12, <2>15, <3>1, <3>2 DEF RecvAnswer
  <2>16. CASE RecvEmpty
    BY <2>16 DEF RecvEmpty
  <2>17. CASE Quiesces \/ RecvRaises \/ CellTimeout
    <3>1. /\ recording' \in Seq(Entries) /\ phase' = "cells"
          /\ pos' \in 1 .. Len(Ordered) + 1
      BY <2>13, <2>17 DEF Quiesces, RecvRaises, CellTimeout, Status
    <3>2. succeeded' \in Seq(Cells) /\ failed' \in Seq(Cells) /\ raised' \in SUBSET Cells
      BY <2>a, <2>11, <2>17 DEF Quiesces, RecvRaises, CellTimeout
    <3>. QED
      BY <2>17, <3>1, <3>2 DEF Quiesces, RecvRaises, CellTimeout
  <2>18. CASE Interrupt
    BY <2>7, <2>18 DEF Interrupt
  <2>19. CASE TailRecv
    BY <2>12, <2>19 DEF TailRecv, read
  <2>20. CASE UNCHANGED vars
    BY <2>20 DEF vars
  <2>. QED
    BY <2>1, <2>2, <2>3, <2>b, <2>4, <2>6, <2>8, <2>9, <2>10, <2>14, <2>15, <2>16, <2>17, <2>18,
       <2>19, <2>20 DEF Next, Environment, Start, Loop, Drain
<1>. QED
  BY <1>1, <1>2, PTL DEF Spec
-----------------------------------------------------------------------------
(* CountedOnce.                                                            *)

\* At the start no cell is counted.
LEMMA InitCount == Init => CountInv
<1>. SUFFICES ASSUME Init PROVE CountInv
  OBVIOUS
<1>1. \A i \in DOMAIN Ordered : ~(i < 1)
  BY ExecutorAssumption
<1>. QED
  BY <1>1 DEF Init, CountInv, NotIn

\* A cell that is decided with one count leaves the invariant true of every cell.
LEMMA OneMore ==
  ASSUME TypeOK, CountInv, pos <= Len(Ordered), pos' = pos + 1,
         phase' = "cells", UNCHANGED <<kind, raised>>,
         \/ succeeded' = Append(succeeded, cid) /\ UNCHANGED failed
         \/ failed' = Append(failed, cid) /\ UNCHANGED succeeded
  PROVE  CountInv'
<1>1. /\ pos \in DOMAIN Ordered /\ cid \in Cells /\ pos \in Nat
      /\ succeeded \in Seq(Cells) /\ failed \in Seq(Cells)
  BY AtPos DEF TypeOK
<1>2. SUFFICES ASSUME NEW i \in DOMAIN Ordered
               PROVE  (IF i < pos
                         THEN kind[Ordered[i]] # "missing" /\ Ordered[i] \notin raised
                                => Once(Ordered[i])
                         ELSE /\ NotIn(Ordered[i], succeeded)
                              /\ NotIn(Ordered[i], failed))'
  BY DEF CountInv
<1>3. i \in Nat /\ Ordered[i] \in Cells
  BY ExecutorAssumption
<1>4. CASE i < pos
  <2>1. Ordered[i] # cid /\ i < pos'
    BY <1>1, <1>3, <1>4, ExecutorAssumption DEF cid
  <2>2. kind[Ordered[i]] # "missing" /\ Ordered[i] \notin raised => Once(Ordered[i])
    BY <1>4 DEF CountInv
  <2>3. kind[Ordered[i]] # "missing" /\ Ordered[i] \notin raised => Once(Ordered[i])'
    BY <1>1, <1>3, <2>1, <2>2, CountAppend DEF Once
  <2>. QED
    BY <2>1, <2>3
<1>5. CASE i = pos
  <2>1. i < pos' /\ Ordered[i] = cid /\ NotIn(cid, succeeded) /\ NotIn(cid, failed)
    BY <1>1, <1>5 DEF CountInv, cid
  <2>2. Once(Ordered[i])'
    BY <1>1, <2>1, CountAppend DEF Once
  <2>. QED
    BY <2>1, <2>2
<1>6. CASE i > pos
  <2>1. Ordered[i] # cid /\ ~(i < pos')
    BY <1>1, <1>3, <1>6, ExecutorAssumption DEF cid
  <2>2. NotIn(Ordered[i], succeeded) /\ NotIn(Ordered[i], failed)
    BY <1>1, <1>3, <1>6 DEF CountInv
  <2>3. NotIn(Ordered[i], succeeded') /\ NotIn(Ordered[i], failed')
    BY <1>1, <1>3, <2>1, <2>2, CountAppend
  <2>. QED
    BY <2>1, <2>3
<1>. QED
  BY <1>1, <1>3, <1>4, <1>5, <1>6

\* Every step of the run keeps the counts right.
LEMMA StepCount == TypeOK /\ CountInv /\ [Next]_vars => CountInv'
<1>. SUFFICES ASSUME TypeOK, CountInv, [Next]_vars PROVE CountInv'
  OBVIOUS
<1>0. /\ pos \in 1 .. Len(Ordered) + 1 /\ pos \in Nat /\ Len(Ordered) \in Nat
      /\ DOMAIN Ordered = 1 .. Len(Ordered)
      /\ succeeded \in Seq(Cells) /\ failed \in Seq(Cells)
  BY ExecutorAssumption DEF TypeOK
<1>a. ASSUME UNCHANGED <<kind, pos, succeeded, failed, raised>>,
             phase' \in {"tail", "done"} => pos = Len(Ordered) + 1
      PROVE  CountInv'
  BY <1>a DEF CountInv, Once
<1>1. CASE Environment
  BY <1>1, <1>a DEF Environment, KernelSnapshots, ConnectionLost, RunDeadlinePasses,
                    KernelAnswers, CountInv
<1>2. CASE Start
  BY <1>2, <1>a DEF Start, Hydrate, HydrateFails
<1>3. CASE CellOverdue \/ CellNoop
  BY <1>3, OneMore DEF CellOverdue, CellNoop, AtCell
<1>4. CASE CellMissing
  <2>1. /\ pos <= Len(Ordered) /\ kind[Ordered[pos]] = "missing" /\ pos' = pos + 1
        /\ phase' = "cells" /\ UNCHANGED <<kind, succeeded, failed, raised>>
    BY <1>4 DEF CellMissing, AtCell, cid
  <2>2. \A i \in DOMAIN Ordered : i < pos' => i < pos \/ i = pos
    BY <1>0, <2>1
  <2>3. \A i \in DOMAIN Ordered : ~(i < pos') => ~(i < pos)
    BY <1>0, <2>1
  <2>. QED
    BY <2>1, <2>2, <2>3 DEF CountInv, Once
<1>5. CASE CellShipped
  BY <1>5, <1>a DEF CellShipped
<1>6. CASE CellSendFails
  <2>1. /\ failed' = failed \o SubSeq(Ordered, pos, Len(Ordered))
        /\ pos' = Len(Ordered) + 1 /\ phase' = "cells"
        /\ UNCHANGED <<kind, succeeded, raised>>
    BY <1>6 DEF CellSendFails, AtCell
  <2>2. ASSUME NEW i \in DOMAIN Ordered
        PROVE  i < pos' /\ (kind[Ordered[i]] # "missing" /\ Ordered[i] \notin raised
                              => Once(Ordered[i])')
    <3>1. i < pos'
      BY <1>0, <2>1
    <3>2. CASE i < pos
      <4>1. kind[Ordered[i]] # "missing" /\ Ordered[i] \notin raised => Once(Ordered[i])
        BY <3>2 DEF CountInv
      <4>2. /\ NotIn(Ordered[i], failed) => NotIn(Ordered[i], failed')
            /\ OnceIn(Ordered[i], failed) => OnceIn(Ordered[i], failed')
        BY <1>0, <2>1, <3>2, CountRemaining
      <4>. QED
        BY <2>1, <3>1, <4>1, <4>2 DEF Once
    <3>3. CASE ~(i < pos)
      <4>1. NotIn(Ordered[i], succeeded) /\ NotIn(Ordered[i], failed)
        BY <3>3 DEF CountInv
      <4>2. OnceIn(Ordered[i], failed')
        BY <1>0, <2>1, <3>3, <4>1, CountRemaining
      <4>. QED
        BY <2>1, <3>1, <4>1, <4>2 DEF Once
    <3>. QED
      BY <3>2, <3>3
  <2>. QED
    BY <2>1, <2>2 DEF CountInv
<1>7. CASE LoopEnds \/ TailEnds
  BY <1>0, <1>7, <1>a DEF LoopEnds, TailEnds, CountInv
<1>8. CASE RecvOther \/ RecvEmpty \/ Interrupt \/ TailRecv
  BY <1>8, <1>a DEF RecvOther, RecvEmpty, Interrupt, TailRecv, CountInv
<1>9. CASE RecvAnswer \/ Quiesces \/ CellTimeout
  BY <1>9, OneMore DEF RecvAnswer, Quiesces, CellTimeout, decide, TypeOK
<1>10. CASE RecvRaises
  <2>1. /\ pos \in DOMAIN Ordered /\ cid \in Cells /\ pos' = pos + 1 /\ phase' = "cells"
        /\ failed' = Append(failed, cid) /\ succeeded' = Append(succeeded, cid)
        /\ raised' = raised \cup {cid} /\ UNCHANGED kind
    BY <1>0, <1>10, AtPos DEF RecvRaises, decide, TypeOK
  <2>2. ASSUME NEW i \in DOMAIN Ordered, i # pos
        PROVE  Ordered[i] \in Cells /\ Ordered[i] # cid
    BY <2>1, <2>2, ExecutorAssumption DEF cid
  <2>3. ASSUME NEW i \in DOMAIN Ordered, i < pos',
               kind[Ordered[i]] # "missing", Ordered[i] \notin raised'
        PROVE  Once(Ordered[i])'
    <3>1. i # pos /\ i < pos
      BY <1>0, <2>1, <2>3 DEF cid
    <3>2. Once(Ordered[i])
      BY <2>1, <2>3, <3>1 DEF CountInv
    <3>. QED
      BY <1>0, <2>1, <2>2, <3>1, <3>2, CountAppend DEF Once
  <2>4. ASSUME NEW i \in DOMAIN Ordered, ~(i < pos')
        PROVE  NotIn(Ordered[i], succeeded') /\ NotIn(Ordered[i], failed')
    <3>1. i # pos /\ ~(i < pos)
      BY <1>0, <2>1, <2>4
    <3>2. NotIn(Ordered[i], succeeded) /\ NotIn(Ordered[i], failed)
      BY <2>4, <3>1 DEF CountInv
    <3>. QED
      BY <1>0, <2>1, <2>2, <3>1, <3>2, CountAppend
  <2>. QED
    BY <2>1, <2>3, <2>4 DEF CountInv
<1>11. CASE UNCHANGED vars
  BY <1>11, <1>a DEF vars, CountInv
<1>. QED
  BY <1>1, <1>2, <1>3, <1>4, <1>5, <1>6, <1>7, <1>8, <1>9, <1>10, <1>11
     DEF Next, Loop, Drain

\* A finished run counts every cell of the notebook exactly once, for every
\* notebook: whatever decided a cell (an answer, the silence, a deadline, the
\* fail-fast over the rest), it is neither dropped nor counted twice.
THEOREM CellsCountedOnce == Spec => []CountedOnce
<1>1. TypeOK /\ CountInv => CountedOnce
  <2>. SUFFICES ASSUME TypeOK, CountInv, phase = "done", NEW c \in Decided \ raised
                PROVE  Times(c, succeeded \o failed) = 1
    BY DEF CountedOnce
  <2>1. PICK i \in DOMAIN Ordered : c = Ordered[i] /\ kind[Ordered[i]] # "missing"
    BY DEF Decided
  <2>2. i < pos /\ c \in Cells
    BY <2>1, ExecutorAssumption DEF CountInv
  <2>3. Once(c)
    BY <2>1, <2>2 DEF CountInv
  <2>. QED
    BY <2>2, <2>3, OnceTimes DEF TypeOK
<1>. QED
  BY <1>1, InitCount, StepCount, TypeCorrect, PTL DEF Spec
-----------------------------------------------------------------------------
(* ReplayAgrees.                                                           *)

\* One more success is that of its own cell and of no other.
LEMMA NotInAppend ==
  ASSUME NEW s \in Seq(Cells), NEW c \in Cells, NEW d \in Cells
  PROVE  NotIn(c, Append(s, d)) <=> NotIn(c, s) /\ c # d
<1>1. /\ Len(s) \in Nat /\ DOMAIN s = 1 .. Len(s)
      /\ DOMAIN Append(s, d) = 1 .. Len(s) + 1
      /\ \A i \in 1 .. Len(s) : Append(s, d)[i] = s[i]
      /\ Append(s, d)[Len(s) + 1] = d
  BY AppendAt
<1>2. /\ Len(s) + 1 \in 1 .. Len(s) + 1
      /\ \A i \in 1 .. Len(s) : i \in 1 .. Len(s) + 1
      /\ \A i \in 1 .. Len(s) + 1 : i \in 1 .. Len(s) \/ i = Len(s) + 1
  BY <1>1
<1>. QED
  BY <1>1, <1>2 DEF NotIn

\* A cell that is decided and recorded: the new entry is that cell's.
LEMMA OneEntry ==
  ASSUME TypeOK, CountInv, ReplayInv, phase # "interrupted", pos <= Len(Ordered),
         pos' = pos + 1, UNCHANGED raised,
         NEW e \in Entries, e.status \in Status, recording' = Append(recording, e),
         \/ ~e.kcode /\ succeeded' = Append(succeeded, cid)
         \/ e.kcode /\ UNCHANGED succeeded
  PROVE  ReplayInv'
<1>1. /\ pos \in DOMAIN Ordered /\ cid \in Cells /\ pos \in Nat /\ Len(Ordered) \in Nat
      /\ DOMAIN Ordered = 1 .. Len(Ordered)
      /\ recording \in Seq(Entries) /\ succeeded \in Seq(Cells)
  BY AtPos, ExecutorAssumption DEF TypeOK
<1>2. /\ Len(recording) \in Nat /\ Len(recording') = Len(recording) + 1
      /\ \A i \in 1 .. Len(recording) : recording'[i] = recording[i]
      /\ recording'[Len(recording) + 1] = e
  BY <1>1, AppendAt
<1>3. Len(recording) < pos
  BY DEF ReplayInv
<1>4. Len(recording') < pos'
  BY <1>1, <1>2, <1>3
<1>5. ASSUME raised' = {}, Len(recording') = pos' - 1, NEW i \in 1 .. pos' - 1
      PROVE  /\ recording'[i].kcode <=> NotIn(Ordered[i], succeeded')
             /\ recording'[i].status \in Status
  <2>1. raised = {} /\ Len(recording) = pos - 1
    BY <1>1, <1>2, <1>5
  <2>2. CASE i # pos
    <3>1. i \in 1 .. pos - 1 /\ i \in DOMAIN Ordered /\ i \in 1 .. Len(recording)
      BY <1>1, <1>5, <2>1, <2>2
    <3>2. Ordered[i] \in Cells /\ Ordered[i] # cid
      BY <1>1, <2>2, <3>1, ExecutorAssumption DEF cid
    <3>3. NotIn(Ordered[i], succeeded') <=> NotIn(Ordered[i], succeeded)
      <4>1. NotIn(Ordered[i], Append(succeeded, cid)) <=> NotIn(Ordered[i], succeeded)
        BY <1>1, <3>2, NotInAppend
      <4>2. succeeded' = Append(succeeded, cid) \/ succeeded' = succeeded
        OBVIOUS
      <4>. QED
        BY <4>1, <4>2, Zenon
    <3>4. /\ recording[i].kcode <=> NotIn(Ordered[i], succeeded)
          /\ recording[i].status \in Status
      BY <2>1, <3>1 DEF ReplayInv
    <3>. QED
      BY <1>2, <3>1, <3>3, <3>4
  <2>3. CASE i = pos
    <3>1. recording'[i] = e /\ Ordered[i] = cid
      BY <1>1, <1>2, <2>1, <2>3 DEF cid
    <3>2. NotIn(cid, succeeded)
      BY <1>1 DEF CountInv, cid
    <3>3. NotIn(cid, succeeded') <=> e.kcode
      BY <1>1, <3>2, NotInAppend
    <3>. QED
      BY <3>1, <3>3
  <2>. QED
    BY <2>2, <2>3
<1>. QED
  BY <1>4, <1>5 DEF ReplayInv

\* The entries the run records.
LEMMA EntryShapes ==
  ASSUME NEW sent \in BOOLEAN, NEW kcode \in BOOLEAN, NEW status \in Status \cup {"none"}
  PROVE  /\ [sent |-> sent, kcode |-> kcode, status |-> status] \in Entries
         /\ [sent |-> sent, kcode |-> kcode, status |-> status].kcode = kcode
         /\ [sent |-> sent, kcode |-> kcode, status |-> status].status = status
BY DEF Entries

\* Every step of the run keeps recording and counts in agreement.
LEMMA StepReplay == TypeOK /\ CountInv /\ ReplayInv /\ [Next]_vars => ReplayInv'
<1>. SUFFICES ASSUME TypeOK, CountInv, ReplayInv, [Next]_vars PROVE ReplayInv'
  OBVIOUS
<1>0. /\ pos \in 1 .. Len(Ordered) + 1 /\ pos \in Nat /\ Len(Ordered) \in Nat
      /\ Len(recording) \in Nat /\ recording \in Seq(Entries)
      /\ phase = "drain" => pos <= Len(Ordered)
  BY ExecutorAssumption DEF TypeOK
<1>a. ASSUME UNCHANGED <<pos, succeeded, recording, raised>>,
             phase' # "interrupted" => phase # "interrupted"
      PROVE  ReplayInv'
  BY <1>a DEF ReplayInv
<1>b. ASSUME NEW kcode \in BOOLEAN, NEW status \in Status, phase = "drain",
             decide(kcode, status), UNCHANGED raised,
             \/ ~kcode /\ succeeded' = Append(succeeded, cid)
             \/ kcode /\ UNCHANGED succeeded
      PROVE  ReplayInv'
  <2>. DEFINE e == [sent |-> TRUE, kcode |-> kcode, status |-> status]
  <2>1. e \in Entries /\ e.kcode = kcode /\ e.status = status
    BY EntryShapes
  <2>2. pos' = pos + 1 /\ recording' = Append(recording, e)
    BY <1>b DEF decide
  <2>. HIDE DEF e
  <2>. QED
    BY <1>0, <1>b, <2>1, <2>2, OneEntry
<1>1. CASE Environment
  BY <1>1, <1>a DEF Environment, KernelSnapshots, ConnectionLost, RunDeadlinePasses,
                    KernelAnswers
<1>2. CASE Start
  BY <1>2, <1>a DEF Start, Hydrate, HydrateFails
<1>3. CASE CellOverdue \/ CellMissing
  <2>1. phase # "interrupted" /\ pos' = pos + 1 /\ UNCHANGED recording
    BY <1>3 DEF CellOverdue, CellMissing, AtCell
  <2>2. Len(recording) < pos
    BY <2>1 DEF ReplayInv
  <2>3. Len(recording') < pos' /\ Len(recording') # pos' - 1
    BY <1>0, <2>1, <2>2
  <2>. QED
    BY <2>3 DEF ReplayInv
<1>4. CASE CellNoop
  <2>. DEFINE e == [sent |-> FALSE, kcode |-> FALSE, status |-> "ok"]
  <2>1. e \in Entries /\ ~e.kcode /\ e.status \in Status
    BY EntryShapes DEF Status
  <2>2. /\ phase # "interrupted" /\ pos <= Len(Ordered) /\ pos' = pos + 1
        /\ UNCHANGED raised /\ recording' = Append(recording, e)
        /\ succeeded' = Append(succeeded, cid)
    BY <1>4 DEF CellNoop, AtCell
  <2>. HIDE DEF e
  <2>. QED
    BY <2>1, <2>2, OneEntry
<1>5. CASE CellShipped \/ LoopEnds \/ TailEnds
  BY <1>5, <1>a DEF CellShipped, LoopEnds, TailEnds, AtCell
<1>6. CASE CellSendFails
  <2>. DEFINE e == [sent |-> TRUE, kcode |-> TRUE, status |-> "error"]
  <2>1. e \in Entries /\ e.kcode /\ e.status \in Status
    BY EntryShapes DEF Status
  <2>2. /\ phase # "interrupted" /\ pos <= Len(Ordered) /\ pos' = Len(Ordered) + 1
        /\ UNCHANGED <<raised, succeeded>> /\ recording' = Append(recording, e)
    BY <1>6 DEF CellSendFails, AtCell
  <2>. HIDE DEF e
  <2>3. CASE pos = Len(Ordered)
    <3>1. pos' = pos + 1
      BY <2>2, <2>3
    <3>. QED
      BY <2>1, <2>2, <3>1, OneEntry
  <2>4. CASE pos # Len(Ordered)
    <3>1. Len(recording') = Len(recording) + 1
      BY <1>0, <2>1, <2>2, AppendAt
    <3>2. Len(recording) < pos
      BY <2>2 DEF ReplayInv
    <3>3. Len(recording') < pos' /\ Len(recording') # pos' - 1
      BY <1>0, <2>2, <2>4, <3>1, <3>2
    <3>. QED
      BY <3>3 DEF ReplayInv
  <2>. QED
    BY <2>3, <2>4
<1>7. CASE RecvOther \/ RecvEmpty \/ TailRecv
  BY <1>7, <1>a DEF RecvOther, RecvEmpty, TailRecv
<1>8. CASE RecvAnswer
  <2>1. Head(inbox).status \in Status
    BY <1>8, ReplyStatus DEF RecvAnswer, answers, TypeOK
  <2>. QED
    BY <1>b, <1>8, <2>1 DEF RecvAnswer
<1>9. CASE Quiesces \/ CellTimeout
  BY <1>b, <1>9 DEF Quiesces, CellTimeout, Status
<1>10. CASE RecvRaises
  <2>. DEFINE e == [sent |-> TRUE, kcode |-> FALSE, status |-> "ok"]
  <2>1. /\ phase = "drain" /\ pos' = pos + 1 /\ raised' # {}
        /\ recording' = Append(recording, e)
    BY <1>10 DEF RecvRaises, decide
  <2>2. e \in Entries
    BY EntryShapes DEF Status
  <2>. HIDE DEF e
  <2>3. Len(recording') = Len(recording) + 1 /\ Len(recording) < pos
    BY <1>0, <2>1, <2>2, AppendAt DEF ReplayInv
  <2>4. Len(recording') < pos'
    BY <1>0, <2>1, <2>3
  <2>. QED
    BY <2>1, <2>4 DEF ReplayInv
<1>11. CASE Interrupt
  BY <1>11 DEF Interrupt, ReplayInv
<1>12. CASE UNCHANGED vars
  BY <1>12, <1>a DEF vars
<1>. QED
  BY <1>1, <1>2, <1>3, <1>4, <1>5, <1>6, <1>7, <1>8, <1>9, <1>10, <1>11, <1>12
     DEF Next, Loop, Drain

\* A recording that replay mode accepts replays every cell as the live run has
\* counted it, for every notebook, wherever k_code and status of the reply agree:
\* the runs whose recording would miscount (a cell skipped by the run deadline or
\* not shipped after the connection was lost) leave one that is too short, which
\* replay mode refuses.
THEOREM RecordingReplays == Spec => []ReplayAgrees
<1>1. Init => ReplayInv
  BY ExecutorAssumption DEF Init, ReplayInv
<1>2. TypeOK /\ CountInv /\ ReplayInv => ReplayAgrees
  <2>. SUFFICES ASSUME TypeOK, CountInv, ReplayInv, phase = "done", Replayable, raised = {},
                       NEW i \in DOMAIN Ordered,
                       recording[i].kcode <=> recording[i].status = "error"
                PROVE  replaysOk(i) <=> Succeeded(Ordered[i])
    BY DEF ReplayAgrees
  <2>1. pos = Len(Ordered) + 1 /\ Len(recording) = Len(Ordered) /\ Len(Ordered) \in Nat
    BY ExecutorAssumption DEF CountInv, Replayable
  <2>2. Len(recording) = pos - 1 /\ i \in 1 .. pos - 1
    BY <2>1, ExecutorAssumption
  <2>3. /\ recording[i].kcode <=> NotIn(Ordered[i], succeeded)
        /\ recording[i].status \in Status
    BY <2>2 DEF ReplayInv
  <2>4. recording[i].status = "ok" <=> ~(recording[i].status = "error")
    BY <2>3 DEF Status
  <2>. QED
    BY <2>3, <2>4 DEF replaysOk, Succeeded, NotIn
<1>. QED
  BY <1>1, <1>2, InitCount, StepCount, StepReplay, TypeCorrect, PTL DEF Spec
-----------------------------------------------------------------------------
(* RefusedNeverSucceeds.                                                   *)

Envelopes == Replies \cup Snapshots

\* The cells that were shipped remain so: the loop does not go back.
LEMMA ReachedOn ==
  ASSUME TypeOK, NEW c \in Cells, Reached(c), pos' \in Nat,
         pos' > pos \/ (pos' = pos /\ (phase \in {"drain", "interrupted"}
                                         => phase' \in {"drain", "interrupted"}))
  PROVE  Reached(c)'
<1>1. PICK i \in DOMAIN Ordered :
        Ordered[i] = c /\ (i < pos \/ (i = pos /\ phase \in {"drain", "interrupted"}))
  BY DEF Reached
<1>2. i \in Nat /\ pos \in Nat
  BY ExecutorAssumption DEF TypeOK
<1>3. i < pos' \/ (i = pos' /\ phase' \in {"drain", "interrupted"})
  BY <1>1, <1>2
<1>. QED
  BY <1>1, <1>3 DEF Reached

\* Nothing of the kernel's is disturbed by a step of the loop that leaves the
\* unread frames alone and does not start a drain.
LEMMA VerdictStays ==
  ASSUME TypeOK, VerdictInv, UNCHANGED <<kind, verdict, inbox>>, pos' \in Nat,
         pos' > pos \/ (pos' = pos /\ (phase \in {"drain", "interrupted"}
                                         => phase' \in {"drain", "interrupted"})),
         phase' = "drain" => phase = "drain" /\ pos' = pos
  PROVE  VerdictInv'
<1>1. \A c \in Cells : verdict'[c] # "idle" => kind'[c] = "agent" /\ Reached(c)'
  BY ReachedOn DEF VerdictInv
<1>2. phase' = "drain" /\ verdict'[cid'] = "kcode" =>
        \E i \in DOMAIN inbox' : inbox'[i].kind = "kcode" /\ inbox'[i].cell = cid'
  BY DEF VerdictInv, cid
<1>. QED
  BY <1>1, <1>2 DEF VerdictInv

\* Taking the first frame away leaves the others.
LEMMA TailAt ==
  ASSUME NEW S, NEW s \in Seq(S), s # <<>>
  PROVE  /\ Tail(s) \in Seq(S) /\ Head(s) \in S /\ Head(s) = s[1] /\ 1 \in DOMAIN s
         /\ \A i \in DOMAIN Tail(s) : i + 1 \in DOMAIN s /\ Tail(s)[i] = s[i + 1]
         /\ \A i \in DOMAIN s : i # 1 => i - 1 \in DOMAIN Tail(s) /\ Tail(s)[i - 1] = s[i]
OBVIOUS

\* The same when a frame is read that does not answer the cell of the drain.
LEMMA VerdictRead ==
  ASSUME TypeOK, VerdictInv, UNCHANGED <<kind, verdict>>, pos' \in Nat,
         inbox # <<>>, inbox' = Tail(inbox),
         pos' > pos \/ (pos' = pos /\ (phase \in {"drain", "interrupted"}
                                         => phase' \in {"drain", "interrupted"})),
         phase' = "drain" => phase = "drain" /\ pos' = pos /\ ~answers(Head(inbox))
  PROVE  VerdictInv'
<1>0. inbox \in Seq(Envelopes)
  BY DEF TypeOK, Envelopes
<1>1. /\ Head(inbox) = inbox[1] /\ 1 \in DOMAIN inbox
      /\ \A i \in DOMAIN inbox' : i + 1 \in DOMAIN inbox /\ inbox'[i] = inbox[i + 1]
      /\ \A i \in DOMAIN inbox : i # 1 => i - 1 \in DOMAIN inbox' /\ inbox'[i - 1] = inbox[i]
  BY <1>0, TailAt
<1>2. \A c \in Cells : verdict'[c] # "idle" => kind'[c] = "agent" /\ Reached(c)'
  BY ReachedOn DEF VerdictInv
<1>3. ASSUME phase' = "drain", verdict'[cid'] = "kcode"
      PROVE  \E i \in DOMAIN inbox' : inbox'[i].kind = "kcode" /\ inbox'[i].cell = cid'
  <2>1. cid' = cid /\ phase = "drain" /\ verdict[cid] = "kcode" /\ ~answers(inbox[1])
    BY <1>1, <1>3 DEF cid
  <2>2. PICK i \in DOMAIN inbox : inbox[i].kind = "kcode" /\ inbox[i].cell = cid
    BY <2>1 DEF VerdictInv
  <2>3. i # 1
    BY <2>1, <2>2 DEF answers
  <2>. QED
    BY <1>1, <2>1, <2>2, <2>3
<1>4. \A i \in DOMAIN inbox' :
        inbox'[i].kind # "snapshot" => verdict'[inbox'[i].cell] \in {inbox'[i].kind, "lost"}
  BY <1>1 DEF VerdictInv
<1>. QED
  BY <1>2, <1>3, <1>4 DEF VerdictInv

\* Every step keeps the kernel's answer about the cell of the drain in sight.
LEMMA StepVerdict == TypeOK /\ VerdictInv /\ [Next]_vars => VerdictInv'
<1>. SUFFICES ASSUME TypeOK, VerdictInv, [Next]_vars PROVE VerdictInv'
  OBVIOUS
<1>0. /\ pos \in 1 .. Len(Ordered) + 1 /\ pos \in Nat /\ Len(Ordered) \in Nat
      /\ inbox \in Seq(Envelopes) /\ pos + 1 \in Nat /\ Len(Ordered) + 1 \in Nat
  BY ExecutorAssumption DEF TypeOK, Envelopes
<1>1. ASSUME NEW c \in Cells, NEW answer \in {"ok", "kcode"}, NEW status \in Status,
             KernelAnswers(c, answer, status)
      PROVE  VerdictInv'
  <2>. DEFINE e == [kind |-> answer, cell |-> c, status |-> status]
  <2>1. /\ verdict[c] = "asked" /\ verdict' = [verdict EXCEPT ![c] = answer]
        /\ inbox' = Append(inbox, e) /\ UNCHANGED <<kind, phase, pos>>
    BY <1>1 DEF KernelAnswers
  <2>2. e \in Envelopes /\ e.kind = answer /\ e.cell = c
    BY DEF Envelopes, Replies
  <2>. HIDE DEF e
  <2>3. /\ Len(inbox) \in Nat /\ DOMAIN inbox = 1 .. Len(inbox)
        /\ DOMAIN inbox' = 1 .. Len(inbox) + 1
        /\ \A i \in 1 .. Len(inbox) : inbox'[i] = inbox[i]
        /\ inbox'[Len(inbox) + 1] = e
    BY <1>0, <2>1, <2>2, AppendAt
  <2>4. /\ \A d \in Cells : d # c => verdict'[d] = verdict[d]
        /\ verdict'[c] = answer /\ verdict \in [Cells -> {"idle", "asked", "ok", "kcode", "lost"}]
    BY <2>1 DEF TypeOK
  <2>5. ASSUME NEW i \in DOMAIN inbox', inbox'[i].kind # "snapshot"
        PROVE  verdict'[inbox'[i].cell] \in {inbox'[i].kind, "lost"}
    <3>1. CASE i \in 1 .. Len(inbox)
      <4>1. /\ inbox'[i] = inbox[i] /\ inbox[i] \in Replies
            /\ verdict[inbox[i].cell] \in {inbox[i].kind, "lost"}
        BY <1>0, <2>3, <2>5, <3>1 DEF VerdictInv, Envelopes, Snapshots
      <4>2. inbox[i].cell \in Cells /\ inbox[i].kind # "asked"
        BY <4>1 DEF Replies
      <4>. QED
        BY <2>1, <2>4, <4>1, <4>2
    <3>2. CASE i = Len(inbox) + 1
      BY <2>2, <2>3, <2>4, <3>2
    <3>. QED
      BY <2>3, <3>1, <3>2
  <2>6. ASSUME phase' = "drain", verdict'[cid'] = "kcode"
        PROVE  \E i \in DOMAIN inbox' : inbox'[i].kind = "kcode" /\ inbox'[i].cell = cid'
    <3>1. phase = "drain" /\ cid' = cid /\ cid \in Cells
      BY <1>0, <2>1, <2>6, AtPos DEF cid, TypeOK
    <3>2. CASE cid = c
      <4>1. e.kind = "kcode" /\ e.cell = cid'
        BY <2>2, <2>4, <2>6, <3>1, <3>2
      <4>2. Len(inbox) + 1 \in DOMAIN inbox'
        BY <2>3
      <4>. QED
        BY <2>3, <4>1, <4>2
    <3>3. CASE cid # c
      <4>1. verdict[cid] = "kcode"
        BY <2>4, <2>6, <3>1, <3>3
      <4>2. PICK i \in DOMAIN inbox : inbox[i].kind = "kcode" /\ inbox[i].cell = cid
        BY <3>1, <4>1 DEF VerdictInv
      <4>3. i \in DOMAIN inbox' /\ inbox'[i] = inbox[i]
        BY <2>3
      <4>. QED
        BY <3>1, <4>2, <4>3
    <3>. QED
      BY <3>2, <3>3
  <2>7. ASSUME NEW d \in Cells, verdict'[d] # "idle"
        PROVE  kind'[d] = "agent" /\ Reached(d)'
    <3>1. verdict[d] # "idle"
      BY <2>1, <2>4, <2>7
    <3>2. kind[d] = "agent" /\ Reached(d)
      BY <3>1 DEF VerdictInv
    <3>. QED
      BY <1>0, <2>1, <3>2, ReachedOn
  <2>. QED
    BY <2>5, <2>6, <2>7 DEF VerdictInv
<1>2. CASE KernelSnapshots
  <2>. DEFINE e == [kind |-> "snapshot"]
  <2>1. inbox' = Append(inbox, e) /\ UNCHANGED <<kind, phase, pos, verdict>>
    BY <1>2 DEF KernelSnapshots
  <2>2. e \in Envelopes /\ e.kind = "snapshot"
    BY DEF Envelopes, Snapshots
  <2>. HIDE DEF e
  <2>3. /\ Len(inbox) \in Nat /\ DOMAIN inbox = 1 .. Len(inbox)
        /\ DOMAIN inbox' = 1 .. Len(inbox) + 1
        /\ \A i \in 1 .. Len(inbox) : inbox'[i] = inbox[i]
        /\ inbox'[Len(inbox) + 1] = e
    BY <1>0, <2>1, <2>2, AppendAt
  <2>4. \A i \in DOMAIN inbox' : i \in DOMAIN inbox \/ inbox'[i] = e
    BY <2>3
  <2>5. \A i \in DOMAIN inbox' :
          inbox'[i].kind # "snapshot" => verdict'[inbox'[i].cell] \in {inbox'[i].kind, "lost"}
    BY <2>1, <2>2, <2>3, <2>4 DEF VerdictInv
  <2>6. phase' = "drain" /\ verdict'[cid'] = "kcode" =>
          \E i \in DOMAIN inbox' : inbox'[i].kind = "kcode" /\ inbox'[i].cell = cid'
    <3>1. DOMAIN inbox \in SUBSET DOMAIN inbox' /\ \A i \in DOMAIN inbox : inbox'[i] = inbox[i]
      BY <2>3
    <3>. QED
      BY <2>1, <3>1 DEF VerdictInv, cid
  <2>7. \A c \in Cells : verdict'[c] # "idle" => kind'[c] = "agent" /\ Reached(c)'
    BY <1>0, <2>1, ReachedOn DEF VerdictInv
  <2>. QED
    BY <2>5, <2>6, <2>7 DEF VerdictInv
<1>a. CASE ConnectionLost
  <2>1. PICK n \in 0 .. Len(inbox) :
          /\ inbox' = SubSeq(inbox, 1, n)
          /\ verdict' = [c \in Cells |-> IF lostFrom(c, n) THEN "lost" ELSE verdict[c]]
    BY <1>a DEF ConnectionLost
  <2>2. UNCHANGED <<kind, phase, pos>>
    BY <1>a DEF ConnectionLost
  <2>3. /\ DOMAIN inbox = 1 .. Len(inbox) /\ Len(inbox) \in Nat /\ n \in Nat
        /\ DOMAIN inbox' = 1 .. n
        /\ \A i \in 1 .. n : i \in DOMAIN inbox /\ inbox'[i] = inbox[i]
    BY <1>0, <2>1, PrefixAt
  <2>4. ASSUME NEW c \in Cells PROVE verdict'[c] = IF lostFrom(c, n) THEN "lost" ELSE verdict[c]
    BY <2>1
  <2>5. ASSUME NEW i \in DOMAIN inbox', inbox'[i].kind # "snapshot"
        PROVE  verdict'[inbox'[i].cell] \in {inbox'[i].kind, "lost"}
    <3>1. /\ inbox'[i] = inbox[i] /\ i \in DOMAIN inbox /\ inbox[i] \in Replies
          /\ verdict[inbox[i].cell] \in {inbox[i].kind, "lost"} /\ i \in 1 .. n
      BY <1>0, <2>3, <2>5 DEF VerdictInv, Envelopes, Snapshots
    <3>2. inbox[i].cell \in Cells
      BY <3>1 DEF Replies
    <3>. QED
      BY <2>4, <3>1, <3>2
  <2>6. ASSUME phase' = "drain", verdict'[cid'] = "kcode"
        PROVE  \E i \in DOMAIN inbox' : inbox'[i].kind = "kcode" /\ inbox'[i].cell = cid'
    <3>1. phase = "drain" /\ cid' = cid /\ cid \in Cells
      BY <1>0, <2>2, <2>6, AtPos DEF cid, TypeOK
    <3>2. ~lostFrom(cid, n) /\ verdict[cid] = "kcode"
      BY <2>4, <2>6, <3>1
    <3>3. PICK i \in DOMAIN inbox : inbox[i].kind = "kcode" /\ inbox[i].cell = cid
      BY <3>1, <3>2 DEF VerdictInv
    <3>4. ~(i > n)
      BY <3>2, <3>3 DEF lostFrom
    <3>5. i \in 1 .. n
      BY <2>3, <3>4
    <3>. QED
      BY <2>3, <3>1, <3>3, <3>5
  <2>7. ASSUME NEW d \in Cells, verdict'[d] # "idle"
        PROVE  kind'[d] = "agent" /\ Reached(d)'
    <3>1. CASE lostFrom(d, n)
      <4>1. PICK i \in DOMAIN inbox : inbox[i].kind # "snapshot" /\ inbox[i].cell = d
        BY <3>1 DEF lostFrom
      <4>2. inbox[i] \in Replies /\ verdict[d] \in {inbox[i].kind, "lost"}
        BY <1>0, <4>1 DEF VerdictInv, Envelopes, Snapshots
      <4>3. verdict[d] # "idle"
        BY <4>2 DEF Replies
      <4>. QED
        BY <1>0, <2>2, <4>3, ReachedOn DEF VerdictInv
    <3>2. CASE ~lostFrom(d, n)
      <4>1. verdict[d] # "idle"
        BY <2>4, <2>7, <3>2
      <4>. QED
        BY <1>0, <2>2, <4>1, ReachedOn DEF VerdictInv
    <3>. QED
      BY <3>1, <3>2
  <2>. QED
    BY <2>5, <2>6, <2>7 DEF VerdictInv
<1>3. CASE RunDeadlinePasses
  BY <1>0, <1>3, VerdictStays DEF RunDeadlinePasses
<1>4. CASE Start \/ LoopEnds \/ TailEnds
  BY <1>0, <1>4, VerdictStays DEF Start, Hydrate, HydrateFails, LoopEnds, TailEnds
<1>5. CASE CellOverdue \/ CellMissing \/ CellNoop \/ CellSendFails
  <2>1. /\ UNCHANGED <<kind, verdict, inbox, phase>> /\ phase = "cells"
        /\ pos' \in Nat /\ pos' > pos
    BY <1>0, <1>5 DEF CellOverdue, CellMissing, CellNoop, CellSendFails, AtCell
  <2>. QED
    BY <2>1, VerdictStays
<1>6. CASE CellShipped
  <2>1. /\ phase = "cells" /\ pos <= Len(Ordered) /\ kind[cid] = "agent" /\ phase' = "drain"
        /\ verdict' = [verdict EXCEPT ![cid] = "asked"] /\ UNCHANGED <<kind, pos, inbox>>
    BY <1>6 DEF CellShipped, AtCell
  <2>2. pos \in DOMAIN Ordered /\ cid \in Cells /\ cid' = cid
    BY <1>0, <2>1, AtPos DEF cid
  <2>3. ~Reached(cid)
    BY <1>0, <2>1, <2>2, ExecutorAssumption DEF Reached, cid
  <2>4. verdict[cid] = "idle"
    BY <2>2, <2>3 DEF VerdictInv
  <2>5. /\ \A d \in Cells : d # cid => verdict'[d] = verdict[d]
        /\ verdict'[cid] = "asked"
    BY <2>1, <2>2 DEF TypeOK
  <2>6. ASSUME NEW i \in DOMAIN inbox', inbox'[i].kind # "snapshot"
        PROVE  verdict'[inbox'[i].cell] \in {inbox'[i].kind, "lost"}
    <3>1. /\ inbox'[i] = inbox[i] /\ inbox[i] \in Replies
          /\ verdict[inbox[i].cell] \in {inbox[i].kind, "lost"}
      BY <1>0, <2>1, <2>6 DEF VerdictInv, Envelopes, Snapshots
    <3>2. inbox[i].cell \in Cells /\ inbox[i].kind # "idle"
      BY <3>1 DEF Replies
    <3>. QED
      BY <2>4, <2>5, <3>1, <3>2
  <2>7. ASSUME NEW d \in Cells, verdict'[d] # "idle"
        PROVE  kind'[d] = "agent" /\ Reached(d)'
    <3>1. CASE d = cid
      BY <2>1, <2>2, <3>1 DEF Reached, cid
    <3>2. CASE d # cid
      BY <1>0, <2>1, <2>5, <2>7, <3>2, ReachedOn DEF VerdictInv
    <3>. QED
      BY <3>1, <3>2
  <2>. QED
    BY <2>2, <2>5, <2>6, <2>7 DEF VerdictInv
<1>7. CASE RecvOther \/ TailRecv
  BY <1>0, <1>7, VerdictRead DEF RecvOther, TailRecv
<1>8. CASE RecvAnswer
  <2>1. /\ UNCHANGED <<kind, verdict>> /\ inbox # <<>> /\ inbox' = Tail(inbox)
        /\ pos' = pos + 1 /\ phase' = "cells"
    BY <1>8 DEF RecvAnswer, decide
  <2>2. pos' \in Nat /\ pos' > pos
    BY <1>0, <2>1
  <2>. QED
    BY <2>1, <2>2, VerdictRead
<1>9. CASE RecvEmpty \/ Interrupt
  BY <1>0, <1>9, VerdictStays DEF RecvEmpty, Interrupt
<1>10. CASE Quiesces \/ RecvRaises \/ CellTimeout
  <2>1. /\ UNCHANGED <<kind, verdict, inbox>> /\ pos' = pos + 1 /\ phase' = "cells"
    BY <1>10 DEF Quiesces, RecvRaises, CellTimeout, decide
  <2>2. pos' \in Nat /\ pos' > pos
    BY <1>0, <2>1
  <2>. QED
    BY <2>1, <2>2, VerdictStays
<1>11. CASE UNCHANGED vars
  BY <1>0, <1>11, VerdictStays DEF vars
<1>. QED
  BY <1>1, <1>2, <1>a, <1>3, <1>4, <1>5, <1>6, <1>7, <1>8, <1>9, <1>10, <1>11
     DEF Next, Environment, Loop, Drain

\* The count of one cell is not changed by a count of another.
LEMMA TimesAppend ==
  ASSUME NEW s \in Seq(Cells), NEW c \in Cells, NEW d \in Cells, c # d
  PROVE  Times(c, Append(s, d)) = Times(c, s)
<1>1. /\ Len(s) \in Nat /\ DOMAIN s = 1 .. Len(s)
      /\ DOMAIN Append(s, d) = 1 .. Len(s) + 1
      /\ \A i \in 1 .. Len(s) : Append(s, d)[i] = s[i]
      /\ Append(s, d)[Len(s) + 1] = d
  BY AppendAt
<1>2. {i \in DOMAIN Append(s, d) : Append(s, d)[i] = c} = {i \in DOMAIN s : s[i] = c}
  BY <1>1
<1>. QED
  BY <1>2 DEF Times

LEMMA TimesType ==
  ASSUME NEW s \in Seq(Cells), NEW c
  PROVE  Times(c, s) \in Nat
<1>1. {i \in DOMAIN s : s[i] = c} \in SUBSET (1 .. Len(s)) /\ IsFiniteSet(1 .. Len(s))
  BY FS_Interval
<1>2. IsFiniteSet({i \in DOMAIN s : s[i] = c})
  BY <1>1, FS_Subset
<1>. QED
  BY <1>2, FS_CardinalityType DEF Times

\* A cell whose refusal has arrived, and is not lost with the connection, is never
\* counted as succeeded afterwards, for every notebook and every number of unread
\* frames: an answer that arrives late is taken for no other cell's, and the
\* silence after a refusal is not mistaken for success, the refusal being read
\* first.
THEOREM RefusalsStand == Spec => RefusedNeverSucceeds
<1>1. Init => VerdictInv
  BY DEF Init, VerdictInv
<1>2. TypeOK /\ VerdictInv /\ [Next]_vars =>
        [\A c \in Cells :
           c \notin raised' /\ Times(c, succeeded') > Times(c, succeeded)
             => verdict[c] # "kcode"]_vars
  <2>. SUFFICES ASSUME TypeOK, VerdictInv, [Next]_vars, NEW c \in Cells,
                       c \notin raised', Times(c, succeeded') > Times(c, succeeded),
                       verdict[c] = "kcode"
                PROVE  FALSE
    OBVIOUS
  <2>0. /\ succeeded \in Seq(Cells) /\ pos \in 1 .. Len(Ordered) + 1
        /\ inbox \in Seq(Envelopes) /\ Times(c, succeeded) \in Nat
    BY TimesType DEF TypeOK, Envelopes
  <2>1. succeeded' # succeeded
    BY <2>0
  <2>2. ASSUME succeeded' = Append(succeeded, cid), pos <= Len(Ordered) PROVE c = cid
    <3>1. cid \in Cells
      BY <2>0, <2>2, AtPos
    <3>2. c # cid => Times(c, succeeded') = Times(c, succeeded)
      BY <2>0, <2>2, <3>1, TimesAppend
    <3>. QED
      BY <2>0, <3>2
  <2>3. CASE CellNoop
    <3>1. c = cid /\ kind[cid] = "noop"
      BY <2>2, <2>3 DEF CellNoop, AtCell
    <3>. QED
      BY <3>1 DEF VerdictInv
  <2>4. CASE RecvAnswer
    <3>1. /\ inbox # <<>> /\ answers(Head(inbox)) /\ Head(inbox).kind = "ok"
          /\ succeeded' = Append(succeeded, cid) /\ phase = "drain"
      BY <2>1, <2>4 DEF RecvAnswer
    <3>2. c = cid
      BY <2>2, <3>1 DEF TypeOK
    <3>3. Head(inbox) = inbox[1] /\ 1 \in DOMAIN inbox
      BY <2>0, <3>1, TailAt
    <3>. QED
      BY <3>1, <3>2, <3>3 DEF VerdictInv, answers
  <2>5. CASE Quiesces
    <3>1. c = cid /\ phase = "drain" /\ inbox = <<>>
      BY <2>2, <2>5 DEF Quiesces, TypeOK
    <3>. QED
      BY <3>1 DEF VerdictInv
  <2>6. CASE RecvRaises
    <3>1. c = cid /\ raised' = raised \cup {cid}
      BY <2>2, <2>6 DEF RecvRaises, TypeOK
    <3>. QED
      BY <3>1
  <2>7. CASE Environment \/ Start \/ TailEnds
    BY <2>1, <2>7 DEF Environment, KernelSnapshots, ConnectionLost, RunDeadlinePasses,
                      KernelAnswers, Start, Hydrate, HydrateFails, TailEnds
  <2>8. CASE CellOverdue \/ CellMissing \/ CellShipped \/ CellSendFails \/ LoopEnds
    BY <2>1, <2>8 DEF CellOverdue, CellMissing, CellShipped, CellSendFails, LoopEnds
  <2>9. CASE RecvOther \/ RecvEmpty \/ CellTimeout \/ Interrupt \/ TailRecv
    BY <2>1, <2>9 DEF RecvOther, RecvEmpty, CellTimeout, Interrupt, TailRecv
  <2>10. CASE UNCHANGED vars
    BY <2>1, <2>10 DEF vars
  <2>. QED
    BY <2>3, <2>4, <2>5, <2>6, <2>7, <2>8, <2>9, <2>10 DEF Next, Loop, Drain
<1>. QED
  BY <1>1, <1>2, StepVerdict, TypeCorrect, PTL DEF Spec, RefusedNeverSucceeds
=============================================================================
