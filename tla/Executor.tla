------------------------------ MODULE Executor ------------------------------
(***************************************************************************)
(* The headless executor's live mode, _run_live_mode of                    *)
(* llm_client/executor.py, over the TCP transport it boots                 *)
(* (llm_client/transport/tcp.py), with the recording it writes and what    *)
(* _run_replay_mode makes of that recording.                               *)
(*                                                                         *)
(* Cells are shipped one at a time; each is drained until it is answered,  *)
(* silent for the quiescence window, or out of time.  The kernel is        *)
(* external: it may answer a shipped cell at any time, too late included,  *)
(* stream snapshots without end, or go away.  Durations are abstracted: a  *)
(* deadline may pass whenever the code compares the clock with it.         *)
(*                                                                         *)
(* SendFailsHere, ShipForgets, MatchAnyCell, TailUntilSilent and           *)
(* TimeoutAsOk are faulty variants of the definition that follows each; no *)
(* action uses them.                                                       *)
(***************************************************************************)
EXTENDS Naturals, Sequences, FiniteSets

CONSTANTS
  Cells,    \* cell ids
  Ordered,  \* the notebook's cells in layout order
  MayRaise, \* whether recv may raise: not the TCP one, but one that is passed in
  MaxInbox  \* bound on the frames waiting to be read

ASSUME ExecutorAssumption ==
  /\ Ordered \in Seq(Cells)
  /\ \A i, j \in DOMAIN Ordered : Ordered[i] = Ordered[j] => i = j
  /\ MayRaise \in BOOLEAN /\ MaxInbox \in Nat

\* What a cell's record asks for: an envelope, nothing, or it is no record.
Kinds == {"agent", "noop", "missing"}

\* Envelopes from the kernel: an answer correlated with the cell's request (or
\* a K-class one naming the cell), or a snapshot.  Whether the payload has a
\* k_code and what its status is are two fields, and nothing ties them together
\* in what the kernel sends; a payload without a status counts as "ok".
Status == {"ok", "error"}
Replies == [kind : {"ok", "kcode"}, cell : Cells, status : Status]
Snapshots == [kind : {"snapshot"}]

VARIABLES
  kind,      \* the kind of each cell of the notebook
  phase,     \* where _run_live_mode stands
  pos,       \* the current cell's place in Ordered
  conn,      \* the connection, as the network has it
  inbox,     \* frames that have arrived
  verdict,   \* what has come back about each cell
  quiet,     \* quiescence_start is set
  overdue,   \* the clock has passed run_deadline
  working,   \* working_rts: the notebook's own, or a snapshot's
  succeeded, failed,
  recording, \* sent_received
  raised     \* history: cells whose recv raised

vars == <<kind, phase, pos, conn, inbox, verdict, quiet, overdue, working, succeeded,
          failed, recording, raised>>

\* An entry of the recording: whether it has a sent envelope, and the k_code and
\* the status of the received one.
Entries == [sent : BOOLEAN, kcode : BOOLEAN, status : Status \cup {"none"}]

TypeOK ==
  /\ kind \in [Cells -> Kinds]
  /\ phase \in {"hydrate", "cells", "drain", "tail", "done", "interrupted", "nokernel"}
  /\ pos \in 1 .. Len(Ordered) + 1
  /\ phase = "drain" => pos <= Len(Ordered) /\ kind[Ordered[pos]] = "agent"
  /\ conn \in {"up", "lost"}
  /\ inbox \in Seq(Replies \cup Snapshots) /\ Len(inbox) <= MaxInbox
  /\ verdict \in [Cells -> {"idle", "asked", "ok", "kcode", "lost"}]
  /\ quiet \in BOOLEAN /\ overdue \in BOOLEAN
  /\ working \in {"loaded", "snapshot"}
  /\ succeeded \in Seq(Cells) /\ failed \in Seq(Cells)
  /\ recording \in Seq(Entries)
  /\ raised \in SUBSET Cells

Init ==
  /\ kind \in [Cells -> Kinds]
  /\ phase = "hydrate" /\ pos = 1
  /\ conn = "up" /\ inbox = <<>> /\ verdict = [c \in Cells |-> "idle"]
  /\ quiet = FALSE /\ overdue = FALSE /\ working = "loaded"
  /\ succeeded = <<>> /\ failed = <<>> /\ recording = <<>> /\ raised = {}

cid == Ordered[pos]

-----------------------------------------------------------------------------
(* The kernel, the network and the clock.                                  *)

\* An answer arrives; one that the network drops has not been given.
KernelAnswers(c, answer, status) ==
  /\ conn = "up" /\ verdict[c] = "asked" /\ Len(inbox) < MaxInbox
  /\ verdict' = [verdict EXCEPT ![c] = answer]
  /\ inbox' = Append(inbox, [kind |-> answer, cell |-> c, status |-> status])
  /\ UNCHANGED <<kind, phase, pos, conn, quiet, overdue, working, succeeded, failed,
                 recording, raised>>

KernelSnapshots ==
  /\ conn = "up" /\ phase # "hydrate" /\ Len(inbox) < MaxInbox
  /\ inbox' = Append(inbox, [kind |-> "snapshot"])
  /\ UNCHANGED <<kind, phase, pos, conn, verdict, quiet, overdue, working, succeeded,
                 failed, recording, raised>>

\* The answer about c is not among the first n unread frames but after them.
lostFrom(c, n) == \E i \in DOMAIN inbox : i > n /\ inbox[i].kind # "snapshot" /\ inbox[i].cell = c

\* A reset may take frames along that have arrived and were not read.
ConnectionLost ==
  /\ conn = "up"
  /\ conn' = "lost"
  /\ \E n \in 0 .. Len(inbox) :
       /\ inbox' = SubSeq(inbox, 1, n)
       /\ verdict' = [c \in Cells |-> IF lostFrom(c, n) THEN "lost" ELSE verdict[c]]
  /\ UNCHANGED <<kind, phase, pos, quiet, overdue, working, succeeded, failed, recording,
                 raised>>

RunDeadlinePasses ==
  /\ ~overdue
  /\ overdue' = TRUE
  /\ UNCHANGED <<kind, phase, pos, conn, inbox, verdict, quiet, working, succeeded,
                 failed, recording, raised>>

-----------------------------------------------------------------------------
(* Before the drain loop.                                                  *)

\* A send on a lost connection may still be buffered.
Hydrate ==
  /\ phase = "hydrate"
  /\ phase' = "cells"
  /\ UNCHANGED <<kind, pos, conn, inbox, verdict, quiet, overdue, working, succeeded,
                 failed, recording, raised>>

\* _live_transport_lost: the only entry of failed is for the hydrate itself.  A
\* send may raise on a connection that is up too, by the timeout of the socket.
HydrateFails ==
  /\ phase = "hydrate"
  /\ phase' = "nokernel"
  /\ UNCHANGED <<kind, pos, conn, inbox, verdict, quiet, overdue, working, succeeded,
                 failed, recording, raised>>

AtCell == phase = "cells" /\ pos <= Len(Ordered)

CellOverdue ==
  /\ AtCell /\ overdue
  /\ failed' = Append(failed, cid)
  /\ pos' = pos + 1
  /\ UNCHANGED <<kind, phase, conn, inbox, verdict, quiet, overdue, working, succeeded,
                 recording, raised>>

CellMissing ==
  /\ AtCell /\ ~overdue /\ kind[cid] = "missing"
  /\ pos' = pos + 1
  /\ UNCHANGED <<kind, phase, conn, inbox, verdict, quiet, overdue, working, succeeded,
                 failed, recording, raised>>

\* _derive_cell_envelope has nothing to ship: a structural success.
CellNoop ==
  /\ AtCell /\ ~overdue /\ kind[cid] = "noop"
  /\ succeeded' = Append(succeeded, cid)
  /\ recording' = Append(recording, [sent |-> FALSE, kcode |-> FALSE, status |-> "ok"])
  /\ pos' = pos + 1
  /\ UNCHANGED <<kind, phase, conn, inbox, verdict, quiet, overdue, working, failed,
                 raised>>

ShipForgets ==
  /\ AtCell /\ ~overdue /\ kind[cid] = "agent"
  /\ phase' = "drain" /\ quiet' = FALSE
  /\ verdict' = [verdict EXCEPT ![cid] = "asked"]
  /\ pos' = pos + 1
  /\ UNCHANGED <<kind, conn, inbox, overdue, working, succeeded, failed, recording, raised>>

CellShipped ==
  /\ AtCell /\ ~overdue /\ kind[cid] = "agent"
  /\ phase' = "drain" /\ quiet' = FALSE
  /\ verdict' = [verdict EXCEPT ![cid] = "asked"]
  /\ UNCHANGED <<kind, pos, conn, inbox, overdue, working, succeeded, failed,
                 recording, raised>>

SendFailsHere ==
  /\ AtCell /\ ~overdue /\ kind[cid] = "agent"
  /\ failed' = Append(failed, cid)
  /\ recording' = Append(recording, [sent |-> TRUE, kcode |-> TRUE, status |-> "error"])
  /\ pos' = Len(Ordered) + 1
  /\ UNCHANGED <<kind, phase, conn, inbox, verdict, quiet, overdue, working, succeeded,
                 raised>>

\* send raises: this cell and all the remaining ones fail.
CellSendFails ==
  /\ AtCell /\ ~overdue /\ kind[cid] = "agent"
  /\ failed' = failed \o SubSeq(Ordered, pos, Len(Ordered))
  /\ recording' = Append(recording, [sent |-> TRUE, kcode |-> TRUE, status |-> "error"])
  /\ pos' = Len(Ordered) + 1
  /\ UNCHANGED <<kind, phase, conn, inbox, verdict, quiet, overdue, working, succeeded,
                 raised>>

LoopEnds ==
  /\ phase = "cells" /\ pos > Len(Ordered)
  /\ phase' = "tail"
  /\ UNCHANGED <<kind, pos, conn, inbox, verdict, quiet, overdue, working, succeeded,
                 failed, recording, raised>>

-----------------------------------------------------------------------------
(* The drain loop of the current cell.                                     *)

\* The end of the loop body, the cell being decided: the envelope that decided
\* it is recorded as it is, or one is made up (_synthetic_k_envelope and the
\* record of the quiescence path, whose fields do agree).
decide(kcode, status) ==
  /\ recording' = Append(recording, [sent |-> TRUE, kcode |-> kcode, status |-> status])
  /\ phase' = "cells" /\ pos' = pos + 1

MatchAnyCell(reply) == reply.kind # "snapshot"

\* Correlation by request_id, which names the cell's ordinal.
answers(reply) == reply.kind # "snapshot" /\ reply.cell = cid

read(reply) == working' = IF reply.kind = "snapshot" THEN "snapshot" ELSE working

RecvOther ==
  /\ phase = "drain" /\ inbox # <<>> /\ ~answers(Head(inbox))
  /\ inbox' = Tail(inbox)
  /\ quiet' = FALSE
  /\ read(Head(inbox))
  /\ UNCHANGED <<kind, phase, pos, conn, verdict, overdue, succeeded, failed,
                 recording, raised>>

\* The k_code decides, and the status does not count.
RecvAnswer ==
  /\ phase = "drain" /\ inbox # <<>> /\ answers(Head(inbox))
  /\ inbox' = Tail(inbox)
  /\ \/ /\ Head(inbox).kind = "ok"
        /\ succeeded' = Append(succeeded, cid) /\ UNCHANGED failed
        /\ decide(FALSE, Head(inbox).status)
     \/ /\ Head(inbox).kind = "kcode"
        /\ failed' = Append(failed, cid) /\ UNCHANGED succeeded
        /\ decide(TRUE, Head(inbox).status)
  /\ UNCHANGED <<kind, conn, verdict, quiet, overdue, working, raised>>

\* recv answers a timeout, an end of file and a socket error alike: {}.
RecvEmpty ==
  /\ phase = "drain" /\ inbox = <<>> /\ ~quiet
  /\ quiet' = TRUE
  /\ UNCHANGED <<kind, phase, pos, conn, inbox, verdict, overdue, working, succeeded,
                 failed, recording, raised>>

Quiesces ==
  /\ phase = "drain" /\ inbox = <<>> /\ quiet
  /\ succeeded' = Append(succeeded, cid)
  /\ decide(FALSE, "ok")
  /\ UNCHANGED <<kind, conn, inbox, verdict, quiet, overdue, working, failed, raised>>

\* recv raises on the lost connection: the cell is marked complete with no
\* received envelope, which the code after the loop takes for quiescence.
RecvRaises ==
  /\ MayRaise /\ phase = "drain" /\ conn = "lost"
  /\ failed' = Append(failed, cid) /\ succeeded' = Append(succeeded, cid)
  /\ raised' = raised \cup {cid}
  /\ decide(FALSE, "ok")
  /\ UNCHANGED <<kind, conn, inbox, verdict, quiet, overdue, working>>

TimeoutAsOk ==
  /\ phase = "drain"
  /\ failed' = Append(failed, cid)
  /\ decide(FALSE, "ok")
  /\ UNCHANGED <<kind, conn, inbox, verdict, quiet, overdue, working, succeeded, raised>>

CellTimeout ==
  /\ phase = "drain"
  /\ failed' = Append(failed, cid)
  /\ decide(TRUE, "error")
  /\ UNCHANGED <<kind, conn, inbox, verdict, quiet, overdue, working, succeeded, raised>>

\* KeyboardInterrupt: record, close, write the recording and raise again.
Interrupt ==
  /\ phase = "drain"
  /\ phase' = "interrupted"
  /\ recording' = Append(recording, [sent |-> TRUE, kcode |-> FALSE, status |-> "none"])
  /\ UNCHANGED <<kind, pos, conn, inbox, verdict, quiet, overdue, working, succeeded,
                 failed, raised>>

-----------------------------------------------------------------------------
(* The trailing drain, for at most one more window.                        *)

TailRecv ==
  /\ phase = "tail" /\ inbox # <<>>
  /\ inbox' = Tail(inbox)
  /\ read(Head(inbox))
  /\ UNCHANGED <<kind, phase, pos, conn, verdict, quiet, overdue, succeeded, failed,
                 recording, raised>>

TailUntilSilent ==
  /\ phase = "tail" /\ inbox = <<>>
  /\ phase' = "done"
  /\ UNCHANGED <<kind, pos, conn, inbox, verdict, quiet, overdue, working, succeeded,
                 failed, recording, raised>>

TailEnds ==
  /\ phase = "tail"
  /\ phase' = "done"
  /\ UNCHANGED <<kind, pos, conn, inbox, verdict, quiet, overdue, working, succeeded,
                 failed, recording, raised>>

-----------------------------------------------------------------------------
Environment ==
  \/ KernelSnapshots \/ ConnectionLost \/ RunDeadlinePasses
  \/ \E c \in Cells, answer \in {"ok", "kcode"}, status \in Status :
       KernelAnswers(c, answer, status)

Start == Hydrate \/ HydrateFails

Loop ==
  \/ CellOverdue \/ CellMissing \/ CellNoop \/ CellShipped \/ CellSendFails
  \/ LoopEnds

Drain ==
  \/ RecvOther \/ RecvAnswer \/ RecvEmpty \/ Quiesces \/ RecvRaises \/ CellTimeout
  \/ Interrupt \/ TailRecv

Next == Environment \/ Start \/ Loop \/ Drain \/ TailEnds

Spec == Init /\ [][Next]_vars

\* The executor is one thread that keeps running, and the two deadlines it
\* polls do pass; nothing is assumed of the frames the kernel sends.  It is
\* assumed that recv returns, that is, that the kernel does not go on sending
\* pieces of a line which never ends, or blank lines: every chunk restarts the
\* socket's timeout.
Fairness ==
  /\ WF_vars(Start) /\ WF_vars(Loop) /\ WF_vars(CellTimeout) /\ WF_vars(TailEnds)

FairSpec == Spec /\ Fairness

-----------------------------------------------------------------------------
(* Replaying the recording.                                                *)

\* _run_replay_mode refuses a recording of another length and fails on an entry
\* without a sent envelope.
Replayable ==
  Len(recording) = Len(Ordered) /\ \A i \in DOMAIN recording : recording[i].sent

\* It then decides entry by entry, in the order of the cells, and by the status.
replaysOk(i) == recording[i].status = "ok"

-----------------------------------------------------------------------------
(* Properties.                                                             *)

Decided == {Ordered[i] : i \in {j \in DOMAIN Ordered : kind[Ordered[j]] # "missing"}}

Times(c, s) == Cardinality({i \in DOMAIN s : s[i] = c})

\* A finished run accounts for every cell once, as succeeded or as failed,
\* whichever of the answers, the silence, the three deadlines and the fail-fast
\* decided it.  The cells whose recv raised are the exception.
CountedOnce ==
  phase = "done" =>
    \A c \in Decided \ raised : Times(c, succeeded \o failed) = 1

\* Correlation: a cell whose refusal has arrived is never counted as succeeded
\* afterwards, not by a late answer for an earlier cell and not by the silence
\* that follows its own, unless the refusal is lost unread with the connection.
RefusedNeverSucceeds ==
  [][\A c \in Cells :
       c \notin raised' /\ Times(c, succeeded') > Times(c, succeeded) => verdict[c] # "kcode"]_vars

Succeeded(c) == \E j \in DOMAIN succeeded : succeeded[j] = c

\* The recording of a run, written by six paths of the loop, means to replay
\* mode what the run did, cell by cell: one that is accepted at all has the cells
\* in their order, and an entry replays as a success exactly if its cell has
\* succeeded, provided the reply has an error status when, and only when, it has
\* a k_code.  Every envelope the executor makes up is such a reply.
ReplayAgrees ==
  phase = "done" /\ Replayable /\ raised = {} =>
    \A i \in DOMAIN Ordered :
      (recording[i].kcode <=> recording[i].status = "error")
        => (replaysOk(i) <=> Succeeded(Ordered[i]))

\* The run comes to an end although the kernel streams snapshots for ever
\* (every receive loop is bounded by a deadline that a frame does not extend).
RunEnds == <>(phase \in {"done", "interrupted", "nokernel"})

-----------------------------------------------------------------------------
(* What the documentation says and the code does not do.                   *)

\* PLAN-S5.0.3.1 3.D: after a connection reset the cell fails, and so do the
\* remaining ones.  A cell that was shipped succeeds only with an answer.
LostConnectionFails ==
  [][conn = "lost" /\ phase = "drain" /\ succeeded' # succeeded
       => inbox # <<>> /\ inbox' = Tail(inbox)]_vars

\* The docstring of the module: replay mode reconstructs the result of a prior
\* live run from its recording.  Already one that meets no trouble need not do.
LiveRunsReplay == phase = "done" /\ conn = "up" /\ failed = <<>> => Replayable

\* The same docstring, of the recordings that are accepted: the live run looks
\* at the k_code of a reply and the replay at its status, so a reply with one of
\* them and not the other changes sides.
ReplayReconstructs ==
  phase = "done" /\ Replayable /\ raised = {} =>
    \A i \in DOMAIN Ordered : replaysOk(i) <=> Succeeded(Ordered[i])
=============================================================================
