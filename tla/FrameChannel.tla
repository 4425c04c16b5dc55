---------------------------- MODULE FrameChannel ----------------------------
(***************************************************************************)
(* What the data plane promises for the frames that the extension submits  *)
(* to the kernel: while it has not failed the kernel reads each of them,   *)
(* in order; it fails once and for good, and from then on frames may be    *)
(* missing, but none is read late, twice or again.                         *)
(***************************************************************************)
EXTENDS Integers, Sequences

VARIABLES
  submitted,  \* the number of frames submitted; frame i is the i-th
  received,   \* the frames that were read
  failed      \* the data plane has gone down

vars == <<submitted, received, failed>>

\* The frame that was read last, 0 before the first.
LastRead == IF received = <<>> THEN 0 ELSE received[Len(received)]

Init == submitted = 0 /\ received = <<>> /\ failed = FALSE

Submit ==
  /\ submitted' = submitted + 1
  /\ UNCHANGED <<received, failed>>

Read(n) ==
  /\ n \in LastRead + 1 .. submitted
  /\ ~failed => n = LastRead + 1
  /\ received' = Append(received, n)
  /\ UNCHANGED <<submitted, failed>>

Fail ==
  /\ ~failed /\ failed' = TRUE
  /\ UNCHANGED <<submitted, received>>

Next == Submit \/ (\E n \in 1 .. submitted : Read(n)) \/ Fail

Spec == Init /\ [][Next]_vars
=============================================================================
