------------------------- MODULE KernelClientProofs -------------------------
(***************************************************************************)
(* Proofs about KernelClient: the types, the handshake, the signals and    *)
(* the order and completeness of the frames to the kernel, for every       *)
(* bound, every expected version and every set of kernel versions.  At     *)
(* the end, the watchdog that listens to the heartbeats which the client   *)
(* hands on (Heartbeat), for every timeout and every number of heartbeats  *)
(* under way.                                                              *)
(***************************************************************************)
EXTENDS KernelClient, Heartbeat, TLAPS

\* While the bind is in flight nothing else of the client exists yet.
BindingInv ==
  server = "binding" =>
    /\ ready = "pending" /\ ~readyTimer /\ proc = "none" /\ socket = "none"

\* The ready timer runs only while the promise is pending and a kernel spawned.
TimerInv ==
  /\ readyTimer => ready = "pending"
  /\ ready = "idle" => server = "none" /\ proc = "none" /\ socket = "none"

\* A kernel.ready on its way to the client was emitted by the kernel.
ReadyInFlight == \A i \in 1..Len(inbound) : inbound[i] = "ready" => saidReady

\* The escalation of shutdown(): a kernel that survives the first grace window
\* has been sent SIGTERM.
EscalationInv ==
  /\ shut # "idle" => disposed
  /\ shut = "waitExit" => proc # "none"
  /\ shut = "waitExit" /\ stage = "termed" /\ proc = "running" => "TERM" \in signals

ControlInv ==
  /\ BindingInv
  /\ TimerInv
  /\ EscalationInv
  /\ HandshakeHonoured
  /\ SignalsHaveCause

IndInv == TypeOK /\ ReadyInFlight /\ ControlInv

-----------------------------------------------------------------------------
\* compareVersions classifies every pair of versions (its type).
LEMMA CompareVersionsType ==
  ASSUME NEW e \in Nat \X Nat \X Nat, NEW o \in Nat \X Nat \X Nat
  PROVE  compareVersions(e, o) \in Severities
BY DEF compareVersions, Severities

\* The initial states are well typed.
LEMMA InitTypeOK == Init => TypeOK
<1>1. Init => ClientTypes
  BY DEF Init, ClientTypes
<1>2. Init => KernelTypes
  BY DEF Init, KernelTypes
<1>3. Init => QueueTypes
  BY DEF Init, QueueTypes, Severities
<1>. QED
  BY <1>1, <1>2, <1>3 DEF TypeOK

\* No step of the client or of the kernel leaves the types.
LEMMA StepTypeOK == TypeOK /\ [Next]_vars => TypeOK'
<1>. SUFFICES ASSUME TypeOK, [Next]_vars PROVE TypeOK'
  OBVIOUS
<1>1. CASE Start
  <2>1. ClientTypes'
    BY <1>1 DEF TypeOK, ClientTypes, Start, outVars, shutVars, procVars, kernelVars
  <2>2. KernelTypes'
    BY <1>1 DEF TypeOK, KernelTypes, Start, outVars, shutVars, procVars, kernelVars
  <2>3. QueueTypes'
    BY <1>1 DEF TypeOK, QueueTypes, Start, outVars, shutVars, procVars, kernelVars
  <2>. QED
    BY <2>1, <2>2, <2>3 DEF TypeOK
<1>2. CASE ListenThenSpawn
  <2>1. ClientTypes'
    BY <1>2 DEF TypeOK, ClientTypes, ListenThenSpawn, outVars, shutVars, kernelVars
  <2>2. KernelTypes'
    BY <1>2 DEF TypeOK, KernelTypes, ListenThenSpawn, outVars, shutVars, kernelVars
  <2>3. QueueTypes'
    BY <1>2 DEF TypeOK, QueueTypes, ListenThenSpawn, outVars, shutVars, kernelVars
  <2>. QED
    BY <2>1, <2>2, <2>3 DEF TypeOK
<1>3. CASE ListenThenSpawnFails
  <2>1. ClientTypes'
    BY <1>3 DEF TypeOK, ClientTypes, ListenThenSpawnFails, failReady, outVars,
       shutVars, procVars, kernelVars
  <2>2. KernelTypes'
    BY <1>3 DEF TypeOK, KernelTypes, ListenThenSpawnFails, failReady, outVars,
       shutVars, procVars, kernelVars
  <2>3. QueueTypes'
    BY <1>3 DEF TypeOK, QueueTypes, ListenThenSpawnFails, failReady, outVars,
       shutVars, procVars, kernelVars
  <2>. QED
    BY <2>1, <2>2, <2>3 DEF TypeOK
<1>4. CASE ListenFails
  <2>1. ClientTypes'
    BY <1>4 DEF TypeOK, ClientTypes, ListenFails, failReady, outVars, shutVars,
       procVars, kernelVars
  <2>2. KernelTypes'
    BY <1>4 DEF TypeOK, KernelTypes, ListenFails, failReady, outVars, shutVars,
       procVars, kernelVars
  <2>3. QueueTypes'
    BY <1>4 DEF TypeOK, QueueTypes, ListenFails, failReady, outVars, shutVars,
       procVars, kernelVars
  <2>. QED
    BY <2>1, <2>2, <2>3 DEF TypeOK
<1>5. CASE ReadyTimeout
  <2>1. ClientTypes'
    BY <1>5 DEF TypeOK, ClientTypes, ReadyTimeout, failReady, kill, serverVars,
       outVars, shutVars, kernelVars
  <2>2. KernelTypes'
    BY <1>5 DEF TypeOK, KernelTypes, ReadyTimeout, failReady, kill, serverVars,
       outVars, shutVars, kernelVars
  <2>3. QueueTypes'
    BY <1>5 DEF TypeOK, QueueTypes, ReadyTimeout, failReady, kill, serverVars,
       outVars, shutVars, kernelVars
  <2>. QED
    BY <2>1, <2>2, <2>3 DEF TypeOK
<1>6. CASE SendEnvelope
  <2>1. ClientTypes'
    BY <1>6 DEF TypeOK, ClientTypes, SendEnvelope, writeFrame, readyVars, serverVars,
       shutVars, procVars, kernelVars
  <2>2. KernelTypes'
    BY <1>6 DEF TypeOK, KernelTypes, SendEnvelope, writeFrame, readyVars, serverVars,
       shutVars, procVars, kernelVars
  <2>3. QueueTypes'
    BY <1>6 DEF TypeOK, QueueTypes, SendEnvelope, writeFrame, readyVars, serverVars,
       shutVars, procVars, kernelVars
  <2>. QED
    BY <2>1, <2>2, <2>3 DEF TypeOK
<1>7. CASE KernelConnects
  <2>1. ClientTypes'
    BY <1>7 DEF TypeOK, ClientTypes, KernelConnects, acceptFirst, rejectSecond,
       readyVars, serverVars, shutVars, procVars
  <2>2. KernelTypes'
    BY <1>7 DEF TypeOK, KernelTypes, KernelConnects, acceptFirst, rejectSecond,
       readyVars, serverVars, shutVars, procVars
  <2>3. QueueTypes'
    <3>1. CASE acceptFirst
      BY <1>7, <3>1 DEF TypeOK, QueueTypes, KernelConnects, acceptFirst, readyVars, shutVars
    <3>2. CASE rejectSecond
      BY <1>7, <3>2 DEF TypeOK, QueueTypes, KernelConnects, rejectSecond, readyVars,
         shutVars
    <3>. QED
      BY <1>7, <3>1, <3>2 DEF KernelConnects
  <2>. QED
    BY <2>1, <2>2, <2>3 DEF TypeOK
<1>8. CASE HandleReady
  <2>1. ClientTypes'
    BY <1>8 DEF TypeOK, ClientTypes, HandleReady, handleReadyRecord, completeReady,
       readyVars, serverVars, outVars, shutVars, procVars, kernelVars
  <2>2. KernelTypes'
    BY <1>8 DEF TypeOK, KernelTypes, HandleReady, handleReadyRecord, completeReady,
       readyVars, serverVars, outVars, shutVars, procVars, kernelVars
  <2>3. QueueTypes'
    <3>1. compareVersions(ExpectedVersion, kernelVersion) \in Severities
      BY CompareVersionsType, VersionsAssumption DEF TypeOK, KernelTypes
    <3>2. \/ UNCHANGED driftEvents
          \/ driftEvents' = Append(driftEvents, compareVersions(ExpectedVersion, kernelVersion))
      BY <1>8 DEF HandleReady, handleReadyRecord, readyVars
    <3>3. driftEvents \in Seq(Severities)
      BY DEF TypeOK, QueueTypes
    <3>4. driftEvents' \in Seq(Severities)
      BY <3>1, <3>2, <3>3
    <3>. QED
      BY <1>8, <3>4 DEF TypeOK, QueueTypes, HandleReady, outVars, shutVars
  <2>. QED
    BY <2>1, <2>2, <2>3 DEF TypeOK
<1>9. CASE HandleRun
  <2>1. ClientTypes'
    BY <1>9 DEF TypeOK, ClientTypes, HandleRun, readyVars, serverVars, outVars,
       shutVars, procVars, kernelVars
  <2>2. KernelTypes'
    BY <1>9 DEF TypeOK, KernelTypes, HandleRun, readyVars, serverVars, outVars,
       shutVars, procVars, kernelVars
  <2>3. QueueTypes'
    BY <1>9 DEF TypeOK, QueueTypes, HandleRun, readyVars, serverVars, outVars,
       shutVars, procVars, kernelVars
  <2>. QED
    BY <2>1, <2>2, <2>3 DEF TypeOK
<1>10. CASE HandleSocketEnd
  <2>1. ClientTypes'
    BY <1>10 DEF TypeOK, ClientTypes, HandleSocketEnd, failReady, serverVars, outVars,
       shutVars, procVars, kernelVars
  <2>2. KernelTypes'
    BY <1>10 DEF TypeOK, KernelTypes, HandleSocketEnd, failReady, serverVars, outVars,
       shutVars, procVars, kernelVars
  <2>3. QueueTypes'
    BY <1>10 DEF TypeOK, QueueTypes, HandleSocketEnd, failReady, serverVars, outVars,
       shutVars, procVars, kernelVars
  <2>. QED
    BY <2>1, <2>2, <2>3 DEF TypeOK
<1>11. CASE Shutdown
  <2>1. ClientTypes'
    BY <1>11 DEF TypeOK, ClientTypes, Shutdown, writeFrame, serverVars, procVars, kernelVars
  <2>2. KernelTypes'
    BY <1>11 DEF TypeOK, KernelTypes, Shutdown, writeFrame, serverVars, procVars, kernelVars
  <2>3. QueueTypes'
    BY <1>11 DEF TypeOK, QueueTypes, Shutdown, writeFrame, serverVars, procVars, kernelVars
  <2>. QED
    BY <2>1, <2>2, <2>3 DEF TypeOK
<1>12. CASE GraceExpires
  <2>1. ClientTypes'
    BY <1>12 DEF TypeOK, ClientTypes, GraceExpires, kill, readyVars, serverVars,
       outVars, kernelVars
  <2>2. KernelTypes'
    BY <1>12 DEF TypeOK, KernelTypes, GraceExpires, kill, readyVars, serverVars,
       outVars, kernelVars
  <2>3. QueueTypes'
    BY <1>12 DEF TypeOK, QueueTypes, GraceExpires, kill, readyVars, serverVars,
       outVars, kernelVars
  <2>. QED
    BY <2>1, <2>2, <2>3 DEF TypeOK
<1>13. CASE FullGraceExpires
  <2>1. ClientTypes'
    BY <1>13 DEF TypeOK, ClientTypes, FullGraceExpires, kill, readyVars, serverVars,
       outVars, kernelVars
  <2>2. KernelTypes'
    BY <1>13 DEF TypeOK, KernelTypes, FullGraceExpires, kill, readyVars, serverVars,
       outVars, kernelVars
  <2>3. QueueTypes'
    BY <1>13 DEF TypeOK, QueueTypes, FullGraceExpires, kill, readyVars, serverVars,
       outVars, kernelVars
  <2>. QED
    BY <2>1, <2>2, <2>3 DEF TypeOK
<1>14. CASE PtyExit
  <2>1. ClientTypes'
    BY <1>14 DEF TypeOK, ClientTypes, PtyExit, failReady, dispose, outVars
  <2>2. KernelTypes'
    BY <1>14 DEF TypeOK, KernelTypes, PtyExit, failReady, dispose, outVars
  <2>3. QueueTypes'
    BY <1>14 DEF TypeOK, QueueTypes, PtyExit, failReady, dispose, outVars
  <2>. QED
    BY <2>1, <2>2, <2>3 DEF TypeOK
<1>15. CASE ShutdownFinish
  <2>1. ClientTypes'
    BY <1>15 DEF TypeOK, ClientTypes, ShutdownFinish, dispose, outVars, procVars
  <2>2. KernelTypes'
    BY <1>15 DEF TypeOK, KernelTypes, ShutdownFinish, dispose, outVars, procVars
  <2>3. QueueTypes'
    BY <1>15 DEF TypeOK, QueueTypes, ShutdownFinish, dispose, outVars, procVars
  <2>. QED
    BY <2>1, <2>2, <2>3 DEF TypeOK
<1>16. ASSUME NEW f \in {"ready", "run"}, KernelEmits(f) PROVE TypeOK'
  <2>1. ClientTypes'
    BY <1>16 DEF TypeOK, ClientTypes, KernelEmits, readyVars, serverVars, outVars,
       shutVars, procVars
  <2>2. KernelTypes'
    BY <1>16 DEF TypeOK, KernelTypes, KernelEmits, readyVars, serverVars, outVars,
       shutVars, procVars
  <2>3. QueueTypes'
    BY <1>16 DEF TypeOK, QueueTypes, KernelEmits, readyVars, serverVars, outVars,
       shutVars, procVars
  <2>. QED
    BY <2>1, <2>2, <2>3 DEF TypeOK
<1>17. CASE KernelReads
  <2>1. ClientTypes'
    BY <1>17 DEF TypeOK, ClientTypes, KernelReads, readyVars, serverVars, shutVars,
       procVars, kernelVars
  <2>2. KernelTypes'
    BY <1>17 DEF TypeOK, KernelTypes, KernelReads, readyVars, serverVars, shutVars,
       procVars, kernelVars
  <2>3. QueueTypes'
    BY <1>17 DEF TypeOK, QueueTypes, KernelReads, readyVars, serverVars, shutVars,
       procVars, kernelVars
  <2>. QED
    BY <2>1, <2>2, <2>3 DEF TypeOK
<1>18. CASE KernelClosesSocket
  <2>1. ClientTypes'
    BY <1>18 DEF TypeOK, ClientTypes, KernelClosesSocket, hangUp, readyVars,
       serverVars, outVars, shutVars, procVars
  <2>2. KernelTypes'
    BY <1>18 DEF TypeOK, KernelTypes, KernelClosesSocket, hangUp, readyVars,
       serverVars, outVars, shutVars, procVars
  <2>3. QueueTypes'
    BY <1>18 DEF TypeOK, QueueTypes, KernelClosesSocket, hangUp, readyVars,
       serverVars, outVars, shutVars, procVars
  <2>. QED
    BY <2>1, <2>2, <2>3 DEF TypeOK
<1>19. CASE KernelExits
  <2>1. ClientTypes'
    BY <1>19 DEF TypeOK, ClientTypes, KernelExits, hangUp, readyVars, serverVars,
       outVars, shutVars
  <2>2. KernelTypes'
    BY <1>19 DEF TypeOK, KernelTypes, KernelExits, hangUp, readyVars, serverVars,
       outVars, shutVars
  <2>3. QueueTypes'
    BY <1>19 DEF TypeOK, QueueTypes, KernelExits, hangUp, readyVars, serverVars,
       outVars, shutVars
  <2>. QED
    BY <2>1, <2>2, <2>3 DEF TypeOK
<1>20. CASE UNCHANGED vars
  <2>1. ClientTypes'
    BY <1>20 DEF TypeOK, ClientTypes, vars
  <2>2. KernelTypes'
    BY <1>20 DEF TypeOK, KernelTypes, vars
  <2>3. QueueTypes'
    BY <1>20 DEF TypeOK, QueueTypes, vars
  <2>. QED
    BY <2>1, <2>2, <2>3 DEF TypeOK
<1>. QED
  BY <1>1, <1>2, <1>3, <1>4, <1>5, <1>6, <1>7, <1>8, <1>9, <1>10, <1>11, <1>12, <1>13,
     <1>14, <1>15, <1>16, <1>17, <1>18, <1>19, <1>20
  DEF Next, StartNext, DataPlaneNext, ShutdownNext, KernelNext

\* Type correctness of PtyKernelClient's state in every behaviour.
THEOREM TypeCorrect == Spec => []TypeOK
BY InitTypeOK, StepTypeOK, PTL DEF Spec

\* Every step preserves the control part of the invariant.
LEMMA StepControl == IndInv /\ [Next]_vars => ControlInv'
<1>. SUFFICES ASSUME TypeOK, ReadyInFlight, ControlInv, [Next]_vars PROVE ControlInv'
  BY DEF IndInv
<1>1. CASE Start
  BY <1>1 DEF TypeOK, ClientTypes, KernelTypes, ControlInv, BindingInv, TimerInv,
     EscalationInv, HandshakeHonoured, SignalsHaveCause, Start, outVars, shutVars,
     procVars, kernelVars
<1>2. CASE ListenThenSpawn
  BY <1>2 DEF TypeOK, ClientTypes, KernelTypes, ControlInv, BindingInv, TimerInv,
     EscalationInv, HandshakeHonoured, SignalsHaveCause, ListenThenSpawn, outVars,
     shutVars, kernelVars
<1>3. CASE ListenThenSpawnFails
  BY <1>3 DEF TypeOK, ClientTypes, KernelTypes, ControlInv, BindingInv, TimerInv,
     EscalationInv, HandshakeHonoured, SignalsHaveCause, ListenThenSpawnFails,
     failReady, outVars, shutVars, procVars, kernelVars
<1>4. CASE ListenFails
  BY <1>4 DEF TypeOK, ClientTypes, KernelTypes, ControlInv, BindingInv, TimerInv,
     EscalationInv, HandshakeHonoured, SignalsHaveCause, ListenFails, failReady,
     outVars, shutVars, procVars, kernelVars
<1>5. CASE ReadyTimeout
  <2>1. ready = "pending" /\ ready' = "rejected" /\ signals \subseteq signals'
    BY <1>5 DEF ReadyTimeout, failReady, kill, ControlInv, TimerInv
  <2>2. (BindingInv /\ TimerInv /\ HandshakeHonoured)'
    BY <1>5, <2>1 DEF ControlInv, BindingInv, TimerInv, HandshakeHonoured,
         ReadyTimeout, failReady, serverVars, kernelVars
  <2>3. EscalationInv'
    BY <1>5, <2>1 DEF ControlInv, EscalationInv, ReadyTimeout, shutVars
  <2>4. SignalsHaveCause'
    BY <1>5, <2>1 DEF ControlInv, SignalsHaveCause, ReadyTimeout, kill, shutVars
  <2>. QED
    BY <2>2, <2>3, <2>4 DEF ControlInv
<1>6. CASE SendEnvelope
  BY <1>6 DEF TypeOK, ClientTypes, KernelTypes, ControlInv, BindingInv, TimerInv,
     EscalationInv, HandshakeHonoured, SignalsHaveCause, SendEnvelope, readyVars,
     serverVars, shutVars, procVars, kernelVars
<1>7. CASE KernelConnects
  BY <1>7 DEF TypeOK, ClientTypes, KernelTypes, ControlInv, BindingInv, TimerInv,
     EscalationInv, HandshakeHonoured, SignalsHaveCause, KernelConnects, acceptFirst,
     rejectSecond, readyVars, serverVars, shutVars, procVars
<1>8. CASE HandleReady
  <2>1. saidReady
    <3>1. Len(inbound) \in Nat \ {0} /\ inbound[1] = "ready"
      BY <1>8 DEF HandleReady, TypeOK, QueueTypes
    <3>. QED
      BY <3>1 DEF ReadyInFlight
  <2>. QED
    BY <1>8, <2>1 DEF TypeOK, ClientTypes, KernelTypes, ControlInv, BindingInv,
       TimerInv, EscalationInv, HandshakeHonoured, SignalsHaveCause, HandleReady,
       handleReadyRecord, completeReady, readyVars, serverVars, outVars, shutVars,
       procVars, kernelVars
<1>9. CASE HandleRun
  BY <1>9 DEF TypeOK, ClientTypes, KernelTypes, ControlInv, BindingInv, TimerInv,
     EscalationInv, HandshakeHonoured, SignalsHaveCause, HandleRun, readyVars,
     serverVars, outVars, shutVars, procVars, kernelVars
<1>10. CASE HandleSocketEnd
  BY <1>10 DEF TypeOK, ClientTypes, KernelTypes, ControlInv, BindingInv, TimerInv,
     EscalationInv, HandshakeHonoured, SignalsHaveCause, HandleSocketEnd, failReady,
     serverVars, outVars, shutVars, procVars, kernelVars
<1>11. CASE Shutdown
  BY <1>11 DEF TypeOK, ClientTypes, KernelTypes, ControlInv, BindingInv, TimerInv,
     EscalationInv, HandshakeHonoured, SignalsHaveCause, Shutdown, serverVars,
     procVars, kernelVars
<1>12. CASE GraceExpires
  BY <1>12 DEF TypeOK, ClientTypes, KernelTypes, ControlInv, BindingInv, TimerInv,
     EscalationInv, HandshakeHonoured, SignalsHaveCause, GraceExpires, kill,
     readyVars, serverVars, outVars, kernelVars
<1>13. CASE FullGraceExpires
  BY <1>13 DEF TypeOK, ClientTypes, KernelTypes, ControlInv, BindingInv, TimerInv,
     EscalationInv, HandshakeHonoured, SignalsHaveCause, FullGraceExpires, kill,
     readyVars, serverVars, outVars, kernelVars
<1>14. CASE PtyExit
  BY <1>14 DEF TypeOK, ClientTypes, KernelTypes, ControlInv, BindingInv, TimerInv,
     EscalationInv, HandshakeHonoured, SignalsHaveCause, PtyExit, failReady, dispose,
     outVars
<1>15. CASE ShutdownFinish
  BY <1>15 DEF TypeOK, ClientTypes, KernelTypes, ControlInv, BindingInv, TimerInv,
     EscalationInv, HandshakeHonoured, SignalsHaveCause, ShutdownFinish, dispose,
     outVars, procVars
<1>16. ASSUME NEW f \in {"ready", "run"}, KernelEmits(f) PROVE ControlInv'
  BY <1>16 DEF TypeOK, ClientTypes, KernelTypes, ControlInv, BindingInv, TimerInv,
     EscalationInv, HandshakeHonoured, SignalsHaveCause, KernelEmits, readyVars,
     serverVars, outVars, shutVars, procVars
<1>17. CASE KernelReads
  BY <1>17 DEF TypeOK, ClientTypes, KernelTypes, ControlInv, BindingInv, TimerInv,
     EscalationInv, HandshakeHonoured, SignalsHaveCause, KernelReads, readyVars,
     serverVars, shutVars, procVars, kernelVars
<1>18. CASE KernelClosesSocket
  BY <1>18 DEF TypeOK, ClientTypes, KernelTypes, ControlInv, BindingInv, TimerInv,
     EscalationInv, HandshakeHonoured, SignalsHaveCause, KernelClosesSocket, hangUp,
     readyVars, serverVars, outVars, shutVars, procVars
<1>19. CASE KernelExits
  BY <1>19 DEF TypeOK, ClientTypes, KernelTypes, ControlInv, BindingInv, TimerInv,
     EscalationInv, HandshakeHonoured, SignalsHaveCause, KernelExits, hangUp,
     readyVars, serverVars, outVars, shutVars
<1>20. CASE UNCHANGED vars
  BY <1>20 DEF ControlInv, BindingInv, TimerInv, EscalationInv, HandshakeHonoured,
     SignalsHaveCause, vars
<1>. QED
  BY <1>1, <1>2, <1>3, <1>4, <1>5, <1>6, <1>7, <1>8, <1>9, <1>10, <1>11, <1>12, <1>13,
     <1>14, <1>15, <1>16, <1>17, <1>18, <1>19, <1>20
  DEF Next, StartNext, DataPlaneNext, ShutdownNext, KernelNext

\* A kernel.ready in flight stays one that the kernel emitted.
LEMMA StepReadyInFlight == IndInv /\ [Next]_vars => ReadyInFlight'
<1>. SUFFICES ASSUME IndInv, [Next]_vars PROVE ReadyInFlight'
  OBVIOUS
<1>. inbound \in Seq({"ready", "run", "eof"}) /\ ReadyInFlight
  BY DEF IndInv, TypeOK, QueueTypes
<1>1. CASE UNCHANGED <<inbound, saidReady>>
  BY <1>1 DEF ReadyInFlight
<1>2. CASE inbound # <<>> /\ inbound' = Tail(inbound) /\ UNCHANGED saidReady
  BY <1>2 DEF ReadyInFlight
<1>3. CASE inbound' = <<>>
  BY <1>3 DEF ReadyInFlight
<1>4. CASE inbound' = Append(inbound, "eof") /\ UNCHANGED saidReady
  BY <1>4 DEF ReadyInFlight
<1>5. CASE saidReady'
  BY <1>5 DEF ReadyInFlight
<1>6. StartNext \/ UNCHANGED vars => UNCHANGED <<inbound, saidReady>>
  BY DEF StartNext, Start, ListenThenSpawn, ListenThenSpawnFails, ListenFails,
     ReadyTimeout, kernelVars, vars
<1>7. DataPlaneNext => \/ UNCHANGED <<inbound, saidReady>>
                       \/ inbound # <<>> /\ inbound' = Tail(inbound) /\ UNCHANGED saidReady
  BY DEF DataPlaneNext, SendEnvelope, KernelConnects, HandleReady, HandleRun,
     HandleSocketEnd, kernelVars
<1>8. ShutdownNext => inbound' = <<>> \/ UNCHANGED <<inbound, saidReady>>
  BY DEF ShutdownNext, Shutdown, GraceExpires, FullGraceExpires, PtyExit,
     ShutdownFinish, dispose, kernelVars
<1>9. KernelNext => \/ saidReady'
                    \/ UNCHANGED <<inbound, saidReady>>
                    \/ inbound' = Append(inbound, "eof") /\ UNCHANGED saidReady
  BY DEF KernelNext, KernelEmits, KernelReads, KernelClosesSocket, KernelExits,
     hangUp, kernelVars
<1>. QED
  BY <1>1, <1>2, <1>3, <1>4, <1>5, <1>6, <1>7, <1>8, <1>9 DEF Next

\* The inductive invariant holds in every reachable state.
THEOREM Invariance == Spec => []IndInv
<1>1. Init => IndInv
  <2>1. Init => ReadyInFlight
    BY DEF Init, ReadyInFlight
  <2>2. Init => ControlInv
    BY DEF Init, ControlInv, BindingInv, TimerInv, EscalationInv,
       HandshakeHonoured, SignalsHaveCause
  <2>. QED
    BY <2>1, <2>2, InitTypeOK DEF IndInv
<1>2. IndInv /\ [Next]_vars => IndInv'
  BY StepTypeOK, StepControl, StepReadyInFlight DEF IndInv
<1>. QED
  BY <1>1, <1>2, PTL DEF Spec

\* For every kernel, however it times out, crashes or hangs up: the client is
\* ready exactly when its promise resolved, and only after kernel.ready.
THEOREM HandshakeCorrect == Spec => []HandshakeHonoured
<1>1. IndInv => HandshakeHonoured
  BY DEF IndInv, ControlInv
<1>. QED
  BY <1>1, Invariance, PTL

\* For every kernel: SIGTERM follows a failed handshake or a shutdown, SIGKILL
\* follows SIGTERM.
THEOREM SignalsCorrect == Spec => []SignalsHaveCause
<1>1. IndInv => SignalsHaveCause
  BY DEF IndInv, ControlInv
<1>. QED
  BY <1>1, Invariance, PTL

\* The ready promise settles at most once, whatever arrives afterwards.
THEOREM SettlesOnce == Spec => ReadySettlesOnce
<1>1. ASSUME IndInv, [Next]_vars, ready # "idle", ready # "pending"
      PROVE  UNCHANGED <<ready, isReady>>
  <2>. USE <1>1
  <2>1. StartNext \/ UNCHANGED vars => UNCHANGED <<ready, isReady>>
    BY DEF StartNext, Start, ListenThenSpawn, ListenThenSpawnFails, ListenFails,
       ReadyTimeout, failReady, vars
  <2>2. DataPlaneNext => UNCHANGED <<ready, isReady>>
    BY DEF DataPlaneNext, SendEnvelope, KernelConnects, HandleReady, HandleRun,
       HandleSocketEnd, readyVars
  <2>3. ShutdownNext => UNCHANGED <<ready, isReady>>
    BY DEF ShutdownNext, Shutdown, GraceExpires, FullGraceExpires, PtyExit,
       ShutdownFinish, readyVars
  <2>4. KernelNext => UNCHANGED <<ready, isReady>>
    BY DEF KernelNext, KernelEmits, KernelReads, KernelClosesSocket, KernelExits,
       readyVars
  <2>. QED
    BY <2>1, <2>2, <2>3, <2>4 DEF Next
<1>2. IndInv /\ [Next]_vars =>
        [ready # "idle" /\ ready # "pending" => UNCHANGED <<ready, isReady>>]_vars
  BY <1>1
<1>. QED
  BY <1>2, Invariance, PTL DEF Spec, ReadySettlesOnce

-----------------------------------------------------------------------------
(* The order and the completeness of the frames to the kernel.             *)

\* The data plane: a kernel that has hung up while it runs can connect again
\* only if the client has destroyed its socket, and then the server is closed.
LinkInv ==
  /\ link = "up" => socket = "open"
  /\ link = "none" => socket = "none" /\ wire = <<>> /\ received = <<>>
  /\ proc = "none" => link = "none"
  /\ link = "closed" /\ proc = "running" /\ socket = "none" => server = "closed"
  /\ server = "none" => proc = "none"
  /\ ~serverRef /\ server # "none" => shut = "done" \/ proc = "reaped"
  /\ socket # "none" => outboundBuffer = <<>>

\* An EOF on its way to the client comes from a kernel that has hung up.
EofInv ==
  /\ socket = "none" => inbound = <<>>
  /\ \A i \in 1 .. Len(inbound) : inbound[i] = "eof" => link # "up"

Before(s, t) == \A i \in DOMAIN s, j \in DOMAIN t : s[i] < t[j]

UpTo(s, n) == \A i \in DOMAIN s : s[i] <= n

\* FrameOrder, queue by queue.
OrderInv ==
  /\ Strictly(received) /\ Strictly(wire) /\ Strictly(outboundBuffer)
  /\ Before(received, wire) /\ Before(received, outboundBuffer) /\ Before(wire, outboundBuffer)
  /\ UpTo(received, submitted) /\ UpTo(wire, submitted) /\ UpTo(outboundBuffer, submitted)

\* NoFrameLost, queue by queue.
Complete ==
  /\ Len(received) + Len(wire) + Len(outboundBuffer) = submitted
  /\ \A i \in DOMAIN received : received[i] = i
  /\ \A i \in DOMAIN wire : wire[i] = Len(received) + i
  /\ \A i \in DOMAIN outboundBuffer : outboundBuffer[i] = Len(received) + Len(wire) + i

CompleteInv == link \in {"none", "up"} => Complete

FrameInv == LinkInv /\ EofInv /\ OrderInv /\ CompleteInv
-----------------------------------------------------------------------------
\* No step breaks the control part of the data plane.
LEMMA StepLink == IndInv /\ LinkInv /\ EofInv /\ [Next]_vars => LinkInv'
<1>. SUFFICES ASSUME TypeOK, ControlInv, LinkInv, EofInv, [Next]_vars PROVE LinkInv'
  BY DEF IndInv
<1>. USE DEF LinkInv
<1>1. CASE Start
  BY <1>1 DEF ControlInv, BindingInv, TimerInv, EscalationInv, Start,
     readyVars, serverVars, outVars, shutVars, procVars, kernelVars
<1>2. CASE ListenThenSpawn
  BY <1>2 DEF ControlInv, BindingInv, TimerInv, EscalationInv, ListenThenSpawn,
     readyVars, serverVars, outVars, shutVars, procVars, kernelVars
<1>3. CASE ListenThenSpawnFails
  BY <1>3 DEF ControlInv, BindingInv, TimerInv, EscalationInv, ListenThenSpawnFails,
     failReady,
     readyVars, serverVars, outVars, shutVars, procVars, kernelVars
<1>4. CASE ListenFails
  BY <1>4 DEF ControlInv, BindingInv, TimerInv, EscalationInv, ListenFails, failReady,
     readyVars, serverVars, outVars, shutVars, procVars, kernelVars
<1>5. CASE ReadyTimeout
  BY <1>5 DEF ControlInv, BindingInv, TimerInv, EscalationInv, ReadyTimeout,
     readyVars, serverVars, outVars, shutVars, procVars, kernelVars
<1>6. CASE SendEnvelope
  BY <1>6 DEF ControlInv, BindingInv, TimerInv, EscalationInv, SendEnvelope, writeFrame,
     readyVars, serverVars, outVars, shutVars, procVars, kernelVars
<1>7. CASE KernelConnects
  BY <1>7 DEF ControlInv, BindingInv, TimerInv, EscalationInv, KernelConnects,
     acceptFirst, rejectSecond,
     readyVars, serverVars, outVars, shutVars, procVars, kernelVars
<1>8. CASE HandleReady
  BY <1>8 DEF ControlInv, BindingInv, TimerInv, EscalationInv, HandleReady,
     readyVars, serverVars, outVars, shutVars, procVars, kernelVars
<1>9. CASE HandleRun
  BY <1>9 DEF ControlInv, BindingInv, TimerInv, EscalationInv, HandleRun,
     readyVars, serverVars, outVars, shutVars, procVars, kernelVars
<1>10. CASE HandleSocketEnd
  <2>1. Len(inbound) \in Nat \ {0} /\ inbound[1] = "eof"
    BY <1>10 DEF HandleSocketEnd, TypeOK, QueueTypes
  <2>2. link # "up"
    BY <2>1 DEF EofInv
  <2>. QED
    BY <1>10, <2>2 DEF HandleSocketEnd, serverVars, outVars, shutVars, procVars, kernelVars
<1>11. CASE Shutdown
  BY <1>11 DEF ControlInv, BindingInv, TimerInv, EscalationInv, Shutdown, writeFrame,
     readyVars, serverVars, outVars, shutVars, procVars, kernelVars
<1>12. CASE GraceExpires
  BY <1>12 DEF ControlInv, BindingInv, TimerInv, EscalationInv, GraceExpires,
     readyVars, serverVars, outVars, shutVars, procVars, kernelVars
<1>13. CASE FullGraceExpires
  BY <1>13 DEF ControlInv, BindingInv, TimerInv, EscalationInv, FullGraceExpires,
     readyVars, serverVars, outVars, shutVars, procVars, kernelVars
<1>14. CASE PtyExit
  BY <1>14 DEF ControlInv, BindingInv, TimerInv, EscalationInv, PtyExit, dispose,
     readyVars, serverVars, outVars, shutVars, procVars, kernelVars
<1>15. CASE ShutdownFinish
  BY <1>15 DEF ControlInv, BindingInv, TimerInv, EscalationInv, ShutdownFinish,
     dispose, TypeOK, ClientTypes,
     readyVars, serverVars, outVars, shutVars, procVars, kernelVars
<1>16. ASSUME NEW f \in {"ready", "run"}, KernelEmits(f) PROVE LinkInv'
  BY <1>16 DEF KernelEmits, readyVars, serverVars, outVars, shutVars, procVars
<1>17. CASE KernelReads
  BY <1>17 DEF ControlInv, BindingInv, TimerInv, EscalationInv, KernelReads,
     readyVars, serverVars, outVars, shutVars, procVars, kernelVars
<1>18. CASE KernelClosesSocket
  BY <1>18 DEF ControlInv, BindingInv, TimerInv, EscalationInv, KernelClosesSocket, hangUp,
     readyVars, serverVars, outVars, shutVars, procVars, kernelVars
<1>19. CASE KernelExits
  BY <1>19 DEF ControlInv, BindingInv, TimerInv, EscalationInv, KernelExits, hangUp,
     readyVars, serverVars, outVars, shutVars, procVars, kernelVars
<1>20. CASE UNCHANGED vars
  BY <1>20 DEF vars
<1>. QED
  BY <1>1, <1>2, <1>3, <1>4, <1>5, <1>6, <1>7, <1>8, <1>9, <1>10, <1>11, <1>12, <1>13,
     <1>14, <1>15, <1>16, <1>17, <1>18, <1>19, <1>20
  DEF Next, StartNext, DataPlaneNext, ShutdownNext, KernelNext

\* An EOF in flight keeps its cause: only a kernel without one connects.
LEMMA StepEof == IndInv /\ LinkInv /\ EofInv /\ [Next]_vars => EofInv'
<1>. SUFFICES ASSUME IndInv, LinkInv, EofInv, [Next]_vars PROVE EofInv'
  OBVIOUS
<1>. inbound \in Seq({"ready", "run", "eof"})
  BY DEF IndInv, TypeOK, QueueTypes
<1>1. CASE UNCHANGED <<inbound, link, socket>>
  BY <1>1 DEF EofInv
<1>2. CASE socket = "open" /\ inbound # <<>> /\ inbound' = Tail(inbound)
           /\ UNCHANGED link /\ socket' # "none"
  BY <1>2 DEF EofInv
<1>3. CASE inbound' = <<>>
  BY <1>3 DEF EofInv
<1>4. CASE link = "up" /\ link' # "up" /\ UNCHANGED socket
  BY <1>4 DEF EofInv, LinkInv
<1>5. CASE link = "up" /\ UNCHANGED <<link, socket>>
           /\ \E f \in {"ready", "run"} : inbound' = Append(inbound, f)
  BY <1>5 DEF EofInv, LinkInv
<1>6. CASE socket = "none" /\ UNCHANGED inbound
  BY <1>6 DEF EofInv
<1>7. CASE link' # "up" /\ UNCHANGED <<inbound, socket>>
  BY <1>7 DEF EofInv
<1>8. StartNext \/ UNCHANGED vars => UNCHANGED <<inbound, link, socket>>
  BY DEF StartNext, Start, ListenThenSpawn, ListenThenSpawnFails, ListenFails,
     ReadyTimeout, kernelVars, vars
<1>9. DataPlaneNext => \/ UNCHANGED <<inbound, link, socket>>
                       \/ socket = "none" /\ UNCHANGED inbound
                       \/ link' # "up" /\ UNCHANGED <<inbound, socket>>
                       \/ /\ socket = "open" /\ inbound # <<>> /\ inbound' = Tail(inbound)
                          /\ UNCHANGED link /\ socket' # "none"
  BY DEF DataPlaneNext, SendEnvelope, KernelConnects, acceptFirst, rejectSecond,
     HandleReady,
     HandleRun, HandleSocketEnd, kernelVars
<1>10. ShutdownNext => inbound' = <<>> \/ UNCHANGED <<inbound, link, socket>>
  BY DEF ShutdownNext, Shutdown, GraceExpires, FullGraceExpires, PtyExit,
     ShutdownFinish, dispose, kernelVars
<1>11. KernelNext => \/ UNCHANGED <<inbound, link, socket>>
                     \/ link = "up" /\ link' # "up" /\ UNCHANGED socket
                     \/ /\ link = "up" /\ UNCHANGED <<link, socket>>
                        /\ \E f \in {"ready", "run"} : inbound' = Append(inbound, f)
  BY DEF KernelNext, KernelEmits, KernelReads, KernelClosesSocket, KernelExits,
     hangUp, kernelVars
<1>. QED
  BY <1>1, <1>2, <1>3, <1>4, <1>5, <1>6, <1>7, <1>8, <1>9, <1>10, <1>11 DEF Next

\* What a step may do to the three queues: submit a frame (into the buffer, onto
\* the wire, or to nobody), hand the buffer to a new connection, or read.
Submits ==
  /\ submitted' = submitted + 1 /\ UNCHANGED <<received, link, socket>>
  /\ writeFrame(submitted + 1)

Flushes ==
  /\ socket = "none" /\ link \in {"none", "closed"}
  /\ proc = "running" /\ server = "listening"
  /\ acceptFirst /\ UNCHANGED <<received, submitted>>

Reads ==
  /\ wire # <<>> /\ received' = Append(received, Head(wire)) /\ wire' = Tail(wire)
  /\ UNCHANGED <<outboundBuffer, submitted, link>>

Rests ==
  /\ UNCHANGED <<received, wire, outboundBuffer, submitted>>
  /\ link' \in {"none", "up"} => link' = link

LEMMA QueueSteps == ASSUME IndInv, [Next]_vars PROVE Submits \/ Flushes \/ Reads \/ Rests
<1>1. StartNext \/ UNCHANGED vars => Rests
  BY DEF StartNext, Start, ListenThenSpawn, ListenThenSpawnFails, ListenFails,
     ReadyTimeout, outVars, kernelVars, vars, Rests
<1>2. SendEnvelope \/ Shutdown => Submits
  BY DEF SendEnvelope, Shutdown, Submits, kernelVars
<1>3. KernelConnects => Flushes \/ Rests
  BY DEF KernelConnects, Flushes, Rests, rejectSecond, acceptFirst
<1>4. HandleReady \/ HandleRun \/ HandleSocketEnd => Rests
  BY DEF HandleReady, HandleRun, HandleSocketEnd, Rests, outVars, kernelVars
<1>5. GraceExpires \/ FullGraceExpires \/ PtyExit \/ ShutdownFinish => Rests
  BY DEF GraceExpires, FullGraceExpires, PtyExit, ShutdownFinish, dispose, Rests, outVars,
     kernelVars
<1>6. KernelNext => Reads \/ Rests
  BY DEF KernelNext, KernelEmits, KernelReads, KernelClosesSocket, KernelExits, hangUp,
     Reads, Rests, outVars, kernelVars
<1>. QED
  BY <1>1, <1>2, <1>3, <1>4, <1>5, <1>6 DEF Next, DataPlaneNext, ShutdownNext

\* The places of a queue after a frame is added at its end.
LEMMA AppendAt ==
  ASSUME NEW s \in Seq(Nat), NEW n \in Nat
  PROVE  /\ Len(s) \in Nat /\ DOMAIN s = 1 .. Len(s)
         /\ Append(s, n) \in Seq(Nat) /\ Len(Append(s, n)) = Len(s) + 1
         /\ DOMAIN Append(s, n) = 1 .. Len(s) + 1
         /\ \A i \in 1 .. Len(s) : Append(s, n)[i] = s[i]
         /\ Append(s, n)[Len(s) + 1] = n
OBVIOUS

\* The places of a queue after its first frame is taken.
LEMMA TailAt ==
  ASSUME NEW s \in Seq(Nat), s # <<>>
  PROVE  /\ Len(s) \in Nat \ {0} /\ DOMAIN s = 1 .. Len(s)
         /\ Tail(s) \in Seq(Nat) /\ Len(Tail(s)) = Len(s) - 1
         /\ DOMAIN Tail(s) = 1 .. Len(s) - 1
         /\ \A i \in 1 .. Len(s) - 1 : Tail(s)[i] = s[i + 1]
         /\ \A i \in 1 .. Len(s) : s[i] \in Nat
OBVIOUS

\* A frame later than all others keeps a queue in order, wherever it is added.
LEMMA AppendOrder ==
  ASSUME NEW s \in Seq(Nat), NEW t \in Seq(Nat), NEW n \in Nat, UpTo(s, n), UpTo(t, n),
         Strictly(s), Before(t, s)
  PROVE  /\ Strictly(Append(s, n + 1)) /\ UpTo(Append(s, n + 1), n + 1)
         /\ Before(t, Append(s, n + 1)) /\ UpTo(t, n + 1)
<1>1. Strictly(Append(s, n + 1))
  BY DEF Strictly, UpTo
<1>2. UpTo(Append(s, n + 1), n + 1) /\ UpTo(t, n + 1)
  BY DEF UpTo
<1>3. Before(t, Append(s, n + 1))
  BY DEF Before, UpTo
<1>. QED
  BY <1>1, <1>2, <1>3

\* Frames stay in order, queue by queue.
LEMMA StepOrder == IndInv /\ LinkInv /\ OrderInv /\ [Next]_vars => OrderInv'
<1>. SUFFICES ASSUME IndInv, LinkInv, OrderInv, [Next]_vars PROVE OrderInv'
  OBVIOUS
<1>0. /\ received \in Seq(Nat) /\ wire \in Seq(Nat) /\ outboundBuffer \in Seq(Nat)
      /\ submitted \in Nat
  BY DEF IndInv, TypeOK, QueueTypes
<1>1. CASE Submits
  <2>1. CASE socket = "none"
    <3>1. outboundBuffer' = Append(outboundBuffer, submitted + 1) /\ wire' = wire
          /\ received' = received /\ submitted' = submitted + 1
      BY <1>1, <2>1 DEF Submits, writeFrame
    <3>2. /\ Strictly(outboundBuffer') /\ UpTo(outboundBuffer', submitted')
          /\ Before(received', outboundBuffer') /\ UpTo(received', submitted')
      BY <1>0, <3>1, AppendOrder DEF OrderInv
    <3>3. Before(wire', outboundBuffer') /\ UpTo(wire', submitted')
      BY <1>0, <3>1, AppendOrder DEF OrderInv
    <3>. QED
      BY <3>1, <3>2, <3>3 DEF OrderInv
  <2>2. CASE socket # "none" /\ link = "up"
    <3>1. wire' = Append(wire, submitted + 1) /\ outboundBuffer' = <<>>
          /\ received' = received /\ submitted' = submitted + 1
      BY <1>1, <2>2 DEF Submits, writeFrame, LinkInv
    <3>2. /\ Before(received', outboundBuffer') /\ Before(wire', outboundBuffer')
          /\ Strictly(outboundBuffer') /\ UpTo(outboundBuffer', submitted')
      BY <3>1 DEF Before, Strictly, UpTo
    <3>3. /\ Strictly(wire') /\ UpTo(wire', submitted') /\ Before(received', wire')
          /\ UpTo(received', submitted')
      BY <1>0, <3>1, AppendOrder DEF OrderInv
    <3>. QED
      BY <3>1, <3>2, <3>3 DEF OrderInv
  <2>3. CASE socket # "none" /\ link # "up"
    <3>1. UNCHANGED <<wire, outboundBuffer, received>> /\ submitted' = submitted + 1
      BY <1>1, <2>3 DEF Submits, writeFrame
    <3>2. UpTo(received', submitted') /\ UpTo(wire', submitted')
      BY <1>0, <3>1, AppendOrder DEF OrderInv
    <3>3. UpTo(outboundBuffer', submitted')
      <4>1. UpTo(outboundBuffer, submitted) /\ \A i \in DOMAIN outboundBuffer : outboundBuffer[i] \in Nat
        BY <1>0 DEF OrderInv
      <4>. QED
        BY <1>0, <3>1, <4>1 DEF UpTo
    <3>. QED
      BY <3>1, <3>2, <3>3 DEF OrderInv
  <2>. QED
    BY <2>1, <2>2, <2>3
<1>2. CASE Flushes
  <2>1. wire' = outboundBuffer /\ outboundBuffer' = <<>> /\ UNCHANGED <<received, submitted>>
    BY <1>2 DEF Flushes, acceptFirst
  <2>2. /\ Before(received', outboundBuffer') /\ Before(wire', outboundBuffer')
        /\ Strictly(outboundBuffer') /\ UpTo(outboundBuffer', submitted')
    BY <2>1 DEF Before, Strictly, UpTo
  <2>. QED
    BY <2>1, <2>2 DEF OrderInv
<1>3. CASE Reads
  <2>1. /\ wire # <<>> /\ received' = Append(received, wire[1]) /\ wire' = Tail(wire)
        /\ UNCHANGED <<outboundBuffer, submitted>>
    BY <1>0, <1>3 DEF Reads
  <2>2. 1 \in DOMAIN wire /\ wire[1] \in Nat
    BY <1>0, <2>1, TailAt
  <2>. DEFINE n == wire[1]
  <2>3. /\ \A i \in DOMAIN received : received[i] < n
        /\ \A i \in DOMAIN outboundBuffer : n < outboundBuffer[i]
        /\ n <= submitted
    BY <2>2 DEF OrderInv, Before, UpTo
  <2>4. \A i \in DOMAIN wire' : n < wire'[i]
    BY <1>0, <2>1, TailAt DEF OrderInv, Strictly
  <2>. HIDE DEF n
  <2>5. n \in Nat /\ received' = Append(received, n)
    BY <2>1, <2>2 DEF n
  <2>6. /\ DOMAIN received = 1 .. Len(received) /\ DOMAIN received' = 1 .. Len(received) + 1
        /\ Len(received) \in Nat
        /\ \A i \in 1 .. Len(received) : received'[i] = received[i]
        /\ received'[Len(received) + 1] = n
    BY <1>0, <2>5, AppendAt
  <2>7. Strictly(received') /\ UpTo(received', submitted')
    <3>1. Strictly(received')
      <4>. SUFFICES ASSUME NEW i \in 1 .. Len(received) + 1, NEW j \in 1 .. Len(received) + 1,
                           i < j
                    PROVE  received'[i] < received'[j]
        BY <2>6 DEF Strictly
      <4>1. i \in DOMAIN received /\ received'[i] = received[i]
        BY <2>6
      <4>2. CASE j = Len(received) + 1
        BY <2>3, <2>6, <4>1, <4>2
      <4>3. CASE j # Len(received) + 1
        <5>1. j \in DOMAIN received /\ received'[j] = received[j]
          BY <2>6, <4>3
        <5>. QED
          BY <4>1, <5>1 DEF OrderInv, Strictly
      <4>. QED
        BY <4>2, <4>3
    <3>2. UpTo(received', submitted')
      BY <2>1, <2>3, <2>6 DEF OrderInv, UpTo
    <3>. QED
      BY <3>1, <3>2
  <2>8. Strictly(wire') /\ UpTo(wire', submitted') /\ Before(wire', outboundBuffer')
    <3>1. /\ DOMAIN wire' = 1 .. Len(wire) - 1 /\ DOMAIN wire = 1 .. Len(wire)
          /\ Len(wire) \in Nat /\ \A i \in 1 .. Len(wire) - 1 : wire'[i] = wire[i + 1]
      BY <1>0, <2>1, TailAt
    <3>2. Strictly(wire')
      <4>. SUFFICES ASSUME NEW i \in 1 .. Len(wire) - 1, NEW j \in 1 .. Len(wire) - 1, i < j
                    PROVE  wire'[i] < wire'[j]
        BY <3>1 DEF Strictly
      <4>1. i + 1 \in DOMAIN wire /\ j + 1 \in DOMAIN wire /\ i + 1 < j + 1
        BY <3>1
      <4>2. wire[i + 1] < wire[j + 1]
        BY <4>1 DEF OrderInv, Strictly
      <4>. QED
        BY <3>1, <4>2
    <3>3. UpTo(wire', submitted')
      BY <2>1, <3>1 DEF OrderInv, UpTo
    <3>4. Before(wire', outboundBuffer')
      BY <2>1, <3>1 DEF OrderInv, Before
    <3>. QED
      BY <3>2, <3>3, <3>4
  <2>9. Before(received', wire')
    <3>1. ASSUME NEW i \in DOMAIN received, NEW j \in DOMAIN wire'
          PROVE  received[i] < wire'[j]
      <4>1. j + 1 \in DOMAIN wire /\ wire'[j] = wire[j + 1]
        BY <1>0, <2>1, TailAt
      <4>. QED
        BY <4>1 DEF OrderInv, Before
    <3>. QED
      BY <2>4, <2>6, <3>1 DEF Before
  <2>10. Before(received', outboundBuffer')
    BY <2>1, <2>3, <2>6 DEF OrderInv, Before
  <2>. QED
    BY <2>1, <2>7, <2>8, <2>9, <2>10 DEF OrderInv
<1>4. CASE Rests
  BY <1>4 DEF Rests, OrderInv
<1>. QED
  BY <1>1, <1>2, <1>3, <1>4, QueueSteps

\* No frame goes missing before the data plane first goes down.
LEMMA StepComplete == IndInv /\ LinkInv /\ CompleteInv /\ [Next]_vars => CompleteInv'
<1>. SUFFICES ASSUME IndInv, LinkInv, CompleteInv, [Next]_vars, link' \in {"none", "up"}
              PROVE  Complete'
  BY DEF CompleteInv
<1>0. /\ received \in Seq(Nat) /\ wire \in Seq(Nat) /\ outboundBuffer \in Seq(Nat)
      /\ submitted \in Nat
  BY DEF IndInv, TypeOK, QueueTypes
<1>1. CASE Submits
  <2>1. link' = link /\ received' = received /\ submitted' = submitted + 1 /\ Complete
    BY <1>1 DEF Submits, CompleteInv
  <2>2. CASE link = "none"
    <3>1. outboundBuffer' = Append(outboundBuffer, submitted + 1) /\ wire' = wire
      BY <1>1, <2>2 DEF Submits, writeFrame, LinkInv
    <3>2. /\ Len(received) \in Nat /\ Len(wire) \in Nat /\ Len(outboundBuffer) \in Nat
          /\ DOMAIN outboundBuffer = 1 .. Len(outboundBuffer)
          /\ DOMAIN outboundBuffer' = 1 .. Len(outboundBuffer) + 1
          /\ Len(outboundBuffer') = Len(outboundBuffer) + 1
          /\ \A i \in 1 .. Len(outboundBuffer) : outboundBuffer'[i] = outboundBuffer[i]
          /\ outboundBuffer'[Len(outboundBuffer) + 1] = submitted + 1
      BY <1>0, <3>1, AppendAt
    <3>3. /\ submitted = Len(received) + Len(wire) + Len(outboundBuffer)
          /\ \A i \in 1 .. Len(outboundBuffer) :
               outboundBuffer[i] = Len(received) + Len(wire) + i
      BY <2>1, <3>2 DEF Complete
    <3>4. \A i \in DOMAIN outboundBuffer' :
            outboundBuffer'[i] = Len(received') + Len(wire') + i
      <4>. SUFFICES ASSUME NEW i \in 1 .. Len(outboundBuffer) + 1
                    PROVE  outboundBuffer'[i] = Len(received) + Len(wire) + i
        BY <2>1, <3>1, <3>2
      <4>1. CASE i \in 1 .. Len(outboundBuffer)
        <5>1. outboundBuffer'[i] = outboundBuffer[i]
          BY <3>2, <4>1
        <5>. QED
          BY <3>3, <4>1, <5>1
      <4>2. CASE i = Len(outboundBuffer) + 1
        <5>1. outboundBuffer'[i] = submitted + 1
          BY <3>2, <4>2
        <5>2. submitted + 1 = Len(received) + Len(wire) + (Len(outboundBuffer) + 1)
          BY <3>2, <3>3
        <5>. QED
          BY <4>2, <5>1, <5>2
      <4>3. i \in 1 .. Len(outboundBuffer) \/ i = Len(outboundBuffer) + 1
        BY <3>2
      <4>. QED
        BY <4>1, <4>2, <4>3
    <3>5. Len(received') + Len(wire') + Len(outboundBuffer') = submitted'
      BY <2>1, <3>1, <3>2, <3>3
    <3>. QED
      BY <2>1, <3>1, <3>4, <3>5 DEF Complete
  <2>3. CASE link = "up"
    <3>1. wire' = Append(wire, submitted + 1) /\ outboundBuffer = <<>> /\ outboundBuffer' = <<>>
      BY <1>1, <2>3 DEF Submits, writeFrame, LinkInv
    <3>2. /\ Len(wire) \in Nat /\ Len(received) \in Nat /\ Len(outboundBuffer) = 0
          /\ DOMAIN wire = 1 .. Len(wire) /\ DOMAIN wire' = 1 .. Len(wire) + 1
          /\ Len(wire') = Len(wire) + 1 /\ wire'[Len(wire) + 1] = submitted + 1
          /\ \A i \in 1 .. Len(wire) : wire'[i] = wire[i]
      BY <1>0, <3>1, AppendAt
    <3>3. \A i \in DOMAIN wire' : wire'[i] = Len(received') + i
      <4>1. submitted = Len(received) + Len(wire) /\ \A i \in 1 .. Len(wire) : wire[i] = Len(received) + i
        BY <2>1, <3>2 DEF Complete
      <4>2. ASSUME NEW i \in 1 .. Len(wire) + 1 PROVE wire'[i] = Len(received) + i
        <5>1. CASE i \in 1 .. Len(wire)
          BY <3>2, <4>1, <5>1
        <5>2. CASE i = Len(wire) + 1
          BY <3>2, <4>1, <5>2
        <5>3. i \in 1 .. Len(wire) \/ i = Len(wire) + 1
          BY <3>2
        <5>. QED
          BY <5>1, <5>2, <5>3
      <4>. QED
        BY <2>1, <3>2, <4>2
    <3>. QED
      BY <2>1, <3>1, <3>2, <3>3 DEF Complete
  <2>. QED
    BY <2>1, <2>2, <2>3
<1>2. CASE Flushes
  <2>1. link = "none" /\ wire = <<>> /\ received = <<>> /\ Complete
    BY <1>2 DEF Flushes, LinkInv, CompleteInv
  <2>2. wire' = outboundBuffer /\ outboundBuffer' = <<>> /\ UNCHANGED <<received, submitted>>
    BY <1>2 DEF Flushes, acceptFirst
  <2>. QED
    BY <1>0, <2>1, <2>2 DEF Complete
<1>3. CASE Reads
  <2>1. /\ wire # <<>> /\ received' = Append(received, wire[1]) /\ wire' = Tail(wire)
        /\ UNCHANGED <<outboundBuffer, submitted>> /\ Complete
    BY <1>0, <1>3 DEF Reads, CompleteInv
  <2>2. /\ Len(received') = Len(received) + 1 /\ Len(wire') = Len(wire) - 1
        /\ Len(received) \in Nat /\ Len(wire) \in Nat \ {0}
        /\ Len(outboundBuffer) \in Nat
    BY <1>0, <2>1
  <2>3. /\ DOMAIN wire = 1 .. Len(wire) /\ DOMAIN wire' = 1 .. Len(wire) - 1
        /\ wire[1] \in Nat /\ \A i \in 1 .. Len(wire) - 1 : wire'[i] = wire[i + 1]
    BY <1>0, <2>1, <2>2, TailAt
  <2>4. /\ DOMAIN received = 1 .. Len(received) /\ DOMAIN received' = 1 .. Len(received) + 1
        /\ \A i \in 1 .. Len(received) : received'[i] = received[i]
        /\ received'[Len(received) + 1] = wire[1]
    BY <1>0, <2>1, <2>3, AppendAt
  <2>5. \A i \in 1 .. Len(wire) : wire[i] = Len(received) + i
    BY <2>1, <2>3 DEF Complete
  <2>6. \A i \in DOMAIN received' : received'[i] = i
    <3>1. \A i \in 1 .. Len(received) : received[i] = i
      BY <2>1, <2>4 DEF Complete
    <3>2. wire[1] = Len(received) + 1
      BY <2>2, <2>5
    <3>. QED
      BY <2>2, <2>4, <3>1, <3>2
  <2>7. ASSUME NEW i \in DOMAIN wire' PROVE wire'[i] = Len(received') + i
    <3>1. i \in 1 .. Len(wire) - 1 /\ i + 1 \in 1 .. Len(wire) /\ wire'[i] = wire[i + 1]
      BY <2>2, <2>3
    <3>2. wire[i + 1] = Len(received) + (i + 1)
      BY <2>5, <3>1
    <3>. QED
      BY <2>2, <3>1, <3>2
  <2>8. Len(received') + Len(wire') = Len(received) + Len(wire)
    BY <2>2
  <2>9. /\ Len(received') + Len(wire') + Len(outboundBuffer') = submitted'
        /\ \A i \in DOMAIN outboundBuffer' : outboundBuffer'[i] = Len(received') + Len(wire') + i
    BY <2>1, <2>8 DEF Complete
  <2>. QED
    BY <2>6, <2>7, <2>9 DEF Complete
<1>4. CASE Rests
  BY <1>4 DEF Rests, Complete, CompleteInv
<1>. QED
  BY <1>1, <1>2, <1>3, <1>4, QueueSteps

\* The invariant about the frames holds in every reachable state.
THEOREM FrameInvariance == Spec => []FrameInv
<1>1. Init => FrameInv
  <2>1. Init => LinkInv /\ EofInv
    BY DEF Init, LinkInv, EofInv
  <2>2. Init => OrderInv
    BY DEF Init, OrderInv, Strictly, Before, UpTo
  <2>3. Init => CompleteInv
    BY DEF Init, CompleteInv, Complete
  <2>. QED
    BY <2>1, <2>2, <2>3 DEF FrameInv
<1>2. IndInv /\ FrameInv /\ [Next]_vars => FrameInv'
  BY StepLink, StepEof, StepOrder, StepComplete DEF FrameInv
<1>. QED
  BY <1>1, <1>2, Invariance, PTL DEF Spec

\* The places of two queues put end to end.
LEMMA ConcatAt ==
  ASSUME NEW s \in Seq(Nat), NEW t \in Seq(Nat)
  PROVE  /\ s \o t \in Seq(Nat) /\ Len(s) \in Nat /\ Len(t) \in Nat
         /\ Len(s \o t) = Len(s) + Len(t)
         /\ \A i \in 1 .. Len(s) + Len(t) :
              (s \o t)[i] = IF i <= Len(s) THEN s[i] ELSE t[i - Len(s)]
OBVIOUS

\* The stream, piece by piece.
LEMMA StreamPieces ==
  ASSUME TypeOK
  PROVE  /\ Stream \in Seq(Nat)
         /\ Len(Stream) = Len(received) + Len(wire) + Len(outboundBuffer)
         /\ \A i \in 1 .. Len(Stream) :
              Stream[i] =
                IF i <= Len(received) THEN received[i]
                ELSE IF i <= Len(received) + Len(wire) THEN wire[i - Len(received)]
                ELSE outboundBuffer[i - Len(received) - Len(wire)]
<1>1. /\ received \in Seq(Nat) /\ wire \in Seq(Nat) /\ outboundBuffer \in Seq(Nat)
      /\ Len(received) \in Nat /\ Len(wire) \in Nat /\ Len(outboundBuffer) \in Nat
  BY DEF TypeOK, QueueTypes
<1>. DEFINE rw == received \o wire
<1>2. /\ rw \in Seq(Nat) /\ Len(rw) = Len(received) + Len(wire)
      /\ \A i \in 1 .. Len(rw) :
           rw[i] = IF i <= Len(received) THEN received[i] ELSE wire[i - Len(received)]
  BY <1>1, ConcatAt
<1>3. Stream = rw \o outboundBuffer
  BY DEF Stream
<1>. HIDE DEF rw
<1>4. /\ Stream \in Seq(Nat) /\ Len(Stream) = Len(rw) + Len(outboundBuffer)
      /\ \A i \in 1 .. Len(Stream) :
           Stream[i] = IF i <= Len(rw) THEN rw[i] ELSE outboundBuffer[i - Len(rw)]
  <2>1. /\ rw \o outboundBuffer \in Seq(Nat) /\ Len(rw \o outboundBuffer) = Len(rw) + Len(outboundBuffer)
        /\ \A i \in 1 .. Len(rw) + Len(outboundBuffer) :
             (rw \o outboundBuffer)[i] = IF i <= Len(rw) THEN rw[i] ELSE outboundBuffer[i - Len(rw)]
    BY <1>1, <1>2, ConcatAt
  <2>. QED
    BY <1>3, <2>1
<1>5. Len(rw) \in Nat /\ Len(Stream) = Len(received) + Len(wire) + Len(outboundBuffer)
  BY <1>1, <1>2, <1>4
<1>6. ASSUME NEW i \in 1 .. Len(Stream)
      PROVE  Stream[i] =
               IF i <= Len(received) THEN received[i]
               ELSE IF i <= Len(received) + Len(wire) THEN wire[i - Len(received)]
               ELSE outboundBuffer[i - Len(received) - Len(wire)]
  <2>1. CASE i <= Len(rw)
    <3>1. i \in 1 .. Len(rw) /\ Stream[i] = rw[i]
      BY <1>4, <1>5, <2>1
    <3>2. rw[i] = IF i <= Len(received) THEN received[i] ELSE wire[i - Len(received)]
      BY <1>2, <3>1
    <3>3. i <= Len(received) + Len(wire)
      BY <1>2, <2>1
    <3>. QED
      BY <3>1, <3>2, <3>3
  <2>2. CASE ~(i <= Len(rw))
    <3>1. Stream[i] = outboundBuffer[i - Len(rw)]
      BY <1>4, <2>2
    <3>2. i - Len(rw) = i - Len(received) - Len(wire) /\ ~(i <= Len(received))
          /\ ~(i <= Len(received) + Len(wire))
      BY <1>1, <1>2, <1>5, <2>2
    <3>. QED
      BY <3>1, <3>2
  <2>. QED
    BY <2>1, <2>2
<1>. QED
  BY <1>4, <1>5, <1>6

\* Where a place of the stream lies, and which queue it is a place of.
LEMMA StreamAt ==
  ASSUME TypeOK, NEW i \in DOMAIN Stream
  PROVE  \/ i \in DOMAIN received /\ Stream[i] = received[i] /\ i <= Len(received)
         \/ /\ i - Len(received) \in DOMAIN wire /\ Stream[i] = wire[i - Len(received)]
            /\ Len(received) < i /\ i <= Len(received) + Len(wire)
         \/ /\ i - Len(received) - Len(wire) \in DOMAIN outboundBuffer
            /\ Stream[i] = outboundBuffer[i - Len(received) - Len(wire)]
            /\ Len(received) + Len(wire) < i
<1>1. /\ DOMAIN received = 1 .. Len(received) /\ DOMAIN wire = 1 .. Len(wire)
      /\ DOMAIN outboundBuffer = 1 .. Len(outboundBuffer)
      /\ Len(received) \in Nat /\ Len(wire) \in Nat /\ Len(outboundBuffer) \in Nat
  BY DEF TypeOK, QueueTypes
<1>2. i \in 1 .. Len(received) + Len(wire) + Len(outboundBuffer)
  BY StreamPieces
<1>3. Stream[i] =
        IF i <= Len(received) THEN received[i]
        ELSE IF i <= Len(received) + Len(wire) THEN wire[i - Len(received)]
        ELSE outboundBuffer[i - Len(received) - Len(wire)]
  <2>1. i \in 1 .. Len(Stream)
    BY StreamPieces
  <2>. QED
    BY <2>1, StreamPieces
<1>4. CASE i <= Len(received)
  BY <1>1, <1>2, <1>3, <1>4
<1>5. CASE ~(i <= Len(received)) /\ i <= Len(received) + Len(wire)
  <2>1. i - Len(received) \in 1 .. Len(wire) /\ Len(received) < i
    BY <1>1, <1>2, <1>5
  <2>. QED
    BY <1>1, <1>3, <1>5, <2>1
<1>6. CASE ~(i <= Len(received)) /\ ~(i <= Len(received) + Len(wire))
  <2>1. i - Len(received) - Len(wire) \in 1 .. Len(outboundBuffer) /\ Len(received) + Len(wire) < i
    BY <1>1, <1>2, <1>6
  <2>. QED
    BY <1>1, <1>3, <1>6, <2>1
<1>. QED
  BY <1>4, <1>5, <1>6

\* Frames reach the kernel in the order they were submitted in, none of them
\* twice, for every number of frames and every kernel that connects, hangs up,
\* crashes or never answers (writeFrame, the flush in listenSocket).
THEOREM FramesInOrder == Spec => []FrameOrder
<1>1. TypeOK /\ FrameInv => FrameOrder
  <2>. SUFFICES ASSUME TypeOK, FrameInv PROVE FrameOrder
    OBVIOUS
  <2>1. OrderInv /\ Len(received) \in Nat /\ Len(wire) \in Nat
    BY DEF FrameInv, TypeOK, QueueTypes
  <2>2. DOMAIN Stream \subseteq Nat
    BY StreamPieces
  <2>3. ASSUME NEW i \in DOMAIN Stream PROVE Stream[i] <= submitted
    BY <2>1, StreamAt DEF OrderInv, UpTo
  <2>4. ASSUME NEW i \in DOMAIN Stream, NEW j \in DOMAIN Stream, i < j
        PROVE  Stream[i] < Stream[j]
    <3>. i \in Nat /\ j \in Nat
      BY <2>2
    <3>1. CASE i \in DOMAIN received /\ Stream[i] = received[i] /\ i <= Len(received)
      BY <2>1, <2>4, <3>1, StreamAt DEF OrderInv, Strictly, Before
    <3>2. CASE /\ i - Len(received) \in DOMAIN wire /\ Stream[i] = wire[i - Len(received)]
               /\ Len(received) < i
      <4>1. ~(j <= Len(received)) /\ i - Len(received) < j - Len(received)
        BY <2>1, <2>4, <3>2
      <4>. QED
        BY <2>1, <3>2, <4>1, StreamAt DEF OrderInv, Strictly, Before
    <3>3. CASE /\ i - Len(received) - Len(wire) \in DOMAIN outboundBuffer
               /\ Stream[i] = outboundBuffer[i - Len(received) - Len(wire)]
               /\ Len(received) + Len(wire) < i
      <4>1. /\ ~(j <= Len(received)) /\ ~(j <= Len(received) + Len(wire))
            /\ i - Len(received) - Len(wire) < j - Len(received) - Len(wire)
        BY <2>1, <2>4, <3>3
      <4>. QED
        BY <2>1, <3>3, <4>1, StreamAt DEF OrderInv, Strictly
    <3>. QED
      BY <3>1, <3>2, <3>3, StreamAt
  <2>. QED
    BY <2>3, <2>4 DEF FrameOrder, Strictly
<1>. QED
  BY <1>1, FrameInvariance, TypeCorrect, PTL

\* Until the data plane first goes down every submitted frame is read, on the
\* wire or buffered, in its place.
THEOREM NoneLost == Spec => []NoFrameLost
<1>1. TypeOK /\ FrameInv => NoFrameLost
  <2>. SUFFICES ASSUME TypeOK, FrameInv, link \in {"none", "up"}
                PROVE  Stream = [i \in 1 .. submitted |-> i]
    BY DEF NoFrameLost
  <2>1. /\ received \in Seq(Nat) /\ wire \in Seq(Nat) /\ outboundBuffer \in Seq(Nat)
        /\ Len(received) \in Nat /\ Len(wire) \in Nat /\ Len(outboundBuffer) \in Nat
    BY DEF TypeOK, QueueTypes
  <2>2. Complete
    BY DEF FrameInv, CompleteInv
  <2>3. Len(Stream) = submitted /\ DOMAIN Stream = 1 .. submitted
    BY <2>2, StreamPieces DEF Complete
  <2>4. ASSUME NEW i \in 1 .. submitted PROVE Stream[i] = i
    <3>1. \/ i \in DOMAIN received /\ Stream[i] = received[i]
          \/ i - Len(received) \in DOMAIN wire /\ Stream[i] = wire[i - Len(received)]
          \/ /\ i - Len(received) - Len(wire) \in DOMAIN outboundBuffer
             /\ Stream[i] = outboundBuffer[i - Len(received) - Len(wire)]
      BY <2>3, StreamAt
    <3>2. /\ Len(received) + (i - Len(received)) = i
          /\ Len(received) + Len(wire) + (i - Len(received) - Len(wire)) = i
      BY <2>1, submitted \in Nat DEF TypeOK, QueueTypes
    <3>. QED
      BY <2>2, <3>1, <3>2 DEF Complete
  <2>. QED
    BY <2>3, <2>4, StreamPieces
<1>. QED
  BY <1>1, FrameInvariance, TypeCorrect, PTL

-----------------------------------------------------------------------------
(* The client implements the channel.                                      *)

\* Frames are numbered from 1.
Numbered ==
  /\ \A i \in DOMAIN wire : wire[i] # 0
  /\ \A i \in DOMAIN outboundBuffer : outboundBuffer[i] # 0

\* No queue holds a frame 0, which the channel keeps for "none was read".
THEOREM FramesNumbered == Spec => []Numbered
<1>1. Init => Numbered
  BY DEF Init, Numbered
<1>2. IndInv /\ Numbered /\ [Next]_vars => Numbered'
  <2>. SUFFICES ASSUME IndInv, Numbered, [Next]_vars PROVE Numbered'
    OBVIOUS
  <2>0. wire \in Seq(Nat) /\ outboundBuffer \in Seq(Nat) /\ submitted \in Nat
    BY DEF IndInv, TypeOK, QueueTypes
  <2>1. CASE Submits
    <3>1. submitted + 1 \in Nat /\ submitted + 1 # 0
      BY <2>0
    <3>2. ASSUME NEW s \in Seq(Nat), \A i \in DOMAIN s : s[i] # 0
          PROVE  \A i \in DOMAIN Append(s, submitted + 1) : Append(s, submitted + 1)[i] # 0
      BY <2>0, <3>1, <3>2, AppendAt
    <3>3. \/ wire' = wire \/ wire' = Append(wire, submitted + 1)
      BY <2>1 DEF Submits, writeFrame
    <3>4. \/ outboundBuffer' = outboundBuffer
          \/ outboundBuffer' = Append(outboundBuffer, submitted + 1)
      BY <2>1 DEF Submits, writeFrame
    <3>. QED
      BY <2>0, <3>2, <3>3, <3>4 DEF Numbered
  <2>2. CASE Flushes
    BY <2>2 DEF Flushes, acceptFirst, Numbered
  <2>3. CASE Reads
    <3>1. wire # <<>> /\ wire' = Tail(wire) /\ outboundBuffer' = outboundBuffer
      BY <2>3 DEF Reads
    <3>2. ASSUME NEW i \in DOMAIN wire' PROVE wire'[i] # 0
      <4>1. /\ i \in 1 .. Len(wire) - 1 /\ Len(wire) \in Nat
            /\ wire'[i] = wire[i + 1] /\ DOMAIN wire = 1 .. Len(wire)
        BY <2>0, <3>1, TailAt
      <4>2. i + 1 \in DOMAIN wire
        BY <4>1
      <4>. QED
        BY <4>1, <4>2 DEF Numbered
    <3>. QED
      BY <3>1, <3>2 DEF Numbered
  <2>4. CASE Rests
    BY <2>4 DEF Rests, Numbered
  <2>. QED
    BY <2>1, <2>2, <2>3, <2>4, QueueSteps
<1>. QED
  BY <1>1, <1>2, Invariance, PTL DEF Spec

\* What the channel calls failed: the data plane has gone down.
Failed == link \notin {"none", "up"}

\* The frame that the kernel read last bounds what it has read, and is their
\* number until the data plane goes down.
LEMMA LastReadFacts ==
  ASSUME TypeOK, FrameInv
  PROVE  /\ Channel!LastRead \in Nat
         /\ Channel!LastRead = 0 \/ \E i \in DOMAIN received : Channel!LastRead = received[i]
         /\ ~Failed => Channel!LastRead = Len(received)
<1>1. received \in Seq(Nat) /\ Len(received) \in Nat /\ DOMAIN received = 1 .. Len(received)
  BY DEF TypeOK, QueueTypes
<1>2. CASE received = <<>>
  <2>1. Channel!LastRead = 0 /\ Len(received) = 0
    BY <1>2 DEF Channel!LastRead
  <2>. QED
    BY <2>1
<1>3. CASE received # <<>>
  <2>1. Channel!LastRead = received[Len(received)]
    BY <1>3 DEF Channel!LastRead
  <2>2. Len(received) \in DOMAIN received /\ received[Len(received)] \in Nat
    BY <1>1, <1>3
  <2>3. ~Failed => received[Len(received)] = Len(received)
    BY <2>2 DEF Failed, FrameInv, CompleteInv, Complete
  <2>. QED
    BY <2>1, <2>2, <2>3
<1>. QED
  BY <1>2, <1>3

\* A read of the kernel is a read of the channel.
LEMMA ReadsRefine ==
  ASSUME TypeOK, FrameInv, Numbered, Reads
  PROVE  \E n \in 1 .. submitted : Channel!Read(n)
<1>1. wire \in Seq(Nat) /\ wire # <<>> /\ submitted \in Nat /\ Len(received) \in Nat
  BY DEF TypeOK, QueueTypes, Reads
<1>2. 1 \in DOMAIN wire /\ wire[1] = Head(wire) /\ wire[1] \in Nat
  BY <1>1
<1>3. wire[1] <= submitted /\ \A i \in DOMAIN received : received[i] < wire[1]
  BY <1>2 DEF FrameInv, OrderInv, UpTo, Before
<1>4. ~Failed => wire[1] = Len(received) + 1
  BY <1>1, <1>2 DEF Failed, FrameInv, CompleteInv, Complete
<1>5. wire[1] # 0
  BY <1>2 DEF Numbered
<1>6. Channel!LastRead < wire[1]
  BY <1>2, <1>3, <1>5, LastReadFacts
<1>7. wire[1] \in Channel!LastRead + 1 .. submitted /\ wire[1] \in 1 .. submitted
  BY <1>1, <1>2, <1>3, <1>5, <1>6, LastReadFacts
<1>8. ~Failed => wire[1] = Channel!LastRead + 1
  BY <1>4, LastReadFacts
<1>9. received' = Append(received, wire[1]) /\ UNCHANGED <<submitted, link>>
  BY <1>2 DEF Reads
<1>10. Channel!Read(wire[1])
  BY <1>7, <1>8, <1>9 DEF Channel!Read, Failed
<1>. QED
  BY <1>7, <1>10

\* Every step of the client is a step of the channel or leaves it alone.
LEMMA StepRefines ==
  IndInv /\ FrameInv /\ Numbered /\ [Next]_vars => [Channel!Next]_(Channel!vars)
<1>. SUFFICES ASSUME IndInv, FrameInv, Numbered, [Next]_vars
              PROVE  [Channel!Next]_(Channel!vars)
  OBVIOUS
<1>1. CASE Submits
  <2>1. submitted' = submitted + 1 /\ UNCHANGED <<received, link>>
    BY <1>1 DEF Submits
  <2>2. Channel!Submit
    BY <2>1 DEF Channel!Submit
  <2>. QED
    BY <2>2 DEF Channel!Next
<1>2. CASE Flushes
  <2>1. link = "none" /\ link' = "up" /\ UNCHANGED <<received, submitted>>
    BY <1>2 DEF Flushes, acceptFirst, FrameInv, LinkInv
  <2>. QED
    BY <2>1 DEF Channel!vars
<1>3. CASE Reads
  <2>1. \E n \in 1 .. submitted : Channel!Read(n)
    BY <1>3, ReadsRefine DEF IndInv
  <2>. QED
    BY <2>1 DEF Channel!Next
<1>4. CASE Rests
  <2>1. UNCHANGED <<received, submitted>> /\ (~Failed' => ~Failed)
    BY <1>4 DEF Rests, Failed
  <2>2. CASE ~Failed /\ Failed'
    <3>1. Channel!Fail
      BY <2>1, <2>2 DEF Channel!Fail, Failed
    <3>. QED
      BY <3>1 DEF Channel!Next
  <2>3. CASE Failed' = Failed
    BY <2>1, <2>3 DEF Channel!vars, Failed
  <2>. QED
    BY <2>1, <2>2, <2>3 DEF Failed
<1>. QED
  BY <1>1, <1>2, <1>3, <1>4, QueueSteps

\* The client implements the channel: the kernel reads the submitted frames one
\* after the other until the data plane goes down, none of them late or twice
\* after that, and a data plane that went down stays down, for any number of
\* frames and whatever the kernel does (listenSocket, writeFrame, dispose).
THEOREM ChannelImplemented == Spec => ImplementsChannel
<1>1. Init => Channel!Init
  BY DEF Init, Channel!Init
<1>. QED
  BY <1>1, StepRefines, Invariance, FrameInvariance, FramesNumbered, PTL
     DEF Spec, ImplementsChannel, Channel!Spec

-----------------------------------------------------------------------------
(* The heartbeat watchdog.                                                 *)

\* Why there is no second warning: while warned is down, none was shown since
\* the last heartbeat, and only poll shows one and raises it in the same step.
CountFollowsFlag == ~warned => warnings = 0

WInv == HeartbeatTypeOK /\ CountFollowsFlag /\ OneWarningPerAbsence

LEMMA InitW == HeartbeatInit => WInv
<1>. SUFFICES ASSUME HeartbeatInit PROVE WInv
  OBVIOUS
<1>1. /\ kernel \in {"starting", "up", "hung", "dead"}
      /\ seen \in BOOLEAN /\ warned \in BOOLEAN /\ timer \in BOOLEAN /\ due \in BOOLEAN
      /\ ~warned
  BY Zenon DEF HeartbeatInit
<1>2. /\ flight \in 0 .. MaxFlight /\ since \in 0 .. Timeout + 1
      /\ warnings \in 0 .. MaxWarnings /\ warnings = 0 /\ warnings <= 1
  BY HeartbeatAssumption, SMT DEF HeartbeatInit
<1>. QED
  BY <1>1, <1>2 DEF WInv, HeartbeatTypeOK, CountFollowsFlag, OneWarningPerAbsence

LEMMA NextW == WInv /\ [HeartbeatNext]_heartbeatVars => WInv'
<1>. SUFFICES ASSUME WInv, [HeartbeatNext]_heartbeatVars PROVE WInv'
  OBVIOUS
<1>. USE HeartbeatAssumption DEF WInv, CountFollowsFlag, HeartbeatTypeOK, OneWarningPerAbsence
<1>1. CASE KernelBeats
  BY <1>1 DEF KernelBeats
<1>2. CASE KernelHangs \/ KernelRecovers \/ KernelDies
  BY <1>2 DEF KernelHangs, KernelRecovers, KernelDies
\* A heartbeat clears the flag together with what it stands for.
<1>3. CASE onHeartbeatKernel
  <2>1. seen' \in BOOLEAN /\ warned' \in BOOLEAN /\ ~warned'
    BY <1>3, Zenon DEF onHeartbeatKernel, newWindow
  <2>2. /\ flight' \in 0 .. MaxFlight /\ since' \in 0 .. Timeout + 1
        /\ warnings' \in 0 .. MaxWarnings /\ warnings' = 0
        /\ UNCHANGED <<kernel, timer, due>>
    BY <1>3, SMT DEF onHeartbeatKernel
  <2>. QED
    BY <2>1, <2>2
<1>4. CASE Tick
  BY <1>4 DEF Tick
\* A poll warns only with the flag down, hence about the first time.
<1>5. CASE poll
  <2>1. CASE mustWarn
    <3>1. seen /\ ~warned /\ warnings = 0
      BY <2>1 DEF mustWarn, overdue
    <3>2. warned' \in BOOLEAN /\ warned' /\ due' \in BOOLEAN /\ seen'
      BY <1>5, <2>1, <3>1, Zenon DEF poll
    <3>3. /\ warnings' = 1
          /\ UNCHANGED <<kernel, flight, seen, since, timer>>
      BY <1>5, <2>1, <3>1, SMT DEF poll
    <3>. QED
      BY <3>2, <3>3
  <2>2. CASE ~mustWarn
    BY <1>5, <2>2 DEF poll
  <2>. QED
    BY <2>1, <2>2
<1>6. CASE stop
  BY <1>6 DEF stop
<1>7. CASE UNCHANGED heartbeatVars
  BY <1>7 DEF heartbeatVars
<1>. QED
  BY <1>1, <1>2, <1>3, <1>4, <1>5, <1>6, <1>7 DEF HeartbeatNext

LEMMA AlwaysW == HeartbeatSpec => []WInv
BY InitW, NextW, PTL DEF HeartbeatSpec

\* The watchdog's state keeps its type, and it has warned only about a kernel
\* from which a heartbeat was received (poll's first early return).
THEOREM WatchdogTypeCorrect == HeartbeatSpec => []HeartbeatTypeOK
BY AlwaysW, PTL DEF WInv

\* Between two heartbeats the operator sees at most one warning, however often
\* the watchdog polls (the warned flag of HeartbeatConsumer).
THEOREM WarnsOnce == HeartbeatSpec => []OneWarningPerAbsence
BY AlwaysW, PTL DEF WInv
=============================================================================
