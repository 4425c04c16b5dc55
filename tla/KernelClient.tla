---------------------------- MODULE KernelClient ----------------------------
(***************************************************************************)
(* The lifecycle and the transport of PtyKernelClient                      *)
(* (extension/src/notebook/pty-kernel-client.ts): one kernel subprocess    *)
(* under a PTY, one data-plane socket on which that kernel is the only     *)
(* client, the kernel.ready handshake, the buffering of outbound frames    *)
(* and the shutdown escalation.                                            *)
(*                                                                         *)
(* One step is one turn of the extension host's event loop: an await, a    *)
(* timer, a socket event or a PTY event separates two steps, everything    *)
(* the code does synchronously is one step.  The kernel process itself is  *)
(* not in the repository; its steps are whatever the client must cope      *)
(* with, a crash at any moment included.                                   *)
(*                                                                         *)
(* WriteFrameUnbuffered, ReadyTimeoutKeepsPromise, AcceptWithoutClear,     *)
(* AcceptSecond, CompleteReadyTimerArmed, HandleReadyUnguarded and         *)
(* KillTimerNeverArmed are faulty variants of the definition that follows  *)
(* each; no action uses them.                                              *)
(***************************************************************************)
EXTENDS Integers, Sequences

CONSTANTS
  MaxFrames,        \* frames the extension submits before shutdown
  MaxInbound,       \* frames in flight from the kernel
  ExpectedVersion,  \* <<major, minor, patch>> of EXTENSION_RFC_VERSIONS
  KernelVersions    \* the versions a kernel may report

ASSUME BoundsAssumption == MaxFrames \in Nat /\ MaxInbound \in Nat \ {0}

ASSUME VersionsAssumption ==
  /\ ExpectedVersion \in Nat \X Nat \X Nat
  /\ KernelVersions \subseteq Nat \X Nat \X Nat

VARIABLES
  ready,          \* readyPromise: "idle" until start() creates it
  isReady,        \* _isReady
  readyTimer,     \* whether readyTimer is armed
  driftEvents,    \* severities recorded by handleReadyRecord
  server,         \* the listening socket
  serverRef,      \* whether this.server still refers to it
  socket,         \* this.socket: "ended" is set but at EOF
  outboundBuffer, \* frames submitted while there was no socket
  submitted,      \* number of frames passed to writeFrame; frame i is the i-th
  stopFrame,      \* which frame is kernel.shutdown_request, 0 if none
  disposed,       \* shutdown() has been called
  shut,           \* where the shutdown() call stands
  stage,          \* its two escalation timers
  proc,           \* the PTY process; "exited" until the exit event is handled
  signals,        \* signals delivered to the process
  link,           \* the kernel's end of the data plane
  saidReady,      \* whether the kernel has emitted kernel.ready
  kernelVersion,  \* the version it reports
  wire,           \* frames on their way to the kernel
  received,       \* frames the kernel has read
  inbound         \* frames on their way to the client

readyVars  == <<ready, isReady, readyTimer, driftEvents>>
serverVars == <<server, serverRef>>
outVars    == <<outboundBuffer, submitted, wire, received>>
shutVars   == <<disposed, shut, stage, stopFrame>>
procVars   == <<proc, signals>>
kernelVars == <<link, saidReady, kernelVersion>>
vars == <<ready, isReady, readyTimer, driftEvents, server, serverRef, socket,
          outboundBuffer, submitted, stopFrame, disposed, shut, stage, proc,
          signals, link, saidReady, kernelVersion, wire, received, inbound>>

Severities == {"none", "major_mismatch", "minor_mismatch", "unknown"}

ClientTypes ==
  /\ ready \in {"idle", "pending", "resolved", "rejected"}
  /\ isReady \in BOOLEAN
  /\ readyTimer \in BOOLEAN
  /\ server \in {"none", "binding", "listening", "closed"}
  /\ serverRef \in BOOLEAN
  /\ socket \in {"none", "open", "ended"}
  /\ disposed \in BOOLEAN
  /\ shut \in {"idle", "waitExit", "exitSeen", "done"}
  /\ stage \in {"off", "armed", "termed", "killed"}

KernelTypes ==
  /\ proc \in {"none", "running", "exited", "reaped"}
  /\ signals \in SUBSET {"TERM", "KILL"}
  /\ link \in {"none", "up", "closed", "refused"}
  /\ saidReady \in BOOLEAN
  /\ kernelVersion \in KernelVersions

QueueTypes ==
  /\ submitted \in Nat
  /\ stopFrame \in Nat
  /\ driftEvents \in Seq(Severities)
  /\ outboundBuffer \in Seq(Nat)
  /\ wire \in Seq(Nat)
  /\ received \in Seq(Nat)
  /\ inbound \in Seq({"ready", "run", "eof"})

TypeOK == ClientTypes /\ KernelTypes /\ QueueTypes

Init ==
  /\ ready = "idle" /\ isReady = FALSE /\ readyTimer = FALSE
  /\ driftEvents = <<>>
  /\ server = "none" /\ serverRef = FALSE /\ socket = "none"
  /\ outboundBuffer = <<>> /\ submitted = 0 /\ stopFrame = 0
  /\ disposed = FALSE /\ shut = "idle" /\ stage = "off"
  /\ proc = "none" /\ signals = {}
  /\ link = "none" /\ saidReady = FALSE
  /\ kernelVersion \in KernelVersions
  /\ wire = <<>> /\ received = <<>> /\ inbound = <<>>

-----------------------------------------------------------------------------
(* Helpers of the client.                                                  *)

\* compareVersions: the patch number alone is "unknown" drift.
compareVersions(expected, observed) ==
  CASE expected = observed       -> "none"
    [] expected[1] # observed[1] -> "major_mismatch"
    [] expected[1] = observed[1] /\ expected[2] # observed[2] -> "minor_mismatch"
    [] OTHER                     -> "unknown"

\* failReady: rejects only a promise that is still pending.
failReady ==
  /\ readyTimer' = FALSE
  /\ ready' = IF ready = "pending" THEN "rejected" ELSE ready

\* kill(signal) on a process that is gone throws and the code swallows it.
kill(sig) == signals' = IF proc = "running" THEN signals \cup {sig} ELSE signals

WriteFrameUnbuffered(n) ==
  /\ UNCHANGED outboundBuffer
  /\ wire' = IF socket # "none" /\ link = "up" THEN Append(wire, n) ELSE wire

\* writeFrame of frame n: into the buffer without a socket; on a socket whose
\* peer has closed the bytes go nowhere.
writeFrame(n) ==
  /\ outboundBuffer' = IF socket = "none" THEN Append(outboundBuffer, n)
                                          ELSE outboundBuffer
  /\ wire' = IF socket # "none" /\ link = "up" THEN Append(wire, n) ELSE wire

\* dispose(): cancel the ready timer, destroy the socket with whatever it
\* still held, close the server.  Closing a server whose bind is in flight
\* either cancels the bind for good (the listening event is never emitted) or
\* comes too early and has no effect.
dispose ==
  /\ readyTimer' = FALSE
  /\ socket' = "none"
  /\ inbound' = <<>>
  /\ link' = IF link = "up" THEN "closed" ELSE link
  /\ serverRef' = FALSE
  /\ server' \in CASE serverRef /\ server = "listening" -> {"closed"}
                   [] serverRef /\ server = "binding"   -> {"closed", "binding"}
                   [] OTHER                             -> {server}

-----------------------------------------------------------------------------
(* start(): listen, then spawn the kernel and arm the ready timeout.       *)

Start ==
  /\ ready = "idle"
  /\ ready' = "pending"
  /\ server' = "binding"
  /\ serverRef' = TRUE
  /\ UNCHANGED <<isReady, readyTimer, driftEvents, socket, inbound>>
  /\ UNCHANGED <<outVars, shutVars, procVars, kernelVars>>

\* The bind succeeded: the rest of start() runs without another await.
ListenThenSpawn ==
  /\ server = "binding"
  /\ server' = "listening"
  /\ proc' = "running"
  /\ readyTimer' = TRUE
  /\ UNCHANGED <<ready, isReady, driftEvents, serverRef, socket, inbound, signals>>
  /\ UNCHANGED <<outVars, shutVars, kernelVars>>

\* K2: node-pty cannot be loaded or spawn throws; the server stays open.
ListenThenSpawnFails ==
  /\ server = "binding"
  /\ server' = "listening"
  /\ failReady
  /\ UNCHANGED <<isReady, driftEvents, serverRef, socket, inbound>>
  /\ UNCHANGED <<outVars, shutVars, procVars, kernelVars>>

\* K1: the bind failed, so no kernel is spawned.
ListenFails ==
  /\ server = "binding"
  /\ server' = "closed"
  /\ failReady
  /\ UNCHANGED <<isReady, driftEvents, serverRef, socket, inbound>>
  /\ UNCHANGED <<outVars, shutVars, procVars, kernelVars>>

ReadyTimeoutKeepsPromise ==
  /\ readyTimer
  /\ readyTimer' = FALSE
  /\ kill("TERM")
  /\ UNCHANGED <<ready, isReady, driftEvents, socket, inbound, proc>>
  /\ UNCHANGED <<serverVars, outVars, shutVars, kernelVars>>

\* K3: the armed timer fires.
ReadyTimeout ==
  /\ readyTimer
  /\ failReady
  /\ kill("TERM")
  /\ UNCHANGED <<isReady, driftEvents, socket, inbound, proc>>
  /\ UNCHANGED <<serverVars, outVars, shutVars, kernelVars>>

-----------------------------------------------------------------------------
(* The data plane.                                                         *)

\* sendEnvelope(), at any time in the client's life.
SendEnvelope ==
  /\ submitted < MaxFrames
  /\ submitted' = submitted + 1
  /\ writeFrame(submitted + 1)
  /\ UNCHANGED <<received, socket, inbound>>
  /\ UNCHANGED <<readyVars, serverVars, shutVars, procVars, kernelVars>>

AcceptWithoutClear ==
  /\ socket' = "open"
  /\ link' = "up"
  /\ wire' = outboundBuffer
  /\ UNCHANGED outboundBuffer

\* The connection callback of listenSocket: the first client gets the buffer.
acceptFirst ==
  /\ socket' = "open"
  /\ link' = "up"
  /\ wire' = outboundBuffer
  /\ outboundBuffer' = <<>>

AcceptSecond == acceptFirst

\* K10: while this.socket is set every other connection is ended.
rejectSecond ==
  /\ link' = "refused"
  /\ UNCHANGED <<socket, wire, outboundBuffer>>

KernelConnects ==
  /\ proc = "running" /\ server = "listening"
  /\ link \in {"none", "closed"}
  /\ IF socket = "none" THEN acceptFirst ELSE rejectSecond
  /\ UNCHANGED <<submitted, received, inbound, saidReady, kernelVersion>>
  /\ UNCHANGED <<readyVars, serverVars, shutVars, procVars>>

CompleteReadyTimerArmed ==
  /\ isReady' = TRUE
  /\ ready' = IF ready = "pending" THEN "resolved" ELSE ready
  /\ UNCHANGED readyTimer

completeReady ==
  /\ readyTimer' = FALSE
  /\ isReady' = TRUE
  /\ ready' = IF ready = "pending" THEN "resolved" ELSE ready

\* handleReadyRecord: drift is recorded, then completeReady() whatever it is.
handleReadyRecord ==
  LET drift == compareVersions(ExpectedVersion, kernelVersion) IN
  /\ driftEvents' = IF drift = "none" THEN driftEvents
                                      ELSE Append(driftEvents, drift)
  /\ completeReady

HandleReadyUnguarded ==
  /\ socket = "open" /\ inbound # <<>> /\ Head(inbound) = "ready"
  /\ inbound' = Tail(inbound)
  /\ handleReadyRecord
  /\ UNCHANGED socket
  /\ UNCHANGED <<serverVars, outVars, shutVars, procVars, kernelVars>>

\* dispatchLine -> routeLogRecord on kernel.ready, acted on only while the
\* ready promise is pending.
HandleReady ==
  /\ socket = "open" /\ inbound # <<>> /\ Head(inbound) = "ready"
  /\ inbound' = Tail(inbound)
  /\ IF ready = "pending" THEN handleReadyRecord ELSE UNCHANGED readyVars
  /\ UNCHANGED socket
  /\ UNCHANGED <<serverVars, outVars, shutVars, procVars, kernelVars>>

\* Any other frame goes to the router, a cell's sink or the Comm sink and
\* leaves the client's own state alone.
HandleRun ==
  /\ socket = "open" /\ inbound # <<>> /\ Head(inbound) = "run"
  /\ inbound' = Tail(inbound)
  /\ UNCHANGED <<readyVars, socket>>
  /\ UNCHANGED <<serverVars, outVars, shutVars, procVars, kernelVars>>

\* onSocketEnd (K6): this.socket keeps referring to the ended socket.
HandleSocketEnd ==
  /\ socket = "open" /\ inbound # <<>> /\ Head(inbound) = "eof"
  /\ inbound' = Tail(inbound)
  /\ socket' = "ended"
  /\ IF ready = "pending" THEN failReady ELSE UNCHANGED <<ready, readyTimer>>
  /\ UNCHANGED <<isReady, driftEvents>>
  /\ UNCHANGED <<serverVars, outVars, shutVars, procVars, kernelVars>>

-----------------------------------------------------------------------------
(* shutdown() and the end of the process.                                  *)

\* The exit listener is registered here: a process that has already reported
\* its exit never reports it again.  deactivate() calls shutdown() and runs
\* after activate(), which has called start().
Shutdown ==
  /\ ready # "idle" /\ ~disposed
  /\ disposed' = TRUE
  /\ readyTimer' = FALSE
  /\ submitted' = submitted + 1
  /\ stopFrame' = submitted + 1
  /\ writeFrame(submitted + 1)
  /\ shut' = IF proc = "none" THEN "exitSeen" ELSE "waitExit"
  /\ stage' = "armed"
  /\ UNCHANGED <<ready, isReady, driftEvents, received, socket, inbound>>
  /\ UNCHANGED <<serverVars, procVars, kernelVars>>

GraceExpires ==
  /\ shut = "waitExit" /\ stage = "armed"
  /\ stage' = "termed"
  /\ kill("TERM")
  /\ UNCHANGED <<disposed, shut, stopFrame, proc, socket, inbound>>
  /\ UNCHANGED <<readyVars, serverVars, outVars, kernelVars>>

KillTimerNeverArmed ==
  /\ shut = "waitExit" /\ stage = "termed"
  /\ stage' = "killed"
  /\ UNCHANGED <<disposed, shut, stopFrame, procVars, socket, inbound>>
  /\ UNCHANGED <<readyVars, serverVars, outVars, kernelVars>>

FullGraceExpires ==
  /\ shut = "waitExit" /\ stage = "termed"
  /\ stage' = "killed"
  /\ kill("KILL")
  /\ UNCHANGED <<disposed, shut, stopFrame, proc, socket, inbound>>
  /\ UNCHANGED <<readyVars, serverVars, outVars, kernelVars>>

\* onPtyExit (K7) and, when shutdown() is waiting, its own exit listener.
PtyExit ==
  /\ proc = "exited"
  /\ proc' = "reaped"
  /\ IF ready = "pending" THEN failReady ELSE UNCHANGED ready
  /\ dispose
  /\ shut' = IF shut = "waitExit" THEN "exitSeen" ELSE shut
  /\ UNCHANGED <<isReady, driftEvents, signals, disposed, stage, stopFrame>>
  /\ UNCHANGED <<outVars, saidReady, kernelVersion>>

\* The finally block of shutdown().
ShutdownFinish ==
  /\ shut = "exitSeen"
  /\ shut' = "done"
  /\ stage' = "off"
  /\ dispose
  /\ UNCHANGED <<ready, isReady, driftEvents, disposed, stopFrame>>
  /\ UNCHANGED <<outVars, procVars, saidReady, kernelVersion>>

-----------------------------------------------------------------------------
(* The kernel process (external): RFC-008 makes kernel.ready its first     *)
(* frame; everything else it does is up to it.                             *)

KernelEmits(frame) ==
  /\ proc = "running" /\ link = "up" /\ Len(inbound) < MaxInbound
  /\ (frame = "ready") = ~saidReady
  /\ saidReady' = TRUE
  /\ inbound' = Append(inbound, frame)
  /\ UNCHANGED <<link, kernelVersion, socket>>
  /\ UNCHANGED <<readyVars, serverVars, outVars, shutVars, procVars>>

KernelReads ==
  /\ proc = "running" /\ wire # <<>>
  /\ received' = Append(received, Head(wire))
  /\ wire' = Tail(wire)
  /\ UNCHANGED <<outboundBuffer, submitted, socket, inbound>>
  /\ UNCHANGED <<readyVars, serverVars, shutVars, procVars, kernelVars>>

\* The kernel closes its end: the client reads what was sent, then EOF.
hangUp ==
  /\ link' = IF link = "up" THEN "closed" ELSE link
  /\ inbound' = IF link = "up" THEN Append(inbound, "eof") ELSE inbound

KernelClosesSocket ==
  /\ proc = "running" /\ link = "up"
  /\ hangUp
  /\ UNCHANGED <<saidReady, kernelVersion, socket>>
  /\ UNCHANGED <<readyVars, serverVars, outVars, shutVars, procVars>>

KernelExits ==
  /\ proc = "running"
  /\ proc' = "exited"
  /\ hangUp
  /\ UNCHANGED <<signals, saidReady, kernelVersion, socket>>
  /\ UNCHANGED <<readyVars, serverVars, outVars, shutVars>>

-----------------------------------------------------------------------------
StartNext == Start \/ ListenThenSpawn \/ ListenThenSpawnFails \/ ListenFails \/ ReadyTimeout

DataPlaneNext == SendEnvelope \/ KernelConnects \/ HandleReady \/ HandleRun \/ HandleSocketEnd

ShutdownNext == Shutdown \/ GraceExpires \/ FullGraceExpires \/ PtyExit \/ ShutdownFinish

KernelNext ==
  \/ \E f \in {"ready", "run"} : KernelEmits(f)
  \/ KernelReads \/ KernelClosesSocket \/ KernelExits

Next == StartNext \/ DataPlaneNext \/ ShutdownNext \/ KernelNext

Spec == Init /\ [][Next]_vars

\* The event loop delivers what has happened (a finished bind, an expired
\* timer, a readable socket, an exited process, a resolved promise), and the
\* operating system lets no process survive SIGKILL.  Nothing else is assumed
\* of the kernel: not that it connects, answers, or honours SIGTERM.
Fairness ==
  /\ WF_vars(ListenThenSpawn \/ ListenThenSpawnFails \/ ListenFails)
  /\ WF_vars(ReadyTimeout)
  /\ WF_vars(HandleReady \/ HandleRun \/ HandleSocketEnd)
  /\ WF_vars(GraceExpires)
  /\ WF_vars(FullGraceExpires)
  /\ WF_vars(PtyExit)
  /\ WF_vars(ShutdownFinish)
  /\ WF_vars("KILL" \in signals /\ KernelExits)

FairSpec == Spec /\ Fairness

-----------------------------------------------------------------------------
(* Properties.                                                             *)

Strictly(s) == \A i, j \in DOMAIN s : i < j => s[i] < s[j]

Stream == received \o wire \o outboundBuffer

\* The client reports itself ready (isReady, readyPromise) only after the
\* kernel really emitted kernel.ready, and both views of readiness agree
\* through timeouts, crashes and shutdown (completeReady, failReady).
HandshakeHonoured ==
  /\ isReady = (ready = "resolved")
  /\ isReady => saidReady

\* The kernel is sent SIGTERM only when the handshake failed or shutdown() was
\* called, and SIGKILL only after SIGTERM: the ready timeout can never fire at
\* a kernel that completed its handshake (armReadyTimeout, completeReady).
SignalsHaveCause ==
  /\ "TERM" \in signals => ready = "rejected" \/ disposed
  /\ "KILL" \in signals => disposed /\ "TERM" \in signals

\* Frames buffered before the connection, flushed by it and written after it
\* reach the kernel in submission order, none of them twice (writeFrame and
\* the flush in listenSocket).
FrameOrder == Strictly(Stream) /\ \A i \in DOMAIN Stream : Stream[i] <= submitted

\* Until the data plane first goes down no submitted frame is missing: each one
\* is read, on the wire or buffered.
NoFrameLost ==
  link \in {"none", "up"} => Stream = [i \in 1..submitted |-> i]

Channel == INSTANCE FrameChannel WITH failed <- link \notin {"none", "up"}

\* The client implements FrameChannel: what the kernel has read is never revised,
\* the next frame it reads is the next one submitted until the data plane goes
\* down and a later one afterwards, and a data plane that went down, with the
\* socket at EOF or destroyed, is not taken up again under other frames
\* (listenSocket, onSocketEnd, dispose).
ImplementsChannel == Channel!Spec

\* The ready promise settles at most once: a kernel.ready that arrives after
\* the timeout, a socket EOF or an exit does not revive the client, and a later
\* failure does not un-ready it.
ReadySettlesOnce ==
  [][ready # "idle" /\ ready # "pending" => UNCHANGED <<ready, isReady>>]_vars

\* start() never hangs: its promise settles, or shutdown() supersedes it (K1,
\* K2, K3, K7 each reject it).
StartSettles == (ready = "pending") ~> (ready # "pending" \/ disposed)

\* A shutdown() that finds the kernel alive gets rid of it and returns, even if
\* the kernel ignores the request and SIGTERM.
ShutdownStopsKernel ==
  (shut = "waitExit" /\ proc \in {"running", "exited"}) ~>
     (shut = "done" /\ proc = "reaped" /\ socket = "none")

-----------------------------------------------------------------------------
(* What the documentation says and the code does not do.                   *)

\* RFC-008 K7: when the PTY ends before the socket, the extension drains the
\* socket data still in flight and then closes (onPtyExit destroys the socket).
DrainsBeforeClose ==
  [][socket = "open" /\ socket' = "none" =>
       \A i \in DOMAIN inbound : inbound[i] = "eof"]_vars

\* The comment on shutdown(): SIGKILL after the full grace window, 10s total,
\* so every call comes to an end.
ShutdownReturns == disposed ~> (shut = "done")

\* The comments on compareVersions and KernelDriftEvent: a major version
\* mismatch is blocking (handleReadyRecord completes the handshake all the same).
MajorMismatchBlocks ==
  isReady => \A i \in DOMAIN driftEvents : driftEvents[i] # "major_mismatch"

=============================================================================
