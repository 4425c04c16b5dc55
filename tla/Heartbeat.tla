----------------------------- MODULE Heartbeat -----------------------------
(***************************************************************************)
(* The heartbeat consumer and its liveness watchdog                        *)
(* (messaging/heartbeat-consumer.ts) as activate() wires them              *)
(* (extension.ts).  Time passes in ticks of the watchdog's poll interval;  *)
(* the timers of the two processes do not tick together, and a frame may   *)
(* be under way for some ticks.                                            *)
(*                                                                         *)
(* The kernel is external: it emits a heartbeat per interval while it      *)
(* runs, none while it hangs, and may die or be started again.             *)
(*                                                                         *)
(* KeepWarned, EveryPoll and StartClock are faulty variants of the         *)
(* definition that follows each; no action uses them.                      *)
(***************************************************************************)
EXTENDS Integers

CONSTANTS
  Timeout,     \* HEARTBEAT_LIVENESS_TIMEOUT_MS in ticks
  MaxFlight,   \* bound on the heartbeats under way
  MaxWarnings  \* bound on the number of warnings counted

ASSUME HeartbeatAssumption ==
  Timeout \in Nat \ {0} /\ MaxFlight \in Nat \ {0} /\ MaxWarnings \in Nat \ {0}

VARIABLES
  kernel,   \* "starting", "up", "hung" or "dead"
  flight,   \* heartbeats emitted and not delivered
  seen,     \* lastHeartbeatTimestamp is not 0
  since,    \* time since the last heartbeat or the start, at most Timeout + 1
  warned,   \* warned
  timer,    \* the poll interval is set
  due,      \* a poll is due
  warnings  \* warnings shown since the last heartbeat (history)

heartbeatVars == <<kernel, flight, seen, since, warned, timer, due, warnings>>

\* Types.  The watchdog has warned only about a kernel it has heard of.
HeartbeatTypeOK ==
  /\ kernel \in {"starting", "up", "hung", "dead"}
  /\ flight \in 0 .. MaxFlight /\ since \in 0 .. Timeout + 1
  /\ seen \in BOOLEAN /\ warned \in BOOLEAN /\ timer \in BOOLEAN /\ due \in BOOLEAN
  /\ warnings \in 0 .. MaxWarnings
  /\ warned => seen

\* activate() registers the observer, then starts the watchdog.
HeartbeatInit ==
  /\ kernel = "starting" /\ flight = 0 /\ seen = FALSE /\ since = 0
  /\ warned = FALSE /\ timer = TRUE /\ due = FALSE /\ warnings = 0

-----------------------------------------------------------------------------
(* The kernel.                                                             *)

KernelBeats ==
  /\ kernel \in {"starting", "up"} /\ flight < MaxFlight
  /\ kernel' = "up" /\ flight' = flight + 1
  /\ UNCHANGED <<seen, since, warned, timer, due, warnings>>

KernelHangs ==
  /\ kernel \in {"starting", "up"}
  /\ kernel' = "hung"
  /\ UNCHANGED <<flight, seen, since, warned, timer, due, warnings>>

KernelRecovers ==
  /\ kernel \in {"hung", "dead"}
  /\ kernel' = "starting"
  /\ UNCHANGED <<flight, seen, since, warned, timer, due, warnings>>

KernelDies ==
  /\ kernel # "dead"
  /\ kernel' = "dead"
  /\ UNCHANGED <<flight, seen, since, warned, timer, due, warnings>>

-----------------------------------------------------------------------------
(* The consumer.                                                           *)

KeepWarned == UNCHANGED warned

\* A heartbeat begins a new absence window.
newWindow == warned' = FALSE

onHeartbeatKernel ==
  /\ flight > 0 /\ flight' = flight - 1
  /\ seen' = TRUE /\ since' = 0 /\ warnings' = 0
  /\ newWindow
  /\ UNCHANGED <<kernel, timer, due>>

\* The clock moves on; the interval of the watchdog makes a poll due.
Tick ==
  /\ since' = IF since <= Timeout THEN since + 1 ELSE since
  /\ due' = timer
  /\ UNCHANGED <<kernel, flight, seen, warned, timer, warnings>>

StartClock == since > Timeout

\* poll() does not flag a kernel that may still be starting.
overdue == seen /\ since > Timeout

\* isHealthy in activate(): PtyKernelClient has no isPtyHealthy, so the gate
\* is always open, also for a kernel that has died.
isHealthy == TRUE

EveryPoll == overdue /\ isHealthy

\* poll() warns once per window, and never before the first heartbeat.
mustWarn == overdue /\ isHealthy /\ ~warned

poll ==
  /\ due /\ due' = FALSE
  /\ IF mustWarn
     THEN /\ warned' = TRUE
          /\ warnings' = IF warnings < MaxWarnings THEN warnings + 1 ELSE warnings
     ELSE UNCHANGED <<warned, warnings>>
  /\ UNCHANGED <<kernel, flight, seen, since, timer>>

\* dispose(), when the extension is deactivated.
stop ==
  /\ timer /\ timer' = FALSE /\ due' = FALSE
  /\ UNCHANGED <<kernel, flight, seen, since, warned, warnings>>

HeartbeatNext ==
  \/ KernelBeats \/ KernelHangs \/ KernelRecovers \/ KernelDies
  \/ onHeartbeatKernel \/ Tick \/ poll \/ stop

\* Time passes, an interval timer fires, and the router delivers.
HeartbeatFairness == WF_heartbeatVars(Tick) /\ WF_heartbeatVars(poll) /\ WF_heartbeatVars(onHeartbeatKernel)

HeartbeatSpec == HeartbeatInit /\ [][HeartbeatNext]_heartbeatVars /\ HeartbeatFairness

-----------------------------------------------------------------------------
(* Properties.                                                             *)

\* The operator sees at most one warning per absence of heartbeats, however
\* many polls find the kernel absent.
OneWarningPerAbsence == warnings <= 1

\* A kernel that hangs after its first heartbeat, its process alive, is reported
\* every time it does so, unless it stops hanging or the extension stops first:
\* neither heartbeats that were still under way nor the warning about an earlier
\* absence hide it.  A kernel that has died is the exit handler's business.
AbsenceReported ==
  (kernel = "hung" /\ seen /\ timer) ~> (warnings > 0 \/ kernel # "hung" \/ ~timer)

\* "The watchdog suppresses the warning when PTY is unhealthy": a kernel whose
\* process has died is not called hung.  Not so, since nothing reports its health.
DeadNotCalledHung == [][~warned /\ warned' => kernel # "dead"]_heartbeatVars
=============================================================================
