---------------------------- MODULE MCHeartbeat ----------------------------
(* Heartbeat with the timeout of the code: 30 s of 5 s polls.              *)
EXTENDS Heartbeat

TimeoutDef == 30 \div 5
=============================================================================
