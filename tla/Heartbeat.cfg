SPECIFICATION HeartbeatSpec
CONSTANTS
  Timeout <- TimeoutDef
  MaxFlight = 2
  MaxWarnings = 2
INVARIANTS
  OneWarningPerAbsence
PROPERTY
  AbsenceReported
