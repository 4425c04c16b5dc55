SPECIFICATION FairSpec
CONSTANTS
  MaxFrames = 2
  MaxInbound = 2
  ExpectedVersion <- MCExpectedVersion
  KernelVersions <- MCKernelVersions
INVARIANTS HandshakeHonoured SignalsHaveCause FrameOrder NoFrameLost
PROPERTIES ImplementsChannel ReadySettlesOnce StartSettles ShutdownStopsKernel
CHECK_DEADLOCK FALSE
