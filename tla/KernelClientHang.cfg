SPECIFICATION FairSpec
CONSTANTS
  MaxFrames = 1
  MaxInbound = 2
  ExpectedVersion <- MCExpectedVersion
  KernelVersions <- MCMatchingKernel
PROPERTY ShutdownReturns
CHECK_DEADLOCK FALSE
