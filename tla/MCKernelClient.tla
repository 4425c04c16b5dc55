-------------------------- MODULE MCKernelClient --------------------------
(* Small instances of KernelClient.  The kernel versions differ from the   *)
(* expected one in no, the patch, the minor and the major number.          *)
EXTENDS KernelClient

MCExpectedVersion == <<1, 0, 0>>
MCKernelVersions  == {<<1, 0, 0>>, <<1, 0, 1>>, <<1, 1, 0>>, <<2, 0, 0>>}
MCMatchingKernel  == {MCExpectedVersion}
=============================================================================
