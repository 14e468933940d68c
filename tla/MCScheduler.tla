---------------------------- MODULE MCScheduler ----------------------------
(* Instances of Scheduler for TLC. *)
EXTENDS Scheduler, TLC

CONSTANTS m, a, b, c, k

\* The kernel's use: the main task alone waits, on CKernel::m_Event.
KernelWaits == {<<m, k>>}

\* WaitForTermination: the main task waits for the end of task a.
JoinWaits == {<<m, a>>}

\* The tasks other than the main task are interchangeable in KernelWaits.
Others == Permutations({a, b, c})
=============================================================================
