------------------------------ MODULE MCKernel ------------------------------
(* Three threads of up to two steps: enough to sleep and to spawn in one     *)
(* thread, to finish asleep, and to leave a thread behind.                   *)
EXTENDS Kernel

MCSleepTimes == {0, 1}
============================================================================
