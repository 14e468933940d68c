--------------------------- MODULE MCKernelTimer ---------------------------
(* Instances of KernelTimer for TLC. *)
EXTENDS KernelTimer

Short == 1 .. 2
=============================================================================
