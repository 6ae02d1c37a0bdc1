------------------------------ MODULE MCKernel ------------------------------
(* Instances of Kernel for TLC: the values of the constants are in the     *)
(* .cfg files.                                                             *)
EXTENDS KernelInv
=============================================================================
