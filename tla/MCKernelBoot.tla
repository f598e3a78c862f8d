--------------------------- MODULE MCKernelBoot ---------------------------
(***************************************************************************)
(* Small instances of KernelBoot for TLC.                                  *)
(***************************************************************************)
EXTENDS KernelBoot, TLC

ProcSymmetry == Permutations(Procs)

=============================================================================
