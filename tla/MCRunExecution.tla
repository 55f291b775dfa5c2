------------------------------- MODULE MCRunExecution -------------------------------
(* A small run for TLC: the cfg gives the sizes. *)
EXTENDS RunExecution, TLC

Symmetry == Permutations(Input) \cup Permutations(Lease)
====================================================================================
