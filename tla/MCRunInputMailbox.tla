----------------------------- MODULE MCRunInputMailbox -----------------------------
(* A small mailbox for TLC: the constants are model values, given by the cfg. *)
EXTENDS RunInputMailbox, TLC

\* Inputs, leases and requests are interchangeable names.
Symmetry == Permutations(Input) \cup Permutations(Lease) \cup Permutations(Request)
====================================================================================
