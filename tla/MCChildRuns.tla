----------------------------- MODULE MCChildRuns -----------------------------
(* Small trees of runs for TLC: the cfg gives their sizes.                    *)
EXTENDS ChildRuns, TLC

Symmetry == Permutations(Child) \cup Permutations(Message)
==============================================================================
