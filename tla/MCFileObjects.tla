----------------------------- MODULE MCFileObjects -----------------------------
(* Two threads: two uploads of one source in the first, a copy of the first of *)
(* them in the second, which also has a reference.                             *)
EXTENDS FileObjects, TLC

CONSTANTS t1, t2, f1, f2, f3, r1, o1, o2

Threads == f1 :> t1 @@ f2 :> t1 @@ f3 :> t2 @@ r1 :> t2
Sources == f1 :> "roads" @@ f2 :> "roads" @@ f3 :> "roads"
Contents == f1 :> o1 @@ f2 :> o2 @@ f3 :> o1
Clones == f1 :> None @@ f2 :> None @@ f3 :> f1

Symmetry == Permutations(Worker)
================================================================================
