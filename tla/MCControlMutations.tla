--------------------------- MODULE MCControlMutations ---------------------------
EXTENDS ControlMutations

CONSTANTS wide, narrow, other, third, c1, c2, x, y

\* wide names both resources; narrow, on the same connection, one of them
MCConnectionOf == [m \in Mutation |-> IF m \in {wide, narrow} THEN c1 ELSE c2]
MCKeys == [m \in Mutation |->
             CASE m = wide -> {x, y}
               [] m = narrow -> {y}
               [] m = other -> {x}
               [] m = third -> {y}]
=============================================================================
