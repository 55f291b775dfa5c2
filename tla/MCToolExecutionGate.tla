-------------------------- MODULE MCToolExecutionGate --------------------------
(* Small gates: which calls are exclusive is chosen in the cfg.                *)
EXTENDS ToolExecutionGate, TLC

CONSTANTS agent, write, read1, read2, inner1, inner2, inner3

\* Two calls of a sub-agent with an exclusive lease, one of a sub-agent with a
\* shared one.
Inners == inner1 :> agent @@ inner2 :> agent @@ inner3 :> read1
================================================================================
