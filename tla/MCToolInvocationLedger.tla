------------------------ MODULE MCToolInvocationLedger ------------------------
(* Small instances: which call goes which route is chosen in the .cfg.         *)
EXTENDS ToolInvocationLedger, TLC

CONSTANTS p1, x1, a1, n1

OneInner == n1 :> a1
===============================================================================
