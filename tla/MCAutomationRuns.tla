--------------------------- MODULE MCAutomationRuns ---------------------------
(* Two tools that need an approval; the second one runs if the first fails.    *)
EXTENDS AutomationRuns, TLC

MCEdges == {<<1, "error", 2>>}
MCNeedsApproval == {1, 2}

\* The handlers are interchangeable.
MCHandlers == Permutations(Handler)
===============================================================================
