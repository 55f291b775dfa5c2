---------------------------- MODULE OrderedAdmission ----------------------------
(* What the schedulers of the server promise those who come to them: two tasks    *)
(* that clash are never admitted together and are admitted in the order in which  *)
(* they came, and nobody waits longer than for those who are in his way.          *)
(*                                                                                *)
(* ToolExecutionGate implements it with two counters and a queue whose front is   *)
(* let in (two calls clash unless both are shared), ControlMutations with the     *)
(* keys of the running commands and a queue that is searched as a whole (two      *)
(* commands clash if they name a common resource).                                *)


CONSTANTS
    Task,
    Clash       \* the pairs of tasks that are in each other's way

VARIABLES
    waiting,    \* the tasks that wait,
    before,     \*   those of them that came before each,
    admitted    \* and the tasks that may be at work

Init ==
    /\ waiting = {}
    /\ before = [t \in Task |-> {}]
    /\ admitted = {}

\* Nobody who is at work, and nobody who came earlier and waits, is in their way.
Admissible(queue, order, held) ==
    {t \in queue : \A u \in held \cup (queue \cap order[t]) : <<t, u>> \notin Clash}

\* Whatever has become of the queue and of the tasks at work, all that are admissible
\* are admitted, and no others.
Settle(queue, order, held) ==
    LET next == Admissible(queue, order, held)
        rest == queue \ next
    IN  /\ waiting' = rest
        /\ before' = [t \in Task |-> IF t \in rest THEN order[t] \cap rest ELSE {}]
        /\ admitted' = held \cup next

\* A task comes, and is behind all that wait.
Come(t) ==
    /\ t \notin waiting \cup admitted
    /\ Settle(waiting \cup {t}, [before EXCEPT ![t] = waiting], admitted)

\* Tasks end, are refused or give up waiting.
Go(S) ==
    /\ S \subseteq waiting \cup admitted
    /\ Settle(waiting \ S, before, admitted \ S)

Next ==
    \/ \E t \in Task : Come(t)
    \/ \E S \in SUBSET Task : Go(S)

Spec == Init /\ [][Next]_<<waiting, before, admitted>>
================================================================================
