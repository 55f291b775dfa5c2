---------------------------- MODULE OrderedInputDelivery ----------------------------
(***************************************************************************)
(* What the input mailbox of a run promises to the user who steers it:     *)
(* inputs are numbered in the order they are accepted, they are offered to *)
(* the model as consecutive batches of that order, each batch once, a new  *)
(* batch only after the last one is confirmed, and from the moment the     *)
(* mailbox is sealed nothing is accepted, offered or confirmed any more.   *)
(***************************************************************************)
EXTENDS Integers

CONSTANT Input

VARIABLES
    position,   \* position of an input in the order of acceptance, 0 = not accepted
    accepted,   \* how many inputs have been accepted
    offered,    \* inputs 1..offered have been put into a model request
    delivered,  \* inputs 1..delivered are confirmed by a checkpoint
    sealed      \* the terminal answer has been claimed

deliveryVars == <<position, accepted, offered, delivered, sealed>>

Init ==
    /\ position = [i \in Input |-> 0]
    /\ accepted = 0
    /\ offered = 0
    /\ delivered = 0
    /\ sealed = FALSE

Accept(i) ==
    /\ ~sealed
    /\ position[i] = 0
    /\ accepted' = accepted + 1
    /\ position' = [position EXCEPT ![i] = accepted + 1]
    /\ UNCHANGED <<offered, delivered, sealed>>

\* The next batch: it starts right after the last one and need not take every input.
Offer(last) ==
    /\ ~sealed
    /\ delivered = offered
    /\ last \in offered + 1 .. accepted
    /\ offered' = last
    /\ UNCHANGED <<position, accepted, delivered, sealed>>

Confirm ==
    /\ ~sealed
    /\ delivered < offered
    /\ delivered' = offered
    /\ UNCHANGED <<position, accepted, offered, sealed>>

Seal ==
    /\ ~sealed
    /\ delivered = offered
    /\ sealed' = TRUE
    /\ UNCHANGED <<position, accepted, offered, delivered>>

Next ==
    \/ \E i \in Input : Accept(i)
    \/ \E last \in offered + 1 .. accepted : Offer(last)
    \/ Confirm
    \/ Seal

Spec == Init /\ [][Next]_deliveryVars
====================================================================================
