------------------------------ MODULE RunDelivery ------------------------------
(***************************************************************************)
(* What one WebSocket connection sends about the runs it watches.          *)
(*                                                                         *)
(* An update of a run is pushed when it is published; a snapshot is read   *)
(* asynchronously, for a command (run:get, run:subscribe) or because the   *)
(* run record changed.  A snapshot reserves its position among the         *)
(* messages of its run before it is read (reserveRunDelivery), and the     *)
(* snapshots of a run are read one at a time, in the order of their        *)
(* reservations (reserveRunCapture).  Whatever reaches the front of its    *)
(* run's queue goes through WsDeliveryGate, which authorises each batch    *)
(* again before it hands it to the socket.                                 *)
(***************************************************************************)
EXTENDS Integers, Sequences, FiniteSets, FiniteSetsExt

CONSTANTS Run,
          Capture,      \* the snapshots that are asked for
          RunOf,        \* the run a snapshot is of
          Origin,       \* "get", "subscribe" or "push"
          Updates,      \* (bound) the updates a run has
          MaxSlots      \* the slot limit of the queues and of the gate

ASSUME CaptureAssumption ==
    /\ RunOf \in [Capture -> Run]
    /\ Origin \in [Capture -> {"get", "subscribe", "push"}]
    /\ "none" \notin Capture

ASSUME BoundAssumption == Updates \in [Run -> Nat] /\ MaxSlots \in Nat \ {0}

VARIABLES
    open,        \* the socket is open; closing it clears all queues
    subscribed,  \* the runs whose events the connection receives
    committed,   \* the updates of a run that are stored
    published,   \* the updates of a run that were published
    readable,    \* the runs the user may read
    progress,    \* what has become of a snapshot
    taken,       \* the number of updates a snapshot contains
    captures,    \* the capture FIFO of a run
    slots,       \* the delivery FIFO of a run
    slotCount,   \* slots in all delivery FIFOs
    pending,     \* messages waiting for the gate,
    active,      \*   messages being authorised,
    gateSlots,   \*   their number,
    phase,       \*   and what the gate is doing
    sent         \* the messages handed to the socket

stored == <<committed, published>>
gate == <<pending, active, gateSlots, phase>>
queues == <<captures, slots, slotCount>>
vars == <<open, subscribed, stored, readable, progress, taken, queues, gate,
          sent>>

Progress == {"new", "reserved", "captured", "failed", "done"}

\* A slot belongs to an update, filled at once, or to a snapshot.
UpdateSlot(n) == [kind |-> "update", n |-> n, of |-> "none", filled |-> TRUE]
CaptureSlot(q) == [kind |-> "snapshot", n |-> 0, of |-> q, filled |-> FALSE]

Init ==
    /\ open = TRUE
    /\ subscribed = {}
    /\ committed = [r \in Run |-> 0]
    /\ published = [r \in Run |-> 0]
    /\ readable = Run
    /\ progress = [q \in Capture |-> "new"]
    /\ taken = [q \in Capture |-> 0]
    /\ captures = [r \in Run |-> <<>>]
    /\ slots = [r \in Run |-> <<>>]
    /\ slotCount = 0
    /\ pending = <<>>
    /\ active = <<>>
    /\ gateSlots = 0
    /\ phase = "idle"
    /\ sent = <<>>

-----------------------------------------------------------------------------
(* clearRunDeliveries and ws.terminate: the gate is disposed, every queue  *)
(* is emptied and the waiting snapshots are rejected.                      *)
Terminate ==
    /\ open' = FALSE
    /\ captures' = [r \in Run |-> <<>>]
    /\ slots' = [r \in Run |-> <<>>]
    /\ slotCount' = 0
    /\ pending' = <<>>
    /\ active' = <<>>
    /\ gateSlots' = 0
    /\ phase' = "disposed"
    /\ UNCHANGED sent

(* Messages enter the gate one after the other; the first one an idle gate *)
(* receives is authorised alone.                                           *)
Enqueue(messages) ==
    /\ gateSlots' = gateSlots + Len(messages)
    /\ IF phase = "idle" /\ messages # <<>>
         THEN /\ active' = <<Head(messages)>>
              /\ pending' = Tail(messages)
              /\ phase' = "reading"
         ELSE /\ pending' = pending \o messages
              /\ UNCHANGED <<active, phase>>
    /\ UNCHANGED <<open, sent>>

(* The front of a run's queue, up to the first slot that is not filled. *)
FilledPrefix(s) ==
    SubSeq(s, 1, Max({k \in 0..Len(s) : \A i \in 1..k : s[i].filled}))

Message(r, slot) == [run |-> r, kind |-> slot.kind, n |-> slot.n,
                     allowed |-> r \in readable]

(* drainRunDelivery over the queue s of run r. *)
DrainSlots(r, s) ==
    LET front == FilledPrefix(s)
        rest == SubSeq(s, Len(front) + 1, Len(s))
        messages == [i \in DOMAIN front |-> Message(r, front[i])]
    IN  IF gateSlots + Len(front) > MaxSlots
          THEN Terminate
          ELSE /\ slots' = [slots EXCEPT ![r] = rest]
               /\ slotCount' = slotCount + Len(rest) - Len(slots[r])
               /\ Enqueue(messages)
               /\ UNCHANGED captures

-----------------------------------------------------------------------------
(* The run's writer stores an update and publishes it later, in order;     *)
(* (bound) only as long as the connection may see it.                      *)
Commit(r) ==
    /\ open
    /\ committed[r] < Updates[r]
    /\ committed' = [committed EXCEPT ![r] = @ + 1]
    /\ UNCHANGED <<open, subscribed, published, readable, progress, taken,
                   queues, gate, sent>>

Publish(r) ==
    /\ open
    /\ published[r] < committed[r]
    /\ published' = [published EXCEPT ![r] = @ + 1]
    /\ UNCHANGED <<subscribed, committed, readable, progress, taken>>
    /\ IF r \notin subscribed THEN UNCHANGED <<open, queues, gate, sent>>
       ELSE IF slotCount >= MaxSlots THEN Terminate
       ELSE DrainSlots(r, Append(slots[r], UpdateSlot(published[r] + 1)))

(* A command or a change of the run record asks for a snapshot: both       *)
(* positions are reserved and the read begins when it is first in line.    *)
Reserve(q) ==
    LET r == RunOf[q] IN
    /\ slots' = [slots EXCEPT ![r] = Append(@, CaptureSlot(q))]
    /\ slotCount' = slotCount + 1
    /\ captures' = [captures EXCEPT ![r] = Append(@, q)]
    /\ progress' = [progress EXCEPT ![q] = "reserved"]

(* The run is gone when run:subscribe looks for it: its capture slot is    *)
(* cancelled and the failure is answered in the reserved position.         *)
ReserveCancelled(q) ==
    LET r == RunOf[q] IN
    /\ Origin[q] = "subscribe"
    /\ slots' = [slots EXCEPT ![r] = Append(@, CaptureSlot(q))]
    /\ slotCount' = slotCount + 1
    /\ UNCHANGED captures
    /\ progress' = [progress EXCEPT ![q] = "failed"]

Ask(q) ==
    /\ open
    /\ progress[q] = "new"
    /\ Origin[q] = "push" => RunOf[q] \in subscribed
    /\ UNCHANGED <<stored, readable, taken>>
    /\ \/ /\ slotCount >= MaxSlots
          /\ Terminate
          /\ progress' = [progress EXCEPT ![q] = "done"]
          /\ UNCHANGED subscribed
       \/ /\ slotCount < MaxSlots
          /\ Reserve(q)
          /\ subscribed' = IF Origin[q] = "subscribe"
                           THEN subscribed \cup {RunOf[q]} ELSE subscribed
          /\ UNCHANGED <<open, gate, sent>>
       \/ /\ slotCount < MaxSlots
          /\ ReserveCancelled(q)
          /\ UNCHANGED <<open, subscribed, gate, sent>>

(* The snapshot first in line is read, or its read fails; the next one in  *)
(* line begins.                                                            *)
IsNext(q) == captures[RunOf[q]] # <<>> /\ Head(captures[RunOf[q]]) = q

Read(q) ==
    /\ IsNext(q)
    /\ captures' = [captures EXCEPT ![RunOf[q]] = Tail(@)]
    /\ \/ /\ taken' = [taken EXCEPT ![q] = committed[RunOf[q]]]
          /\ progress' = [progress EXCEPT ![q] = "captured"]
       \/ /\ progress' = [progress EXCEPT ![q] = "failed"]
          /\ UNCHANGED taken
    /\ UNCHANGED <<open, subscribed, stored, readable, slots, slotCount, gate,
                   sent>>

(* (mutant) an answer takes the first position that is free *)
FilledInTurn(q) ==
    LET s == slots[RunOf[q]]
        first == Min({i \in DOMAIN s : ~s[i].filled})
    IN  [s EXCEPT ![first].filled = TRUE, ![first].n = taken[q],
                  ![first].kind = IF progress[q] = "failed" THEN "failure" ELSE @]

(* The awaiting command fills the reserved slot with the snapshot or with  *)
(* its failure; a pushed snapshot that failed ends the connection.         *)
Filled(q) ==
    LET s == slots[RunOf[q]] IN
    [i \in DOMAIN s |->
        IF s[i].of # q THEN s[i]
        ELSE [s[i] EXCEPT !.filled = TRUE,
                          !.n = taken[q],
                          !.kind = IF progress[q] = "failed" THEN "failure"
                                   ELSE "snapshot"]]

(* (mutant) a failed command leaves its position unfilled *)
DeliverSuccess(q) ==
    /\ progress[q] \in {"captured", "failed"}
    /\ progress' = [progress EXCEPT ![q] = "done"]
    /\ UNCHANGED <<subscribed, stored, readable, taken>>
    /\ IF ~open \/ progress[q] = "failed"
       THEN UNCHANGED <<open, queues, gate, sent>>
       ELSE DrainSlots(RunOf[q], Filled(q))

Deliver(q) ==
    /\ progress[q] \in {"captured", "failed"}
    /\ progress' = [progress EXCEPT ![q] = "done"]
    /\ UNCHANGED <<subscribed, stored, readable, taken>>
    /\ IF ~open THEN UNCHANGED <<open, queues, gate, sent>>
       ELSE IF progress[q] = "failed" /\ Origin[q] = "push" THEN Terminate
       ELSE DrainSlots(RunOf[q], Filled(q))

-----------------------------------------------------------------------------
(* The gate reads the rights of the batch's scopes. *)
ReadRights ==
    /\ phase = "reading"
    /\ IF \A i \in DOMAIN active : active[i].run \in readable
         THEN /\ phase' = "granted"
              /\ UNCHANGED <<open, queues, pending, active, gateSlots, sent>>
         ELSE Terminate
    /\ UNCHANGED <<subscribed, stored, readable, progress, taken>>

(* (mutant) what came in meanwhile goes out with the batch *)
BatchAndPending == active \o pending

(* The authorised batch is sent and the next one taken. *)
Batch == active

SendBatch ==
    /\ phase = "granted"
    /\ sent' = sent \o Batch
    /\ gateSlots' = gateSlots - Len(Batch)
    /\ active' = SubSeq(active \o pending, Len(Batch) + 1,
                        Len(active) + Len(pending))
    /\ pending' = <<>>
    /\ phase' = IF active' = <<>> THEN "idle" ELSE "reading"
    /\ UNCHANGED <<open, subscribed, stored, readable, progress, taken, queues>>

(* The user loses the right to read a run; (bound) while it matters. *)
Revoke(r) ==
    /\ open
    /\ r \in readable
    /\ readable' = readable \ {r}
    /\ UNCHANGED <<open, subscribed, stored, progress, taken, queues, gate,
                   sent>>

(* The peer goes away, the send budget is exceeded or a send fails. *)
Disconnect ==
    /\ open
    /\ Terminate
    /\ UNCHANGED <<subscribed, stored, readable, progress, taken>>

Next ==
    \/ \E r \in Run : Commit(r) \/ Publish(r) \/ Revoke(r)
    \/ \E q \in Capture : Ask(q) \/ Read(q) \/ Deliver(q)
    \/ ReadRights \/ SendBatch \/ Disconnect

Spec == Init /\ [][Next]_vars

(* The reads of the store and of the rights end, and so do the handlers    *)
(* that await them.                                                        *)
FairDelivery ==
    /\ \A q \in Capture : WF_vars(Read(q)) /\ WF_vars(Deliver(q))
    /\ WF_vars(ReadRights) /\ WF_vars(SendBatch)

FairSpec == Spec /\ FairDelivery

-----------------------------------------------------------------------------
SlotType == [kind : {"update", "snapshot", "failure"}, n : Nat,
             of : Capture \cup {"none"}, filled : BOOLEAN]
MessageType == [run : Run, kind : {"update", "snapshot", "failure"}, n : Nat,
                allowed : BOOLEAN]

(* The slot counters are exact and within the limit, whatever drained,     *)
(* failed or was disposed; a queue never keeps a message that may be sent. *)
DeliveryTypeOK ==
    /\ open \in BOOLEAN /\ subscribed \subseteq Run /\ readable \subseteq Run
    /\ \A r \in Run : published[r] \in 0..committed[r]
    /\ progress \in [Capture -> Progress]
    /\ \A r \in Run : slots[r] \in Seq(SlotType)
    /\ slotCount = Cardinality(UNION {{r} \X DOMAIN slots[r] : r \in Run})
    /\ sent \in Seq(MessageType)
    /\ gateSlots = Len(pending) + Len(active) /\ gateSlots <= MaxSlots
(* What the client receives about a run fits together.  A snapshot         *)
(* contains everything sent before it, although it is read after its       *)
(* position was taken; and an update follows the one before it, or a       *)
(* snapshot that contains that one, unless a subscription has failed and   *)
(* its failure was answered.                                               *)
StreamIsConsistent ==
    /\ DeliveryTypeOK
    /\ \A i \in DOMAIN sent :
        LET before == {sent[j] : j \in {k \in 1..(i - 1) : sent[k].run = sent[i].run}}
        IN  CASE sent[i].kind = "snapshot" -> \A m \in before : m.n <= sent[i].n
              [] sent[i].kind = "update" ->
                    \E m \in before : m.kind = "failure" \/ m.n >= sent[i].n - 1
              [] sent[i].kind = "failure" -> TRUE

(* Nothing that entered the gate after its reader lost the run is sent,    *)
(* whatever batch it came in with: the gate never uses an old answer.      *)
NothingSentUnauthorized == \A i \in DOMAIN sent : sent[i].allowed

(* A reserved position does not hold up the queue for ever: time and again *)
(* everything reserved has been sent, or was dropped with the connection.  *)
NothingIsHeldUp == []<>(slotCount = 0 /\ gateSlots = 0)
=============================================================================
