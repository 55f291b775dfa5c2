--------------------------- MODULE ToolExecutionGate ---------------------------
(* The shared/exclusive gate every tool call of a run goes through             *)
(* (agent-runtime/tools/ToolExecutionGate.ts).                                 *)
(*                                                                             *)
(* A top-level call takes a lease of its own. A call made inside the operation *)
(* of another (the tools of a sub-agent that is itself a tool) finds its       *)
(* parent's lease in the asynchronous context and takes none: shared ones run  *)
(* at once, exclusive ones one after the other on the parent's chain. Calls    *)
(* are never nested deeper: only a sub-agent calls tools, and it is given no   *)
(* sub-agents.                                                                 *)
EXTENDS Naturals, Sequences, FiniteSets

CONSTANTS
    Call,           \* top-level tool calls of the run
    NestedCall,     \* calls made by a sub-agent while its own call runs
    ParentOf,       \* the top-level call each nested call belongs to
    Exclusive       \* the calls whose lane is exclusive; the others are shared

ASSUME GateAssumption ==
    /\ IsFiniteSet(Call)
    /\ Call \cap NestedCall = {}
    /\ ParentOf \in [NestedCall -> Call]
    /\ Exclusive \subseteq Call \cup NestedCall

VARIABLES
    callState,          \* how far each call has come
    waiting,            \* calls that wait for a lease, in the order they came
    activeShared,       \* leases of shared calls
    activeExclusive,    \* whether an exclusive call holds the lease
    chain               \* per lease: nested exclusive calls, the first may run

gateVars == <<callState, waiting, activeShared, activeExclusive, chain>>

AnyCall == Call \cup NestedCall

\* A call is authorized again after it has its lease; `refused` stands for every
\* rejection, `done` for every end of an operation.
CallState == {"new", "waiting", "authorizing", "running", "done", "refused"}
Settled == {"done", "refused"}

\* The calls that hold a lease of their own.
Leased == {c \in Call : callState[c] \in {"authorizing", "running"}}
LeasedShared == Leased \ Exclusive

GateTypeOK ==
    /\ callState \in [AnyCall -> CallState]
    /\ waiting \in Seq(Call)
    /\ activeShared \in Nat
    /\ activeExclusive \in BOOLEAN
    /\ chain \in [Call -> Seq(NestedCall)]

GateInit ==
    /\ callState = [c \in AnyCall |-> "new"]
    /\ waiting = <<>>
    /\ activeShared = 0
    /\ activeExclusive = FALSE
    /\ chain = [c \in Call |-> <<>>]

--------------------------------------------------------------------------------
(* The lease.                                                                  *)

CanAcquire(c, shared, exclusive) ==
    /\ ~exclusive
    /\ c \in Exclusive => shared = 0

\* How many calls at the front of `queue` get their lease when the gate is pumped
\* with these leases: an exclusive one alone, or every shared one up to the next
\* exclusive one.
IsPumped(queue, shared, exclusive, k) ==
    /\ k > 0 => CanAcquire(queue[1], shared, exclusive)
    /\ (k = 0 /\ queue # <<>>) => ~CanAcquire(queue[1], shared, exclusive)
    /\ (k > 0 /\ queue[1] \in Exclusive) => k = 1
    /\ (k > 0 /\ queue[1] \notin Exclusive) =>
           /\ \A i \in 1..k : queue[i] \notin Exclusive
           /\ k < Len(queue) => queue[k + 1] \in Exclusive

\* pump(): the first k calls of the queue leave it with their lease.
Pump(states, queue, shared, exclusive) ==
    \E k \in 0..Len(queue) :
        LET granted == {queue[i] : i \in 1..k}
        IN  /\ IsPumped(queue, shared, exclusive, k)
            /\ waiting' = SubSeq(queue, k + 1, Len(queue))
            /\ callState' = [c \in AnyCall |->
                                IF c \in granted THEN "authorizing" ELSE states[c]]
            /\ activeExclusive' = (exclusive \/ \E c \in granted : c \in Exclusive)
            /\ activeShared' =
                   IF k > 0 /\ queue[1] \notin Exclusive THEN shared + k ELSE shared

\* (mutant) a shared call does not look at the queue
PassesQueue(c) ==
    (waiting = <<>> \/ c \notin Exclusive) /\ CanAcquire(c, activeShared, activeExclusive)

\* acquire(): nobody waits and the lane is free.
AcquiresAtOnce(c) == waiting = <<>> /\ CanAcquire(c, activeShared, activeExclusive)

\* run() outside any lease: the lease at once, or a place at the end of the queue,
\* and the gate is pumped.
Acquire(c) ==
    /\ callState[c] = "new"
    /\ IF AcquiresAtOnce(c)
       THEN /\ callState' = [callState EXCEPT ![c] = "authorizing"]
            /\ IF c \in Exclusive
               THEN activeExclusive' = TRUE /\ UNCHANGED activeShared
               ELSE activeShared' = activeShared + 1 /\ UNCHANGED activeExclusive
            /\ UNCHANGED waiting
       ELSE Pump([callState EXCEPT ![c] = "waiting"], Append(waiting, c),
                 activeShared, activeExclusive)
    /\ UNCHANGED chain

\* (mutant) every release frees both lanes
ReleaseAnyLane(c, last) ==
    /\ Pump([callState EXCEPT ![c] = last], waiting, activeShared - 1, FALSE)
    /\ UNCHANGED chain

\* The finally clause of runWithLease: the lease is given back and the gate pumped.
Release(c, last) ==
    /\ IF c \in Exclusive
       THEN Pump([callState EXCEPT ![c] = last], waiting, activeShared, FALSE)
       ELSE Pump([callState EXCEPT ![c] = last], waiting,
                 IF activeShared > 0 THEN activeShared - 1 ELSE 0, activeExclusive)
    /\ UNCHANGED chain

\* runAuthorized: the authorization is asserted once more; the operation starts,
\* or the call fails and gives its lease back.
Authorize(c) ==
    /\ callState[c] = "authorizing"
    /\ \/ /\ callState' = [callState EXCEPT ![c] = "running"]
          /\ UNCHANGED <<waiting, activeShared, activeExclusive, chain>>
       \/ Release(c, "refused")

\* The operation settles after the calls it made.
Finish(c) ==
    /\ callState[c] = "running"
    /\ \A n \in NestedCall : ParentOf[n] = c => callState[n] \in {"new"} \cup Settled
    /\ Release(c, "done")

\* A sub-agent's time limit (or its cancellation) settles its call while a tool it
\* called is still on its way: that tool listens to the run's signal only.
TimeOut(c) ==
    /\ callState[c] = "running"
    /\ \E n \in NestedCall : ParentOf[n] = c /\ callState[n] \notin {"new"} \cup Settled
    /\ Release(c, "done")

--------------------------------------------------------------------------------
(* Calls inside the operation of another.                                      *)

\* run() inside a lease.
RunNested(n) ==
    LET parent == ParentOf[n]
        next == IF n \notin Exclusive THEN "authorizing"
                ELSE IF parent \in Exclusive THEN "waiting" ELSE "refused"
    IN  /\ callState[n] = "new"
        /\ callState[parent] = "running"
        /\ callState' = [callState EXCEPT ![n] = next]
        /\ chain' = IF next = "waiting"
                    THEN [chain EXCEPT ![parent] = Append(@, n)] ELSE chain
        /\ UNCHANGED <<waiting, activeShared, activeExclusive>>

\* The promise before it on the chain has settled.
AdvanceChain(n) ==
    /\ callState[n] = "waiting"
    /\ chain[ParentOf[n]][1] = n
    /\ callState' = [callState EXCEPT ![n] = "authorizing"]
    /\ UNCHANGED <<waiting, activeShared, activeExclusive, chain>>

\* The promise at the head of a chain has settled, and the next one may go on.
Advanced(queue, n) == IF queue # <<>> /\ Head(queue) = n THEN Tail(queue) ELSE queue

\* (mutant) only success moves the chain on
SettleNestedOnSuccess(n, last) ==
    LET parent == ParentOf[n]
    IN  /\ callState' = [callState EXCEPT ![n] = last]
        /\ chain' = IF last = "done"
                    THEN [chain EXCEPT ![parent] = Advanced(@, n)]
                    ELSE chain
        /\ UNCHANGED <<waiting, activeShared, activeExclusive>>

\* A nested call ends, well or not, and frees its place on the chain.
SettleNested(n, last) ==
    LET parent == ParentOf[n]
    IN  /\ callState' = [callState EXCEPT ![n] = last]
        /\ chain' = [chain EXCEPT ![parent] = Advanced(@, n)]
        /\ UNCHANGED <<waiting, activeShared, activeExclusive>>

AuthorizeNested(n) ==
    /\ callState[n] = "authorizing"
    /\ \/ /\ callState' = [callState EXCEPT ![n] = "running"]
          /\ UNCHANGED <<waiting, activeShared, activeExclusive, chain>>
       \/ SettleNested(n, "refused")

FinishNested(n) ==
    /\ callState[n] = "running"
    /\ SettleNested(n, "done")

--------------------------------------------------------------------------------

GateNext ==
    \/ \E c \in Call : Acquire(c) \/ Authorize(c) \/ Finish(c) \/ TimeOut(c)
    \/ \E n \in NestedCall :
           RunNested(n) \/ AdvanceChain(n) \/ AuthorizeNested(n) \/ FinishNested(n)

GateSpec == GateInit /\ [][GateNext]_gateVars

\* Promises that can settle do: authorization and operations have time limits.
\* Nothing makes the model call a tool.
GateFairness ==
    /\ \A c \in Call : WF_gateVars(Authorize(c)) /\ WF_gateVars(Finish(c))
    /\ \A n \in NestedCall :
           /\ WF_gateVars(AdvanceChain(n))
           /\ WF_gateVars(AuthorizeNested(n))
           /\ WF_gateVars(FinishNested(n))

FairGateSpec == GateSpec /\ GateFairness

--------------------------------------------------------------------------------
(* Properties.                                                                 *)

\* The two counters say exactly which leases are out, and an exclusive lease is the
\* only one: a release that is missed, or made twice, would show here.
LeasesExclude ==
    /\ activeShared = Cardinality(LeasedShared)
    /\ activeExclusive <=> Leased \cap Exclusive # {}
    /\ \A c \in Leased \cap Exclusive : Leased = {c}

Underway(n) == callState[n] \in {"authorizing", "running"}

\* Nested exclusive operations of one lease run one after the other, whatever
\* becomes of the lease.
NestedRunSerially ==
    \A m, n \in NestedCall \cap Exclusive :
        (ParentOf[m] = ParentOf[n] /\ m # n) => ~(Underway(m) /\ Underway(n))

\* The lanes keep their promise at both levels: leases exclude one another, and
\* what runs inside one exclusive lease does so too.
LanesExclude == LeasesExclude /\ NestedRunSerially

\* No wake-up is lost: whenever calls wait, the first of them cannot have its lease
\* yet (every release pumps the queue far enough).
FirstWaiterIsBlocked ==
    waiting # <<>> => ~CanAcquire(waiting[1], activeShared, activeExclusive)

\* The gate's memory is one: counters, leases, chains and queue agree after every
\* acquire, release, refusal and time-out.
LeasesAreConsistent ==
    /\ GateTypeOK
    /\ LanesExclude
    /\ FirstWaiterIsBlocked

\* Leases are granted in the order of arrival: no call gets one in a step that
\* leaves a call waiting which was already waiting before it, so an exclusive call
\* is never starved by later shared ones.
FirstComeFirstServed ==
    [][\A c, d \in Call :
          /\ c \in Leased' \ Leased
          /\ callState[d] = "waiting" /\ callState'[d] = "waiting"
          => \E i, j \in 1..Len(waiting) : waiting[i] = c /\ waiting[j] = d /\ i < j]_gateVars

\* The gate's contract: a call is a task that comes when it asks for its lease and goes when
\* it gives it back; two calls are in each other's way unless both are shared.
Clashes == {p \in Call \X Call : p[1] # p[2] /\ {p[1], p[2]} \cap Exclusive # {}}

Waits == {c \in Call : callState[c] = "waiting"}

WaitsBefore ==
    [c \in Call |-> {d \in Call : \E i, j \in 1..Len(waiting) :
                                     i < j /\ waiting[i] = d /\ waiting[j] = c}]

Admission == INSTANCE OrderedAdmission
                 WITH Task <- Call, Clash <- Clashes, waiting <- Waits,
                      before <- WaitsBefore, admitted <- Leased

\* The gate, with its counters, its queue of waiting calls and the pump that ends every
\* acquire and release, admits calls as OrderedAdmission does, whatever nested calls do
\* inside the leases.
ImplementsOrderedAdmission == Admission!Spec

\* Every call that asks for the gate settles: nobody waits for ever, in the queue or
\* on the chain of a lease, whatever is refused or timed out before it.
EveryCallSettles ==
    \A c \in AnyCall : callState[c] # "new" ~> callState[c] \in Settled

\* What the class comment says of nested exclusive operations, that they use their
\* parent's lease: while one runs, its parent holds the lease.
NestedRunsUnderItsLease ==
    \A n \in NestedCall : callState[n] = "running" => ParentOf[n] \in Leased
================================================================================
