--------------------------- MODULE ServiceSupervisor ---------------------------
(***************************************************************************)
(* The supervisor of the background services: operators ask it to start,   *)
(* stop and restart services, one operation after the other; processes     *)
(* end when they like; timers restart what ended, and probes judge what    *)
(* runs.  Only the operations are queued: a start that a timer began runs  *)
(* beside them, and everything meets in one record per service.            *)
(*                                                                         *)
(* The program is one event loop.  What a promise resumes runs before the  *)
(* next event: Quiet says that nothing is left to resume, and every event  *)
(* waits for it.  A process is named by the generation of its command; the *)
(* close event belongs to its exit, and its handler goes on when the lease *)
(* file has been written.                                                  *)
(***************************************************************************)
EXTENDS Naturals, FiniteSets, SequencesExt

CONSTANTS Service,
          Order,          \* SERVICE_ORDER: dependencies come first
          Dependencies,   \* the services each one needs, in catalog order
          Maximum,        \* restarts within ten minutes before it gives up
          MaxGeneration,  \* (bound) processes of one service
          MaxRequests     \* (bound) operations

ASSUME CatalogAssumption ==
    /\ Order \in Seq(Service) /\ ToSet(Order) = Service /\ Len(Order) = Cardinality(Service)
    /\ Dependencies \in [Service -> Seq(Service)]
    /\ \A i, j \in DOMAIN Order : Order[j] \in ToSet(Dependencies[Order[i]]) => j < i

ASSUME BoundAssumption == Maximum \in Nat /\ MaxGeneration \in Nat /\ MaxRequests \in Nat

VARIABLES
    state,          \* what the snapshot shows of a service
    command,        \* the command it holds, 0 for none
    generation,     \* the last command it had
    alive,          \* its processes that have not ended
    desired,        \* desiredRunning
    stopping,
    restartTimer,   \* the generation that armed it, 0 when unarmed
    failures,       \* failureTimes of the last ten minutes
    healthTimer,    \* the command it watches, 0 for none
    probed,         \* the command whose liveness is being asked, 0 for none
    closing,        \* leaseWriteQueue: close handlers that wait for the lease file
    attempt,        \* the start attempt behind startPromise
    caught,         \* restart timers that wait for that attempt
    op,             \* the running operation
    requests

vars == <<state, command, generation, alive, desired, stopping, restartTimer, failures,
          healthTimer, probed, closing, attempt, caught, op, requests>>

record == <<command, generation, desired, stopping>>
monitor == <<healthTimer, probed>>
restarts == <<restartTimer, failures, closing>>

State == {"stopped", "waiting_dependency", "starting", "healthy", "degraded",
          "restart_wait", "stopping", "failed", "conflict"}
Generation == 0..MaxGeneration

NoAttempt == [pc |-> "none", todo |-> <<>>, gen |-> 0]
NoOperation == [pc |-> "idle", kind |-> "none", stops |-> <<>>, starts |-> <<>>, handle |-> 0]

Init ==
    /\ state = [s \in Service |-> "stopped"]
    /\ command = [s \in Service |-> 0]
    /\ generation = [s \in Service |-> 0]
    /\ alive = [s \in Service |-> {}]
    /\ desired = [s \in Service |-> FALSE]
    /\ stopping = [s \in Service |-> FALSE]
    /\ restartTimer = [s \in Service |-> 0]
    /\ failures = [s \in Service |-> 0]
    /\ healthTimer = [s \in Service |-> 0]
    /\ probed = [s \in Service |-> 0]
    /\ closing = <<>>
    /\ attempt = [s \in Service |-> NoAttempt]
    /\ caught = [s \in Service |-> {}]
    /\ op = NoOperation
    /\ requests = 0

-----------------------------------------------------------------------------
(* The catalog. *)

Needs == [s \in Service |-> ToSet(Dependencies[s])]
NeededBy == [s \in Service |-> {t \in Service : s \in Needs[t]}]

(* What is reached from s, itself left out unless it is on a cycle.        *)
Closure(s, next) ==
    {t \in Service : \A S \in SUBSET Service :
                        next[s] \subseteq S /\ (\A u \in S : next[u] \subseteq S) => t \in S}
InOrder(S) == SelectSeq(Order, LAMBDA s : s \in S)

TransitiveDependencies(s) == InOrder(Closure(s, Needs))

-----------------------------------------------------------------------------
(* Start attempts.  startSingle shares the attempt that is under way. *)

(* (mutant) the check for a command it already holds is missing *)
StartSingleUnchecked(a, s) ==
    IF a[s].pc = "none"
    THEN [a EXCEPT ![s] = [pc |-> "check", todo |-> Dependencies[s], gen |-> 0]]
    ELSE a

StartSingle(a, s) ==
    IF a[s].pc = "none"
    THEN [a EXCEPT ![s] = [pc |-> "begin", todo |-> Dependencies[s], gen |-> 0]]
    ELSE a

Resumed(s) == attempt[s].pc \in {"begin", "check", "ok", "failed"}
Quiet ==
    /\ \A s \in Service : ~Resumed(s)
    /\ op.pc # "next"
    /\ op.pc \in {"term", "kill"} => op.handle \in alive[Head(op.stops)]

Becomes(s, pc) == attempt' = [attempt EXCEPT ![s].pc = pc]

BeginAttempt(s) ==
    /\ attempt[s].pc = "begin"
    /\ IF command[s] # 0
       THEN /\ Becomes(s, IF state[s] \in {"healthy", "degraded"} THEN "ok" ELSE "failed")
            /\ UNCHANGED restartTimer
       ELSE /\ Becomes(s, "check")
            /\ restartTimer' = [restartTimer EXCEPT ![s] = 0]
    /\ UNCHANGED <<state, alive, failures, closing, record, monitor, caught, op, requests>>

(* One round of the loop over the dependencies. *)
CheckDependency(s) ==
    /\ attempt[s].pc = "check"
    /\ IF attempt[s].todo = <<>>
       THEN Becomes(s, "ports") /\ UNCHANGED state
       ELSE LET d == Head(attempt[s].todo) IN
            IF state[d] = "healthy"
            THEN /\ attempt' = [attempt EXCEPT ![s].todo = Tail(@)]
                 /\ UNCHANGED state
            ELSE /\ attempt' = StartSingle([attempt EXCEPT ![s].pc = "wait"], d)
                 /\ state' = [state EXCEPT ![s] = "waiting_dependency"]
    /\ UNCHANGED <<alive, record, monitor, restarts, caught, op, requests>>

(* assertPortsAvailable, and the command when the ports are free. *)
PortsTaken(s) ==
    /\ Quiet /\ attempt[s].pc = "ports"
    /\ Becomes(s, "failed")
    /\ state' = [state EXCEPT ![s] = "conflict"]
    /\ UNCHANGED <<alive, record, monitor, restarts, caught, op, requests>>

Spawn(s) ==
    /\ Quiet /\ attempt[s].pc = "ports"
    /\ generation[s] < MaxGeneration
    /\ LET g == generation[s] + 1 IN
       /\ generation' = [generation EXCEPT ![s] = g]
       /\ command' = [command EXCEPT ![s] = g]
       /\ alive' = [alive EXCEPT ![s] = @ \cup {g}]
       /\ attempt' = [attempt EXCEPT ![s] = [@ EXCEPT !.pc = "launched", !.gen = g]]
    /\ desired' = [desired EXCEPT ![s] = TRUE]
    /\ stopping' = [stopping EXCEPT ![s] = FALSE]
    /\ state' = [state EXCEPT ![s] = "starting"]
    /\ UNCHANGED <<monitor, restarts, caught, op, requests>>

IsCurrent(s) == command[s] = attempt[s].gen

(* The attempt wakes up: it has waited for the process id, for the lease   *)
(* file and for the first delay, of which the first two may fail.          *)
Launched(s) ==
    /\ Quiet /\ attempt[s].pc = "launched"
    /\ \/ IsCurrent(s) /\ Becomes(s, "probing")
       \/ Becomes(s, "failed")
    /\ UNCHANGED <<state, alive, record, monitor, restarts, caught, op, requests>>

(* (mutant) a readiness answer is believed whatever has happened since *)
ReadyWhenever(s) ==
    /\ state' = [state EXCEPT ![s] = "healthy"]
    /\ healthTimer' = [healthTimer EXCEPT ![s] = attempt[s].gen]
    /\ Becomes(s, "ok")

Ready(s) ==
    /\ IsCurrent(s)
    /\ state' = [state EXCEPT ![s] = "healthy"]
    /\ healthTimer' = [healthTimer EXCEPT ![s] = attempt[s].gen]
    /\ Becomes(s, "ok")

(* waitForHealthy: ready, given up after 90 seconds, or no longer current. *)
Probe(s) ==
    /\ Quiet /\ attempt[s].pc = "probing"
    /\ \/ Ready(s)
       \/ Becomes(s, "failed") /\ UNCHANGED <<state, healthTimer>>
    /\ UNCHANGED <<alive, record, probed, restarts, caught, op, requests>>

(* The attempt settles and everyone who awaits it goes on: the services    *)
(* that need it, the operation, and the timers whose restart it was.       *)
WaitsFor(t, s) == attempt[t].pc = "wait" /\ Head(attempt[t].todo) = s

GivenUp(s) ==
    /\ generation[s] \in caught[s] /\ command[s] = 0
    /\ state[s] # "conflict"

(* (mutant) the operation is only told of an attempt that succeeded *)
GoesOnIfStarted(s, won) ==
    IF won /\ op.pc = "await" /\ Head(op.starts) = s
    THEN [op EXCEPT !.pc = "next", !.starts = Tail(@)]
    ELSE op

(* The operation goes on with its next service, or ends with the error.    *)
GoesOn(s, won) ==
    IF op.pc # "await" \/ Head(op.starts) # s THEN op
    ELSE IF won THEN [op EXCEPT !.pc = "next", !.starts = Tail(@)]
    ELSE NoOperation

Settle(s, won) ==
    /\ attempt[s].pc = (IF won THEN "ok" ELSE "failed")
    /\ attempt' = [t \in Service |->
           CASE t = s -> NoAttempt
             [] WaitsFor(t, s) /\ won -> [attempt[t] EXCEPT !.pc = "check", !.todo = Tail(@)]
             [] WaitsFor(t, s) /\ ~won -> [attempt[t] EXCEPT !.pc = "failed"]
             [] OTHER -> attempt[t]]
    /\ op' = GoesOn(s, won)
    /\ state' = IF ~won /\ GivenUp(s) THEN [state EXCEPT ![s] = "failed"] ELSE state
    /\ caught' = [caught EXCEPT ![s] = {}]
    /\ UNCHANGED <<alive, record, monitor, restarts, requests>>

-----------------------------------------------------------------------------
(* Processes and their restarts. *)

Exit(s, g) ==
    /\ Quiet /\ g \in alive[s]
    /\ alive' = [alive EXCEPT ![s] = @ \ {g}]
    /\ IF command[s] = g
       THEN /\ command' = [command EXCEPT ![s] = 0]
            /\ healthTimer' = [healthTimer EXCEPT ![s] = 0]
            /\ closing' = Append(closing, <<s, g>>)
       ELSE UNCHANGED <<command, healthTimer, closing>>
    /\ UNCHANGED <<state, generation, desired, stopping, restartTimer, failures, probed,
                   attempt, caught, op, requests>>

(* Of the earlier failures those of the last ten minutes count. *)
ScheduleRestart(s, g) ==
    \E recent \in 0..failures[s] :
        /\ failures' = [failures EXCEPT ![s] = recent + 1]
        /\ IF recent + 1 > Maximum
           THEN /\ desired' = [desired EXCEPT ![s] = FALSE]
                /\ state' = [state EXCEPT ![s] = "failed"]
                /\ UNCHANGED restartTimer
           ELSE /\ restartTimer' = [restartTimer EXCEPT ![s] = g]
                /\ state' = [state EXCEPT ![s] = "restart_wait"]
                /\ UNCHANGED desired

(* The rest of handleClose, once the lease file is written. *)
HandleClose(s, g) ==
    /\ Quiet /\ closing # <<>> /\ Head(closing) = <<s, g>>
    /\ closing' = Tail(closing)
    /\ \/ /\ generation[s] # g \/ command[s] # 0
          /\ UNCHANGED <<state, desired, stopping, restartTimer, failures>>
       \/ /\ generation[s] = g /\ command[s] = 0
          /\ stopping[s] \/ ~desired[s]
          /\ state' = [state EXCEPT ![s] = "stopped"]
          /\ stopping' = [stopping EXCEPT ![s] = FALSE]
          /\ UNCHANGED <<desired, restartTimer, failures>>
       \/ /\ generation[s] = g /\ command[s] = 0
          /\ ~stopping[s] /\ desired[s]
          /\ ScheduleRestart(s, g)
          /\ UNCHANGED stopping
    /\ UNCHANGED <<command, generation, alive, monitor, attempt, caught, op, requests>>

RestartIsDue(s) ==
    /\ generation[s] = restartTimer[s] /\ command[s] = 0
    /\ desired[s] /\ ~stopping[s]

FireRestartTimer(s) ==
    /\ Quiet /\ restartTimer[s] # 0
    /\ restartTimer' = [restartTimer EXCEPT ![s] = 0]
    /\ IF RestartIsDue(s)
       THEN /\ attempt' = StartSingle(attempt, s)
            /\ caught' = [caught EXCEPT ![s] = @ \cup {restartTimer[s]}]
       ELSE UNCHANGED <<attempt, caught>>
    /\ UNCHANGED <<state, alive, record, monitor, failures, closing, op, requests>>

(* The health monitor asks, and its answer may come late. *)
AskHealth(s) ==
    /\ Quiet /\ healthTimer[s] # 0 /\ probed[s] = 0
    /\ command[s] = healthTimer[s] /\ ~stopping[s]
    /\ probed' = [probed EXCEPT ![s] = healthTimer[s]]
    /\ UNCHANGED <<state, alive, record, restarts, healthTimer, attempt, caught, op, requests>>

(* After three failures in a row the service is degraded; the tenth sends  *)
(* a signal, and the exit it causes is Exit.                               *)
HealthAnswer(s) ==
    /\ Quiet /\ probed[s] # 0
    /\ probed' = [probed EXCEPT ![s] = 0]
    /\ IF command[s] = probed[s] /\ ~stopping[s]
       THEN \E answer \in {"healthy", "degraded", state[s]} :
              state' = [state EXCEPT ![s] = answer]
       ELSE UNCHANGED state
    /\ UNCHANGED <<alive, record, restarts, healthTimer, attempt, caught, op, requests>>

-----------------------------------------------------------------------------
(* Operations. *)

WithDependents(s) == InOrder({s} \cup Closure(s, NeededBy))
WasRunning(s) == state[s] \notin {"stopped", "conflict"}

(* `all' is the target "all". *)
Request(kind, all, s) ==
    /\ Quiet /\ op.pc = "idle" /\ requests < MaxRequests
    /\ requests' = requests + 1
    /\ LET selected == IF all THEN Order ELSE WithDependents(s)
           running == SelectSeq(selected, WasRunning)
           start == IF all THEN Order ELSE Append(TransitiveDependencies(s), s)
           restore == IF all THEN Order
                      ELSE <<s>> \o SelectSeq(running, LAMBDA t : t # s)
       IN op' = [pc |-> "next", kind |-> kind, handle |-> 0,
                 stops |-> CASE kind = "start" -> <<>>
                             [] kind = "stop" -> Reverse(selected)
                             [] kind = "restart" -> Reverse(running),
                 starts |-> CASE kind = "start" -> start
                              [] kind = "stop" -> <<>>
                              [] kind = "restart" -> restore]
    /\ desired' = [t \in Service |->
           desired[t] /\ ~(kind = "stop" /\ (all \/ t \in ToSet(WithDependents(s))))]
    /\ UNCHANGED <<state, command, generation, alive, stopping, monitor, restarts, attempt,
                   caught>>

NextStart ==
    /\ op.pc = "next" /\ op.stops = <<>>
    /\ IF op.starts = <<>>
       THEN op' = NoOperation /\ UNCHANGED attempt
       ELSE /\ op' = [op EXCEPT !.pc = "await"]
            /\ attempt' = StartSingle(attempt, Head(op.starts))
    /\ UNCHANGED <<state, alive, record, monitor, restarts, caught, requests>>

Stopped(o) == [o EXCEPT !.pc = "next", !.stops = Tail(@), !.handle = 0]

(* stopSingle up to its first wait. *)
NextStop ==
    /\ op.pc = "next" /\ op.stops # <<>>
    /\ LET s == Head(op.stops) IN
       /\ restartTimer' = [restartTimer EXCEPT ![s] = 0]
       /\ desired' = [desired EXCEPT ![s] = @ /\ op.kind # "restart"]
       /\ \/ /\ command[s] = 0 /\ state[s] \in {"stopped", "conflict"}
             /\ op' = Stopped(op)
             /\ UNCHANGED <<state, stopping>>
          \/ /\ command[s] = 0 /\ state[s] \notin {"stopped", "conflict"}
             /\ op' = [op EXCEPT !.pc = "release"]
             /\ UNCHANGED <<state, stopping>>
          \/ /\ command[s] # 0
             /\ op' = [op EXCEPT !.pc = "hook", !.handle = command[s]]
             /\ state' = [state EXCEPT ![s] = "stopping"]
             /\ stopping' = [stopping EXCEPT ![s] = TRUE]
    /\ UNCHANGED <<command, generation, alive, monitor, failures, closing, attempt, caught,
                   requests>>

(* No process to stop: the ports are waited for, and either are released   *)
(* or not within the limit.                                                *)
Release ==
    /\ Quiet /\ op.pc = "release"
    /\ LET s == Head(op.stops) IN
       \/ /\ op' = Stopped(op)
          /\ state' = [state EXCEPT ![s] = IF @ = "conflict" THEN @ ELSE "stopped"]
          /\ UNCHANGED stopping
       \/ /\ op' = NoOperation
          /\ state' = [state EXCEPT ![s] = "conflict"]
          /\ stopping' = [stopping EXCEPT ![s] = FALSE]
    /\ UNCHANGED <<command, generation, alive, desired, monitor, restarts, attempt, caught,
                   requests>>

(* A process to stop: the hook runs, then the process tree is asked to     *)
(* end, then forced to, and each wait is limited.                          *)
Hook ==
    /\ Quiet /\ op.pc = "hook"
    /\ op' = [op EXCEPT !.pc = "term"]
    /\ UNCHANGED <<state, alive, record, monitor, restarts, attempt, caught, requests>>

Ended == op.handle \notin alive[Head(op.stops)]

ProcessEnded ==
    /\ op.pc \in {"term", "kill"} /\ Ended
    /\ op' = [op EXCEPT !.pc = "ports"]
    /\ UNCHANGED <<state, alive, record, monitor, restarts, attempt, caught, requests>>

ProcessOutlives ==
    /\ op.pc \in {"term", "kill"} /\ Quiet
    /\ LET s == Head(op.stops) IN
       IF op.pc = "term"
       THEN op' = [op EXCEPT !.pc = "kill"] /\ UNCHANGED <<state, stopping>>
       ELSE /\ op' = NoOperation
            /\ state' = [state EXCEPT ![s] = "failed"]
            /\ stopping' = [stopping EXCEPT ![s] = FALSE]
    /\ UNCHANGED <<command, generation, alive, desired, monitor, restarts, attempt, caught,
                   requests>>

PortsReleased ==
    /\ Quiet /\ op.pc = "ports"
    /\ LET s == Head(op.stops) IN
       /\ stopping' = [stopping EXCEPT ![s] = FALSE]
       /\ \/ /\ op' = Stopped(op)
             /\ command' = [command EXCEPT ![s] = 0]
             /\ state' = [state EXCEPT ![s] = "stopped"]
          \/ /\ op' = NoOperation
             /\ state' = [state EXCEPT ![s] = "conflict"]
             /\ UNCHANGED command
    /\ UNCHANGED <<generation, alive, desired, monitor, restarts, attempt, caught, requests>>

-----------------------------------------------------------------------------
Resume ==
    \/ \E s \in Service : \/ BeginAttempt(s) \/ CheckDependency(s)
                          \/ Settle(s, TRUE) \/ Settle(s, FALSE)
    \/ NextStart \/ NextStop \/ ProcessEnded

(* What ends by itself: waits with a limit, timers and writes. *)
Wake ==
    \/ \E s \in Service :
         \/ PortsTaken(s) \/ Spawn(s) \/ Launched(s) \/ Probe(s)
         \/ FireRestartTimer(s)
         \/ \E g \in Generation : HandleClose(s, g)
    \/ Release \/ Hook \/ ProcessOutlives \/ PortsReleased

Environment ==
    \/ \E s \in Service :
         \/ AskHealth(s) \/ HealthAnswer(s)
         \/ \E g \in Generation : Exit(s, g)
         \/ \E kind \in {"start", "stop", "restart"}, all \in BOOLEAN : Request(kind, all, s)

Next == Resume \/ Wake \/ Environment

Fairness ==
    /\ WF_vars(Resume)
    /\ \A s \in Service :
         /\ WF_vars(PortsTaken(s) \/ Spawn(s))
         /\ WF_vars(Launched(s))
         /\ WF_vars(Probe(s))
    /\ WF_vars(Release) /\ WF_vars(Hook) /\ WF_vars(ProcessOutlives) /\ WF_vars(PortsReleased)

Spec == Init /\ [][Next]_vars
FairSpec == Spec /\ Fairness

-----------------------------------------------------------------------------
Types ==
    /\ state \in [Service -> State]
    /\ command \in [Service -> Generation] /\ generation \in [Service -> Generation]
    /\ alive \in [Service -> SUBSET Generation] /\ closing \in Seq(Service \X Generation)
    /\ caught \in [Service -> SUBSET Generation]
    /\ desired \in [Service -> BOOLEAN] /\ stopping \in [Service -> BOOLEAN]
    /\ restartTimer \in [Service -> Generation]
    /\ failures \in [Service -> Nat]
    /\ healthTimer \in [Service -> Generation] /\ probed \in [Service -> Generation]

(* What the snapshot shows of a service that runs, stops or waits for a    *)
(* restart is about to change or true: the command held for it is its last *)
(* one and runs; a running service has its process or the process's end is *)
(* being recorded; a stop is under way; a restart that is announced and    *)
(* still wanted has a timer or an attempt, which may fail, or is just      *)
(* being stopped. A service shown as waiting for a dependency may wait for *)
(* an attempt that has given up, and is not spoken of.                     *)
StatesAreBacked ==
    /\ Types
    /\ \A s \in Service :
        /\ command[s] # 0 => command[s] = generation[s] /\ command[s] \in alive[s]
        /\ state[s] \in {"starting", "healthy", "degraded"} =>
             command[s] # 0 \/ <<s, generation[s]>> \in ToSet(closing)
        /\ state[s] = "stopping" =>
             op.pc \in {"hook", "term", "kill", "ports"} /\ Head(op.stops) = s
        /\ state[s] = "restart_wait" /\ desired[s] =>
             \/ restartTimer[s] # 0 \/ attempt[s].pc # "none"
             \/ op.pc = "release" /\ Head(op.stops) = s

(* A process that still runs keeps its handle, whatever timers, dependents *)
(* and operations start beside it, but for the end of the service's stop,  *)
(* which may let one go that was started meanwhile (NoProcessIsLost).      *)
HandlesAreKept ==
    [][\A s \in Service :
         command[s] # 0 /\ command[s] \in alive'[s] /\ command'[s] # command[s] =>
           op.pc = "ports" /\ Head(op.stops) = s]_vars

(* Operations are queued, so one that never ended would lock the operator  *)
(* out: whatever processes, ports, dependencies and restarts do meanwhile, *)
(* every operation ends.                                                   *)
EveryOperationEnds == op.pc # "idle" ~> op.pc = "idle"

-----------------------------------------------------------------------------
(* What the supervisor announces and does not keep (README, section 6). *)

Spawns(s) == command[s] = 0 /\ command'[s] # 0

(* "Stops everything": a service that was stopped is not started again     *)
(* until an operation starts services.                                     *)
StoppedStaysStopped ==
    [][\A s \in Service :
         state[s] = "stopped" /\ Spawns(s) => op.starts # <<>>]_vars

(* An orphan is never reported as stopped: a process that runs is held, so *)
(* that it can be stopped.                                                 *)
NoProcessIsLost == \A s \in Service : alive[s] \subseteq {command[s]}

(* "Automatic restart in n seconds": an announced restart ends in a new    *)
(* process or in a port conflict, not in a failure without an attempt.     *)
AnnouncedRestartIsTried ==
    [][\A s \in Service : state[s] = "restart_wait" => state'[s] # "failed"]_vars
=============================================================================
