--------------------------- MODULE ControlMutations ---------------------------
(***************************************************************************)
(* The write commands of the WebSocket control plane: the registry         *)
(* authorises a command, ControlMutationScheduler queues it behind the     *)
(* commands that name one of its resources, authorises it again when its   *)
(* turn comes and only then runs its handler.  A closing connection, an    *)
(* expired wait and a full queue refuse commands that have not begun.      *)
(*                                                                         *)
(* The queue is an array that is pushed at its end and spliced anywhere,   *)
(* so its order is the order of admission: ahead[m] is the set of the      *)
(* mutations that were in the queue when m was pushed.  Each action is one *)
(* turn of the event loop and ends with the drain that the code runs       *)
(* before it returns.                                                      *)
(***************************************************************************)
EXTENDS Naturals, FiniteSets

CONSTANTS Mutation,        \* the write commands that arrive
          Connection,
          Resource,        \* resource keys, such as run:<id> or thread:<id>
          ConnectionOf,    \* the connection a command arrives on
          Keys,            \* the resource keys a command names
          PerConnection,   \* the limits of the scheduler
          Process,
          PerResource

ASSUME CommandAssumption ==
    /\ IsFiniteSet(Mutation)
    /\ ConnectionOf \in [Mutation -> Connection]
    /\ Keys \in [Mutation -> SUBSET Resource]
    /\ \A m \in Mutation : Keys[m] # {}

ASSUME LimitAssumption ==
    /\ PerConnection \in Nat \ {0}
    /\ Process \in Nat \ {0}
    /\ PerResource \in Nat \ {0}

VARIABLES
    stage,             \* how far the command is
    ahead,             \* the queued mutations it was pushed behind
    activeResources,   \* the keys of the running mutations
    outstanding,       \* queued and running mutations, in the process,
    connectionCounts,  \*   per connection
    resourceCounts,    \*   and per resource
    aborted,           \* mutations whose AbortController has fired
    closed,            \* connections whose cleanup has run
    revoked            \* commands whose sender has lost its rights

vars == <<stage, ahead, activeResources, outstanding, connectionCounts,
          resourceCounts, aborted, closed, revoked>>

books == <<outstanding, connectionCounts, resourceCounts>>

Refusal == {"cancelled", "overloaded", "forbidden"}
Running == {"reauthorizing", "authorized", "executing"}
Stage == {"new", "authorizing", "admitted", "queued", "settled"}
           \cup Running \cup Refusal

Queued == {m \in Mutation : stage[m] = "queued"}
Held == {m \in Mutation : stage[m] \in Running}
Conflict(m, n) == Keys[m] \cap Keys[n] # {}

Init ==
    /\ stage = [m \in Mutation |-> "new"]
    /\ ahead = [m \in Mutation |-> {}]
    /\ activeResources = {}
    /\ outstanding = 0
    /\ connectionCounts = [c \in Connection |-> 0]
    /\ resourceCounts = [r \in Resource |-> 0]
    /\ aborted = {}
    /\ closed = {}
    /\ revoked = {}

-----------------------------------------------------------------------------
(* (mutant) a blocked task does not hold back the later ones *)
StartablePastBlocked(queue, before, active) ==
    {m \in queue : /\ Keys[m] \cap active = {}
                   /\ \A n \in queue \cap before[m] :
                        Conflict(m, n) => Keys[n] \cap active # {}}

(* One pass over the queue: a mutation starts unless a running one, or one *)
(* before it that starts or stays in this pass, names one of its keys.     *)
Startable(queue, before, active) ==
    {m \in queue : /\ Keys[m] \cap active = {}
                   /\ \A n \in queue \cap before[m] : ~Conflict(m, n)}

KeysOf(S) == UNION {Keys[m] : m \in S}

Drain(at, before, active) ==
    LET started == Startable({m \in Mutation : at[m] = "queued"}, before, active)
    IN  /\ stage' = [m \in Mutation |-> IF m \in started THEN "reauthorizing"
                                        ELSE at[m]]
        /\ activeResources' = active \cup KeysOf(started)
        /\ ahead' = before

(* (mutant) nobody looks at the queue after a removal from it *)
LeaveUndrained(gone, outcome, freed) ==
    LET at == [m \in Mutation |-> IF m \in gone THEN outcome ELSE stage[m]]
        before == [m \in Mutation |-> IF m \in gone THEN {} ELSE ahead[m] \ gone]
    IN  IF freed # {} THEN Drain(at, before, activeResources \ freed)
        ELSE stage' = at /\ ahead' = before /\ UNCHANGED activeResources

(* Leaving the queue or the running set: the gone mutations take their     *)
(* outcome, the freed keys are released and the queue is drained.          *)
Leave(gone, outcome, freed) ==
    Drain([m \in Mutation |-> IF m \in gone THEN outcome ELSE stage[m]],
          [m \in Mutation |-> IF m \in gone THEN {} ELSE ahead[m] \ gone],
          activeResources \ freed)

Release(gone) ==
    /\ outstanding' = outstanding - Cardinality(gone)
    /\ connectionCounts' = [c \in Connection |->
           connectionCounts[c] - Cardinality({m \in gone : ConnectionOf[m] = c})]
    /\ resourceCounts' = [r \in Resource |->
           resourceCounts[r] - Cardinality({m \in gone : r \in Keys[m]})]

Reserve(m) ==
    /\ outstanding' = outstanding + 1
    /\ connectionCounts' = [connectionCounts EXCEPT ![ConnectionOf[m]] = @ + 1]
    /\ resourceCounts' = [r \in Resource |->
           IF r \in Keys[m] THEN resourceCounts[r] + 1 ELSE resourceCounts[r]]

HasCapacity(m) ==
    /\ outstanding < Process
    /\ connectionCounts[ConnectionOf[m]] < PerConnection
    /\ \A r \in Keys[m] : resourceCounts[r] < PerResource

-----------------------------------------------------------------------------
(* A line is handed to the registry, which starts to authorise it: the     *)
(* lines of one message follow one another, even when the connection has   *)
(* closed in between.                                                      *)
Receive(m) ==
    /\ stage[m] = "new"
    /\ stage' = [stage EXCEPT ![m] = "authorizing"]
    /\ UNCHANGED <<ahead, activeResources, books, aborted, closed, revoked>>

Authorize(m) ==
    /\ stage[m] = "authorizing"
    /\ stage' = [stage EXCEPT ![m] = IF m \in revoked THEN "forbidden"
                                     ELSE "admitted"]
    /\ UNCHANGED <<ahead, activeResources, books, aborted, closed, revoked>>

SignalFired(m) == ConnectionOf[m] \in closed

(* The registry calls the scheduler: a closed connection and a full queue  *)
(* are refused, anything else is pushed and the queue drained.             *)
Refuse(m, outcome) ==
    /\ stage' = [stage EXCEPT ![m] = outcome]
    /\ UNCHANGED <<ahead, activeResources, books>>

Enqueue(m) ==
    /\ Reserve(m)
    /\ Drain([stage EXCEPT ![m] = "queued"], [ahead EXCEPT ![m] = Queued],
             activeResources)

Schedule(m) ==
    /\ stage[m] = "admitted"
    /\ \/ SignalFired(m) /\ Refuse(m, "cancelled")
       \/ ~SignalFired(m) /\ ~HasCapacity(m) /\ Refuse(m, "overloaded")
       \/ ~SignalFired(m) /\ HasCapacity(m) /\ Enqueue(m)
    /\ UNCHANGED <<aborted, closed, revoked>>

(* The second authorisation, for the rights of now. *)
Reauthorize(m) ==
    /\ stage[m] = "reauthorizing"
    /\ \/ /\ m \in revoked
          /\ Leave({m}, "forbidden", Keys[m])
          /\ Release({m})
       \/ /\ m \notin revoked
          /\ stage' = [stage EXCEPT ![m] = "authorized"]
          /\ UNCHANGED <<ahead, activeResources, books>>
    /\ UNCHANGED <<aborted, closed, revoked>>

(* The continuation of the awaited authorisation. *)
Begin(m) ==
    /\ stage[m] = "authorized"
    /\ \/ /\ m \in aborted
          /\ Leave({m}, "cancelled", Keys[m])
          /\ Release({m})
       \/ /\ m \notin aborted
          /\ stage' = [stage EXCEPT ![m] = "executing"]
          /\ UNCHANGED <<ahead, activeResources, books>>
    /\ UNCHANGED <<aborted, closed, revoked>>

(* The handler returns or throws. Some handlers authorise once more, for   *)
(* what they have found by then, and what they throw is answered as        *)
(* forbidden too.                                                          *)
Finish(m) ==
    /\ stage[m] = "executing"
    /\ \E outcome \in {"settled", "forbidden"} : Leave({m}, outcome, Keys[m])
    /\ Release({m})
    /\ UNCHANGED <<aborted, closed, revoked>>

(* The wait of a queued command has lasted waitTimeoutMs. *)
Expire(m) ==
    /\ stage[m] = "queued"
    /\ Leave({m}, "overloaded", {})
    /\ Release({m})
    /\ UNCHANGED <<aborted, closed, revoked>>

(* cancelConnection removes the queued commands of the connection in one   *)
(* batch and aborts its running ones, then drains; the cleanup of the      *)
(* handler fires the connection's signal.                                  *)
QueuedOf(c) == {m \in Queued : ConnectionOf[m] = c}
HeldOf(c) == {m \in Held : ConnectionOf[m] = c}

(* (mutant) a command that is no longer queued is not aborted *)
AbortsQueuedOf(c) == QueuedOf(c)

AbortsOf(c) == QueuedOf(c) \cup HeldOf(c)

Close(c) ==
    /\ c \notin closed
    /\ closed' = closed \cup {c}
    /\ aborted' = aborted \cup AbortsOf(c)
    /\ Leave(QueuedOf(c), "cancelled", {})
    /\ Release(QueuedOf(c))
    /\ UNCHANGED revoked

(* The role, the session or the resource behind a command changes; (bound) *)
(* only before the last time the registry looks.                           *)
Revoke(m) ==
    /\ m \notin revoked
    /\ stage[m] \in {"new", "authorizing", "admitted", "queued", "reauthorizing"}
    /\ revoked' = revoked \cup {m}
    /\ UNCHANGED <<stage, ahead, activeResources, books, aborted, closed>>

Next ==
    \/ \E m \in Mutation :
         \/ Receive(m) \/ Authorize(m) \/ Schedule(m) \/ Reauthorize(m)
         \/ Begin(m) \/ Finish(m) \/ Expire(m) \/ Revoke(m)
    \/ \E c \in Connection : Close(c)

Spec == Init /\ [][Next]_vars

-----------------------------------------------------------------------------
(* The books of the scheduler are exact and within their limits: every     *)
(* count is the number of queued and running commands it stands for, so no *)
(* path of finish, cancel and expiry gives a place back twice or keeps it. *)
ControlTypeOK ==
    /\ stage \in [Mutation -> Stage]
    /\ ahead \in [Mutation -> SUBSET Mutation]
    /\ activeResources \subseteq Resource
    /\ aborted \subseteq Mutation /\ closed \subseteq Connection
    /\ revoked \subseteq Mutation
    /\ outstanding = Cardinality(Queued \cup Held) /\ outstanding <= Process
    /\ \A c \in Connection :
         /\ connectionCounts[c] = Cardinality(QueuedOf(c) \cup HeldOf(c))
         /\ connectionCounts[c] <= PerConnection
    /\ \A r \in Resource :
         /\ resourceCounts[r] = Cardinality({m \in Queued \cup Held : r \in Keys[m]})
         /\ resourceCounts[r] <= PerResource

(* Two commands that name one resource run one after the other, in the     *)
(* order in which they were admitted: while one is running, none admitted  *)
(* before it is still waiting or running (the scheduler's promise that     *)
(* equal resource keys exclude each other strictly in order of entry).     *)
ConflictsRunInOrder ==
    /\ ControlTypeOK
    /\ activeResources = KeysOf(Held)
    /\ \A m \in Held : \A n \in Held :
         m # n => ~Conflict(m, n)
    /\ \A m \in Held : \A n \in Queued :
         n \in ahead[m] => ~Conflict(m, n)

(* No wake-up is lost: a command waits only behind a running command or an *)
(* earlier queued one that names one of its resources, whichever of        *)
(* finish, refusal, expiry and disconnection came last.                    *)
QueuedIsBlocked ==
    \A m \in Queued :
        \/ Keys[m] \cap activeResources # {}
        \/ \E n \in Queued \cap ahead[m] : Conflict(m, n)

(* The scheduler's contract: a command is a task that comes when it is     *)
(* scheduled and goes when it ends, is refused or expires; two commands    *)
(* are in each other's way if they name a common resource.                 *)
Clashes == {p \in Mutation \X Mutation : p[1] # p[2] /\ Conflict(p[1], p[2])}

QueuedAhead == [m \in Mutation |-> IF m \in Queued THEN ahead[m] \cap Queued ELSE {}]

Admission == INSTANCE OrderedAdmission
                 WITH Task <- Mutation, Clash <- Clashes, waiting <- Queued,
                      before <- QueuedAhead, admitted <- Held

(* The scheduler, with the keys of the running commands and a queue that   *)
(* is searched after every end, cancellation, expiry and disconnection,    *)
(* admits commands as OrderedAdmission does.                               *)
ImplementsOrderedAdmission == Admission!Spec

(* A command whose connection has closed, or whose sender lost its rights  *)
(* before its second authorisation, does not reach its handler, and once   *)
(* it has, neither the queue nor the connection takes it back: it is never *)
(* answered as cancelled or overloaded, while its handler may still find   *)
(* that it is forbidden.                                                   *)
RefusedNeverRuns ==
    [][\A m \in Mutation :
         /\ stage[m] # "executing" /\ stage'[m] = "executing" =>
              ConnectionOf[m] \notin closed /\ m \notin revoked
         /\ stage[m] = "executing" =>
              stage'[m] \in {"executing", "settled", "forbidden"}]_vars
=============================================================================
