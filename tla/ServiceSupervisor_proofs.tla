----------------------- MODULE ServiceSupervisor_proofs -----------------------
(***************************************************************************)
(* Whatever timers, dependents and operations start side by side, a        *)
(* process that runs keeps its handle; only a stop may let one go. What    *)
(* the lease file shows of a service is backed by its process or by a step *)
(* still to come.                                                          *)
(***************************************************************************)
EXTENDS ServiceSupervisor, TLAPS

(* What an attempt knows once it has begun: there is no command to lose.   *)
BeforeSpawn == {"check", "wait", "ports"}

Pc == {"none", "begin", "check", "wait", "ports", "launched", "probing", "ok", "failed"}
Attempt == [pc : Pc, todo : Seq(Service), gen : Nat]

AttemptTypes ==
    /\ command \in [Service -> Nat] /\ generation \in [Service -> Nat]
    /\ alive \in [Service -> SUBSET Nat]
    /\ attempt \in [Service -> Attempt]

SpawnInv ==
    /\ AttemptTypes
    /\ \A s \in Service :
         /\ attempt[s].pc = "wait" => attempt[s].todo # <<>>
         /\ attempt[s].pc \in BeforeSpawn => command[s] = 0

(* No service has begun anything at first.                                 *)
LEMMA InitEstablishesInv == Init => SpawnInv
<1>1. NoAttempt \in Attempt /\ NoAttempt.pc = "none"
  BY DEF NoAttempt, Attempt, Pc
<1>2. ASSUME Init
      PROVE  AttemptTypes /\ \A s \in Service : attempt[s] = NoAttempt /\ command[s] = 0
  BY <1>1, <1>2 DEF Init, AttemptTypes
<1>3. QED
  BY <1>1, <1>2 DEF SpawnInv, BeforeSpawn

(* Sharing or beginning an attempt keeps the attempts well formed, and no  *)
(* attempt that begins has come to a wait yet.                             *)
LEMMA StartSingleKeepsAttempts ==
  ASSUME NEW s,
         NEW a \in [Service -> Attempt]
  PROVE  /\ StartSingle(a, s) \in [Service -> Attempt]
         /\ \A t \in Service :
              \/ StartSingle(a, s)[t] = a[t]
              \/ StartSingle(a, s)[t].pc = "begin"
<1>1. s \in Service => Dependencies[s] \in Seq(Service)
  BY CatalogAssumption
<1>2. CASE a[s].pc = "none"
  <2> DEFINE n == [pc |-> "begin", todo |-> Dependencies[s], gen |-> 0]
  <2>1. StartSingle(a, s) = [t \in Service |-> IF t = s THEN n ELSE a[t]]
    BY <1>2 DEF StartSingle
  <2>2. s \in Service => n \in Attempt
    BY <1>1 DEF Attempt, Pc
  <2>3. /\ n.pc = "begin"
        /\ \A t \in Service : StartSingle(a, s)[t] = n \/ StartSingle(a, s)[t] = a[t]
    BY <2>1
  <2>4. StartSingle(a, s) \in [Service -> Attempt]
    BY <2>1, <2>2
  <2>5. QED
    BY <2>3, <2>4, Zenon
<1>3. CASE a[s].pc # "none"
  BY <1>3 DEF StartSingle
<1>4. QED
  BY <1>2, <1>3

(* Steps that neither touch an attempt nor make a command: a command may   *)
(* at most go.                                                             *)
LEMMA CommandsOnlyGo ==
  ASSUME SpawnInv,
         UNCHANGED <<attempt, generation>>,
         alive' \in [Service -> SUBSET Nat],
         command' \in [Service -> Nat],
         \A s \in Service : command'[s] \in {0, command[s]}
  PROVE  SpawnInv'
  BY DEF SpawnInv, AttemptTypes, BeforeSpawn

(* Steps of attempts: the commands stay, and an attempt comes to a check,  *)
(* a wait or the ports only from one of these or from the look at the      *)
(* command.                                                                *)
LEMMA AttemptsMove ==
  ASSUME SpawnInv,
         UNCHANGED <<command, generation, alive>>,
         attempt' \in [Service -> Attempt],
         \A s \in Service : attempt'[s].pc = "wait" => attempt'[s].todo # <<>>,
         \A s \in Service : attempt'[s].pc \in BeforeSpawn =>
            attempt[s].pc \in BeforeSpawn \/ command[s] = 0
  PROVE  SpawnInv'
  BY DEF SpawnInv, AttemptTypes

(* Where an attempt goes next leaves the others alone.                     *)
LEMMA BecomesMoves ==
  ASSUME NEW s \in Service, NEW pc \in Pc, attempt \in [Service -> Attempt]
  PROVE  LET a == [attempt EXCEPT ![s].pc = pc] IN
         /\ a \in [Service -> Attempt]
         /\ \A t \in Service : a[t].todo = attempt[t].todo
         /\ \A t \in Service : a[t].pc = IF t = s THEN pc ELSE attempt[t].pc
  BY DEF Attempt

(* An attempt that goes on, with or without having looked at the command,  *)
(* while nothing else moves.                                               *)
LEMMA AttemptGoesOn ==
  ASSUME SpawnInv, NEW s \in Service, NEW pc \in Pc, Becomes(s, pc),
         UNCHANGED <<command, generation, alive>>,
         pc # "wait",
         pc \in BeforeSpawn => attempt[s].pc \in BeforeSpawn \/ command[s] = 0
  PROVE  SpawnInv'
<1>1. /\ attempt' \in [Service -> Attempt]
      /\ \A t \in Service : attempt'[t].todo = attempt[t].todo
      /\ \A t \in Service : attempt'[t].pc = IF t = s THEN pc ELSE attempt[t].pc
  <2>1. attempt \in [Service -> Attempt] /\ attempt' = [attempt EXCEPT ![s].pc = pc]
    BY DEF Becomes, SpawnInv, AttemptTypes
  <2>2. QED
    BY <2>1 DEF Attempt
<1>2. QED
  BY <1>1, AttemptsMove DEF SpawnInv

(* What follows an await keeps the handles, whichever await it was.        *)
LEMMA ResumeKeepsInv ==
  ASSUME SpawnInv, Resume
  PROVE  SpawnInv'
<1> USE DEF record
<1>1. ASSUME NEW s \in Service, BeginAttempt(s)
      PROVE  SpawnInv'
  BY <1>1, AttemptGoesOn DEF BeginAttempt, BeforeSpawn, Pc
<1>2. ASSUME NEW s \in Service, CheckDependency(s)
      PROVE  SpawnInv'
  <2>1. CASE attempt[s].todo = <<>>
    BY <1>2, <2>1, AttemptGoesOn DEF CheckDependency, BeforeSpawn, Pc
  <2> DEFINE d == Head(attempt[s].todo)
             w == [attempt EXCEPT ![s].pc = "wait"]
  <2>2. CASE attempt[s].todo # <<>> /\ state[d] = "healthy"
    <3> DEFINE r == Tail(attempt[s].todo)
               n == [attempt EXCEPT ![s].todo = r]
    <3>1. r \in Seq(Service)
      BY <2>2 DEF SpawnInv, AttemptTypes, Attempt
    <3>2. /\ n \in [Service -> Attempt]
          /\ \A t \in Service : n[t].pc = attempt[t].pc
          /\ \A t \in Service : t # s => n[t].todo = attempt[t].todo
      BY <3>1 DEF SpawnInv, AttemptTypes, Attempt
    <3>3. /\ attempt' = n /\ attempt[s].pc = "check"
          /\ UNCHANGED <<command, generation, alive>>
      BY <1>2, <2>2 DEF CheckDependency
    <3>4. QED
      BY <3>2, <3>3, AttemptsMove DEF SpawnInv
  <2>3. CASE attempt[s].todo # <<>> /\ state[d] # "healthy"
    <3>2. /\ w \in [Service -> Attempt]
          /\ \A t \in Service : w[t].todo = attempt[t].todo
          /\ \A t \in Service : w[t].pc = IF t = s THEN "wait" ELSE attempt[t].pc
      <4>1. "wait" \in Pc
        BY DEF Pc
      <4>2. QED
        BY <4>1, BecomesMoves DEF SpawnInv, AttemptTypes
    <3>3. attempt' = StartSingle(w, d) /\ attempt[s].pc = "check"
      BY <1>2, <2>3 DEF CheckDependency
    <3>4. /\ attempt' \in [Service -> Attempt]
          /\ \A t \in Service : attempt'[t] = w[t] \/ attempt'[t].pc = "begin"
      BY <3>2, <3>3, StartSingleKeepsAttempts
    <3>5. UNCHANGED <<command, generation, alive>>
      BY <1>2 DEF CheckDependency
    <3>6. \A t \in Service : attempt'[t].pc = "wait" => attempt'[t].todo # <<>>
      BY <2>3, <3>2, <3>4 DEF SpawnInv
    <3>7. \A t \in Service : attempt'[t].pc \in BeforeSpawn =>
            attempt[t].pc \in BeforeSpawn \/ command[t] = 0
      BY <3>2, <3>3, <3>4 DEF BeforeSpawn
    <3>8. QED
      BY <3>4, <3>5, <3>6, <3>7, AttemptsMove
  <2>4. QED
    BY <2>1, <2>2, <2>3
<1>3. ASSUME NEW s \in Service, NEW won \in BOOLEAN, Settle(s, won)
      PROVE  SpawnInv'
  <2>1. UNCHANGED <<command, generation, alive>>
    BY <1>3 DEF Settle
  <2>2. ASSUME NEW t \in Service
        PROVE  /\ attempt'[t] \in Attempt
               /\ \/ attempt'[t].pc \notin BeforeSpawn
                  \/ attempt'[t] = attempt[t]
                  \/ attempt'[t].pc = "check" /\ attempt[t].pc = "wait"
    <3>1. attempt[t] \in Attempt
      BY DEF SpawnInv, AttemptTypes
    <3>2. CASE t = s
      <4>1. attempt'[t] = NoAttempt
        BY <1>3, <3>2, Zenon DEF Settle, WaitsFor
      <4>2. NoAttempt \in Attempt /\ NoAttempt.pc \notin BeforeSpawn
        BY DEF NoAttempt, Attempt, Pc, BeforeSpawn
      <4>3. QED
        BY <4>1, <4>2
    <3>3. CASE t # s /\ WaitsFor(t, s) /\ won
      <4>1. attempt'[t] = [attempt[t] EXCEPT !.pc = "check", !.todo = Tail(@)]
        BY <1>3, <3>3, Zenon DEF Settle
      <4>2. attempt[t].pc = "wait" /\ attempt[t].todo # <<>>
        BY <3>3 DEF WaitsFor, SpawnInv
      <4>3. Tail(attempt[t].todo) \in Seq(Service)
        BY <3>1, <4>2 DEF Attempt
      <4>4. attempt'[t] \in Attempt /\ attempt'[t].pc = "check"
        BY <3>1, <4>1, <4>3 DEF Attempt, Pc
      <4>5. QED
        BY <4>2, <4>4
    <3>4. CASE t # s /\ WaitsFor(t, s) /\ ~won
      <4>1. attempt'[t] = [attempt[t] EXCEPT !.pc = "failed"]
        BY <1>3, <3>4, Zenon DEF Settle
      <4>2. QED
        BY <3>1, <4>1 DEF BeforeSpawn, Attempt, Pc
    <3>5. CASE t # s /\ ~WaitsFor(t, s)
      <4>1. attempt'[t] = attempt[t]
        BY <1>3, <3>5, Zenon DEF Settle
      <4>2. QED
        BY <3>1, <4>1
    <3>6. QED
      BY <3>2, <3>3, <3>4, <3>5
  <2>3. attempt' \in [Service -> Attempt]
    BY <1>3, <2>2 DEF Settle
  <2>4. \A t \in Service : attempt'[t].pc = "wait" => attempt'[t].todo # <<>>
    BY <2>2 DEF SpawnInv, BeforeSpawn
  <2>5. \A t \in Service : attempt'[t].pc \in BeforeSpawn => attempt[t].pc \in BeforeSpawn
    BY <2>2 DEF BeforeSpawn
  <2>6. QED
    BY <2>1, <2>3, <2>4, <2>5, AttemptsMove
<1>4. CASE NextStart
  <2>1. UNCHANGED <<command, generation, alive>>
    BY <1>4 DEF NextStart
  <2>2. CASE UNCHANGED attempt
    BY <2>1, <2>2, AttemptsMove DEF SpawnInv, AttemptTypes
  <2>3. CASE op.starts # <<>> /\ attempt' = StartSingle(attempt, Head(op.starts))
    <3>1. /\ attempt' \in [Service -> Attempt]
          /\ \A t \in Service : attempt'[t] = attempt[t] \/ attempt'[t].pc = "begin"
      BY <2>3, StartSingleKeepsAttempts DEF SpawnInv, AttemptTypes
    <3>2. QED
      BY <2>1, <3>1, AttemptsMove DEF SpawnInv, BeforeSpawn
  <2>4. QED
    BY <1>4, <2>2, <2>3 DEF NextStart
<1>5. CASE NextStop
  BY <1>5, CommandsOnlyGo DEF NextStop, SpawnInv, AttemptTypes
<1>6. CASE ProcessEnded
  BY <1>6, CommandsOnlyGo DEF ProcessEnded, SpawnInv, AttemptTypes
<1>7. QED
  BY <1>1, <1>2, <1>3, <1>4, <1>5, <1>6 DEF Resume

(* Waits that end.  Only an attempt that came to the ports makes a command. *)
LEMMA WakeKeepsInv ==
  ASSUME SpawnInv, Wake
  PROVE  SpawnInv'
<1> USE DEF record
<1>1. ASSUME NEW s \in Service, PortsTaken(s)
      PROVE  SpawnInv'
  BY <1>1, AttemptGoesOn DEF PortsTaken, BeforeSpawn, Pc
<1>2. ASSUME NEW s \in Service, Spawn(s)
      PROVE  SpawnInv'
  <2> DEFINE g == generation[s] + 1
  <2>1. /\ g \in Nat /\ s \in Service
        /\ attempt' = [attempt EXCEPT ![s] = [@ EXCEPT !.pc = "launched", !.gen = g]]
        /\ command' = [command EXCEPT ![s] = g]
        /\ generation' = [generation EXCEPT ![s] = g]
        /\ alive' = [alive EXCEPT ![s] = @ \cup {g}]
    BY <1>2 DEF Spawn, SpawnInv, AttemptTypes
  <2>2. /\ attempt' \in [Service -> Attempt]
        /\ attempt'[s].pc = "launched"
        /\ \A t \in Service \ {s} : attempt'[t] = attempt[t]
    BY <2>1 DEF SpawnInv, AttemptTypes, Attempt, Pc
  <2>3. ASSUME NEW t \in Service
        PROVE  /\ attempt'[t].pc = "wait" => attempt'[t].todo # <<>>
               /\ attempt'[t].pc \in BeforeSpawn => command'[t] = 0
    BY <2>1, <2>2 DEF SpawnInv, AttemptTypes, BeforeSpawn
  <2>4. AttemptTypes'
    BY <2>1, <2>2 DEF SpawnInv, AttemptTypes
  <2>5. QED
    BY <2>3, <2>4 DEF SpawnInv
<1>3. ASSUME NEW s \in Service, Launched(s)
      PROVE  SpawnInv'
  BY <1>3, AttemptGoesOn DEF Launched, BeforeSpawn, Pc
<1>4. ASSUME NEW s \in Service, Probe(s)
      PROVE  SpawnInv'
  BY <1>4, AttemptGoesOn DEF Probe, Ready, BeforeSpawn, Pc
<1>5. ASSUME NEW s \in Service, FireRestartTimer(s)
      PROVE  SpawnInv'
  <2>1. UNCHANGED <<command, generation, alive>>
    BY <1>5 DEF FireRestartTimer
  <2>2. CASE attempt' = StartSingle(attempt, s)
    <3>1. /\ attempt' \in [Service -> Attempt]
          /\ \A t \in Service : attempt'[t] = attempt[t] \/ attempt'[t].pc = "begin"
      BY <2>2, StartSingleKeepsAttempts DEF SpawnInv, AttemptTypes
    <3>2. QED
      BY <2>1, <3>1, AttemptsMove DEF SpawnInv, BeforeSpawn
  <2>3. CASE UNCHANGED attempt
    BY <2>1, <2>3, AttemptsMove DEF SpawnInv, AttemptTypes
  <2>4. QED
    BY <1>5, <2>2, <2>3 DEF FireRestartTimer
<1>6. ASSUME NEW s \in Service, NEW g \in Generation, HandleClose(s, g)
      PROVE  SpawnInv'
  BY <1>6, CommandsOnlyGo DEF HandleClose, SpawnInv, AttemptTypes
<1>7. CASE Release \/ Hook \/ ProcessOutlives
  BY <1>7, CommandsOnlyGo DEF Release, Hook, ProcessOutlives, SpawnInv, AttemptTypes
<1>8. CASE PortsReleased
  <2>1. /\ UNCHANGED <<attempt, generation, alive>>
        /\ command' \in {command, [command EXCEPT ![Head(op.stops)] = 0]}
    BY <1>8 DEF PortsReleased
  <2>2. /\ command' \in [Service -> Nat]
        /\ \A s \in Service : command'[s] \in {0, command[s]}
    BY <2>1 DEF SpawnInv, AttemptTypes
  <2>3. QED
    BY <2>1, <2>2, CommandsOnlyGo DEF SpawnInv, AttemptTypes
<1>9. QED
  BY <1>1, <1>2, <1>3, <1>4, <1>5, <1>6, <1>7, <1>8 DEF Wake

(* Ends of processes, probes and requests begin no attempt.                *)
LEMMA EnvironmentKeepsInv ==
  ASSUME SpawnInv, Environment
  PROVE  SpawnInv'
<1> USE DEF record
<1>1. ASSUME NEW s \in Service, AskHealth(s) \/ HealthAnswer(s)
      PROVE  SpawnInv'
  BY <1>1, CommandsOnlyGo DEF AskHealth, HealthAnswer, SpawnInv, AttemptTypes
<1>2. ASSUME NEW s \in Service, NEW g \in Generation, Exit(s, g)
      PROVE  SpawnInv'
  <2>1. /\ UNCHANGED <<attempt, generation>>
        /\ alive' = [alive EXCEPT ![s] = @ \ {g}]
        /\ command' \in {command, [command EXCEPT ![s] = 0]}
    BY <1>2 DEF Exit
  <2>2. /\ alive' \in [Service -> SUBSET Nat]
        /\ command' \in [Service -> Nat]
        /\ \A t \in Service : command'[t] \in {0, command[t]}
    BY <2>1 DEF SpawnInv, AttemptTypes
  <2>3. QED
    BY <2>1, <2>2, CommandsOnlyGo
<1>3. ASSUME NEW kind, NEW all, NEW s, Request(kind, all, s)
      PROVE  SpawnInv'
  <2>1. UNCHANGED <<attempt, generation, alive, command>>
    BY <1>3 DEF Request
  <2>2. QED
    BY <2>1, CommandsOnlyGo DEF SpawnInv, AttemptTypes
<1>4. QED
  BY <1>1, <1>2, <1>3 DEF Environment

(* In every reachable state an attempt that may still make a command finds *)
(* the service without one.                                                *)
LEMMA SpawnInvariant == Spec => []SpawnInv
<1>1. SpawnInv /\ [Next]_vars => SpawnInv'
  <2>1. SpawnInv /\ UNCHANGED vars => SpawnInv'
    BY DEF vars, SpawnInv, AttemptTypes
  <2>2. QED
    BY <2>1, ResumeKeepsInv, WakeKeepsInv, EnvironmentKeepsInv DEF Next
<1>2. QED
  BY <1>1, InitEstablishesInv, PTL DEF Spec

(* Nothing takes the handle of a process that runs: not the attempt of a   *)
(* timer beside an operation's, not a late close event, not a probe; only  *)
(* the end of the service's own stop lets a command go whatever it is.     *)
THEOREM RunningProcessesKeepTheirHandle == Spec => HandlesAreKept
<1> DEFINE Kept(s) ==
      command[s] # 0 /\ command[s] \in alive'[s] /\ command'[s] # command[s] =>
        op.pc = "ports" /\ Head(op.stops) = s
<1>1. ASSUME SpawnInv, NEW s \in Service, [Next]_vars
      PROVE  Kept(s)
  <2> USE DEF record
  <2>1. CASE UNCHANGED command
    BY <2>1
  <2>2. ASSUME NEW t \in Service, Spawn(t)
        PROVE  Kept(s)
    <3>1. command[t] = 0 /\ command' = [command EXCEPT ![t] = generation[t] + 1]
      BY <1>1, <2>2 DEF Spawn, SpawnInv, BeforeSpawn
    <3>2. QED
      BY <1>1, <3>1 DEF SpawnInv, AttemptTypes
  <2>3. ASSUME NEW t \in Service, NEW g \in Generation, Exit(t, g)
        PROVE  Kept(s)
    <3>1. /\ alive' = [alive EXCEPT ![t] = @ \ {g}]
          /\ IF command[t] = g THEN command' = [command EXCEPT ![t] = 0] ELSE UNCHANGED command
      BY <2>3 DEF Exit
    <3>2. QED
      BY <1>1, <3>1 DEF SpawnInv, AttemptTypes
  <2>4. CASE PortsReleased
    <3>1. /\ op.pc = "ports"
          /\ command' \in {command, [command EXCEPT ![Head(op.stops)] = 0]}
      BY <2>4 DEF PortsReleased
    <3>2. QED
      BY <1>1, <3>1 DEF SpawnInv, AttemptTypes
  <2>5. CASE Resume
    <3>1. UNCHANGED command
      BY <2>5 DEF Resume, BeginAttempt, CheckDependency, Settle, NextStart, NextStop, ProcessEnded
    <3>2. QED
      BY <3>1, <2>1
  <2>6. CASE Wake
    <3>1. \/ UNCHANGED command
          \/ \E t \in Service : Spawn(t)
          \/ PortsReleased
      BY <2>6, Zenon DEF Wake, PortsTaken, Launched, Probe, FireRestartTimer, HandleClose,
                  Release, Hook, ProcessOutlives
    <3>2. QED
      BY <3>1, <2>1, <2>2, <2>4
  <2>7. CASE Environment
    <3>1. \/ UNCHANGED command
          \/ \E t \in Service : \E g \in Generation : Exit(t, g)
      BY <2>7, Zenon DEF Environment, AskHealth, HealthAnswer, Request
    <3>2. QED
      BY <3>1, <2>1, <2>3
  <2>8. QED
    BY <1>1, <2>1, <2>5, <2>6, <2>7 DEF Next, vars
<1>2. SpawnInv /\ [Next]_vars => \A s \in Service : Kept(s)
  BY <1>1
<1>3. QED
  BY <1>2, SpawnInvariant, PTL DEF Spec, HandlesAreKept

-----------------------------------------------------------------------------
(* What the snapshot shows is backed by a process, a stop or a restart.    *)

OperationShape ==
    op = [pc |-> op.pc, kind |-> op.kind, stops |-> op.stops, starts |-> op.starts,
          handle |-> op.handle]

(* What an announced restart waits for: its timer, an attempt that will    *)
(* change what is announced, or one the timer has begun or joined and will *)
(* hear from; or the stop that has cleared the timer.                      *)
RestartIsComing(s) ==
    \/ restartTimer[s] # 0
    \/ attempt[s].pc \in {"begin", "check", "ports"}
    \/ attempt[s].pc # "none" /\ generation[s] \in caught[s]
    \/ op.pc = "release" /\ Head(op.stops) = s

StopIsUnderWay(s) == op.pc \in {"hook", "term", "kill", "ports"} /\ Head(op.stops) = s

(* StatesAreBacked service by service, and what it needs to be kept.       *)
Backed(s) ==
    /\ command[s] # 0 => command[s] = generation[s] /\ command[s] \in alive[s]
    /\ state[s] \in {"starting", "healthy", "degraded"} =>
         command[s] # 0 \/ <<s, generation[s]>> \in ToSet(closing)
    /\ state[s] = "stopping" => StopIsUnderWay(s)
    /\ desired[s] => generation[s] # 0
    /\ stopping[s] \/ command[s] # 0 => state[s] # "restart_wait"
    /\ state[s] = "restart_wait" /\ restartTimer[s] # 0 => restartTimer[s] = generation[s]
    /\ attempt[s].pc \in {"launched", "probing"} => attempt[s].gen # 0
    /\ attempt[s].pc = "ok" => command[s] # 0
    /\ state[s] = "restart_wait" /\ desired[s] => RestartIsComing(s)

BackedInv == Types /\ OperationShape /\ \A s \in Service : Backed(s)

(* The generation every service starts with is one of those counted.       *)
LEMMA ZeroIsGeneration == 0 \in Generation
  BY BoundAssumption DEF Generation

(* What the writes of the lease file still have to tell grows at one end   *)
(* and shrinks at the other.                                               *)
LEMMA ClosingGrows ==
  ASSUME NEW S, NEW q \in Seq(S), NEW e \in S
  PROVE  ToSet(q) \cup {e} \subseteq ToSet(Append(q, e))
<1>1. /\ Len(Append(q, e)) = Len(q) + 1 /\ Append(q, e)[Len(q) + 1] = e
      /\ \A i \in 1..Len(q) : Append(q, e)[i] = q[i]
      /\ Len(q) \in Nat /\ DOMAIN q = 1..Len(q) /\ DOMAIN Append(q, e) = 1..(Len(q) + 1)
  OBVIOUS
<1>2. \A i \in 1..Len(q) : i \in 1..(Len(q) + 1)
  BY <1>1
<1>3. QED
  BY <1>1, <1>2 DEF ToSet

(* Taking the head off a list takes away at most that one service.         *)
LEMMA ClosingShrinks ==
  ASSUME NEW S, NEW q \in Seq(S), q # <<>>
  PROVE  ToSet(q) \ {Head(q)} \subseteq ToSet(Tail(q))
<1>1. /\ Len(q) \in Nat /\ DOMAIN q = 1..Len(q) /\ DOMAIN Tail(q) = 1..(Len(q) - 1)
      /\ Head(q) = q[1]
      /\ \A i \in 2..Len(q) : Tail(q)[i - 1] = q[i]
  OBVIOUS
<1>2. ASSUME NEW i \in DOMAIN q, q[i] # Head(q)
      PROVE  q[i] \in ToSet(Tail(q))
  <2>1. i \in 2..Len(q) /\ i - 1 \in DOMAIN Tail(q)
    BY <1>1, <1>2
  <2>2. QED
    BY <1>1, <2>1 DEF ToSet
<1>3. QED
  BY <1>2 DEF ToSet

(* No service shows anything that needs backing at first.                  *)
LEMMA InitEstablishesBackedInv == Init => BackedInv
<1>1. ASSUME Init
      PROVE  Types
  BY <1>1, BoundAssumption DEF Init, Types, State, Generation
<1>2. ASSUME Init
      PROVE  OperationShape
  BY <1>2 DEF Init, OperationShape, NoOperation
<1>3. ASSUME Init, NEW s \in Service
      PROVE  Backed(s)
  <2>1. state[s] = "stopped" /\ command[s] = 0 /\ ~desired[s] /\ attempt[s] = NoAttempt
    BY <1>3 DEF Init
  <2>2. QED
    BY <2>1 DEF Backed, NoAttempt
<1>4. QED
  BY <1>1, <1>2, <1>3 DEF BackedInv

(* An attempt that goes on leaves the other attempts and its process alone. *)
LEMMA BecomesAlone ==
  ASSUME SpawnInv, NEW s \in Service, NEW pc \in Pc, Becomes(s, pc)
  PROVE  /\ attempt'[s].pc = pc /\ attempt'[s].gen = attempt[s].gen
         /\ \A t \in Service : t # s => attempt'[t] = attempt[t]
  BY DEF Becomes, SpawnInv, AttemptTypes, Attempt

(* Resuming an attempt leaves the commands alone, and what is announced    *)
(* stays announced until the attempt has settled.                          *)
LEMMA AttemptsKeepBackedInv ==
  ASSUME SpawnInv, SpawnInv', BackedInv, NEW s \in Service,
         BeginAttempt(s) \/ CheckDependency(s)
  PROVE  BackedInv'
<1> USE DEF record, monitor, restarts
<1>1. CASE BeginAttempt(s)
  <2>1. /\ UNCHANGED <<state, command, generation, alive, desired, stopping, closing, caught, op>>
        /\ attempt[s].pc = "begin"
    BY <1>1 DEF BeginAttempt
  <2>2. PICK pc \in {"ok", "failed", "check"} :
          /\ Becomes(s, pc)
          /\ pc = "check" => command[s] = 0 /\ restartTimer' = [restartTimer EXCEPT ![s] = 0]
          /\ pc # "check" => command[s] # 0 /\ UNCHANGED restartTimer
    BY <1>1 DEF BeginAttempt
  <2>3. /\ attempt'[s].pc = pc
        /\ \A t \in Service : t # s => attempt'[t] = attempt[t]
    <3>1. pc \in Pc
      BY DEF Pc
    <3>2. QED
      BY <2>2, <3>1, BecomesAlone
  <2>4. \A t \in Service :
          restartTimer'[t] = IF t = s /\ pc = "check" THEN 0 ELSE restartTimer[t]
    BY <2>2 DEF BackedInv, Types
  <2>5. Types' /\ OperationShape'
    <3>1. restartTimer' \in [Service -> Generation]
      BY <2>2, ZeroIsGeneration DEF BackedInv, Types
    <3>2. QED
      BY <1>1, <2>1, <3>1 DEF BeginAttempt, BackedInv, Types, OperationShape
  <2>6. ASSUME NEW t \in Service
        PROVE  Backed(t)'
    <3>1. CASE t = s
      BY <2>1, <2>2, <2>3, <2>4, <3>1 DEF BackedInv, Backed, StopIsUnderWay, RestartIsComing
    <3>2. CASE t # s
      BY <2>1, <2>3, <2>4, <3>2 DEF BackedInv, Backed, StopIsUnderWay, RestartIsComing
    <3>3. QED
      BY <3>1, <3>2
  <2>7. QED
    BY <2>5, <2>6 DEF BackedInv
<1>2. CASE CheckDependency(s)
  <2>1. /\ UNCHANGED <<command, generation, alive, desired, stopping, restartTimer, failures,
                       closing, healthTimer, probed, caught, op>>
        /\ attempt[s].pc = "check"
    BY <1>2 DEF CheckDependency
  <2> DEFINE d == Head(attempt[s].todo)
             w == [attempt EXCEPT ![s].pc = "wait"]
  <2>2. /\ \A t \in Service : t # s => state'[t] = state[t]
        /\ state' \in [Service -> State]
        /\ \/ state' = state /\ attempt'[s].pc \in {"check", "ports"}
           \/ state'[s] = "waiting_dependency" /\ attempt'[s].pc \in {"wait", "begin"}
        /\ \A t \in Service : t # s => attempt'[t] = attempt[t] \/ attempt'[t].pc = "begin"
    <3>1. CASE attempt[s].todo = <<>>
      <4>1. Becomes(s, "ports") /\ UNCHANGED state
        BY <1>2, <3>1 DEF CheckDependency
      <4>2. "ports" \in Pc
        BY DEF Pc
      <4>3. QED
        BY <4>1, <4>2, BecomesAlone DEF BackedInv, Types
    <3>2. CASE attempt[s].todo # <<>> /\ state[d] = "healthy"
      <4>1. attempt' = [attempt EXCEPT ![s].todo = Tail(@)] /\ UNCHANGED state
        BY <1>2, <3>2 DEF CheckDependency
      <4>2. QED
        BY <2>1, <4>1 DEF SpawnInv, AttemptTypes, Attempt, BackedInv, Types
    <3>3. CASE attempt[s].todo # <<>> /\ state[d] # "healthy"
      <4>1. attempt' = StartSingle(w, d) /\ state' = [state EXCEPT ![s] = "waiting_dependency"]
        BY <1>2, <3>3 DEF CheckDependency
      <4>2. /\ w \in [Service -> Attempt] /\ w[s].pc = "wait"
            /\ \A t \in Service : t # s => w[t] = attempt[t]
        BY DEF SpawnInv, AttemptTypes, Attempt, Pc
      <4>3. \A t \in Service : attempt'[t] = w[t] \/ attempt'[t].pc = "begin"
        <5>1. \A t \in Service : StartSingle(w, d)[t] = w[t] \/ StartSingle(w, d)[t].pc = "begin"
          BY <4>2, StartSingleKeepsAttempts
        <5>2. QED
          BY <4>1, <5>1
      <4>4. /\ state'[s] = "waiting_dependency" /\ state' \in [Service -> State]
            /\ \A t \in Service : t # s => state'[t] = state[t]
        BY <4>1 DEF BackedInv, Types, State
      <4>5. QED
        BY <4>2, <4>3, <4>4
    <3>4. QED
      BY <3>1, <3>2, <3>3
  <2>3. Types' /\ OperationShape'
    BY <2>1, <2>2 DEF BackedInv, Types, OperationShape
  <2>4. ASSUME NEW t \in Service
        PROVE  Backed(t)'
    <3>1. CASE t = s
      BY <2>1, <2>2, <3>1 DEF BackedInv, Backed, StopIsUnderWay, RestartIsComing
    <3>2. CASE t # s
      BY <2>1, <2>2, <3>2 DEF BackedInv, Backed, StopIsUnderWay, RestartIsComing
    <3>3. QED
      BY <3>1, <3>2
  <2>5. QED
    BY <2>3, <2>4 DEF BackedInv
<1>3. QED
  BY <1>1, <1>2

(* Whoever awaited an attempt goes on, and the restart it was is over: the *)
(* service shows another state, or its timer is set.                       *)
LEMMA SettleKeepsBackedInv ==
  ASSUME SpawnInv, SpawnInv', BackedInv, NEW s \in Service, NEW won \in BOOLEAN, Settle(s, won)
  PROVE  BackedInv'
<1> USE DEF record, monitor, restarts
<1>1. /\ UNCHANGED <<command, generation, alive, desired, stopping, restartTimer, failures,
                     closing, healthTimer, probed>>
      /\ attempt[s].pc = IF won THEN "ok" ELSE "failed"
      /\ op' = GoesOn(s, won)
      /\ state' = IF ~won /\ GivenUp(s) THEN [state EXCEPT ![s] = "failed"] ELSE state
      /\ caught' = [caught EXCEPT ![s] = {}]
  BY Zenon DEF Settle, record, monitor, restarts
<1>2. op' = op \/ (op.pc = "await" /\ op'.pc \in {"next", "idle"})
  BY <1>1 DEF GoesOn, NoOperation, BackedInv, OperationShape
<1>3. OperationShape'
  BY <1>1 DEF GoesOn, NoOperation, BackedInv, OperationShape
<1>4. ASSUME NEW t \in Service, t # s
      PROVE  \/ attempt'[t] = attempt[t]
             \/ attempt[t].pc = "wait" /\ attempt'[t].pc = "check"
             \/ attempt[t].pc = "wait" /\ attempt'[t].pc = "failed"
  <2>1. attempt[t] \in Attempt
    BY DEF SpawnInv, AttemptTypes
  <2>2. CASE WaitsFor(t, s) /\ won
    <3>1. attempt'[t] = [attempt[t] EXCEPT !.pc = "check", !.todo = Tail(@)]
      BY <1>4, <2>2, Zenon DEF Settle
    <3>2. QED
      BY <2>1, <2>2, <3>1 DEF WaitsFor, Attempt
  <2>3. CASE WaitsFor(t, s) /\ ~won
    <3>1. attempt'[t] = [attempt[t] EXCEPT !.pc = "failed"]
      BY <1>4, <2>3, Zenon DEF Settle
    <3>2. QED
      BY <2>1, <2>3, <3>1 DEF WaitsFor, Attempt
  <2>4. CASE ~WaitsFor(t, s)
    BY <1>4, <2>4, Zenon DEF Settle
  <2>5. QED
    BY <2>2, <2>3, <2>4
<1>5. attempt'[s].pc = "none"
  <2>1. ASSUME NEW t \in Service, t = s
        PROVE  attempt'[t] = NoAttempt
    BY <2>1, Zenon DEF Settle, WaitsFor
  <2>2. QED
    BY <2>1 DEF NoAttempt
<1>6. Types'
  <2>1. state' \in [Service -> State] /\ caught' \in [Service -> SUBSET Generation]
    BY <1>1 DEF BackedInv, Types, State
  <2>2. QED
    BY <1>1, <2>1 DEF BackedInv, Types
<1>7. ASSUME NEW t \in Service
      PROVE  Backed(t)'
  <2>1. CASE t # s
    <3>1. state'[t] = state[t] /\ caught'[t] = caught[t]
      BY <1>1, <2>1 DEF BackedInv, Types
    <3>2. QED
      BY <1>1, <1>2, <1>4, <2>1, <3>1 DEF BackedInv, Backed, StopIsUnderWay, RestartIsComing
  <2>2. CASE t = s
    <3>1. state'[s] = IF ~won /\ GivenUp(s) THEN "failed" ELSE state[s]
      BY <1>1 DEF BackedInv, Types
    <3>2. QED
      BY <1>1, <1>2, <1>5, <2>2, <3>1
      DEF BackedInv, Backed, StopIsUnderWay, RestartIsComing, GivenUp
  <2>3. QED
    BY <2>1, <2>2
<1>8. QED
  BY <1>3, <1>6, <1>7 DEF BackedInv

(* An operation clears a timer only when it has looked at the state, and   *)
(* says that it stops a service as long as the service shows it.           *)
LEMMA OperationsKeepBackedInv ==
  ASSUME SpawnInv, SpawnInv', BackedInv,
         NextStart \/ NextStop \/ ProcessEnded
  PROVE  BackedInv'
<1> USE DEF record, monitor, restarts
<1>1. CASE NextStart
  <2>1. UNCHANGED <<state, alive, record, monitor, restarts, caught, requests>>
    BY <1>1 DEF NextStart
  <2>2. op.pc = "next" /\ op'.pc \notin {"hook", "term", "kill", "ports", "release"}
        /\ OperationShape'
    BY <1>1 DEF NextStart, NoOperation, BackedInv, OperationShape
  <2>3. \A t \in Service : attempt'[t] = attempt[t] \/ attempt'[t].pc = "begin"
    <3>1. attempt \in [Service -> Attempt]
      BY DEF SpawnInv, AttemptTypes
    <3>2. UNCHANGED attempt \/ attempt' = StartSingle(attempt, Head(op.starts))
      BY <1>1 DEF NextStart
    <3>3. \A t \in Service : \/ StartSingle(attempt, Head(op.starts))[t] = attempt[t]
                             \/ StartSingle(attempt, Head(op.starts))[t].pc = "begin"
      BY <3>1, StartSingleKeepsAttempts
    <3>4. QED
      BY <3>2, <3>3
  <2>4. Types'
    BY <2>1 DEF BackedInv, Types
  <2>5. ASSUME NEW t \in Service
        PROVE  Backed(t)'
    BY <2>1, <2>2, <2>3 DEF BackedInv, Backed, StopIsUnderWay, RestartIsComing
  <2>6. QED
    BY <2>2, <2>4, <2>5 DEF BackedInv
<1>2. CASE NextStop
  <2> DEFINE h == Head(op.stops)
  <2>1. /\ UNCHANGED <<command, generation, alive, monitor, failures, closing, attempt, caught>>
        /\ op.pc = "next"
        /\ restartTimer' = [restartTimer EXCEPT ![h] = 0]
        /\ desired' = [desired EXCEPT ![h] = @ /\ op.kind # "restart"]
    BY <1>2 DEF NextStop
  <2>2. \/ /\ command[h] = 0 /\ state[h] \in {"stopped", "conflict"}
           /\ op' = Stopped(op)
           /\ UNCHANGED <<state, stopping>>
        \/ /\ command[h] = 0
           /\ op' = [op EXCEPT !.pc = "release"]
           /\ UNCHANGED <<state, stopping>>
        \/ /\ command[h] # 0
           /\ op' = [op EXCEPT !.pc = "hook", !.handle = command[h]]
           /\ state' = [state EXCEPT ![h] = "stopping"]
           /\ stopping' = [stopping EXCEPT ![h] = TRUE]
    BY <1>2 DEF NextStop
  <2>3. /\ OperationShape'
        /\ op'.pc \in {"next", "release", "hook"}
        /\ op'.pc # "next" => Head(op'.stops) = h
        /\ op'.pc = "next" => state[h] \in {"stopped", "conflict"} /\ state' = state
        /\ op'.pc # "hook" => state' = state
        /\ op'.pc = "hook" => state' = [state EXCEPT ![h] = "stopping"]
                              /\ stopping' = [stopping EXCEPT ![h] = TRUE]
        /\ op'.pc # "hook" => stopping' = stopping
    BY <2>2 DEF Stopped, BackedInv, OperationShape
  <2>4. Types'
    <3>1. state' \in [Service -> State]
      BY <2>2 DEF BackedInv, Types, State
    <3>2. stopping' \in [Service -> BOOLEAN] /\ restartTimer' \in [Service -> Generation]
      BY <2>1, <2>2, ZeroIsGeneration DEF BackedInv, Types
    <3>3. desired' \in [Service -> BOOLEAN]
      BY <2>1 DEF BackedInv, Types
    <3>4. QED
      BY <2>1, <3>1, <3>2, <3>3 DEF BackedInv, Types
  <2>5. ASSUME NEW t \in Service
        PROVE  Backed(t)'
    <3>1. /\ desired'[t] => desired[t]
          /\ restartTimer'[t] = IF t = h THEN 0 ELSE restartTimer[t]
          /\ state'[t] = IF t = h /\ op'.pc = "hook" THEN "stopping" ELSE state[t]
          /\ stopping'[t] = IF t = h /\ op'.pc = "hook" THEN TRUE ELSE stopping[t]
      BY <2>1, <2>3 DEF BackedInv, Types
    <3>2. QED
      BY <2>1, <2>3, <3>1 DEF BackedInv, Backed, StopIsUnderWay, RestartIsComing
  <2>6. QED
    BY <2>3, <2>4, <2>5 DEF BackedInv
<1>3. CASE ProcessEnded
  <2>1. /\ UNCHANGED <<state, alive, record, monitor, restarts, attempt, caught, requests>>
        /\ op.pc \in {"term", "kill"} /\ op' = [op EXCEPT !.pc = "ports"]
    BY <1>3 DEF ProcessEnded
  <2>2. OperationShape' /\ op'.pc = "ports" /\ op'.stops = op.stops
    BY <2>1 DEF BackedInv, OperationShape
  <2>3. Types'
    BY <2>1 DEF BackedInv, Types
  <2>4. ASSUME NEW t \in Service
        PROVE  Backed(t)'
    BY <2>1, <2>2 DEF BackedInv, Backed, StopIsUnderWay, RestartIsComing
  <2>5. QED
    BY <2>2, <2>3, <2>4 DEF BackedInv
<1>4. QED
  BY <1>1, <1>2, <1>3

(* A process begins under its own command, and an attempt believes a probe *)
(* only of that one.                                                       *)
LEMMA StartsKeepBackedInv ==
  ASSUME SpawnInv, SpawnInv', BackedInv, NEW s \in Service,
         PortsTaken(s) \/ Spawn(s) \/ Launched(s) \/ Probe(s)
  PROVE  BackedInv'
<1> USE DEF record, monitor, restarts
<1>1. CASE PortsTaken(s)
  <2>1. /\ UNCHANGED <<alive, record, monitor, restarts, caught, op, requests>>
        /\ Becomes(s, "failed") /\ attempt[s].pc = "ports"
        /\ state' = [state EXCEPT ![s] = "conflict"]
    BY <1>1 DEF PortsTaken
  <2>2. attempt'[s].pc = "failed" /\ \A t \in Service : t # s => attempt'[t] = attempt[t]
    BY <2>1, BecomesAlone DEF Pc
  <2>3. Types' /\ OperationShape'
    BY <2>1 DEF BackedInv, Types, State, OperationShape
  <2>4. ASSUME NEW t \in Service
        PROVE  Backed(t)'
    <3>1. state'[t] = IF t = s THEN "conflict" ELSE state[t]
      BY <2>1 DEF BackedInv, Types
    <3>2. QED
      BY <2>1, <2>2, <3>1 DEF BackedInv, Backed, StopIsUnderWay, RestartIsComing
  <2>5. QED
    BY <2>3, <2>4 DEF BackedInv
<1>2. CASE Spawn(s)
  <2> DEFINE g == generation[s] + 1
  <2>1. /\ generation[s] < MaxGeneration
        /\ generation' = [generation EXCEPT ![s] = g]
        /\ command' = [command EXCEPT ![s] = g]
        /\ alive' = [alive EXCEPT ![s] = @ \cup {g}]
        /\ attempt' = [attempt EXCEPT ![s] = [@ EXCEPT !.pc = "launched", !.gen = g]]
        /\ desired' = [desired EXCEPT ![s] = TRUE]
        /\ stopping' = [stopping EXCEPT ![s] = FALSE]
        /\ state' = [state EXCEPT ![s] = "starting"]
        /\ UNCHANGED <<monitor, restarts, caught, op, requests>>
    BY <1>2 DEF Spawn
  <2>2. g \in Generation /\ g # 0
    BY <2>1, BoundAssumption DEF BackedInv, Types, Generation
  <2>3. Types' /\ OperationShape'
    BY <2>1, <2>2 DEF BackedInv, Types, State, OperationShape
  <2>4. /\ attempt'[s].pc = "launched" /\ attempt'[s].gen = g
        /\ \A t \in Service : t # s => attempt'[t] = attempt[t]
    BY <2>1 DEF SpawnInv, AttemptTypes, Attempt
  <2>5. ASSUME NEW t \in Service
        PROVE  Backed(t)'
    <3>1. CASE t = s
      <4>1. /\ command'[s] = g /\ generation'[s] = g /\ g \in alive'[s] /\ state'[s] = "starting"
        BY <2>1 DEF BackedInv, Types
      <4>2. QED
        BY <2>2, <2>4, <3>1, <4>1 DEF Backed, StopIsUnderWay, RestartIsComing
    <3>2. CASE t # s
      <4>1. /\ command'[t] = command[t] /\ generation'[t] = generation[t] /\ alive'[t] = alive[t]
            /\ desired'[t] = desired[t] /\ stopping'[t] = stopping[t] /\ state'[t] = state[t]
        BY <2>1, <3>2 DEF BackedInv, Types
      <4>2. QED
        BY <2>1, <2>4, <3>2, <4>1 DEF BackedInv, Backed, StopIsUnderWay, RestartIsComing
    <3>3. QED
      BY <3>1, <3>2
  <2>6. QED
    BY <2>3, <2>5 DEF BackedInv
<1>3. CASE Launched(s)
  <2>1. /\ UNCHANGED <<state, alive, record, monitor, restarts, caught, op, requests>>
        /\ attempt[s].pc = "launched"
    BY <1>3 DEF Launched
  <2>2. PICK pc \in {"probing", "failed"} : Becomes(s, pc)
    BY <1>3 DEF Launched
  <2>3. /\ attempt'[s].pc = pc /\ attempt'[s].gen = attempt[s].gen
        /\ \A t \in Service : t # s => attempt'[t] = attempt[t]
    <3>1. pc \in Pc
      BY DEF Pc
    <3>2. QED
      BY <2>2, <3>1, BecomesAlone
  <2>4. Types' /\ OperationShape'
    BY <2>1 DEF BackedInv, Types, OperationShape
  <2>5. ASSUME NEW t \in Service
        PROVE  Backed(t)'
    BY <2>1, <2>2, <2>3 DEF BackedInv, Backed, StopIsUnderWay, RestartIsComing
  <2>6. QED
    BY <2>4, <2>5 DEF BackedInv
<1>4. CASE Probe(s)
  <2>1. /\ UNCHANGED <<alive, record, probed, restarts, caught, op, requests>>
        /\ attempt[s].pc = "probing"
    BY <1>4 DEF Probe
  <2>2. CASE Ready(s)
    <3>1. /\ command[s] = attempt[s].gen /\ Becomes(s, "ok")
          /\ state' = [state EXCEPT ![s] = "healthy"]
          /\ healthTimer' = [healthTimer EXCEPT ![s] = command[s]]
      BY <2>2 DEF Ready, IsCurrent
    <3>2. attempt'[s].pc = "ok" /\ \A t \in Service : t # s => attempt'[t] = attempt[t]
      BY <3>1, BecomesAlone DEF Pc
    <3>3. Types' /\ OperationShape'
      BY <2>1, <3>1 DEF BackedInv, Types, State, OperationShape
    <3>4. ASSUME NEW t \in Service
          PROVE  Backed(t)'
      <4>1. state'[t] = IF t = s THEN "healthy" ELSE state[t]
        BY <3>1 DEF BackedInv, Types
      <4>2. command[s] # 0
        BY <2>1, <3>1 DEF BackedInv, Backed
      <4>3. QED
        BY <2>1, <3>2, <4>1, <4>2 DEF BackedInv, Backed, StopIsUnderWay, RestartIsComing
    <3>5. QED
      BY <3>3, <3>4 DEF BackedInv
  <2>3. CASE Becomes(s, "failed") /\ UNCHANGED <<state, healthTimer>>
    <3>1. attempt'[s].pc = "failed" /\ \A t \in Service : t # s => attempt'[t] = attempt[t]
      BY <2>3, BecomesAlone DEF Pc
    <3>2. Types' /\ OperationShape'
      BY <2>1, <2>3 DEF BackedInv, Types, OperationShape
    <3>3. ASSUME NEW t \in Service
          PROVE  Backed(t)'
      BY <2>1, <2>3, <3>1 DEF BackedInv, Backed, StopIsUnderWay, RestartIsComing
    <3>4. QED
      BY <3>2, <3>3 DEF BackedInv
  <2>4. QED
    BY <1>4, <2>2, <2>3 DEF Probe
<1>5. QED
  BY <1>1, <1>2, <1>3, <1>4

(* A timer that fires is that of the last process, so the restart it has   *)
(* announced begins or joins an attempt.                                   *)
LEMMA TimersKeepBackedInv ==
  ASSUME SpawnInv, SpawnInv', BackedInv, NEW s \in Service, FireRestartTimer(s)
  PROVE  BackedInv'
<1> USE DEF record, monitor, restarts
<1>1. /\ UNCHANGED <<state, alive, record, monitor, failures, closing, op, requests>>
      /\ restartTimer[s] # 0 /\ restartTimer' = [restartTimer EXCEPT ![s] = 0]
  BY DEF FireRestartTimer
<1>2. IF RestartIsDue(s)
      THEN /\ attempt' = StartSingle(attempt, s)
           /\ caught' = [caught EXCEPT ![s] = @ \cup {restartTimer[s]}]
      ELSE UNCHANGED <<attempt, caught>>
  BY DEF FireRestartTimer
<1>3. \A t \in Service : attempt'[t] = attempt[t] \/ attempt'[t].pc = "begin"
  <2>1. attempt \in [Service -> Attempt]
    BY DEF SpawnInv, AttemptTypes
  <2>2. \A t \in Service : \/ StartSingle(attempt, s)[t] = attempt[t]
                           \/ StartSingle(attempt, s)[t].pc = "begin"
    BY <2>1, StartSingleKeepsAttempts
  <2>3. QED
    BY <1>2, <2>2
<1>4. RestartIsDue(s) => attempt'[s].pc # "none"
  <2>1. attempt \in [Service -> Attempt]
    BY DEF SpawnInv, AttemptTypes
  <2>2. StartSingle(attempt, s)[s].pc # "none"
    BY <2>1 DEF StartSingle
  <2>3. QED
    BY <1>2, <2>2
<1>5. Types' /\ OperationShape'
  <2>1. restartTimer' \in [Service -> Generation] /\ caught' \in [Service -> SUBSET Generation]
    <3>1. caught' = caught \/ caught' = [caught EXCEPT ![s] = @ \cup {restartTimer[s]}]
      BY <1>2
    <3>2. restartTimer[s] \in Generation /\ caught \in [Service -> SUBSET Generation]
      BY DEF BackedInv, Types
    <3>3. caught' \in [Service -> SUBSET Generation]
      BY <3>1, <3>2
    <3>4. restartTimer' \in [Service -> Generation]
      BY <1>1, ZeroIsGeneration DEF BackedInv, Types
    <3>5. QED
      BY <3>3, <3>4
  <2>2. QED
    BY <1>1, <2>1 DEF BackedInv, Types, OperationShape
<1>6. ASSUME NEW t \in Service
      PROVE  Backed(t)'
  <2>1. CASE t = s
    <3>1. restartTimer'[s] = 0 /\ restartTimer[s] \in Generation
      BY <1>1 DEF BackedInv, Types
    <3>2. state[s] = "restart_wait" /\ desired[s] => generation[s] \in caught'[s] /\ RestartIsDue(s)
      <4>1. ASSUME state[s] = "restart_wait", desired[s]
            PROVE  RestartIsDue(s) /\ restartTimer[s] = generation[s]
        BY <1>1, <4>1 DEF RestartIsDue, BackedInv, Backed, Types
      <4>2. QED
        BY <1>2, <4>1 DEF BackedInv, Types
    <3>3. QED
      BY <1>1, <1>3, <1>4, <2>1, <3>1, <3>2 DEF BackedInv, Backed, StopIsUnderWay, RestartIsComing
  <2>2. CASE t # s
    <3>1. restartTimer'[t] = restartTimer[t] /\ caught'[t] = caught[t]
      BY <1>1, <1>2, <2>2 DEF BackedInv, Types
    <3>2. QED
      BY <1>1, <1>3, <3>1 DEF BackedInv, Backed, StopIsUnderWay, RestartIsComing
  <2>3. QED
    BY <2>1, <2>2
<1>7. QED
  BY <1>5, <1>6 DEF BackedInv

(* The close handler answers for the last process when there is no newer   *)
(* one, and changes what is shown whenever it took the process's last      *)
(* entry away.                                                             *)
LEMMA CloseKeepsBackedInv ==
  ASSUME SpawnInv, SpawnInv', BackedInv, NEW s \in Service, NEW g \in Generation,
         HandleClose(s, g)
  PROVE  BackedInv'
<1> USE DEF record, monitor, restarts
<1>1. /\ UNCHANGED <<command, generation, alive, monitor, attempt, caught, op, requests>>
      /\ closing # <<>> /\ Head(closing) = <<s, g>> /\ closing' = Tail(closing)
  BY DEF HandleClose
<1>2. ToSet(closing) \ {<<s, g>>} \subseteq ToSet(closing')
  BY <1>1, ClosingShrinks DEF BackedInv, Types
<1>3. closing' \in Seq(Service \X Generation)
  BY <1>1 DEF BackedInv, Types
<1>4. CASE /\ generation[s] # g \/ command[s] # 0
           /\ UNCHANGED <<state, desired, stopping, restartTimer, failures>>
  <2>1. Types' /\ OperationShape'
    BY <1>1, <1>3, <1>4 DEF BackedInv, Types, OperationShape
  <2>2. ASSUME NEW t \in Service
        PROVE  Backed(t)'
    <3>1. <<t, generation[t]>> \in ToSet(closing) =>
            command[t] # 0 \/ <<t, generation[t]>> \in ToSet(closing')
      BY <1>2, <1>4
    <3>2. QED
      BY <1>1, <1>4, <3>1 DEF BackedInv, Backed, StopIsUnderWay, RestartIsComing
  <2>3. QED
    BY <2>1, <2>2 DEF BackedInv
<1>5. ASSUME NEW t \in Service, t # s,
             state'[t] = state[t], desired'[t] = desired[t], stopping'[t] = stopping[t],
             restartTimer'[t] = restartTimer[t]
      PROVE  Backed(t)'
  <2>1. <<t, generation[t]>> \in ToSet(closing) => <<t, generation[t]>> \in ToSet(closing')
    BY <1>2, <1>5
  <2>2. QED
    BY <1>1, <1>5, <2>1 DEF BackedInv, Backed, StopIsUnderWay, RestartIsComing
<1>6. CASE /\ generation[s] = g /\ command[s] = 0
           /\ state' = [state EXCEPT ![s] = "stopped"]
           /\ stopping' = [stopping EXCEPT ![s] = FALSE]
           /\ UNCHANGED <<desired, restartTimer, failures>>
  <2>1. Types' /\ OperationShape'
    BY <1>1, <1>3, <1>6 DEF BackedInv, Types, State, OperationShape
  <2>2. /\ state'[s] = "stopped"
        /\ \A t \in Service : t # s => state'[t] = state[t] /\ stopping'[t] = stopping[t]
    BY <1>6 DEF BackedInv, Types
  <2>3. Backed(s)'
    BY <1>1, <1>6, <2>2 DEF BackedInv, Backed
  <2>4. QED
    BY <1>5, <1>6, <2>1, <2>2, <2>3 DEF BackedInv
<1>7. CASE /\ generation[s] = g /\ command[s] = 0
           /\ ~stopping[s] /\ desired[s]
           /\ ScheduleRestart(s, g)
           /\ UNCHANGED stopping
  <2>1. PICK recent \in 0..failures[s] :
          /\ failures' = [failures EXCEPT ![s] = recent + 1]
          /\ IF recent + 1 > Maximum
             THEN /\ desired' = [desired EXCEPT ![s] = FALSE]
                  /\ state' = [state EXCEPT ![s] = "failed"]
                  /\ UNCHANGED restartTimer
             ELSE /\ restartTimer' = [restartTimer EXCEPT ![s] = g]
                  /\ state' = [state EXCEPT ![s] = "restart_wait"]
                  /\ UNCHANGED desired
    BY <1>7 DEF ScheduleRestart
  <2>2. failures' \in [Service -> Nat]
    BY <2>1 DEF BackedInv, Types
  <2>3. Types' /\ OperationShape'
    BY <1>1, <1>3, <1>7, <2>1, <2>2 DEF BackedInv, Types, State, OperationShape
  <2>4. g # 0
    BY <1>7 DEF BackedInv, Backed
  <2>5. /\ \/ state'[s] = "failed" /\ ~desired'[s]
           \/ state'[s] = "restart_wait" /\ restartTimer'[s] = g /\ desired'[s] = desired[s]
        /\ \A t \in Service : t # s => /\ state'[t] = state[t] /\ desired'[t] = desired[t]
                                       /\ restartTimer'[t] = restartTimer[t]
    BY <2>1 DEF BackedInv, Types
  <2>6. Backed(s)'
    BY <1>1, <1>7, <2>4, <2>5 DEF BackedInv, Backed, RestartIsComing
  <2>7. QED
    BY <1>5, <1>7, <2>3, <2>5, <2>6 DEF BackedInv
<1>8. QED
  BY <1>4, <1>6, <1>7 DEF HandleClose

(* A stop leaves the service in the state its end deserves.                *)
LEMMA StopsKeepBackedInv ==
  ASSUME SpawnInv, SpawnInv', BackedInv,
         Release \/ Hook \/ ProcessOutlives \/ PortsReleased
  PROVE  BackedInv'
<1> USE DEF record, monitor, restarts
<1> DEFINE h == Head(op.stops)
(* What every end of a stop has in common: the service shows that it is    *)
(* over, and its command is gone or what it was.                           *)
<1>1. ASSUME NEW shown \in {"stopped", "conflict", "failed"},
             state' = [state EXCEPT ![h] = shown],
             stopping' \in {stopping, [stopping EXCEPT ![h] = FALSE]},
             command' \in {command, [command EXCEPT ![h] = 0]},
             command' # command => op.pc = "ports",
             Quiet,
             op.pc \in {"release", "kill", "ports"}, OperationShape',
             op'.pc \in {"next", "idle"},
             UNCHANGED <<generation, alive, desired, monitor, restarts, attempt, caught>>
      PROVE  BackedInv'
  <2>1. Types'
    BY <1>1, ZeroIsGeneration DEF BackedInv, Types, State
  <2>2. ASSUME NEW t \in Service
        PROVE  Backed(t)'
    <3>1. attempt[t].pc # "ok"
      BY <1>1 DEF Quiet, Resumed
    <3>2. CASE t = h
      <4>1. state'[t] = shown /\ command'[t] \in {0, command[t]}
        BY <1>1, <3>2 DEF BackedInv, Types
      <4>2. QED
        BY <1>1, <3>1, <4>1 DEF BackedInv, Backed
    <3>3. CASE t # h
      <4>1. state'[t] = state[t] /\ command'[t] = command[t] /\ stopping'[t] = stopping[t]
        BY <1>1, <3>3 DEF BackedInv, Types
      <4>2. QED
        BY <1>1, <3>3, <4>1 DEF BackedInv, Backed, StopIsUnderWay, RestartIsComing
    <3>4. QED
      BY <3>2, <3>3
  <2>3. QED
    BY <1>1, <2>1, <2>2 DEF BackedInv
<1>2. CASE Release
  <2>1. /\ UNCHANGED <<command, generation, alive, desired, monitor, restarts, attempt, caught>>
        /\ Quiet /\ op.pc = "release" /\ (op' = Stopped(op) \/ op' = NoOperation)
    BY <1>2 DEF Release
  <2>2. OperationShape' /\ op'.pc \in {"next", "idle"}
    <3>1. CASE op' = Stopped(op)
      BY <3>1 DEF BackedInv, OperationShape, Stopped
    <3>2. CASE op' = NoOperation
      BY <3>2 DEF OperationShape, NoOperation
    <3>3. QED
      BY <2>1, <3>1, <3>2
  <2>3. PICK shown \in {"stopped", "conflict", "failed"} : state' = [state EXCEPT ![h] = shown]
    BY <1>2 DEF Release, BackedInv, Types
  <2>4. stopping' \in {stopping, [stopping EXCEPT ![h] = FALSE]}
    BY <1>2 DEF Release
  <2>5. QED
    BY <1>1, <2>1, <2>2, <2>3, <2>4
<1>3. CASE ProcessOutlives /\ op.pc = "kill"
  <2>1. /\ UNCHANGED <<command, generation, alive, desired, monitor, restarts, attempt, caught>>
        /\ Quiet /\ op' = NoOperation
        /\ state' = [state EXCEPT ![h] = "failed"]
        /\ stopping' = [stopping EXCEPT ![h] = FALSE]
    BY <1>3 DEF ProcessOutlives
  <2>2. OperationShape' /\ op'.pc \in {"next", "idle"}
    BY <2>1 DEF OperationShape, NoOperation
  <2>3. QED
    BY <1>1, <1>3, <2>1, <2>2
<1>4. CASE PortsReleased
  <2>1. /\ UNCHANGED <<generation, alive, desired, monitor, restarts, attempt, caught>>
        /\ Quiet /\ op.pc = "ports" /\ (op' = Stopped(op) \/ op' = NoOperation)
        /\ stopping' = [stopping EXCEPT ![h] = FALSE]
        /\ command' \in {command, [command EXCEPT ![h] = 0]}
    BY <1>4 DEF PortsReleased
  <2>2. OperationShape' /\ op'.pc \in {"next", "idle"}
    <3>1. CASE op' = Stopped(op)
      BY <3>1 DEF BackedInv, OperationShape, Stopped
    <3>2. CASE op' = NoOperation
      BY <3>2 DEF OperationShape, NoOperation
    <3>3. QED
      BY <2>1, <3>1, <3>2
  <2>3. PICK shown \in {"stopped", "conflict", "failed"} : state' = [state EXCEPT ![h] = shown]
    BY <1>4 DEF PortsReleased
  <2>4. QED
    BY <1>1, <2>1, <2>2, <2>3
<1>5. CASE Hook \/ (ProcessOutlives /\ op.pc # "kill")
  <2>1. /\ UNCHANGED <<state, alive, record, monitor, restarts, attempt, caught>>
        /\ \/ op.pc = "hook" /\ op' = [op EXCEPT !.pc = "term"]
           \/ op.pc = "term" /\ op' = [op EXCEPT !.pc = "kill"]
    BY <1>5 DEF Hook, ProcessOutlives
  <2>2. OperationShape' /\ op'.pc \in {"term", "kill"} /\ op'.stops = op.stops
    BY <2>1 DEF BackedInv, OperationShape
  <2>3. Types'
    BY <2>1 DEF BackedInv, Types
  <2>4. ASSUME NEW t \in Service
        PROVE  Backed(t)'
    BY <2>1, <2>2 DEF BackedInv, Backed, StopIsUnderWay, RestartIsComing
  <2>5. QED
    BY <2>2, <2>3, <2>4 DEF BackedInv
<1>6. QED
  BY <1>2, <1>3, <1>4, <1>5

(* An end of a process is on record until its close handler has run; a     *)
(* probe's answer counts only for the command that was asked.              *)
LEMMA EnvironmentKeepsBackedInv ==
  ASSUME SpawnInv, SpawnInv', BackedInv, Environment
  PROVE  BackedInv'
<1> USE DEF record, monitor, restarts
<1>1. ASSUME NEW s \in Service, AskHealth(s)
      PROVE  BackedInv'
  <2>1. /\ UNCHANGED <<state, alive, record, restarts, healthTimer, attempt, caught, op, requests>>
        /\ probed' = [probed EXCEPT ![s] = healthTimer[s]]
    BY <1>1 DEF AskHealth
  <2>2. Types' /\ OperationShape'
    BY <2>1 DEF BackedInv, Types, OperationShape
  <2>3. ASSUME NEW t \in Service
        PROVE  Backed(t)'
    BY <2>1 DEF BackedInv, Backed, StopIsUnderWay, RestartIsComing
  <2>4. QED
    BY <2>2, <2>3 DEF BackedInv
<1>2. ASSUME NEW s \in Service, HealthAnswer(s)
      PROVE  BackedInv'
  <2>1. /\ UNCHANGED <<alive, record, restarts, healthTimer, attempt, caught, op, requests>>
        /\ probed[s] # 0 /\ probed' = [probed EXCEPT ![s] = 0]
    BY <1>2 DEF HealthAnswer
  <2>2. \/ UNCHANGED state
        \/ \E answer \in {"healthy", "degraded"} :
             command[s] = probed[s] /\ state' = [state EXCEPT ![s] = answer]
    BY <1>2 DEF HealthAnswer, BackedInv, Types
  <2>3. Types' /\ OperationShape'
    <3>1. state' \in [Service -> State] /\ probed' \in [Service -> Generation]
      BY <2>1, <2>2, ZeroIsGeneration DEF BackedInv, Types, State
    <3>2. QED
      BY <2>1, <3>1 DEF BackedInv, Types, OperationShape
  <2>4. ASSUME NEW t \in Service
        PROVE  Backed(t)'
    <3>1. \/ state'[t] = state[t]
          \/ command[t] # 0 /\ state'[t] \in {"healthy", "degraded"}
      BY <2>1, <2>2 DEF BackedInv, Types
    <3>2. QED
      BY <2>1, <3>1 DEF BackedInv, Backed, StopIsUnderWay, RestartIsComing
  <2>5. QED
    BY <2>3, <2>4 DEF BackedInv
<1>3. ASSUME NEW s \in Service, NEW g \in Generation, Exit(s, g)
      PROVE  BackedInv'
  <2>1. /\ UNCHANGED <<state, generation, desired, stopping, restartTimer, failures, probed,
                       attempt, caught, op, requests>>
        /\ Quiet
        /\ alive' = [alive EXCEPT ![s] = @ \ {g}]
        /\ IF command[s] = g
           THEN /\ command' = [command EXCEPT ![s] = 0]
                /\ healthTimer' = [healthTimer EXCEPT ![s] = 0]
                /\ closing' = Append(closing, <<s, g>>)
           ELSE UNCHANGED <<command, healthTimer, closing>>
    BY <1>3 DEF Exit
  <2>2. Types' /\ OperationShape'
    <3>1. closing' \in Seq(Service \X Generation)
      <4>1. closing \in Seq(Service \X Generation) /\ <<s, g>> \in Service \X Generation
        BY DEF BackedInv, Types
      <4>2. closing' = closing \/ closing' = Append(closing, <<s, g>>)
        BY <2>1
      <4>3. QED
        BY <4>1, <4>2
    <3>2. /\ command' \in [Service -> Generation] /\ healthTimer' \in [Service -> Generation]
          /\ alive' \in [Service -> SUBSET Generation]
      BY <2>1, ZeroIsGeneration DEF BackedInv, Types
    <3>3. QED
      BY <2>1, <3>1, <3>2 DEF BackedInv, Types, OperationShape
  <2>3. ToSet(closing) \subseteq ToSet(closing')
        /\ (command[s] = g => <<s, g>> \in ToSet(closing'))
    <3>1. closing \in Seq(Service \X Generation) /\ <<s, g>> \in Service \X Generation
      BY DEF BackedInv, Types
    <3>2. ToSet(closing) \cup {<<s, g>>} \subseteq ToSet(Append(closing, <<s, g>>))
      BY <3>1, ClosingGrows
    <3>3. QED
      BY <2>1, <3>2
  <2>4. ASSUME NEW t \in Service
        PROVE  Backed(t)'
    <3>1. attempt[t].pc # "ok"
      BY <2>1 DEF Quiet, Resumed
    <3>2. CASE t = s /\ command[s] = g
      <4>1. command'[s] = 0
        BY <2>1, <3>2 DEF BackedInv, Types
      <4>2. state[s] \in {"starting", "healthy", "degraded"} =>
              <<s, generation[s]>> \in ToSet(closing')
        BY <2>3, <3>2 DEF BackedInv, Backed
      <4>3. QED
        BY <2>1, <3>1, <3>2, <4>1, <4>2 DEF BackedInv, Backed, StopIsUnderWay, RestartIsComing
    <3>3. CASE ~(t = s /\ command[s] = g)
      <4>1. command'[t] = command[t] /\ (command[t] \in alive[t] => command[t] \in alive'[t])
        BY <2>1, <3>3 DEF BackedInv, Types
      <4>2. QED
        BY <2>1, <2>3, <3>1, <4>1 DEF BackedInv, Backed, StopIsUnderWay, RestartIsComing
    <3>4. QED
      BY <3>2, <3>3
  <2>5. QED
    BY <2>2, <2>4 DEF BackedInv
<1>4. ASSUME NEW kind, NEW all, NEW s, Request(kind, all, s)
      PROVE  BackedInv'
  <2>1. /\ UNCHANGED <<state, command, generation, alive, stopping, monitor, restarts, attempt,
                       caught>>
        /\ op.pc = "idle"
        /\ desired' = [t \in Service |->
               desired[t] /\ ~(kind = "stop" /\ (all \/ t \in ToSet(WithDependents(s))))]
    BY <1>4, Zenon DEF Request
  <2>2. op'.pc = "next" /\ OperationShape'
    <3>1. PICK stops, starts : op' = [pc |-> "next", kind |-> kind, handle |-> 0,
                                      stops |-> stops, starts |-> starts]
      BY <1>4, Zenon DEF Request
    <3>2. QED
      BY <3>1 DEF OperationShape
  <2>3. Types'
    BY <2>1 DEF BackedInv, Types
  <2>4. ASSUME NEW t \in Service
        PROVE  Backed(t)'
    <3>1. desired'[t] => desired[t]
      BY <2>1
    <3>2. QED
      BY <2>1, <2>2, <3>1 DEF BackedInv, Backed, StopIsUnderWay, RestartIsComing
  <2>5. QED
    BY <2>2, <2>3, <2>4 DEF BackedInv
<1>5. QED
  BY <1>1, <1>2, <1>3, <1>4 DEF Environment

(* What the snapshot shows of a service is true or about to change: a held *)
(* command is the last one and runs, a service that is shown running has a *)
(* process or its end is being recorded, a stop is under way, and a        *)
(* restart that is announced and still wanted has a timer, an attempt or a *)
(* stop under way. Waiting for a dependency is not spoken of.              *)
THEOREM ShownStatesAreBacked == Spec => []StatesAreBacked
<1>1. BackedInv => StatesAreBacked
  BY DEF BackedInv, StatesAreBacked, Backed, StopIsUnderWay, RestartIsComing
<1>2. SpawnInv /\ SpawnInv' /\ BackedInv /\ [Next]_vars => BackedInv'
  <2>1. BackedInv /\ UNCHANGED vars => BackedInv'
    BY DEF vars, BackedInv, Types, OperationShape, Backed, StopIsUnderWay, RestartIsComing
  <2>2. ASSUME SpawnInv, SpawnInv', BackedInv, Resume
        PROVE  BackedInv'
    BY <2>2, AttemptsKeepBackedInv, SettleKeepsBackedInv, OperationsKeepBackedInv DEF Resume
  <2>3. ASSUME SpawnInv, SpawnInv', BackedInv, Wake
        PROVE  BackedInv'
    BY <2>3, StartsKeepBackedInv, TimersKeepBackedInv, CloseKeepsBackedInv, StopsKeepBackedInv
    DEF Wake
  <2>4. QED
    BY <2>1, <2>2, <2>3, EnvironmentKeepsBackedInv DEF Next
<1>3. QED
  BY <1>1, <1>2, SpawnInvariant, InitEstablishesBackedInv, PTL DEF Spec
=============================================================================
