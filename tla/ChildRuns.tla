------------------------------- MODULE ChildRuns -------------------------------
(* Durable child runs under one root run: the root's budget, the mailboxes     *)
(* between runs, waiting for children, interruption, resumption and the        *)
(* restart of the process (agent-runtime/children/ChildRunManager.ts,          *)
(* store/postgres/childRunRepository.ts and runStateRepository.ts,             *)
(* agent/runTaskManager.ts, the mailbox steps of agent/runtime.ts).            *)
(*                                                                             *)
(* What an executor does between opening its steering window and its last      *)
(* status is RunExecution's subject; here it is the places where mail, status  *)
(* and completion callback meet. `waiting` stands for waiting_approval and     *)
(* clarification_needed.                                                       *)
EXTENDS Naturals, Sequences, FiniteSets

CONSTANTS
    Root,           \* the root run
    Child,          \* runs that may be spawned below it
    Message,        \* tool calls that send a message
    MaxConcurrent,  \* the root budget's maxConcurrentChildren
    MaxTotal,       \* its maxTotalChildren
    MaxDepth,       \* its maxSpawnDepth
    MaxLoad,        \* (bound) children count two, messages and a wait count one
    None

ASSUME ChildRunAssumption ==
    /\ IsFiniteSet(Child)
    /\ Root \notin Child
    /\ None \notin Child \cup {Root}
    /\ Message \cap Child = {}
    /\ MaxConcurrent \in Nat /\ MaxTotal \in Nat /\ MaxDepth \in Nat /\ MaxLoad \in Nat

Run == {Root} \cup Child

\* A completion is a message named after its child: child_completion_<run>.
Mail == Message \cup Child

VARIABLES
    \* durable
    status,             \* platform_runs: status of each run; "unborn" is no row
    parentRun,          \* parentRunId, None for the root
    totalChildren, activeChildren,      \* platform_root_run_budgets
    mailStatus,         \* platform_agent_messages: status; "none" is no row
    mailTo, mailSequence, mailTrigger,  \* receiver, sequence, triggerTurn
    completionStatus,   \* the status a completion reports (its content)
    nextMailSequence,   \* per run: nextAgentMessageSequence
    accepted,           \* per run: mail accepted as run input, in that order
    \* memory
    serverPhase,        \* "up", "down", or "reconciling" (container start)
    unreconciled,       \* terminal children the start has still to look at
    task,               \* where the run's executor is; "idle" is no active task
    target,             \* whose completion callback the task has or had; "failed": it
                        \* was the manager's, and threw before it had announced the child
    toDeliver,          \* deliverAgentMailbox: mail still to be delivered
    cancelPending,      \* runtime.cancel has aborted, its status is not written
    aborted,            \* the execution's signal
    spawning,           \* children created by a spawn that has not started them
    sending,            \* per message: how far its send has come
    settledStatus,      \* the status publishCompletion was called with
    wait, waitFrom      \* one wait_child_runs of the root, and its afterMessageSequence

budgetVars == <<totalChildren, activeChildren>>
mailVars == <<mailStatus, mailTo, mailSequence, mailTrigger, completionStatus,
              nextMailSequence>>
serverVars == <<serverPhase, unreconciled>>
taskVars == <<task, target, toDeliver, cancelPending, aborted, settledStatus>>
callVars == <<spawning, sending>>
waitVars == <<wait, waitFrom>>
childVars == <<status, parentRun, budgetVars, mailVars, accepted, serverVars,
               taskVars, callVars, waitVars>>

Active == {"queued", "running", "waiting"}
Terminal == {"completed", "failed", "cancelled", "requires_action"}
RunStatus == Active \cup Terminal \cup {"unborn", "interrupted"}

TaskPlace == {"idle", "launched", "delivering", "marking", "working", "finishing",
              "failing", "closing", "settling"}

Sent == {m \in Message : sending[m] # "new"}
Load == 2 * totalChildren + Cardinality(Sent) + IF wait = "none" THEN 0 ELSE 1

ChildTypeOK ==
    /\ status \in [Run -> RunStatus]
    /\ parentRun \in [Run -> Run \cup {None}]
    /\ totalChildren \in Nat /\ activeChildren \in Nat
    /\ mailStatus \in [Mail -> {"none", "queued", "delivered", "checkpointed"}]
    /\ mailTo \in [Mail -> Run \cup {None}]
    /\ mailSequence \in [Mail -> Nat]
    /\ mailTrigger \in [Mail -> BOOLEAN]
    /\ completionStatus \in [Child -> RunStatus \cup {None}]
    /\ nextMailSequence \in [Run -> Nat]
    /\ accepted \in [Run -> Seq(Mail)]
    /\ serverPhase \in {"up", "down", "reconciling"}
    /\ unreconciled \subseteq Child
    /\ task \in [Run -> TaskPlace]
    /\ target \in [Run -> {"manager", "user", "none", "failed"}]
    /\ toDeliver \in [Run -> Seq(Mail)]
    /\ cancelPending \in [Run -> BOOLEAN]
    /\ aborted \in [Run -> BOOLEAN]
    /\ spawning \subseteq Child
    /\ sending \in [Message -> {"new", "checked", "stored", "steered", "done"}]
    /\ settledStatus \in [Run -> RunStatus \cup {None}]
    /\ wait \in {"none", "checked", "listening", "woken", "expired"}
    /\ waitFrom \in Nat

ChildInit ==
    /\ status = [r \in Run |-> IF r = Root THEN "running" ELSE "unborn"]
    /\ parentRun = [r \in Run |-> None]
    /\ totalChildren = 0 /\ activeChildren = 0
    /\ mailStatus = [m \in Mail |-> "none"]
    /\ mailTo = [m \in Mail |-> None]
    /\ mailSequence = [m \in Mail |-> 0]
    /\ mailTrigger = [m \in Mail |-> FALSE]
    /\ completionStatus = [c \in Child |-> None]
    /\ nextMailSequence = [r \in Run |-> 1]
    /\ accepted = [r \in Run |-> <<>>]
    /\ serverPhase = "up"
    /\ unreconciled = {}
    /\ task = [r \in Run |-> IF r = Root THEN "working" ELSE "idle"]
    /\ target = [r \in Run |-> IF r = Root THEN "user" ELSE "none"]
    /\ toDeliver = [r \in Run |-> <<>>]
    /\ cancelPending = [r \in Run |-> FALSE]
    /\ aborted = [r \in Run |-> FALSE]
    /\ spawning = {}
    /\ sending = [m \in Message |-> "new"]
    /\ settledStatus = [r \in Run |-> None]
    /\ wait = "none" /\ waitFrom = 0

--------------------------------------------------------------------------------
(* Status writes: saveRun and its variants keep the root's budget in the same  *)
(* transaction.                                                                *)

IsActive(r) == task[r] # "idle"

\* adjustActiveChildBudget refuses to exceed the limit.
BudgetAllows(r, next) ==
    (r \in Child /\ status[r] \notin Active /\ next \in Active) =>
        activeChildren < MaxConcurrent

\* (mutant) only the spawn counts a child as active: a resumed one is not added
WriteStatusUncounted(r, next) ==
    /\ BudgetAllows(r, next)
    /\ status' = [status EXCEPT ![r] = next]
    /\ activeChildren' =
           IF r = Root \/ status[r] \notin Active \/ next \in Active THEN activeChildren
           ELSE activeChildren - 1
    /\ UNCHANGED totalChildren

WriteStatus(r, next) ==
    /\ BudgetAllows(r, next)
    /\ status' = [status EXCEPT ![r] = next]
    /\ activeChildren' =
           IF r = Root \/ (status[r] \in Active <=> next \in Active) THEN activeChildren
           ELSE IF next \in Active THEN activeChildren + 1 ELSE activeChildren - 1
    /\ UNCHANGED totalChildren

--------------------------------------------------------------------------------
(* Mail.                                                                       *)

\* appendMessage's insert, with the receiver's next sequence.
AppendMail(m, receiver, trigger) ==
    /\ mailStatus' = [mailStatus EXCEPT ![m] = "queued"]
    /\ mailTo' = [mailTo EXCEPT ![m] = receiver]
    /\ mailTrigger' = [mailTrigger EXCEPT ![m] = trigger]
    /\ mailSequence' = [mailSequence EXCEPT ![m] = nextMailSequence[receiver]]
    /\ nextMailSequence' = [nextMailSequence EXCEPT ![receiver] = @ + 1]

\* notify(rootRunId): whoever listens is woken.
Woken == IF wait = "listening" THEN "woken" ELSE wait

MarkDelivered(m) ==
    mailStatus' = [mailStatus EXCEPT ![m] = IF @ = "queued" THEN "delivered" ELSE @]

\* (mutant) every call accepts another input
AcceptAgain(r, m) == accepted' = [accepted EXCEPT ![r] = Append(@, m)]

\* The steering controller's enqueue: idempotent by the message's name.
Accept(r, m) ==
    accepted' = IF \E i \in 1..Len(accepted[r]) : accepted[r][i] = m THEN accepted
                ELSE [accepted EXCEPT ![r] = Append(@, m)]

\* The steering window: opened before the mailbox is delivered, closed by the claim.
WindowOpen(r) == task[r] \in {"delivering", "marking", "working"} /\ status[r] = "running"

QueuedFor(r) == {m \in Mail : mailTo[m] = r /\ mailStatus[m] = "queued"}

\* The queued mail of a run in the order of its sequence.
IsMailOrder(r, order) ==
    /\ Len(order) = Cardinality(QueuedFor(r))
    /\ \A m \in QueuedFor(r) : \E i \in 1..Len(order) : order[i] = m
    /\ \A i, j \in 1..Len(order) : i < j => mailSequence[order[i]] < mailSequence[order[j]]

--------------------------------------------------------------------------------
(* Calls of the control plane. They run inside a run's tool call or a command  *)
(* of its user, in a server that is up.                                        *)

\* requireSpawnCapacity, with the root's budget row locked.
HasSpawnCapacity == totalChildren < MaxTotal /\ activeChildren < MaxConcurrent

\* createRunLifecycle: the child's row and its share of the budget.
SpawnCreate(parent, c) ==
    LET depth[r \in Run] == IF parentRun[r] = None THEN 0 ELSE 1 + depth[parentRun[r]]
    IN  /\ task[parent] = "working" /\ status[parent] = "running"
        /\ status[c] = "unborn"
        /\ depth[parent] + 1 <= MaxDepth
        /\ HasSpawnCapacity
        /\ Load + 2 <= MaxLoad
        /\ status' = [status EXCEPT ![c] = "queued"]
        /\ parentRun' = [parentRun EXCEPT ![c] = parent]
        /\ totalChildren' = totalChildren + 1
        /\ activeChildren' = activeChildren + 1
        /\ spawning' = spawning \cup {c}
        /\ UNCHANGED <<mailVars, accepted, serverVars, taskVars, sending, waitVars>>

\* RunTaskManager.start of a run without an active task.
Launch(r, callback) ==
    /\ ~IsActive(r)
    /\ task' = [task EXCEPT ![r] = "launched"]
    /\ target' = [target EXCEPT ![r] = callback]
    /\ UNCHANGED <<toDeliver, cancelPending, aborted, settledStatus>>

\* startDetached after the descriptor is read; it throws when a trigger came first.
SpawnStart(c) ==
    /\ c \in spawning
    /\ spawning' = spawning \ {c}
    /\ IF IsActive(c)
       THEN UNCHANGED <<taskVars, wait>>
       ELSE Launch(c, "manager") /\ wait' = Woken
    /\ UNCHANGED <<status, parentRun, budgetVars, mailVars, accepted, serverVars,
                   sending, waitFrom>>

\* sendMessage up to its first await. A trigger needs a receiver that can run.
SendCheck(m, sender, receiver, trigger) ==
    /\ sending[m] = "new" /\ Load < MaxLoad
    /\ sender # receiver
    /\ task[sender] = "working"
    /\ status[receiver] # "unborn"
    /\ trigger => IsActive(receiver) \/ status[receiver] \in {"queued", "interrupted"}
    /\ sending' = [sending EXCEPT ![m] = "checked"]
    /\ mailTo' = [mailTo EXCEPT ![m] = receiver]
    /\ mailTrigger' = [mailTrigger EXCEPT ![m] = trigger]
    /\ UNCHANGED <<status, parentRun, budgetVars, mailStatus, mailSequence,
                   completionStatus, nextMailSequence, accepted, serverVars, taskVars,
                   spawning, waitVars>>

\* appendMessage's transaction.
SendStore(m) ==
    /\ sending[m] = "checked"
    /\ sending' = [sending EXCEPT ![m] = "stored"]
    /\ AppendMail(m, mailTo[m], mailTrigger[m])
    /\ UNCHANGED <<status, parentRun, budgetVars, completionStatus, accepted, serverVars,
                   taskVars, spawning, waitVars>>

\* Who hears of the end of a task a trigger started: a child reports to the manager.
TriggerCallback(r) == IF r \in Child THEN "manager" ELSE "none"

\* After it: the waiters are notified; a trigger steers an active receiver (which
\* throws when its window is closed) and starts an idle one, whatever its status has
\* become since it was checked and wherever the message is by now: the status looked
\* at is the one the transaction returned, which has just queued it.
SendContinue(m) ==
    LET r == mailTo[m]
        steered == mailTrigger[m] /\ IsActive(r) /\ WindowOpen(r)
    IN  /\ sending[m] = "stored"
        /\ wait' = Woken
        /\ sending' = [sending EXCEPT ![m] = IF steered THEN "steered" ELSE "done"]
        /\ IF steered THEN Accept(r, m) ELSE UNCHANGED accepted
        /\ IF mailTrigger[m] /\ ~IsActive(r)
           THEN Launch(r, TriggerCallback(r))
           ELSE UNCHANGED taskVars
        /\ UNCHANGED <<status, parentRun, budgetVars, mailVars, serverVars, spawning,
                       waitFrom>>

SendMark(m) ==
    /\ sending[m] = "steered"
    /\ sending' = [sending EXCEPT ![m] = "done"]
    /\ MarkDelivered(m)
    /\ UNCHANGED <<status, parentRun, budgetVars, mailTo, mailSequence, mailTrigger,
                   completionStatus, nextMailSequence, accepted, serverVars, taskVars,
                   spawning, waitVars>>

\* interrupt() of an active child: runtime.cancel aborts at once (it throws when the
\* execution is already closed) and writes the status in another step.
Interrupt(r) ==
    /\ task[r] \notin {"idle", "settling"}
    /\ ~cancelPending[r]
    /\ aborted' = [aborted EXCEPT ![r] = TRUE]
    /\ cancelPending' = [cancelPending EXCEPT ![r] = TRUE]
    /\ UNCHANGED <<status, parentRun, budgetVars, mailVars, accepted, serverVars, task,
                   target, toDeliver, settledStatus, callVars, waitVars>>

WriteCancelled(r) ==
    /\ cancelPending[r]
    /\ cancelPending' = [cancelPending EXCEPT ![r] = FALSE]
    /\ WriteStatus(r, "cancelled")
    /\ wait' = Woken
    /\ UNCHANGED <<parentRun, mailVars, accepted, serverVars, task, target, toDeliver,
                   aborted, settledStatus, callVars, waitFrom>>

\* interrupt() of a child without an executor: only the status is written.
InterruptIdle(c) ==
    /\ ~IsActive(c)
    /\ status[c] \notin Terminal \cup {"unborn"}
    /\ WriteStatus(c, "cancelled")
    /\ wait' = Woken
    /\ UNCHANGED <<parentRun, mailVars, accepted, serverVars, taskVars, callVars, waitFrom>>

\* resume() by another run, and run:resume by the user: only the callback differs.
ResumeRun(r, callback) ==
    /\ status[r] = "interrupted"
    /\ Launch(r, callback)
    /\ wait' = IF callback = "manager" THEN Woken ELSE wait
    /\ UNCHANGED <<status, parentRun, budgetVars, mailVars, accepted, serverVars,
                   callVars, waitFrom>>

\* The user decides an approval: the run is queued and continued.
ApproveRun(r) ==
    /\ status[r] = "waiting"
    /\ WriteStatus(r, "queued")
    /\ Launch(r, "user")
    /\ UNCHANGED <<parentRun, mailVars, accepted, serverVars, callVars, waitVars>>

--------------------------------------------------------------------------------
(* The executor of a run (agent/runtime.ts run).                               *)

\* The status is written, the window opened and the list read that
\* deliverAgentMailbox walks; mail that comes between these steps finds a task with
\* its window closed, as mail does that comes before them. The write is inside the
\* try: refused by the budget, the run fails.
MarkRunning(r) ==
    /\ task[r] = "launched"
    /\ IF BudgetAllows(r, "running")
       THEN /\ WriteStatus(r, "running")
            /\ task' = [task EXCEPT ![r] = "delivering"]
            /\ \E order \in UNION {[1..k -> QueuedFor(r)] : k \in 0..Cardinality(QueuedFor(r))} :
                   /\ IsMailOrder(r, order)
                   /\ toDeliver' = [toDeliver EXCEPT ![r] = order]
       ELSE /\ task' = [task EXCEPT ![r] = "failing"]
            /\ UNCHANGED <<status, budgetVars, toDeliver>>
    /\ UNCHANGED <<parentRun, mailVars, accepted, serverVars, target, cancelPending,
                   aborted, settledStatus, callVars, waitVars>>

\* The first of the list becomes an input of the run ...
DeliverMail(r) ==
    /\ task[r] = "delivering" /\ WindowOpen(r)
    /\ toDeliver[r] # <<>>
    /\ Accept(r, Head(toDeliver[r]))
    /\ task' = [task EXCEPT ![r] = "marking"]
    /\ UNCHANGED <<status, parentRun, budgetVars, mailVars, serverVars, target, toDeliver,
                   cancelPending, aborted, settledStatus, callVars, waitVars>>

\* ... and is marked as delivered afterwards.
MarkMail(r) ==
    /\ task[r] = "marking"
    /\ MarkDelivered(Head(toDeliver[r]))
    /\ toDeliver' = [toDeliver EXCEPT ![r] = Tail(@)]
    /\ task' = [task EXCEPT ![r] = "delivering"]
    /\ UNCHANGED <<status, parentRun, budgetVars, mailTo, mailSequence, mailTrigger,
                   completionStatus, nextMailSequence, accepted, serverVars, target,
                   cancelPending, aborted, settledStatus, callVars, waitVars>>

StartWork(r) ==
    /\ task[r] = "delivering" /\ toDeliver[r] = <<>>
    /\ task' = [task EXCEPT ![r] = "working"]
    /\ UNCHANGED <<status, parentRun, budgetVars, mailVars, accepted, serverVars, target,
                   toDeliver, cancelPending, aborted, settledStatus, callVars, waitVars>>

\* The run stops for an approval or a clarification.
Pause(r) ==
    /\ task[r] = "working" /\ ~aborted[r]
    /\ WriteStatus(r, "waiting")
    /\ task' = [task EXCEPT ![r] = "closing"]
    /\ UNCHANGED <<parentRun, mailVars, accepted, serverVars, target, toDeliver,
                   cancelPending, aborted, settledStatus, callVars, waitVars>>

\* The answer is claimed; checkpointDeliveredMessages confirms what was delivered.
\* A continued approval leaves its mail as it is.
CheckpointMail(r) ==
    /\ task[r] = "working" /\ ~aborted[r]
    /\ \/ mailStatus' = [m \in Mail |->
              IF mailTo[m] = r /\ mailStatus[m] = "delivered" THEN "checkpointed"
              ELSE mailStatus[m]]
       \/ target[r] = "user" /\ UNCHANGED mailStatus
    /\ task' = [task EXCEPT ![r] = "finishing"]
    /\ UNCHANGED <<status, parentRun, budgetVars, mailTo, mailSequence, mailTrigger,
                   completionStatus, nextMailSequence, accepted, serverVars, target,
                   toDeliver, cancelPending, aborted, settledStatus, callVars, waitVars>>

Complete(r) ==
    /\ task[r] = "finishing"
    /\ WriteStatus(r, "completed")
    /\ task' = [task EXCEPT ![r] = "closing"]
    /\ UNCHANGED <<parentRun, mailVars, accepted, serverVars, target, toDeliver,
                   cancelPending, aborted, settledStatus, callVars, waitVars>>

\* Any await may throw.
Throw(r) ==
    /\ task[r] \in {"launched", "delivering", "marking", "working", "finishing"}
    /\ task' = [task EXCEPT ![r] = "failing"]
    /\ UNCHANGED <<status, parentRun, budgetVars, mailVars, accepted, serverVars, target,
                   toDeliver, cancelPending, aborted, settledStatus, callVars, waitVars>>

\* The catch block; what it awaits before the status may throw as well.
WriteFailed(r) ==
    /\ task[r] = "failing"
    /\ \/ WriteStatus(r, IF aborted[r] THEN "cancelled" ELSE "failed")
       \/ UNCHANGED <<status, budgetVars>>
    /\ task' = [task EXCEPT ![r] = "closing"]
    /\ UNCHANGED <<parentRun, mailVars, accepted, serverVars, target, toDeliver,
                   cancelPending, aborted, settledStatus, callVars, waitVars>>

\* The execution is closed and the completion callback begins: onChildSettled reads
\* the child's status, then its descriptor, which may throw, and notifies. The
\* WebSocket's callback does none of it.
CloseExecution(r) ==
    /\ task[r] = "closing"
    /\ task' = [task EXCEPT ![r] = "settling"]
    /\ aborted' = [aborted EXCEPT ![r] = FALSE]
    /\ toDeliver' = [toDeliver EXCEPT ![r] = <<>>]
    /\ \/ /\ target[r] = "manager"
          /\ settledStatus' = [settledStatus EXCEPT ![r] = status[r]]
          /\ wait' = Woken
          /\ UNCHANGED target
       \/ /\ target[r] = "manager"
          /\ target' = [target EXCEPT ![r] = "failed"]
          /\ UNCHANGED <<settledStatus, wait>>
       \/ /\ target[r] # "manager"
          /\ UNCHANGED <<settledStatus, wait, target>>
    /\ UNCHANGED <<status, parentRun, budgetVars, mailVars, accepted, serverVars,
                   cancelPending, callVars, waitFrom>>

\* (mutant) only a child that completed is announced
StoreCompletionOfSuccess(c, reported) ==
    IF mailStatus[c] = "none" /\ reported = "completed"
    THEN /\ AppendMail(c, parentRun[c], FALSE)
         /\ completionStatus' = [completionStatus EXCEPT ![c] = reported]
    ELSE UNCHANGED mailVars

\* publishCompletion's message: once per child. A repeated call finds it; one with
\* another content throws and writes nothing.
StoreCompletion(c, reported) ==
    IF mailStatus[c] = "none"
    THEN /\ AppendMail(c, parentRun[c], FALSE)
         /\ completionStatus' = [completionStatus EXCEPT ![c] = reported]
    ELSE UNCHANGED mailVars

\* The callback ends and the task is forgotten. Publishing may throw before or after
\* the message is stored; the throw is logged, and nobody publishes again before the
\* next start.
Settle(r) ==
    /\ task[r] = "settling"
    /\ LET publishes == settledStatus[r] \in Terminal /\ r \in Child IN
       \/ /\ publishes
          /\ StoreCompletion(r, settledStatus[r])
          /\ wait' \in {Woken, wait}
          /\ UNCHANGED target
       \/ /\ publishes
          /\ target' = [target EXCEPT ![r] = "failed"]
          /\ UNCHANGED <<mailVars, wait>>
       \/ /\ ~publishes
          /\ UNCHANGED <<mailVars, wait, target>>
    /\ task' = [task EXCEPT ![r] = "idle"]
    /\ settledStatus' = [settledStatus EXCEPT ![r] = None]
    /\ UNCHANGED <<status, parentRun, budgetVars, accepted, serverVars, toDeliver,
                   cancelPending, aborted, callVars, waitFrom>>

--------------------------------------------------------------------------------
(* wait_child_runs of the root.                                                *)

WaitActivity ==
    \/ \E m \in Mail : mailStatus[m] # "none" /\ mailTo[m] = Root /\ mailSequence[m] > waitFrom
    \/ \E c \in Child : status[c] \in Terminal

\* The first snapshot shows nothing new.
WaitCheck(from) ==
    /\ wait = "none" /\ task[Root] = "working" /\ Load < MaxLoad
    /\ waitFrom' = from
    /\ ~ \E m \in Mail : mailStatus[m] # "none" /\ mailTo[m] = Root /\ mailSequence[m] > from
    /\ ~ \E c \in Child : status[c] \in Terminal
    /\ wait' = "checked"
    /\ UNCHANGED <<status, parentRun, budgetVars, mailVars, accepted, serverVars, taskVars,
                   callVars>>

\* waitForNotification registers a listener when both reads have come back.
WaitRegister ==
    /\ wait = "checked"
    /\ wait' = "listening"
    /\ UNCHANGED <<status, parentRun, budgetVars, mailVars, accepted, serverVars, taskVars,
                   callVars, waitFrom>>

\* The timer ends the wait; the result will say timedOut.
WaitExpire ==
    /\ wait = "listening"
    /\ wait' = "expired"
    /\ UNCHANGED <<status, parentRun, budgetVars, mailVars, accepted, serverVars, taskVars,
                   callVars, waitFrom>>

\* The second snapshot is returned with it.
WaitReturn ==
    /\ wait \in {"woken", "expired"}
    /\ wait' = "none" /\ waitFrom' = 0
    /\ UNCHANGED <<status, parentRun, budgetVars, mailVars, accepted, serverVars, taskVars,
                   callVars>>

--------------------------------------------------------------------------------
(* Restart. recoverOrphanedRuns runs while the store opens; then the container *)
(* publishes the completions nobody has published.                             *)

Crash ==
    /\ serverPhase # "down"
    /\ serverPhase' = "down"
    /\ unreconciled' = {}
    /\ task' = [r \in Run |-> "idle"]
    /\ target' = [r \in Run |-> "none"]
    /\ toDeliver' = [r \in Run |-> <<>>]
    /\ cancelPending' = [r \in Run |-> FALSE]
    /\ aborted' = [r \in Run |-> FALSE]
    /\ settledStatus' = [r \in Run |-> None]
    /\ spawning' = {}
    /\ sending' = [m \in Message |-> IF sending[m] = "new" THEN "new" ELSE "done"]
    /\ wait' = "none" /\ waitFrom' = 0
    /\ UNCHANGED <<status, parentRun, budgetVars, mailVars, accepted>>

\* Every orphan is interrupted, or requires action when tool calls are unresolved.
Recover ==
    /\ serverPhase = "down"
    /\ \E orphanStatus \in [Run -> {"interrupted", "requires_action"}] :
           status' = [r \in Run |-> IF status[r] \in {"queued", "running"}
                                    THEN orphanStatus[r] ELSE status[r]]
    /\ activeChildren' =
           activeChildren - Cardinality({c \in Child : status[c] \in {"queued", "running"}})
    /\ serverPhase' = "reconciling"
    /\ unreconciled' = {c \in Child : status'[c] \in Terminal}
    /\ UNCHANGED <<parentRun, totalChildren, mailVars, accepted, taskVars, callVars, waitVars>>

\* reconcileTerminalCompletions, one child at a time. Where the message exists with
\* another content it throws, and the process does not come up.
Reconcile(c) ==
    /\ serverPhase = "reconciling" /\ c \in unreconciled
    /\ IF mailStatus[c] # "none" /\ completionStatus[c] # status[c]
       THEN serverPhase' = "down" /\ unreconciled' = {} /\ UNCHANGED mailVars
       ELSE /\ StoreCompletion(c, status[c])
            /\ unreconciled' = unreconciled \ {c}
            /\ UNCHANGED serverPhase
    /\ UNCHANGED <<status, parentRun, budgetVars, accepted, taskVars, callVars, waitVars>>

ServerUp ==
    /\ serverPhase = "reconciling" /\ unreconciled = {}
    /\ serverPhase' = "up"
    /\ UNCHANGED <<status, parentRun, budgetVars, mailVars, accepted, unreconciled, taskVars,
                   callVars, waitVars>>

--------------------------------------------------------------------------------

ControlNext ==
    \/ \E p \in Run, c \in Child : SpawnCreate(p, c)
    \/ \E c \in Child : SpawnStart(c) \/ Interrupt(c) \/ InterruptIdle(c) \/ ApproveRun(c)
    \/ \E m \in Message, s, r \in Run, t \in BOOLEAN : SendCheck(m, s, r, t)
    \/ \E m \in Message : SendStore(m) \/ SendContinue(m) \/ SendMark(m)
    \/ \E c \in Child : WriteCancelled(c)
    \/ \E c \in Child, callback \in {"manager", "user"} : ResumeRun(c, callback)
    \/ ResumeRun(Root, "user")

\* (bound) The root itself neither pauses nor ends, except with its process.
ExecutorNext ==
    \/ \E r \in Run : MarkRunning(r) \/ DeliverMail(r) \/ MarkMail(r) \/ StartWork(r)
    \/ \E c \in Child :
          \/ Pause(c) \/ CheckpointMail(c) \/ Complete(c) \/ Throw(c)
          \/ WriteFailed(c) \/ CloseExecution(c) \/ Settle(c)

WaitNext ==
    \/ \E from \in 0..(nextMailSequence[Root] - 1) : WaitCheck(from)
    \/ WaitRegister \/ WaitExpire \/ WaitReturn

ChildNext ==
    \/ serverPhase = "up" /\ (ControlNext \/ ExecutorNext \/ WaitNext)
    \/ Crash \/ Recover \/ ServerUp
    \/ \E c \in Child : Reconcile(c)

ChildSpec == ChildInit /\ [][ChildNext]_childVars

--------------------------------------------------------------------------------
(* Properties.                                                                 *)

\* The root's budget counts what the rows say, through every order of spawns, status
\* writes, cancellations and recoveries, and never exceeds its limits.
BudgetIsExact ==
    /\ ChildTypeOK
    /\ totalChildren = Cardinality({c \in Child : status[c] # "unborn"})
    /\ activeChildren = Cardinality({c \in Child : status[c] \in Active})
    /\ totalChildren <= MaxTotal
    /\ activeChildren <= MaxConcurrent

\* Mail becomes run input once, and only after that is it marked; it is taken in the
\* order of its sequence, except that a trigger may pass mail that is still queued.
MailIsDeliveredInOrder ==
    /\ \A m \in Mail : mailStatus[m] \in {"delivered", "checkpointed"} =>
           \E i \in 1..Len(accepted[mailTo[m]]) : accepted[mailTo[m]][i] = m
    /\ \A r \in Run : \A i, j \in 1..Len(accepted[r]) : i < j =>
           /\ accepted[r][i] # accepted[r][j]
           /\ \/ mailSequence[accepted[r][i]] < mailSequence[accepted[r][j]]
              \/ mailTrigger[accepted[r][i]]

\* A child that has completed, failed or needs action is announced in its parent's
\* mailbox once its task is over, unless its last executor was the user's or the
\* completion callback itself threw; and from the next start on every one is, those
\* children, and those that finished in a process that died, included.
FinishedChildIsAnnounced ==
    \A c \in Child :
        /\ serverPhase = "up" /\ task[c] = "idle" /\ target[c] \notin {"user", "failed"}
        /\ status[c] \in {"completed", "failed", "requires_action"}
        => mailStatus[c] # "none"

\* What wait_child_runs tells the model when it times out ("no new activity of child
\* runs"): a wait that expired returns a snapshot without anything new.
ExpiredWaitSawNothing == wait = "expired" => ~WaitActivity

\* What the start of the container relies on (publishing again is harmless): a
\* published completion reports the status the child has.
CompletionAgreesWithStatus ==
    \A c \in Child : serverPhase = "reconciling" /\ c \in unreconciled /\ mailStatus[c] # "none"
        => completionStatus[c] = status[c]
================================================================================
