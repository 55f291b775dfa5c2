---------------------------- MODULE AutomationRuns ----------------------------
(* One run of an automation: its record in the database, the pg-boss jobs that *)
(* deliver it to a worker, the executor that walks its graph                   *)
(* (automations/automationRunner.ts), the users who approve and cancel it      *)
(* (automations/scheduledTaskService.ts) and the crashes of the process in     *)
(* between.                                                                    *)
(*                                                                             *)
(* Every write of the record is a compare-and-set on its status alone, of a    *)
(* whole execution state that was read earlier; the registry of background     *)
(* tasks keeps two executors of a run apart within one process; the queue may  *)
(* deliver a job again when its time has run out or the process has died; and  *)
(* any call of the database may throw, before or after it has committed.       *)
EXTENDS Naturals, FiniteSets

CONSTANTS
    N,              \* the nodes are 1..N, in topological order
    Edges,          \* <<source, port, target>>
    NeedsApproval,  \* the tool nodes a user has to approve
    User,           \* those who answer approvals
    Handler,        \* the calls of the job handler that run at once
    MaxJobs,        \* (bound) dispatches of the run
    RetryLimit,     \* how often the queue repeats a job
    MaxFaults,      \* (bound) ends of the process, and jobs whose time runs out
    MaxErrors       \* (bound) calls of the database that throw

Node == 1..N
Port == {"success", "error"}
Jobs == 1..MaxJobs

ASSUME AutomationAssumption ==
    /\ {N, MaxJobs} \subseteq Nat \ {0}
    /\ Edges \subseteq Node \X Port \X Node /\ \A e \in Edges : e[1] < e[3]
    /\ NeedsApproval \subseteq Node
    /\ {RetryLimit, MaxFaults, MaxErrors} \subseteq Nat

VARIABLES
    record,     \* the platform_automation_runs row
    orchestration,  \* the status of the run that carries the automation's work
    job,        \* the state of each dispatch in the queue
    deliveries, \* how often each was delivered
    lost,       \* (history) the dispatches whose run was left queued without a job, by an
                \* error or a late fire, since the process started
    errors,     \* the calls that have thrown
    pc,         \* where each handler is,
    handled,    \*   the job it answers for (0: none, or taken from it),
    view,       \*   the record it read last, with its own changes,
    current,    \*   the node it has entered (0: none),
    aborted,    \*   and whether its signal is aborted
    registry,   \* the entry of BackgroundTaskRegistry
    answering,  \* where each user's answer is, and the record it was read from
    cancelling, \* the same of the cancellation
    reconciling,    \* the same of the start of the process
    up, crashes, timeouts,
    trigger,    \* "manual" or "schedule"
    effects,    \* (history) how often each node's tool was executed
    granted,    \* (history) the nodes a user has approved
    overwritten \* (history) how often an older state was written over the record

queueVars == <<job, deliveries, lost, errors>>
handlerVars == <<pc, handled, view, current, aborted>>
userVars == <<answering, cancelling>>
processVars == <<reconciling, up, crashes, timeouts>>
historyVars == <<trigger, effects, granted, overwritten>>
vars == <<record, orchestration, queueVars, handlerVars, registry, userVars,
          processVars, historyVars>>

Ended == {"completed", "failed", "cancelled"}
RunStatus == {"absent", "queued", "running", "waiting_approval"} \cup Ended
NodeStatus == {"pending", "running", "waiting_approval", "completed", "skipped",
               "failed", "cancelled"}
\* isTerminal
NodeEnded == {"completed", "skipped", "failed", "cancelled"}
JobEnded == {"completed", "cancelled", "failed"}

\* The columns and the execution state kept in the metadata. `asked` and `answer`
\* are pendingApproval, `job` is queueJobId, `dispatched` says there is a dispatchId.
Record == [status : RunStatus, node : [Node -> NodeStatus],
           ports : [Node -> SUBSET Port], asked : 0..N,
           answer : {"none", "pending", "approved"}, approved : SUBSET NeedsApproval,
           job : 0..MaxJobs, dispatched : BOOLEAN, orchestrated : BOOLEAN]

\* createAutomationExecutionState
Absent == [status |-> "absent", node |-> [n \in Node |-> "pending"],
           ports |-> [n \in Node |-> {}], asked |-> 0, answer |-> "none",
           approved |-> {}, job |-> 0, dispatched |-> FALSE, orchestrated |-> FALSE]

Idle == [at |-> "idle", of |-> Absent]
\* (bound) the user tries to cancel once.
Spent == [at |-> "done", of |-> Absent]

\* Inside the task of the registry.
Executing == {"interrupted", "begin", "opened", "loop", "step", "entered", "worked",
              "completing", "paused", "returning"}

Init ==
    /\ record = Absent
    /\ orchestration = "absent"
    /\ trigger \in {"manual", "schedule"}
    /\ job = [j \in Jobs |-> IF trigger = "schedule" /\ j = 1 THEN "ready" ELSE "absent"]
    /\ deliveries = [j \in Jobs |-> 0] /\ lost = {} /\ errors = 0
    /\ pc = [h \in Handler |-> "idle"]
    /\ handled = [h \in Handler |-> 0]
    /\ view = [h \in Handler |-> Absent]
    /\ current = [h \in Handler |-> 0]
    /\ aborted = [h \in Handler |-> FALSE]
    /\ registry = "absent"
    /\ answering = [u \in User |-> Idle]
    /\ cancelling = Idle
    /\ reconciling = Idle
    /\ up = TRUE /\ crashes = 0 /\ timeouts = 0
    /\ effects = [n \in Node |-> 0] /\ granted = {} /\ overwritten = 0

--------------------------------------------------------------------------------
(* The compare-and-set every writer of the record goes through.                *)

\* updateAutomationRun with expectedStatuses
Writes(expected, r) ==
    /\ record.status = expected
    /\ record' = r

Moved(expected) == record.status # expected /\ UNCHANGED record

\* The status alone is compared: what is written may come of a state that was read before
\* the record got the one it has.
CountsOverwritten(v) == overwritten' = IF record = v THEN overwritten ELSE overwritten + 1

\* A call throws, before it has committed or after.
Throwing == errors < MaxErrors /\ errors' = errors + 1

CancelOrchestration(known) ==
    orchestration' = IF known /\ orchestration \notin Ended
                       THEN "cancelled" ELSE orchestration

--------------------------------------------------------------------------------
(* The queue. Only one job is handled at a time; a job whose time runs out is  *)
(* taken from its handler, which is not told.                                  *)

Deliver(h, j) ==
    /\ up /\ pc[h] = "idle"
    /\ \A g \in Handler : handled[g] = 0
    /\ job[j] = "ready"
    /\ job' = [job EXCEPT ![j] = "active"]
    /\ deliveries' = [deliveries EXCEPT ![j] = @ + 1]
    /\ pc' = [pc EXCEPT ![h] = "loading"]
    /\ handled' = [handled EXCEPT ![h] = j]
    /\ UNCHANGED <<record, orchestration, lost, errors, view, current, aborted, registry, userVars,
                   processVars, historyVars>>

\* Nothing but the start of the process looks for a queued record without a job.
LosesRun ==
    lost' = IF record'.status = "queued" /\ job'[record'.job] \notin {"ready", "active"}
              THEN lost \cup {record'.job} ELSE lost

\* A delivery that failed is repeated until its retries are used up.
Repeated(j) == IF deliveries[j] <= RetryLimit THEN "ready" ELSE "failed"

\* Half an hour: only the work of the nodes takes so long, nothing before or after it.
TimesOut(j) ==
    /\ job[j] = "active"
    /\ \E h \in Handler : handled[h] = j /\ pc[h] \in Executing
    /\ crashes + timeouts < MaxFaults
    /\ timeouts' = timeouts + 1
    /\ job' = [job EXCEPT ![j] = Repeated(j)]
    /\ handled' = [h \in Handler |-> IF handled[h] = j THEN 0 ELSE handled[h]]
    /\ UNCHANGED <<record, orchestration, deliveries, lost, errors, pc, view, current,
                   aborted, registry, userVars, reconciling, up, crashes, historyVars>>

\* The job of a process that has died is found by the monitor.
TimesOutUnhandled(j) ==
    /\ job[j] = "active"
    /\ \A h \in Handler : handled[h] # j
    /\ job' = [job EXCEPT ![j] = Repeated(j)]
    /\ UNCHANGED record /\ LosesRun
    /\ UNCHANGED <<orchestration, deliveries, errors, handlerVars, registry, userVars,
                   processVars, historyVars>>

\* The handler of a delivery ends; h forgets what it read.
JobEnds(h, outcome) ==
    LET j == handled[h] IN
    /\ job' = IF j # 0 /\ job[j] = "active"
                THEN [job EXCEPT ![j] = IF outcome \in {"ok", "late"} THEN "completed"
                                                                  ELSE Repeated(j)]
                ELSE job
    /\ IF outcome = "ok" THEN UNCHANGED lost ELSE LosesRun
    /\ IF outcome = "thrown" THEN Throwing ELSE UNCHANGED errors
    /\ handled' = [handled EXCEPT ![h] = 0]
    /\ pc' = [pc EXCEPT ![h] = "idle"]
    /\ view' = [view EXCEPT ![h] = Absent]
    /\ UNCHANGED deliveries

\* enqueueAutomationRun and dispatchAutomationRun: an id the queue knows is accepted
\* while the job is not ended; if it cannot be enqueued the run is failed, provided it
\* is still queued and the database answers. An insert may succeed whose answer is lost.
Dispatch(j) ==
    LET inserted == [job EXCEPT ![j] = IF @ = "absent" THEN "ready" ELSE @] IN
    \/ job[j] \notin JobEnded /\ job' = inserted /\ UNCHANGED <<record, lost, errors>>
    \/ /\ job' \in {job, inserted}
       /\ record' = IF record.status = "queued" THEN [record EXCEPT !.status = "failed"]
                                                ELSE record
       /\ UNCHANGED <<lost, errors>>
    \/ job' \in {job, inserted} /\ UNCHANGED record /\ LosesRun /\ Throwing

--------------------------------------------------------------------------------
(* The handler, up to the task: executeQueuedJob, executePersisted,            *)
(* executeScheduled, executeTracked.                                           *)

\* A payload without automationRunId: the first fire of a schedule.
Fires(h) == trigger = "schedule" /\ handled[h] = 1

Create(h) ==
    /\ record' = [Absent EXCEPT !.status = "queued", !.job = 1]
    /\ \/ /\ view' = [view EXCEPT ![h] = record']
          /\ pc' = [pc EXCEPT ![h] = "starting"]
          /\ UNCHANGED <<queueVars, handled>>
       \/ JobEnds(h, "thrown")

Take(h) ==
    /\ view' = [view EXCEPT ![h] = record]
    /\ pc' = [pc EXCEPT ![h] = "starting"]
    /\ UNCHANGED <<record, queueVars, handled>>

\* A one-shot task that fires more than a minute late is only marked as missed. What is
\* read before the task is started may throw: nobody fails the run, the delivery is used up.
Load(h) ==
    /\ pc[h] = "loading"
    /\ \/ Fires(h) /\ UNCHANGED record /\ JobEnds(h, "late")
       \/ record.status = "absent" /\ Create(h)
       \/ /\ record.status \in {"completed", "cancelled", "waiting_approval"}
          /\ UNCHANGED record
          /\ JobEnds(h, "ok")
       \/ record.status = "failed" /\ UNCHANGED record /\ JobEnds(h, "error")
       \/ UNCHANGED record /\ JobEnds(h, "thrown")
       \/ record.status \in {"queued", "running"} /\ Take(h)
    /\ UNCHANGED <<orchestration, current, aborted, registry, userVars, processVars,
                   historyVars>>

\* (mutant) the registry forgets a task when it is asked for again
StartsBesideAnother == TRUE

\* BackgroundTaskRegistry.start
StartsAlone == registry = "absent"

Start(h) ==
    /\ pc[h] = "starting"
    /\ StartsAlone
    /\ registry' = "running"
    /\ pc' = [pc EXCEPT ![h] = IF view[h].status = "running"
                                  /\ \E n \in Node : view[h].node[n] = "running"
                                 THEN "interrupted" ELSE "begin"]
    /\ UNCHANGED <<record, orchestration, queueVars, handled, view, current, aborted,
                   userVars, processVars, historyVars>>

\* The registry has an entry, or the authorization is refused.
CannotStart(h) ==
    /\ pc[h] = "starting"
    /\ pc' = [pc EXCEPT ![h] = "failing"]
    /\ view' = [view EXCEPT ![h] = Absent]
    /\ UNCHANGED <<record, orchestration, queueVars, handled, current, aborted, registry,
                   userVars, processVars, historyVars>>

--------------------------------------------------------------------------------
(* The executor: executeAutomationRun and executeNode.                         *)

\* The task is rejected; its entry stays for a while.
Throws(h) ==
    /\ registry' = "ended"
    /\ pc' = [pc EXCEPT ![h] = "failing"]
    /\ aborted' = [aborted EXCEPT ![h] = FALSE]

Goes(h, next) ==
    /\ pc' = [pc EXCEPT ![h] = next]
    /\ UNCHANGED <<aborted, registry>>

\* A call of the database throws, or the executor is at a node when its signal is aborted.
Breaks(h) ==
    /\ pc[h] \in Executing
    /\ \/ Throwing
       \/ pc[h] = "step" /\ aborted[h] /\ UNCHANGED errors
    /\ Throws(h)
    /\ view' = [view EXCEPT ![h] = Absent]
    /\ current' = [current EXCEPT ![h] = 0]
    /\ UNCHANGED <<record, orchestration, job, deliveries, lost, handled, userVars, processVars,
                   historyVars>>

Incoming(n) == {e \in Edges : e[3] = n}
HasErrorEdge(n) == \E e \in Edges : e[1] = n /\ e[2] = "error"

Considered(v, n) ==
    /\ v.node[n] = "pending"
    /\ \A e \in Incoming(n) : v.node[e[1]] \in NodeEnded

\* findNextNode: the first pending node whose sources have ended, 0 if there is none.
NextNode(v) ==
    LET open == {n \in Node : Considered(v, n)}
    IN IF open = {} THEN 0 ELSE CHOOSE n \in open : \A m \in open : n <= m

IsSelected(v, n) ==
    Incoming(n) # {} => \E e \in Incoming(n) : e[2] \in v.ports[e[1]]

\* h writes the state v under the status s, or is thrown out because the status has moved
\* since it was read; what it read is needed again only while it is inside a node.
Persist(h, v, s, next) ==
    /\ \/ /\ Writes(view[h].status, [v EXCEPT !.status = s])
          /\ IF next = "failing" THEN Throws(h) ELSE Goes(h, next)
       \/ Moved(view[h].status) /\ Throws(h)
    /\ view' = [view EXCEPT ![h] = IF pc'[h] = "entered" THEN v ELSE Absent]
    /\ current' = [current EXCEPT ![h] = IF pc'[h] = "entered" THEN NextNode(view[h]) ELSE 0]
    /\ UNCHANGED <<queueVars, handled, userVars, processVars>>

\* A node found running was interrupted: whether it had its effect is not known, and it
\* is not run again.
Interrupted(h) ==
    LET settled == [n \in Node |-> IF view[h].node[n] = "running" THEN "failed"
                                                                ELSE view[h].node[n]]
    IN /\ pc[h] = "interrupted"
       /\ Persist(h, [view[h] EXCEPT !.node = settled], "running", "failing")
       /\ UNCHANGED <<orchestration, historyVars>>

\* ensureOrchestrationRun
Begin(h) ==
    /\ pc[h] = "begin"
    /\ orchestration' = IF ~view[h].orchestrated \/ orchestration = "waiting_approval"
                          THEN "running" ELSE orchestration
    /\ view' = [view EXCEPT ![h].orchestrated = TRUE]
    /\ pc' = [pc EXCEPT ![h] = "opened"]
    /\ UNCHANGED <<record, queueVars, handled, current, aborted, registry, userVars,
                   processVars, historyVars>>

Open(h) ==
    /\ pc[h] = "opened"
    /\ Persist(h, view[h], "running", "loop")
    /\ UNCHANGED <<orchestration, historyVars>>

\* The top of the loop: the record is read again. From here on the orchestration run is
\* known.
Loop(h) ==
    /\ pc[h] = "loop"
    /\ \/ aborted[h] /\ Throws(h) /\ UNCHANGED <<orchestration, view>>
       \/ /\ ~aborted[h] /\ record.status = "cancelled"
          /\ CancelOrchestration(TRUE)
          /\ Goes(h, "returning")
          /\ UNCHANGED view
       \/ /\ ~aborted[h] /\ record.status # "cancelled" /\ record.answer = "pending"
          /\ Goes(h, "returning")
          /\ UNCHANGED <<orchestration, view>>
       \/ /\ ~aborted[h] /\ record.status # "cancelled" /\ record.answer # "pending"
          /\ Goes(h, "step")
          /\ view' = [view EXCEPT ![h] = record]
          /\ UNCHANGED orchestration
    /\ UNCHANGED <<record, queueVars, handled, current, userVars, processVars, historyVars>>

\* Nothing is left to run: the orchestration run is completed before the record.
Conclude(h) ==
    /\ pc[h] = "step" /\ NextNode(view[h]) = 0
    /\ IF \A n \in Node : view[h].node[n] \in NodeEnded
         THEN orchestration' = "completed" /\ Goes(h, "completing") /\ UNCHANGED view
         ELSE /\ Throws(h)
              /\ view' = [view EXCEPT ![h] = Absent]
              /\ UNCHANGED orchestration
    /\ UNCHANGED <<record, queueVars, handled, current, userVars, processVars, historyVars>>

Complete(h) ==
    /\ pc[h] = "completing"
    /\ Persist(h, [view[h] EXCEPT !.asked = 0, !.answer = "none"], "completed", "returning")
    /\ UNCHANGED <<orchestration, historyVars>>

Skip(h) ==
    LET n == NextNode(view[h]) IN
    /\ pc[h] = "step" /\ n # 0 /\ ~IsSelected(view[h], n)
    /\ Persist(h, [view[h] EXCEPT !.node[n] = "skipped"], "running", "loop")
    /\ UNCHANGED <<orchestration, historyVars>>

\* The node is recorded as running before anything is done. The view keeps the status
\* that was read: it is what the next write expects.
Enter(h) ==
    LET n == NextNode(view[h]) IN
    /\ pc[h] = "step" /\ n # 0 /\ IsSelected(view[h], n) /\ ~aborted[h]
    /\ Persist(h, [view[h] EXCEPT !.node[n] = "running"], "running", "entered")
    /\ UNCHANGED <<orchestration, historyVars>>

\* (mutant) one approval counts for all nodes that come later
MayWorkOnceAsked(v, n) == n \in NeedsApproval => v.approved # {} \/ v.asked # 0

MayWork(v, n) == n \in NeedsApproval => n \in v.approved

\* The tool needs an approval the user has not given: the run pauses.
Ask(h) ==
    LET n == current[h] IN
    /\ pc[h] = "entered" /\ ~MayWork(view[h], n)
    /\ Persist(h, [view[h] EXCEPT !.node[n] = "waiting_approval", !.asked = n,
                                  !.answer = "pending"], "waiting_approval", "paused")
    /\ UNCHANGED <<orchestration, historyVars>>

Paused(h) ==
    /\ pc[h] = "paused"
    /\ orchestration' = "waiting_approval"
    /\ pc' = [pc EXCEPT ![h] = "returning"]
    /\ UNCHANGED <<record, queueVars, handled, view, current, aborted, registry, userVars,
                   processVars, historyVars>>

\* What a node leaves behind: its port, and no question that it has answered.
Worked(v, n, result) ==
    LET answered == result = "completed" /\ v.asked = n IN
    [v EXCEPT !.node[n] = result,
              !.asked = IF answered THEN 0 ELSE @,
              !.answer = IF answered THEN "none" ELSE @,
              !.ports[n] = IF result = "completed" THEN {"success"}
                           ELSE IF HasErrorEdge(n) THEN {"error"} ELSE {}]

\* The tool succeeds, or fails with or without having had its effect.
Work(h) ==
    LET n == current[h] IN
    /\ pc[h] = "entered" /\ MayWork(view[h], n)
    /\ \E result \in {"completed", "failed"}, acts \in BOOLEAN :
         /\ result = "completed" => acts
         /\ effects' = IF acts THEN [effects EXCEPT ![n] = @ + 1] ELSE effects
         /\ view' = [view EXCEPT ![h] = Worked(@, n, result)]
    /\ pc' = [pc EXCEPT ![h] = "worked"]
    /\ UNCHANGED <<record, orchestration, queueVars, handled, current, aborted, registry,
                   userVars, processVars, trigger, granted, overwritten>>

\* A failed node without an error edge fails the run.
FailsRun(v, n) == v.node[n] = "failed" /\ v.ports[n] = {}

RecordNode(h) ==
    /\ pc[h] = "worked"
    /\ IF FailsRun(view[h], current[h]) THEN Persist(h, view[h], "failed", "failing")
                                        ELSE Persist(h, view[h], "running", "loop")
    /\ UNCHANGED <<orchestration, historyVars>>

Return(h) ==
    /\ pc[h] = "returning"
    /\ registry' = "ended"
    /\ UNCHANGED record
    /\ JobEnds(h, "ok")
    /\ aborted' = [aborted EXCEPT ![h] = FALSE]
    /\ UNCHANGED <<orchestration, current, userVars, processVars, historyVars>>

\* (mutant) a failure is recorded whatever became of the run
IsFailable(r) == r.status # "absent"

\* failAutomationRun: a completed or cancelled run keeps its status.
Fails(r) == r.status \notin {"absent", "completed", "cancelled"}

\* It reads the record and fails the orchestration run, unless it throws itself ...
Fail(h) ==
    /\ pc[h] = "failing"
    /\ UNCHANGED record
    /\ \/ /\ Fails(record)
          /\ orchestration' = IF record.orchestrated /\ orchestration \notin Ended
                                THEN "failed" ELSE orchestration
          /\ view' = [view EXCEPT ![h] = record]
          /\ pc' = [pc EXCEPT ![h] = "failed"]
          /\ UNCHANGED <<queueVars, handled>>
       \/ ~Fails(record) /\ JobEnds(h, "error") /\ UNCHANGED orchestration
       \/ JobEnds(h, "thrown") /\ UNCHANGED orchestration
    /\ UNCHANGED <<current, aborted, registry, userVars, processVars, historyVars>>

\* ... and then the record, if its status is still the same and the database answers.
RecordFailure(h) ==
    /\ pc[h] = "failed"
    /\ \/ /\ Writes(view[h].status, [view[h] EXCEPT !.status = "failed"])
          /\ CountsOverwritten(view[h])
          /\ JobEnds(h, "error")
       \/ Moved(view[h].status) /\ UNCHANGED overwritten /\ JobEnds(h, "error")
       \/ UNCHANGED <<record, overwritten>> /\ JobEnds(h, "thrown")
    /\ UNCHANGED <<orchestration, current, aborted, registry, userVars, processVars,
                   trigger, effects, granted>>

\* The entry of an ended task is removed after five minutes, longer than a handler takes
\* from reading the record to asking for the task.
Forget ==
    /\ registry = "ended"
    /\ \A h \in Handler : pc[h] \notin Executing \cup {"starting"}
    /\ registry' = "absent"
    /\ UNCHANGED <<record, orchestration, queueVars, handlerVars, userVars, processVars,
                   historyVars>>

--------------------------------------------------------------------------------
(* The users: startAutomation, respondApproval, cancelAutomation. The server   *)
(* listens when the queued records have been reconciled.                       *)

Listening == up /\ reconciling = Idle

\* The record is written before the run is dispatched: what follows the write may throw,
\* its own answer included.
Queued(u) ==
    \/ /\ answering' = [answering EXCEPT ![u] = [at |-> "dispatch", of |-> record']]
       /\ UNCHANGED queueVars
    \/ /\ answering' = [answering EXCEPT ![u] = Idle]
       /\ UNCHANGED <<job, deliveries>>
       /\ Throwing /\ LosesRun

StartAutomation(u) ==
    /\ Listening /\ trigger = "manual" /\ record.status = "absent" /\ answering[u] = Idle
    /\ record' = [Absent EXCEPT !.status = "queued", !.job = 1, !.dispatched = TRUE]
    /\ Queued(u)
    /\ UNCHANGED <<orchestration, handlerVars, registry, cancelling,
                   processVars, historyVars>>

ReadApproval(u) ==
    /\ Listening /\ answering[u] = Idle
    /\ record.status = "waiting_approval" /\ record.answer = "pending"
    /\ answering' = [answering EXCEPT ![u] = [at |-> "answer", of |-> record]]
    /\ UNCHANGED <<record, orchestration, queueVars, handlerVars, registry, cancelling,
                   processVars, historyVars>>

\* The execution state an answer leaves: the node is pending again, or has failed with
\* its error port selected.
Approved(v) ==
    [v EXCEPT !.answer = "approved", !.node[v.asked] = "pending",
              !.approved = @ \cup {v.asked}]
Rejected(v) ==
    [v EXCEPT !.answer = "none", !.asked = 0, !.node[v.asked] = "failed",
              !.ports[v.asked] = {"error"}]

\* Every dispatch gets an id of its own.
Unused == {j \in Jobs : /\ job[j] = "absent" /\ record.job # j
                        /\ \A u \in User : answering[u].at = "dispatch"
                                            => answering[u].of.job # j}

Requeued(v, j) == [v EXCEPT !.status = "queued", !.job = j, !.dispatched = TRUE]

Respond(u) ==
    LET v == answering[u].of IN
    /\ answering[u].at = "answer"
    /\ \/ /\ \E j \in Unused : Writes("waiting_approval", Requeued(Approved(v), j))
          /\ granted' = granted \cup {v.asked} /\ CountsOverwritten(v)
          /\ Queued(u)
       \/ /\ HasErrorEdge(v.asked)
          /\ \E j \in Unused : Writes("waiting_approval", Requeued(Rejected(v), j))
          /\ Queued(u)
          /\ UNCHANGED granted /\ CountsOverwritten(v)
       \/ /\ ~HasErrorEdge(v.asked)
          /\ Writes("waiting_approval", [v EXCEPT !.status = "failed", !.answer = "none",
                                                  !.node[v.asked] = "failed"])
          /\ answering' = [answering EXCEPT ![u] = Idle]
          /\ UNCHANGED <<queueVars, granted>> /\ CountsOverwritten(v)
       \/ /\ Moved("waiting_approval")
          /\ answering' = [answering EXCEPT ![u] = Idle]
          /\ UNCHANGED <<queueVars, granted, overwritten>>
    /\ UNCHANGED <<orchestration, handlerVars, registry, cancelling,
                   processVars, trigger, effects>>

DispatchAnswer(u) ==
    /\ answering[u].at = "dispatch"
    /\ Dispatch(answering[u].of.job)
    /\ answering' = [answering EXCEPT ![u] = Idle]
    /\ UNCHANGED <<orchestration, deliveries, handlerVars, registry, cancelling,
                   processVars, historyVars>>

ReadCancel ==
    /\ Listening /\ cancelling = Idle
    /\ record.status \notin Ended \cup {"absent"}
    /\ cancelling' = [at |-> "effects", of |-> record]
    /\ UNCHANGED <<record, orchestration, queueVars, handlerVars, registry, answering,
                   processVars, historyVars>>

\* An error ends the cancellation where it is: what it has done stays done.
CancelFails ==
    /\ cancelling' = Spent
    /\ Throwing /\ LosesRun

\* The job is cancelled first, ...
CancelJob ==
    LET j == cancelling.of.job IN
    /\ cancelling.at = "effects"
    /\ UNCHANGED record
    /\ \/ /\ job' = [job EXCEPT ![j] = IF @ \in {"ready", "active"} THEN "cancelled" ELSE @]
          /\ \/ /\ cancelling' = [cancelling EXCEPT !.at = "orchestration"]
                /\ UNCHANGED <<lost, errors>>
             \/ CancelFails
       \/ UNCHANGED job /\ CancelFails
    /\ UNCHANGED <<orchestration, deliveries, handlerVars, registry, answering,
                   processVars, historyVars>>

\* ... then the orchestration run, ...
CancelEffects ==
    /\ cancelling.at = "orchestration"
    /\ UNCHANGED <<record, job>>
    /\ \/ /\ CancelOrchestration(cancelling.of.orchestrated)
          /\ cancelling' = [cancelling EXCEPT !.at = "write"]
          /\ UNCHANGED <<lost, errors>>
       \/ CancelFails /\ UNCHANGED orchestration
    /\ UNCHANGED <<deliveries, handlerVars, registry, answering, processVars,
                   historyVars>>

\* ... then the record, whose status may have moved meanwhile; the task is aborted last.
WriteCancelled ==
    LET v == cancelling.of
        left == [n \in Node |-> IF v.node[n] \in NodeEnded THEN v.node[n] ELSE "cancelled"]
        cancelled == [v EXCEPT !.status = "cancelled", !.node = left, !.asked = 0,
                               !.answer = "none"]
    IN /\ cancelling.at = "write"
       /\ \/ /\ Writes(v.status, cancelled)
             /\ aborted' = [h \in Handler |-> aborted[h] \/ pc[h] \in Executing]
             /\ registry' = IF registry = "running" THEN "ended" ELSE registry
             /\ cancelling' = Spent /\ UNCHANGED queueVars
          \/ /\ Moved(v.status)
             /\ cancelling' = Spent /\ UNCHANGED <<aborted, registry, queueVars>>
          \/ /\ Writes(v.status, cancelled) \/ UNCHANGED record
             /\ UNCHANGED <<aborted, registry, job, deliveries>> /\ CancelFails
       /\ UNCHANGED <<orchestration, pc, handled, view, current, answering, processVars,
                      historyVars>>

--------------------------------------------------------------------------------
(* The process.                                                                *)

Crash ==
    /\ up /\ crashes + timeouts < MaxFaults
    /\ up' = FALSE /\ crashes' = crashes + 1
    /\ pc' = [h \in Handler |-> "idle"]
    /\ handled' = [h \in Handler |-> 0]
    /\ view' = [h \in Handler |-> Absent]
    /\ current' = [h \in Handler |-> 0]
    /\ aborted' = [h \in Handler |-> FALSE]
    /\ registry' = "absent"
    /\ answering' = [u \in User |-> Idle]
    /\ cancelling' = IF cancelling = Idle THEN Idle ELSE Spent
    /\ reconciling' = Idle
    /\ UNCHANGED <<record, orchestration, queueVars, timeouts, historyVars>>

\* Runs without an executor become recoverable; the queue is open before the queued
\* records are looked at.
Restart ==
    /\ ~up /\ up' = TRUE
    /\ orchestration' = IF orchestration = "running" THEN "interrupted" ELSE orchestration
    /\ reconciling' = [at |-> "read", of |-> Absent]
    /\ lost' = {}
    /\ UNCHANGED <<record, job, deliveries, errors, handlerVars, registry, userVars, crashes,
                   timeouts, historyVars>>

\* reconcileQueuedAutomationRuns: lists the queued records ...
ListQueued ==
    /\ reconciling.at = "read"
    /\ reconciling' = IF record.status = "queued" THEN [at |-> "act", of |-> record]
                                                  ELSE Idle
    /\ UNCHANGED <<record, orchestration, queueVars, handlerVars, registry, userVars, up,
                   crashes, timeouts, historyVars>>

\* (mutant) a queued record is taken to be in the queue
TrustQueue(v) == UNCHANGED <<record, job, lost, errors>>

\* ... dispatches each under the ids it carries, and fails it if it carries none.
Redispatch(v) ==
    IF v.dispatched THEN Dispatch(v.job)
    ELSE /\ UNCHANGED <<job, lost, errors>>
         /\ \/ Writes("queued", [record EXCEPT !.status = "failed"])
            \/ Moved("queued")

Reconcile ==
    /\ reconciling.at = "act"
    /\ Redispatch(reconciling.of)
    /\ reconciling' = Idle
    /\ UNCHANGED <<orchestration, deliveries, handlerVars, registry, userVars, up, crashes,
                   timeouts, historyVars>>

--------------------------------------------------------------------------------

Executes(h) ==
    \/ Load(h) \/ Start(h) \/ CannotStart(h)
    \/ Interrupted(h) \/ Begin(h) \/ Open(h) \/ Loop(h) \/ Conclude(h) \/ Complete(h)
    \/ Skip(h) \/ Enter(h) \/ Breaks(h) \/ Ask(h) \/ Paused(h) \/ Work(h) \/ RecordNode(h)
    \/ Return(h) \/ Fail(h) \/ RecordFailure(h)

Delivers == \E h \in Handler, j \in Jobs : Deliver(h, j)
Process == Restart \/ ListQueued \/ Reconcile

Next ==
    \/ Delivers
    \/ \E j \in Jobs : TimesOut(j) \/ TimesOutUnhandled(j)
    \/ \E h \in Handler : Executes(h)
    \/ \E u \in User : StartAutomation(u) \/ ReadApproval(u) \/ Respond(u)
                         \/ DispatchAnswer(u)
    \/ ReadCancel \/ CancelJob \/ CancelEffects \/ WriteCancelled
    \/ Forget
    \/ Crash \/ Process

Spec == Init /\ [][Next]_vars

--------------------------------------------------------------------------------
(* Properties.                                                                 *)

\* The row, the queue and the process.
AutomationTypeOK ==
    /\ record \in Record
    /\ orchestration \in RunStatus \cup {"interrupted"}
    /\ job \in [Jobs -> {"absent", "ready", "active"} \cup JobEnded]
    /\ deliveries \in [Jobs -> 0..RetryLimit + 1] /\ lost \subseteq 0..MaxJobs
    /\ errors \in 0..MaxErrors
    /\ pc \in [Handler -> {"idle", "loading", "starting", "failing", "failed"} \cup Executing]
    /\ handled \in [Handler -> 0..MaxJobs]
    /\ view \in [Handler -> Record]
    /\ current \in [Handler -> 0..N]
    /\ aborted \in [Handler -> BOOLEAN]
    /\ registry \in {"absent", "running", "ended"}
    /\ answering \in [User -> [at : {"idle", "answer", "dispatch"}, of : Record]]
    /\ cancelling \in [at : {"idle", "effects", "orchestration", "write", "done"}, of : Record]
    /\ reconciling \in [at : {"idle", "read", "act"}, of : Record]
    /\ up \in BOOLEAN /\ {crashes, timeouts} \subseteq 0..MaxFaults
    /\ effects \in [Node -> Nat] /\ granted \subseteq NeedsApproval /\ overwritten \in Nat

\* The variables are well-typed, no two executors of the run are at work at once in a
\* process, and a run that is reported as completed has its orchestration run completed:
\* what the user finds in the conversation and in the list of automations agree.
ExecutionsAgree ==
    /\ AutomationTypeOK
    /\ \A g, h \in Handler : pc[g] \in Executing /\ pc[h] \in Executing => g = h
    /\ \A h \in Handler : pc[h] \in Executing => registry # "absent"
    /\ record.status = "completed" => orchestration = "completed"

\* A node's tool never acts without the approval it needs.
EffectsAreApproved == \A n \in NeedsApproval \ granted : effects[n] = 0

\* It acts at most once, whatever crashes, redeliveries, answers and cancellations come,
\* but for the writes that put an older state back: those of a failure and of an answer,
\* which compare the status alone. And there are none of those unless a job is taken from
\* a live executor or two users answer.
EffectsAreFew ==
    /\ \A n \in Node : effects[n] <= 1 + overwritten
    /\ timeouts = 0 /\ (\A t, u \in User : t = u) => overwritten = 0

\* What a node's tool does is approved, and is done once.
EffectsAreLicensed == EffectsAreApproved /\ EffectsAreFew

\* A run that was reported as completed or cancelled stays so, whatever late failure,
\* cancellation or delivery of the same job follows.
FinishedStaysFinished ==
    [][record.status \in {"completed", "cancelled"} => record'.status = record.status]_vars

\* Somebody is about to take a queued run up, or to end it: the next start of the process,
\* the queue, who has yet to dispatch it, a cancellation that has ended its job, or a
\* handler from whom its job was taken.
InHand ==
    \/ ~up \/ reconciling # Idle
    \/ job[record.job] \in {"ready", "active"}
    \/ \E u \in User : answering[u].at = "dispatch" /\ answering[u].of.job = record.job
    \/ cancelling.at \in {"orchestration", "write"} /\ cancelling.of.job = record.job
    \/ \E h \in Handler : pc[h] \notin {"idle", "loading"}

\* Record and queue are no common transaction; still neither a crash between the two, nor a
\* delivery of a process that has died, nor answers, cancellations and redeliveries beside
\* each other leave a queued run behind that nobody will take up before the next start. Only
\* an error of the database does (between the record's write and the dispatch, or between the
\* cancellation of the job and that of the record, or in the failure that should end it), or
\* more faults than the queue has retries.
QueuedRunIsInHand ==
    record.status = "queued" =>
        \/ InHand
        \/ record.job \in lost /\ (errors > 0 \/ crashes + timeouts > RetryLimit)

\* "后台任务 '...' 已在运行": a delivery that follows an approval is turned away as running
\* only while the run's task is running.
RefusedWhileRunning ==
    \A h \in Handler :
        pc[h] = "starting" /\ view[h].answer = "approved" /\ registry # "absent"
            => \E g \in Handler : pc[g] \in Executing
================================================================================
