------------------------------- MODULE RunExecution -------------------------------
(***************************************************************************)
(* One run under the server process: the steering controller, the SDK      *)
(* executor loop that talks to the model, cancellation, approval and       *)
(* resumption, and crashes of the process between any two of their steps.  *)
(* The durable state is the mailbox of RunInputMailbox, the objective      *)
(* revision and the pending approval of the run's state, the step contexts *)
(* of its requests and what kind of state the last checkpoint holds.       *)
(*                                                                         *)
(* The program counter names the place between two awaits the executor is  *)
(* in: one executor action is the code between two durable effects. The    *)
(* steering queue (PQueue, concurrency 1 per run) makes its operations     *)
(* exclude one another; enqueue is split in two because a crash or a       *)
(* status write outside the queue can come between its two effects.        *)
(***************************************************************************)
EXTENDS RunInputMailbox

\* Requests are numbered in the order of creation (listModelRequests sorts by createdAt).
ASSUME RequestAssumption == Request \subseteq Nat \ {0}

\* The hash of a checkpoint is named by the step whose state it holds.
ASSUME ContentAssumption == Content = Request

VARIABLES
    up,                  \* the server process is alive
    pc,                  \* where the executor of this run is, "off" = no active execution
    resuming,            \* options.resume: crash recovery or approval continuation
    aborted,             \* the execution's AbortSignal
    cancelling,          \* a cancel() has aborted but not yet written its status
    accepting,           \* acceptingRuns.has(runId)
    unsynced,            \* an enqueue holds the steering queue between its two effects
    objectiveRevision,   \* run.state.objectiveRevision, durable
    approvalPending,     \* run.state holds a pending approval decision, durable
    savedFinal,          \* the saved SDK state already holds its final output, durable
    boundRevision,       \* ToolExecutionCoordinator.modelInputObjectiveRevision
    pendingLease,        \* pendingInputLeaseId of the executor
    restored,            \* nextInput is the state restored from the checkpoint
    firstCall,           \* the segment has not called the model yet
    step,                \* request of latestCheckpointContext
    candidate,           \* request the answer under judgement is bound to
    stepRevision,        \* objectiveRevision of a request's StepContext
    stepCursor,          \* inputCursor of a request's StepContext
    failure              \* what the executor threw, "none" while it has not

processVars == <<up, resuming, aborted, cancelling, accepting, unsynced>>
stateVars == <<objectiveRevision, approvalPending, savedFinal>>
executorVars == <<boundRevision, pendingLease, restored, firstCall, step, candidate>>
stepVars == <<stepRevision, stepCursor>>

vars == <<mailboxVars, pc, processVars, stateVars, executorVars, stepVars, failure>>

\* Places inside the try block: whatever is awaited there may throw.
Executing ==
    { "starting", "opening", "assembling", "replaying", "looping", "capturing", "baseline",
      "provider", "filtering", "consuming", "finishing", "settling", "suspending", "judging",
      "completing", "clarifying", "rejecting", "finalized" }

\* Places in which RunEngine holds an execution of the run.
Active == Executing \cup {"failing", "closing"}

ExecutionTypeOK ==
    /\ TypeOK
    /\ pc \in Active \cup {"off", "approving"}
    /\ {up, resuming, aborted, cancelling, accepting, unsynced} \subseteq BOOLEAN
    /\ {approvalPending, savedFinal, restored, firstCall} \subseteq BOOLEAN
    /\ objectiveRevision \in Nat \ {0}
    /\ boundRevision \in Nat
    /\ pendingLease \in Lease \cup {None}
    /\ {step, candidate} \subseteq Request \cup {None}
    /\ stepRevision \in [Request -> Nat]
    /\ stepCursor \in [Request -> Nat]
    /\ failure \in {"none", "steering", "revision", "terminal", "turns", "request",
                    "rejected", "aborted", "external", "unrecorded"}

RunInit ==
    /\ Init
    /\ up = TRUE
    /\ pc = "off"
    /\ resuming = FALSE
    /\ aborted = FALSE
    /\ cancelling = FALSE
    /\ accepting = FALSE
    /\ unsynced = FALSE
    /\ objectiveRevision = 1
    /\ approvalPending = FALSE
    /\ savedFinal = FALSE
    /\ boundRevision = 0
    /\ pendingLease = None
    /\ restored = FALSE
    /\ firstCall = TRUE
    /\ step = None
    /\ candidate = None
    /\ stepRevision = [r \in Request |-> 0]
    /\ stepCursor = [r \in Request |-> 0]
    /\ failure = "none"

------------------------------------------------------------------------------------
(* Reads and decisions. As in RunInputMailbox, an operator marked (mutant) is a wrong   *)
(* form of the definition that follows it.                                              *)

\* listModelRequests(runId).at(-1)
NewestRequest ==
    IF committedRequests = {} THEN None
    ELSE CHOOSE r \in committedRequests : \A q \in committedRequests : q <= r

\* currentModelInputCursor: what the model will have seen once the open lease is acked.
ModelInputCursor ==
    IF activeInputLeaseId = None THEN checkpointInputCursor ELSE activeInputLeaseTo

\* makeId('input_lease'): an id no row carries.
FreshLease(l) == \A i \in Input : inputLease[i] # l

\* (mutant) the revision is taken from what the model has confirmed
ConfirmedRevision == checkpointInputCursor

\* synchronizeObjectiveRevision: the run's revision is the mailbox's next sequence.
DurableRevision == nextInputSequence

\* captureModelRequest records the revision the coordinator is bound to.
CapturedRevision == boundRevision

\* RuntimeAssembly.replayInputLeaseId
ReplayLease == activeInputLeaseId

\* (mutant) the executor does not remember a lease it has been given
LeaseForgotten(l) == None

\* pendingInputLeaseId = delivery.leaseId
LeaseHeld(l) == l

\* The durable request replayed by captureModelRequest becomes the checkpoint context.
ReplayedStep == activeModelRequestId

\* (mutant) the answer is bound to the newest revision, whoever has seen it
RevisionNow(r) == nextInputSequence

\* The objective revision an answer is bound to is the one its request has seen.
BoundTo(r) == stepRevision[r]

\* (mutant) a superseded answer is judged again instead of being asked for again
JudgeAgain == "settling"

\* Where a superseded answer leads: back to the model.
AfterSupersede == "looping"

\* (mutant) every open() opens the window
AlwaysOpen == TRUE

\* open() lets new input in unless the terminal claim is taken.
WindowOpens == terminalInputClaimId = None

\* The statuses recoverOrphanedRuns looks for.
OrphanStatuses == {"queued", "running"}

\* (bound) the model calls of a run are as many as Request has members; the code bounds
\* them by maxTurns per segment, the repair attempts and the Goal's rechecks.
TurnsExhausted == committedRequests = Request

\* revisionMatches: the request saw every input accepted so far and all are confirmed.
\* (The run's revision equals DurableRevision: the caller has just synchronised it.)
RevisionMatches(r) ==
    /\ nextInputSequence = BoundTo(r)
    /\ checkpointInputCursor = stepCursor[r]
    /\ activeInputLeaseId = None
    /\ terminalInputClaimId = None

\* checkpointCursorAfterCommit: what the cursor will be once the executor's lease is acked.
CursorAfterCommit ==
    IF pendingLease = None THEN checkpointInputCursor ELSE activeInputLeaseTo

\* What AgentsSdkCheckpointService.persist insists on: the active request is that of the
\* step, and the cursor after the commit is the one the step was built for.
CanCheckpoint ==
    /\ activeModelRequestId # None
    /\ activeModelRequestId = step
    /\ pendingLease # None => pendingLease = activeInputLeaseId
    /\ CursorAfterCommit = stepCursor[step]

At(place) == up /\ pc = place
Goto(place) == pc' = place

KeepDurable == UNCHANGED <<mailboxVars, stateVars, stepVars>>

\* The executor moves on without a durable effect.
Proceed(place) ==
    /\ Goto(place)
    /\ KeepDurable
    /\ UNCHANGED <<processVars, executorVars, failure>>

\* It throws: control goes to the catch block.
Throw(reason) ==
    /\ Goto("failing")
    /\ failure' = reason
    /\ KeepDurable
    /\ UNCHANGED <<processVars, executorVars>>

\* The catch block throws in its turn: the failure is logged and nothing is written.
LoseStatus ==
    /\ Goto("closing")
    /\ failure' = "unrecorded"
    /\ KeepDurable
    /\ UNCHANGED <<processVars, executorVars>>

\* It writes the run's status and moves on.
WriteStatus(s, place) ==
    /\ SaveRun(s)
    /\ Goto(place)
    /\ UNCHANGED <<stateVars, stepVars, processVars, executorVars, failure>>

------------------------------------------------------------------------------------
(* Starting, approving and resuming. *)

\* RunTaskManager.start and RunEngine.start for a queued run.
StartQueued ==
    /\ At("off")
    /\ status = "queued"
    /\ Goto("starting")
    /\ aborted' = FALSE
    /\ failure' = "none"
    /\ KeepDurable
    /\ UNCHANGED <<up, resuming, cancelling, accepting, unsynced, executorVars>>

\* run:resume, after assertRunCheckpointResumable.
Resume ==
    /\ At("off")
    /\ status = "interrupted"
    /\ ~approvalPending
    /\ sdkStateContentHash # None
    /\ Goto("starting")
    /\ resuming' = TRUE
    /\ aborted' = FALSE
    /\ failure' = "none"
    /\ KeepDurable
    /\ UNCHANGED <<up, cancelling, accepting, unsynced, executorVars>>

\* run:respond-decision and acceptApprovalDecision record the decision first ...
DecideApproval ==
    /\ At("off")
    /\ status = "waiting_approval"
    /\ approvalPending
    /\ approvalPending' = FALSE
    /\ Goto("approving")
    /\ UNCHANGED <<mailboxVars, objectiveRevision, savedFinal, stepVars, processVars,
                   executorVars, failure>>

\* ... and queue the run for its continuation in a second transaction.
QueueApproved ==
    /\ At("approving")
    /\ SaveRun("queued")
    /\ Goto("off")
    /\ resuming' = TRUE
    /\ UNCHANGED <<stateVars, stepVars, up, aborted, cancelling, accepting, unsynced,
                   executorVars, failure>>

\* updateRunStatus(runId, 'running')
MarkRunning ==
    /\ At("starting")
    /\ WriteStatus("running", "opening")

\* RunSteeringController.open: a recovery takes back a lease no request has bound, and
\* the objective revision catches up with what was accepted before a crash.
OpenSteering ==
    /\ At("opening")
    /\ ~unsynced
    /\ LET refused == status # "running" \/ (~resuming /\ activeInputLeaseId # None) IN
       \/ refused /\ Throw("steering")
       \/ /\ ~refused
          /\ \/ RequeueLeasedRunInputs
             \/ /\ activeInputLeaseId = None \/ ~NotYetIncluded
                /\ UNCHANGED mailboxVars
          /\ objectiveRevision' = DurableRevision
          /\ accepting' = WindowOpens
          /\ Goto("assembling")
          /\ UNCHANGED <<approvalPending, savedFinal, stepVars, up, resuming, aborted,
                         cancelling, unsynced, executorVars, failure>>

\* createRuntimeAssembly, then checkpoints.restore and checkpointContext.adopt: the new
\* coordinator is bound to the run's revision and may not fall back to the step's.
Assemble ==
    /\ At("assembling")
    /\ LET restores == resuming /\ sdkStateContentHash # None
           regresses == restores /\ stepRevision[sdkStateContentHash] < objectiveRevision IN
       \/ regresses /\ Throw("revision")
       \/ /\ ~regresses
          /\ boundRevision' = objectiveRevision
          /\ pendingLease' = ReplayLease
          /\ restored' = restores
          /\ step' = IF restores THEN sdkStateContentHash ELSE None
          /\ candidate' = None
          /\ Goto("replaying")
          /\ KeepDurable
          /\ UNCHANGED <<processVars, firstCall, failure>>

\* replayIncludedInputs, when the assembly found a lease that a request already carries.
Replay ==
    /\ At("replaying")
    /\ ~unsynced
    /\ LET regresses == /\ pendingLease # None
                        /\ stepRevision[activeModelRequestId] < boundRevision IN
       \/ regresses /\ Throw("revision")
       \/ ~regresses /\ Proceed("looping")

------------------------------------------------------------------------------------
(* One model call. *)

\* consumePendingWithRevision: lease what is queued and bind the coordinator to the
\* revision; the executor goes to one place when there was nothing, to another otherwise.
Consume(whenNothing, whenLeased) ==
    /\ ~unsynced
    /\ objectiveRevision' = DurableRevision
    /\ boundRevision' = DurableRevision
    /\ \/ /\ QueuedRows = {}
          /\ pendingLease' = None
          /\ Goto(whenNothing)
          /\ UNCHANGED mailboxVars
       \/ \E l \in Lease :
            /\ FreshLease(l)
            /\ LeaseRunInputs(l)
            /\ pendingLease' = LeaseHeld(l)
            /\ Goto(whenLeased)

\* The top of the executor loop, before every segment.
LoopTop ==
    /\ At("looping")
    /\ firstCall' = TRUE
    /\ \/ /\ pendingLease # None
          /\ Goto("capturing")
          /\ UNCHANGED <<mailboxVars, objectiveRevision, boundRevision, pendingLease>>
       \/ /\ pendingLease = None
          /\ Consume("capturing", "capturing")
    /\ UNCHANGED <<approvalPending, savedFinal, stepVars, processVars, restored, step,
                   candidate, failure>>

\* The SDK finds that a restored state already holds its final output, and may return it
\* without calling the model.
ReturnRestoredOutput ==
    /\ At("capturing")
    /\ restored /\ savedFinal
    /\ pendingLease = None
    /\ Proceed("finishing")

\* captureModelRequest: replay the durable active request, or record a step context and
\* commit a new request with the open lease. (A replayed request was built for the cursor
\* the assembly read: a lease opened since then has also raised boundRevision.)
Capture ==
    /\ At("capturing")
    /\ \/ /\ activeModelRequestId # None
          /\ stepRevision[activeModelRequestId] < boundRevision
          /\ Throw("revision")
       \/ /\ activeModelRequestId # None
          /\ stepRevision[activeModelRequestId] >= boundRevision
          /\ boundRevision' = stepRevision[activeModelRequestId]
          /\ step' = ReplayedStep
          /\ restored' = FALSE
          /\ Goto("baseline")
          /\ KeepDurable
          /\ UNCHANGED <<processVars, pendingLease, firstCall, candidate, failure>>
       \/ /\ activeModelRequestId = None
          /\ ~AcceptsInput
          /\ Throw("terminal")
       \/ /\ activeModelRequestId = None
          /\ TurnsExhausted
          /\ Throw("turns")
       \/ \E r \in Request \ committedRequests :
            /\ \A q \in Request \ committedRequests : r <= q
            /\ CommitModelRequest(r)
            /\ stepRevision' = [stepRevision EXCEPT ![r] = CapturedRevision]
            /\ stepCursor' = [stepCursor EXCEPT ![r] = ModelInputCursor]
            /\ step' = r
            /\ restored' = FALSE
            /\ Goto("baseline")
            /\ UNCHANGED <<stateVars, processVars, boundRevision, pendingLease, firstCall,
                           candidate, failure>>

\* The checkpoint listener: the first call of a segment without pending input saves a
\* baseline before the provider is asked. It does not close the request.
SaveBaseline ==
    /\ At("baseline")
    /\ IF firstCall /\ pendingLease = None
       THEN CanCheckpoint /\ SaveAgentsSdkCheckpoint(None, step) /\ savedFinal' = FALSE
       ELSE UNCHANGED <<mailboxVars, savedFinal>>
    /\ Goto("provider")
    /\ UNCHANGED <<objectiveRevision, approvalPending, stepVars, processVars, executorVars,
                   failure>>

\* The model answers: the SDK runs its tools and calls again, or the segment ends.
ProviderAnswers ==
    /\ At("provider")
    /\ Proceed("filtering") \/ Proceed("finishing")

\* checkpointCurrentState(state, step, true): close the request, acknowledge its lease.
CheckpointStep(place) ==
    \/ ~CanCheckpoint /\ Throw("request")
    \/ /\ CanCheckpoint
       /\ IF pendingLease # None
          THEN AckInputLease(pendingLease, step, step)
          ELSE SaveAgentsSdkCheckpoint(step, step)
       /\ pendingLease' = None
       /\ firstCall' = FALSE
       /\ savedFinal' \in (IF place = "settling" THEN BOOLEAN ELSE {FALSE})
       /\ Goto(place)
       /\ UNCHANGED <<objectiveRevision, approvalPending, stepVars, processVars,
                      boundRevision, restored, step, candidate, failure>>

\* callModelInputFilter, second and later calls: confirm the answered request first ...
FilterCheckpoint ==
    /\ At("filtering")
    /\ CheckpointStep("consuming")

\* ... then take new input. None: the segment goes on. Some: it is rotated.
FilterConsume ==
    /\ At("consuming")
    /\ Consume("capturing", "looping")
    /\ UNCHANGED <<approvalPending, savedFinal, stepVars, processVars, restored, firstCall,
                   step, candidate, failure>>

\* The segment has ended; its last response is complete unless the signal is set.
FinalCheckpoint ==
    /\ At("finishing")
    /\ \/ aborted /\ Throw("aborted")
       \/ ~aborted /\ CheckpointStep("settling")

------------------------------------------------------------------------------------
(* Settling the answer. *)

\* The segment ended in tool calls that need approval: RuntimeApprovalPersistence.persist
\* records the approvals in the run's state ...
RequestApproval ==
    /\ At("settling")
    /\ ~savedFinal
    /\ approvalPending' = TRUE
    /\ Goto("suspending")
    /\ UNCHANGED <<mailboxVars, objectiveRevision, savedFinal, stepVars, processVars,
                   executorVars, failure>>

\* ... and then its status.
WaitForApproval ==
    /\ At("suspending")
    /\ WriteStatus("waiting_approval", "finalized")

\* modelInputRevisionSnapshot and evaluateTerminalCandidateState: bind the answer to the
\* newest request, drop it when an input has arrived since.
BindCandidate ==
    /\ At("settling")
    /\ savedFinal
    /\ ~unsynced
    /\ objectiveRevision' = DurableRevision
    /\ candidate' = NewestRequest
    /\ Goto(IF RevisionMatches(NewestRequest) THEN "judging" ELSE AfterSupersede)
    /\ UNCHANGED <<mailboxVars, approvalPending, savedFinal, stepVars, processVars,
                   boundRevision, pendingLease, restored, firstCall, step, failure>>

\* A repair instruction, a Goal recheck, or a Goal evaluation superseded by new input.
ContinueAfterJudging ==
    /\ At("judging")
    /\ Proceed("looping")

\* RunSteeringController.tryClaimTerminal. The answer completes the run, asks the user a
\* question, or ends it as rejected, exhausted or impossible; an input that arrived while
\* it was judged, or a cancellation, supersedes it.
ClaimTerminal ==
    /\ At("judging")
    /\ ~unsynced
    /\ objectiveRevision' = DurableRevision
    /\ \/ /\ RevisionMatches(candidate)
          /\ \E k \in Claim :
               TryClaimTerminalInput(k, BoundTo(candidate), stepCursor[candidate])
          /\ accepting' = FALSE
          /\ \E place \in {"completing", "clarifying", "rejecting"} : Goto(place)
       \/ /\ ~RevisionMatches(candidate) \/ status # "running"
          /\ Goto(AfterSupersede)
          /\ UNCHANGED <<mailboxVars, accepting>>
    /\ UNCHANGED <<approvalPending, savedFinal, stepVars, up, resuming, aborted, cancelling,
                   unsynced, executorVars, failure>>

\* TurnFinalizer.complete
Complete ==
    /\ At("completing")
    /\ WriteStatus("completed", "finalized")

AskClarification ==
    /\ At("clarifying")
    /\ WriteStatus("clarification_needed", "finalized")

RejectAnswer ==
    /\ At("rejecting")
    /\ Throw("rejected")

\* The catch block: TurnFinalizer.cancel or TurnFinalizer.fail. They flush the event and
\* item buffers before the status, and a buffer keeps its first error: either may be cut
\* short of its status.
FinishFailed ==
    /\ At("failing")
    /\ \/ WriteStatus(IF aborted THEN "cancelled" ELSE "failed", "closing")
       \/ LoseStatus

\* The finally block: steering.close and execution.close.
CloseExecution ==
    /\ At("closing") \/ At("finalized")
    /\ ~unsynced
    /\ accepting' = FALSE
    /\ resuming' = FALSE
    /\ Goto("off")
    /\ pendingLease' = None
    /\ restored' = FALSE
    /\ step' = None
    /\ candidate' = None
    /\ KeepDurable
    /\ UNCHANGED <<up, aborted, cancelling, unsynced, boundRevision, firstCall, failure>>

\* Whatever the executor awaits may throw: the provider, a tool, the database, or, once
\* the signal is set, the provider stream; also after the last status was committed.
ExecutorThrows ==
    /\ up /\ pc \in Executing
    /\ Throw("external")

------------------------------------------------------------------------------------
(* The outside world. *)

\* RunSteeringController.enqueue, up to its transaction ...
Steer(i) ==
    /\ up /\ accepting /\ ~unsynced
    /\ EnqueueRunInput(i)
    /\ unsynced' = TRUE
    /\ UNCHANGED <<pc, stateVars, stepVars, up, resuming, aborted, cancelling, accepting,
                   executorVars, failure>>

\* ... and its synchronizeObjectiveRevision.
SyncRevision ==
    /\ up /\ unsynced
    /\ objectiveRevision' = DurableRevision
    /\ unsynced' = FALSE
    /\ UNCHANGED <<mailboxVars, pc, approvalPending, savedFinal, stepVars, up, resuming,
                   aborted, cancelling, accepting, executorVars, failure>>

\* AgentRuntime.cancel needs an active execution, and aborts it at once ... (bound: at most
\* one cancellation is in flight)
Cancel ==
    /\ up /\ pc \in Active /\ ~cancelling
    /\ aborted' = TRUE
    /\ cancelling' = TRUE
    /\ KeepDurable
    /\ UNCHANGED <<pc, up, resuming, accepting, unsynced, executorVars, failure>>

\* ... and writes the status later, whatever the executor wrote in between.
WriteCancelled ==
    /\ up /\ cancelling
    /\ SaveRun("cancelled")
    /\ cancelling' = FALSE
    /\ UNCHANGED <<pc, stateVars, stepVars, up, resuming, aborted, accepting, unsynced,
                   executorVars, failure>>

\* The process dies: everything in memory is gone.
Crash ==
    /\ up
    /\ up' = FALSE
    /\ pc' = "off"
    /\ resuming' = FALSE
    /\ aborted' = FALSE
    /\ cancelling' = FALSE
    /\ accepting' = FALSE
    /\ unsynced' = FALSE
    /\ boundRevision' = 0
    /\ pendingLease' = None
    /\ restored' = FALSE
    /\ firstCall' = TRUE
    /\ step' = None
    /\ candidate' = None
    /\ failure' = "none"
    /\ KeepDurable

\* RunStore.recoverOrphanedRuns at the next start; tool calls whose outcome is unknown
\* (not modelled here) make the run need a human instead.
Recover ==
    /\ ~up
    /\ up' = TRUE
    /\ \/ /\ status \in OrphanStatuses
          /\ SaveRun("interrupted") \/ SaveRun("requires_action")
       \/ /\ status \notin OrphanStatuses
          /\ UNCHANGED mailboxVars
    /\ UNCHANGED <<pc, stateVars, stepVars, resuming, aborted, cancelling, accepting,
                   unsynced, executorVars, failure>>

Executor ==
    \/ StartQueued \/ QueueApproved \/ MarkRunning \/ OpenSteering \/ Assemble \/ Replay
    \/ LoopTop \/ ReturnRestoredOutput \/ Capture \/ SaveBaseline \/ ProviderAnswers
    \/ FilterCheckpoint \/ FilterConsume \/ FinalCheckpoint
    \/ RequestApproval \/ WaitForApproval \/ BindCandidate \/ ContinueAfterJudging
    \/ ClaimTerminal \/ Complete \/ AskClarification \/ RejectAnswer
    \/ FinishFailed \/ CloseExecution

RunNext ==
    \/ Executor
    \/ ExecutorThrows
    \/ Resume
    \/ DecideApproval
    \/ \E i \in Input : Steer(i)
    \/ SyncRevision
    \/ Cancel
    \/ WriteCancelled
    \/ Crash
    \/ Recover

RunSpec == RunInit /\ [][RunNext]_vars

(* What is started goes on: an await settles (model calls and tools have time limits, the *)
(* database answers or throws), the steering queue runs its tasks, and the service        *)
(* manager restarts a dead process. Nothing makes a user steer, cancel, approve or resume.*)
Fairness ==
    /\ WF_vars(Executor)
    /\ WF_vars(SyncRevision)
    /\ WF_vars(WriteCancelled)
    /\ WF_vars(Recover)

FairRunSpec == RunSpec /\ Fairness

------------------------------------------------------------------------------------
(* Safety. *)

\* The terminal claim means what it says: from then on every accepted input has been
\* confirmed by a checkpoint, the newest request was built from all of them and is closed,
\* so the answer it settles was given in sight of everything the user had said
\* (evaluateTerminalCandidateState, tryClaimTerminal and the two revision checks on the way).
ClaimMeansAnswered ==
    terminalInputClaimId # None
      => /\ Accepted = RowsWithStatus({"checkpointed"})
         /\ stepCursor[NewestRequest] = nextInputSequence - 1
         /\ activeModelRequestId = None

\* A run is reported complete, or its question put to the user, only with the claim in
\* hand: no interleaving of steering, cancelling, crashing and resuming delivers an answer
\* that lost the claim or never asked for it.
OnlyClaimedAnswersAreDelivered ==
    status \in {"completed", "clarification_needed"} => terminalInputClaimId # None

\* The revision and the cursor a step context records come from two sources, the
\* coordinator in memory and the mailbox, read at different moments; they always describe
\* the same set of inputs, although inputs arrive between the two reads.
StepDescribesOneInputSet ==
    \A r \in committedRequests : stepRevision[r] = stepCursor[r] + 1

\* From the end of the assembly on, the executor holds in memory exactly the lease that is
\* open in the database, across recovery, rotation and acknowledgement: no lease is
\* acknowledged blindly or left behind.
ExecutorHoldsTheOpenLease ==
    pc \in Executing \ {"starting", "opening", "assembling"} => pendingLease = activeInputLeaseId

\* While the provider works, the checkpoint context is the active request's, and every
\* input in delivery is an input of that request: what the checkpoint will acknowledge is
\* what the model was asked.
ProviderAnswersTheActiveRequest ==
    pc \in {"baseline", "provider", "filtering"}
      => /\ step = activeModelRequestId
         /\ \A i \in RowsWithStatus({"leased", "included"}) : inputRequest[i] = step

\* The run's objective revision never runs ahead of the mailbox (the error
\* synchronizeObjectiveRevision throws for), and while the window is open it lags only
\* inside an enqueue.
RevisionFollowsMailbox ==
    /\ objectiveRevision <= nextInputSequence
    /\ accepting /\ ~unsynced => objectiveRevision = nextInputSequence

\* The window in memory and the claim in the database never contradict each other: the
\* controller accepts input only for an active execution whose answer is not claimed.
WindowAgreesWithClaim ==
    /\ accepting => terminalInputClaimId = None
    /\ accepting \/ unsynced => pc \in Active

\* From the end of the assembly to the acknowledgement the executor, its step context and
\* the provider's request follow the one lease that is open, through recovery, rotation,
\* compaction and late input.
ExecutorFollowsLease ==
    /\ ExecutorHoldsTheOpenLease
    /\ StepDescribesOneInputSet
    /\ ProviderAnswersTheActiveRequest

\* What the steering controller keeps in memory agrees with the mailbox in the database: no
\* input is accepted that the executor will not see.
SteeringWindowAgrees ==
    /\ RevisionFollowsMailbox
    /\ WindowAgreesWithClaim

\* An answer that reaches the user was given in sight of every input accepted by then,
\* whatever steering, cancelling, crashing and resuming came in between.
DeliveredAnswersSawEveryInput ==
    /\ ClaimMeansAnswered
    /\ OnlyClaimedAnswersAreDelivered

(* Liveness, under Fairness. *)

\* Every execution ends: rotation, repair, supersession and recovery do not chase each
\* other for ever, and no wait of the executor on the steering queue is endless. And a run
\* stays running without an executor only when the last write of its execution failed too,
\* and then for no longer than the process lives: a crash anywhere leaves a status that the
\* next start turns into one a user can act on.
RunsComeToAnEnd ==
    /\ pc \in Active ~> pc = "off"
    /\ status = "running" ~> (status = "running" => At("off") /\ failure = "unrecorded")

------------------------------------------------------------------------------------
(* What comments and tests of the program say and the code does not do: each of these is  *)
(* violated when it is added to MCRunExecution.cfg (README, section 6).                    *)

\* "Recovery ... must put the same batch back ... and the ModelRequest journal replays the
\* provider request": a recovery that finds included inputs is not stopped by the revision
\* check of the coordinator.
RecoveryReplaysIncludedInputs ==
    failure = "revision" => RowsWithStatus({"included"}) = {}

\* "A terminal run must not be rewritten": no later write replaces a terminal status.
TerminalStatusIsFinal ==
    [][(status \in {"completed", "failed", "cancelled"}) => UNCHANGED status]_vars

\* "Left-over queued and running runs become recoverable": resuming a run interrupted
\* between its claim and its final status does not fail for want of a model request.
ClaimedRunResumes ==
    terminalInputClaimId # None /\ status = "running"
      => failure \notin {"terminal", "request"}

\* "Left-over queued and running runs become recoverable": an interrupted run has no
\* pending approval, for which it could be neither resumed nor answered.
InterruptedRunHasNoPendingApproval ==
    status = "interrupted" => ~approvalPending

\* "start() already owns run failure persistence and snapshot emission": a run whose
\* execution has ended under a living process is not left running.
EndedRunIsRecorded ==
    At("off") => status # "running"

\* "The same decision can be retried safely" after its approval was recorded and before
\* the continuation started: a waiting run with nobody at work on it can still be answered.
DecisionCanBeRetried ==
    At("off") /\ status = "waiting_approval" => approvalPending
====================================================================================
