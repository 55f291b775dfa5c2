---------------------------- MODULE ToolInvocationLedger ----------------------------
(***************************************************************************)
(* The tool calls of one run: the durable ledger that records each call    *)
(* before its side effect and its result after it, the list of calls whose *)
(* results no SDK checkpoint holds yet, approval, cancellation, crashes of *)
(* the process, and what may be resumed afterwards. The point of it all is *)
(* that a side effect whose result is not known is never repeated.         *)
(*                                                                         *)
(* A call goes one of four routes. A platform call is executed by the      *)
(* ToolExecutionCoordinator, which writes the ledger around the effect. An *)
(* inner call does the same inside a sub-agent, itself a call. The SDK     *)
(* executes an extension call (MCP, sandbox) on its own; the ledger learns *)
(* of it from the events of the stream, which TranscriptProjector handles  *)
(* one by one, behind the execution.                                       *)
(*                                                                         *)
(* Input delivery and the terminal claim are in RunExecution; here a run   *)
(* is a loop of model responses, tools and checkpoints.                    *)
(***************************************************************************)
EXTENDS Naturals, Sequences, FiniteSets

CONSTANTS
    PlatformCall,   \* calls of platform tools
    ExtensionCall,  \* calls of MCP and sandbox tools
    AgentCall,      \* calls of sub-agents as tools
    InnerCall,      \* platform calls made by a sub-agent
    OuterOf,        \* the call of the sub-agent that makes an inner call
    Guarded,        \* calls the approval policy wants a decision for
    MaxTopCalls     \* (bound) calls the model makes itself

TopCall == PlatformCall \cup ExtensionCall \cup AgentCall
Call == TopCall \cup InnerCall

\* The four routes exclude one another, and every inner call belongs to a sub-agent.
ASSUME RouteAssumption ==
    /\ PlatformCall \cap ExtensionCall = {}
    /\ AgentCall \cap (PlatformCall \cup ExtensionCall) = {}
    /\ InnerCall \cap TopCall = {}
    /\ OuterOf \in [InnerCall -> AgentCall]

\* (bound) One call at most needs approval, so a run never waits for two decisions at once.
ASSUME GuardAssumption ==
    /\ Guarded \subseteq Call
    /\ \A c, d \in Guarded : c = d

VARIABLES
    invocationStatus,    \* status of a row of platform_tool_invocations, "absent" = no row
    terminalOutcome,     \* its terminalOutcome, "none" = null
    started,             \* its runningAt is set
    pendingToolCallIds,  \* calls the run's checkpoint says are unresolved
    recoveryStatus,      \* the run checkpoint's recoveryStatus
    runStatus,           \* the run's status
    decision,            \* the approval record of a guarded call
    hasCheckpoint,       \* an SDK state has been saved
    savedCalls,          \* calls whose outputs the saved SDK state holds
    savedInterruptions,  \* calls the saved SDK state is suspended at
    up,                  \* the server process is alive
    phase,               \* where the executor of the run is; "unrecorded": it has ended, and
                         \* its last status could not be written
    after,               \* where it goes after the checkpoint under way
    aborted,             \* the execution's AbortSignal
    batch,               \* calls of the response being worked on
    task,                \* where the execution of a call is
    outputs,             \* calls whose outputs the live SDK state holds
    terminalRead,        \* what checkpointTerminalCallIds has returned
    stream,              \* events the projector has not handled yet
    effects              \* how often a call's side effect has happened; (bound) 2 is twice or more

ledgerVars == <<invocationStatus, terminalOutcome, started>>
pendingVars == <<pendingToolCallIds, recoveryStatus>>
savedVars == <<hasCheckpoint, savedCalls, savedInterruptions>>
executorVars == <<phase, after, aborted, batch, outputs, terminalRead>>

vars == <<ledgerVars, pendingVars, runStatus, decision, savedVars, up, executorVars, task,
          stream, effects>>

Outcome == {"succeeded", "failed", "rejected"}  \* "failed" stands for "aborted" as well
Event == {"called", "output"} \X (ExtensionCall \cup AgentCall)

\* platform_tool_invocations_state_check: the columns of a row that go with its status.
RowStateCheck(c) ==
    /\ invocationStatus[c] \in {"absent", "prepared"} => ~started[c] /\ terminalOutcome[c] = "none"
    /\ invocationStatus[c] = "running" => started[c] /\ terminalOutcome[c] = "none"
    /\ invocationStatus[c] \in Outcome => terminalOutcome[c] = invocationStatus[c]
    /\ invocationStatus[c] = "checkpointed" => terminalOutcome[c] # "none"
    /\ terminalOutcome[c] = "succeeded" => started[c]

\* Types, and the checks of the database.
LedgerTypeOK ==
    /\ \A c \in Call : RowStateCheck(c)
    /\ invocationStatus \in
         [Call -> {"absent", "prepared", "running", "checkpointed"} \cup Outcome]
    /\ terminalOutcome \in [Call -> Outcome \cup {"none"}]
    /\ started \in [Call -> BOOLEAN]
    /\ {pendingToolCallIds, savedCalls, savedInterruptions, batch, outputs, terminalRead}
         \subseteq SUBSET Call
    /\ recoveryStatus \in {"clean", "requires_action", "interrupted"}
    /\ runStatus \in {"queued", "running", "waiting_approval", "completed", "failed",
                      "cancelled", "interrupted", "requires_action"}
    /\ decision \in [Guarded -> {"none", "pending", "approved", "rejected"}]
    /\ {hasCheckpoint, up, aborted} \subseteq BOOLEAN
    /\ phase \in {"off", "model", "tools", "reading", "saving", "suspending", "delivering",
                  "unrecorded"}
    /\ after \in {"model", "suspending", "delivering"}
    /\ task \in [Call -> {"none", "called", "prepared", "started", "executed", "settling",
                          "held", "done"}]
    /\ stream \in Seq(Event)
    /\ effects \in [Call -> 0 .. 2]

LedgerInit ==
    /\ invocationStatus = [c \in Call |-> "absent"]
    /\ terminalOutcome = [c \in Call |-> "none"]
    /\ started = [c \in Call |-> FALSE]
    /\ pendingToolCallIds = {}
    /\ recoveryStatus = "clean"
    /\ runStatus = "queued"
    /\ decision = [c \in Guarded |-> "none"]
    /\ hasCheckpoint = FALSE
    /\ savedCalls = {}
    /\ savedInterruptions = {}
    /\ up = TRUE
    /\ phase = "off"
    /\ after = "model"
    /\ aborted = FALSE
    /\ batch = {}
    /\ task = [c \in Call |-> "none"]
    /\ outputs = {}
    /\ terminalRead = {}
    /\ stream = <<>>
    /\ effects = [c \in Call |-> 0]

-------------------------------------------------------------------------------------
(* The rows of the ledger. An operator marked (mutant) is a wrong form of the          *)
(* definition that follows it.                                                         *)

HasStatus(c, statuses) == invocationStatus[c] \in statuses

\* A call needs a decision it has not got.
\* (mutant) only a decision the user has been asked for holds a call up
HeldOnceAsked(c) == c \in Guarded /\ decision[c] = "pending"
NeedsApproval(c) == c \in Guarded /\ decision[c] # "approved"

Refused(c) == c \in Guarded /\ decision[c] = "rejected"

\* The terminal of an inner call is confirmed at once: no checkpoint will hold its output.
\* (mutant) every terminal is confirmed at once
AlwaysImmediate(c) == TRUE
Immediate(c) == c \in InnerCall

\* The recovery status that goes with a list of unresolved calls.
RecoveryFor(pending) == IF pending = {} THEN "clean" ELSE "requires_action"

\* addPendingCall, which leaves a call already listed alone.
\* (mutant) starting a call does not register it
AddNothing(c) == UNCHANGED pendingVars
AddPendingCall(c) ==
    \/ c \in pendingToolCallIds /\ UNCHANGED pendingVars
    \/ /\ c \notin pendingToolCallIds
       /\ pendingToolCallIds' = pendingToolCallIds \cup {c}
       /\ recoveryStatus' = "requires_action"

\* removePendingCall
RemovePendingCall(c) ==
    \/ c \notin pendingToolCallIds /\ UNCHANGED pendingVars
    \/ /\ c \in pendingToolCallIds
       /\ pendingToolCallIds' = pendingToolCallIds \ {c}
       /\ recoveryStatus' = RecoveryFor(pendingToolCallIds \ {c})

\* prepareToolInvocation: a repeated preparation finds the row it made.
PrepareRow(c) ==
    /\ invocationStatus' = IF HasStatus(c, {"absent"})
                           THEN [invocationStatus EXCEPT ![c] = "prepared"]
                           ELSE invocationStatus
    /\ UNCHANGED <<terminalOutcome, started, pendingVars>>

\* startToolInvocation: a repeated start finds the row running.
StartRow(c) ==
    \/ HasStatus(c, {"running"}) /\ UNCHANGED <<ledgerVars, pendingVars>>
    \/ /\ HasStatus(c, {"prepared"})
       /\ invocationStatus' = [invocationStatus EXCEPT ![c] = "running"]
       /\ started' = [started EXCEPT ![c] = TRUE]
       /\ AddPendingCall(c)
       /\ UNCHANGED terminalOutcome

\* terminateToolInvocation
TerminateRow(c, outcome) ==
    /\ HasStatus(c, IF outcome = "rejected" THEN {"prepared", "running"} ELSE {"running"})
    /\ invocationStatus' =
         [invocationStatus EXCEPT ![c] = IF Immediate(c) THEN "checkpointed" ELSE outcome]
    /\ terminalOutcome' = [terminalOutcome EXCEPT ![c] = outcome]
    /\ IF Immediate(c) THEN RemovePendingCall(c) ELSE UNCHANGED pendingVars
    /\ UNCHANGED started

\* A commit that does not change the list appends no checkpoint event, so the row it writes
\* must agree with the run's snapshot as it is.
CommitAgrees(c) == Immediate(c) \/ recoveryStatus = RecoveryFor(pendingToolCallIds)

TaskAt(c, place) == up /\ task[c] = place
TaskTo(c, place) == task' = [task EXCEPT ![c] = place]
KeepLedger == UNCHANGED <<ledgerVars, pendingVars>>
KeepRun == UNCHANGED <<runStatus, decision, savedVars, up, executorVars>>

HaveEffect(c) == effects' = [effects EXCEPT ![c] = IF @ = 2 THEN 2 ELSE @ + 1]

\* No execution of the run is active.
Ended == phase \in {"off", "unrecorded"}

\* An inner call goes on while its sub-agent does.
Runs(c) == c \in InnerCall => task[OuterOf[c]] = "started"

-------------------------------------------------------------------------------------
(* Execution of a call.                                                                *)

\* needsApproval and prepare: the row comes first; a call awaiting a decision is held up.
Prepare(c) ==
    /\ TaskAt(c, "called") /\ Runs(c)
    /\ ~Refused(c)
    /\ PrepareRow(c)
    /\ TaskTo(c, IF NeedsApproval(c) THEN "held" ELSE "prepared")
    /\ KeepRun
    /\ UNCHANGED <<stream, effects>>

\* ToolExecutionCoordinator.execute up to ledger.start, and beginExternalAgentStep. The
\* signal stops it outright; the policy, the workflow and the approval service may refuse.
Start(c) ==
    /\ c \notin ExtensionCall
    /\ TaskAt(c, "prepared") /\ Runs(c)
    /\ \/ c \notin AgentCall /\ aborted /\ KeepLedger /\ TaskTo(c, "done")
       \/ ~aborted /\ KeepLedger /\ TaskTo(c, "settling")
       \/ ~aborted /\ StartRow(c) /\ TaskTo(c, "started")
    /\ KeepRun
    /\ UNCHANGED <<stream, effects>>

\* The tool works; one that throws may have had its effect or not.
RunTool(c) ==
    /\ c \in PlatformCall \cup InnerCall
    /\ TaskAt(c, "started") /\ Runs(c)
    /\ \/ HaveEffect(c) /\ TaskTo(c, "executed")
       \/ HaveEffect(c) /\ TaskTo(c, "settling")
       \/ UNCHANGED effects /\ TaskTo(c, "settling")
    /\ KeepLedger /\ KeepRun
    /\ UNCHANGED stream

\* ToolEffectCommitter.commit: the terminal, the result and the run in one transaction. It
\* may fail, and the answer of a transaction that did not may be lost.
Commit(c) ==
    /\ TaskAt(c, "executed") /\ Runs(c)
    /\ \/ /\ HasStatus(c, {"running"})
          /\ CommitAgrees(c)
          /\ TerminateRow(c, "succeeded")
          /\ TaskTo(c, "done") \/ TaskTo(c, "settling")
       \/ KeepLedger /\ TaskTo(c, "settling")
    /\ KeepRun
    /\ UNCHANGED <<stream, effects>>

\* The catch block settles a call that has no terminal; that may fail, too. The model is
\* told of the error.
Settle(c) ==
    /\ TaskAt(c, "settling") /\ Runs(c)
    /\ \/ KeepLedger
       \/ HasStatus(c, {"prepared"}) /\ TerminateRow(c, "rejected")
       \/ HasStatus(c, {"running"}) /\ TerminateRow(c, "failed")
    /\ TaskTo(c, "done")
    /\ KeepRun
    /\ UNCHANGED <<stream, effects>>

\* A sub-agent calls a tool of its own.
CallInner(c) ==
    /\ c \in InnerCall
    /\ TaskAt(c, "none") /\ Runs(c)
    /\ HasStatus(c, {"absent"})
    /\ TaskTo(c, "called")
    /\ KeepLedger /\ KeepRun
    /\ UNCHANGED <<stream, effects>>

\* A sub-agent returns, or is held up by a call of its own.
FinishAgent(c) ==
    /\ c \in AgentCall
    /\ TaskAt(c, "started")
    /\ LET inner == { i \in InnerCall : OuterOf[i] = c }
           held == \E i \in inner : task[i] = "held" IN
       /\ \A i \in inner : task[i] \in {"none", "held", "done"}
       /\ TaskTo(c, IF held THEN "held" ELSE "done")
       /\ stream' = IF held \/ Ended THEN stream ELSE Append(stream, <<"output", c>>)
    /\ KeepLedger /\ KeepRun
    /\ UNCHANGED effects

\* The SDK invokes an MCP or sandbox tool as soon as its approval allows.
InvokeExtension(c) ==
    /\ c \in ExtensionCall
    /\ TaskAt(c, "prepared")
    /\ HaveEffect(c) \/ UNCHANGED effects
    /\ TaskTo(c, "done")
    /\ stream' = IF Ended THEN stream ELSE Append(stream, <<"output", c>>)
    /\ KeepLedger /\ KeepRun

-------------------------------------------------------------------------------------
(* The events of the stream.                                                           *)

\* The head of the stream is a call the SDK has made: markSdkToolCallPending prepares the
\* row unless the approval hook has, then starts it unless it awaits a decision.
ProjectCalled(c) ==
    /\ up /\ stream # <<>> /\ Head(stream) = <<"called", c>>
    /\ \/ HasStatus(c, {"absent"}) /\ PrepareRow(c) /\ UNCHANGED stream
       \/ /\ HasStatus(c, {"prepared"}) /\ NeedsApproval(c)
          /\ KeepLedger
          /\ stream' = Tail(stream)
       \/ /\ ~NeedsApproval(c)
          /\ StartRow(c)
          /\ stream' = Tail(stream)
    /\ KeepRun
    /\ UNCHANGED <<task, effects>>

\* The head is an output: markSdkToolCallTerminal starts a row still prepared (a call
\* approved after its event had passed), then terminates it.
ProjectOutput(c) ==
    /\ up /\ stream # <<>> /\ Head(stream) = <<"output", c>>
    /\ \/ HasStatus(c, {"prepared"}) /\ StartRow(c) /\ UNCHANGED stream
       \/ /\ HasStatus(c, {"running"})
          /\ TerminateRow(c, "succeeded") \/ TerminateRow(c, "failed")
          /\ stream' = Tail(stream)
       \/ /\ ~HasStatus(c, {"prepared", "running"})
          /\ KeepLedger
          /\ stream' = Tail(stream)
    /\ KeepRun
    /\ UNCHANGED <<task, effects>>

-------------------------------------------------------------------------------------
(* The executor of the run.                                                            *)

Goto(place) == phase' = place

\* saveRunWithCheckpoint: a status and the recovery status that goes with it.
WriteStatus(status, recovery) ==
    /\ runStatus' = status
    /\ recoveryStatus' = recovery
    /\ UNCHANGED pendingToolCallIds

\* The catch block of an execution writes its last status, after flushing buffers that keep
\* their first error: it may throw before it does, which is logged and nothing more.
EndInFailure ==
    \/ /\ WriteStatus(IF aborted THEN "cancelled" ELSE "failed", "clean")
       /\ Goto("off")
    \/ /\ UNCHANGED <<runStatus, pendingVars>>
       /\ Goto("unrecorded")

\* An execution begins with the saved state: the calls it is suspended at come up again, but
\* for the refused ones, whose rows rejectToolApproval terminates unless it has before. An
\* open input lease leaves out the baseline checkpoint.
Execute(refused) ==
    /\ WriteStatus("running", "clean")
    /\ LET rejectedNow == { c \in refused : terminalOutcome[c] = "none" } IN
       /\ invocationStatus' = [c \in Call |-> IF c \in rejectedNow THEN "rejected"
                                             ELSE invocationStatus[c]]
       /\ terminalOutcome' = [c \in Call |-> IF c \in rejectedNow THEN "rejected"
                                            ELSE terminalOutcome[c]]
    /\ task' = [c \in Call |-> IF c \in refused THEN "done"
                              ELSE IF c \in savedInterruptions THEN "called" ELSE "none"]
    /\ batch' = savedInterruptions \cap TopCall
    /\ IF savedInterruptions # {} THEN Goto("tools") ELSE Goto("reading") \/ Goto("model")
    /\ outputs' = savedCalls
    /\ after' = "model"
    /\ aborted' = FALSE
    /\ terminalRead' = {}
    /\ stream' = <<>>
    /\ UNCHANGED <<started, decision, savedVars, up, effects>>

\* A new run, or continueApprovalDecision, which tells the SDK of a refusal.
StartQueued ==
    /\ up /\ phase = "off"
    /\ runStatus = "queued"
    /\ Execute({ c \in savedInterruptions : Refused(c) })

\* assertRunCheckpointResumable
Resumable ==
    /\ runStatus = "interrupted"
    /\ recoveryStatus = "interrupted"
    /\ pendingToolCallIds = {}
    /\ hasCheckpoint

\* run:resume, which tells the SDK of no decision: the approval hook finds it again.
Resume ==
    /\ up /\ phase = "off"
    /\ Resumable
    /\ Execute({})

\* The model answers with calls it has not made before.
RequestTools(calls) ==
    /\ up /\ phase = "model"
    /\ calls # {} /\ IsFiniteSet(calls)
    /\ \A c \in calls : HasStatus(c, {"absent"}) /\ task[c] = "none"
    /\ Cardinality(calls \cup {c \in TopCall : ~HasStatus(c, {"absent"})}) <= MaxTopCalls
    /\ batch' = calls
    /\ task' = [c \in Call |-> IF c \in calls THEN "called" ELSE task[c]]
    /\ \E order \in [1 .. Cardinality(calls \ PlatformCall) -> calls \ PlatformCall] :
         /\ \A i, j \in DOMAIN order : i # j => order[i] # order[j]
         /\ stream' = stream \o [i \in DOMAIN order |-> <<"called", order[i]>>]
    /\ Goto("tools")
    /\ KeepLedger
    /\ UNCHANGED <<runStatus, decision, savedVars, up, after, aborted, outputs, terminalRead,
                   effects>>

\* The model answers with its final output.
FinalOutput ==
    /\ up /\ phase = "model"
    /\ Goto("reading")
    /\ after' = "delivering"
    /\ KeepLedger
    /\ UNCHANGED <<runStatus, decision, savedVars, up, aborted, batch, outputs, terminalRead,
                   task, stream, effects>>

Respond == FinalOutput \/ \E calls \in SUBSET TopCall : RequestTools(calls)

\* All calls of the response have an output, or are held up: the next checkpoint is due.
FinishTools ==
    /\ up /\ phase = "tools"
    /\ \A c \in batch : task[c] \in {"done", "held"}
    /\ outputs' = outputs \cup { c \in batch : task[c] = "done" }
    /\ after' = IF \E c \in batch : task[c] = "held" THEN "suspending" ELSE "model"
    /\ Goto("reading")
    /\ KeepLedger
    /\ UNCHANGED <<runStatus, decision, savedVars, up, aborted, batch, terminalRead, task,
                   stream, effects>>

\* The calls a checkpoint may confirm.
\* (mutant) whatever has been started
StartedCalls == { c \in Call : started[c] /\ ~HasStatus(c, {"checkpointed"}) }
TerminalCalls == { c \in Call : HasStatus(c, Outcome) }

\* checkpointTerminalCallIds; at the end of a segment the stream has been consumed, between
\* two model calls of a segment it may lag.
ReadTerminals ==
    /\ up /\ phase = "reading"
    /\ after # "model" => stream = <<>>
    /\ terminalRead' = TerminalCalls
    /\ Goto("saving")
    /\ KeepLedger
    /\ UNCHANGED <<runStatus, decision, savedVars, up, after, aborted, batch, outputs, task,
                   stream, effects>>

\* What a checkpoint leaves unresolved.
\* (mutant) nothing, as if it held every output
NothingPending == {}
PendingAfterCheckpoint == pendingToolCallIds \ terminalRead

\* saveAgentsSdkCheckpoint: the state with the outputs it holds, and the calls it confirms.
SaveCheckpoint ==
    /\ up /\ phase = "saving"
    /\ invocationStatus' = [c \in Call |-> IF c \in terminalRead THEN "checkpointed"
                                          ELSE invocationStatus[c]]
    /\ pendingToolCallIds' = PendingAfterCheckpoint
    /\ recoveryStatus' = RecoveryFor(PendingAfterCheckpoint)
    /\ hasCheckpoint' = TRUE
    /\ savedCalls' = outputs
    /\ savedInterruptions' = { c \in Call : task[c] = "held" }
    /\ batch' = {}
    /\ task' = [c \in Call |-> "none"]
    /\ Goto(after)
    /\ UNCHANGED <<terminalOutcome, started, runStatus, decision, up, after, aborted, outputs,
                   terminalRead, stream, effects>>

\* RuntimeApprovalPersistence.persist
WaitForApproval ==
    /\ up /\ phase = "suspending"
    /\ WriteStatus("waiting_approval", "requires_action")
    /\ decision' = [c \in Guarded |-> IF c \in savedInterruptions THEN "pending" ELSE decision[c]]
    /\ Goto("off")
    /\ UNCHANGED <<ledgerVars, savedVars, up, after, aborted, batch, outputs, terminalRead,
                   task, stream, effects>>

\* acceptApprovalDecision
Decide ==
    /\ up /\ phase = "off"
    /\ runStatus = "waiting_approval"
    /\ \E c \in Guarded : \E answer \in {"approved", "rejected"} :
         /\ decision[c] = "pending"
         /\ decision' = [decision EXCEPT ![c] = answer]
    /\ WriteStatus("queued", "clean")
    /\ UNCHANGED <<ledgerVars, savedVars, up, executorVars, task, stream, effects>>

\* The answer completes the run, or a newer input supersedes it; persistCleanCheckpoint throws
\* either way if a call is unresolved. (A clarification skips it, and is left out here.)
Deliver ==
    /\ up /\ phase = "delivering"
    /\ \/ /\ pendingToolCallIds = {}
          /\ WriteStatus("completed", "clean")
          /\ Goto("off")
       \/ /\ pendingToolCallIds = {}
          /\ Goto("model")
          /\ UNCHANGED <<runStatus, pendingVars>>
       \/ /\ pendingToolCallIds # {}
          /\ EndInFailure
    /\ UNCHANGED <<ledgerVars, decision, savedVars, up, after, aborted, batch, outputs,
                   terminalRead, task, stream, effects>>

\* AgentRuntime.cancel
Cancel ==
    /\ up /\ ~Ended /\ ~aborted
    /\ aborted' = TRUE
    /\ WriteStatus("cancelled", "clean")
    /\ UNCHANGED <<ledgerVars, decision, savedVars, up, phase, after, batch, outputs,
                   terminalRead, task, stream, effects>>

\* The executor fails; tool calls under way are left to themselves.
ExecutorThrows ==
    /\ up /\ ~Ended
    /\ EndInFailure
    /\ stream' = <<>>
    /\ UNCHANGED <<ledgerVars, decision, savedVars, up, after, aborted, batch, outputs,
                   terminalRead, task, effects>>

\* The approval hook throws at a call the user has refused, and no sub-agent recovers.
RefusedCallThrows(c) ==
    /\ TaskAt(c, "called")
    /\ Refused(c)
    /\ ExecutorThrows

\* The process dies.
Crash ==
    /\ up
    /\ up' = FALSE
    /\ Goto("off")
    /\ after' = "model"
    /\ aborted' = FALSE
    /\ batch' = {}
    /\ task' = [c \in Call |-> "none"]
    /\ outputs' = {}
    /\ terminalRead' = {}
    /\ stream' = <<>>
    /\ KeepLedger
    /\ UNCHANGED <<runStatus, decision, savedVars, effects>>

\* The calls of a run found running make it need a human.
NeedsHuman == recoveryStatus = "requires_action" \/ pendingToolCallIds # {}

\* The statuses recoverOrphanedRuns looks for.
\* (mutant) only runs that were waiting to start
OnlyQueued == {"queued"}
OrphanStatuses == {"queued", "running"}

\* RunStore.recoverOrphanedRuns
Recover ==
    /\ ~up
    /\ up' = TRUE
    /\ \/ /\ runStatus \in OrphanStatuses
          /\ LET status == IF NeedsHuman THEN "requires_action" ELSE "interrupted" IN
             WriteStatus(status, status)
       \/ /\ runStatus \notin OrphanStatuses
          /\ UNCHANGED <<runStatus, pendingVars>>
    /\ UNCHANGED <<ledgerVars, decision, savedVars, executorVars, task, stream, effects>>

CallStep(c) ==
    \/ Prepare(c) \/ Start(c) \/ RunTool(c) \/ Commit(c) \/ Settle(c)
    \/ FinishAgent(c) \/ InvokeExtension(c) \/ RefusedCallThrows(c)

ProjectorStep ==
    \E c \in ExtensionCall \cup AgentCall : ProjectCalled(c) \/ ProjectOutput(c)

RunStep ==
    StartQueued \/ Respond \/ FinishTools \/ ReadTerminals \/ SaveCheckpoint
    \/ WaitForApproval \/ Deliver

LedgerNext ==
    \/ \E c \in Call : CallStep(c) \/ CallInner(c)
    \/ ProjectorStep
    \/ RunStep
    \/ Resume \/ Decide \/ Cancel \/ ExecutorThrows \/ Crash \/ Recover

LedgerSpec == LedgerInit /\ [][LedgerNext]_vars

\* The projector cannot start a call that is already over: its error ends the execution.
ProjectorThrows ==
    /\ ~Ended /\ stream # <<>>
    /\ \E c \in ExtensionCall \cup AgentCall :
         /\ Head(stream) = <<"called", c>>
         /\ HasStatus(c, Outcome \cup {"checkpointed"}) /\ ~NeedsApproval(c)
    /\ ExecutorThrows

(* Tools have time limits, awaits settle, the projector consumes the stream or fails on it, *)
(* and the service manager restarts a dead process.                                         *)
LedgerFairness ==
    /\ \A c \in Call : WF_vars(CallStep(c))
    /\ WF_vars(ProjectorStep) /\ WF_vars(ProjectorThrows)
    /\ WF_vars(RunStep)
    /\ WF_vars(Recover)

FairLedgerSpec == LedgerSpec /\ LedgerFairness

-------------------------------------------------------------------------------------
(* Properties.                                                                         *)

\* The list in the run's checkpoint and the rows of the ledger are written by six different
\* transactions; they always say the same: unresolved is what has been started and is not
\* confirmed (addPendingCall, removePendingCall, checkpointToolInvocations).
PendingAreTheUnconfirmedCalls ==
    pendingToolCallIds = { c \in Call : started[c] /\ ~HasStatus(c, {"checkpointed"}) }

\* The calls whose result a resumed run knows: those the saved state holds, and those made by
\* a sub-agent whose result it holds.
Known(c) == c \in savedCalls \/ (c \in InnerCall /\ OuterOf[c] \in savedCalls)

\* The calls the coordinator executes itself. The SDK executes the others, and the ledger
\* learns of them late (README, section 6).
Recorded == Call \ ExtensionCall

\* "An unknown side effect must not be repeated automatically": whatever the instant of a
\* crash, a run that may be resumed knows the result of every recorded side effect, also
\* when calls the ledger lags behind run beside it.
ResumableKnowsEveryEffect ==
    Resumable => \A c \in Recorded : effects[c] > 0 => Known(c)

\* No recorded call has its side effect twice, although an approved call outlives its process
\* and is prepared, started and executed again from the saved state.
EffectAtMostOnce == \A c \in Recorded : effects[c] <= 1

\* A call is confirmed only by a checkpoint that holds its output (an inner call: only under
\* a sub-agent that is itself unresolved or known), although the list of terminal calls is
\* read before the state is saved.
ConfirmedEffectsAreSaved ==
    \A c \in Call :
      HasStatus(c, {"checkpointed"}) /\ effects[c] > 0
        => Known(c) \/ (c \in InnerCall /\ OuterOf[c] \in pendingToolCallIds)

\* A guarded call has no effect before its approval, on no route and after no recovery.
GuardedEffectsAreApproved ==
    \A c \in Guarded : effects[c] > 0 => decision[c] = "approved"

\* A call that is running is settled, or its run needs a human or is over: neither a settlement
\* that was lost nor a crash leaves a started call behind in a run that waits for nobody. The
\* one exception is an execution whose last status was lost too, while its process lives.
RunningCallIsSettledOrEscalated ==
    \A c \in Call :
      HasStatus(c, {"running"})
        ~> \/ ~HasStatus(c, {"running"})
           \/ runStatus \in {"requires_action", "waiting_approval", "completed", "failed",
                             "cancelled"}
           \/ phase = "unrecorded"
=====================================================================================
