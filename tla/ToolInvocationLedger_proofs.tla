------------------------ MODULE ToolInvocationLedger_proofs ------------------------
(***************************************************************************)
(* Proofs about the tool ledger, for every set of calls on every route.    *)
(* The inductive invariant has three parts: RowsInv ties the rows of the    *)
(* ledger to the list of unresolved calls, ApprovalInv follows a guarded    *)
(* call from its approval to its effect, and EffectInv, which needs both,   *)
(* says where a call that has started, or has had its effect, is kept.      *)
(***************************************************************************)
EXTENDS ToolInvocationLedger, FiniteSetTheorems, SequenceTheorems, TLAPS

\* A checkpoint confirms calls that have ended.
ReadCallsHaveEnded == \A c \in terminalRead : terminalOutcome[c] # "none"

RowTypes ==
    /\ invocationStatus \in
         [Call -> {"absent", "prepared", "running", "checkpointed"} \cup Outcome]
    /\ terminalOutcome \in [Call -> Outcome \cup {"none"}]
    /\ started \in [Call -> BOOLEAN]
    /\ pendingToolCallIds \in SUBSET Call
    /\ terminalRead \in SUBSET Call
    /\ recoveryStatus \in {"clean", "requires_action", "interrupted"}

RowsInv ==
    /\ RowTypes
    /\ \A c \in Call : RowStateCheck(c)
    /\ ReadCallsHaveEnded
    /\ PendingAreTheUnconfirmedCalls

USE RouteAssumption, GuardAssumption

-------------------------------------------------------------------------------------
(* The rows: what each operation of the ledger does to RowsInv.                        *)

\* The rows of a run that has been created are consistent: it has none.
LEMMA RowsInvInit == LedgerInit => RowsInv
  BY DEF LedgerInit, RowsInv, RowTypes, RowStateCheck, ReadCallsHaveEnded,
         PendingAreTheUnconfirmedCalls, HasStatus, Outcome

\* Nothing that RowsInv is about has changed.
LEMMA KeepLedgerPreservesRows ==
  ASSUME RowsInv, KeepLedger, UNCHANGED terminalRead
  PROVE  RowsInv'
  BY DEF RowsInv, RowTypes, RowStateCheck, ReadCallsHaveEnded,
         PendingAreTheUnconfirmedCalls, HasStatus, Outcome, KeepLedger, ledgerVars, pendingVars

\* A status of the run comes with a recovery status, and leaves the list alone.
LEMMA WriteStatusPreservesRows ==
  ASSUME RowsInv, NEW status, NEW recovery \in {"clean", "requires_action", "interrupted"},
         WriteStatus(status, recovery), UNCHANGED <<ledgerVars, terminalRead>>
  PROVE  RowsInv'
  BY DEF RowsInv, RowTypes, RowStateCheck, ReadCallsHaveEnded,
         PendingAreTheUnconfirmedCalls, HasStatus, Outcome, WriteStatus, ledgerVars

\* The end of an execution writes a status, or loses it.
LEMMA EndInFailurePreservesRows ==
  ASSUME RowsInv, EndInFailure, UNCHANGED <<ledgerVars, terminalRead>>
  PROVE  RowsInv'
  BY WriteStatusPreservesRows, KeepLedgerPreservesRows DEF EndInFailure, KeepLedger

\* Preparing a call (prepareToolInvocation) registers nothing.
LEMMA PrepareRowPreservesRows ==
  ASSUME RowsInv, NEW c \in Call, PrepareRow(c), UNCHANGED terminalRead
  PROVE  RowsInv'
<1> USE DEF RowsInv, RowTypes, PrepareRow, HasStatus, pendingVars, Outcome
<1>1. RowTypes'
  OBVIOUS
<1>2. \A d \in Call : RowStateCheck(d)'
  BY DEF RowStateCheck
<1>3. ReadCallsHaveEnded'
  BY DEF ReadCallsHaveEnded
<1>4. PendingAreTheUnconfirmedCalls'
  BY DEF PendingAreTheUnconfirmedCalls
<1>5. QED
  BY <1>1, <1>2, <1>3, <1>4

\* A started call is listed as pending in the same transaction (startToolInvocation).
LEMMA StartRowPreservesRows ==
  ASSUME RowsInv, NEW c \in Call, StartRow(c), UNCHANGED terminalRead
  PROVE  RowsInv'
<1> USE DEF RowsInv, RowTypes, HasStatus, Outcome
<1>1. CASE HasStatus(c, {"running"}) /\ UNCHANGED <<ledgerVars, pendingVars>>
  BY <1>1, KeepLedgerPreservesRows DEF KeepLedger
<1>2. CASE /\ HasStatus(c, {"prepared"})
           /\ invocationStatus' = [invocationStatus EXCEPT ![c] = "running"]
           /\ started' = [started EXCEPT ![c] = TRUE]
           /\ AddPendingCall(c)
           /\ UNCHANGED terminalOutcome
  <2> USE <1>2 DEF AddPendingCall, pendingVars
  <2>1. RowTypes'
    OBVIOUS
  <2>2. \A d \in Call : RowStateCheck(d)'
    BY DEF RowStateCheck
  <2>3. ReadCallsHaveEnded'
    BY DEF ReadCallsHaveEnded
  <2>4. pendingToolCallIds' = pendingToolCallIds \cup {c}
    OBVIOUS
  <2>5. PendingAreTheUnconfirmedCalls'
    BY <2>4 DEF PendingAreTheUnconfirmedCalls
  <2>6. QED
    BY <2>1, <2>2, <2>3, <2>5
<1>3. QED
  BY <1>1, <1>2 DEF StartRow

\* A terminal leaves the call listed, unless it is confirmed at once and taken off the list
\* (terminateToolInvocation).
LEMMA TerminateRowPreservesRows ==
  ASSUME RowsInv, NEW c \in Call, NEW outcome \in Outcome, TerminateRow(c, outcome),
         UNCHANGED terminalRead
  PROVE  RowsInv'
<1> USE DEF RowsInv, RowTypes, HasStatus, TerminateRow, RemovePendingCall, RecoveryFor,
            pendingVars, Outcome
<1>1. RowTypes'
  OBVIOUS
<1>2. \A d \in Call : RowStateCheck(d)'
  BY DEF RowStateCheck
<1>3. ReadCallsHaveEnded'
  BY DEF ReadCallsHaveEnded
<1>4. pendingToolCallIds' = IF Immediate(c) THEN pendingToolCallIds \ {c} ELSE pendingToolCallIds
  OBVIOUS
<1>5. PendingAreTheUnconfirmedCalls'
  BY <1>4 DEF PendingAreTheUnconfirmedCalls
<1>6. QED
  BY <1>1, <1>2, <1>3, <1>5

\* A new execution rejects the prepared rows of refused calls, which were never listed.
LEMMA ExecutePreservesRows ==
  ASSUME RowsInv, NEW refused \in SUBSET Call, Execute(refused)
  PROVE  RowsInv'
<1> USE DEF RowsInv, RowTypes, Execute, WriteStatus, HasStatus, Outcome
<1>1. RowTypes'
  OBVIOUS
<1>2. \A d \in Call : RowStateCheck(d)'
  BY DEF RowStateCheck
<1>3. ReadCallsHaveEnded'
  BY DEF ReadCallsHaveEnded
<1>4. \A d \in Call : HasStatus(d, {"checkpointed"})' <=> HasStatus(d, {"checkpointed"})
  BY DEF RowStateCheck
<1>5. PendingAreTheUnconfirmedCalls'
  BY <1>4 DEF PendingAreTheUnconfirmedCalls
<1>6. QED
  BY <1>1, <1>2, <1>3, <1>5

\* What checkpointTerminalCallIds returns has started or was rejected, and stays terminal.
LEMMA ReadTerminalsPreservesRows ==
  ASSUME RowsInv, ReadTerminals
  PROVE  RowsInv'
<1> USE DEF RowsInv, RowTypes, ReadTerminals, TerminalCalls, HasStatus, Outcome, KeepLedger,
            ledgerVars, pendingVars
<1>1. RowTypes'
  OBVIOUS
<1>2. \A d \in Call : RowStateCheck(d)'
  BY DEF RowStateCheck
<1>3. ReadCallsHaveEnded'
  BY DEF ReadCallsHaveEnded, RowStateCheck
<1>4. PendingAreTheUnconfirmedCalls'
  BY DEF PendingAreTheUnconfirmedCalls
<1>5. QED
  BY <1>1, <1>2, <1>3, <1>4

\* A checkpoint confirms what was read, and takes exactly that off the list.
LEMMA SaveCheckpointPreservesRows ==
  ASSUME RowsInv, SaveCheckpoint
  PROVE  RowsInv'
<1> USE DEF RowsInv, RowTypes, SaveCheckpoint, PendingAfterCheckpoint, RecoveryFor, HasStatus,
            Outcome
<1>1. RowTypes'
  OBVIOUS
<1>2. \A d \in Call : RowStateCheck(d)'
  BY DEF RowStateCheck, ReadCallsHaveEnded
<1>3. ReadCallsHaveEnded'
  BY DEF ReadCallsHaveEnded
<1>4. PendingAreTheUnconfirmedCalls'
  BY DEF PendingAreTheUnconfirmedCalls
<1>5. QED
  BY <1>1, <1>2, <1>3, <1>4

\* No step of a call's execution separates rows and list.
LEMMA CallStepPreservesRows ==
  ASSUME RowsInv, NEW c \in Call, CallStep(c) \/ CallInner(c)
  PROVE  RowsInv'
<1> USE DEF KeepRun, executorVars, Outcome
<1>1. CASE Prepare(c)
  BY <1>1, PrepareRowPreservesRows DEF Prepare
<1>2. CASE Start(c)
  BY <1>2, KeepLedgerPreservesRows, StartRowPreservesRows DEF Start
<1>3. CASE RunTool(c) \/ CallInner(c) \/ FinishAgent(c) \/ InvokeExtension(c)
  BY <1>3, KeepLedgerPreservesRows DEF RunTool, CallInner, FinishAgent, InvokeExtension
<1>4. CASE Commit(c)
  BY <1>4, KeepLedgerPreservesRows, TerminateRowPreservesRows DEF Commit
<1>5. CASE Settle(c)
  BY <1>5, KeepLedgerPreservesRows, TerminateRowPreservesRows DEF Settle
<1>6. CASE RefusedCallThrows(c)
  BY <1>6, EndInFailurePreservesRows DEF RefusedCallThrows, ExecutorThrows
<1>7. QED
  BY <1>1, <1>2, <1>3, <1>4, <1>5, <1>6 DEF CallStep

\* No event of the stream separates rows and list.
LEMMA ProjectorStepPreservesRows ==
  ASSUME RowsInv, ProjectorStep
  PROVE  RowsInv'
<1> USE DEF KeepRun, executorVars, Outcome
<1>1. PICK c \in ExtensionCall \cup AgentCall : ProjectCalled(c) \/ ProjectOutput(c)
  BY DEF ProjectorStep
<1>2. c \in Call
  BY DEF Call, TopCall
<1>3. CASE ProjectCalled(c)
  BY <1>2, <1>3, KeepLedgerPreservesRows, PrepareRowPreservesRows, StartRowPreservesRows
     DEF ProjectCalled
<1>4. CASE ProjectOutput(c)
  BY <1>2, <1>4, KeepLedgerPreservesRows, StartRowPreservesRows, TerminateRowPreservesRows
     DEF ProjectOutput
<1>5. QED
  BY <1>1, <1>3, <1>4

\* RowsInv is inductive: one case for each disjunct of LedgerNext.
LEMMA StepPreservesRows ==
  ASSUME RowsInv, [LedgerNext]_vars
  PROVE  RowsInv'
<1>1. CASE \E c \in Call : CallStep(c) \/ CallInner(c)
  BY <1>1, CallStepPreservesRows
<1>2. CASE ProjectorStep
  BY <1>2, ProjectorStepPreservesRows
<1>3. CASE StartQueued \/ Resume
  <2>1. \A c \in savedInterruptions : Refused(c) => c \in Call
    BY DEF Refused
  <2>2. { c \in savedInterruptions : Refused(c) } \in SUBSET Call /\ {} \in SUBSET Call
    BY <2>1
  <2>3. QED
    BY <1>3, <2>2, ExecutePreservesRows DEF StartQueued, Resume
<1>4. CASE Respond \/ FinishTools
  BY <1>4, KeepLedgerPreservesRows DEF Respond, RequestTools, FinalOutput, FinishTools
<1>5. CASE ReadTerminals
  BY <1>5, ReadTerminalsPreservesRows
<1>6. CASE SaveCheckpoint
  BY <1>6, SaveCheckpointPreservesRows
<1>7. CASE WaitForApproval \/ Cancel \/ ExecutorThrows
  BY <1>7, WriteStatusPreservesRows, EndInFailurePreservesRows
     DEF WaitForApproval, Cancel, ExecutorThrows
<1>8. CASE Decide
  BY <1>8, WriteStatusPreservesRows DEF Decide, executorVars
<1>9. CASE Deliver
  BY <1>9, WriteStatusPreservesRows, KeepLedgerPreservesRows, EndInFailurePreservesRows
     DEF Deliver, KeepLedger
<1>10. CASE Crash
  BY <1>10 DEF Crash, RowsInv, RowTypes, RowStateCheck, ReadCallsHaveEnded,
         PendingAreTheUnconfirmedCalls, HasStatus, Outcome, KeepLedger, ledgerVars, pendingVars
<1>11. CASE Recover
  BY <1>11, WriteStatusPreservesRows, KeepLedgerPreservesRows
     DEF Recover, KeepLedger, executorVars
<1>12. CASE UNCHANGED vars
  BY <1>12, KeepLedgerPreservesRows DEF vars, KeepLedger, executorVars
<1>13. QED
  BY <1>1, <1>2, <1>3, <1>4, <1>5, <1>6, <1>7, <1>8, <1>9, <1>10, <1>11, <1>12
     DEF LedgerNext, RunStep

\* In every reachable state the run's pendingToolCallIds are exactly the calls that have been
\* started and are not yet checkpointed, although startToolInvocation, terminateToolInvocation and
\* saveAgentsSdkCheckpoint maintain rows and list in different transactions: for any number of
\* calls on any of the four routes, under crashes, cancellations and lost settlements.
THEOREM PendingListIsExact == LedgerSpec => []PendingAreTheUnconfirmedCalls
<1>1. RowsInv /\ [LedgerNext]_vars => RowsInv'
  BY StepPreservesRows
<1>2. RowsInv => PendingAreTheUnconfirmedCalls
  BY DEF RowsInv
<1>3. QED
  BY <1>1, <1>2, RowsInvInit, PTL DEF LedgerSpec

-------------------------------------------------------------------------------------
(* Approval: what a guarded call goes through before its effect.                       *)

Places == {"none", "called", "prepared", "started", "executed", "settling", "held", "done"}

ApprovalTypes ==
    /\ runStatus \in {"queued", "running", "waiting_approval", "completed", "failed",
                      "cancelled", "interrupted", "requires_action"}
    /\ decision \in [Guarded -> {"none", "pending", "approved", "rejected"}]
    /\ savedInterruptions \in SUBSET Call
    /\ batch \in SUBSET Call
    /\ phase \in {"off", "model", "tools", "reading", "saving", "suspending", "delivering",
                  "unrecorded"}
    /\ after \in {"model", "suspending", "delivering"}
    /\ task \in [Call -> Places]
    /\ effects \in [Call -> 0 .. 2]

\* A guarded call gets as far as its execution only once it is approved.
OnlyApprovedCallsAdvance ==
    \A c \in Guarded : task[c] \in {"prepared", "started", "executed"} => decision[c] = "approved"

\* What is held up has not been approved, nor has what the saved state is suspended at when
\* the approval is about to be asked for.
HeldCallsAreNotApproved ==
    /\ \A c \in Guarded : task[c] = "held" => decision[c] # "approved"
    /\ phase = "suspending"
         => \A c \in Guarded \cap savedInterruptions : decision[c] # "approved"

\* A call that is not a sub-agent is held up for its own sake.
HeldCallsAreGuarded == \A c \in Call \ AgentCall : task[c] = "held" => c \in Guarded

\* No call is under way while a run asks for an approval or waits for it.
NothingRunsWhileWaiting ==
    phase = "suspending" \/ (phase = "off" /\ runStatus = "waiting_approval")
      => \A c \in Call : task[c] = "none"

ApprovalInv ==
    /\ ApprovalTypes
    /\ OnlyApprovedCallsAdvance
    /\ HeldCallsAreNotApproved
    /\ HeldCallsAreGuarded
    /\ NothingRunsWhileWaiting
    /\ GuardedEffectsAreApproved

\* No call is on its way in a run that has been created.
LEMMA ApprovalInvInit == LedgerInit => ApprovalInv
  BY DEF LedgerInit, ApprovalInv, ApprovalTypes, OnlyApprovedCallsAdvance, Places,
         HeldCallsAreNotApproved, HeldCallsAreGuarded, NothingRunsWhileWaiting,
         GuardedEffectsAreApproved

\* Steps that concern neither calls under way nor decisions, and start no waiting.
LEMMA QuietStepPreservesApproval ==
  ASSUME ApprovalInv, UNCHANGED <<decision, savedInterruptions, task, effects>>,
         batch' \in SUBSET Call,
         after' \in {"model", "suspending", "delivering"},
         phase' \in {"off", "model", "tools", "reading", "saving", "suspending", "delivering",
                   "unrecorded"},
         runStatus' \in {"queued", "running", "waiting_approval", "completed", "failed",
                        "cancelled", "interrupted", "requires_action"},
         phase' = "suspending" => phase = "suspending",
         phase' = "off" /\ runStatus' = "waiting_approval"
           => phase = "off" /\ runStatus = "waiting_approval"
  PROVE  ApprovalInv'
  BY DEF ApprovalInv, ApprovalTypes, OnlyApprovedCallsAdvance, Places,
         HeldCallsAreNotApproved, HeldCallsAreGuarded, NothingRunsWhileWaiting,
         GuardedEffectsAreApproved

\* A call moves from one place to another.
LEMMA CallMovePreservesApproval ==
  ASSUME ApprovalInv, NEW c \in Call, NEW place \in Places,
         UNCHANGED <<runStatus, decision, savedInterruptions, batch, phase, after>>,
         TaskTo(c, place),
         task[c] # "none" \/ \E d \in Call : task[d] # "none",
         effects' = effects \/ HaveEffect(c),
         effects' # effects /\ c \in Guarded => decision[c] = "approved",
         place \in {"prepared", "started", "executed"} /\ c \in Guarded
           => decision[c] = "approved",
         place = "held" => /\ c \in Guarded => decision[c] # "approved"
                           /\ c \notin AgentCall => c \in Guarded
  PROVE  ApprovalInv'
<1> USE DEF ApprovalInv, ApprovalTypes, TaskTo, Places
<1>1. effects' \in [Call -> 0 .. 2]
  BY DEF HaveEffect
<1>2. ApprovalTypes'
  BY <1>1
<1>3. OnlyApprovedCallsAdvance'
  BY DEF OnlyApprovedCallsAdvance
<1>4. HeldCallsAreNotApproved'
  BY DEF HeldCallsAreNotApproved
<1>5. HeldCallsAreGuarded'
  BY DEF HeldCallsAreGuarded
<1>6. NothingRunsWhileWaiting'
  BY DEF NothingRunsWhileWaiting
<1>7. GuardedEffectsAreApproved'
  BY DEF GuardedEffectsAreApproved, HaveEffect
<1>8. QED
  BY <1>2, <1>3, <1>4, <1>5, <1>6, <1>7

\* A step of a call's execution gets a guarded call past Prepare only when it is approved.
LEMMA CallStepPreservesApproval ==
  ASSUME ApprovalInv, NEW c \in Call, CallStep(c) \/ CallInner(c)
  PROVE  ApprovalInv'
<1> USE DEF KeepRun, executorVars, savedVars, TaskAt, Places
<1>1. CASE Prepare(c)
  <2>1. TaskTo(c, IF NeedsApproval(c) THEN "held" ELSE "prepared")
    BY <1>1 DEF Prepare
  <2>2. CASE NeedsApproval(c)
    <3>1. TaskTo(c, "held")
      BY <2>1, <2>2 DEF TaskTo
    <3>2. QED
      BY <1>1, <2>2, <3>1, CallMovePreservesApproval DEF Prepare, NeedsApproval
  <2>3. CASE ~NeedsApproval(c)
    <3>1. TaskTo(c, "prepared")
      BY <2>1, <2>3 DEF TaskTo
    <3>2. QED
      BY <1>1, <2>3, <3>1, CallMovePreservesApproval DEF Prepare, NeedsApproval
  <2>4. QED
    BY <2>2, <2>3
<1>2. CASE Start(c)
  BY <1>2, CallMovePreservesApproval DEF Start, ApprovalInv, OnlyApprovedCallsAdvance
<1>3. CASE RunTool(c)
  BY <1>3, CallMovePreservesApproval DEF RunTool, ApprovalInv, OnlyApprovedCallsAdvance
<1>4. CASE Commit(c) \/ Settle(c)
  BY <1>4, CallMovePreservesApproval DEF Commit, Settle
<1>5. CASE CallInner(c)
  <2>1. OuterOf[c] \in Call /\ task[OuterOf[c]] = "started"
    BY <1>5 DEF CallInner, Runs, Call, TopCall
  <2>2. QED
    BY <1>5, <2>1, CallMovePreservesApproval DEF CallInner
<1>6. CASE FinishAgent(c)
  <2> DEFINE inner == { i \in InnerCall : OuterOf[i] = c }
             held == \E i \in inner : task[i] = "held"
  <2>1. CASE held
    <3>1. PICK i \in InnerCall : task[i] = "held"
      BY <2>1
    <3>2. i \in Guarded
      BY <3>1 DEF ApprovalInv, HeldCallsAreGuarded, Call, TopCall
    <3>3. c \in AgentCall /\ c # i
      BY <1>6 DEF FinishAgent, TopCall
    <3>4. c \notin Guarded
      BY <3>2, <3>3
    <3>5. TaskTo(c, "held")
      BY <1>6, <2>1 DEF FinishAgent
    <3>6. QED
      BY <1>6, <3>3, <3>4, <3>5, CallMovePreservesApproval DEF FinishAgent
  <2>2. CASE ~held
    <3>1. TaskTo(c, "done")
      BY <1>6, <2>2 DEF FinishAgent
    <3>2. QED
      BY <1>6, <3>1, CallMovePreservesApproval DEF FinishAgent
  <2>3. QED
    BY <2>1, <2>2
<1>7. CASE InvokeExtension(c)
  BY <1>7, CallMovePreservesApproval DEF InvokeExtension, ApprovalInv, OnlyApprovedCallsAdvance
<1>8. CASE RefusedCallThrows(c)
  BY <1>8, QuietStepPreservesApproval
     DEF RefusedCallThrows, ExecutorThrows, EndInFailure, WriteStatus, Goto, ApprovalInv, ApprovalTypes
<1>9. QED
  BY <1>1, <1>2, <1>3, <1>4, <1>5, <1>6, <1>7, <1>8 DEF CallStep

\* An execution sends the calls a state is suspended at through the approval hook again, except
\* those whose refusal it tells the SDK of.
LEMMA ExecutePreservesApproval ==
  ASSUME ApprovalInv, NEW refused \in SUBSET Call, Execute(refused)
  PROVE  ApprovalInv'
<1> USE DEF ApprovalInv, ApprovalTypes, Execute, WriteStatus, Goto, savedVars, Places
<1>1. ApprovalTypes'
  BY DEF TopCall, Call
<1>2. OnlyApprovedCallsAdvance'
  BY DEF OnlyApprovedCallsAdvance
<1>3. HeldCallsAreNotApproved'
  BY DEF HeldCallsAreNotApproved
<1>4. HeldCallsAreGuarded'
  BY DEF HeldCallsAreGuarded
<1>5. NothingRunsWhileWaiting'
  BY DEF NothingRunsWhileWaiting
<1>6. GuardedEffectsAreApproved'
  BY DEF GuardedEffectsAreApproved
<1>7. QED
  BY <1>1, <1>2, <1>3, <1>4, <1>5, <1>6

\* New calls of the model start at the approval hook.
LEMMA RespondPreservesApproval ==
  ASSUME ApprovalInv, Respond
  PROVE  ApprovalInv'
<1> USE DEF Goto, savedVars
<1>1. CASE FinalOutput
  BY <1>1, QuietStepPreservesApproval DEF FinalOutput, ApprovalInv, ApprovalTypes
<1>2. ASSUME NEW calls \in SUBSET TopCall, RequestTools(calls)
      PROVE  ApprovalInv'
  <2>1. ApprovalTypes'
    BY <1>2 DEF RequestTools, ApprovalInv, ApprovalTypes, Places, Call
  <2>2. QED
    BY <1>2, <2>1
       DEF RequestTools, ApprovalInv, ApprovalTypes, OnlyApprovedCallsAdvance,
           HeldCallsAreNotApproved, HeldCallsAreGuarded, NothingRunsWhileWaiting,
           GuardedEffectsAreApproved
<1>3. QED
  BY <1>1, <1>2 DEF Respond

\* After a checkpoint no call is on its way.
LEMMA SaveCheckpointPreservesApproval ==
  ASSUME ApprovalInv, SaveCheckpoint
  PROVE  ApprovalInv'
<1> USE DEF ApprovalInv, ApprovalTypes, SaveCheckpoint, Goto, Places
<1>1. ApprovalTypes'
  OBVIOUS
<1>2. HeldCallsAreNotApproved'
  BY DEF HeldCallsAreNotApproved, Call, TopCall
<1>3. QED
  BY <1>1, <1>2 DEF OnlyApprovedCallsAdvance, HeldCallsAreGuarded, NothingRunsWhileWaiting,
                    GuardedEffectsAreApproved

\* A decision is asked for only of a call that is not approved, when nothing is on its way.
LEMMA WaitForApprovalPreservesApproval ==
  ASSUME ApprovalInv, WaitForApproval
  PROVE  ApprovalInv'
<1> USE DEF ApprovalInv, ApprovalTypes, WaitForApproval, WriteStatus, Goto, savedVars, Places
<1>1. ApprovalTypes'
  OBVIOUS
<1>2. \A c \in Call : task'[c] = "none"
  BY DEF NothingRunsWhileWaiting
<1>3. GuardedEffectsAreApproved'
  BY DEF GuardedEffectsAreApproved, HeldCallsAreNotApproved
<1>4. QED
  BY <1>1, <1>2, <1>3 DEF OnlyApprovedCallsAdvance, HeldCallsAreNotApproved,
                          HeldCallsAreGuarded, NothingRunsWhileWaiting

\* An answer comes when nothing is on its way, so it revokes no approval already used.
LEMMA DecidePreservesApproval ==
  ASSUME ApprovalInv, Decide
  PROVE  ApprovalInv'
<1> USE DEF ApprovalInv, ApprovalTypes, Decide, WriteStatus, savedVars, executorVars, Places
<1>1. PICK d \in Guarded, answer \in {"approved", "rejected"} :
        decision[d] = "pending" /\ decision' = [decision EXCEPT ![d] = answer]
  OBVIOUS
<1>2. ApprovalTypes'
  BY <1>1
<1>3. \A c \in Call : task'[c] = "none"
  BY DEF NothingRunsWhileWaiting
<1>4. GuardedEffectsAreApproved'
  BY <1>1 DEF GuardedEffectsAreApproved
<1>5. QED
  BY <1>2, <1>3, <1>4 DEF OnlyApprovedCallsAdvance, HeldCallsAreNotApproved,
                          HeldCallsAreGuarded, NothingRunsWhileWaiting

\* A crash takes every call off its way, and leaves decisions alone.
LEMMA CrashPreservesApproval ==
  ASSUME ApprovalInv, Crash
  PROVE  ApprovalInv'
  BY DEF Crash, Goto, savedVars, ApprovalInv, ApprovalTypes, OnlyApprovedCallsAdvance, Places,
         HeldCallsAreNotApproved, HeldCallsAreGuarded, NothingRunsWhileWaiting,
         GuardedEffectsAreApproved

\* ApprovalInv is inductive: one case for each disjunct of LedgerNext.
LEMMA StepPreservesApproval ==
  ASSUME ApprovalInv, [LedgerNext]_vars
  PROVE  ApprovalInv'
<1> USE DEF WriteStatus, Goto, savedVars
<1>1. CASE \E c \in Call : CallStep(c) \/ CallInner(c)
  BY <1>1, CallStepPreservesApproval
<1>2. CASE ProjectorStep
  BY <1>2, QuietStepPreservesApproval
     DEF ProjectorStep, ProjectCalled, ProjectOutput, KeepRun, executorVars, ApprovalInv,
         ApprovalTypes
<1>3. CASE StartQueued \/ Resume
  <2>1. { c \in savedInterruptions : Refused(c) } \in SUBSET Call /\ {} \in SUBSET Call
    BY DEF Refused
  <2>2. QED
    BY <1>3, <2>1, ExecutePreservesApproval DEF StartQueued, Resume
<1>4. CASE Respond
  BY <1>4, RespondPreservesApproval
<1>5. CASE FinishTools \/ ReadTerminals
  BY <1>5, QuietStepPreservesApproval DEF FinishTools, ReadTerminals, ApprovalInv, ApprovalTypes
<1>6. CASE SaveCheckpoint
  BY <1>6, SaveCheckpointPreservesApproval
<1>7. CASE WaitForApproval
  BY <1>7, WaitForApprovalPreservesApproval
<1>8. CASE Decide
  BY <1>8, DecidePreservesApproval
<1>9. CASE Deliver \/ Cancel \/ ExecutorThrows
  BY <1>9, QuietStepPreservesApproval
     DEF Deliver, Cancel, ExecutorThrows, EndInFailure, ApprovalInv, ApprovalTypes
<1>10. CASE Crash
  BY <1>10, CrashPreservesApproval
<1>11. CASE Recover
  BY <1>11, QuietStepPreservesApproval
     DEF Recover, OrphanStatuses, executorVars, ApprovalInv, ApprovalTypes
<1>12. CASE UNCHANGED vars
  BY <1>12, QuietStepPreservesApproval DEF vars, executorVars, ApprovalInv, ApprovalTypes
<1>13. QED
  BY <1>1, <1>2, <1>3, <1>4, <1>5, <1>6, <1>7, <1>8, <1>9, <1>10, <1>11, <1>12
     DEF LedgerNext, RunStep

\* In every reachable state a guarded call has had an effect only if its approval record says
\* approved, on whichever route it is executed, in a sub-agent or not, after any crash, resumption
\* or lagging stream event (ApprovalService.requirement, acceptApprovalDecision).
THEOREM NoGuardedEffectUnapproved == LedgerSpec => []GuardedEffectsAreApproved
<1>1. ApprovalInv /\ [LedgerNext]_vars => ApprovalInv'
  BY StepPreservesApproval
<1>2. ApprovalInv => GuardedEffectsAreApproved
  BY DEF ApprovalInv
<1>3. QED
  BY <1>1, <1>2, ApprovalInvInit, PTL DEF LedgerSpec

-------------------------------------------------------------------------------------
(* Type correctness.                                                                   *)

RemainingTypes ==
    /\ savedCalls \in SUBSET Call
    /\ outputs \in SUBSET Call
    /\ stream \in Seq(Event)

FlagTypes ==
    /\ hasCheckpoint \in BOOLEAN
    /\ up \in BOOLEAN
    /\ aborted \in BOOLEAN

\* The two inductive invariants and the remaining types make up LedgerTypeOK.
LEMMA TypesAreComplete ==
  RowsInv /\ ApprovalInv /\ RemainingTypes /\ FlagTypes => LedgerTypeOK
<1> SUFFICES ASSUME RowsInv, ApprovalInv, RemainingTypes, FlagTypes
             PROVE  LedgerTypeOK
  OBVIOUS
<1>1. {pendingToolCallIds, savedCalls, savedInterruptions, batch, outputs, terminalRead}
        \subseteq SUBSET Call
  BY DEF RowsInv, RowTypes, ApprovalInv, ApprovalTypes, RemainingTypes
<1>2. {hasCheckpoint, up, aborted} \subseteq BOOLEAN
  BY DEF FlagTypes
<1>3. QED
  BY <1>1, <1>2
     DEF LedgerTypeOK, RowsInv, RowTypes, ApprovalInv, ApprovalTypes, Places, RemainingTypes

\* A function on 1 .. n is a sequence.
LEMMA FunctionIsSeq ==
  ASSUME NEW S, NEW n \in Nat, NEW f \in [1 .. n -> S]
  PROVE  f \in Seq(S)
  BY SeqDef

\* The events of a response, in any order.
LEMMA CalledEventsAreEvents ==
  ASSUME NEW calls \in SUBSET TopCall, IsFiniteSet(calls),
         NEW order \in [1 .. Cardinality(calls \ PlatformCall) -> calls \ PlatformCall]
  PROVE  [i \in DOMAIN order |-> <<"called", order[i]>>] \in Seq(Event)
<1>1. Cardinality(calls \ PlatformCall) \in Nat
  BY FS_Difference, FS_CardinalityType
<1>2. calls \ PlatformCall \subseteq ExtensionCall \cup AgentCall
  BY DEF TopCall
<1>3. \A i \in DOMAIN order : <<"called", order[i]>> \in Event
  BY <1>2 DEF Event
<1>4. [i \in DOMAIN order |-> <<"called", order[i]>>]
        \in [1 .. Cardinality(calls \ PlatformCall) -> Event]
  BY <1>3
<1>5. QED
  BY <1>1, <1>4, FunctionIsSeq

\* A step of a call's execution keeps the types of the stream and the effects.
LEMMA CallStepPreservesTypes ==
  ASSUME RemainingTypes, NEW c \in Call, CallStep(c) \/ CallInner(c)
  PROVE  RemainingTypes'
<1> USE DEF RemainingTypes, KeepRun, executorVars, savedVars
<1>1. CASE \/ Prepare(c) \/ Start(c) \/ RunTool(c) \/ Commit(c) \/ Settle(c)
           \/ CallInner(c)
  BY <1>1 DEF Prepare, Start, RunTool, Commit, Settle, CallInner
<1>2. CASE FinishAgent(c) \/ InvokeExtension(c)
  <2>1. <<"output", c>> \in Event
    BY <1>2 DEF FinishAgent, InvokeExtension, Event
  <2>2. stream' = stream \/ stream' = Append(stream, <<"output", c>>)
    BY <1>2 DEF FinishAgent, InvokeExtension
  <2>3. stream' \in Seq(Event)
    BY <2>1, <2>2
  <2>4. QED
    BY <1>2, <2>3 DEF FinishAgent, InvokeExtension
<1>3. CASE RefusedCallThrows(c)
  BY <1>3, EmptySeq DEF RefusedCallThrows, ExecutorThrows, EndInFailure
<1>4. QED
  BY <1>1, <1>2, <1>3 DEF CallStep

\* Every step keeps the types of the stream and the effects.
LEMMA StepPreservesTypes ==
  ASSUME RemainingTypes, batch \in SUBSET Call, [LedgerNext]_vars
  PROVE  RemainingTypes'
<1> USE DEF RemainingTypes, savedVars
<1>1. CASE \E c \in Call : CallStep(c) \/ CallInner(c)
  BY <1>1, CallStepPreservesTypes
<1>2. CASE ProjectorStep
  <2>1. stream # <<>> /\ KeepRun /\ (stream' = stream \/ stream' = Tail(stream))
    BY <1>2 DEF ProjectorStep, ProjectCalled, ProjectOutput
  <2>2. stream' \in Seq(Event)
    BY <2>1, HeadTailProperties
  <2>3. QED
    BY <2>1, <2>2 DEF KeepRun, executorVars
<1>3. CASE StartQueued \/ Resume
  <2>1. PICK refused : Execute(refused)
    BY <1>3, Zenon DEF StartQueued, Resume
  <2>2. stream' = <<>> /\ outputs' = savedCalls /\ UNCHANGED savedVars
    BY <2>1, Zenon DEF Execute
  <2>3. QED
    BY <2>2, EmptySeq
<1>4. CASE FinalOutput
  BY <1>4 DEF FinalOutput
<1>5. ASSUME NEW calls \in SUBSET TopCall, RequestTools(calls)
      PROVE  RemainingTypes'
  <2>1. PICK order \in [1 .. Cardinality(calls \ PlatformCall) -> calls \ PlatformCall] :
          stream' = stream \o [i \in DOMAIN order |-> <<"called", order[i]>>]
    BY <1>5, Zenon DEF RequestTools
  <2>2. IsFiniteSet(calls)
    BY <1>5 DEF RequestTools
  <2> DEFINE called == [i \in DOMAIN order |-> <<"called", order[i]>>]
  <2>3. called \in Seq(Event)
    BY <1>5, <2>1, <2>2, CalledEventsAreEvents
  <2>4. stream' = stream \o called
    BY <2>1
  <2> HIDE DEF called
  <2>5. stream' \in Seq(Event)
    BY <2>3, <2>4, ConcatProperties
  <2>6. QED
    BY <1>5, <2>5 DEF RequestTools
<1>6. CASE FinishTools \/ ReadTerminals \/ SaveCheckpoint \/ WaitForApproval \/ Deliver
  BY <1>6 DEF FinishTools, ReadTerminals, SaveCheckpoint, WaitForApproval, Deliver,
             EndInFailure
<1>7. CASE Decide \/ Cancel \/ ExecutorThrows \/ Crash \/ Recover
  BY <1>7, EmptySeq DEF Decide, Cancel, ExecutorThrows, EndInFailure, Crash, Recover, executorVars
<1>8. CASE UNCHANGED vars
  BY <1>8 DEF vars, executorVars
<1>9. QED
  BY <1>1, <1>2, <1>3, <1>4, <1>5, <1>6, <1>7, <1>8 DEF LedgerNext, RunStep, Respond

\* Every step keeps the types of the executor's place, its flags and the run's status.
LEMMA StepPreservesFlags ==
  ASSUME FlagTypes, [LedgerNext]_vars
  PROVE  FlagTypes'
<1> USE DEF FlagTypes
<1>1. CASE \E c \in Call : CallStep(c) \/ CallInner(c)
  <2>1. PICK c \in Call : CallStep(c) \/ CallInner(c)
    BY <1>1, Zenon
  <2>2. CASE RefusedCallThrows(c)
    BY <2>2, Zenon DEF RefusedCallThrows, ExecutorThrows, EndInFailure, savedVars
  <2>3. CASE ~RefusedCallThrows(c)
    <3>1. KeepRun
      BY <2>1, <2>3, Zenon
         DEF CallStep, Prepare, Start, RunTool, Commit, Settle, FinishAgent, InvokeExtension,
             CallInner
    <3>2. QED
      BY <3>1, Zenon DEF KeepRun, executorVars, savedVars
  <2>4. QED
    BY <2>2, <2>3, Zenon
<1>2. CASE ProjectorStep
  <2>1. KeepRun
    BY <1>2, Zenon DEF ProjectorStep, ProjectCalled, ProjectOutput
  <2>2. QED
    BY <2>1, Zenon DEF KeepRun, executorVars, savedVars
<1>3. CASE StartQueued \/ Resume
  <2>1. PICK refused : Execute(refused)
    BY <1>3, Zenon DEF StartQueued, Resume
  <2>2. aborted' = FALSE /\ UNCHANGED <<savedVars, up>>
    BY <2>1, Zenon DEF Execute
  <2>3. QED
    BY <2>2, Zenon DEF savedVars
<1>4. CASE Respond \/ FinishTools \/ ReadTerminals \/ WaitForApproval \/ Deliver
  BY <1>4, Zenon
     DEF Respond, RequestTools, FinalOutput, FinishTools, ReadTerminals, WaitForApproval,
         Deliver, EndInFailure, savedVars
<1>5. CASE SaveCheckpoint
  BY <1>5, Zenon DEF SaveCheckpoint
<1>6. CASE Decide \/ Recover
  BY <1>6, Zenon DEF Decide, Recover, executorVars, savedVars
<1>7. CASE Cancel \/ ExecutorThrows \/ Crash
  BY <1>7, Zenon DEF Cancel, ExecutorThrows, EndInFailure, Crash, savedVars
<1>8. CASE UNCHANGED vars
  BY <1>8, Zenon DEF vars, executorVars, savedVars
<1>9. QED
  BY <1>1, <1>2, <1>3, <1>4, <1>5, <1>6, <1>7, <1>8, Zenon DEF LedgerNext, RunStep

\* Every reachable state has its types, and every row of the ledger satisfies
\* platform_tool_invocations_state_check (schema.ts): no write of the code is refused by that check.
THEOREM LedgerIsWellTyped == LedgerSpec => []LedgerTypeOK
<1> DEFINE Inv == RowsInv /\ ApprovalInv /\ RemainingTypes /\ FlagTypes
<1>1. LedgerInit => RemainingTypes /\ FlagTypes
  BY EmptySeq DEF LedgerInit, RemainingTypes, FlagTypes
<1>2. LedgerInit => Inv
  BY <1>1, RowsInvInit, ApprovalInvInit
<1>3. Inv /\ [LedgerNext]_vars => Inv'
  <2>1. ApprovalInv => batch \in SUBSET Call
    BY DEF ApprovalInv, ApprovalTypes
  <2>2. QED
    BY <2>1, StepPreservesRows, StepPreservesApproval, StepPreservesTypes, StepPreservesFlags
<1>4. Inv => LedgerTypeOK
  BY TypesAreComplete
<1>5. QED
  BY <1>2, <1>3, <1>4, PTL DEF LedgerSpec

-------------------------------------------------------------------------------------
(* Effects: why a run that goes on knows what its calls have done.                     *)

\* The calls the coordinator executes itself.
Own == PlatformCall \cup InnerCall

\* A run no execution has: to be begun or gone on with, or not.
Parked == phase = "off" /\ runStatus \in {"queued", "waiting_approval"}
Over == Ended /\ ~Parked

\* Nothing is under way, and the live state is the saved one.
Resting == phase \in {"model", "suspending", "delivering"} \/ Parked

\* The saved state holds the call's output, or will before anything is confirmed; or the
\* run is over.
Covered(c) ==
    \/ c \in savedCalls
    \/ phase \in {"reading", "saving"} /\ c \in outputs
    \/ phase = "tools" /\ c \in batch /\ task[c] \in {"executed", "settling", "done"}
    \/ Over

Awaited(c) == \E i \in 1 .. Len(stream) : stream[i] = <<"output", c>>

\* Where a call is, by the phase of the executor and the place of the sub-agent it is
\* made in.
CourseOf(c) ==
    /\ Resting => task[c] = "none"
    /\ phase \in {"reading", "saving"} /\ c \in TopCall => task[c] \in {"none", "done", "held"}
    /\ phase = "tools" /\ c \in TopCall /\ task[c] # "none" => c \in batch
    /\ c \in ExtensionCall => task[c] \notin {"started", "executed", "settling"}
    /\ c \in InnerCall /\ task[c] = "held"
         => task[OuterOf[c]] \in {"started", "held"} /\ started[OuterOf[c]]
    /\ c \in InnerCall /\ c \in savedInterruptions
         => OuterOf[c] \in savedInterruptions /\ started[OuterOf[c]]

\* Which lists hold a call, by its place.
ListsOf(c) ==
    /\ c \in outputs \cup savedCalls \cup savedInterruptions \/ task[c] \notin {"none", "called"}
         => ~HasStatus(c, {"absent"})
    /\ task[c] \notin {"none", "done"} => c \notin outputs
    /\ c \in savedInterruptions => c \notin savedCalls
    /\ c \in savedCalls /\ phase # "off" => c \in outputs
    /\ c \in outputs /\ (Resting \/ phase = "tools") => c \in savedCalls
    /\ Awaited(c) => c \in outputs \/ (phase = "tools" /\ c \in batch /\ task[c] = "done")

\* How far the row of a call has come, by the lists that hold it.
RowOf(c) ==
    /\ task[c] \in {"started", "executed"} /\ c \notin ExtensionCall => started[c]
    /\ terminalOutcome[c] \in {"succeeded", "failed"} => started[c]
    /\ c \in TopCall /\ started[c] =>
         /\ HasStatus(c, Outcome) => Covered(c)
         /\ HasStatus(c, {"checkpointed"}) => c \in savedCalls
         /\ phase = "saving" /\ c \in terminalRead => c \in outputs
         /\ c \in savedInterruptions => ~HasStatus(c, {"checkpointed"})
         /\ c \in savedInterruptions /\ Resting => HasStatus(c, {"running"})
         /\ task[c] \in {"called", "prepared", "started", "held"} => HasStatus(c, {"running"})

\* What an effect leaves behind, and what stands before one.
EffectOf(c) ==
    /\ c \in Own /\ effects[c] > 0 => started[c]
    /\ c \in InnerCall /\ effects[c] > 0 => started[OuterOf[c]]
    /\ c \in Own /\ task[c] \in {"called", "prepared", "held"} => ~started[c]
    /\ c \in Own /\ c \in savedInterruptions /\ Resting => ~started[c]
    /\ c \in Own /\ task[c] = "started" => effects[c] = 0
    /\ c \in AgentCall => effects[c] = 0
    /\ c \in Recorded => effects[c] <= 1
    /\ c \in ExtensionCall /\ terminalOutcome[c] = "rejected"
         => c \in Guarded /\ decision[c] = "rejected"
    /\ c \in Guarded /\ (task[c] = "held" \/ (phase = "suspending" /\ c \in savedInterruptions))
         => decision[c] # "rejected"

EffectTypes ==
    /\ outputs \in SUBSET Call /\ savedCalls \in SUBSET Call
    /\ stream \in Seq(Event)
    /\ phase # "off" => up /\ runStatus \in {"running", "cancelled"}


CallInv(c) == CourseOf(c) /\ ListsOf(c) /\ RowOf(c) /\ EffectOf(c)

EffectInv ==
    /\ EffectTypes
    /\ \A c \in Call : CallInv(c)

\* The other two invariants, on which this one builds.
Basis == RowsInv /\ ApprovalInv

\* What the three invariants say of one call, and of the sub-agent that makes it.
FactsOf(c) ==
    /\ RowTypes /\ ApprovalTypes
    /\ CallInv(c) /\ RowStateCheck(c)
    /\ c \in InnerCall => /\ OuterOf[c] \in AgentCall /\ OuterOf[c] \in Call
                          /\ CallInv(OuterOf[c]) /\ RowStateCheck(OuterOf[c])

\* In a state of the three invariants every call has its place in order.
LEMMA FactsOfACall ==
  ASSUME Basis, EffectInv, NEW c \in Call
  PROVE  FactsOf(c)
  BY DEF FactsOf, EffectInv, Basis, RowsInv, ApprovalInv, Call, TopCall

\* After a step, too, as far as the two other invariants go.
LEMMA TypesOfBasis == Basis => RowTypes /\ ApprovalTypes
  BY DEF Basis, RowsInv, ApprovalInv

\* A new event is awaited as well.
LEMMA AwaitedAfterAppend ==
  ASSUME stream \in Seq(Event), NEW e \in Event, stream' = Append(stream, e), NEW d
  PROVE  Awaited(d)' => Awaited(d) \/ e = <<"output", d>>
<1> DEFINE longer == Append(stream, e)
<1>1. /\ Len(longer) = Len(stream) + 1
      /\ \A i \in 1 .. Len(stream) : longer[i] = stream[i]
      /\ longer[Len(stream) + 1] = e
  BY AppendProperties
<1> HIDE DEF longer
<1>2. SUFFICES ASSUME NEW i \in 1 .. Len(longer), longer[i] = <<"output", d>>
               PROVE  Awaited(d) \/ e = <<"output", d>>
  BY DEF Awaited, longer
<1>3. Len(stream) \in Nat
  BY LenProperties
<1>4. i \in 1 .. Len(stream) \/ i = Len(stream) + 1
  BY <1>1, <1>3
<1>5. QED
  BY <1>1, <1>2, <1>4 DEF Awaited

\* Nothing new is awaited when the head of the stream has been handled.
LEMMA AwaitedAfterTail ==
  ASSUME stream \in Seq(Event), stream # <<>>, stream' = Tail(stream), NEW d
  PROVE  Awaited(d)' => Awaited(d) /\ stream' # <<>>
<1>1. /\ Len(Tail(stream)) = Len(stream) - 1
      /\ \A i \in 1 .. Len(Tail(stream)) : Tail(stream)[i] = stream[i + 1]
      /\ Len(stream) \in Nat
  BY HeadTailProperties, LenProperties
<1> DEFINE rest == Tail(stream)
<1> HIDE DEF rest
<1>2. SUFFICES ASSUME NEW i \in 1 .. Len(rest), rest[i] = <<"output", d>>
               PROVE  Awaited(d) /\ rest # <<>>
  BY DEF Awaited, rest
<1>3. i + 1 \in 1 .. Len(stream) /\ stream[i + 1] = <<"output", d>>
  BY <1>1, <1>2 DEF rest
<1>4. QED
  BY <1>1, <1>2, <1>3 DEF Awaited

\* The calls of a response are announced; nothing new is awaited.
LEMMA AwaitedAfterCalled ==
  ASSUME stream \in Seq(Event), NEW called \in Seq(Event), stream' = stream \o called,
         \A i \in 1 .. Len(called) : called[i][1] = "called", NEW d
  PROVE  Awaited(d)' => Awaited(d)
<1> DEFINE longer == stream \o called
<1>1. /\ Len(longer) = Len(stream) + Len(called)
      /\ \A i \in 1 .. Len(longer) :
           longer[i] = IF i <= Len(stream) THEN stream[i] ELSE called[i - Len(stream)]
      /\ Len(stream) \in Nat /\ Len(called) \in Nat
  BY ConcatProperties, LenProperties
<1> HIDE DEF longer
<1>2. SUFFICES ASSUME NEW i \in 1 .. Len(longer), longer[i] = <<"output", d>>
               PROVE  Awaited(d)
  BY DEF Awaited, longer
<1>3. CASE i <= Len(stream)
  BY <1>1, <1>2, <1>3 DEF Awaited
<1>4. CASE ~(i <= Len(stream))
  <2>1. i - Len(stream) \in 1 .. Len(called) /\ called[i - Len(stream)] = <<"output", d>>
    BY <1>1, <1>2, <1>4
  <2>2. QED
    BY <2>1
<1>5. QED
  BY <1>3, <1>4

\* What is left of the stream is a stream.
LEMMA TailIsStream ==
  ASSUME stream \in Seq(Event), stream # <<>>
  PROVE  Tail(stream) \in Seq(Event)
  BY HeadTailProperties

\* The definitions every lemma of this section needs.
USE DEF CallInv, CourseOf, ListsOf, RowOf, EffectOf, Resting, Parked, Over, Ended, Covered, Own,
        RowTypes, ApprovalTypes, RowStateCheck, FactsOf, Recorded, TopCall, HasStatus, Outcome,
        Places, ledgerVars, pendingVars, savedVars, executorVars, KeepLedger, KeepRun, TaskAt,
        TaskTo, WriteStatus, Goto

\* A call that is prepared has had no effect before.
LEMMA PrepareKeepsEffects ==
  ASSUME Basis, EffectInv, Basis', NEW c \in Call, Prepare(c)
  PROVE  EffectInv'
<1> USE DEF Prepare, PrepareRow, Runs, NeedsApproval, Refused
<1>1. EffectTypes'
  BY DEF EffectInv, EffectTypes
<1>2. ASSUME NEW d \in Call
      PROVE  CallInv(d)'
  <2>1. Awaited(d)' <=> Awaited(d)
    BY DEF Awaited
  <2>2. FactsOf(d)
    BY FactsOfACall
  <2>3. RowTypes' /\ ApprovalTypes'
    BY DEF Basis, RowsInv, ApprovalInv
  <2>4. QED
    BY <2>1, <2>2, <2>3
<1>3. QED
  BY <1>1, <1>2 DEF EffectInv

\* A call starts running unless it is stopped or refused first.
LEMMA StartKeepsEffects ==
  ASSUME Basis, EffectInv, Basis', NEW c \in Call, Start(c)
  PROVE  EffectInv'
<1> USE DEF Start, StartRow, AddPendingCall, Runs
<1>1. EffectTypes'
  BY DEF EffectInv, EffectTypes
<1>2. ASSUME NEW d \in Call
      PROVE  CallInv(d)'
  <2>1. Awaited(d)' <=> Awaited(d)
    BY DEF Awaited
  <2>2. FactsOf(d)
    BY FactsOfACall
  <2>3. RowTypes' /\ ApprovalTypes'
    BY DEF Basis, RowsInv, ApprovalInv
  <2>4. QED
    BY <2>1, <2>2, <2>3
<1>3. QED
  BY <1>1, <1>2 DEF EffectInv

\* The one step in which a recorded call has its effect.
LEMMA RunToolKeepsEffects ==
  ASSUME Basis, EffectInv, Basis', NEW c \in Call, RunTool(c)
  PROVE  EffectInv'
<1> USE DEF RunTool, Runs, HaveEffect
<1>1. EffectTypes'
  BY DEF EffectInv, EffectTypes
<1>2. ASSUME NEW d \in Call
      PROVE  CallInv(d)'
  <2>1. Awaited(d)' <=> Awaited(d)
    BY DEF Awaited
  <2>2. FactsOf(d)
    BY FactsOfACall
  <2>3. RowTypes' /\ ApprovalTypes'
    BY DEF Basis, RowsInv, ApprovalInv
  <2>4. QED
    BY <2>1, <2>2, <2>3
<1>3. QED
  BY <1>1, <1>2 DEF EffectInv

\* A committed call has its output in the batch of the response.
LEMMA CommitKeepsEffects ==
  ASSUME Basis, EffectInv, Basis', NEW c \in Call, Commit(c)
  PROVE  EffectInv'
<1> USE DEF Commit, TerminateRow, Immediate, RemovePendingCall, Runs
<1>1. EffectTypes'
  BY DEF EffectInv, EffectTypes
<1>2. ASSUME NEW d \in Call
      PROVE  CallInv(d)'
  <2>1. Awaited(d)' <=> Awaited(d)
    BY DEF Awaited
  <2>2. FactsOf(d)
    BY FactsOfACall
  <2>3. RowTypes' /\ ApprovalTypes'
    BY DEF Basis, RowsInv, ApprovalInv
  <2>4. QED
    BY <2>1, <2>2, <2>3
<1>3. QED
  BY <1>1, <1>2 DEF EffectInv

\* So has a call settled in the catch block.
LEMMA SettleKeepsEffects ==
  ASSUME Basis, EffectInv, Basis', NEW c \in Call, Settle(c)
  PROVE  EffectInv'
<1> USE DEF Settle, TerminateRow, Immediate, RemovePendingCall, Runs
<1>1. EffectTypes'
  BY DEF EffectInv, EffectTypes
<1>2. ASSUME NEW d \in Call
      PROVE  CallInv(d)'
  <2>1. Awaited(d)' <=> Awaited(d)
    BY DEF Awaited
  <2>2. FactsOf(d)
    BY FactsOfACall
  <2>3. RowTypes' /\ ApprovalTypes'
    BY DEF Basis, RowsInv, ApprovalInv
  <2>4. QED
    BY <2>1, <2>2, <2>3
<1>3. QED
  BY <1>1, <1>2 DEF EffectInv

\* The call of a sub-agent is new.
LEMMA CallInnerKeepsEffects ==
  ASSUME Basis, EffectInv, Basis', NEW c \in Call, CallInner(c)
  PROVE  EffectInv'
<1> USE DEF CallInner, Runs
<1>1. EffectTypes'
  BY DEF EffectInv, EffectTypes
<1>2. ASSUME NEW d \in Call
      PROVE  CallInv(d)'
  <2>1. Awaited(d)' <=> Awaited(d)
    BY DEF Awaited
  <2>2. FactsOf(d)
    BY FactsOfACall
  <2>3. RowTypes' /\ ApprovalTypes'
    BY DEF Basis, RowsInv, ApprovalInv
  <2>4. QED
    BY <2>1, <2>2, <2>3
<1>3. QED
  BY <1>1, <1>2 DEF EffectInv

\* A sub-agent that returns has its output in the batch before the event of it is read.
LEMMA FinishAgentKeepsEffects ==
  ASSUME Basis, EffectInv, Basis', NEW c \in Call, FinishAgent(c)
  PROVE  EffectInv'
<1> USE DEF FinishAgent
<1>h. task'[c] = "held" => c \notin Guarded
  BY TypesOfBasis DEF HeldCallsAreGuarded, Basis, ApprovalInv, Call
<1>1. EffectTypes'
  BY AppendProperties DEF EffectInv, EffectTypes, Event
<1>2. ASSUME NEW d \in Call
      PROVE  CallInv(d)'
  <2>1. Awaited(d)' => Awaited(d) \/ (d = c /\ ~Ended /\ task'[c] = "done")
    <3>1. <<"output", c>> \in Event /\ stream \in Seq(Event)
      BY DEF Event, EffectInv, EffectTypes
    <3>2. CASE stream' = Append(stream, <<"output", c>>) /\ ~Ended /\ task'[c] = "done"
      BY <3>1, <3>2, AwaitedAfterAppend
    <3>3. CASE stream' = stream
      BY <3>3 DEF Awaited
    <3>4. QED
      BY <3>2, <3>3, TypesOfBasis
  <2>2. FactsOf(d)
    BY FactsOfACall
  <2>3. RowTypes' /\ ApprovalTypes'
    BY DEF Basis, RowsInv, ApprovalInv
  <2>4. QED
    BY <2>1, <2>2, <2>3, <1>h
<1>3. QED
  BY <1>1, <1>2 DEF EffectInv

\* So has a tool the SDK has invoked.
LEMMA InvokeKeepsEffects ==
  ASSUME Basis, EffectInv, Basis', NEW c \in Call, InvokeExtension(c)
  PROVE  EffectInv'
<1> USE DEF InvokeExtension, HaveEffect
<1>1. EffectTypes'
  BY AppendProperties DEF EffectInv, EffectTypes, Event
<1>2. ASSUME NEW d \in Call
      PROVE  CallInv(d)'
  <2>1. Awaited(d)' => Awaited(d) \/ (d = c /\ ~Ended /\ task'[c] = "done")
    <3>1. <<"output", c>> \in Event /\ stream \in Seq(Event)
      BY DEF Event, EffectInv, EffectTypes
    <3>2. CASE stream' = Append(stream, <<"output", c>>) /\ ~Ended /\ task'[c] = "done"
      BY <3>1, <3>2, AwaitedAfterAppend
    <3>3. CASE stream' = stream
      BY <3>3 DEF Awaited
    <3>4. QED
      BY <3>2, <3>3, TypesOfBasis
  <2>2. FactsOf(d)
    BY FactsOfACall
  <2>3. RowTypes' /\ ApprovalTypes'
    BY DEF Basis, RowsInv, ApprovalInv
  <2>4. QED
    BY <2>1, <2>2, <2>3
<1>3. QED
  BY <1>1, <1>2 DEF EffectInv

\* A row the projector starts is not among those a checkpoint is about to confirm.
LEMMA ProjectCalledKeepsEffects ==
  ASSUME Basis, EffectInv, Basis', NEW c \in ExtensionCall \cup AgentCall, ProjectCalled(c)
  PROVE  EffectInv'
<1> USE DEF ProjectCalled, PrepareRow, StartRow, AddPendingCall
<1>a. c \in Call
  BY DEF Call
<1>f. FactsOf(c)
  BY <1>a, FactsOfACall
<1>p. stream \in Seq(Event) /\ stream # <<>> /\ (stream' = stream \/ stream' = Tail(stream))
  BY DEF EffectInv, EffectTypes
<1>r. HasStatus(c, {"prepared"}) => c \notin terminalRead
  BY <1>f DEF Basis, RowsInv, ReadCallsHaveEnded
<1>1. EffectTypes'
  <2>1. stream' \in Seq(Event)
    BY <1>p, TailIsStream
  <2>2. QED
    BY <2>1 DEF EffectInv, EffectTypes
<1>2. ASSUME NEW d \in Call
      PROVE  CallInv(d)'
  <2>1. Awaited(d)' => Awaited(d)
    <3>1. CASE stream' = Tail(stream)
      BY <1>p, <3>1, AwaitedAfterTail
    <3>2. CASE stream' = stream
      BY <3>2 DEF Awaited
    <3>3. QED
      BY <1>p, <3>1, <3>2
  <2>2. FactsOf(d)
    BY FactsOfACall
  <2>3. RowTypes' /\ ApprovalTypes'
    BY DEF Basis, RowsInv, ApprovalInv
  <2>4. QED
    BY <2>1, <2>2, <2>3, <1>a, <1>f, <1>r
<1>3. QED
  BY <1>1, <1>2 DEF EffectInv

\* A row the projector terminates is that of a call whose output the state holds, or will.
LEMMA ProjectOutputKeepsEffects ==
  ASSUME Basis, EffectInv, Basis', NEW c \in ExtensionCall \cup AgentCall, ProjectOutput(c)
  PROVE  EffectInv'
<1> USE DEF ProjectOutput, TerminateRow, StartRow, AddPendingCall, Immediate
<1>a. c \in Call
  BY DEF Call
<1>f. FactsOf(c)
  BY <1>a, FactsOfACall
<1>p. stream \in Seq(Event) /\ stream # <<>> /\ (stream' = stream \/ stream' = Tail(stream))
  BY DEF EffectInv, EffectTypes
<1>h. Awaited(c)
  BY <1>p, HeadTailProperties DEF Awaited
<1>1. EffectTypes'
  <2>1. stream' \in Seq(Event)
    BY <1>p, TailIsStream
  <2>2. QED
    BY <2>1 DEF EffectInv, EffectTypes
<1>2. ASSUME NEW d \in Call
      PROVE  CallInv(d)'
  <2>1. Awaited(d)' => Awaited(d)
    <3>1. CASE stream' = Tail(stream)
      BY <1>p, <3>1, AwaitedAfterTail
    <3>2. CASE stream' = stream
      BY <3>2 DEF Awaited
    <3>3. QED
      BY <1>p, <3>1, <3>2
  <2>2. FactsOf(d)
    BY FactsOfACall
  <2>3. RowTypes' /\ ApprovalTypes'
    BY DEF Basis, RowsInv, ApprovalInv
  <2>4. QED
    BY <2>1, <2>2, <2>3, <1>a, <1>f, <1>h
<1>3. QED
  BY <1>1, <1>2 DEF EffectInv

\* At the final output no call is under way.
LEMMA FinalOutputKeepsEffects ==
  ASSUME Basis, EffectInv, Basis', FinalOutput
  PROVE  EffectInv'
<1> USE DEF FinalOutput
<1>1. EffectTypes'
  BY DEF EffectInv, EffectTypes
<1>2. ASSUME NEW d \in Call
      PROVE  CallInv(d)'
  <2>1. Awaited(d)' <=> Awaited(d)
    BY DEF Awaited
  <2>2. FactsOf(d)
    BY FactsOfACall
  <2>3. RowTypes' /\ ApprovalTypes'
    BY DEF Basis, RowsInv, ApprovalInv
  <2>4. QED
    BY <2>1, <2>2, <2>3
<1>3. QED
  BY <1>1, <1>2 DEF EffectInv

\* The outputs of a response join the live state.
LEMMA FinishToolsKeepsEffects ==
  ASSUME Basis, EffectInv, Basis', FinishTools
  PROVE  EffectInv'
<1> USE DEF FinishTools
<1>1. EffectTypes'
  BY TypesOfBasis DEF EffectInv, EffectTypes
<1>2. ASSUME NEW d \in Call
      PROVE  CallInv(d)'
  <2>1. Awaited(d)' <=> Awaited(d)
    BY DEF Awaited
  <2>2. FactsOf(d)
    BY FactsOfACall
  <2>3. RowTypes' /\ ApprovalTypes'
    BY DEF Basis, RowsInv, ApprovalInv
  <2>4. QED
    BY <2>1, <2>2, <2>3
<1>3. QED
  BY <1>1, <1>2 DEF EffectInv

\* What checkpointTerminalCallIds returns has its output in the live state.
LEMMA ReadTerminalsKeepsEffects ==
  ASSUME Basis, EffectInv, Basis', ReadTerminals
  PROVE  EffectInv'
<1> USE DEF ReadTerminals, TerminalCalls
<1>1. EffectTypes'
  BY DEF EffectInv, EffectTypes
<1>2. ASSUME NEW d \in Call
      PROVE  CallInv(d)'
  <2>1. Awaited(d)' <=> Awaited(d)
    BY DEF Awaited
  <2>2. FactsOf(d)
    BY FactsOfACall
  <2>3. RowTypes' /\ ApprovalTypes'
    BY DEF Basis, RowsInv, ApprovalInv
  <2>4. QED
    BY <2>1, <2>2, <2>3
<1>3. QED
  BY <1>1, <1>2 DEF EffectInv

\* A checkpoint confirms calls whose outputs it saves, and suspends at calls not started.
LEMMA SaveCheckpointKeepsEffects ==
  ASSUME Basis, EffectInv, Basis', SaveCheckpoint
  PROVE  EffectInv'
<1> USE DEF SaveCheckpoint
<1>r. \A c \in terminalRead : terminalOutcome[c] # "none"
  BY DEF Basis, RowsInv, ReadCallsHaveEnded
<1>1. EffectTypes'
  BY TypesOfBasis DEF EffectInv, EffectTypes
<1>2. ASSUME NEW d \in Call
      PROVE  CallInv(d)'
  <2>1. Awaited(d)' <=> Awaited(d)
    BY DEF Awaited
  <2>2. FactsOf(d)
    BY FactsOfACall
  <2>3. RowTypes' /\ ApprovalTypes'
    BY DEF Basis, RowsInv, ApprovalInv
  <2>4. QED
    BY <2>1, <2>2, <2>3, <1>r
<1>3. QED
  BY <1>1, <1>2 DEF EffectInv

\* Approval is asked for when nothing is under way.
LEMMA WaitForApprovalKeepsEffects ==
  ASSUME Basis, EffectInv, Basis', WaitForApproval
  PROVE  EffectInv'
<1> USE DEF WaitForApproval
<1>1. EffectTypes'
  BY DEF EffectInv, EffectTypes
<1>2. ASSUME NEW d \in Call
      PROVE  CallInv(d)'
  <2>1. Awaited(d)' <=> Awaited(d)
    BY DEF Awaited
  <2>2. FactsOf(d)
    BY FactsOfACall
  <2>3. RowTypes' /\ ApprovalTypes'
    BY DEF Basis, RowsInv, ApprovalInv
  <2>4. QED
    BY <2>1, <2>2, <2>3
<1>3. QED
  BY <1>1, <1>2 DEF EffectInv

\* A decision changes a record that said pending.
LEMMA DecideKeepsEffects ==
  ASSUME Basis, EffectInv, Basis', Decide
  PROVE  EffectInv'
<1> USE DEF Decide
<1>1. EffectTypes'
  BY DEF EffectInv, EffectTypes
<1>2. ASSUME NEW d \in Call
      PROVE  CallInv(d)'
  <2>1. Awaited(d)' <=> Awaited(d)
    BY DEF Awaited
  <2>2. FactsOf(d)
    BY FactsOfACall
  <2>3. RowTypes' /\ ApprovalTypes'
    BY DEF Basis, RowsInv, ApprovalInv
  <2>4. QED
    BY <2>1, <2>2, <2>3
<1>3. QED
  BY <1>1, <1>2 DEF EffectInv

\* The end of a run, or its next response, follows a checkpoint.
LEMMA DeliverKeepsEffects ==
  ASSUME Basis, EffectInv, Basis', Deliver
  PROVE  EffectInv'
<1> USE DEF Deliver, EndInFailure
<1>1. EffectTypes'
  BY DEF EffectInv, EffectTypes
<1>2. ASSUME NEW d \in Call
      PROVE  CallInv(d)'
  <2>1. Awaited(d)' <=> Awaited(d)
    BY DEF Awaited
  <2>2. FactsOf(d)
    BY FactsOfACall
  <2>3. RowTypes' /\ ApprovalTypes'
    BY DEF Basis, RowsInv, ApprovalInv
  <2>4. QED
    BY <2>1, <2>2, <2>3
<1>3. QED
  BY <1>1, <1>2 DEF EffectInv

\* A cancellation leaves the calls alone.
LEMMA CancelKeepsEffects ==
  ASSUME Basis, EffectInv, Basis', Cancel
  PROVE  EffectInv'
<1> USE DEF Cancel
<1>1. EffectTypes'
  BY DEF EffectInv, EffectTypes
<1>2. ASSUME NEW d \in Call
      PROVE  CallInv(d)'
  <2>1. Awaited(d)' <=> Awaited(d)
    BY DEF Awaited
  <2>2. FactsOf(d)
    BY FactsOfACall
  <2>3. RowTypes' /\ ApprovalTypes'
    BY DEF Basis, RowsInv, ApprovalInv
  <2>4. QED
    BY <2>1, <2>2, <2>3
<1>3. QED
  BY <1>1, <1>2 DEF EffectInv

\* An executor that fails leaves the run over.
LEMMA ThrowKeepsEffects ==
  ASSUME Basis, EffectInv, Basis', ExecutorThrows
  PROVE  EffectInv'
<1> USE DEF ExecutorThrows, EndInFailure
<1>1. EffectTypes'
  BY TypesOfBasis, EmptySeq DEF EffectInv, EffectTypes, Call
<1>2. ASSUME NEW d \in Call
      PROVE  CallInv(d)'
  <2>1. ~Awaited(d)'
    BY EmptySeq DEF Awaited
  <2>2. FactsOf(d)
    BY FactsOfACall
  <2>3. RowTypes' /\ ApprovalTypes'
    BY DEF Basis, RowsInv, ApprovalInv
  <2>4. QED
    BY <2>1, <2>2, <2>3
<1>3. QED
  BY <1>1, <1>2 DEF EffectInv

\* A crash takes every call off its way; a run that was executing is over.
LEMMA CrashKeepsEffects ==
  ASSUME Basis, EffectInv, Basis', Crash
  PROVE  EffectInv'
<1> USE DEF Crash
<1>s. phase # "off" => runStatus \in {"running", "cancelled"}
  BY DEF EffectInv, EffectTypes
<1>1. EffectTypes'
  BY TypesOfBasis, EmptySeq DEF EffectInv, EffectTypes, Call
<1>2. ASSUME NEW d \in Call
      PROVE  CallInv(d)'
  <2>1. ~Awaited(d)'
    BY EmptySeq DEF Awaited
  <2>2. FactsOf(d)
    BY FactsOfACall
  <2>3. RowTypes' /\ ApprovalTypes'
    BY DEF Basis, RowsInv, ApprovalInv
  <2>4. QED
    BY <2>1, <2>2, <2>3, <1>s
<1>3. QED
  BY <1>1, <1>2 DEF EffectInv

\* A run found orphaned is over until it is resumed.
LEMMA RecoverKeepsEffects ==
  ASSUME Basis, EffectInv, Basis', Recover
  PROVE  EffectInv'
<1> USE DEF Recover, OrphanStatuses
<1>s. phase = "off"
  BY DEF EffectInv, EffectTypes
<1>1. EffectTypes'
  BY TypesOfBasis DEF EffectInv, EffectTypes
<1>2. ASSUME NEW d \in Call
      PROVE  CallInv(d)'
  <2>1. Awaited(d)' <=> Awaited(d)
    BY DEF Awaited
  <2>2. FactsOf(d)
    BY FactsOfACall
  <2>3. RowTypes' /\ ApprovalTypes'
    BY DEF Basis, RowsInv, ApprovalInv
  <2>4. QED
    BY <2>1, <2>2, <2>3, <1>s
<1>3. QED
  BY <1>1, <1>2 DEF EffectInv

\* An execution may begin with the saved state when that holds the outputs of all calls that
\* have ended, and the calls it is suspended at have had no effect.
LEMMA ExecuteKeepsEffects ==
  ASSUME Basis, EffectInv, Basis', phase = "off", up, NEW refused \in SUBSET Call, Execute(refused),
         \A c \in refused : c \in savedInterruptions \cap Guarded /\ decision[c] = "rejected",
         \A c \in TopCall : started[c] /\ HasStatus(c, Outcome) => c \in savedCalls,
         \A c \in savedInterruptions \cap TopCall : started[c] => HasStatus(c, {"running"}),
         \A c \in savedInterruptions \cap Own : ~started[c]
  PROVE  EffectInv'
<1> USE DEF Execute
<1>1. EffectTypes'
  BY TypesOfBasis, EmptySeq DEF EffectInv, EffectTypes, Call
<1>2. ASSUME NEW d \in Call
      PROVE  CallInv(d)'
  <2>1. ~Awaited(d)'
    BY EmptySeq DEF Awaited
  <2>2. FactsOf(d)
    BY FactsOfACall
  <2>3. RowTypes' /\ ApprovalTypes'
    BY DEF Basis, RowsInv, ApprovalInv
  <2>4. QED
    BY <2>1, <2>2, <2>3
<1>3. QED
  BY <1>1, <1>2 DEF EffectInv

\* Nothing has changed.
LEMMA StutterKeepsEffects ==
  ASSUME Basis, EffectInv, Basis', UNCHANGED vars
  PROVE  EffectInv'
<1> USE DEF vars
<1>1. EffectTypes'
  BY DEF EffectInv, EffectTypes
<1>2. ASSUME NEW d \in Call
      PROVE  CallInv(d)'
  <2>1. Awaited(d)' <=> Awaited(d)
    BY DEF Awaited
  <2>2. FactsOf(d)
    BY FactsOfACall
  <2>3. RowTypes' /\ ApprovalTypes'
    BY DEF Basis, RowsInv, ApprovalInv
  <2>4. QED
    BY <2>1, <2>2, <2>3
<1>3. QED
  BY <1>1, <1>2 DEF EffectInv

\* The calls of a response are new.
LEMMA RequestToolsKeepsEffects ==
  ASSUME Basis, EffectInv, Basis', NEW calls \in SUBSET TopCall, RequestTools(calls)
  PROVE  EffectInv'
<1>1. PICK order \in [1 .. Cardinality(calls \ PlatformCall) -> calls \ PlatformCall] :
        stream' = stream \o [i \in DOMAIN order |-> <<"called", order[i]>>]
  BY Zenon DEF RequestTools
<1>2. IsFiniteSet(calls)
  BY DEF RequestTools
<1> DEFINE called == [i \in DOMAIN order |-> <<"called", order[i]>>]
<1>3. called \in Seq(Event)
  BY <1>1, <1>2, CalledEventsAreEvents
<1>4. stream' = stream \o called /\ stream \in Seq(Event)
  BY <1>1 DEF EffectInv, EffectTypes
<1>5. \A i \in 1 .. Len(called) : called[i][1] = "called"
  <2>1. Cardinality(calls \ PlatformCall) \in Nat
    BY <1>2, FS_Difference, FS_CardinalityType
  <2>2. Len(called) = Cardinality(calls \ PlatformCall)
    BY <2>1
  <2>3. QED
    BY <2>2
<1> HIDE DEF called
<1>6. EffectTypes'
  BY <1>3, <1>4, ConcatProperties
     DEF RequestTools, EffectInv, EffectTypes
<1>7. /\ task' = [c \in Call |-> IF c \in calls THEN "called" ELSE task[c]]
      /\ \A c \in calls : HasStatus(c, {"absent"}) /\ task[c] = "none"
      /\ batch' = calls /\ phase = "model" /\ phase' = "tools"
      /\ UNCHANGED <<ledgerVars, decision, savedVars, outputs, terminalRead, runStatus, effects>>
  BY DEF RequestTools
<1>8. ASSUME NEW d \in Call
      PROVE  CallInv(d)'
  <2>1. Awaited(d)' => Awaited(d)
    BY <1>3, <1>4, <1>5, AwaitedAfterCalled
  <2>2. FactsOf(d)
    BY FactsOfACall
  <2>3. RowTypes' /\ ApprovalTypes'
    BY DEF Basis, RowsInv, ApprovalInv
  <2>4. QED
    BY <1>7, <2>1, <2>2, <2>3
<1>9. QED
  BY <1>6, <1>8 DEF EffectInv

\* A new run has no saved state; one whose approval has been decided starts from a state in
\* which nothing is under way.
LEMMA StartQueuedKeepsEffects ==
  ASSUME Basis, EffectInv, Basis', StartQueued
  PROVE  EffectInv'
<1> DEFINE refused == { c \in savedInterruptions : Refused(c) }
<1>1. phase = "off" /\ up /\ runStatus = "queued" /\ Execute(refused)
  BY DEF StartQueued
<1>2. \A c \in refused : c \in savedInterruptions \cap Guarded /\ decision[c] = "rejected"
  BY DEF Refused
<1>3. refused \in SUBSET Call
  BY <1>2, TypesOfBasis
<1> HIDE DEF refused
<1>4. \A c \in TopCall : started[c] /\ HasStatus(c, Outcome) => c \in savedCalls
  <2>1. SUFFICES ASSUME NEW c \in TopCall, started[c], HasStatus(c, Outcome)
                 PROVE  c \in savedCalls
    OBVIOUS
  <2>2. FactsOf(c)
    BY FactsOfACall DEF Call
  <2>3. QED
    BY <1>1, <2>1, <2>2
<1>5. \A c \in savedInterruptions \cap TopCall : started[c] => HasStatus(c, {"running"})
  <2>1. SUFFICES ASSUME NEW c \in savedInterruptions \cap TopCall, started[c]
                 PROVE  HasStatus(c, {"running"})
    OBVIOUS
  <2>2. FactsOf(c)
    BY FactsOfACall DEF Call
  <2>3. QED
    BY <1>1, <2>1, <2>2
<1>6. \A c \in savedInterruptions \cap Own : ~started[c]
  <2>1. SUFFICES ASSUME NEW c \in savedInterruptions \cap Own
                 PROVE  ~started[c]
    OBVIOUS
  <2>2. FactsOf(c)
    BY FactsOfACall DEF Call
  <2>3. QED
    BY <1>1, <2>1, <2>2
<1>7. QED
  BY <1>1, <1>2, <1>3, <1>4, <1>5, <1>6, ExecuteKeepsEffects

\* When nothing is pending, every call that has been started is confirmed.
LEMMA NothingPendingIsConfirmed ==
  ASSUME Basis, pendingToolCallIds = {}, NEW c \in Call, started[c]
  PROVE  HasStatus(c, {"checkpointed"})
  BY DEF Basis, RowsInv, PendingAreTheUnconfirmedCalls

\* A run that may be resumed has no call that is both started and unconfirmed: none that the
\* saved state is suspended at has been started, and all that have ended are in it.
LEMMA ResumeKeepsEffects ==
  ASSUME Basis, EffectInv, Basis', Resume
  PROVE  EffectInv'
<1>1. phase = "off" /\ up /\ pendingToolCallIds = {} /\ Execute({})
  BY DEF Resume, Resumable
<1>2. \A c \in TopCall : started[c] /\ HasStatus(c, Outcome) => c \in savedCalls
  BY <1>1, NothingPendingIsConfirmed DEF Call
<1>3. \A c \in savedInterruptions \cap TopCall : ~started[c]
  <2>1. SUFFICES ASSUME NEW c \in savedInterruptions \cap TopCall, started[c]
                 PROVE  FALSE
    OBVIOUS
  <2>2. FactsOf(c)
    BY FactsOfACall DEF Call
  <2>3. QED
    BY <1>1, <2>1, <2>2, NothingPendingIsConfirmed DEF Call
<1>4. \A c \in savedInterruptions \cap Own : ~started[c]
  <2>1. SUFFICES ASSUME NEW c \in savedInterruptions \cap InnerCall
                 PROVE  FALSE
    BY <1>3
  <2>2. FactsOf(c)
    BY FactsOfACall DEF Call
  <2>3. QED
    BY <1>3, <2>1, <2>2
<1>5. QED
  BY <1>1, <1>2, <1>3, <1>4, ExecuteKeepsEffects

\* A run that has been created has no call.
LEMMA EffectInvInit == LedgerInit => EffectInv
<1> SUFFICES ASSUME LedgerInit
             PROVE  EffectInv
  OBVIOUS
<1>1. EffectTypes
  BY EmptySeq DEF LedgerInit, EffectTypes
<1>2. ASSUME NEW c \in Call
      PROVE  CallInv(c)
  <2>1. ~Awaited(c)
    BY EmptySeq DEF LedgerInit, Awaited
  <2>2. QED
    BY <2>1 DEF LedgerInit
<1>3. QED
  BY <1>1, <1>2 DEF EffectInv

\* EffectInv is inductive relative to the two other invariants: one case for each disjunct of
\* LedgerNext.
LEMMA StepKeepsEffects ==
  ASSUME Basis, EffectInv, Basis', [LedgerNext]_vars
  PROVE  EffectInv'
<1>1. ASSUME NEW c \in Call, CallStep(c) \/ CallInner(c)
      PROVE  EffectInv'
  BY <1>1, PrepareKeepsEffects, StartKeepsEffects, RunToolKeepsEffects, CommitKeepsEffects,
     SettleKeepsEffects, CallInnerKeepsEffects, FinishAgentKeepsEffects, InvokeKeepsEffects,
     ThrowKeepsEffects, Zenon
     DEF CallStep, RefusedCallThrows
<1>2. CASE ProjectorStep
  BY <1>2, ProjectCalledKeepsEffects, ProjectOutputKeepsEffects, Zenon DEF ProjectorStep
<1>3. CASE RunStep
  BY <1>3, StartQueuedKeepsEffects, FinalOutputKeepsEffects, RequestToolsKeepsEffects,
     FinishToolsKeepsEffects, ReadTerminalsKeepsEffects, SaveCheckpointKeepsEffects,
     WaitForApprovalKeepsEffects, DeliverKeepsEffects, Zenon
     DEF RunStep, Respond
<1>4. CASE Resume \/ Decide \/ Cancel \/ ExecutorThrows \/ Crash \/ Recover
  BY <1>4, ResumeKeepsEffects, DecideKeepsEffects, CancelKeepsEffects, ThrowKeepsEffects,
     CrashKeepsEffects, RecoverKeepsEffects, Zenon
<1>5. CASE UNCHANGED vars
  BY <1>5, StutterKeepsEffects
<1>6. QED
  BY <1>1, <1>2, <1>3, <1>4, <1>5, Zenon DEF LedgerNext

\* The three invariants together are an invariant of the specification.
LEMMA EffectInvHolds == LedgerSpec => [](Basis /\ EffectInv)
<1>1. LedgerInit => Basis /\ EffectInv
  BY RowsInvInit, ApprovalInvInit, EffectInvInit DEF Basis
<1>2. Basis /\ EffectInv /\ [LedgerNext]_vars => (Basis /\ EffectInv)'
  <2> SUFFICES ASSUME Basis, EffectInv, [LedgerNext]_vars
               PROVE  Basis' /\ EffectInv'
    OBVIOUS
  <2>1. Basis'
    BY StepPreservesRows, StepPreservesApproval, Zenon DEF Basis
  <2>2. QED
    BY <2>1, StepKeepsEffects
<1>3. QED
  BY <1>1, <1>2, PTL DEF LedgerSpec

\* No platform call, sub-agent or call of a sub-agent has its side effect twice, although an
\* approved call is prepared, started and executed again from the saved state after a crash
\* (ToolExecutionCoordinator.execute, assertRunCheckpointResumable).
THEOREM EffectsHappenOnce == LedgerSpec => []EffectAtMostOnce
<1>1. Basis /\ EffectInv => EffectAtMostOnce
  <2> SUFFICES ASSUME Basis, EffectInv, NEW c \in Recorded
               PROVE  effects[c] <= 1
    BY DEF EffectAtMostOnce
  <2>1. FactsOf(c)
    BY FactsOfACall
  <2>2. QED
    BY <2>1
<1>2. QED
  BY <1>1, EffectInvHolds, PTL

\* The output of a call the ledger says is confirmed is in the saved state, or the sub-agent
\* the call belongs to is known or unresolved; although checkpointTerminalCallIds reads the
\* terminal calls before saveAgentsSdkCheckpoint saves the state.
THEOREM ConfirmedEffectsAreKept == LedgerSpec => []ConfirmedEffectsAreSaved
<1>1. Basis /\ EffectInv => ConfirmedEffectsAreSaved
  <2> SUFFICES ASSUME Basis, EffectInv, NEW c \in Call,
                      HasStatus(c, {"checkpointed"}), effects[c] > 0
               PROVE  Known(c) \/ (c \in InnerCall /\ OuterOf[c] \in pendingToolCallIds)
    BY DEF ConfirmedEffectsAreSaved
  <2>1. FactsOf(c)
    BY FactsOfACall
  <2>2. CASE c \in TopCall
    <3>1. CASE started[c]
      BY <2>1, <2>2, <3>1 DEF Known
    <3>2. CASE ~started[c]
      <4>1. c \in ExtensionCall \/ c \in AgentCall
        BY <2>1, <2>2, <3>2
      <4>2. terminalOutcome[c] = "rejected"
        BY <2>1, <3>2 DEF Call
      <4>3. CASE c \in ExtensionCall
        BY <2>1, <4>2, <4>3 DEF Basis, ApprovalInv, GuardedEffectsAreApproved
      <4>4. CASE c \in AgentCall
        BY <2>1, <4>4
      <4>5. QED
        BY <4>1, <4>3, <4>4
    <3>3. QED
      BY <2>1, <3>1, <3>2
  <2>3. CASE c \in InnerCall
    <3>1. started[OuterOf[c]] /\ OuterOf[c] \in Call
      BY <2>1, <2>3
    <3>2. CASE HasStatus(OuterOf[c], {"checkpointed"})
      BY <2>1, <2>3, <3>1, <3>2 DEF Known
    <3>3. CASE ~HasStatus(OuterOf[c], {"checkpointed"})
      BY <2>3, <3>1, <3>3 DEF Basis, RowsInv, PendingAreTheUnconfirmedCalls
    <3>4. QED
      BY <3>2, <3>3
  <2>4. QED
    BY <2>2, <2>3 DEF Call
<1>2. QED
  BY <1>1, EffectInvHolds, PTL

\* "An unknown side effect must not be repeated automatically": whatever the instant of a
\* crash, the saved state of a run that assertRunCheckpointResumable lets go on holds the
\* result of every side effect of a recorded call, or of the sub-agent that made the call.
THEOREM ResumedRunsKnowEveryEffect == LedgerSpec => []ResumableKnowsEveryEffect
<1>1. Basis /\ EffectInv => ResumableKnowsEveryEffect
  <2> SUFFICES ASSUME Basis, EffectInv, Resumable, NEW c \in Recorded, effects[c] > 0
               PROVE  Known(c)
    BY DEF ResumableKnowsEveryEffect
  <2>1. FactsOf(c) /\ c \in Call
    BY FactsOfACall
  <2>2. pendingToolCallIds = {}
    BY DEF Resumable
  <2>3. CASE c \in PlatformCall
    BY <2>1, <2>2, <2>3, NothingPendingIsConfirmed DEF Known
  <2>4. CASE c \in InnerCall
    BY <2>1, <2>2, <2>4, NothingPendingIsConfirmed DEF Known
  <2>5. CASE c \in AgentCall
    BY <2>1, <2>5
  <2>6. QED
    BY <2>1, <2>3, <2>4, <2>5 DEF Call
<1>2. QED
  BY <1>1, EffectInvHolds, PTL
=====================================================================================
