------------------------------ MODULE RunInputMailbox ------------------------------
(***************************************************************************)
(* The durable input mailbox of ONE run: the rows of platform_run_inputs,  *)
(* the run's checkpoint columns, the active model request and the terminal *)
(* claim, as the transactions of the PostgreSQL repositories change them.  *)
(*                                                                         *)
(* Every public repository method is one transaction that locks the run    *)
(* row (FOR UPDATE), so every action below is one whole method. A method   *)
(* that throws rolls its transaction back: it is an action that is not     *)
(* enabled. A method that returns without writing (an idempotent retry, a  *)
(* superseded claim, an empty lease) is a stuttering step.                 *)
(*                                                                         *)
(* The callers are unconstrained here (any method, any time, any argument):*)
(* RunExecution composes this mailbox with the executor that calls it.     *)
(***************************************************************************)
EXTENDS Integers

CONSTANTS
    Input,      \* ids of steering inputs (inputId)
    Lease,      \* ids of input leases (makeId('input_lease'))
    Request,    \* ids of model requests; a request and its step are one to one
    Claim,      \* ids of terminal claims
    Content,    \* content hashes of serialised SDK states
    None        \* SQL NULL

ASSUME NoneAssumption ==
    /\ None \notin Input
    /\ None \notin Lease
    /\ None \notin Request
    /\ None \notin Claim
    /\ None \notin Content

RunStatus ==
    { "queued", "running", "clarification_needed", "waiting_approval",
      "completed", "failed", "cancelled", "interrupted", "requires_action" }

InputStatus == { "absent", "queued", "leased", "included", "checkpointed" }

VARIABLES
    status,                    \* authoritative snapshot status
    inputStatus,               \* platform_run_inputs.status, "absent" = no row
    inputSequence,             \* platform_run_inputs.input_sequence, 0 = no row
    inputLease,                \* platform_run_inputs.lease_id
    inputRequest,              \* platform_run_inputs.model_request_id
    nextInputSequence,
    checkpointInputCursor,
    activeInputLeaseId,
    activeInputLeaseFrom,      \* 0 = NULL
    activeInputLeaseTo,        \* 0 = NULL
    activeModelRequestId,
    requestInputs,             \* request -> inputEntryIds of its record
    committedRequests,         \* the rows of platform_model_request_records
    sdkStateContentHash,
    terminalInputClaimId,
    terminalObjectiveRevision, \* 0 = NULL
    terminalInputCursor        \* 0 = NULL (the claim id tells)

inputVars == <<inputStatus, inputSequence, inputLease, inputRequest>>
leaseVars == <<activeInputLeaseId, activeInputLeaseFrom, activeInputLeaseTo>>
requestVars == <<activeModelRequestId, requestInputs, committedRequests>>
claimVars == <<terminalInputClaimId, terminalObjectiveRevision, terminalInputCursor>>

mailboxVars ==
    <<status, inputVars, nextInputSequence, checkpointInputCursor, leaseVars,
      requestVars, sdkStateContentHash, claimVars>>

TypeOK ==
    /\ status \in RunStatus
    /\ inputStatus \in [Input -> InputStatus]
    /\ inputSequence \in [Input -> Nat]
    /\ inputLease \in [Input -> Lease \cup {None}]
    /\ inputRequest \in [Input -> Request \cup {None}]
    /\ nextInputSequence \in Nat \ {0}
    /\ checkpointInputCursor \in Nat
    /\ activeInputLeaseId \in Lease \cup {None}
    /\ activeInputLeaseFrom \in Nat
    /\ activeInputLeaseTo \in Nat
    /\ activeModelRequestId \in Request \cup {None}
    /\ requestInputs \in [Request -> SUBSET Input]
    /\ committedRequests \in SUBSET Request
    /\ sdkStateContentHash \in Content \cup {None}
    /\ terminalInputClaimId \in Claim \cup {None}
    /\ terminalObjectiveRevision \in Nat
    /\ terminalInputCursor \in Nat

(* A run is created queued, with an empty mailbox. *)
Init ==
    /\ status = "queued"
    /\ inputStatus = [i \in Input |-> "absent"]
    /\ inputSequence = [i \in Input |-> 0]
    /\ inputLease = [i \in Input |-> None]
    /\ inputRequest = [i \in Input |-> None]
    /\ nextInputSequence = 1
    /\ checkpointInputCursor = 0
    /\ activeInputLeaseId = None
    /\ activeInputLeaseFrom = 0
    /\ activeInputLeaseTo = 0
    /\ activeModelRequestId = None
    /\ requestInputs = [r \in Request |-> {}]
    /\ committedRequests = {}
    /\ sdkStateContentHash = None
    /\ terminalInputClaimId = None
    /\ terminalObjectiveRevision = 0
    /\ terminalInputCursor = 0

------------------------------------------------------------------------------------
(* Row selections and the contiguity assertion of the repositories. *)

RowsWithStatus(statuses) == { i \in Input : inputStatus[i] \in statuses }

\* The queued rows behind the cursor, what leaseRunInputs selects.
QueuedRows == { i \in RowsWithStatus({"queued"}) : inputSequence[i] > checkpointInputCursor }

\* The rows the active lease holds, whatever the phase of their delivery.
ActiveLeaseRows ==
    { i \in RowsWithStatus({"leased", "included"}) : inputLease[i] = activeInputLeaseId }

\* assertContiguousInputPrefix / assertAckPrefix: the rows, sorted by sequence, are
\* exactly from, from + 1, ..., to.
Contiguous(rows, from, to) ==
    /\ \A i \in rows : inputSequence[i] \in from..to
    /\ \A n \in from..to : \E i \in rows : inputSequence[i] = n
    /\ \A i, j \in rows : inputSequence[i] = inputSequence[j] => i = j

AllHaveStatus(rows, s) == \A i \in rows : inputStatus[i] = s

(* The CHECK constraints of the table platform_runs: a transaction whose row *)
(* breaks one is aborted by the database.                                    *)
InputCursorCheck ==
    /\ nextInputSequence > 0
    /\ checkpointInputCursor >= 0
    /\ checkpointInputCursor < nextInputSequence
    /\ \/ /\ activeInputLeaseId = None
          /\ activeInputLeaseFrom = 0
          /\ activeInputLeaseTo = 0
       \/ /\ activeInputLeaseId # None
          /\ activeInputLeaseFrom = checkpointInputCursor + 1
          /\ activeInputLeaseTo >= activeInputLeaseFrom
          /\ activeInputLeaseTo < nextInputSequence

TerminalClaimCheck ==
    \/ /\ terminalInputClaimId = None
       /\ terminalObjectiveRevision = 0
       /\ terminalInputCursor = 0
    \/ /\ terminalInputClaimId # None
       /\ terminalObjectiveRevision = nextInputSequence
       /\ terminalInputCursor = checkpointInputCursor
       /\ activeInputLeaseId = None

------------------------------------------------------------------------------------
(* The decisions the transactions turn on. The operators marked (mutant) are wrong on   *)
(* purpose: each is a plausible slip in the definition that follows it, substituted for *)
(* it to see which property notices.                                                     *)

\* (mutant) the claim check of enqueueRunInput and commitModelRequest is forgotten
AcceptsInputAfterClaim == status = "running"

\* The two guards enqueueRunInput and commitModelRequest share.
AcceptsInput ==
    /\ status = "running"
    /\ terminalInputClaimId = None

\* The number enqueueRunInput gives to the next input.
AssignedSequence == nextInputSequence

\* The last row of the lease that leaseRunInputs opens.
LeaseEnd == nextInputSequence - 1

\* (mutant) requeueing a lease whatever became of it
RequeueAlways == TRUE

\* requeueLeasedRunInputs returns the lease only if no request has bound its rows.
NotYetIncluded == AllHaveStatus(ActiveLeaseRows, "leased")

\* (mutant) opening a request beside the active one
RequestsMayOverlap == TRUE

\* commitModelRequest opens a request only when none is active.
NoActiveRequest == activeModelRequestId = None

\* A checkpoint without an ack is refused while a lease is open.
NoUnackedLease == activeInputLeaseId = None

\* (mutant) acknowledging everything queued so far
AckedUpToRevision == nextInputSequence - 1

\* Where an acknowledged lease moves the cursor: its last row.
AckedCursor == activeInputLeaseTo

\* (mutant) a later claim replaces the first
ClaimReplaceable == TRUE

\* tryClaimTerminalInput writes only where there is no claim yet.
Unclaimed == terminalInputClaimId = None

------------------------------------------------------------------------------------
(* The transactions. *)

\* PostgresRunInputRepository.enqueueRunInput, the path that accepts a new input.
EnqueueRunInput(i) ==
    /\ inputStatus[i] = "absent"
    /\ AcceptsInput
    /\ inputStatus' = [inputStatus EXCEPT ![i] = "queued"]
    /\ inputSequence' = [inputSequence EXCEPT ![i] = AssignedSequence]
    /\ nextInputSequence' = nextInputSequence + 1
    /\ UNCHANGED <<status, inputLease, inputRequest, checkpointInputCursor, leaseVars,
                   requestVars, sdkStateContentHash, claimVars>>

\* leaseRunInputs, the path that leases every queued input. The method itself tests
\* neither the status nor the claim: only the table constraint stops a lease that
\* would follow a terminal claim.
LeaseRunInputs(l) ==
    /\ activeInputLeaseId = None
    /\ QueuedRows # {}
    /\ Contiguous(QueuedRows, checkpointInputCursor + 1, nextInputSequence - 1)
    /\ activeInputLeaseId' = l
    /\ activeInputLeaseFrom' = checkpointInputCursor + 1
    /\ activeInputLeaseTo' = LeaseEnd
    /\ inputStatus' = [i \in Input |-> IF i \in QueuedRows THEN "leased" ELSE inputStatus[i]]
    /\ inputLease' = [i \in Input |-> IF i \in QueuedRows THEN l ELSE inputLease[i]]
    /\ UNCHANGED <<status, inputSequence, inputRequest, nextInputSequence,
                   checkpointInputCursor, requestVars, sdkStateContentHash, claimVars>>
    /\ TerminalClaimCheck'

\* requeueLeasedRunInputs, the path that gives back a lease no request has bound yet.
RequeueLeasedRunInputs ==
    /\ activeInputLeaseId # None
    /\ activeInputLeaseFrom = checkpointInputCursor + 1
    /\ ActiveLeaseRows # {}
    /\ Contiguous(ActiveLeaseRows, activeInputLeaseFrom, activeInputLeaseTo)
    /\ NotYetIncluded
    /\ inputStatus' = [i \in Input |-> IF i \in ActiveLeaseRows THEN "queued" ELSE inputStatus[i]]
    /\ inputLease' = [i \in Input |-> IF i \in ActiveLeaseRows THEN None ELSE inputLease[i]]
    /\ activeInputLeaseId' = None
    /\ activeInputLeaseFrom' = 0
    /\ activeInputLeaseTo' = 0
    /\ UNCHANGED <<status, inputSequence, inputRequest, nextInputSequence,
                   checkpointInputCursor, requestVars, sdkStateContentHash, claimVars>>

\* PostgresModelRequestRepository.commitModelRequest, the path that opens a new request
\* and binds the leased inputs to it.
CommitModelRequest(r) ==
    LET rows == IF activeInputLeaseId = None THEN {} ELSE ActiveLeaseRows IN
    /\ AcceptsInput
    /\ activeInputLeaseId # None
         => /\ rows # {}
            /\ Contiguous(rows, activeInputLeaseFrom, activeInputLeaseTo)
            /\ AllHaveStatus(rows, "leased")
    /\ r \notin committedRequests
    /\ NoActiveRequest
    /\ committedRequests' = committedRequests \cup {r}
    /\ requestInputs' = [requestInputs EXCEPT ![r] = rows]
    /\ activeModelRequestId' = r
    /\ inputStatus' = [i \in Input |-> IF i \in rows THEN "included" ELSE inputStatus[i]]
    /\ inputRequest' = [i \in Input |-> IF i \in rows THEN r ELSE inputRequest[i]]
    /\ UNCHANGED <<status, inputSequence, inputLease, nextInputSequence,
                   checkpointInputCursor, leaseVars, sdkStateContentHash, claimVars>>

\* resolveModelRequestCheckpoint: the request a checkpoint with step r closes (None when
\* the caller names no step, or when the same checkpoint is being retried).
ClosedRequest(r) ==
    IF r = None \/ activeModelRequestId = None THEN None ELSE r

CanResolve(r, c) ==
    \/ r = None
    \/ /\ activeModelRequestId # None
       /\ r = activeModelRequestId
    \/ /\ activeModelRequestId = None
       /\ r \in committedRequests
       /\ sdkStateContentHash = c

\* saveAgentsSdkCheckpoint without an input lease.
SaveAgentsSdkCheckpoint(r, c) ==
    /\ CanResolve(r, c)
    /\ NoUnackedLease
    /\ sdkStateContentHash' = c
    /\ activeModelRequestId' =
         IF ClosedRequest(r) # None THEN None ELSE activeModelRequestId
    /\ UNCHANGED <<status, inputVars, nextInputSequence, checkpointInputCursor, leaseVars,
                   requestInputs, committedRequests, claimVars>>

\* saveAgentsSdkCheckpoint with an input lease: the acknowledgement that moves the
\* cursor. Every row that ever carried the lease id must be in the active range.
AckInputLease(l, r, c) ==
    LET rows == { i \in Input : inputLease[i] = l } IN
    /\ CanResolve(r, c)
    /\ rows # {}
    /\ activeInputLeaseId = l
    /\ activeInputLeaseFrom = checkpointInputCursor + 1
    /\ Contiguous(rows, activeInputLeaseFrom, activeInputLeaseTo)
    /\ AllHaveStatus(rows, "included")
    /\ ClosedRequest(r) # None => \A i \in rows : inputRequest[i] = ClosedRequest(r)
    /\ inputStatus' = [i \in Input |-> IF i \in rows THEN "checkpointed" ELSE inputStatus[i]]
    /\ checkpointInputCursor' = AckedCursor
    /\ activeInputLeaseId' = None
    /\ activeInputLeaseFrom' = 0
    /\ activeInputLeaseTo' = 0
    /\ sdkStateContentHash' = c
    /\ activeModelRequestId' =
         IF ClosedRequest(r) # None THEN None ELSE activeModelRequestId
    /\ UNCHANGED <<status, inputSequence, inputLease, inputRequest, nextInputSequence,
                   requestInputs, committedRequests, claimVars>>

\* saveAgentsSdkCheckpoint retried for a lease that is already acknowledged, when the
\* retry confirms further tool calls: the only retry that writes anything.
RetryAckedCheckpoint(l, r, c) ==
    LET rows == { i \in Input : inputLease[i] = l } IN
    /\ CanResolve(r, c)
    /\ rows # {}
    /\ activeInputLeaseId = None
    /\ AllHaveStatus(rows, "checkpointed")
    /\ \A i \in rows : inputSequence[i] <= checkpointInputCursor
    /\ sdkStateContentHash = c
    /\ activeModelRequestId' =
         IF ClosedRequest(r) # None THEN None ELSE activeModelRequestId
    /\ UNCHANGED <<status, inputVars, nextInputSequence, checkpointInputCursor, leaseVars,
                   requestInputs, committedRequests, sdkStateContentHash, claimVars>>

\* tryClaimTerminalInput, the path that takes the claim. rev and cur are what the caller
\* judged its answer against, possibly long ago.
TryClaimTerminalInput(k, rev, cur) ==
    /\ Unclaimed
    /\ status = "running"
    /\ activeInputLeaseId = None
    /\ nextInputSequence = rev
    /\ checkpointInputCursor = cur
    /\ terminalInputClaimId' = k
    /\ terminalObjectiveRevision' = rev
    /\ terminalInputCursor' = cur
    /\ UNCHANGED <<status, inputVars, nextInputSequence, checkpointInputCursor, leaseVars,
                   requestVars, sdkStateContentHash>>

\* PostgresRunStateRepository.saveRun and its siblings: they write any status over any
\* other and leave the input, lease, cursor and claim columns alone.
SaveRun(s) ==
    /\ status' = s
    /\ UNCHANGED <<inputVars, nextInputSequence, checkpointInputCursor, leaseVars,
                   requestVars, sdkStateContentHash, claimVars>>

Next ==
    \/ \E i \in Input : EnqueueRunInput(i)
    \/ \E l \in Lease : LeaseRunInputs(l)
    \/ RequeueLeasedRunInputs
    \/ \E r \in Request : CommitModelRequest(r)
    \/ \E r \in Request \cup {None}, c \in Content : SaveAgentsSdkCheckpoint(r, c)
    \/ \E l \in Lease, r \in Request \cup {None}, c \in Content : AckInputLease(l, r, c)
    \/ \E l \in Lease, r \in Request \cup {None}, c \in Content : RetryAckedCheckpoint(l, r, c)
    \/ \E k \in Claim, rev \in 1..nextInputSequence, cur \in 0..checkpointInputCursor :
         TryClaimTerminalInput(k, rev, cur)
    \/ \E s \in RunStatus : SaveRun(s)

Spec == Init /\ [][Next]_mailboxVars

------------------------------------------------------------------------------------
(* Safety. *)

Accepted == { i \in Input : inputStatus[i] # "absent" }

\* The inputs a run has accepted are numbered 1, 2, ..., next - 1 without a hole and
\* without a duplicate, whatever mixture of enqueue, lease, requeue and ack produced
\* them: the sequence CAS of enqueueRunInput never assigns a number twice.
SequencesAreDense ==
    Contiguous(Accepted, 1, nextInputSequence - 1)

\* The cursor splits the mailbox: an input is checkpointed exactly when its sequence is
\* at or below the cursor. No input is skipped and none is acknowledged early.
CursorSplitsMailbox ==
    \A i \in Accepted :
        inputStatus[i] = "checkpointed" <=> inputSequence[i] <= checkpointInputCursor

\* The rows and the run's lease columns never disagree: a row is leased or included
\* exactly when its sequence is inside the active range, it carries the active lease id,
\* and all rows of the range are in the same phase. This is what every later method
\* asserts of what it reads, so no reachable state makes one of those assertions throw.
LeaseMatchesRows ==
    /\ InputCursorCheck
    /\ \A i \in Accepted :
         inputStatus[i] \in {"leased", "included"}
           <=> /\ activeInputLeaseId # None
               /\ inputSequence[i] \in activeInputLeaseFrom..activeInputLeaseTo
    /\ \A i \in RowsWithStatus({"leased", "included"}) : inputLease[i] = activeInputLeaseId
    /\ \A i, j \in ActiveLeaseRows : inputStatus[i] = inputStatus[j]

\* An input that a request carries but no checkpoint confirms belongs to the active
\* request, so a recovery that replays the active request replays all of them.
IncludedBelongToActiveRequest ==
    \A i \in RowsWithStatus({"included"}) :
        activeModelRequestId # None /\ inputRequest[i] = activeModelRequestId

\* Every input reaches the model in exactly one recorded request: a requeue, a lease or
\* a retry never makes a second request carry it, and the records list what the rows say.
IncludedInExactlyOneRequest ==
    \A i \in Input, r \in Request :
        i \in requestInputs[r]
          <=> /\ inputStatus[i] \in {"included", "checkpointed"}
              /\ inputRequest[i] = r

\* After the claim the mailbox is sealed: the claimed revision and cursor stay equal to
\* the durable ones, no lease is open and nothing is in delivery (the constraint
\* platform_runs_terminal_input_claim_check, and more).
ClaimIsExact ==
    /\ TerminalClaimCheck
    /\ terminalInputClaimId # None => RowsWithStatus({"leased", "included"}) = {}

\* The numbering, the cursor, the lease columns and the active request describe one delivery: what
\* leaseRunInputs, commitModelRequest and the checkpoint each read and write in a
\* transaction of their own never contradict one another.
RowsMatchLease ==
    /\ TypeOK
    /\ SequencesAreDense
    /\ CursorSplitsMailbox
    /\ LeaseMatchesRows
    /\ IncludedBelongToActiveRequest

(* What a step may never do. *)

\* The cursor only moves by acknowledging the whole active lease, and the numbering of
\* an accepted input never changes.
CursorAdvancesByLease ==
    [][ /\ checkpointInputCursor' # checkpointInputCursor
             => /\ activeInputLeaseId # None
                /\ checkpointInputCursor' = activeInputLeaseTo
                /\ \A i \in ActiveLeaseRows : inputStatus'[i] = "checkpointed"
        /\ \A i \in Accepted : inputSequence'[i] = inputSequence[i]
      ]_mailboxVars

\* A request leaves the active slot only through a checkpoint, never while inputs it
\* carries are still unconfirmed, and never in favour of another request.
RequestClosedByCheckpoint ==
    [][ activeModelRequestId # None /\ activeModelRequestId' # activeModelRequestId
          => /\ activeModelRequestId' = None
             /\ \A i \in requestInputs[activeModelRequestId] : inputStatus'[i] = "checkpointed"
      ]_mailboxVars

\* The first terminal claim is the last word: no input is accepted or acknowledged after
\* it and no other claim replaces it, whatever is retried.
ClaimSealsMailbox ==
    [][ terminalInputClaimId # None
          => UNCHANGED <<claimVars, nextInputSequence, checkpointInputCursor, leaseVars>>
      ]_mailboxVars

------------------------------------------------------------------------------------
(* The promise of the mailbox, in terms of the rows and columns above. *)

Delivery == INSTANCE OrderedInputDelivery WITH
    position  <- inputSequence,
    accepted  <- nextInputSequence - 1,
    offered   <- IF RowsWithStatus({"included"}) # {} THEN activeInputLeaseTo
                                                     ELSE checkpointInputCursor,
    delivered <- checkpointInputCursor,
    sealed    <- terminalInputClaimId # None

\* The transactions implement ordered, batched, exactly-once delivery: leasing and
\* requeueing are invisible, committing a request is the one step that offers a batch,
\* acknowledging its lease is the one step that confirms it.
ImplementsOrderedDelivery == Delivery!Spec

====================================================================================
