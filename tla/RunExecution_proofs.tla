--------------------------- MODULE RunExecution_proofs ---------------------------
(***************************************************************************)
(* Proofs about the input of a run, for every set of inputs, leases, model *)
(* calls, claims and contents: first about the mailbox, whose transactions *)
(* may come in any order, then about the executor.                         *)
(*                                                                         *)
(* The safety invariants of RunInputMailbox are inductive together with    *)
(* two facts of bookkeeping; its theorems follow from that one inductive   *)
(* invariant. The executor changes the mailbox only by the mailbox's own   *)
(* transactions, so that whatever is proved of RunInputMailbox holds of a  *)
(* run under execution. The rest follows the steering window, the open     *)
(* lease from its opening to the checkpoint that acknowledges it, and the  *)
(* answer from its judgement to its delivery.                              *)
(***************************************************************************)
EXTENDS RunExecution, TLAPS

------------------------------------------------------------------------------------
(* The mailbox. *)

\* An input without a row has no number, and a request without a record has no inputs.
Bookkeeping ==
    /\ \A i \in Input : inputStatus[i] = "absent" <=> inputSequence[i] = 0
    /\ \A r \in Request : r \notin committedRequests => requestInputs[r] = {}

MailboxInv ==
    /\ TypeOK
    /\ Bookkeeping
    /\ SequencesAreDense
    /\ CursorSplitsMailbox
    /\ LeaseMatchesRows
    /\ IncludedBelongToActiveRequest
    /\ IncludedInExactlyOneRequest
    /\ ClaimIsExact

USE NoneAssumption
USE DEF AcceptsInput, AssignedSequence, LeaseEnd, NotYetIncluded, NoActiveRequest,
        NoUnackedLease, AckedCursor, Unclaimed

\* An empty mailbox is consistent.
LEMMA InitEstablishesInv == Init => MailboxInv
  BY DEF Init, MailboxInv, TypeOK, Bookkeeping, SequencesAreDense, CursorSplitsMailbox,
         LeaseMatchesRows, IncludedBelongToActiveRequest, IncludedInExactlyOneRequest,
         ClaimIsExact, InputCursorCheck, TerminalClaimCheck, Contiguous, Accepted,
         RowsWithStatus, ActiveLeaseRows, RunStatus, InputStatus

\* Accepting an input gives it the next number, behind everything in delivery.
LEMMA EnqueuePreservesInv ==
  ASSUME MailboxInv, NEW i \in Input, EnqueueRunInput(i)
  PROVE  MailboxInv'
<1> USE DEF MailboxInv, EnqueueRunInput, leaseVars, requestVars, claimVars
<1>1. TypeOK'
  BY DEF TypeOK, InputStatus
<1>2. Bookkeeping'
  BY DEF TypeOK, Bookkeeping
<1>3. SequencesAreDense'
  BY DEF TypeOK, Bookkeeping, SequencesAreDense, Contiguous, Accepted
<1>4. CursorSplitsMailbox'
  BY DEF TypeOK, CursorSplitsMailbox, LeaseMatchesRows, InputCursorCheck, Accepted
<1>5. LeaseMatchesRows'
  BY DEF TypeOK, LeaseMatchesRows, InputCursorCheck, Accepted, RowsWithStatus,
         ActiveLeaseRows
<1>6. IncludedBelongToActiveRequest'
  BY DEF TypeOK, IncludedBelongToActiveRequest, RowsWithStatus
<1>7. IncludedInExactlyOneRequest'
  BY DEF TypeOK, IncludedInExactlyOneRequest
<1>8. ClaimIsExact'
  BY DEF TypeOK, ClaimIsExact, TerminalClaimCheck, RowsWithStatus
<1>9. QED
  BY <1>1, <1>2, <1>3, <1>4, <1>5, <1>6, <1>7, <1>8

\* A lease takes every queued row, and its columns describe exactly those.
LEMMA LeasePreservesInv ==
  ASSUME MailboxInv, NEW l \in Lease, LeaseRunInputs(l)
  PROVE  MailboxInv'
<1> USE DEF MailboxInv, LeaseRunInputs, requestVars, claimVars, QueuedRows,
            RowsWithStatus
<1>1. TypeOK'
  BY DEF TypeOK, InputStatus
<1>2. Bookkeeping'
  BY DEF TypeOK, Bookkeeping
<1>3. SequencesAreDense'
  BY DEF TypeOK, Bookkeeping, SequencesAreDense, Contiguous, Accepted
<1>4. CursorSplitsMailbox'
  BY DEF TypeOK, CursorSplitsMailbox, Accepted
<1>5. LeaseMatchesRows'
  <2>1. InputCursorCheck'
    BY DEF TypeOK, LeaseMatchesRows, InputCursorCheck, Contiguous
  <2>2. \A i \in Input : inputStatus[i] \notin {"leased", "included"}
    BY DEF TypeOK, LeaseMatchesRows, Accepted
  <2>3. \A i \in Input : inputStatus[i] # "absent" =>
           ( inputStatus'[i] = "leased"
               <=> inputSequence[i] \in checkpointInputCursor + 1 .. nextInputSequence - 1 )
    BY <2>2 DEF TypeOK, CursorSplitsMailbox, SequencesAreDense, Contiguous, Accepted,
                InputStatus
  <2>4. QED
    BY <2>1, <2>2, <2>3 DEF TypeOK, LeaseMatchesRows, Accepted, ActiveLeaseRows
<1>6. IncludedBelongToActiveRequest'
  BY DEF TypeOK, IncludedBelongToActiveRequest
<1>7. IncludedInExactlyOneRequest'
  BY DEF TypeOK, IncludedInExactlyOneRequest
<1>8. ClaimIsExact'
  BY DEF TypeOK, ClaimIsExact, TerminalClaimCheck
<1>9. QED
  BY <1>1, <1>2, <1>3, <1>4, <1>5, <1>6, <1>7, <1>8

\* A requeued lease leaves its rows as they were before it.
LEMMA RequeuePreservesInv ==
  ASSUME MailboxInv, RequeueLeasedRunInputs
  PROVE  MailboxInv'
<1> USE DEF MailboxInv, RequeueLeasedRunInputs, requestVars, claimVars
<1>1. \A i \in Input : inputStatus[i] # "included"
  BY DEF TypeOK, LeaseMatchesRows, AllHaveStatus, ActiveLeaseRows, RowsWithStatus
<1>2. \A i \in Input : i \in ActiveLeaseRows <=> inputStatus[i] = "leased"
  BY <1>1 DEF TypeOK, LeaseMatchesRows, ActiveLeaseRows, RowsWithStatus
<1>3. TypeOK'
  BY DEF TypeOK, InputStatus
<1>4. Bookkeeping'
  BY <1>2 DEF TypeOK, Bookkeeping
<1>5. SequencesAreDense'
  BY <1>2 DEF TypeOK, SequencesAreDense, Contiguous, Accepted
<1>6. CursorSplitsMailbox'
  BY <1>2 DEF TypeOK, CursorSplitsMailbox, Accepted
<1>7. LeaseMatchesRows'
  BY <1>1, <1>2 DEF TypeOK, LeaseMatchesRows, InputCursorCheck, Accepted, RowsWithStatus,
                    ActiveLeaseRows
<1>8. IncludedBelongToActiveRequest'
  BY <1>1 DEF TypeOK, IncludedBelongToActiveRequest, RowsWithStatus
<1>9. IncludedInExactlyOneRequest'
  BY <1>2 DEF TypeOK, IncludedInExactlyOneRequest
<1>10. ClaimIsExact'
  BY <1>2 DEF TypeOK, ClaimIsExact, TerminalClaimCheck, RowsWithStatus
<1>11. QED
  BY <1>3, <1>4, <1>5, <1>6, <1>7, <1>8, <1>9, <1>10

\* A request takes over the rows of the lease, which no other request carries.
LEMMA CommitPreservesInv ==
  ASSUME MailboxInv, NEW r \in Request, CommitModelRequest(r)
  PROVE  MailboxInv'
<1> DEFINE rows == IF activeInputLeaseId = None THEN {} ELSE ActiveLeaseRows
<1> USE DEF MailboxInv, CommitModelRequest, leaseVars, claimVars
<1>1. \A i \in Input : i \in rows <=> inputStatus[i] = "leased"
  BY DEF TypeOK, LeaseMatchesRows, AllHaveStatus, ActiveLeaseRows, RowsWithStatus, Accepted
<1>2. \A i \in Input : inputStatus[i] # "included"
  BY DEF TypeOK, IncludedBelongToActiveRequest, RowsWithStatus
<1> HIDE DEF rows
<1>3. /\ inputStatus' = [i \in Input |-> IF i \in rows THEN "included" ELSE inputStatus[i]]
      /\ inputRequest' = [i \in Input |-> IF i \in rows THEN r ELSE inputRequest[i]]
      /\ requestInputs' = [requestInputs EXCEPT ![r] = rows]
  BY DEF rows
<1>4. TypeOK'
  BY <1>3 DEF TypeOK, InputStatus, rows, ActiveLeaseRows, RowsWithStatus
<1>5. Bookkeeping'
  BY <1>1, <1>3 DEF TypeOK, Bookkeeping
<1>6. SequencesAreDense'
  <2>1. Accepted' = Accepted
    BY <1>1, <1>3 DEF TypeOK, Accepted
  <2>2. QED
    BY <2>1 DEF SequencesAreDense, Contiguous
<1>7. CursorSplitsMailbox'
  BY <1>1, <1>3 DEF TypeOK, CursorSplitsMailbox, Accepted
<1>8. LeaseMatchesRows'
  BY <1>1, <1>2, <1>3 DEF TypeOK, LeaseMatchesRows, InputCursorCheck, Accepted,
                          RowsWithStatus, ActiveLeaseRows
<1>9. IncludedBelongToActiveRequest'
  BY <1>2, <1>3 DEF TypeOK, IncludedBelongToActiveRequest, RowsWithStatus
<1>10. IncludedInExactlyOneRequest'
  <2> SUFFICES ASSUME NEW i \in Input, NEW q \in Request
               PROVE  i \in requestInputs'[q]
                        <=> inputStatus'[i] \in {"included", "checkpointed"}
                            /\ inputRequest'[i] = q
    BY DEF IncludedInExactlyOneRequest
  <2>1. inputStatus[i] = "leased" => \A p \in Request : i \notin requestInputs[p]
    BY DEF TypeOK, IncludedInExactlyOneRequest
  <2>2. ~ (inputStatus[i] = "checkpointed" /\ inputRequest[i] = r)
    BY DEF TypeOK, IncludedInExactlyOneRequest, Bookkeeping
  <2>3. CASE q = r
    BY <1>1, <1>2, <1>3, <2>2, <2>3 DEF TypeOK
  <2>4. CASE q # r
    BY <1>1, <1>2, <1>3, <2>1, <2>4 DEF TypeOK, IncludedInExactlyOneRequest
  <2>5. QED
    BY <2>3, <2>4
<1>11. ClaimIsExact'
  BY DEF TypeOK, ClaimIsExact, TerminalClaimCheck
<1>12. QED
  BY <1>4, <1>5, <1>6, <1>7, <1>8, <1>9, <1>10, <1>11

\* A checkpoint without a lease touches no row; it closes a request without open inputs.
LEMMA SavePreservesInv ==
  ASSUME MailboxInv, NEW r \in Request \cup {None}, NEW c \in Content,
         SaveAgentsSdkCheckpoint(r, c)
  PROVE  MailboxInv'
<1> USE DEF MailboxInv, SaveAgentsSdkCheckpoint, inputVars, leaseVars, claimVars
<1>1. \A i \in Input : inputStatus[i] # "included"
  BY DEF TypeOK, LeaseMatchesRows, Accepted
<1>2. activeModelRequestId' \in Request \cup {None}
  BY DEF TypeOK
<1>3. TypeOK'
  BY <1>2 DEF TypeOK
<1>4. IncludedBelongToActiveRequest'
  BY <1>1 DEF IncludedBelongToActiveRequest, RowsWithStatus
<1>5. QED
  BY <1>3, <1>4 DEF Bookkeeping, SequencesAreDense, Contiguous, Accepted,
     CursorSplitsMailbox, LeaseMatchesRows, InputCursorCheck, RowsWithStatus,
     ActiveLeaseRows, IncludedInExactlyOneRequest, ClaimIsExact, TerminalClaimCheck

\* An acknowledgement moves the cursor over exactly the rows it confirms.
LEMMA AckPreservesInv ==
  ASSUME MailboxInv, NEW l \in Lease, NEW r \in Request \cup {None}, NEW c \in Content,
         AckInputLease(l, r, c)
  PROVE  MailboxInv'
<1> DEFINE rows == { i \in Input : inputLease[i] = l }
<1> USE DEF MailboxInv, AckInputLease, claimVars
<1>1. \A i \in Input : i \in rows <=> inputStatus[i] \in {"leased", "included"}
  BY DEF TypeOK, LeaseMatchesRows, AllHaveStatus, RowsWithStatus
<1>2. \A i \in rows : inputStatus[i] = "included"
  BY DEF AllHaveStatus
<1>3. \A i \in Accepted :
         i \in rows <=> inputSequence[i] \in activeInputLeaseFrom..activeInputLeaseTo
  <2>1. activeInputLeaseId # None
    OBVIOUS
  <2>2. \A i \in Accepted :
           inputStatus[i] \in {"leased", "included"}
             <=> inputSequence[i] \in activeInputLeaseFrom..activeInputLeaseTo
    BY <2>1 DEF LeaseMatchesRows
  <2>3. QED
    BY <1>1, <2>2 DEF Accepted
<1>4. /\ activeInputLeaseTo \in Nat
      /\ checkpointInputCursor < activeInputLeaseTo
      /\ activeInputLeaseTo < nextInputSequence
  BY DEF TypeOK, LeaseMatchesRows, InputCursorCheck
<1> HIDE DEF rows
<1>5. inputStatus' = [i \in Input |-> IF i \in rows THEN "checkpointed" ELSE inputStatus[i]]
  BY DEF rows
<1>6. TypeOK'
  BY <1>4, <1>5 DEF TypeOK, InputStatus
<1>7. Bookkeeping'
  BY <1>1, <1>5 DEF TypeOK, Bookkeeping
<1>8. Accepted' = Accepted
  BY <1>1, <1>5 DEF TypeOK, Accepted
<1>9. SequencesAreDense'
  BY <1>8 DEF SequencesAreDense, Contiguous
<1>10. CursorSplitsMailbox'
  <2> SUFFICES ASSUME NEW i \in Accepted
               PROVE  inputStatus'[i] = "checkpointed"
                        <=> inputSequence[i] <= activeInputLeaseTo
    BY <1>8 DEF CursorSplitsMailbox
  <2>1. i \in Input /\ inputSequence[i] \in Nat
    BY DEF TypeOK, Accepted
  <2>2. inputStatus'[i] = "checkpointed" <=> i \in rows \/ inputStatus[i] = "checkpointed"
    BY <1>5, <2>1
  <2>3. QED
    BY <1>3, <1>4, <2>1, <2>2 DEF TypeOK, CursorSplitsMailbox
<1>11. \A i \in Input : inputStatus'[i] \notin {"leased", "included"}
  BY <1>1, <1>5
<1>12. LeaseMatchesRows'
  BY <1>4, <1>11 DEF TypeOK, LeaseMatchesRows, InputCursorCheck, Accepted, RowsWithStatus,
                     ActiveLeaseRows
<1>13. IncludedBelongToActiveRequest'
  BY <1>11 DEF IncludedBelongToActiveRequest, RowsWithStatus
<1>14. IncludedInExactlyOneRequest'
  BY <1>1, <1>2, <1>5 DEF TypeOK, IncludedInExactlyOneRequest
<1>15. ClaimIsExact'
  BY <1>11 DEF TypeOK, ClaimIsExact, TerminalClaimCheck, RowsWithStatus
<1>16. QED
  BY <1>6, <1>7, <1>9, <1>10, <1>12, <1>13, <1>14, <1>15

\* A repeated acknowledgement finds its rows behind the cursor.
LEMMA RetryPreservesInv ==
  ASSUME MailboxInv, NEW l \in Lease, NEW r \in Request \cup {None}, NEW c \in Content,
         RetryAckedCheckpoint(l, r, c)
  PROVE  MailboxInv'
<1> USE DEF MailboxInv, RetryAckedCheckpoint, inputVars, leaseVars, claimVars
<1>1. \A i \in Input : inputStatus[i] # "included"
  BY DEF TypeOK, LeaseMatchesRows, Accepted
<1>2. TypeOK'
  BY DEF TypeOK
<1>3. IncludedBelongToActiveRequest'
  BY <1>1 DEF IncludedBelongToActiveRequest, RowsWithStatus
<1>4. QED
  BY <1>2, <1>3 DEF Bookkeeping, SequencesAreDense, Contiguous, Accepted,
     CursorSplitsMailbox, LeaseMatchesRows, InputCursorCheck, RowsWithStatus,
     ActiveLeaseRows, IncludedInExactlyOneRequest, ClaimIsExact, TerminalClaimCheck

\* A claim is taken where nothing is in delivery, for the revision and cursor there are.
LEMMA ClaimPreservesInv ==
  ASSUME MailboxInv, NEW k \in Claim, NEW rev \in Int, NEW cur \in Int,
         TryClaimTerminalInput(k, rev, cur)
  PROVE  MailboxInv'
<1> USE DEF MailboxInv, TryClaimTerminalInput, inputVars, leaseVars, requestVars
<1>1. \A i \in Input : inputStatus[i] \notin {"leased", "included"}
  BY DEF TypeOK, LeaseMatchesRows, Accepted
<1>2. TypeOK' /\ ClaimIsExact'
  BY <1>1 DEF TypeOK, ClaimIsExact, TerminalClaimCheck, RowsWithStatus
<1>3. QED
  BY <1>2 DEF Bookkeeping, SequencesAreDense, Contiguous, Accepted,
     CursorSplitsMailbox, LeaseMatchesRows, InputCursorCheck, RowsWithStatus,
     ActiveLeaseRows, IncludedBelongToActiveRequest, IncludedInExactlyOneRequest

\* A status write touches no column of the mailbox.
LEMMA SaveRunPreservesInv ==
  ASSUME MailboxInv, NEW s \in RunStatus, SaveRun(s)
  PROVE  MailboxInv'
  BY DEF MailboxInv, SaveRun, inputVars, leaseVars, requestVars, claimVars, TypeOK,
     Bookkeeping, SequencesAreDense, Contiguous, Accepted, CursorSplitsMailbox,
     LeaseMatchesRows, InputCursorCheck, RowsWithStatus, ActiveLeaseRows,
     IncludedBelongToActiveRequest, IncludedInExactlyOneRequest, ClaimIsExact,
     TerminalClaimCheck

\* No transaction of the repositories, in any order, breaks the inductive invariant.
THEOREM StepPreservesInv == MailboxInv /\ [Next]_mailboxVars => MailboxInv'
<1> SUFFICES ASSUME MailboxInv, [Next]_mailboxVars
             PROVE  MailboxInv'
  OBVIOUS
<1>1. ASSUME NEW i \in Input, EnqueueRunInput(i)
      PROVE  MailboxInv'
  BY <1>1, EnqueuePreservesInv
<1>2. ASSUME NEW l \in Lease, LeaseRunInputs(l)
      PROVE  MailboxInv'
  BY <1>2, LeasePreservesInv
<1>3. CASE RequeueLeasedRunInputs
  BY <1>3, RequeuePreservesInv
<1>4. ASSUME NEW r \in Request, CommitModelRequest(r)
      PROVE  MailboxInv'
  BY <1>4, CommitPreservesInv
<1>5. ASSUME NEW r \in Request \cup {None}, NEW c \in Content, SaveAgentsSdkCheckpoint(r, c)
      PROVE  MailboxInv'
  BY <1>5, SavePreservesInv
<1>6. ASSUME NEW l \in Lease, NEW r \in Request \cup {None}, NEW c \in Content,
             AckInputLease(l, r, c)
      PROVE  MailboxInv'
  BY <1>6, AckPreservesInv
<1>7. ASSUME NEW l \in Lease, NEW r \in Request \cup {None}, NEW c \in Content,
             RetryAckedCheckpoint(l, r, c)
      PROVE  MailboxInv'
  BY <1>7, RetryPreservesInv
<1>8. ASSUME NEW k \in Claim, NEW rev \in 1..nextInputSequence,
             NEW cur \in 0..checkpointInputCursor, TryClaimTerminalInput(k, rev, cur)
      PROVE  MailboxInv'
  BY <1>8, ClaimPreservesInv
<1>9. ASSUME NEW s \in RunStatus, SaveRun(s)
      PROVE  MailboxInv'
  BY <1>9, SaveRunPreservesInv
<1>10. CASE UNCHANGED mailboxVars
  BY <1>10 DEF mailboxVars, MailboxInv, inputVars, leaseVars, requestVars, claimVars,
     TypeOK, Bookkeeping, SequencesAreDense, Contiguous, Accepted, CursorSplitsMailbox,
     LeaseMatchesRows, InputCursorCheck, RowsWithStatus, ActiveLeaseRows,
     IncludedBelongToActiveRequest, IncludedInExactlyOneRequest, ClaimIsExact,
     TerminalClaimCheck
<1>11. QED
  BY <1>1, <1>2, <1>3, <1>4, <1>5, <1>6, <1>7, <1>8, <1>9, <1>10 DEF Next

\* The inductive invariant holds in every reachable state.
LEMMA MailboxInvariant == Spec => []MailboxInv
  BY InitEstablishesInv, StepPreservesInv, PTL DEF Spec

\* Every reachable mailbox is well typed, for any number of inputs and requests.
THEOREM TypeCorrect == Spec => []TypeOK
  BY MailboxInvariant, PTL DEF MailboxInv

\* No input is lost, repeated, skipped or acknowledged early: numbering is dense, the
\* cursor splits the mailbox, and the lease columns describe the rows exactly.
THEOREM MailboxIsConsistent ==
  Spec => []RowsMatchLease
<1>1. MailboxInv => RowsMatchLease
  BY DEF MailboxInv, RowsMatchLease
<1>2. QED
  BY MailboxInvariant, <1>1, PTL

\* Every input is carried by exactly one model request, and one not yet confirmed by the
\* active request.
THEOREM ExactlyOneRequest ==
  Spec => [](IncludedBelongToActiveRequest /\ IncludedInExactlyOneRequest)
  BY MailboxInvariant, PTL DEF MailboxInv

\* The terminal claim stays equal to the durable revision and cursor for ever.
THEOREM ClaimStaysExact == Spec => []ClaimIsExact
  BY MailboxInvariant, PTL DEF MailboxInv

------------------------------------------------------------------------------------
(* Action properties. *)

\* After a claim every transaction that would move the mailbox is refused.
LEMMA StepSealsMailbox ==
  ASSUME MailboxInv, [Next]_mailboxVars, terminalInputClaimId # None
  PROVE  UNCHANGED <<claimVars, nextInputSequence, checkpointInputCursor, leaseVars>>
<1> USE DEF MailboxInv, claimVars, leaseVars
<1>1. activeInputLeaseId = None /\ \A i \in Input : inputStatus[i] # "included"
  BY DEF ClaimIsExact, TerminalClaimCheck, RowsWithStatus
<1>2. ASSUME NEW i \in Input, EnqueueRunInput(i)
      PROVE  FALSE
  BY <1>2 DEF EnqueueRunInput
<1>3. ASSUME NEW l \in Lease, LeaseRunInputs(l)
      PROVE  FALSE
  BY <1>3 DEF LeaseRunInputs, TerminalClaimCheck
<1>4. CASE RequeueLeasedRunInputs
  BY <1>1, <1>4 DEF RequeueLeasedRunInputs
<1>5. ASSUME NEW r \in Request, CommitModelRequest(r)
      PROVE  FALSE
  BY <1>5 DEF CommitModelRequest
<1>6. ASSUME NEW r \in Request \cup {None}, NEW c \in Content, SaveAgentsSdkCheckpoint(r, c)
      PROVE  UNCHANGED <<claimVars, nextInputSequence, checkpointInputCursor, leaseVars>>
  BY <1>6 DEF SaveAgentsSdkCheckpoint
<1>7. ASSUME NEW l \in Lease, NEW r \in Request \cup {None}, NEW c \in Content,
             AckInputLease(l, r, c)
      PROVE  FALSE
  BY <1>1, <1>7 DEF AckInputLease
<1>8. ASSUME NEW l \in Lease, NEW r \in Request \cup {None}, NEW c \in Content,
             RetryAckedCheckpoint(l, r, c)
      PROVE  UNCHANGED <<claimVars, nextInputSequence, checkpointInputCursor, leaseVars>>
  BY <1>8 DEF RetryAckedCheckpoint
<1>9. ASSUME NEW k \in Claim, NEW rev \in 1..nextInputSequence,
             NEW cur \in 0..checkpointInputCursor, TryClaimTerminalInput(k, rev, cur)
      PROVE  FALSE
  BY <1>9 DEF TryClaimTerminalInput
<1>10. ASSUME NEW s \in RunStatus, SaveRun(s)
       PROVE  UNCHANGED <<claimVars, nextInputSequence, checkpointInputCursor, leaseVars>>
  BY <1>10 DEF SaveRun
<1>11. CASE UNCHANGED mailboxVars
  BY <1>11 DEF mailboxVars
<1>12. QED
  BY <1>2, <1>3, <1>4, <1>5, <1>6, <1>7, <1>8, <1>9, <1>10, <1>11 DEF Next

\* After the first terminal claim nothing is accepted, leased or acknowledged, and the
\* claim is never replaced.
THEOREM ClaimSeals == Spec => ClaimSealsMailbox
<1>1. MailboxInv /\ [Next]_mailboxVars =>
        [ terminalInputClaimId # None
            => UNCHANGED <<claimVars, nextInputSequence, checkpointInputCursor, leaseVars>>
        ]_mailboxVars
  BY StepSealsMailbox
<1>2. QED
  BY <1>1, MailboxInvariant, PTL DEF Spec, ClaimSealsMailbox

\* A step moves the cursor only by acknowledging the whole lease.
LEMMA StepMovesCursorByLease ==
  ASSUME MailboxInv, [Next]_mailboxVars
  PROVE  /\ checkpointInputCursor' # checkpointInputCursor
              => /\ activeInputLeaseId # None
                 /\ checkpointInputCursor' = activeInputLeaseTo
                 /\ \A i \in ActiveLeaseRows : inputStatus'[i] = "checkpointed"
         /\ \A i \in Accepted : inputSequence'[i] = inputSequence[i]
<1> USE DEF MailboxInv, TypeOK
<1>1. ASSUME NEW i \in Input, EnqueueRunInput(i)
      PROVE  /\ UNCHANGED checkpointInputCursor
             /\ \A j \in Accepted : inputSequence'[j] = inputSequence[j]
  BY <1>1 DEF EnqueueRunInput, Accepted
<1>2. ASSUME NEW l \in Lease, NEW r \in Request \cup {None}, NEW c \in Content,
             AckInputLease(l, r, c)
      PROVE  /\ activeInputLeaseId # None
             /\ checkpointInputCursor' = activeInputLeaseTo
             /\ \A i \in ActiveLeaseRows : inputStatus'[i] = "checkpointed"
             /\ UNCHANGED inputSequence
  BY <1>2 DEF AckInputLease, ActiveLeaseRows, RowsWithStatus
<1>3. CASE UNCHANGED <<checkpointInputCursor, inputSequence>>
  BY <1>3
<1>4. QED
  BY <1>1, <1>2, <1>3
     DEF Next, LeaseRunInputs, RequeueLeasedRunInputs, CommitModelRequest,
         SaveAgentsSdkCheckpoint, RetryAckedCheckpoint, TryClaimTerminalInput, SaveRun,
         mailboxVars, inputVars

\* The cursor moves only to the end of the acknowledged lease, and an accepted input keeps its
\* number for ever (saveAgentsSdkCheckpoint, enqueueRunInput).
THEOREM CursorMovesByLease == Spec => CursorAdvancesByLease
<1>1. MailboxInv /\ [Next]_mailboxVars
        => [ /\ checkpointInputCursor' # checkpointInputCursor
                  => /\ activeInputLeaseId # None
                     /\ checkpointInputCursor' = activeInputLeaseTo
                     /\ \A i \in ActiveLeaseRows : inputStatus'[i] = "checkpointed"
             /\ \A i \in Accepted : inputSequence'[i] = inputSequence[i] ]_mailboxVars
  BY StepMovesCursorByLease
<1>2. QED
  BY <1>1, MailboxInvariant, PTL DEF Spec, CursorAdvancesByLease

\* A step frees the active slot only when every input of its request is confirmed.
LEMMA StepClosesRequest ==
  ASSUME MailboxInv, [Next]_mailboxVars, activeModelRequestId # None,
         activeModelRequestId' # activeModelRequestId
  PROVE  /\ activeModelRequestId' = None
         /\ \A i \in requestInputs[activeModelRequestId] : inputStatus'[i] = "checkpointed"
<1> USE DEF MailboxInv, TypeOK
<1>1. \A i \in requestInputs[activeModelRequestId] :
        \/ inputStatus[i] = "checkpointed"
        \/ /\ inputStatus[i] = "included"
           /\ activeInputLeaseId # None
           /\ inputLease[i] = activeInputLeaseId
  <2>1. ASSUME NEW i \in requestInputs[activeModelRequestId]
        PROVE  i \in Input /\ inputStatus[i] \in {"included", "checkpointed"}
    BY <2>1 DEF IncludedInExactlyOneRequest
  <2>2. ASSUME NEW i \in Input, inputStatus[i] = "included"
        PROVE  activeInputLeaseId # None /\ inputLease[i] = activeInputLeaseId
    BY <2>2 DEF LeaseMatchesRows, RowsWithStatus, Accepted
  <2>3. QED
    BY <2>1, <2>2
<1>2. ASSUME activeInputLeaseId = None, UNCHANGED inputStatus
      PROVE  \A i \in requestInputs[activeModelRequestId] : inputStatus'[i] = "checkpointed"
  BY <1>1, <1>2
<1>3. ASSUME NEW r \in Request \cup {None}, NEW c \in Content, SaveAgentsSdkCheckpoint(r, c)
      PROVE  activeModelRequestId' = None /\ activeInputLeaseId = None /\ UNCHANGED inputStatus
  BY <1>3 DEF SaveAgentsSdkCheckpoint, ClosedRequest, inputVars
<1>4. ASSUME NEW l \in Lease, NEW r \in Request \cup {None}, NEW c \in Content,
             RetryAckedCheckpoint(l, r, c)
      PROVE  activeModelRequestId' = None /\ activeInputLeaseId = None /\ UNCHANGED inputStatus
  BY <1>4 DEF RetryAckedCheckpoint, ClosedRequest, inputVars
<1>5. ASSUME NEW l \in Lease, NEW r \in Request \cup {None}, NEW c \in Content,
             AckInputLease(l, r, c)
      PROVE  /\ activeModelRequestId' = None
             /\ \A i \in requestInputs[activeModelRequestId] : inputStatus'[i] = "checkpointed"
  <2>1. activeModelRequestId' = None
    BY <1>5 DEF AckInputLease, ClosedRequest
  <2>2. \A i \in Input :
          inputStatus'[i] = IF inputLease[i] = activeInputLeaseId THEN "checkpointed"
                                                                 ELSE inputStatus[i]
    BY <1>5 DEF AckInputLease
  <2>3. requestInputs[activeModelRequestId] \subseteq Input
    OBVIOUS
  <2>4. QED
    BY <1>1, <2>1, <2>2, <2>3
<1>6. QED
  BY <1>2, <1>3, <1>4, <1>5
     DEF Next, EnqueueRunInput, LeaseRunInputs, RequeueLeasedRunInputs, CommitModelRequest,
         TryClaimTerminalInput, SaveRun, mailboxVars, requestVars

\* A request leaves the active slot only through a checkpoint that confirms everything it
\* carries, never in favour of another request (resolveModelRequestCheckpoint).
THEOREM RequestsAreClosedByCheckpoint == Spec => RequestClosedByCheckpoint
<1>1. MailboxInv /\ [Next]_mailboxVars
        => [ activeModelRequestId # None /\ activeModelRequestId' # activeModelRequestId
               => /\ activeModelRequestId' = None
                  /\ \A i \in requestInputs[activeModelRequestId] :
                       inputStatus'[i] = "checkpointed" ]_mailboxVars
  BY StepClosesRequest
<1>2. QED
  BY <1>1, MailboxInvariant, PTL DEF Spec, RequestClosedByCheckpoint

------------------------------------------------------------------------------------
(* The mailbox implements ordered, batched, exactly-once delivery. *)

\* An empty mailbox has promised nothing.
LEMMA InitIsAbstractInit == Init => Delivery!Init
  BY DEF Init, Delivery!Init, RowsWithStatus

\* The steps that leave the rows in delivery, the numbering, the cursor and the claim
\* alone are invisible to the user.
LEMMA InvisibleStep ==
  ASSUME RowsWithStatus({"included"})' = RowsWithStatus({"included"}),
         UNCHANGED <<inputSequence, nextInputSequence, checkpointInputCursor, claimVars>>,
         RowsWithStatus({"included"}) # {} => activeInputLeaseTo' = activeInputLeaseTo
  PROVE  UNCHANGED Delivery!deliveryVars
  BY DEF Delivery!deliveryVars, claimVars

\* Committing a request offers the leased inputs, in order; without a lease nobody sees it.
LEMMA CommitIsOfferOrInvisible ==
  ASSUME MailboxInv, NEW r \in Request, CommitModelRequest(r)
  PROVE  [Delivery!Next]_(Delivery!deliveryVars)
<1> USE DEF MailboxInv, CommitModelRequest, leaseVars, claimVars
<1>1. \A i \in Input : inputStatus[i] # "included"
  BY DEF TypeOK, IncludedBelongToActiveRequest, RowsWithStatus
<1>2. CASE activeInputLeaseId = None
  <2>1. RowsWithStatus({"included"})' = RowsWithStatus({"included"})
    BY <1>1, <1>2 DEF TypeOK, RowsWithStatus
  <2>2. RowsWithStatus({"included"}) = {}
    BY <1>1 DEF RowsWithStatus
  <2>3. QED
    BY <2>1, <2>2, InvisibleStep
<1>3. CASE activeInputLeaseId # None
  <2>1. RowsWithStatus({"included"}) = {}
    BY <1>1 DEF RowsWithStatus
  <2>2. RowsWithStatus({"included"})' # {}
    BY <1>3 DEF TypeOK, RowsWithStatus, ActiveLeaseRows
  <2>3. /\ checkpointInputCursor \in Nat
        /\ nextInputSequence \in Nat
        /\ activeInputLeaseTo \in checkpointInputCursor + 1 .. nextInputSequence - 1
    BY <1>3 DEF TypeOK, LeaseMatchesRows, InputCursorCheck
  <2>4. Delivery!Offer(activeInputLeaseTo)
    BY <2>1, <2>2, <2>3 DEF Delivery!Offer
  <2>5. QED
    BY <2>1, <2>3, <2>4 DEF Delivery!Next
<1>4. QED
  BY <1>2, <1>3

\* Acknowledging the lease confirms what was offered.
LEMMA AckIsConfirm ==
  ASSUME MailboxInv, NEW l \in Lease, NEW r \in Request \cup {None}, NEW c \in Content,
         AckInputLease(l, r, c)
  PROVE  Delivery!Confirm
<1> USE DEF MailboxInv, AckInputLease
<1>1. /\ checkpointInputCursor \in Nat
      /\ activeInputLeaseTo \in Nat
      /\ checkpointInputCursor < activeInputLeaseTo
  BY DEF TypeOK, LeaseMatchesRows, InputCursorCheck
<1>2. RowsWithStatus({"included"}) # {}
  BY DEF RowsWithStatus, AllHaveStatus
<1>3. RowsWithStatus({"included"})' = {}
  BY DEF TypeOK, LeaseMatchesRows, RowsWithStatus
<1>4. terminalInputClaimId = None
  BY <1>2 DEF ClaimIsExact, RowsWithStatus
<1>5. QED
  BY <1>1, <1>2, <1>3, <1>4 DEF Delivery!Confirm, claimVars

\* Every transaction is one step of OrderedInputDelivery, or invisible there.
LEMMA StepIsAbstractStep ==
  MailboxInv /\ [Next]_mailboxVars => [Delivery!Next]_(Delivery!deliveryVars)
<1> SUFFICES ASSUME MailboxInv, [Next]_mailboxVars
             PROVE  [Delivery!Next]_(Delivery!deliveryVars)
  OBVIOUS
<1> USE DEF MailboxInv
<1>1. ASSUME NEW i \in Input, EnqueueRunInput(i)
      PROVE  Delivery!Accept(i)
  <2>1. RowsWithStatus({"included"})' = RowsWithStatus({"included"})
    BY <1>1 DEF EnqueueRunInput, TypeOK, RowsWithStatus
  <2>2. inputSequence[i] = 0
    BY <1>1 DEF EnqueueRunInput, Bookkeeping
  <2>3. QED
    BY <1>1, <2>1, <2>2 DEF EnqueueRunInput, TypeOK, Delivery!Accept, leaseVars, claimVars
<1>2. ASSUME NEW l \in Lease, LeaseRunInputs(l)
      PROVE  UNCHANGED Delivery!deliveryVars
  <2>1. RowsWithStatus({"included"})' = RowsWithStatus({"included"})
    BY <1>2 DEF LeaseRunInputs, QueuedRows, TypeOK, RowsWithStatus
  <2>2. RowsWithStatus({"included"}) = {}
    BY <1>2 DEF LeaseRunInputs, TypeOK, LeaseMatchesRows, Accepted, RowsWithStatus
  <2>3. QED
    BY <1>2, <2>1, <2>2, InvisibleStep DEF LeaseRunInputs
<1>3. CASE RequeueLeasedRunInputs
  <2>1. RowsWithStatus({"included"}) = {}
    BY <1>3 DEF RequeueLeasedRunInputs, TypeOK, LeaseMatchesRows, AllHaveStatus,
                ActiveLeaseRows, RowsWithStatus
  <2>2. RowsWithStatus({"included"})' = {}
    BY <1>3, <2>1 DEF RequeueLeasedRunInputs, TypeOK, RowsWithStatus
  <2>3. QED
    BY <1>3, <2>1, <2>2, InvisibleStep DEF RequeueLeasedRunInputs
<1>4. ASSUME NEW r \in Request, CommitModelRequest(r)
      PROVE  [Delivery!Next]_(Delivery!deliveryVars)
  BY <1>4, CommitIsOfferOrInvisible
<1>5. ASSUME NEW r \in Request \cup {None}, NEW c \in Content, SaveAgentsSdkCheckpoint(r, c)
      PROVE  UNCHANGED Delivery!deliveryVars
  BY <1>5, InvisibleStep DEF SaveAgentsSdkCheckpoint, inputVars, leaseVars, RowsWithStatus
<1>6. ASSUME NEW l \in Lease, NEW r \in Request \cup {None}, NEW c \in Content,
             AckInputLease(l, r, c)
      PROVE  Delivery!Confirm
  BY <1>6, AckIsConfirm
<1>7. ASSUME NEW l \in Lease, NEW r \in Request \cup {None}, NEW c \in Content,
             RetryAckedCheckpoint(l, r, c)
      PROVE  UNCHANGED Delivery!deliveryVars
  BY <1>7, InvisibleStep DEF RetryAckedCheckpoint, inputVars, leaseVars, RowsWithStatus
<1>8. ASSUME NEW k \in Claim, NEW rev \in 1..nextInputSequence,
             NEW cur \in 0..checkpointInputCursor, TryClaimTerminalInput(k, rev, cur)
      PROVE  Delivery!Seal
  <2>1. RowsWithStatus({"included"}) = {} /\ RowsWithStatus({"included"})' = {}
    BY <1>8 DEF TryClaimTerminalInput, inputVars, TypeOK, LeaseMatchesRows, Accepted,
                RowsWithStatus
  <2>2. QED
    BY <1>8, <2>1 DEF TryClaimTerminalInput, inputVars, Delivery!Seal
<1>9. ASSUME NEW s \in RunStatus, SaveRun(s)
      PROVE  UNCHANGED Delivery!deliveryVars
  BY <1>9, InvisibleStep DEF SaveRun, inputVars, leaseVars, RowsWithStatus
<1>10. CASE UNCHANGED mailboxVars
  BY <1>10, InvisibleStep DEF mailboxVars, inputVars, leaseVars, RowsWithStatus
<1>11. QED
  BY <1>1, <1>2, <1>3, <1>4, <1>5, <1>6, <1>7, <1>8, <1>9, <1>10
     DEF Next, Delivery!Next

\* The repository's transactions, called in any order with any argument, implement the
\* promise of OrderedInputDelivery.
THEOREM RefinesOrderedDelivery == Spec => ImplementsOrderedDelivery
  BY InitIsAbstractInit, StepIsAbstractStep, MailboxInvariant, PTL
     DEF Spec, Delivery!Spec, ImplementsOrderedDelivery

------------------------------------------------------------------------------------
(* The executor. *)

\* Request ids are numbers, so the requests committed so far have a newest one.
CommittedHaveNewest ==
    committedRequests = {} \/ \E r \in committedRequests : \A q \in committedRequests : q <= r

ExecutorTypes ==
    /\ objectiveRevision \in Nat \ {0}
    /\ boundRevision \in Nat
    /\ pendingLease \in Lease \cup {None}
    /\ step \in Request \cup {None}
    /\ candidate \in Request \cup {None}
    /\ stepRevision \in [Request -> Nat]
    /\ stepCursor \in [Request -> Nat]

RunBase ==
    /\ MailboxInv
    /\ ExecutorTypes
    /\ CommittedHaveNewest

USE RequestAssumption, ContentAssumption
USE DEF At, Goto, DurableRevision, CapturedRevision, ReplayLease, LeaseHeld, ReplayedStep,
        BoundTo, AfterSupersede, WindowOpens, OrphanStatuses

------------------------------------------------------------------------------------
(* The executor uses the mailbox only through its transactions. *)

\* The newest request has been committed.
LEMMA NewestIsCommitted ==
  ASSUME CommittedHaveNewest, committedRequests # {}
  PROVE  /\ NewestRequest \in committedRequests
         /\ \A q \in committedRequests : q <= NewestRequest
  BY DEF CommittedHaveNewest, NewestRequest

\* What the executor writes into the mailbox outside a transaction of its own: a status.
LEMMA WriteStatusIsMailboxStep ==
  ASSUME NEW s \in RunStatus, NEW place, WriteStatus(s, place)
  PROVE  Next
  BY DEF WriteStatus, Next

\* Leasing new input.
LEMMA ConsumeIsMailboxStep ==
  ASSUME NEW p, NEW q, Consume(p, q)
  PROVE  [Next]_mailboxVars
  BY DEF Consume, Next

\* Closing the answered request.
LEMMA CheckpointIsMailboxStep ==
  ASSUME RunBase, NEW place, CheckpointStep(place)
  PROVE  [Next]_mailboxVars
<1>1. CASE Throw("request")
  BY <1>1 DEF Throw, KeepDurable
<1>2. CASE CanCheckpoint /\ pendingLease # None /\ AckInputLease(pendingLease, step, step)
  <2>1. step \in Content /\ step \in Request \cup {None} /\ pendingLease \in Lease
    BY <1>2 DEF CanCheckpoint, RunBase, ExecutorTypes
  <2>2. QED
    BY <1>2, <2>1 DEF Next
<1>3. CASE CanCheckpoint /\ SaveAgentsSdkCheckpoint(step, step)
  <2>1. step \in Content /\ step \in Request \cup {None}
    BY <1>3 DEF CanCheckpoint, RunBase, ExecutorTypes
  <2>2. QED
    BY <1>3, <2>1 DEF Next
<1>4. QED
  BY <1>1, <1>2, <1>3 DEF CheckpointStep

\* Claiming the answer: what the claim names is what the mailbox holds.
LEMMA ClaimIsMailboxStep ==
  ASSUME RunBase, ClaimTerminal
  PROVE  [Next]_mailboxVars
<1>1. CASE UNCHANGED mailboxVars
  BY <1>1
<1>2. ASSUME NEW k \in Claim, TryClaimTerminalInput(k, BoundTo(candidate), stepCursor[candidate])
      PROVE  Next
  <2>1. BoundTo(candidate) = nextInputSequence /\ stepCursor[candidate] = checkpointInputCursor
    BY <1>2 DEF TryClaimTerminalInput
  <2>2. BoundTo(candidate) \in 1 .. nextInputSequence
    BY <2>1 DEF RunBase, MailboxInv, TypeOK
  <2>3. stepCursor[candidate] \in 0 .. checkpointInputCursor
    BY <2>1 DEF RunBase, MailboxInv, TypeOK
  <2>4. QED
    BY <1>2, <2>2, <2>3 DEF Next
<1>3. QED
  BY <1>1, <1>2 DEF ClaimTerminal

\* Every step of a run under execution is one transaction of the mailbox, or none.
LEMMA StepIsMailboxStep ==
  ASSUME RunBase, [RunNext]_vars
  PROVE  [Next]_mailboxVars
<1>1. CASE \/ StartQueued \/ Resume \/ DecideApproval \/ Assemble \/ Replay
           \/ ReturnRestoredOutput \/ ProviderAnswers \/ RequestApproval \/ BindCandidate
           \/ ContinueAfterJudging \/ RejectAnswer \/ CloseExecution \/ ExecutorThrows
           \/ SyncRevision \/ Cancel \/ Crash
  BY <1>1
     DEF StartQueued, Resume, DecideApproval, Assemble, Replay, ReturnRestoredOutput,
         ProviderAnswers, RequestApproval, BindCandidate, ContinueAfterJudging,
         RejectAnswer, CloseExecution, ExecutorThrows, SyncRevision, Cancel, Crash,
         Proceed, Throw, KeepDurable
<1>2. CASE MarkRunning \/ WaitForApproval \/ Complete \/ AskClarification \/ FinishFailed
  <2>1. CASE LoseStatus
    BY <2>1 DEF LoseStatus, KeepDurable
  <2>2. CASE \E s \in RunStatus : \E place : WriteStatus(s, place)
    BY <2>2, WriteStatusIsMailboxStep
  <2>3. QED
    BY <1>2, <2>1, <2>2 DEF MarkRunning, WaitForApproval, Complete, AskClarification,
                            FinishFailed, RunStatus
<1>3. CASE QueueApproved \/ WriteCancelled \/ Recover
  BY <1>3 DEF QueueApproved, WriteCancelled, Recover, Next, RunStatus
<1>4. CASE OpenSteering
  BY <1>4 DEF OpenSteering, Throw, KeepDurable, Next
<1>5. CASE LoopTop \/ FilterConsume
  <2>1. CASE UNCHANGED mailboxVars
    BY <2>1
  <2>2. CASE Consume("capturing", "capturing") \/ Consume("capturing", "looping")
    BY <2>2, ConsumeIsMailboxStep
  <2>3. QED
    BY <1>5, <2>1, <2>2 DEF LoopTop, FilterConsume
<1>6. CASE Capture
  BY <1>6 DEF Capture, Throw, KeepDurable, Next
<1>7. CASE SaveBaseline
  <2>1. CASE CanCheckpoint /\ SaveAgentsSdkCheckpoint(None, step)
    <3>1. step \in Content
      BY <2>1 DEF CanCheckpoint, RunBase, ExecutorTypes
    <3>2. QED
      BY <2>1, <3>1 DEF Next
  <2>2. QED
    BY <1>7, <2>1 DEF SaveBaseline
<1>8. CASE FilterCheckpoint \/ FinalCheckpoint
  <2>1. CASE Throw("aborted")
    BY <2>1 DEF Throw, KeepDurable
  <2>2. QED
    BY <1>8, <2>1, CheckpointIsMailboxStep DEF FilterCheckpoint, FinalCheckpoint
<1>9. CASE ClaimTerminal
  BY <1>9, ClaimIsMailboxStep
<1>10. CASE \E i \in Input : Steer(i)
  BY <1>10 DEF Steer, Next
<1>11. CASE UNCHANGED vars
  BY <1>11 DEF vars
<1>12. QED
  BY <1>1, <1>2, <1>3, <1>4, <1>5, <1>6, <1>7, <1>8, <1>9, <1>10, <1>11
     DEF RunNext, Executor

\* Only a capture commits a request, and a newest one remains.
LEMMA StepPreservesNewest ==
  ASSUME RunBase, [RunNext]_vars
  PROVE  CommittedHaveNewest'
<1>1. CASE UNCHANGED committedRequests
  BY <1>1 DEF RunBase, CommittedHaveNewest
<1>2. ASSUME NEW r \in Request, committedRequests' = committedRequests \cup {r}
      PROVE  CommittedHaveNewest'
  BY <1>2 DEF RunBase, CommittedHaveNewest, MailboxInv, TypeOK
<1>3. [Next]_mailboxVars
  BY StepIsMailboxStep
<1>4. QED
  BY <1>1, <1>2, <1>3
     DEF Next, EnqueueRunInput, LeaseRunInputs, RequeueLeasedRunInputs, CommitModelRequest,
         SaveAgentsSdkCheckpoint, AckInputLease, RetryAckedCheckpoint, TryClaimTerminalInput,
         SaveRun, mailboxVars, requestVars

\* Every step keeps the types of what the executor remembers.
LEMMA StepPreservesExecutorTypes ==
  ASSUME RunBase, [RunNext]_vars
  PROVE  ExecutorTypes'
<1> USE DEF RunBase, ExecutorTypes, MailboxInv, TypeOK, stateVars, stepVars, executorVars
<1>1. CASE \/ StartQueued \/ Resume \/ DecideApproval \/ QueueApproved \/ MarkRunning
           \/ Replay \/ ReturnRestoredOutput \/ ProviderAnswers \/ RequestApproval
           \/ WaitForApproval \/ ContinueAfterJudging \/ Complete \/ AskClarification
           \/ RejectAnswer \/ FinishFailed \/ ExecutorThrows \/ Cancel \/ WriteCancelled
           \/ Recover \/ SaveBaseline \/ \E i \in Input : Steer(i)
  <2>1. UNCHANGED <<objectiveRevision, stepVars, executorVars>>
    BY <1>1
       DEF StartQueued, Resume, DecideApproval, QueueApproved, MarkRunning, Replay,
           ReturnRestoredOutput, ProviderAnswers, RequestApproval, WaitForApproval,
           ContinueAfterJudging, Complete, AskClarification, RejectAnswer, FinishFailed,
           LoseStatus,
           ExecutorThrows, Cancel, WriteCancelled, Recover, SaveBaseline, Steer, Proceed,
           Throw, WriteStatus, KeepDurable
  <2>2. QED
    BY <2>1
<1>2. CASE OpenSteering
  BY <1>2 DEF OpenSteering, Throw, KeepDurable
<1>3. CASE Assemble
  BY <1>3 DEF Assemble, Throw, KeepDurable
<1>4. CASE LoopTop
  BY <1>4 DEF LoopTop, Consume
<1>5. CASE FilterConsume
  BY <1>5 DEF FilterConsume, Consume
<1>6. CASE Capture
  <2>1. activeInputLeaseId = None => ModelInputCursor = checkpointInputCursor
    BY DEF ModelInputCursor
  <2>2. ModelInputCursor \in Nat
    BY DEF ModelInputCursor
  <2>3. QED
    BY <1>6, <2>2 DEF Capture, Throw, KeepDurable
<1>7. CASE FilterCheckpoint \/ FinalCheckpoint
  BY <1>7 DEF FilterCheckpoint, FinalCheckpoint, CheckpointStep, Throw, KeepDurable
<1>8. CASE BindCandidate
  <2>1. NewestRequest \in Request \cup {None}
    BY NewestIsCommitted DEF NewestRequest
  <2>2. QED
    BY <1>8, <2>1 DEF BindCandidate
<1>9. CASE ClaimTerminal
  BY <1>9 DEF ClaimTerminal
<1>10. CASE CloseExecution \/ Crash
  BY <1>10 DEF CloseExecution, Crash, KeepDurable
<1>11. CASE SyncRevision
  BY <1>11 DEF SyncRevision
<1>12. CASE UNCHANGED vars
  BY <1>12 DEF vars
<1>13. QED
  BY <1>1, <1>2, <1>3, <1>4, <1>5, <1>6, <1>7, <1>8, <1>9, <1>10, <1>11, <1>12
     DEF RunNext, Executor

\* RunBase is inductive.
LEMMA StepPreservesBase == RunBase /\ [RunNext]_vars => RunBase'
<1> SUFFICES ASSUME RunBase, [RunNext]_vars
             PROVE  RunBase'
  OBVIOUS
<1>1. MailboxInv'
  BY StepIsMailboxStep, StepPreservesInv DEF RunBase
<1>2. QED
  BY <1>1, StepPreservesNewest, StepPreservesExecutorTypes DEF RunBase

\* A run that has been created has done nothing yet.
LEMMA RunInitEstablishesBase == RunInit => RunBase
  BY InitEstablishesInv
     DEF RunInit, RunBase, ExecutorTypes, CommittedHaveNewest, Init

\* RunBase holds in every reachable state.
LEMMA BaseInvariant == RunSpec => []RunBase
  BY RunInitEstablishesBase, StepPreservesBase, PTL DEF RunSpec

\* The executor, its steering controller, a cancellation, a crash and a recovery change the
\* mailbox only as the repositories' transactions do: a run under execution is a behaviour of
\* RunInputMailbox, and everything proved of the mailbox holds of the run.
THEOREM RunImplementsMailbox == RunSpec => Spec
<1>1. RunInit => Init
  BY DEF RunInit
<1>2. RunBase /\ [RunNext]_vars => [Next]_mailboxVars
  BY StepIsMailboxStep
<1>3. QED
  BY <1>1, <1>2, BaseInvariant, PTL DEF RunSpec, Spec

\* Seen from the user, a run under execution delivers its inputs as OrderedInputDelivery
\* promises: in order, in batches, each exactly once, and none after the answer.
THEOREM RunDeliversInOrder == RunSpec => ImplementsOrderedDelivery
  BY RunImplementsMailbox, RefinesOrderedDelivery, PTL

------------------------------------------------------------------------------------
(* The steering window. *)

WindowInv == RevisionFollowsMailbox /\ WindowAgreesWithClaim

\* What the window and the revision are about is moved by few steps: an accepted input, a
\* synchronisation, opening, closing and claiming.
LEMMA StepPreservesWindow ==
  ASSUME RunBase, WindowInv, [RunNext]_vars
  PROVE  WindowInv'
<1> USE DEF WindowInv, RevisionFollowsMailbox, WindowAgreesWithClaim, RunBase, ExecutorTypes,
            MailboxInv, TypeOK
<1>1. ASSUME UNCHANGED <<objectiveRevision, nextInputSequence, accepting, unsynced,
                         terminalInputClaimId>>,
             pc \in Active => pc' \in Active
      PROVE  WindowInv'
  BY <1>1
<1>2. CASE \/ Assemble \/ Replay \/ ReturnRestoredOutput \/ Capture \/ SaveBaseline
           \/ ProviderAnswers \/ FilterCheckpoint \/ FinalCheckpoint \/ MarkRunning
           \/ RequestApproval \/ WaitForApproval \/ ContinueAfterJudging \/ Complete
           \/ AskClarification \/ RejectAnswer \/ FinishFailed \/ ExecutorThrows
           \/ Cancel \/ WriteCancelled
  <2>1. UNCHANGED <<objectiveRevision, nextInputSequence, accepting, unsynced,
                    terminalInputClaimId>>
    BY <1>2
       DEF Assemble, Replay, ReturnRestoredOutput, Capture, SaveBaseline, ProviderAnswers,
           FilterCheckpoint, FinalCheckpoint, MarkRunning, RequestApproval, WaitForApproval,
           ContinueAfterJudging, Complete, AskClarification, RejectAnswer, FinishFailed,
           LoseStatus,
           ExecutorThrows, Cancel, WriteCancelled, Proceed, Throw, WriteStatus, KeepDurable,
           CheckpointStep, SaveRun, CommitModelRequest, SaveAgentsSdkCheckpoint,
           AckInputLease, mailboxVars, stateVars, processVars, claimVars
  <2>2. pc \in Active => pc' \in Active
    BY <1>2
       DEF Assemble, Replay, ReturnRestoredOutput, Capture, SaveBaseline, ProviderAnswers,
           FilterCheckpoint, FinalCheckpoint, MarkRunning, RequestApproval, WaitForApproval,
           ContinueAfterJudging, Complete, AskClarification, RejectAnswer, FinishFailed,
           LoseStatus,
           ExecutorThrows, Cancel, WriteCancelled, Proceed, Throw, WriteStatus,
           CheckpointStep, Active, Executing
  <2>3. QED
    BY <1>1, <2>1, <2>2
<1>3. CASE StartQueued \/ Resume
  BY <1>3 DEF StartQueued, Resume, KeepDurable, mailboxVars, claimVars, stateVars, Active,
              Executing
<1>4. CASE DecideApproval
  BY <1>4 DEF DecideApproval, mailboxVars, claimVars, processVars, Active, Executing
<1>5. CASE QueueApproved
  BY <1>5 DEF QueueApproved, SaveRun, claimVars, stateVars, Active, Executing
<1>6. CASE OpenSteering
  <2>1. CASE Throw("steering")
    BY <1>6, <2>1 DEF OpenSteering, Throw, KeepDurable, mailboxVars, claimVars, stateVars,
                      processVars, Active, Executing
  <2>2. CASE accepting' = WindowOpens /\ pc' = "assembling"
    <3>1. UNCHANGED <<nextInputSequence, claimVars>>
      BY <1>6, <2>2 DEF OpenSteering, Throw, RequeueLeasedRunInputs, mailboxVars
    <3>2. objectiveRevision' = nextInputSequence
      BY <1>6, <2>2 DEF OpenSteering, Throw
    <3>3. accepting' => terminalInputClaimId = None
      BY <2>2, Zenon
    <3>4. pc' \in Active
      BY <2>2 DEF Active, Executing
    <3>5. QED
      BY <3>1, <3>2, <3>3, <3>4 DEF claimVars
  <2>3. QED
    BY <1>6, <2>1, <2>2, Zenon DEF OpenSteering
<1>7. CASE LoopTop
  BY <1>7 DEF LoopTop, Consume, LeaseRunInputs, mailboxVars, claimVars, processVars, Active,
              Executing
<1>8. CASE FilterConsume
  BY <1>8 DEF FilterConsume, Consume, LeaseRunInputs, mailboxVars, claimVars, processVars,
              Active, Executing
<1>9. CASE BindCandidate
  BY <1>9 DEF BindCandidate, mailboxVars, claimVars, processVars, Active, Executing
<1>10. CASE ClaimTerminal
  BY <1>10 DEF ClaimTerminal, TryClaimTerminalInput, mailboxVars, claimVars, Active, Executing
<1>11. CASE CloseExecution
  BY <1>11 DEF CloseExecution, KeepDurable, mailboxVars, claimVars, stateVars, Active,
               Executing
<1>12. CASE \E i \in Input : Steer(i)
  BY <1>12 DEF Steer, EnqueueRunInput, claimVars, stateVars, Active, Executing
<1>13. CASE SyncRevision
  BY <1>13 DEF SyncRevision, mailboxVars, claimVars
<1>14. CASE Crash
  BY <1>14 DEF Crash, KeepDurable, mailboxVars, claimVars, stateVars
<1>15. CASE Recover
  BY <1>15 DEF Recover, SaveRun, mailboxVars, claimVars, stateVars
<1>16. CASE UNCHANGED vars
  BY <1>16 DEF vars, mailboxVars, claimVars, stateVars, processVars
<1>17. QED
  BY <1>2, <1>3, <1>4, <1>5, <1>6, <1>7, <1>8, <1>9, <1>10, <1>11, <1>12, <1>13, <1>14,
     <1>15, <1>16 DEF RunNext, Executor

\* The objective revision never runs ahead of the mailbox, and lags only inside an enqueue while
\* the window is open; the window is open only for an active execution whose answer is not
\* claimed. So no input is accepted that the executor will not see (RunSteeringController).
THEOREM SteeringWindowIsSound ==
  RunSpec => []SteeringWindowAgrees
<1>1. RunInit => WindowInv
  BY DEF RunInit, Init, WindowInv, RevisionFollowsMailbox, WindowAgreesWithClaim, Active,
         Executing
<1>2. RunBase /\ WindowInv /\ [RunNext]_vars => WindowInv'
  BY StepPreservesWindow
<1>3. WindowInv => SteeringWindowAgrees
  BY DEF WindowInv, SteeringWindowAgrees
<1>4. QED
  BY <1>1, <1>2, <1>3, BaseInvariant, PTL DEF RunSpec

------------------------------------------------------------------------------------
(* The open lease: from the step that opens it to the checkpoint that acknowledges it. *)

Included == RowsWithStatus({"included"})
InDelivery == RowsWithStatus({"leased", "included"})

\* A lease that survives the opening of the steering controller is in a request already.
OpenedLeaseIsIncluded ==
    pc \in {"assembling", "replaying"} /\ activeInputLeaseId # None => Included # {}

\* On its way to a request, a lease has bound the coordinator to the revision after its end.
LeaseIsBound ==
    pc \in {"looping", "capturing"} /\ activeInputLeaseId # None /\ Included = {}
      => boundRevision = activeInputLeaseTo + 1

\* Without a lease, the coordinator is bound to the revision after the cursor.
CursorIsBound ==
    pc = "capturing" /\ activeInputLeaseId = None => boundRevision = checkpointInputCursor + 1

\* Once the answer is checkpointed no lease is open.
AnsweredLeaseIsClosed ==
    pc \in {"consuming", "settling", "judging"} => activeInputLeaseId = None

\* The step context of the active request names the cursor its checkpoint will move to.
ActiveStepNamesNextCursor ==
    activeModelRequestId # None
      => /\ activeModelRequestId \in committedRequests
         /\ stepCursor[activeModelRequestId] =
              IF Included = {} THEN checkpointInputCursor ELSE activeInputLeaseTo

LeaseInv ==
    /\ ExecutorHoldsTheOpenLease
    /\ OpenedLeaseIsIncluded
    /\ LeaseIsBound
    /\ CursorIsBound
    /\ AnsweredLeaseIsClosed
    /\ ActiveStepNamesNextCursor
    /\ StepDescribesOneInputSet
    /\ ProviderAnswersTheActiveRequest

\* What LeaseInv says of the mailbox.
deliveryState ==
    <<Included, InDelivery, inputRequest, checkpointInputCursor, leaseVars, activeModelRequestId,
      committedRequests, stepVars>>

\* Between two places that ask the same of the lease, nothing about it changes.
LEMMA QuietStepPreservesLease ==
  ASSUME LeaseInv, UNCHANGED deliveryState, UNCHANGED <<boundRevision, pendingLease, step>>,
         pc' \in Executing \ {"starting", "opening", "assembling"}
           => pc \in Executing \ {"starting", "opening", "assembling"},
         pc' \in {"assembling", "replaying"} => pc \in {"assembling", "replaying"},
         pc' = "looping"
           => \/ pc = "looping"
              \/ activeInputLeaseId = None
              \/ Included # {},
         pc' = "capturing" => pc = "capturing",
         pc' \in {"consuming", "settling", "judging"}
           => pc \in {"consuming", "settling", "judging"},
         pc' \in {"baseline", "provider", "filtering"}
           => pc \in {"baseline", "provider", "filtering"}
  PROVE  LeaseInv'
<1> USE DEF LeaseInv, deliveryState, leaseVars, stepVars
<1>1. ExecutorHoldsTheOpenLease'
  BY DEF ExecutorHoldsTheOpenLease
<1>2. OpenedLeaseIsIncluded' /\ LeaseIsBound' /\ CursorIsBound' /\ AnsweredLeaseIsClosed'
  BY DEF OpenedLeaseIsIncluded, LeaseIsBound, CursorIsBound, AnsweredLeaseIsClosed
<1>3. ActiveStepNamesNextCursor' /\ StepDescribesOneInputSet'
  BY DEF ActiveStepNamesNextCursor, StepDescribesOneInputSet
<1>4. ProviderAnswersTheActiveRequest'
  BY DEF ProviderAnswersTheActiveRequest, InDelivery
<1>5. QED
  BY <1>1, <1>2, <1>3, <1>4

\* A step that leaves the mailbox alone but for the status leaves the delivery alone.
LEMMA StatusIsNoDelivery ==
  ASSUME UNCHANGED <<inputVars, checkpointInputCursor, leaseVars, requestVars, stepVars>>
  PROVE  UNCHANGED deliveryState
  BY DEF deliveryState, Included, InDelivery, RowsWithStatus, inputVars, requestVars

\* Nothing is in delivery without a lease, and nothing is queued behind the cursor when the
\* mailbox has no row to lease.
LEMMA NoLeaseNoDelivery ==
  ASSUME RunBase, activeInputLeaseId = None
  PROVE  /\ InDelivery = {}
         /\ Included = {}
         /\ QueuedRows = {} => nextInputSequence = checkpointInputCursor + 1
<1> USE DEF RunBase, MailboxInv, TypeOK, LeaseMatchesRows, Accepted, RowsWithStatus
<1>1. InDelivery = {} /\ Included = {}
  BY DEF InDelivery, Included
<1>2. ASSUME nextInputSequence # checkpointInputCursor + 1
      PROVE  QueuedRows # {}
  <2>1. checkpointInputCursor + 1 \in 1 .. nextInputSequence - 1
    BY <1>2 DEF InputCursorCheck
  <2>2. PICK i \in Accepted : inputSequence[i] = checkpointInputCursor + 1
    BY <2>1 DEF SequencesAreDense, Contiguous
  <2>3. inputStatus[i] # "checkpointed"
    BY <2>2 DEF CursorSplitsMailbox
  <2>4. inputStatus[i] = "queued"
    BY <1>1, <2>2, <2>3 DEF InDelivery, InputStatus
  <2>5. QED
    BY <2>2, <2>4 DEF QueuedRows
<1>3. QED
  BY <1>1, <1>2

\* Taking new input binds the coordinator to what has been leased, or to the cursor.
LEMMA ConsumeBinds ==
  ASSUME RunBase, activeInputLeaseId = None, NEW p, NEW q, Consume(p, q)
  PROVE  /\ Included' = {}
         /\ UNCHANGED <<inputRequest, checkpointInputCursor, activeModelRequestId,
                        committedRequests>>
         /\ pendingLease' = activeInputLeaseId'
         /\ \/ /\ activeInputLeaseId' = None
               /\ boundRevision' = checkpointInputCursor + 1
               /\ pc' = p
            \/ /\ activeInputLeaseId' # None
               /\ boundRevision' = activeInputLeaseTo' + 1
               /\ pc' = q
<1>1. CASE QueuedRows = {} /\ pendingLease' = None /\ pc' = p /\ UNCHANGED mailboxVars
  <2>1. Included' = {}
    BY <1>1, NoLeaseNoDelivery DEF mailboxVars, inputVars, Included, RowsWithStatus
  <2>2. boundRevision' = checkpointInputCursor + 1
    BY <1>1, NoLeaseNoDelivery DEF Consume
  <2>3. QED
    BY <1>1, <2>1, <2>2 DEF mailboxVars, inputVars, leaseVars, requestVars
<1>2. ASSUME NEW l \in Lease, LeaseRunInputs(l), pendingLease' = l, pc' = q
      PROVE  /\ Included' = {}
             /\ UNCHANGED <<inputRequest, checkpointInputCursor, activeModelRequestId,
                            committedRequests>>
             /\ pendingLease' = activeInputLeaseId'
             /\ activeInputLeaseId' # None
             /\ boundRevision' = activeInputLeaseTo' + 1
             /\ pc' = q
  <2>1. Included' = {}
    BY <1>2, NoLeaseNoDelivery
       DEF LeaseRunInputs, Included, RowsWithStatus, RunBase, MailboxInv, TypeOK
  <2>2. boundRevision' = activeInputLeaseTo' + 1
    BY <1>2 DEF Consume, LeaseRunInputs, RunBase, MailboxInv, TypeOK
  <2>3. QED
    BY <1>2, <2>1, <2>2 DEF LeaseRunInputs, requestVars
<1>3. QED
  BY <1>1, <1>2 DEF Consume

\* Taking new input preserves LeaseInv, wherever the executor goes with it.
LEMMA ConsumePreservesLease ==
  ASSUME RunBase, LeaseInv, activeInputLeaseId = None, UNCHANGED stepVars,
         NEW p, NEW q \in {"looping", "capturing"}, p = "capturing", Consume(p, q)
  PROVE  LeaseInv'
<1>1. /\ Included' = {}
      /\ UNCHANGED <<inputRequest, checkpointInputCursor, activeModelRequestId,
                     committedRequests>>
      /\ pendingLease' = activeInputLeaseId'
      /\ \/ /\ activeInputLeaseId' = None
            /\ boundRevision' = checkpointInputCursor + 1
            /\ pc' = p
         \/ /\ activeInputLeaseId' # None
            /\ boundRevision' = activeInputLeaseTo' + 1
            /\ pc' = q
  BY ConsumeBinds
<1>2. ExecutorHoldsTheOpenLease' /\ OpenedLeaseIsIncluded' /\ AnsweredLeaseIsClosed'
  BY <1>1 DEF ExecutorHoldsTheOpenLease, OpenedLeaseIsIncluded, AnsweredLeaseIsClosed
<1>3. LeaseIsBound' /\ CursorIsBound'
  BY <1>1 DEF LeaseIsBound, CursorIsBound
<1>4. Included = {}
  BY NoLeaseNoDelivery
<1>5. ActiveStepNamesNextCursor' /\ StepDescribesOneInputSet'
  BY <1>1, <1>4 DEF LeaseInv, ActiveStepNamesNextCursor, StepDescribesOneInputSet, stepVars
<1>6. ProviderAnswersTheActiveRequest'
  BY <1>1 DEF ProviderAnswersTheActiveRequest
<1>7. QED
  BY <1>2, <1>3, <1>5, <1>6 DEF LeaseInv

\* Before a segment the executor keeps the lease it holds, or takes new input.
LEMMA LoopTopPreservesLease ==
  ASSUME RunBase, LeaseInv, LoopTop
  PROVE  LeaseInv'
<1>1. UNCHANGED <<step, stepVars>> /\ pc = "looping" /\ pendingLease = activeInputLeaseId
  BY DEF LoopTop, LeaseInv, ExecutorHoldsTheOpenLease, Executing
<1>2. CASE pendingLease # None
  <2>1. /\ UNCHANGED <<mailboxVars, boundRevision, pendingLease>>
        /\ pc' = "capturing"
    BY <1>2 DEF LoopTop, Consume
  <2>2. UNCHANGED deliveryState
    BY <1>1, <2>1, StatusIsNoDelivery DEF mailboxVars
  <2>3. ExecutorHoldsTheOpenLease' /\ OpenedLeaseIsIncluded' /\ AnsweredLeaseIsClosed'
    BY <1>1, <2>1, <2>2
       DEF ExecutorHoldsTheOpenLease, OpenedLeaseIsIncluded, AnsweredLeaseIsClosed,
           deliveryState, leaseVars
  <2>4. LeaseIsBound' /\ CursorIsBound'
    BY <1>1, <1>2, <2>1, <2>2
       DEF LeaseInv, LeaseIsBound, CursorIsBound, deliveryState, leaseVars
  <2>5. ActiveStepNamesNextCursor' /\ StepDescribesOneInputSet'
    BY <2>2 DEF LeaseInv, ActiveStepNamesNextCursor, StepDescribesOneInputSet, deliveryState,
                leaseVars, stepVars
  <2>6. ProviderAnswersTheActiveRequest'
    BY <2>1 DEF ProviderAnswersTheActiveRequest
  <2>7. QED
    BY <2>3, <2>4, <2>5, <2>6 DEF LeaseInv
<1>3. CASE pendingLease = None
  <2>1. Consume("capturing", "capturing")
    BY <1>3 DEF LoopTop
  <2>2. pc' = "capturing"
    BY <2>1 DEF Consume
  <2>3. QED
    BY <1>1, <1>3, <2>1, <2>2, ConsumePreservesLease
<1>4. QED
  BY <1>2, <1>3

\* A request carries what the coordinator is bound to: the step context it records describes
\* the inputs in delivery, and a request that is replayed is the one they belong to.
LEMMA CapturePreservesLease ==
  ASSUME RunBase, LeaseInv, Capture
  PROVE  LeaseInv'
<1>1. pc = "capturing" /\ pendingLease = activeInputLeaseId
  BY DEF Capture, LeaseInv, ExecutorHoldsTheOpenLease, Executing
<1>2. ASSUME NEW reason, Throw(reason)
      PROVE  LeaseInv'
  <2>1. UNCHANGED deliveryState /\ UNCHANGED <<boundRevision, pendingLease, step>>
    BY <1>2, StatusIsNoDelivery DEF Throw, KeepDurable, mailboxVars, executorVars
  <2>2. QED
    BY <1>1, <1>2, <2>1, QuietStepPreservesLease DEF Throw, Executing
<1>3. CASE /\ activeModelRequestId # None
           /\ stepRevision[activeModelRequestId] >= boundRevision
           /\ step' = activeModelRequestId
           /\ pc' = "baseline"
           /\ KeepDurable
           /\ UNCHANGED pendingLease
  <2>1. UNCHANGED deliveryState
    BY <1>3, StatusIsNoDelivery DEF KeepDurable, mailboxVars
  <2> DEFINE r == activeModelRequestId
  <2>2. /\ r \in committedRequests
        /\ r \in Request
        /\ stepRevision[r] = stepCursor[r] + 1
        /\ stepCursor[r] = IF Included = {} THEN checkpointInputCursor ELSE activeInputLeaseTo
    BY <1>3 DEF LeaseInv, ActiveStepNamesNextCursor, StepDescribesOneInputSet, RunBase,
                MailboxInv, TypeOK
  <2>3. activeInputLeaseId # None => Included # {}
    <3> SUFFICES ASSUME activeInputLeaseId # None, Included = {}
                 PROVE  FALSE
      OBVIOUS
    <3>1. boundRevision = activeInputLeaseTo + 1
      BY <1>1 DEF LeaseInv, LeaseIsBound
    <3>2. stepRevision[r] = checkpointInputCursor + 1
      BY <2>2
    <3>3. activeInputLeaseTo > checkpointInputCursor
      BY DEF RunBase, MailboxInv, TypeOK, LeaseMatchesRows, InputCursorCheck
    <3>4. QED
      BY <1>3, <3>1, <3>2, <3>3 DEF RunBase, MailboxInv, TypeOK
  <2>4. \A i \in InDelivery : inputRequest[i] = r
    <3>1. CASE activeInputLeaseId = None
      BY <3>1, NoLeaseNoDelivery
    <3>2. CASE Included # {}
      BY <3>2 DEF RunBase, MailboxInv, LeaseMatchesRows, ActiveLeaseRows, InDelivery, Included,
                  IncludedBelongToActiveRequest, RowsWithStatus
    <3>3. QED
      BY <2>3, <3>1, <3>2
  <2>5. ProviderAnswersTheActiveRequest'
    BY <1>3, <2>1, <2>4 DEF ProviderAnswersTheActiveRequest, InDelivery, deliveryState
  <2>6. ExecutorHoldsTheOpenLease'
    BY <1>1, <1>3, <2>1 DEF ExecutorHoldsTheOpenLease, deliveryState, leaseVars
  <2>7. OpenedLeaseIsIncluded' /\ LeaseIsBound' /\ CursorIsBound' /\ AnsweredLeaseIsClosed'
    BY <1>3 DEF OpenedLeaseIsIncluded, LeaseIsBound, CursorIsBound, AnsweredLeaseIsClosed
  <2>8. ActiveStepNamesNextCursor' /\ StepDescribesOneInputSet'
    BY <2>1 DEF LeaseInv, ActiveStepNamesNextCursor, StepDescribesOneInputSet, deliveryState,
                leaseVars, stepVars
  <2>9. QED
    BY <2>5, <2>6, <2>7, <2>8 DEF LeaseInv
<1>4. ASSUME NEW r \in Request \ committedRequests,
             CommitModelRequest(r),
             stepRevision' = [stepRevision EXCEPT ![r] = boundRevision],
             stepCursor' = [stepCursor EXCEPT ![r] = ModelInputCursor],
             step' = r,
             pc' = "baseline",
             UNCHANGED pendingLease
      PROVE  LeaseInv'
  <2>1. /\ activeModelRequestId = None
        /\ activeModelRequestId' = r
        /\ committedRequests' = committedRequests \cup {r}
        /\ UNCHANGED <<checkpointInputCursor, leaseVars>>
    BY <1>4 DEF CommitModelRequest
  <2>2. Included = {}
    BY <2>1 DEF Included, RunBase, MailboxInv, IncludedBelongToActiveRequest
  <2>3. boundRevision = ModelInputCursor + 1
    BY <1>1, <2>2 DEF LeaseInv, LeaseIsBound, CursorIsBound, ModelInputCursor
  <2>4. activeInputLeaseId = None => Included' = {} /\ InDelivery' = {}
    BY <1>4, NoLeaseNoDelivery
       DEF CommitModelRequest, Included, InDelivery, RowsWithStatus, RunBase, MailboxInv, TypeOK
  <2>5. activeInputLeaseId # None
          => Included' # {} /\ \A i \in InDelivery' : inputRequest'[i] = r
    <3> SUFFICES ASSUME activeInputLeaseId # None
                 PROVE  Included' # {} /\ \A i \in InDelivery' : inputRequest'[i] = r
      OBVIOUS
    <3>1. /\ ActiveLeaseRows # {}
          /\ inputStatus' = [i \in Input |-> IF i \in ActiveLeaseRows THEN "included"
                                             ELSE inputStatus[i]]
          /\ inputRequest' = [i \in Input |-> IF i \in ActiveLeaseRows THEN r ELSE inputRequest[i]]
      BY <1>4 DEF CommitModelRequest
    <3>2. InDelivery = ActiveLeaseRows
      BY DEF InDelivery, ActiveLeaseRows, RowsWithStatus, RunBase, MailboxInv, LeaseMatchesRows
    <3>3. InDelivery' = ActiveLeaseRows /\ Included' # {}
      BY <3>1, <3>2 DEF InDelivery, Included, RowsWithStatus, ActiveLeaseRows
    <3>4. QED
      BY <3>1, <3>3 DEF ActiveLeaseRows, RowsWithStatus
  <2>6. stepCursor'[r] = ModelInputCursor /\ stepRevision'[r] = boundRevision
    BY <1>4 DEF RunBase, ExecutorTypes
  <2>7. ActiveStepNamesNextCursor'
    BY <2>1, <2>4, <2>5, <2>6 DEF ActiveStepNamesNextCursor, ModelInputCursor, leaseVars
  <2>8. StepDescribesOneInputSet'
    BY <1>4, <2>1, <2>3, <2>6
       DEF LeaseInv, StepDescribesOneInputSet, RunBase, ExecutorTypes, MailboxInv, TypeOK
  <2>9. ProviderAnswersTheActiveRequest'
    BY <1>4, <2>1, <2>4, <2>5 DEF ProviderAnswersTheActiveRequest, InDelivery
  <2>10. ExecutorHoldsTheOpenLease'
    BY <1>1, <1>4, <2>1 DEF ExecutorHoldsTheOpenLease, leaseVars
  <2>11. OpenedLeaseIsIncluded' /\ LeaseIsBound' /\ CursorIsBound' /\ AnsweredLeaseIsClosed'
    BY <1>4 DEF OpenedLeaseIsIncluded, LeaseIsBound, CursorIsBound, AnsweredLeaseIsClosed
  <2>12. QED
    BY <2>7, <2>8, <2>9, <2>10, <2>11 DEF LeaseInv
<1>5. QED
  BY <1>2, <1>3, <1>4 DEF Capture

\* A checkpoint of the executor closes the request and the lease it holds.
LEMMA CheckpointPreservesLease ==
  ASSUME RunBase, LeaseInv, NEW place \in {"consuming", "settling"},
         pc \in {"filtering", "finishing"}, CheckpointStep(place)
  PROVE  LeaseInv'
<1>1. pendingLease = activeInputLeaseId
  BY DEF LeaseInv, ExecutorHoldsTheOpenLease, Executing
<1>2. CASE Throw("request")
  <2>1. UNCHANGED deliveryState /\ UNCHANGED <<boundRevision, pendingLease, step>>
    BY <1>2, StatusIsNoDelivery DEF Throw, KeepDurable, mailboxVars, executorVars
  <2>2. QED
    BY <1>2, <2>1, QuietStepPreservesLease DEF Throw, Executing
<1>3. CASE CanCheckpoint /\ pc' = place /\ pendingLease' = None /\ UNCHANGED stepVars
  <2>1. step # None
    BY <1>3 DEF CanCheckpoint
  <2>2. /\ activeInputLeaseId' = None
        /\ activeModelRequestId' = None
        /\ UNCHANGED committedRequests
    <3>1. CASE AckInputLease(pendingLease, step, step)
      BY <1>3, <2>1, <3>1 DEF AckInputLease, ClosedRequest, CanCheckpoint
    <3>2. CASE pendingLease = None /\ SaveAgentsSdkCheckpoint(step, step)
      BY <1>1, <1>3, <2>1, <3>2
         DEF SaveAgentsSdkCheckpoint, ClosedRequest, CanCheckpoint, leaseVars
    <3>3. QED
      BY <1>3, <3>1, <3>2 DEF CheckpointStep, Throw
  <2>3. QED
    BY <1>3, <2>2
       DEF LeaseInv, ExecutorHoldsTheOpenLease, OpenedLeaseIsIncluded, LeaseIsBound,
           CursorIsBound, AnsweredLeaseIsClosed, ActiveStepNamesNextCursor,
           StepDescribesOneInputSet, ProviderAnswersTheActiveRequest, stepVars
<1>4. QED
  BY <1>2, <1>3 DEF CheckpointStep

\* Opening returns a lease to the mailbox, or finds it included in a request.
LEMMA OpenPreservesLease ==
  ASSUME RunBase, LeaseInv, OpenSteering
  PROVE  LeaseInv'
<1>1. UNCHANGED <<boundRevision, pendingLease, step, stepVars>> /\ pc = "opening"
  BY DEF OpenSteering, Throw, KeepDurable, executorVars
<1>2. CASE UNCHANGED mailboxVars /\ pc' = "failing"
  <2>1. UNCHANGED deliveryState
    BY <1>1, <1>2, StatusIsNoDelivery DEF mailboxVars
  <2>2. QED
    BY <1>1, <1>2, <2>1, QuietStepPreservesLease DEF Executing
<1>3. CASE RequeueLeasedRunInputs /\ pc' = "assembling"
  <2>1. /\ Included' = {}
        /\ Included = {}
        /\ activeInputLeaseId' = None
        /\ UNCHANGED <<checkpointInputCursor, activeModelRequestId, committedRequests>>
    BY <1>3 DEF RequeueLeasedRunInputs, AllHaveStatus, Included, RowsWithStatus,
                ActiveLeaseRows, requestVars, RunBase, MailboxInv, TypeOK, LeaseMatchesRows
  <2>2. ActiveStepNamesNextCursor' /\ StepDescribesOneInputSet'
    BY <1>1, <2>1 DEF LeaseInv, ActiveStepNamesNextCursor, StepDescribesOneInputSet, stepVars
  <2>3. QED
    BY <1>3, <2>1, <2>2
       DEF LeaseInv, ExecutorHoldsTheOpenLease, OpenedLeaseIsIncluded, LeaseIsBound,
           CursorIsBound, AnsweredLeaseIsClosed, ProviderAnswersTheActiveRequest, Executing
<1>4. CASE /\ UNCHANGED mailboxVars
           /\ activeInputLeaseId = None \/ ~NotYetIncluded
           /\ pc' = "assembling"
  <2>1. UNCHANGED deliveryState
    BY <1>1, <1>4, StatusIsNoDelivery DEF mailboxVars
  <2>2. activeInputLeaseId # None => Included # {}
    BY <1>4 DEF AllHaveStatus, ActiveLeaseRows, Included, RowsWithStatus
  <2>3. ActiveStepNamesNextCursor' /\ StepDescribesOneInputSet'
    BY <2>1 DEF LeaseInv, ActiveStepNamesNextCursor, StepDescribesOneInputSet, deliveryState,
                leaseVars, stepVars
  <2>4. QED
    BY <1>4, <2>1, <2>2, <2>3
       DEF LeaseInv, ExecutorHoldsTheOpenLease, OpenedLeaseIsIncluded, LeaseIsBound,
           CursorIsBound, AnsweredLeaseIsClosed, ProviderAnswersTheActiveRequest, Executing,
           deliveryState, leaseVars
<1>5. QED
  BY <1>2, <1>3, <1>4 DEF OpenSteering, Throw, KeepDurable

\* The assembly takes over the lease it finds.
LEMMA AssemblePreservesLease ==
  ASSUME RunBase, LeaseInv, Assemble
  PROVE  LeaseInv'
<1>1. UNCHANGED deliveryState /\ pc = "assembling"
  <2>1. UNCHANGED <<mailboxVars, stepVars>> /\ pc = "assembling"
    BY DEF Assemble, Throw, KeepDurable
  <2>2. QED
    BY <2>1, StatusIsNoDelivery DEF mailboxVars
<1>2. \/ pc' = "failing"
      \/ pc' = "replaying" /\ pendingLease' = activeInputLeaseId
  BY DEF Assemble, Throw
<1>3. ActiveStepNamesNextCursor' /\ StepDescribesOneInputSet'
  BY <1>1 DEF LeaseInv, ActiveStepNamesNextCursor, StepDescribesOneInputSet, deliveryState,
              leaseVars, stepVars
<1>4. QED
  BY <1>1, <1>2, <1>3
     DEF LeaseInv, ExecutorHoldsTheOpenLease, OpenedLeaseIsIncluded, LeaseIsBound,
         CursorIsBound, AnsweredLeaseIsClosed, ProviderAnswersTheActiveRequest, Executing,
         deliveryState, leaseVars

\* A baseline saves a state and closes nothing.
LEMMA BaselinePreservesLease ==
  ASSUME RunBase, LeaseInv, SaveBaseline
  PROVE  LeaseInv'
<1>1. /\ UNCHANGED <<inputVars, checkpointInputCursor, leaseVars, requestVars, stepVars>>
      /\ UNCHANGED <<boundRevision, pendingLease, step>>
  BY DEF SaveBaseline, SaveAgentsSdkCheckpoint, ClosedRequest, mailboxVars, requestVars,
         executorVars
<1>2. UNCHANGED deliveryState
  BY <1>1, StatusIsNoDelivery
<1>3. pc = "baseline" /\ pc' = "provider"
  BY DEF SaveBaseline
<1>4. QED
  BY <1>1, <1>2, <1>3, QuietStepPreservesLease DEF Executing

\* A new input is queued: it is not in delivery.
LEMMA SteerPreservesLease ==
  ASSUME RunBase, LeaseInv, NEW i \in Input, Steer(i)
  PROVE  LeaseInv'
<1>1. /\ UNCHANGED <<inputRequest, checkpointInputCursor, leaseVars, requestVars, stepVars>>
      /\ UNCHANGED <<boundRevision, pendingLease, step, pc>>
      /\ inputStatus' = [inputStatus EXCEPT ![i] = "queued"]
      /\ inputStatus[i] = "absent"
  BY DEF Steer, EnqueueRunInput, executorVars
<1>2. UNCHANGED <<Included, InDelivery>>
  BY <1>1 DEF Included, InDelivery, RowsWithStatus, RunBase, MailboxInv, TypeOK
<1>3. UNCHANGED deliveryState
  BY <1>1, <1>2 DEF deliveryState, requestVars
<1>4. QED
  BY <1>1, <1>3, QuietStepPreservesLease

\* LeaseInv is inductive over RunBase.
LEMMA StepPreservesLease ==
  ASSUME RunBase, LeaseInv, [RunNext]_vars
  PROVE  LeaseInv'
<1> DEFINE KeepsDelivery ==
      /\ UNCHANGED <<inputVars, checkpointInputCursor, leaseVars, requestVars, stepVars>>
      /\ UNCHANGED <<boundRevision, pendingLease, step>>
<1>1. KeepsDelivery
        => UNCHANGED deliveryState /\ UNCHANGED <<boundRevision, pendingLease, step>>
  BY StatusIsNoDelivery
<1>2. CASE \/ StartQueued \/ Resume \/ DecideApproval \/ QueueApproved \/ MarkRunning
           \/ ReturnRestoredOutput \/ ProviderAnswers \/ RequestApproval
           \/ WaitForApproval \/ Complete \/ AskClarification \/ RejectAnswer
           \/ FinishFailed \/ ExecutorThrows \/ SyncRevision \/ Cancel \/ WriteCancelled
           \/ Recover
  <2>1. KeepsDelivery
    BY <1>2
       DEF StartQueued, Resume, DecideApproval, QueueApproved, MarkRunning,
           ReturnRestoredOutput, ProviderAnswers, RequestApproval, WaitForApproval, Complete,
           AskClarification, RejectAnswer, FinishFailed, LoseStatus, ExecutorThrows,
           SyncRevision, Cancel,
           WriteCancelled, Recover, Proceed, Throw, WriteStatus, SaveRun, KeepDurable,
           mailboxVars, executorVars
  <2>2. \/ pc' = pc
        \/ pc' \in {"starting", "approving", "off", "opening", "failing", "closing"}
        \/ /\ pc \in {"settling", "capturing", "suspending", "completing", "clarifying"}
           /\ pc' \in {"suspending", "finishing", "finalized"}
        \/ pc = "provider" /\ pc' \in {"filtering", "finishing"}
    BY <1>2
       DEF StartQueued, Resume, DecideApproval, QueueApproved, MarkRunning,
           ReturnRestoredOutput, ProviderAnswers, RequestApproval, WaitForApproval, Complete,
           AskClarification, RejectAnswer, FinishFailed, LoseStatus, ExecutorThrows,
           SyncRevision, Cancel,
           WriteCancelled, Recover, Proceed, Throw, WriteStatus
  <2> HIDE DEF KeepsDelivery
  <2>3. QED
    BY <1>1, <2>1, <2>2, QuietStepPreservesLease DEF Executing
<1>3. CASE BindCandidate \/ ContinueAfterJudging
  <2>1. KeepsDelivery
    BY <1>3 DEF BindCandidate, ContinueAfterJudging, Proceed, KeepDurable, mailboxVars,
                executorVars
  <2>2. pc \in {"settling", "judging"} /\ pc' \in {"judging", "looping"}
    BY <1>3 DEF BindCandidate, ContinueAfterJudging, Proceed
  <2>3. activeInputLeaseId = None
    BY <2>2 DEF LeaseInv, AnsweredLeaseIsClosed
  <2> HIDE DEF KeepsDelivery
  <2>4. QED
    BY <1>1, <2>1, <2>2, <2>3, QuietStepPreservesLease DEF Executing
<1>4. CASE ClaimTerminal
  <2>1. KeepsDelivery
    BY <1>4 DEF ClaimTerminal, TryClaimTerminalInput, mailboxVars, executorVars
  <2>2. pc = "judging" /\ pc' \in {"completing", "clarifying", "rejecting", "looping"}
    BY <1>4 DEF ClaimTerminal
  <2>3. activeInputLeaseId = None
    BY <2>2 DEF LeaseInv, AnsweredLeaseIsClosed
  <2> HIDE DEF KeepsDelivery
  <2>4. QED
    BY <1>1, <2>1, <2>2, <2>3, QuietStepPreservesLease DEF Executing
<1>5. CASE Replay
  <2>1. KeepsDelivery /\ pc = "replaying" /\ pc' \in {"failing", "looping"}
    BY <1>5 DEF Replay, Proceed, Throw, KeepDurable, mailboxVars, executorVars
  <2>2. activeInputLeaseId # None => Included # {}
    BY <2>1 DEF LeaseInv, OpenedLeaseIsIncluded
  <2> HIDE DEF KeepsDelivery
  <2>3. QED
    BY <1>1, <2>1, <2>2, QuietStepPreservesLease DEF Executing
<1>6. CASE OpenSteering
  BY <1>6, OpenPreservesLease
<1>7. CASE Assemble
  BY <1>7, AssemblePreservesLease
<1>8. CASE LoopTop
  BY <1>8, LoopTopPreservesLease
<1>9. CASE Capture
  BY <1>9, CapturePreservesLease
<1>10. CASE SaveBaseline
  BY <1>10, BaselinePreservesLease
<1>11. CASE FilterCheckpoint \/ FinalCheckpoint
  <2>1. CASE Throw("aborted") /\ pc = "finishing"
    <3>1. KeepsDelivery
      BY <2>1 DEF Throw, KeepDurable, mailboxVars, executorVars
    <3>2. pc' = "failing"
      BY <2>1 DEF Throw
    <3> HIDE DEF KeepsDelivery
    <3>3. QED
      BY <1>1, <3>1, <3>2, QuietStepPreservesLease DEF Executing
  <2>2. QED
    BY <1>11, <2>1, CheckpointPreservesLease DEF FilterCheckpoint, FinalCheckpoint
<1>12. CASE FilterConsume
  <2>1. pc = "consuming" /\ Consume("capturing", "looping") /\ UNCHANGED stepVars
    BY <1>12 DEF FilterConsume
  <2>2. activeInputLeaseId = None
    BY <2>1 DEF LeaseInv, AnsweredLeaseIsClosed
  <2>3. QED
    BY <2>1, <2>2, ConsumePreservesLease
<1>13. CASE CloseExecution \/ Crash
  <2>1. pc' = "off" /\ UNCHANGED <<mailboxVars, stepVars>>
    BY <1>13 DEF CloseExecution, Crash, KeepDurable
  <2>2. UNCHANGED deliveryState
    BY <2>1, StatusIsNoDelivery DEF mailboxVars
  <2>3. QED
    BY <2>1, <2>2
       DEF LeaseInv, ExecutorHoldsTheOpenLease, OpenedLeaseIsIncluded, LeaseIsBound,
           CursorIsBound, AnsweredLeaseIsClosed, ActiveStepNamesNextCursor,
           StepDescribesOneInputSet, ProviderAnswersTheActiveRequest, deliveryState,
           leaseVars, stepVars, Executing
<1>14. CASE \E i \in Input : Steer(i)
  BY <1>14, SteerPreservesLease
<1>15. CASE UNCHANGED vars
  <2>1. KeepsDelivery /\ pc' = pc
    BY <1>15 DEF vars, mailboxVars, executorVars
  <2> HIDE DEF KeepsDelivery
  <2>2. QED
    BY <1>1, <2>1, QuietStepPreservesLease
<1>16. QED
  BY <1>2, <1>3, <1>4, <1>5, <1>6, <1>7, <1>8, <1>9, <1>10, <1>11, <1>12, <1>13, <1>14, <1>15
     DEF RunNext, Executor

\* A run that has been created holds no lease.
LEMMA RunInitEstablishesLease == RunInit => LeaseInv
  BY DEF RunInit, Init, LeaseInv, ExecutorHoldsTheOpenLease, OpenedLeaseIsIncluded,
         LeaseIsBound, CursorIsBound, AnsweredLeaseIsClosed, ActiveStepNamesNextCursor,
         StepDescribesOneInputSet, ProviderAnswersTheActiveRequest, Executing

\* From the assembly on the executor holds exactly the open lease; every step context names one
\* set of inputs by its revision and its cursor; and while the provider works, everything in
\* delivery belongs to the request it was asked (RuntimeSdkExecutor, captureModelRequest).
THEOREM LeaseIsFollowed ==
  RunSpec => []ExecutorFollowsLease
<1>1. RunInit => LeaseInv
  BY RunInitEstablishesLease
<1>2. RunBase /\ LeaseInv /\ [RunNext]_vars => LeaseInv'
  BY StepPreservesLease
<1>3. LeaseInv => ExecutorFollowsLease
  BY DEF LeaseInv, ExecutorFollowsLease
<1>4. QED
  BY <1>1, <1>2, <1>3, BaseInvariant, PTL DEF RunSpec

------------------------------------------------------------------------------------
(* The answer: from the checkpoint that holds it to its delivery. *)

\* An answer is settled after the checkpoint that closed its request, and judged against the
\* newest request.
AnswerIsClosed ==
    /\ pc \in {"settling", "judging"} => activeModelRequestId = None /\ committedRequests # {}
    /\ pc = "judging" => candidate = NewestRequest

\* An answer on its way to the user has claimed the mailbox.
DeliveryHasClaim == pc \in {"completing", "clarifying"} => terminalInputClaimId # None

AnswerInv ==
    /\ AnswerIsClosed
    /\ DeliveryHasClaim
    /\ ClaimMeansAnswered
    /\ OnlyClaimedAnswersAreDelivered

\* A sealed mailbox keeps what the claim means: nothing is accepted, leased, requested or
\* acknowledged after it.
LEMMA ClaimStaysAnswered ==
  ASSUME RunBase, ClaimMeansAnswered, terminalInputClaimId # None, [Next]_mailboxVars,
         stepCursor' = stepCursor
  PROVE  ClaimMeansAnswered' /\ terminalInputClaimId' # None
<1> USE DEF RunBase, MailboxInv, TypeOK
<1>1. /\ Accepted = RowsWithStatus({"checkpointed"})
      /\ stepCursor[NewestRequest] = nextInputSequence - 1
      /\ activeModelRequestId = None
  BY DEF ClaimMeansAnswered
<1>2. activeInputLeaseId = None
  BY DEF ClaimIsExact, TerminalClaimCheck
<1>3. QueuedRows = {}
  BY <1>1 DEF QueuedRows, Accepted, RowsWithStatus
<1>4. /\ UNCHANGED <<inputStatus, committedRequests, nextInputSequence, terminalInputClaimId>>
      /\ activeModelRequestId' = None
  BY <1>1, <1>2, <1>3
     DEF Next, EnqueueRunInput, LeaseRunInputs, RequeueLeasedRunInputs, CommitModelRequest,
         SaveAgentsSdkCheckpoint, AckInputLease, RetryAckedCheckpoint, TryClaimTerminalInput,
         SaveRun, ClosedRequest, mailboxVars, inputVars, requestVars, claimVars
<1>5. UNCHANGED <<Accepted, RowsWithStatus({"checkpointed"}), NewestRequest>>
  BY <1>4 DEF Accepted, RowsWithStatus, NewestRequest
<1>6. QED
  BY <1>1, <1>4, <1>5 DEF ClaimMeansAnswered

\* The claim is taken only for an answer given in sight of every accepted input.
LEMMA ClaimPreservesAnswer ==
  ASSUME RunBase, StepDescribesOneInputSet, AnswerInv, ClaimTerminal
  PROVE  AnswerInv'
<1> USE DEF RunBase, MailboxInv, TypeOK
<1>1. /\ pc = "judging"
      /\ candidate = NewestRequest
      /\ activeModelRequestId = None
      /\ candidate \in committedRequests
  BY NewestIsCommitted DEF ClaimTerminal, AnswerInv, AnswerIsClosed
<1>2. UNCHANGED <<stepCursor, status, inputStatus, nextInputSequence, requestVars>>
  BY DEF ClaimTerminal, TryClaimTerminalInput, mailboxVars, inputVars, stepVars
<1>3. UNCHANGED <<Accepted, RowsWithStatus({"checkpointed"}), NewestRequest>>
  BY <1>2 DEF Accepted, RowsWithStatus, NewestRequest, requestVars
<1>4. pc' # "judging" /\ pc' # "settling"
  BY DEF ClaimTerminal
<1>5. CASE UNCHANGED terminalInputClaimId /\ pc' = "looping"
  BY <1>2, <1>3, <1>4, <1>5
     DEF AnswerInv, AnswerIsClosed, DeliveryHasClaim, ClaimMeansAnswered,
         OnlyClaimedAnswersAreDelivered, requestVars
<1>6. ASSUME NEW k \in Claim,
             TryClaimTerminalInput(k, BoundTo(candidate), stepCursor[candidate])
      PROVE  AnswerInv'
  <2>1. /\ terminalInputClaimId' = k
        /\ nextInputSequence = stepRevision[candidate]
        /\ checkpointInputCursor = stepCursor[candidate]
    BY <1>6 DEF TryClaimTerminalInput
  <2>2. stepCursor[candidate] = nextInputSequence - 1
    BY <1>1, <2>1 DEF StepDescribesOneInputSet, ExecutorTypes
  <2>3. \A i \in Accepted : inputStatus[i] = "checkpointed"
    BY <2>1, <2>2
       DEF SequencesAreDense, Contiguous, CursorSplitsMailbox, Accepted, ExecutorTypes
  <2>4. Accepted = RowsWithStatus({"checkpointed"})
    BY <2>3 DEF Accepted, RowsWithStatus
  <2>5. ClaimMeansAnswered'
    BY <1>1, <1>2, <1>3, <2>2, <2>4 DEF ClaimMeansAnswered, requestVars
  <2>6. QED
    BY <1>2, <1>4, <2>1, <2>5
       DEF AnswerInv, AnswerIsClosed, DeliveryHasClaim, OnlyClaimedAnswersAreDelivered
<1>7. QED
  BY <1>5, <1>6 DEF ClaimTerminal, mailboxVars, claimVars

\* The claim means what it meant, and a mailbox without a claim stays without one: every step but
\* ClaimTerminal.
LEMMA OtherStepsPreserveClaim ==
  ASSUME RunBase, ClaimMeansAnswered, [RunNext]_vars, ~ClaimTerminal
  PROVE  /\ ClaimMeansAnswered'
         /\ terminalInputClaimId # None => terminalInputClaimId' # None
<1>1. CASE terminalInputClaimId # None
  <2>1. stepCursor' = stepCursor
    BY <1>1
       DEF RunNext, Executor, StartQueued, QueueApproved, MarkRunning, OpenSteering, Assemble,
           Replay, LoopTop, ReturnRestoredOutput, Capture, SaveBaseline, ProviderAnswers,
           FilterCheckpoint, FilterConsume, FinalCheckpoint, RequestApproval, WaitForApproval,
           BindCandidate, ContinueAfterJudging, Complete, AskClarification, RejectAnswer,
           FinishFailed, LoseStatus, CloseExecution, ExecutorThrows, Resume, DecideApproval, Steer,
           SyncRevision, Cancel, WriteCancelled, Crash, Recover, Proceed, Throw, WriteStatus,
           KeepDurable, CheckpointStep, CommitModelRequest, stepVars, vars
  <2>2. QED
    BY <1>1, <2>1, StepIsMailboxStep, ClaimStaysAnswered
<1>2. CASE terminalInputClaimId = None
  <2>1. terminalInputClaimId' = None
    BY <1>2
       DEF RunNext, Executor, StartQueued, QueueApproved, MarkRunning, OpenSteering, Assemble,
           Replay, LoopTop, ReturnRestoredOutput, Capture, SaveBaseline, ProviderAnswers,
           FilterCheckpoint, FilterConsume, FinalCheckpoint, RequestApproval, WaitForApproval,
           BindCandidate, ContinueAfterJudging, Complete, AskClarification, RejectAnswer,
           FinishFailed, LoseStatus, CloseExecution, ExecutorThrows, Resume, DecideApproval, Steer,
           SyncRevision, Cancel, WriteCancelled, Crash, Recover, Proceed, Throw, WriteStatus,
           KeepDurable, CheckpointStep, Consume, SaveRun, EnqueueRunInput, LeaseRunInputs,
           RequeueLeasedRunInputs, CommitModelRequest, SaveAgentsSdkCheckpoint, AckInputLease,
           vars, mailboxVars, claimVars
  <2>2. QED
    BY <1>2, <2>1 DEF ClaimMeansAnswered
<1>3. QED
  BY <1>1, <1>2

\* A final checkpoint leaves a closed request behind its answer.
LEMMA FinalCheckpointPreservesAnswer ==
  ASSUME RunBase, LeaseInv, AnswerInv, FinalCheckpoint \/ FilterCheckpoint
  PROVE  AnswerIsClosed' /\ DeliveryHasClaim' /\ UNCHANGED status
<1>1. PICK place \in {"consuming", "settling"} : Throw("aborted") \/ CheckpointStep(place)
  BY DEF FinalCheckpoint, FilterCheckpoint
<1>2. CASE pc' = "failing" /\ UNCHANGED status
  BY <1>2 DEF AnswerIsClosed, DeliveryHasClaim
<1>3. CASE /\ CanCheckpoint /\ pc' = place /\ UNCHANGED status
           /\ \/ AckInputLease(pendingLease, step, step)
              \/ SaveAgentsSdkCheckpoint(step, step)
  <2>1. /\ activeModelRequestId # None
        /\ step = activeModelRequestId
        /\ activeModelRequestId \in committedRequests
    BY <1>3 DEF CanCheckpoint, LeaseInv, ActiveStepNamesNextCursor
  <2>2. activeModelRequestId' = None /\ UNCHANGED committedRequests
    BY <1>3, <2>1 DEF AckInputLease, SaveAgentsSdkCheckpoint, ClosedRequest
  <2>3. QED
    BY <1>3, <2>1, <2>2 DEF AnswerIsClosed, DeliveryHasClaim
<1>4. QED
  BY <1>1, <1>2, <1>3
     DEF CheckpointStep, Throw, KeepDurable, mailboxVars, AckInputLease,
         SaveAgentsSdkCheckpoint

\* AnswerInv is inductive over RunBase and LeaseInv.
LEMMA StepPreservesAnswer ==
  ASSUME RunBase, LeaseInv, AnswerInv, [RunNext]_vars
  PROVE  AnswerInv'
<1>1. CASE ClaimTerminal
  BY <1>1, ClaimPreservesAnswer DEF LeaseInv
<1> SUFFICES ASSUME ~ClaimTerminal
             PROVE  AnswerInv'
  BY <1>1
<1>2. ClaimMeansAnswered' /\ (terminalInputClaimId # None => terminalInputClaimId' # None)
  BY OtherStepsPreserveClaim DEF AnswerInv
<1>3. ASSUME UNCHANGED status, AnswerIsClosed' /\ DeliveryHasClaim'
      PROVE  AnswerInv'
  BY <1>2, <1>3 DEF AnswerInv, OnlyClaimedAnswersAreDelivered
<1>4. ASSUME pc' \notin {"settling", "judging", "completing", "clarifying"}
      PROVE  AnswerIsClosed' /\ DeliveryHasClaim'
  BY <1>4 DEF AnswerIsClosed, DeliveryHasClaim
<1>5. CASE \/ StartQueued \/ Resume \/ DecideApproval \/ OpenSteering \/ Assemble \/ Replay
           \/ LoopTop \/ ReturnRestoredOutput \/ Capture \/ SaveBaseline
           \/ ProviderAnswers \/ FilterConsume \/ RequestApproval \/ ContinueAfterJudging
           \/ RejectAnswer \/ CloseExecution \/ ExecutorThrows \/ Crash
  <2>1. UNCHANGED status
    BY <1>5
       DEF StartQueued, Resume, DecideApproval, OpenSteering, Assemble, Replay, LoopTop,
           ReturnRestoredOutput, Capture, SaveBaseline, ProviderAnswers, FilterConsume,
           RequestApproval, ContinueAfterJudging, RejectAnswer, CloseExecution,
           ExecutorThrows, Crash, Proceed, Throw, KeepDurable, Consume, LeaseRunInputs,
           RequeueLeasedRunInputs, CommitModelRequest, SaveAgentsSdkCheckpoint, mailboxVars
  <2>2. pc' \notin {"settling", "judging", "completing", "clarifying"}
    BY <1>5
       DEF StartQueued, Resume, DecideApproval, OpenSteering, Assemble, Replay, LoopTop,
           ReturnRestoredOutput, Capture, SaveBaseline, ProviderAnswers, FilterConsume,
           RequestApproval, ContinueAfterJudging, RejectAnswer, CloseExecution,
           ExecutorThrows, Crash, Proceed, Throw, Consume
  <2>3. QED
    BY <1>3, <1>4, <2>1, <2>2
<1>6. CASE FinalCheckpoint \/ FilterCheckpoint
  BY <1>3, <1>6, FinalCheckpointPreservesAnswer
<1>7. CASE BindCandidate
  <2>1. /\ UNCHANGED <<status, requestVars>>
        /\ pc = "settling"
        /\ candidate' = NewestRequest
        /\ pc' \in {"judging", "looping"}
    BY <1>7 DEF BindCandidate, mailboxVars
  <2>2. NewestRequest' = NewestRequest
    BY <2>1 DEF NewestRequest, requestVars
  <2>3. AnswerIsClosed' /\ DeliveryHasClaim'
    BY <2>1, <2>2 DEF AnswerInv, AnswerIsClosed, DeliveryHasClaim, requestVars
  <2>4. QED
    BY <1>3, <2>1, <2>3
<1>8. CASE MarkRunning \/ WaitForApproval \/ FinishFailed \/ QueueApproved \/ Recover
  <2>1. /\ pc' \in {"opening", "finalized", "closing", "off"} \/ UNCHANGED pc
        /\ status' \notin {"completed", "clarification_needed"} \/ UNCHANGED status
        /\ UNCHANGED <<requestVars, candidate>>
    BY <1>8 DEF MarkRunning, WaitForApproval, FinishFailed, LoseStatus, QueueApproved, Recover,
                WriteStatus, KeepDurable, SaveRun, mailboxVars, executorVars
  <2>2. NewestRequest' = NewestRequest
    BY <2>1 DEF NewestRequest, requestVars
  <2>3. QED
    BY <1>2, <2>1, <2>2 DEF AnswerInv, AnswerIsClosed, DeliveryHasClaim,
                            OnlyClaimedAnswersAreDelivered, requestVars
<1>9. CASE Complete \/ AskClarification
  <2>1. pc \in {"completing", "clarifying"} /\ pc' = "finalized"
    BY <1>9 DEF Complete, AskClarification, WriteStatus
  <2>2. terminalInputClaimId' # None
    BY <1>2, <2>1 DEF AnswerInv, DeliveryHasClaim
  <2>3. QED
    BY <1>2, <1>4, <2>1, <2>2 DEF AnswerInv, OnlyClaimedAnswersAreDelivered
<1>10. CASE SyncRevision \/ Cancel \/ WriteCancelled \/ UNCHANGED vars
            \/ \E i \in Input : Steer(i)
  <2>1. /\ UNCHANGED <<pc, requestVars, candidate>>
        /\ status' = "cancelled" \/ UNCHANGED status
    BY <1>10 DEF SyncRevision, Cancel, WriteCancelled, Steer, EnqueueRunInput, SaveRun,
                 KeepDurable, vars, mailboxVars, executorVars
  <2>2. NewestRequest' = NewestRequest
    BY <2>1 DEF NewestRequest, requestVars
  <2>3. QED
    BY <1>2, <2>1, <2>2 DEF AnswerInv, AnswerIsClosed, DeliveryHasClaim,
                            OnlyClaimedAnswersAreDelivered, requestVars
<1>11. QED
  BY <1>5, <1>6, <1>7, <1>8, <1>9, <1>10 DEF RunNext, Executor

\* An answer reaches the user only under the terminal claim, and the claim means that every input
\* accepted by then was in the request the answer came from and is confirmed: no interleaving
\* of steering, cancelling, crashing, approving and resuming delivers an answer that has not
\* seen all the user had said (evaluateTerminalCandidateState, tryClaimTerminal).
THEOREM AnswersSeeEveryInput ==
  RunSpec => []DeliveredAnswersSawEveryInput
<1> DEFINE Inv == RunBase /\ LeaseInv /\ AnswerInv
<1>1. RunInit => Inv
  <2>1. RunInit => LeaseInv
    BY RunInitEstablishesLease
  <2>2. RunInit => AnswerInv
    BY DEF RunInit, Init, AnswerInv, AnswerIsClosed, DeliveryHasClaim, ClaimMeansAnswered,
           OnlyClaimedAnswersAreDelivered
  <2>3. QED
    BY <2>1, <2>2, RunInitEstablishesBase
<1>2. Inv /\ [RunNext]_vars => Inv'
  BY StepPreservesBase, StepPreservesLease, StepPreservesAnswer
<1>3. Inv => DeliveredAnswersSawEveryInput
  BY DEF AnswerInv, DeliveredAnswersSawEveryInput
<1>4. QED
  BY <1>1, <1>2, <1>3, PTL DEF RunSpec

------------------------------------------------------------------------------------
(* Types. *)

Flags ==
    /\ up \in BOOLEAN
    /\ resuming \in BOOLEAN
    /\ aborted \in BOOLEAN
    /\ cancelling \in BOOLEAN
    /\ accepting \in BOOLEAN
    /\ unsynced \in BOOLEAN
    /\ approvalPending \in BOOLEAN
    /\ savedFinal \in BOOLEAN
    /\ restored \in BOOLEAN
    /\ firstCall \in BOOLEAN

Places ==
    /\ pc \in Active \cup {"off", "approving"}
    /\ failure \in {"none", "steering", "revision", "terminal", "turns", "request", "rejected",
                    "aborted", "external", "unrecorded"}

\* The types proved apart make up ExecutionTypeOK.
LEMMA ExecutionTypesAreComplete == RunBase /\ Flags /\ Places => ExecutionTypeOK
<1> SUFFICES ASSUME RunBase, Flags, Places
             PROVE  ExecutionTypeOK
  OBVIOUS
<1>1. {up, resuming, aborted, cancelling, accepting, unsynced} \subseteq BOOLEAN
  BY DEF Flags
<1>2. {approvalPending, savedFinal, restored, firstCall} \subseteq BOOLEAN
  BY DEF Flags
<1>3. QED
  BY <1>1, <1>2 DEF ExecutionTypeOK, RunBase, MailboxInv, ExecutorTypes, Places

\* Every step moves the executor to one of its places.
LEMMA StepPreservesPlaces ==
  ASSUME Places, [RunNext]_vars
  PROVE  Places'
<1> USE DEF Places, Active, Executing
<1>1. CASE \/ StartQueued \/ QueueApproved \/ MarkRunning \/ OpenSteering \/ Assemble \/ Replay
           \/ LoopTop \/ ReturnRestoredOutput \/ Capture \/ SaveBaseline \/ ProviderAnswers
  BY <1>1
     DEF StartQueued, QueueApproved, MarkRunning, OpenSteering, Assemble, Replay, LoopTop,
         ReturnRestoredOutput, Capture, SaveBaseline, ProviderAnswers, Consume, Proceed, Throw,
         WriteStatus
<1>2. CASE \/ FilterCheckpoint \/ FilterConsume \/ FinalCheckpoint \/ RequestApproval
           \/ WaitForApproval \/ BindCandidate \/ ContinueAfterJudging \/ ClaimTerminal
           \/ Complete \/ AskClarification \/ RejectAnswer \/ FinishFailed \/ CloseExecution
  BY <1>2
     DEF FilterCheckpoint, FilterConsume, FinalCheckpoint, RequestApproval, WaitForApproval,
         BindCandidate, ContinueAfterJudging, ClaimTerminal, Complete, AskClarification,
         RejectAnswer, FinishFailed, LoseStatus, CloseExecution, CheckpointStep, Consume,
         Proceed, Throw,
         WriteStatus
<1>3. CASE \/ ExecutorThrows \/ Resume \/ DecideApproval \/ SyncRevision \/ Cancel
           \/ WriteCancelled \/ Crash \/ Recover \/ UNCHANGED vars
           \/ \E i \in Input : Steer(i)
  BY <1>3
     DEF ExecutorThrows, Resume, DecideApproval, SyncRevision, Cancel, WriteCancelled, Crash,
         Recover, Steer, Throw, vars
<1>4. QED
  BY <1>1, <1>2, <1>3 DEF RunNext, Executor

\* Every step keeps the flags Boolean.
LEMMA StepPreservesFlags ==
  ASSUME Flags, [RunNext]_vars
  PROVE  Flags'
<1> USE DEF Flags, processVars, stateVars, executorVars
<1>1. CASE StartQueued \/ Resume
  BY <1>1, Zenon DEF StartQueued, Resume, KeepDurable
<1>2. CASE OpenSteering
  BY <1>2, Zenon DEF OpenSteering, Throw, KeepDurable
<1>3. CASE Assemble
  BY <1>3, Zenon DEF Assemble, Throw, KeepDurable
<1>4. CASE LoopTop \/ FilterConsume
  BY <1>4, Zenon DEF LoopTop, FilterConsume, Consume
<1>5. CASE Capture
  BY <1>5, Zenon DEF Capture, Throw, KeepDurable
<1>6. CASE SaveBaseline
  BY <1>6, Zenon DEF SaveBaseline
<1>7. CASE FilterCheckpoint \/ FinalCheckpoint
  <2>1. PICK place : Throw("aborted") \/ CheckpointStep(place)
    BY <1>7, Zenon DEF FilterCheckpoint, FinalCheckpoint
  <2>2. savedFinal' \in BOOLEAN
    BY <2>1 DEF CheckpointStep, Throw, KeepDurable
  <2>3. QED
    BY <2>1, <2>2, Zenon DEF CheckpointStep, Throw, KeepDurable
<1>8. CASE DecideApproval \/ RequestApproval \/ BindCandidate
  BY <1>8, Zenon DEF DecideApproval, RequestApproval, BindCandidate
<1>9. CASE ClaimTerminal
  BY <1>9, Zenon DEF ClaimTerminal
<1>10. CASE CloseExecution \/ Crash
  BY <1>10, Zenon DEF CloseExecution, Crash, KeepDurable
<1>11. CASE \E s, place : WriteStatus(s, place)
  BY <1>11, Zenon DEF WriteStatus
<1>12. CASE \/ \E place : Proceed(place)
            \/ \E reason : Throw(reason)
  BY <1>12, Zenon DEF Proceed, Throw, KeepDurable
<1>13. CASE QueueApproved \/ Cancel \/ WriteCancelled
  BY <1>13, Zenon DEF QueueApproved, Cancel, WriteCancelled, KeepDurable
<1>14. CASE SyncRevision \/ Recover \/ \E i \in Input : Steer(i)
  BY <1>14, Zenon DEF SyncRevision, Recover, Steer
<1>15. CASE UNCHANGED vars
  BY <1>15, Zenon DEF vars
<1>16. CASE MarkRunning \/ WaitForApproval \/ Complete \/ AskClarification \/ FinishFailed
  <2>1. CASE LoseStatus
    BY <2>1, Zenon DEF LoseStatus, KeepDurable
  <2>2. QED
    BY <1>11, <1>16, <2>1, Zenon DEF MarkRunning, WaitForApproval, Complete,
                                     AskClarification, FinishFailed
<1>17. CASE \/ Replay \/ ReturnRestoredOutput \/ ProviderAnswers \/ ContinueAfterJudging
            \/ RejectAnswer \/ ExecutorThrows
  BY <1>12, <1>17, Zenon DEF Replay, ReturnRestoredOutput, ProviderAnswers,
                             ContinueAfterJudging, RejectAnswer, ExecutorThrows
<1>18. QED
  BY <1>1, <1>2, <1>3, <1>4, <1>5, <1>6, <1>7, <1>8, <1>9, <1>10, <1>13, <1>14, <1>15, <1>16,
     <1>17, Zenon DEF RunNext, Executor

\* Every reachable state of a run under execution has its types.
THEOREM ExecutionIsWellTyped == RunSpec => []ExecutionTypeOK
<1>1. RunInit => Flags /\ Places
  BY DEF RunInit, Flags, Places
<1>2. Flags /\ [RunNext]_vars => Flags'
  BY StepPreservesFlags
<1>3. Places /\ [RunNext]_vars => Places'
  BY StepPreservesPlaces
<1>4. QED
  BY <1>1, <1>2, <1>3, BaseInvariant, ExecutionTypesAreComplete, PTL DEF RunSpec

====================================================================================
