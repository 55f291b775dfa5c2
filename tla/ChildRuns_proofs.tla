---------------------------- MODULE ChildRuns_proofs ----------------------------
(* Proofs about child runs: the root's budget counts what the rows say, mail   *)
(* becomes run input once and in order, and a child that has finished is       *)
(* announced.                                                                  *)
(*                                                                             *)
(* Three inductive invariants, each on top of the first. BudgetInv: the two    *)
(* counters are the cardinalities of what they count, and a run that was never *)
(* spawned has neither a task nor a pending cancellation, so that no status    *)
(* write can make a child that no spawn has counted. MailInv: a receiver's     *)
(* sequences tell its mail apart, a list that is being delivered leaves out    *)
(* nothing that precedes what is on it, and all mail before one accepted       *)
(* without a trigger has been accepted. AnnouncedInv: between a status write   *)
(* and the end of the task, the callback holds the status that was written.    *)
EXTENDS ChildRuns, FiniteSetTheorems, SequenceTheorems, TLAPS

USE ChildRunAssumption
USE DEF Run, Mail, Active, Terminal, RunStatus, TaskPlace, budgetVars, mailVars, serverVars,
        taskVars, callVars, waitVars

-------------------------------------------------------------------------------
(* The budget: which runs there are, and what refers to them.                  *)

Born == {c \in Child : status[c] # "unborn"}
Counted == {c \in Child : status[c] \in Active}

\* Who has been spawned, and what a run that has not been cannot have.
Kinship ==
    /\ status[Root] # "unborn"
    /\ \A c \in Child :
           IF status[c] = "unborn"
           THEN task[c] = "idle" /\ ~cancelPending[c] /\ c \notin spawning
           ELSE parentRun[c] \in Run

\* How far a message has come, and whom it is for.
Addressed ==
    /\ \A m \in Message :
           /\ sending[m] \in {"new", "checked"} => mailStatus[m] = "none"
           /\ sending[m] \in {"stored", "steered"} => mailStatus[m] # "none"
           /\ sending[m] \in {"checked", "stored", "steered"} =>
                  mailTo[m] \in Run /\ status[mailTo[m]] # "unborn"
    /\ IsFiniteSet(Sent)

\* What is being gone through has a next element, and is still to be gone through.
Walks ==
    /\ \A r \in Run : task[r] = "marking" => toDeliver[r] # <<>>
    /\ \A c \in unreconciled : status[c] \in Terminal
    /\ serverPhase # "reconciling" => unreconciled = {}

Counts ==
    /\ totalChildren = Cardinality(Born) /\ totalChildren <= MaxTotal
    /\ activeChildren = Cardinality(Counted) /\ activeChildren <= MaxConcurrent

BudgetInv == ChildTypeOK /\ Kinship /\ Addressed /\ Walks /\ Counts

-------------------------------------------------------------------------------
(* The mailboxes.                                                              *)

Stored(m) == mailStatus[m] # "none"
Accepted(r, m) == \E i \in 1..Len(accepted[r]) : accepted[r][i] = m

\* The receiver's sequence numbers its mail.
Numbered ==
    /\ \A m \in Mail : Stored(m) => /\ mailTo[m] \in Run
                                    /\ mailSequence[m] < nextMailSequence[mailTo[m]]
    /\ \A m, n \in Mail :
           Stored(m) /\ Stored(n) /\ mailTo[m] = mailTo[n] /\ mailSequence[m] = mailSequence[n]
           => m = n

\* Mail is accepted by the run it is for, and before it is marked.
Taken ==
    /\ \A r \in Run, m \in Mail : Accepted(r, m) => Stored(m) /\ mailTo[m] = r
    /\ \A m \in Mail : mailStatus[m] \in {"delivered", "checkpointed"} => Accepted(mailTo[m], m)
    /\ \A m \in Message : sending[m] = "steered" => Stored(m) /\ Accepted(mailTo[m], m)
    /\ \A r \in Run : task[r] = "marking" => Accepted(r, Head(toDeliver[r]))

\* All mail before one that was accepted without a trigger has been accepted.
NothingSkipped ==
    \A r \in Run : \A m, n \in Mail :
        /\ Accepted(r, m) /\ ~mailTrigger[m]
        /\ Stored(n) /\ mailTo[n] = r /\ mailSequence[n] < mailSequence[m]
        => Accepted(r, n)

\* A list of mail to deliver is in order, and nothing that precedes it is left out.
Deliverable(r, list) ==
    /\ \A i \in 1..Len(list) : Stored(list[i]) /\ mailTo[list[i]] = r
    /\ \A i \in 1..Len(list), n \in Mail :
           /\ Stored(n) /\ mailTo[n] = r /\ ~Accepted(r, n)
           /\ mailSequence[n] < mailSequence[list[i]]
           => \E j \in 1..(i - 1) : list[j] = n

ListedFor(r) == Deliverable(r, toDeliver[r])

Listed == \A r \in Run : ListedFor(r)

InOrder ==
    \A r \in Run : \A i, j \in 1..Len(accepted[r]) : i < j =>
        /\ accepted[r][i] # accepted[r][j]
        /\ \/ mailSequence[accepted[r][i]] < mailSequence[accepted[r][j]]
           \/ mailTrigger[accepted[r][i]]

MailInv == Numbered /\ Taken /\ NothingSkipped /\ Listed /\ InOrder

-------------------------------------------------------------------------------
(* The announcement of a child's end.                                          *)

Finished == {"completed", "failed", "requires_action"}

Announced(c) ==
    /\ task[c] \notin {"idle", "settling"} => target[c] \in {"manager", "user"}
    /\ task[c] = "settling" => target[c] \in {"manager", "user", "failed"}
    /\ task[c] = "settling" /\ target[c] = "manager" /\ status[c] \in Finished
         => settledStatus[c] = status[c]
    /\ serverPhase = "up" /\ task[c] = "idle" /\ target[c] \notin {"user", "failed"}
      /\ status[c] \in Finished
         => mailStatus[c] # "none"
    /\ serverPhase = "reconciling" /\ status[c] \in Finished /\ c \notin unreconciled
         => mailStatus[c] # "none"
    /\ serverPhase # "up" => task[c] = "idle"

AnnouncedInv == \A c \in Child : Announced(c)

-------------------------------------------------------------------------------
(* The rows and the budget.                                                    *)

\* The children can be counted, whatever their status.
LEMMA ChildrenAreFinite ==
  ASSUME NEW S \in SUBSET Child
  PROVE  IsFiniteSet(S) /\ Cardinality(S) \in Nat
  BY FS_Subset, FS_CardinalityType

\* A status write changes the count of active children by what it says.
LEMMA StatusWriteCounts ==
  ASSUME ChildTypeOK, Counts, NEW r \in Run, NEW next \in RunStatus \ {"unborn"},
         status[r] # "unborn", WriteStatus(r, next)
  PROVE  Counts' /\ status' \in [Run -> RunStatus]
         /\ totalChildren' \in Nat /\ activeChildren' \in Nat
<1>1. status' \in [Run -> RunStatus] /\ totalChildren' = totalChildren
  BY DEF WriteStatus, ChildTypeOK
<1>2. Born' = Born
  BY DEF Born, WriteStatus, ChildTypeOK
<1>3. /\ IsFiniteSet(Counted) /\ Cardinality(Counted) \in Nat /\ activeChildren \in Nat
      /\ IsFiniteSet(Counted') /\ Cardinality(Counted') \in Nat /\ totalChildren \in Nat
  BY ChildrenAreFinite DEF Counted, ChildTypeOK
<1>4. CASE r = Root \/ (status[r] \in Active <=> next \in Active)
  <2>1. Counted' = Counted /\ activeChildren' = activeChildren
    BY <1>4 DEF Counted, WriteStatus, ChildTypeOK
  <2>2. QED
    BY <1>1, <1>2, <1>3, <2>1 DEF Counts
<1>5. CASE r # Root /\ status[r] \notin Active /\ next \in Active
  <2>1. /\ Counted' = Counted \cup {r} /\ r \notin Counted
        /\ activeChildren' = activeChildren + 1
        /\ activeChildren < MaxConcurrent
    BY <1>5 DEF Counted, WriteStatus, BudgetAllows, ChildTypeOK
  <2>2. Cardinality(Counted') = Cardinality(Counted) + 1
    BY <1>3, <2>1, FS_AddElement
  <2>3. QED
    BY <1>1, <1>2, <1>3, <2>1, <2>2 DEF Counts
<1>6. CASE r # Root /\ status[r] \in Active /\ next \notin Active
  <2>1. /\ Counted' = Counted \ {r} /\ r \in Counted
        /\ activeChildren' = activeChildren - 1
    BY <1>6 DEF Counted, WriteStatus, ChildTypeOK
  <2>2. Cardinality(Counted') = Cardinality(Counted) - 1
    BY <1>3, <2>1, FS_RemoveElement
  <2>3. QED
    BY <1>1, <1>2, <1>3, <2>1, <2>2 DEF Counts
<1>7. QED
  BY <1>4, <1>5, <1>6

\* A child's row and its share of the budget come together.
LEMMA SpawnCounts ==
  ASSUME ChildTypeOK, Counts, NEW parent \in Run, NEW c \in Child, SpawnCreate(parent, c)
  PROVE  Counts' /\ status' \in [Run -> RunStatus]
         /\ totalChildren' \in Nat /\ activeChildren' \in Nat
<1>1. /\ status[c] = "unborn" /\ status' = [status EXCEPT ![c] = "queued"]
      /\ totalChildren' = totalChildren + 1 /\ activeChildren' = activeChildren + 1
      /\ totalChildren < MaxTotal /\ activeChildren < MaxConcurrent
  BY DEF SpawnCreate, HasSpawnCapacity
<1>2. /\ Born' = Born \cup {c} /\ c \notin Born
      /\ Counted' = Counted \cup {c} /\ c \notin Counted
  BY <1>1 DEF Born, Counted, ChildTypeOK
<1>3. /\ IsFiniteSet(Counted) /\ Cardinality(Counted) \in Nat /\ activeChildren \in Nat
      /\ IsFiniteSet(Born) /\ Cardinality(Born) \in Nat /\ totalChildren \in Nat
  BY ChildrenAreFinite DEF Counted, Born, ChildTypeOK
<1>4. /\ Cardinality(Born') = Cardinality(Born) + 1
      /\ Cardinality(Counted') = Cardinality(Counted) + 1
  BY <1>2, <1>3, FS_AddElement
<1>5. status' \in [Run -> RunStatus]
  BY <1>1 DEF ChildTypeOK
<1>6. QED
  BY <1>1, <1>3, <1>4, <1>5 DEF Counts

\* Recovery takes off the count every child it finds queued or running.
LEMMA RecoveryCounts ==
  ASSUME ChildTypeOK, Counts, Recover
  PROVE  Counts' /\ status' \in [Run -> RunStatus]
         /\ totalChildren' \in Nat /\ activeChildren' \in Nat
<1> DEFINE orphans == {c \in Child : status[c] \in {"queued", "running"}}
<1>1. PICK fate \in [Run -> {"interrupted", "requires_action"}] :
        status' = [r \in Run |-> IF status[r] \in {"queued", "running"}
                                 THEN fate[r] ELSE status[r]]
  BY DEF Recover
<1>2. status' \in [Run -> RunStatus]
  BY <1>1 DEF ChildTypeOK
<1>3. Born' = Born
  BY <1>1 DEF Born, ChildTypeOK
<1>4. Counted' = Counted \ orphans /\ orphans \subseteq Counted
  BY <1>1 DEF Counted, ChildTypeOK
<1>5. activeChildren' = activeChildren - Cardinality(orphans) /\ totalChildren' = totalChildren
  BY DEF Recover
<1>6. /\ IsFiniteSet(Counted) /\ Cardinality(Counted) \in Nat /\ activeChildren \in Nat
      /\ IsFiniteSet(orphans) /\ Cardinality(orphans) \in Nat /\ totalChildren \in Nat
      /\ IsFiniteSet(Counted') /\ Cardinality(Counted') \in Nat
  BY ChildrenAreFinite DEF Counted, ChildTypeOK
<1> HIDE DEF orphans
<1>7. Counted \cap orphans = orphans
  BY <1>4
<1>8. Cardinality(Counted') = Cardinality(Counted) - Cardinality(orphans)
  BY <1>4, <1>6, <1>7, FS_Difference
<1>9. QED
  BY <1>2, <1>3, <1>5, <1>6, <1>8 DEF Counts

\* Steps that write no status leave the counts alone.
LEMMA QuietStepCounts ==
  ASSUME Counts, UNCHANGED <<status, totalChildren, activeChildren>>
  PROVE  Counts'
  BY DEF Counts, Born, Counted

\* A function on 1 .. n is a sequence.
LEMMA FunctionIsSeq ==
  ASSUME NEW S, NEW n \in Nat, NEW f \in [1..n -> S]
  PROVE  f \in Seq(S) /\ Len(f) = n
  BY SeqDef

\* The list deliverAgentMailbox walks is a list of mail.
LEMMA MailOrderIsList ==
  ASSUME ChildTypeOK, Addressed, NEW r \in Run,
         NEW order \in UNION {[1..k -> QueuedFor(r)] : k \in 0..Cardinality(QueuedFor(r))}
  PROVE  order \in Seq(QueuedFor(r)) /\ order \in Seq(Mail)
<1>1. QueuedFor(r) \subseteq Sent \cup Child
  BY DEF QueuedFor, Addressed, Sent, ChildTypeOK
<1>2. IsFiniteSet(Sent \cup Child)
  BY FS_Union DEF Addressed
<1>3. Cardinality(QueuedFor(r)) \in Nat
  BY <1>1, <1>2, FS_Subset, FS_CardinalityType
<1>4. PICK k \in 0..Cardinality(QueuedFor(r)) : order \in [1..k -> QueuedFor(r)]
  OBVIOUS
<1>5. order \in Seq(QueuedFor(r))
  BY <1>3, <1>4, FunctionIsSeq
<1>6. QueuedFor(r) \subseteq Mail
  BY DEF QueuedFor
<1>7. QED
  BY <1>5, <1>6

MailTypes ==
    /\ mailStatus \in [Mail -> {"none", "queued", "delivered", "checkpointed"}]
    /\ mailTo \in [Mail -> Run \cup {None}]
    /\ mailSequence \in [Mail -> Nat]
    /\ mailTrigger \in [Mail -> BOOLEAN]
    /\ nextMailSequence \in [Run -> Nat]

\* A message is stored with a sequence of its receiver.
LEMMA AppendMailTypes ==
  ASSUME ChildTypeOK, NEW m \in Mail, NEW receiver \in Run, NEW trigger \in BOOLEAN,
         AppendMail(m, receiver, trigger)
  PROVE  MailTypes'
  BY DEF AppendMail, ChildTypeOK, MailTypes

\* The announcement of a child is no message of a tool call.
LEMMA StoreCompletionTypes ==
  ASSUME ChildTypeOK, NEW c \in Child, parentRun[c] \in Run, NEW reported \in RunStatus,
         StoreCompletion(c, reported)
  PROVE  /\ MailTypes' /\ completionStatus' \in [Child -> RunStatus \cup {None}]
         /\ \A m \in Message : mailStatus'[m] = mailStatus[m] /\ mailTo'[m] = mailTo[m]
<1>1. CASE mailStatus[c] = "none"
  <2>1. AppendMail(c, parentRun[c], FALSE)
        /\ completionStatus' = [completionStatus EXCEPT ![c] = reported]
    BY <1>1 DEF StoreCompletion
  <2>2. \A m \in Message : mailStatus'[m] = mailStatus[m] /\ mailTo'[m] = mailTo[m]
    BY <2>1 DEF AppendMail, ChildTypeOK
  <2>3. QED
    BY <2>1, <2>2, AppendMailTypes DEF ChildTypeOK
<1>2. CASE mailStatus[c] # "none"
  BY <1>2 DEF StoreCompletion, ChildTypeOK, MailTypes
<1>3. QED
  BY <1>1, <1>2

\* An input is accepted at the end, or has been.
LEMMA AcceptTypes ==
  ASSUME ChildTypeOK, NEW r \in Run, NEW m \in Mail, Accept(r, m)
  PROVE  accepted' \in [Run -> Seq(Mail)]
  BY AppendProperties DEF Accept, ChildTypeOK

TaskTypes ==
    /\ task \in [Run -> TaskPlace]
    /\ target \in [Run -> {"manager", "user", "none", "failed"}]
    /\ toDeliver \in [Run -> Seq(Mail)]
    /\ cancelPending \in [Run -> BOOLEAN]
    /\ aborted \in [Run -> BOOLEAN]
    /\ settledStatus \in [Run -> RunStatus \cup {None}]

\* A task begins, or there is none.
LEMMA LaunchTypes ==
  ASSUME ChildTypeOK, NEW r \in Run, NEW callback \in {"manager", "user", "none"},
         Launch(r, callback) \/ UNCHANGED taskVars
  PROVE  TaskTypes'
<1>1. /\ task' = task \/ task' = [task EXCEPT ![r] = "launched"]
      /\ target' = target \/ target' = [target EXCEPT ![r] = callback]
      /\ UNCHANGED <<toDeliver, cancelPending, aborted, settledStatus>>
  BY DEF Launch
<1>2. task' \in [Run -> TaskPlace]
  BY <1>1 DEF ChildTypeOK
<1>3. target' \in [Run -> {"manager", "user", "none", "failed"}]
  BY <1>1 DEF ChildTypeOK
<1>4. QED
  BY <1>1, <1>2, <1>3 DEF ChildTypeOK, TaskTypes

\* A spawn that has its share of the budget.
LEMMA SpawnKeepsBudget ==
  ASSUME BudgetInv, NEW parent \in Run, NEW c \in Child, SpawnCreate(parent, c)
  PROVE  BudgetInv'
<1>0. ChildTypeOK /\ Kinship /\ Addressed /\ Walks /\ Counts
  BY DEF BudgetInv
<1> USE <1>0 DEF SpawnCreate
<1>1. Counts'
  BY SpawnCounts
<1>2. ChildTypeOK'
  BY SpawnCounts DEF ChildTypeOK
<1>3. Kinship'
  BY DEF Kinship, ChildTypeOK
<1>4. Sent' = Sent
  BY DEF Sent, ChildTypeOK
<1>5. Addressed'
  BY <1>4 DEF Addressed, ChildTypeOK
<1>6. Walks'
  BY DEF Walks, ChildTypeOK
<1>7. QED
  BY <1>1, <1>2, <1>3, <1>5, <1>6 DEF BudgetInv

\* A spawn starts its child unless a message has.
LEMMA SpawnStartKeepsBudget ==
  ASSUME BudgetInv, NEW c \in Child, SpawnStart(c)
  PROVE  BudgetInv'
<1>0. ChildTypeOK /\ Kinship /\ Addressed /\ Walks /\ Counts
  BY DEF BudgetInv
<1>t. TaskTypes'
  BY <1>0, LaunchTypes DEF SpawnStart
<1> USE <1>0 DEF SpawnStart, Launch, IsActive, Woken
<1>1. Counts'
  BY QuietStepCounts
<1>2. ChildTypeOK'
  BY <1>t DEF ChildTypeOK, TaskTypes
<1>3. Kinship'
  BY DEF Kinship, ChildTypeOK
<1>4. Sent' = Sent
  BY DEF Sent, ChildTypeOK
<1>5. Addressed'
  BY <1>4 DEF Addressed, ChildTypeOK
<1>6. Walks'
  BY DEF Walks, ChildTypeOK
<1>7. QED
  BY <1>1, <1>2, <1>3, <1>5, <1>6 DEF BudgetInv

\* A message begins to be sent to a run that exists.
LEMMA SendCheckKeepsBudget ==
  ASSUME BudgetInv, NEW m \in Message, NEW sender \in Run, NEW receiver \in Run,
         NEW trigger \in BOOLEAN,
         SendCheck(m, sender, receiver, trigger)
  PROVE  BudgetInv'
<1>0. ChildTypeOK /\ Kinship /\ Addressed /\ Walks /\ Counts
  BY DEF BudgetInv
<1> USE <1>0 DEF SendCheck
<1>1. Counts'
  BY QuietStepCounts
<1>2. ChildTypeOK'
  BY DEF ChildTypeOK
<1>3. Kinship'
  BY DEF Kinship, ChildTypeOK
<1>4. IsFiniteSet(Sent')
  <2>1. Sent' = Sent \cup {m}
    BY DEF Sent, ChildTypeOK
  <2>2. QED
    BY <2>1, FS_AddElement DEF Addressed
<1>5. Addressed'
  BY <1>4 DEF Addressed, ChildTypeOK
<1>6. Walks'
  BY DEF Walks, ChildTypeOK
<1>7. QED
  BY <1>1, <1>2, <1>3, <1>5, <1>6 DEF BudgetInv

\* It is stored.
LEMMA SendStoreKeepsBudget ==
  ASSUME BudgetInv, NEW m \in Message, SendStore(m)
  PROVE  BudgetInv'
<1>0. ChildTypeOK /\ Kinship /\ Addressed /\ Walks /\ Counts
  BY DEF BudgetInv
<1> USE <1>0 DEF SendStore
<1>a. AppendMail(m, mailTo[m], mailTrigger[m]) /\ mailTo[m] \in Run /\ mailTrigger[m] \in BOOLEAN
  BY DEF Addressed, ChildTypeOK
<1>b. MailTypes'
  BY <1>a, AppendMailTypes
<1>1. Counts'
  BY QuietStepCounts
<1>2. ChildTypeOK'
  BY <1>b DEF ChildTypeOK, MailTypes
<1>3. Kinship'
  BY DEF Kinship, ChildTypeOK
<1>4. Sent' = Sent
  BY DEF Sent, ChildTypeOK
<1>5. Addressed'
  BY <1>4, <1>a DEF AppendMail, Addressed, ChildTypeOK
<1>6. Walks'
  BY DEF Walks, ChildTypeOK
<1>7. QED
  BY <1>1, <1>2, <1>3, <1>5, <1>6 DEF BudgetInv

\* It wakes, steers or starts its receiver.
LEMMA SendContinueKeepsBudget ==
  ASSUME BudgetInv, NEW m \in Message, SendContinue(m)
  PROVE  BudgetInv'
<1>0. ChildTypeOK /\ Kinship /\ Addressed /\ Walks /\ Counts
  BY DEF BudgetInv
<1>d. TaskTypes'
  <2>1. PICK r \in Run : r = mailTo[m]
    BY <1>0 DEF Addressed, SendContinue
  <2>2. TriggerCallback(r) \in {"manager", "user", "none"}
    BY DEF TriggerCallback
  <2>3. Launch(r, TriggerCallback(r)) \/ UNCHANGED taskVars
    BY <2>1 DEF SendContinue
  <2>4. QED
    BY <1>0, <2>2, <2>3, LaunchTypes
<1> USE <1>0 DEF SendContinue, IsActive, Woken
<1>a. mailTo[m] \in Run /\ status[mailTo[m]] # "unborn"
  BY DEF Addressed
<1>b. accepted' \in [Run -> Seq(Mail)]
  BY <1>a, AcceptTypes DEF ChildTypeOK
<1>t. \/ UNCHANGED taskVars
      \/ /\ task' = [task EXCEPT ![mailTo[m]] = "launched"]
         /\ target' = [target EXCEPT ![mailTo[m]] = TriggerCallback(mailTo[m])]
         /\ UNCHANGED <<toDeliver, cancelPending, aborted, settledStatus>>
  BY DEF Launch
<1>1. Counts'
  BY QuietStepCounts
<1>2. ChildTypeOK'
  BY <1>a, <1>b, <1>d DEF ChildTypeOK, TaskTypes
<1>3. Kinship'
  BY <1>a, <1>t DEF Kinship, ChildTypeOK
<1>4. Sent' = Sent
  BY DEF Sent, ChildTypeOK
<1>5. Addressed'
  BY <1>4 DEF Addressed, ChildTypeOK
<1>6. Walks'
  BY <1>a, <1>t DEF Walks, ChildTypeOK
<1>7. QED
  BY <1>1, <1>2, <1>3, <1>5, <1>6 DEF BudgetInv

\* It is marked.
LEMMA SendMarkKeepsBudget ==
  ASSUME BudgetInv, NEW m \in Message, SendMark(m)
  PROVE  BudgetInv'
<1>0. ChildTypeOK /\ Kinship /\ Addressed /\ Walks /\ Counts
  BY DEF BudgetInv
<1> USE <1>0 DEF SendMark, MarkDelivered
<1>1. Counts'
  BY QuietStepCounts
<1>2. ChildTypeOK'
  BY DEF ChildTypeOK
<1>3. Kinship'
  BY DEF Kinship, ChildTypeOK
<1>4. Sent' = Sent
  BY DEF Sent, ChildTypeOK
<1>5. Addressed'
  BY <1>4 DEF Addressed, ChildTypeOK
<1>6. Walks'
  BY DEF Walks, ChildTypeOK
<1>7. QED
  BY <1>1, <1>2, <1>3, <1>5, <1>6 DEF BudgetInv

\* A cancellation aborts first.
LEMMA InterruptKeepsBudget ==
  ASSUME BudgetInv, NEW r \in Run, Interrupt(r)
  PROVE  BudgetInv'
<1>0. ChildTypeOK /\ Kinship /\ Addressed /\ Walks /\ Counts
  BY DEF BudgetInv
<1> USE <1>0 DEF Interrupt
<1>1. Counts'
  BY QuietStepCounts
<1>2. ChildTypeOK'
  BY DEF ChildTypeOK
<1>3. Kinship'
  BY DEF Kinship, ChildTypeOK
<1>4. Sent' = Sent
  BY DEF Sent, ChildTypeOK
<1>5. Addressed'
  BY <1>4 DEF Addressed, ChildTypeOK
<1>6. Walks'
  BY DEF Walks, ChildTypeOK
<1>7. QED
  BY <1>1, <1>2, <1>3, <1>5, <1>6 DEF BudgetInv

\* It writes the status afterwards.
LEMMA WriteCancelledKeepsBudget ==
  ASSUME BudgetInv, serverPhase = "up", NEW r \in Run, WriteCancelled(r)
  PROVE  BudgetInv'
<1>0. ChildTypeOK /\ Kinship /\ Addressed /\ Walks /\ Counts
  BY DEF BudgetInv
<1> USE <1>0 DEF WriteCancelled, Woken
<1>w. /\ WriteStatus(r, "cancelled") /\ status[r] # "unborn" /\ r \in Run
      /\ "cancelled" \in RunStatus \ {"unborn"}
  BY DEF Kinship
<1>s. status' = [status EXCEPT ![r] = "cancelled"]
  BY <1>w DEF WriteStatus
<1>u. unreconciled = {}
  BY DEF Walks
<1>1. Counts'
  BY StatusWriteCounts, <1>w
<1>2. ChildTypeOK'
  BY StatusWriteCounts, <1>w DEF ChildTypeOK
<1>3. Kinship'
  BY <1>s, <1>w DEF Kinship, ChildTypeOK
<1>4. Sent' = Sent
  BY DEF Sent, ChildTypeOK
<1>5. Addressed'
  BY <1>4, <1>s, <1>w DEF Addressed, ChildTypeOK
<1>6. Walks'
  BY <1>s, <1>w, <1>u DEF Walks, ChildTypeOK
<1>7. QED
  BY <1>1, <1>2, <1>3, <1>5, <1>6 DEF BudgetInv

\* A child without an executor is only written as cancelled.
LEMMA InterruptIdleKeepsBudget ==
  ASSUME BudgetInv, serverPhase = "up", NEW c \in Child, InterruptIdle(c)
  PROVE  BudgetInv'
<1>0. ChildTypeOK /\ Kinship /\ Addressed /\ Walks /\ Counts
  BY DEF BudgetInv
<1> USE <1>0 DEF InterruptIdle, IsActive, Woken
<1>w. /\ WriteStatus(c, "cancelled") /\ status[c] # "unborn" /\ c \in Run
      /\ "cancelled" \in RunStatus \ {"unborn"}
  BY DEF Kinship
<1>s. status' = [status EXCEPT ![c] = "cancelled"]
  BY <1>w DEF WriteStatus
<1>u. unreconciled = {}
  BY DEF Walks
<1>1. Counts'
  BY StatusWriteCounts, <1>w
<1>2. ChildTypeOK'
  BY StatusWriteCounts, <1>w DEF ChildTypeOK
<1>3. Kinship'
  BY <1>s, <1>w DEF Kinship, ChildTypeOK
<1>4. Sent' = Sent
  BY DEF Sent, ChildTypeOK
<1>5. Addressed'
  BY <1>4, <1>s, <1>w DEF Addressed, ChildTypeOK
<1>6. Walks'
  BY <1>s, <1>w, <1>u DEF Walks, ChildTypeOK
<1>7. QED
  BY <1>1, <1>2, <1>3, <1>5, <1>6 DEF BudgetInv

\* A decision queues the run.
LEMMA ApproveKeepsBudget ==
  ASSUME BudgetInv, serverPhase = "up", NEW r \in Run, ApproveRun(r)
  PROVE  BudgetInv'
<1>0. ChildTypeOK /\ Kinship /\ Addressed /\ Walks /\ Counts
  BY DEF BudgetInv
<1> USE <1>0 DEF ApproveRun, Launch, IsActive
<1>w. /\ WriteStatus(r, "queued") /\ status[r] # "unborn" /\ r \in Run
      /\ "queued" \in RunStatus \ {"unborn"}
  BY DEF Kinship
<1>s. status' = [status EXCEPT ![r] = "queued"]
  BY <1>w DEF WriteStatus
<1>u. unreconciled = {}
  BY DEF Walks
<1>1. Counts'
  BY StatusWriteCounts, <1>w
<1>2. ChildTypeOK'
  BY StatusWriteCounts, <1>w DEF ChildTypeOK
<1>3. Kinship'
  BY <1>s, <1>w DEF Kinship, ChildTypeOK
<1>4. Sent' = Sent
  BY DEF Sent, ChildTypeOK
<1>5. Addressed'
  BY <1>4, <1>s, <1>w DEF Addressed, ChildTypeOK
<1>6. Walks'
  BY <1>s, <1>w, <1>u DEF Walks, ChildTypeOK
<1>7. QED
  BY <1>1, <1>2, <1>3, <1>5, <1>6 DEF BudgetInv

\* A run pauses.
LEMMA PauseKeepsBudget ==
  ASSUME BudgetInv, serverPhase = "up", NEW r \in Run, Pause(r)
  PROVE  BudgetInv'
<1>0. ChildTypeOK /\ Kinship /\ Addressed /\ Walks /\ Counts
  BY DEF BudgetInv
<1> USE <1>0 DEF Pause
<1>w. /\ WriteStatus(r, "waiting") /\ status[r] # "unborn" /\ r \in Run
      /\ "waiting" \in RunStatus \ {"unborn"}
  BY DEF Kinship
<1>s. status' = [status EXCEPT ![r] = "waiting"]
  BY <1>w DEF WriteStatus
<1>u. unreconciled = {}
  BY DEF Walks
<1>1. Counts'
  BY StatusWriteCounts, <1>w
<1>2. ChildTypeOK'
  BY StatusWriteCounts, <1>w DEF ChildTypeOK
<1>3. Kinship'
  BY <1>s, <1>w DEF Kinship, ChildTypeOK
<1>4. Sent' = Sent
  BY DEF Sent, ChildTypeOK
<1>5. Addressed'
  BY <1>4, <1>s, <1>w DEF Addressed, ChildTypeOK
<1>6. Walks'
  BY <1>s, <1>w, <1>u DEF Walks, ChildTypeOK
<1>7. QED
  BY <1>1, <1>2, <1>3, <1>5, <1>6 DEF BudgetInv

\* A run completes.
LEMMA CompleteKeepsBudget ==
  ASSUME BudgetInv, serverPhase = "up", NEW r \in Run, Complete(r)
  PROVE  BudgetInv'
<1>0. ChildTypeOK /\ Kinship /\ Addressed /\ Walks /\ Counts
  BY DEF BudgetInv
<1> USE <1>0 DEF Complete
<1>w. /\ WriteStatus(r, "completed") /\ status[r] # "unborn" /\ r \in Run
      /\ "completed" \in RunStatus \ {"unborn"}
  BY DEF Kinship
<1>s. status' = [status EXCEPT ![r] = "completed"]
  BY <1>w DEF WriteStatus
<1>u. unreconciled = {}
  BY DEF Walks
<1>1. Counts'
  BY StatusWriteCounts, <1>w
<1>2. ChildTypeOK'
  BY StatusWriteCounts, <1>w DEF ChildTypeOK
<1>3. Kinship'
  BY <1>s, <1>w DEF Kinship, ChildTypeOK
<1>4. Sent' = Sent
  BY DEF Sent, ChildTypeOK
<1>5. Addressed'
  BY <1>4, <1>s, <1>w DEF Addressed, ChildTypeOK
<1>6. Walks'
  BY <1>s, <1>w, <1>u DEF Walks, ChildTypeOK
<1>7. QED
  BY <1>1, <1>2, <1>3, <1>5, <1>6 DEF BudgetInv

\* A run fails or has been cancelled, or its end is lost.
LEMMA WriteFailedKeepsBudget ==
  ASSUME BudgetInv, serverPhase = "up", NEW r \in Run, WriteFailed(r)
  PROVE  BudgetInv'
<1>0. ChildTypeOK /\ Kinship /\ Addressed /\ Walks /\ Counts
  BY DEF BudgetInv
<1> USE <1>0 DEF WriteFailed
<1>v. PICK next \in {"cancelled", "failed"} :
        WriteStatus(r, next) \/ UNCHANGED <<status, budgetVars>>
  OBVIOUS
<1>4. Sent' = Sent
  BY DEF Sent, ChildTypeOK
<1>a. CASE WriteStatus(r, next)
  <2>w. /\ status[r] # "unborn" /\ r \in Run
        /\ next \in RunStatus \ {"unborn"}
    BY <1>v DEF Kinship
  <2>s. status' = [status EXCEPT ![r] = next]
    BY <1>a DEF WriteStatus
  <2>u. unreconciled = {}
    BY DEF Walks
  <2>1. Counts'
    BY StatusWriteCounts, <1>a, <2>w
  <2>2. ChildTypeOK'
    BY StatusWriteCounts, <1>a, <2>w DEF ChildTypeOK
  <2>3. Kinship'
    BY <2>s, <2>w DEF Kinship, ChildTypeOK
  <2>5. Addressed'
    BY <1>4, <2>s, <2>w DEF Addressed, ChildTypeOK
  <2>6. Walks'
    BY <2>s, <2>w, <2>u DEF Walks, ChildTypeOK
  <2>7. QED
    BY <2>1, <2>2, <2>3, <2>5, <2>6 DEF BudgetInv
<1>b. CASE UNCHANGED <<status, budgetVars>>
  <2>1. Counts'
    BY <1>b, QuietStepCounts
  <2>2. ChildTypeOK'
    BY <1>b DEF ChildTypeOK
  <2>3. Kinship'
    BY <1>b DEF Kinship, ChildTypeOK
  <2>5. Addressed'
    BY <1>4, <1>b DEF Addressed, ChildTypeOK
  <2>6. Walks'
    BY <1>b DEF Walks, ChildTypeOK
  <2>7. QED
    BY <2>1, <2>2, <2>3, <2>5, <2>6 DEF BudgetInv
<1>7. QED
  BY <1>v, <1>a, <1>b

\* A run is resumed.
LEMMA ResumeKeepsBudget ==
  ASSUME BudgetInv, NEW r \in Run, NEW callback \in {"manager", "user"}, ResumeRun(r, callback)
  PROVE  BudgetInv'
<1>0. ChildTypeOK /\ Kinship /\ Addressed /\ Walks /\ Counts
  BY DEF BudgetInv
<1> USE <1>0 DEF ResumeRun, Launch, IsActive, Woken
<1>1. Counts'
  BY QuietStepCounts
<1>2. ChildTypeOK'
  BY DEF ChildTypeOK
<1>3. Kinship'
  BY DEF Kinship, ChildTypeOK
<1>4. Sent' = Sent
  BY DEF Sent, ChildTypeOK
<1>5. Addressed'
  BY <1>4 DEF Addressed, ChildTypeOK
<1>6. Walks'
  BY DEF Walks, ChildTypeOK
<1>7. QED
  BY <1>1, <1>2, <1>3, <1>5, <1>6 DEF BudgetInv

\* An execution begins, or is refused its place in the budget.
LEMMA MarkRunningKeepsBudget ==
  ASSUME BudgetInv, serverPhase = "up", NEW r \in Run, MarkRunning(r)
  PROVE  BudgetInv'
<1>0. ChildTypeOK /\ Kinship /\ Addressed /\ Walks /\ Counts
  BY DEF BudgetInv
<1> USE <1>0 DEF MarkRunning
<1>b. status[r] # "unborn" /\ unreconciled = {}
  BY DEF Kinship, Walks
<1>d. toDeliver' \in [Run -> Seq(Mail)]
  <2>1. CASE UNCHANGED toDeliver
    BY <2>1 DEF ChildTypeOK
  <2>2. ASSUME NEW order \in UNION {[1..k -> QueuedFor(r)] : k \in 0..Cardinality(QueuedFor(r))},
               toDeliver' = [toDeliver EXCEPT ![r] = order]
        PROVE  toDeliver' \in [Run -> Seq(Mail)]
    <3>1. order \in Seq(Mail)
      BY MailOrderIsList
    <3>2. QED
      BY <2>2, <3>1 DEF ChildTypeOK
  <2>3. QED
    BY <2>1, <2>2
<1>s. status' = status \/ status' = [status EXCEPT ![r] = "running"]
  BY DEF WriteStatus
<1>t. task' = [task EXCEPT ![r] = "delivering"] \/ task' = [task EXCEPT ![r] = "failing"]
  OBVIOUS
<1>c. Counts' /\ status' \in [Run -> RunStatus] /\ totalChildren' \in Nat /\ activeChildren' \in Nat
  <2>1. CASE WriteStatus(r, "running")
    BY <1>b, <2>1, StatusWriteCounts
  <2>2. CASE UNCHANGED <<status, budgetVars>>
    BY <2>2, QuietStepCounts DEF ChildTypeOK
  <2>3. QED
    BY <2>1, <2>2
<1>1. Counts'
  BY <1>c
<1>2. ChildTypeOK'
  BY <1>c, <1>d, <1>t DEF ChildTypeOK
<1>3. Kinship'
  BY <1>b, <1>s, <1>t DEF Kinship, ChildTypeOK
<1>4. Sent' = Sent
  BY DEF Sent, ChildTypeOK
<1>5. Addressed'
  BY <1>4, <1>b, <1>s DEF Addressed, ChildTypeOK
<1>6. Walks'
  BY <1>b, <1>s, <1>t DEF Walks, ChildTypeOK
<1>7. QED
  BY <1>1, <1>2, <1>3, <1>5, <1>6 DEF BudgetInv

\* Mail becomes an input of the run.
LEMMA DeliverKeepsBudget ==
  ASSUME BudgetInv, NEW r \in Run, DeliverMail(r)
  PROVE  BudgetInv'
<1>0. ChildTypeOK /\ Kinship /\ Addressed /\ Walks /\ Counts
  BY DEF BudgetInv
<1> USE <1>0 DEF DeliverMail
<1>h. accepted' \in [Run -> Seq(Mail)]
  <2>1. PICK m : m = Head(toDeliver[r])
    OBVIOUS
  <2>2. m \in Mail /\ Accept(r, m)
    BY <2>1 DEF ChildTypeOK
  <2>3. QED
    BY <2>2, AcceptTypes
<1>1. Counts'
  BY QuietStepCounts
<1>2. ChildTypeOK'
  BY <1>h DEF ChildTypeOK
<1>3. Kinship'
  BY DEF Kinship, ChildTypeOK
<1>4. Sent' = Sent
  BY DEF Sent, ChildTypeOK
<1>5. Addressed'
  BY <1>4 DEF Addressed, ChildTypeOK
<1>6. Walks'
  BY DEF Walks, ChildTypeOK
<1>7. QED
  BY <1>1, <1>2, <1>3, <1>5, <1>6 DEF BudgetInv

\* It is marked and leaves the list.
LEMMA MarkMailKeepsBudget ==
  ASSUME BudgetInv, NEW r \in Run, MarkMail(r)
  PROVE  BudgetInv'
<1>0. ChildTypeOK /\ Kinship /\ Addressed /\ Walks /\ Counts
  BY DEF BudgetInv
<1> USE <1>0 DEF MarkMail, MarkDelivered
<1>h. toDeliver[r] \in Seq(Mail) /\ toDeliver[r] # <<>>
  BY DEF ChildTypeOK, Walks
<1>t. Tail(toDeliver[r]) \in Seq(Mail)
  BY <1>h
<1>1. Counts'
  BY QuietStepCounts
<1>2. ChildTypeOK'
  BY <1>t DEF ChildTypeOK
<1>3. Kinship'
  BY DEF Kinship, ChildTypeOK
<1>4. Sent' = Sent
  BY DEF Sent, ChildTypeOK
<1>5. Addressed'
  BY <1>4 DEF Addressed, ChildTypeOK
<1>6. Walks'
  BY DEF Walks, ChildTypeOK
<1>7. QED
  BY <1>1, <1>2, <1>3, <1>5, <1>6 DEF BudgetInv

\* The list is done.
LEMMA StartWorkKeepsBudget ==
  ASSUME BudgetInv, NEW r \in Run, StartWork(r)
  PROVE  BudgetInv'
<1>0. ChildTypeOK /\ Kinship /\ Addressed /\ Walks /\ Counts
  BY DEF BudgetInv
<1> USE <1>0 DEF StartWork
<1>1. Counts'
  BY QuietStepCounts
<1>2. ChildTypeOK'
  BY DEF ChildTypeOK
<1>3. Kinship'
  BY DEF Kinship, ChildTypeOK
<1>4. Sent' = Sent
  BY DEF Sent, ChildTypeOK
<1>5. Addressed'
  BY <1>4 DEF Addressed, ChildTypeOK
<1>6. Walks'
  BY DEF Walks, ChildTypeOK
<1>7. QED
  BY <1>1, <1>2, <1>3, <1>5, <1>6 DEF BudgetInv

\* What was delivered is confirmed.
LEMMA CheckpointKeepsBudget ==
  ASSUME BudgetInv, NEW r \in Run, CheckpointMail(r)
  PROVE  BudgetInv'
<1>0. ChildTypeOK /\ Kinship /\ Addressed /\ Walks /\ Counts
  BY DEF BudgetInv
<1> USE <1>0 DEF CheckpointMail
<1>1. Counts'
  BY QuietStepCounts
<1>2. ChildTypeOK'
  BY DEF ChildTypeOK
<1>3. Kinship'
  BY DEF Kinship, ChildTypeOK
<1>4. Sent' = Sent
  BY DEF Sent, ChildTypeOK
<1>5. Addressed'
  BY <1>4 DEF Addressed, ChildTypeOK
<1>6. Walks'
  BY DEF Walks, ChildTypeOK
<1>7. QED
  BY <1>1, <1>2, <1>3, <1>5, <1>6 DEF BudgetInv

\* An executor throws.
LEMMA ThrowKeepsBudget ==
  ASSUME BudgetInv, NEW r \in Run, Throw(r)
  PROVE  BudgetInv'
<1>0. ChildTypeOK /\ Kinship /\ Addressed /\ Walks /\ Counts
  BY DEF BudgetInv
<1> USE <1>0 DEF Throw
<1>1. Counts'
  BY QuietStepCounts
<1>2. ChildTypeOK'
  BY DEF ChildTypeOK
<1>3. Kinship'
  BY DEF Kinship, ChildTypeOK
<1>4. Sent' = Sent
  BY DEF Sent, ChildTypeOK
<1>5. Addressed'
  BY <1>4 DEF Addressed, ChildTypeOK
<1>6. Walks'
  BY DEF Walks, ChildTypeOK
<1>7. QED
  BY <1>1, <1>2, <1>3, <1>5, <1>6 DEF BudgetInv

\* An execution is closed.
LEMMA CloseKeepsBudget ==
  ASSUME BudgetInv, NEW r \in Run, CloseExecution(r)
  PROVE  BudgetInv'
<1>0. ChildTypeOK /\ Kinship /\ Addressed /\ Walks /\ Counts
  BY DEF BudgetInv
<1> USE <1>0 DEF CloseExecution, Woken
<1>1. Counts'
  BY QuietStepCounts
<1>2. ChildTypeOK'
  BY EmptySeq DEF ChildTypeOK
<1>3. Kinship'
  BY DEF Kinship, ChildTypeOK
<1>4. Sent' = Sent
  BY DEF Sent, ChildTypeOK
<1>5. Addressed'
  BY <1>4 DEF Addressed, ChildTypeOK
<1>6. Walks'
  BY DEF Walks, ChildTypeOK
<1>7. QED
  BY <1>1, <1>2, <1>3, <1>5, <1>6 DEF BudgetInv

\* A completion is published to the parent.
LEMMA SettleKeepsBudget ==
  ASSUME BudgetInv, NEW r \in Run, Settle(r)
  PROVE  BudgetInv'
<1>0. ChildTypeOK /\ Kinship /\ Addressed /\ Walks /\ Counts
  BY DEF BudgetInv
<1> USE <1>0 DEF Settle, Woken
<1>m. /\ MailTypes' /\ completionStatus' \in [Child -> RunStatus \cup {None}]
      /\ \A m \in Message : mailStatus'[m] = mailStatus[m] /\ mailTo'[m] = mailTo[m]
  <2>1. CASE UNCHANGED mailVars
    BY <2>1 DEF ChildTypeOK, MailTypes
  <2>2. CASE r \in Child /\ StoreCompletion(r, settledStatus[r]) /\ settledStatus[r] \in Terminal
    <3>1. parentRun[r] \in Run /\ settledStatus[r] \in RunStatus
      BY <2>2 DEF Kinship
    <3>2. QED
      BY <2>2, <3>1, StoreCompletionTypes
  <2>3. QED
    BY <2>1, <2>2
<1>1. Counts'
  BY QuietStepCounts
<1>2. ChildTypeOK'
  BY <1>m DEF ChildTypeOK, MailTypes
<1>3. Kinship'
  BY DEF Kinship, ChildTypeOK
<1>4. Sent' = Sent
  BY DEF Sent, ChildTypeOK
<1>5. Addressed'
  BY <1>4, <1>m DEF Addressed, ChildTypeOK
<1>6. Walks'
  BY DEF Walks, ChildTypeOK
<1>7. QED
  BY <1>1, <1>2, <1>3, <1>5, <1>6 DEF BudgetInv

\* A wait begins, and ends.
LEMMA WaitKeepsBudget ==
  ASSUME BudgetInv, WaitNext
  PROVE  BudgetInv'
<1>0. ChildTypeOK /\ Kinship /\ Addressed /\ Walks /\ Counts
  BY DEF BudgetInv
<1>a. /\ UNCHANGED <<status, parentRun, budgetVars, mailVars, accepted, serverVars, taskVars,
                      callVars>>
      /\ wait' \in {"none", "checked", "listening", "expired"} /\ waitFrom' \in Nat
  <2>1. nextMailSequence[Root] \in Nat /\ waitFrom \in Nat
    BY <1>0 DEF ChildTypeOK
  <2>2. QED
    BY <2>1 DEF WaitNext, WaitCheck, WaitRegister, WaitExpire, WaitReturn
<1> USE <1>0, <1>a
<1>1. Counts'
  BY QuietStepCounts
<1>2. ChildTypeOK'
  BY DEF ChildTypeOK
<1>3. Kinship'
  BY DEF Kinship, ChildTypeOK
<1>4. Sent' = Sent
  BY DEF Sent, ChildTypeOK
<1>5. Addressed'
  BY <1>4 DEF Addressed, ChildTypeOK
<1>6. Walks'
  BY DEF Walks, ChildTypeOK
<1>7. QED
  BY <1>1, <1>2, <1>3, <1>5, <1>6 DEF BudgetInv

\* The process dies.
LEMMA CrashKeepsBudget ==
  ASSUME BudgetInv, Crash
  PROVE  BudgetInv'
<1>0. ChildTypeOK /\ Kinship /\ Addressed /\ Walks /\ Counts
  BY DEF BudgetInv
<1> USE <1>0 DEF Crash
<1>1. Counts'
  BY QuietStepCounts
<1>2. ChildTypeOK'
  BY EmptySeq DEF ChildTypeOK
<1>3. Kinship'
  BY DEF Kinship, ChildTypeOK
<1>4. Sent' = Sent
  BY DEF Sent, ChildTypeOK
<1>5. Addressed'
  BY <1>4 DEF Addressed, ChildTypeOK
<1>6. Walks'
  BY DEF Walks, ChildTypeOK
<1>7. QED
  BY <1>1, <1>2, <1>3, <1>5, <1>6 DEF BudgetInv

\* Every orphan is given a status.
LEMMA RecoverKeepsBudget ==
  ASSUME BudgetInv, Recover
  PROVE  BudgetInv'
<1>0. ChildTypeOK /\ Kinship /\ Addressed /\ Walks /\ Counts
  BY DEF BudgetInv
<1> USE <1>0 DEF Recover
<1>f. PICK fate \in [Run -> {"interrupted", "requires_action"}] :
        status' = [r \in Run |-> IF status[r] \in {"queued", "running"}
                                 THEN fate[r] ELSE status[r]]
  BY DEF Recover
<1>1. Counts'
  BY RecoveryCounts
<1>2. ChildTypeOK'
  BY RecoveryCounts DEF ChildTypeOK, Recover
<1>3. Kinship'
  BY <1>f DEF Kinship, ChildTypeOK
<1>4. Sent' = Sent
  BY DEF Sent, ChildTypeOK
<1>5. Addressed'
  BY <1>4, <1>f DEF Addressed, ChildTypeOK
<1>6. Walks'
  BY <1>f DEF Walks, ChildTypeOK
<1>7. QED
  BY <1>1, <1>2, <1>3, <1>5, <1>6 DEF BudgetInv

\* A completion nobody has published is published.
LEMMA ReconcileKeepsBudget ==
  ASSUME BudgetInv, NEW c \in Child, Reconcile(c)
  PROVE  BudgetInv'
<1>0. ChildTypeOK /\ Kinship /\ Addressed /\ Walks /\ Counts
  BY DEF BudgetInv
<1> USE <1>0 DEF Reconcile
<1>m. /\ MailTypes' /\ completionStatus' \in [Child -> RunStatus \cup {None}]
      /\ \A m \in Message : mailStatus'[m] = mailStatus[m] /\ mailTo'[m] = mailTo[m]
  <2>1. CASE UNCHANGED mailVars
    BY <2>1 DEF ChildTypeOK, MailTypes
  <2>2. CASE StoreCompletion(c, status[c])
    <3>1. parentRun[c] \in Run /\ status[c] \in RunStatus
      BY DEF Kinship, Walks, ChildTypeOK
    <3>2. QED
      BY <2>2, <3>1, StoreCompletionTypes
  <2>3. QED
    BY <2>1, <2>2
<1>1. Counts'
  BY QuietStepCounts
<1>2. ChildTypeOK'
  BY <1>m DEF ChildTypeOK, MailTypes
<1>3. Kinship'
  BY DEF Kinship, ChildTypeOK
<1>4. Sent' = Sent
  BY DEF Sent, ChildTypeOK
<1>5. Addressed'
  BY <1>4, <1>m DEF Addressed, ChildTypeOK
<1>6. Walks'
  BY DEF Walks, ChildTypeOK
<1>7. QED
  BY <1>1, <1>2, <1>3, <1>5, <1>6 DEF BudgetInv

\* The server is up when all are.
LEMMA ServerUpKeepsBudget ==
  ASSUME BudgetInv, ServerUp
  PROVE  BudgetInv'
<1>0. ChildTypeOK /\ Kinship /\ Addressed /\ Walks /\ Counts
  BY DEF BudgetInv
<1> USE <1>0 DEF ServerUp
<1>1. Counts'
  BY QuietStepCounts
<1>2. ChildTypeOK'
  BY DEF ChildTypeOK
<1>3. Kinship'
  BY DEF Kinship, ChildTypeOK
<1>4. Sent' = Sent
  BY DEF Sent, ChildTypeOK
<1>5. Addressed'
  BY <1>4 DEF Addressed, ChildTypeOK
<1>6. Walks'
  BY DEF Walks, ChildTypeOK
<1>7. QED
  BY <1>1, <1>2, <1>3, <1>5, <1>6 DEF BudgetInv

\* Nothing has changed.
LEMMA StutterKeepsBudget ==
  ASSUME BudgetInv, UNCHANGED childVars
  PROVE  BudgetInv'
<1>0. ChildTypeOK /\ Kinship /\ Addressed /\ Walks /\ Counts
  BY DEF BudgetInv
<1> USE <1>0 DEF childVars
<1>1. Counts'
  BY QuietStepCounts
<1>2. ChildTypeOK'
  BY DEF ChildTypeOK
<1>3. Kinship'
  BY DEF Kinship, ChildTypeOK
<1>4. Sent' = Sent
  BY DEF Sent, ChildTypeOK
<1>5. Addressed'
  BY <1>4 DEF Addressed, ChildTypeOK
<1>6. Walks'
  BY DEF Walks, ChildTypeOK
<1>7. QED
  BY <1>1, <1>2, <1>3, <1>5, <1>6 DEF BudgetInv

-------------------------------------------------------------------------------
(* The mailboxes: what each kind of step does to the mail.                     *)

MailTexts == <<mailTo, mailSequence, mailTrigger, nextMailSequence>>

\* What was accepted stays in order while it keeps its places.
LEMMA OrderStays ==
  ASSUME InOrder, accepted' = accepted,
         \A r \in Run : \A i \in 1..Len(accepted[r]) :
             /\ mailSequence'[accepted[r][i]] = mailSequence[accepted[r][i]]
             /\ mailTrigger'[accepted[r][i]] = mailTrigger[accepted[r][i]]
  PROVE  InOrder'
  BY DEF InOrder

\* A list that may be delivered to a run.
LEMMA ListIs ==
  ASSUME NEW r \in Run, NEW list, toDeliver'[r] = list, Deliverable(r, list)'
  PROVE  ListedFor(r)'
<1>1. \A i \in 1..Len(list) : mailStatus'[list[i]] # "none" /\ mailTo'[list[i]] = r
  BY DEF Deliverable, Stored
<1>2. \A i \in 1..Len(list), n \in Mail :
          /\ Stored(n)' /\ mailTo'[n] = r /\ ~Accepted(r, n)'
          /\ mailSequence'[n] < mailSequence'[list[i]]
          => \E j \in 1..(i - 1) : list[j] = n
  BY DEF Deliverable
<1>3. QED
  BY <1>1, <1>2 DEF ListedFor, Deliverable, Stored

\* A list stays one while the mail keeps its places and none is stored or accepted.
LEMMA ListStays ==
  ASSUME NEW r \in Run, ListedFor(r), toDeliver[r] \in Seq(Mail),
         toDeliver'[r] = toDeliver[r], UNCHANGED <<mailTo, mailSequence>>,
         \A n \in Mail : Stored(n)' <=> Stored(n),
         \A n \in Mail : Accepted(r, n)' <=> Accepted(r, n)
  PROVE  ListedFor(r)'
<1>1. PICK list \in Seq(Mail) : list = toDeliver[r]
  OBVIOUS
<1>2. \A i \in 1..Len(list) : list[i] \in Mail
  BY <1>1
<1>3. Deliverable(r, list)
  BY <1>1 DEF ListedFor, Deliverable, Stored
<1>4. Deliverable(r, list)'
  BY <1>2, <1>3 DEF Deliverable
<1>5. QED
  BY <1>1, <1>4, ListIs

\* An input that is accepted is new or was accepted before; the others stay.
LEMMA AcceptAddsOne ==
  ASSUME ChildTypeOK, NEW r \in Run, NEW m \in Mail, Accept(r, m)
  PROVE  \A q \in Run : \A n : Accepted(q, n)' <=> Accepted(q, n) \/ (q = r /\ n = m)
<1>1. CASE Accepted(r, m)
  BY <1>1 DEF Accept, Accepted
<1>2. CASE ~Accepted(r, m)
  <2> DEFINE longer == Append(accepted[r], m)
  <2>1. accepted[r] \in Seq(Mail) /\ Len(accepted[r]) \in Nat
    BY DEF ChildTypeOK
  <2>2. /\ Len(longer) = Len(accepted[r]) + 1
        /\ \A i \in 1..Len(accepted[r]) : longer[i] = accepted[r][i]
        /\ longer[Len(accepted[r]) + 1] = m
    BY <2>1, AppendProperties
  <2>3. accepted' = [accepted EXCEPT ![r] = longer]
    BY <1>2 DEF Accept, Accepted
  <2> HIDE DEF longer
  <2>4. SUFFICES ASSUME NEW q \in Run, NEW n
                 PROVE  Accepted(q, n)' <=> Accepted(q, n) \/ (q = r /\ n = m)
    OBVIOUS
  <2>5. CASE q # r
    BY <2>3, <2>5 DEF Accepted, ChildTypeOK
  <2>6. CASE q = r
    <3>1. accepted'[q] = longer
      BY <2>3, <2>6 DEF ChildTypeOK
    <3>2. ASSUME NEW i \in 1..Len(longer), longer[i] = n
          PROVE  Accepted(q, n) \/ n = m
      <4>1. i \in 1..Len(accepted[r]) \/ i = Len(accepted[r]) + 1
        BY <2>1, <2>2
      <4>2. QED
        BY <2>2, <2>6, <3>2, <4>1 DEF Accepted
    <3>3. Len(accepted[r]) + 1 \in 1..Len(longer)
      BY <2>1, <2>2
    <3>4. \A i \in 1..Len(accepted[r]) : i \in 1..Len(longer)
      BY <2>1, <2>2
    <3>5. QED
      BY <2>2, <2>6, <3>1, <3>2, <3>3, <3>4 DEF Accepted
  <2>7. QED
    BY <2>5, <2>6
<1>3. QED
  BY <1>1, <1>2

\* Steps that touch no mail: a task may drop its list, and none begins to mark.
LEMMA QuietStepKeepsMail ==
  ASSUME MailInv, UNCHANGED <<mailStatus, MailTexts, accepted>>,
         \A m \in Message : sending'[m] = "steered" => sending[m] = "steered",
         \A r \in Run : toDeliver'[r] = toDeliver[r] \/ toDeliver'[r] = <<>>,
         \A r \in Run : task'[r] = "marking"
                          => task[r] = "marking" /\ toDeliver'[r] = toDeliver[r]
  PROVE  MailInv'
<1> USE DEF MailInv, MailTexts
<1>1. \A r, m : (Accepted(r, m)' <=> Accepted(r, m)) /\ (Stored(m)' <=> Stored(m))
  BY DEF Accepted, Stored
<1>2. Numbered'
  BY <1>1 DEF Numbered, Stored
<1>3. Taken'
  BY <1>1 DEF Taken, Accepted, Stored
<1>4. NothingSkipped'
  BY <1>1 DEF NothingSkipped
<1>5. Listed'
  <2>1. SUFFICES ASSUME NEW r \in Run
                 PROVE  ListedFor(r)'
    BY DEF Listed
  <2>2. CASE toDeliver'[r] = toDeliver[r]
    <3>1. ListedFor(r)
      BY DEF Listed
    <3>2. UNCHANGED <<mailTo, mailSequence>>
      OBVIOUS
    <3>3. QED
      BY <1>1, <2>2, <3>1, <3>2 DEF ListedFor, Deliverable, Stored
  <2>3. CASE toDeliver'[r] = <<>>
    BY <2>3, EmptySeq DEF ListedFor, Deliverable
  <2>4. QED
    BY <2>2, <2>3
<1>6. InOrder'
  BY DEF InOrder
<1>7. QED
  BY <1>2, <1>3, <1>4, <1>5, <1>6

\* A message is stored after all the mail its receiver has.
LEMMA AppendKeepsMail ==
  ASSUME ChildTypeOK, MailInv, NEW m \in Mail, ~Stored(m), NEW receiver \in Run,
         NEW trigger \in BOOLEAN, AppendMail(m, receiver, trigger),
         UNCHANGED <<accepted, toDeliver>>,
         \A n \in Message : sending'[n] = "steered" => sending[n] = "steered",
         \A r \in Run : task'[r] = "marking" => task[r] = "marking"
  PROVE  MailInv'
<1> USE DEF MailInv
<1>1. /\ Stored(m)' /\ mailTo'[m] = receiver
      /\ mailSequence'[m] = nextMailSequence[receiver] /\ mailStatus'[m] = "queued"
      /\ \A n \in Mail : n # m => /\ Stored(n)' <=> Stored(n)
                                  /\ mailStatus'[n] = mailStatus[n]
                                  /\ mailTo'[n] = mailTo[n]
                                  /\ mailSequence'[n] = mailSequence[n]
                                  /\ mailTrigger'[n] = mailTrigger[n]
      /\ \A r \in Run : nextMailSequence'[r] = IF r = receiver THEN nextMailSequence[r] + 1
                                               ELSE nextMailSequence[r]
  BY DEF AppendMail, Stored, ChildTypeOK
<1>2. \A r, n : Accepted(r, n)' <=> Accepted(r, n)
  BY DEF Accepted
<1>3. \A r \in Run : ~Accepted(r, m)
  BY DEF Taken
<1>4. /\ \A n \in Mail : mailSequence[n] \in Nat
      /\ \A r \in Run : nextMailSequence[r] \in Nat
  BY DEF ChildTypeOK
<1>5. \A n \in Mail : Stored(n) /\ mailTo[n] = receiver
                        => mailSequence[n] < nextMailSequence[receiver]
  BY DEF Numbered
<1>6. Numbered'
  BY <1>1, <1>4, <1>5 DEF Numbered
<1>7. Taken'
  <2>1. \A r \in Run, n \in Mail : Accepted(r, n)' => Stored(n)' /\ mailTo'[n] = r
    BY <1>1, <1>2, <1>3 DEF Taken
  <2>2. \A n \in Mail : mailStatus'[n] \in {"delivered", "checkpointed"}
                          => Accepted(mailTo[n], n)'
    BY <1>1 DEF Taken, Accepted
  <2>3. \A n \in Message : sending'[n] = "steered"
                             => Stored(n)' /\ Accepted(mailTo[n], n)'
    BY <1>1 DEF Taken, Accepted, Stored
  <2>4. \A r \in Run : task'[r] = "marking" => Accepted(r, Head(toDeliver[r]))'
    BY DEF Taken, Accepted
  <2>5. QED
    BY <2>1, <2>2, <2>3, <2>4 DEF Taken
<1>8. NothingSkipped'
  <2>1. SUFFICES ASSUME NEW r \in Run, NEW n \in Mail, NEW k \in Mail,
                        Accepted(r, n)', ~mailTrigger'[n], Stored(k)', mailTo'[k] = r,
                        mailSequence'[k] < mailSequence'[n]
                 PROVE  Accepted(r, k)'
    BY DEF NothingSkipped
  <2>2. Accepted(r, n) /\ n # m /\ Stored(n) /\ mailTo[n] = r
    BY <1>2, <1>3, <2>1 DEF Taken
  <2>3. k # m
    BY <1>1, <1>4, <1>5, <2>1, <2>2
  <2>4. QED
    BY <1>1, <1>2, <2>1, <2>2, <2>3 DEF NothingSkipped
<1>9. Listed'
  <2>1. SUFFICES ASSUME NEW r \in Run
                 PROVE  ListedFor(r)'
    BY DEF Listed
  <2>2. \A i \in 1..Len(toDeliver[r]) :
          /\ toDeliver[r][i] \in Mail /\ toDeliver[r][i] # m
          /\ Stored(toDeliver[r][i]) /\ mailTo[toDeliver[r][i]] = r
    BY DEF Listed, ListedFor, Deliverable, ChildTypeOK
  <2>3. SUFFICES ASSUME NEW i \in 1..Len(toDeliver[r]), NEW n \in Mail,
                        Stored(n)', mailTo'[n] = r, ~Accepted(r, n)',
                        mailSequence'[n] < mailSequence'[toDeliver[r][i]]
                 PROVE  \E j \in 1..(i - 1) : toDeliver[r][j] = n
    BY <1>1, <2>2 DEF ListedFor, Deliverable
  <2>4. n # m
    BY <1>1, <1>4, <1>5, <2>2, <2>3
  <2>5. ListedFor(r)
    BY DEF Listed
  <2>6. QED
    BY <1>1, <1>2, <2>2, <2>3, <2>4, <2>5 DEF ListedFor, Deliverable
<1>10. InOrder'
  <2>1. SUFFICES ASSUME NEW r \in Run, NEW i \in 1..Len(accepted[r])
                 PROVE  /\ mailSequence'[accepted[r][i]] = mailSequence[accepted[r][i]]
                        /\ mailTrigger'[accepted[r][i]] = mailTrigger[accepted[r][i]]
    BY OrderStays
  <2>2. accepted[r] \in Seq(Mail)
    BY DEF ChildTypeOK
  <2>3. accepted[r][i] \in Mail
    BY <2>2
  <2>4. Accepted(r, accepted[r][i])
    BY DEF Accepted
  <2>5. QED
    BY <1>1, <1>3, <2>3, <2>4
<1>11. QED
  BY <1>6, <1>7, <1>8, <1>9, <1>10

\* A mail that is accepted comes after what was, or what was is triggers; and what precedes
\* it has been, or it is a trigger.
LEMMA AcceptKeepsMail ==
  ASSUME ChildTypeOK, MailInv, NEW r \in Run, NEW m \in Mail, Stored(m), mailTo[m] = r,
         Accept(r, m),
         mailTrigger[m] \/ \A n \in Mail : /\ Stored(n) /\ mailTo[n] = r
                                           /\ mailSequence[n] < mailSequence[m]
                                           => Accepted(r, n),
         UNCHANGED <<mailStatus, MailTexts, toDeliver>>,
         \A n \in Message : sending'[n] = "steered" => sending[n] = "steered" \/ n = m,
         \A q \in Run : task'[q] = "marking"
                          => task[q] = "marking" \/ (q = r /\ Head(toDeliver[r]) = m)
  PROVE  MailInv'
<1> USE DEF MailInv, MailTexts
<1>1. \A q \in Run : \A n : Accepted(q, n)' <=> Accepted(q, n) \/ (q = r /\ n = m)
  BY AcceptAddsOne
<1>2. \A n : Stored(n)' <=> Stored(n)
  BY DEF Stored
<1>3. Numbered'
  BY <1>2 DEF Numbered
<1>4. Taken'
  <2>1. \A q \in Run, n \in Mail : Accepted(q, n)' => Stored(n)' /\ mailTo'[n] = q
    BY <1>1, <1>2 DEF Taken
  <2>2. \A n \in Mail : mailStatus'[n] \in {"delivered", "checkpointed"}
                          => Accepted(mailTo[n], n)'
    BY <1>1 DEF Taken, Numbered, Stored
  <2>3. \A n \in Message : sending'[n] = "steered" => Stored(n)' /\ Accepted(mailTo[n], n)'
    <3>1. SUFFICES ASSUME NEW n \in Message, sending'[n] = "steered"
                   PROVE  Stored(n)' /\ Accepted(mailTo[n], n)'
      OBVIOUS
    <3>2. CASE n = m
      BY <1>1, <1>2, <3>2
    <3>3. CASE n # m
      <4>1. Stored(n)' /\ Accepted(mailTo[n], n)
        BY <1>2, <3>1, <3>3 DEF Taken
      <4>2. accepted'[mailTo[n]] = accepted[mailTo[n]] \/ mailTo[n] = r
        BY DEF Accept, ChildTypeOK
      <4>3. CASE mailTo[n] = r
        BY <1>1, <4>1, <4>3
      <4>4. CASE accepted'[mailTo[n]] = accepted[mailTo[n]]
        BY <4>1, <4>4 DEF Accepted
      <4>5. QED
        BY <4>2, <4>3, <4>4
    <3>4. QED
      BY <3>2, <3>3
  <2>4. \A q \in Run : task'[q] = "marking" => Accepted(q, Head(toDeliver[q]))'
    <3>1. SUFFICES ASSUME NEW q \in Run, task'[q] = "marking"
                   PROVE  Accepted(q, Head(toDeliver[q]))'
      OBVIOUS
    <3>2. CASE q = r /\ Head(toDeliver[r]) = m
      BY <1>1, <3>2
    <3>3. CASE task[q] = "marking"
      <4>1. Accepted(q, Head(toDeliver[q]))
        BY <3>3 DEF Taken
      <4>2. CASE q # r
        BY <4>1, <4>2 DEF Accept, Accepted, ChildTypeOK
      <4>3. CASE q = r
        <5>1. PICK h : h = Head(toDeliver[q])
          OBVIOUS
        <5>2. Accepted(q, h)'
          BY <1>1, <4>1, <5>1
        <5>3. QED
          BY <5>1, <5>2 DEF Accepted
      <4>4. QED
        BY <4>2, <4>3
    <3>4. QED
      BY <3>1, <3>2, <3>3
  <2>5. QED
    BY <2>1, <2>2, <2>3, <2>4 DEF Taken
<1>5. NothingSkipped'
  BY <1>1, <1>2 DEF NothingSkipped
<1>6. Listed'
  <2>1. SUFFICES ASSUME NEW q \in Run
                 PROVE  ListedFor(q)'
    BY DEF Listed
  <2>2. ListedFor(q)
    BY DEF Listed
  <2>3. QED
    BY <1>1, <1>2, <2>2 DEF ListedFor, Deliverable
<1>7. CASE Accepted(r, m)
  <2>1. accepted' = accepted
    BY <1>7 DEF Accept, Accepted
  <2>2. InOrder'
    BY <2>1 DEF InOrder
  <2>3. QED
    BY <1>3, <1>4, <1>5, <1>6, <2>2
<1>8. CASE ~Accepted(r, m)
  <2> DEFINE longer == Append(accepted[r], m)
  <2>1. accepted[r] \in Seq(Mail) /\ Len(accepted[r]) \in Nat
    BY DEF ChildTypeOK
  <2>2. /\ Len(longer) = Len(accepted[r]) + 1
        /\ \A i \in 1..Len(accepted[r]) : longer[i] = accepted[r][i]
        /\ longer[Len(accepted[r]) + 1] = m
    BY <2>1, AppendProperties
  <2>3. accepted' = [accepted EXCEPT ![r] = longer]
    BY <1>8 DEF Accept, Accepted
  <2> HIDE DEF longer
  <2>4. \A n \in Mail : Accepted(r, n) =>
          n # m /\ (mailSequence[n] < mailSequence[m] \/ mailTrigger[n])
    <3>1. SUFFICES ASSUME NEW n \in Mail, Accepted(r, n), ~mailTrigger[n]
                   PROVE  mailSequence[n] < mailSequence[m]
      BY <1>8
    <3>2. Stored(n) /\ mailTo[n] = r /\ n # m
      BY <1>8, <3>1 DEF Taken
    <3>3. ~(mailSequence[m] < mailSequence[n])
      BY <1>8, <3>1 DEF NothingSkipped
    <3>4. mailSequence[m] # mailSequence[n]
      BY <3>2 DEF Numbered
    <3>5. mailSequence[m] \in Nat /\ mailSequence[n] \in Nat
      BY DEF ChildTypeOK
    <3>6. QED
      BY <3>3, <3>4, <3>5
  <2>5. InOrder'
    <3>1. SUFFICES ASSUME NEW q \in Run, NEW i \in 1..Len(accepted'[q]),
                          NEW j \in 1..Len(accepted'[q]), i < j
                   PROVE  /\ accepted'[q][i] # accepted'[q][j]
                          /\ \/ mailSequence[accepted'[q][i]] < mailSequence[accepted'[q][j]]
                             \/ mailTrigger[accepted'[q][i]]
      BY DEF InOrder
    <3>2. CASE q # r
      BY <2>3, <3>1, <3>2 DEF InOrder, ChildTypeOK
    <3>3. CASE q = r
      <4>1. accepted'[q] = longer
        BY <2>3, <3>3 DEF ChildTypeOK
      <4>2. i \in 1..Len(accepted[r]) /\ longer[i] = accepted[r][i]
        BY <2>1, <2>2, <3>1, <4>1
      <4>3. longer[i] \in Mail /\ Accepted(r, longer[i])
        BY <2>1, <4>2 DEF Accepted
      <4>4. CASE j = Len(accepted[r]) + 1
        BY <2>2, <2>4, <4>1, <4>3, <4>4
      <4>5. CASE j \in 1..Len(accepted[r])
        BY <2>2, <3>1, <4>1, <4>2, <4>5 DEF InOrder
      <4>6. QED
        BY <2>1, <2>2, <3>1, <4>1, <4>4, <4>5
    <3>4. QED
      BY <3>2, <3>3
  <2>6. QED
    BY <1>3, <1>4, <1>5, <1>6, <2>5
<1>9. QED
  BY <1>7, <1>8

\* The steps of a run, a user or another run that touch no mail.
LEMMA QuietActionsKeepMail ==
  ASSUME ChildTypeOK, MailInv, NEW r \in Run, NEW p \in Run, NEW callback,
         \/ SpawnCreate(p, r) \/ SpawnStart(r) \/ Interrupt(r) \/ WriteCancelled(r)
         \/ InterruptIdle(r) \/ ResumeRun(r, callback) \/ ApproveRun(r) \/ StartWork(r)
         \/ Pause(r) \/ Complete(r) \/ Throw(r) \/ WriteFailed(r) \/ CloseExecution(r)
  PROVE  MailInv'
<1> DEFINE Quiet ==
      /\ UNCHANGED <<mailStatus, MailTexts, accepted>>
      /\ \A m \in Message : sending'[m] = "steered" => sending[m] = "steered"
      /\ \A q \in Run : toDeliver'[q] = toDeliver[q] \/ toDeliver'[q] = <<>>
      /\ \A q \in Run : task'[q] = "marking"
                          => task[q] = "marking" /\ toDeliver'[q] = toDeliver[q]
<1> SUFFICES Quiet
  BY QuietStepKeepsMail
<1> USE DEF MailTexts, Launch, ChildTypeOK
<1>1. CASE SpawnCreate(p, r)
  BY <1>1 DEF SpawnCreate
<1>2. CASE SpawnStart(r)
  BY <1>2 DEF SpawnStart
<1>3. CASE Interrupt(r)
  BY <1>3 DEF Interrupt
<1>4. CASE WriteCancelled(r)
  BY <1>4 DEF WriteCancelled
<1>5. CASE InterruptIdle(r)
  BY <1>5 DEF InterruptIdle
<1>6. CASE ResumeRun(r, callback)
  BY <1>6 DEF ResumeRun
<1>7. CASE ApproveRun(r)
  BY <1>7 DEF ApproveRun
<1>8. CASE StartWork(r)
  BY <1>8 DEF StartWork
<1>9. CASE Pause(r)
  BY <1>9 DEF Pause
<1>10. CASE Complete(r)
  BY <1>10 DEF Complete
<1>11. CASE Throw(r)
  BY <1>11 DEF Throw
<1>12. CASE WriteFailed(r)
  BY <1>12 DEF WriteFailed
<1>13. CASE CloseExecution(r)
  BY <1>13 DEF CloseExecution
<1>14. QED
  BY <1>1, <1>2, <1>3, <1>4, <1>5, <1>6, <1>7, <1>8, <1>9, <1>10, <1>11, <1>12, <1>13

\* Nor do the steps of the wait, of the process, or none at all.
LEMMA ProcessKeepsMail ==
  ASSUME ChildTypeOK, MailInv,
         WaitNext \/ Crash \/ Recover \/ ServerUp \/ UNCHANGED childVars
  PROVE  MailInv'
<1> USE DEF MailTexts, ChildTypeOK
<1>1. CASE WaitNext
  BY <1>1, QuietStepKeepsMail DEF WaitNext, WaitCheck, WaitRegister, WaitExpire, WaitReturn
<1>2. CASE Crash
  BY <1>2, QuietStepKeepsMail DEF Crash
<1>3. CASE Recover
  BY <1>3, QuietStepKeepsMail DEF Recover
<1>4. CASE ServerUp
  BY <1>4, QuietStepKeepsMail DEF ServerUp
<1>5. CASE UNCHANGED childVars
  BY <1>5, QuietStepKeepsMail DEF childVars
<1>6. QED
  BY <1>1, <1>2, <1>3, <1>4, <1>5

\* A message that is sent gets its receiver before it is stored.
LEMMA SendCheckKeepsMail ==
  ASSUME BudgetInv, MailInv, NEW m \in Message, NEW sender \in Run, NEW receiver \in Run,
         NEW trigger \in BOOLEAN, SendCheck(m, sender, receiver, trigger)
  PROVE  MailInv'
<1> USE DEF SendCheck
<1>1. ~Stored(m)
  BY DEF BudgetInv, Addressed, Stored
<1>2. ChildTypeOK
  BY DEF BudgetInv
<1>3. /\ UNCHANGED <<mailStatus, mailSequence, nextMailSequence, accepted, toDeliver, task>>
      /\ \A n \in Mail : n # m => mailTo'[n] = mailTo[n] /\ mailTrigger'[n] = mailTrigger[n]
      /\ \A n \in Message : sending'[n] = "steered" => sending[n] = "steered"
  BY <1>2 DEF ChildTypeOK
<1>4. /\ \A r, n : Accepted(r, n)' <=> Accepted(r, n)
      /\ \A n : Stored(n)' <=> Stored(n)
  BY <1>3 DEF Accepted, Stored
<1>5. \A n \in Mail : Stored(n) => mailTo'[n] = mailTo[n] /\ mailTrigger'[n] = mailTrigger[n]
  BY <1>1, <1>3
<1>6. \A r \in Run, n \in Mail : Accepted(r, n) => Stored(n) /\ mailTo[n] = r
  BY DEF MailInv, Taken
<1>7. Numbered'
  BY <1>3, <1>4, <1>5 DEF MailInv, Numbered
<1>8. Taken'
  <2>1. \A r \in Run, n \in Mail : Accepted(r, n)' => Stored(n)' /\ mailTo'[n] = r
    BY <1>4, <1>5, <1>6
  <2>2. \A n \in Mail : mailStatus'[n] \in {"delivered", "checkpointed"}
                          => Accepted(mailTo[n], n)'
    BY <1>3, <1>5 DEF MailInv, Taken, Accepted, Stored
  <2>3. \A n \in Message : sending'[n] = "steered"
                             => Stored(n)' /\ Accepted(mailTo[n], n)'
    BY <1>3, <1>5 DEF MailInv, Taken, Accepted, Stored
  <2>4. \A r \in Run : task'[r] = "marking" => Accepted(r, Head(toDeliver[r]))'
    BY <1>3 DEF MailInv, Taken, Accepted
  <2>5. QED
    BY <2>1, <2>2, <2>3, <2>4 DEF Taken
<1>9. NothingSkipped'
  BY <1>3, <1>4, <1>5, <1>6 DEF MailInv, NothingSkipped
<1>10. Listed'
  <2>1. SUFFICES ASSUME NEW r \in Run
                 PROVE  ListedFor(r)'
    BY DEF Listed
  <2>2. ListedFor(r) /\ toDeliver[r] \in Seq(Mail)
    BY <1>2 DEF MailInv, Listed, ChildTypeOK
  <2>3. \A i \in 1..Len(toDeliver[r]) : toDeliver[r][i] \in Mail
    BY <2>2
  <2>4. QED
    BY <1>3, <1>4, <1>5, <2>2, <2>3 DEF ListedFor, Deliverable, Stored
<1>11. InOrder'
  <2>1. SUFFICES ASSUME NEW r \in Run, NEW i \in 1..Len(accepted[r])
                 PROVE  mailTrigger'[accepted[r][i]] = mailTrigger[accepted[r][i]]
    BY <1>3, OrderStays DEF MailInv
  <2>2. accepted[r] \in Seq(Mail)
    BY <1>2 DEF ChildTypeOK
  <2>3. accepted[r][i] \in Mail
    BY <2>2
  <2>4. Accepted(r, accepted[r][i])
    BY DEF Accepted
  <2>5. QED
    BY <1>5, <1>6, <2>3, <2>4
<1>12. QED
  BY <1>7, <1>8, <1>9, <1>10, <1>11 DEF MailInv

\* It is stored.
LEMMA SendStoreKeepsMail ==
  ASSUME BudgetInv, MailInv, NEW m \in Message, SendStore(m)
  PROVE  MailInv'
<1> USE DEF SendStore
<1>1. ChildTypeOK /\ mailTo[m] \in Run /\ ~Stored(m) /\ mailTrigger[m] \in BOOLEAN
  BY DEF BudgetInv, Addressed, Stored, ChildTypeOK
<1>2. \A n \in Message : sending'[n] = "steered" => sending[n] = "steered"
  BY <1>1 DEF ChildTypeOK
<1>3. QED
  BY <1>1, <1>2, AppendKeepsMail

\* It steers its receiver as a trigger, or leaves the mail alone.
LEMMA SendContinueKeepsMail ==
  ASSUME BudgetInv, MailInv, NEW m \in Message, SendContinue(m)
  PROVE  MailInv'
<1> DEFINE r == mailTo[m]
           steered == mailTrigger[m] /\ IsActive(r) /\ WindowOpen(r)
<1>1. ChildTypeOK /\ mailTo[m] \in Run /\ sending[m] = "stored"
  BY DEF SendContinue, BudgetInv, Addressed
<1>2. CASE steered
  <2>1. /\ Accept(r, m) /\ Stored(m) /\ mailTrigger[m] /\ UNCHANGED taskVars
        /\ UNCHANGED <<mailStatus, MailTexts, toDeliver>>
        /\ sending' = [sending EXCEPT ![m] = "steered"]
    BY <1>2 DEF SendContinue, MailTexts, Stored, BudgetInv, Addressed
  <2>2. \A n \in Message : sending'[n] = "steered" => sending[n] = "steered" \/ n = m
    BY <1>1, <2>1 DEF ChildTypeOK
  <2>3. \A q \in Run : task'[q] = "marking" => task[q] = "marking"
    BY <2>1
  <2>4. QED
    BY <1>1, <2>1, <2>2, <2>3, AcceptKeepsMail
<1>3. CASE ~steered
  <2>a. /\ UNCHANGED <<mailStatus, MailTexts, accepted>>
        /\ sending' = [sending EXCEPT ![m] = "done"]
    BY <1>3 DEF SendContinue, MailTexts
  <2>b. UNCHANGED taskVars \/ Launch(mailTo[m], TriggerCallback(mailTo[m]))
    BY DEF SendContinue
  <2>1. /\ UNCHANGED <<mailStatus, MailTexts, accepted, toDeliver>>
        /\ sending' = [sending EXCEPT ![m] = "done"]
        /\ task' = task \/ task' = [task EXCEPT ![mailTo[m]] = "launched"]
    BY <2>a, <2>b DEF Launch
  <2>2. \A n \in Message : sending'[n] = "steered" => sending[n] = "steered"
    BY <1>1, <2>1 DEF ChildTypeOK
  <2>3. \A q \in Run : task'[q] = "marking" => task[q] = "marking"
    BY <1>1, <2>1 DEF ChildTypeOK
  <2>4. QED
    BY <2>1, <2>2, <2>3, QuietStepKeepsMail
<1>4. QED
  BY <1>2, <1>3

\* The first of the list is accepted: what precedes it has been.
LEMMA DeliverKeepsMail ==
  ASSUME BudgetInv, MailInv, NEW r \in Run, DeliverMail(r)
  PROVE  MailInv'
<1>1. ChildTypeOK /\ toDeliver[r] \in Seq(Mail) /\ toDeliver[r] # <<>> /\ ListedFor(r)
  BY DEF BudgetInv, ChildTypeOK, DeliverMail, MailInv, Listed
<1>2. PICK m : m = Head(toDeliver[r])
  OBVIOUS
<1>3. 1 \in 1..Len(toDeliver[r]) /\ toDeliver[r][1] = m /\ m \in Mail
  BY <1>1, <1>2
<1>4. /\ Stored(m) /\ mailTo[m] = r
      /\ \A n \in Mail : /\ Stored(n) /\ mailTo[n] = r
                         /\ mailSequence[n] < mailSequence[m]
                         => Accepted(r, n)
  <2>1. Stored(m) /\ mailTo[m] = r
    BY <1>1, <1>3 DEF ListedFor, Deliverable, Stored
  <2>2. ASSUME NEW n \in Mail, Stored(n), mailTo[n] = r, mailSequence[n] < mailSequence[m],
               ~Accepted(r, n)
        PROVE  FALSE
    <3>1. \E j \in 1..(1 - 1) : toDeliver[r][j] = n
      BY <1>1, <1>3, <2>2 DEF ListedFor, Deliverable
    <3>2. QED
      BY <3>1
  <2>3. QED
    BY <2>1, <2>2
<1>5. /\ Accept(r, m) /\ UNCHANGED <<mailStatus, MailTexts, toDeliver, sending>>
      /\ task' = [task EXCEPT ![r] = "marking"]
  BY <1>2 DEF DeliverMail, MailTexts
<1>6. \A q \in Run : task'[q] = "marking"
                       => task[q] = "marking" \/ (q = r /\ Head(toDeliver[r]) = m)
  BY <1>1, <1>2, <1>5 DEF ChildTypeOK
<1>7. QED
  BY <1>1, <1>3, <1>4, <1>5, <1>6, AcceptKeepsMail

\* Steps that mark mail mark what is accepted.
LEMMA MarkingKeepsMail ==
  ASSUME MailInv, UNCHANGED <<MailTexts, accepted>>,
         \A n \in Mail : mailStatus'[n] # "none" <=> mailStatus[n] # "none",
         \A n \in Mail : mailStatus'[n] \in {"delivered", "checkpointed"}
             => mailStatus[n] \in {"delivered", "checkpointed"} \/ Accepted(mailTo[n], n),
         \A n \in Message : sending'[n] = "steered" => sending[n] = "steered",
         \A r \in Run : task'[r] = "marking"
                          => task[r] = "marking" /\ toDeliver'[r] = toDeliver[r],
         Listed'
  PROVE  MailInv'
<1> USE DEF MailTexts
<1>1. /\ \A r, n : Accepted(r, n)' <=> Accepted(r, n)
      /\ \A n \in Mail : Stored(n)' <=> Stored(n)
  BY DEF Accepted, Stored
<1>2. Numbered'
  BY <1>1 DEF MailInv, Numbered
<1>3. Taken'
  <2>1. \A r \in Run, n \in Mail : Accepted(r, n)' => Stored(n)' /\ mailTo'[n] = r
    BY <1>1 DEF MailInv, Taken
  <2>2. \A n \in Mail : mailStatus'[n] \in {"delivered", "checkpointed"}
                          => Accepted(mailTo[n], n)'
    BY DEF MailInv, Taken, Accepted
  <2>3. \A n \in Message : sending'[n] = "steered"
                             => Stored(n)' /\ Accepted(mailTo[n], n)'
    BY <1>1 DEF MailInv, Taken, Accepted
  <2>4. \A r \in Run : task'[r] = "marking" => Accepted(r, Head(toDeliver[r]))'
    BY DEF MailInv, Taken, Accepted
  <2>5. QED
    BY <2>1, <2>2, <2>3, <2>4 DEF Taken
<1>4. NothingSkipped'
  BY <1>1 DEF MailInv, NothingSkipped
<1>5. InOrder'
  BY DEF MailInv, InOrder
<1>6. QED
  BY <1>2, <1>3, <1>4, <1>5 DEF MailInv

\* A list stays one while no mail is added or taken.
LEMMA ListsStay ==
  ASSUME MailInv, UNCHANGED <<MailTexts, accepted, toDeliver>>,
         \A n \in Mail : mailStatus'[n] # "none" <=> mailStatus[n] # "none", ChildTypeOK
  PROVE  Listed'
<1> USE DEF MailTexts
<1>1. /\ \A r, n : Accepted(r, n)' <=> Accepted(r, n)
      /\ \A n \in Mail : Stored(n)' <=> Stored(n)
  BY DEF Accepted, Stored
<1>2. SUFFICES ASSUME NEW r \in Run
               PROVE  ListedFor(r)'
  BY DEF Listed
<1>3. ListedFor(r) /\ toDeliver[r] \in Seq(Mail)
  BY DEF MailInv, Listed, ChildTypeOK
<1>4. QED
  BY <1>1, <1>3, ListStays

\* A trigger that steered its receiver is marked.
LEMMA SendMarkKeepsMail ==
  ASSUME BudgetInv, MailInv, NEW m \in Message, SendMark(m)
  PROVE  MailInv'
<1> USE DEF SendMark, MarkDelivered, MailTexts
<1>1. ChildTypeOK
  BY DEF BudgetInv
<1>2. Accepted(mailTo[m], m)
  BY DEF MailInv, Taken
<1>3. /\ \A n \in Mail : mailStatus'[n] # "none" <=> mailStatus[n] # "none"
      /\ \A n \in Mail : n # m => mailStatus'[n] = mailStatus[n]
      /\ \A n \in Message : sending'[n] = "steered" => sending[n] = "steered"
  BY <1>1 DEF ChildTypeOK
<1>4. QED
  BY <1>1, <1>2, <1>3, ListsStay, MarkingKeepsMail

\* What was delivered is checkpointed.
LEMMA CheckpointKeepsMail ==
  ASSUME BudgetInv, MailInv, NEW r \in Run, CheckpointMail(r)
  PROVE  MailInv'
<1> USE DEF CheckpointMail, MailTexts
<1>1. ChildTypeOK
  BY DEF BudgetInv
<1>2. /\ \A n \in Mail : mailStatus'[n] # "none" <=> mailStatus[n] # "none"
      /\ \A n \in Mail : mailStatus'[n] = mailStatus[n] \/ mailStatus[n] = "delivered"
  OBVIOUS
<1>3. \A q \in Run : task'[q] = "marking" => task[q] = "marking" /\ toDeliver'[q] = toDeliver[q]
  BY <1>1 DEF ChildTypeOK
<1>4. QED
  BY <1>1, <1>2, <1>3, ListsStay, MarkingKeepsMail

\* The first of the list is marked and leaves it.
LEMMA MarkMailKeepsMail ==
  ASSUME BudgetInv, MailInv, NEW r \in Run, MarkMail(r)
  PROVE  MailInv'
<1> USE DEF MailTexts
<1>1. /\ ChildTypeOK /\ toDeliver[r] \in Seq(Mail) /\ toDeliver[r] # <<>>
      /\ Accepted(r, Head(toDeliver[r])) /\ ListedFor(r)
  BY DEF BudgetInv, ChildTypeOK, Walks, MarkMail, MailInv, Taken, Listed
<1>2. PICK m : m = Head(toDeliver[r])
  OBVIOUS
<1>3. 1 \in 1..Len(toDeliver[r]) /\ toDeliver[r][1] = m /\ m \in Mail
  BY <1>1, <1>2
<1>4. Accepted(r, m) /\ mailTo[m] = r
  BY <1>1, <1>2, <1>3 DEF ListedFor, Deliverable
<1>5. /\ mailStatus' = [mailStatus EXCEPT ![m] = IF @ = "queued" THEN "delivered" ELSE @]
      /\ toDeliver' = [toDeliver EXCEPT ![r] = Tail(toDeliver[r])]
      /\ task' = [task EXCEPT ![r] = "delivering"]
      /\ UNCHANGED <<MailTexts, accepted, sending>>
  BY <1>2 DEF MarkMail, MarkDelivered
<1>6. /\ \A n \in Mail : mailStatus'[n] # "none" <=> mailStatus[n] # "none"
      /\ \A n \in Mail : n # m => mailStatus'[n] = mailStatus[n]
      /\ \A q \in Run : q # r => toDeliver'[q] = toDeliver[q] /\ task'[q] = task[q]
      /\ toDeliver'[r] = Tail(toDeliver[r]) /\ task'[r] = "delivering"
  BY <1>1, <1>3, <1>5 DEF ChildTypeOK
<1>7. /\ \A q, n : Accepted(q, n)' <=> Accepted(q, n)
      /\ \A n \in Mail : Stored(n)' <=> Stored(n)
  BY <1>5, <1>6 DEF Accepted, Stored
<1>8. Listed'
  <2>1. SUFFICES ASSUME NEW q \in Run
                 PROVE  ListedFor(q)'
    BY DEF Listed
  <2>2. /\ ListedFor(q) /\ toDeliver[q] \in Seq(Mail)
        /\ \A i \in 1..Len(toDeliver[q]) : toDeliver[q][i] \in Mail
    BY <1>1 DEF MailInv, Listed, ChildTypeOK
  <2>3. CASE q # r
    BY <1>5, <1>6, <1>7, <2>2, <2>3, ListStays
  <2>4. CASE q = r
    <3>0. PICK tail : tail = Tail(toDeliver[r])
      OBVIOUS
    <3>1. /\ tail \in Seq(Mail) /\ Len(tail) = Len(toDeliver[r]) - 1
          /\ \A i \in 1..Len(tail) : tail[i] = toDeliver[r][i + 1]
      BY <1>1, <3>0, HeadTailProperties
    <3>2. toDeliver'[q] = tail
      BY <1>6, <2>4, <3>0
    <3>3. Len(toDeliver[r]) \in Nat /\ Len(tail) \in Nat
      BY <1>1, <3>1
    <3>4. \A i \in 1..Len(tail) : i + 1 \in 1..Len(toDeliver[r])
      BY <3>1, <3>3
    <3>5. \A i \in 1..Len(tail) : Stored(tail[i])' /\ mailTo'[tail[i]] = q
      <4>1. SUFFICES ASSUME NEW i \in 1..Len(tail)
                     PROVE  Stored(tail[i])' /\ mailTo'[tail[i]] = q
        BY <3>1
      <4>2. PICK d \in Mail : d = toDeliver[r][i + 1]
        BY <2>2, <2>4, <3>4
      <4>3. Stored(d) /\ mailTo[d] = r
        BY <2>2, <2>4, <3>4, <4>2 DEF ListedFor, Deliverable, Stored
      <4>4. tail[i] = d
        BY <3>1, <4>2
      <4>5. QED
        BY <1>5, <1>6, <2>4, <4>3, <4>4 DEF Stored
    <3>6. ASSUME NEW i \in 1..Len(tail), NEW n \in Mail, Stored(n)', mailTo'[n] = q,
                 ~Accepted(q, n)', mailSequence'[n] < mailSequence'[tail[i]]
          PROVE  \E j \in 1..(i - 1) : tail[j] = n
      <4>1. PICK j \in 1..((i + 1) - 1) : toDeliver[r][j] = n
        <5>1. PICK d \in Mail : d = toDeliver[r][i + 1] /\ tail[i] = d
          BY <2>2, <2>4, <3>1, <3>4
        <5>2. /\ Stored(n) /\ mailTo[n] = r /\ ~Accepted(r, n)
              /\ mailSequence[n] < mailSequence[d]
          BY <1>5, <1>7, <2>4, <3>6, <5>1
        <5>3. i + 1 \in 1..Len(toDeliver[r]) /\ ListedFor(r)
          BY <2>2, <2>4, <3>4
        <5>4. QED
          BY <5>1, <5>2, <5>3 DEF ListedFor, Deliverable
      <4>2. j # 1
        BY <1>3, <1>4, <1>7, <2>4, <3>6, <4>1
      <4>3. /\ j - 1 \in 1..(i - 1) /\ j - 1 \in 1..Len(tail)
            /\ tail[j - 1] = toDeliver[r][(j - 1) + 1]
        BY <3>1, <3>3, <4>2
      <4>4. tail[j - 1] = n
        BY <4>1, <4>3
      <4>5. QED
        BY <4>3, <4>4
    <3>7. \A i \in 1..Len(tail), n \in Mail :
            /\ Stored(n)' /\ mailTo'[n] = q /\ ~Accepted(q, n)'
            /\ mailSequence'[n] < mailSequence'[tail[i]]
            => \E j \in 1..(i - 1) : tail[j] = n
      BY <3>6
    <3>8. Deliverable(q, tail)'
      BY <3>5, <3>7 DEF Deliverable
    <3>9. QED
      BY <3>2, <3>8, ListIs
  <2>5. QED
    BY <2>3, <2>4
<1>9. QED
  BY <1>4, <1>5, <1>6, <1>8, MarkingKeepsMail

\* The list a task begins to deliver is the queued mail in order; the rest was accepted.
LEMMA MarkRunningKeepsMail ==
  ASSUME BudgetInv, MailInv, NEW r \in Run, MarkRunning(r)
  PROVE  MailInv'
<1> USE DEF MailTexts
<1>1. ChildTypeOK /\ Addressed
  BY DEF BudgetInv
<1>2. /\ UNCHANGED <<mailStatus, MailTexts, accepted, sending>>
      /\ task' \in {[task EXCEPT ![r] = "delivering"], [task EXCEPT ![r] = "failing"]}
  BY DEF MarkRunning
<1>3. \A q \in Run : task'[q] = "marking" => task[q] = "marking" /\ q # r
  BY <1>1, <1>2 DEF ChildTypeOK
<1>4. CASE ~BudgetAllows(r, "running")
  <2>1. toDeliver' = toDeliver
    BY <1>4 DEF MarkRunning
  <2>2. QED
    BY <1>2, <1>3, <2>1, QuietStepKeepsMail
<1>5. CASE BudgetAllows(r, "running")
  <2>1. PICK order \in UNION {[1..k -> QueuedFor(r)] : k \in 0..Cardinality(QueuedFor(r))} :
          IsMailOrder(r, order) /\ toDeliver' = [toDeliver EXCEPT ![r] = order]
    BY <1>5 DEF MarkRunning
  <2>2. order \in Seq(QueuedFor(r)) /\ Len(order) \in Nat
    BY <1>1, <2>1, MailOrderIsList
  <2>3. toDeliver'[r] = order /\ \A q \in Run : q # r => toDeliver'[q] = toDeliver[q]
    BY <1>1, <2>1 DEF ChildTypeOK
  <2>4. \A i \in 1..Len(order) : order[i] \in QueuedFor(r)
    BY <2>2
  <2>5. \A n \in Mail : Stored(n) /\ mailTo[n] = r /\ ~Accepted(r, n) => n \in QueuedFor(r)
    <3>1. SUFFICES ASSUME NEW n \in Mail, Stored(n), mailTo[n] = r, ~Accepted(r, n)
                   PROVE  n \in QueuedFor(r)
      OBVIOUS
    <3>2. ~(mailStatus[n] \in {"delivered", "checkpointed"})
      BY <3>1 DEF MailInv, Taken
    <3>3. QED
      BY <1>1, <3>1, <3>2 DEF Stored, QueuedFor, ChildTypeOK
  <2>6. ASSUME NEW i \in 1..Len(order), NEW n \in QueuedFor(r),
               mailSequence[n] < mailSequence[order[i]]
        PROVE  \E j \in 1..(i - 1) : order[j] = n
    <3>1. PICK j \in 1..Len(order) : order[j] = n
      BY <2>1 DEF IsMailOrder
    <3>2. mailSequence[n] \in Nat /\ mailSequence[order[i]] \in Nat
      BY <1>1, <2>4 DEF ChildTypeOK, QueuedFor
    <3>3. j # i /\ ~(i < j)
      BY <2>1, <2>6, <3>1, <3>2 DEF IsMailOrder
    <3>4. j \in 1..(i - 1)
      BY <2>2, <3>3
    <3>5. QED
      BY <3>1, <3>4
  <2>7. /\ \A q, n : Accepted(q, n)' <=> Accepted(q, n)
        /\ \A n \in Mail : Stored(n)' <=> Stored(n)
    BY <1>2 DEF Accepted, Stored
  <2>8. Listed'
    <3>1. SUFFICES ASSUME NEW q \in Run
                   PROVE  ListedFor(q)'
      BY DEF Listed
    <3>2. CASE q # r
      <4>1. ListedFor(q) /\ toDeliver[q] \in Seq(Mail)
        BY <1>1 DEF MailInv, Listed, ChildTypeOK
      <4>2. QED
        BY <1>2, <2>3, <2>7, <3>2, <4>1, ListStays
    <3>3. CASE q = r
      <4>1. \A i \in 1..Len(order) : Stored(order[i])' /\ mailTo'[order[i]] = r
        BY <1>2, <2>4 DEF QueuedFor, Stored
      <4>2. \A i \in 1..Len(order), n \in Mail :
              /\ Stored(n)' /\ mailTo'[n] = r /\ ~Accepted(r, n)'
              /\ mailSequence'[n] < mailSequence'[order[i]]
              => \E j \in 1..(i - 1) : order[j] = n
        BY <1>2, <2>5, <2>6, <2>7
      <4>3. Deliverable(r, order)'
        BY <4>1, <4>2 DEF Deliverable
      <4>4. QED
        BY <2>3, <3>3, <4>3, ListIs
    <3>4. QED
      BY <3>2, <3>3
  <2>9. \A q \in Run : task'[q] = "marking"
                         => task[q] = "marking" /\ toDeliver'[q] = toDeliver[q]
    BY <1>3, <2>3
  <2>10. QED
    BY <1>2, <2>8, <2>9, MarkingKeepsMail
<1>6. QED
  BY <1>4, <1>5

\* The announcement of a child is stored unless it has been.
LEMMA StoreCompletionKeepsMail ==
  ASSUME ChildTypeOK, MailInv, NEW c \in Child, parentRun[c] \in Run, NEW reported,
         StoreCompletion(c, reported), UNCHANGED <<accepted, toDeliver, sending>>,
         \A r \in Run : task'[r] = "marking" => task[r] = "marking"
  PROVE  MailInv'
<1>1. CASE mailStatus[c] = "none"
  <2>1. ~Stored(c) /\ AppendMail(c, parentRun[c], FALSE)
    BY <1>1 DEF StoreCompletion, Stored
  <2>2. QED
    BY <2>1, AppendKeepsMail
<1>2. CASE mailStatus[c] # "none"
  BY <1>2, QuietStepKeepsMail DEF StoreCompletion, MailTexts
<1>3. QED
  BY <1>1, <1>2

\* The end of a task announces a child.
LEMMA SettleKeepsMail ==
  ASSUME BudgetInv, MailInv, NEW c \in Child, Settle(c)
  PROVE  MailInv'
<1> USE DEF Settle
<1>1. ChildTypeOK /\ parentRun[c] \in Run
  BY DEF BudgetInv, Kinship
<1>2. \A r \in Run : task'[r] = "marking" => task[r] = "marking"
  BY <1>1 DEF ChildTypeOK
<1>3. CASE StoreCompletion(c, settledStatus[c])
  BY <1>1, <1>2, <1>3, StoreCompletionKeepsMail
<1>4. CASE UNCHANGED mailVars
  BY <1>2, <1>4, QuietStepKeepsMail DEF MailTexts
<1>5. QED
  BY <1>3, <1>4

\* So does the start of the process.
LEMMA ReconcileKeepsMail ==
  ASSUME BudgetInv, MailInv, NEW c \in Child, Reconcile(c)
  PROVE  MailInv'
<1> USE DEF Reconcile
<1>1. ChildTypeOK /\ parentRun[c] \in Run
  BY DEF BudgetInv, Kinship, Walks
<1>2. CASE mailStatus[c] # "none" /\ completionStatus[c] # status[c]
  BY <1>2, QuietStepKeepsMail DEF MailTexts
<1>3. CASE ~(mailStatus[c] # "none" /\ completionStatus[c] # status[c])
  BY <1>1, <1>3, StoreCompletionKeepsMail
<1>4. QED
  BY <1>2, <1>3

-------------------------------------------------------------------------------
(* The announcement of a child's end.                                          *)

\* Calls, messages and interruptions write no status that is to be announced.
LEMMA ControlKeepsAnnounced ==
  ASSUME ChildTypeOK, AnnouncedInv, serverPhase = "up", ControlNext
  PROVE  AnnouncedInv'
<1>1. SUFFICES ASSUME NEW d \in Child
               PROVE  Announced(d)'
  BY DEF AnnouncedInv
<1>2. Announced(d)
  BY DEF AnnouncedInv
<1> USE <1>2 DEF ChildTypeOK, Announced, Finished
\* A child begins as a run that is queued.
<1>3. ASSUME NEW parent \in Run, NEW c \in Child, SpawnCreate(parent, c)
      PROVE  Announced(d)'
  BY <1>3 DEF SpawnCreate
\* It is started with the manager's callback.
<1>4. ASSUME NEW c \in Child, SpawnStart(c)
      PROVE  Announced(d)'
  <2>1. UNCHANGED <<status, mailStatus, serverPhase, unreconciled>>
    BY <1>4 DEF SpawnStart
  <2>2. CASE UNCHANGED taskVars
    BY <2>1, <2>2
  <2>3. CASE ~IsActive(c) /\ Launch(c, "manager")
    BY <2>1, <2>3 DEF Launch, IsActive
  <2>4. QED
    BY <1>4, <2>2, <2>3 DEF SpawnStart
\* The check of a message that is sent.
<1>5. ASSUME NEW m \in Message, NEW sender \in Run, NEW receiver \in Run, NEW trigger \in BOOLEAN,
             SendCheck(m, sender, receiver, trigger)
      PROVE  Announced(d)'
  BY <1>5 DEF SendCheck
\* It is stored.
<1>6. ASSUME NEW m \in Message, SendStore(m)
      PROVE  Announced(d)'
  BY <1>6 DEF SendStore, AppendMail
\* A child it starts has the manager's callback.
<1>7. ASSUME NEW m \in Message, SendContinue(m)
      PROVE  Announced(d)'
  <2>1. UNCHANGED <<status, mailStatus, serverPhase, unreconciled>>
    BY <1>7 DEF SendContinue
  <2>2. \/ UNCHANGED <<task, target, settledStatus>>
        \/ /\ ~IsActive(mailTo[m]) /\ Launch(mailTo[m], TriggerCallback(mailTo[m]))
    BY <1>7 DEF SendContinue
  <2>3. CASE UNCHANGED <<task, target, settledStatus>>
    BY <2>1, <2>3
  <2>4. CASE /\ ~IsActive(mailTo[m]) /\ Launch(mailTo[m], TriggerCallback(mailTo[m]))
    BY <2>1, <2>4 DEF Launch, IsActive, TriggerCallback
  <2>5. QED
    BY <2>2, <2>3, <2>4
\* It is marked.
<1>8. ASSUME NEW m \in Message, SendMark(m)
      PROVE  Announced(d)'
  BY <1>8 DEF SendMark, MarkDelivered
\* An interruption begins.
<1>9. ASSUME NEW c \in Child, Interrupt(c)
      PROVE  Announced(d)'
  BY <1>9 DEF Interrupt
\* It writes a status that is announced by nobody.
<1>10. ASSUME NEW c \in Child, WriteCancelled(c)
       PROVE  Announced(d)'
  BY <1>10 DEF WriteCancelled, WriteStatus
\* So does one without an executor.
<1>11. ASSUME NEW c \in Child, InterruptIdle(c)
       PROVE  Announced(d)'
  BY <1>11 DEF InterruptIdle, WriteStatus
\* A resumed child reports to the manager or to the user.
<1>12. ASSUME NEW r \in Run, NEW callback \in {"manager", "user"}, ResumeRun(r, callback)
       PROVE  Announced(d)'
  BY <1>12 DEF ResumeRun, Launch, IsActive
\* An approved one to the user.
<1>13. ASSUME NEW c \in Child, ApproveRun(c)
       PROVE  Announced(d)'
  BY <1>13 DEF ApproveRun, WriteStatus, Launch, IsActive
<1> QED
  BY <1>3, <1>4, <1>5, <1>6, <1>7, <1>8, <1>9, <1>10, <1>11, <1>12, <1>13 DEF ControlNext

\* An executor announces what it wrote before its task ends.
LEMMA ExecutorKeepsAnnounced ==
  ASSUME ChildTypeOK, AnnouncedInv, serverPhase = "up", ExecutorNext
  PROVE  AnnouncedInv'
<1>1. SUFFICES ASSUME NEW d \in Child
               PROVE  Announced(d)'
  BY DEF AnnouncedInv
<1>2. Announced(d)
  BY DEF AnnouncedInv
<1> USE <1>2 DEF ChildTypeOK, Announced, Finished
\* A task that begins to run.
<1>3. ASSUME NEW r \in Run, MarkRunning(r)
      PROVE  Announced(d)'
  BY <1>3 DEF MarkRunning, WriteStatus
\* A message is delivered.
<1>4. ASSUME NEW r \in Run, DeliverMail(r)
      PROVE  Announced(d)'
  BY <1>4 DEF DeliverMail
\* It is marked.
<1>5. ASSUME NEW r \in Run, MarkMail(r)
      PROVE  Announced(d)'
  BY <1>5 DEF MarkMail, MarkDelivered
\* The work begins.
<1>6. ASSUME NEW r \in Run, StartWork(r)
      PROVE  Announced(d)'
  BY <1>6 DEF StartWork
\* It pauses.
<1>7. ASSUME NEW c \in Child, Pause(c)
      PROVE  Announced(d)'
  BY <1>7 DEF Pause, WriteStatus
\* The mail is checkpointed.
<1>8. ASSUME NEW c \in Child, CheckpointMail(c)
      PROVE  Announced(d)'
  BY <1>8 DEF CheckpointMail
\* The run is completed: its task is still there.
<1>9. ASSUME NEW c \in Child, Complete(c)
      PROVE  Announced(d)'
  BY <1>9 DEF Complete, WriteStatus
\* It throws.
<1>10. ASSUME NEW c \in Child, Throw(c)
       PROVE  Announced(d)'
  BY <1>10 DEF Throw
\* It has failed: its task is still there.
<1>11. ASSUME NEW c \in Child, WriteFailed(c)
       PROVE  Announced(d)'
  BY <1>11 DEF WriteFailed, WriteStatus
\* The callback begins with the status the child has.
<1>12. ASSUME NEW c \in Child, CloseExecution(c)
       PROVE  Announced(d)'
  BY <1>12 DEF CloseExecution
\* The status it began with is announced.
<1>13. ASSUME NEW c \in Child, Settle(c)
       PROVE  Announced(d)'
  BY <1>13 DEF Settle, StoreCompletion, AppendMail
<1> QED
  BY <1>3, <1>4, <1>5, <1>6, <1>7, <1>8, <1>9, <1>10, <1>11, <1>12, <1>13 DEF ExecutorNext

\* The wait changes nothing of it.
LEMMA WaitKeepsAnnounced ==
  ASSUME AnnouncedInv, WaitNext
  PROVE  AnnouncedInv'
  BY DEF AnnouncedInv, Announced, WaitNext, WaitCheck, WaitRegister, WaitExpire, WaitReturn

\* A crash leaves no task.
LEMMA CrashKeepsAnnounced ==
  ASSUME ChildTypeOK, AnnouncedInv, Crash
  PROVE  AnnouncedInv'
  BY DEF ChildTypeOK, AnnouncedInv, Announced, Crash

\* What has finished is to be gone through.
LEMMA RecoverKeepsAnnounced ==
  ASSUME ChildTypeOK, AnnouncedInv, Recover
  PROVE  AnnouncedInv'
<1>1. SUFFICES ASSUME NEW d \in Child
               PROVE  Announced(d)'
  BY DEF AnnouncedInv
<1>2. Announced(d)
  BY DEF AnnouncedInv
<1>3. /\ serverPhase = "down" /\ serverPhase' = "reconciling" /\ UNCHANGED <<task, target>>
      /\ status'[d] \in Terminal => d \in unreconciled'
  BY DEF Recover
<1>4. QED
  BY <1>2, <1>3 DEF Announced, Finished

\* A child that is gone through is announced.
LEMMA ReconcileKeepsAnnounced ==
  ASSUME ChildTypeOK, AnnouncedInv, NEW c \in Child, Reconcile(c)
  PROVE  AnnouncedInv'
<1> USE DEF ChildTypeOK, Reconcile, StoreCompletion, AppendMail
<1>1. SUFFICES ASSUME NEW d \in Child
               PROVE  Announced(d)'
  BY DEF AnnouncedInv
<1>2. Announced(d)
  BY DEF AnnouncedInv
<1>3. QED
  BY <1>2 DEF Announced, Finished

\* When all have been, the server is up.
LEMMA ServerUpKeepsAnnounced ==
  ASSUME ChildTypeOK, AnnouncedInv, ServerUp
  PROVE  AnnouncedInv'
  BY DEF ChildTypeOK, AnnouncedInv, Announced, Finished, ServerUp

-------------------------------------------------------------------------------
(* The steps of the system.                                                    *)

\* At first there is the root alone.
LEMMA InitBudget == ChildInit => BudgetInv
<1> SUFFICES ASSUME ChildInit
             PROVE  BudgetInv
  OBVIOUS
<1>1. ChildTypeOK
  BY EmptySeq DEF ChildInit, ChildTypeOK
<1>2. Born = {} /\ Counted = {} /\ Sent = {}
  BY DEF ChildInit, Born, Counted, Sent
<1>3. Counts
  BY <1>2, FS_EmptySet DEF ChildInit, Counts
<1>4. Addressed
  BY <1>2, FS_EmptySet DEF ChildInit, Addressed
<1>5. Kinship /\ Walks
  BY DEF ChildInit, Kinship, Walks
<1>6. QED
  BY <1>1, <1>3, <1>4, <1>5 DEF BudgetInv

\* Every step keeps the counts and what they rest on.
LEMMA StepKeepsBudget ==
  ASSUME BudgetInv, [ChildNext]_childVars
  PROVE  BudgetInv'
<1>1. CASE serverPhase = "up" /\ ControlNext
  BY <1>1, SpawnKeepsBudget, SpawnStartKeepsBudget, SendCheckKeepsBudget, SendStoreKeepsBudget,
     SendContinueKeepsBudget, SendMarkKeepsBudget, InterruptKeepsBudget,
     WriteCancelledKeepsBudget, InterruptIdleKeepsBudget, ApproveKeepsBudget, ResumeKeepsBudget
  DEF ControlNext
<1>2. CASE serverPhase = "up" /\ ExecutorNext
  BY <1>2, MarkRunningKeepsBudget, DeliverKeepsBudget, MarkMailKeepsBudget,
     StartWorkKeepsBudget, PauseKeepsBudget, CheckpointKeepsBudget, CompleteKeepsBudget,
     ThrowKeepsBudget, WriteFailedKeepsBudget, CloseKeepsBudget, SettleKeepsBudget
  DEF ExecutorNext
<1>3. CASE serverPhase = "up" /\ WaitNext
  BY <1>3, WaitKeepsBudget
<1>4. CASE Crash \/ Recover \/ ServerUp \/ \E c \in Child : Reconcile(c)
  BY <1>4, CrashKeepsBudget, RecoverKeepsBudget, ServerUpKeepsBudget, ReconcileKeepsBudget
<1>5. CASE UNCHANGED childVars
  BY <1>5, StutterKeepsBudget
<1>6. QED
  BY <1>1, <1>2, <1>3, <1>4, <1>5 DEF ChildNext

\* At first there is no mail.
LEMMA InitMail == ChildInit => MailInv
  BY EmptySeq DEF ChildInit, MailInv, Numbered, Taken, NothingSkipped, Listed,
                  ListedFor, Deliverable, InOrder, Stored, Accepted

\* Every step keeps the mailboxes in order.
LEMMA StepKeepsMail ==
  ASSUME BudgetInv, MailInv, [ChildNext]_childVars
  PROVE  MailInv'
<1>0. ChildTypeOK
  BY DEF BudgetInv
<1>1. CASE serverPhase = "up" /\ ControlNext
  <2>1. CASE \/ \E m \in Message, s, r \in Run, t \in BOOLEAN : SendCheck(m, s, r, t)
             \/ \E m \in Message : SendStore(m) \/ SendContinue(m) \/ SendMark(m)
    BY <2>1, SendCheckKeepsMail, SendStoreKeepsMail, SendContinueKeepsMail,
       SendMarkKeepsMail
  <2>2. CASE \/ \E p \in Run, c \in Child : SpawnCreate(p, c)
             \/ \E c \in Child : \/ SpawnStart(c) \/ Interrupt(c) \/ InterruptIdle(c)
                                \/ ApproveRun(c) \/ WriteCancelled(c)
             \/ \E r \in Run, callback \in {"manager", "user"} : ResumeRun(r, callback)
    BY <1>0, <2>2, QuietActionsKeepMail
  <2>3. QED
    BY <1>1, <2>1, <2>2 DEF ControlNext
<1>2. CASE serverPhase = "up" /\ ExecutorNext
  BY <1>0, <1>2, QuietActionsKeepMail, MarkRunningKeepsMail, DeliverKeepsMail,
     MarkMailKeepsMail, CheckpointKeepsMail, SettleKeepsMail
  DEF ExecutorNext
<1>3. CASE \/ serverPhase = "up" /\ WaitNext
           \/ Crash \/ Recover \/ ServerUp \/ UNCHANGED childVars
  BY <1>0, <1>3, ProcessKeepsMail
<1>4. CASE \E c \in Child : Reconcile(c)
  BY <1>4, ReconcileKeepsMail
<1>5. QED
  BY <1>1, <1>2, <1>3, <1>4 DEF ChildNext

\* At first no child has finished.
LEMMA InitAnnounced == ChildInit => AnnouncedInv
  BY DEF ChildInit, AnnouncedInv, Announced, Finished

\* Every step keeps track of what is to be announced.
LEMMA StepKeepsAnnounced ==
  ASSUME ChildTypeOK, AnnouncedInv, [ChildNext]_childVars
  PROVE  AnnouncedInv'
<1>1. CASE serverPhase = "up" /\ (ControlNext \/ ExecutorNext \/ WaitNext)
  BY <1>1, ControlKeepsAnnounced, ExecutorKeepsAnnounced, WaitKeepsAnnounced
<1>2. CASE Crash \/ Recover \/ ServerUp \/ \E c \in Child : Reconcile(c)
  BY <1>2, CrashKeepsAnnounced, RecoverKeepsAnnounced, ServerUpKeepsAnnounced,
     ReconcileKeepsAnnounced
<1>3. CASE UNCHANGED childVars
  BY <1>3 DEF childVars, AnnouncedInv, Announced
<1>4. QED
  BY <1>1, <1>2, <1>3 DEF ChildNext

\* Every reachable state has the three.
LEMMA ChildInvariants == ChildSpec => [](BudgetInv /\ MailInv /\ AnnouncedInv)
<1>1. BudgetInv => ChildTypeOK
  BY DEF BudgetInv
<1>2. /\ BudgetInv /\ MailInv /\ AnnouncedInv /\ [ChildNext]_childVars
      => (BudgetInv /\ MailInv /\ AnnouncedInv)'
  BY <1>1, StepKeepsBudget, StepKeepsMail, StepKeepsAnnounced
<1>3. QED
  BY <1>2, InitBudget, InitMail, InitAnnounced, PTL DEF ChildSpec

\* The counters of a root's budget are what its children's rows say, whatever spawns, status
\* writes, cancellations, refused writes and restarts there are in whatever order, and never
\* exceed the limits.
THEOREM BudgetAlwaysExact == ChildSpec => []BudgetIsExact
<1>1. BudgetInv => BudgetIsExact
  BY DEF BudgetInv, Counts, Born, Counted, BudgetIsExact
<1>2. QED
  BY <1>1, ChildInvariants, PTL

\* Mail is run input before it is marked, once, and in the order of its sequence except where
\* a trigger passes mail that is queued; across any number of deliveries that are broken off,
\* begun again, interrupted or cut short by a restart.
THEOREM MailboxKeepsOrder == ChildSpec => []MailIsDeliveredInOrder
<1>1. MailInv => MailIsDeliveredInOrder
  BY DEF MailInv, Taken, Accepted, InOrder, MailIsDeliveredInOrder
<1>2. QED
  BY <1>1, ChildInvariants, PTL

\* A child that has completed, failed or stopped for an approval and has no task is announced
\* in its parent's mailbox, unless its last callback was the user's or threw; after a restart
\* every one is.
THEOREM FinishedChildrenAreAnnounced == ChildSpec => []FinishedChildIsAnnounced
<1>1. AnnouncedInv => FinishedChildIsAnnounced
  BY DEF AnnouncedInv, Announced, Finished, FinishedChildIsAnnounced
<1>2. QED
  BY <1>1, ChildInvariants, PTL
================================================================================
