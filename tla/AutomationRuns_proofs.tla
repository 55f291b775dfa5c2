------------------------- MODULE AutomationRuns_proofs -------------------------
(***************************************************************************)
(* Proofs about one run of an automation, for every graph, every set of    *)
(* tools that need an approval, and any number of users, handlers, jobs,   *)
(* repetitions, crashes, lost jobs and calls of the database that throw.   *)
(* Every write of the record is a compare-and-set on its status alone, of  *)
(* a state that was read earlier; the proofs follow what each of those     *)
(* older copies may still hold, and what the registry of background tasks  *)
(* keeps apart.                                                            *)
(***************************************************************************)
EXTENDS AutomationRuns, WellFoundedInduction, TLAPS

USE AutomationAssumption

\* What a copy of the record says about approvals: a user is asked about a tool that needs
\* it only, and what counts as approved was granted by a user.
Sound(v) ==
    /\ v.answer = "pending" => v.asked \in NeedsApproval
    /\ v.approved \subseteq granted

\* The record and every copy of it, however old.
CopiesAreSound ==
    /\ Sound(record)
    /\ \A h \in Handler : Sound(view[h])
    /\ \A u \in User : /\ Sound(answering[u].of)
                       /\ answering[u].at = "answer" => answering[u].of.answer = "pending"
    /\ Sound(cancelling.of)

\* A job that is ready has a delivery left; the bounds on faults are kept.
DeliveriesAreCounted ==
    /\ \A j \in Jobs : /\ job[j] = "absent" => deliveries[j] = 0
                       /\ job[j] = "ready" => deliveries[j] <= RetryLimit
    /\ crashes + timeouts <= MaxFaults

\* An executor that has neither thrown nor finished.
Walking == Executing \ {"returning"}

\* One executor at a time holds the registry's entry. Only it completes the run, the
\* orchestration run first, and no executor begins after that.
OneExecutor ==
    /\ \A g, h \in Handler : pc[g] \in Executing /\ pc[h] \in Executing => g = h
    /\ \A h \in Handler : pc[h] \in Executing => registry # "absent"
    /\ \A h \in Handler : pc[h] \in {"entered", "worked"} => current[h] \in Node
    /\ \A h \in Handler : pc[h] \in Walking => record.status # "completed"
    /\ \A h \in Handler : pc[h] = "starting" /\ registry = "absent"
                            => record.status # "completed"
    /\ \A h \in Handler : pc[h] = "completing" => orchestration = "completed"
    /\ record.status = "completed" => orchestration = "completed"

\* Where a handler holds a copy it may still write under the status it was read with.
Writing == {"starting", "interrupted", "begin", "opened", "step", "entered", "worked",
            "completing", "failed"}

\* No copy that may still be written was read from a run that had ended for good.
WritersReadOpenRuns ==
    /\ \A h \in Handler : pc[h] \in Writing
                            => view[h].status \notin {"completed", "cancelled"}
    /\ cancelling.at \in {"effects", "orchestration", "write"} => cancelling.of.status \notin Ended

AutomationInv ==
    /\ AutomationTypeOK
    /\ CopiesAreSound
    /\ DeliveriesAreCounted
    /\ OneExecutor
    /\ WritersReadOpenRuns
    /\ EffectsAreApproved

------------------------------------------------------------------------------------
(* The graph and the copies of the record. *)

\* A nonempty set of nodes has a first one.
LEMMA NodesHaveFirst ==
  ASSUME NEW S \in SUBSET Node, S # {}
  PROVE  \E n \in S : \A m \in S : n <= m
<1> DEFINE less == {ss \in Nat \X Nat : ss[1] < ss[2]}
<1>1. OpToRel(<, Nat) = less
  BY Zenon DEF OpToRel
<1>2. IsWellFoundedOn(less, Nat)
  BY <1>1, NatLessThanWellFounded, Zenon
<1> HIDE DEF less
<1>3. S \subseteq Nat
  BY DEF Node
<1>4. PICK n \in S : \A m \in S : ~(<<m, n>> \in less)
  BY ONLY <1>2, <1>3, S # {}, WFMin
<1>5. ASSUME NEW m \in S
      PROVE  n <= m
  <2>1. m \in Nat /\ n \in Nat
    BY <1>3
  <2>2. m < n => <<m, n>> \in less
    BY <2>1 DEF less
  <2>3. QED
    BY <1>4, <2>1, <2>2
<1>6. QED
  BY <1>5

\* The next node is one that may be run now, if there is one.
LEMMA NextNodeIsNode ==
  ASSUME NEW v
  PROVE  NextNode(v) # 0 => NextNode(v) \in Node
<1> DEFINE open == {n \in Node : Considered(v, n)}
<1>1. CASE open = {}
  BY <1>1 DEF NextNode
<1>2. CASE open # {}
  <2>1. \E n \in open : \A m \in open : n <= m
    BY <1>2, NodesHaveFirst
  <2>2. NextNode(v) \in open
    BY <1>2, <2>1 DEF NextNode
  <2>3. QED
    BY <2>2
<1>3. QED
  BY <1>1, <1>2

\* A record that is changed in one field is a record.
LEMMA RecordChanges ==
  ASSUME NEW v \in Record
  PROVE  /\ \A s \in RunStatus : [v EXCEPT !.status = s] \in Record
         /\ \A f \in [Node -> NodeStatus] : [v EXCEPT !.node = f] \in Record
         /\ \A n \in Node, s \in NodeStatus : [v EXCEPT !.node[n] = s] \in Record
         /\ \A n \in Node, p \in SUBSET Port : [v EXCEPT !.ports[n] = p] \in Record
         /\ \A n \in 0..N : [v EXCEPT !.asked = n] \in Record
         /\ \A a \in {"none", "pending", "approved"} : [v EXCEPT !.answer = a] \in Record
         /\ [v EXCEPT !.orchestrated = TRUE] \in Record
<1>1. \A s \in RunStatus : [v EXCEPT !.status = s] \in Record
  BY DEF Record
<1>2. \A f \in [Node -> NodeStatus] : [v EXCEPT !.node = f] \in Record
  BY DEF Record
<1>3. \A n \in Node, s \in NodeStatus : [v EXCEPT !.node[n] = s] \in Record
  BY DEF Record
<1>4. \A n \in Node, p \in SUBSET Port : [v EXCEPT !.ports[n] = p] \in Record
  BY DEF Record
<1>5. \A n \in 0..N : [v EXCEPT !.asked = n] \in Record
  BY DEF Record
<1>6. \A a \in {"none", "pending", "approved"} : [v EXCEPT !.answer = a] \in Record
  BY DEF Record
<1>7. [v EXCEPT !.orchestrated = TRUE] \in Record
  BY DEF Record
<1>8. QED
  BY <1>1, <1>2, <1>3, <1>4, <1>5, <1>6, <1>7

\* Neither a status nor the progress of the nodes is about approvals.
LEMMA ProgressIsSound ==
  ASSUME NEW v \in Record, Sound(v)
  PROVE  /\ \A s \in RunStatus : Sound([v EXCEPT !.status = s])
         /\ \A f \in [Node -> NodeStatus] : Sound([v EXCEPT !.node = f])
         /\ \A n \in Node, s \in NodeStatus : Sound([v EXCEPT !.node[n] = s])
         /\ Sound([v EXCEPT !.orchestrated = TRUE])
  BY DEF Sound, Record

\* The record of a run that was not created yet is a record.
LEMMA AbsentIsRecord == Absent \in Record /\ Sound(Absent)
  BY DEF Absent, Record, RunStatus, NodeStatus, Sound, Ended

------------------------------------------------------------------------------------
(* The steps, one by one. *)

\* A run that does not exist is in no copy.
LEMMA InitEstablishesInv == Init => AutomationInv
<1> SUFFICES ASSUME Init
             PROVE  AutomationInv
  OBVIOUS
<1> USE AbsentIsRecord DEF Init
<1>1. AutomationTypeOK
  BY DEF AutomationTypeOK, Idle, RunStatus
<1>2. CopiesAreSound
  BY DEF CopiesAreSound, Idle
<1>3. DeliveriesAreCounted /\ EffectsAreApproved
  BY DEF DeliveriesAreCounted, EffectsAreApproved
<1>4. OneExecutor /\ WritersReadOpenRuns
  BY DEF OneExecutor, WritersReadOpenRuns, Executing, Absent, Idle
<1>5. QED
  BY <1>1, <1>2, <1>3, <1>4 DEF AutomationInv

\* Where the executor is when it writes.
Persisting == {"interrupted", "opened", "step", "completing", "entered", "worked"}

\* A write of the executor, or its end when the status has moved. Nothing but the end of
\* the run is written as completed, and only after the orchestration run.
LEMMA PersistPreservesInv ==
  ASSUME AutomationInv, NEW h \in Handler, pc[h] \in Persisting,
         NEW v \in Record, Sound(v),
         NEW s \in RunStatus, s = "completed" => pc[h] = "completing",
         NEW next \in {"loop", "entered", "paused", "returning", "failing"},
         next = "entered" => /\ v.status = view[h].status
                             /\ NextNode(view[h]) \in Node,
         s = "completed" => next = "returning",
         Persist(h, v, s, next), UNCHANGED <<orchestration, historyVars>>
  PROVE  AutomationInv'
<1> USE DEF AutomationInv, Persist, Persisting, historyVars, queueVars, userVars, processVars
<1>1. /\ record' \in Record
      /\ record' # record => record' = [v EXCEPT !.status = s]
      /\ Sound(record') /\ Sound(record)
      /\ view' \in [Handler -> Record]
      /\ \A g \in Handler : g # h => view'[g] = view[g]
      /\ view'[h] = IF pc'[h] = "entered" THEN v ELSE Absent
      /\ current' \in [Handler -> 0..N]
      /\ \A g \in Handler : g # h => current'[g] = current[g]
      /\ pc'[h] = "entered" => current'[h] = NextNode(view[h])
  <2>1. record' = record \/ record' = [v EXCEPT !.status = s]
    BY DEF Writes, Moved
  <2>2. [v EXCEPT !.status = s] \in Record
    BY RecordChanges
  <2>3. Sound([v EXCEPT !.status = s])
    BY DEF Sound
  <2>4. record \in Record /\ Sound(record) /\ view \in [Handler -> Record]
    BY DEF AutomationTypeOK, CopiesAreSound
  <2>5. Sound(record') /\ Sound(record)
    BY <2>1, <2>3, <2>4
  <2>6. view' = [view EXCEPT ![h] = IF pc'[h] = "entered" THEN v ELSE Absent]
    OBVIOUS
  <2>7. /\ current' \in [Handler -> 0..N]
        /\ \A g \in Handler : g # h => current'[g] = current[g]
        /\ pc'[h] = "entered" => current'[h] = NextNode(view[h])
    <3>1. NextNode(view[h]) \in 0..N
      <4>1. NextNode(view[h]) # 0 => NextNode(view[h]) \in Node
        BY NextNodeIsNode
      <4>2. Node \subseteq 0..N /\ 0 \in 0..N
        BY DEF Node
      <4>3. QED
        BY <4>1, <4>2
    <3>2. current \in [Handler -> 0..N] /\ 0 \in 0..N
      BY DEF AutomationTypeOK
    <3>3. current' = [current EXCEPT ![h] = IF pc'[h] = "entered" THEN NextNode(view[h]) ELSE 0]
      OBVIOUS
    <3>4. QED
      BY <3>1, <3>2, <3>3
  <2>8. QED
    BY <2>1, <2>2, <2>4, <2>5, <2>6, <2>7, AbsentIsRecord
<1>2. /\ \A g \in Handler : g # h => pc'[g] = pc[g]
      /\ pc'[h] \in {"loop", "entered", "paused", "returning", "failing"}
      /\ pc'[h] = "entered" => next = "entered"
      /\ registry' # registry => registry' = "ended" /\ pc'[h] = "failing"
      /\ pc' \in [Handler -> {"idle", "loading", "starting", "failing", "failed"} \cup Executing]
      /\ registry' \in {"absent", "running", "ended"}
      /\ aborted' \in [Handler -> BOOLEAN]
  <2>1. CASE Throws(h)
    BY <2>1 DEF Throws, AutomationTypeOK, Executing
  <2>2. CASE Goes(h, next)
    BY <2>2 DEF Goes, AutomationTypeOK, Executing
  <2>3. QED
    BY <2>1, <2>2
<1>3. AutomationTypeOK'
  BY <1>1, <1>2 DEF AutomationTypeOK
<1>4. CopiesAreSound'
  BY <1>1, AbsentIsRecord DEF CopiesAreSound, Sound
<1>5. DeliveriesAreCounted' /\ EffectsAreApproved'
  BY DEF DeliveriesAreCounted, EffectsAreApproved
<1>6. \A g \in Handler : pc'[g] \in Executing => g = h
  BY <1>2 DEF OneExecutor, Executing
<1>7. record'.status = "completed" => orchestration' = "completed" /\ ~(pc'[h] \in Walking)
  BY <1>1, <1>2 DEF OneExecutor, Executing, Walking, Moved, Goes, Record
<1>8. \A g \in Handler : pc'[g] = "starting" /\ registry' = "absent" => record'.status # "completed"
  BY <1>2 DEF OneExecutor, Executing
<1>9. OneExecutor'
  BY <1>1, <1>2, <1>6, <1>7, <1>8 DEF OneExecutor, Executing, Walking
<1>10. WritersReadOpenRuns'
  BY <1>1, <1>2 DEF WritersReadOpenRuns, Writing
<1>11. QED
  BY <1>3, <1>4, <1>5, <1>9, <1>10

\* What an executor that may write holds: a record with sound approvals.
LEMMA ViewIsSound ==
  ASSUME AutomationInv, NEW h \in Handler
  PROVE  /\ view[h] \in Record /\ Sound(view[h])
         /\ view[h].node \in [Node -> NodeStatus]
  BY DEF AutomationInv, AutomationTypeOK, CopiesAreSound, Record

\* A node found running is failed, and the executor gives up.
LEMMA InterruptedPreservesInv ==
  ASSUME AutomationInv, NEW h \in Handler, Interrupted(h)
  PROVE  AutomationInv'
<1> DEFINE broken == [n \in Node |-> IF view[h].node[n] = "running" THEN "failed"
                                                                    ELSE view[h].node[n]]
           v == [view[h] EXCEPT !.node = broken]
<1>1. broken \in [Node -> NodeStatus]
  BY ViewIsSound DEF NodeStatus
<1> HIDE DEF broken
<1>2. v \in Record /\ Sound(v)
  BY <1>1, ViewIsSound, RecordChanges, ProgressIsSound
<1>3. /\ pc[h] = "interrupted"
      /\ Persist(h, v, "running", "failing")
      /\ UNCHANGED <<orchestration, historyVars>>
  BY DEF Interrupted, broken
<1> HIDE DEF v
<1>4. QED
  BY <1>2, <1>3, PersistPreservesInv DEF Persisting, RunStatus

\* The record of the run is marked as running.
LEMMA OpenPreservesInv ==
  ASSUME AutomationInv, NEW h \in Handler, Open(h)
  PROVE  AutomationInv'
<1>1. /\ pc[h] = "opened"
      /\ Persist(h, view[h], "running", "loop")
      /\ UNCHANGED <<orchestration, historyVars>>
  BY DEF Open
<1>2. QED
  BY <1>1, ViewIsSound, PersistPreservesInv DEF Persisting, RunStatus

\* The run is completed, its orchestration run already is.
LEMMA CompletePreservesInv ==
  ASSUME AutomationInv, NEW h \in Handler, Complete(h)
  PROVE  AutomationInv'
<1> DEFINE v == [view[h] EXCEPT !.asked = 0, !.answer = "none"]
<1>1. v \in Record
  <2>1. 0 \in 0..N
    OBVIOUS
  <2>2. QED
    BY <2>1, ViewIsSound DEF Record
<1>2. Sound(v)
  BY ViewIsSound DEF Sound
<1>3. /\ pc[h] = "completing"
      /\ Persist(h, v, "completed", "returning")
      /\ UNCHANGED <<orchestration, historyVars>>
  BY DEF Complete
<1> HIDE DEF v
<1>4. QED
  BY <1>1, <1>2, <1>3, PersistPreservesInv DEF Persisting, RunStatus, Ended

\* A node that is not selected is skipped.
LEMMA SkipPreservesInv ==
  ASSUME AutomationInv, NEW h \in Handler, Skip(h)
  PROVE  AutomationInv'
<1> DEFINE n == NextNode(view[h])
           v == [view[h] EXCEPT !.node[n] = "skipped"]
<1>1. n \in Node
  BY NextNodeIsNode DEF Skip
<1>2. /\ pc[h] = "step"
      /\ Persist(h, v, "running", "loop")
      /\ UNCHANGED <<orchestration, historyVars>>
  BY DEF Skip
<1> HIDE DEF n
<1>3. v \in Record /\ Sound(v)
  BY <1>1, ViewIsSound, RecordChanges, ProgressIsSound DEF NodeStatus
<1> HIDE DEF v
<1>4. QED
  BY <1>2, <1>3, PersistPreservesInv DEF Persisting, RunStatus

\* A node is recorded as running under the status that was read.
LEMMA EnterPreservesInv ==
  ASSUME AutomationInv, NEW h \in Handler, Enter(h)
  PROVE  AutomationInv'
<1> DEFINE n == NextNode(view[h])
           v == [view[h] EXCEPT !.node[n] = "running"]
<1>1. n \in Node
  BY NextNodeIsNode DEF Enter
<1>2. /\ pc[h] = "step"
      /\ Persist(h, v, "running", "entered")
      /\ UNCHANGED <<orchestration, historyVars>>
  BY DEF Enter
<1> HIDE DEF n
<1>3. v \in Record /\ Sound(v)
  BY <1>1, ViewIsSound, RecordChanges, ProgressIsSound DEF NodeStatus
<1>4. v.status = view[h].status /\ NextNode(view[h]) \in Node
  BY <1>1, ViewIsSound DEF n
<1> HIDE DEF v
<1>5. QED
  BY <1>2, <1>3, <1>4, PersistPreservesInv DEF Persisting, RunStatus

\* The run pauses at a tool that needs an approval.
LEMMA AskPreservesInv ==
  ASSUME AutomationInv, NEW h \in Handler, Ask(h)
  PROVE  AutomationInv'
<1> DEFINE n == current[h]
           v == [view[h] EXCEPT !.node[n] = "waiting_approval", !.asked = n,
                                !.answer = "pending"]
<1>1. n \in NeedsApproval
  BY DEF Ask, MayWork
<1>2. /\ pc[h] = "entered"
      /\ Persist(h, v, "waiting_approval", "paused")
      /\ UNCHANGED <<orchestration, historyVars>>
  BY DEF Ask
<1> HIDE DEF n
<1>3. v \in Record
  <2>1. n \in Node /\ n \in 0..N
    BY <1>1 DEF Node
  <2>2. QED
    BY <2>1, ViewIsSound DEF Record, NodeStatus
<1>4. Sound(v)
  BY <1>1, ViewIsSound DEF Sound
<1> HIDE DEF v
<1>5. QED
  BY <1>2, <1>3, <1>4, PersistPreservesInv DEF Persisting, RunStatus

\* What the node has done is recorded.
LEMMA RecordNodePreservesInv ==
  ASSUME AutomationInv, NEW h \in Handler, RecordNode(h)
  PROVE  AutomationInv'
<1>1. /\ pc[h] = "worked"
      /\ \/ Persist(h, view[h], "failed", "failing")
         \/ Persist(h, view[h], "running", "loop")
      /\ UNCHANGED <<orchestration, historyVars>>
  BY DEF RecordNode
<1>2. QED
  BY <1>1, ViewIsSound, PersistPreservesInv DEF Persisting, RunStatus, Ended

\* What is lost is a dispatch, and errors are counted.
LEMMA LossTypes ==
  ASSUME AutomationTypeOK, record' \in Record, LosesRun
  PROVE  lost' \subseteq 0..MaxJobs
<1>1. record'.job \in 0..MaxJobs
  BY DEF Record
<1>2. QED
  BY <1>1 DEF LosesRun, AutomationTypeOK

LEMMA ErrorTypes ==
  ASSUME AutomationTypeOK, Throwing \/ UNCHANGED errors
  PROVE  errors' \in 0..MaxErrors
<1>1. CASE Throwing
  BY <1>1 DEF Throwing, AutomationTypeOK
<1>2. CASE UNCHANGED errors
  BY <1>2 DEF AutomationTypeOK
<1>3. QED
  BY <1>1, <1>2

\* The handler of a delivery leaves its place, and the job may be repeated.
LEMMA JobEndsTypes ==
  ASSUME AutomationTypeOK, record' \in Record, NEW h \in Handler, NEW outcome,
         JobEnds(h, outcome)
  PROVE  /\ job' \in [Jobs -> {"absent", "ready", "active"} \cup JobEnded]
         /\ pc' \in [Handler -> {"idle", "loading", "starting", "failing", "failed"}
                                  \cup Executing]
         /\ handled' \in [Handler -> 0..MaxJobs]
         /\ view' \in [Handler -> Record]
         /\ deliveries' = deliveries
         /\ lost' \subseteq 0..MaxJobs /\ errors' \in 0..MaxErrors
         /\ pc'[h] = "idle" /\ view'[h] = Absent
         /\ \A g \in Handler : g # h => pc'[g] = pc[g] /\ view'[g] = view[g]
         /\ \A j \in Jobs : /\ job'[j] = "absent" => job[j] = "absent"
                            /\ job'[j] = "ready" /\ job[j] # "ready"
                                 => deliveries[j] <= RetryLimit
<1> USE DEF JobEnds, AutomationTypeOK
<1>1. \A j \in Jobs : Repeated(j) \in {"ready", "failed"}
  BY DEF Repeated
<1>2. job' \in [Jobs -> {"absent", "ready", "active"} \cup JobEnded]
  <2>1. \A j \in Jobs : job'[j] \in {job[j], "completed", "ready", "failed"}
    BY <1>1
  <2>2. \A j \in Jobs : job'[j] \in {"absent", "ready", "active"} \cup JobEnded
    BY <2>1 DEF JobEnded
  <2>3. job' = [j \in Jobs |-> job'[j]]
    OBVIOUS
  <2>4. HIDE DEF JobEnds, AutomationTypeOK
  <2>5. QED
    BY <2>2, <2>3
<1>3. 0 \in 0..MaxJobs
  OBVIOUS
<1>4. /\ pc' \in [Handler -> {"idle", "loading", "starting", "failing", "failed"}
                             \cup Executing]
      /\ handled' \in [Handler -> 0..MaxJobs]
      /\ view' \in [Handler -> Record]
      /\ deliveries' = deliveries
      /\ pc'[h] = "idle" /\ view'[h] = Absent
      /\ \A g \in Handler : g # h => pc'[g] = pc[g] /\ view'[g] = view[g]
  BY <1>3, AbsentIsRecord
<1>5. \A j \in Jobs : /\ job'[j] = "absent" => job[j] = "absent"
                      /\ job'[j] = "ready" /\ job[j] # "ready"
                           => deliveries[j] <= RetryLimit
  BY DEF Repeated
<1>6. lost' \subseteq 0..MaxJobs
  <2>1. LosesRun \/ lost' = lost
    OBVIOUS
  <2>2. QED
    BY <2>1, LossTypes
<1>7. errors' \in 0..MaxErrors
  <2>1. Throwing \/ UNCHANGED errors
    OBVIOUS
  <2>2. QED
    BY <2>1, ErrorTypes
<1>8. QED
  BY <1>2, <1>4, <1>5, <1>6, <1>7

\* A record that is marked as failed says the same about approvals.
LEMMA FailedIsRecord ==
  ASSUME NEW v \in Record, Sound(v)
  PROVE  /\ [v EXCEPT !.status = "failed"] \in Record
         /\ Sound([v EXCEPT !.status = "failed"])
         /\ [v EXCEPT !.status = "failed"].status = "failed"
<1>1. "failed" \in RunStatus
  BY DEF RunStatus, Ended
<1>2. [v EXCEPT !.status = "failed"].status = "failed"
  OBVIOUS
<1>3. QED
  BY <1>1, <1>2, RecordChanges, ProgressIsSound

\* A job is enqueued at most once, and only a queued run is failed for want of one.
LEMMA DispatchTypes ==
  ASSUME AutomationInv, NEW j \in 0..MaxJobs, Dispatch(j)
  PROVE  /\ job' \in [Jobs -> {"absent", "ready", "active"} \cup JobEnded]
         /\ \A i \in Jobs : /\ job'[i] = "absent" => job[i] = "absent"
                            /\ job'[i] = "ready" => job[i] \in {"absent", "ready"}
         /\ record' \in Record
         /\ Sound(record')
         /\ lost' \subseteq 0..MaxJobs /\ errors' \in 0..MaxErrors
         /\ record' # record => record.status = "queued" /\ record'.status = "failed"
<1> DEFINE failed == [record EXCEPT !.status = "failed"]
<1>1. record \in Record /\ Sound(record)
  BY DEF AutomationInv, AutomationTypeOK, CopiesAreSound
<1>2. failed \in Record /\ Sound(failed) /\ failed.status = "failed"
  BY <1>1, FailedIsRecord
<1>3. record' # record => record.status = "queued" /\ record' = failed
  BY DEF Dispatch
<1>4. job' \in {job, [job EXCEPT ![j] = IF @ = "absent" THEN "ready" ELSE @]}
  BY DEF Dispatch
<1>5. /\ job' \in [Jobs -> {"absent", "ready", "active"} \cup JobEnded]
      /\ \A i \in Jobs : /\ job'[i] = "absent" => job[i] = "absent"
                         /\ job'[i] = "ready" => job[i] \in {"absent", "ready"}
  BY <1>4 DEF AutomationInv, AutomationTypeOK
<1>6. record' \in Record
  BY <1>1, <1>2, <1>3
<1>7. lost' \subseteq 0..MaxJobs
  <2>1. LosesRun \/ lost' = lost
    BY DEF Dispatch
  <2>2. QED
    BY <1>6, <2>1, LossTypes DEF AutomationInv, AutomationTypeOK
<1>8. errors' \in 0..MaxErrors
  <2>1. Throwing \/ UNCHANGED errors
    BY DEF Dispatch
  <2>2. QED
    BY <2>1, ErrorTypes DEF AutomationInv
<1>9. QED
  BY <1>1, <1>2, <1>3, <1>5, <1>7, <1>8

\* What an answer leaves of the record: approved is what was, and the node in question.
LEMMA AnswersAreRecords ==
  ASSUME NEW v \in Record, v.asked \in NeedsApproval
  PROVE  /\ Approved(v) \in Record /\ Rejected(v) \in Record
         /\ Approved(v).job = v.job /\ Rejected(v).job = v.job
         /\ Approved(v).answer = "approved" /\ Rejected(v).answer = "none"
         /\ Approved(v).approved = v.approved \cup {v.asked}
         /\ Rejected(v).approved = v.approved
<1>1. /\ v.asked \in Node /\ 0 \in 0..N
      /\ "pending" \in NodeStatus /\ "failed" \in NodeStatus /\ {"error"} \in SUBSET Port
  BY DEF NodeStatus, Port
<1>2. Approved(v) \in Record
  BY <1>1 DEF Record, Approved
<1>3. Rejected(v) \in Record
  BY <1>1 DEF Record, Rejected
<1>4. QED
  BY <1>2, <1>3 DEF Approved, Rejected

\* A record is queued again under the id of a new job.
LEMMA RequeuedIsRecord ==
  ASSUME NEW v \in Record, NEW j \in Unused
  PROVE  /\ Requeued(v, j) \in Record
         /\ Requeued(v, j).status = "queued" /\ Requeued(v, j).answer = v.answer
         /\ Requeued(v, j).approved = v.approved
<1>1. j \in 0..MaxJobs /\ "queued" \in RunStatus
  BY DEF Unused, Jobs, RunStatus
<1>2. Requeued(v, j) \in Record
  BY <1>1 DEF Record, Requeued
<1>3. QED
  BY <1>2 DEF Requeued

\* A ready job has a delivery left.
LEMMA DeliverPreservesInv ==
  ASSUME AutomationInv, NEW h \in Handler, NEW j \in Jobs, Deliver(h, j)
  PROVE  AutomationInv'
<1> USE DEF AutomationInv, Deliver
<1>1. AutomationTypeOK'
  <2>1. deliveries' \in [Jobs -> 0..RetryLimit + 1]
    <3>1. deliveries[j] \in 0..RetryLimit
      BY DEF AutomationTypeOK, DeliveriesAreCounted
    <3>2. deliveries[j] + 1 \in 0..RetryLimit + 1
      BY <3>1
    <3>3. QED
      BY <3>2 DEF AutomationTypeOK
  <2>2. job' \in [Jobs -> {"absent", "ready", "active"} \cup JobEnded]
    BY DEF AutomationTypeOK
  <2>3. handled' \in [Handler -> 0..MaxJobs]
    BY DEF AutomationTypeOK, Jobs
  <2>4. QED
    BY <2>1, <2>2, <2>3 DEF AutomationTypeOK, userVars, processVars, historyVars
<1>2. CopiesAreSound'
  BY DEF CopiesAreSound, Sound, userVars, historyVars
<1>3. DeliveriesAreCounted'
  BY DEF DeliveriesAreCounted, AutomationTypeOK, processVars
<1>4. EffectsAreApproved'
  BY DEF EffectsAreApproved, historyVars
<1>5. OneExecutor'
  BY DEF OneExecutor, Executing, Walking
<1>6. WritersReadOpenRuns'
  BY DEF WritersReadOpenRuns, Writing, userVars
<1>7. QED
  BY <1>1, <1>2, <1>3, <1>4, <1>5, <1>6

\* A job taken from its handler is repeated while it has deliveries left.
LEMMA TimesOutPreservesInv ==
  ASSUME AutomationInv, NEW j \in Jobs, TimesOut(j)
  PROVE  AutomationInv'
<1> USE DEF AutomationInv, TimesOut
<1>1. AutomationTypeOK'
  BY DEF AutomationTypeOK, JobEnded, Repeated, userVars, historyVars
<1>2. CopiesAreSound'
  BY DEF CopiesAreSound, Sound, userVars, historyVars
<1>3. DeliveriesAreCounted'
  BY DEF DeliveriesAreCounted, AutomationTypeOK, Repeated
<1>4. EffectsAreApproved'
  BY DEF EffectsAreApproved, historyVars
<1>5. OneExecutor'
  BY DEF OneExecutor
<1>6. WritersReadOpenRuns'
  BY DEF WritersReadOpenRuns, userVars
<1>7. QED
  BY <1>1, <1>2, <1>3, <1>4, <1>5, <1>6

\* A job of a dead process is repeated while it has deliveries left.
LEMMA TimesOutUnhandledPreservesInv ==
  ASSUME AutomationInv, NEW j \in Jobs, TimesOutUnhandled(j)
  PROVE  AutomationInv'
<1> USE DEF AutomationInv, TimesOutUnhandled
<1>1. AutomationTypeOK'
  <2>1. lost' \subseteq 0..MaxJobs
    BY LossTypes DEF AutomationTypeOK
  <2>2. QED
    BY <2>1 DEF AutomationTypeOK, JobEnded, Repeated, handlerVars, userVars, processVars,
            historyVars
<1>2. CopiesAreSound'
  BY DEF CopiesAreSound, Sound, handlerVars, userVars, historyVars
<1>3. DeliveriesAreCounted'
  BY DEF DeliveriesAreCounted, Repeated, processVars
<1>4. EffectsAreApproved'
  BY DEF EffectsAreApproved, historyVars
<1>5. OneExecutor'
  BY DEF OneExecutor, handlerVars
<1>6. WritersReadOpenRuns'
  BY DEF WritersReadOpenRuns, handlerVars, userVars
<1>7. QED
  BY <1>1, <1>2, <1>3, <1>4, <1>5, <1>6

\* An executor starts beside no other, and only on a run that is not completed.
LEMMA StartPreservesInv ==
  ASSUME AutomationInv, NEW h \in Handler, Start(h)
  PROVE  AutomationInv'
<1> USE DEF AutomationInv, Start
<1>1. AutomationTypeOK'
  BY DEF AutomationTypeOK, Executing, queueVars, userVars, processVars, historyVars
<1>2. CopiesAreSound'
  BY DEF CopiesAreSound, Sound, userVars, historyVars
<1>3. DeliveriesAreCounted'
  BY DEF DeliveriesAreCounted, queueVars, processVars
<1>4. EffectsAreApproved'
  BY DEF EffectsAreApproved, historyVars
<1>5. OneExecutor'
  BY DEF OneExecutor, StartsAlone
<1>6. WritersReadOpenRuns'
  BY DEF WritersReadOpenRuns, Writing, userVars
<1>7. QED
  BY <1>1, <1>2, <1>3, <1>4, <1>5, <1>6

\* A handler that is turned away forgets what it read.
LEMMA CannotStartPreservesInv ==
  ASSUME AutomationInv, NEW h \in Handler, CannotStart(h)
  PROVE  AutomationInv'
<1> USE DEF AutomationInv, CannotStart
<1>1. AutomationTypeOK'
  BY AbsentIsRecord DEF AutomationTypeOK, queueVars, userVars, processVars, historyVars
<1>2. CopiesAreSound'
  BY AbsentIsRecord DEF CopiesAreSound, Sound, userVars, historyVars
<1>3. DeliveriesAreCounted'
  BY DEF DeliveriesAreCounted, queueVars, processVars
<1>4. EffectsAreApproved'
  BY DEF EffectsAreApproved, historyVars
<1>5. OneExecutor'
  BY DEF OneExecutor, Executing, Walking
<1>6. WritersReadOpenRuns'
  BY DEF WritersReadOpenRuns, Writing, AutomationTypeOK, userVars
<1>7. QED
  BY <1>1, <1>2, <1>3, <1>4, <1>5, <1>6

\* The orchestration run runs again; the run is not completed.
LEMMA BeginPreservesInv ==
  ASSUME AutomationInv, NEW h \in Handler, Begin(h)
  PROVE  AutomationInv'
<1> USE DEF AutomationInv, Begin
<1>1. AutomationTypeOK'
  <2>1. view' \in [Handler -> Record]
    BY ViewIsSound, RecordChanges DEF AutomationTypeOK
  <2>2. orchestration' \in RunStatus \cup {"interrupted"}
    BY DEF AutomationTypeOK, RunStatus
  <2>3. pc' \in [Handler -> {"idle", "loading", "starting", "failing", "failed"} \cup Executing]
    BY DEF AutomationTypeOK, Executing
  <2>4. QED
    BY <2>1, <2>2, <2>3 DEF AutomationTypeOK, queueVars, userVars, processVars, historyVars
<1>2. CopiesAreSound'
  BY DEF CopiesAreSound, Sound, userVars, historyVars
<1>3. DeliveriesAreCounted'
  BY DEF DeliveriesAreCounted, queueVars, processVars
<1>4. EffectsAreApproved'
  BY DEF EffectsAreApproved, historyVars
<1>5. OneExecutor'
  BY DEF OneExecutor, Executing, Walking
<1>6. WritersReadOpenRuns'
  BY DEF WritersReadOpenRuns, Writing, userVars
<1>7. QED
  BY <1>1, <1>2, <1>3, <1>4, <1>5, <1>6

\* The executor reads a run that is neither cancelled nor completed.
LEMMA LoopPreservesInv ==
  ASSUME AutomationInv, NEW h \in Handler, Loop(h)
  PROVE  AutomationInv'
<1> USE DEF AutomationInv, Loop
<1>1. AutomationTypeOK'
  <2>1. view' \in [Handler -> Record]
    BY DEF AutomationTypeOK
  <2>2. orchestration' \in RunStatus \cup {"interrupted"}
    BY DEF AutomationTypeOK, RunStatus, Ended, CancelOrchestration
  <2>3. pc' \in [Handler -> {"idle", "loading", "starting", "failing", "failed"} \cup Executing]
    BY DEF AutomationTypeOK, Executing, Throws, Goes
  <2>4. /\ aborted' \in [Handler -> BOOLEAN]
        /\ registry' \in {"absent", "running", "ended"}
    BY DEF AutomationTypeOK, Throws, Goes
  <2>5. QED
    BY <2>1, <2>2, <2>3, <2>4
       DEF AutomationTypeOK, queueVars, userVars, processVars, historyVars
<1>2. CopiesAreSound'
  BY DEF CopiesAreSound, Sound, AutomationTypeOK, userVars, historyVars
<1>3. DeliveriesAreCounted'
  BY DEF DeliveriesAreCounted, queueVars, processVars
<1>4. EffectsAreApproved'
  BY DEF EffectsAreApproved, historyVars
<1>5. OneExecutor'
  BY DEF OneExecutor, Executing, Walking, AutomationTypeOK, CancelOrchestration, Throws, Goes,
         queueVars
<1>6. WritersReadOpenRuns'
  <2>1. record.status # "completed"
    BY DEF OneExecutor, Executing, Walking
  <2>2. QED
    BY <2>1
       DEF WritersReadOpenRuns, Writing, AutomationTypeOK, CancelOrchestration, Throws, Goes,
           userVars
<1>7. QED
  BY <1>1, <1>2, <1>3, <1>4, <1>5, <1>6

\* The orchestration run is completed first.
LEMMA ConcludePreservesInv ==
  ASSUME AutomationInv, NEW h \in Handler, Conclude(h)
  PROVE  AutomationInv'
<1> USE DEF AutomationInv, Conclude
<1>1. AutomationTypeOK'
  <2>1. view' \in [Handler -> Record]
    BY AbsentIsRecord DEF AutomationTypeOK
  <2>2. orchestration' \in RunStatus \cup {"interrupted"}
    BY DEF AutomationTypeOK, RunStatus, Ended
  <2>3. pc' \in [Handler -> {"idle", "loading", "starting", "failing", "failed"} \cup Executing]
    BY DEF AutomationTypeOK, Executing, Throws, Goes
  <2>4. /\ aborted' \in [Handler -> BOOLEAN]
        /\ registry' \in {"absent", "running", "ended"}
    BY DEF AutomationTypeOK, Throws, Goes
  <2>5. QED
    BY <2>1, <2>2, <2>3, <2>4
       DEF AutomationTypeOK, queueVars, userVars, processVars, historyVars
<1>2. CopiesAreSound'
  BY AbsentIsRecord DEF CopiesAreSound, Sound, AutomationTypeOK, userVars, historyVars
<1>3. DeliveriesAreCounted'
  BY DEF DeliveriesAreCounted, queueVars, processVars
<1>4. EffectsAreApproved'
  BY DEF EffectsAreApproved, historyVars
<1>5. OneExecutor'
  BY DEF OneExecutor, Executing, Walking, AutomationTypeOK, Throws, Goes
<1>6. WritersReadOpenRuns'
  BY DEF WritersReadOpenRuns, Writing, AutomationTypeOK, Throws, Goes, userVars
<1>7. QED
  BY <1>1, <1>2, <1>3, <1>4, <1>5, <1>6

\* An executor that is aborted or meets an error throws.
LEMMA BreaksPreservesInv ==
  ASSUME AutomationInv, NEW h \in Handler, Breaks(h)
  PROVE  AutomationInv'
<1> USE DEF AutomationInv, Breaks
<1>1. AutomationTypeOK'
  <2>1. errors' \in 0..MaxErrors
    <3>1. Throwing \/ UNCHANGED errors
      OBVIOUS
    <3>2. QED
      BY <3>1, ErrorTypes
  <2>2. /\ UNCHANGED <<record, orchestration, job, deliveries, lost, handled>>
        /\ UNCHANGED <<userVars, processVars, historyVars>>
        /\ view' = [view EXCEPT ![h] = Absent] /\ current' = [current EXCEPT ![h] = 0]
        /\ Throws(h)
    OBVIOUS
  <2>3. HIDE DEF Breaks
  <2>4. QED
    BY <2>1, <2>2, AbsentIsRecord
       DEF AutomationTypeOK, Throws, userVars, processVars, historyVars
<1>2. CopiesAreSound'
  BY AbsentIsRecord DEF CopiesAreSound, Sound, userVars, historyVars
<1>3. DeliveriesAreCounted'
  BY DEF DeliveriesAreCounted, processVars
<1>4. EffectsAreApproved'
  BY DEF EffectsAreApproved, historyVars
<1>5. OneExecutor'
  BY DEF OneExecutor, Executing, Walking, Throws, AutomationTypeOK
<1>6. WritersReadOpenRuns'
  BY DEF WritersReadOpenRuns, Writing, AutomationTypeOK, Throws, userVars
<1>7. QED
  BY <1>1, <1>2, <1>3, <1>4, <1>5, <1>6

\* The orchestration run waits; the run is not completed.
LEMMA PausedPreservesInv ==
  ASSUME AutomationInv, NEW h \in Handler, Paused(h)
  PROVE  AutomationInv'
<1> USE DEF AutomationInv, Paused
<1>1. AutomationTypeOK'
  BY DEF AutomationTypeOK, Executing, RunStatus, queueVars, userVars, processVars, historyVars
<1>2. CopiesAreSound'
  BY DEF CopiesAreSound, Sound, userVars, historyVars
<1>3. DeliveriesAreCounted'
  BY DEF DeliveriesAreCounted, queueVars, processVars
<1>4. EffectsAreApproved'
  BY DEF EffectsAreApproved, historyVars
<1>5. OneExecutor'
  BY DEF OneExecutor, Executing, Walking
<1>6. WritersReadOpenRuns'
  BY DEF WritersReadOpenRuns, Writing, userVars
<1>7. QED
  BY <1>1, <1>2, <1>3, <1>4, <1>5, <1>6

\* A tool acts when it needs no approval or has one that a user granted.
LEMMA WorkPreservesInv ==
  ASSUME AutomationInv, NEW h \in Handler, Work(h)
  PROVE  AutomationInv'
<1> USE DEF AutomationInv, Work
<1> DEFINE n == current[h]
<1>1. n \in Node /\ (n \in NeedsApproval => n \in granted)
  <2>1. n \in Node
    BY DEF OneExecutor
  <2>2. view[h].approved \subseteq granted
    BY DEF CopiesAreSound, Sound
  <2>3. QED
    BY <2>1, <2>2 DEF MayWork
<1>2. PICK result \in {"completed", "failed"}, acts \in BOOLEAN :
        /\ effects' = IF acts THEN [effects EXCEPT ![n] = @ + 1] ELSE effects
        /\ view' = [view EXCEPT ![h] = Worked(view[h], n, result)]
  OBVIOUS
<1> HIDE DEF n
<1> DEFINE w == Worked(view[h], n, result)
<1>3. w \in Record /\ Sound(w) /\ w.status = view[h].status
  <2>1. view[h] \in Record /\ Sound(view[h])
    BY ViewIsSound
  <2>2. /\ result \in NodeStatus
        /\ 0 \in 0..N
        /\ {"success"} \in SUBSET Port /\ {"error"} \in SUBSET Port /\ {} \in SUBSET Port
    BY DEF NodeStatus, Port
  <2>3. w \in Record
    BY <1>1, <2>1, <2>2 DEF Record, Worked
  <2>4. Sound(w)
    BY <2>1 DEF Sound, Worked
  <2>5. w.status = view[h].status
    BY <2>1 DEF Worked
  <2>6. QED
    BY <2>3, <2>4, <2>5
<1> HIDE DEF w
<1>4. view' = [view EXCEPT ![h] = w]
  BY <1>2 DEF w
<1>5. AutomationTypeOK'
  <2>1. effects' \in [Node -> Nat]
    <3>1. effects \in [Node -> Nat]
      BY DEF AutomationTypeOK
    <3>2. CASE acts
      BY <1>1, <1>2, <3>1, <3>2
    <3>3. CASE ~acts
      BY <1>2, <3>1, <3>3
    <3>4. QED
      BY <3>2, <3>3
  <2>2. view' \in [Handler -> Record]
    BY <1>3, <1>4 DEF AutomationTypeOK
  <2>3. pc' \in [Handler -> {"idle", "loading", "starting", "failing", "failed"} \cup Executing]
    BY DEF AutomationTypeOK, Executing
  <2>4. QED
    BY <2>1, <2>2, <2>3 DEF AutomationTypeOK, queueVars, userVars, processVars
<1>6. CopiesAreSound'
  BY <1>3, <1>4 DEF CopiesAreSound, Sound, userVars
<1>7. DeliveriesAreCounted'
  BY DEF DeliveriesAreCounted, queueVars, processVars
<1>8. EffectsAreApproved'
  BY <1>1, <1>2 DEF EffectsAreApproved
<1>9. OneExecutor'
  BY DEF OneExecutor, Walking, AutomationTypeOK
<1>10. WritersReadOpenRuns'
  BY <1>3, <1>4 DEF WritersReadOpenRuns, Writing, userVars
<1>11. QED
  BY <1>5, <1>6, <1>7, <1>8, <1>9, <1>10

\* A delivery reads the run, and goes on only with one that is queued or running.
LEMMA LoadPreservesInv ==
  ASSUME AutomationInv, NEW h \in Handler, Load(h)
  PROVE  AutomationInv'
<1> USE DEF AutomationInv, Load
<1>1. \/ /\ record' = record
         /\ \E outcome \in {"ok", "late", "error", "thrown"} : JobEnds(h, outcome)
      \/ /\ record'.status = "queued" /\ record' \in Record /\ Sound(record')
         /\ JobEnds(h, "thrown")
      \/ /\ record'.status = "queued" /\ record' \in Record /\ Sound(record')
         /\ view' = [view EXCEPT ![h] = record'] /\ pc' = [pc EXCEPT ![h] = "starting"]
         /\ UNCHANGED <<job, deliveries, lost, errors, handled>>
      \/ /\ record' = record /\ record.status \in {"queued", "running"}
         /\ view' = [view EXCEPT ![h] = record] /\ pc' = [pc EXCEPT ![h] = "starting"]
         /\ UNCHANGED <<job, deliveries, lost, errors, handled>>
  <2>1. CASE record.status = "absent" /\ Create(h)
    <3>1. 1 \in 0..MaxJobs /\ "queued" \in RunStatus
      BY DEF RunStatus
    <3>2. record' = [Absent EXCEPT !.status = "queued", !.job = 1]
      BY <2>1 DEF Create
    <3>3. record' \in Record /\ record'.status = "queued"
      BY <3>1, <3>2, AbsentIsRecord DEF Record
    <3>4. Sound(record')
      BY <3>2, AbsentIsRecord DEF Sound
    <3>5. QED
      BY <2>1, <3>3, <3>4 DEF Create, queueVars
  <2>2. CASE record.status \in {"queued", "running"} /\ Take(h)
    BY <2>2 DEF Take, queueVars
  <2>3. CASE /\ record' = record
             /\ \/ JobEnds(h, "ok") \/ JobEnds(h, "late")
                \/ JobEnds(h, "error") \/ JobEnds(h, "thrown")
    BY <2>3
  <2>4. QED
    BY <2>1, <2>2, <2>3
<1>2. record \in Record /\ Sound(record) /\ view \in [Handler -> Record]
  BY DEF AutomationTypeOK, CopiesAreSound
<1>10. record' \in Record /\ Sound(record')
  BY <1>1, <1>2
<1>11. /\ job' \in [Jobs -> {"absent", "ready", "active"} \cup JobEnded]
       /\ pc' \in [Handler -> {"idle", "loading", "starting", "failing", "failed"}
                                \cup Executing]
       /\ handled' \in [Handler -> 0..MaxJobs]
       /\ view' \in [Handler -> Record]
       /\ deliveries' = deliveries
       /\ lost' \subseteq 0..MaxJobs /\ errors' \in 0..MaxErrors
       /\ \A g \in Handler : g # h => pc'[g] = pc[g] /\ view'[g] = view[g]
       /\ \/ pc'[h] = "idle" /\ view'[h] = Absent
          \/ /\ pc'[h] = "starting" /\ view'[h] = record'
             /\ record'.status \in {"queued", "running"}
       /\ \A j \in Jobs : /\ job'[j] = "absent" => job[j] = "absent"
                          /\ job'[j] = "ready" /\ job[j] # "ready"
                               => deliveries[j] <= RetryLimit
  <2>1. CASE \E outcome \in {"ok", "late", "error", "thrown"} : JobEnds(h, outcome)
    <3>1. PICK outcome : JobEnds(h, outcome)
      BY <2>1
    <3>2. HIDE DEF Load
    <3>3. QED
      BY <1>10, <3>1, JobEndsTypes
  <2>2. CASE /\ record'.status \in {"queued", "running"}
             /\ view' = [view EXCEPT ![h] = record'] /\ pc' = [pc EXCEPT ![h] = "starting"]
             /\ UNCHANGED <<job, deliveries, lost, errors, handled>>
    <3>1. HIDE DEF Load
    <3>2. QED
      BY <1>10, <2>2 DEF AutomationTypeOK
  <2>3. QED
    BY <1>1, <2>1, <2>2
<1>3. AutomationTypeOK'
  <2>1. UNCHANGED <<orchestration, current, aborted, registry, userVars, processVars,
                    historyVars>>
    OBVIOUS
  <2>2. HIDE DEF Load
  <2>3. QED
    BY <1>10, <1>11, <2>1 DEF AutomationTypeOK, userVars, processVars, historyVars
<1>4. CopiesAreSound'
  BY <1>10, <1>11, AbsentIsRecord DEF CopiesAreSound, Sound, userVars, historyVars
<1>5. DeliveriesAreCounted'
  BY <1>11 DEF DeliveriesAreCounted, processVars
<1>6. EffectsAreApproved'
  BY DEF EffectsAreApproved, historyVars
<1>7. OneExecutor'
  <2>1. /\ \A g \in Handler : g # h => pc'[g] = pc[g] /\ view'[g] = view[g]
        /\ pc'[h] \in {"idle", "starting"}
    BY <1>11
  <2>2. /\ pc'[h] = "starting" => record'.status # "completed"
        /\ record'.status = "completed" => record.status = "completed"
    BY <1>1, <1>11
  <2>3. UNCHANGED <<orchestration, registry, current>>
    BY DEF processVars
  <2>4. HIDE DEF Load
  <2>5. QED
    BY <2>1, <2>2, <2>3 DEF OneExecutor, Executing, Walking
<1>8. WritersReadOpenRuns'
  BY <1>11 DEF WritersReadOpenRuns, Writing, AutomationTypeOK, userVars
<1>9. QED
  BY <1>3, <1>4, <1>5, <1>6, <1>7, <1>8

\* The executor leaves.
LEMMA ReturnPreservesInv ==
  ASSUME AutomationInv, NEW h \in Handler, Return(h)
  PROVE  AutomationInv'
<1> USE DEF AutomationInv, Return
<1>1. AutomationTypeOK'
  <2>1. aborted' \in [Handler -> BOOLEAN]
    BY DEF AutomationTypeOK
  <2>2. record' \in Record
    BY DEF AutomationTypeOK
  <2>3. QED
    BY <2>1, <2>2, JobEndsTypes DEF AutomationTypeOK, userVars, processVars, historyVars
<1>2. CopiesAreSound'
  BY AbsentIsRecord DEF CopiesAreSound, Sound, JobEnds, userVars, historyVars
<1>3. DeliveriesAreCounted'
  BY DEF DeliveriesAreCounted, JobEnds, processVars
<1>4. EffectsAreApproved'
  BY DEF EffectsAreApproved, historyVars
<1>5. OneExecutor'
  BY DEF OneExecutor, Executing, Walking, JobEnds
<1>6. WritersReadOpenRuns'
  BY DEF WritersReadOpenRuns, Writing, JobEnds, userVars
<1>7. QED
  BY <1>1, <1>2, <1>3, <1>4, <1>5, <1>6

\* A run that had ended for good is not failed.
LEMMA FailPreservesInv ==
  ASSUME AutomationInv, NEW h \in Handler, Fail(h)
  PROVE  AutomationInv'
<1> USE DEF AutomationInv, Fail
<1>1. AutomationTypeOK'
  <2>1. record' \in Record
    BY DEF AutomationTypeOK
  <2>2. CASE \/ JobEnds(h, "error") /\ UNCHANGED orchestration
             \/ JobEnds(h, "thrown") /\ UNCHANGED orchestration
    BY <2>1, <2>2, JobEndsTypes DEF AutomationTypeOK, userVars, processVars, historyVars
  <2>3. CASE /\ orchestration' \in {"failed", orchestration}
             /\ view' = [view EXCEPT ![h] = record]
             /\ pc' = [pc EXCEPT ![h] = "failed"]
             /\ UNCHANGED <<queueVars, handled>>
    BY <2>3 DEF AutomationTypeOK, RunStatus, Ended, queueVars, userVars, processVars,
                historyVars
  <2>4. QED
    BY <2>2, <2>3
<1>2. CopiesAreSound'
  BY AbsentIsRecord DEF CopiesAreSound, Sound, AutomationTypeOK, JobEnds, userVars, historyVars
<1>3. DeliveriesAreCounted'
  BY DEF DeliveriesAreCounted, AutomationTypeOK, JobEnds, Repeated, queueVars, processVars
<1>4. EffectsAreApproved'
  BY DEF EffectsAreApproved, historyVars
<1>5. OneExecutor'
  <2>1. /\ \A g \in Handler : g # h => pc'[g] = pc[g] /\ view'[g] = view[g]
        /\ pc'[h] \in {"idle", "failed"}
    BY DEF JobEnds, AutomationTypeOK
  <2>2. orchestration = "completed" => orchestration' = "completed"
    BY DEF Ended
  <2>3. UNCHANGED <<record, registry, current>>
    OBVIOUS
  <2>4. HIDE DEF Fail
  <2>5. QED
    BY <2>1, <2>2, <2>3 DEF OneExecutor, Executing, Walking
<1>6. WritersReadOpenRuns'
  BY DEF WritersReadOpenRuns, Writing, AutomationTypeOK, JobEnds, Fails, userVars
<1>7. QED
  BY <1>1, <1>2, <1>3, <1>4, <1>5, <1>6

\* The failure is written over the status it was read with.
LEMMA RecordFailurePreservesInv ==
  ASSUME AutomationInv, NEW h \in Handler, RecordFailure(h)
  PROVE  AutomationInv'
<1> USE DEF AutomationInv, RecordFailure
<1>1. /\ record' \in Record /\ Sound(record')
      /\ record' = record \/ record'.status = "failed"
  <2> DEFINE v == [view[h] EXCEPT !.status = "failed"]
  <2>1. view[h] \in Record /\ Sound(view[h]) /\ record \in Record /\ Sound(record)
    BY DEF AutomationTypeOK, CopiesAreSound
  <2>2. v \in Record /\ Sound(v) /\ v.status = "failed"
    BY <2>1, FailedIsRecord
  <2>3. QED
    BY <2>1, <2>2 DEF Writes, Moved
<1>2. AutomationTypeOK'
  <2>1. overwritten' \in Nat
    BY DEF CountsOverwritten, AutomationTypeOK
  <2>2. QED
    BY <1>1, <2>1, JobEndsTypes DEF AutomationTypeOK, userVars, processVars
<1>3. CopiesAreSound'
  BY <1>1, JobEndsTypes, AbsentIsRecord DEF CopiesAreSound, Sound, userVars
<1>4. DeliveriesAreCounted'
  <2>1. /\ deliveries' = deliveries
        /\ \A j \in Jobs : /\ job'[j] = "absent" => job[j] = "absent"
                           /\ job'[j] = "ready" /\ job[j] # "ready"
                                => deliveries[j] <= RetryLimit
    <3>1. PICK outcome : JobEnds(h, outcome)
      OBVIOUS
    <3>2. QED
      BY <1>1, <3>1, JobEndsTypes
  <2>2. QED
    BY <2>1 DEF DeliveriesAreCounted, processVars
<1>5. EffectsAreApproved'
  BY DEF EffectsAreApproved
<1>6. OneExecutor'
  BY <1>1, JobEndsTypes DEF OneExecutor, Executing, Walking
<1>7. WritersReadOpenRuns'
  BY DEF WritersReadOpenRuns, Writing, AutomationTypeOK, JobEnds, userVars
<1>8. QED
  BY <1>2, <1>3, <1>4, <1>5, <1>6, <1>7

\* No executor is at work without the registry's entry.
LEMMA ForgetPreservesInv ==
  ASSUME AutomationInv, Forget
  PROVE  AutomationInv'
<1> USE DEF AutomationInv, Forget
<1>1. AutomationTypeOK'
  BY DEF AutomationTypeOK, queueVars, handlerVars, userVars, processVars, historyVars
<1>2. CopiesAreSound'
  BY DEF CopiesAreSound, Sound, handlerVars, userVars, historyVars
<1>3. DeliveriesAreCounted'
  BY DEF DeliveriesAreCounted, queueVars, processVars
<1>4. EffectsAreApproved'
  BY DEF EffectsAreApproved, historyVars
<1>5. OneExecutor'
  BY DEF OneExecutor, handlerVars
<1>6. WritersReadOpenRuns'
  BY DEF WritersReadOpenRuns, handlerVars, userVars
<1>7. QED
  BY <1>1, <1>2, <1>3, <1>4, <1>5, <1>6

\* An answer waits for its dispatch, or nothing follows.
LEMMA QueuedTypes ==
  ASSUME AutomationTypeOK, record' \in Record, NEW u \in User, Queued(u)
  PROVE  /\ answering' \in [User -> [at : {"idle", "answer", "dispatch"}, of : Record]]
         /\ \A w \in User : w # u => answering'[w] = answering[w]
         /\ answering'[u] \in {Idle, [at |-> "dispatch", of |-> record']}
         /\ UNCHANGED <<job, deliveries>>
         /\ lost' \subseteq 0..MaxJobs /\ errors' \in 0..MaxErrors
<1>1. \/ answering' = [answering EXCEPT ![u] = [at |-> "dispatch", of |-> record']]
      \/ answering' = [answering EXCEPT ![u] = Idle]
  BY DEF Queued
<1>2. Idle \in [at : {"idle", "answer", "dispatch"}, of : Record]
  BY AbsentIsRecord DEF Idle
<1>3. LosesRun \/ lost' = lost
  BY DEF Queued, queueVars
<1>4. Throwing \/ UNCHANGED errors
  BY DEF Queued, queueVars
<1>5. UNCHANGED <<job, deliveries>>
  BY DEF Queued, queueVars
<1>6. lost' \subseteq 0..MaxJobs /\ errors' \in 0..MaxErrors
  BY <1>3, <1>4, LossTypes, ErrorTypes DEF AutomationTypeOK
<1>7. QED
  BY <1>1, <1>2, <1>5, <1>6 DEF AutomationTypeOK

\* A run begins as queued.
LEMMA StartAutomationPreservesInv ==
  ASSUME AutomationInv, NEW u \in User, StartAutomation(u)
  PROVE  AutomationInv'
<1> USE DEF AutomationInv, StartAutomation
<1>1. record' \in Record
  <2>1. 1 \in 0..MaxJobs /\ "queued" \in RunStatus
    BY DEF RunStatus
  <2>2. QED
    BY <2>1, AbsentIsRecord DEF Record
<1>2. /\ answering' \in [User -> [at : {"idle", "answer", "dispatch"}, of : Record]]
      /\ \A w \in User : w # u => answering'[w] = answering[w]
      /\ answering'[u] \in {Idle, [at |-> "dispatch", of |-> record']}
      /\ UNCHANGED <<job, deliveries>>
      /\ lost' \subseteq 0..MaxJobs /\ errors' \in 0..MaxErrors
  BY <1>1, QueuedTypes
<1>3. AutomationTypeOK'
  BY <1>1, <1>2 DEF AutomationTypeOK, handlerVars, processVars, historyVars
<1>4. CopiesAreSound'
  <2>1. Sound(record')
    BY AbsentIsRecord DEF Sound
  <2>2. \A w \in User :
            /\ Sound(answering'[w].of)
            /\ answering'[w].at = "answer" => answering'[w].of.answer = "pending"
    <3>1. ASSUME NEW w \in User, w # u
          PROVE  /\ Sound(answering'[w].of)
                 /\ answering'[w].at = "answer" => answering'[w].of.answer = "pending"
      <4>1. answering'[w] = answering[w]
        BY <1>2, <3>1
      <4>2. /\ answering[w].at = "answer" => answering[w].of.answer = "pending"
            /\ answering[w].of.answer = "pending" => answering[w].of.asked \in NeedsApproval
            /\ answering[w].of.approved \subseteq granted /\ granted' = granted
        BY DEF CopiesAreSound, Sound, historyVars
      <4>3. QED
        BY <4>1, <4>2 DEF Sound
    <3>2. /\ Sound(answering'[u].of)
          /\ answering'[u].at = "answer" => answering'[u].of.answer = "pending"
      <4>1. answering'[u].of \in {Absent, record'} /\ answering'[u].at # "answer"
        BY <1>2 DEF Idle
      <4>2. QED
        BY <2>1, <4>1, AbsentIsRecord
    <3>3. QED
      BY <3>1, <3>2
  <2>3. QED
    BY <2>1, <2>2 DEF CopiesAreSound, Sound, handlerVars, historyVars
<1>5. DeliveriesAreCounted'
  BY <1>2 DEF DeliveriesAreCounted, processVars
<1>6. EffectsAreApproved'
  BY DEF EffectsAreApproved, historyVars
<1>7. OneExecutor'
  BY DEF OneExecutor, handlerVars
<1>8. WritersReadOpenRuns'
  BY DEF WritersReadOpenRuns, handlerVars
<1>9. QED
  BY <1>3, <1>4, <1>5, <1>6, <1>7, <1>8

\* A user answers a question that is open when it is read.
LEMMA ReadApprovalPreservesInv ==
  ASSUME AutomationInv, NEW u \in User, ReadApproval(u)
  PROVE  AutomationInv'
<1> USE DEF AutomationInv, ReadApproval
<1>1. AutomationTypeOK'
  BY DEF AutomationTypeOK, queueVars, handlerVars, processVars, historyVars
<1>2. CopiesAreSound'
  BY DEF CopiesAreSound, Sound, handlerVars, historyVars
<1>3. DeliveriesAreCounted'
  BY DEF DeliveriesAreCounted, queueVars, processVars
<1>4. EffectsAreApproved'
  BY DEF EffectsAreApproved, historyVars
<1>5. OneExecutor'
  BY DEF OneExecutor, handlerVars
<1>6. WritersReadOpenRuns'
  BY DEF WritersReadOpenRuns, handlerVars
<1>7. QED
  BY <1>1, <1>2, <1>3, <1>4, <1>5, <1>6

\* An approval is granted as it is written.
LEMMA RespondPreservesInv ==
  ASSUME AutomationInv, NEW u \in User, Respond(u)
  PROVE  AutomationInv'
<1> USE DEF AutomationInv, Respond
<1> DEFINE v == answering[u].of
<1>1. /\ v \in Record /\ Sound(v) /\ v.answer = "pending" /\ v.asked \in NeedsApproval
      /\ v.asked \in Node
  BY DEF AutomationTypeOK, CopiesAreSound, Sound
<1>2. /\ record' \in Record
      /\ record' # record => record'.status \in {"queued", "failed"}
      /\ granted \subseteq granted' /\ granted' \subseteq NeedsApproval
      /\ record'.answer = "pending" => record'.asked \in NeedsApproval
      /\ record'.approved \subseteq granted'
      /\ answering' \in [User -> [at : {"idle", "answer", "dispatch"}, of : Record]]
      /\ \A w \in User : w # u => answering'[w] = answering[w]
      /\ answering'[u] \in {Idle, [at |-> "dispatch", of |-> record']}
      /\ UNCHANGED <<job, deliveries>>
      /\ lost' \subseteq 0..MaxJobs /\ errors' \in 0..MaxErrors
  <2>1. /\ record \in Record /\ Sound(record)
        /\ granted \subseteq NeedsApproval
        /\ lost \subseteq 0..MaxJobs /\ errors \in 0..MaxErrors
        /\ answering \in [User -> [at : {"idle", "answer", "dispatch"}, of : Record]]
    BY DEF AutomationTypeOK, CopiesAreSound
  <2>2. Idle \in [at : {"idle", "answer", "dispatch"}, of : Record]
    BY AbsentIsRecord DEF Idle
  <2> HIDE DEF v
  <2>3. CASE /\ \E j \in Unused : record' = Requeued(Approved(v), j)
             /\ granted' = granted \cup {v.asked}
             /\ Queued(u)
    <3>1. PICK j \in Unused : record' = Requeued(Approved(v), j)
      BY <2>3
    <3>2. /\ record' \in Record /\ record'.status = "queued" /\ record'.answer = "approved"
          /\ record'.approved = v.approved \cup {v.asked}
      <4>1. /\ Approved(v) \in Record
            /\ Approved(v).approved = v.approved \cup {v.asked}
            /\ Approved(v).answer = "approved"
        BY <1>1, AnswersAreRecords
      <4>2. QED
        BY <3>1, <4>1, RequeuedIsRecord
    <3>3. QED
      BY <1>1, <2>1, <2>3, <3>2, QueuedTypes DEF Sound
  <2>4. CASE /\ \E j \in Unused : record' = Requeued(Rejected(v), j)
             /\ granted' = granted
             /\ Queued(u)
    <3>1. PICK j \in Unused : record' = Requeued(Rejected(v), j)
      BY <2>4
    <3>2. /\ record' \in Record /\ record'.status = "queued" /\ record'.answer = "none"
          /\ record'.approved = v.approved
      <4>1. /\ Rejected(v) \in Record
            /\ Rejected(v).approved = v.approved
            /\ Rejected(v).answer = "none"
        BY <1>1, AnswersAreRecords
      <4>2. QED
        BY <3>1, <4>1, RequeuedIsRecord
    <3>3. QED
      BY <1>1, <2>1, <2>4, <3>2, QueuedTypes DEF Sound
  <2>5. CASE /\ record' = [v EXCEPT !.status = "failed", !.answer = "none",
                                    !.node[v.asked] = "failed"]
             /\ granted' = granted /\ UNCHANGED queueVars
             /\ answering' = [answering EXCEPT ![u] = Idle]
    <3>1. "failed" \in RunStatus /\ "failed" \in NodeStatus
      BY DEF RunStatus, NodeStatus, Ended
    <3>2. record' \in Record
      BY <1>1, <2>5, <3>1 DEF Record
    <3>3. /\ record'.status = "failed" /\ record'.answer = "none"
          /\ record'.approved = v.approved
      BY <1>1, <2>5
    <3>4. QED
      BY <1>1, <2>1, <2>2, <2>5, <3>2, <3>3 DEF Sound, queueVars
  <2>6. CASE /\ record' = record
             /\ granted' = granted /\ UNCHANGED queueVars
             /\ answering' = [answering EXCEPT ![u] = Idle]
    BY <2>1, <2>2, <2>6 DEF Sound, queueVars
  <2>7. QED
    BY <2>3, <2>4, <2>5, <2>6 DEF v, Writes, Moved
<1>3. AutomationTypeOK'
  <2>1. overwritten' \in Nat
    BY DEF CountsOverwritten, AutomationTypeOK
  <2> HIDE DEF Respond
  <2>2. UNCHANGED <<orchestration, handlerVars, registry, cancelling,
                    processVars, trigger, effects>>
    BY DEF Respond
  <2>3. QED
    BY <1>2, <2>1, <2>2 DEF AutomationTypeOK, handlerVars, processVars
<1>4. CopiesAreSound'
  BY <1>2, AbsentIsRecord DEF CopiesAreSound, Sound, Idle, handlerVars
<1>5. DeliveriesAreCounted'
  BY <1>2 DEF DeliveriesAreCounted, processVars
<1>6. EffectsAreApproved'
  BY <1>2 DEF EffectsAreApproved
<1>7. OneExecutor'
  BY <1>2 DEF OneExecutor, handlerVars
<1>8. WritersReadOpenRuns'
  BY DEF WritersReadOpenRuns, handlerVars
<1>9. QED
  BY <1>3, <1>4, <1>5, <1>6, <1>7, <1>8

\* The job of an answer is enqueued, or the queued run is failed.
LEMMA DispatchAnswerPreservesInv ==
  ASSUME AutomationInv, NEW u \in User, DispatchAnswer(u)
  PROVE  AutomationInv'
<1> USE DEF AutomationInv, DispatchAnswer
<1>1. /\ job' \in [Jobs -> {"absent", "ready", "active"} \cup JobEnded]
      /\ \A i \in Jobs : /\ job'[i] = "absent" => job[i] = "absent"
                         /\ job'[i] = "ready" => job[i] \in {"absent", "ready"}
      /\ record' \in Record
      /\ Sound(record')
      /\ lost' \subseteq 0..MaxJobs /\ errors' \in 0..MaxErrors
      /\ record' # record => record.status = "queued" /\ record'.status = "failed"
  <2>1. answering[u].of.job \in 0..MaxJobs
    BY DEF AutomationTypeOK, Record
  <2>2. QED
    BY <2>1, DispatchTypes
<1>2. AutomationTypeOK'
  BY <1>1, AbsentIsRecord DEF AutomationTypeOK, Idle, handlerVars, processVars, historyVars
<1>3. CopiesAreSound'
  BY <1>1, AbsentIsRecord DEF CopiesAreSound, Sound, Idle, handlerVars, historyVars
<1>4. DeliveriesAreCounted'
  BY <1>1 DEF DeliveriesAreCounted, processVars
<1>5. EffectsAreApproved'
  BY DEF EffectsAreApproved, historyVars
<1>6. OneExecutor'
  BY <1>1 DEF OneExecutor, handlerVars
<1>7. WritersReadOpenRuns'
  BY DEF WritersReadOpenRuns, handlerVars
<1>8. QED
  BY <1>2, <1>3, <1>4, <1>5, <1>6, <1>7

\* A cancellation reads a run that has not ended.
LEMMA ReadCancelPreservesInv ==
  ASSUME AutomationInv, ReadCancel
  PROVE  AutomationInv'
<1> USE DEF AutomationInv, ReadCancel
<1>1. AutomationTypeOK'
  BY DEF AutomationTypeOK, queueVars, handlerVars, processVars, historyVars
<1>2. CopiesAreSound'
  BY DEF CopiesAreSound, Sound, handlerVars, historyVars
<1>3. DeliveriesAreCounted'
  BY DEF DeliveriesAreCounted, queueVars, processVars
<1>4. EffectsAreApproved'
  BY DEF EffectsAreApproved, historyVars
<1>5. OneExecutor'
  BY DEF OneExecutor, handlerVars
<1>6. WritersReadOpenRuns'
  BY DEF WritersReadOpenRuns, handlerVars
<1>7. QED
  BY <1>1, <1>2, <1>3, <1>4, <1>5, <1>6

\* The orchestration run of a completed run is not cancelled.
LEMMA CancelEffectsPreservesInv ==
  ASSUME AutomationInv, CancelJob \/ CancelEffects
  PROVE  AutomationInv'
<1>1. /\ cancelling' \in {Spent, [cancelling EXCEPT !.at = "orchestration"],
                         [cancelling EXCEPT !.at = "write"]}
      /\ cancelling.at \in {"effects", "orchestration"}
      /\ LosesRun \/ lost' = lost
      /\ Throwing \/ UNCHANGED errors
      /\ \/ job' = job
         \/ \E j \in 0..MaxJobs :
              job' = [job EXCEPT ![j] = IF @ \in {"ready", "active"} THEN "cancelled" ELSE @]
      /\ \/ orchestration' = orchestration
         \/ orchestration \notin Ended /\ orchestration' = "cancelled"
      /\ UNCHANGED <<record, deliveries, handlerVars, registry, answering, processVars,
                     historyVars>>
  <2>1. CASE CancelJob
    <3>1. cancelling.of.job \in 0..MaxJobs
      BY DEF AutomationInv, AutomationTypeOK, Record
    <3>2. \/ job' = job
          \/ job' = [job EXCEPT ![cancelling.of.job] =
                        IF @ \in {"ready", "active"} THEN "cancelled" ELSE @]
      BY <2>1 DEF CancelJob
    <3>3. \/ job' = job
          \/ \E j \in 0..MaxJobs :
               job' = [job EXCEPT ![j] = IF @ \in {"ready", "active"} THEN "cancelled" ELSE @]
      BY <3>1, <3>2
    <3>4. /\ cancelling' \in {Spent, [cancelling EXCEPT !.at = "orchestration"]}
          /\ cancelling.at = "effects"
          /\ LosesRun \/ lost' = lost
          /\ Throwing \/ UNCHANGED errors
      BY <2>1 DEF CancelJob, CancelFails
    <3>5. UNCHANGED <<record, orchestration, deliveries, handlerVars, registry, answering,
                      processVars, historyVars>>
      BY <2>1 DEF CancelJob
    <3>6. QED
      BY <3>3, <3>4, <3>5
  <2>2. CASE CancelEffects
    <3>1. /\ cancelling' \in {Spent, [cancelling EXCEPT !.at = "write"]}
          /\ cancelling.at = "orchestration"
          /\ LosesRun \/ lost' = lost
          /\ Throwing \/ UNCHANGED errors
      BY <2>2 DEF CancelEffects, CancelFails
    <3>2. \/ orchestration' = orchestration
          \/ orchestration \notin Ended /\ orchestration' = "cancelled"
      BY <2>2 DEF CancelEffects, CancelOrchestration
    <3>3. UNCHANGED <<record, job, deliveries, handlerVars, registry, answering,
                      processVars, historyVars>>
      BY <2>2 DEF CancelEffects
    <3>4. QED
      BY <3>1, <3>2, <3>3
  <2>3. QED
    BY <2>1, <2>2
<1>2. AutomationTypeOK'
  <2>1. lost' \subseteq 0..MaxJobs /\ errors' \in 0..MaxErrors
    BY <1>1, LossTypes, ErrorTypes DEF AutomationInv, AutomationTypeOK
  <2>2. job' \in [Jobs -> {"absent", "ready", "active"} \cup JobEnded]
    BY <1>1 DEF AutomationInv, AutomationTypeOK, JobEnded
  <2>3. cancelling' \in [at : {"idle", "effects", "orchestration", "write", "done"},
                         of : Record]
    BY <1>1, AbsentIsRecord DEF AutomationInv, AutomationTypeOK, Spent
  <2>4. orchestration' \in RunStatus \cup {"interrupted"}
    BY <1>1 DEF AutomationInv, AutomationTypeOK, RunStatus, Ended
  <2>5. QED
    BY <1>1, <2>1, <2>2, <2>3, <2>4
       DEF AutomationInv, AutomationTypeOK, handlerVars, processVars, historyVars
<1>3. CopiesAreSound'
  <2>1. Sound(cancelling'.of)
    BY <1>1, AbsentIsRecord DEF AutomationInv, AutomationTypeOK, CopiesAreSound, Spent
  <2>2. QED
    BY <1>1, <2>1 DEF AutomationInv, CopiesAreSound, Sound, handlerVars, historyVars
<1>4. DeliveriesAreCounted'
  BY <1>1 DEF AutomationInv, AutomationTypeOK, DeliveriesAreCounted, processVars
<1>5. EffectsAreApproved'
  BY <1>1 DEF AutomationInv, EffectsAreApproved, historyVars
<1>6. OneExecutor'
  BY <1>1 DEF AutomationInv, OneExecutor, Ended, handlerVars
<1>7. WritersReadOpenRuns'
  <2>1. cancelling'.at \in {"effects", "orchestration", "write"}
          => cancelling'.of = cancelling.of
    BY <1>1 DEF AutomationInv, AutomationTypeOK, Spent
  <2>2. QED
    BY <1>1, <2>1 DEF AutomationInv, WritersReadOpenRuns, handlerVars
<1>8. QED
  BY <1>2, <1>3, <1>4, <1>5, <1>6, <1>7 DEF AutomationInv

\* A cancellation is written over the status it was read with.
LEMMA WriteCancelledPreservesInv ==
  ASSUME AutomationInv, WriteCancelled
  PROVE  AutomationInv'
<1> USE DEF AutomationInv, WriteCancelled
<1>1. /\ record' \in Record /\ Sound(record')
      /\ record' = record \/ record'.status = "cancelled"
  <2> DEFINE v == cancelling.of
             left == [n \in Node |-> IF v.node[n] \in NodeEnded THEN v.node[n] ELSE "cancelled"]
             written == [v EXCEPT !.status = "cancelled", !.node = left,
                                  !.asked = 0, !.answer = "none"]
  <2>1. v \in Record /\ Sound(v) /\ record \in Record /\ Sound(record)
    BY DEF AutomationTypeOK, CopiesAreSound
  <2>2. left \in [Node -> NodeStatus]
    BY <2>1 DEF NodeEnded, NodeStatus
  <2>3. record' = record \/ record' = written
    BY DEF Writes, Moved
  <2> HIDE DEF left, v
  <2>4. written \in Record
    <3>1. 0 \in 0..N /\ "cancelled" \in RunStatus
      BY DEF RunStatus, Ended
    <3>2. QED
      BY <2>1, <2>2, <3>1 DEF Record
  <2>5. Sound(written) /\ written.status = "cancelled"
    BY <2>1 DEF Sound
  <2>6. QED
    BY <2>1, <2>3, <2>4, <2>5
<1>9. /\ UNCHANGED <<job, deliveries>>
      /\ LosesRun \/ lost' = lost
      /\ Throwing \/ UNCHANGED errors
      /\ cancelling' = Spent
      /\ \/ UNCHANGED <<aborted, registry>>
         \/ /\ aborted' = [h \in Handler |-> aborted[h] \/ pc[h] \in Executing]
            /\ registry' = IF registry = "running" THEN "ended" ELSE registry
      /\ UNCHANGED <<orchestration, pc, handled, view, current, answering, processVars,
                     historyVars>>
  BY DEF CancelFails, queueVars
<1> HIDE DEF WriteCancelled
<1>2. AutomationTypeOK'
  <2>1. /\ aborted' \in [Handler -> BOOLEAN]
        /\ registry' \in {"absent", "running", "ended"}
        /\ cancelling' \in [at : {"idle", "effects", "orchestration", "write", "done"},
                            of : Record]
    <3>1. /\ aborted \in [Handler -> BOOLEAN]
          /\ registry \in {"absent", "running", "ended"}
      BY DEF AutomationTypeOK
    <3>2. Spent \in [at : {"idle", "effects", "orchestration", "write", "done"},
                     of : Record]
      BY AbsentIsRecord DEF Spent
    <3>3. HIDE DEF AutomationInv
    <3>4. ASSUME aborted' = [h \in Handler |-> aborted[h] \/ pc[h] \in Executing]
          PROVE  aborted' \in [Handler -> BOOLEAN]
      <4>1. \A h \in Handler : (aborted[h] \/ pc[h] \in Executing) \in BOOLEAN
        OBVIOUS
      <4>2. QED
        BY <3>4, <4>1, Zenon
    <3>5. QED
      BY <1>9, <3>1, <3>2, <3>4
  <2>2. lost' \subseteq 0..MaxJobs /\ errors' \in 0..MaxErrors
    <3>1. lost \subseteq 0..MaxJobs
      BY DEF AutomationTypeOK
    <3>2. QED
      BY <1>1, <1>9, <3>1, LossTypes, ErrorTypes
  <2>3. QED
    BY <1>1, <1>9, <2>1, <2>2 DEF AutomationTypeOK, processVars, historyVars
<1>3. CopiesAreSound'
  BY <1>1, <1>9, AbsentIsRecord DEF CopiesAreSound, Sound, Spent, historyVars
<1>4. DeliveriesAreCounted'
  BY <1>9 DEF DeliveriesAreCounted, processVars
<1>5. EffectsAreApproved'
  BY <1>9 DEF EffectsAreApproved, historyVars
<1>6. OneExecutor'
  BY <1>1, <1>9 DEF OneExecutor
<1>7. WritersReadOpenRuns'
  BY <1>9 DEF WritersReadOpenRuns, Spent
<1>10. QED
  BY <1>2, <1>3, <1>4, <1>5, <1>6, <1>7

\* Only the database and the queue survive.
LEMMA CrashPreservesInv ==
  ASSUME AutomationInv, Crash
  PROVE  AutomationInv'
<1> USE DEF AutomationInv, Crash
<1>1. AutomationTypeOK'
  <2>1. crashes' \in 0..MaxFaults
    BY DEF AutomationTypeOK
  <2>2. /\ pc' \in [Handler -> {"idle", "loading", "starting", "failing", "failed"} \cup Executing]
        /\ handled' \in [Handler -> 0..MaxJobs]
        /\ view' \in [Handler -> Record]
        /\ current' \in [Handler -> 0..N]
        /\ aborted' \in [Handler -> BOOLEAN]
    BY AbsentIsRecord
  <2>3. /\ answering' \in [User -> [at : {"idle", "answer", "dispatch"}, of : Record]]
        /\ cancelling' \in [at : {"idle", "effects", "orchestration", "write", "done"},
                            of : Record]
        /\ reconciling' \in [at : {"idle", "read", "act"}, of : Record]
    BY AbsentIsRecord DEF Idle, Spent
  <2>4. QED
    BY <2>1, <2>2, <2>3 DEF AutomationTypeOK, queueVars, historyVars
<1>2. CopiesAreSound'
  BY AbsentIsRecord DEF CopiesAreSound, Sound, Idle, Spent, historyVars
<1>3. DeliveriesAreCounted'
  BY DEF DeliveriesAreCounted, AutomationTypeOK, queueVars
<1>4. EffectsAreApproved'
  BY DEF EffectsAreApproved, historyVars
<1>5. OneExecutor'
  BY DEF OneExecutor, Executing, Walking
<1>6. WritersReadOpenRuns'
  BY DEF WritersReadOpenRuns, Writing, Spent
<1>7. QED
  BY <1>1, <1>2, <1>3, <1>4, <1>5, <1>6

\* Runs without an executor are interrupted.
LEMMA RestartPreservesInv ==
  ASSUME AutomationInv, Restart
  PROVE  AutomationInv'
<1> USE DEF AutomationInv, Restart
<1>1. AutomationTypeOK'
  BY AbsentIsRecord DEF AutomationTypeOK, handlerVars, userVars, historyVars
<1>2. CopiesAreSound'
  BY DEF CopiesAreSound, Sound, handlerVars, userVars, historyVars
<1>3. DeliveriesAreCounted'
  BY DEF DeliveriesAreCounted
<1>4. EffectsAreApproved'
  BY DEF EffectsAreApproved, historyVars
<1>5. OneExecutor'
  BY DEF OneExecutor, handlerVars
<1>6. WritersReadOpenRuns'
  BY DEF WritersReadOpenRuns, handlerVars, userVars
<1>7. QED
  BY <1>1, <1>2, <1>3, <1>4, <1>5, <1>6

\* A queued run is read.
LEMMA ListQueuedPreservesInv ==
  ASSUME AutomationInv, ListQueued
  PROVE  AutomationInv'
<1> USE DEF AutomationInv, ListQueued
<1>1. AutomationTypeOK'
  BY AbsentIsRecord DEF AutomationTypeOK, Idle, queueVars, handlerVars, userVars, historyVars
<1>2. CopiesAreSound'
  BY DEF CopiesAreSound, Sound, handlerVars, userVars, historyVars
<1>3. DeliveriesAreCounted'
  BY DEF DeliveriesAreCounted, queueVars
<1>4. EffectsAreApproved'
  BY DEF EffectsAreApproved, historyVars
<1>5. OneExecutor'
  BY DEF OneExecutor, handlerVars
<1>6. WritersReadOpenRuns'
  BY DEF WritersReadOpenRuns, handlerVars, userVars
<1>7. QED
  BY <1>1, <1>2, <1>3, <1>4, <1>5, <1>6

\* A queued run is dispatched again, or failed.
LEMMA ReconcilePreservesInv ==
  ASSUME AutomationInv, Reconcile
  PROVE  AutomationInv'
<1> USE DEF AutomationInv, Reconcile
<1>1. /\ job' \in [Jobs -> {"absent", "ready", "active"} \cup JobEnded]
      /\ \A i \in Jobs : /\ job'[i] = "absent" => job[i] = "absent"
                         /\ job'[i] = "ready" => job[i] \in {"absent", "ready"}
      /\ record' \in Record
      /\ Sound(record')
      /\ lost' \subseteq 0..MaxJobs /\ errors' \in 0..MaxErrors
      /\ record' # record => record.status = "queued" /\ record'.status = "failed"
  <2>1. CASE reconciling.of.dispatched
    <3>1. reconciling.of.job \in 0..MaxJobs
      BY DEF AutomationTypeOK, Record
    <3>2. QED
      BY <2>1, <3>1, DispatchTypes DEF Redispatch
  <2>2. CASE ~reconciling.of.dispatched
    <3>1. record \in Record /\ Sound(record)
      BY DEF AutomationTypeOK, CopiesAreSound
    <3>2. /\ job' = job /\ lost' = lost /\ errors' = errors
          /\ record' # record => /\ record.status = "queued"
                                 /\ record' = [record EXCEPT !.status = "failed"]
      BY <2>2 DEF Redispatch, Writes, Moved
    <3>3. QED
      BY <3>1, <3>2, FailedIsRecord DEF AutomationTypeOK
  <2>3. QED
    BY <2>1, <2>2
<1>2. AutomationTypeOK'
  BY <1>1, AbsentIsRecord DEF AutomationTypeOK, Idle, handlerVars, userVars, historyVars
<1>3. CopiesAreSound'
  BY <1>1 DEF CopiesAreSound, Sound, handlerVars, userVars, historyVars
<1>4. DeliveriesAreCounted'
  BY <1>1 DEF DeliveriesAreCounted
<1>5. EffectsAreApproved'
  BY DEF EffectsAreApproved, historyVars
<1>6. OneExecutor'
  BY <1>1 DEF OneExecutor, handlerVars
<1>7. WritersReadOpenRuns'
  BY DEF WritersReadOpenRuns, handlerVars, userVars
<1>8. QED
  BY <1>2, <1>3, <1>4, <1>5, <1>6, <1>7

------------------------------------------------------------------------------------
(* What holds of every run of an automation. *)

\* Each step of the queue, the executor, the users and the process preserves the invariant.
LEMMA NextPreservesInv ==
  ASSUME AutomationInv, [Next]_vars
  PROVE  AutomationInv'
<1>1. ASSUME Delivers
      PROVE  AutomationInv'
  BY <1>1, DeliverPreservesInv DEF Delivers
<1>2. ASSUME NEW j \in Jobs, TimesOut(j) \/ TimesOutUnhandled(j)
      PROVE  AutomationInv'
  BY <1>2, TimesOutPreservesInv, TimesOutUnhandledPreservesInv
<1>3. ASSUME NEW h \in Handler, Executes(h)
      PROVE  AutomationInv'
  BY <1>3, LoadPreservesInv, StartPreservesInv, CannotStartPreservesInv,
     InterruptedPreservesInv, BeginPreservesInv, OpenPreservesInv, LoopPreservesInv,
     ConcludePreservesInv, CompletePreservesInv, SkipPreservesInv, EnterPreservesInv,
     BreaksPreservesInv, AskPreservesInv, PausedPreservesInv, WorkPreservesInv,
     RecordNodePreservesInv, ReturnPreservesInv, FailPreservesInv,
     RecordFailurePreservesInv
     DEF Executes
<1>4. ASSUME NEW u \in User,
             StartAutomation(u) \/ ReadApproval(u) \/ Respond(u) \/ DispatchAnswer(u)
      PROVE  AutomationInv'
  BY <1>4, StartAutomationPreservesInv, ReadApprovalPreservesInv, RespondPreservesInv,
     DispatchAnswerPreservesInv
<1>5. CASE ReadCancel \/ CancelJob \/ CancelEffects \/ WriteCancelled
  BY <1>5, ReadCancelPreservesInv, CancelEffectsPreservesInv, WriteCancelledPreservesInv
<1>6. CASE Forget \/ Crash \/ Process
  BY <1>6, ForgetPreservesInv, CrashPreservesInv, RestartPreservesInv,
     ListQueuedPreservesInv, ReconcilePreservesInv
     DEF Process
<1>7. CASE UNCHANGED vars
  BY <1>7 DEF vars, queueVars, handlerVars, userVars, processVars, historyVars,
     AutomationInv, AutomationTypeOK, CopiesAreSound, Sound, DeliveriesAreCounted,
     OneExecutor, WritersReadOpenRuns, EffectsAreApproved
<1>8. QED
  BY <1>1, <1>2, <1>3, <1>4, <1>5, <1>6, <1>7 DEF Next

\* For every automation, whatever crashes, repeats, answers and cancellations do: one
\* executor of the run at a time, and a run that is reported as completed has its
\* orchestration run completed.
THEOREM CompletedRunsAgree == Spec => []ExecutionsAgree
<1>1. Init => AutomationInv
  BY InitEstablishesInv
<1>2. AutomationInv /\ [Next]_vars => AutomationInv'
  BY NextPreservesInv
<1>3. AutomationInv => ExecutionsAgree
  BY DEF AutomationInv, OneExecutor, ExecutionsAgree
<1>4. QED
  BY <1>1, <1>2, <1>3, PTL DEF Spec

\* A tool that needs an approval never acts before a user has granted it, although every
\* writer of the record writes approvals it read earlier.
THEOREM EffectsNeedApproval == Spec => []EffectsAreApproved
<1>1. Init => AutomationInv
  BY InitEstablishesInv
<1>2. AutomationInv /\ [Next]_vars => AutomationInv'
  BY NextPreservesInv
<1>3. AutomationInv => EffectsAreApproved
  BY DEF AutomationInv
<1>4. QED
  BY <1>1, <1>2, <1>3, PTL DEF Spec

\* A write of the executor never finds a run that has ended for good.
LEMMA PersistKeepsFinished ==
  ASSUME AutomationInv, NEW h \in Handler, pc[h] \in Persisting,
         NEW v, NEW s, NEW next, Persist(h, v, s, next),
         record.status \in {"completed", "cancelled"}
  PROVE  record' = record
  BY DEF Persist, Writes, Moved, Persisting, AutomationInv, WritersReadOpenRuns, Writing

\* No step of a handler changes a run that was completed or cancelled.
LEMMA HandlerKeepsFinished ==
  ASSUME AutomationInv, NEW h \in Handler, Executes(h),
         record.status \in {"completed", "cancelled"}
  PROVE  record' = record
<1>1. CASE Interrupted(h) \/ Open(h) \/ Complete(h) \/ Skip(h) \/ Enter(h) \/ Ask(h)
             \/ RecordNode(h)
  BY <1>1, PersistKeepsFinished, Zenon
     DEF Persisting, Interrupted, Open, Complete, Skip, Enter, Ask, RecordNode
<1>2. CASE RecordFailure(h)
  BY <1>2 DEF RecordFailure, Writes, Moved, AutomationInv, WritersReadOpenRuns, Writing
<1>3. CASE Load(h)
  BY <1>3 DEF Load, Take
<1>4. CASE \/ Start(h) \/ CannotStart(h) \/ Begin(h) \/ Loop(h) \/ Conclude(h)
           \/ Breaks(h) \/ Paused(h) \/ Work(h) \/ Return(h) \/ Fail(h)
  BY <1>4
     DEF Start, CannotStart, Begin, Loop, Conclude, Breaks, Paused, Work, Return, Fail
<1>5. QED
  BY <1>1, <1>2, <1>3, <1>4 DEF Executes

\* A run that was completed or cancelled stays so: no later failure, cancellation, answer,
\* reconciliation or delivery overwrites it, however old the copy it was decided on.
THEOREM FinishedRunsStayFinished == Spec => FinishedStaysFinished
<1>1. Init => AutomationInv
  BY InitEstablishesInv
<1>2. AutomationInv /\ [Next]_vars => AutomationInv'
  BY NextPreservesInv
<1>3. ASSUME AutomationInv, [Next]_vars, record.status \in {"completed", "cancelled"}
      PROVE  record' = record
  <2> USE <1>3
  <2>1. CASE Delivers \/ \E j \in Jobs : TimesOut(j) \/ TimesOutUnhandled(j)
    BY <2>1 DEF Delivers, Deliver, TimesOut, TimesOutUnhandled
  <2>2. CASE \E h \in Handler : Executes(h)
    BY <2>2, HandlerKeepsFinished
  <2>3. ASSUME NEW u \in User, StartAutomation(u) \/ ReadApproval(u) \/ Respond(u)
        PROVE  record' = record
    BY <2>3 DEF StartAutomation, ReadApproval, Respond, Writes, Moved
  <2>4. ASSUME NEW u \in User, DispatchAnswer(u)
        PROVE  record' = record
    BY <2>4 DEF DispatchAnswer, Dispatch
  <2>5. CASE ReadCancel \/ CancelJob \/ CancelEffects
    BY <2>5 DEF ReadCancel, CancelJob, CancelEffects
  <2>6. CASE WriteCancelled
    BY <2>6 DEF WriteCancelled, Writes, Moved, AutomationInv, WritersReadOpenRuns, Ended
  <2>7. CASE Forget \/ Crash \/ Restart \/ ListQueued
    BY <2>7 DEF Forget, Crash, Restart, ListQueued
  <2>8. CASE Reconcile
    BY <2>8 DEF Reconcile, Redispatch, Dispatch, Writes, Moved
  <2>9. CASE UNCHANGED vars
    BY <2>9 DEF vars
  <2>10. QED
    BY <1>3, <2>1, <2>2, <2>3, <2>4, <2>5, <2>6, <2>7, <2>8, <2>9 DEF Next, Process
<1>4. AutomationInv /\ [Next]_vars
        => [record.status \in {"completed", "cancelled"}
              => record'.status = record.status]_vars
  BY <1>3
<1>5. QED
  BY <1>1, <1>2, <1>4, PTL DEF Spec, FinishedStaysFinished

------------------------------------------------------------------------------------
(* How often a tool may act. A node that has worked can work again only if an      *)
(* older state of it is written back, and such writes are counted.                 *)

\* An executor that found the node like this would run it.
Repeatable(v, n) == v.node[n] \in {"pending", "waiting_approval"}

\* Whoever goes on from v lets no node work that has worked more than k times.
Allows(v, k) == \A n \in Node : Repeatable(v, n) => effects[n] <= k

\* What is asked about is a node that waits for the answer.
Asks(v) == v.answer = "pending" => v.asked \in Node /\ v.node[v.asked] = "waiting_approval"

QuestionsAreOpen ==
    /\ Asks(record)
    /\ \A h \in Handler : Asks(view[h])
    /\ \A u \in User : answering[u].at = "answer" => Asks(answering[u].of)

\* Where an executor holds a copy by which it runs nodes, or which it writes.
Copying == {"interrupted", "begin", "opened", "step", "entered", "worked", "completing"}

\* Only a node that has been put back may have worked more often than once. While a node
\* works, the record has it as running, unless it was put back meanwhile.
RepeatsNeedOldStates ==
    /\ record.status = "absent" => record = Absent
    /\ \A n \in Node : effects[n] <= 1 + overwritten
    /\ record.status # "cancelled" => Allows(record, overwritten)
    /\ \A h \in Handler : pc[h] \in Copying => Allows(view[h], overwritten)
    /\ \A h \in Handler : pc[h] = "starting" /\ registry = "absent"
                             => Allows(view[h], overwritten)
    /\ \A h \in Handler :
         pc[h] = "entered" =>
           /\ view[h].node[current[h]] = "running"
           /\ effects[current[h]] <= overwritten
           /\ record.status # "cancelled" /\ Repeatable(record, current[h])
                => effects[current[h]] + 1 <= overwritten

FewInv == QuestionsAreOpen /\ RepeatsNeedOldStates

\* Types in the form in which they are needed.
LEMMA CountsAreNumbers ==
  ASSUME AutomationInv
  PROVE  /\ overwritten \in Nat /\ \A n \in Node : effects[n] \in Nat
         /\ record \in Record /\ \A h \in Handler : view[h] \in Record
         /\ \A u \in User : answering[u].of \in Record
         /\ pc \in [Handler -> {"idle", "loading", "starting", "failing", "failed"}
                                  \cup Executing]
         /\ view \in [Handler -> Record]
         /\ effects \in [Node -> Nat]
         /\ answering \in [User -> [at : {"idle", "answer", "dispatch"}, of : Record]]
  BY DEF AutomationInv, AutomationTypeOK

\* A run that does not exist asks nothing.
LEMMA AbsentAsksNothing == Asks(Absent)
  BY DEF Asks, Absent

\* No tool has acted.
LEMMA InitEstablishesFew == Init => FewInv
<1> SUFFICES ASSUME Init
             PROVE  FewInv
  OBVIOUS
<1> USE AbsentAsksNothing DEF Init
<1>1. QuestionsAreOpen
  BY DEF QuestionsAreOpen, Idle
<1>2. RepeatsNeedOldStates
  BY DEF RepeatsNeedOldStates, Allows, Copying
<1>3. QED
  BY <1>1, <1>2 DEF FewInv

\* What the executor is about to write, or to work on, is no older than what it read.
LEMMA PersistPreservesFew ==
  ASSUME AutomationInv, FewInv, NEW h \in Handler, pc[h] \in Persisting,
         NEW v \in Record, Asks(v), Allows(v, overwritten),
         NEW s \in RunStatus \ {"absent"},
         NEW next \in {"loop", "entered", "paused", "returning", "failing"},
         next = "entered" => LET n == NextNode(view[h])
                             IN n \in Node /\ Repeatable(view[h], n) /\ v.node[n] = "running",
         Persist(h, v, s, next), UNCHANGED <<orchestration, historyVars>>
  PROVE  FewInv'
<1>1. /\ record' # record => record' = [v EXCEPT !.status = s]
      /\ pc'[h] = "entered" => record' = [v EXCEPT !.status = s]
      /\ pc'[h] \in {"loop", "entered", "paused", "returning", "failing"}
      /\ pc'[h] = "entered" => next = "entered"
      /\ \A g \in Handler : g # h => pc'[g] = pc[g]
      /\ registry' # registry => registry' = "ended"
  BY CountsAreNumbers DEF Persist, Writes, Moved, Throws, Goes
<1>2. /\ \A g \in Handler : g # h => view'[g] = view[g] /\ current'[g] = current[g]
      /\ view'[h] = IF pc'[h] = "entered" THEN v ELSE Absent
      /\ pc'[h] = "entered" => current'[h] = NextNode(view[h])
  BY CountsAreNumbers DEF Persist, AutomationInv, AutomationTypeOK
<1>3. UNCHANGED <<answering, effects, overwritten>>
  BY DEF Persist, historyVars, userVars
<1>4. /\ \A g \in Handler : g # h => pc[g] \notin Executing
      /\ registry # "absent"
      /\ pc[h] \in Copying
  BY DEF AutomationInv, OneExecutor, Persisting, Executing, Copying
<1>5. QuestionsAreOpen'
  <2>1. Asks([v EXCEPT !.status = s])
    BY DEF Asks, Record
  <2>2. Asks(record')
    BY <1>1, <2>1 DEF FewInv, QuestionsAreOpen
  <2>3. \A g \in Handler : Asks(view'[g])
    BY <1>2, AbsentAsksNothing DEF FewInv, QuestionsAreOpen
  <2>4. QED
    BY <1>3, <2>2, <2>3 DEF FewInv, QuestionsAreOpen, Asks
<1>6. RepeatsNeedOldStates'
  <2> USE DEF FewInv, RepeatsNeedOldStates
  <2>1. Allows([v EXCEPT !.status = s], overwritten)
    BY DEF Allows, Repeatable, Record
  <2>2. (record.status # "cancelled" => Allows(record, overwritten))'
    BY <1>1, <1>3, <2>1 DEF Allows
  <2>3. (record.status = "absent" => record = Absent)'
    BY <1>1 DEF Record
  <2>4. (\A n \in Node : effects[n] <= 1 + overwritten)'
    BY <1>3
  <2>5. (\A g \in Handler : pc[g] \in Copying => Allows(view[g], overwritten))'
    BY <1>1, <1>2, <1>3, <1>4 DEF Allows, Copying, Executing
  <2>6. (\A g \in Handler : pc[g] = "starting" /\ registry = "absent"
                              => Allows(view[g], overwritten))'
    BY <1>1, <1>4
  <2>7. ASSUME NEW g \in Handler, pc'[g] = "entered"
        PROVE  /\ view'[g].node[current'[g]] = "running"
               /\ effects'[current'[g]] <= overwritten'
               /\ ~Repeatable(record', current'[g])
    <3>1. g = h
      BY <1>1, <1>4, <2>7 DEF Executing
    <3>2. /\ NextNode(view[h]) \in Node /\ Repeatable(view[h], NextNode(view[h]))
          /\ v.node[NextNode(view[h])] = "running"
          /\ current'[g] = NextNode(view[h]) /\ view'[g] = v
          /\ record' = [v EXCEPT !.status = s]
      BY <1>1, <1>2, <2>7, <3>1
    <3>3. effects[NextNode(view[h])] <= overwritten
      BY <1>4, <3>2 DEF Allows
    <3>4. record'.node = v.node
      BY <3>2 DEF Record
    <3>5. QED
      BY <1>3, <3>2, <3>3, <3>4 DEF Repeatable
  <2>8. QED
    BY <2>2, <2>3, <2>4, <2>5, <2>6, <2>7
<1>7. QED
  BY <1>5, <1>6 DEF FewInv

\* What an executor holds.
LEMMA CopyAllows ==
  ASSUME AutomationInv, FewInv, NEW h \in Handler, pc[h] \in Copying
  PROVE  /\ view[h] \in Record /\ Asks(view[h]) /\ Allows(view[h], overwritten)
         /\ view[h].node \in [Node -> NodeStatus]
  BY CountsAreNumbers DEF FewInv, QuestionsAreOpen, RepeatsNeedOldStates, Record

\* The next node is one that has not begun.
LEMMA NextNodeIsPending ==
  ASSUME NEW v, NextNode(v) # 0
  PROVE  NextNode(v) \in Node /\ v.node[NextNode(v)] = "pending"
<1> DEFINE open == {n \in Node : Considered(v, n)}
<1>1. open # {}
  BY DEF NextNode
<1>2. \E n \in open : \A m \in open : n <= m
  BY <1>1, NodesHaveFirst
<1>3. NextNode(v) \in open
  BY <1>1, <1>2 DEF NextNode
<1>4. QED
  BY <1>3 DEF Considered

\* The seven writes of the executor.
LEMMA WritesPreserveFew ==
  ASSUME AutomationInv, FewInv, NEW h \in Handler,
         \/ Interrupted(h) \/ Open(h) \/ Complete(h) \/ Skip(h) \/ Enter(h) \/ Ask(h)
         \/ RecordNode(h)
  PROVE  FewInv'
<1> USE DEF Persisting, RunStatus, Ended
<1> DEFINE w == view[h]
<1>0. pc[h] \in Copying
  BY DEF Interrupted, Open, Complete, Skip, Enter, Ask, RecordNode, Copying
<1>1. /\ w \in Record /\ Asks(w) /\ Allows(w, overwritten)
      /\ w.node \in [Node -> NodeStatus]
  BY <1>0, CopyAllows
<1>2. CASE Interrupted(h)
  <2> DEFINE broken == [n \in Node |-> IF w.node[n] = "running" THEN "failed" ELSE w.node[n]]
             v == [w EXCEPT !.node = broken]
  <2>1. broken \in [Node -> NodeStatus]
    BY <1>1 DEF NodeStatus
  <2>2. \A n \in Node : broken[n] = w.node[n] \/ (w.node[n] = "running" /\ broken[n] = "failed")
    OBVIOUS
  <2>3. /\ pc[h] = "interrupted" /\ Persist(h, v, "running", "failing")
        /\ UNCHANGED <<orchestration, historyVars>>
    BY <1>2 DEF Interrupted
  <2> HIDE DEF broken
  <2>4. v \in Record /\ v.node = broken /\ v.answer = w.answer /\ v.asked = w.asked
    BY <1>1, <2>1 DEF Record
  <2>5. Asks(v) /\ Allows(v, overwritten)
    BY <1>1, <2>2, <2>4 DEF Asks, Allows, Repeatable
  <2> HIDE DEF v, w
  <2>6. QED
    BY <2>3, <2>4, <2>5, PersistPreservesFew
<1>3. CASE Open(h)
  <2>1. /\ pc[h] = "opened" /\ Persist(h, w, "running", "loop")
        /\ UNCHANGED <<orchestration, historyVars>>
    BY <1>3 DEF Open
  <2> HIDE DEF w
  <2>2. QED
    BY <1>1, <2>1, PersistPreservesFew
<1>4. CASE Complete(h)
  <2> DEFINE v == [w EXCEPT !.asked = 0, !.answer = "none"]
  <2>1. /\ pc[h] = "completing" /\ Persist(h, v, "completed", "returning")
        /\ UNCHANGED <<orchestration, historyVars>>
    BY <1>4 DEF Complete
  <2>2. 0 \in 0..N
    OBVIOUS
  <2>3. v \in Record /\ v.node = w.node /\ v.answer = "none"
    BY <1>1, <2>2 DEF Record
  <2>4. Asks(v) /\ Allows(v, overwritten)
    BY <1>1, <2>3 DEF Asks, Allows, Repeatable
  <2> HIDE DEF v, w
  <2>5. QED
    BY <2>1, <2>3, <2>4, PersistPreservesFew
<1>5. CASE Skip(h)
  <2> DEFINE n == NextNode(w)
             v == [w EXCEPT !.node[n] = "skipped"]
  <2>1. /\ pc[h] = "step" /\ Persist(h, v, "running", "loop")
        /\ UNCHANGED <<orchestration, historyVars>>
    BY <1>5 DEF Skip
  <2>2. n \in Node /\ w.node[n] = "pending"
    BY <1>5, NextNodeIsPending DEF Skip
  <2> HIDE DEF n
  <2>3. /\ v \in Record /\ v.node = [w.node EXCEPT ![n] = "skipped"]
        /\ v.answer = w.answer /\ v.asked = w.asked
    BY <1>1, <2>2 DEF Record, NodeStatus
  <2>4. Asks(v) /\ Allows(v, overwritten)
    BY <1>1, <2>2, <2>3 DEF Asks, Allows, Repeatable
  <2> HIDE DEF v, w
  <2>5. QED
    BY <2>1, <2>3, <2>4, PersistPreservesFew
<1>6. CASE Enter(h)
  <2> DEFINE n == NextNode(w)
             v == [w EXCEPT !.node[n] = "running"]
  <2>1. /\ pc[h] = "step" /\ Persist(h, v, "running", "entered")
        /\ UNCHANGED <<orchestration, historyVars>>
    BY <1>6 DEF Enter
  <2>2. n \in Node /\ w.node[n] = "pending"
    BY <1>6, NextNodeIsPending DEF Enter
  <2>3. n = NextNode(view[h])
    OBVIOUS
  <2> HIDE DEF n
  <2>4. /\ v \in Record /\ v.node = [w.node EXCEPT ![n] = "running"]
        /\ v.answer = w.answer /\ v.asked = w.asked
    BY <1>1, <2>2 DEF Record, NodeStatus
  <2>5. Asks(v) /\ Allows(v, overwritten)
    BY <1>1, <2>2, <2>4 DEF Asks, Allows, Repeatable
  <2>6. NextNode(view[h]) \in Node /\ Repeatable(view[h], NextNode(view[h]))
        /\ v.node[NextNode(view[h])] = "running"
    BY <1>1, <2>2, <2>3, <2>4 DEF Repeatable
  <2> HIDE DEF v, w
  <2>7. QED
    BY <2>1, <2>4, <2>5, <2>6, PersistPreservesFew
<1>7. CASE Ask(h)
  <2> DEFINE n == current[h]
             v == [w EXCEPT !.node[n] = "waiting_approval", !.asked = n, !.answer = "pending"]
  <2>1. /\ pc[h] = "entered" /\ Persist(h, v, "waiting_approval", "paused")
        /\ UNCHANGED <<orchestration, historyVars>>
    BY <1>7 DEF Ask
  <2>2. n \in Node /\ n \in 0..N /\ effects[n] <= overwritten
    <3>1. n \in Node /\ effects[n] <= overwritten
      BY <2>1 DEF AutomationInv, OneExecutor, FewInv, RepeatsNeedOldStates
    <3>2. QED
      BY <3>1 DEF Node
  <2> HIDE DEF n
  <2>3. /\ v \in Record /\ v.node = [w.node EXCEPT ![n] = "waiting_approval"]
        /\ v.asked = n
    BY <1>1, <2>2 DEF Record, NodeStatus
  <2>4. Asks(v) /\ Allows(v, overwritten)
    BY <1>1, <2>2, <2>3 DEF Asks, Allows, Repeatable
  <2> HIDE DEF v, w
  <2>5. QED
    BY <2>1, <2>3, <2>4, PersistPreservesFew
<1>8. CASE RecordNode(h)
  <2>1. /\ pc[h] = "worked"
        /\ Persist(h, w, "failed", "failing") \/ Persist(h, w, "running", "loop")
        /\ UNCHANGED <<orchestration, historyVars>>
    BY <1>8 DEF RecordNode
  <2> HIDE DEF w
  <2>2. QED
    BY <1>1, <2>1, PersistPreservesFew
<1>9. QED
  BY <1>2, <1>3, <1>4, <1>5, <1>6, <1>7, <1>8

\* A step that writes neither the record nor an effect, and after which whoever holds a
\* copy holds one from which it may go on.
HoldsFit ==
    /\ UNCHANGED <<record, effects, overwritten>>
    /\ \A u \in User : answering'[u].at = "answer"
                          => answering'[u] = answering[u] \/ answering'[u].of = record
    /\ \A g \in Handler :
         /\ Asks(view'[g])
         /\ pc'[g] \in Copying => Allows(view'[g], overwritten)
         /\ pc'[g] = "starting" /\ registry' = "absent" => Allows(view'[g], overwritten)
         /\ pc'[g] = "entered"
              => pc[g] = "entered" /\ view'[g] = view[g] /\ current'[g] = current[g]

LEMMA HoldsFitPreservesFew ==
  ASSUME AutomationInv, FewInv, HoldsFit
  PROVE  FewInv'
<1> USE DEF FewInv, HoldsFit
<1>1. QuestionsAreOpen'
  BY DEF QuestionsAreOpen, Asks
<1>2. RepeatsNeedOldStates'
  <2>1. (\A h \in Handler :
           pc[h] = "entered" =>
             /\ view[h].node[current[h]] = "running"
             /\ effects[current[h]] <= overwritten
             /\ record.status # "cancelled" /\ Repeatable(record, current[h])
                  => effects[current[h]] + 1 <= overwritten)'
    BY DEF RepeatsNeedOldStates, Repeatable
  <2>2. QED
    BY <2>1 DEF RepeatsNeedOldStates, Allows
<1>3. QED
  BY <1>1, <1>2

\* Handlers that come, wait or leave.
LEMMA HandlersPreserveFew ==
  ASSUME AutomationInv, FewInv, NEW h \in Handler,
         \/ Start(h) \/ CannotStart(h) \/ Begin(h) \/ Loop(h) \/ Conclude(h)
         \/ Breaks(h) \/ Paused(h) \/ Return(h) \/ Fail(h)
  PROVE  FewInv'
<1>1. /\ UNCHANGED <<record, effects, overwritten, answering>>
      /\ \A g \in Handler : g # h => /\ view'[g] = view[g] /\ pc'[g] = pc[g]
                                     /\ current'[g] = current[g]
      /\ registry' = "absent" => registry = "absent"
  <2>1. CASE Start(h) \/ CannotStart(h) \/ Begin(h) \/ Loop(h) \/ Conclude(h) \/ Paused(h)
    BY <2>1, CountsAreNumbers
       DEF Start, CannotStart, Begin, Loop, Conclude, Paused, Throws, Goes, historyVars,
           userVars
  <2>2. CASE Breaks(h)
    BY <2>2, CountsAreNumbers DEF Breaks, Throws, historyVars, userVars
  <2>3. CASE Return(h)
    BY <2>3, CountsAreNumbers DEF Return, JobEnds, historyVars, userVars
  <2>4. CASE Fail(h)
    BY <2>4, CountsAreNumbers DEF Fail, JobEnds, historyVars, userVars
  <2>5. QED
    BY <2>1, <2>2, <2>3, <2>4
<1>2. /\ \A g \in Handler : Asks(view[g])
      /\ Asks(record)
      /\ \A g \in Handler : pc[g] \in Copying => Allows(view[g], overwritten)
      /\ \A g \in Handler : pc[g] = "starting" /\ registry = "absent"
                                => Allows(view[g], overwritten)
      /\ record.status # "cancelled" => Allows(record, overwritten)
  BY DEF FewInv, QuestionsAreOpen, RepeatsNeedOldStates
<1>3. /\ Asks(view'[h])
      /\ pc'[h] \in Copying => Allows(view'[h], overwritten)
      /\ pc'[h] # "starting" /\ pc'[h] # "entered"
  <2>1. CASE Start(h)
    BY <1>2, <2>1, CountsAreNumbers DEF Start, StartsAlone
  <2>2. CASE Begin(h)
    <3>1. pc[h] \in Copying
      BY <2>2 DEF Begin, Copying
    <3>2. /\ view'[h] = [view[h] EXCEPT !.orchestrated = TRUE]
          /\ pc'[h] = "opened"
      BY <2>2, CountsAreNumbers DEF Begin
    <3>3. /\ view'[h].node = view[h].node /\ view'[h].answer = view[h].answer
          /\ view'[h].asked = view[h].asked
      BY <3>2, CountsAreNumbers DEF Record
    <3>4. QED
      BY <1>2, <3>1, <3>2, <3>3 DEF Asks, Allows, Repeatable
  <2>3. CASE Loop(h) \/ Conclude(h) \/ Breaks(h) \/ CannotStart(h)
    BY <1>2, <2>3, CountsAreNumbers, AbsentAsksNothing
       DEF Loop, Conclude, Breaks, CannotStart, Throws, Goes, Copying
  <2>4. CASE Paused(h) \/ Return(h) \/ Fail(h)
    BY <1>2, <2>4, CountsAreNumbers, AbsentAsksNothing
       DEF Paused, Return, Fail, JobEnds, Copying
  <2>5. QED
    BY <2>1, <2>2, <2>3, <2>4
<1>4. HoldsFit
  BY <1>1, <1>2, <1>3 DEF HoldsFit
<1>5. QED
  BY <1>4, HoldsFitPreservesFew

\* The tool acts: the node is recorded as running, or was put back meanwhile.
LEMMA WorkPreservesFew ==
  ASSUME AutomationInv, FewInv, NEW h \in Handler, Work(h)
  PROVE  FewInv'
<1> DEFINE n == current[h]
           w == view[h]
<1>1. /\ pc[h] = "entered" /\ pc' = [pc EXCEPT ![h] = "worked"]
      /\ UNCHANGED <<record, current, registry, answering, overwritten>>
  BY DEF Work, userVars
<1>2. PICK result \in {"completed", "failed"}, acts \in BOOLEAN :
        /\ effects' = IF acts THEN [effects EXCEPT ![n] = @ + 1] ELSE effects
        /\ view' = [view EXCEPT ![h] = Worked(w, n, result)]
  BY DEF Work
<1>3. /\ n \in Node /\ effects[n] <= overwritten /\ w.node[n] = "running"
      /\ record.status # "cancelled" /\ Repeatable(record, n)
           => effects[n] + 1 <= overwritten
      /\ w \in Record /\ Asks(w) /\ Allows(w, overwritten)
      /\ \A g \in Handler : g # h => pc[g] \notin Executing
      /\ registry # "absent"
  BY <1>1, CopyAllows
     DEF AutomationInv, OneExecutor, FewInv, RepeatsNeedOldStates, Copying, Executing
<1> HIDE DEF n, w
<1>4. /\ Worked(w, n, result).node = [w.node EXCEPT ![n] = result]
      /\ Worked(w, n, result).answer = "pending" => /\ w.answer = "pending"
                                                    /\ Worked(w, n, result).asked = w.asked
  BY <1>3 DEF Worked, Record
<1>5. /\ \A m \in Node : m # n => effects'[m] = effects[m]
      /\ effects'[n] \in {effects[n], effects[n] + 1}
  BY <1>2, <1>3, CountsAreNumbers
<1>6. /\ view'[h] = Worked(w, n, result)
      /\ \A g \in Handler : g # h => view'[g] = view[g]
  BY <1>2, CountsAreNumbers
<1>7. QuestionsAreOpen'
  <2>1. Asks(Worked(w, n, result))
    BY <1>3, <1>4 DEF Asks
  <2>2. \A g \in Handler : Asks(view'[g])
    BY <1>6, <2>1 DEF FewInv, QuestionsAreOpen
  <2>3. QED
    BY <1>1, <2>2 DEF FewInv, QuestionsAreOpen, Asks
<1>8. RepeatsNeedOldStates'
  <2> USE DEF FewInv, RepeatsNeedOldStates
  <2>1. \A m \in Node : /\ effects[m] \in Nat /\ overwritten \in Nat
                          /\ effects'[m] <= 1 + overwritten
    BY <1>3, <1>5, CountsAreNumbers
  <2>2. (record.status # "cancelled" => Allows(record, overwritten))'
    BY <1>1, <1>3, <1>5 DEF Allows, Repeatable
  <2>3. (\A g \in Handler : pc[g] \in Copying => Allows(view[g], overwritten))'
    <3>1. ASSUME NEW g \in Handler, pc'[g] \in Copying, NEW m \in Node,
                 Repeatable(view'[g], m)
          PROVE  effects'[m] <= overwritten
      <4>1. g = h
        BY <1>1, <1>3, <3>1, CountsAreNumbers DEF Copying, Executing
      <4>2. view'[g].node = [w.node EXCEPT ![n] = result] /\ w.node \in [Node -> NodeStatus]
        BY <1>3, <1>4, <1>6, <4>1 DEF Record
      <4>3. m # n /\ Repeatable(w, m)
        BY <1>3, <3>1, <4>2 DEF Repeatable
      <4>4. QED
        BY <1>3, <1>5, <4>3 DEF Allows
    <3>2. QED
      BY <1>1, <3>1 DEF Allows, Repeatable
  <2>4. /\ \A g \in Handler : pc'[g] # "entered"
        /\ registry' # "absent"
        /\ (record.status = "absent" => record = Absent)'
    BY <1>1, <1>3, CountsAreNumbers DEF Executing
  <2>5. QED
    BY <2>1, <2>2, <2>3, <2>4, <1>1
<1>9. QED
  BY <1>7, <1>8 DEF FewInv

\* A step that writes a state made of v, in which no node waits that does not wait in v.
WritesFit(v) ==
    /\ UNCHANGED effects
    /\ record.status # "cancelled" /\ record'.status # "absent" /\ Asks(record')
    /\ CountsOverwritten(v)
    /\ \A n \in Node : Repeatable(record', n) => Repeatable(v, n)
    /\ \A u \in User : answering'[u].at = "answer" => answering'[u] = answering[u]
    /\ registry' = "absent" => registry = "absent"
    /\ \A g \in Handler :
         \/ pc'[g] = pc[g] /\ view'[g] = view[g] /\ current'[g] = current[g]
         \/ pc'[g] = "idle" /\ view'[g] = Absent
         \/ pc'[g] = "starting" /\ view'[g] = record'

LEMMA WritesFitPreservesFew ==
  ASSUME AutomationInv, FewInv, NEW v, WritesFit(v)
  PROVE  FewInv'
<1> USE DEF FewInv
<1>1. QuestionsAreOpen'
  BY AbsentAsksNothing DEF QuestionsAreOpen, WritesFit, Asks
<1>2. /\ overwritten \in Nat /\ overwritten' \in Nat /\ overwritten <= overwritten'
      /\ record # v => overwritten' = overwritten + 1
      /\ \A n \in Node : effects[n] \in Nat /\ effects'[n] = effects[n]
      /\ \A n \in Node : effects[n] <= 1 + overwritten
      /\ Allows(record, overwritten)
  BY CountsAreNumbers DEF WritesFit, CountsOverwritten, RepeatsNeedOldStates
<1>3. \A n \in Node : Repeatable(record', n) => effects[n] <= overwritten'
  BY <1>2 DEF WritesFit, Allows
<1>4. (record.status # "cancelled" => Allows(record, overwritten))'
  BY <1>2, <1>3 DEF Allows
<1>5. /\ (record.status = "absent" => record = Absent)'
      /\ (\A n \in Node : effects[n] <= 1 + overwritten)'
  BY <1>2 DEF WritesFit
<1>6. ASSUME NEW g \in Handler,
             pc'[g] \in Copying \/ (pc'[g] = "starting" /\ registry' = "absent")
      PROVE  Allows(view[g], overwritten)'
  <2>1. CASE view'[g] = record'
    BY <1>2, <1>3, <2>1 DEF Allows
  <2>2. CASE pc'[g] = pc[g] /\ view'[g] = view[g]
    <3>1. Allows(view[g], overwritten)
      BY <1>6, <2>2 DEF WritesFit, RepeatsNeedOldStates
    <3>2. QED
      BY <1>2, <2>2, <3>1 DEF Allows
  <2>3. QED
    BY <1>6, <2>1, <2>2 DEF WritesFit, Copying
<1>7. ASSUME NEW g \in Handler, pc'[g] = "entered"
      PROVE  /\ view'[g].node[current'[g]] = "running"
             /\ effects'[current'[g]] <= overwritten'
             /\ Repeatable(record', current'[g]) => effects'[current'[g]] + 1 <= overwritten'
  <2>1. /\ pc[g] = "entered" /\ view'[g] = view[g] /\ current'[g] = current[g]
        /\ current[g] \in Node
    BY <1>7 DEF WritesFit, AutomationInv, OneExecutor
  <2>2. /\ view[g].node[current[g]] = "running"
        /\ effects[current[g]] <= overwritten
        /\ Repeatable(record, current[g]) => effects[current[g]] + 1 <= overwritten
    BY <2>1 DEF RepeatsNeedOldStates, WritesFit
  <2>3. Repeatable(record', current[g]) /\ record = v => Repeatable(record, current[g])
    BY <2>1 DEF WritesFit
  <2>4. QED
    BY <1>2, <2>1, <2>2, <2>3
<1>8. QED
  BY <1>1, <1>4, <1>5, <1>6, <1>7 DEF RepeatsNeedOldStates

\* The queue and the cancellation move; an answer is read.
LEMMA WaitingPreservesFew ==
  ASSUME AutomationInv, FewInv,
         \/ \E h \in Handler, j \in Jobs : Deliver(h, j)
         \/ \E j \in Jobs : TimesOut(j) \/ TimesOutUnhandled(j)
         \/ \E u \in User : ReadApproval(u)
         \/ ReadCancel \/ CancelJob \/ CancelEffects \/ Forget \/ Restart \/ ListQueued
         \/ Crash \/ UNCHANGED vars
  PROVE  FewInv'
<1>1. /\ Asks(record)
      /\ \A g \in Handler :
           /\ Asks(view[g])
           /\ pc[g] \in Copying => Allows(view[g], overwritten)
           /\ pc[g] = "starting" /\ registry = "absent" => Allows(view[g], overwritten)
  BY DEF FewInv, QuestionsAreOpen, RepeatsNeedOldStates
<1>2. CASE \E h \in Handler, j \in Jobs : Deliver(h, j)
  <2>1. HoldsFit
    BY <1>1, <1>2, CountsAreNumbers DEF Deliver, HoldsFit, userVars, historyVars, Copying
  <2>2. QED
    BY <2>1, HoldsFitPreservesFew
<1>3. CASE \E j \in Jobs : TimesOut(j) \/ TimesOutUnhandled(j)
  <2>1. HoldsFit
    BY <1>1, <1>3
       DEF TimesOut, TimesOutUnhandled, HoldsFit, userVars, handlerVars, historyVars
  <2>2. QED
    BY <2>1, HoldsFitPreservesFew
<1>4. CASE \E u \in User : ReadApproval(u)
  <2>1. HoldsFit
    BY <1>1, <1>4, CountsAreNumbers DEF ReadApproval, HoldsFit, handlerVars, historyVars
  <2>2. QED
    BY <2>1, HoldsFitPreservesFew
<1>5. CASE ReadCancel \/ CancelJob \/ CancelEffects \/ Restart \/ ListQueued \/ UNCHANGED vars
  <2>1. HoldsFit
    BY <1>1, <1>5
       DEF ReadCancel, CancelJob, CancelEffects, Restart, ListQueued, vars, HoldsFit, userVars,
           handlerVars, historyVars
  <2>2. QED
    BY <2>1, HoldsFitPreservesFew
<1>6. CASE Forget
  <2>1. HoldsFit
    BY <1>1, <1>6 DEF Forget, HoldsFit, userVars, handlerVars, historyVars
  <2>2. QED
    BY <2>1, HoldsFitPreservesFew
<1>7. CASE Crash
  <2>1. HoldsFit
    BY <1>1, <1>7, AbsentAsksNothing DEF Crash, HoldsFit, historyVars, Idle, Copying
  <2>2. QED
    BY <2>1, HoldsFitPreservesFew
<1>8. QED
  BY <1>2, <1>3, <1>4, <1>5, <1>6, <1>7

\* A delivery begins with the record as it is, or creates it.
LEMMA LoadPreservesFew ==
  ASSUME AutomationInv, FewInv, NEW h \in Handler, Load(h)
  PROVE  FewInv'
<1>1. UNCHANGED <<effects, overwritten, answering, registry, current>>
  BY DEF Load, userVars, historyVars
<1>2. /\ Asks(record)
      /\ record.status = "absent" => record = Absent
      /\ record.status # "cancelled" => Allows(record, overwritten)
      /\ \A g \in Handler :
           /\ Asks(view[g])
           /\ pc[g] \in Copying => Allows(view[g], overwritten)
           /\ pc[g] = "starting" /\ registry = "absent" => Allows(view[g], overwritten)
  BY DEF FewInv, QuestionsAreOpen, RepeatsNeedOldStates
<1>3. CASE record.status = "absent" /\ Create(h)
  <2>1. /\ record = Absent /\ record' = [Absent EXCEPT !.status = "queued", !.job = 1]
        /\ \A g \in Handler : g # h => view'[g] = view[g] /\ pc'[g] = pc[g]
        /\ \/ view'[h] = record' /\ pc'[h] = "starting"
           \/ view'[h] = Absent /\ pc'[h] = "idle"
    BY <1>2, <1>3, CountsAreNumbers DEF Create, JobEnds
  <2>2. /\ record'.status = "queued" /\ record'.node = record.node
        /\ record'.answer = "none"
    BY <2>1 DEF Absent
  <2>3. WritesFit(record)
    BY <1>1, <1>3, <2>1, <2>2, CountsAreNumbers
       DEF WritesFit, CountsOverwritten, Asks, Repeatable
  <2>4. QED
    BY <2>3, WritesFitPreservesFew
<1>4. CASE record.status \in {"queued", "running"} /\ Take(h)
  <2>1. HoldsFit
    BY <1>1, <1>2, <1>4, CountsAreNumbers DEF Take, HoldsFit, Copying
  <2>2. QED
    BY <2>1, HoldsFitPreservesFew
<1>5. CASE record' = record /\ \E outcome \in {"ok", "late", "error", "thrown"} :
                                  JobEnds(h, outcome)
  <2>1. /\ pc' = [pc EXCEPT ![h] = "idle"]
        /\ view' = [view EXCEPT ![h] = Absent]
    BY <1>5 DEF JobEnds
  <2>2. HoldsFit
    BY <1>1, <1>2, <1>5, <2>1, CountsAreNumbers, AbsentAsksNothing DEF HoldsFit, Copying
  <2>3. QED
    BY <2>2, HoldsFitPreservesFew
<1>6. QED
  BY <1>3, <1>4, <1>5 DEF Load

\* The failure is written over what the record has become, if it has the same status.
LEMMA RecordFailurePreservesFew ==
  ASSUME AutomationInv, FewInv, NEW h \in Handler, RecordFailure(h)
  PROVE  FewInv'
<1> DEFINE w == view[h]
<1>1. /\ UNCHANGED <<effects, answering, registry, current>>
      /\ pc[h] = "failed"
      /\ \A g \in Handler : \/ g # h /\ pc'[g] = pc[g] /\ view'[g] = view[g]
                            \/ g = h /\ pc'[g] = "idle" /\ view'[g] = Absent
  BY CountsAreNumbers DEF RecordFailure, JobEnds, userVars
<1>2. /\ w \in Record /\ Asks(w)
      /\ w.status \notin {"completed", "cancelled"}
      /\ \A g \in Handler :
           /\ Asks(view[g])
           /\ pc[g] \in Copying => Allows(view[g], overwritten)
           /\ pc[g] = "starting" /\ registry = "absent" => Allows(view[g], overwritten)
  BY <1>1, CountsAreNumbers
     DEF AutomationInv, WritersReadOpenRuns, Writing, FewInv, QuestionsAreOpen,
         RepeatsNeedOldStates
<1>3. CASE /\ record.status = w.status /\ record' = [w EXCEPT !.status = "failed"]
           /\ CountsOverwritten(w)
  <2>1. /\ record'.status = "failed" /\ record'.node = w.node
        /\ record'.answer = w.answer /\ record'.asked = w.asked
    BY <1>2, <1>3 DEF Record
  <2>2. WritesFit(w)
    BY <1>1, <1>2, <1>3, <2>1 DEF WritesFit, Asks, Repeatable
  <2>3. QED
    BY <2>2, WritesFitPreservesFew
<1>4. CASE record' = record /\ overwritten' = overwritten
  <2>1. HoldsFit
    BY <1>1, <1>2, <1>4, AbsentAsksNothing DEF HoldsFit, Copying
  <2>2. QED
    BY <2>1, HoldsFitPreservesFew
<1>5. QED
  BY <1>3, <1>4 DEF RecordFailure, Writes, Moved

\* A run is created, or a queued one fails because it cannot be enqueued.
LEMMA QueueingPreservesFew ==
  ASSUME AutomationInv, FewInv,
         \/ \E u \in User : StartAutomation(u) \/ DispatchAnswer(u)
         \/ Reconcile
  PROVE  FewInv'
<1>1. /\ UNCHANGED <<effects, overwritten, pc, view, current, registry>>
      /\ \A u \in User : answering'[u].at = "answer" => answering'[u] = answering[u]
  BY CountsAreNumbers
     DEF StartAutomation, Queued, DispatchAnswer, Reconcile, handlerVars, userVars,
         historyVars, Idle
<1>2. \/ record' = record
      \/ record.status = "queued" /\ record' = [record EXCEPT !.status = "failed"]
      \/ /\ record.status = "absent"
         /\ record' = [Absent EXCEPT !.status = "queued", !.job = 1, !.dispatched = TRUE]
  BY DEF StartAutomation, DispatchAnswer, Reconcile, Redispatch, Dispatch, Writes, Moved
<1>3. /\ Asks(record) /\ record \in Record
      /\ record.status = "absent" => record = Absent
      /\ \A g \in Handler :
           /\ Asks(view[g])
           /\ pc[g] \in Copying => Allows(view[g], overwritten)
           /\ pc[g] = "starting" /\ registry = "absent" => Allows(view[g], overwritten)
  BY CountsAreNumbers DEF FewInv, QuestionsAreOpen, RepeatsNeedOldStates
<1>4. CASE record' = record
  <2>1. HoldsFit
    BY <1>1, <1>3, <1>4 DEF HoldsFit
  <2>2. QED
    BY <2>1, HoldsFitPreservesFew
<1>5. CASE record' # record
  <2>1. /\ record'.node = record.node /\ record'.asked = record.asked
        /\ record'.answer = record.answer /\ record'.status \in {"queued", "failed"}
        /\ record.status # "cancelled"
    <3>1. CASE record.status = "queued" /\ record' = [record EXCEPT !.status = "failed"]
      BY <1>3, <3>1 DEF Record
    <3>2. CASE /\ record = Absent
               /\ record' = [Absent EXCEPT !.status = "queued", !.job = 1,
                                           !.dispatched = TRUE]
      BY <3>2 DEF Absent
    <3>3. QED
      BY <1>2, <1>3, <1>5, <3>1, <3>2
  <2>2. WritesFit(record)
    BY <1>1, <1>3, <2>1 DEF WritesFit, CountsOverwritten, Asks, Repeatable
  <2>3. QED
    BY <2>2, WritesFitPreservesFew
<1>6. QED
  BY <1>4, <1>5

\* The answer puts the asked node back, which has not worked since it was asked about,
\* unless the record has moved on.
LEMMA RespondPreservesFew ==
  ASSUME AutomationInv, FewInv, NEW u \in User, Respond(u)
  PROVE  FewInv'
<1> DEFINE v == answering[u].of
<1>1. /\ v \in Record /\ v.asked \in Node /\ v.asked \in NeedsApproval
      /\ v.node[v.asked] = "waiting_approval" /\ v.node \in [Node -> NodeStatus]
  BY DEF Respond, AutomationInv, AutomationTypeOK, CopiesAreSound, Sound, FewInv,
         QuestionsAreOpen, Asks, Record
<1>2. /\ UNCHANGED <<effects, pc, view, current, registry>>
      /\ \A w \in User : answering'[w].at = "answer" => answering'[w] = answering[w]
  BY CountsAreNumbers DEF Respond, Queued, handlerVars, Idle
<1>3. \A g \in Handler :
           /\ Asks(view[g])
           /\ pc[g] \in Copying => Allows(view[g], overwritten)
           /\ pc[g] = "starting" /\ registry = "absent" => Allows(view[g], overwritten)
  BY DEF FewInv, QuestionsAreOpen, RepeatsNeedOldStates
<1>4. \/ record' = record /\ overwritten' = overwritten
      \/ /\ record.status = "waiting_approval" /\ CountsOverwritten(v)
         /\ \/ \E j \in Unused : record' = Requeued(Approved(v), j)
            \/ \E j \in Unused : record' = Requeued(Rejected(v), j)
            \/ record' = [v EXCEPT !.status = "failed", !.answer = "none",
                                   !.node[v.asked] = "failed"]
  BY DEF Respond, Writes, Moved
<1> HIDE DEF v
<1>5. CASE record' = record /\ overwritten' = overwritten
  <2>1. HoldsFit
    BY <1>2, <1>3, <1>5 DEF HoldsFit
  <2>2. QED
    BY <2>1, HoldsFitPreservesFew
<1>6. CASE /\ record.status = "waiting_approval" /\ CountsOverwritten(v)
           /\ \/ \E j \in Unused : record' = Requeued(Approved(v), j)
              \/ \E j \in Unused : record' = Requeued(Rejected(v), j)
              \/ record' = [v EXCEPT !.status = "failed", !.answer = "none",
                                     !.node[v.asked] = "failed"]
  <2>1. /\ record'.status \in {"queued", "failed"} /\ record'.answer # "pending"
        /\ \E s \in {"pending", "failed"} : record'.node = [v.node EXCEPT ![v.asked] = s]
    <3>1. CASE \E j \in Unused : record' = Requeued(Approved(v), j)
      BY <1>1, <3>1 DEF Requeued, Approved, Record
    <3>2. CASE \E j \in Unused : record' = Requeued(Rejected(v), j)
      BY <1>1, <3>2 DEF Requeued, Rejected, Record
    <3>3. CASE record' = [v EXCEPT !.status = "failed", !.answer = "none",
                                   !.node[v.asked] = "failed"]
      BY <1>1, <3>3 DEF Record
    <3>4. QED
      BY <1>6, <3>1, <3>2, <3>3
  <2>2. \A n \in Node : Repeatable(record', n) => Repeatable(v, n)
    BY <1>1, <2>1 DEF Repeatable
  <2>3. WritesFit(v)
    BY <1>2, <1>6, <2>1, <2>2 DEF WritesFit, Asks
  <2>4. QED
    BY <2>3, WritesFitPreservesFew
<1>7. QED
  BY <1>4, <1>5, <1>6

\* A cancelled run has no node that would be run.
LEMMA WriteCancelledPreservesFew ==
  ASSUME AutomationInv, FewInv, WriteCancelled
  PROVE  FewInv'
<1> DEFINE v == cancelling.of
           left == [n \in Node |-> IF v.node[n] \in NodeEnded THEN v.node[n]
                                                              ELSE "cancelled"]
<1>1. UNCHANGED <<effects, overwritten, answering, pc, view, current>>
  BY DEF WriteCancelled, historyVars
<1>2. registry' = "absent" => registry = "absent"
  BY DEF WriteCancelled
<1>3. /\ v \in Record /\ v.status \notin Ended
      /\ \A n \in Node : left[n] \in NodeEnded
  BY DEF WriteCancelled, AutomationInv, AutomationTypeOK, WritersReadOpenRuns, NodeEnded
<1>4. \/ record.status = v.status /\ record' = [v EXCEPT !.status = "cancelled",
                                                  !.node = left, !.asked = 0,
                                                  !.answer = "none"]
      \/ record' = record
  BY DEF WriteCancelled, Writes, Moved
<1> HIDE DEF left, v
<1>5. CASE record' = record
  <2>1. HoldsFit
    BY <1>1, <1>2, <1>5 DEF HoldsFit, FewInv, QuestionsAreOpen, RepeatsNeedOldStates
  <2>2. QED
    BY <2>1, HoldsFitPreservesFew
<1>6. CASE record.status = v.status /\ record' = [v EXCEPT !.status = "cancelled",
                                                    !.node = left, !.asked = 0,
                                                    !.answer = "none"]
  <2>1. /\ record'.status = "cancelled" /\ record'.node = left
        /\ record'.answer = "none"
    BY <1>3, <1>6 DEF Record
  <2>2. \A n \in Node : ~Repeatable(record', n)
    BY <1>3, <2>1 DEF Repeatable, NodeEnded
  <2>3. WritesFit(record)
    BY <1>1, <1>2, <1>3, <1>6, <2>1, <2>2 DEF WritesFit, CountsOverwritten, Asks, Ended
  <2>4. QED
    BY <2>3, WritesFitPreservesFew
<1>7. QED
  BY <1>4, <1>5, <1>6

LEMMA NextPreservesFew ==
  ASSUME AutomationInv, FewInv, [Next]_vars
  PROVE  FewInv'
<1>1. ASSUME NEW h \in Handler, Executes(h)
      PROVE  FewInv'
  BY <1>1, LoadPreservesFew, HandlersPreserveFew, WritesPreserveFew, WorkPreservesFew,
     RecordFailurePreservesFew
     DEF Executes
<1>2. ASSUME NEW u \in User,
             StartAutomation(u) \/ ReadApproval(u) \/ Respond(u) \/ DispatchAnswer(u)
      PROVE  FewInv'
  BY <1>2, QueueingPreservesFew, WaitingPreservesFew, RespondPreservesFew
<1>3. CASE \/ Delivers \/ ReadCancel \/ CancelJob \/ CancelEffects \/ Forget \/ Crash
           \/ UNCHANGED vars
  BY <1>3, WaitingPreservesFew DEF Delivers
<1>4. CASE WriteCancelled \/ Process
  BY <1>4, WriteCancelledPreservesFew, WaitingPreservesFew, QueueingPreservesFew DEF Process
<1>5. ASSUME NEW j \in Jobs, TimesOut(j) \/ TimesOutUnhandled(j)
      PROVE  FewInv'
  BY <1>5, WaitingPreservesFew
<1>6. QED
  BY <1>1, <1>2, <1>3, <1>4, <1>5 DEF Next

------------------------------------------------------------------------------------
(* When older states are written back. While no job has been taken from a live      *)
(* executor one handler is at work at a time, and whoever writes has read the        *)
(* record as it is; a single user's answer too is to the question it was read from.  *)

\* Where a handler neither writes the record nor has found the run at work, ...
Resting == {"idle", "loading", "paused", "returning"}

\* ... and where it at most fails it.
Quiet == Resting \cup {"failing", "failed"}

OneUser == \A t, u \in User : t = u

\* A delivery lasts as long as its handler, unless the job is taken from it.
OneHandler ==
    /\ \A g, h \in Handler : handled[g] # 0 /\ handled[h] # 0 => g = h
    /\ timeouts = 0 => \A h \in Handler : pc[h] # "idle" => handled[h] # 0

\* A handler beyond its first read has found a run.
RunExists == \A h \in Handler : pc[h] \notin {"idle", "loading"} => record.status # "absent"

\* No executor is at work while the run waits for an answer.
WaitingRunsRest ==
    record.status = "waiting_approval" => \A h \in Handler : pc[h] \in Quiet

\* An executor goes on from a run that is open.
ExecutedRunsAreOpen ==
    \A h \in Handler :
      /\ pc[h] = "loop" => record.status \in {"running", "cancelled"}
      /\ pc[h] \in Copying \cup {"starting"} => view[h].status \in {"queued", "running"}

\* The failure is recorded in what was read, or the run has ended or been answered
\* meanwhile.
FailuresAreCurrent ==
    \A h \in Handler :
      pc[h] = "failed" => \/ record = view[h]
                          \/ record.status \in Ended /\ view[h].status \notin Ended
                          \/ /\ record.status = "queued"
                             /\ view[h].status = "waiting_approval"

\* What a user answers is the question that is open, or the run has ended.
AnswersAreCurrent ==
    \A u \in User :
      answering[u].at = "answer" => \/ record.status \in Ended
                                    \/ /\ record = answering[u].of
                                       /\ record.status = "waiting_approval"

WritesInOrder ==
    timeouts = 0 =>
      /\ WaitingRunsRest /\ ExecutedRunsAreOpen /\ FailuresAreCurrent
      /\ OneUser => AnswersAreCurrent /\ overwritten = 0

OrderInv == OneHandler /\ RunExists /\ WritesInOrder

\* What a step of a handler may do to the record and to the other handlers.
HandlerMoves(h) ==
    /\ pc[h] # "idle"
    /\ UNCHANGED <<answering, timeouts>>
    /\ \A g \in Handler : g # h => /\ pc'[g] = pc[g] /\ view'[g] = view[g]
                                   /\ handled'[g] = handled[g]
    /\ handled'[h] = handled[h] \/ (handled'[h] = 0 /\ pc'[h] = "idle")
    /\ overwritten' # overwritten => /\ pc[h] = "failed" /\ record # view[h]
                                     /\ record.status = view[h].status
    /\ record' # record =>
         /\ record.status \notin {"completed", "cancelled"} /\ record'.status # "absent"
         /\ \/ pc[h] = "loading" /\ record.status = "absent"
            \/ pc[h] = "failed" /\ record'.status = "failed"
            \/ pc[h] \in Copying /\ record.status = view[h].status
         /\ record'.status = "waiting_approval" => pc'[h] \in Resting
    /\ pc[h] \in Quiet /\ pc'[h] \notin Quiet => record'.status # "waiting_approval"
    /\ pc[h] = "loading" /\ pc'[h] # "idle" => record'.status # "absent"
    /\ pc'[h] # "loading"
    /\ pc'[h] = "failed" => pc[h] = "failing" /\ view'[h] = record'
    /\ pc'[h] = "loop" => record'.status = "running"
    /\ pc'[h] \in Copying \cup {"starting"} =>
         \/ pc[h] \in Copying \cup {"starting"} /\ view'[h].status = view[h].status
         \/ pc[h] = "loop" /\ view'[h] = record /\ record.status # "cancelled"
         \/ view'[h].status \in {"queued", "running"}

\* The writes of the executor.
LEMMA PersistMoves ==
  ASSUME AutomationInv, NEW h \in Handler, pc[h] \in Persisting,
         NEW v \in Record, NEW s \in RunStatus \ {"absent"},
         NEW next \in {"loop", "entered", "paused", "returning", "failing"},
         s = "waiting_approval" => next = "paused", next = "loop" => s = "running",
         v.status = view[h].status,
         Persist(h, v, s, next), UNCHANGED <<orchestration, historyVars>>
  PROVE  HandlerMoves(h)
<1>1. /\ \/ record' = record /\ pc'[h] = "failing"
         \/ /\ record.status = view[h].status
            /\ record' = [v EXCEPT !.status = s]
            /\ pc'[h] = next
      /\ pc'[h] \in {"loop", "entered", "paused", "returning", "failing"}
      /\ \A g \in Handler : g # h => pc'[g] = pc[g]
      /\ pc'[h] = "entered" => view'[h] = v
  BY CountsAreNumbers DEF Persist, Writes, Moved, Throws, Goes
<1>2. /\ \A g \in Handler : g # h => view'[g] = view[g]
      /\ UNCHANGED <<handled, answering, timeouts, overwritten>>
  BY CountsAreNumbers DEF Persist, queueVars, userVars, processVars, historyVars
<1>3. /\ view[h].status \notin {"completed", "cancelled"}
      /\ pc[h] \notin Quiet /\ pc[h] # "idle" /\ pc[h] # "loading" /\ pc[h] \in Copying
  BY DEF AutomationInv, WritersReadOpenRuns, Writing, Persisting, Quiet, Resting, Copying
<1>4. [v EXCEPT !.status = s].status = s
  BY DEF Record
<1>5. QED
  BY <1>1, <1>2, <1>3, <1>4 DEF HandlerMoves, Resting, Copying

\* Every step of a handler is of this kind.
LEMMA HandlersMove ==
  ASSUME AutomationInv, NEW h \in Handler, Executes(h)
  PROVE  HandlerMoves(h)
<1> DEFINE w == view[h]
<1>1. w \in Record /\ handled \in [Handler -> 0..MaxJobs]
  BY DEF AutomationInv, AutomationTypeOK
<1>2. CASE Interrupted(h) \/ Open(h) \/ Complete(h) \/ Skip(h) \/ Enter(h) \/ Ask(h)
             \/ RecordNode(h)
  <2>1. \E v \in Record, s \in RunStatus \ {"absent"},
           next \in {"loop", "entered", "paused", "returning", "failing"} :
          /\ pc[h] \in Persisting
          /\ s = "waiting_approval" => next = "paused"
          /\ next = "loop" => s = "running"
          /\ v.status = w.status
          /\ Persist(h, v, s, next) /\ UNCHANGED <<orchestration, historyVars>>
    <3> USE DEF Persisting, RunStatus, Ended
    <3>1. CASE Interrupted(h)
      <4> DEFINE settled == [n \in Node |-> IF w.node[n] = "running" THEN "failed"
                                                                     ELSE w.node[n]]
                 v == [w EXCEPT !.node = settled]
      <4>1. settled \in [Node -> NodeStatus]
        BY <1>1 DEF Record, NodeStatus
      <4>2. v \in Record /\ v.status = w.status
        BY <1>1, <4>1, RecordChanges DEF Record
      <4>3. /\ pc[h] = "interrupted" /\ Persist(h, v, "running", "failing")
            /\ UNCHANGED <<orchestration, historyVars>>
        BY <3>1 DEF Interrupted
      <4> HIDE DEF v
      <4>4. QED
        BY <4>2, <4>3
    <3>2. CASE Open(h) \/ RecordNode(h)
      BY <1>1, <3>2 DEF Open, RecordNode
    <3>3. CASE Complete(h)
      <4> DEFINE v == [w EXCEPT !.asked = 0, !.answer = "none"]
      <4>1. v \in Record /\ v.status = w.status
        <5>1. 0 \in 0..N
          OBVIOUS
        <5>2. QED
          BY <1>1, <5>1 DEF Record
      <4>2. /\ pc[h] = "completing" /\ Persist(h, v, "completed", "returning")
            /\ UNCHANGED <<orchestration, historyVars>>
        BY <3>3 DEF Complete
      <4> HIDE DEF v
      <4>3. QED
        BY <4>1, <4>2
    <3>4. CASE Skip(h)
      <4> DEFINE v == [w EXCEPT !.node[NextNode(w)] = "skipped"]
      <4>1. NextNode(w) \in Node
        BY <3>4, NextNodeIsPending DEF Skip
      <4>2. v \in Record /\ v.status = w.status
        <5>1. v \in Record
          BY <1>1, <4>1, RecordChanges DEF NodeStatus
        <5>2. v.status = w.status
          BY <1>1 DEF Record
        <5>3. QED
          BY <5>1, <5>2
      <4>3. /\ pc[h] = "step" /\ Persist(h, v, "running", "loop")
            /\ UNCHANGED <<orchestration, historyVars>>
        BY <3>4 DEF Skip
      <4> HIDE DEF v
      <4>4. QED
        BY <4>2, <4>3
    <3>5. CASE Enter(h)
      <4> DEFINE v == [w EXCEPT !.node[NextNode(w)] = "running"]
      <4>1. NextNode(w) \in Node
        BY <3>5, NextNodeIsPending DEF Enter
      <4>2. v \in Record /\ v.status = w.status
        <5>1. v \in Record
          BY <1>1, <4>1, RecordChanges DEF NodeStatus
        <5>2. v.status = w.status
          BY <1>1 DEF Record
        <5>3. QED
          BY <5>1, <5>2
      <4>3. /\ pc[h] = "step" /\ Persist(h, v, "running", "entered")
            /\ UNCHANGED <<orchestration, historyVars>>
        BY <3>5 DEF Enter
      <4> HIDE DEF v
      <4>4. QED
        BY <4>2, <4>3
    <3>6. CASE Ask(h)
      <4> DEFINE n == current[h]
                 v == [w EXCEPT !.node[n] = "waiting_approval", !.asked = n,
                                !.answer = "pending"]
      <4>1. pc[h] = "entered" /\ n \in Node /\ n \in 0..N
        BY <3>6 DEF Ask, AutomationInv, OneExecutor, Node
      <4>2. v \in Record /\ v.status = w.status
        <5> HIDE DEF n
        <5>1. QED
          BY <1>1, <4>1 DEF Record, NodeStatus
      <4>3. /\ Persist(h, v, "waiting_approval", "paused")
            /\ UNCHANGED <<orchestration, historyVars>>
        BY <3>6 DEF Ask
      <4> HIDE DEF v
      <4>4. QED
        BY <4>1, <4>2, <4>3
    <3>7. QED
      BY <1>2, <3>1, <3>2, <3>3, <3>4, <3>5, <3>6
  <2>2. QED
    BY <2>1, PersistMoves
<1>3. CASE Load(h)
  <2> USE DEF Load, HandlerMoves, Quiet, Resting, Copying, userVars, processVars, historyVars
  <2>1. CASE record.status = "absent" /\ Create(h)
    <3>1. record' = [Absent EXCEPT !.status = "queued", !.job = 1]
      BY <2>1 DEF Create
    <3>2. record'.status = "queued"
      BY <3>1 DEF Absent
    <3>3. /\ \A g \in Handler : g # h => /\ pc'[g] = pc[g] /\ view'[g] = view[g]
                                         /\ handled'[g] = handled[g]
          /\ \/ /\ pc'[h] = "starting" /\ handled'[h] = handled[h]
                /\ view'[h] = record'
             \/ pc'[h] = "idle" /\ handled'[h] = 0
      BY <1>1, <2>1, CountsAreNumbers DEF Create, JobEnds
    <3>4. QED
      BY <1>3, <2>1, <3>2, <3>3
  <2>2. CASE record.status \in {"queued", "running"} /\ Take(h)
    BY <1>3, <2>2, CountsAreNumbers DEF Take
  <2>3. CASE record' = record /\ \E outcome \in {"ok", "late", "error", "thrown"} :
                                    JobEnds(h, outcome)
    <3>1. /\ pc' = [pc EXCEPT ![h] = "idle"] /\ handled' = [handled EXCEPT ![h] = 0]
          /\ view' = [view EXCEPT ![h] = Absent]
      BY <2>3 DEF JobEnds
    <3>2. QED
      BY <1>1, <1>3, <2>3, <3>1, CountsAreNumbers
  <2>4. QED
    BY <1>3, <2>1, <2>2, <2>3
<1>4. CASE RecordFailure(h)
  <2>1. /\ pc[h] = "failed" /\ w.status \notin {"completed", "cancelled"}
        /\ [w EXCEPT !.status = "failed"].status = "failed"
    BY <1>1, <1>4
       DEF RecordFailure, AutomationInv, WritersReadOpenRuns, Writing, Record
  <2>2. /\ \/ /\ record.status = w.status /\ record'.status = "failed"
              /\ CountsOverwritten(w)
           \/ record' = record /\ overwritten' = overwritten
        /\ pc' = [pc EXCEPT ![h] = "idle"] /\ handled' = [handled EXCEPT ![h] = 0]
        /\ view' = [view EXCEPT ![h] = Absent]
        /\ UNCHANGED <<answering, timeouts>>
    BY <1>4, <2>1 DEF RecordFailure, JobEnds, Writes, Moved, userVars, processVars
  <2>3. QED
    BY <1>1, <2>1, <2>2, CountsAreNumbers
       DEF CountsOverwritten, HandlerMoves, Quiet, Resting, Copying
<1>5. CASE Start(h) \/ CannotStart(h) \/ Begin(h) \/ Loop(h) \/ Conclude(h)
  <2> USE DEF HandlerMoves, Quiet, Resting, Copying, queueVars, userVars, processVars,
              historyVars
  <2>1. CASE Start(h) \/ CannotStart(h)
    BY <2>1, CountsAreNumbers DEF Start, CannotStart
  <2>2. CASE Begin(h)
    <3>1. [w EXCEPT !.orchestrated = TRUE].status = w.status
      BY <1>1 DEF Record
    <3>2. QED
      BY <2>2, <3>1, CountsAreNumbers DEF Begin
  <2>3. CASE Loop(h)
    BY <2>3, CountsAreNumbers DEF Loop, Throws, Goes
  <2>4. CASE Conclude(h)
    BY <2>4, CountsAreNumbers DEF Conclude, Throws, Goes
  <2>5. QED
    BY <1>5, <2>1, <2>2, <2>3, <2>4
<1>6. CASE Breaks(h)
  <2>1. /\ pc[h] \in Executing /\ pc' = [pc EXCEPT ![h] = "failing"]
        /\ view' = [view EXCEPT ![h] = Absent]
        /\ UNCHANGED <<record, handled, answering, timeouts, overwritten>>
    BY <1>6 DEF Breaks, Throws, userVars, processVars, historyVars
  <2>2. QED
    BY <1>1, <2>1, CountsAreNumbers DEF HandlerMoves, Quiet, Resting, Copying, Executing
<1>7. CASE Paused(h)
  BY <1>7, CountsAreNumbers
     DEF Paused, HandlerMoves, Quiet, Resting, Copying, queueVars, userVars, processVars,
         historyVars
<1>8. CASE Work(h)
  <2>1. PICK result \in {"completed", "failed"} :
          view' = [view EXCEPT ![h] = Worked(w, current[h], result)]
    BY <1>8 DEF Work
  <2>2. Worked(w, current[h], result).status = w.status
    BY <1>1 DEF Worked, Record
  <2>3. view'[h].status = view[h].status
    BY <2>1, <2>2, CountsAreNumbers
  <2>4. QED
    BY <1>8, <2>3, CountsAreNumbers
       DEF Work, HandlerMoves, Quiet, Resting, Copying, queueVars, userVars, processVars,
           historyVars
<1>9. CASE Return(h)
  BY <1>1, <1>9, CountsAreNumbers
     DEF Return, JobEnds, HandlerMoves, Quiet, Resting, Copying, userVars, processVars, historyVars
<1>10. CASE Fail(h)
  BY <1>1, <1>10, CountsAreNumbers
     DEF Fail, JobEnds, HandlerMoves, Quiet, Resting, Copying, queueVars, userVars, processVars, historyVars
<1>11. QED
  BY <1>2, <1>3, <1>4, <1>5, <1>6, <1>7, <1>8, <1>9, <1>10 DEF Executes

LEMMA HandlerMovesPreserveOrder ==
  ASSUME AutomationInv, OrderInv, NEW h \in Handler, HandlerMoves(h)
  PROVE  OrderInv'
<1>1. OneHandler'
  BY DEF OrderInv, OneHandler, HandlerMoves
<1>2. RunExists'
  BY DEF OrderInv, RunExists, HandlerMoves
<1>3. ASSUME timeouts' = 0
      PROVE  WaitingRunsRest' /\ ExecutedRunsAreOpen' /\ FailuresAreCurrent'
                /\ (OneUser => AnswersAreCurrent' /\ overwritten' = 0)
  <2>1. /\ timeouts = 0
        /\ \A g \in Handler : g # h => pc[g] = "idle" /\ pc'[g] = "idle"
        /\ WaitingRunsRest /\ ExecutedRunsAreOpen /\ FailuresAreCurrent
        /\ OneUser => AnswersAreCurrent /\ overwritten = 0
    BY <1>3 DEF OrderInv, OneHandler, WritesInOrder, HandlerMoves
  <2>2. WaitingRunsRest'
    BY <2>1 DEF WaitingRunsRest, ExecutedRunsAreOpen, HandlerMoves, Quiet, Resting
  <2>3. ExecutedRunsAreOpen'
    BY <2>1 DEF ExecutedRunsAreOpen, HandlerMoves, Copying
  <2>4. FailuresAreCurrent'
    BY <2>1 DEF FailuresAreCurrent, HandlerMoves
  <2>5. ASSUME OneUser
        PROVE  AnswersAreCurrent' /\ overwritten' = 0
    <3>1. overwritten' = overwritten
      BY <2>1 DEF HandlerMoves, FailuresAreCurrent, Ended
    <3>2. AnswersAreCurrent'
      BY <2>1, <2>5 DEF AnswersAreCurrent, ExecutedRunsAreOpen, HandlerMoves, Ended
    <3>3. QED
      BY <2>1, <2>5, <3>1, <3>2
  <2>6. QED
    BY <2>2, <2>3, <2>4, <2>5
<1>4. QED
  BY <1>1, <1>2, <1>3 DEF OrderInv, WritesInOrder, OneUser

\* What a step of a user, of the queue or of the start of the process may do to the record.
OthersMove ==
    /\ UNCHANGED <<pc, view, handled, timeouts>>
    /\ \A u \in User : answering'[u].at = "answer" =>
                         \/ answering'[u] = answering[u]
                         \/ /\ record' = record /\ answering'[u].of = record
                            /\ record.status = "waiting_approval"
    /\ overwritten' # overwritten =>
         \E u \in User : /\ answering[u].at = "answer" /\ record # answering[u].of
                         /\ record.status = "waiting_approval"
    /\ record' # record =>
         \/ record.status = "absent" /\ record'.status = "queued"
         \/ record.status = "queued" /\ record'.status = "failed"
         \/ record.status \notin Ended /\ record'.status = "cancelled"
         \/ /\ record.status = "waiting_approval" /\ record'.status \in {"queued", "failed"}
            /\ \E u \in User : answering[u].at = "answer" /\ answering'[u].at # "answer"

LEMMA OthersMovePreservesOrder ==
  ASSUME AutomationInv, OrderInv, OthersMove
  PROVE  OrderInv'
<1>1. OneHandler'
  BY DEF OrderInv, OneHandler, OthersMove
<1>2. RunExists'
  BY DEF OrderInv, RunExists, OthersMove
<1>3. ASSUME timeouts' = 0
      PROVE  WaitingRunsRest' /\ ExecutedRunsAreOpen' /\ FailuresAreCurrent'
                /\ (OneUser => AnswersAreCurrent' /\ overwritten' = 0)
  <2>1. /\ timeouts = 0 /\ RunExists
        /\ WaitingRunsRest /\ ExecutedRunsAreOpen /\ FailuresAreCurrent
        /\ OneUser => AnswersAreCurrent /\ overwritten = 0
    BY <1>3 DEF OrderInv, WritesInOrder, OthersMove
  <2>2. WaitingRunsRest'
    BY <2>1 DEF WaitingRunsRest, OthersMove
  <2>3. ExecutedRunsAreOpen'
    BY <2>1 DEF ExecutedRunsAreOpen, OthersMove
  <2>4. FailuresAreCurrent'
    <3>1. ASSUME NEW g \in Handler, pc'[g] = "failed"
          PROVE  \/ record' = view'[g]
                 \/ record'.status \in Ended /\ view'[g].status \notin Ended
                 \/ record'.status = "queued" /\ view'[g].status = "waiting_approval"
      <4>1. /\ record.status # "absent"
            /\ \/ record = view[g]
               \/ record.status \in Ended /\ view[g].status \notin Ended
               \/ record.status = "queued" /\ view[g].status = "waiting_approval"
            /\ view'[g] = view[g]
        BY <2>1, <3>1 DEF OthersMove, RunExists, FailuresAreCurrent
      <4>2. QED
        BY <4>1 DEF OthersMove, Ended
    <3>2. QED
      BY <3>1 DEF FailuresAreCurrent
  <2>5. ASSUME OneUser
        PROVE  AnswersAreCurrent' /\ overwritten' = 0
    <3>1. AnswersAreCurrent /\ overwritten = 0
      BY <2>1, <2>5
    <3>2. overwritten' = overwritten
      BY <3>1 DEF AnswersAreCurrent, OthersMove, Ended
    <3>3. ASSUME NEW u \in User, answering'[u].at = "answer"
          PROVE  \/ record'.status \in Ended
                 \/ record' = answering'[u].of /\ record'.status = "waiting_approval"
      <4>1. CASE record' = record
        BY <3>1, <3>3, <4>1 DEF AnswersAreCurrent, OthersMove
      <4>2. CASE record' # record
        <5>1. answering'[u] = answering[u]
          BY <3>3, <4>2 DEF OthersMove
        <5>2. record.status \in Ended \cup {"waiting_approval"}
          BY <3>1, <3>3, <5>1 DEF AnswersAreCurrent
        <5>3. \A w \in User : w = u
          BY <2>5 DEF OneUser
        <5>4. QED
          BY <3>3, <4>2, <5>2, <5>3 DEF OthersMove, Ended
      <4>3. QED
        BY <4>1, <4>2
    <3>4. QED
      BY <3>1, <3>2, <3>3 DEF AnswersAreCurrent
  <2>6. QED
    BY <2>2, <2>3, <2>4, <2>5
<1>4. QED
  BY <1>1, <1>2, <1>3 DEF OrderInv, WritesInOrder, OneUser

\* A delivery is made when no other handler has one; a job that is taken away is counted.
LEMMA QueuePreservesOrder ==
  ASSUME AutomationInv, OrderInv,
         \/ \E h \in Handler, j \in Jobs : Deliver(h, j)
         \/ \E j \in Jobs : TimesOut(j)
         \/ Crash
  PROVE  OrderInv'
<1>1. CASE \E h \in Handler, j \in Jobs : Deliver(h, j)
  <2>1. PICK h \in Handler, j \in Jobs : Deliver(h, j)
    BY <1>1
  <2>2. /\ UNCHANGED <<record, view, answering, timeouts, overwritten>>
        /\ pc' = [pc EXCEPT ![h] = "loading"]
        /\ handled' = [handled EXCEPT ![h] = j]
        /\ \A g \in Handler : handled[g] = 0
        /\ j # 0 /\ handled \in [Handler -> 0..MaxJobs]
    BY <2>1
       DEF Deliver, Jobs, userVars, processVars, historyVars, AutomationInv,
           AutomationTypeOK
  <2>3. OneHandler' /\ RunExists'
    BY <2>2, CountsAreNumbers DEF OrderInv, OneHandler, RunExists
  <2>4. /\ WaitingRunsRest => WaitingRunsRest'
        /\ ExecutedRunsAreOpen => ExecutedRunsAreOpen'
        /\ FailuresAreCurrent => FailuresAreCurrent'
        /\ AnswersAreCurrent => AnswersAreCurrent'
    BY <2>2, CountsAreNumbers
       DEF WaitingRunsRest, ExecutedRunsAreOpen, FailuresAreCurrent, AnswersAreCurrent,
           Quiet, Resting, Copying
  <2>5. QED
    BY <2>2, <2>3, <2>4 DEF OrderInv, WritesInOrder, OneUser
<1>2. CASE \E j \in Jobs : TimesOut(j)
  <2>1. /\ timeouts' = timeouts + 1 /\ timeouts \in Nat
        /\ \A h \in Handler : handled'[h] \in {0, handled[h]}
        /\ UNCHANGED <<record, pc>>
    BY <1>2 DEF TimesOut, AutomationInv, AutomationTypeOK
  <2>2. timeouts' # 0
    BY <2>1
  <2>3. QED
    BY <2>1, <2>2 DEF OrderInv, OneHandler, RunExists, WritesInOrder
<1>3. CASE Crash
  <2>1. /\ UNCHANGED <<record, timeouts, overwritten>>
        /\ \A h \in Handler : pc'[h] = "idle" /\ handled'[h] = 0
        /\ \A u \in User : answering'[u].at = "idle"
    BY <1>3 DEF Crash, historyVars, Idle
  <2>2. QED
    BY <2>1
       DEF OrderInv, OneHandler, RunExists, WritesInOrder, WaitingRunsRest,
           ExecutedRunsAreOpen, FailuresAreCurrent, AnswersAreCurrent, OneUser, Quiet,
           Resting, Copying
<1>4. QED
  BY <1>1, <1>2, <1>3

\* Users, the queue's monitor and the start of the process.
LEMMA OthersPreserveOrder ==
  ASSUME AutomationInv, OrderInv,
         \/ \E j \in Jobs : TimesOutUnhandled(j)
         \/ \E u \in User : StartAutomation(u) \/ ReadApproval(u) \/ Respond(u)
                              \/ DispatchAnswer(u)
         \/ ReadCancel \/ CancelJob \/ CancelEffects \/ WriteCancelled \/ Forget \/ Process
         \/ UNCHANGED vars
  PROVE  OrderInv'
<1> USE DEF OthersMove
<1>1. record \in Record
  BY CountsAreNumbers
<1>2. CASE \/ \E j \in Jobs : TimesOutUnhandled(j)
           \/ ReadCancel \/ CancelJob \/ CancelEffects \/ Forget \/ Restart \/ ListQueued
           \/ UNCHANGED vars
  <2>1. UNCHANGED <<record, pc, view, handled, timeouts, answering, overwritten>>
    BY <1>2
       DEF TimesOutUnhandled, ReadCancel, CancelJob, CancelEffects, Forget, Restart,
           ListQueued, vars, handlerVars, userVars, processVars, historyVars
  <2>2. QED
    BY <2>1, OthersMovePreservesOrder
<1>3. CASE \E u \in User : StartAutomation(u)
  <2>1. /\ record.status = "absent"
        /\ record' = [Absent EXCEPT !.status = "queued", !.job = 1, !.dispatched = TRUE]
    BY <1>3 DEF StartAutomation
  <2>2. record'.status = "queued"
    BY <2>1 DEF Absent
  <2>3. OthersMove
    BY <1>3, <2>1, <2>2, CountsAreNumbers
       DEF StartAutomation, Queued, Idle, handlerVars, processVars, historyVars
  <2>4. QED
    BY <2>3, OthersMovePreservesOrder
<1>4. CASE \E u \in User : ReadApproval(u)
  <2>1. OthersMove
    BY <1>4, CountsAreNumbers DEF ReadApproval, handlerVars, processVars, historyVars
  <2>2. QED
    BY <2>1, OthersMovePreservesOrder
<1>5. ASSUME NEW u \in User, Respond(u)
      PROVE  OrderInv'
  <2> DEFINE v == answering[u].of
  <2>1. /\ UNCHANGED <<pc, view, handled, timeouts>>
        /\ answering[u].at = "answer" /\ answering'[u].at # "answer"
        /\ \A w \in User : w # u => answering'[w] = answering[w]
        /\ \/ record' = record /\ overwritten' = overwritten
           \/ record.status = "waiting_approval" /\ CountsOverwritten(v)
    <3>1. UNCHANGED <<pc, view, handled, timeouts>> /\ answering[u].at = "answer"
      BY <1>5 DEF Respond, handlerVars, processVars
    <3>2. \/ answering' = [answering EXCEPT ![u] = Idle]
          \/ answering' = [answering EXCEPT ![u] = [at |-> "dispatch", of |-> record']]
      BY <1>5 DEF Respond, Queued
    <3>3. \/ record' = record /\ overwritten' = overwritten
          \/ record.status = "waiting_approval" /\ CountsOverwritten(v)
      BY <1>5 DEF Respond, Writes, Moved
    <3>4. QED
      BY <3>1, <3>2, <3>3, CountsAreNumbers DEF Idle
  <2>2. record' # record => record'.status \in {"queued", "failed"}
    <3>1. v \in Record
      BY CountsAreNumbers
    <3>2. CASE record' = [v EXCEPT !.status = "failed", !.answer = "none",
                                   !.node[v.asked] = "failed"]
      BY <3>1, <3>2 DEF Record
    <3>3. CASE \E j \in Unused : \/ record' = Requeued(Approved(v), j)
                                 \/ record' = Requeued(Rejected(v), j)
      <4>1. v.asked \in NeedsApproval
        BY <2>1 DEF AutomationInv, CopiesAreSound, Sound
      <4> HIDE DEF v
      <4>2. QED
        BY <3>1, <3>3, <4>1, AnswersAreRecords, RequeuedIsRecord
    <3>4. QED
      BY <1>5, <3>2, <3>3 DEF Respond, Writes, Moved
  <2>3. OthersMove
    BY <2>1, <2>2 DEF CountsOverwritten
  <2>4. QED
    BY <2>3, OthersMovePreservesOrder
<1>6. CASE (\E u \in User : DispatchAnswer(u)) \/ Reconcile
  <2>1. \/ record' = record
        \/ record.status = "queued" /\ record' = [record EXCEPT !.status = "failed"]
    BY <1>6 DEF DispatchAnswer, Reconcile, Redispatch, Dispatch, Writes, Moved
  <2>2. record' = record \/ (record.status = "queued" /\ record'.status = "failed")
    BY <1>1, <2>1 DEF Record
  <2>3. OthersMove
    BY <1>6, <2>2, CountsAreNumbers
       DEF DispatchAnswer, Reconcile, Idle, handlerVars, userVars, processVars, historyVars
  <2>4. QED
    BY <2>3, OthersMovePreservesOrder
<1>7. CASE WriteCancelled
  <2>1. cancelling.of \in Record /\ cancelling.of.status \notin Ended
    BY <1>7 DEF WriteCancelled, AutomationInv, AutomationTypeOK, WritersReadOpenRuns
  <2>2. \/ record' = record
        \/ record.status \notin Ended /\ record'.status = "cancelled"
    BY <1>7, <2>1 DEF WriteCancelled, Writes, Moved, Record
  <2>3. OthersMove
    BY <1>7, <2>2 DEF WriteCancelled, CancelFails, queueVars, processVars, historyVars
  <2>4. QED
    BY <2>3, OthersMovePreservesOrder
<1>8. QED
  BY <1>2, <1>3, <1>4, <1>5, <1>6, <1>7 DEF Process

LEMMA NextPreservesOrder ==
  ASSUME AutomationInv, OrderInv, [Next]_vars
  PROVE  OrderInv'
<1>1. ASSUME NEW h \in Handler, Executes(h)
      PROVE  OrderInv'
  BY <1>1, HandlersMove, HandlerMovesPreserveOrder
<1>2. CASE Delivers \/ Crash \/ \E j \in Jobs : TimesOut(j)
  BY <1>2, QueuePreservesOrder DEF Delivers
<1>3. CASE \/ \E j \in Jobs : TimesOutUnhandled(j)
           \/ \E u \in User : StartAutomation(u) \/ ReadApproval(u) \/ Respond(u)
                                \/ DispatchAnswer(u)
           \/ ReadCancel \/ CancelJob \/ CancelEffects \/ WriteCancelled \/ Forget \/ Process
           \/ UNCHANGED vars
  BY <1>3, OthersPreserveOrder
<1>4. QED
  BY <1>1, <1>2, <1>3 DEF Next

\* For every graph and every number of users, handlers, repetitions, crashes and lost jobs:
\* no tool acts without the approval it needs, and one that has acted acts again only when
\* an older state of the run has been written over its record, once for each such write.
\* While no job is taken from a live executor and one user answers there is none of these
\* writes, whatever crashes, redeliveries, failures and cancellations come, and a tool acts
\* at most once.
THEOREM ToolsActOnce == Spec => []EffectsAreLicensed
<1>1. Init => AutomationInv /\ FewInv /\ OrderInv
  <2>1. Init => OrderInv
    BY DEF Init, OrderInv, OneHandler, RunExists, WritesInOrder, WaitingRunsRest,
           ExecutedRunsAreOpen, FailuresAreCurrent, AnswersAreCurrent, Quiet, Resting,
           Copying, Idle, Absent
  <2>2. QED
    BY <2>1, InitEstablishesInv, InitEstablishesFew
<1>2. AutomationInv /\ FewInv /\ OrderInv /\ [Next]_vars
        => AutomationInv' /\ FewInv' /\ OrderInv'
  BY NextPreservesInv, NextPreservesFew, NextPreservesOrder
<1>3. AutomationInv /\ FewInv /\ OrderInv => EffectsAreLicensed
  BY DEF AutomationInv, FewInv, RepeatsNeedOldStates, OrderInv, WritesInOrder, OneUser,
         EffectsAreLicensed, EffectsAreFew
<1>4. QED
  BY <1>1, <1>2, <1>3, PTL DEF Spec
====
