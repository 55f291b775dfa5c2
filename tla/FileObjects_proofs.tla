------------------------- MODULE FileObjects_proofs ---------------------------
(* Theorems about FileObjects: nothing that is referred to is collected, the   *)
(* check of the next start is broken by leftovers only, and the coordinator of *)
(* publications and collections keeps its books.                               *)
(*                                                                             *)
(* The inductive invariant has two parts. LockInv is what the coordinator      *)
(* promises on its own: its counter and its flag say who is inside, both lines *)
(* hold whoever waits, once. ObjectInv says what each call in progress knows   *)
(* of its file (Called), what a row owes its files on disk (Kept), and what a  *)
(* collection has found so far (Spared). The two meet where a collection has   *)
(* read the references: only because nobody is inside then can no commit add   *)
(* one that the sweep does not know.                                           *)
EXTENDS FileObjects, FiniteSetTheorems, SequenceTheorems, TLAPS

USE FileAssumption
USE DEF rowVars, diskVars, lockVars, callVars, purgeVars, Publishing, Removing, PlaceOfCall,
        Collecting, PlaceOfPurge

-------------------------------------------------------------------------------
(* The coordinator: who is inside, and who waits.                              *)

Inside == {w \in Worker : place[w] \in Publishing \cup {"leaving"}}
Collectors == {t \in Thread : purge[t] \in Collecting \cup {"leaving"}}

\* A queue that names everybody once.
Once(queue) == \A i, j \in 1..Len(queue) : queue[i] = queue[j] => i = j

Counted == activePublishers = Cardinality(Inside)

Apart ==
    /\ collecting <=> Collectors # {}
    /\ \A t, u \in Collectors : t = u
    /\ Inside = {} \/ Collectors = {}

Lines ==
    /\ Once(waitingPublishers) /\ Once(waitingCollectors)
    /\ Queued(waitingPublishers) = {w \in Worker : place[w] = "waiting"}
    /\ Queued(waitingCollectors) = {t \in Thread : purge[t] = "waiting"}

NobodyStuck ==
    /\ waitingCollectors # <<>> => Inside # {} \/ Collectors # {}
    /\ waitingPublishers # <<>> => Collectors # {} \/ waitingCollectors # <<>>

LockInv == Counted /\ Apart /\ Lines /\ NobodyStuck

-------------------------------------------------------------------------------
(* The rows, and what is on disk for them.                                     *)

Gone == {"deleted", "purged"}

\* What a call knows of its file or reference.
Called(w) ==
    /\ place[w] \in {"waiting"} \cup Publishing =>
           subject[w] \in File \cup Reference /\ content[w] \in Object
    /\ place[w] \in {"reserved", "stored", "placing"} => subject[w] \in File
    /\ place[w] \in {"reserved", "waiting"} \cup Publishing /\ subject[w] \in File =>
           content[w] = ContentOf[subject[w]] /\ fileStatus[subject[w]] # "unborn"
    /\ place[w] \in {"stored", "placing", "written"} => content[w] \in objects
    /\ place[w] = "written" /\ subject[w] \in File /\ fileStatus[subject[w]] \notin Gone =>
           subject[w] \in metadata
    /\ place[w] \in {"deleting", "removing"} => subject[w] \in File /\ fileStatus[subject[w]] \in Gone
    /\ \A f \in retired[w] : fileStatus[f] \in Gone

\* A file of a purged thread has no row; one that is ready is all that its source has,
\* and is on disk.
Kept(f) ==
    /\ threadStatus[ThreadOf[f]] = "purged" => fileStatus[f] \in {"unborn", "purged"}
    /\ fileStatus[f] = "purged" => threadStatus[ThreadOf[f]] = "purged"
    /\ fileStatus[f] = "ready" => f \in metadata
    /\ f \in metadata => fileStatus[f] # "unborn" /\ ContentOf[f] \in objects

\* A collection spares what is referred to.
Spared(t) ==
    /\ purge[t] # "none" => threadStatus[t] = "purged"
    /\ purge[t] \in {"scanning", "sweeping"} =>
           /\ \A f \in File : fileStatus[f] = "ready" => ContentOf[f] \in referenced
           /\ \A r \in Reference : reference[r] # None => reference[r] \in referenced
    /\ purge[t] = "sweeping" => \A f \in metadata : ContentOf[f] \in referenced

OneReady ==
    \A f, g \in File :
        /\ ThreadOf[f] = ThreadOf[g] /\ SourceOf[f] = SourceOf[g]
        /\ fileStatus[f] = "ready" /\ fileStatus[g] = "ready"
        => f = g

ObjectInv ==
    /\ \A w \in Worker : Called(w)
    /\ \A f \in File : Kept(f)
    /\ \A t \in Thread : Spared(t)
    /\ \A r \in Reference : reference[r] # None => reference[r] \in objects
    /\ OneReady

-------------------------------------------------------------------------------
(* Queues and sets.                                                            *)

\* A queue that names everybody once is as long as its set is large.
LEMMA LengthCounts ==
  ASSUME NEW S, IsFiniteSet(S), NEW queue \in Seq(S), Once(queue)
  PROVE  Len(queue) = Cardinality(Queued(queue))
<1>1. queue \in Bijection(1..Len(queue), Queued(queue))
  <2>1. queue \in [1..Len(queue) -> Queued(queue)]
    <3>1. DOMAIN queue = 1..Len(queue) /\ queue = [i \in 1..Len(queue) |-> queue[i]]
      OBVIOUS
    <3>2. QED
      BY <3>1 DEF Queued
  <2>2. queue \in Injection(1..Len(queue), Queued(queue))
    BY <2>1 DEF Injection, IsInjective, Once
  <2>3. queue \in Surjection(1..Len(queue), Queued(queue))
    BY <2>1 DEF Surjection, Queued
  <2>4. QED
    BY <2>2, <2>3 DEF Bijection
<1>2. Len(queue) \in Nat
  OBVIOUS
<1>3. QED
  BY <1>1, <1>2, FS_CountingElements DEF ExistsBijection

\* Who joins a queue is its last.
LEMMA JoinQueue ==
  ASSUME NEW S, NEW queue \in Seq(S), Once(queue), NEW e \in S, e \notin Queued(queue)
  PROVE  /\ Append(queue, e) \in Seq(S) /\ Append(queue, e) # <<>>
         /\ Once(Append(queue, e))
         /\ Queued(Append(queue, e)) = Queued(queue) \cup {e}
<1>1. PICK longer : longer = Append(queue, e)
  OBVIOUS
<1>2. /\ longer \in Seq(S) /\ Len(longer) = Len(queue) + 1 /\ Len(queue) \in Nat
      /\ \A i \in 1..Len(queue) : longer[i] = queue[i]
      /\ longer[Len(queue) + 1] = e
  BY <1>1, AppendProperties
<1>3. \A i \in 1..Len(longer) : i \in 1..Len(queue) \/ i = Len(queue) + 1
  BY <1>2
<1>4. \A i \in 1..Len(queue) : queue[i] # e /\ i \in 1..Len(longer)
  BY <1>2 DEF Queued
<1>5. Len(queue) + 1 \in 1..Len(longer)
  BY <1>2
<1>6. Once(longer)
  <2>1. SUFFICES ASSUME NEW i \in 1..Len(longer), NEW j \in 1..Len(longer),
                        longer[i] = longer[j]
                 PROVE  i = j
    BY DEF Once
  <2>2. QED
    BY <1>2, <1>3, <1>4, <2>1 DEF Once
<1>7. Queued(longer) = Queued(queue) \cup {e}
  <2>1. Queued(longer) \subseteq Queued(queue) \cup {e}
    BY <1>2, <1>3 DEF Queued
  <2>2. Queued(queue) \subseteq Queued(longer)
    BY <1>2, <1>4 DEF Queued
  <2>3. e \in Queued(longer)
    BY <1>2, <1>5 DEF Queued
  <2>4. QED
    BY <2>1, <2>2, <2>3
<1>8. longer # <<>>
  BY <1>2
<1>9. QED
  BY <1>1, <1>2, <1>6, <1>7, <1>8

\* Who is first leaves it.
LEMMA LeaveQueue ==
  ASSUME NEW S, NEW queue \in Seq(S), Once(queue), queue # <<>>
  PROVE  /\ Head(queue) \in S /\ Tail(queue) \in Seq(S)
         /\ Once(Tail(queue))
         /\ Head(queue) \in Queued(queue)
         /\ Queued(Tail(queue)) = Queued(queue) \ {Head(queue)}
<1>1. PICK tail, first : tail = Tail(queue) /\ first = Head(queue)
  OBVIOUS
<1>2. /\ tail \in Seq(S) /\ Len(tail) = Len(queue) - 1 /\ Len(queue) \in Nat \ {0}
      /\ \A i \in 1..Len(tail) : tail[i] = queue[i + 1]
      /\ first = queue[1] /\ first \in S
  BY <1>1, HeadTailProperties, EmptySeq
<1>3. \A i \in 1..Len(tail) : i + 1 \in 1..Len(queue) /\ i \in Nat
  BY <1>2
<1>4. 1 \in 1..Len(queue)
  BY <1>2
<1>5. Once(tail)
  <2>1. SUFFICES ASSUME NEW i \in 1..Len(tail), NEW j \in 1..Len(tail), tail[i] = tail[j]
                 PROVE  i = j
    BY DEF Once
  <2>2. i + 1 = j + 1
    BY <1>2, <1>3, <2>1 DEF Once
  <2>3. QED
    BY <1>3, <2>2
<1>6. Queued(tail) = Queued(queue) \ {first}
  <2>1. ASSUME NEW i \in 1..Len(tail)
        PROVE  tail[i] \in Queued(queue) \ {first}
    <3>1. tail[i] = queue[i + 1] /\ i + 1 \in 1..Len(queue) /\ i + 1 # 1
      BY <1>2, <1>3
    <3>2. queue[i + 1] # queue[1]
      BY <1>4, <3>1 DEF Once
    <3>3. QED
      BY <1>2, <3>1, <3>2 DEF Queued
  <2>2. ASSUME NEW i \in 1..Len(queue), queue[i] # first
        PROVE  queue[i] \in Queued(tail)
    <3>1. i - 1 \in 1..Len(tail) /\ (i - 1) + 1 = i
      BY <1>2, <2>2
    <3>2. tail[i - 1] = queue[i]
      BY <1>2, <3>1
    <3>3. QED
      BY <3>1, <3>2 DEF Queued
  <2>3. Queued(tail) \subseteq Queued(queue) \ {first}
    BY <2>1 DEF Queued
  <2>4. Queued(queue) \ {first} \subseteq Queued(tail)
    BY <2>2 DEF Queued
  <2>5. QED
    BY <2>3, <2>4
<1>7. first \in Queued(queue)
  BY <1>2, <1>4 DEF Queued
<1>8. QED
  BY <1>1, <1>2, <1>5, <1>6, <1>7

\* Nobody is in an empty queue, and somebody in one that is not.
LEMMA EmptyQueue ==
  ASSUME NEW S, NEW queue \in Seq(S)
  PROVE  queue = <<>> <=> Queued(queue) = {}
<1>1. CASE queue = <<>>
  BY <1>1, EmptySeq DEF Queued
<1>2. CASE queue # <<>>
  <2>1. 1 \in 1..Len(queue)
    BY <1>2, EmptySeq
  <2>2. queue[1] \in Queued(queue)
    BY <2>1 DEF Queued
  <2>3. QED
    BY <1>2, <2>2
<1>3. QED
  BY <1>1, <1>2

\* Calls and threads can be counted.
LEMMA CallsAreFinite ==
  ASSUME NEW S \in SUBSET Worker
  PROVE  IsFiniteSet(S) /\ Cardinality(S) \in Nat /\ (Cardinality(S) = 0 <=> S = {})
  BY FS_Subset, FS_CardinalityType, FS_EmptySet

-------------------------------------------------------------------------------
(* What the coordinator guarantees, and what each of its operations does.      *)

\* While somebody publishes nobody collects, and one thread's collection is the only one.
LEMMA SidesAreApart ==
  ASSUME LockInv
  PROVE  /\ \A w \in Worker, t \in Thread : ~(w \in Inside /\ t \in Collectors)
         /\ \A t, u \in Collectors : t = u
  BY DEF LockInv, Apart

\* The types of what the coordinator's operations change.
LockTypes ==
    /\ activePublishers \in Nat /\ collecting \in BOOLEAN
    /\ waitingPublishers \in Seq(Worker) /\ waitingCollectors \in Seq(Thread)
    /\ place \in [Worker -> PlaceOfCall]
    /\ purge \in [Thread -> PlaceOfPurge]

\* The queues of the next state, when they hold whoever waits there.
LEMMA LinesAre ==
  ASSUME NEW p, NEW c, waitingPublishers' = p, waitingCollectors' = c, Once(p), Once(c),
         Queued(p) = {w \in Worker : place'[w] = "waiting"},
         Queued(c) = {t \in Thread : purge'[t] = "waiting"}
  PROVE  Lines'
  BY DEF Lines, Once, Queued

\* Steps that let nobody in or out.
LEMMA LockStays ==
  ASSUME LockInv, UNCHANGED lockVars,
         \A w \in Worker : /\ w \in Inside' <=> w \in Inside
                           /\ place'[w] = "waiting" <=> place[w] = "waiting",
         \A t \in Thread : /\ t \in Collectors' <=> t \in Collectors
                           /\ purge'[t] = "waiting" <=> purge[t] = "waiting"
  PROVE  LockInv'
<1>1. Inside' = Inside /\ Collectors' = Collectors
  BY DEF Inside, Collectors
<1>2. /\ {w \in Worker : place'[w] = "waiting"} = {w \in Worker : place[w] = "waiting"}
      /\ {t \in Thread : purge'[t] = "waiting"} = {t \in Thread : purge[t] = "waiting"}
  OBVIOUS
<1>3. Counted' /\ Apart' /\ NobodyStuck'
  BY <1>1 DEF LockInv, Counted, Apart, NobodyStuck
<1>4. Lines'
  BY <1>2 DEF LockInv, Lines
<1>5. QED
  BY <1>3, <1>4 DEF LockInv

\* A publisher is admitted when nobody collects, and waits otherwise.
LEMMA PublisherEnters ==
  ASSUME LockTypes, LockInv, NEW w \in Worker, place[w] \in {"idle", "reserved"},
         AcquirePublisher(w), purge' = purge
  PROVE  LockInv' /\ LockTypes'
<1>1. Counted /\ Apart /\ Lines /\ NobodyStuck
  BY DEF LockInv
<1>2. Collectors' = Collectors
  BY DEF Collectors
<1>3. IsFiniteSet(Inside) /\ activePublishers \in Nat /\ w \notin Inside
  BY CallsAreFinite DEF Inside, LockTypes
<1>4. CASE AdmitsPublisher
  <2>1. /\ activePublishers' = activePublishers + 1
        /\ place' = [place EXCEPT ![w] = "admitted"]
        /\ UNCHANGED <<collecting, waitingPublishers, waitingCollectors>>
        /\ ~collecting /\ waitingCollectors = <<>>
    BY <1>4 DEF AcquirePublisher, AdmitsPublisher
  <2>2. Inside' = Inside \cup {w}
    BY <2>1 DEF Inside, LockTypes
  <2>3. Counted'
    <3>1. Cardinality(Inside') = Cardinality(Inside) + 1
      BY <1>3, <2>2, FS_AddElement
    <3>2. QED
      BY <1>1, <2>1, <3>1 DEF Counted
  <2>4. {v \in Worker : place'[v] = "waiting"} = {v \in Worker : place[v] = "waiting"}
    BY <2>1 DEF LockTypes
  <2>5. Lines'
    BY <1>1, <2>1, <2>4 DEF Lines
  <2>6. Apart' /\ NobodyStuck'
    BY <1>1, <1>2, <2>1 DEF Apart, NobodyStuck
  <2>7. LockTypes'
    BY <1>3, <2>1 DEF LockTypes
  <2>8. QED
    BY <2>3, <2>5, <2>6, <2>7 DEF LockInv
<1>5. CASE ~AdmitsPublisher
  <2>1. /\ waitingPublishers' = Append(waitingPublishers, w)
        /\ place' = [place EXCEPT ![w] = "waiting"]
        /\ UNCHANGED <<activePublishers, collecting, waitingCollectors>>
        /\ collecting \/ waitingCollectors # <<>>
    BY <1>5 DEF AcquirePublisher, AdmitsPublisher
  <2>2. Inside' = Inside
    BY <1>3, <2>1 DEF Inside, LockTypes
  <2>3. waitingPublishers \in Seq(Worker) /\ Once(waitingPublishers)
        /\ w \notin Queued(waitingPublishers)
    BY <1>1 DEF Lines, LockTypes
  <2>4. /\ waitingPublishers' \in Seq(Worker) /\ waitingPublishers' # <<>>
        /\ Once(waitingPublishers')
        /\ Queued(waitingPublishers') = Queued(waitingPublishers) \cup {w}
    BY <2>1, <2>3, JoinQueue
  <2>5. {v \in Worker : place'[v] = "waiting"} = {v \in Worker : place[v] = "waiting"} \cup {w}
    BY <2>1 DEF LockTypes
  <2>6. Lines'
    BY <1>1, <2>1, <2>4, <2>5, LinesAre DEF Lines
  <2>7. Counted' /\ Apart' /\ NobodyStuck'
    BY <1>1, <1>2, <2>1, <2>2 DEF Counted, Apart, NobodyStuck
  <2>8. LockTypes'
    BY <2>1, <2>4 DEF LockTypes
  <2>9. QED
    BY <2>6, <2>7, <2>8 DEF LockInv
<1>6. QED
  BY <1>4, <1>5

\* The last publisher to leave hands over to the first collector that waits.
LEMMA PublisherLeaves ==
  ASSUME LockTypes, LockInv, NEW w \in Worker, place[w] = "leaving",
         NEW next \in {"idle", "retiring"}, ReleasePublisher(w, next)
  PROVE  /\ LockInv' /\ LockTypes'
         /\ place' = [place EXCEPT ![w] = next]
         /\ \A t \in Thread :
                purge'[t] # purge[t] => purge[t] = "waiting" /\ purge'[t] = "admitted"
<1>1. Counted /\ Apart /\ Lines /\ NobodyStuck
  BY DEF LockInv
<1>2. w \in Inside /\ IsFiniteSet(Inside) /\ activePublishers \in Nat
  BY CallsAreFinite DEF Inside, LockTypes
<1>3. /\ activePublishers' = activePublishers - 1
      /\ place' = [place EXCEPT ![w] = next]
      /\ UNCHANGED waitingPublishers
  BY DEF ReleasePublisher
<1>4. Inside' = Inside \ {w}
  BY <1>3 DEF Inside, LockTypes
<1>5. /\ Cardinality(Inside') = Cardinality(Inside) - 1
      /\ Cardinality(Inside) \in Nat /\ Cardinality(Inside') \in Nat
      /\ Cardinality(Inside') = 0 <=> Inside' = {}
  <2>1. PICK remaining : remaining = Inside \ {w}
    OBVIOUS
  <2>2. remaining \in SUBSET Worker /\ Inside \in SUBSET Worker
    BY <2>1 DEF Inside
  <2>3. /\ Cardinality(Inside) \in Nat /\ Cardinality(remaining) \in Nat
        /\ Cardinality(remaining) = 0 <=> remaining = {}
    BY <2>2, CallsAreFinite
  <2>4. Cardinality(remaining) = Cardinality(Inside) - 1
    BY <1>2, <2>1, FS_RemoveElement
  <2>5. QED
    BY <1>4, <2>1, <2>3, <2>4
<1>6. /\ Counted' /\ activePublishers' \in Nat
      /\ activePublishers = 1 <=> Inside' = {}
  BY <1>1, <1>2, <1>3, <1>5 DEF Counted
<1>7. Collectors = {} /\ ~collecting
  BY <1>1, <1>2 DEF Apart
<1>8. {v \in Worker : place'[v] = "waiting"} = {v \in Worker : place[v] = "waiting"}
  BY <1>3 DEF LockTypes
<1>9. CASE activePublishers = 1 /\ waitingCollectors # <<>>
  <2>1. PICK t : t = Head(waitingCollectors)
    OBVIOUS
  <2>2. /\ collecting' = TRUE /\ waitingCollectors' = Tail(waitingCollectors)
        /\ purge' = [purge EXCEPT ![t] = "admitted"]
    BY <1>7, <1>9, <2>1 DEF ReleasePublisher
  <2>3. waitingCollectors \in Seq(Thread) /\ Once(waitingCollectors)
    BY <1>1 DEF Lines, LockTypes
  <2>4. /\ t \in Thread /\ t \in Queued(waitingCollectors)
        /\ waitingCollectors' \in Seq(Thread) /\ Once(waitingCollectors')
        /\ Queued(waitingCollectors') = Queued(waitingCollectors) \ {t}
    BY <1>9, <2>1, <2>2, <2>3, LeaveQueue
  <2>5. Collectors' = {t}
    BY <1>7, <2>2, <2>4 DEF Collectors, LockTypes
  <2>6. {u \in Thread : purge'[u] = "waiting"} = {u \in Thread : purge[u] = "waiting"} \ {t}
    BY <2>2, <2>4 DEF LockTypes
  <2>7. Lines'
    BY <1>1, <1>3, <1>8, <2>4, <2>6, LinesAre DEF Lines
  <2>8. Apart' /\ NobodyStuck'
    BY <1>6, <1>9, <2>2, <2>5 DEF Apart, NobodyStuck
  <2>9. LockTypes'
    BY <1>3, <1>6, <2>2, <2>4 DEF LockTypes
  <2>10. purge[t] = "waiting"
    BY <1>1, <2>4 DEF Lines
  <2>11. \A u \in Thread : purge'[u] = IF u = t THEN "admitted" ELSE purge[u]
    BY <2>2, <2>4 DEF LockTypes
  <2>12. QED
    BY <1>3, <1>6, <2>7, <2>8, <2>9, <2>10, <2>11 DEF LockInv
<1>10. CASE ~(activePublishers = 1 /\ waitingCollectors # <<>>)
  <2>1. UNCHANGED <<collecting, waitingCollectors, purge>>
    BY <1>10 DEF ReleasePublisher
  <2>2. Collectors' = Collectors
    BY <2>1 DEF Collectors
  <2>3. Lines'
    BY <1>1, <1>3, <1>8, <2>1 DEF Lines
  <2>4. Apart' /\ NobodyStuck'
    BY <1>1, <1>3, <1>6, <1>7, <1>10, <2>1, <2>2 DEF Apart, NobodyStuck
  <2>5. LockTypes'
    BY <1>3, <1>6, <2>1 DEF LockTypes
  <2>6. QED
    BY <1>3, <1>6, <2>1, <2>3, <2>4, <2>5 DEF LockInv
<1>11. QED
  BY <1>9, <1>10

\* A collection starts when nobody is inside, and waits otherwise.
LEMMA CollectorEnters ==
  ASSUME LockTypes, LockInv, NEW t \in Thread, purge[t] = "committed",
         AcquireCollector(t), place' = place
  PROVE  LockInv' /\ LockTypes'
<1>1. Counted /\ Apart /\ Lines /\ NobodyStuck
  BY DEF LockInv
<1>2. Inside' = Inside
  BY DEF Inside
<1>3. activePublishers = 0 <=> Inside = {}
  BY <1>1, CallsAreFinite DEF Counted, Inside
<1>4. CASE AdmitsCollector
  <2>1. /\ collecting' = TRUE
        /\ purge' = [purge EXCEPT ![t] = "admitted"]
        /\ UNCHANGED <<activePublishers, waitingPublishers, waitingCollectors>>
        /\ ~collecting /\ activePublishers = 0
    BY <1>4 DEF AcquireCollector, AdmitsCollector
  <2>2. Collectors = {} /\ Inside = {}
    BY <1>1, <1>3, <2>1 DEF Apart
  <2>3. Collectors' = {t}
    BY <2>1, <2>2 DEF Collectors, LockTypes
  <2>4. {u \in Thread : purge'[u] = "waiting"} = {u \in Thread : purge[u] = "waiting"}
    BY <2>1 DEF LockTypes
  <2>5. Lines'
    BY <1>1, <2>1, <2>4 DEF Lines
  <2>6. Counted' /\ Apart' /\ NobodyStuck'
    BY <1>1, <1>2, <2>1, <2>2, <2>3 DEF Counted, Apart, NobodyStuck
  <2>7. LockTypes'
    BY <2>1 DEF LockTypes
  <2>8. QED
    BY <2>5, <2>6, <2>7 DEF LockInv
<1>5. CASE ~AdmitsCollector
  <2>1. /\ waitingCollectors' = Append(waitingCollectors, t)
        /\ purge' = [purge EXCEPT ![t] = "waiting"]
        /\ UNCHANGED <<activePublishers, collecting, waitingPublishers>>
        /\ collecting \/ activePublishers # 0
    BY <1>5 DEF AcquireCollector, AdmitsCollector
  <2>2. Collectors' = Collectors
    BY <2>1 DEF Collectors, LockTypes
  <2>3. waitingCollectors \in Seq(Thread) /\ Once(waitingCollectors)
        /\ t \notin Queued(waitingCollectors)
    BY <1>1 DEF Lines, LockTypes
  <2>4. /\ waitingCollectors' \in Seq(Thread) /\ waitingCollectors' # <<>>
        /\ Once(waitingCollectors')
        /\ Queued(waitingCollectors') = Queued(waitingCollectors) \cup {t}
    BY <2>1, <2>3, JoinQueue
  <2>5. {u \in Thread : purge'[u] = "waiting"} = {u \in Thread : purge[u] = "waiting"} \cup {t}
    BY <2>1 DEF LockTypes
  <2>6. Lines'
    BY <1>1, <2>1, <2>4, <2>5, LinesAre DEF Lines
  <2>7. Counted' /\ Apart' /\ NobodyStuck'
    BY <1>1, <1>2, <1>3, <2>1, <2>2, <2>4 DEF Counted, Apart, NobodyStuck
  <2>8. LockTypes'
    BY <2>1, <2>4 DEF LockTypes
  <2>9. QED
    BY <2>6, <2>7, <2>8 DEF LockInv
<1>6. QED
  BY <1>4, <1>5

\* A collection that ends lets in the next one, or every publisher that waits.
LEMMA CollectorLeaves ==
  ASSUME LockTypes, LockInv, NEW t \in Thread, purge[t] = "leaving", ReleaseCollector(t)
  PROVE  /\ LockInv' /\ LockTypes'
         /\ \A v \in Thread : \/ purge'[v] = purge[v]
                              \/ v = t /\ purge'[v] = "done"
                              \/ purge[v] = "waiting" /\ purge'[v] = "admitted"
         /\ \A w \in Worker : \/ place'[w] = place[w]
                              \/ place[w] = "waiting" /\ place'[w] = "admitted"
<1>1. Counted /\ Apart /\ Lines /\ NobodyStuck
  BY DEF LockInv
<1>2. Collectors = {t} /\ Inside = {} /\ collecting
  BY <1>1 DEF Apart, Collectors
<1>3. CASE waitingCollectors # <<>>
  <2>1. PICK u : u = Head(waitingCollectors)
    OBVIOUS
  <2>2. /\ waitingCollectors' = Tail(waitingCollectors)
        /\ purge' = [purge EXCEPT ![t] = "done", ![u] = "admitted"]
        /\ UNCHANGED <<activePublishers, collecting, waitingPublishers, place>>
    BY <1>3, <2>1 DEF ReleaseCollector
  <2>3. waitingCollectors \in Seq(Thread) /\ Once(waitingCollectors)
    BY <1>1 DEF Lines, LockTypes
  <2>4. /\ u \in Thread /\ u \in Queued(waitingCollectors)
        /\ waitingCollectors' \in Seq(Thread) /\ Once(waitingCollectors')
        /\ Queued(waitingCollectors') = Queued(waitingCollectors) \ {u}
    BY <1>3, <2>1, <2>2, <2>3, LeaveQueue
  <2>5. purge[u] = "waiting"
    BY <1>1, <2>4 DEF Lines
  <2>6. \A v \in Thread : purge'[v] = IF v = u THEN "admitted"
                                       ELSE IF v = t THEN "done" ELSE purge[v]
    BY <2>2, <2>4 DEF LockTypes
  <2>7. Collectors' = {u}
    <3>1. \A v \in Thread : v \in Collectors => v = t
      BY <1>2
    <3>2. QED
      BY <2>4, <2>6, <3>1 DEF Collectors
  <2>8. {v \in Thread : purge'[v] = "waiting"} = {v \in Thread : purge[v] = "waiting"} \ {u}
    BY <2>6
  <2>9. Lines'
    BY <1>1, <2>2, <2>4, <2>8, LinesAre DEF Lines
  <2>10. Inside' = Inside
    BY <2>2 DEF Inside
  <2>11. Counted' /\ Apart' /\ NobodyStuck'
    BY <1>1, <1>2, <2>2, <2>7, <2>10 DEF Counted, Apart, NobodyStuck
  <2>12. LockTypes'
    BY <2>2, <2>4 DEF LockTypes
  <2>13. QED
    BY <2>2, <2>5, <2>6, <2>9, <2>11, <2>12 DEF LockInv
<1>4. CASE waitingCollectors = <<>>
  <2>1. /\ collecting' = FALSE
        /\ purge' = [purge EXCEPT ![t] = "done"]
        /\ activePublishers' = activePublishers + Len(waitingPublishers)
        /\ place' = [w \in Worker |->
                        IF w \in Queued(waitingPublishers) THEN "admitted" ELSE place[w]]
        /\ waitingPublishers' = <<>> /\ UNCHANGED waitingCollectors
    BY <1>4 DEF ReleaseCollector
  <2>2. waitingPublishers \in Seq(Worker) /\ Once(waitingPublishers)
    BY <1>1 DEF Lines, LockTypes
  <2>3. Inside' = Queued(waitingPublishers)
    BY <1>1, <1>2, <2>1 DEF Inside, LockTypes, Lines
  <2>4. activePublishers = 0
    BY <1>1, <1>2, CallsAreFinite DEF Counted, Inside
  <2>5. Counted' /\ activePublishers' \in Nat
    <3>1. IsFiniteSet(Queued(waitingPublishers))
      BY <1>1, CallsAreFinite DEF Lines
    <3>2. Len(waitingPublishers) = Cardinality(Queued(waitingPublishers))
      BY <2>2, <3>1, LengthCounts
    <3>3. Len(waitingPublishers) \in Nat
      BY <2>2
    <3>4. QED
      BY <2>1, <2>3, <2>4, <3>2, <3>3 DEF Counted
  <2>6. Collectors' = {}
    <3>1. \A v \in Thread : v \in Collectors => v = t
      BY <1>2
    <3>2. QED
      BY <2>1, <3>1 DEF Collectors, LockTypes
  <2>7. /\ {v \in Worker : place'[v] = "waiting"} = {}
        /\ {v \in Thread : purge'[v] = "waiting"} = {v \in Thread : purge[v] = "waiting"}
    BY <1>1, <2>1 DEF Lines, LockTypes
  <2>8. Queued(<<>>) = {} /\ Once(<<>>)
    BY EmptySeq DEF Queued, Once
  <2>9. Lines'
    BY <1>1, <2>1, <2>7, <2>8, LinesAre DEF Lines
  <2>10. Apart' /\ NobodyStuck'
    BY <1>4, <2>1, <2>6 DEF Apart, NobodyStuck
  <2>11. LockTypes'
    BY <2>1, <2>5, EmptySeq DEF LockTypes
  <2>12. \A v \in Thread : purge'[v] = IF v = t THEN "done" ELSE purge[v]
    BY <2>1 DEF LockTypes
  <2>13. \A w \in Worker : \/ place'[w] = place[w]
                           \/ place[w] = "waiting" /\ place'[w] = "admitted"
    <3>1. \A w \in Worker : w \in Queued(waitingPublishers) => place[w] = "waiting"
      BY <1>1 DEF Lines
    <3>2. QED
      BY <2>1, <3>1
  <2>14. QED
    BY <2>5, <2>9, <2>10, <2>11, <2>12, <2>13 DEF LockInv
<1>5. QED
  BY <1>3, <1>4

-------------------------------------------------------------------------------
(* Every action: types and coordinator first, then rows, files and objects.    *)

\* The inductive invariant.
FileInv == FileTypeOK /\ LockInv /\ ObjectInv

\* Reserving a row touches no object and no place in the coordinator.
LEMMA ReserveTypes ==
  ASSUME FileInv, NEW w \in Worker, NEW f \in File, Reserve(w, f)
  PROVE  FileTypeOK' /\ LockInv'
<1>1. FileTypeOK'
  BY DEF FileInv, FileTypeOK, Reserve
<1>2. \A v \in Worker : /\ v \in Inside' <=> v \in Inside
                        /\ place'[v] = "waiting" <=> place[v] = "waiting"
  BY DEF Inside, Reserve
<1>3. \A u \in Thread : /\ u \in Collectors' <=> u \in Collectors
                        /\ purge'[u] = "waiting" <=> purge[u] = "waiting"
  BY DEF Collectors, Reserve
<1>4. LockInv /\ UNCHANGED lockVars
  BY DEF FileInv, Reserve
<1>5. QED
  BY <1>1, <1>2, <1>3, <1>4, LockStays

\* A row that becomes pending is of a live thread; its call knows its content.
LEMMA ReserveObjects ==
  ASSUME FileInv, NEW w \in Worker, NEW f \in File, Reserve(w, f)
  PROVE  ObjectInv'
<1> USE DEF FileInv, FileTypeOK, ObjectInv, Gone
<1>1. ASSUME NEW x \in Worker
      PROVE  Called(x)'
  BY DEF Called, Reserve
<1>2. ASSUME NEW g \in File
      PROVE  Kept(g)'
  BY DEF Kept, Reserve
<1>3. ASSUME NEW s \in Thread
      PROVE  Spared(s)'
  BY DEF Spared, Reserve
<1>4. (\A q \in Reference : reference[q] # None => reference[q] \in objects)'
  BY DEF Reserve
<1>5. OneReady'
  BY DEF OneReady, Reserve
<1>6. QED
  BY <1>1, <1>2, <1>3, <1>4, <1>5

\* A repeated request of a ready row stays outside of the coordinator.
LEMMA ReplayTypes ==
  ASSUME FileInv, NEW w \in Worker, NEW f \in File, Replay(w, f)
  PROVE  FileTypeOK' /\ LockInv'
<1>1. FileTypeOK'
  BY DEF FileInv, FileTypeOK, Replay, Siblings
<1>2. \A v \in Worker : /\ v \in Inside' <=> v \in Inside
                        /\ place'[v] = "waiting" <=> place[v] = "waiting"
  BY DEF Inside, Replay
<1>3. \A u \in Thread : /\ u \in Collectors' <=> u \in Collectors
                        /\ purge'[u] = "waiting" <=> purge[u] = "waiting"
  BY DEF Collectors, Replay
<1>4. LockInv /\ UNCHANGED lockVars
  BY DEF FileInv, Replay
<1>5. QED
  BY <1>1, <1>2, <1>3, <1>4, LockStays

\* What it retires is deleted already: a ready row is the only one of its source.
LEMMA ReplayObjects ==
  ASSUME FileInv, NEW w \in Worker, NEW f \in File, Replay(w, f)
  PROVE  ObjectInv'
<1> USE DEF FileInv, FileTypeOK, ObjectInv, Gone
<1>1. ASSUME NEW x \in Worker
      PROVE  Called(x)'
  BY DEF Called, Replay, Siblings, OneReady
<1>2. ASSUME NEW g \in File
      PROVE  Kept(g)'
  BY DEF Kept, Replay
<1>3. ASSUME NEW s \in Thread
      PROVE  Spared(s)'
  BY DEF Spared, Replay
<1>4. (\A q \in Reference : reference[q] # None => reference[q] \in objects)'
  BY DEF Replay
<1>5. OneReady'
  BY DEF OneReady, Replay
<1>6. QED
  BY <1>1, <1>2, <1>3, <1>4, <1>5

\* A deletion does not go through the coordinator.
LEMMA DeleteTypes ==
  ASSUME FileInv, NEW w \in Worker, NEW f \in File, Delete(w, f)
  PROVE  FileTypeOK' /\ LockInv'
<1>1. FileTypeOK'
  BY DEF FileInv, FileTypeOK, Delete
<1>2. \A v \in Worker : /\ v \in Inside' <=> v \in Inside
                        /\ place'[v] = "waiting" <=> place[v] = "waiting"
  BY DEF Inside, Delete
<1>3. \A u \in Thread : /\ u \in Collectors' <=> u \in Collectors
                        /\ purge'[u] = "waiting" <=> purge[u] = "waiting"
  BY DEF Collectors, Delete
<1>4. LockInv /\ UNCHANGED lockVars
  BY DEF FileInv, Delete
<1>5. QED
  BY <1>1, <1>2, <1>3, <1>4, LockStays

\* The row goes before its metadata does, so a ready row still has both.
LEMMA DeleteObjects ==
  ASSUME FileInv, NEW w \in Worker, NEW f \in File, Delete(w, f)
  PROVE  ObjectInv'
<1> USE DEF FileInv, FileTypeOK, ObjectInv, Gone
<1>1. ASSUME NEW x \in Worker
      PROVE  Called(x)'
  BY DEF Called, Delete
<1>2. ASSUME NEW g \in File
      PROVE  Kept(g)'
  BY DEF Kept, Delete
<1>3. ASSUME NEW s \in Thread
      PROVE  Spared(s)'
  BY DEF Spared, Delete
<1>4. (\A q \in Reference : reference[q] # None => reference[q] \in objects)'
  BY DEF Delete
<1>5. OneReady'
  BY DEF OneReady, Delete
<1>6. QED
  BY <1>1, <1>2, <1>3, <1>4, <1>5

\* A publication of a reference asks the coordinator for admission.
LEMMA PublishReferenceTypes ==
  ASSUME FileInv, NEW w \in Worker, NEW r \in Reference, NEW o \in Object, PublishReference(w, r, o)
  PROVE  FileTypeOK' /\ LockInv'
<1>1. LockTypes /\ LockInv
  BY DEF FileInv, FileTypeOK, LockTypes
<1>2. LockInv' /\ LockTypes'
  BY <1>1, PublisherEnters DEF PublishReference
<1>3. FileTypeOK'
  BY <1>2 DEF FileInv, FileTypeOK, LockTypes, PublishReference
<1>4. QED
  BY <1>2, <1>3

\* Admitted or not, the call knows what it will publish.
LEMMA PublishReferenceObjects ==
  ASSUME FileInv, NEW w \in Worker, NEW r \in Reference, NEW o \in Object, PublishReference(w, r, o)
  PROVE  ObjectInv'
<1> USE DEF FileInv, FileTypeOK, ObjectInv, Gone
<1>1. ASSUME NEW x \in Worker
      PROVE  Called(x)'
  BY DEF Called, PublishReference, AcquirePublisher
<1>2. ASSUME NEW g \in File
      PROVE  Kept(g)'
  BY DEF Kept, PublishReference
<1>3. ASSUME NEW s \in Thread
      PROVE  Spared(s)'
  BY DEF Spared, PublishReference
<1>4. (\A q \in Reference : reference[q] # None => reference[q] \in objects)'
  BY DEF PublishReference
<1>5. OneReady'
  BY DEF OneReady, PublishReference
<1>6. QED
  BY <1>1, <1>2, <1>3, <1>4, <1>5

\* The publication of a reserved file asks the coordinator for admission.
LEMMA PublishFileTypes ==
  ASSUME FileInv, NEW w \in Worker, PublishFile(w)
  PROVE  FileTypeOK' /\ LockInv'
<1>1. LockTypes /\ LockInv
  BY DEF FileInv, FileTypeOK, LockTypes
<1>2. LockInv' /\ LockTypes'
  BY <1>1, PublisherEnters DEF PublishFile
<1>3. FileTypeOK'
  BY <1>2 DEF FileInv, FileTypeOK, LockTypes, PublishFile
<1>4. QED
  BY <1>2, <1>3

\* Admitted or not, the call knows what it will publish.
LEMMA PublishFileObjects ==
  ASSUME FileInv, NEW w \in Worker, PublishFile(w)
  PROVE  ObjectInv'
<1> USE DEF FileInv, FileTypeOK, ObjectInv, Gone
<1>1. ASSUME NEW x \in Worker
      PROVE  Called(x)'
  BY DEF Called, PublishFile, AcquirePublisher
<1>2. ASSUME NEW g \in File
      PROVE  Kept(g)'
  BY DEF Kept, PublishFile
<1>3. ASSUME NEW s \in Thread
      PROVE  Spared(s)'
  BY DEF Spared, PublishFile
<1>4. (\A q \in Reference : reference[q] # None => reference[q] \in objects)'
  BY DEF PublishFile
<1>5. OneReady'
  BY DEF OneReady, PublishFile
<1>6. QED
  BY <1>1, <1>2, <1>3, <1>4, <1>5

\* An object is stored inside of the coordinator.
LEMMA StoreObjectTypes ==
  ASSUME FileInv, NEW w \in Worker, StoreObject(w)
  PROVE  FileTypeOK' /\ LockInv'
<1>1. FileTypeOK'
  BY DEF FileInv, FileTypeOK, ObjectInv, Called, StoreObject
<1>2. \A v \in Worker : /\ v \in Inside' <=> v \in Inside
                        /\ place'[v] = "waiting" <=> place[v] = "waiting"
  BY DEF Inside, StoreObject
<1>3. \A u \in Thread : /\ u \in Collectors' <=> u \in Collectors
                        /\ purge'[u] = "waiting" <=> purge[u] = "waiting"
  BY DEF Collectors, StoreObject
<1>4. LockInv /\ UNCHANGED lockVars
  BY DEF FileInv, StoreObject
<1>5. QED
  BY <1>1, <1>2, <1>3, <1>4, LockStays

\* A clone stores nothing: the metadata of the file it copies pins the same object.
LEMMA StoreObjectObjects ==
  ASSUME FileInv, NEW w \in Worker, StoreObject(w)
  PROVE  ObjectInv'
<1> USE DEF FileInv, FileTypeOK, ObjectInv, Gone
<1>1. ASSUME NEW x \in Worker
      PROVE  Called(x)'
  BY DEF Called, Kept, StoreObject
<1>2. ASSUME NEW g \in File
      PROVE  Kept(g)'
  BY DEF Kept, StoreObject
<1>3. ASSUME NEW s \in Thread
      PROVE  Spared(s)'
  BY DEF Spared, StoreObject
<1>4. (\A q \in Reference : reference[q] # None => reference[q] \in objects)'
  BY DEF StoreObject
<1>5. OneReady'
  BY DEF OneReady, StoreObject
<1>6. QED
  BY <1>1, <1>2, <1>3, <1>4, <1>5

\* The directory of the metadata is made inside of the coordinator.
LEMMA MakeDirectoryTypes ==
  ASSUME FileInv, NEW w \in Worker, MakeDirectory(w)
  PROVE  FileTypeOK' /\ LockInv'
<1>1. FileTypeOK'
  BY DEF FileInv, FileTypeOK, ObjectInv, Called, MakeDirectory
<1>2. \A v \in Worker : /\ v \in Inside' <=> v \in Inside
                        /\ place'[v] = "waiting" <=> place[v] = "waiting"
  BY DEF Inside, MakeDirectory
<1>3. \A u \in Thread : /\ u \in Collectors' <=> u \in Collectors
                        /\ purge'[u] = "waiting" <=> purge[u] = "waiting"
  BY DEF Collectors, MakeDirectory
<1>4. LockInv /\ UNCHANGED lockVars
  BY DEF FileInv, MakeDirectory
<1>5. QED
  BY <1>1, <1>2, <1>3, <1>4, LockStays

\* Nothing refers to a directory.
LEMMA MakeDirectoryObjects ==
  ASSUME FileInv, NEW w \in Worker, MakeDirectory(w)
  PROVE  ObjectInv'
<1> USE DEF FileInv, FileTypeOK, ObjectInv, Gone
<1>1. ASSUME NEW x \in Worker
      PROVE  Called(x)'
  BY DEF Called, Kept, MakeDirectory
<1>2. ASSUME NEW g \in File
      PROVE  Kept(g)'
  BY DEF Kept, MakeDirectory
<1>3. ASSUME NEW s \in Thread
      PROVE  Spared(s)'
  BY DEF Spared, MakeDirectory
<1>4. (\A q \in Reference : reference[q] # None => reference[q] \in objects)'
  BY DEF MakeDirectory
<1>5. OneReady'
  BY DEF OneReady, MakeDirectory
<1>6. QED
  BY <1>1, <1>2, <1>3, <1>4, <1>5

\* Metadata is written inside of the coordinator.
LEMMA WriteMetadataTypes ==
  ASSUME FileInv, NEW w \in Worker, WriteMetadata(w)
  PROVE  FileTypeOK' /\ LockInv'
<1>1. FileTypeOK'
  BY DEF FileInv, FileTypeOK, ObjectInv, Called, WriteMetadata
<1>2. \A v \in Worker : /\ v \in Inside' <=> v \in Inside
                        /\ place'[v] = "waiting" <=> place[v] = "waiting"
  BY DEF Inside, WriteMetadata
<1>3. \A u \in Thread : /\ u \in Collectors' <=> u \in Collectors
                        /\ purge'[u] = "waiting" <=> purge[u] = "waiting"
  BY DEF Collectors, WriteMetadata
<1>4. LockInv /\ UNCHANGED lockVars
  BY DEF FileInv, WriteMetadata
<1>5. QED
  BY <1>1, <1>2, <1>3, <1>4, LockStays

\* The object of the metadata is on disk, and no collection has read the metadata files.
LEMMA WriteMetadataObjects ==
  ASSUME FileInv, NEW w \in Worker, WriteMetadata(w)
  PROVE  ObjectInv'
<1> USE DEF FileInv, FileTypeOK, ObjectInv, Gone
<1>1. /\ \A v \in Worker, u \in Thread : ~(v \in Inside /\ u \in Collectors)
      /\ \A u1, u2 \in Collectors : u1 = u2
  BY SidesAreApart
<1>2. ASSUME NEW x \in Worker
      PROVE  Called(x)'
  BY DEF Called, WriteMetadata
<1>3. ASSUME NEW g \in File
      PROVE  Kept(g)'
  BY DEF Called, Kept, WriteMetadata
<1>4. ASSUME NEW s \in Thread
      PROVE  Spared(s)'
  BY <1>1 DEF Spared, WriteMetadata, Inside, Collectors
<1>5. (\A q \in Reference : reference[q] # None => reference[q] \in objects)'
  BY DEF WriteMetadata
<1>6. OneReady'
  BY DEF OneReady, WriteMetadata
<1>7. QED
  BY <1>2, <1>3, <1>4, <1>5, <1>6

\* A commit happens inside of the coordinator.
LEMMA CommitTypes ==
  ASSUME FileInv, NEW w \in Worker, Commit(w)
  PROVE  FileTypeOK' /\ LockInv'
<1>1. FileTypeOK'
  <2> USE DEF FileInv, FileTypeOK, Commit
  <2>1. /\ fileStatus' \in [File -> {"unborn", "pending", "ready", "deleted", "purged"}]
        /\ retired' \in [Worker -> SUBSET File]
    <3>1. \A f : Siblings(f) \subseteq File
      BY DEF Siblings
    <3>2. retired' \in [Worker -> SUBSET File]
      <4>1. retired' = retired \/ retired' = [retired EXCEPT ![w] = Siblings(subject[w])]
        OBVIOUS
      <4>2. retired \in [Worker -> SUBSET File] /\ Siblings(subject[w]) \in SUBSET File
        BY <3>1
      <4>3. QED
        BY <4>1, <4>2
    <3>3. fileStatus' = fileStatus \/ Promote(subject[w])
      OBVIOUS
    <3>4. Promote(subject[w]) =>
              fileStatus' \in [File -> {"unborn", "pending", "ready", "deleted", "purged"}]
      BY DEF Promote
    <3>5. QED
      BY <3>2, <3>3, <3>4
  <2>2. reference' \in [Reference -> Object \cup {None}]
    OBVIOUS
  <2>3. QED
    BY <2>1, <2>2
<1>2. \A v \in Worker : /\ v \in Inside' <=> v \in Inside
                        /\ place'[v] = "waiting" <=> place[v] = "waiting"
  BY DEF Inside, Commit
<1>3. \A u \in Thread : /\ u \in Collectors' <=> u \in Collectors
                        /\ purge'[u] = "waiting" <=> purge[u] = "waiting"
  BY DEF Collectors, Commit
<1>4. LockInv /\ UNCHANGED lockVars
  BY DEF FileInv, Commit
<1>5. QED
  BY <1>1, <1>2, <1>3, <1>4, LockStays

\* A row becomes ready with object and metadata on disk and all its siblings deleted; no
\* collection has read the references.
LEMMA CommitObjects ==
  ASSUME FileInv, NEW w \in Worker, Commit(w)
  PROVE  ObjectInv'
<1> USE DEF FileInv, FileTypeOK, ObjectInv, Gone
<1>1. /\ \A v \in Worker, u \in Thread : ~(v \in Inside /\ u \in Collectors)
      /\ \A u1, u2 \in Collectors : u1 = u2
  BY SidesAreApart
<1>2. ASSUME NEW x \in Worker
      PROVE  Called(x)'
  <2>1. \A h \in File : /\ fileStatus[h] \in Gone => fileStatus'[h] \in Gone
                        /\ fileStatus[h] # "unborn" => fileStatus'[h] # "unborn"
    BY DEF Commit, Promote
  <2>2. CASE /\ subject[w] \in File /\ fileStatus[subject[w]] \in {"pending", "ready"}
             /\ retired' = [retired EXCEPT ![w] = Siblings(subject[w])]
             /\ IF fileStatus[subject[w]] = "pending" THEN Promote(subject[w])
                ELSE UNCHANGED fileStatus
    <3>1. ASSUME NEW h \in Siblings(subject[w])
          PROVE  h \in File /\ fileStatus'[h] \in Gone
      <4>1. CASE fileStatus[subject[w]] = "pending"
        BY <2>2, <4>1 DEF Promote, Siblings
      <4>2. CASE fileStatus[subject[w]] = "ready"
        BY <2>2, <4>2 DEF Siblings, OneReady
      <4>3. QED
        BY <2>2, <4>1, <4>2
    <3>2. \A h \in retired'[x] : fileStatus'[h] \in Gone
      BY <2>1, <2>2, <3>1 DEF Called
    <3>3. QED
      BY <2>1, <3>2 DEF Called, Commit
  <2>3. CASE retired' = retired
    BY <2>1, <2>3 DEF Called, Commit
  <2>4. QED
    BY <2>2, <2>3 DEF Commit
<1>3. ASSUME NEW g \in File
      PROVE  Kept(g)'
  BY <1>1 DEF Called, Kept, Commit, Promote, Siblings
<1>4. ASSUME NEW s \in Thread
      PROVE  Spared(s)'
  <2>1. purge[s] \notin {"scanning", "sweeping"}
    BY <1>1 DEF Commit, Inside, Collectors
  <2>2. QED
    BY <2>1 DEF Spared, Commit
<1>5. (\A q \in Reference : reference[q] # None => reference[q] \in objects)'
  <2>1. content[w] \in objects
    BY DEF Called, Commit
  <2>2. QED
    BY <2>1 DEF Commit
<1>6. OneReady'
  BY <1>1 DEF OneReady, Commit, Promote, Siblings
<1>7. QED
  BY <1>2, <1>3, <1>4, <1>5, <1>6

\* A publication that fails still has to leave.
LEMMA PublicationFailsTypes ==
  ASSUME FileInv, NEW w \in Worker, PublicationFails(w)
  PROVE  FileTypeOK' /\ LockInv'
<1>1. FileTypeOK'
  BY DEF FileInv, FileTypeOK, ObjectInv, Called, PublicationFails
<1>2. \A v \in Worker : /\ v \in Inside' <=> v \in Inside
                        /\ place'[v] = "waiting" <=> place[v] = "waiting"
  BY DEF Inside, PublicationFails
<1>3. \A u \in Thread : /\ u \in Collectors' <=> u \in Collectors
                        /\ purge'[u] = "waiting" <=> purge[u] = "waiting"
  BY DEF Collectors, PublicationFails
<1>4. LockInv /\ UNCHANGED lockVars
  BY DEF FileInv, PublicationFails
<1>5. QED
  BY <1>1, <1>2, <1>3, <1>4, LockStays

\* A publication that fails takes nothing back.
LEMMA PublicationFailsObjects ==
  ASSUME FileInv, NEW w \in Worker, PublicationFails(w)
  PROVE  ObjectInv'
<1> USE DEF FileInv, FileTypeOK, ObjectInv, Gone
<1>1. ASSUME NEW x \in Worker
      PROVE  Called(x)'
  BY DEF Called, PublicationFails
<1>2. ASSUME NEW g \in File
      PROVE  Kept(g)'
  BY DEF Kept, PublicationFails
<1>3. ASSUME NEW s \in Thread
      PROVE  Spared(s)'
  BY DEF Spared, PublicationFails
<1>4. (\A q \in Reference : reference[q] # None => reference[q] \in objects)'
  BY DEF PublicationFails
<1>5. OneReady'
  BY DEF OneReady, PublicationFails
<1>6. QED
  BY <1>1, <1>2, <1>3, <1>4, <1>5

\* A call leaves the coordinator, and may hand over to a collector.
LEMMA LeavePublicationTypes ==
  ASSUME FileInv, NEW w \in Worker, LeavePublication(w)
  PROVE  FileTypeOK' /\ LockInv'
<1>1. LockTypes /\ LockInv
  BY DEF FileInv, FileTypeOK, LockTypes
<1>2. LockInv' /\ LockTypes'
  BY <1>1, PublisherLeaves DEF LeavePublication
<1>3. FileTypeOK'
  BY <1>2 DEF FileInv, FileTypeOK, LockTypes, LeavePublication
<1>4. QED
  BY <1>2, <1>3

\* A collector that is let in has committed its purge.
LEMMA LeavePublicationObjects ==
  ASSUME FileInv, NEW w \in Worker, LeavePublication(w)
  PROVE  ObjectInv'
<1> USE DEF FileInv, FileTypeOK, ObjectInv, Gone
<1>1. LockTypes /\ LockInv
  BY DEF LockTypes
<1>2. PICK next \in {"idle", "retiring"} : ReleasePublisher(w, next)
  BY DEF LeavePublication
<1>3. /\ place' = [place EXCEPT ![w] = next]
      /\ \A u \in Thread :
              purge'[u] # purge[u] => purge[u] = "waiting" /\ purge'[u] = "admitted"
  BY <1>1, <1>2, PublisherLeaves DEF LeavePublication
<1>4. ASSUME NEW x \in Worker
      PROVE  Called(x)'
  BY <1>3 DEF Called, LeavePublication
<1>5. ASSUME NEW g \in File
      PROVE  Kept(g)'
  BY DEF Kept, LeavePublication
<1>6. ASSUME NEW s \in Thread
      PROVE  Spared(s)'
  BY <1>3 DEF Spared, LeavePublication
<1>7. (\A q \in Reference : reference[q] # None => reference[q] \in objects)'
  BY DEF LeavePublication
<1>8. OneReady'
  BY DEF OneReady, LeavePublication
<1>9. QED
  BY <1>4, <1>5, <1>6, <1>7, <1>8

\* Metadata is removed outside of the coordinator.
LEMMA RemoveMetadataTypes ==
  ASSUME FileInv, NEW w \in Worker, NEW f \in File, RemoveMetadata(w, f)
  PROVE  FileTypeOK' /\ LockInv'
<1>1. FileTypeOK'
  BY DEF FileInv, FileTypeOK, ObjectInv, Called, RemoveMetadata
<1>2. \A v \in Worker : /\ v \in Inside' <=> v \in Inside
                        /\ place'[v] = "waiting" <=> place[v] = "waiting"
  BY DEF FileInv, FileTypeOK, Inside, RemoveMetadata
<1>3. \A u \in Thread : /\ u \in Collectors' <=> u \in Collectors
                        /\ purge'[u] = "waiting" <=> purge[u] = "waiting"
  BY DEF Collectors, RemoveMetadata
<1>4. LockInv /\ UNCHANGED lockVars
  BY DEF FileInv, RemoveMetadata
<1>5. QED
  BY <1>1, <1>2, <1>3, <1>4, LockStays

\* The metadata removed is that of a deleted row.
LEMMA RemoveMetadataObjects ==
  ASSUME FileInv, NEW w \in Worker, NEW f \in File, RemoveMetadata(w, f)
  PROVE  ObjectInv'
<1> USE DEF FileInv, FileTypeOK, ObjectInv, Gone
<1>1. ASSUME NEW x \in Worker
      PROVE  Called(x)'
  BY DEF Called, RemoveMetadata
<1>2. ASSUME NEW g \in File
      PROVE  Kept(g)'
  BY DEF Called, Kept, RemoveMetadata
<1>3. ASSUME NEW s \in Thread
      PROVE  Spared(s)'
  BY DEF Spared, RemoveMetadata
<1>4. (\A q \in Reference : reference[q] # None => reference[q] \in objects)'
  BY DEF RemoveMetadata
<1>5. OneReady'
  BY DEF OneReady, RemoveMetadata
<1>6. QED
  BY <1>1, <1>2, <1>3, <1>4, <1>5

\* So is its directory.
LEMMA RemoveDirectoryTypes ==
  ASSUME FileInv, NEW w \in Worker, RemoveDirectory(w)
  PROVE  FileTypeOK' /\ LockInv'
<1>1. FileTypeOK'
  BY DEF FileInv, FileTypeOK, ObjectInv, Called, RemoveDirectory
<1>2. \A v \in Worker : /\ v \in Inside' <=> v \in Inside
                        /\ place'[v] = "waiting" <=> place[v] = "waiting"
  BY DEF FileInv, FileTypeOK, Inside, RemoveDirectory
<1>3. \A u \in Thread : /\ u \in Collectors' <=> u \in Collectors
                        /\ purge'[u] = "waiting" <=> purge[u] = "waiting"
  BY DEF Collectors, RemoveDirectory
<1>4. LockInv /\ UNCHANGED lockVars
  BY DEF FileInv, RemoveDirectory
<1>5. QED
  BY <1>1, <1>2, <1>3, <1>4, LockStays

\* The file in it is still that of a deleted row.
LEMMA RemoveDirectoryObjects ==
  ASSUME FileInv, NEW w \in Worker, RemoveDirectory(w)
  PROVE  ObjectInv'
<1> USE DEF FileInv, FileTypeOK, ObjectInv, Gone
<1>1. ASSUME NEW x \in Worker
      PROVE  Called(x)'
  BY DEF Called, RemoveDirectory
<1>2. ASSUME NEW g \in File
      PROVE  Kept(g)'
  BY DEF Called, Kept, RemoveDirectory
<1>3. ASSUME NEW s \in Thread
      PROVE  Spared(s)'
  BY DEF Spared, RemoveDirectory
<1>4. (\A q \in Reference : reference[q] # None => reference[q] \in objects)'
  BY DEF RemoveDirectory
<1>5. OneReady'
  BY DEF OneReady, RemoveDirectory
<1>6. QED
  BY <1>1, <1>2, <1>3, <1>4, <1>5

\* A removal that fails was outside of the coordinator.
LEMMA RemovalFailsTypes ==
  ASSUME FileInv, NEW w \in Worker, RemovalFails(w)
  PROVE  FileTypeOK' /\ LockInv'
<1>1. FileTypeOK'
  BY DEF FileInv, FileTypeOK, ObjectInv, Called, RemovalFails
<1>2. \A v \in Worker : /\ v \in Inside' <=> v \in Inside
                        /\ place'[v] = "waiting" <=> place[v] = "waiting"
  BY DEF FileInv, FileTypeOK, Inside, RemovalFails
<1>3. \A u \in Thread : /\ u \in Collectors' <=> u \in Collectors
                        /\ purge'[u] = "waiting" <=> purge[u] = "waiting"
  BY DEF Collectors, RemovalFails
<1>4. LockInv /\ UNCHANGED lockVars
  BY DEF FileInv, RemovalFails
<1>5. QED
  BY <1>1, <1>2, <1>3, <1>4, LockStays

\* It leaves rows and files as they are.
LEMMA RemovalFailsObjects ==
  ASSUME FileInv, NEW w \in Worker, RemovalFails(w)
  PROVE  ObjectInv'
<1> USE DEF FileInv, FileTypeOK, ObjectInv, Gone
<1>1. ASSUME NEW x \in Worker
      PROVE  Called(x)'
  BY DEF Called, RemovalFails
<1>2. ASSUME NEW g \in File
      PROVE  Kept(g)'
  BY DEF Called, Kept, RemovalFails
<1>3. ASSUME NEW s \in Thread
      PROVE  Spared(s)'
  BY DEF Spared, RemovalFails
<1>4. (\A q \in Reference : reference[q] # None => reference[q] \in objects)'
  BY DEF RemovalFails
<1>5. OneReady'
  BY DEF OneReady, RemovalFails
<1>6. QED
  BY <1>1, <1>2, <1>3, <1>4, <1>5

\* A thread is moved to the trash without the coordinator.
LEMMA TrashTypes ==
  ASSUME FileInv, NEW t \in Thread, Trash(t)
  PROVE  FileTypeOK' /\ LockInv'
<1>1. FileTypeOK'
  BY DEF FileInv, FileTypeOK, Trash
<1>2. \A v \in Worker : /\ v \in Inside' <=> v \in Inside
                        /\ place'[v] = "waiting" <=> place[v] = "waiting"
  BY DEF Inside, Trash
<1>3. \A u \in Thread : /\ u \in Collectors' <=> u \in Collectors
                        /\ purge'[u] = "waiting" <=> purge[u] = "waiting"
  BY DEF Collectors, Trash
<1>4. LockInv /\ UNCHANGED lockVars
  BY DEF FileInv, Trash
<1>5. QED
  BY <1>1, <1>2, <1>3, <1>4, LockStays

\* A thread in the trash keeps its rows.
LEMMA TrashObjects ==
  ASSUME FileInv, NEW t \in Thread, Trash(t)
  PROVE  ObjectInv'
<1> USE DEF FileInv, FileTypeOK, ObjectInv, Gone
<1>1. ASSUME NEW x \in Worker
      PROVE  Called(x)'
  BY DEF Called, Trash
<1>2. ASSUME NEW g \in File
      PROVE  Kept(g)'
  BY DEF Kept, Trash
<1>3. ASSUME NEW s \in Thread
      PROVE  Spared(s)'
  BY DEF Spared, Trash
<1>4. (\A q \in Reference : reference[q] # None => reference[q] \in objects)'
  BY DEF Trash
<1>5. OneReady'
  BY DEF OneReady, Trash
<1>6. QED
  BY <1>1, <1>2, <1>3, <1>4, <1>5

\* A thread is restored without the coordinator.
LEMMA RestoreTypes ==
  ASSUME FileInv, NEW t \in Thread, Restore(t)
  PROVE  FileTypeOK' /\ LockInv'
<1>1. FileTypeOK'
  BY DEF FileInv, FileTypeOK, Restore
<1>2. \A v \in Worker : /\ v \in Inside' <=> v \in Inside
                        /\ place'[v] = "waiting" <=> place[v] = "waiting"
  BY DEF Inside, Restore
<1>3. \A u \in Thread : /\ u \in Collectors' <=> u \in Collectors
                        /\ purge'[u] = "waiting" <=> purge[u] = "waiting"
  BY DEF Collectors, Restore
<1>4. LockInv /\ UNCHANGED lockVars
  BY DEF FileInv, Restore
<1>5. QED
  BY <1>1, <1>2, <1>3, <1>4, LockStays

\* Only a thread that was not purged is restored.
LEMMA RestoreObjects ==
  ASSUME FileInv, NEW t \in Thread, Restore(t)
  PROVE  ObjectInv'
<1> USE DEF FileInv, FileTypeOK, ObjectInv, Gone
<1>1. ASSUME NEW x \in Worker
      PROVE  Called(x)'
  BY DEF Called, Restore
<1>2. ASSUME NEW g \in File
      PROVE  Kept(g)'
  BY DEF Kept, Restore
<1>3. ASSUME NEW s \in Thread
      PROVE  Spared(s)'
  BY DEF Spared, Restore
<1>4. (\A q \in Reference : reference[q] # None => reference[q] \in objects)'
  BY DEF Restore
<1>5. OneReady'
  BY DEF OneReady, Restore
<1>6. QED
  BY <1>1, <1>2, <1>3, <1>4, <1>5

\* A thread in the trash has no purge under way yet.
LEMMA PurgeRowsTypes ==
  ASSUME FileInv, NEW t \in Thread, PurgeRows(t)
  PROVE  FileTypeOK' /\ LockInv'
<1>1. FileTypeOK'
  BY DEF FileInv, FileTypeOK, PurgeRows
<1>2. \A v \in Worker : /\ v \in Inside' <=> v \in Inside
                        /\ place'[v] = "waiting" <=> place[v] = "waiting"
  BY DEF Inside, PurgeRows
<1>3. \A u \in Thread : /\ u \in Collectors' <=> u \in Collectors
                        /\ purge'[u] = "waiting" <=> purge[u] = "waiting"
  BY DEF FileInv, ObjectInv, Spared, Collectors, PurgeRows
<1>4. LockInv /\ UNCHANGED lockVars
  BY DEF FileInv, PurgeRows
<1>5. QED
  BY <1>1, <1>2, <1>3, <1>4, LockStays

\* Every row of a purged thread goes, and no row outside of it.
LEMMA PurgeRowsObjects ==
  ASSUME FileInv, NEW t \in Thread, PurgeRows(t)
  PROVE  ObjectInv'
<1> USE DEF FileInv, FileTypeOK, ObjectInv, Gone
<1>1. ASSUME NEW x \in Worker
      PROVE  Called(x)'
  BY DEF Called, PurgeRows
<1>2. ASSUME NEW g \in File
      PROVE  Kept(g)'
  BY DEF Kept, PurgeRows
<1>3. ASSUME NEW s \in Thread
      PROVE  Spared(s)'
  BY DEF Spared, PurgeRows
<1>4. (\A q \in Reference : reference[q] # None => reference[q] \in objects)'
  BY DEF PurgeRows
<1>5. OneReady'
  BY DEF OneReady, PurgeRows
<1>6. QED
  BY <1>1, <1>2, <1>3, <1>4, <1>5

\* A purge asks the coordinator for its collection.
LEMMA CollectTypes ==
  ASSUME FileInv, NEW t \in Thread, Collect(t)
  PROVE  FileTypeOK' /\ LockInv'
<1>1. LockTypes /\ LockInv
  BY DEF FileInv, FileTypeOK, LockTypes
<1>2. LockInv' /\ LockTypes'
  BY <1>1, CollectorEnters DEF Collect
<1>3. FileTypeOK'
  BY <1>2 DEF FileInv, FileTypeOK, LockTypes, Collect
<1>4. QED
  BY <1>2, <1>3

\* Only the purge of a purged thread collects.
LEMMA CollectObjects ==
  ASSUME FileInv, NEW t \in Thread, Collect(t)
  PROVE  ObjectInv'
<1> USE DEF FileInv, FileTypeOK, ObjectInv, Gone
<1>1. ASSUME NEW x \in Worker
      PROVE  Called(x)'
  BY DEF Called, Collect
<1>2. ASSUME NEW g \in File
      PROVE  Kept(g)'
  BY DEF Kept, Collect
<1>3. ASSUME NEW s \in Thread
      PROVE  Spared(s)'
  BY DEF Spared, Collect, AcquireCollector
<1>4. (\A q \in Reference : reference[q] # None => reference[q] \in objects)'
  BY DEF Collect
<1>5. OneReady'
  BY DEF OneReady, Collect
<1>6. QED
  BY <1>1, <1>2, <1>3, <1>4, <1>5

\* The directories are removed inside of the coordinator.
LEMMA ClearThreadTypes ==
  ASSUME FileInv, NEW t \in Thread, ClearThread(t)
  PROVE  FileTypeOK' /\ LockInv'
<1>1. FileTypeOK'
  BY DEF FileInv, FileTypeOK, ClearThread
<1>2. \A v \in Worker : /\ v \in Inside' <=> v \in Inside
                        /\ place'[v] = "waiting" <=> place[v] = "waiting"
  BY DEF Inside, ClearThread
<1>3. \A u \in Thread : /\ u \in Collectors' <=> u \in Collectors
                        /\ purge'[u] = "waiting" <=> purge[u] = "waiting"
  BY DEF FileInv, FileTypeOK, Collectors, ClearThread
<1>4. LockInv /\ UNCHANGED lockVars
  BY DEF FileInv, ClearThread
<1>5. QED
  BY <1>1, <1>2, <1>3, <1>4, LockStays

\* A purged thread has no ready row whose metadata could be missed, and no call is inside.
LEMMA ClearThreadObjects ==
  ASSUME FileInv, NEW t \in Thread, ClearThread(t)
  PROVE  ObjectInv'
<1> USE DEF FileInv, FileTypeOK, ObjectInv, Gone
<1>1. /\ \A v \in Worker, u \in Thread : ~(v \in Inside /\ u \in Collectors)
      /\ \A u1, u2 \in Collectors : u1 = u2
  BY SidesAreApart
<1>2. ASSUME NEW x \in Worker
      PROVE  Called(x)'
  BY <1>1 DEF Called, ClearThread, Inside, Collectors
<1>3. ASSUME NEW g \in File
      PROVE  Kept(g)'
  BY DEF Kept, Spared, ClearThread
<1>4. ASSUME NEW s \in Thread
      PROVE  Spared(s)'
  BY DEF Spared, ClearThread
<1>5. (\A q \in Reference : reference[q] # None => reference[q] \in objects)'
  BY DEF ClearThread
<1>6. OneReady'
  BY DEF OneReady, ClearThread
<1>7. QED
  BY <1>2, <1>3, <1>4, <1>5, <1>6

\* References are read inside of the coordinator.
LEMMA ReadReferencesTypes ==
  ASSUME FileInv, NEW t \in Thread, ReadReferences(t)
  PROVE  FileTypeOK' /\ LockInv'
<1>1. FileTypeOK'
  BY DEF FileInv, FileTypeOK, ReadReferences, RowContents
<1>2. \A v \in Worker : /\ v \in Inside' <=> v \in Inside
                        /\ place'[v] = "waiting" <=> place[v] = "waiting"
  BY DEF Inside, ReadReferences
<1>3. \A u \in Thread : /\ u \in Collectors' <=> u \in Collectors
                        /\ purge'[u] = "waiting" <=> purge[u] = "waiting"
  BY DEF Collectors, ReadReferences
<1>4. LockInv /\ UNCHANGED lockVars
  BY DEF FileInv, ReadReferences
<1>5. QED
  BY <1>1, <1>2, <1>3, <1>4, LockStays

\* The only collection there is finds every row and every reference.
LEMMA ReadReferencesObjects ==
  ASSUME FileInv, NEW t \in Thread, ReadReferences(t)
  PROVE  ObjectInv'
<1> USE DEF FileInv, FileTypeOK, ObjectInv, Gone
<1>1. /\ \A v \in Worker, u \in Thread : ~(v \in Inside /\ u \in Collectors)
      /\ \A u1, u2 \in Collectors : u1 = u2
  BY SidesAreApart
<1>2. ASSUME NEW x \in Worker
      PROVE  Called(x)'
  BY DEF Called, ReadReferences
<1>3. ASSUME NEW g \in File
      PROVE  Kept(g)'
  BY DEF Kept, ReadReferences
<1>4. ASSUME NEW s \in Thread
      PROVE  Spared(s)'
  BY <1>1 DEF Spared, ReadReferences, RowContents, Collectors
<1>5. (\A q \in Reference : reference[q] # None => reference[q] \in objects)'
  BY DEF ReadReferences
<1>6. OneReady'
  BY DEF OneReady, ReadReferences
<1>7. QED
  BY <1>2, <1>3, <1>4, <1>5, <1>6

\* Metadata files are read inside of the coordinator.
LEMMA ScanMetadataTypes ==
  ASSUME FileInv, NEW t \in Thread, ScanMetadata(t)
  PROVE  FileTypeOK' /\ LockInv'
<1>1. FileTypeOK'
  BY DEF FileInv, FileTypeOK, ScanMetadata, MetadataContents
<1>2. \A v \in Worker : /\ v \in Inside' <=> v \in Inside
                        /\ place'[v] = "waiting" <=> place[v] = "waiting"
  BY DEF Inside, ScanMetadata
<1>3. \A u \in Thread : /\ u \in Collectors' <=> u \in Collectors
                        /\ purge'[u] = "waiting" <=> purge[u] = "waiting"
  BY DEF Collectors, ScanMetadata
<1>4. LockInv /\ UNCHANGED lockVars
  BY DEF FileInv, ScanMetadata
<1>5. QED
  BY <1>1, <1>2, <1>3, <1>4, LockStays

\* The only collection there is finds every metadata file.
LEMMA ScanMetadataObjects ==
  ASSUME FileInv, NEW t \in Thread, ScanMetadata(t)
  PROVE  ObjectInv'
<1> USE DEF FileInv, FileTypeOK, ObjectInv, Gone
<1>1. ASSUME NEW x \in Worker
      PROVE  Called(x)'
  BY DEF Called, ScanMetadata
<1>2. ASSUME NEW g \in File
      PROVE  Kept(g)'
  BY DEF Kept, ScanMetadata
<1>3. ASSUME NEW s \in Thread
      PROVE  Spared(s)'
  BY DEF Spared, ScanMetadata, MetadataContents
<1>4. (\A q \in Reference : reference[q] # None => reference[q] \in objects)'
  BY DEF ScanMetadata
<1>5. OneReady'
  BY DEF OneReady, ScanMetadata
<1>6. QED
  BY <1>1, <1>2, <1>3, <1>4, <1>5

\* Objects are removed inside of the coordinator.
LEMMA SweepTypes ==
  ASSUME FileInv, NEW t \in Thread, Sweep(t)
  PROVE  FileTypeOK' /\ LockInv'
<1>1. FileTypeOK'
  BY DEF FileInv, FileTypeOK, Sweep
<1>2. \A v \in Worker : /\ v \in Inside' <=> v \in Inside
                        /\ place'[v] = "waiting" <=> place[v] = "waiting"
  BY DEF Inside, Sweep
<1>3. \A u \in Thread : /\ u \in Collectors' <=> u \in Collectors
                        /\ purge'[u] = "waiting" <=> purge[u] = "waiting"
  BY DEF Collectors, Sweep
<1>4. LockInv /\ UNCHANGED lockVars
  BY DEF FileInv, Sweep
<1>5. QED
  BY <1>1, <1>2, <1>3, <1>4, LockStays

\* What is removed nobody refers to, and no call has stored it.
LEMMA SweepObjects ==
  ASSUME FileInv, NEW t \in Thread, Sweep(t)
  PROVE  ObjectInv'
<1> USE DEF FileInv, FileTypeOK, ObjectInv, Gone
<1>1. /\ \A v \in Worker, u \in Thread : ~(v \in Inside /\ u \in Collectors)
      /\ \A u1, u2 \in Collectors : u1 = u2
  BY SidesAreApart
<1>2. ASSUME NEW x \in Worker
      PROVE  Called(x)'
  BY <1>1 DEF Called, Sweep, Inside, Collectors
<1>3. ASSUME NEW g \in File
      PROVE  Kept(g)'
  BY DEF Kept, Spared, Sweep
<1>4. ASSUME NEW s \in Thread
      PROVE  Spared(s)'
  BY DEF Spared, Sweep
<1>5. (\A q \in Reference : reference[q] # None => reference[q] \in objects)'
  BY DEF Spared, Sweep
<1>6. OneReady'
  BY DEF OneReady, Sweep
<1>7. QED
  BY <1>2, <1>3, <1>4, <1>5, <1>6

\* A collection that ends still has to leave.
LEMMA EndCollectionTypes ==
  ASSUME FileInv, NEW t \in Thread, EndCollection(t)
  PROVE  FileTypeOK' /\ LockInv'
<1>1. FileTypeOK'
  BY DEF FileInv, FileTypeOK, EndCollection
<1>2. \A v \in Worker : /\ v \in Inside' <=> v \in Inside
                        /\ place'[v] = "waiting" <=> place[v] = "waiting"
  BY DEF Inside, EndCollection
<1>3. \A u \in Thread : /\ u \in Collectors' <=> u \in Collectors
                        /\ purge'[u] = "waiting" <=> purge[u] = "waiting"
  BY DEF Collectors, EndCollection
<1>4. LockInv /\ UNCHANGED lockVars
  BY DEF FileInv, EndCollection
<1>5. QED
  BY <1>1, <1>2, <1>3, <1>4, LockStays

\* What it found is forgotten with it.
LEMMA EndCollectionObjects ==
  ASSUME FileInv, NEW t \in Thread, EndCollection(t)
  PROVE  ObjectInv'
<1> USE DEF FileInv, FileTypeOK, ObjectInv, Gone
<1>1. /\ \A v \in Worker, u \in Thread : ~(v \in Inside /\ u \in Collectors)
      /\ \A u1, u2 \in Collectors : u1 = u2
  BY SidesAreApart
<1>2. ASSUME NEW x \in Worker
      PROVE  Called(x)'
  BY DEF Called, EndCollection
<1>3. ASSUME NEW g \in File
      PROVE  Kept(g)'
  BY DEF Kept, EndCollection
<1>4. ASSUME NEW s \in Thread
      PROVE  Spared(s)'
  BY <1>1 DEF Spared, EndCollection, Collectors
<1>5. (\A q \in Reference : reference[q] # None => reference[q] \in objects)'
  BY DEF EndCollection
<1>6. OneReady'
  BY DEF OneReady, EndCollection
<1>7. QED
  BY <1>2, <1>3, <1>4, <1>5, <1>6

\* A collection leaves the coordinator, and hands over to whoever waits.
LEMMA LeaveCollectionTypes ==
  ASSUME FileInv, NEW t \in Thread, LeaveCollection(t)
  PROVE  FileTypeOK' /\ LockInv'
<1>1. LockTypes /\ LockInv
  BY DEF FileInv, FileTypeOK, LockTypes
<1>2. LockInv' /\ LockTypes'
  BY <1>1, CollectorLeaves DEF LeaveCollection
<1>3. FileTypeOK'
  BY <1>2 DEF FileInv, FileTypeOK, LockTypes, LeaveCollection
<1>4. QED
  BY <1>2, <1>3

\* Who is let in knows what it will publish, or has committed its purge.
LEMMA LeaveCollectionObjects ==
  ASSUME FileInv, NEW t \in Thread, LeaveCollection(t)
  PROVE  ObjectInv'
<1> USE DEF FileInv, FileTypeOK, ObjectInv, Gone
<1>1. LockTypes /\ LockInv
  BY DEF LockTypes
<1>2. /\ \A v \in Thread : \/ purge'[v] = purge[v]
                           \/ v = t /\ purge'[v] = "done"
                           \/ purge[v] = "waiting" /\ purge'[v] = "admitted"
      /\ \A w \in Worker : \/ place'[w] = place[w]
                           \/ place[w] = "waiting" /\ place'[w] = "admitted"
  BY <1>1, CollectorLeaves DEF LeaveCollection
<1>3. ASSUME NEW x \in Worker
      PROVE  Called(x)'
  BY <1>2 DEF Called, LeaveCollection
<1>4. ASSUME NEW g \in File
      PROVE  Kept(g)'
  BY DEF Kept, LeaveCollection
<1>5. ASSUME NEW s \in Thread
      PROVE  Spared(s)'
  BY <1>2 DEF Spared, LeaveCollection
<1>6. (\A q \in Reference : reference[q] # None => reference[q] \in objects)'
  BY DEF LeaveCollection
<1>7. OneReady'
  BY DEF OneReady, LeaveCollection
<1>8. QED
  BY <1>3, <1>4, <1>5, <1>6, <1>7

-------------------------------------------------------------------------------
(* The start, a crash, and the theorems.                                       *)

\* Where no call and no purge is under way, the coordinator is free.
LEMMA NobodyInside ==
  ASSUME activePublishers = 0, collecting = FALSE,
         waitingPublishers = <<>>, waitingCollectors = <<>>,
         place = [w \in Worker |-> "idle"], purge = [t \in Thread |-> "none"]
  PROVE  LockInv
<1>1. Inside = {} /\ Collectors = {}
  BY DEF Inside, Collectors
<1>2. Queued(<<>>) = {} /\ Once(<<>>)
  BY EmptySeq DEF Queued, Once
<1>3. Counted
  BY <1>1, FS_EmptySet DEF Counted
<1>4. Lines
  BY <1>2 DEF Lines
<1>5. Apart /\ NobodyStuck
  BY <1>1 DEF Apart, NobodyStuck
<1>6. QED
  BY <1>3, <1>4, <1>5 DEF LockInv

\* The first start finds nothing.
LEMMA FilesStart ==
  ASSUME FileInit
  PROVE  FileInv
<1>1. FileTypeOK
  <2>1. <<>> \in Seq(Worker) /\ <<>> \in Seq(Thread)
    BY EmptySeq
  <2>2. QED
    BY <2>1 DEF FileInit, FileTypeOK
<1>2. LockInv
  BY NobodyInside DEF FileInit
<1>3. ObjectInv
  BY DEF FileInit, ObjectInv, Called, Kept, Spared, OneReady, Gone
<1>4. QED
  BY <1>1, <1>2, <1>3 DEF FileInv

\* A crash ends every call and every purge; rows and files stay as they are.
LEMMA CrashForgets ==
  ASSUME FileInv, Crash
  PROVE  FileInv'
<1>1. FileTypeOK'
  <2>1. <<>> \in Seq(Worker) /\ <<>> \in Seq(Thread)
    BY EmptySeq
  <2>2. QED
    BY <2>1 DEF FileInv, FileTypeOK, Crash
<1>2. LockInv'
  <2>1. Inside' = {} /\ Collectors' = {}
    BY DEF Inside, Collectors, Crash
  <2>2. Queued(<<>>) = {} /\ Once(<<>>)
    BY EmptySeq DEF Queued, Once
  <2>3. Counted'
    BY <2>1, FS_EmptySet DEF Counted, Crash
  <2>4. Lines'
    BY <2>2, LinesAre DEF Crash
  <2>5. Apart' /\ NobodyStuck'
    BY <2>1 DEF Apart, NobodyStuck, Crash
  <2>6. QED
    BY <2>3, <2>4, <2>5 DEF LockInv
<1>3. ObjectInv'
  BY DEF FileInv, FileTypeOK, Crash, ObjectInv, Called, Kept, Spared, OneReady, Gone
<1>4. QED
  BY <1>1, <1>2, <1>3 DEF FileInv

\* What changes at most whether the server runs.
LEMMA FilesStay ==
  ASSUME FileInv, up' \in BOOLEAN, UNCHANGED <<rowVars, diskVars, lockVars, callVars, purgeVars>>
  PROVE  FileInv'
<1>1. FileTypeOK'
  BY DEF FileInv, FileTypeOK
<1>2. LockInv'
  BY LockStays DEF FileInv, Inside, Collectors
<1>3. ObjectInv'
  BY DEF FileInv, ObjectInv, Called, Kept, Spared, OneReady, Gone
<1>4. QED
  BY <1>1, <1>2, <1>3 DEF FileInv

\* Every step keeps the invariant.
LEMMA FilesStep ==
  ASSUME FileInv, [FileNext]_fileVars
  PROVE  FileInv'
<1>1. ASSUME NEW w \in Worker, NEW f \in File,
             Reserve(w, f) \/ Replay(w, f) \/ Delete(w, f) \/ RemoveMetadata(w, f)
      PROVE  FileInv'
  BY <1>1, ReserveTypes, ReserveObjects, ReplayTypes, ReplayObjects, DeleteTypes, DeleteObjects,
     RemoveMetadataTypes, RemoveMetadataObjects DEF FileInv
<1>2. ASSUME NEW w \in Worker, NEW r \in Reference, NEW o \in Object, PublishReference(w, r, o)
      PROVE  FileInv'
  BY <1>2, PublishReferenceTypes, PublishReferenceObjects DEF FileInv
<1>3. ASSUME NEW w \in Worker,
             \/ PublishFile(w) \/ StoreObject(w) \/ MakeDirectory(w) \/ WriteMetadata(w)
             \/ Commit(w) \/ PublicationFails(w) \/ LeavePublication(w)
             \/ RemoveDirectory(w) \/ RemovalFails(w)
      PROVE  FileInv'
  <2>1. CASE PublishFile(w) \/ StoreObject(w) \/ MakeDirectory(w) \/ WriteMetadata(w)
    BY <2>1, PublishFileTypes, PublishFileObjects, StoreObjectTypes, StoreObjectObjects,
       MakeDirectoryTypes, MakeDirectoryObjects, WriteMetadataTypes, WriteMetadataObjects
       DEF FileInv
  <2>2. CASE Commit(w) \/ PublicationFails(w) \/ LeavePublication(w)
    BY <2>2, CommitTypes, CommitObjects, PublicationFailsTypes, PublicationFailsObjects,
       LeavePublicationTypes, LeavePublicationObjects DEF FileInv
  <2>3. CASE RemoveDirectory(w) \/ RemovalFails(w)
    BY <2>3, RemoveDirectoryTypes, RemoveDirectoryObjects, RemovalFailsTypes,
       RemovalFailsObjects DEF FileInv
  <2>4. QED
    BY <1>3, <2>1, <2>2, <2>3
<1>4. ASSUME NEW t \in Thread,
             \/ Trash(t) \/ Restore(t) \/ PurgeRows(t) \/ Collect(t) \/ ClearThread(t)
             \/ ReadReferences(t) \/ ScanMetadata(t) \/ Sweep(t) \/ EndCollection(t)
             \/ LeaveCollection(t)
      PROVE  FileInv'
  <2>1. CASE Trash(t) \/ Restore(t) \/ PurgeRows(t) \/ Collect(t) \/ ClearThread(t)
    BY <2>1, TrashTypes, TrashObjects, RestoreTypes, RestoreObjects, PurgeRowsTypes,
       PurgeRowsObjects, CollectTypes, CollectObjects, ClearThreadTypes, ClearThreadObjects
       DEF FileInv
  <2>2. CASE \/ ReadReferences(t) \/ ScanMetadata(t) \/ Sweep(t) \/ EndCollection(t)
             \/ LeaveCollection(t)
    BY <2>2, ReadReferencesTypes, ReadReferencesObjects, ScanMetadataTypes,
       ScanMetadataObjects, SweepTypes, SweepObjects, EndCollectionTypes,
       EndCollectionObjects, LeaveCollectionTypes, LeaveCollectionObjects DEF FileInv
  <2>3. QED
    BY <1>4, <2>1, <2>2
<1>5. ASSUME Crash \/ Restart \/ UNCHANGED fileVars
      PROVE  FileInv'
  <2>1. CASE Restart
    BY <2>1, FilesStay DEF Restart
  <2>2. CASE UNCHANGED fileVars
    <3>1. up' \in BOOLEAN
      BY <2>2 DEF fileVars, FileInv, FileTypeOK
    <3>2. QED
      BY <2>2, <3>1, FilesStay DEF fileVars
  <2>3. QED
    BY <1>5, <2>1, <2>2, CrashForgets
<1>6. QED
  BY <1>1, <1>2, <1>3, <1>4, <1>5 DEF FileNext

\* The invariant says what the properties say.
LEMMA FilesAreSafe ==
  ASSUME FileInv
  PROVE  ReferencedObjectsExist /\ OnlyLeftoversBreakIntegrity /\ CoordinatorNeverStalls
<1>1. ReferencedObjectsExist
  BY DEF FileInv, ObjectInv, Kept, ReferencedObjectsExist
<1>2. OnlyLeftoversBreakIntegrity
  BY DEF FileInv, FileTypeOK, ObjectInv, Kept, OnlyLeftoversBreakIntegrity, RuntimeIntegrity
<1>3. CoordinatorNeverStalls
  BY DEF FileInv, LockInv, Counted, Apart, Lines, NobodyStuck, Inside, Collectors,
         CoordinatorNeverStalls
<1>4. QED
  BY <1>1, <1>2, <1>3

\* It holds in every behaviour.
LEMMA FilesAlways == FileSpec => []FileInv
  BY FilesStart, FilesStep, PTL DEF FileSpec

\* Nothing that is referred to is ever collected (ReferencedObjectsExist): whatever a
\* committed row, a reference or a metadata file names is on disk.
THEOREM ReferencedObjectsAlwaysExist == FileSpec => []ReferencedObjectsExist
<1>1. FileInv => ReferencedObjectsExist
  BY FilesAreSafe
<1>2. QED
  BY <1>1, FilesAlways, PTL

\* Wherever a crash cuts in, what is ready has its metadata, and the check of the next
\* start fails at leftovers only (OnlyLeftoversBreakIntegrity).
THEOREM IntegrityIsBrokenByLeftoversOnly == FileSpec => []OnlyLeftoversBreakIntegrity
<1>1. FileInv => OnlyLeftoversBreakIntegrity
  BY FilesAreSafe
<1>2. QED
  BY <1>1, FilesAlways, PTL

\* The coordinator keeps publications and collections apart and leaves nobody waiting
\* for nothing (CoordinatorNeverStalls).
THEOREM CoordinatorLosesNoWakeUp == FileSpec => []CoordinatorNeverStalls
<1>1. FileInv => CoordinatorNeverStalls
  BY FilesAreSafe
<1>2. QED
  BY <1>1, FilesAlways, PTL
===============================================================================
