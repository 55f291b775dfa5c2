------------------------ MODULE ControlMutations_proofs ------------------------
(***************************************************************************)
(* Proofs about the scheduler of the write commands, for every set of      *)
(* commands, connections, resources and limits.  Every action rearranges   *)
(* the queue and ends with a drain, so the order of the queue is stated of *)
(* any stages, queue positions and active keys, and one lemma says what a  *)
(* drain makes of them.  The books are a second invariant, and what a      *)
(* closed connection and a revoked right have left behind is a third.      *)
(***************************************************************************)
EXTENDS ControlMutations, FiniteSetTheorems, TLAPS

USE CommandAssumption, LimitAssumption

Waiting(at) == {m \in Mutation : at[m] = "queued"}
Holding(at) == {m \in Mutation : at[m] \in Running}
Booked == Queued \cup Held

\* Commands that are known to hold or to wait stand in one order: the held ones have
\* no key in common, nothing a held one was pushed behind and conflicts with still
\* waits, and of two that wait one is behind the other and none behind itself.
Ordered(at, before, active) ==
    /\ at \in [Mutation -> Stage]
    /\ before \in [Mutation -> SUBSET (Waiting(at) \cup Holding(at))]
    /\ active = KeysOf(Holding(at))
    /\ \A m, n \in Holding(at) : m # n => ~Conflict(m, n)
    /\ \A m \in Holding(at), n \in Waiting(at) : n \in before[m] => ~Conflict(m, n)
    /\ \A m, n \in Waiting(at) : m # n => m \in before[n] \/ n \in before[m]
    /\ \A m \in Waiting(at) : m \notin before[m]

\* No command waits for nothing.
Blocked(at, before, active) ==
    \A m \in Waiting(at) :
        \/ Keys[m] \cap active # {}
        \/ \E n \in Waiting(at) \cap before[m] : Conflict(m, n)

OrderInv ==
    /\ Ordered(stage, ahead, activeResources)
    /\ Blocked(stage, ahead, activeResources)

\* Naming a common resource is symmetric.
LEMMA ConflictIsSymmetric == \A m, n \in Mutation : Conflict(m, n) <=> Conflict(n, m)
  BY DEF Conflict

\* One pass over the queue starts commands that conflict with nothing that runs and
\* with nothing before them, so not with one another; what it leaves is blocked.
LEMMA DrainKeepsOrder ==
  ASSUME NEW at, NEW before, NEW active, Ordered(at, before, active),
         Drain(at, before, active)
  PROVE  OrderInv'
<1> DEFINE Started == Startable(Waiting(at), before, active)
<1>1. /\ stage' = [m \in Mutation |-> IF m \in Started THEN "reauthorizing" ELSE at[m]]
      /\ activeResources' = active \cup KeysOf(Started)
      /\ ahead' = before
  BY DEF Drain, Waiting
<1>2. /\ at \in [Mutation -> Stage]
      /\ before \in [Mutation -> SUBSET (Waiting(at) \cup Holding(at))]
      /\ active = KeysOf(Holding(at))
      /\ Started \subseteq Waiting(at)
  BY DEF Ordered, Startable
<1>3. /\ Holding(stage') = Holding(at) \cup Started
      /\ Waiting(stage') = Waiting(at) \ Started
  BY <1>1, <1>2 DEF Holding, Waiting, Running
<1>4. \A m \in Started : /\ Keys[m] \cap active = {}
                         /\ \A n \in Waiting(at) \cap before[m] : ~Conflict(m, n)
  BY DEF Startable
<1>5. \A m \in Started, n \in Holding(at) : ~Conflict(m, n) /\ ~Conflict(n, m)
  <2> SUFFICES ASSUME NEW m \in Started, NEW n \in Holding(at)
               PROVE  ~Conflict(m, n) /\ ~Conflict(n, m)
    OBVIOUS
  <2>1. Keys[n] \subseteq active
    BY <1>2 DEF KeysOf
  <2>2. QED
    BY <1>4, <2>1 DEF Conflict
<1>6. Ordered(stage, ahead, activeResources)'
  <2>1. stage' \in [Mutation -> Stage]
    BY <1>1, <1>2 DEF Stage, Running
  <2>2. ahead' \in [Mutation -> SUBSET (Waiting(stage') \cup Holding(stage'))]
    BY <1>1, <1>2, <1>3
  <2>3. activeResources' = KeysOf(Holding(stage'))
    BY <1>1, <1>2, <1>3 DEF KeysOf
  <2>4. \A m, n \in Holding(stage') : m # n => ~Conflict(m, n)
    <3> SUFFICES ASSUME NEW m \in Holding(stage'), NEW n \in Holding(stage'), m # n
                 PROVE  ~Conflict(m, n)
      OBVIOUS
    <3>1. CASE m \in Holding(at) /\ n \in Holding(at)
      BY <3>1 DEF Ordered
    <3>2. CASE m \in Started /\ n \in Started
      <4>1. m \in before[n] \/ n \in before[m]
        BY <3>2, <1>2 DEF Ordered
      <4>2. QED
        BY <4>1, <3>2, <1>2, <1>4, ConflictIsSymmetric DEF Waiting
    <3>3. QED
      BY <3>1, <3>2, <1>3, <1>5
  <2>5. \A m \in Holding(stage'), n \in Waiting(stage') : n \in ahead'[m] => ~Conflict(m, n)
    <3> SUFFICES ASSUME NEW m \in Holding(stage'), NEW n \in Waiting(stage'), n \in before[m]
                 PROVE  ~Conflict(m, n)
      BY <1>1
    <3>1. CASE m \in Holding(at)
      BY <3>1, <1>3 DEF Ordered
    <3>2. CASE m \in Started
      BY <3>2, <1>3, <1>4
    <3>3. QED
      BY <3>1, <3>2, <1>3
  <2>6. /\ \A m, n \in Waiting(stage') : m # n => m \in ahead'[n] \/ n \in ahead'[m]
        /\ \A m \in Waiting(stage') : m \notin ahead'[m]
    BY <1>1, <1>3 DEF Ordered
  <2>7. QED
    BY <2>1, <2>2, <2>3, <2>4, <2>5, <2>6 DEF Ordered
<1>7. Blocked(stage, ahead, activeResources)'
  <2> SUFFICES ASSUME NEW m \in Waiting(stage')
               PROVE  \/ Keys[m] \cap activeResources' # {}
                      \/ \E n \in Waiting(stage') \cap ahead'[m] : Conflict(m, n)
    BY DEF Blocked
  <2>1. m \in Waiting(at) /\ m \notin Started
    BY <1>3
  <2>2. \/ Keys[m] \cap active # {}
        \/ \E n \in Waiting(at) \cap before[m] : Conflict(m, n)
    BY <2>1 DEF Startable
  <2>3. CASE Keys[m] \cap active # {}
    BY <2>3, <1>1
  <2>4. CASE \E n \in Waiting(at) \cap before[m] : Conflict(m, n)
    <3>1. PICK n \in Waiting(at) \cap before[m] : Conflict(m, n)
      BY <2>4
    <3>2. CASE n \in Started
      <4>1. Keys[n] \subseteq activeResources'
        BY <3>2, <1>1 DEF KeysOf
      <4>2. QED
        BY <4>1, <3>1 DEF Conflict
    <3>3. CASE n \notin Started
      BY <3>1, <3>3, <1>1, <1>3
    <3>4. QED
      BY <3>2, <3>3
  <2>5. QED
    BY <2>2, <2>3, <2>4
<1>8. QED
  BY <1>6, <1>7 DEF OrderInv


\* What a drain does to one stage.
LEMMA DrainStages ==
  ASSUME NEW at \in [Mutation -> Stage], NEW before, NEW active, Drain(at, before, active)
  PROVE  /\ stage' \in [Mutation -> Stage]
         /\ \A m \in Mutation :
              stage'[m] = at[m] \/ (at[m] = "queued" /\ stage'[m] = "reauthorizing")
<1> DEFINE Started == Startable(Waiting(at), before, active)
<1>1. stage' = [m \in Mutation |-> IF m \in Started THEN "reauthorizing" ELSE at[m]]
  BY DEF Drain, Waiting
<1>2. \A m \in Started : at[m] = "queued"
  BY DEF Startable, Waiting
<1> HIDE DEF Started
<1>3. QED
  BY <1>1, <1>2 DEF Stage, Running

\* The stages and the places in the queue when some have left.
StagesLeft(gone, outcome) == [m \in Mutation |-> IF m \in gone THEN outcome ELSE stage[m]]
PlacesLeft(gone) == [m \in Mutation |-> IF m \in gone THEN {} ELSE ahead[m] \ gone]

\* Whoever leaves has its outcome.
LEMMA LeaveOutcome ==
  ASSUME NEW gone, NEW freed, NEW outcome, outcome # "queued", Leave(gone, outcome, freed)
  PROVE  \A m \in Mutation : m \in gone => stage'[m] = outcome
<1> DEFINE at == [m \in Mutation |-> IF m \in gone THEN outcome ELSE stage[m]]
           Started(before) == Startable(Waiting(at), before, activeResources \ freed)
<1>1. PICK before : stage' = [m \in Mutation |-> IF m \in Started(before) THEN "reauthorizing"
                                                  ELSE at[m]]
  BY DEF Leave, Drain, Waiting
<1>2. \A m \in Mutation : m \in gone => m \notin Started(before)
  BY DEF Startable, Waiting
<1>3. QED
  BY <1>1, <1>2

\* Whoever leaves frees its keys if it held them, and nobody else's.
LEMMA LeftInOrder ==
  ASSUME OrderInv, NEW gone, gone \subseteq Booked, NEW freed, freed = KeysOf(gone \cap Held),
         NEW outcome, outcome \in Stage \ (Running \cup {"queued"})
  PROVE  /\ Ordered(StagesLeft(gone, outcome), PlacesLeft(gone), activeResources \ freed)
         /\ Waiting(StagesLeft(gone, outcome)) = Queued \ gone
         /\ Holding(StagesLeft(gone, outcome)) = Held \ gone
<1> DEFINE at == [m \in Mutation |-> IF m \in gone THEN outcome ELSE stage[m]]
           before == [m \in Mutation |-> IF m \in gone THEN {} ELSE ahead[m] \ gone]
           active == activeResources \ freed
<1>1. /\ stage \in [Mutation -> Stage]
      /\ ahead \in [Mutation -> SUBSET Booked]
      /\ activeResources = KeysOf(Held)
      /\ \A m, n \in Held : m # n => ~Conflict(m, n)
      /\ \A m \in Held, n \in Queued : n \in ahead[m] => ~Conflict(m, n)
      /\ \A m, n \in Queued : m # n => m \in ahead[n] \/ n \in ahead[m]
      /\ \A m \in Queued : m \notin ahead[m]
  BY DEF OrderInv, Ordered, Booked, Queued, Held, Waiting, Holding
<1>2. /\ at \in [Mutation -> Stage]
      /\ Waiting(at) = Queued \ gone
      /\ Holding(at) = Held \ gone
  BY <1>1 DEF Waiting, Holding, Queued, Held, Stage, Booked
<1>3. before \in [Mutation -> SUBSET (Waiting(at) \cup Holding(at))]
  BY <1>1, <1>2 DEF Booked
<1>4. active = KeysOf(Holding(at))
  <2>1. \A m, n \in Held : m # n => Keys[m] \cap Keys[n] = {}
    BY <1>1 DEF Conflict
  <2>2. KeysOf(Held \ gone) = KeysOf(Held) \ KeysOf(gone \cap Held)
    BY <2>1 DEF KeysOf
  <2>3. QED
    BY <2>2, <1>1, <1>2
<1>5. Ordered(at, before, active)
  <2>1. \A m, n \in Holding(at) : m # n => ~Conflict(m, n)
    BY <1>1, <1>2
  <2>2. \A m \in Holding(at), n \in Waiting(at) : n \in before[m] => ~Conflict(m, n)
    BY <1>1, <1>2 DEF Held
  <2>3. /\ \A m, n \in Waiting(at) : m # n => m \in before[n] \/ n \in before[m]
        /\ \A m \in Waiting(at) : m \notin before[m]
    BY <1>1, <1>2 DEF Queued
  <2>4. QED
    BY <1>2, <1>3, <1>4, <2>1, <2>2, <2>3 DEF Ordered
<1>6. QED
  BY <1>2, <1>5 DEF StagesLeft, PlacesLeft

\* So the queue is in order after a leave, and nobody else has lost a place.
LEMMA LeaveKeepsOrder ==
  ASSUME OrderInv, NEW gone, gone \subseteq Booked, NEW freed, freed = KeysOf(gone \cap Held),
         NEW outcome, outcome \in Stage \ (Running \cup {"queued"}),
         Leave(gone, outcome, freed)
  PROVE  /\ OrderInv'
         /\ Booked' = Booked \ gone
         /\ stage' \in [Mutation -> Stage]
         /\ \A m \in Mutation \ gone :
              stage'[m] = stage[m] \/ (stage[m] = "queued" /\ stage'[m] = "reauthorizing")
<1> DEFINE at == StagesLeft(gone, outcome)
           before == PlacesLeft(gone)
           active == activeResources \ freed
<1>1. stage \in [Mutation -> Stage]
  BY DEF OrderInv, Ordered
<1>2. at \in [Mutation -> Stage]
  BY <1>1 DEF StagesLeft
<1>5. Ordered(at, before, active)
  BY LeftInOrder
<1>6. Drain(at, before, active)
  BY DEF Leave, StagesLeft, PlacesLeft
<1> HIDE DEF at, before, active
<1>7. OrderInv'
  BY <1>5, <1>6, DrainKeepsOrder
<1>8. /\ stage' \in [Mutation -> Stage]
      /\ \A m \in Mutation :
           stage'[m] = at[m] \/ (at[m] = "queued" /\ stage'[m] = "reauthorizing")
  BY <1>2, <1>6, DrainStages
<1>9. \A m \in Mutation : at[m] = IF m \in gone THEN outcome ELSE stage[m]
  BY DEF at, StagesLeft
<1>10. \A m \in Mutation : m \in gone => stage'[m] = outcome
  BY LeaveOutcome
<1>11. \A m \in Mutation \ gone :
         stage'[m] = stage[m] \/ (stage[m] = "queued" /\ stage'[m] = "reauthorizing")
  BY <1>8, <1>9
<1>12. Booked' = Booked \ gone
  BY <1>8, <1>10, <1>11 DEF Booked, Queued, Held, Running
<1>13. QED
  BY <1>7, <1>8, <1>10, <1>11, <1>12

\* A command that is pushed stands behind everything that waits.
LEMMA EnqueuedInOrder ==
  ASSUME OrderInv, NEW m \in Mutation, stage[m] = "admitted"
  PROVE  LET at == [stage EXCEPT ![m] = "queued"]
             before == [ahead EXCEPT ![m] = Queued]
         IN  /\ Ordered(at, before, activeResources)
             /\ Waiting(at) = Queued \cup {m}
             /\ Holding(at) = Held
             /\ m \notin Booked
<1> DEFINE at == [stage EXCEPT ![m] = "queued"]
           before == [ahead EXCEPT ![m] = Queued]
<1>1. /\ stage \in [Mutation -> Stage]
      /\ ahead \in [Mutation -> SUBSET Booked]
      /\ activeResources = KeysOf(Held)
      /\ \A k, n \in Held : k # n => ~Conflict(k, n)
      /\ \A k \in Held, n \in Queued : n \in ahead[k] => ~Conflict(k, n)
      /\ \A k, n \in Queued : k # n => k \in ahead[n] \/ n \in ahead[k]
      /\ \A k \in Queued : k \notin ahead[k]
  BY DEF OrderInv, Ordered, Booked, Queued, Held, Waiting, Holding
<1>2. /\ at \in [Mutation -> Stage]
      /\ Waiting(at) = Queued \cup {m}
      /\ Holding(at) = Held
      /\ m \notin Booked
  BY <1>1 DEF Waiting, Holding, Queued, Held, Stage, Booked, Running
<1>3. before \in [Mutation -> SUBSET (Waiting(at) \cup Holding(at))]
  BY <1>1, <1>2 DEF Booked
<1>4. Ordered(at, before, activeResources)
  <2>1. \A k \in Holding(at), n \in Waiting(at) : n \in before[k] => ~Conflict(k, n)
    BY <1>1, <1>2 DEF Held, Booked
  <2>2. \A k, n \in Waiting(at) : k # n => k \in before[n] \/ n \in before[k]
    BY <1>1, <1>2 DEF Queued, Booked
  <2>3. \A k \in Waiting(at) : k \notin before[k]
    <3>1. \A k \in Mutation : before[k] = IF k = m THEN Queued ELSE ahead[k]
      BY <1>1
    <3>2. m \notin Queued /\ Waiting(at) \subseteq Mutation
      BY <1>2 DEF Booked, Waiting
    <3> HIDE DEF at, before
    <3>3. QED
      BY <1>1, <1>2, <3>1, <3>2
  <2>4. QED
    BY <1>1, <1>2, <1>3, <2>1, <2>2, <2>3 DEF Ordered
<1>5. QED
  BY <1>2, <1>4

\* So the queue is in order after a push, and nobody else has lost a place.
LEMMA EnqueueKeepsOrder ==
  ASSUME OrderInv, NEW m \in Mutation, stage[m] = "admitted", Enqueue(m)
  PROVE  /\ OrderInv'
         /\ Booked' = Booked \cup {m}
         /\ stage' \in [Mutation -> Stage]
         /\ stage'[m] \in {"queued", "reauthorizing"}
         /\ \A n \in Mutation \ {m} :
              stage'[n] = stage[n] \/ (stage[n] = "queued" /\ stage'[n] = "reauthorizing")
<1> DEFINE at == [stage EXCEPT ![m] = "queued"]
           before == [ahead EXCEPT ![m] = Queued]
<1>1. stage \in [Mutation -> Stage]
  BY DEF OrderInv, Ordered
<1>2. at \in [Mutation -> Stage]
  BY <1>1 DEF Stage
<1>4. Ordered(at, before, activeResources)
  BY EnqueuedInOrder
<1>5. Drain(at, before, activeResources)
  BY DEF Enqueue
<1> HIDE DEF at, before
<1>6. OrderInv'
  BY <1>4, <1>5, DrainKeepsOrder
<1>7. /\ stage' \in [Mutation -> Stage]
      /\ \A n \in Mutation :
           stage'[n] = at[n] \/ (at[n] = "queued" /\ stage'[n] = "reauthorizing")
  BY <1>2, <1>5, DrainStages
<1>8. \A n \in Mutation : at[n] = IF n = m THEN "queued" ELSE stage[n]
  BY <1>1 DEF at
<1>9. /\ stage'[m] \in {"queued", "reauthorizing"}
      /\ \A n \in Mutation \ {m} :
           stage'[n] = stage[n] \/ (stage[n] = "queued" /\ stage'[n] = "reauthorizing")
  BY <1>7, <1>8
<1>10. Booked' = Booked \cup {m}
  BY <1>7, <1>9 DEF Booked, Queued, Held, Running
<1>11. QED
  BY <1>6, <1>7, <1>9, <1>10

--------------------------------------------------------------------------------
(* The books.                                                                  *)

BookedOf(c) == {m \in Booked : ConnectionOf[m] = c}
BookedOn(r) == {m \in Booked : r \in Keys[m]}

BooksInv ==
    /\ outstanding = Cardinality(Booked) /\ outstanding <= Process
    /\ connectionCounts = [c \in Connection |-> Cardinality(BookedOf(c))]
    /\ \A c \in Connection : connectionCounts[c] <= PerConnection
    /\ resourceCounts = [r \in Resource |-> Cardinality(BookedOn(r))]
    /\ \A r \in Resource : resourceCounts[r] <= PerResource

\* There are finitely many commands, so every set of them can be counted.
LEMMA SomeOf ==
  ASSUME NEW S \in SUBSET Mutation
  PROVE  IsFiniteSet(S) /\ Cardinality(S) \in Nat
  BY FS_Subset, FS_CardinalityType

\* Taking away a part takes away its count.
LEMMA CountWithout ==
  ASSUME NEW S \in SUBSET Mutation, NEW T \in SUBSET S
  PROVE  /\ Cardinality(S \ T) = Cardinality(S) - Cardinality(T)
         /\ Cardinality(T) \in Nat /\ Cardinality(S) \in Nat
<1>1. S \cap T = T
  OBVIOUS
<1>2. QED
  BY <1>1, SomeOf, FS_Difference

\* One more command adds one.
LEMMA CountWith ==
  ASSUME NEW S \in SUBSET Mutation, NEW m \in Mutation, m \notin S
  PROVE  Cardinality(S \cup {m}) = Cardinality(S) + 1 /\ Cardinality(S) \in Nat
  BY SomeOf, FS_AddElement

\* A release gives back one place for each command that leaves, on every book.
LEMMA ReleaseKeepsBooks ==
  ASSUME BooksInv, NEW gone \in SUBSET Booked, Release(gone), Booked' = Booked \ gone
  PROVE  BooksInv'
<1>1. Booked \in SUBSET Mutation
  BY DEF Booked, Queued, Held
<1>2. outstanding' = Cardinality(Booked') /\ outstanding' <= Process
  <2>1. /\ Cardinality(Booked \ gone) = Cardinality(Booked) - Cardinality(gone)
        /\ Cardinality(gone) \in Nat /\ Cardinality(Booked) \in Nat
    BY <1>1, CountWithout
  <2>2. /\ outstanding = Cardinality(Booked) /\ outstanding <= Process
        /\ outstanding' = outstanding - Cardinality(gone)
    BY DEF BooksInv, Release
  <2>3. QED
    BY <2>1, <2>2
<1>3. ASSUME NEW c \in Connection
      PROVE  /\ connectionCounts'[c] = Cardinality(BookedOf(c)')
             /\ connectionCounts'[c] <= PerConnection
  <2> DEFINE T == {m \in gone : ConnectionOf[m] = c}
             S == BookedOf(c)
  <2>1. BookedOf(c)' = S \ T
    BY DEF BookedOf
  <2>2. S \in SUBSET Mutation /\ T \in SUBSET S
    BY <1>1 DEF BookedOf
  <2>3. /\ connectionCounts'[c] = connectionCounts[c] - Cardinality(T)
        /\ connectionCounts[c] = Cardinality(S) /\ connectionCounts[c] <= PerConnection
    BY DEF Release, BooksInv
  <2> HIDE DEF T, S
  <2>4. /\ Cardinality(S \ T) = Cardinality(S) - Cardinality(T)
        /\ Cardinality(T) \in Nat /\ Cardinality(S) \in Nat
    BY <2>2, CountWithout
  <2>5. QED
    BY <2>1, <2>3, <2>4
<1>4. ASSUME NEW r \in Resource
      PROVE  /\ resourceCounts'[r] = Cardinality(BookedOn(r)')
             /\ resourceCounts'[r] <= PerResource
  <2> DEFINE T == {m \in gone : r \in Keys[m]}
             S == BookedOn(r)
  <2>1. BookedOn(r)' = S \ T
    BY DEF BookedOn
  <2>2. S \in SUBSET Mutation /\ T \in SUBSET S
    BY <1>1 DEF BookedOn
  <2>3. /\ resourceCounts'[r] = resourceCounts[r] - Cardinality(T)
        /\ resourceCounts[r] = Cardinality(S) /\ resourceCounts[r] <= PerResource
    BY DEF Release, BooksInv
  <2> HIDE DEF T, S
  <2>4. /\ Cardinality(S \ T) = Cardinality(S) - Cardinality(T)
        /\ Cardinality(T) \in Nat /\ Cardinality(S) \in Nat
    BY <2>2, CountWithout
  <2>5. QED
    BY <2>1, <2>3, <2>4
<1>5. connectionCounts' = [c \in Connection |-> Cardinality(BookedOf(c)')]
  BY <1>3 DEF Release
<1>6. resourceCounts' = [r \in Resource |-> Cardinality(BookedOn(r)')]
  BY <1>4 DEF Release
<1>7. QED
  BY <1>2, <1>3, <1>4, <1>5, <1>6 DEF BooksInv

\* A command is booked once, where there is room.
LEMMA ReserveKeepsBooks ==
  ASSUME BooksInv, NEW m \in Mutation, m \notin Booked, HasCapacity(m), Reserve(m),
         Booked' = Booked \cup {m}
  PROVE  BooksInv'
<1>1. Booked \in SUBSET Mutation
  BY DEF Booked, Queued, Held
<1>2. outstanding' = Cardinality(Booked') /\ outstanding' <= Process
  <2>1. Cardinality(Booked \cup {m}) = Cardinality(Booked) + 1 /\ Cardinality(Booked) \in Nat
    BY <1>1, CountWith
  <2>2. /\ outstanding = Cardinality(Booked) /\ outstanding < Process
        /\ outstanding' = outstanding + 1
    BY DEF BooksInv, Reserve, HasCapacity
  <2>3. QED
    BY <2>1, <2>2
<1>3. ASSUME NEW c \in Connection
      PROVE  /\ connectionCounts'[c] = Cardinality(BookedOf(c)')
             /\ connectionCounts'[c] <= PerConnection
  <2> DEFINE S == BookedOf(c)
  <2>1. /\ S \in SUBSET Mutation /\ m \notin S
        /\ connectionCounts[c] = Cardinality(S) /\ connectionCounts[c] <= PerConnection
    BY <1>1 DEF BookedOf, BooksInv
  <2>2. Cardinality(S \cup {m}) = Cardinality(S) + 1 /\ Cardinality(S) \in Nat
    BY <2>1, CountWith
  <2>3. CASE c = ConnectionOf[m]
    <3>1. BookedOf(c)' = S \cup {m}
      BY <2>3 DEF BookedOf
    <3>2. /\ connectionCounts'[c] = connectionCounts[c] + 1
          /\ connectionCounts[c] < PerConnection
      BY <2>3 DEF BooksInv, Reserve, HasCapacity
    <3> HIDE DEF S
    <3>3. QED
      BY <2>1, <2>2, <3>1, <3>2
  <2>4. CASE c # ConnectionOf[m]
    <3>1. BookedOf(c)' = S
      BY <2>4 DEF BookedOf
    <3>2. connectionCounts'[c] = connectionCounts[c]
      BY <2>4 DEF BooksInv, Reserve
    <3>3. QED
      BY <2>1, <3>1, <3>2
  <2>5. QED
    BY <2>3, <2>4
<1>4. ASSUME NEW r \in Resource
      PROVE  /\ resourceCounts'[r] = Cardinality(BookedOn(r)')
             /\ resourceCounts'[r] <= PerResource
  <2> DEFINE S == BookedOn(r)
  <2>1. /\ S \in SUBSET Mutation /\ m \notin S
        /\ resourceCounts[r] = Cardinality(S) /\ resourceCounts[r] <= PerResource
    BY <1>1 DEF BookedOn, BooksInv
  <2>2. Cardinality(S \cup {m}) = Cardinality(S) + 1 /\ Cardinality(S) \in Nat
    BY <2>1, CountWith
  <2>3. CASE r \in Keys[m]
    <3>1. BookedOn(r)' = S \cup {m}
      BY <2>3 DEF BookedOn
    <3>2. resourceCounts'[r] = resourceCounts[r] + 1 /\ resourceCounts[r] < PerResource
      BY <2>3 DEF Reserve, HasCapacity
    <3> HIDE DEF S
    <3>3. QED
      BY <2>1, <2>2, <3>1, <3>2
  <2>4. CASE r \notin Keys[m]
    <3>1. BookedOn(r)' = S
      BY <2>4 DEF BookedOn
    <3>2. resourceCounts'[r] = resourceCounts[r]
      BY <2>4 DEF Reserve
    <3>3. QED
      BY <2>1, <3>1, <3>2
  <2>5. QED
    BY <2>3, <2>4
<1>5. connectionCounts' = [c \in Connection |-> Cardinality(BookedOf(c)')]
  BY <1>3 DEF Reserve, BooksInv
<1>6. resourceCounts' = [r \in Resource |-> Cardinality(BookedOn(r)')]
  BY <1>4 DEF Reserve
<1>7. QED
  BY <1>2, <1>3, <1>4, <1>5, <1>6 DEF BooksInv

--------------------------------------------------------------------------------
(* Refusals, and the steps.                                                    *)

RefusalInv ==
    /\ aborted \subseteq Mutation /\ closed \subseteq Connection /\ revoked \subseteq Mutation
    /\ \A m \in Booked : ConnectionOf[m] \in closed => m \in aborted
    /\ \A m \in Mutation : stage[m] = "authorized" => m \notin revoked

Inv == OrderInv /\ BooksInv /\ RefusalInv

\* What RefusedNeverRuns asks of a step.
Refused ==
    \A m \in Mutation :
        /\ stage[m] # "executing" /\ stage'[m] = "executing" =>
             ConnectionOf[m] \notin closed /\ m \notin revoked
        /\ stage[m] = "executing" => stage'[m] \in {"executing", "settled", "forbidden"}

\* A command that changes its stage outside the queue and the running set, or inside
\* the running set, moves neither the order nor the books.
LEMMA QuietStep ==
  ASSUME OrderInv, BooksInv, NEW m \in Mutation, NEW to \in Stage,
         stage' = [stage EXCEPT ![m] = to],
         stage[m] # "queued", to # "queued", stage[m] \in Running <=> to \in Running,
         UNCHANGED <<ahead, activeResources, books>>
  PROVE  OrderInv' /\ BooksInv' /\ Booked' = Booked
<1>1. stage \in [Mutation -> Stage] /\ stage' \in [Mutation -> Stage]
  BY DEF OrderInv, Ordered
<1>2. /\ Waiting(stage') = Waiting(stage)
      /\ Holding(stage') = Holding(stage)
  BY <1>1 DEF Waiting, Holding
<1>3. Booked' = Booked
  BY <1>2 DEF Booked, Queued, Held, Waiting, Holding
<1>4. OrderInv'
  BY <1>1, <1>2 DEF OrderInv, Ordered, Blocked
<1>5. \A c \in Connection : BookedOf(c)' = BookedOf(c)
  BY <1>3 DEF BookedOf
<1>6. \A r \in Resource : BookedOn(r)' = BookedOn(r)
  BY <1>3 DEF BookedOn
<1>7. BooksInv'
  BY <1>3, <1>5, <1>6 DEF BooksInv, books
<1>8. QED
  BY <1>3, <1>4, <1>7

\* Whoever leaves the running set or the queue alone keeps the three invariants.
LEMMA LeaveStep ==
  ASSUME Inv, NEW m \in Mutation, m \in Booked, NEW freed, freed = KeysOf({m} \cap Held),
         NEW outcome \in Stage \ (Running \cup {"queued"}),
         stage[m] = "executing" => outcome \in {"settled", "forbidden"},
         Leave({m}, outcome, freed), Release({m}), UNCHANGED <<aborted, closed, revoked>>
  PROVE  Inv' /\ Refused
<1>1. /\ OrderInv'
      /\ Booked' = Booked \ {m}
      /\ stage'[m] = outcome
      /\ \A n \in Mutation \ {m} :
           stage'[n] = stage[n] \/ (stage[n] = "queued" /\ stage'[n] = "reauthorizing")
  <2>1. OrderInv /\ {m} \subseteq Booked
    BY DEF Inv
  <2>2. /\ OrderInv'
        /\ Booked' = Booked \ {m}
        /\ \A n \in Mutation \ {m} :
             stage'[n] = stage[n] \/ (stage[n] = "queued" /\ stage'[n] = "reauthorizing")
    BY <2>1, LeaveKeepsOrder
  <2>3. stage'[m] = outcome
    BY LeaveOutcome
  <2>4. QED
    BY <2>2, <2>3
<1>2. BooksInv'
  BY <1>1, ReleaseKeepsBooks DEF Inv
<1>3. RefusalInv'
  BY <1>1 DEF Inv, RefusalInv, Running
<1>4. Refused
  BY <1>1 DEF Refused, Running
<1>5. QED
  BY <1>1, <1>2, <1>3, <1>4 DEF Inv

\* The keys that a command alone gives back.
LEMMA OwnKeys ==
  ASSUME NEW m \in Mutation
  PROVE  /\ m \in Held => KeysOf({m} \cap Held) = Keys[m]
         /\ m \notin Held => KeysOf({m} \cap Held) = {}
  BY DEF KeysOf

\* Every step keeps the three invariants and refuses what it has to.
LEMMA StepKeepsInv ==
  ASSUME Inv, [Next]_vars
  PROVE  Inv' /\ (Refused \/ UNCHANGED vars)
<1>1. /\ stage \in [Mutation -> Stage]
      /\ OrderInv /\ BooksInv /\ RefusalInv
  BY DEF Inv, OrderInv, Ordered
<1>2. ASSUME NEW m \in Mutation, Receive(m)
      PROVE  Inv' /\ Refused
  <2>1. OrderInv' /\ BooksInv' /\ Booked' = Booked
    BY <1>1, <1>2, QuietStep DEF Receive, Stage, Running
  <2>2. RefusalInv' /\ Refused
    BY <1>1, <1>2, <2>1 DEF Receive, RefusalInv, Refused
  <2>3. QED
    BY <2>1, <2>2 DEF Inv
<1>3. ASSUME NEW m \in Mutation, Authorize(m)
      PROVE  Inv' /\ Refused
  <2> DEFINE to == IF m \in revoked THEN "forbidden" ELSE "admitted"
  <2>1. /\ to \in {"forbidden", "admitted"} /\ stage[m] = "authorizing"
        /\ stage' = [stage EXCEPT ![m] = to]
        /\ UNCHANGED <<ahead, activeResources, books, aborted, closed, revoked>>
    BY <1>3 DEF Authorize
  <2> HIDE DEF to
  <2>2. OrderInv' /\ BooksInv' /\ Booked' = Booked
    BY <1>1, <2>1, QuietStep DEF Stage, Running, Refusal
  <2>3. RefusalInv' /\ Refused
    BY <1>1, <2>1, <2>2 DEF RefusalInv, Refused
  <2>4. QED
    BY <2>2, <2>3 DEF Inv
<1>4. ASSUME NEW m \in Mutation, Schedule(m)
      PROVE  Inv' /\ Refused
  <2>1. stage[m] = "admitted" /\ UNCHANGED <<aborted, closed, revoked>>
    BY <1>4 DEF Schedule
  <2>2. ASSUME NEW outcome \in {"cancelled", "overloaded"}, Refuse(m, outcome)
        PROVE  Inv' /\ Refused
    <3>1. OrderInv' /\ BooksInv' /\ Booked' = Booked
      BY <1>1, <2>1, <2>2, QuietStep DEF Refuse, Stage, Running, Refusal
    <3>2. RefusalInv' /\ Refused
      BY <1>1, <2>1, <2>2, <3>1 DEF Refuse, RefusalInv, Refused
    <3>3. QED
      BY <3>1, <3>2 DEF Inv
  <2>3. ASSUME ~SignalFired(m), HasCapacity(m), Enqueue(m)
        PROVE  Inv' /\ Refused
    <3>1. /\ OrderInv'
          /\ Booked' = Booked \cup {m}
          /\ stage'[m] \in {"queued", "reauthorizing"}
          /\ \A n \in Mutation \ {m} :
               stage'[n] = stage[n] \/ (stage[n] = "queued" /\ stage'[n] = "reauthorizing")
      BY <1>1, <2>1, <2>3, EnqueueKeepsOrder
    <3>2. m \notin Booked
      BY <2>1 DEF Booked, Queued, Held, Running
    <3>3. BooksInv'
      BY <1>1, <2>3, <3>1, <3>2, ReserveKeepsBooks DEF Enqueue
    <3>4. RefusalInv' /\ Refused
      BY <1>1, <2>1, <2>3, <3>1 DEF RefusalInv, Refused, SignalFired
    <3>5. QED
      BY <3>1, <3>3, <3>4 DEF Inv
  <2>4. QED
    BY <1>4, <2>2, <2>3 DEF Schedule
<1>5. ASSUME NEW m \in Mutation, Reauthorize(m)
      PROVE  Inv' /\ Refused
  <2>1. stage[m] = "reauthorizing" /\ m \in Held /\ m \in Booked
        /\ UNCHANGED <<aborted, closed, revoked>>
    BY <1>5 DEF Reauthorize, Held, Booked, Running
  <2>2. CASE Leave({m}, "forbidden", Keys[m]) /\ Release({m})
    BY <2>1, <2>2, LeaveStep, OwnKeys DEF Stage, Refusal, Running
  <2>3. CASE /\ m \notin revoked /\ stage' = [stage EXCEPT ![m] = "authorized"]
             /\ UNCHANGED <<ahead, activeResources, books>>
    <3>1. OrderInv' /\ BooksInv' /\ Booked' = Booked
      BY <1>1, <2>1, <2>3, QuietStep DEF Stage, Running
    <3>2. RefusalInv' /\ Refused
      BY <1>1, <2>1, <2>3, <3>1 DEF RefusalInv, Refused
    <3>3. QED
      BY <3>1, <3>2 DEF Inv
  <2>4. QED
    BY <1>5, <2>2, <2>3 DEF Reauthorize
<1>6. ASSUME NEW m \in Mutation, Begin(m)
      PROVE  Inv' /\ Refused
  <2>1. stage[m] = "authorized" /\ m \in Held /\ m \in Booked
        /\ UNCHANGED <<aborted, closed, revoked>>
    BY <1>6 DEF Begin, Held, Booked, Running
  <2>2. CASE Leave({m}, "cancelled", Keys[m]) /\ Release({m})
    BY <2>1, <2>2, LeaveStep, OwnKeys DEF Stage, Refusal, Running
  <2>3. CASE /\ m \notin aborted /\ stage' = [stage EXCEPT ![m] = "executing"]
             /\ UNCHANGED <<ahead, activeResources, books>>
    <3>1. OrderInv' /\ BooksInv' /\ Booked' = Booked
      BY <1>1, <2>1, <2>3, QuietStep DEF Stage, Running
    <3>2. RefusalInv' /\ Refused
      BY <1>1, <2>1, <2>3, <3>1 DEF RefusalInv, Refused
    <3>3. QED
      BY <3>1, <3>2 DEF Inv
  <2>4. QED
    BY <1>6, <2>2, <2>3 DEF Begin
<1>7. ASSUME NEW m \in Mutation, Finish(m)
      PROVE  Inv' /\ Refused
  <2>1. stage[m] = "executing" /\ m \in Held /\ m \in Booked
    BY <1>7 DEF Finish, Held, Booked, Running
  <2>2. QED
    BY <1>7, <2>1, LeaveStep, OwnKeys DEF Finish, Stage, Running, Refusal
<1>8. ASSUME NEW m \in Mutation, Expire(m)
      PROVE  Inv' /\ Refused
  <2>1. stage[m] = "queued" /\ m \notin Held /\ m \in Booked
    BY <1>8 DEF Expire, Held, Booked, Queued, Running
  <2>2. QED
    BY <1>8, <2>1, LeaveStep, OwnKeys DEF Expire, Stage, Running, Refusal
<1>9. ASSUME NEW m \in Mutation, Revoke(m)
      PROVE  Inv' /\ Refused
  <2>1. /\ stage' = stage /\ ahead' = ahead /\ activeResources' = activeResources
        /\ books' = books /\ aborted' = aborted /\ closed' = closed
        /\ revoked' = revoked \cup {m} /\ stage[m] # "authorized"
    BY <1>9 DEF Revoke
  <2>2. Booked' = Booked
    BY <2>1 DEF Booked, Queued, Held
  <2>3. OrderInv'
    BY <1>1, <2>1 DEF OrderInv, Ordered, Blocked
  <2>4. (\A c \in Connection : BookedOf(c)' = BookedOf(c))
        /\ (\A r \in Resource : BookedOn(r)' = BookedOn(r))
    BY <2>2 DEF BookedOf, BookedOn
  <2>5. BooksInv'
    BY <1>1, <2>1, <2>2, <2>4 DEF BooksInv, books
  <2>6. RefusalInv' /\ Refused
    BY <1>1, <2>1, <2>2 DEF RefusalInv, Refused
  <2>7. QED
    BY <2>3, <2>5, <2>6 DEF Inv
<1>10. ASSUME NEW c \in Connection, Close(c)
       PROVE  Inv' /\ Refused
  <2> DEFINE gone == QueuedOf(c)
  <2>1. /\ closed' = closed \cup {c} /\ aborted' = aborted \cup AbortsOf(c)
        /\ Leave(gone, "cancelled", {}) /\ Release(gone) /\ revoked' = revoked
    BY <1>10 DEF Close
  <2>2. /\ gone \subseteq Booked
        /\ \A n \in gone : stage[n] = "queued"
        /\ gone \cap Held = {}
        /\ \A n \in Booked : ConnectionOf[n] = c => n \in AbortsOf(c)
        /\ AbortsOf(c) \subseteq Mutation
    BY DEF QueuedOf, HeldOf, AbortsOf, Booked, Queued, Held, Running
  <2>3. KeysOf(gone \cap Held) = {}
    BY <2>2 DEF KeysOf
  <2> HIDE DEF gone
  <2>4. "cancelled" \in Stage \ (Running \cup {"queued"})
    BY DEF Stage, Refusal, Running
  <2>5. /\ OrderInv'
        /\ Booked' = Booked \ gone
        /\ \A n \in Mutation \ gone :
             stage'[n] = stage[n] \/ (stage[n] = "queued" /\ stage'[n] = "reauthorizing")
    BY <1>1, <2>1, <2>2, <2>3, <2>4, LeaveKeepsOrder
  <2>6. \A n \in Mutation : n \in gone => stage'[n] = "cancelled"
    BY <2>1, LeaveOutcome
  <2>7. BooksInv'
    BY <1>1, <2>1, <2>2, <2>5, ReleaseKeepsBooks
  <2>8. RefusalInv'
    BY <1>1, <2>1, <2>2, <2>5, <2>6 DEF RefusalInv
  <2>9. Refused
    BY <2>2, <2>5, <2>6 DEF Refused
  <2>10. QED
    BY <2>5, <2>7, <2>8, <2>9 DEF Inv
<1>11. CASE UNCHANGED vars
  <2>1. /\ stage' = stage /\ ahead' = ahead /\ activeResources' = activeResources
        /\ books' = books /\ aborted' = aborted /\ closed' = closed /\ revoked' = revoked
    BY <1>11 DEF vars, books
  <2>2. Booked' = Booked
    BY <2>1 DEF Booked, Queued, Held
  <2>3. (\A c \in Connection : BookedOf(c)' = BookedOf(c))
        /\ (\A r \in Resource : BookedOn(r)' = BookedOn(r))
    BY <2>2 DEF BookedOf, BookedOn
  <2>4. OrderInv' /\ BooksInv' /\ RefusalInv'
    <3>1. OrderInv'
      BY <1>1, <2>1 DEF OrderInv, Ordered, Blocked
    <3>2. BooksInv'
      BY <1>1, <2>1, <2>2, <2>3 DEF BooksInv, books
    <3>3. RefusalInv'
      BY <1>1, <2>1, <2>2 DEF RefusalInv
    <3>4. QED
      BY <3>1, <3>2, <3>3
  <2>5. QED
    BY <2>4, <1>11 DEF Inv
<1>12. QED
  BY <1>2, <1>3, <1>4, <1>5, <1>6, <1>7, <1>8, <1>9, <1>10, <1>11 DEF Next

\* The scheduler starts empty.
LEMMA InitInv == Init => Inv
<1> SUFFICES ASSUME Init
             PROVE  Inv
  OBVIOUS
<1>1. Queued = {} /\ Held = {} /\ Booked = {}
  BY DEF Init, Queued, Held, Booked, Running
<1>2. Waiting(stage) = {} /\ Holding(stage) = {}
  BY DEF Init, Waiting, Holding, Running
<1>3. OrderInv
  BY <1>2 DEF Init, OrderInv, Ordered, Blocked, KeysOf, Stage
<1>4. \A c : BookedOf(c) = {}
  BY <1>1 DEF BookedOf
<1>5. \A r : BookedOn(r) = {}
  BY <1>1 DEF BookedOn
<1>6. BooksInv
  BY <1>1, <1>4, <1>5, FS_EmptySet DEF Init, BooksInv
<1>7. RefusalInv
  BY <1>1 DEF Init, RefusalInv
<1>8. QED
  BY <1>3, <1>6, <1>7 DEF Inv

\* The three invariants hold of every behaviour.
LEMMA InvHolds == Spec => []Inv
<1>1. Inv /\ [Next]_vars => Inv'
  BY StepKeepsInv
<1>2. QED
  BY InitInv, <1>1, PTL DEF Spec

\* The scheduler's books are exact and within their limits (the counts of
\* ControlMutationScheduler for the process, each connection and each resource).
THEOREM BooksAreExact == Spec => []ControlTypeOK
<1>1. Inv => ControlTypeOK
  <2> SUFFICES ASSUME Inv
               PROVE  ControlTypeOK
    OBVIOUS
  <2>1. /\ stage \in [Mutation -> Stage]
        /\ ahead \in [Mutation -> SUBSET Booked]
        /\ activeResources = KeysOf(Held)
    BY DEF Inv, OrderInv, Ordered, Booked, Queued, Held, Waiting, Holding
  <2>2. Booked \subseteq Mutation /\ Held \subseteq Mutation
    BY DEF Booked, Queued, Held
  <2>3. ahead \in [Mutation -> SUBSET Mutation] /\ activeResources \subseteq Resource
    BY <2>1, <2>2 DEF KeysOf
  <2>4. ASSUME NEW c \in Connection
        PROVE  /\ connectionCounts[c] = Cardinality(QueuedOf(c) \cup HeldOf(c))
               /\ connectionCounts[c] <= PerConnection
    <3>1. BookedOf(c) = QueuedOf(c) \cup HeldOf(c)
      BY DEF BookedOf, Booked, QueuedOf, HeldOf
    <3>2. QED
      BY <3>1 DEF Inv, BooksInv
  <2>5. ASSUME NEW r \in Resource
        PROVE  /\ resourceCounts[r] = Cardinality({m \in Queued \cup Held : r \in Keys[m]})
               /\ resourceCounts[r] <= PerResource
    BY DEF Inv, BooksInv, BookedOn, Booked
  <2>6. outstanding = Cardinality(Queued \cup Held) /\ outstanding <= Process
    BY DEF Inv, BooksInv, Booked
  <2>7. aborted \subseteq Mutation /\ closed \subseteq Connection /\ revoked \subseteq Mutation
    BY DEF Inv, RefusalInv
  <2>8. QED
    BY <2>1, <2>3, <2>4, <2>5, <2>6, <2>7 DEF ControlTypeOK
<1>2. QED
  BY InvHolds, <1>1, PTL

\* Two commands that name one resource run one after the other, in the order in
\* which ControlMutationScheduler admitted them.
THEOREM CommandsRunInOrder == Spec => []ConflictsRunInOrder
<1>1. Inv /\ ControlTypeOK => ConflictsRunInOrder
  BY DEF Inv, OrderInv, Ordered, ConflictsRunInOrder, Queued, Held, Waiting, Holding
<1>2. QED
  BY InvHolds, BooksAreExact, <1>1, PTL

\* No wake-up of the scheduler is lost: a queued command waits for a running command
\* or for one before it.
THEOREM NoWakeUpIsLost == Spec => []QueuedIsBlocked
<1>1. Inv => QueuedIsBlocked
  BY DEF Inv, OrderInv, Blocked, QueuedIsBlocked, Queued, Waiting
<1>2. QED
  BY InvHolds, <1>1, PTL

--------------------------------------------------------------------------------
(* The contract: every drain settles the abstract queue.                       *)

\* A drain starts exactly the commands that are admissible, whatever order is given
\* for the queue as long as it agrees with the positions in it.
LEMMA DrainSettles ==
  ASSUME NEW at, NEW before, NEW active, Ordered(at, before, active),
         Drain(at, before, active), NEW order,
         \A m \in Waiting(at) : order[m] \cap Waiting(at) = before[m] \cap Waiting(at)
  PROVE  Admission!Settle(Waiting(at), order, Holding(at))
<1> DEFINE queue == Waiting(at)
           held == Holding(at)
           Started == Startable(queue, before, active)
<1>1. /\ at \in [Mutation -> Stage]
      /\ active = KeysOf(held)
      /\ \A m \in queue : m \notin before[m]
      /\ queue \subseteq Mutation /\ held \subseteq Mutation /\ queue \cap held = {}
  BY DEF Ordered, Waiting, Holding, Running
<1>2. /\ stage' = [m \in Mutation |-> IF m \in Started THEN "reauthorizing" ELSE at[m]]
      /\ ahead' = before
  BY DEF Drain, Waiting
<1>3. Started \subseteq queue
  BY DEF Startable
<1>4. /\ Held' = held \cup Started
      /\ Queued' = queue \ Started
  BY <1>1, <1>2, <1>3 DEF Held, Queued, Holding, Waiting, Running
<1>5. ASSUME NEW m \in queue
      PROVE  m \in Started <=> m \in Admission!Admissible(queue, order, held)
  <2>1. Keys[m] \cap active = {} <=> \A u \in held : ~Conflict(m, u)
    BY <1>1 DEF KeysOf, Conflict
  <2>2. \A u \in Mutation : <<m, u>> \in Clashes <=> m # u /\ Conflict(m, u)
    BY <1>1 DEF Clashes
  <2>3. queue \cap order[m] = queue \cap before[m] /\ m \notin before[m] /\ m \notin held
    BY <1>1
  <2> HIDE DEF queue, held
  <2>4. m \in Started <=> \A u \in held \cup (queue \cap before[m]) : ~Conflict(m, u)
    BY <2>1 DEF Startable
  <2>5. m \in Admission!Admissible(queue, order, held) <=>
          \A u \in held \cup (queue \cap before[m]) : <<m, u>> \notin Clashes
    BY <2>3 DEF Admission!Admissible
  <2>6. QED
    BY <1>1, <2>2, <2>3, <2>4, <2>5
<1>6. Started = Admission!Admissible(queue, order, held)
  BY <1>3, <1>5 DEF Admission!Admissible
<1>7. QueuedAhead' = [m \in Mutation |->
                        IF m \in queue \ Started THEN order[m] \cap (queue \ Started) ELSE {}]
  <2>1. \A m \in queue : before[m] \cap (queue \ Started) = order[m] \cap (queue \ Started)
    OBVIOUS
  <2> HIDE DEF queue, Started
  <2>2. QED
    BY <1>2, <1>4, <2>1 DEF QueuedAhead
<1> HIDE DEF queue, held, Started
<1>8. Admission!Settle(queue, order, held)
  BY <1>4, <1>6, <1>7 DEF Admission!Settle
<1>9. QED
  BY <1>8 DEF queue, held

\* A command that is pushed comes.
LEMMA EnqueueComes ==
  ASSUME OrderInv, NEW m \in Mutation, stage[m] = "admitted", Enqueue(m)
  PROVE  Admission!Come(m)
<1> DEFINE at == [stage EXCEPT ![m] = "queued"]
           before == [ahead EXCEPT ![m] = Queued]
           order == [QueuedAhead EXCEPT ![m] = Queued]
<1>1. /\ Ordered(at, before, activeResources)
      /\ Waiting(at) = Queued \cup {m}
      /\ Holding(at) = Held
      /\ m \notin Booked
  BY EnqueuedInOrder
<1>2. /\ ahead \in [Mutation -> SUBSET Booked]
      /\ Queued \subseteq Mutation
  BY DEF OrderInv, Ordered, Booked, Queued, Held, Waiting, Holding
<1>3. Drain(at, before, activeResources)
  BY DEF Enqueue
<1>4. \A n \in Queued \cup {m} :
        order[n] \cap (Queued \cup {m}) = before[n] \cap (Queued \cup {m})
  <2>1. \A n \in Mutation : /\ before[n] = IF n = m THEN Queued ELSE ahead[n]
                            /\ order[n] = IF n = m THEN Queued ELSE QueuedAhead[n]
    BY <1>2 DEF QueuedAhead
  <2>2. \A n \in Queued : QueuedAhead[n] = ahead[n] \cap Queued /\ m \notin ahead[n]
    BY <1>1, <1>2 DEF QueuedAhead
  <2> HIDE DEF before, order
  <2>3. QED
    BY <1>2, <2>1, <2>2
<1> HIDE DEF at, before, order
<1>5. Admission!Settle(Waiting(at), order, Holding(at))
  <2>1. \A n \in Waiting(at) : order[n] \cap Waiting(at) = before[n] \cap Waiting(at)
    BY <1>1, <1>4
  <2>2. QED
    BY <1>1, <1>3, <2>1, DrainSettles
<1>6. QED
  BY <1>1, <1>5 DEF Admission!Come, Booked, order

\* Commands that end, are refused, expire or lose their connection go.
LEMMA LeaveGoes ==
  ASSUME OrderInv, NEW gone, gone \subseteq Booked, NEW freed, freed = KeysOf(gone \cap Held),
         NEW outcome, outcome \in Stage \ (Running \cup {"queued"}),
         Leave(gone, outcome, freed)
  PROVE  Admission!Go(gone)
<1> DEFINE at == StagesLeft(gone, outcome)
           before == PlacesLeft(gone)
           active == activeResources \ freed
<1>1. /\ Ordered(at, before, active)
      /\ Waiting(at) = Queued \ gone
      /\ Holding(at) = Held \ gone
  BY LeftInOrder
<1>2. Drain(at, before, active)
  BY DEF Leave, StagesLeft, PlacesLeft
<1>3. \A n \in Waiting(at) :
        QueuedAhead[n] \cap Waiting(at) = before[n] \cap Waiting(at)
  BY <1>1 DEF QueuedAhead, Queued, PlacesLeft
<1> HIDE DEF at, before, active
<1>4. Admission!Settle(Waiting(at), QueuedAhead, Holding(at))
  BY <1>1, <1>2, <1>3, DrainSettles
<1>5. QED
  BY <1>1, <1>4 DEF Admission!Go, Booked

\* A command of a closed connection or of a sender without rights does not reach its
\* handler, and a handler that has begun is not answered as cancelled or overloaded
\* (RefusedNeverRuns); what it answers itself, forbidden included, is its own affair.
THEOREM RefusalsAreFinal == Spec => RefusedNeverRuns
<1>1. Inv /\ [Next]_vars => [Refused]_vars
  BY StepKeepsInv
<1>2. [Refused]_vars <=>
      [\A m \in Mutation :
         /\ stage[m] # "executing" /\ stage'[m] = "executing" =>
              ConnectionOf[m] \notin closed /\ m \notin revoked
         /\ stage[m] = "executing" => stage'[m] \in {"executing", "settled", "forbidden"}]_vars
  BY DEF Refused
<1>3. QED
  BY InvHolds, <1>1, <1>2, PTL DEF Spec, RefusedNeverRuns

\* What the contract sees of the scheduler.
Seen == <<Queued, QueuedAhead, Held>>

\* A command that neither joins nor leaves the queue or the running set is not seen.
LEMMA QuietIsUnseen ==
  ASSUME NEW m \in Mutation, NEW to, stage \in [Mutation -> Stage],
         stage' = [stage EXCEPT ![m] = to], ahead' = ahead,
         stage[m] # "queued", to # "queued", stage[m] \in Running <=> to \in Running
  PROVE  UNCHANGED Seen
<1>1. \A n \in Mutation : stage'[n] = IF n = m THEN to ELSE stage[n]
  OBVIOUS
<1>2. Queued' = Queued /\ Held' = Held
  BY <1>1 DEF Queued, Held
<1>3. QueuedAhead' = QueuedAhead
  BY <1>2 DEF QueuedAhead
<1>4. QED
  BY <1>2, <1>3 DEF Seen

\* A single command that leaves is a task that goes.
LEMMA LeaveIsSeen ==
  ASSUME OrderInv, NEW m \in Mutation, m \in Booked,
         NEW freed, freed = KeysOf({m} \cap Held),
         NEW outcome \in Stage \ (Running \cup {"queued"}), Leave({m}, outcome, freed)
  PROVE  Admission!Next
<1>1. {m} \subseteq Booked /\ {m} \in SUBSET Mutation
  OBVIOUS
<1>2. Admission!Go({m})
  BY <1>1, LeaveGoes
<1>3. QED
  BY <1>1, <1>2 DEF Admission!Next

\* Every step of the scheduler is a step of the contract, or none.
LEMMA StepIsSeen ==
  ASSUME Inv, [Next]_vars
  PROVE  Admission!Next \/ UNCHANGED Seen
<1>1. OrderInv /\ stage \in [Mutation -> Stage]
  BY DEF Inv, OrderInv, Ordered
<1>2. ASSUME NEW m \in Mutation, Receive(m)
      PROVE  UNCHANGED Seen
  BY <1>1, <1>2, QuietIsUnseen DEF Receive, Running
<1>3. ASSUME NEW m \in Mutation, Authorize(m)
      PROVE  UNCHANGED Seen
  <2> DEFINE to == IF m \in revoked THEN "forbidden" ELSE "admitted"
  <2>1. /\ to \in {"forbidden", "admitted"} /\ stage[m] = "authorizing"
        /\ stage' = [stage EXCEPT ![m] = to] /\ ahead' = ahead
    BY <1>3 DEF Authorize
  <2> HIDE DEF to
  <2>2. QED
    BY <1>1, <2>1, QuietIsUnseen DEF Running
<1>4. ASSUME NEW m \in Mutation, Schedule(m)
      PROVE  Admission!Next \/ UNCHANGED Seen
  <2>1. stage[m] = "admitted"
    BY <1>4 DEF Schedule
  <2>2. ASSUME NEW outcome \in {"cancelled", "overloaded"}, Refuse(m, outcome)
        PROVE  UNCHANGED Seen
    BY <1>1, <2>1, <2>2, QuietIsUnseen DEF Refuse, Running
  <2>3. ASSUME Enqueue(m)
        PROVE  Admission!Next
    <3>1. Admission!Come(m)
      BY <1>1, <2>1, <2>3, EnqueueComes
    <3>2. QED
      BY <3>1 DEF Admission!Next
  <2>4. QED
    BY <1>4, <2>2, <2>3 DEF Schedule
<1>5. ASSUME NEW m \in Mutation, Reauthorize(m)
      PROVE  Admission!Next \/ UNCHANGED Seen
  <2>1. stage[m] = "reauthorizing" /\ m \in Held /\ m \in Booked
    BY <1>5 DEF Reauthorize, Held, Booked, Running
  <2>2. ASSUME Leave({m}, "forbidden", Keys[m])
        PROVE  Admission!Next
    BY <1>1, <2>1, <2>2, LeaveIsSeen, OwnKeys DEF Stage, Refusal, Running
  <2>3. ASSUME stage' = [stage EXCEPT ![m] = "authorized"], ahead' = ahead
        PROVE  UNCHANGED Seen
    BY <1>1, <2>1, <2>3, QuietIsUnseen DEF Running
  <2>4. QED
    BY <1>5, <2>2, <2>3 DEF Reauthorize
<1>6. ASSUME NEW m \in Mutation, Begin(m)
      PROVE  Admission!Next \/ UNCHANGED Seen
  <2>1. stage[m] = "authorized" /\ m \in Held /\ m \in Booked
    BY <1>6 DEF Begin, Held, Booked, Running
  <2>2. ASSUME Leave({m}, "cancelled", Keys[m])
        PROVE  Admission!Next
    BY <1>1, <2>1, <2>2, LeaveIsSeen, OwnKeys DEF Stage, Refusal, Running
  <2>3. ASSUME stage' = [stage EXCEPT ![m] = "executing"], ahead' = ahead
        PROVE  UNCHANGED Seen
    BY <1>1, <2>1, <2>3, QuietIsUnseen DEF Running
  <2>4. QED
    BY <1>6, <2>2, <2>3 DEF Begin
<1>7. ASSUME NEW m \in Mutation, Finish(m)
      PROVE  Admission!Next
  <2>1. m \in Held /\ m \in Booked
    BY <1>7 DEF Finish, Held, Booked, Running
  <2>2. PICK outcome \in {"settled", "forbidden"} : Leave({m}, outcome, Keys[m])
    BY <1>7 DEF Finish
  <2>3. QED
    BY <1>1, <2>1, <2>2, LeaveIsSeen, OwnKeys DEF Stage, Running, Refusal
<1>8. ASSUME NEW m \in Mutation, Expire(m)
      PROVE  Admission!Next
  <2>1. m \notin Held /\ m \in Booked
    BY <1>8 DEF Expire, Held, Booked, Queued, Running
  <2>2. QED
    BY <1>1, <1>8, <2>1, LeaveIsSeen, OwnKeys DEF Expire, Stage, Running, Refusal
<1>9. ASSUME NEW m \in Mutation, Revoke(m)
      PROVE  UNCHANGED Seen
  BY <1>9 DEF Revoke, Seen, Queued, QueuedAhead, Held
<1>10. ASSUME NEW c \in Connection, Close(c)
       PROVE  Admission!Next
  <2>1. /\ QueuedOf(c) \subseteq Booked /\ QueuedOf(c) \in SUBSET Mutation
        /\ QueuedOf(c) \cap Held = {}
        /\ Leave(QueuedOf(c), "cancelled", {})
    BY <1>10 DEF Close, QueuedOf, Booked, Queued, Held, Running
  <2>2. /\ KeysOf(QueuedOf(c) \cap Held) = {}
        /\ "cancelled" \in Stage \ (Running \cup {"queued"})
    BY <2>1 DEF KeysOf, Stage, Refusal, Running
  <2>3. Admission!Go(QueuedOf(c))
    BY <1>1, <2>1, <2>2, LeaveGoes
  <2>4. QED
    BY <2>1, <2>3 DEF Admission!Next
<1>11. CASE UNCHANGED vars
  BY <1>11 DEF vars, Seen, Queued, QueuedAhead, Held
<1>12. QED
  BY <1>2, <1>3, <1>4, <1>5, <1>6, <1>7, <1>8, <1>9, <1>10, <1>11 DEF Next

\* ControlMutationScheduler implements the contract of an ordered admission: commands
\* that name a common resource are admitted one at a time and in the order in which
\* they came, and no command waits longer than for those in its way.
THEOREM CommandsAreAdmittedInOrder == Spec => ImplementsOrderedAdmission
<1>1. Init => Admission!Init
  BY DEF Init, Admission!Init, Queued, QueuedAhead, Held, Running
<1>2. Inv /\ [Next]_vars => [Admission!Next]_<<Queued, QueuedAhead, Held>>
  BY StepIsSeen DEF Seen
<1>3. QED
  BY InvHolds, <1>1, <1>2, PTL DEF Spec, ImplementsOrderedAdmission, Admission!Spec

================================================================================
