-------------------------------- MODULE Gates_proofs --------------------------------
(* Proofs about the two components that let things pass in order: the delivery  *)
(* of runs over a WebSocket, whose gate authorises what it sends, and the       *)
(* execution gate of the tools. They share no state and neither part of the     *)
(* module uses the other.                                                       *)
(*                                                                              *)
(* Delivery, for any runs, snapshots and limits. A run's part of the stream is  *)
(* what was handed to the gate followed by the positions that still wait, and   *)
(* one invariant (LineOK) speaks of both as one line: what a waiting snapshot   *)
(* will contain is compared with all that is before it, handed over or not. So  *)
(* draining a queue moves a boundary and changes nothing, and what other runs   *)
(* do adds messages that are not looked at.                                     *)
EXTENDS RunDelivery, ToolExecutionGate, FiniteSetTheorems, SequenceTheorems,
        NaturalsInduction, WellFoundedInduction, TLAPS

---------------------------------------------------------------------------------
(* One run's part of the stream: G is what was handed to the gate, in order, s   *)
(* the positions that wait behind it; P and T say what has become of snapshots.  *)

\* A position whose snapshot is still to be read, or has been read, or has failed.
IsUnread(x, P) == x.kind # "update" /\ ~x.filled /\ P[x.of] = "reserved"
IsRead(x, P) == x.kind = "snapshot" /\ (x.filled \/ P[x.of] = "captured")
HasFailed(x, P) ==
    x.kind = "failure" \/ (x.kind = "snapshot" /\ ~x.filled /\ P[x.of] = "failed")

\* The number of updates a position stands for.
Holds(x, T) == IF x.kind = "update" THEN x.n ELSE T[x.of]

SlotOK(r, x, P, T, u) ==
    /\ x.kind = "update" => x.of = "none" /\ x.filled /\ x.n \in 1..u
    /\ x.kind # "update" =>
         /\ x.of \in Capture /\ RunOf[x.of] = r
         /\ x.filled => x.n = T[x.of] /\ P[x.of] = "done"
         /\ ~x.filled => x.kind = "snapshot" /\ P[x.of] \in {"reserved", "captured", "failed"}

SlotsAreSound(r, s, P, T, u) == \A j \in DOMAIN s : SlotOK(r, s[j], P, T, u)

\* Someone who has received what is before position j knows of n updates, or will be
\* told of a failure, or will receive a snapshot that is read only later.
Covers(x, n, P, T) == IsUnread(x, P) \/ HasFailed(x, P) \/ Holds(x, T) >= n

CoveredBefore(j, r, n, G, s, P, T) ==
    \/ \E i \in DOMAIN G : G[i].run = r /\ (G[i].kind = "failure" \/ G[i].n >= n)
    \/ \E i \in 1..(j - 1) : Covers(s[i], n, P, T)

GateIsOrdered(r, G) ==
    \A j \in DOMAIN G :
        G[j].run = r =>
          /\ G[j].kind = "snapshot" =>
               \A i \in 1..(j - 1) : G[i].run = r => G[i].n <= G[j].n
          /\ G[j].kind = "update" =>
               \E i \in 1..(j - 1) : /\ G[i].run = r
                                     /\ G[i].kind = "failure" \/ G[i].n >= G[j].n - 1

GateIsBounded(r, G, c) == \A i \in DOMAIN G : G[i].run = r => G[i].n <= c

SnapshotsDominate(r, G, s, P, T) ==
    \A j \in DOMAIN s :
        IsRead(s[j], P) =>
          /\ \A i \in DOMAIN G : G[i].run = r => G[i].n <= T[s[j].of]
          /\ \A i \in 1..(j - 1) : ~IsUnread(s[i], P) /\ Holds(s[i], T) <= T[s[j].of]

UpdatesAreCovered(r, G, s, P, T) ==
    \A j \in DOMAIN s : s[j].kind = "update" => CoveredBefore(j, r, s[j].n - 1, G, s, P, T)

EndIsCovered(r, G, s, P, T, u, H) ==
    r \in H => CoveredBefore(Len(s) + 1, r, u, G, s, P, T)

LineOK(r, G, s, P, T, c, u, H) ==
    /\ GateIsOrdered(r, G)
    /\ GateIsBounded(r, G, c)
    /\ SlotsAreSound(r, s, P, T, u)
    /\ SnapshotsDominate(r, G, s, P, T)
    /\ UpdatesAreCovered(r, G, s, P, T)
    /\ EndIsCovered(r, G, s, P, T, u, H)

\* What becomes of other runs' snapshots is no concern of a run.
Untouched(r, P, P2) == \A q \in Capture : RunOf[q] = r => P2[q] = P[q]

OthersUntouched(q, P, P2) == \A p \in Capture : p # q => P2[p] = P[p]

\* The positions of a snapshot are filled with what was read, or with the failure.
Fills(s, t, q, P, T) ==
    /\ Len(t) = Len(s)
    /\ \A j \in DOMAIN s :
         /\ s[j].of # q => t[j] = s[j]
         /\ s[j].of = q => /\ t[j].of = q /\ t[j].filled /\ t[j].n = T[q]
                           /\ t[j].kind = IF P[q] = "failed" THEN "failure" ELSE "snapshot"

\* The snapshots of a run are read in the order of their positions.
InReadingOrder(r, C, s, P) ==
    /\ \A a \in DOMAIN C : RunOf[C[a]] = r /\ P[C[a]] = "reserved"
    /\ \A a, b \in DOMAIN C : C[a] = C[b] => a = b
    /\ \A j \in DOMAIN s : IsUnread(s[j], P) => \E a \in DOMAIN C : C[a] = s[j].of
    /\ \A j \in DOMAIN s : \A i \in 1..(j - 1) : \A a, b \in DOMAIN C :
         IsUnread(s[i], P) /\ C[a] = s[i].of /\ C[b] = s[j].of => a <= b

\* What is in a sequence, and where.
LEMMA Elements ==
  ASSUME NEW S, NEW s \in Seq(S)
  PROVE  /\ Len(s) \in Nat /\ DOMAIN s = 1..Len(s)
         /\ \A i \in DOMAIN s : s[i] \in S
  BY ElementOfSeq, LenProperties

LEMMA Joined ==
  ASSUME NEW S, NEW s \in Seq(S), NEW t \in Seq(S)
  PROVE  /\ s \o t \in Seq(S) /\ Len(s \o t) = Len(s) + Len(t)
         /\ DOMAIN (s \o t) = 1..(Len(s) + Len(t))
         /\ \A i \in 1..Len(s) : (s \o t)[i] = s[i]
         /\ \A i \in 1..Len(t) : (s \o t)[Len(s) + i] = t[i]
<1>1. /\ s \o t \in Seq(S) /\ Len(s \o t) = Len(s) + Len(t)
      /\ \A i \in 1..Len(s) + Len(t) :
            (s \o t)[i] = IF i <= Len(s) THEN s[i] ELSE t[i - Len(s)]
  BY ConcatProperties
<1>2. Len(s) \in Nat /\ Len(t) \in Nat /\ DOMAIN (s \o t) = 1..Len(s \o t)
  BY <1>1, LenProperties
<1>3. \A i \in 1..Len(s) : i \in 1..Len(s) + Len(t) /\ i <= Len(s)
  BY <1>2
<1>4. \A i \in 1..Len(t) : /\ Len(s) + i \in 1..Len(s) + Len(t)
                           /\ ~(Len(s) + i <= Len(s)) /\ Len(s) + i - Len(s) = i
  BY <1>2
<1>5. QED
  BY <1>1, <1>2, <1>3, <1>4

LEMMA Remaining ==
  ASSUME NEW S, NEW s \in Seq(S), NEW k \in 0..Len(s)
  PROVE  /\ SubSeq(s, k + 1, Len(s)) \in Seq(S)
         /\ Len(SubSeq(s, k + 1, Len(s))) = Len(s) - k
         /\ DOMAIN SubSeq(s, k + 1, Len(s)) = 1..(Len(s) - k)
         /\ \A j \in 1..(Len(s) - k) : SubSeq(s, k + 1, Len(s))[j] = s[k + j]
<1>1. Len(s) \in Nat /\ k \in Nat /\ k <= Len(s) /\ \A i \in 1..Len(s) : s[i] \in S
  BY Elements
<1> DEFINE n == Len(s)
<1> HIDE DEF n
<1>2. n \in Nat /\ k + 1 \in Int /\ n \in Int /\ \A i \in (k + 1)..n : s[i] \in S
  BY <1>1 DEF n
<1>3. /\ SubSeq(s, k + 1, n) \in Seq(S)
      /\ Len(SubSeq(s, k + 1, n)) = IF k + 1 <= n THEN n - (k + 1) + 1 ELSE 0
      /\ \A i \in 1 .. n - (k + 1) + 1 : SubSeq(s, k + 1, n)[i] = s[(k + 1) + i - 1]
  BY <1>2, SubSeqProperties
<1> DEFINE t == SubSeq(s, k + 1, n)
<1> HIDE DEF t
<1>4. t \in Seq(S) /\ Len(t) = n - k /\ DOMAIN t = 1..Len(t)
  <2>1. t \in Seq(S) /\ Len(t) = IF k + 1 <= n THEN n - (k + 1) + 1 ELSE 0
    BY <1>3 DEF t
  <2>2. k <= n
    BY <1>1 DEF n
  <2>3. DOMAIN t = 1..Len(t)
    BY <2>1, LenProperties
  <2>4. QED
    BY <1>1, <1>2, <2>1, <2>2, <2>3
<1>5. \A i \in 1..(n - k) : i \in 1 .. n - (k + 1) + 1 /\ (k + 1) + i - 1 = k + i
  BY <1>1, <1>2
<1>6. \A i \in 1..(n - k) : t[i] = s[k + i]
  BY <1>3, <1>5 DEF t
<1>7. QED
  BY <1>4, <1>6 DEF t, n

\* What the other runs send does not disturb a run, nor what becomes of their snapshots.
LEMMA LineBesideOthers ==
  ASSUME NEW r \in Run, NEW G \in Seq(MessageType), NEW G2 \in Seq(MessageType),
         NEW s \in Seq(SlotType), NEW P, NEW T, NEW P2, NEW T2,
         NEW c \in Nat, NEW c2 \in Nat, c <= c2, NEW u \in Nat, NEW H, NEW H2,
         Len(G) <= Len(G2), \A i \in 1..Len(G) : G2[i] = G[i],
         \A i \in (Len(G) + 1)..Len(G2) : G2[i].run # r,
         Untouched(r, P, P2), Untouched(r, T, T2),
         r \in H2 => r \in H,
         LineOK(r, G, s, P, T, c, u, H)
  PROVE  LineOK(r, G2, s, P2, T2, c2, u, H2)
<1>1. /\ Len(G) \in Nat /\ Len(G2) \in Nat /\ Len(s) \in Nat
      /\ DOMAIN G = 1..Len(G) /\ DOMAIN G2 = 1..Len(G2) /\ DOMAIN s = 1..Len(s)
  BY LenProperties
<1>2. \A i \in DOMAIN G : G[i].n \in Nat
  <2>1. \A i \in DOMAIN G : G[i] \in MessageType
    BY Elements
  <2>2. QED
    BY <2>1 DEF MessageType
<1>3. \A i \in DOMAIN G2 : G2[i].run = r => i \in DOMAIN G /\ G2[i] = G[i]
  BY <1>1
<1>4. \A j \in DOMAIN s : /\ s[j].kind # "update" => P2[s[j].of] = P[s[j].of] /\ T2[s[j].of] = T[s[j].of]
                          /\ IsUnread(s[j], P2) <=> IsUnread(s[j], P)
                          /\ IsRead(s[j], P2) <=> IsRead(s[j], P)
                          /\ HasFailed(s[j], P2) <=> HasFailed(s[j], P)
                          /\ Holds(s[j], T2) = Holds(s[j], T)
  BY DEF LineOK, SlotsAreSound, SlotOK, IsUnread, IsRead, HasFailed, Holds, Untouched
<1>5. GateIsOrdered(r, G2)
  <2>1. SUFFICES ASSUME NEW j \in DOMAIN G2, G2[j].run = r
                 PROVE  /\ G2[j].kind = "snapshot" =>
                             \A i \in 1..(j - 1) : G2[i].run = r => G2[i].n <= G2[j].n
                        /\ G2[j].kind = "update" =>
                             \E i \in 1..(j - 1) :
                                 G2[i].run = r /\ (G2[i].kind = "failure" \/ G2[i].n >= G2[j].n - 1)
    BY DEF GateIsOrdered
  <2>2. j \in DOMAIN G /\ \A i \in 1..j : G2[i] = G[i]
    BY <1>1, <1>3, <2>1
  <2>3. G2[j] = G[j] /\ \A i \in 1..(j - 1) : G2[i] = G[i]
    BY <1>1, <2>2
  <2>4. /\ G[j].kind = "snapshot" => \A i \in 1..(j - 1) : G[i].run = r => G[i].n <= G[j].n
        /\ G[j].kind = "update" =>
             \E i \in 1..(j - 1) : G[i].run = r /\ (G[i].kind = "failure" \/ G[i].n >= G[j].n - 1)
    BY <2>1, <2>2, <2>3 DEF LineOK, GateIsOrdered
  <2>5. QED
    BY <2>3, <2>4
<1>6. GateIsBounded(r, G2, c2)
  BY <1>2, <1>3 DEF LineOK, GateIsBounded
<1>7. SlotsAreSound(r, s, P2, T2, u)
  BY <1>4 DEF LineOK, SlotsAreSound, SlotOK
<1>8. SnapshotsDominate(r, G2, s, P2, T2)
  <2>1. SUFFICES ASSUME NEW j \in DOMAIN s, IsRead(s[j], P2)
                 PROVE  /\ \A i \in DOMAIN G2 : G2[i].run = r => G2[i].n <= T2[s[j].of]
                        /\ \A i \in 1..(j - 1) : /\ ~IsUnread(s[i], P2)
                                                 /\ Holds(s[i], T2) <= T2[s[j].of]
    BY DEF SnapshotsDominate
  <2>2. IsRead(s[j], P) /\ T2[s[j].of] = T[s[j].of]
    BY <1>4, <2>1 DEF IsRead
  <2>3. /\ \A i \in DOMAIN G : G[i].run = r => G[i].n <= T[s[j].of]
        /\ \A i \in 1..(j - 1) : ~IsUnread(s[i], P) /\ Holds(s[i], T) <= T[s[j].of]
    BY <2>2 DEF LineOK, SnapshotsDominate
  <2>4. \A i \in 1..(j - 1) : i \in DOMAIN s
    BY <1>1
  <2>5. QED
    BY <1>3, <1>4, <2>2, <2>3, <2>4
<1>9. \A j \in 1..(Len(s) + 1), n \in Int :
         CoveredBefore(j, r, n, G, s, P, T) => CoveredBefore(j, r, n, G2, s, P2, T2)
  <2>1. \A j \in 1..(Len(s) + 1) : \A i \in 1..(j - 1) : i \in DOMAIN s
    BY <1>1
  <2>2. \A i \in DOMAIN G : i \in DOMAIN G2 /\ G2[i] = G[i]
    BY <1>1
  <2>3. \A i \in DOMAIN s, n \in Int : Covers(s[i], n, P, T) => Covers(s[i], n, P2, T2)
    BY <1>4 DEF Covers
  <2>4. QED
    BY <2>1, <2>2, <2>3 DEF CoveredBefore
<1>10. UpdatesAreCovered(r, G2, s, P2, T2)
  <2>1. \A j \in DOMAIN s : s[j].n - 1 \in Int
    <3>1. \A j \in DOMAIN s : s[j] \in SlotType
      BY Elements
    <3>2. QED
      BY <3>1 DEF SlotType
  <2>2. \A j \in DOMAIN s : j \in 1..(Len(s) + 1)
    BY <1>1
  <2>3. \A j \in DOMAIN s : s[j].kind = "update" => CoveredBefore(j, r, s[j].n - 1, G, s, P, T)
    BY DEF LineOK, UpdatesAreCovered
  <2>4. QED
    BY <1>9, <2>1, <2>2, <2>3 DEF UpdatesAreCovered
<1>11. EndIsCovered(r, G2, s, P2, T2, u, H2)
  BY <1>1, <1>9 DEF LineOK, EndIsCovered
<1>12. QED
  BY <1>5, <1>6, <1>7, <1>8, <1>10, <1>11 DEF LineOK

\* Positions at the front that are filled may be handed to the gate.
LEMMA LineAfterDrain ==
  ASSUME NEW r \in Run, NEW G \in Seq(MessageType), NEW s \in Seq(SlotType),
         NEW P, NEW T \in [Capture -> Nat], NEW c \in Nat, NEW u \in Nat, u <= c, NEW H,
         \A q \in Capture : RunOf[q] = r => T[q] <= c,
         NEW k \in 0..Len(s), \A i \in 1..k : s[i].filled,
         NEW m \in Seq(MessageType), Len(m) = k,
         \A i \in 1..k : m[i].run = r /\ m[i].kind = s[i].kind /\ m[i].n = s[i].n,
         LineOK(r, G, s, P, T, c, u, H)
  PROVE  LineOK(r, G \o m, SubSeq(s, k + 1, Len(s)), P, T, c, u, H)
<1> DEFINE F == G \o m
           t == SubSeq(s, k + 1, Len(s))
<1>1. /\ Len(G) \in Nat /\ Len(s) \in Nat
      /\ DOMAIN G = 1..Len(G) /\ DOMAIN s = 1..Len(s)
  BY LenProperties
<1>2. /\ \A i \in DOMAIN G : G[i].n \in Nat
      /\ \A j \in DOMAIN s : s[j] \in SlotType /\ s[j].n \in Nat
  <2>1. /\ \A i \in DOMAIN G : G[i] \in MessageType
        /\ \A j \in DOMAIN s : s[j] \in SlotType
    BY Elements
  <2>2. QED
    BY <2>1 DEF MessageType, SlotType
<1>3. /\ F \in Seq(MessageType) /\ Len(F) = Len(G) + k /\ DOMAIN F = 1..(Len(G) + k)
      /\ \A i \in 1..Len(G) : F[i] = G[i]
      /\ \A i \in 1..k : F[Len(G) + i] = m[i]
  <2>1. F \in Seq(MessageType) /\ Len(F) = Len(G) + Len(m)
    BY Joined
  <2>2. DOMAIN F = 1..(Len(G) + Len(m))
    BY Joined
  <2>3. \A i \in 1..Len(G) : F[i] = G[i]
    BY Joined
  <2>4. \A i \in 1..Len(m) : F[Len(G) + i] = m[i]
    BY Joined
  <2> HIDE DEF F
  <2>5. QED
    BY <2>1, <2>2, <2>3, <2>4
<1>4. /\ t \in Seq(SlotType) /\ Len(t) = Len(s) - k /\ DOMAIN t = 1..(Len(s) - k)
      /\ \A j \in 1..(Len(s) - k) : t[j] = s[k + j]
  BY Remaining
<1> HIDE DEF F, t
\* A message stands for what its position stood for.
<1>5. \A i \in 1..k : /\ F[Len(G) + i].run = r /\ F[Len(G) + i].kind = s[i].kind
                      /\ F[Len(G) + i].n = Holds(s[i], T) /\ Holds(s[i], T) \in Nat
                      /\ Holds(s[i], T) <= c
                      /\ s[i].kind = "snapshot" => IsRead(s[i], P) /\ F[Len(G) + i].n = T[s[i].of]
                      /\ ~IsUnread(s[i], P)
                      /\ HasFailed(s[i], P) => F[Len(G) + i].kind = "failure"
  <2>1. ASSUME NEW i \in 1..k
        PROVE  /\ m[i].run = r /\ m[i].kind = s[i].kind
               /\ m[i].n = Holds(s[i], T) /\ Holds(s[i], T) \in Nat
               /\ Holds(s[i], T) <= c
               /\ s[i].kind = "snapshot" => IsRead(s[i], P) /\ m[i].n = T[s[i].of]
               /\ ~IsUnread(s[i], P)
               /\ HasFailed(s[i], P) => m[i].kind = "failure"
    <3>1. i \in DOMAIN s
      BY <1>1
    <3>2. SlotOK(r, s[i], P, T, u) /\ s[i].filled /\ s[i].n \in Nat
      BY <1>2, <3>1 DEF LineOK, SlotsAreSound
    <3>3. s[i].n = Holds(s[i], T) /\ s[i].n <= c
      BY <3>2 DEF SlotOK, Holds
    <3>4. QED
      BY <3>2, <3>3 DEF SlotOK, IsRead, IsUnread, HasFailed
  <2>2. QED
    <3>1. \A i \in 1..k : F[Len(G) + i] = m[i]
      BY <1>3
    <3>2. QED
      BY <2>1, <3>1, SMTT(30)
<1>6. \A j \in 1..(Len(s) - k) : k + j \in DOMAIN s
  BY <1>1
<1>7. \A i \in DOMAIN F : (i \in DOMAIN G /\ F[i] = G[i])
                            \/ \E l \in 1..k : i = Len(G) + l
  <2>1. SUFFICES ASSUME NEW i \in DOMAIN F, i \notin DOMAIN G
                 PROVE  \E l \in 1..k : i = Len(G) + l
    BY <1>1, <1>3
  <2>2. i - Len(G) \in 1..k /\ i = Len(G) + (i - Len(G))
    BY <1>1, <1>3, <2>1
  <2>3. QED
    BY <2>2
<1>8. \A j \in 1..(Len(s) - k + 1), n \in Int :
         CoveredBefore(k + j, r, n, G, s, P, T) => CoveredBefore(j, r, n, F, t, P, T)
  <2>1. SUFFICES ASSUME NEW j \in 1..(Len(s) - k + 1), NEW n \in Int,
                        CoveredBefore(k + j, r, n, G, s, P, T)
                 PROVE  CoveredBefore(j, r, n, F, t, P, T)
    OBVIOUS
  <2>2. CASE \E i \in DOMAIN G : G[i].run = r /\ (G[i].kind = "failure" \/ G[i].n >= n)
    <3>1. DOMAIN G \subseteq DOMAIN F /\ \A i \in DOMAIN G : F[i] = G[i]
      BY <1>1, <1>3
    <3>2. QED
      BY <2>2, <3>1 DEF CoveredBefore
  <2>3. CASE \E i \in 1..(k + j - 1) : Covers(s[i], n, P, T)
    <3>1. PICK i \in 1..(k + j - 1) : Covers(s[i], n, P, T)
      BY <2>3
    <3>2. CASE i <= k
      <4>1. Len(G) + i \in DOMAIN F
        BY <1>1, <1>3, <3>2
      <4>2. i \in 1..k
        BY <1>1, <3>2
      <4>3. F[Len(G) + i].kind = "failure" \/ F[Len(G) + i].n >= n
        <5>1. /\ F[Len(G) + i].n = Holds(s[i], T) /\ ~IsUnread(s[i], P)
              /\ HasFailed(s[i], P) => F[Len(G) + i].kind = "failure"
          BY <1>5, <4>2
        <5>2. QED
          BY <3>1, <5>1 DEF Covers
      <4>4. F[Len(G) + i].run = r
        BY <1>5, <4>2
      <4>5. QED
        BY <4>1, <4>3, <4>4 DEF CoveredBefore
    <3>3. CASE i > k
      <4>1. i - k \in 1..(j - 1) /\ t[i - k] = s[i]
        BY <1>1, <1>4, <3>3
      <4>2. QED
        BY <3>1, <4>1 DEF CoveredBefore
    <3>4. QED
      BY <1>1, <3>2, <3>3
  <2>4. QED
    BY <2>1, <2>2, <2>3 DEF CoveredBefore
<1>9. GateIsOrdered(r, F)
  <2>1. SUFFICES ASSUME NEW j \in DOMAIN F, F[j].run = r
                 PROVE  /\ F[j].kind = "snapshot" =>
                             \A i \in 1..(j - 1) : F[i].run = r => F[i].n <= F[j].n
                        /\ F[j].kind = "update" =>
                             \E i \in 1..(j - 1) : /\ F[i].run = r
                                                   /\ F[i].kind = "failure" \/ F[i].n >= F[j].n - 1
    BY DEF GateIsOrdered
  <2>2. CASE j \in DOMAIN G
    <3>1. F[j] = G[j] /\ \A i \in 1..(j - 1) : F[i] = G[i]
      BY <1>1, <1>3, <2>2
    <3>2. /\ G[j].kind = "snapshot" => \A i \in 1..(j - 1) : G[i].run = r => G[i].n <= G[j].n
          /\ G[j].kind = "update" =>
               \E i \in 1..(j - 1) : G[i].run = r /\ (G[i].kind = "failure" \/ G[i].n >= G[j].n - 1)
      BY <2>1, <2>2, <3>1 DEF LineOK, GateIsOrdered
    <3>3. QED
      BY <3>1, <3>2
  <2>3. ASSUME NEW l \in 1..k, j = Len(G) + l
        PROVE  /\ F[j].kind = "snapshot" =>
                    \A i \in 1..(j - 1) : F[i].run = r => F[i].n <= F[j].n
               /\ F[j].kind = "update" =>
                    \E i \in 1..(j - 1) : /\ F[i].run = r
                                          /\ F[i].kind = "failure" \/ F[i].n >= F[j].n - 1
    <3>1. l \in DOMAIN s /\ F[j].kind = s[l].kind /\ F[j].n = s[l].n
      BY <1>1, <1>3, <2>3
    <3>2. ASSUME F[j].kind = "snapshot", NEW i \in 1..(j - 1), F[i].run = r
          PROVE  F[i].n <= F[j].n
      <4>1. F[j].n = T[s[l].of] /\ IsRead(s[l], P)
        <5>1. s[l].kind = "snapshot"
          BY <3>1, <3>2
        <5>2. QED
          BY <1>5, <2>3, <5>1
      <4>2. CASE i \in DOMAIN G
        BY <1>1, <1>3, <3>1, <3>2, <4>1, <4>2 DEF LineOK, SnapshotsDominate
      <4>3. ASSUME NEW h \in 1..k, i = Len(G) + h
            PROVE  F[i].n <= F[j].n
        <5>1. h \in 1..(l - 1)
          BY <1>1, <2>3, <3>2, <4>3
        <5>2. Holds(s[h], T) <= T[s[l].of]
          BY <3>1, <4>1, <5>1 DEF LineOK, SnapshotsDominate
        <5>3. QED
          BY <1>5, <4>1, <4>3, <5>2
      <4>4. i \in DOMAIN F
        BY <1>1, <1>3, <3>2
      <4>5. QED
        BY <1>7, <4>2, <4>3, <4>4
    <3>3. ASSUME F[j].kind = "update"
          PROVE  \E i \in 1..(j - 1) : /\ F[i].run = r
                                       /\ F[i].kind = "failure" \/ F[i].n >= F[j].n - 1
      <4>1. CoveredBefore(l, r, s[l].n - 1, G, s, P, T)
        BY <3>1, <3>3 DEF LineOK, UpdatesAreCovered
      <4>2. CASE \E i \in DOMAIN G : G[i].run = r /\ (G[i].kind = "failure" \/ G[i].n >= s[l].n - 1)
        BY <1>1, <1>3, <2>3, <3>1, <4>2
      <4>3. CASE \E i \in 1..(l - 1) : Covers(s[i], s[l].n - 1, P, T)
        <5>1. PICK i \in 1..(l - 1) : Covers(s[i], s[l].n - 1, P, T)
          BY <4>3
        <5>2. i \in 1..k /\ Len(G) + i \in 1..(j - 1)
          BY <1>1, <2>3
        <5>3. F[Len(G) + i].kind = "failure" \/ F[Len(G) + i].n >= F[j].n - 1
          BY <1>5, <3>1, <5>1, <5>2 DEF Covers
        <5>4. QED
          BY <1>5, <5>2, <5>3
      <4>4. QED
        BY <4>1, <4>2, <4>3 DEF CoveredBefore
    <3>4. QED
      BY <3>2, <3>3
  <2>4. QED
    BY <1>7, <2>1, <2>2, <2>3
<1>10. GateIsBounded(r, F, c)
  <2>1. \A i \in DOMAIN G : G[i].run = r => G[i].n <= c
    BY DEF LineOK, GateIsBounded
  <2>2. \A l \in 1..k : F[Len(G) + l].n <= c
    BY <1>5
  <2>3. QED
    BY <1>7, <2>1, <2>2 DEF GateIsBounded
<1>11. SlotsAreSound(r, t, P, T, u)
  BY <1>4, <1>6 DEF LineOK, SlotsAreSound
<1>12. SnapshotsDominate(r, F, t, P, T)
  <2>1. SUFFICES ASSUME NEW j \in DOMAIN t, IsRead(t[j], P)
                 PROVE  /\ \A i \in DOMAIN F : F[i].run = r => F[i].n <= T[t[j].of]
                        /\ \A i \in 1..(j - 1) : /\ ~IsUnread(t[i], P)
                                                 /\ Holds(t[i], T) <= T[t[j].of]
    BY DEF SnapshotsDominate
  <2>2. k + j \in DOMAIN s /\ t[j] = s[k + j]
    BY <1>4, <1>6
  <2>3. /\ \A i \in DOMAIN G : G[i].run = r => G[i].n <= T[t[j].of]
        /\ \A i \in 1..(k + j - 1) : ~IsUnread(s[i], P) /\ Holds(s[i], T) <= T[t[j].of]
    <3>1. IsRead(s[k + j], P)
      BY <2>1, <2>2
    <3>2. SnapshotsDominate(r, G, s, P, T)
      BY DEF LineOK
    <3>3. PICK l \in DOMAIN s : l = k + j /\ t[j] = s[l] /\ IsRead(s[l], P)
      BY <2>2, <3>1
    <3>4. /\ \A i \in DOMAIN G : G[i].run = r => G[i].n <= T[s[l].of]
          /\ \A i \in 1..(l - 1) : ~IsUnread(s[i], P) /\ Holds(s[i], T) <= T[s[l].of]
      BY <3>2, <3>3 DEF SnapshotsDominate
    <3>5. 1..(l - 1) = 1..(k + j - 1)
      BY <1>1, <1>4, <3>3
    <3>6. QED
      BY <3>3, <3>4, <3>5
  <2>4. \A i \in 1..k : F[Len(G) + i].n <= T[t[j].of]
    <3>1. \A i \in 1..k : i \in 1..(k + j - 1)
      BY <1>1, <1>4
    <3>2. QED
      BY <1>5, <2>3, <3>1
  <2>5. \A i \in 1..(j - 1) : k + i \in 1..(k + j - 1) /\ t[i] = s[k + i]
    BY <1>1, <1>4
  <2>6. QED
    BY <1>7, <2>3, <2>4, <2>5
<1>13. UpdatesAreCovered(r, F, t, P, T)
  <2>1. SUFFICES ASSUME NEW j \in DOMAIN t, t[j].kind = "update"
                 PROVE  CoveredBefore(j, r, t[j].n - 1, F, t, P, T)
    BY DEF UpdatesAreCovered
  <2>2. k + j \in DOMAIN s /\ t[j] = s[k + j] /\ s[k + j].n - 1 \in Int
    BY <1>2, <1>4, <1>6
  <2>3. CoveredBefore(k + j, r, s[k + j].n - 1, G, s, P, T)
    BY <2>1, <2>2 DEF LineOK, UpdatesAreCovered
  <2>4. j \in 1..(Len(s) - k + 1)
    BY <1>1, <1>4
  <2>5. QED
    BY <1>8, <2>2, <2>3, <2>4
<1>14. EndIsCovered(r, F, t, P, T, u, H)
  <2>1. Len(s) - k + 1 \in 1..(Len(s) - k + 1) /\ k + (Len(s) - k + 1) = Len(s) + 1
        /\ Len(t) + 1 = Len(s) - k + 1
    BY <1>1, <1>4
  <2>2. r \in H => CoveredBefore(k + (Len(s) - k + 1), r, u, G, s, P, T)
    BY <2>1 DEF LineOK, EndIsCovered
  <2>3. QED
    BY <1>8, <2>1, <2>2 DEF EndIsCovered
<1>15. QED
  BY <1>9, <1>10, <1>11, <1>12, <1>13, <1>14 DEF LineOK, F, t


\* Filling the positions of a snapshot that was read, or whose read failed, changes
\* nothing about what they stand for.
LEMMA LineAfterFill ==
  ASSUME NEW r \in Run, NEW G \in Seq(MessageType), NEW s \in Seq(SlotType),
         NEW t \in Seq(SlotType), NEW P, NEW P2, NEW T, NEW c \in Nat, NEW u \in Nat, NEW H,
         NEW q \in Capture, "none" \notin Capture,
         P[q] \in {"captured", "failed"}, P2[q] = "done",
         OthersUntouched(q, P, P2),
         Fills(s, t, q, P, T),
         LineOK(r, G, s, P, T, c, u, H)
  PROVE  LineOK(r, G, t, P2, T, c, u, H)
<1>1. Len(s) \in Nat /\ DOMAIN s = 1..Len(s) /\ DOMAIN t = DOMAIN s
  BY LenProperties DEF Fills
<1>2. \A j \in DOMAIN s : s[j] \in SlotType /\ s[j].n \in Nat
  <2>1. \A j \in DOMAIN s : s[j] \in SlotType
    BY Elements
  <2>2. QED
    BY <2>1 DEF SlotType
<1>3. ASSUME NEW j \in DOMAIN s
      PROVE  /\ SlotOK(r, t[j], P2, T, u)
             /\ t[j].kind = "update" <=> s[j].kind = "update"
             /\ IsUnread(t[j], P2) <=> IsUnread(s[j], P)
             /\ IsRead(t[j], P2) <=> IsRead(s[j], P)
             /\ HasFailed(t[j], P2) <=> HasFailed(s[j], P)
             /\ Holds(t[j], T) = Holds(s[j], T)
             /\ t[j].of = s[j].of
             /\ t[j].kind = "update" => t[j].n = s[j].n
  <2>1. SlotOK(r, s[j], P, T, u)
    BY DEF LineOK, SlotsAreSound
  <2>2. CASE s[j].of = q
    <3>1. s[j].kind = "snapshot" /\ ~s[j].filled /\ RunOf[q] = r
      BY <2>1, <2>2 DEF SlotOK
    <3>2. /\ t[j].of = q /\ t[j].filled /\ t[j].n = T[q]
          /\ t[j].kind = IF P[q] = "failed" THEN "failure" ELSE "snapshot"
      BY <2>2 DEF Fills
    <3>3. QED
      BY <2>2, <3>1, <3>2 DEF SlotOK, IsUnread, IsRead, HasFailed, Holds
  <2>3. CASE s[j].of # q
    <3>1. t[j] = s[j]
      BY <2>3 DEF Fills
    <3>2. s[j].kind # "update" => P2[s[j].of] = P[s[j].of]
      BY <2>1, <2>3 DEF SlotOK, OthersUntouched
    <3>3. QED
      BY <2>1, <3>1, <3>2 DEF SlotOK, IsUnread, IsRead, HasFailed, Holds
  <2>4. QED
    BY <2>2, <2>3
<1>4. GateIsOrdered(r, G) /\ GateIsBounded(r, G, c)
  BY DEF LineOK
<1>5. SlotsAreSound(r, t, P2, T, u)
  BY <1>1, <1>3 DEF SlotsAreSound
<1>6. SnapshotsDominate(r, G, t, P2, T)
  <2>1. \A j \in DOMAIN s : \A i \in 1..(j - 1) : i \in DOMAIN s
    BY <1>1
  <2>2. QED
    BY <1>1, <1>3, <2>1 DEF LineOK, SnapshotsDominate
<1>7. \A j \in 1..(Len(s) + 1), n \in Int :
         CoveredBefore(j, r, n, G, s, P, T) => CoveredBefore(j, r, n, G, t, P2, T)
  <2>1. \A j \in 1..(Len(s) + 1) : \A i \in 1..(j - 1) : i \in DOMAIN s
    BY <1>1
  <2>2. QED
    BY <1>3, <2>1 DEF CoveredBefore, Covers
<1>8. UpdatesAreCovered(r, G, t, P2, T)
  <2>1. SUFFICES ASSUME NEW j \in DOMAIN t, t[j].kind = "update"
                 PROVE  CoveredBefore(j, r, t[j].n - 1, G, t, P2, T)
    BY DEF UpdatesAreCovered
  <2>2. j \in DOMAIN s /\ s[j].kind = "update" /\ t[j].n = s[j].n
    BY <1>1, <1>3, <2>1
  <2>3. CoveredBefore(j, r, s[j].n - 1, G, s, P, T)
    BY <2>2 DEF LineOK, UpdatesAreCovered
  <2>4. s[j].n - 1 \in Int /\ j \in 1..(Len(s) + 1)
    BY <1>1, <1>2, <2>2
  <2>5. QED
    BY <1>7, <2>2, <2>3, <2>4
<1>9. EndIsCovered(r, G, t, P2, T, u, H)
  <2>1. Len(s) + 1 \in 1..(Len(s) + 1)
    BY <1>1
  <2>2. r \in H => CoveredBefore(Len(s) + 1, r, u, G, s, P, T)
    BY DEF LineOK, EndIsCovered
  <2>3. Len(t) = Len(s) /\ u \in Int
    BY DEF Fills
  <2>4. QED
    BY <1>7, <2>1, <2>2, <2>3 DEF EndIsCovered
<1>10. QED
  BY <1>4, <1>5, <1>6, <1>8, <1>9 DEF LineOK

\* A closed connection has no positions; what was sent remains.
LEMMA LineAfterEnd ==
  ASSUME NEW r \in Run, NEW G \in Seq(MessageType), NEW F \in Seq(MessageType),
         Len(F) <= Len(G), \A i \in 1..Len(F) : F[i] = G[i],
         NEW s, NEW P, NEW T, NEW c \in Nat, NEW u, NEW H,
         NEW P2, NEW T2, NEW c2 \in Nat, c <= c2, NEW u2,
         LineOK(r, G, s, P, T, c, u, H)
  PROVE  LineOK(r, F, <<>>, P2, T2, c2, u2, {})
<1>1. /\ Len(G) \in Nat /\ Len(F) \in Nat
      /\ DOMAIN G = 1..Len(G) /\ DOMAIN F = 1..Len(F)
  BY LenProperties
<1>2. \A i \in DOMAIN G : G[i].n \in Nat
  <2>1. \A i \in DOMAIN G : G[i] \in MessageType
    BY Elements
  <2>2. QED
    BY <2>1 DEF MessageType
<1>3. GateIsOrdered(r, F)
  <2>1. SUFFICES ASSUME NEW j \in DOMAIN F, F[j].run = r
                 PROVE  /\ F[j].kind = "snapshot" =>
                             \A i \in 1..(j - 1) : F[i].run = r => F[i].n <= F[j].n
                        /\ F[j].kind = "update" =>
                             \E i \in 1..(j - 1) :
                                 F[i].run = r /\ (F[i].kind = "failure" \/ F[i].n >= F[j].n - 1)
    BY DEF GateIsOrdered
  <2>2. j \in DOMAIN G /\ F[j] = G[j] /\ \A i \in 1..(j - 1) : F[i] = G[i]
    BY <1>1
  <2>3. /\ G[j].kind = "snapshot" => \A i \in 1..(j - 1) : G[i].run = r => G[i].n <= G[j].n
        /\ G[j].kind = "update" =>
             \E i \in 1..(j - 1) : G[i].run = r /\ (G[i].kind = "failure" \/ G[i].n >= G[j].n - 1)
    BY <2>1, <2>2 DEF LineOK, GateIsOrdered
  <2>4. QED
    BY <2>2, <2>3
<1>4. GateIsBounded(r, F, c2)
  <2>1. \A i \in DOMAIN F : i \in DOMAIN G /\ F[i] = G[i]
    BY <1>1
  <2>2. QED
    BY <1>2, <2>1 DEF LineOK, GateIsBounded
<1>5. DOMAIN <<>> = {}
  OBVIOUS
<1>6. QED
  BY <1>3, <1>4, <1>5 DEF LineOK, SlotsAreSound, SnapshotsDominate, UpdatesAreCovered,
                          EndIsCovered

\* A run that is not listened to may publish.
LEMMA LineUnheard ==
  ASSUME NEW r \in Run, NEW G, NEW s, NEW P, NEW T, NEW c, NEW u \in Nat, NEW H,
         r \notin H, LineOK(r, G, s, P, T, c, u, H)
  PROVE  LineOK(r, G, s, P, T, c, u + 1, H)
BY DEF LineOK, EndIsCovered, SlotsAreSound, SlotOK

\* A position joins the queue: it is not read yet, what comes before it covers it, and it
\* covers what was published.
LEMMA LineAfterAppend ==
  ASSUME NEW r \in Run, NEW G \in Seq(MessageType), NEW s \in Seq(SlotType), NEW x \in SlotType,
         NEW P, NEW P2, NEW T, NEW c \in Nat, NEW u \in Nat, NEW u2 \in Nat, u <= u2,
         NEW H, NEW H2,
         \A j \in DOMAIN s : s[j].kind # "update" => P2[s[j].of] = P[s[j].of],
         SlotOK(r, x, P2, T, u2), ~IsRead(x, P2), Covers(x, u2, P2, T),
         x.kind = "update" => CoveredBefore(Len(s) + 1, r, x.n - 1, G, s, P, T),
         LineOK(r, G, s, P, T, c, u, H)
  PROVE  LineOK(r, G, Append(s, x), P2, T, c, u2, H2)
<1> DEFINE t == Append(s, x)
<1>1. Len(s) \in Nat /\ DOMAIN s = 1..Len(s)
  BY LenProperties
<1>2. \A j \in DOMAIN s : s[j] \in SlotType /\ s[j].n \in Nat
  <2>1. \A j \in DOMAIN s : s[j] \in SlotType
    BY Elements
  <2>2. QED
    BY <2>1 DEF SlotType
<1>3. /\ Len(t) = Len(s) + 1 /\ t[Len(s) + 1] = x
      /\ \A j \in DOMAIN s : t[j] = s[j]
  BY <1>1, AppendProperties
<1>4. DOMAIN t = 1..(Len(s) + 1)
  <2>1. t \in Seq(SlotType)
    BY AppendProperties
  <2>2. DOMAIN t = 1..Len(t)
    BY <2>1, LenProperties
  <2>3. QED
    BY <1>3, <2>2
<1> HIDE DEF t
<1>5. \A j \in DOMAIN t : j \in DOMAIN s \/ j = Len(s) + 1
  BY <1>1, <1>4
<1>6. ASSUME NEW j \in DOMAIN s
      PROVE  /\ SlotOK(r, t[j], P2, T, u2) /\ t[j] = s[j]
             /\ IsUnread(t[j], P2) <=> IsUnread(s[j], P)
             /\ IsRead(t[j], P2) <=> IsRead(s[j], P)
             /\ HasFailed(t[j], P2) <=> HasFailed(s[j], P)
             /\ Holds(t[j], T) = Holds(s[j], T)
  <2>1. SlotOK(r, s[j], P, T, u) /\ t[j] = s[j]
    BY <1>3 DEF LineOK, SlotsAreSound
  <2>2. s[j].kind # "update" => P2[s[j].of] = P[s[j].of]
    OBVIOUS
  <2>3. SlotOK(r, s[j], P2, T, u2)
    BY <2>1, <2>2 DEF SlotOK
  <2>4. QED
    BY <2>1, <2>2, <2>3 DEF IsUnread, IsRead, HasFailed, Holds
<1>7. GateIsOrdered(r, G) /\ GateIsBounded(r, G, c)
  BY DEF LineOK
<1>8. SlotsAreSound(r, t, P2, T, u2)
  BY <1>3, <1>5, <1>6 DEF SlotsAreSound
<1>9. SnapshotsDominate(r, G, t, P2, T)
  <2>1. SUFFICES ASSUME NEW j \in DOMAIN t, IsRead(t[j], P2)
                 PROVE  /\ \A i \in DOMAIN G : G[i].run = r => G[i].n <= T[t[j].of]
                        /\ \A i \in 1..(j - 1) : /\ ~IsUnread(t[i], P2)
                                                 /\ Holds(t[i], T) <= T[t[j].of]
    BY DEF SnapshotsDominate
  <2>2. j \in DOMAIN s
    BY <1>3, <1>5, <2>1
  <2>3. \A i \in 1..(j - 1) : i \in DOMAIN s
    BY <1>1, <2>2
  <2>4. IsRead(s[j], P) /\ t[j] = s[j]
    BY <1>6, <2>1, <2>2
  <2>5. QED
    BY <1>6, <2>2, <2>3, <2>4 DEF LineOK, SnapshotsDominate
<1>10. \A j \in 1..(Len(s) + 1), n \in Int :
          CoveredBefore(j, r, n, G, s, P, T) => CoveredBefore(j, r, n, G, t, P2, T)
  <2>1. \A j \in 1..(Len(s) + 1) : \A i \in 1..(j - 1) : i \in DOMAIN s
    BY <1>1
  <2>2. QED
    BY <1>6, <2>1 DEF CoveredBefore, Covers
<1>11. UpdatesAreCovered(r, G, t, P2, T)
  <2>1. SUFFICES ASSUME NEW j \in DOMAIN t, t[j].kind = "update"
                 PROVE  CoveredBefore(j, r, t[j].n - 1, G, t, P2, T)
    BY DEF UpdatesAreCovered
  <2>2. CASE j \in DOMAIN s
    <3>1. CoveredBefore(j, r, s[j].n - 1, G, s, P, T) /\ t[j] = s[j]
      BY <1>3, <2>1, <2>2 DEF LineOK, UpdatesAreCovered
    <3>2. s[j].n - 1 \in Int /\ j \in 1..(Len(s) + 1)
      BY <1>1, <1>2, <2>2
    <3>3. QED
      BY <1>10, <3>1, <3>2
  <2>3. CASE j = Len(s) + 1
    <3>1. t[j] = x /\ x.n - 1 \in Int
      BY <1>3, <2>3 DEF SlotType
    <3>2. CoveredBefore(j, r, x.n - 1, G, s, P, T)
      BY <2>1, <2>3, <3>1
    <3>3. j \in 1..(Len(s) + 1)
      BY <1>1, <2>3
    <3>4. QED
      BY <1>10, <3>1, <3>2, <3>3
  <2>4. QED
    BY <1>5, <2>1, <2>2, <2>3
<1>12. EndIsCovered(r, G, t, P2, T, u2, H2)
  <2>1. Len(s) + 1 \in 1..((Len(t) + 1) - 1)
    BY <1>1, <1>3
  <2>2. Covers(t[Len(s) + 1], u2, P2, T)
    BY <1>3
  <2>3. QED
    BY <2>1, <2>2 DEF EndIsCovered, CoveredBefore
<1>13. QED
  BY <1>7, <1>8, <1>9, <1>11, <1>12 DEF LineOK, t

\* The snapshot that is first in line is read: it contains all that was published, and
\* whatever is before its position was read before it.
LEMMA LineAfterRead ==
  ASSUME NEW r \in Run, NEW G \in Seq(MessageType), NEW s \in Seq(SlotType),
         NEW P, NEW P2, NEW T \in [Capture -> Nat], NEW T2 \in [Capture -> Nat],
         NEW c \in Nat, NEW u \in Nat, u <= c, NEW H,
         \A p \in Capture : RunOf[p] = r => T[p] <= c,
         NEW q \in Capture, RunOf[q] = r,
         OthersUntouched(q, P, P2), OthersUntouched(q, T, T2),
         \/ P2[q] = "captured" /\ T2[q] = c
         \/ P2[q] = "failed" /\ T2[q] = T[q],
         NEW C \in Seq(Capture), C # <<>>, C[1] = q, "none" \notin Capture,
         InReadingOrder(r, C, s, P),
         LineOK(r, G, s, P, T, c, u, H)
  PROVE  LineOK(r, G, s, P2, T2, c, u, H)
<1>1. /\ Len(s) \in Nat /\ DOMAIN s = 1..Len(s) /\ DOMAIN G = 1..Len(G) /\ Len(G) \in Nat
      /\ 1 \in DOMAIN C /\ DOMAIN C = 1..Len(C) /\ Len(C) \in Nat
  BY LenProperties, EmptySeq
<1>2. \A j \in DOMAIN s : s[j] \in SlotType /\ s[j].n \in Nat
  <2>1. \A j \in DOMAIN s : s[j] \in SlotType
    BY Elements
  <2>2. QED
    BY <2>1 DEF SlotType
<1>3. P[q] = "reserved"
  BY <1>1 DEF InReadingOrder
<1>4. ASSUME NEW j \in DOMAIN s
      PROVE  /\ SlotOK(r, s[j], P2, T2, u)
             /\ IsUnread(s[j], P2) <=> (IsUnread(s[j], P) /\ s[j].of # q)
             /\ s[j].of # q => (IsRead(s[j], P2) <=> IsRead(s[j], P))
             /\ s[j].of # q => Holds(s[j], T2) = Holds(s[j], T)
             /\ HasFailed(s[j], P) => HasFailed(s[j], P2)
             /\ s[j].of = q => /\ s[j].kind = "snapshot"
                               /\ HasFailed(s[j], P2) \/ Holds(s[j], T2) = c
             /\ Holds(s[j], T2) \in Nat /\ Holds(s[j], T2) <= c
  <2>1. SlotOK(r, s[j], P, T, u) /\ s[j].n \in Nat
    BY <1>2 DEF LineOK, SlotsAreSound
  <2>2. CASE s[j].of = q
    <3>1. s[j].kind = "snapshot" /\ ~s[j].filled
      BY <1>3, <2>1, <2>2 DEF SlotOK
    <3>2. Holds(s[j], T2) \in Nat /\ Holds(s[j], T2) <= c
      BY <2>2, <3>1 DEF Holds
    <3>3. SlotOK(r, s[j], P2, T2, u)
      BY <2>1, <2>2, <3>1 DEF SlotOK
    <3>4. ~IsUnread(s[j], P2) /\ ~HasFailed(s[j], P)
      BY <1>3, <2>2, <3>1 DEF IsUnread, HasFailed
    <3>5. HasFailed(s[j], P2) \/ Holds(s[j], T2) = c
      BY <2>2, <3>1 DEF HasFailed, Holds
    <3>6. QED
      BY <2>2, <3>1, <3>2, <3>3, <3>4, <3>5
  <2>3. CASE s[j].of # q
    <3>1. s[j].kind # "update" =>
            /\ s[j].of \in Capture /\ RunOf[s[j].of] = r
            /\ P2[s[j].of] = P[s[j].of] /\ T2[s[j].of] = T[s[j].of]
      BY <2>1, <2>3 DEF SlotOK, OthersUntouched
    <3>2. SlotOK(r, s[j], P2, T2, u)
      BY <2>1, <3>1 DEF SlotOK
    <3>3. /\ IsUnread(s[j], P2) <=> IsUnread(s[j], P)
          /\ IsRead(s[j], P2) <=> IsRead(s[j], P)
          /\ HasFailed(s[j], P2) <=> HasFailed(s[j], P)
          /\ Holds(s[j], T2) = Holds(s[j], T)
      <4>1. IsUnread(s[j], P2) <=> IsUnread(s[j], P)
        BY <3>1 DEF IsUnread
      <4>2. IsRead(s[j], P2) <=> IsRead(s[j], P)
        BY <3>1 DEF IsRead
      <4>3. HasFailed(s[j], P2) <=> HasFailed(s[j], P)
        BY <3>1 DEF HasFailed
      <4>4. Holds(s[j], T2) = Holds(s[j], T)
        BY <3>1 DEF Holds
      <4>5. QED
        BY <4>1, <4>2, <4>3, <4>4
    <3>4. Holds(s[j], T2) \in Nat /\ Holds(s[j], T2) <= c
      BY <2>1, <3>1 DEF Holds, SlotOK
    <3>5. QED
      BY <2>3, <3>2, <3>3, <3>4
  <2>4. QED
    BY <2>2, <2>3
<1>5. GateIsOrdered(r, G) /\ GateIsBounded(r, G, c)
  BY DEF LineOK
<1>6. SlotsAreSound(r, s, P2, T2, u)
  BY <1>4 DEF SlotsAreSound
<1>7. SnapshotsDominate(r, G, s, P2, T2)
  <2>1. SUFFICES ASSUME NEW j \in DOMAIN s, IsRead(s[j], P2)
                 PROVE  /\ \A i \in DOMAIN G : G[i].run = r => G[i].n <= T2[s[j].of]
                        /\ \A i \in 1..(j - 1) : /\ ~IsUnread(s[i], P2)
                                                 /\ Holds(s[i], T2) <= T2[s[j].of]
    BY DEF SnapshotsDominate
  <2>2. \A i \in 1..(j - 1) : i \in DOMAIN s
    BY <1>1
  <2>3. CASE s[j].of = q
    <3>1. T2[s[j].of] = c
      <4>1. ~HasFailed(s[j], P2)
        <5>1. s[j].kind = "snapshot" /\ P2[s[j].of] = P2[q]
          BY <1>4, <2>3
        <5>2. s[j].filled => P2[q] = "done"
          BY <1>4, <2>3, <5>1 DEF SlotOK
        <5>3. QED
          BY <2>1, <5>1, <5>2 DEF IsRead, HasFailed
      <4>2. s[j].kind = "snapshot"
        BY <1>4, <2>3
      <4>3. QED
        BY <1>4, <2>3, <4>1, <4>2 DEF Holds
    <3>2. \A i \in DOMAIN G : G[i].run = r => G[i].n <= c
      BY <1>5 DEF GateIsBounded
    <3>3. ASSUME NEW i \in 1..(j - 1)
          PROVE  ~IsUnread(s[i], P2)
      <4>1. SUFFICES ASSUME IsUnread(s[i], P), s[i].of # q
                     PROVE  FALSE
        BY <1>4, <2>2
      <4>2. PICK a \in DOMAIN C : C[a] = s[i].of
        BY <2>2, <4>1 DEF InReadingOrder
      <4>3. a <= 1
        <5>1. \A l \in DOMAIN s : \A h \in 1..(l - 1) : \A x, y \in DOMAIN C :
                 IsUnread(s[h], P) /\ C[x] = s[h].of /\ C[y] = s[l].of => x <= y
          BY DEF InReadingOrder
        <5>2. \A x, y \in DOMAIN C :
                 IsUnread(s[i], P) /\ C[x] = s[i].of /\ C[y] = s[j].of => x <= y
          BY <5>1
        <5>3. C[1] = s[j].of
          BY <2>3
        <5>4. QED
          BY <1>1, <4>1, <4>2, <5>2, <5>3
      <4>4. a = 1
        BY <1>1, <4>3
      <4>5. QED
        BY <4>1, <4>2, <4>4
    <3>4. QED
      BY <1>4, <2>2, <3>1, <3>2, <3>3
  <2>4. CASE s[j].of # q
    <3>1. IsRead(s[j], P)
      BY <1>4, <2>1, <2>4
    <3>2. /\ \A i \in DOMAIN G : G[i].run = r => G[i].n <= T[s[j].of]
          /\ \A i \in 1..(j - 1) : ~IsUnread(s[i], P) /\ Holds(s[i], T) <= T[s[j].of]
      BY <3>1 DEF LineOK, SnapshotsDominate
    <3>3. T2[s[j].of] = T[s[j].of]
      BY <1>4, <2>1, <2>4 DEF SlotOK, IsRead, OthersUntouched
    <3>4. \A i \in 1..(j - 1) : s[i].of # q
      <4>1. ASSUME NEW i \in 1..(j - 1), s[i].of = q
            PROVE  FALSE
        <5>1. SlotOK(r, s[i], P, T, u) /\ ~IsUnread(s[i], P)
          BY <2>2, <3>2 DEF LineOK, SlotsAreSound
        <5>2. QED
          BY <1>3, <4>1, <5>1 DEF SlotOK, IsUnread
      <4>2. QED
        BY <4>1
    <3>5. QED
      BY <1>4, <2>2, <3>2, <3>3, <3>4
  <2>5. QED
    BY <2>3, <2>4
<1>8. ASSUME NEW j \in 1..(Len(s) + 1), NEW n \in Int, n <= c,
             CoveredBefore(j, r, n, G, s, P, T)
      PROVE  CoveredBefore(j, r, n, G, s, P2, T2)
  <2>1. \A i \in 1..(j - 1) : i \in DOMAIN s
    BY <1>1
  <2>2. ASSUME NEW i \in 1..(j - 1), Covers(s[i], n, P, T)
        PROVE  Covers(s[i], n, P2, T2)
    <3>1. CASE s[i].of = q
      BY <1>4, <1>8, <2>1, <3>1 DEF Covers
    <3>2. CASE s[i].of # q
      BY <1>4, <2>1, <2>2, <3>2 DEF Covers
    <3>3. QED
      BY <3>1, <3>2
  <2>3. QED
    BY <1>8, <2>2 DEF CoveredBefore
<1>9. UpdatesAreCovered(r, G, s, P2, T2)
  <2>1. SUFFICES ASSUME NEW j \in DOMAIN s, s[j].kind = "update"
                 PROVE  CoveredBefore(j, r, s[j].n - 1, G, s, P2, T2)
    BY DEF UpdatesAreCovered
  <2>2. CoveredBefore(j, r, s[j].n - 1, G, s, P, T)
    BY <2>1 DEF LineOK, UpdatesAreCovered
  <2>3. s[j].n \in Nat /\ s[j].n <= u
    BY <1>2, <1>4, <2>1 DEF SlotOK
  <2>4. s[j].n - 1 \in Int /\ s[j].n - 1 <= c /\ j \in 1..(Len(s) + 1)
    BY <1>1, <2>3
  <2>5. QED
    BY <1>8, <2>2, <2>4
<1>10. EndIsCovered(r, G, s, P2, T2, u, H)
  <2>1. Len(s) + 1 \in 1..(Len(s) + 1) /\ u \in Int
    BY <1>1
  <2>2. QED
    BY <1>8, <2>1 DEF LineOK, EndIsCovered
<1>11. QED
  BY <1>5, <1>6, <1>7, <1>9, <1>10 DEF LineOK

\* Positions may leave at the front, be filled or be left alone.
LEMMA OrderOfTheRest ==
  ASSUME NEW r \in Run, NEW C \in Seq(Capture), NEW s \in Seq(SlotType), NEW t \in Seq(SlotType),
         NEW P, NEW P2, NEW k \in Nat, Len(t) <= Len(s) - k,
         \A j \in DOMAIN t : /\ t[j].of = s[k + j].of
                             /\ IsUnread(t[j], P2) => IsUnread(s[k + j], P),
         \A a \in DOMAIN C : P2[C[a]] = P[C[a]],
         InReadingOrder(r, C, s, P)
  PROVE  InReadingOrder(r, C, t, P2)
<1>1. /\ Len(s) \in Nat /\ DOMAIN s = 1..Len(s)
      /\ Len(t) \in Nat /\ DOMAIN t = 1..Len(t)
  BY LenProperties
<1>2. \A j \in DOMAIN t : /\ k + j \in DOMAIN s
                          /\ \A i \in 1..(j - 1) : i \in DOMAIN t /\ k + i \in 1..((k + j) - 1)
  BY <1>1
<1>3. /\ \A a \in DOMAIN C : RunOf[C[a]] = r /\ P2[C[a]] = "reserved"
      /\ \A a, b \in DOMAIN C : C[a] = C[b] => a = b
  BY DEF InReadingOrder
<1>4. ASSUME NEW j \in DOMAIN t, IsUnread(t[j], P2)
      PROVE  \E a \in DOMAIN C : C[a] = t[j].of
  <2>1. PICK l \in DOMAIN s : l = k + j
    BY <1>2
  <2>2. IsUnread(s[l], P) /\ s[l].of = t[j].of
    BY <1>4, <2>1
  <2>3. QED
    BY <2>2 DEF InReadingOrder
<1>5. ASSUME NEW j \in DOMAIN t, NEW i \in 1..(j - 1), NEW a \in DOMAIN C, NEW b \in DOMAIN C,
             IsUnread(t[i], P2), C[a] = t[i].of, C[b] = t[j].of
      PROVE  a <= b
  <2>1. PICK l \in DOMAIN s : l = k + j
    BY <1>2
  <2>2. PICK h \in 1..(l - 1) : h = k + i
    BY <1>2, <2>1
  <2>3. IsUnread(s[h], P) /\ C[a] = s[h].of /\ C[b] = s[l].of
    BY <1>2, <1>5, <2>1, <2>2
  <2>4. \A x, y \in DOMAIN C : IsUnread(s[h], P) /\ C[x] = s[h].of /\ C[y] = s[l].of => x <= y
    BY <2>1, <2>2 DEF InReadingOrder
  <2>5. QED
    BY <2>3, <2>4
<1>6. QED
  BY <1>3, <1>4, <1>5 DEF InReadingOrder

LEMMA OrderBeside ==
  ASSUME NEW r \in Run, NEW C \in Seq(Capture), NEW s \in Seq(SlotType), NEW t \in Seq(SlotType),
         NEW P, NEW P2, Len(t) = Len(s),
         \A j \in DOMAIN t : /\ t[j].of = s[j].of
                             /\ IsUnread(t[j], P2) => IsUnread(s[j], P),
         \A a \in DOMAIN C : P2[C[a]] = P[C[a]],
         InReadingOrder(r, C, s, P)
  PROVE  InReadingOrder(r, C, t, P2)
<1>1. Len(s) \in Nat /\ DOMAIN s = 1..Len(s) /\ DOMAIN t = DOMAIN s
  BY LenProperties
<1>2. \A j \in DOMAIN s : \A i \in 1..(j - 1) : i \in DOMAIN s
  BY <1>1
<1>3. /\ \A a \in DOMAIN C : RunOf[C[a]] = r /\ P2[C[a]] = "reserved"
      /\ \A a, b \in DOMAIN C : C[a] = C[b] => a = b
  BY DEF InReadingOrder
<1>4. \A j \in DOMAIN t : IsUnread(t[j], P2) => \E a \in DOMAIN C : C[a] = t[j].of
  BY <1>1 DEF InReadingOrder
<1>5. ASSUME NEW j \in DOMAIN t, NEW i \in 1..(j - 1), NEW a \in DOMAIN C, NEW b \in DOMAIN C,
             IsUnread(t[i], P2), C[a] = t[i].of, C[b] = t[j].of
      PROVE  a <= b
  <2>1. IsUnread(s[i], P) /\ C[a] = s[i].of /\ C[b] = s[j].of
    BY <1>1, <1>2, <1>5
  <2>2. \A x, y \in DOMAIN C : IsUnread(s[i], P) /\ C[x] = s[i].of /\ C[y] = s[j].of => x <= y
    BY <1>1 DEF InReadingOrder
  <2>3. QED
    BY <2>1, <2>2
<1>6. QED
  BY <1>3, <1>4, <1>5 DEF InReadingOrder

\* A position that waits for no read joins the queue.
LEMMA OrderAfterAppend ==
  ASSUME NEW r \in Run, NEW C \in Seq(Capture), NEW s \in Seq(SlotType), NEW x \in SlotType,
         NEW P, NEW P2, ~IsUnread(x, P2), \A a \in DOMAIN C : C[a] # x.of,
         \A j \in DOMAIN s : s[j].kind # "update" => P2[s[j].of] = P[s[j].of],
         \A a \in DOMAIN C : P2[C[a]] = P[C[a]],
         InReadingOrder(r, C, s, P)
  PROVE  InReadingOrder(r, C, Append(s, x), P2)
<1> DEFINE t == Append(s, x)
<1>1. Len(s) \in Nat /\ DOMAIN s = 1..Len(s) /\ \A j \in DOMAIN s : s[j] \in SlotType
  BY Elements
<1>2. /\ Len(t) = Len(s) + 1 /\ t[Len(s) + 1] = x
      /\ \A j \in DOMAIN s : t[j] = s[j]
  BY <1>1, AppendProperties
<1>3. DOMAIN t = 1..(Len(s) + 1)
  <2>1. t \in Seq(SlotType)
    BY AppendProperties
  <2>2. DOMAIN t = 1..Len(t)
    BY <2>1, LenProperties
  <2>3. QED
    BY <1>2, <2>2
<1> HIDE DEF t
<1>4. \A j \in DOMAIN t : j \in DOMAIN s \/ (j = Len(s) + 1 /\ t[j] = x)
  BY <1>1, <1>2, <1>3
<1>5. \A j \in DOMAIN s : t[j] = s[j] /\ (IsUnread(t[j], P2) => IsUnread(s[j], P))
  BY <1>2 DEF IsUnread
<1>6. /\ \A a \in DOMAIN C : RunOf[C[a]] = r /\ P2[C[a]] = "reserved"
      /\ \A a, b \in DOMAIN C : C[a] = C[b] => a = b
  BY DEF InReadingOrder
<1>7. \A j \in DOMAIN t : IsUnread(t[j], P2) => \E a \in DOMAIN C : C[a] = t[j].of
  BY <1>4, <1>5 DEF InReadingOrder
<1>8. ASSUME NEW j \in DOMAIN t, NEW i \in 1..(j - 1), NEW a \in DOMAIN C, NEW b \in DOMAIN C,
             IsUnread(t[i], P2), C[a] = t[i].of, C[b] = t[j].of
      PROVE  a <= b
  <2>1. j \in DOMAIN s
    BY <1>4, <1>8
  <2>2. i \in DOMAIN s
    BY <1>1, <2>1
  <2>3. IsUnread(s[i], P) /\ C[a] = s[i].of /\ C[b] = s[j].of
    BY <1>5, <1>8, <2>1, <2>2
  <2>4. \A m, y \in DOMAIN C : IsUnread(s[i], P) /\ C[m] = s[i].of /\ C[y] = s[j].of => m <= y
    BY <2>1 DEF InReadingOrder
  <2>5. QED
    BY <2>3, <2>4
<1>9. QED
  BY <1>6, <1>7, <1>8 DEF InReadingOrder, t

\* A snapshot joins both queues.
LEMMA OrderAfterReserve ==
  ASSUME NEW r \in Run, NEW C \in Seq(Capture), NEW s \in Seq(SlotType),
         NEW q \in Capture, RunOf[q] = r, NEW x \in SlotType, x.of = q,
         NEW P, NEW P2, P2[q] = "reserved",
         \A j \in DOMAIN s : s[j].of # q,
         \A a \in DOMAIN C : C[a] # q,
         OthersUntouched(q, P, P2),
         \A j \in DOMAIN s : s[j].kind # "update" => P2[s[j].of] = P[s[j].of],
         InReadingOrder(r, C, s, P)
  PROVE  InReadingOrder(r, Append(C, q), Append(s, x), P2)
<1> DEFINE t == Append(s, x)
           D == Append(C, q)
<1>1. /\ Len(s) \in Nat /\ DOMAIN s = 1..Len(s)
      /\ Len(C) \in Nat /\ DOMAIN C = 1..Len(C) /\ \A a \in DOMAIN C : C[a] \in Capture
  BY Elements
<1>2. /\ t[Len(s) + 1] = x /\ \A j \in DOMAIN s : t[j] = s[j]
      /\ D[Len(C) + 1] = q /\ \A a \in DOMAIN C : D[a] = C[a]
  BY <1>1, AppendProperties
<1>3. DOMAIN t = 1..(Len(s) + 1) /\ DOMAIN D = 1..(Len(C) + 1)
  <2>1. t \in Seq(SlotType) /\ Len(t) = Len(s) + 1 /\ D \in Seq(Capture) /\ Len(D) = Len(C) + 1
    BY AppendProperties
  <2>2. DOMAIN t = 1..Len(t) /\ DOMAIN D = 1..Len(D)
    BY <2>1, LenProperties
  <2>3. QED
    BY <2>1, <2>2
<1> HIDE DEF t, D
<1>4. \A j \in DOMAIN t : j \in DOMAIN s \/ (j = Len(s) + 1 /\ t[j] = x)
  BY <1>1, <1>2, <1>3
<1>5. \A a \in DOMAIN D : a \in DOMAIN C \/ (a = Len(C) + 1 /\ D[a] = q)
  BY <1>1, <1>2, <1>3
<1>6. Len(C) + 1 \in DOMAIN D /\ \A a \in DOMAIN C : a \in DOMAIN D /\ a <= Len(C)
  BY <1>1, <1>3
<1>7. \A j \in DOMAIN s : t[j] = s[j] /\ (IsUnread(t[j], P2) => IsUnread(s[j], P))
  BY <1>2 DEF IsUnread
<1>8. \A a \in DOMAIN D : RunOf[D[a]] = r /\ P2[D[a]] = "reserved"
  <2>1. \A a \in DOMAIN C : RunOf[C[a]] = r /\ P2[C[a]] = "reserved"
    BY <1>1 DEF InReadingOrder, OthersUntouched
  <2>2. QED
    BY <1>2, <1>5, <2>1
<1>9. \A a, b \in DOMAIN D : D[a] = D[b] => a = b
  <2>1. \A a, b \in DOMAIN C : C[a] = C[b] => a = b
    BY DEF InReadingOrder
  <2>2. QED
    BY <1>2, <1>5, <2>1
<1>10. \A j \in DOMAIN t : IsUnread(t[j], P2) => \E a \in DOMAIN D : D[a] = t[j].of
  <2>1. \A j \in DOMAIN s : IsUnread(s[j], P) => \E a \in DOMAIN C : C[a] = s[j].of
    BY DEF InReadingOrder
  <2>2. QED
    BY <1>2, <1>4, <1>6, <1>7, <2>1
<1>11. ASSUME NEW j \in DOMAIN t, NEW i \in 1..(j - 1), NEW a \in DOMAIN D, NEW b \in DOMAIN D,
              IsUnread(t[i], P2), D[a] = t[i].of, D[b] = t[j].of
       PROVE  a <= b
  <2>1. i \in DOMAIN s
    BY <1>1, <1>3
  <2>2. a \in DOMAIN C /\ C[a] = s[i].of /\ IsUnread(s[i], P)
    BY <1>2, <1>5, <1>7, <1>11, <2>1
  <2>3. CASE b \in DOMAIN C
    <3>1. j \in DOMAIN s
      BY <1>2, <1>4, <1>11, <2>3
    <3>2. \A m, y \in DOMAIN C : IsUnread(s[i], P) /\ C[m] = s[i].of /\ C[y] = s[j].of => m <= y
      BY <3>1 DEF InReadingOrder
    <3>3. C[b] = s[j].of
      BY <1>2, <1>11, <2>3, <3>1
    <3>4. QED
      BY <2>2, <2>3, <3>2, <3>3
  <2>4. CASE b = Len(C) + 1
    BY <1>1, <2>2, <2>4
  <2>5. QED
    BY <1>5, <2>3, <2>4
<1>12. QED
  BY <1>8, <1>9, <1>10, <1>11 DEF InReadingOrder, t, D

\* The first snapshot in line is read.
LEMMA OrderAfterRead ==
  ASSUME NEW r \in Run, NEW C \in Seq(Capture), C # <<>>, NEW s \in Seq(SlotType),
         NEW P, NEW P2, P2[C[1]] # "reserved",
         OthersUntouched(C[1], P, P2),
         \A j \in DOMAIN s : s[j].kind # "update" => s[j].of \in Capture,
         InReadingOrder(r, C, s, P)
  PROVE  InReadingOrder(r, Tail(C), s, P2)
<1> DEFINE D == Tail(C)
<1>1. /\ Len(s) \in Nat /\ DOMAIN s = 1..Len(s)
      /\ Len(C) \in Nat /\ DOMAIN C = 1..Len(C) /\ \A a \in DOMAIN C : C[a] \in Capture
  BY Elements
<1>2. 1 \in DOMAIN C
  BY <1>1, EmptySeq
<1>3. DOMAIN D = 1..(Len(C) - 1) /\ \A a \in DOMAIN D : D[a] = C[a + 1]
  <2>1. D \in Seq(Capture) /\ Len(D) = Len(C) - 1 /\ \A a \in 1..Len(D) : D[a] = C[a + 1]
    BY HeadTailProperties
  <2>2. DOMAIN D = 1..Len(D)
    BY <2>1, LenProperties
  <2>3. QED
    BY <2>1, <2>2
<1> HIDE DEF D
<1>4. \A a \in DOMAIN D : a + 1 \in DOMAIN C /\ a + 1 # 1
  BY <1>1, <1>3
<1>5. \A a \in DOMAIN C : a # 1 => a - 1 \in DOMAIN D /\ (a - 1) + 1 = a
  BY <1>1, <1>3
<1>6. \A a, b \in DOMAIN C : C[a] = C[b] => a = b
  BY DEF InReadingOrder
<1>7. \A a \in DOMAIN D : RunOf[D[a]] = r /\ P2[D[a]] = "reserved"
  <2>1. \A a \in DOMAIN C : RunOf[C[a]] = r /\ P[C[a]] = "reserved"
    BY DEF InReadingOrder
  <2>2. \A a \in DOMAIN C : a # 1 => C[a] # C[1]
    BY <1>2, <1>6
  <2>3. \A a \in DOMAIN C : a # 1 => P2[C[a]] = "reserved"
    BY <1>1, <2>1, <2>2 DEF OthersUntouched
  <2>4. QED
    BY <1>3, <1>4, <2>1, <2>3
<1>8. \A a, b \in DOMAIN D : D[a] = D[b] => a = b
  <2>1. SUFFICES ASSUME NEW a \in DOMAIN D, NEW b \in DOMAIN D, D[a] = D[b]
                 PROVE  a = b
    OBVIOUS
  <2>2. a + 1 = b + 1
    BY <1>3, <1>4, <1>6, <2>1
  <2>3. QED
    BY <1>1, <1>3, <2>2
<1>9. \A j \in DOMAIN s : IsUnread(s[j], P2) => IsUnread(s[j], P) /\ s[j].of # C[1]
  BY DEF IsUnread, OthersUntouched
<1>10. \A j \in DOMAIN s : IsUnread(s[j], P2) => \E a \in DOMAIN D : D[a] = s[j].of
  <2>1. SUFFICES ASSUME NEW j \in DOMAIN s, IsUnread(s[j], P2)
                 PROVE  \E a \in DOMAIN D : D[a] = s[j].of
    OBVIOUS
  <2>2. PICK a \in DOMAIN C : C[a] = s[j].of
    BY <1>9, <2>1 DEF InReadingOrder
  <2>3. a # 1
    BY <1>9, <2>1, <2>2
  <2>4. a - 1 \in DOMAIN D /\ D[a - 1] = s[j].of
    BY <1>3, <1>5, <2>2, <2>3
  <2>5. QED
    BY <2>4
<1>11. ASSUME NEW j \in DOMAIN s, NEW i \in 1..(j - 1), NEW a \in DOMAIN D, NEW b \in DOMAIN D,
              IsUnread(s[i], P2), D[a] = s[i].of, D[b] = s[j].of
       PROVE  a <= b
  <2>1. \A m, y \in DOMAIN C : IsUnread(s[i], P) /\ C[m] = s[i].of /\ C[y] = s[j].of => m <= y
    BY DEF InReadingOrder
  <2>2. i \in DOMAIN s
    BY <1>1
  <2>3. a + 1 <= b + 1
    BY <1>3, <1>4, <1>9, <1>11, <2>1, <2>2
  <2>4. QED
    BY <1>1, <1>3, <2>3
<1>12. QED
  BY <1>7, <1>8, <1>10, <1>11 DEF InReadingOrder, D

---------------------------------------------------------------------------------
(* The stream of a connection.                                                   *)

\* What was ever handed to the gate, in order, and the runs that are listened to.
Handed == (sent \o active) \o pending
Hearing == IF open THEN subscribed ELSE {}

Positions(S) == UNION {{r} \X DOMAIN S[r] : r \in Run}

StoreTypes ==
    /\ open \in BOOLEAN /\ subscribed \subseteq Run /\ readable \subseteq Run
    /\ committed \in [Run -> Nat] /\ published \in [Run -> Nat]
    /\ \A r \in Run : published[r] <= committed[r]
    /\ progress \in [Capture -> Progress] /\ taken \in [Capture -> Nat]
    /\ \A q \in Capture : taken[q] <= committed[RunOf[q]]

QueueTypes ==
    /\ captures \in [Run -> Seq(Capture)]
    /\ slots \in [Run -> Seq(SlotType)]
    /\ IsFiniteSet(Positions(slots)) /\ slotCount = Cardinality(Positions(slots))

GateTypes ==
    /\ sent \in Seq(MessageType) /\ active \in Seq(MessageType)
    /\ pending \in Seq(MessageType)
    /\ gateSlots = Len(pending) + Len(active) /\ gateSlots <= MaxSlots
    /\ phase \in {"idle", "reading", "granted", "disposed"}
    /\ phase = "idle" => active = <<>> /\ pending = <<>>
    /\ open <=> phase # "disposed"

ClosedIsEmpty ==
    ~open => /\ active = <<>> /\ pending = <<>>
             /\ \A r \in Run : captures[r] = <<>> /\ slots[r] = <<>>

TypeInv == StoreTypes /\ QueueTypes /\ GateTypes /\ ClosedIsEmpty

\* Rights are only lost: what may be read now could be read when it was handed in.
RightsAreKept ==
    /\ \A i \in DOMAIN active : active[i].run \in readable => active[i].allowed
    /\ \A i \in DOMAIN pending : pending[i].run \in readable => pending[i].allowed
    /\ phase = "granted" => \A i \in DOMAIN active : active[i].allowed
    /\ \A i \in DOMAIN sent : sent[i].allowed

LinesOK ==
    \A r \in Run : LineOK(r, Handed, slots[r], progress, taken, committed[r],
                          published[r], Hearing)

ReadingOrder == \A r \in Run : InReadingOrder(r, captures[r], slots[r], progress)

DeliveryInv == TypeInv /\ RightsAreKept /\ LinesOK /\ ReadingOrder

LEMMA HeadJoined ==
  ASSUME NEW S, NEW s \in Seq(S), s # <<>>
  PROVE  /\ <<Head(s)>> \in Seq(S) /\ Tail(s) \in Seq(S)
         /\ Len(<<Head(s)>>) = 1 /\ Len(Tail(s)) = Len(s) - 1
         /\ <<Head(s)>> \o Tail(s) = s
<1>1. Len(s) \in Nat /\ Len(s) # 0 /\ Head(s) = s[1]
  BY LenProperties, EmptySeq
<1>2. /\ Head(s) \in S /\ Tail(s) \in Seq(S) /\ Len(Tail(s)) = Len(s) - 1
      /\ \A i \in 1..Len(Tail(s)) : Tail(s)[i] = s[i + 1]
  BY HeadTailProperties
<1> DEFINE h == <<Head(s)>>
           t == Tail(s)
<1>3. h \in Seq(S) /\ Len(h) = 1 /\ h[1] = s[1]
  BY <1>1, <1>2
<1>4. t \in Seq(S) /\ Len(t) = Len(s) - 1 /\ \A i \in 1..(Len(s) - 1) : t[i] = s[i + 1]
  BY <1>1, <1>2
<1> HIDE DEF h, t
<1>5. /\ h \o t \in Seq(S) /\ Len(h \o t) = Len(s)
      /\ (h \o t)[1] = s[1] /\ \A i \in 1..(Len(s) - 1) : (h \o t)[1 + i] = t[i]
  <2>1. h \o t \in Seq(S) /\ Len(h \o t) = Len(h) + Len(t)
    BY <1>3, <1>4, Joined
  <2>2. h \in Seq(S) /\ t \in Seq(S)
    BY <1>3, <1>4
  <2>3. \A i \in 1..Len(h) : (h \o t)[i] = h[i]
    BY <2>2, Joined
  <2>4. \A i \in 1..Len(t) : (h \o t)[Len(h) + i] = t[i]
    BY <2>2, Joined
  <2>5. QED
    BY <1>1, <1>3, <1>4, <2>1, <2>3, <2>4
<1>6. ASSUME NEW i \in 1..Len(s)
      PROVE  (h \o t)[i] = s[i]
  <2>1. CASE i = 1
    BY <1>5, <2>1
  <2>2. CASE i # 1
    <3>1. i - 1 \in 1..(Len(s) - 1) /\ 1 + (i - 1) = i /\ (i - 1) + 1 = i
      BY <1>1, <2>2
    <3>2. QED
      BY <1>4, <1>5, <3>1
  <2>3. QED
    BY <2>1, <2>2
<1>7. h \o t = s
  BY <1>5, <1>6, SeqEqual
<1>8. QED
  BY <1>3, <1>4, <1>7 DEF h, t

\* What follows the first of two joined sequences is the second.
LEMMA AfterTheFirst ==
  ASSUME NEW S, NEW s \in Seq(S), NEW t \in Seq(S)
  PROVE  SubSeq(s \o t, Len(s) + 1, Len(s) + Len(t)) = t
<1> DEFINE v == s \o t
<1>1. /\ v \in Seq(S) /\ Len(v) = Len(s) + Len(t)
      /\ Len(s) \in Nat /\ Len(t) \in Nat
      /\ \A i \in 1..Len(t) : v[Len(s) + i] = t[i]
  <2>1. v \in Seq(S) /\ Len(v) = Len(s) + Len(t)
    BY Joined
  <2>2. \A i \in 1..Len(t) : v[Len(s) + i] = t[i]
    BY Joined
  <2>3. QED
    BY <2>1, <2>2, LenProperties
<1> HIDE DEF v
<1>2. Len(s) \in 0..Len(v)
  BY <1>1
<1> DEFINE w == SubSeq(v, Len(s) + 1, Len(v))
<1>3. w \in Seq(S) /\ Len(w) = Len(v) - Len(s)
      /\ \A j \in 1..(Len(v) - Len(s)) : w[j] = v[Len(s) + j]
  BY <1>1, <1>2, Remaining
<1> HIDE DEF w
<1>4. Len(w) = Len(t) /\ \A i \in 1..Len(w) : w[i] = t[i]
  BY <1>1, <1>3
<1>5. w = t
  BY <1>3, <1>4, SeqEqual
<1>6. QED
  BY <1>1, <1>5 DEF w, v

\* The positions that leave a queue are its first, up to one that is not filled.
LEMMA FrontIsFilled ==
  ASSUME NEW s \in Seq(SlotType)
  PROVE  \E k \in 0..Len(s) : /\ FilledPrefix(s) = SubSeq(s, 1, k)
                              /\ \A i \in 1..k : s[i].filled
<1> DEFINE K == {k \in 0..Len(s) : \A i \in 1..k : s[i].filled}
           R == {n \in 0..Len(s) : Len(s) - n \in K}
           less == {ss \in Nat \X Nat : ss[1] < ss[2]}
<1>1. Len(s) \in Nat
  BY LenProperties
<1>2. 0 \in K /\ K \subseteq Nat
  BY <1>1
<1>3. R \subseteq Nat /\ Len(s) \in R
  BY <1>1, <1>2
<1>4. OpToRel(<, Nat) = less
  BY Zenon DEF OpToRel
<1>5. IsWellFoundedOn(less, Nat)
  BY <1>4, NatLessThanWellFounded, Zenon
<1>6. \A k \in K : k \in 0..Len(s) /\ Len(s) - k \in R
  BY <1>1
<1>7. \A n \in R : n \in 0..Len(s) /\ Len(s) - n \in K
  OBVIOUS
<1>8. \A a, b \in Nat : a < b => <<a, b>> \in less
  OBVIOUS
<1>9. \A k \in K : \A i \in 1..k : s[i].filled
  OBVIOUS
<1>10. FilledPrefix(s) = SubSeq(s, 1, Max(K))
  BY DEF FilledPrefix
<1> HIDE DEF K, R, less
<1>11. PICK n \in R : \A m \in R : ~(<<m, n>> \in less)
  BY ONLY <1>3, <1>5, WFMin
<1>12. Len(s) - n \in K /\ \A k \in K : Len(s) - n >= k
  <2>1. SUFFICES ASSUME NEW k \in K, ~(Len(s) - n >= k)
                 PROVE  FALSE
    BY <1>7
  <2>2. Len(s) - k \in R /\ Len(s) - k \in Nat /\ n \in Nat /\ k \in Nat
    BY <1>2, <1>3, <1>6
  <2>3. Len(s) - k < n
    BY <1>1, <2>1, <2>2
  <2>4. QED
    BY <1>8, <1>11, <2>2, <2>3
<1>13. Max(K) \in K
  BY <1>12 DEF Max
<1>14. QED
  BY <1>6, <1>9, <1>10, <1>13

\* The positions of one run are replaced.
LEMMA PositionsAreCounted ==
  ASSUME NEW S \in [Run -> Seq(SlotType)], NEW r \in Run, NEW t \in Seq(SlotType),
         IsFiniteSet(Positions(S))
  PROVE  /\ [S EXCEPT ![r] = t] \in [Run -> Seq(SlotType)]
         /\ IsFiniteSet(Positions([S EXCEPT ![r] = t]))
         /\ Cardinality(Positions([S EXCEPT ![r] = t]))
              = Cardinality(Positions(S)) + Len(t) - Len(S[r])
<1> DEFINE S2 == [S EXCEPT ![r] = t]
           A == {r} \X DOMAIN S[r]
           B == {r} \X DOMAIN t
           Rest == Positions(S) \ A
<1>1. S2 \in [Run -> Seq(SlotType)] /\ S2[r] = t /\ \A p \in Run : p # r => S2[p] = S[p]
  OBVIOUS
<1>2. ASSUME NEW s \in Seq(SlotType)
      PROVE  /\ IsFiniteSet({r} \X DOMAIN s) /\ Cardinality({r} \X DOMAIN s) = Len(s)
             /\ Len(s) \in Nat
  <2>1. DOMAIN s = 1..Len(s) /\ Len(s) \in Nat
    BY LenProperties
  <2>2. IsFiniteSet(DOMAIN s) /\ Cardinality(DOMAIN s) = Len(s)
    <3> DEFINE n == Len(s)
    <3>1. n \in Int /\ 1 \in Int
      BY <2>1
    <3> HIDE DEF n
    <3>2. /\ IsFiniteSet(1..n)
          /\ Cardinality(1..n) = IF 1 > n THEN 0 ELSE n - 1 + 1
      BY <3>1, FS_Interval
    <3>3. QED
      BY <2>1, <3>2 DEF n
  <2>3. IsFiniteSet({r}) /\ Cardinality({r}) = 1
    BY FS_Singleton
  <2>4. /\ IsFiniteSet({r} \X DOMAIN s)
        /\ Cardinality({r} \X DOMAIN s) = Cardinality({r}) * Cardinality(DOMAIN s)
    <3> DEFINE X == {r}
               Y == DOMAIN s
    <3> HIDE DEF X, Y
    <3>1. IsFiniteSet(X) /\ IsFiniteSet(Y)
      BY <2>2, <2>3 DEF X, Y
    <3>2. IsFiniteSet(X \X Y) /\ Cardinality(X \X Y) = Cardinality(X) * Cardinality(Y)
      BY <3>1, FS_Product
    <3>3. QED
      BY <3>2 DEF X, Y
  <2>5. QED
    BY <2>1, <2>2, <2>3, <2>4
<1>3. /\ IsFiniteSet(A) /\ Cardinality(A) = Len(S[r]) /\ Len(S[r]) \in Nat
      /\ IsFiniteSet(B) /\ Cardinality(B) = Len(t) /\ Len(t) \in Nat
  <2>1. S[r] \in Seq(SlotType)
    OBVIOUS
  <2>2. QED
    BY <1>2, <2>1
<1>4. Positions(S2) = Rest \cup B
  <2>1. Positions(S2) \subseteq Rest \cup B
    <3>1. SUFFICES ASSUME NEW p \in Run, NEW x \in {p} \X DOMAIN S2[p]
                   PROVE  x \in Rest \cup B
      BY DEF Positions
    <3>2. CASE p = r
      BY <1>1, <3>2
    <3>3. CASE p # r
      <4>1. x \in {p} \X DOMAIN S[p]
        BY <1>1, <3>3
      <4>2. x \in Positions(S)
        BY <4>1 DEF Positions
      <4>3. x \notin A
        BY <3>3
      <4>4. QED
        BY <4>2, <4>3
    <3>4. QED
      BY <3>2, <3>3
  <2>2. B \subseteq Positions(S2)
    BY <1>1 DEF Positions
  <2>3. ASSUME NEW x \in Rest
        PROVE  x \in Positions(S2)
    <3>1. PICK p \in Run : x \in {p} \X DOMAIN S[p]
      BY DEF Positions
    <3>2. p # r
      BY <3>1
    <3>3. x \in {p} \X DOMAIN S2[p]
      BY <1>1, <3>1, <3>2
    <3>4. QED
      BY <3>3 DEF Positions
  <2>4. QED
    BY <2>1, <2>2, <2>3
<1>5. A \subseteq Positions(S)
  BY DEF Positions
<1>6. Rest \cap B = {}
  <2>1. SUFFICES ASSUME NEW x \in Rest, x \in B
                 PROVE  FALSE
    OBVIOUS
  <2>2. PICK p \in Run : x \in {p} \X DOMAIN S[p]
    BY DEF Positions
  <2>3. p = r
    BY <2>1, <2>2
  <2>4. QED
    BY <2>2, <2>3
<1> HIDE DEF S2, A, B
<1>7. /\ IsFiniteSet(Rest) /\ Cardinality(Rest) = Cardinality(Positions(S)) - Len(S[r])
      /\ Cardinality(Positions(S)) \in Nat
  <2>1. Positions(S) \cap A = A
    BY <1>5
  <2>2. IsFiniteSet(Positions(S)) /\ Cardinality(Positions(S)) \in Nat
    BY FS_CardinalityType
  <2> DEFINE X == Positions(S)
  <2> HIDE DEF X
  <2>3. IsFiniteSet(X)
    BY <2>2 DEF X
  <2>4. /\ IsFiniteSet(X \ A)
        /\ Cardinality(X \ A) = Cardinality(X) - Cardinality(X \cap A)
    BY <2>3, FS_Difference
  <2>5. QED
    BY <1>3, <2>1, <2>2, <2>4 DEF X
<1> HIDE DEF Rest
<1>8. /\ IsFiniteSet(Rest \cup B)
      /\ Cardinality(Rest \cup B) = Cardinality(Rest) + Cardinality(B) - Cardinality(Rest \cap B)
  BY <1>3, <1>7, FS_Union
<1>9. Cardinality(Rest \cap B) = 0
  BY <1>6, FS_EmptySet
<1>10. QED
  <2>1. IsFiniteSet(Positions(S2))
    BY <1>4, <1>8
  <2>2. Cardinality(Positions(S2)) = Cardinality(Positions(S)) + Len(t) - Len(S[r])
    BY <1>3, <1>4, <1>7, <1>8, <1>9
  <2>3. QED
    BY <1>1, <2>1, <2>2 DEF S2

LEMMA HandedIsSeq ==
  ASSUME GateTypes
  PROVE  /\ Handed \in Seq(MessageType) /\ sent \in Seq(MessageType)
         /\ Len(sent) <= Len(Handed) /\ \A i \in 1..Len(sent) : Handed[i] = sent[i]
<1> DEFINE a == sent \o active
<1>1. sent \in Seq(MessageType) /\ active \in Seq(MessageType) /\ pending \in Seq(MessageType)
  BY DEF GateTypes
<1>2. a \in Seq(MessageType) /\ Len(a) = Len(sent) + Len(active)
  BY <1>1, Joined
<1>3. \A i \in 1..Len(sent) : a[i] = sent[i]
  BY <1>1, Joined
<1>4. Handed = a \o pending
  BY DEF Handed
<1>5. Len(sent) \in Nat /\ Len(active) \in Nat /\ Len(pending) \in Nat
  BY <1>1, LenProperties
<1> HIDE DEF a
<1>6. Handed \in Seq(MessageType) /\ Len(Handed) = Len(a) + Len(pending)
  BY <1>1, <1>2, <1>4, Joined
<1>7. \A i \in 1..Len(a) : Handed[i] = a[i]
  BY <1>1, <1>2, <1>4, Joined
<1>8. QED
  BY <1>1, <1>2, <1>3, <1>5, <1>6, <1>7

\* Messages enter the gate behind what it holds.
LEMMA Enqueued ==
  ASSUME GateTypes, open, NEW m \in Seq(MessageType), gateSlots + Len(m) <= MaxSlots,
         Enqueue(m), readable' = readable,
         \A i \in 1..Len(m) : m[i].run \in readable => m[i].allowed
  PROVE  /\ GateTypes' /\ Handed' = Handed \o m /\ open' /\ sent' = sent
         /\ RightsAreKept => RightsAreKept'
<1>1. /\ sent \in Seq(MessageType) /\ active \in Seq(MessageType)
      /\ pending \in Seq(MessageType)
      /\ gateSlots = Len(pending) + Len(active)
      /\ phase \in {"idle", "reading", "granted"}
      /\ phase = "idle" => active = <<>> /\ pending = <<>>
  BY DEF GateTypes
<1>2. /\ Len(active) \in Nat /\ Len(pending) \in Nat /\ Len(m) \in Nat
      /\ DOMAIN active = 1..Len(active) /\ DOMAIN pending = 1..Len(pending)
      /\ DOMAIN m = 1..Len(m) /\ DOMAIN sent = 1..Len(sent)
  BY <1>1, LenProperties
<1>3. open' = open /\ sent' = sent /\ gateSlots' = gateSlots + Len(m)
  BY DEF Enqueue
<1>4. CASE phase = "idle" /\ m # <<>>
  <2>1. /\ active' = <<Head(m)>> /\ pending' = Tail(m) /\ phase' = "reading"
        /\ active = <<>> /\ pending = <<>>
    BY <1>1, <1>4 DEF Enqueue
  <2>2. /\ <<Head(m)>> \in Seq(MessageType) /\ Tail(m) \in Seq(MessageType)
        /\ Len(<<Head(m)>>) = 1 /\ Len(Tail(m)) = Len(m) - 1
        /\ <<Head(m)>> \o Tail(m) = m
    BY <1>4, HeadJoined
  <2>3. GateTypes'
    <3>1. Len(active') = 1 /\ Len(pending') = Len(m) - 1
      BY <2>1, <2>2
    <3>2. gateSlots = 0
      <4>1. Len(active) = 0 /\ Len(pending) = 0
        BY <2>1, EmptySeq
      <4>2. QED
        BY <1>1, <4>1
    <3>3. gateSlots' = Len(pending') + Len(active') /\ gateSlots' <= MaxSlots
      BY <1>2, <1>3, <3>1, <3>2
    <3>4. active' \in Seq(MessageType) /\ pending' \in Seq(MessageType)
          /\ sent' \in Seq(MessageType)
      BY <1>1, <1>3, <2>1, <2>2
    <3>5. QED
      BY <1>3, <2>1, <3>3, <3>4 DEF GateTypes
  <2>4. Handed' = Handed \o m
    <3>1. Handed = sent
      BY <1>1, <2>1, ConcatEmptySeq DEF Handed
    <3>2. Handed' = (sent \o <<Head(m)>>) \o Tail(m)
      BY <1>3, <2>1 DEF Handed
    <3>3. (sent \o <<Head(m)>>) \o Tail(m) = sent \o (<<Head(m)>> \o Tail(m))
      <4> DEFINE x == <<Head(m)>>
                 y == Tail(m)
      <4>1. x \in Seq(MessageType) /\ y \in Seq(MessageType) /\ sent \in Seq(MessageType)
        BY <1>1, <2>2
      <4> HIDE DEF x, y
      <4>2. (sent \o x) \o y = sent \o (x \o y)
        BY <4>1, ConcatAssociative
      <4>3. QED
        BY <4>2 DEF x, y
    <3>4. QED
      BY <2>2, <3>1, <3>2, <3>3
  <2>5. ASSUME RightsAreKept
        PROVE  RightsAreKept'
    <3>1. /\ DOMAIN active' = {1} /\ active'[1] = m[1] /\ 1 \in 1..Len(m)
      <4>1. Len(m) # 0
        BY <1>4, EmptySeq
      <4>2. QED
        BY <1>2, <2>1, <4>1
    <3>2. \A i \in DOMAIN pending' : pending'[i] = m[i + 1] /\ i + 1 \in 1..Len(m)
      <4>1. /\ Tail(m) \in Seq(MessageType) /\ Len(Tail(m)) = Len(m) - 1
            /\ \A i \in 1..Len(Tail(m)) : Tail(m)[i] = m[i + 1]
        BY <1>4, HeadTailProperties
      <4> DEFINE t == Tail(m)
      <4> HIDE DEF t
      <4>2. t \in Seq(MessageType) /\ Len(t) = Len(m) - 1 /\ pending' = t
            /\ \A i \in 1..Len(t) : t[i] = m[i + 1]
        BY <2>1, <4>1 DEF t
      <4>3. DOMAIN t = 1..Len(t)
        BY <4>2, LenProperties
      <4>4. QED
        BY <1>2, <4>2, <4>3
    <3>3. \A i \in DOMAIN active' : active'[i].run \in readable' => active'[i].allowed
      BY <3>1
    <3>4. \A i \in DOMAIN pending' : pending'[i].run \in readable' => pending'[i].allowed
      BY <3>2
    <3>5. \A i \in DOMAIN sent' : sent'[i].allowed
      BY <1>3, <2>5 DEF RightsAreKept
    <3>6. QED
      BY <2>1, <3>3, <3>4, <3>5 DEF RightsAreKept
  <2>6. QED
    BY <1>3, <2>3, <2>4, <2>5
<1>5. CASE ~(phase = "idle" /\ m # <<>>)
  <2>1. pending' = pending \o m /\ active' = active /\ phase' = phase
    BY <1>5 DEF Enqueue
  <2>2. /\ pending' \in Seq(MessageType) /\ Len(pending') = Len(pending) + Len(m)
    BY <1>1, <2>1, Joined
  <2>3. phase = "idle" => pending' = <<>>
    BY <1>1, <1>5, <2>1, ConcatEmptySeq
  <2>4. GateTypes'
    <3>1. gateSlots' = Len(pending') + Len(active') /\ gateSlots' <= MaxSlots
      BY <1>1, <1>2, <1>3, <2>1, <2>2
    <3>2. QED
      BY <1>1, <1>3, <2>1, <2>2, <2>3, <3>1 DEF GateTypes
  <2>5. Handed' = Handed \o m
    <3>1. sent \o active \in Seq(MessageType)
      BY <1>1, Joined
    <3>2. ((sent \o active) \o pending) \o m = (sent \o active) \o (pending \o m)
      <4> DEFINE x == sent \o active
      <4>1. x \in Seq(MessageType) /\ pending \in Seq(MessageType)
        BY <1>1, <3>1
      <4> HIDE DEF x
      <4>2. (x \o pending) \o m = x \o (pending \o m)
        BY <4>1, ConcatAssociative
      <4>3. QED
        BY <4>2 DEF x
    <3>3. QED
      BY <1>3, <2>1, <3>2 DEF Handed
  <2>6. ASSUME RightsAreKept
        PROVE  RightsAreKept'
    <3>1. \A i \in DOMAIN pending' : pending'[i].run \in readable' => pending'[i].allowed
      <4>1. DOMAIN (pending \o m) = 1..(Len(pending) + Len(m))
        BY <1>1, Joined
      <4>2. \A i \in 1..Len(pending) : (pending \o m)[i] = pending[i]
        BY <1>1, Joined
      <4>3. \A i \in 1..Len(m) : (pending \o m)[Len(pending) + i] = m[i]
        BY <1>1, Joined
      <4> DEFINE v == pending \o m
      <4> HIDE DEF v
      <4>4. SUFFICES ASSUME NEW i \in DOMAIN v, v[i].run \in readable
                     PROVE  v[i].allowed
        BY <2>1 DEF v
      <4>5. CASE i \in 1..Len(pending)
        <5>1. v[i] = pending[i] /\ i \in DOMAIN pending
          BY <1>2, <4>2, <4>5 DEF v
        <5>2. QED
          BY <2>6, <4>4, <5>1 DEF RightsAreKept
      <4>6. CASE i \notin 1..Len(pending)
        <5>1. i - Len(pending) \in 1..Len(m) /\ Len(pending) + (i - Len(pending)) = i
          BY <1>2, <4>1, <4>6 DEF v
        <5>2. v[i] = m[i - Len(pending)]
          BY <4>3, <5>1 DEF v
        <5>3. QED
          BY <4>4, <5>1, <5>2
      <4>7. QED
        BY <4>5, <4>6
    <3>2. QED
      BY <1>3, <2>1, <2>6, <3>1 DEF RightsAreKept
  <2>7. QED
    BY <1>3, <2>4, <2>5, <2>6
<1>6. QED
  BY <1>4, <1>5

\* The connection ends: all queues are empty, and what was sent was in order.
LEMMA EndKeeps ==
  ASSUME DeliveryInv, Terminate, StoreTypes', readable' = readable,
         \A r \in Run : committed[r] <= committed'[r]
  PROVE  DeliveryInv'
<1>1. /\ open' = FALSE /\ captures' = [r \in Run |-> <<>>] /\ slots' = [r \in Run |-> <<>>]
      /\ slotCount' = 0 /\ pending' = <<>> /\ active' = <<>> /\ gateSlots' = 0
      /\ phase' = "disposed" /\ sent' = sent
  BY DEF Terminate
<1>2. sent \in Seq(MessageType)
  BY DEF DeliveryInv, TypeInv, GateTypes
<1>3. <<>> \in Seq(MessageType) /\ Len(<<>>) = 0 /\ DOMAIN <<>> = {}
  OBVIOUS
<1>4. GateTypes'
  BY <1>1, <1>2, <1>3, BoundAssumption DEF GateTypes
<1>5. QueueTypes'
  <2>1. Positions(slots') = {}
    BY <1>1, <1>3 DEF Positions
  <2>2. captures' \in [Run -> Seq(Capture)] /\ slots' \in [Run -> Seq(SlotType)]
    BY <1>1
  <2>3. QED
    BY <1>1, <2>1, <2>2, FS_EmptySet DEF QueueTypes, Positions
<1>6. ClosedIsEmpty'
  BY <1>1 DEF ClosedIsEmpty
<1>7. RightsAreKept'
  BY <1>1, <1>3 DEF DeliveryInv, RightsAreKept
<1>8. Handed' = sent /\ Hearing' = {}
  <2>1. (sent \o <<>>) \o <<>> = sent
    BY <1>2, ConcatEmptySeq
  <2>2. QED
    BY <1>1, <2>1 DEF Handed, Hearing
<1>9. ASSUME NEW r \in Run
      PROVE  LineOK(r, Handed', slots'[r], progress', taken', committed'[r], published'[r],
                    Hearing')
  <2>1. /\ Handed \in Seq(MessageType)
        /\ Len(sent) <= Len(Handed) /\ \A i \in 1..Len(sent) : Handed[i] = sent[i]
    BY HandedIsSeq DEF DeliveryInv, TypeInv
  <2>2. /\ committed[r] \in Nat /\ committed'[r] \in Nat
        /\ committed[r] <= committed'[r]
    BY DEF DeliveryInv, TypeInv, StoreTypes
  <2>3. LineOK(r, Handed, slots[r], progress, taken, committed[r], published[r], Hearing)
    BY DEF DeliveryInv, LinesOK
  <2>4. LineOK(r, sent, <<>>, progress', taken', committed'[r], published'[r], {})
    BY <1>2, <2>1, <2>2, <2>3, LineAfterEnd
  <2>5. QED
    BY <1>1, <1>8, <2>4
<1>10. \A r \in Run : InReadingOrder(r, captures'[r], slots'[r], progress')
  BY <1>1, <1>3 DEF InReadingOrder
<1>11. QED
  BY <1>4, <1>5, <1>6, <1>7, <1>9, <1>10 DEF DeliveryInv, TypeInv, LinesOK, ReadingOrder

\* What drains from a queue.
LEMMA Drained ==
  ASSUME GateTypes, NEW r \in Run, NEW s \in Seq(SlotType), DrainSlots(r, s), ~Terminate
  PROVE  \E k \in 0..Len(s), m \in Seq(MessageType) :
           /\ Len(m) = k /\ gateSlots + Len(m) <= MaxSlots
           /\ \A i \in 1..k : /\ s[i].filled
                              /\ m[i].run = r /\ m[i].kind = s[i].kind /\ m[i].n = s[i].n
                              /\ m[i].run \in readable => m[i].allowed
           /\ slots' = [slots EXCEPT ![r] = SubSeq(s, k + 1, Len(s))]
           /\ slotCount' = slotCount + (Len(s) - k) - Len(slots[r])
           /\ Enqueue(m) /\ captures' = captures
<1>1. PICK k \in 0..Len(s) : /\ FilledPrefix(s) = SubSeq(s, 1, k)
                             /\ \A i \in 1..k : s[i].filled
  BY FrontIsFilled
<1>2. Len(s) \in Nat /\ \A i \in 1..Len(s) : s[i] \in SlotType
  BY Elements
<1> DEFINE front == SubSeq(s, 1, k)
           m == [i \in DOMAIN front |-> Message(r, front[i])]
           rest == SubSeq(s, Len(front) + 1, Len(s))
<1>3. /\ front \in Seq(SlotType) /\ Len(front) = k /\ DOMAIN front = 1..k
      /\ \A i \in 1..k : front[i] = s[i]
  <2> DEFINE n == k
  <2>1. n \in Int /\ 1 \in Int /\ n \in Nat /\ \A i \in 1..n : s[i] \in SlotType
    BY <1>2
  <2> HIDE DEF n
  <2>2. /\ SubSeq(s, 1, n) \in Seq(SlotType)
        /\ Len(SubSeq(s, 1, n)) = IF 1 <= n THEN n - 1 + 1 ELSE 0
        /\ \A i \in 1 .. n - 1 + 1 : SubSeq(s, 1, n)[i] = s[1 + i - 1]
    BY <2>1, SubSeqProperties
  <2> DEFINE w == SubSeq(s, 1, n)
  <2> HIDE DEF w
  <2>3. w \in Seq(SlotType) /\ Len(w) = n
    BY <2>1, <2>2 DEF w
  <2>4. \A i \in 1..n : i \in 1 .. n - 1 + 1 /\ 1 + i - 1 = i
    BY <2>1
  <2>5. \A i \in 1..n : w[i] = s[i]
    BY <2>2, <2>4 DEF w
  <2>6. DOMAIN w = 1..n
    BY <2>3, LenProperties
  <2>7. QED
    BY <2>3, <2>5, <2>6 DEF w, n
<1> HIDE DEF front
<1>4. /\ slots' = [slots EXCEPT ![r] = rest]
      /\ slotCount' = slotCount + Len(rest) - Len(slots[r])
      /\ Enqueue(m) /\ captures' = captures
      /\ ~(gateSlots + Len(front) > MaxSlots)
  BY <1>1 DEF DrainSlots, front
<1>5. Len(rest) = Len(s) - k
  <2>1. Len(SubSeq(s, k + 1, Len(s))) = Len(s) - k
    BY Remaining
  <2>2. QED
    BY <1>3, <2>1
<1>6. \A i \in 1..k : Message(r, front[i]) \in MessageType /\ front[i] = s[i]
  <2>1. \A i \in 1..k : s[i] \in SlotType /\ front[i] = s[i]
    BY <1>2, <1>3
  <2>2. QED
    BY <2>1 DEF Message, MessageType, SlotType
<1>7. m \in Seq(MessageType) /\ Len(m) = k
  <2>1. m = [i \in 1..k |-> Message(r, front[i])]
    BY <1>3
  <2>2. k \in Nat
    BY <1>2
  <2>3. [i \in 1..k |-> Message(r, front[i])] \in [1..k -> MessageType]
    BY <1>6
  <2>4. m \in [1..k -> MessageType]
    BY <2>1, <2>3
  <2>5. m \in Seq(MessageType)
    BY <2>2, <2>4, IsASeq
  <2>6. DOMAIN m = 1..k
    BY <2>1
  <2>7. QED
    BY <2>2, <2>5, <2>6, LenProperties
<1>8. \A i \in 1..k : /\ m[i].run = r /\ m[i].kind = s[i].kind /\ m[i].n = s[i].n
                      /\ m[i].run \in readable => m[i].allowed
  <2>1. \A i \in 1..k : m[i] = Message(r, s[i])
    BY <1>3
  <2> HIDE DEF m
  <2>2. ASSUME NEW i \in 1..k
        PROVE  /\ m[i].run = r /\ m[i].kind = s[i].kind /\ m[i].n = s[i].n
               /\ m[i].allowed = (r \in readable)
    <3>1. m[i] = [run |-> r, kind |-> s[i].kind, n |-> s[i].n, allowed |-> r \in readable]
      BY <2>1 DEF Message
    <3>2. QED
      BY <3>1
  <2>3. QED
    BY <2>2
<1>9. gateSlots + Len(m) <= MaxSlots
  <2>1. gateSlots \in Nat
    BY LenProperties DEF GateTypes
  <2>2. QED
    BY <1>2, <1>3, <1>4, <1>7, <2>1, BoundAssumption
<1> HIDE DEF m
<1>10. rest = SubSeq(s, k + 1, Len(s))
  BY <1>3
<1>11. QED
  BY <1>1, <1>4, <1>5, <1>7, <1>8, <1>9, <1>10

\* A queue with a position more, or a position filled, keeps its order when it is drained.
LEMMA DrainKeeps ==
  ASSUME DeliveryInv, open, NEW r \in Run, NEW s \in Seq(SlotType), DrainSlots(r, s),
         StoreTypes', readable' = readable, subscribed' = subscribed, committed' = committed,
         taken' = taken,
         \A q \in Capture : RunOf[q] # r => progress'[q] = progress[q],
         \A p \in Run : p # r => published'[p] = published[p],
         LineOK(r, Handed, s, progress', taken, committed[r], published'[r], subscribed),
         InReadingOrder(r, captures[r], s, progress')
  PROVE  DeliveryInv'
<1> USE DEF DeliveryInv, TypeInv
<1>1. CASE Terminate
  <2>1. \A p \in Run : committed[p] <= committed'[p]
    BY DEF StoreTypes
  <2>2. QED
    BY <1>1, <2>1, EndKeeps
<1>2. CASE ~Terminate
  <2>1. PICK k \in 0..Len(s), m \in Seq(MessageType) :
           /\ Len(m) = k /\ gateSlots + Len(m) <= MaxSlots
           /\ \A i \in 1..k : /\ s[i].filled
                              /\ m[i].run = r /\ m[i].kind = s[i].kind /\ m[i].n = s[i].n
                              /\ m[i].run \in readable => m[i].allowed
           /\ slots' = [slots EXCEPT ![r] = SubSeq(s, k + 1, Len(s))]
           /\ slotCount' = slotCount + (Len(s) - k) - Len(slots[r])
           /\ Enqueue(m) /\ captures' = captures
    <3>1. GateTypes /\ DrainSlots(r, s) /\ ~Terminate
      BY <1>2
    <3>2. QED
      BY ONLY <3>1, r \in Run, s \in Seq(SlotType), Drained, ZenonT(60)
  <2>2. /\ GateTypes' /\ Handed' = Handed \o m /\ open'
        /\ RightsAreKept'
    BY <2>1, Enqueued
  <2> DEFINE t == SubSeq(s, k + 1, Len(s))
  <2>3. /\ t \in Seq(SlotType) /\ Len(t) = Len(s) - k /\ DOMAIN t = 1..(Len(s) - k)
        /\ \A j \in 1..(Len(s) - k) : t[j] = s[k + j]
    BY Remaining
  <2>4. QueueTypes'
    <3>1. /\ slots \in [Run -> Seq(SlotType)] /\ captures' \in [Run -> Seq(Capture)]
          /\ IsFiniteSet(Positions(slots)) /\ slotCount = Cardinality(Positions(slots))
      BY <2>1 DEF QueueTypes
    <3> HIDE DEF t
    <3> DEFINE S2 == [slots EXCEPT ![r] = t]
    <3>2. /\ S2 \in [Run -> Seq(SlotType)] /\ IsFiniteSet(Positions(S2))
          /\ Cardinality(Positions(S2)) = Cardinality(Positions(slots)) + Len(t) - Len(slots[r])
      <4>1. t \in Seq(SlotType) /\ slots \in [Run -> Seq(SlotType)]
            /\ IsFiniteSet(Positions(slots))
        BY <2>3, <3>1
      <4>2. QED
        BY ONLY <4>1, r \in Run, PositionsAreCounted
    <3> HIDE DEF S2
    <3>3. slots' = S2
      BY <2>1 DEF t, S2
    <3>4. Positions(slots)' = Positions(S2)
      BY <3>3 DEF Positions
    <3>5. Cardinality(Positions(slots)) \in Nat /\ Len(slots[r]) \in Nat /\ Len(s) \in Nat
      BY <3>1, FS_CardinalityType, LenProperties
    <3>6. slotCount' = Cardinality(Positions(S2))
      BY <2>1, <2>3, <3>1, <3>2, <3>5
    <3>7. QED
      BY <3>1, <3>2, <3>3, <3>4, <3>6 DEF QueueTypes
  <2>5. Hearing = subscribed /\ Hearing' = subscribed
    BY <2>2 DEF Hearing
  <2>6. /\ Handed \in Seq(MessageType) /\ slots \in [Run -> Seq(SlotType)]
        /\ slots'[r] = t /\ \A p \in Run : p # r => slots'[p] = slots[p]
    BY <2>1, HandedIsSeq DEF QueueTypes
  <2>7. ASSUME NEW p \in Run
        PROVE  /\ LineOK(p, Handed', slots'[p], progress', taken', committed'[p],
                         published'[p], Hearing')
               /\ InReadingOrder(p, captures'[p], slots'[p], progress')
    <3>1. /\ committed[p] \in Nat /\ published[p] \in Nat /\ published'[p] \in Nat
          /\ published'[p] <= committed'[p]
          /\ slots[p] \in Seq(SlotType) /\ captures[p] \in Seq(Capture)
          /\ taken \in [Capture -> Nat]
          /\ \A q \in Capture : taken[q] <= committed[RunOf[q]]
      BY DEF StoreTypes, QueueTypes
    <3>2. CASE p = r
      <4>1. LineOK(r, Handed \o m, t, progress', taken, committed[r], published'[r], subscribed)
        <5> DEFINE P2 == progress'
                   u == published'[r]
                   c == committed[r]
                   T == taken
                   G == Handed
        <5>1. /\ G \in Seq(MessageType) /\ T \in [Capture -> Nat] /\ c \in Nat /\ u \in Nat /\ u <= c
              /\ \A q \in Capture : RunOf[q] = r => T[q] <= c
          BY <2>6, <3>1, <3>2
        <5>2. /\ k \in 0..Len(s) /\ \A i \in 1..k : s[i].filled
              /\ m \in Seq(MessageType) /\ Len(m) = k
              /\ \A i \in 1..k : m[i].run = r /\ m[i].kind = s[i].kind /\ m[i].n = s[i].n
          BY <2>1
        <5>3. LineOK(r, G, s, P2, T, c, u, subscribed)
          OBVIOUS
        <5> HIDE DEF P2, u, c, T, G
        <5>4. LineOK(r, G \o m, SubSeq(s, k + 1, Len(s)), P2, T, c, u, subscribed)
          BY ONLY <5>1, <5>2, <5>3, r \in Run, s \in Seq(SlotType), LineAfterDrain
        <5>5. QED
          BY <5>4 DEF P2, u, c, T, G
      <4>2. InReadingOrder(r, captures[r], t, progress')
        <5>1. k \in Nat /\ Len(t) <= Len(s) - k
          <6>1. Len(s) \in Nat
            BY LenProperties
          <6>2. QED
            BY <2>3, <6>1
        <5>2. \A j \in DOMAIN t : /\ t[j].of = s[k + j].of
                                  /\ IsUnread(t[j], progress') => IsUnread(s[k + j], progress')
          BY <2>3
        <5> HIDE DEF t
        <5>3. QED
          BY <2>3, <3>1, <3>2, <5>1, <5>2, OrderOfTheRest
      <4>3. QED
        BY <2>1, <2>2, <2>5, <2>6, <3>2, <4>1, <4>2
    <3>3. CASE p # r
      <4>1. slots'[p] = slots[p] /\ published'[p] = published[p]
            /\ \A q \in Capture : RunOf[q] = p => progress'[q] = progress[q]
        BY <2>6, <3>3
      <4>2. /\ LineOK(p, Handed, slots[p], progress, taken, committed[p], published[p], Hearing)
            /\ InReadingOrder(p, captures[p], slots[p], progress)
        BY DEF LinesOK, ReadingOrder
      <4>3. /\ Handed \o m \in Seq(MessageType) /\ Len(Handed) <= Len(Handed \o m)
            /\ \A i \in 1..Len(Handed) : (Handed \o m)[i] = Handed[i]
            /\ \A i \in (Len(Handed) + 1)..Len(Handed \o m) : (Handed \o m)[i].run # p
        <5>1. Handed \o m \in Seq(MessageType) /\ Len(Handed \o m) = Len(Handed) + Len(m)
          BY <2>6, Joined
        <5>2. \A i \in 1..Len(Handed) : (Handed \o m)[i] = Handed[i]
          BY <2>6, Joined
        <5>3. \A i \in 1..Len(m) : (Handed \o m)[Len(Handed) + i] = m[i]
          BY <2>6, Joined
        <5>4. Len(Handed) \in Nat /\ Len(m) \in Nat /\ Len(m) = k
          BY <2>1, <2>6, LenProperties
        <5> DEFINE F == Handed \o m
        <5> HIDE DEF F
        <5>5. ASSUME NEW i \in (Len(Handed) + 1)..Len(F)
              PROVE  F[i].run # p
          <6>1. i - Len(Handed) \in 1..Len(m) /\ Len(Handed) + (i - Len(Handed)) = i
            BY <5>1, <5>4 DEF F
          <6>2. F[i] = m[i - Len(Handed)]
            BY <5>3, <6>1 DEF F
          <6>3. m[i - Len(Handed)].run = r
            BY <2>1, <5>4, <6>1
          <6>4. QED
            BY <3>3, <6>2, <6>3
        <5>6. QED
          BY <5>1, <5>2, <5>4, <5>5 DEF F
      <4>4. LineOK(p, Handed \o m, slots[p], progress', taken', committed[p], published[p],
                   subscribed)
        <5>1. committed[p] <= committed[p]
          BY <3>1
        <5> DEFINE F == Handed \o m
                   P2 == progress'
                   T2 == taken'
        <5> HIDE DEF F, P2, T2
        <5>2. Untouched(p, progress, P2) /\ Untouched(p, taken, T2)
          BY <4>1 DEF P2, T2, Untouched
        <5>3. LineOK(p, F, slots[p], P2, T2, committed[p], published[p], Hearing)
          <6> DEFINE G == Handed
                     c == committed[p]
                     c2 == committed[p]
                     u == published[p]
                     z == slots[p]
                     H == Hearing
                     H2 == Hearing
          <6>1. /\ G \in Seq(MessageType) /\ z \in Seq(SlotType) /\ u \in Nat
                /\ c \in Nat /\ c2 \in Nat /\ c <= c2 /\ (p \in H2 => p \in H)
            BY <2>6, <3>1
          <6>2. /\ F \in Seq(MessageType) /\ Len(G) <= Len(F) /\ \A i \in 1..Len(G) : F[i] = G[i]
                /\ \A i \in (Len(G) + 1)..Len(F) : F[i].run # p
            BY <4>3 DEF F
          <6>3. LineOK(p, G, z, progress, taken, c, u, H)
            BY <4>2
          <6> HIDE DEF G, c, c2, u, z, H, H2
          <6>4. LineOK(p, F, z, P2, T2, c2, u, H2)
            BY ONLY <5>2, <6>1, <6>2, <6>3, p \in Run, LineBesideOthers
          <6>5. QED
            BY <6>4 DEF c2, u, z, H2
        <5>4. QED
          BY <2>5, <5>3 DEF F, P2, T2
      <4>5. InReadingOrder(p, captures[p], slots[p], progress')
        <5>1. /\ \A a \in DOMAIN captures[p] : progress'[captures[p][a]] = progress[captures[p][a]]
              /\ \A j \in DOMAIN slots[p] :
                   IsUnread(slots[p][j], progress') => IsUnread(slots[p][j], progress)
          <6>1. \A a \in DOMAIN captures[p] : captures[p][a] \in Capture /\ RunOf[captures[p][a]] = p
            BY <3>1, <4>2, Elements DEF InReadingOrder
          <6>2. \A j \in DOMAIN slots[p] :
                  SlotOK(p, slots[p][j], progress, taken, published[p])
            BY <4>2 DEF LineOK, SlotsAreSound
          <6>3. QED
            BY <4>1, <6>1, <6>2 DEF IsUnread, SlotOK
        <5>2. QED
          <6> DEFINE C == captures[p]
                     z == slots[p]
                     P2 == progress'
          <6>1. /\ C \in Seq(Capture) /\ z \in Seq(SlotType) /\ Len(z) = Len(z)
                /\ \A j \in DOMAIN z : z[j].of = z[j].of /\ (IsUnread(z[j], P2) => IsUnread(z[j], progress))
                /\ \A a \in DOMAIN C : P2[C[a]] = progress[C[a]]
                /\ InReadingOrder(p, C, z, progress)
            BY <3>1, <4>2, <5>1
          <6> HIDE DEF C, z, P2
          <6>2. InReadingOrder(p, C, z, P2)
            BY ONLY <6>1, p \in Run, OrderBeside
          <6>3. QED
            BY <6>2 DEF C, z, P2
      <4>6. QED
        BY <2>1, <2>2, <2>5, <4>1, <4>4, <4>5
    <3>4. QED
      BY <3>2, <3>3
  <2>8. QED
    BY <2>2, <2>4, <2>7 DEF LinesOK, ReadingOrder, ClosedIsEmpty
<1>3. QED
  BY <1>1, <1>2

\* A step that leaves the gate alone.
LEMMA GateAlone ==
  ASSUME DeliveryInv, StoreTypes', QueueTypes', ClosedIsEmpty',
         UNCHANGED <<open, gate, sent>>, readable' \subseteq readable,
         \A r \in Run : LineOK(r, Handed, slots'[r], progress', taken', committed'[r],
                               published'[r], Hearing'),
         \A r \in Run : InReadingOrder(r, captures'[r], slots'[r], progress')
  PROVE  DeliveryInv'
<1>1. /\ open' = open /\ pending' = pending /\ active' = active /\ gateSlots' = gateSlots
      /\ phase' = phase /\ sent' = sent
  BY DEF gate
<1>2. GateTypes'
  BY <1>1 DEF DeliveryInv, TypeInv, GateTypes
<1>3. RightsAreKept'
  BY <1>1 DEF DeliveryInv, RightsAreKept
<1>4. Handed' = Handed
  BY <1>1 DEF Handed
<1>5. LinesOK'
  BY <1>4 DEF LinesOK
<1>6. ReadingOrder'
  BY DEF ReadingOrder
<1>7. QED
  BY <1>2, <1>3, <1>5, <1>6 DEF DeliveryInv, TypeInv

LEMMA QueuesAlone ==
  ASSUME DeliveryInv, UNCHANGED <<open, queues, gate>>
  PROVE  QueueTypes' /\ ClosedIsEmpty' /\ slots' = slots /\ captures' = captures
<1>1. /\ open' = open /\ pending' = pending /\ active' = active
      /\ slots' = slots /\ captures' = captures /\ slotCount' = slotCount
  BY DEF gate, queues
<1>2. QueueTypes'
  <2>1. Positions(slots)' = Positions(slots)
    BY <1>1
  <2>2. QED
    BY <1>1, <2>1 DEF DeliveryInv, TypeInv, QueueTypes
<1>3. QED
  BY <1>1, <1>2 DEF DeliveryInv, TypeInv, ClosedIsEmpty

\* What is known of one run.
LEMMA OneRun ==
  ASSUME DeliveryInv, NEW r \in Run
  PROVE  /\ Handed \in Seq(MessageType) /\ slots[r] \in Seq(SlotType)
         /\ captures[r] \in Seq(Capture)
         /\ committed[r] \in Nat /\ published[r] \in Nat /\ published[r] <= committed[r]
         /\ taken \in [Capture -> Nat]
         /\ \A q \in Capture : RunOf[q] = r => taken[q] <= committed[r]
         /\ LineOK(r, Handed, slots[r], progress, taken, committed[r], published[r], Hearing)
         /\ InReadingOrder(r, captures[r], slots[r], progress)
<1>1. Handed \in Seq(MessageType)
  BY HandedIsSeq DEF DeliveryInv, TypeInv
<1>2. QED
  BY <1>1 DEF DeliveryInv, TypeInv, StoreTypes, QueueTypes, LinesOK, ReadingOrder

\* Another run's snapshot has changed.
LEMMA OtherRun ==
  ASSUME DeliveryInv, NEW r \in Run, NEW P2, NEW T2, NEW H2,
         Untouched(r, progress, P2), Untouched(r, taken, T2), r \in H2 => r \in Hearing
  PROVE  /\ LineOK(r, Handed, slots[r], P2, T2, committed[r], published[r], H2)
         /\ InReadingOrder(r, captures[r], slots[r], P2)
<1> DEFINE G == Handed
           c == committed[r]
           u == published[r]
           s == slots[r]
           C == captures[r]
           H == Hearing
           P == progress
           T == taken
<1>1. /\ G \in Seq(MessageType) /\ s \in Seq(SlotType) /\ C \in Seq(Capture)
      /\ c \in Nat /\ u \in Nat
      /\ LineOK(r, G, s, P, T, c, u, H) /\ InReadingOrder(r, C, s, P)
      /\ Untouched(r, P, P2) /\ Untouched(r, T, T2) /\ (r \in H2 => r \in H)
  BY OneRun
<1> HIDE DEF G, c, u, s, C, H, P, T
<1>2. /\ Len(G) <= Len(G) /\ c <= c /\ \A i \in 1..Len(G) : G[i] = G[i]
      /\ \A i \in (Len(G) + 1)..Len(G) : G[i].run # r
  <2>1. Len(G) \in Nat
    BY <1>1, LenProperties
  <2>2. QED
    BY <1>1, <2>1
<1>3. LineOK(r, G, s, P2, T2, c, u, H2)
  BY ONLY <1>1, <1>2, r \in Run, LineBesideOthers
<1>4. \A j \in DOMAIN s : s[j].of = s[j].of /\ (IsUnread(s[j], P2) => IsUnread(s[j], P))
  <2>1. \A j \in DOMAIN s : SlotOK(r, s[j], P, T, u)
    BY <1>1 DEF LineOK, SlotsAreSound
  <2>2. QED
    BY <1>1, <2>1 DEF SlotOK, IsUnread, Untouched
<1>5. \A a \in DOMAIN C : P2[C[a]] = P[C[a]]
  <2>1. \A a \in DOMAIN C : C[a] \in Capture
    BY <1>1, Elements
  <2>2. \A a \in DOMAIN C : RunOf[C[a]] = r
    BY <1>1 DEF InReadingOrder
  <2>3. QED
    BY <1>1, <2>1, <2>2 DEF Untouched
<1>6. InReadingOrder(r, C, s, P2)
  <2>1. Len(s) = Len(s)
    OBVIOUS
  <2>2. QED
    BY ONLY <1>1, <1>4, <1>5, <2>1, r \in Run, OrderBeside
<1>7. QED
  BY <1>3, <1>6 DEF G, c, u, s, C, P, T

\* A run that gains an update in the store.
LEMMA CommitKeeps ==
  ASSUME DeliveryInv, NEW r \in Run, Commit(r)
  PROVE  DeliveryInv'
<1>1. /\ committed' = [committed EXCEPT ![r] = @ + 1]
      /\ UNCHANGED <<open, subscribed, published, readable, progress, taken, queues, gate, sent>>
  BY DEF Commit
<1>2. StoreTypes'
  BY <1>1 DEF DeliveryInv, TypeInv, StoreTypes
<1>3. QueueTypes' /\ ClosedIsEmpty' /\ slots' = slots /\ captures' = captures
  BY <1>1, QueuesAlone
<1>4. Hearing' = Hearing
  BY <1>1 DEF Hearing
<1>5. ASSUME NEW p \in Run
      PROVE  /\ LineOK(p, Handed, slots'[p], progress', taken', committed'[p], published'[p],
                       Hearing')
             /\ InReadingOrder(p, captures'[p], slots'[p], progress')
  <2> DEFINE G == Handed
             c == committed[p]
             c2 == committed'[p]
             u == published[p]
             s == slots[p]
             H == Hearing
             P == progress
             T == taken
  <2>1. /\ G \in Seq(MessageType) /\ s \in Seq(SlotType) /\ c \in Nat /\ u \in Nat
        /\ LineOK(p, G, s, P, T, c, u, H) /\ InReadingOrder(p, captures[p], s, P)
    BY OneRun
  <2>2. c2 \in Nat /\ c <= c2
    BY <1>1 DEF DeliveryInv, TypeInv, StoreTypes
  <2>3. Untouched(p, P, P) /\ Untouched(p, T, T) /\ (p \in H => p \in H)
    BY DEF Untouched
  <2> HIDE DEF G, c, c2, u, s, H, P, T
  <2>4. /\ Len(G) <= Len(G) /\ \A i \in 1..Len(G) : G[i] = G[i]
        /\ \A i \in (Len(G) + 1)..Len(G) : G[i].run # p
    <3>1. Len(G) \in Nat
      BY <2>1, LenProperties
    <3>2. QED
      BY <3>1
  <2>5. LineOK(p, G, s, P, T, c2, u, H)
    BY ONLY <2>1, <2>2, <2>3, <2>4, p \in Run, LineBesideOthers
  <2>6. QED
    BY <1>1, <1>3, <1>4, <2>1, <2>5 DEF G, c2, u, s, H, P, T
<1>6. UNCHANGED <<open, gate, sent>> /\ readable' \subseteq readable
  BY <1>1
<1>7. QED
  BY <1>2, <1>3, <1>5, <1>6, GateAlone

\* A reader that loses a run.
LEMMA RevokeKeeps ==
  ASSUME DeliveryInv, NEW r \in Run, Revoke(r)
  PROVE  DeliveryInv'
<1>1. /\ readable' = readable \ {r}
      /\ UNCHANGED <<open, subscribed, stored, progress, taken, queues, gate, sent>>
  BY DEF Revoke
<1>2. StoreTypes'
  BY <1>1 DEF DeliveryInv, TypeInv, StoreTypes, stored
<1>3. QueueTypes' /\ ClosedIsEmpty' /\ slots' = slots /\ captures' = captures
  BY <1>1, QueuesAlone
<1>4. /\ Hearing' = Hearing /\ progress' = progress /\ taken' = taken
      /\ committed' = committed /\ published' = published
  BY <1>1 DEF Hearing, stored
<1>5. \A p \in Run :
        /\ LineOK(p, Handed, slots'[p], progress', taken', committed'[p], published'[p], Hearing')
        /\ InReadingOrder(p, captures'[p], slots'[p], progress')
  BY <1>3, <1>4, OneRun
<1>6. UNCHANGED <<open, gate, sent>> /\ readable' \subseteq readable
  BY <1>1
<1>7. QED
  BY <1>2, <1>3, <1>5, <1>6, GateAlone

LEMMA NewUpdate ==
  ASSUME DeliveryInv, NEW r \in Run, open, r \in subscribed, published[r] < committed[r]
  PROVE  LET s == Append(slots[r], UpdateSlot(published[r] + 1))
         IN  /\ s \in Seq(SlotType)
             /\ LineOK(r, Handed, s, progress, taken, committed[r], published[r] + 1, subscribed)
             /\ InReadingOrder(r, captures[r], s, progress)
<1> DEFINE G == Handed
           s == slots[r]
           C == captures[r]
           c == committed[r]
           u == published[r]
           u2 == published[r] + 1
           P == progress
           T == taken
           x == UpdateSlot(u2)
           H == subscribed
<1>1. /\ G \in Seq(MessageType) /\ s \in Seq(SlotType) /\ C \in Seq(Capture)
      /\ c \in Nat /\ u \in Nat /\ u2 \in Nat /\ u <= u2 /\ u2 = u + 1
      /\ LineOK(r, G, s, P, T, c, u, H) /\ InReadingOrder(r, C, s, P)
  <2>1. Hearing = subscribed
    BY DEF Hearing
  <2>2. QED
    BY <2>1, OneRun
<1>2. /\ x.kind = "update" /\ x.n = u2 /\ x.of = "none" /\ x.filled
      /\ x \in SlotType
  BY <1>1 DEF UpdateSlot, SlotType
<1>3. r \in H
  OBVIOUS
<1> HIDE DEF G, s, C, c, u, u2, P, T, x, H
<1>4. /\ SlotOK(r, x, P, T, u2) /\ ~IsRead(x, P) /\ ~IsUnread(x, P) /\ Covers(x, u2, P, T)
  BY <1>1, <1>2 DEF SlotOK, IsRead, IsUnread, Covers, Holds
<1>5. x.kind = "update" => CoveredBefore(Len(s) + 1, r, x.n - 1, G, s, P, T)
  <2>1. CoveredBefore(Len(s) + 1, r, u, G, s, P, T)
    BY <1>1, <1>3 DEF LineOK, EndIsCovered
  <2>2. x.n - 1 = u
    BY <1>1, <1>2
  <2>3. QED
    BY <2>1, <2>2
<1>6. \A j \in DOMAIN s : s[j].kind # "update" => P[s[j].of] = P[s[j].of]
  OBVIOUS
<1>7. \A a \in DOMAIN C : C[a] # x.of /\ P[C[a]] = P[C[a]]
  BY <1>1, <1>2, Elements, CaptureAssumption
<1>8. LineOK(r, G, Append(s, x), P, T, c, u2, H)
  BY ONLY <1>1, <1>2, <1>4, <1>5, <1>6, r \in Run, LineAfterAppend
<1>9. InReadingOrder(r, C, Append(s, x), P)
  BY ONLY <1>1, <1>2, <1>4, <1>6, <1>7, r \in Run, OrderAfterAppend
<1>10. Append(s, x) \in Seq(SlotType)
  BY <1>1, <1>2, AppendProperties
<1>11. QED
  BY <1>8, <1>9, <1>10 DEF G, s, C, c, u, u2, P, T, x, H

\* An update is published.
LEMMA PublishKeeps ==
  ASSUME DeliveryInv, NEW r \in Run, Publish(r)
  PROVE  DeliveryInv'
<1>1. /\ open /\ published[r] < committed[r]
      /\ published' = [published EXCEPT ![r] = @ + 1]
      /\ subscribed' = subscribed /\ committed' = committed /\ readable' = readable
      /\ progress' = progress /\ taken' = taken
  BY DEF Publish
<1>2. /\ published \in [Run -> Nat] /\ committed \in [Run -> Nat]
      /\ \A p \in Run : published[p] <= committed[p]
      /\ open \in BOOLEAN
  BY DEF DeliveryInv, TypeInv, StoreTypes
<1>3. /\ published' \in [Run -> Nat] /\ published'[r] = published[r] + 1
      /\ \A p \in Run : p # r => published'[p] = published[p]
      /\ \A p \in Run : published'[p] <= committed[p]
  BY <1>1, <1>2
<1>4. CASE UNCHANGED <<open, queues, gate, sent>> /\ r \notin subscribed
  <2>1. StoreTypes'
    BY <1>1, <1>2, <1>3, <1>4 DEF DeliveryInv, TypeInv, StoreTypes
  <2>2. QueueTypes' /\ ClosedIsEmpty' /\ slots' = slots /\ captures' = captures
    BY <1>4, QueuesAlone
  <2>3. Hearing' = Hearing /\ r \notin Hearing
    BY <1>1, <1>4 DEF Hearing
  <2>4. ASSUME NEW p \in Run
        PROVE  /\ LineOK(p, Handed, slots'[p], progress', taken', committed'[p], published'[p],
                         Hearing')
               /\ InReadingOrder(p, captures'[p], slots'[p], progress')
    <3>1. /\ LineOK(p, Handed, slots[p], progress, taken, committed[p], published[p], Hearing)
          /\ InReadingOrder(p, captures[p], slots[p], progress)
      BY OneRun
    <3>2. LineOK(p, Handed, slots[p], progress, taken, committed[p], published'[p], Hearing)
      <4>1. CASE p = r
        BY <1>2, <1>3, <2>3, <3>1, <4>1, LineUnheard
      <4>2. CASE p # r
        BY <1>3, <3>1, <4>2
      <4>3. QED
        BY <4>1, <4>2
    <3>3. QED
      BY <1>1, <2>2, <2>3, <3>1, <3>2
  <2>5. UNCHANGED <<open, gate, sent>> /\ readable' \subseteq readable
    BY <1>1, <1>4
  <2>6. QED
    BY <2>1, <2>2, <2>4, <2>5, GateAlone
<1>5. CASE Terminate
  <2>1. StoreTypes'
    BY <1>1, <1>2, <1>3, <1>5 DEF DeliveryInv, TypeInv, StoreTypes, Terminate
  <2>2. \A p \in Run : committed[p] <= committed'[p]
    BY <1>1, <1>2
  <2>3. QED
    BY <1>1, <1>5, <2>1, <2>2, EndKeeps
<1>6. ASSUME r \in subscribed, ~Terminate,
             DrainSlots(r, Append(slots[r], UpdateSlot(published[r] + 1)))
      PROVE  DeliveryInv'
  <2> DEFINE s == Append(slots[r], UpdateSlot(published[r] + 1))
  <2>1. /\ s \in Seq(SlotType)
        /\ LineOK(r, Handed, s, progress, taken, committed[r], published[r] + 1, subscribed)
        /\ InReadingOrder(r, captures[r], s, progress)
    BY <1>1, <1>6, NewUpdate
  <2>2. DrainSlots(r, s)
    BY <1>6
  <2> HIDE DEF s
  <2>3. StoreTypes'
    <3>1. open' = open
      BY <1>6, <2>2 DEF DrainSlots, Enqueue
    <3>2. QED
      BY <1>1, <1>2, <1>3, <3>1 DEF DeliveryInv, TypeInv, StoreTypes
  <2>4. /\ LineOK(r, Handed, s, progress', taken, committed[r], published'[r], subscribed)
        /\ InReadingOrder(r, captures[r], s, progress')
        /\ \A q \in Capture : RunOf[q] # r => progress'[q] = progress[q]
    BY <1>1, <1>3, <2>1
  <2>5. QED
    BY <1>1, <1>3, <2>1, <2>2, <2>3, <2>4, DrainKeeps
<1>7. QED
  BY <1>4, <1>5, <1>6 DEF Publish

\* A snapshot takes its position.
LEMMA NewSnapshot ==
  ASSUME DeliveryInv, NEW q \in Capture, open, progress[q] = "new",
         NEW st \in {"reserved", "failed"}, NEW P2, NEW H2,
         P2[q] = st, OthersUntouched(q, progress, P2),
         H2 \subseteq subscribed \cup {RunOf[q]},
         NEW r \in Run, NEW t, NEW D,
         t = IF r = RunOf[q] THEN Append(slots[r], CaptureSlot(q)) ELSE slots[r],
         D = IF r = RunOf[q] /\ st = "reserved" THEN Append(captures[r], q) ELSE captures[r]
  PROVE  /\ t \in Seq(SlotType) /\ D \in Seq(Capture)
         /\ LineOK(r, Handed, t, P2, taken, committed[r], published[r], H2)
         /\ InReadingOrder(r, D, t, P2)
<1> DEFINE G == Handed
           s == slots[r]
           C == captures[r]
           c == committed[r]
           u == published[r]
           u2 == published[r]
           P == progress
           T == taken
           x == CaptureSlot(q)
           H == subscribed
<1>1. /\ G \in Seq(MessageType) /\ s \in Seq(SlotType) /\ C \in Seq(Capture)
      /\ c \in Nat /\ u \in Nat /\ u2 \in Nat /\ u <= u2
      /\ LineOK(r, G, s, P, T, c, u, H) /\ InReadingOrder(r, C, s, P)
  <2>1. Hearing = subscribed
    BY DEF Hearing
  <2>2. QED
    BY <2>1, OneRun
<1>2. /\ x.kind = "snapshot" /\ x.n = 0 /\ x.of = q /\ ~x.filled
      /\ x \in SlotType
  BY DEF CaptureSlot, SlotType
<1>3. P[q] = "new" /\ P2[q] = st /\ \A p \in Capture : p # q => P2[p] = P[p]
  BY DEF OthersUntouched
<1>4. CASE r = RunOf[q]
  <2> HIDE DEF G, s, C, c, u, u2, P, T, x, H
  <2>1. \A j \in DOMAIN s : s[j].of # q /\ (s[j].kind # "update" => s[j].of \in Capture)
    <3>1. \A j \in DOMAIN s : SlotOK(r, s[j], P, T, u)
      BY <1>1 DEF LineOK, SlotsAreSound
    <3>2. QED
      BY <1>3, <3>1, CaptureAssumption DEF SlotOK
  <2>2. \A j \in DOMAIN s : s[j].kind # "update" => P2[s[j].of] = P[s[j].of]
    BY <1>3, <2>1
  <2>3. \A a \in DOMAIN C : C[a] \in Capture /\ C[a] # q
    BY <1>1, <1>3, Elements DEF InReadingOrder
  <2>4. \A a \in DOMAIN C : C[a] # x.of /\ P2[C[a]] = P[C[a]]
    BY <1>2, <1>3, <2>3
  <2>5. SlotOK(r, x, P2, T, u2) /\ ~IsRead(x, P2) /\ Covers(x, u2, P2, T)
    BY <1>2, <1>3, <1>4 DEF SlotOK, IsRead, Covers, IsUnread, HasFailed
  <2>6. x.kind = "update" => CoveredBefore(Len(s) + 1, r, x.n - 1, G, s, P, T)
    BY <1>2
  <2>7. LineOK(r, G, Append(s, x), P2, T, c, u2, H2)
    BY ONLY <1>1, <1>2, <2>2, <2>5, <2>6, r \in Run, LineAfterAppend
  <2>8. Append(s, x) \in Seq(SlotType) /\ Append(C, q) \in Seq(Capture)
    BY <1>1, <1>2, AppendProperties
  <2>9. CASE st = "reserved"
    <3>1. InReadingOrder(r, Append(C, q), Append(s, x), P2)
      <4>1. /\ RunOf[q] = r /\ x.of = q /\ P2[q] = "reserved"
            /\ \A j \in DOMAIN s : s[j].of # q
            /\ \A a \in DOMAIN C : C[a] # q
            /\ OthersUntouched(q, P, P2)
        BY <1>2, <1>3, <1>4, <2>1, <2>3, <2>9 DEF OthersUntouched
      <4>2. QED
        BY ONLY <1>1, <1>2, <2>2, <4>1, r \in Run, q \in Capture, OrderAfterReserve
    <3>2. QED
      BY <1>4, <2>7, <2>8, <2>9, <3>1 DEF G, s, C, c, u2, T, x
  <2>10. CASE st = "failed"
    <3>1. ~IsUnread(x, P2)
      BY <1>2, <1>3, <2>10 DEF IsUnread
    <3>2. InReadingOrder(r, C, Append(s, x), P2)
      BY ONLY <1>1, <1>2, <2>2, <2>4, <3>1, r \in Run, OrderAfterAppend
    <3>3. QED
      BY <1>1, <1>4, <2>7, <2>8, <2>10, <3>2 DEF G, s, C, c, u2, T, x
  <2>11. QED
    BY <2>9, <2>10
<1>5. CASE r # RunOf[q]
  <2>1. Untouched(r, progress, P2) /\ Untouched(r, taken, taken)
    BY <1>3, <1>5 DEF Untouched
  <2>2. r \in H2 => r \in Hearing
    BY <1>5 DEF Hearing
  <2>3. /\ LineOK(r, Handed, slots[r], P2, taken, committed[r], published[r], H2)
        /\ InReadingOrder(r, captures[r], slots[r], P2)
    BY <2>1, <2>2, OtherRun
  <2>4. QED
    BY <1>1, <1>5, <2>3
<1>6. QED
  BY <1>4, <1>5

\* A snapshot is asked for.
LEMMA AskKeeps ==
  ASSUME DeliveryInv, NEW q \in Capture, Ask(q)
  PROVE  DeliveryInv'
<1> DEFINE r == RunOf[q]
<1>1. /\ open /\ progress[q] = "new"
      /\ committed' = committed /\ published' = published /\ readable' = readable
      /\ taken' = taken
  BY DEF Ask, stored
<1>2. r \in Run /\ q \in Capture
  BY CaptureAssumption
<1>3. /\ progress \in [Capture -> Progress] /\ subscribed \subseteq Run /\ StoreTypes
      /\ \A p \in Run : committed[p] \in Nat
  BY DEF DeliveryInv, TypeInv, StoreTypes
<1>4. CASE Terminate /\ progress' = [progress EXCEPT ![q] = "done"] /\ UNCHANGED subscribed
  <2>1. StoreTypes'
    BY <1>1, <1>3, <1>4 DEF StoreTypes, Terminate, Progress
  <2>2. \A p \in Run : committed[p] <= committed'[p]
    BY <1>1, <1>3
  <2>3. QED
    BY <1>1, <1>4, <2>1, <2>2, EndKeeps
<1>5. ASSUME NEW st \in {"reserved", "failed"},
             slots' = [slots EXCEPT ![r] = Append(@, CaptureSlot(q))],
             slotCount' = slotCount + 1,
             captures' = IF st = "reserved" THEN [captures EXCEPT ![r] = Append(@, q)]
                                            ELSE captures,
             progress' = [progress EXCEPT ![q] = st],
             subscribed' = subscribed \/ subscribed' = subscribed \cup {r},
             UNCHANGED <<open, gate, sent>>
      PROVE  DeliveryInv'
  <2>1. StoreTypes'
    BY <1>1, <1>2, <1>3, <1>5 DEF StoreTypes, Progress
  <2>2. Hearing' = subscribed'
    BY <1>1, <1>5 DEF Hearing
  <2>3. /\ slots \in [Run -> Seq(SlotType)] /\ captures \in [Run -> Seq(Capture)]
        /\ IsFiniteSet(Positions(slots)) /\ slotCount = Cardinality(Positions(slots))
    BY DEF DeliveryInv, TypeInv, QueueTypes
  <2>4. ASSUME NEW p \in Run
        PROVE  /\ slots'[p] = IF p = r THEN Append(slots[p], CaptureSlot(q)) ELSE slots[p]
               /\ captures'[p] = IF p = r /\ st = "reserved" THEN Append(captures[p], q)
                                                             ELSE captures[p]
    BY <1>5, <2>3
  <2>5. ASSUME NEW p \in Run
        PROVE  /\ slots'[p] \in Seq(SlotType) /\ captures'[p] \in Seq(Capture)
               /\ LineOK(p, Handed, slots'[p], progress', taken', committed'[p], published'[p],
                         Hearing')
               /\ InReadingOrder(p, captures'[p], slots'[p], progress')
    <3> DEFINE s == IF p = RunOf[q] THEN Append(slots[p], CaptureSlot(q)) ELSE slots[p]
               C == IF p = RunOf[q] /\ st = "reserved" THEN Append(captures[p], q)
                                                       ELSE captures[p]
               P2 == progress'
               H2 == subscribed'
    <3>1. /\ P2[q] = st /\ OthersUntouched(q, progress, P2)
          /\ H2 \subseteq subscribed \cup {RunOf[q]}
      BY <1>3, <1>5 DEF OthersUntouched
    <3>2. /\ s = IF p = RunOf[q] THEN Append(slots[p], CaptureSlot(q)) ELSE slots[p]
          /\ C = IF p = RunOf[q] /\ st = "reserved" THEN Append(captures[p], q) ELSE captures[p]
      OBVIOUS
    <3>3. slots'[p] = s /\ captures'[p] = C
      BY <2>4
    <3> HIDE DEF P2, H2, s, C
    <3>4. /\ s \in Seq(SlotType) /\ C \in Seq(Capture)
          /\ LineOK(p, Handed, s, P2, taken, committed[p], published[p], H2)
          /\ InReadingOrder(p, C, s, P2)
      <4>1. DeliveryInv /\ open /\ progress[q] = "new" /\ st \in {"reserved", "failed"}
        BY <1>1
      <4>2. QED
        BY ONLY <3>1, <3>2, <4>1, p \in Run, q \in Capture, NewSnapshot
    <3>5. QED
      BY <1>1, <2>2, <3>3, <3>4 DEF P2, H2
  <2>6. QueueTypes'
    <3> DEFINE t == Append(slots[r], CaptureSlot(q))
               S2 == [slots EXCEPT ![r] = t]
    <3>1. t \in Seq(SlotType)
      BY <1>2, <2>4, <2>5
    <3>2. slots[r] \in Seq(SlotType) /\ Len(slots[r]) \in Nat /\ Len(t) = Len(slots[r]) + 1
      <4>1. slots[r] \in Seq(SlotType) /\ CaptureSlot(q) \in SlotType
        BY <1>2, <2>3 DEF CaptureSlot, SlotType
      <4>2. QED
        BY <4>1, AppendProperties, LenProperties
    <3>3. slots' = S2
      BY <1>5
    <3> HIDE DEF t
    <3>4. /\ S2 \in [Run -> Seq(SlotType)] /\ IsFiniteSet(Positions(S2))
          /\ Cardinality(Positions(S2)) = Cardinality(Positions(slots)) + Len(t) - Len(slots[r])
      <4> DEFINE p == r
      <4>1. p \in Run
        BY <1>2
      <4> HIDE DEF p
      <4>2. /\ [slots EXCEPT ![p] = t] \in [Run -> Seq(SlotType)]
            /\ IsFiniteSet(Positions([slots EXCEPT ![p] = t]))
            /\ Cardinality(Positions([slots EXCEPT ![p] = t]))
                 = Cardinality(Positions(slots)) + Len(t) - Len(slots[p])
        BY ONLY <2>3, <3>1, <4>1, PositionsAreCounted
      <4>3. QED
        BY <4>2 DEF p
    <3> HIDE DEF S2
    <3>5. Positions(slots)' = Positions(S2)
      BY <3>3 DEF Positions
    <3>6. Cardinality(Positions(slots)) \in Nat
      BY <2>3, FS_CardinalityType
    <3>7. slotCount' = Cardinality(Positions(S2))
      BY <1>5, <2>3, <3>2, <3>4, <3>6
    <3>8. captures' \in [Run -> Seq(Capture)]
      <4>1. Append(captures[r], q) \in Seq(Capture)
        BY <1>2, <2>3, AppendProperties
      <4>2. QED
        BY <1>5, <2>3, <4>1
    <3>9. QED
      BY <3>3, <3>4, <3>5, <3>7, <3>8 DEF QueueTypes
  <2>7. ClosedIsEmpty'
    BY <1>1, <1>5 DEF ClosedIsEmpty
  <2>8. readable' \subseteq readable
    BY <1>1
  <2>9. QED
    BY <1>5, <2>1, <2>5, <2>6, <2>7, <2>8, GateAlone
<1>6. ASSUME Reserve(q), UNCHANGED <<open, gate, sent>>,
             subscribed' = IF Origin[q] = "subscribe" THEN subscribed \cup {r} ELSE subscribed
      PROVE  DeliveryInv'
  <2> DEFINE st == "reserved"
  <2>1. /\ st \in {"reserved", "failed"}
        /\ slots' = [slots EXCEPT ![r] = Append(@, CaptureSlot(q))]
        /\ slotCount' = slotCount + 1
        /\ captures' = IF st = "reserved" THEN [captures EXCEPT ![r] = Append(@, q)]
                                          ELSE captures
        /\ progress' = [progress EXCEPT ![q] = st]
    BY <1>6 DEF Reserve
  <2>2. subscribed' = subscribed \/ subscribed' = subscribed \cup {r}
    BY <1>6
  <2> HIDE DEF st, r
  <2>3. QED
    BY <1>5, <1>6, <2>1, <2>2
<1>7. ASSUME ReserveCancelled(q), UNCHANGED <<open, subscribed, gate, sent>>
      PROVE  DeliveryInv'
  <2> DEFINE st == "failed"
  <2>1. /\ st \in {"reserved", "failed"}
        /\ slots' = [slots EXCEPT ![r] = Append(@, CaptureSlot(q))]
        /\ slotCount' = slotCount + 1
        /\ captures' = IF st = "reserved" THEN [captures EXCEPT ![r] = Append(@, q)]
                                          ELSE captures
        /\ progress' = [progress EXCEPT ![q] = st]
    BY <1>7 DEF ReserveCancelled
  <2> HIDE DEF st, r
  <2>2. UNCHANGED <<open, gate, sent>> /\ subscribed' = subscribed
    BY <1>7
  <2>3. QED
    BY <1>5, <2>1, <2>2
<1>8. QED
  BY <1>4, <1>6, <1>7 DEF Ask

\* The snapshot first in line is read, or its read fails.
LEMMA ReadKeeps ==
  ASSUME DeliveryInv, NEW q \in Capture, Read(q)
  PROVE  DeliveryInv'
<1> DEFINE r == RunOf[q]
<1>1. r \in Run /\ "none" \notin Capture
  BY CaptureAssumption
<1>2. /\ captures[r] # <<>> /\ Head(captures[r]) = q
      /\ captures' = [captures EXCEPT ![r] = Tail(@)]
      /\ \/ /\ taken' = [taken EXCEPT ![q] = committed[r]]
            /\ progress' = [progress EXCEPT ![q] = "captured"]
         \/ /\ progress' = [progress EXCEPT ![q] = "failed"]
            /\ taken' = taken
      /\ UNCHANGED <<open, subscribed, stored, readable, slots, slotCount, gate, sent>>
  BY DEF Read, IsNext
<1>3. /\ committed' = committed /\ published' = published /\ readable' = readable
      /\ subscribed' = subscribed /\ open' = open /\ slots' = slots /\ slotCount' = slotCount
  BY <1>2 DEF stored
<1>4. /\ progress \in [Capture -> Progress] /\ taken \in [Capture -> Nat] /\ StoreTypes
      /\ committed[r] \in Nat
      /\ captures \in [Run -> Seq(Capture)] /\ slots \in [Run -> Seq(SlotType)]
  BY <1>1 DEF DeliveryInv, TypeInv, StoreTypes, QueueTypes
<1>5. /\ progress' \in [Capture -> Progress] /\ taken' \in [Capture -> Nat]
      /\ \A p \in Capture : taken'[p] <= committed[RunOf[p]]
      /\ OthersUntouched(q, progress, progress') /\ OthersUntouched(q, taken, taken')
      /\ \/ progress'[q] = "captured" /\ taken'[q] = committed[r]
         \/ progress'[q] = "failed" /\ taken'[q] = taken[q]
  <2>1. \A p \in Capture : taken[p] <= committed[RunOf[p]]
    BY <1>4 DEF StoreTypes
  <2>2. CASE /\ taken' = [taken EXCEPT ![q] = committed[r]]
             /\ progress' = [progress EXCEPT ![q] = "captured"]
    BY <1>4, <2>1, <2>2 DEF Progress, OthersUntouched
  <2>3. CASE progress' = [progress EXCEPT ![q] = "failed"] /\ taken' = taken
    BY <1>4, <2>1, <2>3 DEF Progress, OthersUntouched
  <2>4. QED
    BY <1>2, <2>2, <2>3
<1>6. StoreTypes'
  BY <1>3, <1>4, <1>5 DEF StoreTypes
<1>7. captures[r] \in Seq(Capture) /\ captures[r][1] = q /\ Tail(captures[r]) \in Seq(Capture)
  <2>1. captures[r] \in Seq(Capture)
    BY <1>1, <1>4
  <2>2. QED
    BY <1>2, <2>1, HeadTailProperties
<1>8. /\ captures' \in [Run -> Seq(Capture)] /\ captures'[r] = Tail(captures[r])
      /\ \A p \in Run : p # r => captures'[p] = captures[p]
  BY <1>1, <1>2, <1>4, <1>7
<1>9. QueueTypes'
  <2>1. Positions(slots)' = Positions(slots)
    BY <1>3
  <2>2. QED
    BY <1>3, <1>8, <2>1 DEF DeliveryInv, TypeInv, QueueTypes
<1>10. open /\ Hearing = subscribed
  BY <1>1, <1>2 DEF DeliveryInv, TypeInv, ClosedIsEmpty, Hearing
<1>11. Hearing' = Hearing
  BY <1>3 DEF Hearing
<1>12. ClosedIsEmpty'
  BY <1>3, <1>10 DEF ClosedIsEmpty
<1>13. ASSUME NEW p \in Run
       PROVE  /\ LineOK(p, Handed, slots'[p], progress', taken', committed'[p], published'[p],
                        Hearing')
              /\ InReadingOrder(p, captures'[p], slots'[p], progress')
  <2>1. CASE p = r
    <3> DEFINE G == Handed
               s == slots[p]
               C == captures[p]
               c == committed[p]
               u == published[p]
               P == progress
               T == taken
               P2 == progress'
               T2 == taken'
               H == Hearing
    <3>1. /\ G \in Seq(MessageType) /\ s \in Seq(SlotType) /\ C \in Seq(Capture)
          /\ T \in [Capture -> Nat] /\ T2 \in [Capture -> Nat]
          /\ c \in Nat /\ u \in Nat /\ u <= c
          /\ \A x \in Capture : RunOf[x] = p => T[x] <= c
          /\ LineOK(p, G, s, P, T, c, u, H) /\ InReadingOrder(p, C, s, P)
      BY <1>5, OneRun
    <3>2. /\ RunOf[q] = p /\ OthersUntouched(q, P, P2) /\ OthersUntouched(q, T, T2)
          /\ \/ P2[q] = "captured" /\ T2[q] = c
             \/ P2[q] = "failed" /\ T2[q] = T[q]
          /\ C # <<>> /\ C[1] = q
      BY <1>2, <1>5, <1>7, <2>1
    <3> HIDE DEF G, s, C, c, u, P, T, P2, T2, H
    <3>3. LineOK(p, G, s, P2, T2, c, u, H)
      BY ONLY <1>1, <3>1, <3>2, p \in Run, q \in Capture, LineAfterRead
    <3>4. InReadingOrder(p, Tail(C), s, P2)
      <4>1. P2[C[1]] # "reserved" /\ OthersUntouched(C[1], P, P2)
        BY <3>2
      <4>2. \A j \in DOMAIN s : s[j].kind # "update" => s[j].of \in Capture
        BY <3>1 DEF LineOK, SlotsAreSound, SlotOK
      <4>3. QED
        BY ONLY <3>1, <3>2, <4>1, <4>2, p \in Run, OrderAfterRead
    <3>5. QED
      BY <1>3, <1>8, <1>11, <2>1, <3>3, <3>4 DEF G, s, C, c, u, P2, T2, H
  <2>2. CASE p # r
    <3>1. Untouched(p, progress, progress') /\ Untouched(p, taken, taken')
      BY <1>5, <2>2 DEF Untouched, OthersUntouched
    <3> DEFINE P2 == progress'
               T2 == taken'
               H2 == Hearing
    <3>2. Untouched(p, progress, P2) /\ Untouched(p, taken, T2) /\ (p \in H2 => p \in Hearing)
      BY <3>1
    <3> HIDE DEF P2, T2, H2
    <3>3. /\ LineOK(p, Handed, slots[p], P2, T2, committed[p], published[p], H2)
          /\ InReadingOrder(p, captures[p], slots[p], P2)
      BY <3>2, OtherRun
    <3>4. QED
      BY <1>3, <1>8, <1>11, <2>2, <3>3 DEF P2, T2, H2
  <2>3. QED
    BY <2>1, <2>2
<1>14. UNCHANGED <<open, gate, sent>> /\ readable' \subseteq readable
  BY <1>2
<1>15. QED
  BY <1>6, <1>9, <1>12, <1>13, <1>14, GateAlone

\* The positions of a snapshot are filled.
LEMMA FilledPositions ==
  ASSUME DeliveryInv, NEW q \in Capture, NEW s, s = slots[RunOf[q]]
  PROVE  /\ s \in Seq(SlotType) /\ Filled(q) \in Seq(SlotType)
         /\ Fills(s, Filled(q), q, progress, taken)
<1> DEFINE value(j) == IF s[j].of # q THEN s[j]
                       ELSE [s[j] EXCEPT !.filled = TRUE, !.n = taken[q],
                                         !.kind = IF progress[q] = "failed" THEN "failure"
                                                  ELSE "snapshot"]
           t == [j \in DOMAIN s |-> value(j)]
<1>1. RunOf[q] \in Run
  BY CaptureAssumption
<1>2. s \in Seq(SlotType) /\ taken[q] \in Nat
  BY <1>1 DEF DeliveryInv, TypeInv, QueueTypes, StoreTypes
<1>3. Len(s) \in Nat /\ DOMAIN s = 1..Len(s) /\ \A j \in DOMAIN s : s[j] \in SlotType
  BY <1>2, Elements
<1>4. Filled(q) = t
  BY DEF Filled
<1>5. ASSUME NEW j \in DOMAIN s
      PROVE  /\ value(j) \in SlotType
             /\ s[j].of # q => value(j) = s[j]
             /\ s[j].of = q =>
                  /\ value(j).of = q /\ value(j).filled /\ value(j).n = taken[q]
                  /\ value(j).kind = IF progress[q] = "failed" THEN "failure" ELSE "snapshot"
  <2>1. s[j] \in SlotType
    BY <1>3
  <2>2. CASE s[j].of = q
    BY <1>2, <2>1, <2>2 DEF SlotType
  <2>3. CASE s[j].of # q
    BY <2>1, <2>3
  <2>4. QED
    BY <2>2, <2>3
<1> HIDE DEF value
<1>6. t \in [1..Len(s) -> SlotType] /\ \A j \in DOMAIN s : t[j] = value(j)
  BY <1>3, <1>5
<1> HIDE DEF t
<1>7. t \in Seq(SlotType)
  BY <1>3, <1>6, IsASeq
<1>8. Len(t) = Len(s)
  <2>1. DOMAIN t = 1..Len(s) /\ DOMAIN t = 1..Len(t) /\ Len(t) \in Nat
    BY <1>6, <1>7, LenProperties
  <2>2. QED
    BY <1>3, <2>1
<1>9. QED
  BY <1>2, <1>4, <1>5, <1>6, <1>7, <1>8 DEF Fills

\* A command answers, or fails, in the position it reserved.
LEMMA DeliverKeeps ==
  ASSUME DeliveryInv, NEW q \in Capture, Deliver(q)
  PROVE  DeliveryInv'
<1> DEFINE r == RunOf[q]
<1>1. /\ progress[q] \in {"captured", "failed"}
      /\ progress' = [progress EXCEPT ![q] = "done"]
      /\ subscribed' = subscribed /\ committed' = committed /\ published' = published
      /\ readable' = readable /\ taken' = taken
  BY DEF Deliver, stored
<1>2. r \in Run /\ "none" \notin Capture
  BY CaptureAssumption
<1>3. /\ progress \in [Capture -> Progress] /\ StoreTypes
      /\ \A p \in Run : committed[p] \in Nat /\ committed[p] <= committed'[p]
  BY <1>1 DEF DeliveryInv, TypeInv, StoreTypes
<1>4. /\ progress' \in [Capture -> Progress] /\ progress'[q] = "done"
      /\ OthersUntouched(q, progress, progress')
  BY <1>1, <1>3 DEF Progress, OthersUntouched
<1>5. open' \in BOOLEAN => StoreTypes'
  BY <1>1, <1>3, <1>4 DEF StoreTypes
<1>6. CASE ~open /\ UNCHANGED <<open, queues, gate, sent>>
  <2>1. QueueTypes' /\ ClosedIsEmpty' /\ slots' = slots /\ captures' = captures
    BY <1>6, QueuesAlone
  <2>2. Hearing' = {}
    BY <1>6 DEF Hearing
  <2>3. ASSUME NEW p \in Run
        PROVE  /\ LineOK(p, Handed, slots'[p], progress', taken', committed'[p], published'[p],
                         Hearing')
               /\ InReadingOrder(p, captures'[p], slots'[p], progress')
    <3>1. slots'[p] = <<>> /\ captures'[p] = <<>>
      BY <1>6, <2>1 DEF DeliveryInv, TypeInv, ClosedIsEmpty
    <3> DEFINE G == Handed
               c == committed[p]
               c2 == committed'[p]
    <3>2. /\ G \in Seq(MessageType) /\ Len(G) <= Len(G) /\ \A i \in 1..Len(G) : G[i] = G[i]
          /\ c \in Nat /\ c2 \in Nat /\ c <= c2
          /\ LineOK(p, G, slots[p], progress, taken, c, published[p], Hearing)
      <4>1. G \in Seq(MessageType) /\ LineOK(p, G, slots[p], progress, taken, c, published[p], Hearing)
        BY OneRun
      <4>2. Len(G) \in Nat
        BY <4>1, LenProperties
      <4>3. QED
        BY <1>1, <1>3, <4>1, <4>2
    <3> DEFINE P2 == progress'
               T2 == taken'
               u2 == published'[p]
    <3> HIDE DEF G, c, c2, P2, T2, u2
    <3>3. LineOK(p, G, <<>>, P2, T2, c2, u2, {})
      BY ONLY <3>2, p \in Run, LineAfterEnd
    <3>4. InReadingOrder(p, <<>>, <<>>, P2)
      BY DEF InReadingOrder
    <3>5. QED
      BY <2>2, <3>1, <3>3, <3>4 DEF G, c2, P2, T2, u2
  <2>4. StoreTypes'
    BY <1>3, <1>5, <1>6 DEF StoreTypes
  <2>5. UNCHANGED <<open, gate, sent>> /\ readable' \subseteq readable
    BY <1>1, <1>6
  <2>6. QED
    BY <2>1, <2>3, <2>4, <2>5, GateAlone
<1>7. CASE Terminate
  <2>1. StoreTypes'
    BY <1>5, <1>7 DEF Terminate
  <2>2. QED
    BY <1>1, <1>3, <1>7, <2>1, EndKeeps
<1>8. ASSUME open, DrainSlots(r, Filled(q)), ~Terminate
      PROVE  DeliveryInv'
  <2> DEFINE G == Handed
             s == slots[r]
             t == Filled(q)
             C == captures[r]
             c == committed[r]
             u == published[r]
             u2 == published'[r]
             P == progress
             T == taken
             P2 == progress'
             H == subscribed
  <2>1. s \in Seq(SlotType) /\ t \in Seq(SlotType) /\ Fills(s, t, q, P, T)
    BY FilledPositions
  <2>2. /\ G \in Seq(MessageType) /\ C \in Seq(Capture) /\ c \in Nat /\ u \in Nat /\ u2 = u
        /\ LineOK(r, G, s, P, T, c, u, H) /\ InReadingOrder(r, C, s, P)
    <3>1. Hearing = subscribed
      BY <1>8 DEF Hearing
    <3> DEFINE p == r
    <3>2. p \in Run /\ p = r
      BY <1>2
    <3> HIDE DEF p
    <3>3. /\ Handed \in Seq(MessageType) /\ captures[p] \in Seq(Capture)
          /\ committed[p] \in Nat /\ published[p] \in Nat
          /\ LineOK(p, Handed, slots[p], progress, taken, committed[p], published[p], Hearing)
          /\ InReadingOrder(p, captures[p], slots[p], progress)
      BY <3>2, OneRun
    <3>4. QED
      BY <1>1, <3>1, <3>2, <3>3
  <2>3. P[q] \in {"captured", "failed"} /\ P2[q] = "done" /\ OthersUntouched(q, P, P2)
    BY <1>1, <1>4
  <2>4. DrainSlots(r, t)
    BY <1>8
  <2>5. open' = open
    BY <1>8 DEF DrainSlots, Enqueue
  <2>6. StoreTypes'
    BY <1>3, <1>5, <2>5 DEF StoreTypes
  <2>7. /\ \A x \in Capture : RunOf[x] # r => progress'[x] = progress[x]
        /\ \A p \in Run : p # r => published'[p] = published[p]
    BY <1>1, <1>4 DEF OthersUntouched
  <2> HIDE DEF G, s, t, C, c, u, u2, P, T, P2, H, r
  <2>8. LineOK(r, G, t, P2, T, c, u, H)
    BY ONLY <1>2, <2>1, <2>2, <2>3, q \in Capture, LineAfterFill
  <2>9. InReadingOrder(r, C, t, P2)
    <3>1. Len(t) = Len(s) /\ DOMAIN t = DOMAIN s
      BY <2>1, LenProperties DEF Fills
    <3>2. \A j \in DOMAIN t : t[j].of = s[j].of /\ (IsUnread(t[j], P2) => IsUnread(s[j], P))
      <4>1. \A j \in DOMAIN s : SlotOK(r, s[j], P, T, u)
        BY <2>2 DEF LineOK, SlotsAreSound
      <4>2. QED
        BY <2>1, <2>3, <3>1, <4>1 DEF SlotOK, IsUnread, OthersUntouched, Fills
    <3>3. \A a \in DOMAIN C : P2[C[a]] = P[C[a]]
      <4>1. \A a \in DOMAIN C : C[a] \in Capture /\ P[C[a]] = "reserved"
        BY <2>2, Elements DEF InReadingOrder
      <4>2. QED
        BY <2>3, <4>1 DEF OthersUntouched
    <3>4. QED
      BY ONLY <1>2, <2>1, <2>2, <3>1, <3>2, <3>3, OrderBeside
  <2>10. LineOK(r, G, t, P2, T, c, u2, H)
    BY <2>2, <2>8
  <2>11. QED
    BY <1>1, <1>2, <1>8, <2>1, <2>4, <2>6, <2>7, <2>9, <2>10, DrainKeeps
       DEF G, C, c, u2, P2, T, H
<1>9. QED
  BY <1>6, <1>7, <1>8 DEF Deliver

\* The gate reads the rights of what it holds.
LEMMA ReadRightsKeeps ==
  ASSUME DeliveryInv, ReadRights
  PROVE  DeliveryInv'
<1>1. /\ phase = "reading"
      /\ UNCHANGED <<subscribed, stored, readable, progress, taken>>
  BY DEF ReadRights
<1>2. /\ committed' = committed /\ published' = published /\ readable' = readable
      /\ progress' = progress /\ taken' = taken /\ subscribed' = subscribed
  BY <1>1 DEF stored
<1>3. CASE Terminate
  <2>1. StoreTypes'
    BY <1>2, <1>3 DEF DeliveryInv, TypeInv, StoreTypes, Terminate
  <2>2. \A p \in Run : committed[p] <= committed'[p]
    BY <1>2 DEF DeliveryInv, TypeInv, StoreTypes
  <2>3. QED
    BY <1>2, <1>3, <2>1, <2>2, EndKeeps
<1>4. CASE /\ \A i \in DOMAIN active : active[i].run \in readable
           /\ phase' = "granted"
           /\ UNCHANGED <<open, queues, pending, active, gateSlots, sent>>
  <2>1. /\ open' = open /\ slots' = slots /\ captures' = captures /\ slotCount' = slotCount
        /\ pending' = pending /\ active' = active /\ gateSlots' = gateSlots /\ sent' = sent
    BY <1>4 DEF queues
  <2>2. StoreTypes'
    BY <1>2, <2>1 DEF DeliveryInv, TypeInv, StoreTypes
  <2>3. QueueTypes'
    <3>1. Positions(slots)' = Positions(slots)
      BY <2>1
    <3>2. QED
      BY <2>1, <3>1 DEF DeliveryInv, TypeInv, QueueTypes
  <2>4. GateTypes' /\ ClosedIsEmpty'
    BY <1>1, <1>4, <2>1 DEF DeliveryInv, TypeInv, GateTypes, ClosedIsEmpty
  <2>5. RightsAreKept'
    BY <1>2, <1>4, <2>1 DEF DeliveryInv, RightsAreKept
  <2>6. Handed' = Handed /\ Hearing' = Hearing
    BY <1>2, <2>1 DEF Handed, Hearing
  <2>7. LinesOK' /\ ReadingOrder'
    BY <1>2, <2>1, <2>6 DEF DeliveryInv, LinesOK, ReadingOrder
  <2>8. QED
    BY <2>2, <2>3, <2>4, <2>5, <2>7 DEF DeliveryInv, TypeInv
<1>5. QED
  BY <1>3, <1>4 DEF ReadRights

\* What was authorised is sent.
LEMMA SendBatchKeeps ==
  ASSUME DeliveryInv, SendBatch
  PROVE  DeliveryInv'
<1>1. /\ sent \in Seq(MessageType) /\ active \in Seq(MessageType)
      /\ pending \in Seq(MessageType)
      /\ gateSlots = Len(pending) + Len(active) /\ gateSlots <= MaxSlots
      /\ open <=> phase # "disposed"
  BY DEF DeliveryInv, TypeInv, GateTypes
<1>2. Len(active) \in Nat /\ Len(pending) \in Nat
  BY <1>1, LenProperties
<1>3. active' = pending
  <2>1. SubSeq(active \o pending, Len(active) + 1, Len(active) + Len(pending)) = pending
    BY <1>1, AfterTheFirst
  <2>2. QED
    BY <2>1 DEF SendBatch, Batch
<1>4. /\ phase = "granted" /\ sent' = sent \o active
      /\ gateSlots' = gateSlots - Len(active)
      /\ pending' = <<>>
      /\ phase' = IF active' = <<>> THEN "idle" ELSE "reading"
      /\ open' = open /\ subscribed' = subscribed /\ committed' = committed
      /\ published' = published /\ readable' = readable /\ progress' = progress
      /\ taken' = taken /\ slots' = slots /\ captures' = captures /\ slotCount' = slotCount
  BY DEF SendBatch, Batch, stored, queues
<1>5. StoreTypes'
  BY <1>4 DEF DeliveryInv, TypeInv, StoreTypes
<1>6. QueueTypes'
  <2>1. Positions(slots)' = Positions(slots)
    BY <1>4
  <2>2. QED
    BY <1>4, <2>1 DEF DeliveryInv, TypeInv, QueueTypes
<1>7. sent' \in Seq(MessageType)
  BY <1>1, <1>4, Joined
<1>8. GateTypes'
  <2>1. <<>> \in Seq(MessageType) /\ Len(<<>>) = 0
    OBVIOUS
  <2>2. gateSlots' = Len(pending') + Len(active') /\ gateSlots' <= MaxSlots
    BY <1>1, <1>2, <1>3, <1>4, <2>1, BoundAssumption
  <2>3. /\ phase' \in {"idle", "reading", "granted", "disposed"}
        /\ phase' = "idle" => active' = <<>> /\ pending' = <<>>
        /\ open' <=> phase' # "disposed"
    BY <1>1, <1>4
  <2>4. QED
    BY <1>1, <1>3, <1>4, <1>7, <2>1, <2>2, <2>3 DEF GateTypes
<1>9. ClosedIsEmpty'
  BY <1>1, <1>4 DEF ClosedIsEmpty
<1>10. RightsAreKept'
  <2>1. \A i \in DOMAIN sent' : sent'[i].allowed
    <3> DEFINE v == sent \o active
    <3>1. /\ DOMAIN v = 1..(Len(sent) + Len(active))
          /\ \A i \in 1..Len(sent) : v[i] = sent[i]
      <4>1. DOMAIN v = 1..(Len(sent) + Len(active))
        BY <1>1, Joined
      <4>2. \A i \in 1..Len(sent) : v[i] = sent[i]
        BY <1>1, Joined
      <4>3. QED
        BY <4>1, <4>2
    <3>2. \A i \in 1..Len(active) : v[Len(sent) + i] = active[i]
      BY <1>1, Joined
    <3>3. /\ DOMAIN sent = 1..Len(sent) /\ Len(sent) \in Nat
          /\ DOMAIN active = 1..Len(active)
      BY <1>1, LenProperties
    <3> HIDE DEF v
    <3>4. ASSUME NEW i \in DOMAIN v
          PROVE  v[i].allowed
      <4>1. CASE i \in DOMAIN sent
        <5>1. v[i] = sent[i]
          BY <3>1, <3>3, <4>1
        <5>2. QED
          BY <4>1, <5>1 DEF DeliveryInv, RightsAreKept
      <4>2. CASE i \notin DOMAIN sent
        <5>1. PICK j \in 1..Len(active) : i = Len(sent) + j
          <6>1. i - Len(sent) \in 1..Len(active) /\ i = Len(sent) + (i - Len(sent))
            BY <1>2, <3>1, <3>3, <4>2
          <6>2. QED
            BY <6>1
        <5>2. v[i] = active[j] /\ j \in DOMAIN active
          BY <3>2, <3>3, <5>1
        <5>3. QED
          BY <1>4, <5>2 DEF DeliveryInv, RightsAreKept
      <4>3. QED
        BY <4>1, <4>2
    <3>5. QED
      BY <1>4, <3>4 DEF v
  <2>2. \A i \in DOMAIN active' : active'[i].run \in readable' => active'[i].allowed
    BY <1>3, <1>4 DEF DeliveryInv, RightsAreKept
  <2>3. pending' = <<>> /\ phase' # "granted" /\ DOMAIN <<>> = {}
    BY <1>4
  <2>4. QED
    BY <2>1, <2>2, <2>3 DEF RightsAreKept
<1>11. Handed' = Handed
  <2> DEFINE v == (sent \o active) \o pending
  <2>1. sent \o active \in Seq(MessageType)
    BY <1>1, Joined
  <2>2. v \in Seq(MessageType)
    BY <1>1, <2>1, Joined
  <2>3. v \o <<>> = v
    BY <2>2, ConcatEmptySeq
  <2>4. QED
    BY <1>3, <1>4, <2>3 DEF Handed
<1>12. Hearing' = Hearing
  BY <1>4 DEF Hearing
<1>13. LinesOK' /\ ReadingOrder'
  BY <1>4, <1>11, <1>12 DEF DeliveryInv, LinesOK, ReadingOrder
<1>14. QED
  BY <1>5, <1>6, <1>8, <1>9, <1>10, <1>13 DEF DeliveryInv, TypeInv

LEMMA DisconnectKeeps ==
  ASSUME DeliveryInv, Disconnect
  PROVE  DeliveryInv'
<1>1. /\ committed' = committed /\ published' = published /\ readable' = readable
      /\ progress' = progress /\ taken' = taken /\ subscribed' = subscribed /\ Terminate
  BY DEF Disconnect, stored
<1>2. StoreTypes'
  BY <1>1 DEF DeliveryInv, TypeInv, StoreTypes, Terminate
<1>3. \A p \in Run : committed[p] <= committed'[p]
  BY <1>1 DEF DeliveryInv, TypeInv, StoreTypes
<1>4. QED
  BY <1>1, <1>2, <1>3, EndKeeps

---------------------------------------------------------------------------------
(* The theorems.                                                                 *)

\* At first nothing is stored, asked for or handed to the gate.
LEMMA DeliveryStarts == Init => DeliveryInv
<1> SUFFICES ASSUME Init PROVE DeliveryInv
  OBVIOUS
<1> USE DEF Init
<1>1. <<>> \in Seq(MessageType) /\ Len(<<>>) = 0 /\ DOMAIN <<>> = {}
      /\ <<>> \in Seq(SlotType) /\ <<>> \in Seq(Capture)
  OBVIOUS
<1>2. StoreTypes
  BY CaptureAssumption DEF StoreTypes, Progress
<1>3. QueueTypes
  <2>1. Positions(slots) = {}
    BY <1>1 DEF Positions
  <2>2. QED
    BY <1>1, <2>1, FS_EmptySet DEF QueueTypes
<1>4. GateTypes
  BY <1>1, BoundAssumption DEF GateTypes
<1>5. ClosedIsEmpty
  BY DEF ClosedIsEmpty
<1>6. RightsAreKept
  BY <1>1 DEF RightsAreKept
<1>7. Handed = <<>>
  <2>1. (<<>> \o <<>>) \o <<>> = <<>>
    BY <1>1, ConcatEmptySeq
  <2>2. QED
    BY <2>1 DEF Handed
<1>8. LinesOK
  BY <1>1, <1>7 DEF LinesOK, LineOK, GateIsOrdered, GateIsBounded, SlotsAreSound,
                    SnapshotsDominate, UpdatesAreCovered, EndIsCovered, Hearing
<1>9. ReadingOrder
  BY <1>1 DEF ReadingOrder, InReadingOrder
<1>10. QED
  BY <1>2, <1>3, <1>4, <1>5, <1>6, <1>8, <1>9 DEF DeliveryInv, TypeInv

LEMMA DeliveryContinues == DeliveryInv /\ [Next]_vars => DeliveryInv'
<1> SUFFICES ASSUME DeliveryInv, [Next]_vars PROVE DeliveryInv'
  OBVIOUS
<1>1. ASSUME NEW r \in Run, Commit(r) \/ Publish(r) \/ Revoke(r)
      PROVE  DeliveryInv'
  BY <1>1, CommitKeeps, PublishKeeps, RevokeKeeps
<1>2. ASSUME NEW q \in Capture, Ask(q) \/ Read(q) \/ Deliver(q)
      PROVE  DeliveryInv'
  BY <1>2, AskKeeps, ReadKeeps, DeliverKeeps
<1>3. CASE ReadRights \/ SendBatch \/ Disconnect
  BY <1>3, ReadRightsKeeps, SendBatchKeeps, DisconnectKeeps
<1>4. CASE UNCHANGED vars
  <2>1. /\ UNCHANGED <<open, subscribed, stored, readable, progress, taken, queues, gate, sent>>
        /\ committed' = committed /\ published' = published
    BY <1>4 DEF vars, stored
  <2>2. QueueTypes' /\ ClosedIsEmpty' /\ slots' = slots /\ captures' = captures
    BY <2>1, QueuesAlone
  <2>3. StoreTypes'
    BY <2>1 DEF DeliveryInv, TypeInv, StoreTypes
  <2>4. Hearing' = Hearing
    BY <2>1 DEF Hearing
  <2>5. \A p \in Run :
          /\ LineOK(p, Handed, slots'[p], progress', taken', committed'[p], published'[p], Hearing')
          /\ InReadingOrder(p, captures'[p], slots'[p], progress')
    BY <2>1, <2>2, <2>4, OneRun
  <2>6. UNCHANGED <<open, gate, sent>> /\ readable' \subseteq readable
    BY <2>1
  <2>7. QED
    BY <2>2, <2>3, <2>5, <2>6, GateAlone
<1>5. QED
  BY <1>1, <1>2, <1>3, <1>4 DEF Next

\* What was handed in fits together, and so does what was sent of it.
LEMMA DeliveryIsConsistent == DeliveryInv => StreamIsConsistent
<1> SUFFICES ASSUME DeliveryInv PROVE StreamIsConsistent
  OBVIOUS
<1>1. DeliveryTypeOK
  <2>1. \A r \in Run : published[r] \in 0..committed[r]
    BY DEF DeliveryInv, TypeInv, StoreTypes
  <2>2. UNION {{r} \X DOMAIN slots[r] : r \in Run} = Positions(slots)
    BY DEF Positions
  <2>3. QED
    BY <2>1, <2>2 DEF DeliveryTypeOK, DeliveryInv, TypeInv, StoreTypes, QueueTypes, GateTypes
<1>2. /\ sent \in Seq(MessageType) /\ Len(sent) <= Len(Handed)
      /\ Handed \in Seq(MessageType) /\ \A i \in 1..Len(sent) : Handed[i] = sent[i]
  BY HandedIsSeq DEF DeliveryInv, TypeInv
<1>3. /\ DOMAIN sent = 1..Len(sent) /\ DOMAIN Handed = 1..Len(Handed)
      /\ Len(sent) \in Nat /\ Len(Handed) \in Nat
      /\ \A i \in DOMAIN sent : sent[i] \in MessageType
  BY <1>2, Elements
<1>4. ASSUME NEW i \in DOMAIN sent, NEW before,
             before = {sent[j] : j \in {k \in 1..(i - 1) : sent[k].run = sent[i].run}}
      PROVE  /\ sent[i].kind = "snapshot" => \A m \in before : m.n <= sent[i].n
             /\ sent[i].kind = "update" =>
                  \E m \in before : m.kind = "failure" \/ m.n >= sent[i].n - 1
             /\ sent[i].kind \in {"update", "snapshot", "failure"}
  <2> DEFINE r == sent[i].run
  <2>1. r \in Run /\ sent[i].kind \in {"update", "snapshot", "failure"}
    BY <1>3 DEF MessageType
  <2>2. GateIsOrdered(r, Handed)
    BY <2>1 DEF DeliveryInv, LinesOK, LineOK
  <2>3. i \in DOMAIN Handed /\ Handed[i] = sent[i] /\ \A j \in 1..(i - 1) : Handed[j] = sent[j]
    BY <1>2, <1>3
  <2>4. /\ sent[i].kind = "snapshot" =>
             \A j \in 1..(i - 1) : sent[j].run = r => sent[j].n <= sent[i].n
        /\ sent[i].kind = "update" =>
             \E j \in 1..(i - 1) : /\ sent[j].run = r
                                   /\ sent[j].kind = "failure" \/ sent[j].n >= sent[i].n - 1
    BY <2>2, <2>3 DEF GateIsOrdered
  <2>5. QED
    BY <1>4, <2>1, <2>4
<1>5. QED
  BY <1>1, <1>4 DEF StreamIsConsistent

\* What one connection sends about a run fits together, for any number of runs, snapshots
\* and updates: a snapshot contains what was sent before it, and an update follows the one
\* before it or a snapshot that contains that one (reserveRunDelivery, drainRunDelivery,
\* reserveRunCapture of the WebSocket connection).
THEOREM StreamsFitTogether == Spec => []StreamIsConsistent
<1>1. Init => DeliveryInv
  BY DeliveryStarts
<1>2. DeliveryInv /\ [Next]_vars => DeliveryInv'
  BY DeliveryContinues
<1>3. DeliveryInv => StreamIsConsistent
  BY DeliveryIsConsistent
<1>4. QED
  BY <1>1, <1>2, <1>3, PTL DEF Spec

\* Nothing is sent on an answer about rights that is older than the message
\* (WsDeliveryGate authorises each batch again).
THEOREM SentIsAuthorized == Spec => []NothingSentUnauthorized
<1>1. Init => DeliveryInv
  BY DeliveryStarts
<1>2. DeliveryInv /\ [Next]_vars => DeliveryInv'
  BY DeliveryContinues
<1>3. DeliveryInv => NothingSentUnauthorized
  BY DEF DeliveryInv, RightsAreKept, NothingSentUnauthorized
<1>4. QED
  BY <1>1, <1>2, <1>3, PTL DEF Spec

---------------------------------------------------------------------------------
(* The execution gate of the tools, for every set of calls, lanes and nestings. *)
(* Every acquire and release ends in a pump, so what the counters and the queue *)
(* say of the calls is stated of any states, queue and counters, and one lemma  *)
(* says what a pump makes of them. The chains of nested calls are a second      *)
(* invariant: they share no variable with the leases but the calls' states.     *)

USE GateAssumption

Holders(states) == {c \in Call : states[c] \in {"authorizing", "running"}}

\* A queue whose calls are in it once, and which holds exactly the calls that wait.
Lines(states, queue) ==
    /\ queue \in Seq(Call)
    /\ \A i, j \in 1..Len(queue) : queue[i] = queue[j] => i = j
    /\ \A c \in Call : states[c] = "waiting" <=> \E i \in 1..Len(queue) : queue[i] = c

\* Counters that say which leases are out, of which an exclusive one is the only one.
Counts(states, shared, exclusive) ==
    /\ shared \in Nat
    /\ exclusive \in BOOLEAN
    /\ shared = Cardinality(Holders(states) \ Exclusive)
    /\ exclusive <=> Holders(states) \cap Exclusive # {}
    /\ \A c \in Holders(states) \cap Exclusive : Holders(states) = {c}

Booked(states, queue, shared, exclusive) ==
    /\ states \in [AnyCall -> CallState]
    /\ Lines(states, queue)
    /\ Counts(states, shared, exclusive)

LeaseInv ==
    /\ Booked(callState, waiting, activeShared, activeExclusive)
    /\ FirstWaiterIsBlocked

--------------------------------------------------------------------------------
(* What a pump does.                                                            *)

\* Whatever the states, the calls that hold a lease can be counted.
LEMMA HoldersAreFinite ==
  ASSUME NEW states
  PROVE  /\ IsFiniteSet(Holders(states)) /\ IsFiniteSet(Holders(states) \ Exclusive)
         /\ Cardinality(Holders(states) \ Exclusive) \in Nat
<1>1. Holders(states) \in SUBSET Call /\ Holders(states) \ Exclusive \in SUBSET Call
  BY DEF Holders
<1>2. IsFiniteSet(Holders(states)) /\ IsFiniteSet(Holders(states) \ Exclusive)
  BY <1>1, FS_Subset
<1>3. QED
  BY <1>2, FS_CardinalityType

\* The first k calls of a queue that holds every call once are k calls.
LEMMA FrontOfQueue ==
  ASSUME NEW queue \in Seq(Call), NEW k \in 0..Len(queue),
         \A i, j \in 1..Len(queue) : queue[i] = queue[j] => i = j
  PROVE  LET front == {queue[i] : i \in 1..k}
         IN  IsFiniteSet(front) /\ Cardinality(front) = k
<1> DEFINE front == {queue[i] : i \in 1..k}
           f == [i \in 1..k |-> queue[i]]
<1>1. f \in Bijection(1..k, front)
  <2>1. \A i, j \in 1..k : queue[i] = queue[j] => i = j
    OBVIOUS
  <2>2. f \in [1..k -> front] /\ \A i, j \in 1..k : f[i] = f[j] => i = j
    BY <2>1
  <2>3. \A x \in front : \E i \in 1..k : f[i] = x
    OBVIOUS
  <2>4. f \in Injection(1..k, front)
    BY <2>2 DEF Injection, IsInjective
  <2>5. f \in Surjection(1..k, front)
    BY <2>2, <2>3 DEF Surjection
  <2>6. QED
    BY <2>4, <2>5 DEF Bijection
<1>2. IsFiniteSet(1..k) /\ Cardinality(1..k) = k
  BY FS_Interval
<1>3. QED
  BY <1>1, <1>2, FS_Bijection DEF ExistsBijection

\* What is left of the queue when its first k calls have gone.
LEMMA RestOfQueue ==
  ASSUME NEW queue \in Seq(Call), NEW k \in 0..Len(queue)
  PROVE  LET rest == SubSeq(queue, k + 1, Len(queue))
         IN  /\ rest \in Seq(Call) /\ Len(rest) = Len(queue) - k
             /\ \A i \in 1..(Len(queue) - k) : rest[i] = queue[k + i]
<1> DEFINE rest == SubSeq(queue, k + 1, Len(queue))
<1>1. \A i \in (k + 1)..Len(queue) : queue[i] \in Call
  OBVIOUS
<1>2. k + 1 \in Int /\ Len(queue) \in Int
  OBVIOUS
<1>3. /\ rest \in Seq(Call)
      /\ Len(rest) = IF k + 1 <= Len(queue) THEN Len(queue) - (k + 1) + 1 ELSE 0
      /\ \A i \in 1..(Len(queue) - (k + 1) + 1) : rest[i] = queue[(k + 1) + i - 1]
  BY <1>1, <1>2, SubSeqProperties
<1>4. QED
  BY <1>3

\* A pump moves the first calls of the queue to their lease and leaves nobody at the
\* front who could have one.
LEMMA PumpKeepsLeases ==
  ASSUME NEW states, NEW queue, NEW shared, NEW exclusive,
         Booked(states, queue, shared, exclusive),
         Pump(states, queue, shared, exclusive)
  PROVE  LeaseInv'
<1>1. PICK k \in 0..Len(queue) :
        /\ IsPumped(queue, shared, exclusive, k)
        /\ waiting' = SubSeq(queue, k + 1, Len(queue))
        /\ callState' = [c \in AnyCall |->
                            IF c \in {queue[i] : i \in 1..k} THEN "authorizing" ELSE states[c]]
        /\ activeExclusive' = (exclusive \/ \E c \in {queue[i] : i \in 1..k} : c \in Exclusive)
        /\ activeShared' = IF k > 0 /\ queue[1] \notin Exclusive THEN shared + k ELSE shared
  BY Zenon DEF Pump
<1> DEFINE granted == {queue[i] : i \in 1..k}
<1>2. /\ queue \in Seq(Call) /\ states \in [AnyCall -> CallState]
      /\ shared \in Nat /\ exclusive \in BOOLEAN
      /\ \A i, j \in 1..Len(queue) : queue[i] = queue[j] => i = j
  BY DEF Booked, Lines, Counts
<1>3. \A i \in 1..k : queue[i] \in Call /\ states[queue[i]] = "waiting"
  BY <1>2 DEF Booked, Lines
<1>4. /\ waiting' \in Seq(Call) /\ Len(waiting') = Len(queue) - k
      /\ \A i \in 1..(Len(queue) - k) : waiting'[i] = queue[k + i]
  BY <1>1, <1>2, RestOfQueue
<1>5. callState' \in [AnyCall -> CallState]
  BY <1>1, <1>2 DEF CallState
<1>6. Lines(callState, waiting)'
  <2>1. ASSUME NEW i \in 1..Len(waiting'), NEW j \in 1..Len(waiting'), waiting'[i] = waiting'[j]
        PROVE  i = j
    <3>1. k + i \in 1..Len(queue) /\ k + j \in 1..Len(queue) /\ queue[k + i] = queue[k + j]
      BY <1>2, <1>4, <2>1
    <3>2. k + i = k + j
      BY <1>2, <3>1
    <3>3. QED
      BY <3>2, <1>2, <1>4
  <2>2. ASSUME NEW c \in Call
        PROVE  callState'[c] = "waiting" <=> \E i \in 1..Len(waiting') : waiting'[i] = c
    <3>1. c \in AnyCall /\ (states[c] = "waiting" <=> \E i \in 1..Len(queue) : queue[i] = c)
      BY DEF Booked, Lines, AnyCall
    <3>2. CASE c \in granted
      <4>1. PICK i \in 1..k : queue[i] = c
        BY <3>2
      <4>2. callState'[c] = "authorizing"
        BY <1>1, <3>1, <3>2
      <4>3. \A j \in 1..Len(waiting') : waiting'[j] # c
        <5>1. ASSUME NEW j \in 1..Len(waiting'), waiting'[j] = c
              PROVE  FALSE
          <6>1. /\ k + j \in 1..Len(queue) /\ i \in 1..Len(queue)
                /\ queue[k + j] = queue[i] /\ k + j # i
            BY <1>2, <1>4, <4>1, <5>1
          <6>2. QED
            BY <1>2, <6>1
        <5>2. QED
          BY <5>1
      <4>4. QED
        BY <4>2, <4>3
    <3>3. CASE c \notin granted
      <4>1. callState'[c] = states[c]
        BY <1>1, <3>1, <3>3
      <4>2. ASSUME NEW j \in 1..Len(queue), queue[j] = c
            PROVE  \E i \in 1..Len(waiting') : waiting'[i] = c
        <5>1. j \notin 1..k
          BY <3>3, <4>2
        <5>2. j - k \in 1..(Len(queue) - k) /\ k + (j - k) = j
          BY <5>1, <1>2
        <5>3. QED
          BY <1>4, <4>2, <5>2
      <4>3. ASSUME NEW i \in 1..Len(waiting'), waiting'[i] = c
            PROVE  \E j \in 1..Len(queue) : queue[j] = c
        BY <1>2, <1>4, <4>3
      <4>4. QED
        BY <3>1, <4>1, <4>2, <4>3
    <3>4. QED
      BY <3>2, <3>3
  <2>3. QED
    BY <1>4, <2>1, <2>2 DEF Lines
<1>7. Holders(callState') = Holders(states) \cup granted
      /\ Holders(states) \cap granted = {}
  BY <1>1, <1>3 DEF Holders, AnyCall
<1>8. Counts(callState, activeShared, activeExclusive)' /\ FirstWaiterIsBlocked'
  <2>1. CASE k = 0
    <3>1. granted = {}
      BY <2>1
    <3>2. Holders(callState') = Holders(states) /\ activeShared' = shared
          /\ activeExclusive' = exclusive
      BY <1>1, <1>2, <1>7, <2>1, <3>1
    <3>3. Counts(callState, activeShared, activeExclusive)'
      BY <3>2 DEF Booked, Counts
    <3>4. waiting' = queue
      BY <1>1, <1>2, <2>1, SubSeqFull
    <3>5. QED
      BY <1>1, <2>1, <3>2, <3>3, <3>4 DEF IsPumped, FirstWaiterIsBlocked, CanAcquire
  <2>2. CASE k > 0 /\ queue[1] \in Exclusive
    <3>1. k = 1 /\ shared = 0 /\ ~exclusive
      BY <1>1, <2>2 DEF IsPumped, CanAcquire
    <3>2. granted = {queue[1]}
      BY <3>1
    <3>3. Holders(states) = {}
      <4>1. Holders(states) \ Exclusive = {}
        BY <3>1, HoldersAreFinite, FS_EmptySet DEF Booked, Counts
      <4>2. Holders(states) \cap Exclusive = {}
        BY <3>1 DEF Booked, Counts
      <4>3. QED
        BY <4>1, <4>2
    <3>4. Holders(callState') = {queue[1]} /\ activeExclusive' = TRUE /\ activeShared' = 0
      BY <1>1, <1>7, <2>2, <3>1, <3>2, <3>3
    <3>5. Holders(callState') \ Exclusive = {}
      BY <2>2, <3>4
    <3>6. QED
      BY <2>2, <3>4, <3>5, FS_EmptySet DEF Counts, FirstWaiterIsBlocked, CanAcquire
  <2>3. CASE k > 0 /\ queue[1] \notin Exclusive
    <3>1. /\ ~exclusive /\ \A i \in 1..k : queue[i] \notin Exclusive
          /\ k < Len(queue) => queue[k + 1] \in Exclusive
      BY <1>1, <2>3 DEF IsPumped, CanAcquire
    <3>2. granted \cap Exclusive = {}
      BY <3>1
    <3>3. Holders(states) \cap Exclusive = {}
      BY <3>1 DEF Booked, Counts
    <3>4. Holders(callState') \ Exclusive = (Holders(states) \ Exclusive) \cup granted
      BY <1>7, <3>2
    <3>5. Cardinality(Holders(callState') \ Exclusive) = shared + k
      <4>1. IsFiniteSet(granted) /\ Cardinality(granted) = k
        BY <1>2, FrontOfQueue
      <4>2. /\ IsFiniteSet(Holders(states) \ Exclusive)
            /\ Cardinality(Holders(states) \ Exclusive) = shared
        BY HoldersAreFinite DEF Booked, Counts
      <4>3. (Holders(states) \ Exclusive) \cap granted = {}
        BY <1>7
      <4> DEFINE H == Holders(states) \ Exclusive
      <4>4. Cardinality(H \cup granted)
              = Cardinality(H) + Cardinality(granted) - Cardinality(H \cap granted)
        <5> HIDE DEF H, granted
        <5>1. IsFiniteSet(H) /\ IsFiniteSet(granted)
          BY <4>1, <4>2 DEF H
        <5>2. QED
          BY <5>1, FS_Union
      <4>5. Cardinality(H \cap granted) = 0
        BY <4>3, FS_EmptySet
      <4>6. Cardinality(H \cup granted) = shared + k
        <5>1. /\ Cardinality(H) = shared /\ Cardinality(granted) = k
              /\ shared + k - 0 = shared + k
          BY <1>2, <4>1, <4>2
        <5>2. QED
          BY <4>4, <4>5, <5>1, Zenon
      <4>7. QED
        BY <3>4, <4>6, Zenon
    <3>6. activeShared' = shared + k /\ activeExclusive' = FALSE
      BY <1>1, <2>3, <3>1, <3>2
    <3>7. Counts(callState, activeShared, activeExclusive)'
      <4>1. Holders(callState') \cap Exclusive = {}
        BY <1>7, <3>2, <3>3
      <4>2. activeShared' \in Nat /\ activeShared' = Cardinality(Holders(callState') \ Exclusive)
        BY <1>2, <3>5, <3>6
      <4>3. QED
        BY <3>6, <4>1, <4>2, Zenon DEF Counts
    <3>8. FirstWaiterIsBlocked'
      <4>1. ASSUME waiting' # <<>>
            PROVE  waiting'[1] \in Exclusive
        <5>1. k < Len(queue)
          BY <1>2, <1>4, <4>1
        <5>2. waiting'[1] = queue[k + 1]
          BY <1>2, <1>4, <5>1
        <5>3. QED
          BY <3>1, <5>1, <5>2
      <4>2. activeShared' # 0
        BY <1>2, <2>3, <3>6
      <4>3. QED
        BY <4>1, <4>2 DEF FirstWaiterIsBlocked, CanAcquire
    <3>9. QED
      BY <3>7, <3>8
  <2>4. QED
    BY <2>1, <2>2, <2>3, <1>2
<1>9. QED
  BY <1>5, <1>6, <1>8 DEF LeaseInv, Booked

--------------------------------------------------------------------------------
(* Every acquire and release.                                                   *)

\* The calls the model says are leased are the holders of the present states.
LEMMA LeasedAreHolders == Leased = Holders(callState)
  BY DEF Leased, Holders

\* No call has asked for anything at first.
LEMMA InitEstablishesLeaseInv == GateInit => LeaseInv
<1> SUFFICES ASSUME GateInit PROVE LeaseInv
  OBVIOUS
<1>1. /\ callState \in [AnyCall -> CallState] /\ \A c \in AnyCall : callState[c] = "new"
      /\ waiting = <<>> /\ activeShared = 0 /\ activeExclusive = FALSE
  BY DEF GateInit, CallState
<1>2. Holders(callState) = {} /\ \A c \in Call : callState[c] # "waiting"
  BY <1>1 DEF Holders, AnyCall
<1>3. Lines(callState, waiting)
  BY <1>1, <1>2 DEF Lines
<1>4. Counts(callState, activeShared, activeExclusive)
  <2>1. Holders(callState) \ Exclusive = {}
    BY <1>2
  <2>2. QED
    BY <1>1, <1>2, <2>1, FS_EmptySet DEF Counts
<1>5. QED
  BY <1>1, <1>3, <1>4 DEF LeaseInv, Booked, FirstWaiterIsBlocked

\* States in which the same calls wait and hold leases say the same of the gate.
LEMMA SameLeases ==
  ASSUME LeaseInv, callState' \in [AnyCall -> CallState],
         \A c \in Call : callState'[c] = callState[c] \/
             {callState[c], callState'[c]} \subseteq {"authorizing", "running"},
         UNCHANGED <<waiting, activeShared, activeExclusive>>
  PROVE  LeaseInv'
<1>1. Holders(callState') = Holders(callState)
  BY DEF Holders
<1>2. Lines(callState, waiting)'
  BY DEF LeaseInv, Booked, Lines
<1>3. Counts(callState, activeShared, activeExclusive)'
  BY <1>1 DEF LeaseInv, Booked, Counts
<1>4. QED
  BY <1>2, <1>3 DEF LeaseInv, Booked, FirstWaiterIsBlocked

\* A call without a place at the end of the queue gets one.
LEMMA JoiningTheQueue ==
  ASSUME NEW c \in Call, LeaseInv, callState[c] = "new"
  PROVE  Booked([callState EXCEPT ![c] = "waiting"], Append(waiting, c), activeShared,
                activeExclusive)
<1> DEFINE states == [callState EXCEPT ![c] = "waiting"]
           queue == Append(waiting, c)
<1>1. /\ callState \in [AnyCall -> CallState] /\ waiting \in Seq(Call) /\ c \in AnyCall
      /\ \A i, j \in 1..Len(waiting) : waiting[i] = waiting[j] => i = j
      /\ \A d \in Call : callState[d] = "waiting" <=> \E i \in 1..Len(waiting) : waiting[i] = d
  BY DEF LeaseInv, Booked, Lines, AnyCall
<1>2. /\ states \in [AnyCall -> CallState]
      /\ \A d \in Call : states[d] = IF d = c THEN "waiting" ELSE callState[d]
  BY <1>1 DEF CallState, AnyCall
<1>3. /\ queue \in Seq(Call) /\ Len(queue) = Len(waiting) + 1 /\ queue[Len(waiting) + 1] = c
      /\ \A i \in 1..Len(waiting) : queue[i] = waiting[i]
  BY <1>1
<1>4. \A i \in 1..Len(waiting) : waiting[i] # c
  BY <1>1
<1>5. Lines(states, queue)
  <2>1. ASSUME NEW i \in 1..Len(queue), NEW j \in 1..Len(queue), queue[i] = queue[j]
        PROVE  i = j
    BY <1>1, <1>3, <1>4, <2>1
  <2>2. ASSUME NEW d \in Call
        PROVE  states[d] = "waiting" <=> \E i \in 1..Len(queue) : queue[i] = d
    <3>1. CASE d = c
      BY <1>1, <1>2, <1>3, <3>1
    <3>2. CASE d # c
      <4>1. states[d] = callState[d]
        BY <1>2, <3>2
      <4>2. ASSUME NEW i \in 1..Len(waiting), waiting[i] = d
            PROVE  \E j \in 1..Len(queue) : queue[j] = d
        BY <1>1, <1>3, <4>2
      <4>3. ASSUME NEW j \in 1..Len(queue), queue[j] = d
            PROVE  \E i \in 1..Len(waiting) : waiting[i] = d
        BY <1>1, <1>3, <3>2, <4>3
      <4>4. QED
        BY <1>1, <4>1, <4>2, <4>3
    <3>3. QED
      BY <3>1, <3>2
  <2>3. QED
    BY <1>3, <2>1, <2>2 DEF Lines
<1>6. Holders(states) = Holders(callState)
  BY <1>2 DEF Holders
<1>7. QED
  BY <1>2, <1>5, <1>6 DEF LeaseInv, Booked, Counts

\* A call that goes takes its own lease out of the counters, and no other.
LEMMA GivingTheLeaseBack ==
  ASSUME NEW c \in Call, NEW last \in Settled, LeaseInv,
         callState[c] \in {"authorizing", "running"}
  PROVE  LET states == [callState EXCEPT ![c] = last]
         IN  IF c \in Exclusive THEN Booked(states, waiting, activeShared, FALSE)
             ELSE Booked(states, waiting, IF activeShared > 0 THEN activeShared - 1 ELSE 0,
                         activeExclusive)
<1> DEFINE states == [callState EXCEPT ![c] = last]
<1>1. /\ callState \in [AnyCall -> CallState] /\ waiting \in Seq(Call) /\ c \in AnyCall
      /\ activeShared \in Nat /\ activeExclusive \in BOOLEAN
      /\ activeShared = Cardinality(Holders(callState) \ Exclusive)
      /\ activeExclusive <=> Holders(callState) \cap Exclusive # {}
      /\ \A d \in Holders(callState) \cap Exclusive : Holders(callState) = {d}
  BY DEF LeaseInv, Booked, Lines, Counts, AnyCall
<1>2. /\ states \in [AnyCall -> CallState]
      /\ \A d \in AnyCall : states[d] = IF d = c THEN last ELSE callState[d]
  BY <1>1 DEF CallState, Settled
<1>3. Holders(states) = Holders(callState) \ {c} /\ c \in Holders(callState)
  BY <1>2 DEF Holders, Settled, AnyCall
<1>4. Lines(states, waiting)
  <2>1. \A d \in Call : states[d] = "waiting" <=> callState[d] = "waiting"
    BY <1>2 DEF Settled, AnyCall
  <2>2. QED
    BY <2>1 DEF LeaseInv, Booked, Lines
<1>5. CASE c \in Exclusive
  <2>1. Holders(callState) = {c} /\ Holders(states) = {}
    BY <1>1, <1>3, <1>5
  <2>2. Holders(states) \ Exclusive = {} /\ Holders(callState) \ Exclusive = {}
    BY <1>5, <2>1
  <2>3. Counts(states, activeShared, FALSE)
    BY <1>1, <2>1, <2>2, Zenon DEF Counts
  <2>4. QED
    BY <1>2, <1>4, <1>5, <2>3 DEF Booked
<1>6. CASE c \notin Exclusive
  <2>1. Holders(states) \ Exclusive = (Holders(callState) \ Exclusive) \ {c}
        /\ c \in Holders(callState) \ Exclusive
        /\ Holders(states) \cap Exclusive = Holders(callState) \cap Exclusive
    BY <1>3, <1>6
  <2>2. Cardinality(Holders(states) \ Exclusive) = activeShared - 1
    <3> DEFINE H == Holders(callState) \ Exclusive
    <3>1. Cardinality(H \ {c}) = Cardinality(H) - 1
      <4>1. IsFiniteSet(H) /\ c \in H
        BY <2>1, HoldersAreFinite
      <4>2. QED
        BY <4>1, FS_RemoveElement
    <3>2. QED
      BY <1>1, <2>1, <3>1
  <2>3. activeShared > 0
    <3>1. Cardinality(Holders(states) \ Exclusive) \in Nat
      BY HoldersAreFinite
    <3>2. QED
      BY <1>1, <2>2, <3>1
  <2>4. Counts(states, activeShared - 1, activeExclusive)
    <3>1. Holders(callState) \cap Exclusive = {}
      BY <1>1, <1>3, <1>6
    <3>2. QED
      <4>1. activeShared - 1 \in Nat /\ activeExclusive = FALSE
            /\ Holders(states) \cap Exclusive = {}
        <5>1. activeShared - 1 \in Nat
          BY <1>1, <2>3
        <5>2. activeExclusive = FALSE
          BY <1>1, <3>1, Zenon
        <5>3. Holders(states) \cap Exclusive = {}
          BY <2>1, <3>1, Zenon
        <5>4. QED
          BY <5>1, <5>2, <5>3
      <4>2. activeShared - 1 = Cardinality(Holders(states) \ Exclusive)
        BY <2>2
      <4>3. QED
        <5> HIDE DEF states
        <5>1. QED
          BY <4>1, <4>2, Zenon DEF Counts
  <2>5. QED
    BY <1>2, <1>4, <1>6, <2>3, <2>4 DEF Booked
<1>7. QED
  BY <1>5, <1>6

\* A lease given back, and those the pump then grants, keep the books.
LEMMA ReleaseKeepsLeaseInv ==
  ASSUME NEW c \in Call, NEW last \in Settled, LeaseInv,
         callState[c] \in {"authorizing", "running"}, Release(c, last)
  PROVE  LeaseInv'
<1>1. CASE c \in Exclusive
  BY <1>1, GivingTheLeaseBack, PumpKeepsLeases DEF Release
<1>2. CASE c \notin Exclusive
  BY <1>2, GivingTheLeaseBack, PumpKeepsLeases DEF Release
<1>3. QED
  BY <1>1, <1>2

\* So do a lease asked for, and those the pump then grants.
LEMMA AcquireKeepsLeaseInv ==
  ASSUME NEW c \in Call, LeaseInv, Acquire(c)
  PROVE  LeaseInv'
<1>1. CASE ~AcquiresAtOnce(c)
  BY <1>1, JoiningTheQueue, PumpKeepsLeases DEF Acquire
<1>2. CASE AcquiresAtOnce(c)
  <2>1. /\ waiting = <<>> /\ ~activeExclusive /\ (c \in Exclusive => activeShared = 0)
        /\ callState[c] = "new" /\ callState' = [callState EXCEPT ![c] = "authorizing"]
        /\ waiting' = waiting
        /\ IF c \in Exclusive
           THEN activeExclusive' = TRUE /\ UNCHANGED activeShared
           ELSE activeShared' = activeShared + 1 /\ UNCHANGED activeExclusive
    BY <1>2 DEF Acquire, AcquiresAtOnce, CanAcquire
  <2>2. /\ callState \in [AnyCall -> CallState] /\ c \in AnyCall
        /\ activeShared \in Nat /\ activeExclusive \in BOOLEAN
        /\ activeShared = Cardinality(Holders(callState) \ Exclusive)
        /\ Holders(callState) \cap Exclusive = {}
    BY <2>1 DEF LeaseInv, Booked, Counts, AnyCall
  <2>3. /\ callState' \in [AnyCall -> CallState]
        /\ \A d \in AnyCall : callState'[d] = IF d = c THEN "authorizing" ELSE callState[d]
    BY <2>1, <2>2 DEF CallState
  <2>4. Lines(callState, waiting)'
    <3>1. \A d \in Call : callState'[d] = "waiting" <=> callState[d] = "waiting"
      BY <2>1, <2>3 DEF AnyCall
    <3>2. QED
      BY <2>1, <3>1 DEF LeaseInv, Booked, Lines
  <2>5. Holders(callState') = Holders(callState) \cup {c} /\ c \notin Holders(callState)
    BY <2>1, <2>3 DEF Holders, AnyCall
  <2>6. Counts(callState, activeShared, activeExclusive)'
    <3>1. CASE c \in Exclusive
      <4>1. Holders(callState) \ Exclusive = {}
        BY <2>1, <2>2, <3>1, HoldersAreFinite, FS_EmptySet
      <4>2. Holders(callState') = {c} /\ Holders(callState') \ Exclusive = {}
        BY <2>2, <2>5, <3>1, <4>1
      <4>3. activeShared' = 0 /\ activeExclusive' = TRUE
        BY <2>1, <3>1
      <4>4. QED
        BY <3>1, <4>2, <4>3, FS_EmptySet DEF Counts
    <3>2. CASE c \notin Exclusive
      <4>1. Holders(callState') \ Exclusive = (Holders(callState) \ Exclusive) \cup {c}
            /\ Holders(callState') \cap Exclusive = {}
        BY <2>2, <2>5, <3>2
      <4>2. Cardinality(Holders(callState') \ Exclusive) = activeShared + 1
        <5> DEFINE H == Holders(callState) \ Exclusive
        <5>1. Cardinality(H \cup {c}) = Cardinality(H) + 1
          <6>1. IsFiniteSet(H) /\ c \notin H
            BY <2>5, HoldersAreFinite
          <6>2. QED
            BY <6>1, FS_AddElement
        <5>2. QED
          BY <2>2, <4>1, <5>1
      <4>3. activeShared' = activeShared + 1 /\ activeExclusive' = FALSE
        BY <2>1, <2>2, <3>2
      <4>4. QED
        <5>1. activeShared' \in Nat /\ activeShared' = Cardinality(Holders(callState') \ Exclusive)
          BY <2>2, <4>2, <4>3
        <5>2. QED
          BY <4>1, <4>3, <5>1, Zenon DEF Counts
    <3>3. QED
      BY <3>1, <3>2
  <2>7. QED
    BY <2>1, <2>3, <2>4, <2>6 DEF LeaseInv, Booked, FirstWaiterIsBlocked
<1>3. QED
  BY <1>1, <1>2

\* What happens to nested calls leaves the leases alone.
LEMMA NestedKeepsLeaseInv ==
  ASSUME NEW n \in NestedCall, LeaseInv,
         RunNested(n) \/ AdvanceChain(n) \/ AuthorizeNested(n) \/ FinishNested(n)
  PROVE  LeaseInv'
<1>1. UNCHANGED <<waiting, activeShared, activeExclusive>>
  BY DEF RunNested, AdvanceChain, AuthorizeNested, FinishNested, SettleNested
<1>2. \E next \in CallState : callState' = [callState EXCEPT ![n] = next]
  BY DEF RunNested, AdvanceChain, AuthorizeNested, FinishNested, SettleNested, CallState
<1>3. /\ callState' \in [AnyCall -> CallState]
      /\ \A c \in Call : callState'[c] = callState[c]
  BY <1>2 DEF LeaseInv, Booked, AnyCall
<1>4. QED
  BY <1>1, <1>3, SameLeases

\* LeaseInv is inductive: one case for each disjunct of GateNext.
LEMMA NextKeepsLeaseInv ==
  ASSUME LeaseInv, [GateNext]_gateVars
  PROVE  LeaseInv'
<1>1. ASSUME NEW c \in Call, Authorize(c) \/ Finish(c) \/ TimeOut(c)
      PROVE  LeaseInv'
  <2>1. CASE \E last \in Settled : Release(c, last)
    BY <1>1, <2>1, ReleaseKeepsLeaseInv DEF Authorize, Finish, TimeOut
  <2>2. CASE /\ callState[c] = "authorizing"
             /\ callState' = [callState EXCEPT ![c] = "running"]
             /\ UNCHANGED <<waiting, activeShared, activeExclusive, chain>>
    <3>1. /\ callState' \in [AnyCall -> CallState]
          /\ \A d \in Call : callState'[d] = callState[d] \/ (d = c /\ callState'[d] = "running")
      <4>1. callState \in [AnyCall -> CallState] /\ c \in AnyCall /\ "running" \in CallState
        BY DEF LeaseInv, Booked, AnyCall, CallState
      <4>2. QED
        <5>1. callState' = [callState EXCEPT ![c] = "running"]
          BY <2>2
        <5>2. \A d \in Call : d \in AnyCall
          BY DEF AnyCall
        <5>3. QED
          BY <4>1, <5>1, <5>2
    <3>2. QED
      BY <2>2, <3>1, SameLeases
  <2>3. QED
    BY <1>1, <2>1, <2>2 DEF Authorize, Finish, TimeOut, Settled
<1>2. CASE UNCHANGED gateVars
  BY <1>2, SameLeases DEF gateVars, LeaseInv, Booked
<1>3. QED
  BY <1>1, <1>2, AcquireKeepsLeaseInv, NestedKeepsLeaseInv DEF GateNext

\* In every reachable state the counters and the queue say what the calls are at.
LEMMA LeaseInvariant == GateSpec => []LeaseInv
  BY InitEstablishesLeaseInv, NextKeepsLeaseInv, PTL DEF GateSpec

--------------------------------------------------------------------------------
(* The chains.                                                                  *)

\* A chain holds the exclusive calls of its lease that have not ended, once each and
\* in the order they came; only the first of them may have begun, and one that has
\* begun is the first.
ChainInv ==
    /\ callState \in [AnyCall -> CallState]
    /\ chain \in [Call -> Seq(NestedCall)]
    /\ \A p \in Call : \A i, j \in 1..Len(chain[p]) : chain[p][i] = chain[p][j] => i = j
    /\ \A p \in Call : \A i \in 1..Len(chain[p]) :
           /\ ParentOf[chain[p][i]] = p /\ chain[p][i] \in Exclusive
           /\ callState[chain[p][i]] \in {"waiting", "authorizing", "running"}
           /\ i > 1 => callState[chain[p][i]] = "waiting"
    /\ \A n \in NestedCall :
           /\ callState[n] = "waiting" =>
                  \E i \in 1..Len(chain[ParentOf[n]]) : chain[ParentOf[n]][i] = n
           /\ n \in Exclusive /\ Underway(n) =>
                  chain[ParentOf[n]] # <<>> /\ Head(chain[ParentOf[n]]) = n

\* No nested call has joined a chain at first.
LEMMA InitEstablishesChainInv == GateInit => ChainInv
<1> SUFFICES ASSUME GateInit PROVE ChainInv
  OBVIOUS
<1>1. /\ callState \in [AnyCall -> CallState] /\ \A c \in AnyCall : callState[c] = "new"
      /\ chain \in [Call -> Seq(NestedCall)] /\ \A p \in Call : chain[p] = <<>>
  BY DEF GateInit, CallState
<1>2. QED
  BY <1>1 DEF ChainInv, Underway, AnyCall

\* Top-level calls come and go without the nested ones.
LEMMA SameChains ==
  ASSUME ChainInv, callState' \in [AnyCall -> CallState], UNCHANGED chain,
         \A n \in NestedCall : callState'[n] = callState[n]
  PROVE  ChainInv'
  BY DEF ChainInv, Underway

\* A step of one nested call that leaves the chains alone: it was no exclusive one, or
\* it goes on at the head of its chain.
LEMMA NestedGoesOn ==
  ASSUME ChainInv, NEW n \in NestedCall, NEW next \in CallState \ {"new", "waiting"},
         callState' = [callState EXCEPT ![n] = next], UNCHANGED chain,
         \/ n \notin Exclusive /\ callState[n] # "waiting"
         \/ /\ next \in {"authorizing", "running"}
            /\ chain[ParentOf[n]] # <<>> /\ Head(chain[ParentOf[n]]) = n
  PROVE  ChainInv'
<1>1. /\ callState' \in [AnyCall -> CallState]
      /\ \A m \in NestedCall : callState'[m] = IF m = n THEN next ELSE callState[m]
  BY DEF ChainInv, AnyCall
<1>2. \A p \in Call : chain[p] \in Seq(NestedCall)
  BY DEF ChainInv
<1>3. ASSUME NEW p \in Call, NEW i \in 1..Len(chain[p])
      PROVE  /\ callState'[chain[p][i]] \in {"waiting", "authorizing", "running"}
             /\ i > 1 => callState'[chain[p][i]] = "waiting"
  <2>1. CASE chain[p][i] # n
    <3>1. chain[p][i] \in NestedCall
      BY <1>2
    <3>2. callState'[chain[p][i]] = callState[chain[p][i]]
      BY <1>1, <2>1, <3>1
    <3>3. QED
      BY <3>2 DEF ChainInv
  <2>2. CASE chain[p][i] = n
    <3>1. n \in Exclusive /\ ParentOf[n] = p
      BY <2>2 DEF ChainInv
    <3>2. next \in {"authorizing", "running"} /\ chain[p][1] = n /\ 1 \in 1..Len(chain[p])
      BY <1>2, <3>1
    <3>3. i = 1
      BY <2>2, <3>2 DEF ChainInv
    <3>4. QED
      BY <1>1, <2>2, <3>2, <3>3
  <2>3. QED
    BY <2>1, <2>2
<1>4. ASSUME NEW m \in NestedCall
      PROVE  /\ callState'[m] = "waiting" =>
                    \E i \in 1..Len(chain[ParentOf[m]]) : chain[ParentOf[m]][i] = m
             /\ m \in Exclusive /\ Underway(m)' =>
                    chain[ParentOf[m]] # <<>> /\ Head(chain[ParentOf[m]]) = m
  <2>1. CASE m = n
    BY <1>1, <2>1 DEF Underway
  <2>2. CASE m # n
    BY <1>1, <2>2 DEF ChainInv, Underway
  <2>3. QED
    BY <2>1, <2>2
<1>5. QED
  <2>1. \A p \in Call : \A i, j \in 1..Len(chain[p]) : chain[p][i] = chain[p][j] => i = j
    BY DEF ChainInv
  <2>2. \A p \in Call : \A i \in 1..Len(chain[p]) :
           ParentOf[chain[p][i]] = p /\ chain[p][i] \in Exclusive
    BY DEF ChainInv
  <2>3. chain' = chain /\ chain \in [Call -> Seq(NestedCall)]
    BY DEF ChainInv
  <2>4. QED
    BY <1>1, <1>3, <1>4, <2>1, <2>2, <2>3 DEF ChainInv

\* An exclusive call made in a lease joins the end of its chain.
LEMMA RunNestedKeepsChainInv ==
  ASSUME ChainInv, NEW n \in NestedCall, RunNested(n)
  PROVE  ChainInv'
<1> DEFINE p == ParentOf[n]
<1>1. /\ callState[n] = "new" /\ p \in Call /\ n \in AnyCall
      /\ callState \in [AnyCall -> CallState] /\ chain \in [Call -> Seq(NestedCall)]
  BY DEF RunNested, ChainInv, AnyCall
<1>2. CASE n \notin Exclusive \/ p \notin Exclusive
  <2>1. PICK next \in {"authorizing", "refused"} :
          callState' = [callState EXCEPT ![n] = next] /\ UNCHANGED chain
          /\ (n \in Exclusive => next = "refused")
    BY <1>2 DEF RunNested
  <2>2. CASE n \notin Exclusive
    <3>1. next \in CallState \ {"new", "waiting"}
      BY DEF CallState
    <3>2. QED
      BY <1>1, <2>1, <2>2, <3>1, NestedGoesOn
  <2>3. CASE n \in Exclusive
    <3>1. /\ callState' \in [AnyCall -> CallState]
          /\ \A m \in NestedCall : callState'[m] = IF m = n THEN "refused" ELSE callState[m]
      BY <1>1, <2>1, <2>3 DEF CallState, AnyCall
    <3>2. \A q \in Call : \A i \in 1..Len(chain[q]) : chain[q][i] # n /\ chain[q][i] \in NestedCall
      <4>1. ASSUME NEW q \in Call, NEW i \in 1..Len(chain[q])
            PROVE  chain[q][i] # n /\ chain[q][i] \in NestedCall
        <5>1. chain[q] \in Seq(NestedCall)
          BY <1>1
        <5>2. chain[q][i] \in NestedCall
          BY <5>1, ElementOfSeq
        <5>3. callState[chain[q][i]] # "new"
          BY <4>1 DEF ChainInv, Underway
        <5>4. QED
          BY <1>1, <5>2, <5>3
      <4>2. QED
        BY <4>1
    <3>3. QED
      BY <2>1, <3>1, <3>2 DEF ChainInv, Underway
  <2>4. QED
    BY <2>2, <2>3
<1>3. CASE n \in Exclusive /\ p \in Exclusive
  <2> DEFINE old == chain[p]
             new == Append(old, n)
  <2>1. callState' = [callState EXCEPT ![n] = "waiting"] /\ chain' = [chain EXCEPT ![p] = new]
    BY <1>3 DEF RunNested
  <2>2. /\ old \in Seq(NestedCall) /\ new \in Seq(NestedCall)
        /\ Len(old) \in Nat /\ Len(new) = Len(old) + 1 /\ new[Len(old) + 1] = n
        /\ \A i \in 1..Len(old) : new[i] = old[i]
        /\ new # <<>> /\ (old # <<>> => Head(new) = Head(old))
    <3>1. old \in Seq(NestedCall)
      BY <1>1
    <3>2. QED
      <4> HIDE DEF old
      <4>1. QED
        BY <3>1
  <2>3. /\ callState' \in [AnyCall -> CallState] /\ chain' \in [Call -> Seq(NestedCall)]
        /\ \A m \in NestedCall : callState'[m] = IF m = n THEN "waiting" ELSE callState[m]
        /\ \A q \in Call : chain'[q] = IF q = p THEN new ELSE chain[q]
    BY <1>1, <2>1, <2>2 DEF CallState, AnyCall
  <2>4. \A q \in Call : \A i \in 1..Len(chain[q]) : chain[q][i] # n /\ chain[q][i] \in NestedCall
    <3> SUFFICES ASSUME NEW q \in Call, NEW i \in 1..Len(chain[q])
                 PROVE  chain[q][i] # n /\ chain[q][i] \in NestedCall
      OBVIOUS
    <3>1. callState[chain[q][i]] # "new"
      BY DEF ChainInv
    <3>2. QED
      BY <1>1, <3>1
  <2>5. ASSUME NEW i \in 1..Len(new), NEW j \in 1..Len(new), new[i] = new[j]
        PROVE  i = j
    <3>1. \A k, l \in 1..Len(old) : old[k] = old[l] => k = l
      BY <1>1 DEF ChainInv
    <3>2. \A k \in 1..Len(old) : old[k] # n
      BY <1>1, <2>4
    <3>3. QED
      BY <2>2, <2>5, <3>1, <3>2
  <2>6. ASSUME NEW i \in 1..Len(new)
        PROVE  /\ ParentOf[new[i]] = p /\ new[i] \in Exclusive
               /\ callState'[new[i]] \in {"waiting", "authorizing", "running"}
               /\ i > 1 => callState'[new[i]] = "waiting"
    <3>1. CASE i = Len(old) + 1
      BY <1>3, <2>2, <2>3, <3>1
    <3>2. CASE i \in 1..Len(old)
      <4>1. new[i] = old[i] /\ old[i] # n /\ old[i] \in NestedCall
        BY <1>1, <2>2, <2>4, <3>2
      <4>2. callState'[new[i]] = callState[old[i]]
        BY <2>3, <4>1
      <4>3. /\ ParentOf[old[i]] = p /\ old[i] \in Exclusive
            /\ callState[old[i]] \in {"waiting", "authorizing", "running"}
            /\ i > 1 => callState[old[i]] = "waiting"
        BY <1>1, <3>2 DEF ChainInv
      <4>4. QED
        BY <4>1, <4>2, <4>3
    <3>3. QED
      BY <2>2, <3>1, <3>2
  <2>7. ASSUME NEW q \in Call, NEW i \in 1..Len(chain'[q])
        PROVE  /\ \A j \in 1..Len(chain'[q]) : chain'[q][i] = chain'[q][j] => i = j
               /\ ParentOf[chain'[q][i]] = q /\ chain'[q][i] \in Exclusive
               /\ callState'[chain'[q][i]] \in {"waiting", "authorizing", "running"}
               /\ i > 1 => callState'[chain'[q][i]] = "waiting"
    <3>1. CASE q = p
      BY <2>3, <2>5, <2>6, <3>1
    <3>2. CASE q # p
      <4>1. chain'[q] = chain[q] /\ chain[q][i] # n /\ chain[q][i] \in NestedCall
        BY <2>3, <2>4, <3>2
      <4>2. callState'[chain[q][i]] = callState[chain[q][i]]
        BY <2>3, <4>1
      <4>3. QED
        BY <4>1, <4>2 DEF ChainInv
    <3>3. QED
      BY <3>1, <3>2
  <2>8. ASSUME NEW m \in NestedCall
        PROVE  /\ callState'[m] = "waiting" =>
                      \E i \in 1..Len(chain'[ParentOf[m]]) : chain'[ParentOf[m]][i] = m
               /\ m \in Exclusive /\ Underway(m)' =>
                      chain'[ParentOf[m]] # <<>> /\ Head(chain'[ParentOf[m]]) = m
    <3>1. CASE m = n
      <4>1. Len(old) + 1 \in 1..Len(new) /\ chain'[p] = new
        BY <1>1, <2>2, <2>3
      <4>2. QED
        BY <2>2, <2>3, <3>1, <4>1 DEF Underway
    <3>2. CASE m # n
      <4>1. /\ callState'[m] = callState[m] /\ ParentOf[m] \in Call
            /\ chain'[ParentOf[m]] = IF ParentOf[m] = p THEN new ELSE chain[ParentOf[m]]
        BY <2>3, <3>2
      <4>2. /\ callState[m] = "waiting" =>
                   \E i \in 1..Len(chain[ParentOf[m]]) : chain[ParentOf[m]][i] = m
            /\ m \in Exclusive /\ Underway(m) =>
                   chain[ParentOf[m]] # <<>> /\ Head(chain[ParentOf[m]]) = m
        BY DEF ChainInv
      <4>3. ASSUME NEW i \in 1..Len(chain[ParentOf[m]]), chain[ParentOf[m]][i] = m
            PROVE  \E j \in 1..Len(chain'[ParentOf[m]]) : chain'[ParentOf[m]][j] = m
        BY <2>2, <4>1, <4>3
      <4>4. Underway(m)' <=> Underway(m)
        BY <4>1 DEF Underway
      <4>5. QED
        BY <2>2, <4>1, <4>2, <4>3, <4>4
    <3>3. QED
      BY <3>1, <3>2
  <2>9. QED
    BY <2>3, <2>7, <2>8 DEF ChainInv
<1>4. QED
  BY <1>2, <1>3

\* The first call of a chain ends and the second may begin.
LEMMA SettleNestedKeepsChainInv ==
  ASSUME ChainInv, NEW n \in NestedCall, NEW last \in Settled, Underway(n),
         SettleNested(n, last)
  PROVE  ChainInv'
<1> DEFINE p == ParentOf[n]
           old == chain[p]
<1>1. /\ p \in Call /\ n \in AnyCall /\ last \in CallState \ {"new", "waiting"}
      /\ callState \in [AnyCall -> CallState] /\ chain \in [Call -> Seq(NestedCall)]
      /\ old \in Seq(NestedCall)
      /\ callState' = [callState EXCEPT ![n] = last]
      /\ chain' = [chain EXCEPT ![p] = Advanced(old, n)]
  BY DEF SettleNested, ChainInv, AnyCall, Settled, CallState
<1>2. CASE n \notin Exclusive
  <2>1. ~(old # <<>> /\ Head(old) = n)
    <3>1. ASSUME old # <<>>
          PROVE  Head(old) = old[1] /\ 1 \in 1..Len(old)
      BY <1>1, <3>1
    <3>2. QED
      BY <1>1, <1>2, <3>1 DEF ChainInv
  <2>2. UNCHANGED chain
    BY <1>1, <2>1 DEF Advanced
  <2>3. QED
    BY <1>1, <1>2, <2>2, NestedGoesOn DEF Underway
<1>3. CASE n \in Exclusive
  <2> DEFINE new == Tail(old)
  <2>1. old # <<>> /\ Head(old) = n
    BY <1>3 DEF ChainInv
  <2>2. /\ new \in Seq(NestedCall) /\ Len(old) \in Nat \ {0} /\ Len(new) = Len(old) - 1
        /\ \A i \in 1..Len(new) : new[i] = old[i + 1] /\ i + 1 \in 1..Len(old)
        /\ old[1] = n /\ 1 \in 1..Len(old)
    BY <1>1, <2>1
  <2>3. /\ callState' \in [AnyCall -> CallState] /\ chain' \in [Call -> Seq(NestedCall)]
        /\ \A m \in NestedCall : callState'[m] = IF m = n THEN last ELSE callState[m]
        /\ \A q \in Call : chain'[q] = IF q = p THEN new ELSE chain[q]
    BY <1>1, <2>1, <2>2 DEF Advanced, AnyCall
  <2>4. /\ \A k, l \in 1..Len(old) : old[k] = old[l] => k = l
        /\ \A k \in 1..Len(old) : /\ ParentOf[old[k]] = p /\ old[k] \in Exclusive
                                  /\ k > 1 => callState[old[k]] = "waiting"
                                  /\ old[k] \in NestedCall
    BY <1>1 DEF ChainInv
  <2>5. ASSUME NEW i \in 1..Len(new)
        PROVE  /\ \A j \in 1..Len(new) : new[i] = new[j] => i = j
               /\ ParentOf[new[i]] = p /\ new[i] \in Exclusive
               /\ callState'[new[i]] = "waiting"
    <3>1. ASSUME NEW j \in 1..Len(new), new[i] = new[j]
          PROVE  i = j
      <4>1. old[i + 1] = old[j + 1] /\ i + 1 \in 1..Len(old) /\ j + 1 \in 1..Len(old)
        BY <2>2, <3>1
      <4>2. i + 1 = j + 1
        BY <2>4, <4>1
      <4>3. QED
        BY <4>2
    <3>2. /\ i + 1 \in 1..Len(old) /\ i + 1 > 1 /\ i + 1 # 1 /\ new[i] = old[i + 1]
      BY <2>2
    <3>3. new[i] # n /\ new[i] \in NestedCall
      BY <2>2, <2>4, <3>2
    <3>4. QED
      BY <2>3, <2>4, <3>1, <3>2, <3>3
  <2>6. ASSUME NEW q \in Call, NEW i \in 1..Len(chain'[q])
        PROVE  /\ \A j \in 1..Len(chain'[q]) : chain'[q][i] = chain'[q][j] => i = j
               /\ ParentOf[chain'[q][i]] = q /\ chain'[q][i] \in Exclusive
               /\ callState'[chain'[q][i]] \in {"waiting", "authorizing", "running"}
               /\ i > 1 => callState'[chain'[q][i]] = "waiting"
    <3>1. CASE q = p
      BY <2>3, <2>5, <3>1
    <3>2. CASE q # p
      <4>1. chain'[q] = chain[q] /\ chain[q][i] \in NestedCall /\ ParentOf[chain[q][i]] = q
        BY <1>1, <2>3, <3>2 DEF ChainInv
      <4>2. callState'[chain[q][i]] = callState[chain[q][i]]
        BY <2>3, <3>2, <4>1
      <4>3. QED
        BY <4>1, <4>2 DEF ChainInv
    <3>3. QED
      BY <3>1, <3>2
  <2>7. ASSUME NEW m \in NestedCall
        PROVE  /\ callState'[m] = "waiting" =>
                      \E i \in 1..Len(chain'[ParentOf[m]]) : chain'[ParentOf[m]][i] = m
               /\ m \in Exclusive /\ Underway(m)' =>
                      chain'[ParentOf[m]] # <<>> /\ Head(chain'[ParentOf[m]]) = m
    <3>1. CASE m = n
      BY <2>3, <3>1 DEF Underway, Settled
    <3>2. CASE m # n
      <4>1. /\ callState'[m] = callState[m] /\ ParentOf[m] \in Call
            /\ chain'[ParentOf[m]] = IF ParentOf[m] = p THEN new ELSE chain[ParentOf[m]]
        BY <2>3, <3>2
      <4>2. /\ callState[m] = "waiting" =>
                   \E i \in 1..Len(chain[ParentOf[m]]) : chain[ParentOf[m]][i] = m
            /\ m \in Exclusive /\ Underway(m) =>
                   chain[ParentOf[m]] # <<>> /\ Head(chain[ParentOf[m]]) = m
        BY DEF ChainInv
      <4>3. ASSUME ParentOf[m] = p
            PROVE  ~(m \in Exclusive /\ Underway(m))
        BY <2>1, <3>2, <4>2, <4>3
      <4>4. ASSUME ParentOf[m] = p, NEW i \in 1..Len(old), old[i] = m
            PROVE  \E j \in 1..Len(new) : new[j] = m
        <5>1. i # 1
          BY <2>2, <3>2, <4>4
        <5>2. i - 1 \in 1..Len(new) /\ (i - 1) + 1 = i
          BY <2>2, <5>1
        <5>3. QED
          BY <2>2, <4>4, <5>2
      <4>5. Underway(m)' <=> Underway(m)
        BY <4>1 DEF Underway
      <4>6. CASE ParentOf[m] = p
        BY <4>1, <4>2, <4>3, <4>4, <4>5, <4>6
      <4>7. CASE ParentOf[m] # p
        BY <4>1, <4>2, <4>5, <4>7
      <4>8. QED
        BY <4>6, <4>7
    <3>3. QED
      BY <3>1, <3>2
  <2>8. QED
    BY <2>3, <2>6, <2>7 DEF ChainInv
<1>4. QED
  BY <1>2, <1>3

\* ChainInv is inductive relative to LeaseInv, which says what state a call may be in.
LEMMA NextKeepsChainInv ==
  ASSUME ChainInv, LeaseInv, LeaseInv', [GateNext]_gateVars
  PROVE  ChainInv'
<1>1. callState' \in [AnyCall -> CallState]
  BY DEF LeaseInv, Booked
<1>2. ASSUME NEW c \in Call, Acquire(c) \/ Authorize(c) \/ Finish(c) \/ TimeOut(c)
      PROVE  ChainInv'
  <2>1. UNCHANGED chain
    BY <1>2 DEF Acquire, Authorize, Finish, TimeOut, Release
  <2>2. ASSUME NEW last \in CallState, NEW queue, NEW shared, NEW exclusive,
               queue \in Seq(Call), Pump([callState EXCEPT ![c] = last], queue, shared, exclusive)
        PROVE  \A n \in NestedCall : callState'[n] = callState[n]
    <3>1. PICK k \in 0..Len(queue) : callState' = [d \in AnyCall |->
              IF d \in {queue[i] : i \in 1..k} THEN "authorizing"
              ELSE [callState EXCEPT ![c] = last][d]]
      BY <2>2, Zenon DEF Pump
    <3>2. {queue[i] : i \in 1..k} \subseteq Call
      BY <2>2
    <3>3. \A n \in NestedCall : n \notin Call /\ n \in AnyCall
      BY DEF AnyCall
    <3>4. QED
      BY <3>1, <3>2, <3>3 DEF ChainInv
  <2>3. waiting \in Seq(Call) /\ Append(waiting, c) \in Seq(Call)
    BY DEF LeaseInv, Booked, Lines
  <2>4. /\ {"waiting", "authorizing", "running", "done", "refused"} \subseteq CallState
        /\ \A n \in NestedCall : n # c
    BY DEF CallState
  <2>5. CASE \E next \in CallState : callState' = [callState EXCEPT ![c] = next]
    <3>1. callState \in [AnyCall -> CallState] /\ \A n \in NestedCall : n \in AnyCall
      BY DEF ChainInv, AnyCall
    <3>2. PICK next \in CallState : callState' = [callState EXCEPT ![c] = next]
      BY <2>5
    <3>3. callState' \in [AnyCall -> CallState]
      BY <3>1, <3>2
    <3>4. \A n \in NestedCall : n # c
      BY <2>4
    <3>5. \A n \in NestedCall : callState'[n] = callState[n]
      BY <3>1, <3>2, <3>4
    <3>6. QED
      BY <2>1, <3>3, <3>5, SameChains
  <2>6. CASE \E last \in CallState : Release(c, last)
    BY <1>1, <2>1, <2>2, <2>3, <2>6, SameChains DEF Release
  <2>7. CASE Pump([callState EXCEPT ![c] = "waiting"], Append(waiting, c), activeShared,
                  activeExclusive)
    BY <1>1, <2>1, <2>2, <2>3, <2>4, <2>7, SameChains
  <2>8. QED
    BY <1>2, <2>4, <2>5, <2>6, <2>7 DEF Acquire, Authorize, Finish, TimeOut
<1>3. ASSUME NEW n \in NestedCall, AdvanceChain(n)
      PROVE  ChainInv'
  <2>1. /\ callState[n] = "waiting" /\ chain[ParentOf[n]][1] = n
        /\ callState' = [callState EXCEPT ![n] = "authorizing"] /\ UNCHANGED chain
    BY <1>3 DEF AdvanceChain
  <2>2. chain[ParentOf[n]] # <<>> /\ Head(chain[ParentOf[n]]) = n
    <3>1. ParentOf[n] \in Call /\ chain[ParentOf[n]] \in Seq(NestedCall)
      BY DEF ChainInv
    <3>2. \E i \in 1..Len(chain[ParentOf[n]]) : chain[ParentOf[n]][i] = n
      BY <2>1 DEF ChainInv
    <3>3. QED
      BY <2>1, <3>1, <3>2
  <2>3. QED
    BY <2>1, <2>2, NestedGoesOn DEF CallState
<1>4. ASSUME NEW n \in NestedCall, AuthorizeNested(n) \/ FinishNested(n)
      PROVE  ChainInv'
  <2>1. Underway(n) /\ {"refused", "done"} \subseteq Settled
    BY <1>4 DEF AuthorizeNested, FinishNested, Underway, Settled
  <2>2. CASE SettleNested(n, "refused") \/ SettleNested(n, "done")
    BY <2>1, <2>2, SettleNestedKeepsChainInv
  <2>3. CASE callState' = [callState EXCEPT ![n] = "running"] /\ UNCHANGED chain
    <3>1. \/ n \notin Exclusive /\ callState[n] # "waiting"
          \/ chain[ParentOf[n]] # <<>> /\ Head(chain[ParentOf[n]]) = n
      BY <2>1 DEF ChainInv, Underway
    <3>2. QED
      BY <2>3, <3>1, NestedGoesOn DEF CallState
  <2>4. QED
    BY <1>4, <2>2, <2>3 DEF AuthorizeNested, FinishNested
<1>5. CASE UNCHANGED gateVars
  BY <1>1, <1>5, SameChains DEF gateVars
<1>6. QED
  BY <1>2, <1>3, <1>4, <1>5, RunNestedKeepsChainInv DEF GateNext

\* In every reachable state a nested exclusive call that has begun is the first of the
\* chain of its lease.
LEMMA ChainInvariant == GateSpec => []ChainInv
<1>1. LeaseInv /\ LeaseInv' /\ ChainInv /\ [GateNext]_gateVars => ChainInv'
  BY NextKeepsChainInv
<1>2. QED
  BY <1>1, InitEstablishesChainInv, LeaseInvariant, PTL DEF GateSpec

--------------------------------------------------------------------------------
(* The results.                                                                 *)

\* The gate's memory is one, for any calls and lanes: an exclusive lease is the only
\* one, the counters say which leases are out, what runs inside an exclusive lease
\* runs one after the other, and whoever is first in the queue could not have its
\* lease yet.
THEOREM GateIsConsistent == GateSpec => []LeasesAreConsistent
<1>1. LeaseInv /\ ChainInv => LeasesAreConsistent
  <2> SUFFICES ASSUME LeaseInv, ChainInv PROVE LeasesAreConsistent
    OBVIOUS
  <2>1. GateTypeOK
    BY DEF LeaseInv, ChainInv, GateTypeOK, Booked, Lines, Counts
  <2>2. LeasesExclude
    BY LeasedAreHolders DEF LeasesExclude, LeasedShared, LeaseInv, Booked, Counts
  <2>3. NestedRunSerially
    BY DEF NestedRunSerially, ChainInv
  <2>4. QED
    BY <2>1, <2>2, <2>3 DEF LeasesAreConsistent, LanesExclude, LeaseInv
<1>2. QED
  BY <1>1, LeaseInvariant, ChainInvariant, PTL

\* Leases are granted in the order of arrival: nobody gets one past a call that was
\* waiting before it and still is.
THEOREM LeasesAreGrantedInOrder == GateSpec => FirstComeFirstServed
<1>1. ASSUME LeaseInv, [GateNext]_gateVars, NEW c \in Call, NEW d \in Call,
             c \in Leased' \ Leased, callState[d] = "waiting", callState'[d] = "waiting"
      PROVE  \E i, j \in 1..Len(waiting) : waiting[i] = c /\ waiting[j] = d /\ i < j
  <2>1. /\ callState \in [AnyCall -> CallState] /\ waiting \in Seq(Call)
        /\ \A i, j \in 1..Len(waiting) : waiting[i] = waiting[j] => i = j
        /\ \A e \in Call : callState[e] = "waiting" <=> \E i \in 1..Len(waiting) : waiting[i] = e
        /\ c \in AnyCall /\ d \in AnyCall
    BY <1>1 DEF LeaseInv, Booked, Lines, AnyCall
  <2>2. /\ callState'[c] \in {"authorizing", "running"}
        /\ callState[c] \notin {"authorizing", "running"}
    BY <1>1 DEF Leased
  <2>3. PICK j \in 1..Len(waiting) : waiting[j] = d
    BY <1>1, <2>1
  <2>4. ASSUME NEW e \in Call, NEW last \in Settled \cup {"waiting"}, NEW queue, NEW shared,
               NEW exclusive,
               \A i \in 1..Len(waiting) : queue[i] = waiting[i],
               queue \in Seq(Call), Len(waiting) <= Len(queue),
               Pump([callState EXCEPT ![e] = last], queue, shared, exclusive)
        PROVE  \E i \in 1..Len(waiting) : waiting[i] = c /\ i < j
    <3>1. PICK k \in 0..Len(queue) : callState' = [x \in AnyCall |->
              IF x \in {queue[i] : i \in 1..k} THEN "authorizing"
              ELSE [callState EXCEPT ![e] = last][x]]
      BY <2>4, Zenon DEF Pump
    <3>2. c \in {queue[i] : i \in 1..k}
      <4>1. ASSUME c \notin {queue[i] : i \in 1..k}
            PROVE  callState'[c] = IF c = e THEN last ELSE callState[c]
        BY <2>1, <3>1, <4>1
      <4>2. QED
        BY <2>2, <4>1 DEF Settled
    <3>3. PICK i \in 1..k : queue[i] = c
      BY <3>2
    <3>4. j \notin 1..k
      <4>1. ASSUME j \in 1..k
            PROVE  d \in {queue[l] : l \in 1..k}
        BY <2>3, <2>4, <4>1
      <4>2. QED
        BY <1>1, <2>1, <3>1, <4>1
    <3>5. i < j /\ i \in 1..Len(waiting)
      BY <2>1, <2>4, <3>4
    <3>6. QED
      BY <2>4, <3>3, <3>5
  <2>5. ASSUME NEW e \in Call, Authorize(e) \/ Finish(e) \/ TimeOut(e)
        PROVE  \E i \in 1..Len(waiting) : waiting[i] = c /\ i < j
    <3>1. CASE \E last \in Settled : Release(e, last)
      <4>1. PICK last \in Settled : Release(e, last)
        BY <3>1
      <4>2. \E shared, exclusive :
               Pump([callState EXCEPT ![e] = last], waiting, shared, exclusive)
        BY <4>1, Zenon DEF Release
      <4>3. Len(waiting) <= Len(waiting) /\ last \in Settled \cup {"waiting"}
        BY <2>1
      <4>4. QED
        BY <2>1, <2>4, <4>2, <4>3
    <3>2. CASE callState[e] = "authorizing" /\ callState' = [callState EXCEPT ![e] = "running"]
      BY <2>1, <2>2, <3>2
    <3>3. QED
      BY <2>5, <3>1, <3>2 DEF Authorize, Finish, TimeOut, Settled
  <2>6. ASSUME NEW e \in Call, Acquire(e)
        PROVE  \E i \in 1..Len(waiting) : waiting[i] = c /\ i < j
    <3>1. ~AcquiresAtOnce(e)
      BY <2>1, <2>3 DEF AcquiresAtOnce
    <3>2. Pump([callState EXCEPT ![e] = "waiting"], Append(waiting, e), activeShared,
               activeExclusive)
      BY <2>6, <3>1 DEF Acquire
    <3>3. /\ Append(waiting, e) \in Seq(Call) /\ Len(waiting) <= Len(Append(waiting, e))
          /\ \A i \in 1..Len(waiting) : Append(waiting, e)[i] = waiting[i]
      BY <2>1
    <3>4. QED
      BY <2>4, <3>2, <3>3
  <2>7. ASSUME NEW n \in NestedCall,
               RunNested(n) \/ AdvanceChain(n) \/ AuthorizeNested(n) \/ FinishNested(n)
        PROVE  FALSE
    <3>1. \E next \in CallState : callState' = [callState EXCEPT ![n] = next]
      BY <2>7 DEF RunNested, AdvanceChain, AuthorizeNested, FinishNested, SettleNested, CallState
    <3>2. callState'[c] = callState[c]
      BY <2>1, <3>1
    <3>3. QED
      BY <2>2, <3>2
  <2>8. ~UNCHANGED gateVars
    BY <2>2 DEF gateVars
  <2>9. QED
    BY <1>1, <2>3, <2>5, <2>6, <2>7, <2>8 DEF GateNext
<1>2. LeaseInv /\ [GateNext]_gateVars =>
        [\A c, d \in Call :
           /\ c \in Leased' \ Leased
           /\ callState[d] = "waiting" /\ callState'[d] = "waiting"
           => \E i, j \in 1..Len(waiting) : waiting[i] = c /\ waiting[j] = d /\ i < j]_gateVars
  BY <1>1
<1>3. QED
  BY <1>2, LeaseInvariant, PTL DEF GateSpec, FirstComeFirstServed
--------------------------------------------------------------------------------
(* The contract: every pump settles the abstract queue.                         *)

InQueue(queue) == {queue[i] : i \in 1..Len(queue)}

\* Who is before whom in a queue.
Before(queue) ==
    [c \in Call |-> {d \in Call : \E i, j \in 1..Len(queue) :
                                     i < j /\ queue[i] = d /\ queue[j] = c}]

\* The calls a pump lets in are those that nobody who holds a lease, and nobody before
\* them, is in the way of: an exclusive one at the front when no lease is out, or the
\* shared ones at the front when no exclusive lease is.
LEMMA GrantedAreAdmissible ==
  ASSUME NEW states, NEW queue, NEW shared, NEW exclusive,
         Booked(states, queue, shared, exclusive),
         NEW k \in 0..Len(queue), IsPumped(queue, shared, exclusive, k), NEW order,
         \A c \in InQueue(queue) : order[c] \cap InQueue(queue) = Before(queue)[c]
  PROVE  {queue[i] : i \in 1..k} = Admission!Admissible(InQueue(queue), order, Holders(states))
<1> DEFINE held == Holders(states)
           Free(i) == /\ held \cap Exclusive = {}
                      /\ \A j \in 1..(i - 1) : queue[j] \notin Exclusive
                      /\ queue[i] \in Exclusive => held = {} /\ i = 1
<1>1. /\ queue \in Seq(Call) /\ Len(queue) \in Nat /\ k \in Nat
      /\ \A i, j \in 1..Len(queue) : queue[i] = queue[j] => i = j
      /\ \A i \in 1..Len(queue) : queue[i] \in Call /\ states[queue[i]] = "waiting"
      /\ held \subseteq Call
  BY DEF Booked, Lines, Holders
<1>2. \A i \in 1..Len(queue) : queue[i] \notin held
  BY <1>1 DEF Holders
<1>3. /\ exclusive <=> held \cap Exclusive # {}
      /\ shared = 0 <=> held \ Exclusive = {}
  <2>1. shared = 0 <=> held \ Exclusive = {}
    <3>1. shared = Cardinality(held \ Exclusive) /\ IsFiniteSet(held \ Exclusive)
      BY HoldersAreFinite DEF Booked, Counts
    <3> HIDE DEF held
    <3>2. QED
      BY <3>1, FS_EmptySet
  <2>2. QED
    BY <2>1 DEF Booked, Counts
<1>4. ASSUME NEW i \in 1..Len(queue)
      PROVE  queue[i] \in Admission!Admissible(InQueue(queue), order, held) <=> Free(i)
  <2>1. InQueue(queue) \cap order[queue[i]] = {queue[j] : j \in 1..(i - 1)}
    <3>1. queue[i] \in InQueue(queue)
      BY DEF InQueue
    <3>2. Before(queue)[queue[i]] = {queue[j] : j \in 1..(i - 1)}
      BY <1>1 DEF Before
    <3>3. QED
      BY <3>1, <3>2
  <2>2. ASSUME NEW u \in held
        PROVE  <<queue[i], u>> \notin Clashes <=> queue[i] \notin Exclusive /\ u \notin Exclusive
    BY <1>1, <1>2 DEF Clashes
  <2>3. ASSUME NEW j \in 1..(i - 1)
        PROVE  <<queue[i], queue[j]>> \notin Clashes <=>
                 queue[i] \notin Exclusive /\ queue[j] \notin Exclusive
    <3>1. j \in 1..Len(queue) /\ j # i
      BY <1>1
    <3>2. queue[i] # queue[j] /\ queue[i] \in Call /\ queue[j] \in Call
      BY <1>1, <3>1
    <3>3. QED
      BY <3>2 DEF Clashes
  <2>4. queue[i] \in InQueue(queue)
    BY DEF InQueue
  <2> DEFINE pre == {queue[j] : j \in 1..(i - 1)}
  <2>5. queue[i] \in Admission!Admissible(InQueue(queue), order, held) <=>
          /\ \A u \in held : <<queue[i], u>> \notin Clashes
          /\ \A u \in pre : <<queue[i], u>> \notin Clashes
    <3> HIDE DEF held, pre
    <3>1. QED
      BY <2>1, <2>4 DEF Admission!Admissible, pre
  <2>6. (\A u \in pre : <<queue[i], u>> \notin Clashes) <=>
          \A j \in 1..(i - 1) : queue[i] \notin Exclusive /\ queue[j] \notin Exclusive
    BY <2>3
  <2>7. (\A u \in held : <<queue[i], u>> \notin Clashes) <=>
          (held \cap Exclusive = {} /\ (queue[i] \in Exclusive => held = {}))
    <3> HIDE DEF held
    <3>1. QED
      BY <2>2
  <2>8. queue[i] \in Exclusive =>
          ((\A j \in 1..(i - 1) : queue[i] \notin Exclusive) <=> i = 1)
    <3>1. i > 1 => 1 \in 1..(i - 1)
      OBVIOUS
    <3>2. QED
      BY <3>1
  <2> HIDE DEF held, pre
  <2>9. QED
    BY <2>5, <2>6, <2>7, <2>8
<1> HIDE DEF held
<1>5. ASSUME NEW i \in 1..Len(queue)
      PROVE  i \in 1..k <=> Free(i)
  <2>1. CASE k = 0
    <3>1. 1 \in 1..Len(queue) /\ queue # <<>> /\ ~CanAcquire(queue[1], shared, exclusive)
      BY <1>1, <2>1 DEF IsPumped
    <3>2. CASE exclusive
      BY <1>3, <2>1, <3>2
    <3>3. CASE ~exclusive /\ queue[1] \in Exclusive /\ shared # 0
      <4>1. held # {}
        BY <1>3, <3>3
      <4>2. i = 1 \/ 1 \in 1..(i - 1)
        BY <1>1
      <4>3. QED
        BY <2>1, <3>3, <4>1, <4>2
    <3>4. QED
      BY <3>1, <3>2, <3>3 DEF CanAcquire
  <2>2. CASE k > 0 /\ queue[1] \in Exclusive
    <3>1. k = 1 /\ ~exclusive /\ shared = 0
      BY <1>1, <2>2 DEF IsPumped, CanAcquire
    <3>2. held = {}
      BY <1>3, <3>1
    <3>3. i = 1 \/ 1 \in 1..(i - 1)
      BY <1>1
    <3>4. QED
      BY <2>2, <3>1, <3>2, <3>3
  <2>3. CASE k > 0 /\ queue[1] \notin Exclusive
    <3>1. /\ held \cap Exclusive = {}
          /\ \A j \in 1..k : queue[j] \notin Exclusive
          /\ k < Len(queue) => queue[k + 1] \in Exclusive
      BY <1>1, <1>3, <2>3 DEF IsPumped, CanAcquire
    <3>2. CASE i \in 1..k
      <4>1. \A j \in 1..(i - 1) : j \in 1..k
        BY <1>1, <3>2
      <4>2. QED
        BY <3>1, <3>2, <4>1
    <3>3. CASE i = k + 1
      BY <1>1, <2>3, <3>1, <3>3
    <3>4. CASE i > k + 1
      <4>1. k + 1 \in 1..(i - 1) /\ queue[k + 1] \in Exclusive
        BY <1>1, <3>1, <3>4
      <4>2. QED
        BY <1>1, <3>4, <4>1
    <3>5. QED
      BY <1>1, <3>2, <3>3, <3>4
  <2>4. QED
    BY <1>1, <2>1, <2>2, <2>3
<1> HIDE DEF Free
<1>6. Admission!Admissible(InQueue(queue), order, held) \subseteq InQueue(queue)
  BY DEF Admission!Admissible
<1>7. QED
  <2>1. \A i \in 1..k : i \in 1..Len(queue)
    BY <1>1
  <2>2. QED
    BY <1>4, <1>5, <1>6, <2>1 DEF InQueue, held

\* A pump is a settling of the queue.
LEMMA PumpSettles ==
  ASSUME NEW states, NEW queue, NEW shared, NEW exclusive,
         Booked(states, queue, shared, exclusive),
         Pump(states, queue, shared, exclusive), NEW order,
         \A c \in InQueue(queue) : order[c] \cap InQueue(queue) = Before(queue)[c]
  PROVE  Admission!Settle(InQueue(queue), order, Holders(states))
<1>1. PICK k \in 0..Len(queue) :
        /\ IsPumped(queue, shared, exclusive, k)
        /\ waiting' = SubSeq(queue, k + 1, Len(queue))
        /\ callState' = [c \in AnyCall |->
                            IF c \in {queue[i] : i \in 1..k} THEN "authorizing" ELSE states[c]]
  BY Zenon DEF Pump
<1> DEFINE granted == {queue[i] : i \in 1..k}
           rest == InQueue(queue) \ granted
<1>2. /\ queue \in Seq(Call) /\ Len(queue) \in Nat /\ k \in Nat
      /\ \A i, j \in 1..Len(queue) : queue[i] = queue[j] => i = j
      /\ \A c \in Call : states[c] = "waiting" <=> c \in InQueue(queue)
      /\ \A i \in 1..Len(queue) : queue[i] \in Call
  BY DEF Booked, Lines, InQueue
<1>3. granted = Admission!Admissible(InQueue(queue), order, Holders(states))
  BY <1>1, GrantedAreAdmissible
<1>4. /\ granted \subseteq InQueue(queue) /\ InQueue(queue) \subseteq Call
      /\ \A c \in Call : callState'[c] = IF c \in granted THEN "authorizing" ELSE states[c]
  <2>1. \A i \in 1..k : i \in 1..Len(queue)
    BY <1>2
  <2>2. QED
    BY <1>1, <1>2, <2>1 DEF InQueue, AnyCall
<1>5. Waits' = rest /\ Leased' = Holders(states) \cup granted
  <2> HIDE DEF granted
  <2>1. QED
    BY <1>2, <1>4 DEF Waits, Leased, Holders
<1>6. /\ Len(waiting') = Len(queue) - k
      /\ \A i \in 1..(Len(queue) - k) : waiting'[i] = queue[k + i]
  BY <1>1, <1>2, RestOfQueue
<1>7. ASSUME NEW c \in Call
      PROVE  {d \in Call : \E i, j \in 1..Len(waiting') :
                              i < j /\ waiting'[i] = d /\ waiting'[j] = c}
               = IF c \in rest THEN order[c] \cap rest ELSE {}
  <2> DEFINE ahead == {d \in Call : \E i, j \in 1..Len(waiting') :
                                      i < j /\ waiting'[i] = d /\ waiting'[j] = c}
  <2>1. ASSUME NEW m \in 1..Len(waiting')
        PROVE  /\ k + m \in 1..Len(queue) /\ waiting'[m] = queue[k + m]
               /\ waiting'[m] \in rest
    <3>1. k + m \in 1..Len(queue) /\ waiting'[m] = queue[k + m] /\ k + m \notin 1..k
      BY <1>2, <1>6
    <3>2. queue[k + m] \notin granted
      BY <1>2, <3>1
    <3>3. QED
      BY <3>1, <3>2 DEF InQueue
  <2>2. ASSUME NEW d \in rest
        PROVE  \E m \in 1..Len(waiting') : waiting'[m] = d
    <3>1. PICK i \in 1..Len(queue) : queue[i] = d
      BY DEF InQueue
    <3>2. i \notin 1..k
      BY <3>1
    <3>3. i - k \in 1..Len(waiting') /\ k + (i - k) = i
      BY <1>2, <1>6, <3>2
    <3>4. QED
      BY <1>6, <3>1, <3>3
  <2>3. CASE c \notin rest
    BY <2>1, <2>3
  <2>4. CASE c \in rest
    <3>1. PICK m \in 1..Len(waiting') : waiting'[m] = c
      BY <2>2, <2>4
    <3>2. ASSUME NEW d \in Call
          PROVE  d \in ahead <=> d \in rest /\ d \in Before(queue)[c]
      <4>1. ASSUME d \in ahead
            PROVE  d \in rest /\ d \in Before(queue)[c]
        <5>1. PICK i \in 1..Len(waiting'), j \in 1..Len(waiting') :
                i < j /\ waiting'[i] = d /\ waiting'[j] = c
          BY <4>1
        <5>2. /\ k + i \in 1..Len(queue) /\ k + j \in 1..Len(queue) /\ k + i < k + j
              /\ queue[k + i] = d /\ queue[k + j] = c /\ d \in rest
          BY <1>2, <2>1, <5>1
        <5>3. QED
          BY <5>2 DEF Before
      <4>2. ASSUME d \in rest, d \in Before(queue)[c]
            PROVE  d \in ahead
        <5>1. PICK i \in 1..Len(queue), j \in 1..Len(queue) :
                i < j /\ queue[i] = d /\ queue[j] = c
          BY <4>2 DEF Before
        <5>2. PICK l \in 1..Len(waiting') : waiting'[l] = d
          BY <2>2, <4>2
        <5>3. /\ k + l \in 1..Len(queue) /\ queue[k + l] = d
              /\ k + m \in 1..Len(queue) /\ queue[k + m] = c
          BY <2>1, <3>1, <5>2
        <5>4. i = k + l /\ j = k + m
          BY <1>2, <5>1, <5>3
        <5>5. l < m
          BY <1>2, <1>6, <5>1, <5>4
        <5>6. QED
          BY <3>1, <5>2, <5>5
      <4>3. QED
        BY <4>1, <4>2
    <3>3. rest \subseteq Call /\ rest \subseteq InQueue(queue)
      BY <1>4
    <3>4. order[c] \cap InQueue(queue) = Before(queue)[c]
      BY <2>4, <3>3
    <3> HIDE DEF ahead, rest
    <3>5. ahead = order[c] \cap rest
      <4>1. ahead \subseteq Call
        BY DEF ahead
      <4>2. QED
        BY <3>2, <3>3, <3>4, <4>1
    <3>6. QED
      BY <2>4, <3>5 DEF ahead
  <2>5. QED
    BY <2>3, <2>4
<1>8. WaitsBefore' = [c \in Call |-> IF c \in rest THEN order[c] \cap rest ELSE {}]
  BY <1>7 DEF WaitsBefore
<1> HIDE DEF granted
<1>9. QED
  BY <1>3, <1>5, <1>8 DEF Admission!Settle

\* What the model says of the queue, in the words of the contract.
LEMMA WaitsAreQueued ==
  ASSUME LeaseInv
  PROVE  /\ Waits = InQueue(waiting) /\ WaitsBefore = Before(waiting)
         /\ Leased = Holders(callState) /\ Waits \cap Leased = {}
         /\ \A c \in Waits : WaitsBefore[c] \subseteq Waits
<1>1. Waits = InQueue(waiting)
  BY DEF LeaseInv, Booked, Lines, Waits, InQueue
<1>2. WaitsBefore = Before(waiting)
  BY DEF WaitsBefore, Before
<1>3. \A c \in Waits : WaitsBefore[c] \subseteq Waits
  BY <1>1, <1>2 DEF Before, InQueue, Waits
<1>4. QED
  BY <1>1, <1>2, <1>3, LeasedAreHolders DEF Waits, Leased

\* A call that asks for its lease is a task that comes.
LEMMA AcquireComes ==
  ASSUME NEW c \in Call, LeaseInv, Acquire(c)
  PROVE  Admission!Come(c)
<1> DEFINE order == [WaitsBefore EXCEPT ![c] = Waits]
<1>1. /\ callState[c] = "new" /\ c \notin Waits \cup Leased
      /\ callState \in [AnyCall -> CallState] /\ c \in AnyCall
      /\ waiting \in Seq(Call)
  BY DEF Acquire, Waits, Leased, LeaseInv, Booked, Lines, AnyCall
<1>2. \A d \in Call : order[d] = IF d = c THEN Waits ELSE WaitsBefore[d]
  BY DEF WaitsBefore
<1>3. /\ Waits = InQueue(waiting) /\ WaitsBefore = Before(waiting)
      /\ Leased = Holders(callState)
      /\ \A d \in Waits : WaitsBefore[d] \subseteq Waits
  BY WaitsAreQueued
<1> HIDE DEF order
<1>4. CASE AcquiresAtOnce(c)
  <2>1. /\ waiting = <<>> /\ ~activeExclusive /\ (c \in Exclusive => activeShared = 0)
        /\ callState' = [callState EXCEPT ![c] = "authorizing"]
        /\ waiting' = waiting
    BY <1>4 DEF Acquire, AcquiresAtOnce, CanAcquire
  <2>2. Waits = {} /\ WaitsBefore = [d \in Call |-> {}]
    BY <1>3, <2>1 DEF InQueue, Before
  <2>3. /\ Waits' = {} /\ WaitsBefore' = [d \in Call |-> {}]
        /\ Leased' = Leased \cup {c}
    <3>1. \A d \in Call : callState'[d] = IF d = c THEN "authorizing" ELSE callState[d]
      BY <1>1, <2>1 DEF AnyCall
    <3>2. Waits' = {} /\ Leased' = Leased \cup {c}
      BY <2>2, <3>1 DEF Waits, Leased
    <3>3. WaitsBefore' = [d \in Call |-> {}]
      BY <2>1 DEF WaitsBefore
    <3>4. QED
      BY <3>2, <3>3
  <2>4. Admission!Admissible({c}, order, Leased) = {c}
    <3>1. Leased \cap Exclusive = {} /\ (c \in Exclusive => Leased = {})
      <4>1. Leased \cap Exclusive = {}
        BY <1>3, <2>1 DEF LeaseInv, Booked, Counts
      <4>2. c \in Exclusive => Leased \ Exclusive = {}
        BY <1>3, <2>1, HoldersAreFinite, FS_EmptySet DEF LeaseInv, Booked, Counts
      <4>3. QED
        BY <4>1, <4>2
    <3>2. \A u \in Leased : <<c, u>> \notin Clashes
      BY <3>1 DEF Clashes
    <3>3. {c} \cap order[c] = {}
      BY <1>2, <2>2
    <3>4. QED
      BY <3>2, <3>3 DEF Admission!Admissible
  <2>5. Admission!Settle(Waits \cup {c}, order, Leased)
    <3>1. Waits \cup {c} = {c} /\ {c} \ {c} = {}
      BY <2>2
    <3>2. QED
      BY <2>3, <2>4, <3>1 DEF Admission!Settle
  <2>6. QED
    BY <1>1, <2>5 DEF Admission!Come, order
<1>5. CASE ~AcquiresAtOnce(c)
  <2> DEFINE states == [callState EXCEPT ![c] = "waiting"]
             queue == Append(waiting, c)
  <2>1. Booked(states, queue, activeShared, activeExclusive)
        /\ Pump(states, queue, activeShared, activeExclusive)
    BY <1>1, <1>5, JoiningTheQueue DEF Acquire
  <2>2. /\ Len(queue) = Len(waiting) + 1 /\ queue[Len(waiting) + 1] = c
        /\ \A i \in 1..Len(waiting) : queue[i] = waiting[i] /\ waiting[i] # c
        /\ Len(waiting) \in Nat
    <3>1. \A i \in 1..Len(waiting) : waiting[i] # c
      BY <1>1, <1>3 DEF InQueue
    <3>2. QED
      BY <1>1, <3>1
  <2>3. Holders(states) = Leased
    BY <1>1, <1>3 DEF Holders, AnyCall
  <2> HIDE DEF states, queue
  <2>4. InQueue(queue) = Waits \cup {c}
    <3>1. \A i \in 1..Len(queue) : i = Len(waiting) + 1 \/ i \in 1..Len(waiting)
      BY <2>2
    <3>2. \A i \in 1..Len(waiting) : i \in 1..Len(queue)
      BY <2>2
    <3>3. Len(waiting) + 1 \in 1..Len(queue)
      BY <2>2
    <3>4. QED
      BY <1>3, <2>2, <3>1, <3>2, <3>3 DEF InQueue
  <2>5. ASSUME NEW d \in InQueue(queue)
        PROVE  order[d] \cap InQueue(queue) = Before(queue)[d]
    <3>1. d \in Call /\ InQueue(queue) \subseteq Call
      BY <2>4 DEF Waits
    <3>2. CASE d = c
      <4>1. Before(queue)[c] = Waits
        <5>1. ASSUME NEW e \in Call, NEW i \in 1..Len(queue), NEW j \in 1..Len(queue),
                     i < j, queue[i] = e, queue[j] = c
              PROVE  e \in Waits
          <6>1. i \in 1..Len(waiting)
            BY <2>2, <5>1
          <6>2. QED
            BY <1>3, <2>2, <5>1, <6>1 DEF InQueue
        <5>2. ASSUME NEW e \in Waits
              PROVE  \E i, j \in 1..Len(queue) : i < j /\ queue[i] = e /\ queue[j] = c
          <6>1. PICK i \in 1..Len(waiting) : waiting[i] = e
            BY <1>3 DEF InQueue
          <6>2. /\ i \in 1..Len(queue) /\ Len(waiting) + 1 \in 1..Len(queue)
                /\ i < Len(waiting) + 1 /\ queue[i] = e
            BY <2>2, <6>1
          <6>3. QED
            BY <2>2, <6>2
        <5>3. QED
          BY <5>1, <5>2 DEF Before, Waits
      <4>2. QED
        BY <1>2, <2>4, <3>2, <4>1
    <3>3. CASE d # c
      <4>1. d \in Waits
        BY <2>4, <3>3
      <4>2. ASSUME NEW e \in Call
            PROVE  (\E i, j \in 1..Len(queue) : i < j /\ queue[i] = e /\ queue[j] = d) <=>
                   (\E i, j \in 1..Len(waiting) : i < j /\ waiting[i] = e /\ waiting[j] = d)
        <5>1. ASSUME NEW i \in 1..Len(queue), NEW j \in 1..Len(queue),
                     i < j, queue[i] = e, queue[j] = d
              PROVE  \E m, n \in 1..Len(waiting) : m < n /\ waiting[m] = e /\ waiting[n] = d
          <6>1. i \in 1..Len(waiting) /\ j \in 1..Len(waiting)
            BY <2>2, <3>3, <5>1
          <6>2. QED
            BY <2>2, <5>1, <6>1
        <5>2. ASSUME NEW i \in 1..Len(waiting), NEW j \in 1..Len(waiting),
                     i < j, waiting[i] = e, waiting[j] = d
              PROVE  \E m, n \in 1..Len(queue) : m < n /\ queue[m] = e /\ queue[n] = d
          <6>1. i \in 1..Len(queue) /\ j \in 1..Len(queue)
            BY <2>2
          <6>2. QED
            BY <2>2, <5>2, <6>1
        <5>3. QED
          BY <5>1, <5>2
      <4>3. Before(queue)[d] = WaitsBefore[d]
        BY <3>1, <4>2 DEF Before, WaitsBefore
      <4>4. QED
        BY <1>2, <1>3, <2>4, <3>1, <3>3, <4>1, <4>3
    <3>4. QED
      BY <3>2, <3>3
  <2>6. Admission!Settle(InQueue(queue), order, Holders(states))
    BY <2>1, <2>5, PumpSettles
  <2>7. QED
    BY <1>1, <2>3, <2>4, <2>6 DEF Admission!Come, order
<1>6. QED
  BY <1>4, <1>5

\* A call that gives its lease back is a task that goes.
LEMMA ReleaseGoes ==
  ASSUME NEW c \in Call, NEW last \in Settled, LeaseInv,
         callState[c] \in {"authorizing", "running"}, Release(c, last)
  PROVE  Admission!Go({c})
<1> DEFINE states == [callState EXCEPT ![c] = last]
<1>1. /\ Waits = InQueue(waiting) /\ WaitsBefore = Before(waiting)
      /\ Leased = Holders(callState) /\ Waits \cap Leased = {}
      /\ \A d \in Waits : WaitsBefore[d] \subseteq Waits
  BY WaitsAreQueued
<1>2. \E shared, exclusive : /\ Booked(states, waiting, shared, exclusive)
                             /\ Pump(states, waiting, shared, exclusive)
  <2>1. CASE c \in Exclusive
    <3>1. /\ Booked(states, waiting, activeShared, FALSE)
          /\ Pump(states, waiting, activeShared, FALSE)
      BY <2>1, GivingTheLeaseBack DEF Release
    <3> HIDE DEF states
    <3>2. QED
      BY <3>1, Zenon
  <2>2. CASE c \notin Exclusive
    <3> DEFINE shared == IF activeShared > 0 THEN activeShared - 1 ELSE 0
    <3>1. /\ Booked(states, waiting, shared, activeExclusive)
          /\ Pump(states, waiting, shared, activeExclusive)
      BY <2>2, GivingTheLeaseBack DEF Release
    <3> HIDE DEF states, shared
    <3>2. QED
      BY <3>1, Zenon
  <2>3. QED
    BY <2>1, <2>2
<1>3. Holders(states) = Leased \ {c} /\ c \in Leased
  <2>1. callState \in [AnyCall -> CallState] /\ \A d \in Call : d \in AnyCall
    BY DEF LeaseInv, Booked, AnyCall
  <2>2. \A d \in Call : states[d] = IF d = c THEN last ELSE callState[d]
    BY <2>1
  <2> HIDE DEF states
  <2>3. QED
    BY <2>2 DEF Holders, Leased, Settled
<1>4. \A d \in InQueue(waiting) : WaitsBefore[d] \cap InQueue(waiting) = Before(waiting)[d]
  BY <1>1
<1> HIDE DEF states
<1>5. Admission!Settle(InQueue(waiting), WaitsBefore, Holders(states))
  <2>1. PICK shared, exclusive : /\ Booked(states, waiting, shared, exclusive)
                                 /\ Pump(states, waiting, shared, exclusive)
    BY <1>2
  <2>2. QED
    BY <1>4, <2>1, PumpSettles
<1>6. Waits \ {c} = InQueue(waiting) /\ {c} \subseteq Waits \cup Leased
  BY <1>1, <1>3
<1>7. QED
  BY <1>3, <1>5, <1>6 DEF Admission!Go

\* What the contract sees of the gate.
SeenOfGate == <<Waits, WaitsBefore, Leased>>

\* Every step of the gate is a step of the contract, or none.
LEMMA GateStepIsSeen ==
  ASSUME LeaseInv, [GateNext]_gateVars
  PROVE  Admission!Next \/ UNCHANGED SeenOfGate
<1>1. callState \in [AnyCall -> CallState] /\ \A c \in Call : c \in AnyCall
  BY DEF LeaseInv, Booked, AnyCall
<1>2. ASSUME UNCHANGED waiting,
             \A c \in Call : callState'[c] = callState[c] \/
                 {callState[c], callState'[c]} \subseteq {"authorizing", "running"}
      PROVE  UNCHANGED SeenOfGate
  BY <1>2 DEF SeenOfGate, Waits, WaitsBefore, Leased
<1>3. ASSUME NEW c \in Call, Acquire(c)
      PROVE  Admission!Next
  BY <1>3, AcquireComes DEF Admission!Next
<1>4. ASSUME NEW c \in Call, Authorize(c) \/ Finish(c) \/ TimeOut(c)
      PROVE  Admission!Next \/ UNCHANGED SeenOfGate
  <2>1. CASE \E last \in Settled : Release(c, last)
    <3>1. callState[c] \in {"authorizing", "running"}
      BY <1>4 DEF Authorize, Finish, TimeOut
    <3>2. Admission!Go({c})
      BY <2>1, <3>1, ReleaseGoes
    <3>3. {c} \in SUBSET Call
      OBVIOUS
    <3>4. QED
      BY <3>2, <3>3 DEF Admission!Next
  <2>2. CASE /\ callState[c] = "authorizing" /\ waiting' = waiting
             /\ callState' = [callState EXCEPT ![c] = "running"]
    <3>1. \A d \in Call : callState'[d] = IF d = c THEN "running" ELSE callState[d]
      BY <1>1, <2>2
    <3>2. QED
      BY <1>2, <2>2, <3>1
  <2>3. QED
    BY <1>4, <2>1, <2>2 DEF Authorize, Finish, TimeOut, Settled
<1>5. ASSUME NEW n \in NestedCall,
             RunNested(n) \/ AdvanceChain(n) \/ AuthorizeNested(n) \/ FinishNested(n)
      PROVE  UNCHANGED SeenOfGate
  <2>1. UNCHANGED waiting
    BY <1>5 DEF RunNested, AdvanceChain, AuthorizeNested, FinishNested, SettleNested
  <2>2. \E next : callState' = [callState EXCEPT ![n] = next]
    BY <1>5 DEF RunNested, AdvanceChain, AuthorizeNested, FinishNested, SettleNested
  <2>3. \A c \in Call : callState'[c] = callState[c]
    BY <1>1, <2>2
  <2>4. QED
    BY <1>2, <2>1, <2>3
<1>6. CASE UNCHANGED gateVars
  BY <1>2, <1>6 DEF gateVars
<1>7. QED
  BY <1>3, <1>4, <1>5, <1>6 DEF GateNext

\* ToolExecutionGate implements the contract of an ordered admission: calls that may not
\* run together are admitted one after the other and in the order in which they came,
\* and none waits longer than for those in its way, whatever runs inside a lease and
\* however the operation of a lease ends.
THEOREM CallsAreAdmittedInOrder == GateSpec => ImplementsOrderedAdmission
<1>1. GateInit => Admission!Init
  <2> SUFFICES ASSUME GateInit PROVE Admission!Init
    OBVIOUS
  <2>1. waiting = <<>> /\ \A c \in Call : callState[c] = "new"
    BY DEF GateInit, AnyCall
  <2>2. Waits = {} /\ Leased = {}
    BY <2>1 DEF Waits, Leased
  <2>3. WaitsBefore = [c \in Call |-> {}]
    BY <2>1 DEF WaitsBefore
  <2>4. QED
    BY <2>2, <2>3 DEF Admission!Init
<1>2. LeaseInv /\ [GateNext]_gateVars => [Admission!Next]_<<Waits, WaitsBefore, Leased>>
  BY GateStepIsSeen DEF SeenOfGate
<1>3. QED
  BY <1>1, <1>2, LeaseInvariant, PTL
     DEF GateSpec, ImplementsOrderedAdmission, Admission!Spec

================================================================================
