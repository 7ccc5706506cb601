-------------------------- MODULE RtpReceiveProofs --------------------------
(***************************************************************************)
(* Theorems about the receiving half of a session, for every width of the  *)
(* numbers and the timestamps, every length of the queues and every        *)
(* behaviour of the senders that the bounds on what meets allow.           *)
(***************************************************************************)
EXTENDS RtpReceive, FiniteSetTheorems, WellFoundedInduction, TLAPS

----------------------------------------------------------------------------
(* Numbers that wrap. *)

LEMMA DivMod ==
  ASSUME NEW M \in Nat \ {0}, NEW a \in Int
  PROVE  /\ (a % M) \in 0..M - 1 /\ (a \div M) \in Int
         /\ a = M * (a \div M) + (a % M)
  OBVIOUS

LEMMA MulSmall ==
  ASSUME NEW M \in Nat \ {0}, NEW k \in Int, M * k < M, M * k > -M
  PROVE  k = 0
<1>1. CASE k >= 1
  <2>1. M * k >= M * 1
    BY <1>1
  <2> QED BY <2>1
<1>2. CASE k <= -1
  <2>1. M * k <= M * (-1)
    BY <1>2
  <2> QED BY <2>1
<1> QED BY <1>1, <1>2

LEMMA DivModUnique ==
  ASSUME NEW M \in Nat \ {0}, NEW a \in Int, NEW q \in Int, NEW r \in 0..M - 1,
         a = M * q + r
  PROVE  (a % M) = r /\ (a \div M) = q
<1> DEFINE d == a \div M
<1> DEFINE s == a % M
<1>1. d \in Int /\ s \in 0..M-1 /\ a = M * d + s
  BY DivMod
<1> HIDE DEF d, s
<1>2. M * (d - q) = r - s /\ d - q \in Int
  BY <1>1
<1>3. d - q = 0
  BY <1>1, <1>2, MulSmall
<1>4. d = q /\ s = r
  BY <1>1, <1>3, <1>2
<1> QED BY <1>4 DEF d, s

LEMMA ModOfDifference ==
  ASSUME NEW M \in Nat \ {0}, NEW a \in Int, NEW b \in Int
  PROVE  (((a % M) - (b % M)) % M) = ((a - b) % M)
<1> DEFINE p == a \div M
<1> DEFINE q == b \div M
<1> DEFINE r == a % M
<1> DEFINE s == b % M
<1> DEFINE t == (r - s) % M
<1> DEFINE u == (r - s) \div M
<1> DEFINE c == a - b
<1>1. /\ p \in Int /\ q \in Int /\ r \in 0..M-1 /\ s \in 0..M-1
      /\ a = M * p + r /\ b = M * q + s /\ c \in Int
  BY DivMod
<1>2. r - s \in Int
  BY <1>1
<1>3. t \in 0..M-1 /\ u \in Int /\ r - s = M * u + t
  <2> HIDE DEF r, s
  <2> QED BY <1>2, DivMod
<1>4. c = (M * p + r) - (M * q + s)
  BY <1>1
<1> HIDE DEF p, q, r, s, t, u, c
<1>5. c = M * ((p - q) + u) + t /\ (p - q) + u \in Int
  BY <1>1, <1>3, <1>4
<1>6. (c % M) = t
  BY <1>1, <1>3, <1>5, DivModUnique
<1> QED BY <1>6 DEF t, r, s, c

LEMMA Width == SeqMod \in Nat \ {0} /\ SeqMod >= 8 /\ TsMod \in Nat \ {0}
  BY NumbersAssumption

LEMMA SmallDifference ==
  ASSUME NEW M \in Nat \ {0}, NEW d \in Int
  PROVE  /\ d \in 0..(M - 1) => (d % M) = d
         /\ d < 0 /\ d > -M => (d % M) = M + d
<1>1. d \in 0..(M - 1) => d = M * 0 + d
  BY SMT
<1>2. d < 0 /\ d > -M => d = M * (-1) + (M + d) /\ M + d \in 0..(M - 1)
  BY SMT
<1>3. 0 \in Int /\ -1 \in Int
  OBVIOUS
<1>4. d \in 0..(M - 1) => (d % M) = d
  BY <1>1, DivModUnique
<1>5. ASSUME d < 0, d > -M PROVE (d % M) = M + d
  <2>1. d = M * (-1) + (M + d) /\ M + d \in 0..(M - 1)
    BY <1>2, <1>5
  <2> DEFINE r == M + d
  <2> HIDE DEF r
  <2>2. r \in 0..(M - 1) /\ d = M * (-1) + r
    BY <2>1 DEF r
  <2>3. (d % M) = r
    BY <2>2, DivModUnique
  <2> QED BY <2>3 DEF r
<1> QED BY <1>4, <1>5

\* Numbers less than half the space apart are told apart, and in their order
LEMMA Compare ==
  ASSUME NEW a \in Nat, NEW b \in Nat,
         a - b < SeqMod \div 2, b - a < SeqMod \div 2
  PROVE  /\ Greater((a % SeqMod), (b % SeqMod)) <=> a >= b
         /\ (a % SeqMod) = (b % SeqMod) <=> a = b
<1> DEFINE d == a - b
<1>0. SeqMod \in Nat \ {0} /\ SeqMod >= 8 /\ d \in Int
  BY Width
<1> DEFINE m == ((a % SeqMod) - (b % SeqMod)) % SeqMod
<1>a. m = (d % SeqMod)
  <2>1. a \in Int /\ b \in Int
    OBVIOUS
  <2> QED BY <1>0, <2>1, ModOfDifference, Zenon
<1>1. Greater((a % SeqMod), (b % SeqMod)) <=> ((d % SeqMod) < SeqMod \div 2)
  <2>1. Greater((a % SeqMod), (b % SeqMod)) <=> (m < SeqMod \div 2)
    BY DEF Greater
  <2> QED BY <1>a, <2>1
<1>2. d >= 0 <=> a >= b
  OBVIOUS
<1>3. d = 0 <=> a = b
  OBVIOUS
<1>4. d < SeqMod \div 2 /\ -d < SeqMod \div 2
  OBVIOUS
<1>5. (a % SeqMod) = (b % SeqMod) => (d % SeqMod) = 0
  <2> SUFFICES ASSUME (a % SeqMod) = (b % SeqMod) PROVE (d % SeqMod) = 0
    OBVIOUS
  <2>1. ((a % SeqMod) - (b % SeqMod)) = 0
    BY <1>0, DivMod
  <2>2. (0 % SeqMod) = 0
    BY <1>0
  <2>3. m = 0
    BY <2>1, <2>2
  <2> QED BY <1>a, <2>3
<1> HIDE DEF d
<1>6. 2 * (SeqMod \div 2) <= SeqMod /\ (SeqMod \div 2) \in Nat
  BY <1>0
<1>7. d >= 0 => (d % SeqMod) = d
  BY <1>0, <1>4, <1>6, SmallDifference
<1>8. d < 0 => (d % SeqMod) = SeqMod + d
  BY <1>0, <1>4, <1>6, SmallDifference
<1>9. (d % SeqMod) < SeqMod \div 2 <=> d >= 0
  BY <1>0, <1>4, <1>6, <1>7, <1>8
<1>10. (d % SeqMod) = 0 => d = 0
  BY <1>0, <1>4, <1>6, <1>7, <1>8
<1> QED BY <1>1, <1>2, <1>3, <1>5, <1>9, <1>10

----------------------------------------------------------------------------
(* The queues. *)

\* A set of numbers has a least one: its initial intervals are finite sets,
\* and finite sets are well-founded under inclusion.
LEMMA SmallestNumber ==
  ASSUME NEW S \in SUBSET Nat, S # {}
  PROVE  \E m \in S : \A n \in S : m <= n
<1> DEFINE T == {1..n : n \in S}
<1>1. T \subseteq FiniteSubsetsOf(Nat) /\ T # {}
  <2>1. ASSUME NEW n \in S PROVE 1..n \in SUBSET Nat /\ IsFiniteSet(1..n)
    BY FS_Interval
  <2> QED BY <2>1 DEF FiniteSubsetsOf
<1>2. PICK x \in T : \A y \in T : <<y, x>> \notin StrictSubsetOrdering(Nat)
  <2>1. IsWellFoundedOn(StrictSubsetOrdering(Nat), FiniteSubsetsOf(Nat))
    BY FS_StrictSubsetOrderingWellFounded
  <2> HIDE DEF T
  <2> QED BY <1>1, <2>1, WFMin
<1>3. PICK m \in S : x = 1..m
  OBVIOUS
<1>4. ASSUME NEW n \in S, n < m PROVE FALSE
  <2>1. 1..n \in T /\ 1..n \subseteq x /\ m \in x /\ m \notin 1..n
    BY <1>3, <1>4
  <2>2. <<1..n, x>> \in StrictSubsetOrdering(Nat)
    BY <1>3, <2>1 DEF StrictSubsetOrdering
  <2> QED BY <1>2, <2>1, <2>2
<1> QED BY <1>3, <1>4

LEMMA LargestNumber ==
  ASSUME NEW n \in Nat, NEW S \in SUBSET (0..n), S # {}
  PROVE  \E m \in S : \A k \in S : k <= m
<1> DEFINE T == {n - k : k \in S}
<1>1. T \in SUBSET Nat /\ T # {}
  OBVIOUS
<1> HIDE DEF T
<1>2. PICK x \in T : \A y \in T : x <= y
  BY <1>1, SmallestNumber
<1>3. PICK m \in S : x = n - m
  BY DEF T
<1>4. ASSUME NEW k \in S PROVE k <= m
  <2>1. n - k \in T
    BY DEF T
  <2>2. n - m <= n - k
    BY <1>2, <1>3, <2>1
  <2> QED BY <2>2
<1> QED BY <1>4

LEMMA LengthOfConcat ==
  ASSUME NEW S, NEW s \in Seq(S), NEW t \in Seq(S)
  PROVE  s \o t \in Seq(S) /\ Len(s \o t) = Len(s) + Len(t)
  OBVIOUS

Insert(q, p, at) == SubSeq(q, 1, at) \o <<p>> \o SubSeq(q, at + 1, Len(q))

IsInserted(r, S, q, p, at) ==
  /\ r \in Seq(S) /\ Len(r) = Len(q) + 1
  /\ \A i \in 1..at : r[i] = q[i]
  /\ r[at + 1] = p
  /\ \A i \in at + 2..Len(q) + 1 : r[i] = q[i - 1]

LEMMA Inserted ==
  ASSUME NEW S, NEW q \in Seq(S), NEW p \in S, NEW at \in 0..Len(q)
  PROVE  IsInserted(Insert(q, p, at), S, q, p, at)
<1> DEFINE a == SubSeq(q, 1, at)
<1> DEFINE b == SubSeq(q, at + 1, Len(q))
<1> DEFINE c == a \o <<p>>
<1> DEFINE r == c \o b
<1>1. a \in Seq(S) /\ Len(a) = at /\ \A i \in 1..at : a[i] = q[i]
  OBVIOUS
<1>2. b \in Seq(S) /\ Len(b) = Len(q) - at /\ \A i \in 1..Len(q) - at : b[i] = q[at + i]
  OBVIOUS
<1> HIDE DEF a, b
<1>3. /\ c \in Seq(S) /\ Len(c) = at + 1
      /\ \A i \in 1..at + 1 : c[i] = IF i <= at THEN q[i] ELSE p
  BY <1>1
<1> HIDE DEF c
<1>4. r \in Seq(S) /\ Len(r) = Len(q) + 1
  <2>1. r \in Seq(S) /\ Len(r) = Len(c) + Len(b)
    BY <1>2, <1>3, LengthOfConcat, Zenon
  <2>2. at \in Int /\ Len(q) \in Int
    OBVIOUS
  <2> QED BY <1>2, <1>3, <2>1, <2>2
<1>5. ASSUME NEW i \in 1..at + 1 PROVE r[i] = c[i]
  BY <1>2, <1>3, <1>4
<1>6. ASSUME NEW i \in 1..at PROVE r[i] = q[i]
  BY <1>3, <1>5
<1>7. r[at + 1] = p
  BY <1>3, <1>5
<1>8. ASSUME NEW i \in at + 2..Len(q) + 1 PROVE r[i] = q[i - 1]
  <2> DEFINE k == i - (at + 1)
  <2>1. r[i] = b[k] /\ k \in 1..Len(q) - at
    BY <1>2, <1>3, <1>4
  <2>2. at + k = i - 1
    OBVIOUS
  <2> HIDE DEF k
  <2>3. b[k] = q[at + k]
    BY <1>2, <2>1
  <2> QED BY <2>1, <2>2, <2>3
<1>9. Insert(q, p, at) = r
  BY DEF a, b, c, Insert
<1> HIDE DEF r
<1> QED BY <1>4, <1>6, <1>7, <1>8, <1>9 DEF IsInserted

LEMMA Suffix ==
  ASSUME NEW S, NEW q \in Seq(S), NEW k \in 0..Len(q)
  PROVE  LET r == SubSeq(q, k + 1, Len(q))
         IN  /\ r \in Seq(S) /\ Len(r) = Len(q) - k
             /\ \A i \in 1..Len(r) : r[i] = q[k + i] /\ k + i \in 1..Len(q)
  OBVIOUS

LEMMA TailIsSuffix ==
  ASSUME NEW S, NEW q \in Seq(S), Len(q) > 0
  PROVE  /\ Tail(q) \in Seq(S) /\ Len(Tail(q)) = Len(q) - 1
         /\ \A i \in 1..Len(Tail(q)) : Tail(q)[i] = q[1 + i] /\ 1 + i \in 1..Len(q)
         /\ Head(q) = q[1]
  OBVIOUS

\* Where rtp_putq puts the packet: after the last one that it is not older than
LEMMA PutResult ==
  ASSUME NEW S, NEW q \in Seq(S), NEW p \in S
  PROVE  LET Below(i) == Seq16(p) = Seq16(q[i]) \/ Greater(Seq16(p), Seq16(q[i]))
         IN  \E at \in 0..Len(q) :
               /\ at > 0 => Below(at)
               /\ \A j \in at + 1..Len(q) : ~Below(j)
               /\ Put(q, p) = IF at > 0 /\ Seq16(p) = Seq16(q[at])
                              THEN q ELSE Insert(q, p, at)
<1> DEFINE B == {i \in 1..Len(q) : Seq16(p) = Seq16(q[i]) \/ Greater(Seq16(p), Seq16(q[i]))}
<1> DEFINE at == CHOOSE i \in B \cup {0} : \A j \in B : j <= i
<1>1. \E i \in B \cup {0} : \A j \in B : j <= i
  <2> DEFINE C == B \cup {0}
  <2>1. C \in SUBSET (0..Len(q)) /\ C # {} /\ Len(q) \in Nat
    OBVIOUS
  <2>2. B \subseteq C
    OBVIOUS
  <2> HIDE DEF C
  <2>3. PICK m \in C : \A k \in C : k <= m
    BY <2>1, LargestNumber
  <2> QED BY <2>2, <2>3 DEF C
<1>2. at \in B \cup {0} /\ \A j \in B : j <= at
  <2> HIDE DEF B
  <2> QED BY <1>1
<1>3. Put(q, p) = IF at > 0 /\ Seq16(p) = Seq16(q[at])
                  THEN q ELSE Insert(q, p, at)
  BY DEF Put, Insert
<1> HIDE DEF at
<1>4. at \in 0..Len(q)
  BY <1>2
<1>5. at > 0 => at \in B
  BY <1>2
<1>6. \A j \in at + 1..Len(q) : j \notin B
  BY <1>2, <1>4
<1> QED BY <1>3, <1>4, <1>5, <1>6

Packets ==
  [src : Sources, kind : {"media", "empty", "tev"}, n : Nat \ {0}, t : Int,
   mark : BOOLEAN, E : BOOLEAN, copies : Nat \ {0}]

\* The order of QueuesInOrder, of one queue
InOrder(q) ==
  \A i, j \in 1..Len(q) :
    i < j /\ (\A k \in i..j : q[k].src = q[i].src) => q[i].n < q[j].n

\* The packet is less than half the number space from those of its source
Near(q, p) ==
  \A i \in 1..Len(q) : q[i].src = p.src =>
    q[i].n - p.n < SeqMod \div 2 /\ p.n - q[i].n < SeqMod \div 2

\* A shorter queue with the same packets at its end
LEMMA SuffixInOrder ==
  ASSUME NEW q \in Seq(Packets), InOrder(q), NEW r \in Seq(Packets), NEW d \in Nat,
         \A i \in 1..Len(r) : r[i] = q[d + i] /\ d + i \in 1..Len(q)
  PROVE  InOrder(r) /\ Elements(r) \subseteq Elements(q)
<1>1. ASSUME NEW i \in 1..Len(r), NEW j \in 1..Len(r), i < j,
             \A k \in i..j : r[k].src = r[i].src
      PROVE  r[i].n < r[j].n
  <2>1. ASSUME NEW k \in d + i..d + j PROVE q[k].src = q[d + i].src
    <3>1. k - d \in i..j /\ k - d \in 1..Len(r) /\ d + (k - d) = k
      BY SMT
    <3>2. r[k - d].src = r[i].src
      BY <1>1, <3>1
    <3>3. r[k - d] = q[k] /\ r[i] = q[d + i]
      BY <3>1
    <3> QED BY <3>2, <3>3
  <2>2. d + i \in 1..Len(q) /\ d + j \in 1..Len(q) /\ d + i < d + j
    BY <1>1
  <2>3. q[d + i].n < q[d + j].n
    BY <2>1, <2>2 DEF InOrder
  <2> QED BY <2>3
<1>2. InOrder(r)
  BY <1>1 DEF InOrder
<1>3. Elements(r) \subseteq Elements(q)
  BY DEF Elements
<1> QED BY <1>2, <1>3

\* Two packets of a stretch of one source
LEMMA OrderOfTwo ==
  ASSUME NEW q, InOrder(q), NEW i \in 1..Len(q), NEW j \in 1..Len(q), i < j,
         \A k \in i..j : q[k].src = q[i].src
  PROVE  q[i].n < q[j].n
  BY DEF InOrder

LEMMA PutInOrder ==
  ASSUME NEW q \in Seq(Packets), NEW p \in Packets, InOrder(q), Near(q, p)
  PROVE  /\ Put(q, p) \in Seq(Packets)
         /\ Len(Put(q, p)) <= Len(q) + 1
         /\ Elements(Put(q, p)) \subseteq Elements(q) \cup {p}
         /\ InOrder(Put(q, p))
<1> DEFINE Below(i) == Seq16(p) = Seq16(q[i]) \/ Greater(Seq16(p), Seq16(q[i]))
<1>1. PICK at \in 0..Len(q) :
        /\ at > 0 => Below(at)
        /\ \A j \in at + 1..Len(q) : ~Below(j)
        /\ Put(q, p) = IF at > 0 /\ Seq16(p) = Seq16(q[at])
                       THEN q ELSE Insert(q, p, at)
  BY PutResult, Zenon
<1>2. CASE at > 0 /\ Seq16(p) = Seq16(q[at])
  BY <1>1, <1>2
<1>3. CASE ~(at > 0 /\ Seq16(p) = Seq16(q[at]))
  <2> DEFINE r == Insert(q, p, at)
  <2>1. Put(q, p) = r
    BY <1>1, <1>3
  <2>2. /\ r \in Seq(Packets) /\ Len(r) = Len(q) + 1
        /\ \A i \in 1..at : r[i] = q[i]
        /\ r[at + 1] = p
        /\ \A i \in at + 2..Len(q) + 1 : r[i] = q[i - 1]
    <3>1. IsInserted(Insert(q, p, at), Packets, q, p, at)
      BY Inserted
    <3> QED BY <3>1 DEF IsInserted
  <2> HIDE DEF r
  <2>3. Elements(r) \subseteq Elements(q) \cup {p}
    <3>1. ASSUME NEW i \in 1..Len(r) PROVE r[i] \in Elements(q) \cup {p}
      <4>1. CASE i <= at
        BY <2>2, <4>1 DEF Elements
      <4>2. CASE i = at + 1
        BY <2>2, <4>2 DEF Elements
      <4>3. CASE i > at + 1
        <5>1. r[i] = q[i - 1] /\ i - 1 \in 1..Len(q)
          BY <2>2, <4>3
        <5> QED BY <5>1 DEF Elements
      <4> QED BY <4>1, <4>2, <4>3
    <3> QED BY <3>1 DEF Elements
  <2>4. ASSUME NEW i \in 1..Len(q), q[i].src = p.src
        PROVE  Below(i) <=> p.n >= q[i].n
    <3>1. q[i] \in Packets
      OBVIOUS
    <3>2. p.n \in Nat /\ q[i].n \in Nat
      BY <3>1 DEF Packets
    <3>3. q[i].n - p.n < SeqMod \div 2 /\ p.n - q[i].n < SeqMod \div 2
      BY <2>4 DEF Near
    <3>4. /\ Greater(Seq16(p), Seq16(q[i])) <=> p.n >= q[i].n
          /\ Seq16(p) = Seq16(q[i]) <=> p.n = q[i].n
      BY <3>2, <3>3, Compare DEF Seq16
    <3> QED BY <3>2, <3>4
  <2>5. ASSUME at > 0, q[at].src = p.src PROVE q[at].n < p.n
    <3>1. at \in 1..Len(q) /\ q[at] \in Packets
      BY <2>5
    <3>2. p.n \in Nat /\ q[at].n \in Nat
      BY <3>1 DEF Packets
    <3>3. p.n >= q[at].n
      BY <1>1, <2>4, <2>5, <3>1
    <3>4. p.n # q[at].n
      BY <1>3, <2>5 DEF Seq16
    <3> QED BY <3>2, <3>3, <3>4
  <2>6. ASSUME NEW j \in at + 1..Len(q), q[j].src = p.src PROVE p.n < q[j].n
    <3>1. j \in 1..Len(q) /\ q[j] \in Packets
      OBVIOUS
    <3>2. p.n \in Nat /\ q[j].n \in Nat
      BY <3>1 DEF Packets
    <3>3. ~(p.n >= q[j].n)
      BY <1>1, <2>4, <2>6, <3>1
    <3> QED BY <3>2, <3>3
  <2> HIDE DEF Below
  <2>7. ASSUME NEW i \in 1..Len(r), NEW j \in 1..Len(r), i < j,
               \A k \in i..j : r[k].src = r[i].src
        PROVE  r[i].n < r[j].n
    <3>0. r[j].src = r[i].src
      BY <2>7
    <3>1. CASE j <= at
      <4>1. \A k \in i..j : r[k] = q[k]
        BY <2>2, <3>1
      <4>2. \A k \in i..j : q[k].src = q[i].src
        BY <2>7, <4>1
      <4>3. i \in 1..Len(q) /\ j \in 1..Len(q)
        BY <2>2, <2>7, <3>1
      <4>4. q[i].n < q[j].n
        BY <2>7, <4>2, <4>3, OrderOfTwo
      <4> QED BY <2>7, <4>1, <4>4
    <3>2. CASE i <= at /\ j = at + 1
      <4>1. r[i] = q[i] /\ r[j] = p /\ r[at] = q[at] /\ at \in i..j /\ at > 0
        BY <2>2, <3>2
      <4>2. q[at].src = p.src /\ q[at].src = q[i].src
        BY <2>7, <3>0, <4>1
      <4>3. q[at].n < p.n
        BY <2>5, <4>1, <4>2
      <4>4. CASE i = at
        BY <4>1, <4>3, <4>4
      <4>5. CASE i < at
        <5>1. \A k \in i..at : r[k] = q[k] /\ k \in i..j
          BY <2>2, <3>2
        <5>2. \A k \in i..at : q[k].src = q[i].src
          BY <2>7, <4>1, <5>1
        <5>3. i \in 1..Len(q) /\ at \in 1..Len(q)
          BY <3>2, <4>5
        <5>4. q[i].n < q[at].n
          BY <4>5, <5>2, <5>3, OrderOfTwo
        <5>5. q[i] \in Packets /\ q[at] \in Packets
          BY <5>3
        <5>6. q[i].n \in Nat /\ q[at].n \in Nat /\ p.n \in Nat
          BY <5>5 DEF Packets
        <5> QED BY <4>1, <4>3, <5>4, <5>6
      <4> QED BY <3>2, <4>4, <4>5
    <3>3. CASE i <= at /\ j > at + 1
      <4>1. \A k \in i..j - 1 : /\ k \in i..j /\ k + 1 \in i..j
                               /\ (q[k] = r[k] \/ q[k] = r[k + 1])
        <5>1. ASSUME NEW k \in i..j - 1 PROVE q[k] = r[k] \/ q[k] = r[k + 1]
          <6>1. k \in 1..at \/ (k + 1 \in at + 2..Len(q) + 1 /\ (k + 1) - 1 = k)
            BY <2>2
          <6>2. CASE k \in 1..at
            BY <2>2, <6>2
          <6>3. CASE k + 1 \in at + 2..Len(q) + 1 /\ (k + 1) - 1 = k
            BY <2>2, <6>3
          <6> QED BY <6>1, <6>2, <6>3
        <5>2. \A k \in i..j - 1 : k \in i..j /\ k + 1 \in i..j
          BY <2>2
        <5> QED BY <5>1, <5>2
      <4>2. r[i] = q[i] /\ r[j] = q[j - 1]
        BY <2>2, <3>3
      <4>3. \A k \in i..j - 1 : q[k].src = q[i].src
        BY <2>7, <4>1, <4>2
      <4>4. i \in 1..Len(q) /\ j - 1 \in 1..Len(q) /\ i < j - 1
        BY <2>2, <3>3
      <4>5. q[i].n < q[j - 1].n
        BY <4>3, <4>4, OrderOfTwo
      <4> QED BY <4>2, <4>5
    <3>4. CASE i = at + 1
      <4>1. r[i] = p /\ r[j] = q[j - 1] /\ j - 1 \in at + 1..Len(q)
        BY <2>2, <2>7, <3>4
      <4> QED BY <2>6, <3>0, <4>1
    <3>5. CASE i > at + 1
      <4>1. \A k \in i - 1..j - 1 : k + 1 \in i..j /\ q[k] = r[k + 1]
        BY <2>2, <3>5
      <4>2. r[i] = q[i - 1] /\ r[j] = q[j - 1]
        BY <2>2, <2>7, <3>5
      <4>3. \A k \in i - 1..j - 1 : q[k].src = q[i - 1].src
        BY <2>7, <4>1, <4>2
      <4>4. i - 1 \in 1..Len(q) /\ j - 1 \in 1..Len(q) /\ i - 1 < j - 1
        BY <2>2, <2>7, <3>5
      <4>5. q[i - 1].n < q[j - 1].n
        BY <4>3, <4>4, OrderOfTwo
      <4> QED BY <4>2, <4>5
    <3> QED BY <2>7, <3>1, <3>2, <3>3, <3>4, <3>5
  <2>8. InOrder(r)
    BY <2>7 DEF InOrder
  <2> QED BY <2>1, <2>2, <2>3, <2>8
<1> QED BY <1>2, <1>3

\* queue_packet keeps the order, the bound, and adds nothing but the packet
LEMMA QueuedInOrder ==
  ASSUME NEW q \in Seq(Packets), NEW p \in Packets, InOrder(q), Near(q, p),
         Len(q) <= max_rq_size
  PROVE  /\ Queued(q, p) \in Seq(Packets)
         /\ Len(Queued(q, p)) <= max_rq_size
         /\ Elements(Queued(q, p)) \subseteq Elements(q) \cup {p}
         /\ p.kind = "empty" => Queued(q, p) = q
         /\ InOrder(Queued(q, p))
<1> DEFINE r == Put(q, p)
<1>1. /\ r \in Seq(Packets) /\ Len(r) <= Len(q) + 1
      /\ Elements(r) \subseteq Elements(q) \cup {p} /\ InOrder(r)
  BY PutInOrder
<1>2. Queued(q, p) = IF p.kind = "empty" THEN q
                     ELSE IF Len(r) > max_rq_size THEN Tail(r) ELSE r
  BY DEF Queued
<1> HIDE DEF r
<1>3. CASE p.kind = "empty"
  BY <1>2, <1>3
<1>4. CASE p.kind # "empty" /\ Len(r) <= max_rq_size
  <2>1. ~(Len(r) > max_rq_size)
    BY <1>1, <1>4, NumbersAssumption
  <2> QED BY <1>1, <1>2, <1>4, <2>1
<1>5. CASE p.kind # "empty" /\ Len(r) > max_rq_size
  <2>1. Len(r) > 0 /\ Len(r) \in Nat /\ max_rq_size \in Nat /\ Len(q) \in Nat
    BY <1>1, <1>5, NumbersAssumption
  <2>2. /\ Tail(r) \in Seq(Packets) /\ Len(Tail(r)) = Len(r) - 1
        /\ \A i \in 1..Len(Tail(r)) : Tail(r)[i] = r[1 + i] /\ 1 + i \in 1..Len(r)
    BY <1>1, <2>1, TailIsSuffix
  <2>3. InOrder(Tail(r)) /\ Elements(Tail(r)) \subseteq Elements(r)
    <3> DEFINE s == Tail(r)
    <3>1. s \in Seq(Packets) /\ \A i \in 1..Len(s) : s[i] = r[1 + i] /\ 1 + i \in 1..Len(r)
      BY <2>2
    <3> HIDE DEF s
    <3>2. InOrder(s) /\ Elements(s) \subseteq Elements(r)
      BY <1>1, <3>1, SuffixInOrder
    <3> QED BY <3>2 DEF s
  <2>4. Queued(q, p) = Tail(r)
    BY <1>2, <1>5
  <2>5. Len(r) - 1 <= max_rq_size
    BY <1>1, <2>1
  <2> QED BY <1>1, <1>5, <2>2, <2>3, <2>4, <2>5
<1>6. Len(r) \in Nat /\ max_rq_size \in Nat
  BY <1>1, NumbersAssumption
<1> QED BY <1>3, <1>4, <1>5, <1>6

\* rtp_getq takes a number of packets from the front
LEMMA TakenSome ==
  ASSUME NEW q \in Seq(Packets), NEW ts
  PROVE  Taken(q, ts) \in 0..Len(q)
<1> DEFINE Due(i) == Newer(ts, Ts(q[i])) /\ (i > 1 => Ts(q[i]) # Ts(q[i-1]))
<1> DEFINE Stop(k) == k < Len(q) => ~Due(k + 1)
<1> DEFINE T == {k \in 0..Len(q) : Stop(k)}
<1>1. T \in SUBSET Nat /\ T # {}
  <2>1. Len(q) \in T
    OBVIOUS
  <2> QED BY <2>1
<1>2. PICK k \in T : \A m \in T : k <= m
  <2> HIDE DEF T
  <2> QED BY <1>1, SmallestNumber
<1>3. ASSUME NEW i \in 1..k PROVE Due(i)
  <2>1. i - 1 \in 0..Len(q) /\ i - 1 < Len(q) /\ (i - 1) + 1 = i /\ ~(k <= i - 1)
    BY <1>2
  <2>2. i - 1 \notin T
    BY <1>2, <2>1
  <2>3. ~Stop(i - 1)
    BY <2>1, <2>2
  <2> HIDE DEF Due
  <2> QED BY <2>1, <2>3
<1>4. \E m \in 0..Len(q) : (\A i \in 1..m : Due(i)) /\ Stop(m)
  <2>1. k \in 0..Len(q) /\ Stop(k)
    BY <1>2
  <2> HIDE DEF Due, Stop
  <2> QED BY <1>3, <2>1
<1>5. Taken(q, ts) = CHOOSE m \in 0..Len(q) : (\A i \in 1..m : Due(i)) /\ Stop(m)
  BY DEF Taken
<1> HIDE DEF Due, Stop
<1> QED BY <1>4, <1>5

----------------------------------------------------------------------------
(* The inductive invariant: types, and how far apart packets that meet are. *)

UnderWay == net \cup Elements(rq) \cup Elements(tev_rq)

\* One packet, whatever copies of it the network holds
Same(p, q) ==
  /\ p.src = q.src /\ p.kind = q.kind /\ p.n = q.n /\ p.t = q.t
  /\ p.mark = q.mark /\ p.E = q.E

SenderInv ==
  /\ script \in Seq(Entries)
  /\ number \in [Sources -> Nat \ {0}] /\ time \in [Sources -> Int]
  /\ net \subseteq Packets

ReaderInv ==
  /\ rq \in Seq(Packets) /\ tev_rq \in Seq(Packets)
  /\ given \in Packets \cup {NoPacket}
  /\ extseq \in [hi : Nat, lo : 0..SeqMod - 1]
  /\ current_tev \in [ts : 0..TsMod - 1, E : BOOLEAN] \cup {NoPacket}
  /\ heard \in Seq(Int) /\ last_tev \in Nat
  /\ base \in Nat /\ top \in Nat
  /\ rq # <<>> => ssrc_set
  /\ ~ssrc_set => given = NoPacket

\* What meets a packet of its source is less than half the number space from it
WindowInv ==
  \A p \in UnderWay : p.n < number[p.src] /\ number[p.src] - 1 - p.n < SeqMod \div 2

QueueInv == TypeOK /\ SenderInv /\ ReaderInv /\ WindowInv /\ QueuesInOrder

LEMMA QueuesInOrderIs == QueuesInOrder <=> InOrder(rq) /\ InOrder(tev_rq)
  BY DEF QueuesInOrder, InOrder

LEMMA ElementsOf ==
  ASSUME NEW q \in Seq(Packets)
  PROVE  Elements(q) \subseteq Packets /\ \A i \in 1..Len(q) : q[i] \in Elements(q)
  BY DEF Elements

LEMMA UnderWayPackets ==
  ASSUME SenderInv, ReaderInv
  PROVE  UnderWay \subseteq Packets
<1>1. Elements(rq) \subseteq Packets /\ Elements(tev_rq) \subseteq Packets
  BY ElementsOf DEF ReaderInv
<1> QED BY <1>1 DEF UnderWay, SenderInv

LEMMA SeqTypes ==
  ASSUME NEW p \in Packets
  PROVE  /\ Seq16(p) \in 0..SeqMod - 1 /\ Ts(p) \in 0..TsMod - 1
         /\ (p.n \div SeqMod) \in Nat /\ p.n \in Nat \ {0} /\ p.t \in Int
         /\ p.src \in Sources /\ p.src # "none" /\ p.E \in BOOLEAN
         /\ p.kind \in {"media", "empty", "tev"}
  BY Width DEF Packets, Seq16, Ts, Sources

LEMMA InitQueues == Init => QueueInv
<1> SUFFICES ASSUME Init PROVE QueueInv
  OBVIOUS
<1>1. PICK s \in Streams : script = s.script /\ handled = s.handled
  BY DEF Init
<1>2. handled \in BOOLEAN /\ script \in Seq(Entries)
  BY <1>1, StreamsAssumption
<1>3. UnderWay = {}
  BY DEF Init, UnderWay, Elements
<1>4. SenderInv
  BY <1>2, NumbersAssumption DEF Init, SenderInv
<1>5. TypeOK
  <2>1. ssrc_set \in BOOLEAN /\ (ssrc_set <=> ssrc # "none")
    <3>1. ssrc_set = FALSE /\ ssrc = "none"
      BY DEF Init
    <3> QED BY <3>1
  <2>2. /\ ssrc \in Sources \cup {"none"} /\ candidate \in Sources \cup {"none"}
        /\ flags \subseteq {"RECV_SYNC", "FIRST_PACKET_DELIVERED"}
    BY DEF Init
  <2>3. /\ same_count \in Nat /\ extseq.hi \in Nat /\ extseq.lo \in 0..SeqMod - 1
        /\ Len(rq) = 0 /\ Len(tev_rq) = 0 /\ rcv_last_ts \in 0..TsMod - 1
    BY NumbersAssumption DEF Init
  <2>4. Len(rq) <= max_rq_size /\ Len(tev_rq) <= max_rq_size
    BY <2>3, NumbersAssumption
  <2> QED BY <1>2, <2>1, <2>2, <2>3, <2>4 DEF TypeOK
<1>6. ReaderInv
  BY NumbersAssumption DEF Init, ReaderInv
<1>7. WindowInv
  BY <1>3 DEF WindowInv
<1>8. QueuesInOrder
  BY DEF Init, QueuesInOrder
<1> QED BY <1>4, <1>5, <1>6, <1>7, <1>8 DEF QueueInv

\* Nothing new is under way: packets are lost, arrive, are queued or read
Shrinks ==
  /\ UNCHANGED sender
  /\ \A p \in UnderWay' : p \in Packets /\ \E q \in UnderWay : Same(p, q)

LEMMA ShrinkingWindow ==
  ASSUME WindowInv, Shrinks
  PROVE  WindowInv'
<1>1. ASSUME NEW p \in UnderWay'
      PROVE  p.n < number'[p.src] /\ number'[p.src] - 1 - p.n < SeqMod \div 2
  <2>1. PICK q \in UnderWay : Same(p, q)
    BY DEF Shrinks
  <2>2. q.n < number[q.src] /\ number[q.src] - 1 - q.n < SeqMod \div 2
    BY DEF WindowInv
  <2> QED BY <2>1, <2>2 DEF Same, Shrinks, sender
<1> QED BY <1>1 DEF WindowInv

\* Copies differ in nothing but their number
LEMMA Copied ==
  ASSUME NEW p \in Packets, NEW c \in Nat \ {0}
  PROVE  [p EXCEPT !.copies = c] \in Packets /\ Same([p EXCEPT !.copies = c], p)
  BY DEF Packets, Same

LEMMA WithoutCopies ==
  ASSUME net \subseteq Packets, NEW p \in net
  PROVE  \A r \in Without(p) : r \in Packets /\ \E q \in net : Same(r, q)
<1>1. ASSUME NEW r \in Without(p) PROVE r \in Packets /\ \E q \in net : Same(r, q)
  <2>1. CASE r \in net
    BY <2>1 DEF Same
  <2>2. CASE r \notin net
    <3>1. p.copies > 1 /\ r = [p EXCEPT !.copies = @ - 1]
      BY <2>2 DEF Without
    <3>2. p.copies - 1 \in Nat \ {0} /\ r = [p EXCEPT !.copies = p.copies - 1]
      BY <3>1 DEF Packets
    <3>3. r \in Packets /\ Same(r, p)
      BY <3>2, Copied
    <3> QED BY <3>3
  <2> QED BY <2>1, <2>2
<1> QED BY <1>1

LEMMA Arriving ==
  ASSUME net \subseteq Packets, NEW p \in net, Arrives(p)
  PROVE  \A r \in net' : r \in Packets /\ \E q \in net : Same(r, q)
<1>1. CASE net' = Without(p)
  BY <1>1, WithoutCopies
<1>2. CASE net' = net
  BY <1>2 DEF Same
<1> QED BY <1>1, <1>2 DEF Arrives

----------------------------------------------------------------------------
(* Types are kept. *)

\* What the senders put on the way
LEMMA SendsSome ==
  ASSUME QueueInv, Send
  PROVE  /\ SenderInv' /\ WindowInv'
<1>1. script # <<>> /\ script' = Tail(script)
  BY DEF Send, SendsMedia, SendsKey
<1>2. script' \in Seq(Entries)
  BY <1>1 DEF QueueInv, SenderInv
<1>3. UNCHANGED <<rq, tev_rq>>
  BY DEF Send
<1>4. UnderWay \subseteq Packets
  BY UnderWayPackets DEF QueueInv
<1>5. CASE SendsMedia
  <2>1. PICK s \in Sources, kind \in {"media", "empty"}, step \in {0, 1, Jump, -Jump} :
          /\ Together(s, number[s])
          /\ number' = [number EXCEPT ![s] = @ + 1]
          /\ time' = [time EXCEPT ![s] = @ + step]
          /\ net' = net \cup {Packet(s, kind, number[s], time'[s], FALSE, FALSE, 1)}
    BY <1>5 DEF SendsMedia
  <2> DEFINE p == Packet(s, kind, number[s], time'[s], FALSE, FALSE, 1)
  <2>2. number[s] \in Nat \ {0} /\ time[s] \in Int /\ step \in Int
    BY NumbersAssumption DEF QueueInv, SenderInv
  <2>3. number' \in [Sources -> Nat \ {0}] /\ time' \in [Sources -> Int]
    BY <2>1, <2>2 DEF QueueInv, SenderInv
  <2>4. p \in Packets /\ p.src = s /\ p.n = number[s]
    BY <2>2, <2>3 DEF Packet, Packets
  <2>5. SenderInv'
    BY <1>2, <2>1, <2>3, <2>4 DEF QueueInv, SenderInv
  <2> HIDE DEF p
  <2>6. ASSUME NEW r \in UnderWay'
        PROVE  r.n < number'[r.src] /\ number'[r.src] - 1 - r.n < SeqMod \div 2
    <3>1. r \in UnderWay \/ r = p
      BY <1>3, <2>1 DEF UnderWay, p
    <3>2. CASE r = p
      <4>1. number'[s] = number[s] + 1
        BY <2>1 DEF QueueInv, SenderInv
      <4>2. 0 < SeqMod \div 2
        BY Width
      <4> QED BY <2>2, <2>4, <3>2, <4>1, <4>2
    <3>3. CASE r \in UnderWay
      <4>1. r \in Packets /\ r.n \in Nat /\ r.src \in Sources /\ number[r.src] \in Nat
        BY <1>4, <3>3 DEF Packets, QueueInv, SenderInv
      <4>2. r.n < number[r.src] /\ number[r.src] - 1 - r.n < SeqMod \div 2
        BY <3>3 DEF QueueInv, WindowInv
      <4>3. CASE r.src = s
        <5>1. number[s] - r.n < SeqMod \div 2
          BY <2>1, <3>3, <4>3 DEF Together, UnderWay
        <5>2. number'[s] = number[s] + 1
          BY <2>1 DEF QueueInv, SenderInv
        <5>3. number'[s] - 1 = number[s]
          BY <2>2, <5>2
        <5>4. r.n < number'[s]
          BY <2>2, <4>1, <4>2, <4>3, <5>2
        <5> QED BY <4>3, <5>1, <5>3, <5>4
      <4>4. CASE r.src # s
        <5>1. number'[r.src] = number[r.src]
          BY <2>1, <4>1, <4>4 DEF QueueInv, SenderInv
        <5> QED BY <4>2, <5>1
      <4> QED BY <4>3, <4>4
    <3> QED BY <3>1, <3>2, <3>3
  <2> QED BY <2>5, <2>6 DEF WindowInv
<1>6. CASE SendsKey
  <2> DEFINE n == number["peer"]
  <2> DEFINE t == time["peer"] + 1
  <2> DEFINE tev(i, copies) == Packet("peer", "tev", n + i, t, i = 0, i = 2, copies)
  <2>1. /\ Together("peer", n + 2)
        /\ number' = [number EXCEPT !["peer"] = n + 3]
        /\ time' = [time EXCEPT !["peer"] = t]
        /\ net' = net \cup {tev(0, 1), tev(1, 1), tev(2, 3)}
    BY <1>6 DEF SendsKey
  <2>2. n \in Nat \ {0} /\ t \in Int /\ "peer" \in Sources
    BY DEF QueueInv, SenderInv, Sources
  <2>3. /\ number' \in [Sources -> Nat \ {0}] /\ time' \in [Sources -> Int]
        /\ number'["peer"] = n + 3
        /\ \A s \in Sources \ {"peer"} : number'[s] = number[s]
    <3> HIDE DEF n, t
    <3> QED BY <2>1, <2>2 DEF QueueInv, SenderInv
  <2>4. ASSUME NEW i \in 0..2, NEW c \in 1..3
        PROVE  tev(i, c) \in Packets /\ tev(i, c).src = "peer" /\ tev(i, c).n = n + i
    <3> HIDE DEF n, t
    <3> QED BY <2>2 DEF Packet, Packets
  <2>5. tev(0, 1) \in Packets /\ tev(1, 1) \in Packets /\ tev(2, 3) \in Packets
    <3>1. 0 \in 0..2 /\ 1 \in 0..2 /\ 2 \in 0..2 /\ 1 \in 1..3 /\ 3 \in 1..3
      OBVIOUS
    <3> HIDE DEF tev
    <3> QED BY <2>4, <3>1
  <2>6. SenderInv'
    <3> HIDE DEF n, t, tev
    <3> QED BY <1>2, <2>1, <2>3, <2>5 DEF QueueInv, SenderInv
  <2>7. ASSUME NEW r \in UnderWay'
        PROVE  r.n < number'[r.src] /\ number'[r.src] - 1 - r.n < SeqMod \div 2
    <3>0. (SeqMod \div 2) \in Nat /\ 2 < SeqMod \div 2
      BY Width
    <3>1. r \in UnderWay \/ \E i \in 0..2, c \in 1..3 : r = tev(i, c)
      <4>1. 0 \in 0..2 /\ 1 \in 0..2 /\ 2 \in 0..2 /\ 1 \in 1..3 /\ 3 \in 1..3
        OBVIOUS
      <4>2. r \in UnderWay \/ r \in {tev(0, 1), tev(1, 1), tev(2, 3)}
        <5> HIDE DEF tev
        <5> QED BY <1>3, <2>1 DEF UnderWay
      <4> HIDE DEF tev
      <4> QED BY <4>1, <4>2
    <3>2. ASSUME NEW i \in 0..2, NEW c \in 1..3, r = tev(i, c)
          PROVE  r.n < number'[r.src] /\ number'[r.src] - 1 - r.n < SeqMod \div 2
      <4>1. r.src = "peer" /\ r.n = n + i
        BY <2>4, <3>2
      <4> HIDE DEF n, tev
      <4> QED BY <2>2, <2>3, <3>0, <4>1
    <3>3. CASE r \in UnderWay
      <4>1. r \in Packets /\ r.n \in Nat /\ r.src \in Sources /\ number[r.src] \in Nat
        BY <1>4, <3>3 DEF Packets, QueueInv, SenderInv
      <4>2. r.n < number[r.src] /\ number[r.src] - 1 - r.n < SeqMod \div 2
        BY <3>3 DEF QueueInv, WindowInv
      <4>3. CASE r.src = "peer"
        <5>1. (n + 2) - r.n < SeqMod \div 2
          BY <2>1, <3>3, <4>3 DEF Together, UnderWay
        <5>2. r.n < n
          BY <4>2, <4>3
        <5> HIDE DEF n
        <5>3. number'[r.src] - 1 = n + 2
          BY <2>2, <2>3, <4>3
        <5> QED BY <2>2, <2>3, <4>1, <4>3, <5>1, <5>2, <5>3
      <4>4. CASE r.src # "peer"
        <5>1. number'[r.src] = number[r.src]
          BY <2>3, <4>1, <4>4
        <5> QED BY <4>2, <5>1
      <4> QED BY <4>3, <4>4
    <3> HIDE DEF tev
    <3> QED BY <3>1, <3>2, <3>3
  <2> QED BY <2>6, <2>7 DEF WindowInv
<1> QED BY <1>5, <1>6 DEF Send

\* A step that leaves the reader alone
LEMMA ReaderUnchanged ==
  ASSUME QueueInv,
         UNCHANGED <<handled, lock_on, extseq, rq, tev_rq, rcv_last_ts, flags,
                     events, given, base, top>>
  PROVE  TypeOK' /\ ReaderInv' /\ QueuesInOrder'
<1>1. TypeOK'
  BY DEF QueueInv, TypeOK, lock_on
<1>2. ReaderInv'
  BY DEF QueueInv, ReaderInv, lock_on, events
<1>3. QueuesInOrder'
  BY DEF QueueInv, QueuesInOrder
<1> QED BY <1>1, <1>2, <1>3

LEMMA LoseShrinks ==
  ASSUME QueueInv, Lose
  PROVE  Shrinks /\ net' \subseteq Packets
<1>1. PICK p \in net : net' = Without(p)
  BY DEF Lose
<1>2. \A r \in net' : r \in Packets /\ \E q \in net : Same(r, q)
  BY <1>1, WithoutCopies DEF QueueInv, SenderInv
<1>3. UnderWay \subseteq Packets
  BY UnderWayPackets DEF QueueInv
<1>4. ASSUME NEW r \in UnderWay' PROVE r \in Packets /\ \E q \in UnderWay : Same(r, q)
  <2>1. CASE r \in net'
    BY <1>2, <2>1 DEF UnderWay
  <2>2. CASE r \notin net'
    BY <1>3, <2>2 DEF UnderWay, Lose, Same
  <2> QED BY <2>1, <2>2
<1> QED BY <1>2, <1>4 DEF Shrinks, Lose

\* The packet as it is parsed
Parsed(p) == [p EXCEPT !.copies = 1]

LEMMA ParsedPacket ==
  ASSUME QueueInv, NEW p \in net
  PROVE  /\ Parsed(p) \in Packets /\ Same(Parsed(p), p)
         /\ Near(rq, Parsed(p)) /\ Near(tev_rq, Parsed(p))
<1>1. p \in Packets
  BY DEF QueueInv, SenderInv
<1>2. Parsed(p) \in Packets /\ Same(Parsed(p), p)
  BY <1>1, Copied DEF Parsed
<1>3. ASSUME NEW q \in Seq(Packets), Elements(q) \subseteq UnderWay PROVE Near(q, Parsed(p))
  <2>1. ASSUME NEW i \in 1..Len(q), q[i].src = p.src
        PROVE  q[i].n - p.n < SeqMod \div 2 /\ p.n - q[i].n < SeqMod \div 2
    <3>1. q[i] \in UnderWay /\ q[i] \in Packets /\ p \in UnderWay
      BY <1>3 DEF Elements, UnderWay
    <3>2. /\ q[i].n < number[p.src] /\ number[p.src] - 1 - q[i].n < SeqMod \div 2
          /\ p.n < number[p.src] /\ number[p.src] - 1 - p.n < SeqMod \div 2
      BY <2>1, <3>1 DEF QueueInv, WindowInv
    <3>3. q[i].n \in Nat /\ p.n \in Nat /\ number[p.src] \in Nat
      BY <1>1, <3>1 DEF Packets, QueueInv, SenderInv
    <3>4. (SeqMod \div 2) \in Nat
      BY Width
    <3> QED BY <3>2, <3>3, <3>4
  <2> QED BY <1>2, <2>1 DEF Near, Same
<1>4. Near(rq, Parsed(p)) /\ Near(tev_rq, Parsed(p))
  BY <1>3 DEF UnderWay, QueueInv, ReaderInv
<1> QED BY <1>2, <1>4

LEMMA ParseShrinks ==
  ASSUME QueueInv, NEW p \in net, Arrives(p), UNCHANGED sender,
         Elements(rq') \subseteq Elements(rq) \cup {Parsed(p)},
         Elements(tev_rq') \subseteq Elements(tev_rq) \cup {Parsed(p)}
  PROVE  Shrinks /\ SenderInv'
<1>1. \A r \in net' : r \in Packets /\ \E q \in net : Same(r, q)
  BY Arriving DEF QueueInv, SenderInv
<1>2. UnderWay \subseteq Packets
  BY UnderWayPackets DEF QueueInv
<1>3. Parsed(p) \in Packets /\ Same(Parsed(p), p) /\ p \in UnderWay
  BY ParsedPacket DEF UnderWay
<1>4. ASSUME NEW r \in UnderWay' PROVE r \in Packets /\ \E q \in UnderWay : Same(r, q)
  <2>1. CASE r \in net'
    BY <1>1, <2>1 DEF UnderWay
  <2>2. CASE r = Parsed(p)
    BY <1>3, <2>2
  <2>3. CASE r \notin net' /\ r # Parsed(p)
    <3>1. r \in UnderWay
      BY <2>3 DEF UnderWay
    <3> QED BY <1>2, <3>1 DEF Same
  <2> QED BY <2>1, <2>2, <2>3
<1>5. SenderInv'
  BY <1>1 DEF SenderInv, QueueInv, sender
<1> QED BY <1>4, <1>5 DEF Shrinks

LEMMA AcceptsTypes ==
  ASSUME QueueInv, NEW p \in Packets, Accepts(p)
  PROVE  /\ ssrc_set' = TRUE /\ ssrc' = p.src /\ ssrc' \in Sources
         /\ candidate' \in Sources \cup {"none"} /\ same_count' \in Nat
         /\ extseq' \in [hi : Nat, lo : 0..SeqMod - 1]
         /\ base' \in Nat /\ top' \in Nat \ {0}
<1>1. p.n \in Nat \ {0} /\ p.src \in Sources /\ Seq16(p) \in 0..SeqMod - 1 /\ (p.n \div SeqMod) \in Nat
  BY SeqTypes
<1>2. /\ ssrc_set \in BOOLEAN /\ candidate \in Sources \cup {"none"} /\ same_count \in Nat
      /\ extseq \in [hi : Nat, lo : 0..SeqMod - 1] /\ base \in Nat /\ top \in Nat
  BY DEF QueueInv, TypeOK, ReaderInv
<1>3. ssrc_set' = TRUE
  BY <1>2 DEF Accepts, LocksOn
<1>4. candidate' \in Sources \cup {"none"} /\ same_count' \in Nat
  BY <1>1, <1>2 DEF Accepts, LocksOn
<1>5. extseq' \in [hi : Nat, lo : 0..SeqMod - 1]
  BY <1>1, <1>2 DEF Accepts, CountsSequence
<1>6. base' \in Nat /\ top' \in Nat \ {0}
  BY <1>1, <1>2 DEF Accepts
<1> QED BY <1>1, <1>3, <1>4, <1>5, <1>6 DEF Accepts

\* What parsing a packet of the source leaves, whichever queue it goes to
LEMMA ParsedQueues ==
  ASSUME QueueInv, NEW p \in net, Arrives(p), Accepts(Parsed(p)),
         UNCHANGED <<handled, sender, events>>,
         rq' \in Seq(Packets), tev_rq' \in Seq(Packets),
         Len(rq') <= max_rq_size, Len(tev_rq') <= max_rq_size,
         Elements(rq') \subseteq Elements(rq) \cup {Parsed(p)},
         Elements(tev_rq') \subseteq Elements(tev_rq) \cup {Parsed(p)},
         \A i \in 1..Len(rq') : rq'[i].kind = "media",
         \A i \in 1..Len(tev_rq') : tev_rq'[i].kind = "tev",
         InOrder(rq'), InOrder(tev_rq'),
         rcv_last_ts' \in 0..TsMod - 1,
         flags' \subseteq {"RECV_SYNC", "FIRST_PACKET_DELIVERED"},
         given' \in {given, NoPacket}
  PROVE  QueueInv' /\ Shrinks
<1>1. Shrinks /\ SenderInv'
  BY ParseShrinks
<1>2. WindowInv'
  BY <1>1, ShrinkingWindow DEF QueueInv
<1>3. /\ ssrc_set' = TRUE /\ ssrc' \in Sources
      /\ candidate' \in Sources \cup {"none"} /\ same_count' \in Nat
      /\ extseq' \in [hi : Nat, lo : 0..SeqMod - 1]
      /\ base' \in Nat /\ top' \in Nat \ {0}
  <2>1. Parsed(p) \in Packets
    BY ParsedPacket
  <2> QED BY <2>1, AcceptsTypes
<1>4. TypeOK'
  <2>1. ssrc_set' \in BOOLEAN /\ (ssrc_set' <=> ssrc' # "none")
    <3>1. ssrc' # "none"
      BY <1>3 DEF Sources
    <3> QED BY <1>3, <3>1
  <2>2. handled' \in BOOLEAN
    BY DEF QueueInv, TypeOK
  <2>3. extseq'.hi \in Nat /\ extseq'.lo \in 0..SeqMod - 1
    BY <1>3
  <2> QED BY <1>3, <2>1, <2>2, <2>3 DEF TypeOK
<1>5. ReaderInv'
  <2>1. given' \in Packets \cup {NoPacket}
    BY DEF QueueInv, ReaderInv
  <2>2. /\ current_tev' \in [ts : 0..TsMod - 1, E : BOOLEAN] \cup {NoPacket}
        /\ heard' \in Seq(Int) /\ last_tev' \in Nat
    BY DEF QueueInv, ReaderInv, events
  <2> QED BY <1>3, <2>1, <2>2 DEF ReaderInv
<1>6. QueuesInOrder'
  <2>1. \A q \in {rq', tev_rq'} : InOrder(q)
    OBVIOUS
  <2> QED BY <2>1 DEF QueuesInOrder, InOrder
<1> QED BY <1>1, <1>2, <1>4, <1>5, <1>6 DEF QueueInv

LEMMA EmptyQueue ==
  ASSUME NEW p
  PROVE  /\ <<>> \in Seq(Packets) /\ Len(<<>>) <= max_rq_size
         /\ InOrder(<<>>) /\ Near(<<>>, p) /\ Elements(<<>>) = {}
         /\ Len(<<>>) = 0
  BY NumbersAssumption DEF InOrder, Near, Elements

LEMMA QueueFacts ==
  ASSUME QueueInv
  PROVE  /\ rq \in Seq(Packets) /\ tev_rq \in Seq(Packets)
         /\ Len(rq) <= max_rq_size /\ Len(tev_rq) <= max_rq_size
         /\ InOrder(rq) /\ InOrder(tev_rq)
         /\ \A e \in Elements(rq) : e.kind = "media"
         /\ \A e \in Elements(tev_rq) : e.kind = "tev"
         /\ handled \in BOOLEAN
         /\ rcv_last_ts \in 0..TsMod - 1
         /\ flags \subseteq {"RECV_SYNC", "FIRST_PACKET_DELIVERED"}
  BY QueuesInOrderIs DEF QueueInv, TypeOK, ReaderInv, Elements

LEMMA ParseEventKeeps ==
  ASSUME QueueInv, NEW p \in net, Arrives(p), ParseEvent(Parsed(p)),
         UNCHANGED <<handled, sender, events>>
  PROVE  QueueInv' /\ Shrinks
<1> DEFINE m == Parsed(p)
<1>0. m \in Packets /\ Near(tev_rq, m)
  BY ParsedPacket
<1> HIDE DEF m
<1>1. m.kind = "tev" /\ Accepts(m) /\ tev_rq' = Queued(tev_rq, m)
  BY DEF ParseEvent, m
<1>2. /\ rcv_last_ts' \in {Ts(m), rcv_last_ts} /\ flags' \in {Resynced(flags), flags}
      /\ rq' \in {<<>>, rq} /\ given' \in {NoPacket, given}
  BY DEF ParseEvent, m
<1>3. /\ tev_rq' \in Seq(Packets) /\ Len(tev_rq') <= max_rq_size
      /\ Elements(tev_rq') \subseteq Elements(tev_rq) \cup {m} /\ InOrder(tev_rq')
  BY <1>0, <1>1, QueuedInOrder, QueueFacts
<1>4. \A i \in 1..Len(tev_rq') : tev_rq'[i].kind = "tev"
  BY <1>1, <1>3, QueueFacts DEF Elements
<1>5. /\ rq' \in Seq(Packets) /\ Len(rq') <= max_rq_size /\ InOrder(rq')
      /\ Elements(rq') \subseteq Elements(rq) \cup {m}
  BY <1>2, QueueFacts, EmptyQueue
<1>6. \A i \in 1..Len(rq') : rq'[i].kind = "media"
  <2>1. \A e \in Elements(rq') : e.kind = "media"
    BY <1>2, QueueFacts, EmptyQueue
  <2> QED BY <2>1 DEF Elements
<1>7. rcv_last_ts' \in 0..TsMod - 1
  BY <1>0, <1>2, SeqTypes, QueueFacts
<1>8. flags' \subseteq {"RECV_SYNC", "FIRST_PACKET_DELIVERED"}
  BY <1>2, QueueFacts DEF Resynced
<1> QED
  <2> USE DEF m
  <2> QED BY <1>1, <1>2, <1>3, <1>4, <1>5, <1>6, <1>7, <1>8, ParsedQueues

LEMMA ParseMediaKeeps ==
  ASSUME QueueInv, NEW p \in net, Arrives(p), ParseMedia(Parsed(p)),
         UNCHANGED <<handled, sender, events>>
  PROVE  QueueInv' /\ Shrinks
<1> DEFINE m == Parsed(p)
<1>0. m \in Packets /\ Near(rq, m)
  BY ParsedPacket
<1> HIDE DEF m
<1>1. m.kind # "tev" /\ Accepts(m) /\ tev_rq' = tev_rq
  BY DEF ParseMedia, m
<1>2. /\ rcv_last_ts' \in {Ts(m), rcv_last_ts} /\ flags' \in {Resynced(flags), flags}
      /\ rq' \in {<<>>, rq, Queued(<<>>, m), Queued(rq, m)}
      /\ given' \in {NoPacket, given}
  BY DEF ParseMedia, m
<1>3. m.kind \in {"media", "empty"}
  BY <1>0, <1>1, SeqTypes
<1>4. /\ rq' \in Seq(Packets) /\ Len(rq') <= max_rq_size
      /\ Elements(rq') \subseteq Elements(rq) \cup {m} /\ InOrder(rq')
      /\ m.kind = "empty" => Elements(rq') \subseteq Elements(rq)
  <2>1. CASE rq' = rq
    BY <2>1, QueueFacts
  <2>2. CASE rq' = <<>>
    BY <2>2, EmptyQueue
  <2>3. CASE rq' = Queued(rq, m)
    BY <1>0, <2>3, QueuedInOrder, QueueFacts
  <2>4. CASE rq' = Queued(<<>>, m)
    <3>1. /\ <<>> \in Seq(Packets) /\ Len(<<>>) <= max_rq_size
          /\ InOrder(<<>>) /\ Near(<<>>, m) /\ Elements(<<>>) = {}
      BY EmptyQueue
    <3> DEFINE e == <<>>
    <3> HIDE DEF e
    <3>2. /\ Queued(e, m) \in Seq(Packets) /\ Len(Queued(e, m)) <= max_rq_size
          /\ Elements(Queued(e, m)) \subseteq Elements(e) \cup {m}
          /\ m.kind = "empty" => Queued(e, m) = e
          /\ InOrder(Queued(e, m))
      BY <1>0, <3>1, QueuedInOrder DEF e
    <3> QED BY <2>4, <3>1, <3>2 DEF e
  <2> QED BY <1>2, <2>1, <2>2, <2>3, <2>4
<1>5. \A i \in 1..Len(rq') : rq'[i].kind = "media"
  <2>1. \A e \in Elements(rq') : e.kind = "media"
    BY <1>3, <1>4, QueueFacts
  <2> QED BY <2>1 DEF Elements
<1>6. /\ tev_rq' \in Seq(Packets) /\ Len(tev_rq') <= max_rq_size /\ InOrder(tev_rq')
      /\ Elements(tev_rq') \subseteq Elements(tev_rq) \cup {m}
      /\ \A i \in 1..Len(tev_rq') : tev_rq'[i].kind = "tev"
  BY <1>1, QueueFacts DEF Elements
<1>7. rcv_last_ts' \in 0..TsMod - 1
  BY <1>0, <1>2, SeqTypes, QueueFacts
<1>8. flags' \subseteq {"RECV_SYNC", "FIRST_PACKET_DELIVERED"}
  BY <1>2, QueueFacts DEF Resynced
<1> QED
  <2> USE DEF m
  <2> QED BY <1>1, <1>2, <1>4, <1>5, <1>6, <1>7, <1>8, ParsedQueues

LEMMA ParseForeignKeeps ==
  ASSUME QueueInv, NEW p \in net, Arrives(p), ParseForeign(Parsed(p)),
         UNCHANGED <<handled, sender, events>>
  PROVE  /\ QueueInv' /\ Shrinks
         /\ UNCHANGED <<ssrc_set, ssrc, extseq, rq, tev_rq, given, base, top, disturbed>>
         /\ candidate' # "none"
<1> DEFINE m == Parsed(p)
<1>0. m \in Packets
  BY ParsedPacket
<1> HIDE DEF m
<1>1. /\ LocksOn(m) /\ ssrc' # m.src
      /\ UNCHANGED <<extseq, rq, tev_rq, rcv_last_ts, flags, given, base, top, disturbed>>
  BY DEF ParseForeign, m
<1>2. Elements(rq') = Elements(rq) /\ Elements(tev_rq') = Elements(tev_rq)
  BY <1>1
<1>3. Shrinks /\ SenderInv'
  BY <1>2, ParseShrinks
<1>4. WindowInv'
  BY <1>3, ShrinkingWindow DEF QueueInv
<1>5. /\ ssrc_set \in BOOLEAN /\ candidate \in Sources \cup {"none"} /\ same_count \in Nat
      /\ m.src \in Sources /\ m.src # "none"
  BY <1>0, SeqTypes DEF QueueInv, TypeOK
<1>6. /\ ssrc_set' = ssrc_set /\ ssrc' = ssrc /\ candidate' = m.src /\ same_count' \in Nat
  BY <1>1, <1>5 DEF LocksOn
<1>7. TypeOK'
  BY <1>1, <1>5, <1>6 DEF QueueInv, TypeOK
<1>8. ReaderInv'
  BY <1>1, <1>6 DEF QueueInv, ReaderInv, events
<1>9. QueuesInOrder'
  BY <1>1 DEF QueueInv, QueuesInOrder
<1> QED BY <1>1, <1>3, <1>4, <1>5, <1>6, <1>7, <1>8, <1>9 DEF QueueInv

LEMMA ParseKeeps ==
  ASSUME QueueInv, Parse
  PROVE  QueueInv' /\ Shrinks
<1>1. PICK p \in net :
        /\ Arrives(p)
        /\ ParseForeign(Parsed(p)) \/ ParseEvent(Parsed(p)) \/ ParseMedia(Parsed(p))
  BY DEF Parse, Parsed
<1>2. UNCHANGED <<handled, sender, events>>
  BY DEF Parse
<1> QED BY <1>1, <1>2, ParseForeignKeeps, ParseEventKeeps, ParseMediaKeeps

----------------------------------------------------------------------------
(* What the application reads. *)

LEMMA EventRead ==
  ASSUME QueueInv, ReadsEvent
  PROVE  /\ tev_rq' \in Seq(Packets) /\ Len(tev_rq') <= max_rq_size /\ InOrder(tev_rq')
         /\ Elements(tev_rq') \subseteq Elements(tev_rq)
         /\ current_tev' \in [ts : 0..TsMod - 1, E : BOOLEAN] \cup {NoPacket}
         /\ heard' \in Seq(Int) /\ last_tev' \in Nat
         /\ disturbed' \in {disturbed, disturbed \cup {"keys"}}
<1>1. /\ current_tev \in [ts : 0..TsMod - 1, E : BOOLEAN] \cup {NoPacket}
      /\ heard \in Seq(Int) /\ last_tev \in Nat
  BY DEF QueueInv, ReaderInv
<1>2. CASE tev_rq = <<>>
  <2>1. UNCHANGED <<tev_rq, events, disturbed>>
    BY <1>2 DEF ReadsEvent
  <2> QED BY <1>1, <2>1, QueueFacts DEF events
<1>3. CASE tev_rq # <<>>
  <2> DEFINE m == Head(tev_rq)
  <2>1. ChecksEvent(m) /\ tev_rq' = Tail(tev_rq)
    BY <1>3 DEF ReadsEvent
  <2>2. Len(tev_rq) > 0 /\ Len(tev_rq) \in Nat /\ max_rq_size \in Nat
    BY <1>3, QueueFacts, NumbersAssumption
  <2>3. /\ tev_rq' \in Seq(Packets) /\ Len(tev_rq') = Len(tev_rq) - 1
        /\ \A i \in 1..Len(tev_rq') : tev_rq'[i] = tev_rq[1 + i] /\ 1 + i \in 1..Len(tev_rq)
    BY <2>1, <2>2, TailIsSuffix, QueueFacts
  <2>4. InOrder(tev_rq') /\ Elements(tev_rq') \subseteq Elements(tev_rq)
    BY <2>3, SuffixInOrder, QueueFacts
  <2>5. Len(tev_rq') <= max_rq_size
    BY <2>2, <2>3, QueueFacts
  <2>6. m \in Packets
    BY <1>3, QueueFacts
  <2> HIDE DEF m
  <2>7. Ts(m) \in 0..TsMod - 1 /\ m.E \in BOOLEAN /\ m.t \in Int /\ m.n \in Nat
    BY <2>6, SeqTypes
  <2>8. current_tev' \in [ts : 0..TsMod - 1, E : BOOLEAN] \cup {NoPacket}
    <3>1. CASE m.mark \/ current_tev = NoPacket \/ current_tev.ts # Ts(m)
      BY <2>1, <2>7, <3>1 DEF ChecksEvent
    <3>2. CASE ~(m.mark \/ current_tev = NoPacket \/ current_tev.ts # Ts(m))
      <4>1. current_tev \in [ts : 0..TsMod - 1, E : BOOLEAN]
        BY <1>1, <3>2
      <4>2. current_tev' = [current_tev EXCEPT !.E = current_tev.E \/ m.E]
        BY <2>1, <3>2 DEF ChecksEvent
      <4>3. (current_tev.E \/ m.E) \in BOOLEAN
        OBVIOUS
      <4> QED BY <4>1, <4>2, <2>7
    <3> QED BY <3>1, <3>2
  <2>9. heard' \in Seq(Int)
    BY <1>1, <2>1, <2>7 DEF ChecksEvent
  <2>10. last_tev' \in Nat /\ disturbed' \in {disturbed, disturbed \cup {"keys"}}
    BY <2>1, <2>7 DEF ChecksEvent, NoteEvent
  <2> QED BY <2>3, <2>4, <2>5, <2>8, <2>9, <2>10
<1> QED BY <1>2, <1>3

\* A number k of media packets leaves the queue; the last of them is given
\* A number of packets is taken from the front, and the last of them given, or none
GivesFrom(k) ==
  /\ given' = rq[k] /\ rcv_last_ts' = Ts(rq[k]) /\ flags' = {"FIRST_PACKET_DELIVERED"}
  /\ rq' \in Seq(Packets) /\ Len(rq') = Len(rq) - k
  /\ \A i \in 1..Len(rq') : rq'[i] = rq[k + i] /\ k + i \in 1..Len(rq)

LEMMA MediaGiven ==
  ASSUME QueueInv, Receive
  PROVE  \/ UNCHANGED <<rq, rcv_last_ts, given>> /\ flags' \in {flags, flags \ {"RECV_SYNC"}}
         \/ \E k \in 1..Len(rq) : GivesFrom(k)
<1>0. rq \in Seq(Packets) /\ Len(rq) \in Nat
  BY QueueFacts
<1>1. CASE "RECV_SYNC" \in flags /\ rq = <<>>
  BY <1>1 DEF Receive
<1>2. CASE ~("RECV_SYNC" \in flags /\ rq = <<>>)
  <2>1. PICK ts \in 0..TsMod - 1 : Gives(ts)
    BY <1>2 DEF Receive
  <2> DEFINE k == Taken(rq, ts)
  <2>2. k \in 0..Len(rq)
    BY <1>0, TakenSome
  <2>3. IF k = 0 THEN UNCHANGED <<rq, rcv_last_ts, given>> /\ flags' = flags \ {"RECV_SYNC"}
        ELSE /\ rq' = SubSeq(rq, k + 1, Len(rq))
             /\ given' = rq[k]
             /\ rcv_last_ts' = Ts(rq[k])
             /\ flags' = {"FIRST_PACKET_DELIVERED"}
    BY <2>1 DEF Gives
  <2> HIDE DEF k
  <2>4. CASE k = 0
    BY <2>3, <2>4
  <2>5. CASE k # 0
    <3>1. k \in 1..Len(rq)
      BY <2>2, <2>5
    <3>2. /\ rq' = SubSeq(rq, k + 1, Len(rq)) /\ given' = rq[k] /\ rcv_last_ts' = Ts(rq[k])
          /\ flags' = {"FIRST_PACKET_DELIVERED"}
      BY <2>3, <2>5
    <3>3. /\ rq' \in Seq(Packets) /\ Len(rq') = Len(rq) - k
          /\ \A i \in 1..Len(rq') : rq'[i] = rq[k + i] /\ k + i \in 1..Len(rq)
      BY <1>0, <2>2, <3>2, Suffix
    <3> QED BY <3>1, <3>2, <3>3 DEF GivesFrom
  <2> QED BY <2>4, <2>5
<1> QED BY <1>1, <1>2

LEMMA MediaRead ==
  ASSUME QueueInv, Receive
  PROVE  /\ rq' \in Seq(Packets) /\ Len(rq') <= max_rq_size /\ InOrder(rq')
         /\ Elements(rq') \subseteq Elements(rq)
         /\ \A i \in 1..Len(rq') : \E j \in 1..Len(rq) : rq'[i] = rq[j]
         /\ given' = given \/ \E j \in 1..Len(rq) : given' = rq[j]
         /\ rcv_last_ts' \in 0..TsMod - 1
         /\ flags' \subseteq {"RECV_SYNC", "FIRST_PACKET_DELIVERED"}
         /\ ssrc' = ssrc \/ (rq # <<>> /\ ssrc' = rq[1].src)
<1>0. rq \in Seq(Packets) /\ Len(rq) \in Nat
  BY QueueFacts
<1>1. ssrc' = ssrc \/ (rq # <<>> /\ ssrc' = rq[1].src)
  BY DEF Receive
<1>2. CASE UNCHANGED <<rq, rcv_last_ts, given>> /\ flags' \in {flags, flags \ {"RECV_SYNC"}}
  BY <1>1, <1>2, QueueFacts
<1>3. ASSUME NEW k \in 1..Len(rq), GivesFrom(k)
      PROVE  /\ rq' \in Seq(Packets) /\ Len(rq') <= max_rq_size /\ InOrder(rq')
             /\ Elements(rq') \subseteq Elements(rq)
             /\ \A i \in 1..Len(rq') : \E j \in 1..Len(rq) : rq'[i] = rq[j]
             /\ \E j \in 1..Len(rq) : given' = rq[j]
             /\ rcv_last_ts' \in 0..TsMod - 1
             /\ flags' \subseteq {"RECV_SYNC", "FIRST_PACKET_DELIVERED"}
  <2>1. /\ rq' \in Seq(Packets) /\ Len(rq') = Len(rq) - k
        /\ \A i \in 1..Len(rq') : rq'[i] = rq[k + i] /\ k + i \in 1..Len(rq)
    BY <1>3 DEF GivesFrom
  <2>2. /\ given' = rq[k] /\ rcv_last_ts' = Ts(rq[k])
        /\ flags' = {"FIRST_PACKET_DELIVERED"}
    BY <1>3 DEF GivesFrom
  <2>3. InOrder(rq') /\ Elements(rq') \subseteq Elements(rq)
    <3>1. k \in Nat
      BY <1>0
    <3> QED BY <1>0, <2>1, <3>1, SuffixInOrder, QueueFacts
  <2>4. Len(rq') <= max_rq_size
    BY <1>0, <2>1, QueueFacts, NumbersAssumption
  <2>5. rcv_last_ts' \in 0..TsMod - 1
    BY <1>0, <2>2, SeqTypes
  <2> QED BY <2>1, <2>2, <2>3, <2>4, <2>5
<1> QED BY <1>1, <1>2, <1>3, MediaGiven

LEMMA ReceiveKeeps ==
  ASSUME QueueInv, Receive
  PROVE  QueueInv' /\ Shrinks
<1>1. UNCHANGED <<handled, sender, net, ssrc_set, candidate, same_count, extseq, base, top>>
  BY DEF Receive
<1>2. ReadsEvent
  BY DEF Receive
<1>3. UnderWay \subseteq Packets
  BY UnderWayPackets DEF QueueInv
<1>4. UnderWay' \subseteq UnderWay
  BY <1>1, <1>2, EventRead, MediaRead DEF UnderWay
<1>5. Shrinks
  BY <1>1, <1>3, <1>4 DEF Shrinks, Same
<1>6. SenderInv'
  BY <1>1 DEF QueueInv, SenderInv, sender
<1>7. WindowInv'
  BY <1>5, ShrinkingWindow DEF QueueInv
<1>8. QueuesInOrder'
  <2>1. \A q \in {rq', tev_rq'} : InOrder(q)
    BY <1>2, EventRead, MediaRead
  <2> QED BY <2>1 DEF QueuesInOrder, InOrder
<1>9. rq' # <<>> => rq # <<>>
  <2>1. ASSUME rq' # <<>> PROVE rq # <<>>
    <3>1. rq' \in Seq(Packets) /\ \A i \in 1..Len(rq') : \E j \in 1..Len(rq) : rq'[i] = rq[j]
      BY MediaRead
    <3>2. 1 \in 1..Len(rq')
      BY <2>1, <3>1
    <3>3. PICK j \in 1..Len(rq) : rq'[1] = rq[j]
      BY <3>1, <3>2
    <3> QED BY <3>3
  <2> QED BY <2>1
<1>10. rq # <<>> => ssrc_set /\ rq[1] \in Packets
  BY QueueFacts DEF QueueInv, ReaderInv
<1>11. TypeOK'
  <2>1. ssrc' \in Sources \cup {"none"} /\ (ssrc_set' <=> ssrc' # "none")
    <3>1. CASE ssrc' = ssrc
      BY <1>1, <3>1 DEF QueueInv, TypeOK
    <3>2. CASE rq # <<>> /\ ssrc' = rq[1].src
      <4>1. ssrc' \in Sources /\ ssrc' # "none" /\ ssrc_set'
        BY <1>1, <1>10, <3>2, SeqTypes
      <4> QED BY <4>1
    <3> QED BY <3>1, <3>2, MediaRead
  <2>2. \A i \in 1..Len(rq') : rq'[i].kind = "media"
    <3>1. \A e \in Elements(rq') : e.kind = "media"
      BY MediaRead, QueueFacts
    <3> QED BY <3>1 DEF Elements
  <2>3. \A i \in 1..Len(tev_rq') : tev_rq'[i].kind = "tev"
    <3>1. \A e \in Elements(tev_rq') : e.kind = "tev"
      BY <1>2, EventRead, QueueFacts
    <3> QED BY <3>1 DEF Elements
  <2>4. /\ handled' \in BOOLEAN /\ ssrc_set' \in BOOLEAN
        /\ candidate' \in Sources \cup {"none"} /\ same_count' \in Nat
        /\ extseq'.hi \in Nat /\ extseq'.lo \in 0..SeqMod - 1
    BY <1>1 DEF QueueInv, TypeOK
  <2> QED BY <1>2, <2>1, <2>2, <2>3, <2>4, EventRead, MediaRead DEF TypeOK
<1>12. ReaderInv'
  <2>1. given' \in Packets \cup {NoPacket} /\ (~ssrc_set' => given' = NoPacket)
    <3>1. CASE given' = given
      BY <1>1, <3>1 DEF QueueInv, ReaderInv
    <3>2. CASE \E j \in 1..Len(rq) : given' = rq[j]
      BY <1>1, <1>10, <3>2, QueueFacts
    <3> QED BY <3>1, <3>2, MediaRead
  <2>2. /\ extseq' \in [hi : Nat, lo : 0..SeqMod - 1] /\ base' \in Nat /\ top' \in Nat
        /\ rq' # <<>> => ssrc_set'
    BY <1>1, <1>9, <1>10 DEF QueueInv, ReaderInv
  <2> QED BY <1>2, <2>1, <2>2, EventRead, MediaRead DEF ReaderInv
<1> QED BY <1>5, <1>6, <1>7, <1>8, <1>11, <1>12 DEF QueueInv

\* Whatever is not sent now was under way before
LEMMA NextQueues ==
  ASSUME QueueInv, [Next]_vars
  PROVE  QueueInv' /\ (Send \/ Shrinks)
<1>1. CASE Send
  <2>1. TypeOK' /\ ReaderInv' /\ QueuesInOrder'
    BY <1>1, ReaderUnchanged DEF Send
  <2> QED BY <1>1, <2>1, SendsSome DEF QueueInv
<1>2. CASE Lose
  <2>1. TypeOK' /\ ReaderInv' /\ QueuesInOrder'
    BY <1>2, ReaderUnchanged DEF Lose
  <2>2. Shrinks /\ net' \subseteq Packets
    BY <1>2, LoseShrinks
  <2>3. SenderInv'
    BY <2>2 DEF QueueInv, SenderInv, Shrinks, sender
  <2> QED BY <2>1, <2>2, <2>3, ShrinkingWindow DEF QueueInv
<1>3. CASE Parse
  BY <1>3, ParseKeeps
<1>4. CASE Receive
  BY <1>4, ReceiveKeeps
<1>5. CASE UNCHANGED vars
  <2>1. TypeOK' /\ ReaderInv' /\ QueuesInOrder'
    BY <1>5, ReaderUnchanged DEF vars
  <2>2. UnderWay' = UnderWay /\ UNCHANGED <<sender, net>>
    BY <1>5 DEF UnderWay, vars
  <2>3. UnderWay \subseteq Packets
    BY UnderWayPackets DEF QueueInv
  <2>4. Shrinks
    BY <2>2, <2>3 DEF Shrinks, Same
  <2>5. SenderInv'
    BY <2>2 DEF QueueInv, SenderInv, sender
  <2> QED BY <2>1, <2>4, <2>5, ShrinkingWindow DEF QueueInv
<1> QED BY <1>1, <1>2, <1>3, <1>4, <1>5 DEF Next

LEMMA QueuesAlways == Spec => []QueueInv
<1>1. QueueInv /\ [Next]_vars => QueueInv'
  BY NextQueues
<1> QED BY <1>1, InitQueues, PTL DEF Spec

(* A session's variables keep their types; in particular no queue outgrows
   max_rq_size, and no packet without data or of the other kind is queued. *)
THEOREM ReceiveTypes == Spec => []TypeOK
<1>1. QueueInv => TypeOK
  BY DEF QueueInv
<1> QED BY <1>1, QueuesAlways, PTL

(* rtp_putq keeps a queue in the order its packets were sent, each once,
   although it compares numbers that have wrapped. *)
THEOREM SortedQueues == Spec => []QueuesInOrder
<1>1. QueueInv => QueuesInOrder
  BY DEF QueueInv
<1> QED BY <1>1, QueuesAlways, PTL

----------------------------------------------------------------------------
(* The streams, and the loops of the sequence numbers. *)

\* Where a change of source resyncs, or none has been heard, everything queued or
\* given is of one
OneSource == handled \/ candidate = "none"

StreamsInv ==
  OneSource => /\ \A i \in 1..Len(rq) : rq[i].src = ssrc
               /\ given # NoPacket => given.src = ssrc

\* A packet of another source makes it the candidate
LEMMA SourceKept ==
  ASSUME QueueInv, NEW p \in net, Accepts(Parsed(p)), OneSource', UNCHANGED handled
  PROVE  OneSource /\ (Changes(Parsed(p)) => handled)
<1>1. Parsed(p).src # "none" /\ (ssrc_set \in BOOLEAN)
  BY ParsedPacket, SeqTypes DEF QueueInv, TypeOK
<1>2. LocksOn(Parsed(p))
  BY DEF Accepts
<1>3. CASE handled
  BY <1>3 DEF OneSource
<1>4. CASE ~handled
  <2>1. candidate' = "none"
    BY <1>4 DEF OneSource
  <2>2. ~ssrc_set \/ Parsed(p).src = ssrc
    BY <1>1, <1>2, <2>1 DEF LocksOn
  <2>3. candidate = "none" /\ (ssrc_set => ssrc' = ssrc)
    BY <1>2, <2>1, <2>2 DEF LocksOn
  <2> QED BY <2>3 DEF OneSource, Changes
<1> QED BY <1>3, <1>4

LEMMA QueuedAlone ==
  ASSUME QueueInv, NEW p \in net
  PROVE  Elements(Queued(<<>>, Parsed(p))) \subseteq {Parsed(p)}
<1> DEFINE e == <<>>
<1>1. /\ e \in Seq(Packets) /\ Len(e) <= max_rq_size
      /\ InOrder(e) /\ Near(e, Parsed(p)) /\ Elements(e) = {}
  BY EmptyQueue
<1>2. Parsed(p) \in Packets
  BY ParsedPacket
<1> HIDE DEF e
<1>3. Elements(Queued(e, Parsed(p))) \subseteq Elements(e) \cup {Parsed(p)}
  BY <1>1, <1>2, QueuedInOrder
<1> QED BY <1>1, <1>3 DEF e

LEMMA MediaQueued ==
  ASSUME QueueInv, NEW p \in net, ParseMedia(Parsed(p))
  PROVE  Elements(rq') \subseteq Elements(rq) \cup {Parsed(p)}
<1>1. rq' \in {rq, <<>>, Queued(rq, Parsed(p)), Queued(<<>>, Parsed(p))}
  BY DEF ParseMedia
<1>2. Elements(Queued(rq, Parsed(p))) \subseteq Elements(rq) \cup {Parsed(p)}
  BY ParsedPacket, QueuedInOrder, QueueFacts
<1> QED BY <1>1, <1>2, QueuedAlone, EmptyQueue

\* Queue and application keep to the source
LEMMA StreamsStep ==
  ASSUME QueueInv, StreamsInv, [Next]_vars
  PROVE  StreamsInv'
<1>0. QueueInv'
  BY NextQueues
<1> SUFFICES ASSUME OneSource'
             PROVE  /\ \A i \in 1..Len(rq') : rq'[i].src = ssrc'
                    /\ given' # NoPacket => given'.src = ssrc'
  BY DEF StreamsInv
<1>1. handled' = handled
  BY DEF Next, Send, Lose, Parse, Receive, vars
<1>2. OneSource => /\ \A i \in 1..Len(rq) : rq[i].src = ssrc
                   /\ given # NoPacket => given.src = ssrc
  BY DEF StreamsInv
<1>3. CASE UNCHANGED <<rq, given, ssrc>> /\ OneSource
  BY <1>2, <1>3
<1>4. CASE Parse
  <2>1. PICK p \in net :
          /\ Arrives(p)
          /\ ParseForeign(Parsed(p)) \/ ParseEvent(Parsed(p)) \/ ParseMedia(Parsed(p))
    BY <1>4 DEF Parse, Parsed
  <2>2. UNCHANGED <<handled, sender, events>>
    BY <1>4 DEF Parse
  <2>3. CASE ParseForeign(Parsed(p))
    <3>1. UNCHANGED <<rq, given, ssrc>> /\ candidate' # "none"
      BY <2>1, <2>2, <2>3, ParseForeignKeeps
    <3>2. OneSource
      BY <1>1, <3>1 DEF OneSource
    <3> QED BY <1>3, <3>1, <3>2
  <2>4. CASE Accepts(Parsed(p)) /\ (Changes(Parsed(p)) => rq' = <<>> \/ \A i \in 1..Len(rq') : rq'[i] = Parsed(p))
             /\ (Changes(Parsed(p)) => given' = NoPacket)
             /\ Elements(rq') \subseteq Elements(rq) \cup {Parsed(p)}
             /\ given' \in {given, NoPacket}
    <3>0. OneSource
      BY <1>1, <2>4, SourceKept
    <3>1. ssrc' = Parsed(p).src
      BY <2>4 DEF Accepts
    <3>2. CASE Changes(Parsed(p))
      BY <2>4, <3>1, <3>2
    <3>3. CASE ~Changes(Parsed(p)) /\ ssrc_set
      <4>1. ssrc' = ssrc
        BY <3>3 DEF Changes
      <4>2. \A e \in Elements(rq) : e.src = ssrc
        BY <1>2, <3>0 DEF Elements
      <4>3. \A e \in Elements(rq') : e.src = ssrc
        BY <2>4, <3>1, <4>1, <4>2
      <4> QED BY <1>2, <2>4, <3>0, <4>1, <4>3 DEF Elements
    <3>4. CASE ~ssrc_set
      <4>1. rq = <<>> /\ given = NoPacket
        BY <3>4 DEF QueueInv, ReaderInv
      <4>2. Elements(rq) = {}
        BY <4>1, EmptyQueue
      <4>3. \A e \in Elements(rq') : e.src = ssrc'
        BY <2>4, <3>1, <4>2
      <4> QED BY <2>4, <4>1, <4>3 DEF Elements
    <3> QED BY <3>2, <3>3, <3>4
  <2>5. CASE ParseEvent(Parsed(p))
    <3>1. Accepts(Parsed(p)) /\ rq' \in {rq, <<>>} /\ given' \in {given, NoPacket}
      BY <2>5 DEF ParseEvent
    <3>2. Changes(Parsed(p)) => rq' = <<>> /\ given' = NoPacket
      BY <1>1, <2>5, <3>1, SourceKept DEF ParseEvent
    <3> QED BY <2>4, <3>1, <3>2, EmptyQueue
  <2>6. CASE ParseMedia(Parsed(p))
    <3>0. Parsed(p) \in Packets /\ Near(rq, Parsed(p))
      BY ParsedPacket
    <3>1. /\ Accepts(Parsed(p)) /\ given' \in {given, NoPacket}
          /\ rq' \in {rq, <<>>, Queued(rq, Parsed(p)), Queued(<<>>, Parsed(p))}
      BY <2>6 DEF ParseMedia
    <3>2. Changes(Parsed(p)) => rq' \in {<<>>, Queued(<<>>, Parsed(p))} /\ given' = NoPacket
      BY <1>1, <2>6, <3>1, SourceKept DEF ParseMedia
    <3>4. Elements(Queued(<<>>, Parsed(p))) \subseteq {Parsed(p)}
      BY QueuedAlone
    <3>5. Elements(rq') \subseteq Elements(rq) \cup {Parsed(p)}
      BY <2>6, MediaQueued
    <3>6. Changes(Parsed(p)) => \A i \in 1..Len(rq') : rq'[i] = Parsed(p)
      <4>1. Changes(Parsed(p)) => Elements(rq') \subseteq {Parsed(p)}
        BY <3>2, <3>4, EmptyQueue
      <4> QED BY <4>1 DEF Elements
    <3> QED BY <2>4, <3>1, <3>2, <3>5, <3>6
  <2> QED BY <2>1, <2>3, <2>5, <2>6
<1>5. CASE Receive
  <2>0. OneSource
    BY <1>1, <1>5 DEF OneSource, Receive
  <2>1. \A i \in 1..Len(rq') : \E j \in 1..Len(rq) : rq'[i] = rq[j]
    BY <1>5, MediaRead
  <2>2. ssrc' = ssrc
    <3>1. CASE rq # <<>> /\ ssrc' = rq[1].src
      <4>1. 1 \in 1..Len(rq)
        BY <3>1, QueueFacts
      <4> QED BY <1>2, <2>0, <3>1, <4>1
    <3> QED BY <1>5, <3>1, MediaRead
  <2>3. given' = given \/ \E j \in 1..Len(rq) : given' = rq[j]
    BY <1>5, MediaRead
  <2> QED BY <1>2, <2>0, <2>1, <2>2, <2>3
<1>6. Send \/ Lose \/ UNCHANGED vars => UNCHANGED <<rq, given, ssrc>> /\ OneSource
  BY <1>1 DEF Send, Lose, vars, lock_on, OneSource
<1> QED BY <1>3, <1>4, <1>5, <1>6 DEF Next

LEMMA InitStreams == Init => StreamsInv
  BY DEF Init, StreamsInv

(* Where the application has asked for a resync when the source changes, the
   queue never holds packets of two sources, and between two resyncs the
   application is never given packets of two. *)
THEOREM OneStreamAtATime == Spec => []StreamsAreApart
<1>1. StreamsInv => StreamsAreApart
  BY DEF StreamsInv, StreamsAreApart, OneSource
<1> QED BY <1>1, InitStreams, QueuesAlways, StreamsStep, PTL DEF Spec

\* Undisturbed, the loops are counted right, and the source is not behind
LoopInv ==
  "loop" \notin disturbed =>
    /\ \A i \in 1..Len(rq) : rq[i].src = ssrc
    /\ ssrc_set <=> top # 0
    /\ top = 0 => extseq = [hi |-> 0, lo |-> 0]
    /\ top # 0 => /\ top < number[ssrc]
                  /\ (base + extseq.hi) * SeqMod + extseq.lo = top

Counted(n, h, b, l, tp, S) ==
  /\ S > l => n > tp /\ (b + h) * SeqMod + S = n
  /\ ~(S > l) /\ S < LoopWindow /\ l > SeqMod - LoopWindow
       => n > tp /\ (b + (h + 1)) * SeqMod + S = n
  /\ ~(S > l) /\ ~(S < LoopWindow /\ l > SeqMod - LoopWindow) => ~(n > tp)

\* The number that the code keeps, for a packet that disturbs nothing
LEMMA CountsRight ==
  ASSUME NEW n \in Nat \ {0}, NEW h \in Nat, NEW b \in Nat, NEW l \in 0..SeqMod - 1,
         NEW tp \in Nat \ {0}, tp = (b + h) * SeqMod + l,
         tp - n < SeqMod \div 2,
         NEW N, N = n \div SeqMod, NEW S, S = n % SeqMod,
         ~(N < tp \div SeqMod),
         N > tp \div SeqMod => N = (tp \div SeqMod) + 1 /\ S < LoopWindow /\ (tp % SeqMod) > SeqMod - LoopWindow
  PROVE  Counted(n, h, b, l, tp, S)
<1>0. /\ SeqMod \in Nat \ {0} /\ LoopWindow \in Nat \ {0} /\ 4 * LoopWindow <= SeqMod
      /\ (SeqMod \div 2) \in Nat /\ 2 * (SeqMod \div 2) <= SeqMod
  BY NumbersAssumption, Width
<1> DEFINE g == b + h
<1>1. g \in Nat /\ tp = SeqMod * g + l
  BY <1>0
<1>2. N \in Int /\ S \in 0..SeqMod - 1 /\ n = SeqMod * N + S
  BY <1>0, DivMod
<1> HIDE DEF g
<1>3. (tp \div SeqMod) = g /\ (tp % SeqMod) = l
  <2>1. SeqMod \in Nat \ {0} /\ tp \in Int /\ g \in Int /\ l \in 0..SeqMod - 1
    BY <1>0, <1>1
  <2> QED BY ONLY <1>1, <2>1, DivModUnique, Zenon
<1>4. g * SeqMod = SeqMod * g /\ (g + 1) * SeqMod = SeqMod * g + SeqMod
  BY <1>0, <1>1
<1>5. CASE N = g
  <2>1. n = SeqMod * g + S
    BY <1>2, <1>5
  <2> DEFINE x == SeqMod * g
  <2>2. x \in Int
    BY <1>0, <1>1
  <2>3. n = x + S /\ tp = x + l
    BY <1>1, <2>1
  <2> HIDE DEF x
  <2>4. ~(S < LoopWindow /\ l > SeqMod - LoopWindow)
    BY <1>0, <1>2, <2>2, <2>3
  <2>5. n > tp <=> S > l
    BY <1>2, <2>2, <2>3
  <2>6. g * SeqMod + S = n
    BY <1>4, <2>1
  <2> QED BY <2>4, <2>5, <2>6 DEF g, Counted
<1>6. CASE N = g + 1
  <2>1. S < LoopWindow /\ l > SeqMod - LoopWindow
    BY <1>1, <1>3, <1>6
  <2>2. n = (g + 1) * SeqMod + S
    BY <1>0, <1>1, <1>2, <1>6
  <2>3. (g + 1) * SeqMod = g * SeqMod + SeqMod
    BY <1>4
  <2> DEFINE x == g * SeqMod
  <2>4. x \in Int
    BY <1>0, <1>1
  <2>5. n = x + SeqMod + S /\ tp = x + l
    BY <1>1, <1>4, <2>2, <2>3
  <2> HIDE DEF x
  <2>6. n > tp
    BY <1>0, <1>2, <2>4, <2>5
  <2>7. ~(S > l)
    BY <1>0, <1>2, <2>1
  <2>8. b + (h + 1) = g + 1
    BY DEF g
  <2> QED BY <2>1, <2>2, <2>6, <2>7, <2>8 DEF Counted
<1>7. N = g \/ N = g + 1
  BY <1>1, <1>2, <1>3
<1> QED BY <1>5, <1>6, <1>7

\* An accepted packet that disturbs nothing is the source's first, or moves the
\* highest number on, or is not above it
LEMMA AcceptedLoop ==
  ASSUME QueueInv, LoopInv, NEW p \in net, Accepts(Parsed(p)), "loop" \notin disturbed',
         UNCHANGED sender, Elements(rq') \subseteq Elements(rq) \cup {Parsed(p)}
  PROVE  LoopInv'
<1> DEFINE m == Parsed(p)
<1>0. m \in Packets /\ Same(m, p)
  BY ParsedPacket
<1> HIDE DEF m
<1>1. /\ LocksOn(m) /\ ssrc' = m.src /\ CountsSequence(m)
      /\ base' = IF top = 0 THEN m.n \div SeqMod ELSE base
      /\ top' = IF Changes(m) \/ m.n > top THEN m.n ELSE top
      /\ disturbed' = disturbed \cup (IF Disturbs(m) THEN {"loop"} ELSE {})
  BY DEF Accepts, m
<1>2. ~Disturbs(m) /\ "loop" \notin disturbed
  BY <1>1
<1>3. /\ \A i \in 1..Len(rq) : rq[i].src = ssrc
      /\ ssrc_set <=> top # 0
      /\ top = 0 => extseq = [hi |-> 0, lo |-> 0]
      /\ top # 0 => /\ top < number[ssrc]
                    /\ (base + extseq.hi) * SeqMod + extseq.lo = top
  BY <1>2 DEF LoopInv
<1>4. /\ m.n \in Nat \ {0} /\ m.src \in Sources /\ Seq16(m) \in 0..SeqMod - 1
      /\ (m.n \div SeqMod) \in Nat
  BY <1>0, SeqTypes
<1>5. m.n < number[m.src] /\ number[m.src] - 1 - m.n < SeqMod \div 2
  <2>1. p \in UnderWay
    BY DEF UnderWay
  <2> QED BY <1>0, <2>1 DEF Same, QueueInv, WindowInv
<1>6. ssrc_set' = TRUE /\ top' # 0 /\ number' = number
  <2>1. Parsed(p) \in Packets
    BY ParsedPacket
  <2> QED BY <2>1, AcceptsTypes DEF sender
<1>7. ~Changes(m)
  BY <1>2 DEF Disturbs
<1>8. top' = IF m.n > top THEN m.n ELSE top
  BY <1>1, <1>7
<1>9. \A i \in 1..Len(rq') : rq'[i].src = ssrc'
  <2>1. \A e \in Elements(rq) : e.src = ssrc'
    <3>1. CASE ssrc_set
      <4>1. ssrc' = ssrc
        BY <1>7, <3>1 DEF Changes
      <4> QED BY <1>3, <4>1 DEF Elements
    <3>2. CASE ~ssrc_set
      <4>1. rq = <<>>
        BY <3>2 DEF QueueInv, ReaderInv
      <4> QED BY <4>1, EmptyQueue
    <3> QED BY <3>1, <3>2
  <2>2. \A e \in Elements(rq') : e.src = ssrc'
    BY <1>1, <2>1 DEF m
  <2> QED BY <2>2 DEF Elements
<1>10. top' < number'[ssrc'] /\ (base' + extseq'.hi) * SeqMod + extseq'.lo = top'
  <2>0. /\ SeqMod \in Nat \ {0} /\ LoopWindow \in Nat \ {0} /\ 4 * LoopWindow <= SeqMod
        /\ top \in Nat /\ base \in Nat /\ extseq \in [hi : Nat, lo : 0..SeqMod - 1]
    BY NumbersAssumption, Width DEF QueueInv, ReaderInv
  <2>1. CASE top = 0
    <3>1. top' = m.n /\ base' = m.n \div SeqMod
      BY <1>1, <1>4, <1>8, <2>1
    <3>2. extseq.hi = 0 /\ extseq.lo = 0
      BY <1>3, <2>1
    <3>3. extseq'.hi = 0 /\ extseq'.lo = Seq16(m)
      <4>1. ~(extseq.lo > SeqMod - LoopWindow)
        BY <2>0, <3>2
      <4>2. CASE Seq16(m) > extseq.lo
        BY <1>1, <2>0, <3>2, <4>2 DEF CountsSequence
      <4>3. CASE ~(Seq16(m) > extseq.lo)
        <5>1. extseq' = extseq
          BY <1>1, <4>1, <4>3 DEF CountsSequence
        <5> QED BY <1>4, <3>2, <4>3, <5>1
      <4> QED BY <4>2, <4>3
    <3>4. m.n = SeqMod * (m.n \div SeqMod) + Seq16(m)
      <4>1. m.n \in Int /\ Seq16(m) = (m.n % SeqMod)
        BY <1>4 DEF Seq16
      <4>2. m.n = SeqMod * (m.n \div SeqMod) + (m.n % SeqMod)
        BY <2>0, <4>1, DivMod, Zenon
      <4> QED BY <4>1, <4>2
    <3>5. base' \in Nat /\ base' + 0 = base' /\ base' * SeqMod = SeqMod * base'
      BY <1>4, <2>0, <3>1
    <3>6. (base' + 0) * SeqMod + Seq16(m) = m.n
      BY <3>1, <3>4, <3>5
    <3> QED BY <1>1, <1>5, <1>6, <3>1, <3>3, <3>6
  <2>2. CASE top # 0
    <3>1. ssrc' = ssrc /\ ssrc_set /\ m.src = ssrc
      BY <1>1, <1>3, <1>7, <2>2 DEF Changes
    <3>2. top < number[m.src] /\ (base + extseq.hi) * SeqMod + extseq.lo = top /\ base' = base
      BY <1>1, <1>3, <2>2, <3>1
    <3>3. number[m.src] \in Nat /\ (SeqMod \div 2) \in Nat
      BY <1>4, Width DEF QueueInv, SenderInv
    <3>4. top - m.n < SeqMod \div 2
      BY <1>4, <1>5, <2>0, <3>2, <3>3
    <3> DEFINE N == m.n \div SeqMod
    <3> DEFINE S == Seq16(m)
    <3> DEFINE h == extseq.hi
    <3> DEFINE l == extseq.lo
    <3>5. /\ ~(N < top \div SeqMod)
          /\ N > top \div SeqMod
               => N = (top \div SeqMod) + 1 /\ S < LoopWindow
                  /\ (top % SeqMod) > SeqMod - LoopWindow
      BY <1>2, <2>2 DEF Disturbs
    <3>6. h \in Nat /\ l \in 0..SeqMod - 1 /\ S = (m.n % SeqMod)
      BY <2>0 DEF Seq16
    <3>7. extseq' = IF S > l THEN [extseq EXCEPT !.lo = S]
                    ELSE IF S < LoopWindow /\ l > SeqMod - LoopWindow
                    THEN [hi |-> h + 1, lo |-> S]
                    ELSE extseq
      BY <1>1 DEF CountsSequence
    <3>8. top \in Nat \ {0} /\ top = (base + h) * SeqMod + l
      BY <2>0, <2>2, <3>2
    <3>9. S \in 0..SeqMod - 1
      BY <1>4
    <3>10. /\ S > l => m.n > top /\ (base + h) * SeqMod + S = m.n
           /\ ~(S > l) /\ S < LoopWindow /\ l > SeqMod - LoopWindow
                => m.n > top /\ (base + (h + 1)) * SeqMod + S = m.n
           /\ ~(S > l) /\ ~(S < LoopWindow /\ l > SeqMod - LoopWindow) => ~(m.n > top)
      <4>1. N = m.n \div SeqMod /\ m.n \in Nat \ {0} /\ base \in Nat
        BY <1>4, <2>0
      <4> HIDE DEF N, S, h, l
      <4>2. Counted(m.n, h, base, l, top, S)
        BY ONLY <3>4, <3>5, <3>6, <3>8, <4>1, CountsRight, Zenon
      <4> QED BY <4>2 DEF Counted
    <3> HIDE DEF N, S, h, l
    <3>11. CASE S > l
      <4>1. extseq'.hi = h /\ extseq'.lo = S
        BY <2>0, <3>7, <3>11 DEF h
      <4> QED BY <1>1, <1>5, <1>6, <1>8, <3>2, <3>10, <3>11, <4>1
    <3>12. CASE ~(S > l) /\ S < LoopWindow /\ l > SeqMod - LoopWindow
      <4>1. extseq'.hi = h + 1 /\ extseq'.lo = S
        BY <3>7, <3>12
      <4> QED BY <1>1, <1>5, <1>6, <1>8, <3>2, <3>10, <3>12, <4>1
    <3>13. CASE ~(S > l) /\ ~(S < LoopWindow /\ l > SeqMod - LoopWindow)
      <4>1. extseq' = extseq /\ top' = top
        BY <1>8, <3>7, <3>10, <3>13
      <4> QED BY <1>1, <1>6, <3>1, <3>2, <4>1
    <3> QED BY <3>11, <3>12, <3>13
  <2> QED BY <2>1, <2>2
<1> QED BY <1>6, <1>9, <1>10 DEF LoopInv

LEMMA SendersGoOn ==
  ASSUME QueueInv, Send, NEW s \in Sources
  PROVE  number'[s] >= number[s]
<1>1. number[s] \in Nat /\ number["peer"] \in Nat /\ "peer" \in Sources
  BY DEF QueueInv, SenderInv, Sources
<1>2. CASE SendsMedia
  <2>1. PICK r \in Sources : number' = [number EXCEPT ![r] = @ + 1]
    BY <1>2 DEF SendsMedia
  <2>2. number'[s] = IF s = r THEN number[s] + 1 ELSE number[s]
    BY <2>1 DEF QueueInv, SenderInv
  <2> QED BY <1>1, <2>2
<1>3. CASE SendsKey
  <2>1. number' = [number EXCEPT !["peer"] = number["peer"] + 3]
    BY <1>3 DEF SendsKey
  <2>2. number'[s] = IF s = "peer" THEN number["peer"] + 3 ELSE number[s]
    BY <2>1 DEF QueueInv, SenderInv
  <2> QED BY <1>1, <2>2
<1> QED BY <1>2, <1>3 DEF Send

LEMMA LoopStep ==
  ASSUME QueueInv, LoopInv, [Next]_vars
  PROVE  LoopInv'
<1> SUFFICES ASSUME "loop" \notin disturbed'
             PROVE  LoopInv'
  BY DEF LoopInv
<1>1. CASE UNCHANGED <<rq, ssrc_set, ssrc, extseq, base, top, disturbed, number>>
  BY <1>1 DEF LoopInv
<1>2. CASE Send
  <2>1. UNCHANGED <<rq, ssrc_set, ssrc, extseq, base, top, disturbed>>
    BY <1>2 DEF Send, lock_on
  <2>2. ASSUME top # 0, top < number[ssrc], ssrc_set <=> top # 0
        PROVE  top < number'[ssrc]
    <3>1. ssrc \in Sources
      BY <2>2 DEF QueueInv, TypeOK
    <3>2. number'[ssrc] >= number[ssrc]
      BY <1>2, <3>1, SendersGoOn
    <3>3. number[ssrc] \in Nat /\ top \in Nat
      BY <3>1 DEF QueueInv, SenderInv, ReaderInv
    <3>4. number'[ssrc] \in Nat
      BY <1>2, <3>1, NextQueues DEF QueueInv, SenderInv, Next
    <3> QED BY <2>2, <3>2, <3>3, <3>4
  <2> QED BY <2>1, <2>2 DEF LoopInv
<1>3. CASE Lose
  BY <1>1, <1>3 DEF Lose, sender, lock_on
<1>4. CASE Parse
  <2>1. PICK p \in net :
          /\ Arrives(p)
          /\ ParseForeign(Parsed(p)) \/ ParseEvent(Parsed(p)) \/ ParseMedia(Parsed(p))
    BY <1>4 DEF Parse, Parsed
  <2>2. UNCHANGED <<handled, sender, events>>
    BY <1>4 DEF Parse
  <2>3. CASE ParseForeign(Parsed(p))
    <3>1. UNCHANGED <<ssrc_set, ssrc, extseq, rq, base, top, disturbed>>
      BY <2>1, <2>2, <2>3, ParseForeignKeeps
    <3> QED BY <1>1, <2>2, <3>1 DEF sender
  <2>4. CASE ParseEvent(Parsed(p))
    <3>1. Accepts(Parsed(p)) /\ rq' \in {rq, <<>>}
      BY <2>4 DEF ParseEvent
    <3>2. Elements(rq') \subseteq Elements(rq) \cup {Parsed(p)}
      BY <3>1, EmptyQueue
    <3> QED BY <2>2, <3>1, <3>2, AcceptedLoop
  <2>5. CASE ParseMedia(Parsed(p))
    <3>1. Accepts(Parsed(p))
      BY <2>5 DEF ParseMedia
    <3>2. Elements(rq') \subseteq Elements(rq) \cup {Parsed(p)}
      BY <2>5, MediaQueued
    <3> QED BY <2>2, <3>1, <3>2, AcceptedLoop
  <2> QED BY <2>1, <2>3, <2>4, <2>5
<1>5. CASE Receive
  <2>1. UNCHANGED <<number, ssrc_set, extseq, base, top>>
    BY <1>5 DEF Receive, sender
  <2>2. "loop" \notin disturbed
    <3>1. disturbed' \in {disturbed, disturbed \cup {"keys"}}
      BY <1>5, EventRead DEF Receive
    <3> QED BY <3>1
  <2>3. \A i \in 1..Len(rq) : rq[i].src = ssrc
    BY <2>2 DEF LoopInv
  <2>4. ssrc' = ssrc
    <3>1. CASE rq # <<>> /\ ssrc' = rq[1].src
      <4>1. 1 \in 1..Len(rq)
        BY <3>1, QueueFacts
      <4> QED BY <2>3, <3>1, <4>1
    <3> QED BY <1>5, <3>1, MediaRead
  <2>5. \A i \in 1..Len(rq') : rq'[i].src = ssrc'
    BY <1>5, <2>3, <2>4, MediaRead
  <2> QED BY <2>1, <2>2, <2>4, <2>5 DEF LoopInv
<1>6. CASE UNCHANGED vars
  BY <1>1, <1>6 DEF vars, sender, lock_on
<1> QED BY <1>2, <1>3, <1>4, <1>5, <1>6 DEF Next

(* The extended sequence number of a receiver report counts every loop of the
   source's 16-bit numbers, however wide they are, as long as nothing happens
   that the window around the loop cannot cope with. *)
THEOREM EveryLoopCounted == Spec => []LoopsCounted
<1>1. Init => LoopInv
  <2> SUFFICES ASSUME Init PROVE LoopInv
    OBVIOUS
  <2>1. rq = <<>> /\ ssrc_set = FALSE /\ top = 0 /\ extseq = [hi |-> 0, lo |-> 0]
    BY DEF Init
  <2>2. Len(rq) = 0
    BY <2>1
  <2>3. ssrc_set <=> top # 0
    BY <2>1
  <2> QED BY <2>1, <2>2, <2>3 DEF LoopInv
<1>2. LoopInv => LoopsCounted
  BY DEF LoopInv, LoopsCounted
<1> QED BY <1>1, <1>2, QueuesAlways, LoopStep, PTL DEF Spec

----------------------------------------------------------------------------
(* The keys. *)

Tevs == {p \in UnderWay : p.kind = "tev"}

\* What is sent after an end of a key is that key's end again, or a later key
Follows(p, q) == p.t <= q.t /\ (p.t = q.t /\ p.E => q.E /\ ~q.mark)

KeyInv ==
  /\ \A p \in Tevs : p.src = "peer" /\ p.t <= time["peer"]
  /\ \A p, q \in Tevs : p.n <= q.n => Follows(p, q)

\* Once keys are dialled the timestamps do not go back
ForwardInv ==
  (Tevs # {} \/ heard # <<>> \/ \E i \in 1..Len(script) : script[i] = <<"key">>)
    => \A i \in 1..Len(script) : script[i] = <<"key">> \/ script[i][3] # -Jump

\* The key of this timestamp is known to have ended
Known(t) == current_tev # NoPacket /\ current_tev.ts = (t % TsMod) /\ current_tev.E

\* A packet that may still be read is of a later key, or repeats the last end
HeardInv ==
  "keys" \notin disturbed =>
    /\ \A i, j \in 1..Len(heard) : i < j => heard[i] < heard[j]
    /\ \A i \in 1..Len(heard) : heard[i] <= time["peer"]
    /\ \A i \in 1..Len(heard) : \A p \in Tevs :
         p.n >= last_tev => \/ p.t > heard[i]
                            \/ p.t = heard[i] /\ p.E /\ ~p.mark /\ Known(heard[i])

KeysInv == KeyInv /\ ForwardInv /\ HeardInv

LEMMA TevsPackets ==
  ASSUME QueueInv
  PROVE  /\ Tevs \subseteq Packets /\ time["peer"] \in Int /\ number["peer"] \in Nat
         /\ \A p \in Tevs : p.n \in Nat /\ p.t \in Int
         /\ heard \in Seq(Int) /\ last_tev \in Nat
         /\ \A i \in 1..Len(heard) : heard[i] \in Int
<1>1. Tevs \subseteq Packets
  BY UnderWayPackets DEF Tevs, QueueInv
<1>2. \A p \in Tevs : p.n \in Nat /\ p.t \in Int
  BY <1>1 DEF Packets
<1>3. time["peer"] \in Int /\ number["peer"] \in Nat
  BY DEF QueueInv, SenderInv, Sources
<1>4. heard \in Seq(Int) /\ last_tev \in Nat
  BY DEF QueueInv, ReaderInv
<1> QED BY <1>1, <1>2, <1>3, <1>4

LEMMA ShrinkingTevs ==
  ASSUME Shrinks, NEW p \in Tevs'
  PROVE  \E q \in Tevs : Same(p, q)
<1>1. p \in UnderWay' /\ p.kind = "tev"
  BY DEF Tevs
<1>2. PICK q \in UnderWay : Same(p, q)
  BY <1>1 DEF Shrinks
<1>3. q \in Tevs
  BY <1>1, <1>2 DEF Tevs, Same
<1> QED BY <1>2, <1>3

LEMMA ShrinkingKeys ==
  ASSUME KeyInv, Shrinks
  PROVE  KeyInv'
<1>1. time' = time
  BY DEF Shrinks, sender
<1>2. ASSUME NEW p \in Tevs' PROVE p.src = "peer" /\ p.t <= time'["peer"]
  <2>1. PICK q \in Tevs : Same(p, q)
    BY ShrinkingTevs
  <2> QED BY <1>1, <2>1 DEF KeyInv, Same
<1>3. ASSUME NEW p \in Tevs', NEW q \in Tevs', p.n <= q.n PROVE Follows(p, q)
  <2>1. PICK r \in Tevs : Same(p, r)
    BY ShrinkingTevs
  <2>2. PICK s \in Tevs : Same(q, s)
    BY ShrinkingTevs
  <2>3. Follows(r, s)
    BY <1>3, <2>1, <2>2 DEF KeyInv, Same
  <2> QED BY <2>1, <2>2, <2>3 DEF Follows, Same
<1> QED BY <1>2, <1>3 DEF KeyInv

LEMMA ShrinkingForward ==
  ASSUME ForwardInv, Shrinks, heard' # <<>> => heard # <<>> \/ Tevs # {}
  PROVE  ForwardInv'
<1>1. script' = script
  BY DEF Shrinks, sender
<1>2. Tevs' # {} => Tevs # {}
  BY ShrinkingTevs
<1> QED BY <1>1, <1>2 DEF ForwardInv

LEMMA ShrinkingHeard ==
  ASSUME HeardInv, Shrinks, UNCHANGED events, "keys" \notin disturbed' => "keys" \notin disturbed
  PROVE  HeardInv'
<1> SUFFICES ASSUME "keys" \notin disturbed' PROVE HeardInv'
  BY DEF HeardInv
<1>1. time' = time /\ heard' = heard /\ last_tev' = last_tev /\ current_tev' = current_tev
  BY DEF Shrinks, sender, events
<1>2. /\ \A i, j \in 1..Len(heard) : i < j => heard[i] < heard[j]
      /\ \A i \in 1..Len(heard) : heard[i] <= time["peer"]
      /\ \A i \in 1..Len(heard) : \A p \in Tevs :
           p.n >= last_tev => \/ p.t > heard[i]
                              \/ p.t = heard[i] /\ p.E /\ ~p.mark /\ Known(heard[i])
  BY DEF HeardInv
<1>3. ASSUME NEW i \in 1..Len(heard), NEW p \in Tevs', p.n >= last_tev
      PROVE  p.t > heard[i] \/ (p.t = heard[i] /\ p.E /\ ~p.mark /\ Known(heard[i]))
  <2>1. PICK q \in Tevs : Same(p, q)
    BY ShrinkingTevs
  <2>2. q.t > heard[i] \/ (q.t = heard[i] /\ q.E /\ ~q.mark /\ Known(heard[i]))
    BY <1>2, <1>3, <2>1 DEF Same
  <2> QED BY <2>1, <2>2 DEF Same
<1> QED BY <1>1, <1>2, <1>3 DEF HeardInv, Known

\* A key pressed, or a media packet sent while keys are about
LEMMA KeysSent ==
  ASSUME QueueInv, KeysInv, Send
  PROVE  KeysInv'
<1>0. /\ UNCHANGED <<rq, tev_rq, current_tev, heard, last_tev, disturbed>>
      /\ script # <<>> /\ script' = Tail(script)
  BY DEF Send, events, SendsMedia, SendsKey
<1>1. /\ script \in Seq(Entries) /\ Len(script) > 0 /\ Head(script) = script[1]
      /\ \A i \in 1..Len(script') : script'[i] = script[1 + i] /\ 1 + i \in 1..Len(script)
  <2>1. script \in Seq(Entries) /\ Len(script) > 0
    BY <1>0 DEF QueueInv, SenderInv
  <2> QED BY <1>0, <2>1, TailIsSuffix
<1>2. CASE SendsMedia
  <2>1. PICK s \in Sources, kind \in {"media", "empty"}, step \in {0, 1, Jump, -Jump} :
          /\ Head(script) = <<s, kind, step>>
          /\ time' = [time EXCEPT ![s] = @ + step]
          /\ net' = net \cup {Packet(s, kind, number[s], time'[s], FALSE, FALSE, 1)}
    BY <1>2 DEF SendsMedia
  <2>2. Tevs' = Tevs
    <3>1. Packet(s, kind, number[s], time'[s], FALSE, FALSE, 1).kind # "tev"
      BY DEF Packet
    <3> DEFINE r == Packet(s, kind, number[s], time'[s], FALSE, FALSE, 1)
    <3>2. UnderWay' = UnderWay \cup {r}
      BY <1>0, <2>1 DEF UnderWay
    <3> HIDE DEF r
    <3> QED BY <3>1, <3>2 DEF Tevs, r
  <2>3. Tevs # {} \/ heard # <<>> => time'["peer"] >= time["peer"]
    <3> SUFFICES ASSUME Tevs # {} \/ heard # <<>>
                 PROVE  time'["peer"] >= time["peer"]
      OBVIOUS
    <3>1. script[1] = <<"key">> \/ script[1][3] # -Jump
      BY <1>1 DEF ForwardInv, KeysInv
    <3>2. script[1] = <<s, kind, step>>
      BY <1>1, <2>1
    <3>3. <<s, kind, step>> # <<"key">>
      OBVIOUS
    <3>4. step # -Jump
      BY <3>1, <3>2, <3>3
    <3>5. step \in Nat
      BY <3>4, NumbersAssumption
    <3>6. time'["peer"] = IF s = "peer" THEN time["peer"] + step ELSE time["peer"]
      BY <2>1 DEF QueueInv, SenderInv, Sources
    <3> QED BY <3>5, <3>6, TevsPackets
  <2>4. time'["peer"] \in Int
    BY NextQueues DEF QueueInv, SenderInv, Sources, Next
  <2>5. KeyInv'
    <3>1. ASSUME NEW p \in Tevs PROVE p.src = "peer" /\ p.t <= time'["peer"]
      BY <2>3, <2>4, TevsPackets DEF KeysInv, KeyInv
    <3> QED BY <2>2, <3>1 DEF KeysInv, KeyInv
  <2>6. ForwardInv'
    BY <1>0, <1>1, <2>2 DEF KeysInv, ForwardInv
  <2>7. HeardInv'
    <3> SUFFICES ASSUME "keys" \notin disturbed' PROVE HeardInv'
      BY DEF HeardInv
    <3>1. /\ \A i, j \in 1..Len(heard) : i < j => heard[i] < heard[j]
          /\ \A i \in 1..Len(heard) : heard[i] <= time["peer"]
          /\ \A i \in 1..Len(heard) : \A p \in Tevs :
               p.n >= last_tev => \/ p.t > heard[i]
                                  \/ p.t = heard[i] /\ p.E /\ ~p.mark /\ Known(heard[i])
      BY <1>0 DEF KeysInv, HeardInv
    <3>2. ASSUME NEW i \in 1..Len(heard) PROVE heard[i] <= time'["peer"]
      <4>1. heard # <<>>
        BY TevsPackets
      <4> QED BY <2>3, <2>4, <3>1, <4>1, TevsPackets
    <3> QED BY <1>0, <2>2, <3>1, <3>2 DEF HeardInv, Known
  <2> QED BY <2>5, <2>6, <2>7 DEF KeysInv
<1>3. CASE SendsKey
  <2> DEFINE n == number["peer"]
  <2> DEFINE t == time["peer"] + 1
  <2> DEFINE tev(i, copies) == Packet("peer", "tev", n + i, t, i = 0, i = 2, copies)
  <2>1. /\ Head(script) = <<"key">>
        /\ time' = [time EXCEPT !["peer"] = t]
        /\ net' = net \cup {tev(0, 1), tev(1, 1), tev(2, 3)}
    BY <1>3 DEF SendsKey
  <2>2. n \in Nat /\ time["peer"] \in Int /\ t = time["peer"] + 1
    BY TevsPackets
  <2>3. time'["peer"] = t
    BY <2>1 DEF QueueInv, SenderInv, Sources
  <2>4. ASSUME NEW i \in 0..2, NEW c
        PROVE  /\ tev(i, c).src = "peer" /\ tev(i, c).n = n + i /\ tev(i, c).t = t
               /\ tev(i, c).mark = (i = 0) /\ tev(i, c).E = (i = 2)
    BY DEF Packet
  <2>5. ASSUME NEW p \in Tevs'
        PROVE  p \in Tevs \/ \E i \in 0..2, c \in 1..3 : p = tev(i, c)
    <3>1. 0 \in 0..2 /\ 1 \in 0..2 /\ 2 \in 0..2 /\ 1 \in 1..3 /\ 3 \in 1..3
      OBVIOUS
    <3> HIDE DEF tev
    <3>2. p \in UnderWay \/ p \in {tev(0, 1), tev(1, 1), tev(2, 3)}
      BY <1>0, <2>1 DEF Tevs, UnderWay
    <3> QED BY <3>1, <3>2 DEF Tevs
  <2> HIDE DEF n, t, tev
  <2>6. ASSUME NEW p \in Tevs
        PROVE  p.n \in Nat /\ p.t \in Int /\ p.n < n /\ p.t < t /\ p.src = "peer"
    <3>1. p.src = "peer" /\ p.t <= time["peer"]
      BY DEF KeysInv, KeyInv
    <3>2. p.n < n
      BY <3>1 DEF Tevs, QueueInv, WindowInv, n
    <3> QED BY <2>2, <3>1, <3>2, TevsPackets
  <2>7. KeyInv'
    <3>1. ASSUME NEW p \in Tevs' PROVE p.src = "peer" /\ p.t <= time'["peer"]
      BY <2>2, <2>3, <2>4, <2>5, <2>6
    <3>2. ASSUME NEW p \in Tevs', NEW q \in Tevs', p.n <= q.n PROVE Follows(p, q)
      <4>1. CASE p \in Tevs /\ q \in Tevs
        BY <3>2, <4>1 DEF KeysInv, KeyInv
      <4>2. ASSUME p \in Tevs, NEW i \in 0..2, NEW c, q = tev(i, c) PROVE Follows(p, q)
        <5>1. q.t = t
          BY <2>4, <4>2
        <5> QED BY <2>2, <2>6, <4>2, <5>1 DEF Follows
      <4>3. ASSUME q \in Tevs, NEW i \in 0..2, NEW c, p = tev(i, c) PROVE FALSE
        <5>1. p.n = n + i
          BY <2>4, <4>3
        <5> QED BY <2>2, <2>6, <3>2, <4>3, <5>1
      <4>4. ASSUME NEW i \in 0..2, NEW c, p = tev(i, c), NEW j \in 0..2, NEW d, q = tev(j, d)
            PROVE  Follows(p, q)
        <5>1. p.n = n + i /\ q.n = n + j /\ p.t = t /\ q.t = t
          BY <2>4, <4>4
        <5>2. p.E = (i = 2) /\ q.E = (j = 2) /\ q.mark = (j = 0)
          BY <2>4, <4>4
        <5>3. i <= j
          BY <2>2, <3>2, <5>1
        <5>4. p.E => q.E /\ ~q.mark
          <6>1. i = 2 => j = 2 /\ j # 0
            BY <5>3
          <6> QED BY <5>2, <6>1
        <5>5. t <= t
          BY <2>2
        <5> QED BY <5>1, <5>4, <5>5 DEF Follows
      <4> QED BY <2>5, <4>1, <4>2, <4>3, <4>4
    <3> QED BY <3>1, <3>2 DEF KeyInv
  <2>8. ForwardInv'
    <3>1. \E i \in 1..Len(script) : script[i] = <<"key">>
      <4>1. 1 \in 1..Len(script) /\ script[1] = <<"key">>
        BY <1>1, <2>1
      <4> QED BY <4>1
    <3>2. \A i \in 1..Len(script) : script[i] = <<"key">> \/ script[i][3] # -Jump
      BY <3>1 DEF KeysInv, ForwardInv
    <3>3. \A i \in 1..Len(script') : script'[i] = <<"key">> \/ script'[i][3] # -Jump
      BY <1>1, <3>2
    <3> QED BY <3>3 DEF ForwardInv
  <2>9. HeardInv'
    <3> SUFFICES ASSUME "keys" \notin disturbed' PROVE HeardInv'
      BY DEF HeardInv
    <3>1. /\ \A i, j \in 1..Len(heard) : i < j => heard[i] < heard[j]
          /\ \A i \in 1..Len(heard) : heard[i] <= time["peer"]
          /\ \A i \in 1..Len(heard) : \A p \in Tevs :
               p.n >= last_tev => \/ p.t > heard[i]
                                  \/ p.t = heard[i] /\ p.E /\ ~p.mark /\ Known(heard[i])
      BY <1>0 DEF KeysInv, HeardInv
    <3>2. ASSUME NEW i \in 1..Len(heard) PROVE heard[i] < t
      BY <2>2, <3>1, TevsPackets
    <3>3. ASSUME NEW i \in 1..Len(heard) PROVE heard[i] <= time'["peer"]
      BY <2>2, <2>3, <3>2, TevsPackets
    <3>4. ASSUME NEW i \in 1..Len(heard), NEW p \in Tevs', p.n >= last_tev
          PROVE  p.t > heard[i] \/ (p.t = heard[i] /\ p.E /\ ~p.mark /\ Known(heard[i]))
      <4>1. CASE p \in Tevs
        BY <3>1, <3>4, <4>1
      <4>2. ASSUME NEW j \in 0..2, NEW c, p = tev(j, c) PROVE p.t > heard[i]
        <5>1. p.t = t
          BY <2>4, <4>2
        <5> QED BY <2>2, <3>2, <5>1, TevsPackets
      <4> QED BY <2>5, <4>1, <4>2
    <3> QED BY <1>0, <3>1, <3>3, <3>4 DEF HeardInv, Known
  <2> QED BY <2>7, <2>8, <2>9 DEF KeysInv
<1> QED BY <1>2, <1>3 DEF Send

\* Reading an event: a key is heard only if its end was not known
LEMMA KeyRead ==
  ASSUME QueueInv, KeysInv, Receive, tev_rq # <<>>
  PROVE  HeardInv'
<1> DEFINE m == Head(tev_rq)
<1> SUFFICES ASSUME "keys" \notin disturbed' PROVE HeardInv'
  BY DEF HeardInv
<1>1. ChecksEvent(m) /\ tev_rq' = Tail(tev_rq)
  BY DEF Receive, ReadsEvent
<1>2. m \in Tevs
  <2>1. tev_rq \in Seq(Packets) /\ Len(tev_rq) > 0 /\ m = tev_rq[1] /\ 1 \in 1..Len(tev_rq)
    BY QueueFacts
  <2>2. m \in Elements(tev_rq)
    BY <2>1 DEF Elements
  <2> HIDE DEF m
  <2> QED BY <2>2, QueueFacts DEF Tevs, UnderWay
<1> HIDE DEF m
<1>3. m.n >= last_tev /\ last_tev' = m.n /\ "keys" \notin disturbed
  <2>1. m.n \in Nat /\ last_tev \in Nat
    BY <1>2, TevsPackets
  <2>2. ~(m.n < last_tev) /\ last_tev' = m.n /\ "keys" \notin disturbed
    BY <1>1 DEF ChecksEvent, NoteEvent
  <2> QED BY <2>1, <2>2
<1>4. /\ \A i, j \in 1..Len(heard) : i < j => heard[i] < heard[j]
      /\ \A i \in 1..Len(heard) : heard[i] <= time["peer"]
      /\ \A i \in 1..Len(heard) : \A p \in Tevs :
           p.n >= last_tev => \/ p.t > heard[i]
                              \/ p.t = heard[i] /\ p.E /\ ~p.mark /\ Known(heard[i])
  BY <1>3 DEF KeysInv, HeardInv
<1>5. time' = time /\ Tevs' \subseteq Tevs
  <2>1. UNCHANGED <<net, time>>
    BY DEF Receive, sender
  <2>2. Elements(rq') \subseteq Elements(rq) /\ Elements(tev_rq') \subseteq Elements(tev_rq)
    BY MediaRead, EventRead DEF Receive
  <2> QED BY <2>1, <2>2 DEF Tevs, UnderWay
<1>6. m.t \in Int /\ m.t <= time["peer"] /\ m.E \in BOOLEAN /\ Ts(m) = (m.t % TsMod)
  BY <1>2, TevsPackets, SeqTypes DEF KeysInv, KeyInv, Ts
<1> DEFINE fresh == m.mark \/ current_tev = NoPacket \/ current_tev.ts # Ts(m)
<1>7. current_tev' = IF fresh THEN [ts |-> Ts(m), E |-> m.E]
                     ELSE [current_tev EXCEPT !.E = @ \/ m.E]
  BY <1>1 DEF ChecksEvent
<1>8. heard' = IF m.E /\ (fresh \/ ~current_tev.E) THEN Append(heard, m.t) ELSE heard
  BY <1>1 DEF ChecksEvent
<1>9. ~fresh => current_tev \in [ts : 0..TsMod - 1, E : BOOLEAN]
  BY DEF QueueInv, ReaderInv
<1>10. \A i \in 1..Len(heard) : Known(heard[i]) /\ m.t = heard[i] /\ ~m.mark => ~fresh /\ current_tev.E
  BY <1>6 DEF Known
\* Where a key was heard at m's time, its end is still known
<1>11. ASSUME NEW i \in 1..Len(heard), Known(heard[i]), m.t = heard[i], ~m.mark
       PROVE  Known(heard[i])'
  <2>1. ~fresh /\ current_tev.E
    BY <1>10, <1>11
  <2>2. current_tev \in [ts : 0..TsMod - 1, E : BOOLEAN]
    BY <1>9, <2>1
  <2>3. current_tev' = [current_tev EXCEPT !.E = current_tev.E \/ m.E]
    BY <1>7, <2>1
  <2>4. current_tev'.ts = current_tev.ts /\ current_tev'.E /\ current_tev' # NoPacket
    <3>1. (current_tev.E \/ m.E) = TRUE
      BY <2>1
    <3>2. current_tev' = [current_tev EXCEPT !.E = TRUE]
      BY <2>3, <3>1
    <3>3. current_tev' \in [ts : 0..TsMod - 1, E : BOOLEAN]
      BY <2>2, <3>2
    <3> HIDE DEF fresh
    <3> QED BY <2>2, <3>2, <3>3 DEF NoPacket
  <2>5. \/ m.t > heard[i]
        \/ m.t = heard[i] /\ m.E /\ ~m.mark /\ Known(heard[i])
    BY <1>2, <1>3, <1>4
  <2>6. heard'[i] = heard[i]
    BY <1>6, <1>8, TevsPackets
  <2> QED BY <1>11, <2>4, <2>6 DEF Known
<1>12. ASSUME NEW i \in 1..Len(heard), NEW p \in Tevs', p.n >= m.n
       PROVE  p.t > heard[i] \/ (p.t = heard[i] /\ p.E /\ ~p.mark /\ Known(heard[i])')
  <2>1. p \in Tevs /\ p.n \in Nat /\ p.t \in Int /\ m.n \in Nat /\ heard[i] \in Int /\ last_tev \in Nat
    BY <1>2, <1>5, TevsPackets
  <2>2. m.t <= p.t /\ p.n >= last_tev
    <3>1. m.n <= p.n
      BY <1>12, <2>1
    <3>2. Follows(m, p)
      BY <1>2, <2>1, <3>1 DEF KeysInv, KeyInv
    <3> QED BY <1>3, <1>12, <2>1, <3>2 DEF Follows
  <2>3. p.t > heard[i] \/ (p.t = heard[i] /\ p.E /\ ~p.mark /\ Known(heard[i]))
    BY <1>4, <2>1, <2>2
  <2>4. m.t > heard[i] \/ (m.t = heard[i] /\ m.E /\ ~m.mark /\ Known(heard[i]))
    BY <1>2, <1>3, <1>4
  <2>5. CASE m.t > heard[i]
    BY <1>6, <2>1, <2>2, <2>5
  <2>6. CASE m.t = heard[i] /\ ~m.mark /\ Known(heard[i])
    <3>1. Known(heard[i])'
      BY <1>11, <2>6
    <3> QED BY <2>3, <3>1
  <2> QED BY <2>4, <2>5, <2>6
<1>13. CASE ~(m.E /\ (fresh \/ ~current_tev.E))
  <2>1. heard' = heard
    BY <1>8, <1>13
  <2> HIDE DEF fresh
  <2> QED BY <1>3, <1>4, <1>5, <1>12, <2>1 DEF HeardInv
<1>14. CASE m.E /\ (fresh \/ ~current_tev.E)
  <2>1. heard' = Append(heard, m.t)
    BY <1>8, <1>14
  <2>2. /\ Len(heard') = Len(heard) + 1 /\ heard'[Len(heard) + 1] = m.t
        /\ \A i \in 1..Len(heard) : heard'[i] = heard[i]
    BY <1>6, <2>1, TevsPackets
  <2>3. ASSUME NEW i \in 1..Len(heard) PROVE heard[i] < m.t
    <3>1. m.t > heard[i] \/ (m.t = heard[i] /\ ~m.mark /\ Known(heard[i]))
      BY <1>2, <1>3, <1>4
    <3>2. ~(m.t = heard[i] /\ ~m.mark /\ Known(heard[i]))
      BY <1>10, <1>14
    <3> QED BY <1>6, <3>1, <3>2, TevsPackets
  <2>4. current_tev' # NoPacket /\ current_tev'.ts = Ts(m) /\ current_tev'.E
    <3>1. CASE fresh
      <4>1. current_tev' = [ts |-> Ts(m), E |-> TRUE]
        BY <1>6, <1>7, <1>14, <3>1
      <4> QED BY <4>1 DEF NoPacket
    <3>2. CASE ~fresh
      <4>1. current_tev \in [ts : 0..TsMod - 1, E : BOOLEAN] /\ current_tev.ts = Ts(m)
        BY <1>9, <3>2
      <4>2. (current_tev.E \/ m.E) = TRUE
        BY <1>14
      <4>3. current_tev' = [current_tev EXCEPT !.E = TRUE]
        BY <1>7, <3>2, <4>2
      <4>4. current_tev' \in [ts : 0..TsMod - 1, E : BOOLEAN]
        BY <4>1, <4>3
      <4> HIDE DEF fresh
      <4> QED BY <4>1, <4>3, <4>4 DEF NoPacket
    <3> QED BY <3>1, <3>2
  <2> HIDE DEF fresh
  <2>5. ASSUME NEW i \in 1..Len(heard'), NEW j \in 1..Len(heard'), i < j
        PROVE  heard'[i] < heard'[j]
    <3>1. i \in 1..Len(heard) /\ heard'[i] = heard[i]
      BY <2>2, <2>5, TevsPackets
    <3>2. CASE j \in 1..Len(heard)
      BY <1>4, <2>2, <2>5, <3>1, <3>2
    <3>3. CASE j = Len(heard) + 1
      BY <2>2, <2>3, <3>1, <3>3
    <3> QED BY <2>2, <3>2, <3>3, TevsPackets
  <2>6. ASSUME NEW i \in 1..Len(heard') PROVE heard'[i] <= time'["peer"]
    <3>1. CASE i \in 1..Len(heard)
      BY <1>4, <1>5, <2>2, <3>1
    <3>2. CASE i = Len(heard) + 1
      BY <1>5, <1>6, <2>2, <3>2
    <3> QED BY <2>2, <3>1, <3>2, TevsPackets
  <2>7. ASSUME NEW i \in 1..Len(heard'), NEW p \in Tevs', p.n >= last_tev'
        PROVE  p.t > heard'[i] \/ (p.t = heard'[i] /\ p.E /\ ~p.mark /\ Known(heard[i])')
    <3>1. CASE i \in 1..Len(heard)
      BY <1>3, <1>12, <2>2, <2>7, <3>1
    <3>2. CASE i = Len(heard) + 1
      <4>1. p \in Tevs /\ p.n \in Nat /\ p.t \in Int /\ m.n \in Nat
        BY <1>2, <1>5, TevsPackets
      <4>2. m.n <= p.n
        BY <1>3, <2>7, <4>1
      <4>3. Follows(m, p)
        BY <1>2, <4>1, <4>2 DEF KeysInv, KeyInv
      <4>4. heard'[i] = m.t
        BY <2>2, <3>2
      <4>5. Known(heard[i])'
        BY <1>6, <2>4, <4>4 DEF Known
      <4> QED BY <1>6, <1>14, <4>1, <4>3, <4>4, <4>5 DEF Follows
    <3> QED BY <2>2, <3>1, <3>2, TevsPackets
  <2> QED BY <2>5, <2>6, <2>7 DEF HeardInv
<1> QED BY <1>13, <1>14

LEMMA KeysStep ==
  ASSUME QueueInv, KeysInv, [Next]_vars
  PROVE  KeysInv'
<1>1. CASE Send
  BY <1>1, KeysSent
<1>2. CASE Receive
  <2>1. Shrinks
    BY <1>2, ReceiveKeeps
  <2>2. tev_rq # <<>> => Tevs # {}
    <3> SUFFICES ASSUME tev_rq # <<>> PROVE Tevs # {}
      OBVIOUS
    <3>1. tev_rq[1] \in Elements(tev_rq)
      BY QueueFacts DEF Elements
    <3> QED BY <3>1, QueueFacts DEF Tevs, UnderWay
  <2>3. tev_rq = <<>> => UNCHANGED <<events, disturbed>>
    BY <1>2 DEF Receive, ReadsEvent
  <2>4. heard' # <<>> => heard # <<>> \/ Tevs # {}
    BY <2>2, <2>3 DEF events
  <2>5. HeardInv'
    BY <1>2, <2>1, <2>3, ShrinkingHeard, KeyRead DEF KeysInv
  <2> QED BY <2>1, <2>4, <2>5, ShrinkingKeys, ShrinkingForward DEF KeysInv
<1>3. CASE Lose \/ Parse \/ UNCHANGED vars
  <2>1. UNCHANGED events
    BY <1>3 DEF Lose, Parse, vars
  <2>2. "keys" \notin disturbed' => "keys" \notin disturbed
    BY <1>3 DEF Lose, Parse, vars, ParseForeign, ParseEvent, ParseMedia, Accepts
  <2>3. Shrinks
    <3>1. CASE Lose \/ Parse
      BY <3>1, LoseShrinks, ParseKeeps
    <3>2. CASE UNCHANGED vars
      <4>1. UnderWay' = UnderWay /\ UNCHANGED sender
        BY <3>2 DEF UnderWay, vars
      <4>2. UnderWay \subseteq Packets
        BY UnderWayPackets DEF QueueInv
      <4> QED BY <4>1, <4>2 DEF Shrinks, Same
    <3> QED BY <1>3, <3>1, <3>2
  <2>4. heard' # <<>> => heard # <<>> \/ Tevs # {}
    BY <2>1 DEF events
  <2> QED BY <2>1, <2>2, <2>3, <2>4, ShrinkingKeys, ShrinkingForward, ShrinkingHeard DEF KeysInv
<1> QED BY <1>1, <1>2, <1>3 DEF Next

LEMMA InitKeys == Init => KeysInv
<1> SUFFICES ASSUME Init PROVE KeysInv
  OBVIOUS
<1>1. PICK s \in Streams : script = s.script
  BY DEF Init
<1>2. /\ script \in Seq(Entries)
      /\ \A i, j \in 1..Len(script) :
           script[i] = <<"key">> => script[j] = <<"key">> \/ script[j][3] # -Jump
  BY <1>1, StreamsAssumption
<1>3. Tevs = {} /\ heard = <<>>
  BY DEF Init, Tevs, UnderWay, Elements
<1>4. ForwardInv
  BY <1>2, <1>3 DEF ForwardInv
<1>5. KeyInv /\ HeardInv
  BY <1>3 DEF KeyInv, HeardInv
<1> QED BY <1>4, <1>5 DEF KeysInv

(* The application hears a key once, however many of its packets the network
   loses, repeats or reorders, if they are read in the order they were sent. *)
THEOREM KeysHeardOnce == Spec => []HeardOnce
<1>1. KeysInv => HeardOnce
  BY DEF KeysInv, HeardInv, HeardOnce
<1> QED BY <1>1, InitKeys, QueuesAlways, KeysStep, PTL DEF Spec

----------------------------------------------------------------------------
(* What is given goes forward.  Senders whose timestamps do not go back, and so
   slowly that what meets is far less than half the timestamps apart: with 16
   and 32 bits and the 5 s of ts_jump, up to about 65000 units a packet. *)

Forward ==
  \A s \in Streams : \A i \in 1..Len(s.script) : s.script[i] = <<"key">> \/ s.script[i][3] # -Jump

Slow == TsJump \in Nat /\ (SeqMod \div 2) * Jump + TsJump <= TsMod \div 2

ForwardScript == \A i \in 1..Len(script) : script[i] = <<"key">> \/ script[i][3] # -Jump

\* What is under way or was given last
Seen == UnderWay \cup {q \in {given} : q # NoPacket}

\* What was sent no later has no later time, by at most a Jump for each number
SentBefore(p, n, t) == p.n <= n => p.t <= t /\ t - p.t <= (n - p.n) * Jump

TimesInv ==
  /\ \A p \in Seen : p.n < number[p.src] /\ SentBefore(p, number[p.src] - 1, time[p.src])
  /\ \A p, q \in Seen : p.src = q.src => SentBefore(p, q.n, q.t)

\* The queue is ahead of the packet given, whose time is the one compared with
GivenInv ==
  OneSource /\ given # NoPacket =>
    /\ "FIRST_PACKET_DELIVERED" \in flags /\ rcv_last_ts = Ts(given)
    /\ \A i \in 1..Len(rq) : rq[i].n > given.n \/ rq[i].t = given.t

LEMMA Spans ==
  ASSUME NEW a \in Nat, NEW b \in Nat, a <= b
  PROVE  /\ a * Jump \in Nat /\ a * Jump <= b * Jump
         /\ (a + 1) * Jump = a * Jump + Jump
<1>1. Jump \in Nat \ {0}
  BY NumbersAssumption
<1>2. PICK c \in Nat : b = a + c
  <2>1. b - a \in Nat /\ b = a + (b - a)
    OBVIOUS
  <2> QED BY <2>1
<1>3. (a + c) * Jump = a * Jump + c * Jump /\ c * Jump \in Nat /\ a * Jump \in Nat
  BY <1>1
<1>4. (a + 1) * Jump = a * Jump + Jump
  BY <1>1
<1> QED BY <1>2, <1>3, <1>4

LEMMA SeenPackets ==
  ASSUME QueueInv
  PROVE  /\ Seen \subseteq Packets /\ UnderWay \subseteq Seen
         /\ given # NoPacket => given \in Packets /\ given \in Seen
         /\ \A p \in Seen : p.n \in Nat /\ p.t \in Int /\ p.src \in Sources
                            /\ number[p.src] \in Nat \ {0} /\ time[p.src] \in Int
<1>1. given # NoPacket => given \in Packets
  BY DEF QueueInv, ReaderInv
<1>2. Seen \subseteq Packets
  BY <1>1, UnderWayPackets DEF Seen, QueueInv
<1>3. number \in [Sources -> Nat \ {0}] /\ time \in [Sources -> Int]
  BY DEF QueueInv, SenderInv
<1>4. \A p \in Seen : p.n \in Nat /\ p.t \in Int /\ p.src \in Sources
  BY <1>2 DEF Packets
<1>5. UnderWay \subseteq Seen /\ (given # NoPacket => given \in Seen)
  BY DEF Seen
<1> QED BY <1>1, <1>2, <1>3, <1>4, <1>5

LEMMA ShrinkingTimes ==
  ASSUME TimesInv, UNCHANGED <<number, time>>,
         \A p \in Seen' : \E q \in Seen : Same(p, q)
  PROVE  TimesInv'
<1>1. ASSUME NEW p \in Seen'
      PROVE  p.n < number'[p.src] /\ SentBefore(p, number'[p.src] - 1, time'[p.src])
  <2>1. PICK r \in Seen : Same(p, r)
    OBVIOUS
  <2>2. r.n < number[r.src] /\ SentBefore(r, number[r.src] - 1, time[r.src])
    BY DEF TimesInv
  <2> QED BY <2>1, <2>2 DEF Same, SentBefore
<1>2. ASSUME NEW p \in Seen', NEW q \in Seen', p.src = q.src PROVE SentBefore(p, q.n, q.t)
  <2>1. PICK r \in Seen : Same(p, r)
    OBVIOUS
  <2>2. PICK s \in Seen : Same(q, s)
    OBVIOUS
  <2>3. SentBefore(r, s.n, s.t)
    BY <1>2, <2>1, <2>2 DEF TimesInv, Same
  <2> QED BY <2>1, <2>2, <2>3 DEF Same, SentBefore
<1> QED BY <1>1, <1>2 DEF TimesInv

\* The times of last + 1 packets sent at once
LEMMA SentTimes ==
  ASSUME QueueInv, TimesInv,
         NEW s \in Sources, NEW last \in Nat, NEW step \in Nat, step <= Jump, NEW New,
         number' = [number EXCEPT ![s] = @ + (last + 1)],
         time' = [time EXCEPT ![s] = @ + step],
         \A p \in New : p.src = s /\ p.n \in number[s]..number[s] + last /\ p.t = time[s] + step,
         Seen' \subseteq Seen \cup New
  PROVE  TimesInv'
<1> DEFINE n == number[s]
           t == time[s]
<1>1. n \in Nat \ {0} /\ t \in Int
  BY DEF QueueInv, SenderInv
<1>2. /\ number'[s] = n + last + 1 /\ time'[s] = t + step
      /\ \A z \in Sources \ {s} : number'[z] = number[z] /\ time'[z] = time[z]
  BY <1>1 DEF QueueInv, SenderInv
<1>3. Jump \in Nat \ {0}
  BY NumbersAssumption
<1>4. \A p \in New : p.src = s /\ p.n \in n..n + last /\ p.t = t + step
  OBVIOUS
<1>5. ASSUME NEW p \in Seen
      PROVE  /\ p.n \in Nat /\ p.t \in Int /\ p.src \in Sources
             /\ p.n < number[p.src] /\ SentBefore(p, number[p.src] - 1, time[p.src])
  BY SeenPackets DEF TimesInv
<1> HIDE DEF n, t
\* An old packet, against a number that is sent now
<1>6. ASSUME NEW p \in Seen, p.src = s, NEW m \in n..n + last
      PROVE  SentBefore(p, m, t + step) /\ p.n < m
  <2>1. p.n \in Nat /\ p.t \in Int /\ p.n < n /\ SentBefore(p, n - 1, t)
    BY <1>5, <1>6 DEF n, t
  <2>2. p.t <= t /\ t - p.t <= (n - 1 - p.n) * Jump
    <3>1. p.n <= n - 1
      BY <1>1, <2>1
    <3> QED BY <2>1, <3>1 DEF SentBefore
  <2> DEFINE a == n - 1 - p.n
             b == m - p.n
  <2>3. a \in Nat /\ b \in Nat /\ a + 1 \in Nat /\ a + 1 <= b /\ a <= b
    BY <1>1, <2>1
  <2>4. t - p.t <= a * Jump
    BY <2>2
  <2> HIDE DEF a, b
  <2>5. a * Jump \in Nat /\ (a + 1) * Jump = a * Jump + Jump
    BY <2>3, Spans
  <2>6. (a + 1) * Jump <= b * Jump /\ b * Jump \in Nat
    BY <2>3, Spans
  <2>7. (t + step) - p.t <= b * Jump /\ p.t <= t + step
    BY <1>1, <1>3, <2>1, <2>2, <2>4, <2>5, <2>6
  <2>8. p.n < m
    BY <1>1, <2>1
  <2>9. p.t <= t + step /\ (t + step) - p.t <= (m - p.n) * Jump
    BY ONLY <2>7 DEF b
  <2> QED BY ONLY <2>8, <2>9 DEF SentBefore
\* A new packet, against itself or another
<1>7. ASSUME NEW p \in New, NEW m \in n..n + last
      PROVE  SentBefore(p, m, t + step)
  <2>1. p.t = t + step /\ p.n \in Nat
    BY <1>1, <1>4
  <2>2. p.n <= m => 0 <= (m - p.n) * Jump
    <3> SUFFICES ASSUME p.n <= m PROVE 0 <= (m - p.n) * Jump
      OBVIOUS
    <3>1. m - p.n \in Nat
      BY <1>1, <2>1
    <3> QED BY <3>1, Spans
  <2> QED BY <1>1, <2>1, <2>2 DEF SentBefore
<1>8. ASSUME NEW p \in Seen'
      PROVE  p.n < number'[p.src] /\ SentBefore(p, number'[p.src] - 1, time'[p.src])
  <2>0. n + last \in n..n + last /\ number'[s] - 1 = n + last
    BY <1>1, <1>2
  <2>1. CASE p \in New
    <3>1. p.src = s /\ p.n < number'[s]
      BY <1>1, <1>2, <1>4, <2>1
    <3>2. SentBefore(p, n + last, t + step)
      BY <1>7, <2>0, <2>1
    <3> QED BY <1>2, <2>0, <3>1, <3>2
  <2>2. CASE p \in Seen /\ p.src = s
    <3>1. SentBefore(p, n + last, t + step) /\ p.n < n + last
      BY <1>6, <2>0, <2>2
    <3>2. p.n < number'[s]
      BY <1>1, <1>2, <1>5, <2>2, <3>1
    <3> QED BY <1>2, <2>0, <2>2, <3>1, <3>2
  <2>3. CASE p \in Seen /\ p.src # s
    BY <1>2, <1>5, <2>3
  <2> QED BY <2>1, <2>2, <2>3
<1>9. ASSUME NEW p \in Seen', NEW q \in Seen', p.src = q.src PROVE SentBefore(p, q.n, q.t)
  <2>1. CASE p \in Seen /\ q \in Seen
    BY <1>9, <2>1 DEF TimesInv
  <2>2. CASE p \in Seen /\ q \in New
    BY <1>4, <1>6, <1>9, <2>2
  <2>3. CASE p \in New /\ q \in New
    BY <1>4, <1>7, <2>3
  <2>4. CASE p \in New /\ q \in Seen
    <3>1. q.n < n /\ q.n \in Nat /\ p.n \in n..n + last
      BY <1>4, <1>5, <1>9, <2>4 DEF n
    <3>2. ~(p.n <= q.n)
      BY <1>1, <3>1
    <3> QED BY <3>2 DEF SentBefore
  <2> QED BY <2>1, <2>2, <2>3, <2>4
<1> QED BY <1>8, <1>9 DEF TimesInv

LEMMA TimesSent ==
  ASSUME QueueInv, TimesInv, ForwardScript, Send
  PROVE  TimesInv' /\ ForwardScript'
<1>0. UNCHANGED <<rq, tev_rq, given>> /\ script # <<>> /\ script' = Tail(script)
  BY DEF Send, SendsMedia, SendsKey
<1>1. /\ script \in Seq(Entries) /\ Len(script) > 0 /\ Head(script) = script[1]
      /\ \A i \in 1..Len(script') : script'[i] = script[1 + i] /\ 1 + i \in 1..Len(script)
  <2>1. script \in Seq(Entries) /\ Len(script) > 0
    BY <1>0 DEF QueueInv, SenderInv
  <2> QED BY <1>0, <2>1, TailIsSuffix
<1>2. ForwardScript'
  BY <1>1 DEF ForwardScript
<1>3. ASSUME NEW New, net' = net \cup New PROVE Seen' \subseteq Seen \cup New
  BY <1>0, <1>3 DEF Seen, UnderWay
<1>4. CASE SendsMedia
  <2>1. PICK s \in Sources, kind \in {"media", "empty"}, step \in {0, 1, Jump, -Jump} :
          /\ Head(script) = <<s, kind, step>>
          /\ number' = [number EXCEPT ![s] = @ + 1]
          /\ time' = [time EXCEPT ![s] = @ + step]
          /\ net' = net \cup {Packet(s, kind, number[s], time'[s], FALSE, FALSE, 1)}
    BY <1>4 DEF SendsMedia
  <2>2. step \in Nat /\ step <= Jump
    <3>1. script[1] = <<"key">> \/ script[1][3] # -Jump
      BY <1>1 DEF ForwardScript
    <3>2. script[1] = <<s, kind, step>>
      BY <1>1, <2>1
    <3>3. <<s, kind, step>> # <<"key">>
      OBVIOUS
    <3>4. step # -Jump
      BY <3>1, <3>2, <3>3
    <3> QED BY <3>4, NumbersAssumption
  <2> DEFINE r == Packet(s, kind, number[s], time'[s], FALSE, FALSE, 1)
  <2>3. number[s] \in Nat /\ time[s] \in Int
    BY DEF QueueInv, SenderInv
  <2>4. r.src = s /\ r.n = number[s] /\ r.t = time'[s]
    BY DEF Packet
  <2>5. time'[s] = time[s] + step /\ number' = [number EXCEPT ![s] = @ + (0 + 1)]
    BY <2>1 DEF QueueInv, SenderInv
  <2>6. Seen' \subseteq Seen \cup {r}
    BY <1>3, <2>1
  <2> HIDE DEF r
  <2>7. \A p \in {r} : p.src = s /\ p.n \in number[s]..number[s] + 0 /\ p.t = time[s] + step
    BY <2>3, <2>4, <2>5
  <2>8. 0 \in Nat /\ time' = [time EXCEPT ![s] = @ + step]
    BY <2>1
  <2> QED BY ONLY QueueInv, TimesInv, <1>2, <2>2, <2>5, <2>6, <2>7, <2>8, SentTimes
<1>5. CASE SendsKey
  <2> DEFINE n == number["peer"]
  <2> DEFINE t == time["peer"] + 1
  <2> DEFINE tev(i, copies) == Packet("peer", "tev", n + i, t, i = 0, i = 2, copies)
  <2> DEFINE New == {tev(0, 1), tev(1, 1), tev(2, 3)}
  <2>1. /\ number' = [number EXCEPT !["peer"] = n + 3]
        /\ time' = [time EXCEPT !["peer"] = t]
        /\ net' = net \cup New
    BY <1>5 DEF SendsKey
  <2>2. n \in Nat \ {0} /\ time["peer"] \in Int /\ "peer" \in Sources
    BY DEF QueueInv, SenderInv, Sources
  <2>3. ASSUME NEW i \in 0..2, NEW c
        PROVE  tev(i, c).src = "peer" /\ tev(i, c).n = n + i /\ tev(i, c).t = t
    BY DEF Packet
  <2>4. \A p \in New : p.src = "peer" /\ p.n \in n..n + 2 /\ p.t = t
    <3>1. 0 \in 0..2 /\ 1 \in 0..2 /\ 2 \in 0..2
      OBVIOUS
    <3>2. \A p \in New : \E i \in 0..2, c \in {1, 3} : p = tev(i, c)
      <4> HIDE DEF tev
      <4> QED BY <3>1
    <3> HIDE DEF tev, New
    <3>3. ASSUME NEW p \in New PROVE p.src = "peer" /\ p.n \in n..n + 2 /\ p.t = t
      <4>1. PICK i \in 0..2, c \in {1, 3} : p = tev(i, c)
        BY <3>2
      <4>2. p.src = "peer" /\ p.n = n + i /\ p.t = t
        BY <2>3, <4>1
      <4> HIDE DEF n
      <4> QED BY <2>2, <4>2
    <3> QED BY <3>3
  <2>5. Seen' \subseteq Seen \cup New
    BY <1>3, <2>1
  <2>6. /\ number' = [number EXCEPT !["peer"] = @ + (2 + 1)]
        /\ time' = [time EXCEPT !["peer"] = @ + 1]
    <3> HIDE DEF New
    <3> QED BY <2>1
  <2>7. 1 \in Nat /\ 2 \in Nat /\ 1 <= Jump
    BY NumbersAssumption
  <2> HIDE DEF New, tev
  <2> QED BY ONLY QueueInv, TimesInv, <1>2, <2>2, <2>4, <2>5, <2>6, <2>7, SentTimes DEF n, t
<1> QED BY <1>2, <1>4, <1>5 DEF Send

\* A packet that is queued, or given
LEMMA SeenStep ==
  ASSUME QueueInv, Shrinks, given' \in {given, NoPacket} \cup Elements(rq)
  PROVE  \A p \in Seen' : \E q \in Seen : Same(p, q)
<1>1. ASSUME NEW p \in Seen' PROVE \E q \in Seen : Same(p, q)
  <2>1. CASE p \in UnderWay'
    BY <2>1, SeenPackets DEF Shrinks
  <2>2. CASE p = given' /\ p # NoPacket
    <3>1. p \in Seen
      BY <2>2 DEF Seen, UnderWay
    <3> QED BY <3>1 DEF Same
  <2> QED BY <2>1, <2>2 DEF Seen
<1> QED BY <1>1

\* Two numbers that differ by a multiple of M
LEMMA ModShift ==
  ASSUME NEW M \in Nat \ {0}, NEW x \in Int, NEW y \in Int, NEW k \in Int, x = y + M * k
  PROVE  (x % M) = (y % M)
<1> DEFINE d == y \div M
           r == y % M
<1>1. d \in Int /\ r \in 0..M - 1 /\ y = M * d + r
  BY DivMod
<1> HIDE DEF d, r
<1>2. x = M * (d + k) + r /\ d + k \in Int
  BY <1>1
<1> DEFINE q == d + k
<1>3. q \in Int /\ x = M * q + r
  BY <1>2
<1> HIDE DEF q
<1>4. (x % M) = r
  BY <1>1, <1>3, DivModUnique
<1> QED BY <1>4 DEF r

\* An older packet, of a time not far away, is late, and no jump ahead
LEMMA OlderIsLate ==
  ASSUME Slow, NEW a \in Int, NEW b \in Int, b < a, a - b < (SeqMod \div 2) * Jump
  PROVE  /\ ~Newer((b % TsMod), (a % TsMod) + TsJump)
         /\ StrictlyNewer((a % TsMod), (b % TsMod))
<1> DEFINE span == (SeqMod \div 2) * Jump
           half == TsMod \div 2
           d == a - b
<1>1. /\ TsMod \in Nat \ {0} /\ half \in Nat /\ 2 * half <= TsMod
      /\ d \in Int /\ 0 < d /\ TsJump \in Nat
  BY Width DEF Slow
<1>2. span \in Int /\ d < span /\ span + TsJump <= half
  <2>1. (SeqMod \div 2) \in Int /\ Jump \in Int
    BY NumbersAssumption
  <2> QED BY <2>1 DEF Slow
<1>3. ((a % TsMod) - (b % TsMod)) % TsMod = (d % TsMod)
  BY <1>1, ModOfDifference
<1> HIDE DEF span
<1>4. d + TsJump < half /\ d \in 0..TsMod - 1
  BY <1>1, <1>2
<1>5. (d % TsMod) = d
  BY <1>1, <1>4, SmallDifference
<1>6. StrictlyNewer((a % TsMod), (b % TsMod))
  <2>1. Newer((a % TsMod), (b % TsMod))
    <3>1. (d % TsMod) < half
      BY <1>1, <1>4, <1>5
    <3> HIDE DEF d
    <3> QED BY <1>3, <3>1 DEF Newer
  <2>2. (a % TsMod) # (b % TsMod)
    <3> SUFFICES ASSUME (a % TsMod) = (b % TsMod) PROVE FALSE
      OBVIOUS
    <3>1. ((a % TsMod) - (b % TsMod)) = 0
      BY <1>1, DivMod
    <3>2. (0 % TsMod) = 0
      BY <1>1
    <3>3. (d % TsMod) = 0
      BY <1>3, <3>1, <3>2
    <3> QED BY <1>1, <1>5, <3>3
  <2> QED BY <2>1, <2>2 DEF StrictlyNewer
<1>7. ~Newer((b % TsMod), (a % TsMod) + TsJump)
  <2> DEFINE x == (b % TsMod) - ((a % TsMod) + TsJump)
             y == -(d + TsJump)
             k == (a \div TsMod) - (b \div TsMod)
  <2>1. /\ (a % TsMod) \in Int /\ (a \div TsMod) \in Int /\ a = TsMod * (a \div TsMod) + (a % TsMod)
        /\ (b % TsMod) \in Int /\ (b \div TsMod) \in Int /\ b = TsMod * (b \div TsMod) + (b % TsMod)
    BY <1>1, DivMod
  <2>2. x \in Int /\ y \in Int /\ k \in Int
    BY <1>1, <2>1
  <2>3. x = y + TsMod * k
    <3> DEFINE p == a \div TsMod
               q == b \div TsMod
               r == a % TsMod
               s == b % TsMod
    <3>1. /\ p \in Int /\ q \in Int /\ r \in Int /\ s \in Int
          /\ a = TsMod * p + r /\ b = TsMod * q + s
      BY <2>1
    <3> HIDE DEF p, q, r, s
    <3>2. TsMod * (p - q) = TsMod * p - TsMod * q
      BY <1>1, <3>1
    <3>3. (TsMod * p \in Int) /\ (TsMod * q \in Int)
      BY <1>1, <3>1
    <3>4. s - (r + TsJump) = -((a - b) + TsJump) + TsMod * (p - q)
      BY <1>1, <3>1, <3>2, <3>3
    <3> QED BY <3>4 DEF p, q, r, s
  <2>4. y < 0 /\ y > -TsMod
    BY <1>1, <1>4
  <2> HIDE DEF x, y, k
  <2>5. (x % TsMod) = (y % TsMod)
    BY <1>1, <2>2, <2>3, ModShift
  <2>6. (y % TsMod) = TsMod + y
    BY <1>1, <2>2, <2>4, SmallDifference
  <2>7. TsMod + y >= half
    <3>1. d + TsJump < half /\ y = -(d + TsJump)
      BY <1>4 DEF y
    <3> HIDE DEF d, half
    <3> QED BY <1>1, <3>1
  <2>8. ~((x % TsMod) < half)
    BY <1>1, <2>2, <2>5, <2>6, <2>7
  <2> QED BY <2>8 DEF Newer, x
<1> QED BY <1>6, <1>7

\* What is queued while something is given is ahead of it, or of its frame
LEMMA MediaForward ==
  ASSUME Slow, QueueInv, TimesInv, StreamsInv, GivenInv,
         NEW p \in net, ParseMedia(Parsed(p)), UNCHANGED handled, OneSource', given' # NoPacket
  PROVE  /\ given' = given /\ rcv_last_ts' = rcv_last_ts /\ flags' = flags
         /\ \A e \in Elements(rq') : e \in Elements(rq) \/ e.n > given.n \/ e.t = given.t
<1> DEFINE m == Parsed(p)
<1>0. m \in Packets /\ Same(m, p) /\ p \in Seen
  BY ParsedPacket, SeenPackets DEF UnderWay
<1>1. given' = given
  BY DEF ParseMedia
<1>2. Accepts(m)
  BY DEF ParseMedia
<1>3. OneSource /\ (Changes(m) => handled)
  BY <1>2, SourceKept
<1> DEFINE changed == Changes(m)
           delivered == "FIRST_PACKET_DELIVERED" \in flags /\ ~(changed /\ handled)
           ahead  == delivered /\ Newer(Ts(m), rcv_last_ts' + TsJump)
           late   == delivered /\ ~ahead /\ StrictlyNewer(rcv_last_ts', Ts(m))
           behind == late /\ StrictlyNewer(rcv_last_ts', (Ts(m) + TsJump) % TsMod)
           resync == handled /\ (changed \/ ahead \/ behind)
           kept   == IF resync THEN <<>> ELSE rq
<1>4. /\ rcv_last_ts' = IF changed THEN Ts(m) ELSE rcv_last_ts
      /\ rq' = IF late THEN kept ELSE Queued(kept, m)
      /\ flags' = IF resync THEN Resynced(flags) ELSE flags
      /\ given' = IF resync THEN NoPacket ELSE given
  BY DEF ParseMedia
<1>5. ~resync
  <2> HIDE DEF resync
  <2> QED BY <1>4
<1>6. ~changed
  <2> HIDE DEF changed, ahead, behind, m
  <2> QED BY <1>3, <1>5 DEF changed
<1>7. kept = rq
  BY <1>5
<1>8. rcv_last_ts' = rcv_last_ts /\ flags' = flags
  <2> HIDE DEF changed, resync, m
  <2> QED BY <1>4, <1>5, <1>6
<1>9. "FIRST_PACKET_DELIVERED" \in flags /\ rcv_last_ts = Ts(given)
  BY <1>1, <1>3 DEF GivenInv
<1>10. given \in Packets /\ given \in Seen /\ given.src = m.src
  <2>1. given \in Packets /\ given \in Seen /\ given.src = ssrc
    BY <1>1, <1>3, SeenPackets DEF StreamsInv
  <2>2. ssrc_set
    BY <1>1 DEF QueueInv, ReaderInv
  <2>3. ssrc' = ssrc /\ ssrc' = m.src
    BY <1>2, <1>6, <2>2 DEF Accepts, Changes
  <2> QED BY <2>1, <2>3
<1>11. delivered
  BY <1>6, <1>9
<1> HIDE DEF m, changed, delivered
\* A packet older than the one given has a time that is not far before its time
<1>12. m.n <= given.n /\ m.t # given.t => late
  <2> SUFFICES ASSUME m.n <= given.n, m.t # given.t PROVE late
    OBVIOUS
  <2>1. m.n \in Nat /\ m.t \in Int /\ given.n \in Nat /\ given.t \in Int
    BY <1>0, <1>10 DEF Packets
  <2>2. SentBefore(p, given.n, given.t)
    BY <1>0, <1>10 DEF TimesInv, Same
  <2>3. m.t < given.t /\ given.t - m.t <= (given.n - m.n) * Jump
    <3>1. m.t <= given.t /\ given.t - m.t <= (given.n - m.n) * Jump
      BY <1>0, <2>2 DEF SentBefore, Same
    <3> QED BY <2>1, <3>1
  <2>4. given.n - m.n < SeqMod \div 2
    <3>1. number[given.src] - 1 - p.n < SeqMod \div 2
      BY <1>0, <1>10 DEF QueueInv, WindowInv, UnderWay, Same
    <3>2. given.n < number[given.src] /\ number[given.src] \in Nat
      BY <1>10, SeenPackets DEF TimesInv
    <3>3. p.n = m.n /\ (SeqMod \div 2) \in Nat
      BY <1>0, Width DEF Same
    <3> QED BY <2>1, <3>1, <3>2, <3>3
  <2>5. given.t - m.t < (SeqMod \div 2) * Jump
    <3> DEFINE g == given.n - m.n
               h == SeqMod \div 2
    <3>1. g \in Nat /\ h \in Nat /\ g + 1 <= h /\ g + 1 \in Nat /\ g <= g + 1
      BY <2>1, <2>4, Width
    <3>2. given.t - m.t <= g * Jump
      BY <2>3
    <3> HIDE DEF g, h
    <3>3. /\ g * Jump \in Nat /\ (g + 1) * Jump = g * Jump + Jump
          /\ (g + 1) * Jump <= h * Jump /\ h * Jump \in Nat
      BY <3>1, Spans
    <3>4. Jump \in Nat \ {0}
      BY NumbersAssumption
    <3>5. given.t - m.t < h * Jump
      BY <2>1, <3>2, <3>3, <3>4
    <3> QED BY <3>5 DEF h
  <2>6. /\ ~Newer((m.t % TsMod), (given.t % TsMod) + TsJump)
        /\ StrictlyNewer((given.t % TsMod), (m.t % TsMod))
    BY <2>1, <2>3, <2>5, OlderIsLate
  <2> QED BY <1>8, <1>9, <1>11, <2>6 DEF Ts
<1>13. ASSUME NEW e \in Elements(rq') PROVE e \in Elements(rq) \/ e.n > given.n \/ e.t = given.t
  <2>1. CASE late
    <3>1. rq' = rq
      <4> HIDE DEF late, kept
      <4> QED BY <1>4, <1>7, <2>1
    <3> QED BY <3>1
  <2>2. CASE ~late
    <3>1. Elements(rq') \subseteq Elements(rq) \cup {m}
      BY MediaQueued DEF m
    <3>2. CASE e = m
      <4>1. ~(m.n <= given.n /\ m.t # given.t)
        <5> HIDE DEF late
        <5> QED BY <1>12, <2>2
      <4>2. m.n \in Nat /\ given.n \in Nat
        BY <1>0, <1>10 DEF Packets
      <4> QED BY <3>2, <4>1, <4>2
    <3> QED BY <3>1, <3>2
  <2> QED BY <2>1, <2>2
<1> QED BY <1>1, <1>8, <1>13

GivenInOrderStep ==
  given # NoPacket /\ given' \notin {NoPacket, given} /\ OneSource
    => given'.n > given.n \/ given'.t = given.t

TimeInv == ForwardScript /\ TimesInv /\ GivenInv

\* Packets of the queue that go on are ahead of what was given, and in order
LEMMA ReceiveForward ==
  ASSUME QueueInv, StreamsInv, TimeInv, Receive
  PROVE  GivenInv' /\ GivenInOrderStep
<1>1. OneSource' = OneSource
  BY DEF OneSource, Receive
<1>2. CASE UNCHANGED <<rq, rcv_last_ts, given>> /\ flags' \in {flags, flags \ {"RECV_SYNC"}}
  BY <1>1, <1>2 DEF TimeInv, GivenInv, GivenInOrderStep
<1>3. ASSUME NEW k \in 1..Len(rq), GivesFrom(k) PROVE GivenInv' /\ GivenInOrderStep
  <2>1. /\ given' = rq[k] /\ rcv_last_ts' = Ts(rq[k]) /\ flags' = {"FIRST_PACKET_DELIVERED"}
        /\ rq' \in Seq(Packets) /\ Len(rq') = Len(rq) - k
        /\ \A i \in 1..Len(rq') : rq'[i] = rq[k + i] /\ k + i \in 1..Len(rq)
    BY <1>3 DEF GivesFrom
  <2>2. GivenInOrderStep
    BY <2>1 DEF TimeInv, GivenInv, GivenInOrderStep
  <2>3. ASSUME OneSource, NEW i \in 1..Len(rq') PROVE rq'[i].n > given'.n
    <3>1. \A j \in k..k + i : rq[j].src = rq[k].src
      <4>1. \A j \in 1..Len(rq) : rq[j].src = ssrc
        BY <2>3 DEF StreamsInv
      <4>2. k..k + i \subseteq 1..Len(rq)
        BY <2>1, QueueFacts
      <4> QED BY <4>1, <4>2
    <3>2. k < k + i /\ k + i \in 1..Len(rq)
      BY <2>1
    <3>3. rq[k].n < rq[k + i].n
      BY <3>1, <3>2, OrderOfTwo, QueueFacts
    <3>4. rq[k] \in Packets /\ rq[k + i] \in Packets
      BY <3>2, QueueFacts
    <3>5. rq[k].n \in Nat /\ rq[k + i].n \in Nat
      BY <3>4 DEF Packets
    <3> QED BY <2>1, <3>3, <3>5
  <2>4. GivenInv'
    BY <1>1, <2>1, <2>3 DEF GivenInv, Ts
  <2> QED BY <2>2, <2>4
<1> QED BY <1>2, <1>3, MediaGiven

LEMMA ParseForward ==
  ASSUME Slow, QueueInv, StreamsInv, TimeInv, Parse
  PROVE  GivenInv' /\ given' \in {given, NoPacket}
<1>1. PICK p \in net :
        /\ Arrives(p)
        /\ ParseForeign(Parsed(p)) \/ ParseEvent(Parsed(p)) \/ ParseMedia(Parsed(p))
  BY DEF Parse, Parsed
<1>2. UNCHANGED <<handled, sender, events>>
  BY DEF Parse
<1>3. CASE ParseForeign(Parsed(p))
  <2>1. UNCHANGED <<rq, given, rcv_last_ts, flags>>
    BY <1>3 DEF ParseForeign
  <2>2. candidate' # "none"
    BY <1>1, <1>2, <1>3, ParseForeignKeeps
  <2>3. OneSource' => OneSource
    BY <1>2, <2>2 DEF OneSource
  <2> QED BY <2>1, <2>3 DEF TimeInv, GivenInv
<1>4. CASE ParseEvent(Parsed(p))
  <2> DEFINE resync == Changes(Parsed(p)) /\ handled
  <2>1. /\ Accepts(Parsed(p))
        /\ rcv_last_ts' = IF Changes(Parsed(p)) THEN Ts(Parsed(p)) ELSE rcv_last_ts
        /\ flags' = IF resync THEN Resynced(flags) ELSE flags
        /\ rq' = IF resync THEN <<>> ELSE rq
        /\ given' = IF resync THEN NoPacket ELSE given
    BY <1>4 DEF ParseEvent
  <2>2. OneSource' => OneSource /\ (Changes(Parsed(p)) => handled)
    BY <1>2, <2>1, SourceKept
  <2>3. CASE resync
    BY <2>1, <2>3 DEF GivenInv
  <2>4. CASE ~resync
    <3>1. UNCHANGED <<rq, given, flags>>
      BY <2>1, <2>4
    <3>2. OneSource' => UNCHANGED rcv_last_ts
      BY <2>1, <2>2, <2>4
    <3> QED BY <2>2, <3>1, <3>2 DEF TimeInv, GivenInv
  <2> QED BY <2>3, <2>4
<1>5. CASE ParseMedia(Parsed(p))
  <2>1. given' \in {given, NoPacket}
    BY <1>5 DEF ParseMedia
  <2>2. ASSUME OneSource', given' # NoPacket
        PROVE  /\ "FIRST_PACKET_DELIVERED" \in flags' /\ rcv_last_ts' = Ts(given)'
               /\ \A i \in 1..Len(rq') : rq'[i].n > given'.n \/ rq'[i].t = given'.t
    <3>1. /\ given' = given /\ rcv_last_ts' = rcv_last_ts /\ flags' = flags
          /\ \A e \in Elements(rq') : e \in Elements(rq) \/ e.n > given.n \/ e.t = given.t
      BY <1>2, <1>5, <2>2, MediaForward DEF TimeInv
    <3>2. OneSource
      BY <1>2, <1>5, <2>2, SourceKept DEF ParseMedia
    <3>3. /\ "FIRST_PACKET_DELIVERED" \in flags /\ rcv_last_ts = Ts(given)
          /\ \A i \in 1..Len(rq) : rq[i].n > given.n \/ rq[i].t = given.t
      BY <2>2, <3>1, <3>2 DEF TimeInv, GivenInv
    <3>4. \A e \in Elements(rq') : e.n > given.n \/ e.t = given.t
      BY <3>1, <3>3 DEF Elements
    <3>5. \A i \in 1..Len(rq') : rq'[i].n > given.n \/ rq'[i].t = given.t
      BY <3>4 DEF Elements
    <3> QED BY <3>1, <3>3, <3>5 DEF Ts
  <2> QED BY <2>1, <2>2 DEF GivenInv
<1> QED BY <1>1, <1>3, <1>4, <1>5

LEMMA ForwardStep ==
  ASSUME Slow, QueueInv, StreamsInv, TimeInv, [Next]_vars
  PROVE  TimeInv' /\ GivenInOrderStep
<1>1. CASE Send
  <2>1. UNCHANGED <<rq, given, flags, rcv_last_ts>> /\ OneSource' = OneSource
    BY <1>1 DEF Send, lock_on, OneSource
  <2>2. GivenInv' /\ GivenInOrderStep
    BY <2>1 DEF TimeInv, GivenInv, GivenInOrderStep, Ts
  <2> QED BY <1>1, <2>2, TimesSent DEF TimeInv
<1>2. CASE Lose
  <2>1. UNCHANGED <<rq, given, flags, rcv_last_ts, script, sender>> /\ OneSource' = OneSource
    BY <1>2 DEF Lose, lock_on, OneSource, sender
  <2>2. GivenInv' /\ GivenInOrderStep /\ ForwardScript'
    BY <2>1 DEF TimeInv, GivenInv, GivenInOrderStep, Ts, ForwardScript
  <2>3. \A p \in Seen' : \E q \in Seen : Same(p, q)
    BY <1>2, <2>1, LoseShrinks, SeenStep
  <2>4. TimesInv'
    BY <2>1, <2>3, ShrinkingTimes DEF TimeInv, sender
  <2> QED BY <2>2, <2>4 DEF TimeInv
<1>3. CASE Parse
  <2>1. GivenInv' /\ given' \in {given, NoPacket}
    BY <1>3, ParseForward
  <2>2. UNCHANGED <<script, number, time>>
    BY <1>3 DEF Parse, sender
  <2>3. \A p \in Seen' : \E q \in Seen : Same(p, q)
    BY <1>3, <2>1, ParseKeeps, SeenStep
  <2>4. TimesInv' /\ ForwardScript'
    BY <2>2, <2>3, ShrinkingTimes DEF TimeInv, ForwardScript
  <2>5. GivenInOrderStep
    BY <2>1 DEF GivenInOrderStep
  <2> QED BY <2>1, <2>4, <2>5 DEF TimeInv
<1>4. CASE Receive
  <2>1. GivenInv' /\ GivenInOrderStep
    BY <1>4, ReceiveForward
  <2>2. UNCHANGED <<script, number, time>>
    BY <1>4 DEF Receive, sender
  <2>3. given' \in {given, NoPacket} \cup Elements(rq)
    BY <1>4, MediaRead DEF Elements
  <2>4. \A p \in Seen' : \E q \in Seen : Same(p, q)
    BY <1>4, <2>3, ReceiveKeeps, SeenStep
  <2>5. TimesInv' /\ ForwardScript'
    BY <2>2, <2>4, ShrinkingTimes DEF TimeInv, ForwardScript
  <2> QED BY <2>1, <2>5 DEF TimeInv
<1>5. CASE UNCHANGED vars
  <2>1. UNCHANGED <<rq, tev_rq, net, given, flags, rcv_last_ts, script, number, time>>
        /\ OneSource' = OneSource
    BY <1>5 DEF vars, sender, lock_on, OneSource
  <2>2. GivenInv' /\ GivenInOrderStep /\ ForwardScript'
    BY <2>1 DEF TimeInv, GivenInv, GivenInOrderStep, Ts, ForwardScript
  <2>3. \A p \in Seen' : \E q \in Seen : Same(p, q)
    BY <2>1 DEF Seen, UnderWay, Same
  <2>4. TimesInv'
    BY <2>1, <2>3, ShrinkingTimes DEF TimeInv
  <2> QED BY <2>2, <2>4 DEF TimeInv
<1> QED BY <1>1, <1>2, <1>3, <1>4, <1>5 DEF Next

LEMMA InitForward ==
  ASSUME Forward, Init
  PROVE  TimeInv
<1>1. ForwardScript
  BY DEF Init, Forward, ForwardScript
<1>2. Seen = {}
  BY DEF Init, Seen, UnderWay, Elements
<1>3. GivenInv
  BY DEF Init, GivenInv
<1> QED BY <1>1, <1>2, <1>3 DEF TimeInv, TimesInv

(* Where timestamps do not go back, and go forward slowly enough, the
   application is given packets sent later and later, or more of the frame it
   was given last, whatever the network loses, repeats or reorders.  (Where they
   go back by less than ts_jump, an older packet of a later time may be given
   after a later packet.) *)
THEOREM GivenForward ==
  ASSUME Forward, Slow
  PROVE  Spec => GivenInOrder
<1>1. Init => StreamsInv /\ TimeInv
  BY InitForward, InitStreams
<1>2. QueueInv /\ StreamsInv /\ TimeInv /\ [Next]_vars => StreamsInv' /\ TimeInv'
  BY StreamsStep, ForwardStep
<1>3. QueueInv /\ StreamsInv /\ TimeInv /\ [Next]_vars
        => [given # NoPacket /\ given' \notin {NoPacket, given}
              /\ (handled \/ candidate = "none")
              => given'.n > given.n \/ given'.t = given.t]_vars
  BY ForwardStep DEF GivenInOrderStep, OneSource
<1> QED BY <1>1, <1>2, <1>3, QueuesAlways, PTL DEF Spec, GivenInOrder
=============================================================================
