--------------------------- MODULE MSTickerProofs ---------------------------
(***************************************************************************)
(* Theorems about the ticker on its own, for every finite set of filters   *)
(* and every graph over it, cyclic or not.                                 *)
(***************************************************************************)
EXTENDS MSTicker, FiniteSetTheorems, WellFoundedInduction, TLAPS

----------------------------------------------------------------------------
(* The elements of the sequences that the thread works on. *)

LEMMA ElementsOfConcat ==
  ASSUME NEW S, NEW s \in Seq(S), NEW t \in Seq(S)
  PROVE  s \o t \in Seq(S) /\ ToSet(s \o t) = ToSet(s) \cup ToSet(t)
<1>1. s \o t \in Seq(S)
  OBVIOUS
<1>2. ASSUME NEW e \in ToSet(s \o t) PROVE e \in ToSet(s) \cup ToSet(t)
  <2>1. PICK i \in 1..Len(s \o t) : e = (s \o t)[i]
    BY DEF ToSet
  <2>2. CASE i <= Len(s)
    BY <2>1, <2>2 DEF ToSet
  <2>3. CASE i > Len(s)
    <3>1. i - Len(s) \in 1..Len(t) /\ e = t[i - Len(s)]
      BY <2>1, <2>3
    <3> QED BY <3>1 DEF ToSet
  <2> QED BY <2>1, <2>2, <2>3
<1>3. ToSet(s) \subseteq ToSet(s \o t)
  BY DEF ToSet
<1>4. ASSUME NEW e \in ToSet(t) PROVE e \in ToSet(s \o t)
  <2>1. PICK i \in 1..Len(t) : e = t[i]
    BY DEF ToSet
  <2>2. i + Len(s) \in 1..Len(s \o t) /\ (s \o t)[i + Len(s)] = e
    BY <2>1
  <2> QED BY <2>2 DEF ToSet
<1> QED BY <1>1, <1>2, <1>3, <1>4

LEMMA ElementsOfSingle ==
  ASSUME NEW S, NEW e \in S
  PROVE  <<e>> \in Seq(S) /\ ToSet(<<e>>) = {e}
  BY DEF ToSet

LEMMA ElementsOfEmpty == ToSet(<< >>) = {}
  BY DEF ToSet

LEMMA ElementsOfTail ==
  ASSUME NEW S, NEW s \in Seq(S), s # << >>
  PROVE  Tail(s) \in Seq(S) /\ ToSet(s) = {Head(s)} \cup ToSet(Tail(s))
<1>1. Tail(s) \in Seq(S) /\ Head(s) \in S /\ s = <<Head(s)>> \o Tail(s)
  OBVIOUS
<1>2. <<Head(s)>> \in Seq(S) /\ ToSet(<<Head(s)>>) = {Head(s)}
  BY <1>1, ElementsOfSingle
<1>3. ToSet(<<Head(s)>> \o Tail(s)) = ToSet(<<Head(s)>>) \cup ToSet(Tail(s))
  BY <1>1, <1>2, ElementsOfConcat, ZenonT(60)
<1> QED BY <1>1, <1>2, <1>3

LEMMA ElementsOfSeq ==
  ASSUME NEW S, NEW s \in Seq(S)
  PROVE  ToSet(s) \subseteq S
  BY DEF ToSet

----------------------------------------------------------------------------
(* The inductive invariant. *)

\* The graph and the lists are over the filters.
GraphOK ==
  /\ outputs \in [Filter -> Seq(Filter)]
  /\ execution_list \in Seq(Filter)

WalkOK ==
  /\ done \subseteq Filter
  /\ work \in Seq(Filter)
  /\ unschedulable \in Seq(Filter)

LockOK == lock = "ticker" <=> tpc \in {"loop", "walk"}

\* What the walk has visited or is still to visit
Seen == done \cup ToSet(work) \cup ToSet(unschedulable)

\* The recursion forgets nothing: the sources, and whatever is linked after a
\* filter that has run, have run, or will be visited, or were put aside.
NothingForgotten ==
  tpc = "walk" =>
    /\ ToSet(execution_list) \subseteq Seen
    /\ \A f \in done : ToSet(outputs[f]) \subseteq Seen

Inv == GraphOK /\ WalkOK /\ LockOK /\ NothingForgotten

LEMMA InitInv == TickerInit => Inv
<1> SUFFICES ASSUME TickerInit PROVE Inv
  OBVIOUS
<1>1. outputs \in [Filter -> Seq(Filter)]
  <2>1. ASSUME NEW n \in 0..2, NEW s \in [1..n -> Filter] PROVE s \in Seq(Filter)
    OBVIOUS
  <2>2. Links \subseteq Seq(Filter)
    BY <2>1 DEF Links
  <2> QED BY <2>2 DEF TickerInit
<1>2. execution_list \in Seq(Filter)
  <2> DEFINE S == {f \in Filter : Inputs(f) = {}}
  <2>1. Cardinality(S) \in Nat
    BY FiniteAssumption, FS_Subset, FS_CardinalityType
  <2>2. execution_list \in [1..Cardinality(S) -> S]
    BY DEF TickerInit, SetToSeqs
  <2>3. execution_list \in [1..Cardinality(S) -> Filter]
    BY <2>2
  <2>4. ASSUME NEW n \in Nat, NEW s \in [1..n -> Filter] PROVE s \in Seq(Filter)
    OBVIOUS
  <2> HIDE DEF S
  <2> QED BY <2>1, <2>3, <2>4
<1>3. WalkOK /\ LockOK /\ NothingForgotten
  BY DEF TickerInit, TicksIdle, WalkOK, LockOK, NothingForgotten
<1> QED BY <1>1, <1>2, <1>3 DEF Inv, GraphOK

----------------------------------------------------------------------------
(* The walk. *)

\* A visit takes its filter from the work: nothing that was seen is lost as
\* long as the visit says where that filter goes.
LEMMA Visited ==
  ASSUME GraphOK, WalkOK, NEW f \in Filter, Visits(f)
  PROVE  /\ Tail(work) \in Seq(Filter)
         /\ ToSet(work) = {f} \cup ToSet(Tail(work))
  BY ElementsOfTail DEF WalkOK, Visits

LEMMA SkipsInv ==
  ASSUME Inv, NEW f \in Filter, Skips(f), UNCHANGED <<outputs, execution_list>>
  PROVE  Inv'
<1> USE DEF Inv, GraphOK
<1>1. Tail(work) \in Seq(Filter) /\ ToSet(work) = {f} \cup ToSet(Tail(work))
  BY Visited DEF Skips
<1>2. WalkOK' /\ LockOK'
  BY <1>1 DEF Skips, WalkOK, LockOK
<1>3. Seen' = Seen /\ done' = done /\ tpc = "walk"
  BY <1>1 DEF Skips, Visits, Seen
<1>4. NothingForgotten'
  BY <1>3 DEF NothingForgotten
<1> QED BY <1>2, <1>4

LEMMA ProcessesInv ==
  ASSUME Inv, NEW f \in Filter, Processes(f), UNCHANGED <<outputs, execution_list>>
  PROVE  Inv'
<1> USE DEF Inv, GraphOK
<1>1. Tail(work) \in Seq(Filter) /\ ToSet(work) = {f} \cup ToSet(Tail(work))
  BY Visited DEF Processes
<1>2. outputs[f] \in Seq(Filter)
  OBVIOUS
<1>3. work' = outputs[f] \o Tail(work) /\ done' = done \cup {f}
      /\ unschedulable' = unschedulable /\ tpc' = tpc /\ tpc = "walk" /\ lock' = lock
  BY DEF Processes, Visits
<1>4. work' \in Seq(Filter) /\ ToSet(work') = ToSet(outputs[f]) \cup ToSet(Tail(work))
  BY <1>1, <1>2, <1>3, ElementsOfConcat, ZenonT(60)
<1>5. WalkOK' /\ LockOK'
  BY <1>3, <1>4 DEF WalkOK, LockOK
<1>6. Seen' = Seen \cup ToSet(outputs[f])
  BY <1>1, <1>3, <1>4 DEF Seen
<1>7. NothingForgotten'
  BY <1>3, <1>6 DEF NothingForgotten
<1> QED BY <1>5, <1>7

LEMMA PutsAsideInv ==
  ASSUME Inv, NEW f \in Filter, PutsAside(f), UNCHANGED <<outputs, execution_list>>
  PROVE  Inv'
<1> USE DEF Inv, GraphOK
<1>1. Tail(work) \in Seq(Filter) /\ ToSet(work) = {f} \cup ToSet(Tail(work))
  BY Visited DEF PutsAside
<1>2. <<f>> \in Seq(Filter) /\ ToSet(<<f>>) = {f} /\ unschedulable \in Seq(Filter)
  BY ElementsOfSingle DEF WalkOK
<1>3. unschedulable' = <<f>> \o unschedulable /\ work' = Tail(work) /\ done' = done
      /\ tpc' = tpc /\ tpc = "walk" /\ lock' = lock
  BY DEF PutsAside, Visits
<1>4. unschedulable' \in Seq(Filter) /\ ToSet(unschedulable') = {f} \cup ToSet(unschedulable)
  <2>1. <<f>> \o unschedulable \in Seq(Filter)
        /\ ToSet(<<f>> \o unschedulable) = ToSet(<<f>>) \cup ToSet(unschedulable)
    BY <1>2, ElementsOfConcat, ZenonT(60)
  <2>2. ToSet(unschedulable') = ToSet(<<f>> \o unschedulable)
    BY <1>3
  <2> QED BY <1>2, <1>3, <2>1, <2>2
<1>5. WalkOK' /\ LockOK'
  BY <1>1, <1>3, <1>4 DEF WalkOK, LockOK
<1>6. Seen' = Seen
  BY <1>1, <1>3, <1>4 DEF Seen
<1>7. NothingForgotten'
  BY <1>3, <1>6 DEF NothingForgotten
<1> QED BY <1>5, <1>7

LEMMA MovesInv ==
  ASSUME Inv, TickerMoves, UNCHANGED <<outputs, execution_list>>
  PROVE  Inv'
<1> USE DEF Inv, GraphOK
<1>1. CASE Begins
  BY <1>1 DEF Begins, walk, WalkOK, LockOK, NothingForgotten
<1>2. CASE Ticks
  <2>1. WalkOK' /\ LockOK'
    BY <1>2 DEF Ticks, WalkOK, LockOK
  <2>2. NothingForgotten'
    BY <1>2 DEF Ticks, NothingForgotten, Seen
  <2> QED BY <2>1, <2>2
<1>3. CASE Exits
  BY <1>3 DEF Exits, walk, WalkOK, LockOK, NothingForgotten
<1>4. CASE StartsSecondPass
  <2>1. WalkOK' /\ LockOK'
    BY <1>4, ElementsOfEmpty DEF StartsSecondPass, PassOver, WalkOK, LockOK
  <2>2. Seen' = Seen /\ done' = done /\ tpc = "walk"
    BY <1>4 DEF StartsSecondPass, PassOver, Seen
  <2>3. NothingForgotten'
    BY <2>2 DEF NothingForgotten
  <2> QED BY <2>1, <2>3
<1>5. CASE EndsTick
  BY <1>5 DEF EndsTick, PassOver, walk, WalkOK, LockOK, NothingForgotten
<1>6. CASE Wakes
  BY <1>6 DEF Wakes, walk, WalkOK, LockOK, NothingForgotten
<1>7. CASE \E f \in Filter : Skips(f) \/ PutsAside(f)
  BY <1>7, SkipsInv, PutsAsideInv
<1> QED BY <1>1, <1>2, <1>3, <1>4, <1>5, <1>6, <1>7 DEF TickerMoves

LEMMA StutterInv ==
  ASSUME Inv, UNCHANGED <<outputs, execution_list, walk, lock, tpc>>
  PROVE  Inv'
  BY DEF Inv, GraphOK, walk, WalkOK, LockOK, NothingForgotten, Seen

LEMMA NextInv ==
  ASSUME Inv, [TickerNext]_<<outputs, execution_list, ticker>>
  PROVE  Inv'
<1>1. CASE Stops
  BY <1>1, StutterInv DEF Stops
<1>2. CASE UNCHANGED <<outputs, execution_list>> /\ TickerMoves
  BY <1>2, MovesInv
<1>3. CASE UNCHANGED <<outputs, execution_list>> /\ \E f \in Filter : Processes(f)
  BY <1>3, ProcessesInv
<1>4. CASE UNCHANGED <<outputs, execution_list, ticker>>
  BY <1>4, StutterInv DEF ticker
<1> QED BY <1>1, <1>2, <1>3, <1>4 DEF TickerNext

LEMMA InvAlways == TickerSpec => []Inv
  BY InitInv, NextInv, PTL DEF TickerSpec

----------------------------------------------------------------------------
(* The theorems. *)

LEMMA InvTypeOK == Inv => TickerTypeOK
  BY ElementsOfSeq DEF Inv, GraphOK, WalkOK, LockOK, TickerTypeOK

\* The lists of the thread hold filters only, and it has the ticker's lock
\* exactly while it looks at run or walks the graph.
THEOREM TickerTypeCorrect == TickerSpec => []TickerTypeOK
  BY InvAlways, InvTypeOK, PTL

LEMMA InvTickIsComplete == Inv => TickIsComplete
  BY ElementsOfEmpty DEF Inv, NothingForgotten, Seen, TickIsComplete, PassOver

\* The two passes of run_graphs visit everything a source leads to, in every
\* graph, whatever loops it has.
THEOREM TickComplete == TickerSpec => []TickIsComplete
  BY InvAlways, InvTickIsComplete, PTL

----------------------------------------------------------------------------
(* Induction, from the fact that finite sets are well-founded by inclusion: *)
(* the library's induction theorems have an operator as their parameter.     *)

LEMMA SmallestNumber ==
  ASSUME NEW S \in SUBSET Nat, S # {}
  PROVE  \E m \in S : \A n \in S : m <= n
<1> DEFINE T == {1..n : n \in S}
<1>1. T \subseteq FiniteSubsetsOf(Nat) /\ T # {}
  <2>1. ASSUME NEW n \in S PROVE 1..n \in SUBSET Nat /\ IsFiniteSet(1..n)
    BY FS_Interval
  <2> QED BY <2>1 DEF FiniteSubsetsOf
<1>2. PICK x \in T : \A y \in T : <<y, x>> \notin StrictSubsetOrdering(Nat)
  <2>1. IsWellFoundedOn(StrictSubsetOrdering(Nat), FiniteSubsetsOf(Nat))
    BY FS_StrictSubsetOrderingWellFounded
  <2> HIDE DEF T
  <2> QED BY <1>1, <2>1, WFMin
<1>3. PICK m \in S : x = 1..m
  OBVIOUS
<1>4. ASSUME NEW n \in S, n < m PROVE FALSE
  <2>1. 1..n \in T /\ 1..n \subseteq x /\ m \in x /\ m \notin 1..n
    BY <1>3, <1>4
  <2>2. <<1..n, x>> \in StrictSubsetOrdering(Nat)
    BY <1>3, <2>1 DEF StrictSubsetOrdering
  <2> QED BY <1>2, <2>1, <2>2
<1> QED BY <1>3, <1>4

LEMMA Induction ==
  ASSUME NEW S, 0 \in S, \A n \in Nat : n \in S => n + 1 \in S
  PROVE  Nat \subseteq S
<1> SUFFICES ASSUME Nat \ S # {} PROVE FALSE
  OBVIOUS
<1>1. PICK m \in Nat \ S : \A n \in Nat \ S : m <= n
  BY SmallestNumber
<1>2. m # 0 /\ m - 1 \in Nat /\ m - 1 \in S
  BY <1>1
<1> QED BY <1>2, <1>1

----------------------------------------------------------------------------
(* The closure of a filter under a successor function, which Component and  *)
(* Downstream compute in as many rounds as there are filters.               *)

Rounds == Cardinality(Filter)

LEMMA RoundsType == Rounds \in Nat
  BY FiniteAssumption, FS_CardinalityType DEF Rounds

\* found is what the rounds from f find.
Finds(found, N, f, k) ==
  /\ found \in [0..k -> SUBSET Filter]
  /\ found[0] = {f}
  /\ \A n \in 1..k : found[n] = UNION {N[g] : g \in found[n - 1]}

LEMMA RoundsExist ==
  ASSUME NEW N \in [Filter -> SUBSET Filter], NEW f \in Filter, NEW k \in Nat
  PROVE  \E found : Finds(found, N, f, k)
<1> DEFINE S == {n \in Nat : \E found : Finds(found, N, f, n)}
<1>1. 0 \in S
  <2> DEFINE h == [n \in 0..0 |-> {f}]
  <2>1. Finds(h, N, f, 0)
    BY DEF Finds
  <2> QED BY <2>1
<1>2. ASSUME NEW n \in Nat, n \in S PROVE n + 1 \in S
  <2>1. PICK found : Finds(found, N, f, n)
    BY <1>2
  <2> DEFINE last == UNION {N[g] : g \in found[n]}
  <2> DEFINE h == [i \in 0..n + 1 |-> IF i = n + 1 THEN last ELSE found[i]]
  <2>2. found \in [0..n -> SUBSET Filter] /\ found[n] \subseteq Filter
    BY <2>1 DEF Finds
  <2>3. last \subseteq Filter
    BY <2>2
  <2> HIDE DEF last
  <2>4. h \in [0..n + 1 -> SUBSET Filter]
    BY <2>2, <2>3
  <2>5. h[0] = {f}
    BY <2>1 DEF Finds
  <2>6. ASSUME NEW i \in 1..n + 1 PROVE h[i] = UNION {N[g] : g \in h[i - 1]}
    <3>1. h[i - 1] = found[i - 1]
      OBVIOUS
    <3>2. CASE i = n + 1
      <4>1. h[i] = last /\ h[i - 1] = found[n]
        BY <3>1, <3>2
      <4> QED BY <4>1 DEF last
    <3>3. CASE i # n + 1
      <4>1. i \in 1..n /\ h[i] = found[i]
        BY <3>3
      <4> QED BY <3>1, <4>1, <2>1 DEF Finds
    <3> QED BY <3>2, <3>3
  <2>7. Finds(h, N, f, n + 1)
    BY <2>4, <2>5, <2>6 DEF Finds
  <2> QED BY <2>7
<1> HIDE DEF S
<1>3. k \in S
  BY <1>1, <1>2, Induction
<1> QED BY <1>3 DEF S

\* Whatever a round does not add to is closed; every other round adds a filter,
\* and there are as many rounds as filters.
LEMMA RoundsClose ==
  ASSUME NEW N \in [Filter -> SUBSET Filter], \A g \in Filter : g \in N[g],
         NEW f \in Filter, NEW found, Finds(found, N, f, Rounds)
  PROVE  /\ f \in found[Rounds]
         /\ found[Rounds] \subseteq Filter
         /\ \A g \in found[Rounds] : N[g] \subseteq found[Rounds]
<1> DEFINE Closed(n) == \A g \in found[n] : N[g] \subseteq found[n]
<1> DEFINE S == {n \in Nat : n <= Rounds =>
                   f \in found[n] /\ (Closed(n) \/ Cardinality(found[n]) >= n + 1)}
<1>0. Rounds \in Nat
  BY RoundsType
<1>a. \A n \in 0..Rounds : found[n] \subseteq Filter /\ IsFiniteSet(found[n])
                             /\ Cardinality(found[n]) \in Nat
                             /\ Cardinality(found[n]) <= Rounds
  <2>1. \A n \in 0..Rounds : found[n] \in SUBSET Filter
    BY DEF Finds
  <2> QED BY <2>1, FiniteAssumption, FS_Subset, FS_CardinalityType DEF Rounds
<1>1. 0 \in S
  <2>1. found[0] = {f} /\ Cardinality({f}) = 1
    BY FS_Singleton DEF Finds
  <2>2. f \in found[0] /\ Cardinality(found[0]) >= 0 + 1
    BY <2>1
  <2> QED BY <2>2
<1>2. ASSUME NEW n \in Nat, n \in S PROVE n + 1 \in S
  <2> SUFFICES ASSUME n + 1 <= Rounds
               PROVE  /\ f \in found[n + 1]
                      /\ Closed(n + 1) \/ Cardinality(found[n + 1]) >= n + 2
    OBVIOUS
  <2>1. n \in 0..Rounds /\ n + 1 \in 0..Rounds /\ n + 1 \in 1..Rounds /\ (n + 1) - 1 = n
    BY <1>0
  <2>2. found[n + 1] = UNION {N[g] : g \in found[n]}
    <3>1. found[n + 1] = UNION {N[g] : g \in found[(n + 1) - 1]}
      BY <2>1 DEF Finds
    <3> QED BY <2>1, <3>1
  <2>3. found[n] \subseteq found[n + 1] /\ f \in found[n]
    BY <1>a, <1>2, <2>1, <2>2
  <2>4. CASE Closed(n)
    <3>1. found[n + 1] = found[n]
      BY <2>2, <2>3, <2>4
    <3> QED BY <2>3, <2>4, <3>1
  <2>5. CASE ~Closed(n) /\ Cardinality(found[n]) >= n + 1
    <3>1. found[n + 1] # found[n]
      BY <2>2, <2>5
    <3>2. Cardinality(found[n]) <= Cardinality(found[n + 1])
          /\ Cardinality(found[n]) # Cardinality(found[n + 1])
      BY <1>a, <2>1, <2>3, <3>1, FS_Subset
    <3> QED BY <1>a, <2>1, <2>3, <2>5, <3>2
  <2> QED BY <1>2, <2>1, <2>4, <2>5
<1> HIDE DEF S
<1>3. Rounds \in S
  BY <1>0, <1>1, <1>2, Induction
<1> QED BY <1>0, <1>3, <1>a DEF S

\* It is the least closed set with f.
LEMMA RoundsLeast ==
  ASSUME NEW N \in [Filter -> SUBSET Filter], NEW f, NEW k \in Nat,
         NEW found, Finds(found, N, f, k),
         NEW C, f \in C, \A g \in C \cap Filter : N[g] \subseteq C
  PROVE  found[k] \subseteq C
<1> DEFINE S == {n \in Nat : n <= k => found[n] \subseteq C}
<1>1. 0 \in S
  BY DEF Finds
<1>2. ASSUME NEW n \in Nat, n \in S PROVE n + 1 \in S
  <2> SUFFICES ASSUME n + 1 <= k PROVE found[n + 1] \subseteq C
    OBVIOUS
  <2>1. n + 1 \in 1..k /\ n \in 0..k /\ (n + 1) - 1 = n
    OBVIOUS
  <2>2. found[n + 1] = UNION {N[g] : g \in found[(n + 1) - 1]}
    BY <2>1 DEF Finds
  <2>3. found[n] \subseteq Filter
    BY <2>1 DEF Finds
  <2> QED BY <1>2, <2>1, <2>2, <2>3
<1> HIDE DEF S
<1>3. k \in S
  BY <1>1, <1>2, Induction
<1> QED BY <1>3 DEF S

\* Downstream(f) is closed under the links out of a filter, and the least such
\* set with f.
LEMMA DownstreamIsClosure ==
  ASSUME GraphOK, NEW f \in Filter
  PROVE  /\ f \in Downstream(f) /\ Downstream(f) \subseteq Filter
         /\ \A g \in Downstream(f) : ToSet(outputs[g]) \subseteq Downstream(f)
         /\ \A C : f \in C /\ (\A g \in C \cap Filter : ToSet(outputs[g]) \subseteq C)
                     => Downstream(f) \subseteq C
<1> DEFINE N == [g \in Filter |-> {g} \cup ToSet(outputs[g])]
<1> DEFINE Eq(h) == h = [n \in 0..Cardinality(Filter) |->
                           IF n = 0 THEN {f}
                           ELSE UNION {{g} \cup ToSet(outputs[g]) : g \in h[n - 1]}]
<1> DEFINE d == CHOOSE h : Eq(h)
<1>0. Rounds \in Nat /\ Rounds = Cardinality(Filter)
  BY RoundsType DEF Rounds
<1>1. N \in [Filter -> SUBSET Filter] /\ \A g \in Filter : g \in N[g]
  BY ElementsOfSeq DEF GraphOK
<1>a. ASSUME NEW A \in SUBSET Filter
      PROVE  UNION {N[g] : g \in A} = UNION {{g} \cup ToSet(outputs[g]) : g \in A}
  OBVIOUS
<1>2. PICK h : Finds(h, N, f, Rounds)
  <2> HIDE DEF N
  <2> QED BY <1>0, <1>1, RoundsExist
<1>3. Eq(h)
  <2>1. ASSUME NEW n \in 1..Rounds
        PROVE  h[n] = UNION {{g} \cup ToSet(outputs[g]) : g \in h[n - 1]}
    <3>1. h[n] = UNION {N[g] : g \in h[n - 1]} /\ h[n - 1] \subseteq Filter
      <4> HIDE DEF N
      <4> QED BY <1>0, <1>2 DEF Finds
    <3> HIDE DEF N
    <3> QED BY <1>a, <3>1
  <2> DEFINE G(n) == IF n = 0 THEN {f}
                     ELSE UNION {{g} \cup ToSet(outputs[g]) : g \in h[n - 1]}
  <2>2. h = [n \in 0..Rounds |-> h[n]] /\ h[0] = {f}
    BY <1>2 DEF Finds
  <2>3. ASSUME NEW n \in 0..Rounds PROVE h[n] = G(n)
    <3>1. CASE n = 0
      BY <2>2, <3>1
    <3>2. CASE n # 0
      <4>1. n \in 1..Rounds
        BY <1>0, <3>2
      <4>2. h[n] = UNION {{g} \cup ToSet(outputs[g]) : g \in h[n - 1]}
        BY <2>1, <4>1
      <4> QED BY <3>2, <4>2, Zenon
    <3> QED BY <3>1, <3>2
  <2>4. h = [n \in 0..Rounds |-> G(n)]
    <3> HIDE DEF G
    <3> QED BY <2>2, <2>3
  <2> QED BY <1>0, <2>4, Zenon
<1>4. Eq(d)
  <2> HIDE DEF Eq
  <2> QED BY <1>3
<1>5. d[0] = {f} /\ \A n \in 1..Rounds :
                      d[n] = UNION {{g} \cup ToSet(outputs[g]) : g \in d[n - 1]}
  <2> HIDE DEF d
  <2> QED BY <1>0, <1>4
<1>6. \A n \in 0..Rounds : d[n] \subseteq Filter
  <2> DEFINE S == {n \in Nat : n <= Rounds => d[n] \subseteq Filter}
  <2> HIDE DEF d, N
  <2>1. 0 \in S
    BY <1>5
  <2>2. ASSUME NEW n \in Nat, n \in S PROVE n + 1 \in S
    <3> SUFFICES ASSUME n + 1 <= Rounds PROVE d[n + 1] \subseteq Filter
      OBVIOUS
    <3>1. n + 1 \in 1..Rounds /\ (n + 1) - 1 = n
      BY <1>0
    <3>2. d[n + 1] = UNION {{g} \cup ToSet(outputs[g]) : g \in d[(n + 1) - 1]}
      BY <1>5, <3>1
    <3>3. d[n] \subseteq Filter
      BY <1>0, <2>2
    <3>4. \A g \in Filter : {g} \cup ToSet(outputs[g]) \subseteq Filter
      BY ElementsOfSeq DEF GraphOK
    <3> QED BY <3>1, <3>2, <3>3, <3>4
  <2> HIDE DEF S
  <2>3. Nat \subseteq S
    BY <2>1, <2>2, Induction
  <2> QED BY <1>0, <2>3 DEF S
<1>7. Finds(d, N, f, Rounds)
  <2>1. d \in [0..Rounds -> SUBSET Filter]
    <3> HIDE DEF d
    <3> QED BY <1>0, <1>4, <1>6
  <2>2. ASSUME NEW n \in 1..Rounds PROVE d[n] = UNION {N[g] : g \in d[n - 1]}
    <3>1. n - 1 \in 0..Rounds
      BY <1>0
    <3>2. d[n - 1] \subseteq Filter
      BY <1>6, <3>1
    <3> HIDE DEF d, N
    <3> QED BY <1>5, <1>a, <3>2
  <2> HIDE DEF d, N
  <2> QED BY <1>5, <2>1, <2>2 DEF Finds
<1>8. Downstream(f) = d[Rounds]
  BY <1>0 DEF Downstream
<1>9. /\ f \in d[Rounds] /\ d[Rounds] \subseteq Filter
      /\ \A g \in d[Rounds] : N[g] \subseteq d[Rounds]
  <2> HIDE DEF d, N
  <2> QED BY <1>1, <1>7, RoundsClose
<1>10. ASSUME NEW C, f \in C, \A g \in C \cap Filter : ToSet(outputs[g]) \subseteq C
       PROVE  d[Rounds] \subseteq C
  <2>1. \A g \in C \cap Filter : N[g] \subseteq C
    BY <1>10
  <2> HIDE DEF d, N
  <2> QED BY <1>0, <1>1, <1>7, <1>10, <2>1, RoundsLeast
<1> HIDE DEF d
<1> QED BY <1>8, <1>9, <1>10

\* A filter behind a loop
Behind(f) == \E g \in Filter : InLoop(g) /\ f \in Downstream(g)

\* Filters each of which is linked after another of them are behind a loop:
\* going back from one of them, whoever is led to by the fewest of them is led
\* to by itself.
LEMMA NoFirstMeansLoop ==
  ASSUME GraphOK, NEW U \in SUBSET Filter,
         \A u \in U : \E p \in U : u \in ToSet(outputs[p]),
         NEW u \in U
  PROVE  Behind(u)
<1> DEFINE Leading(g) == {a \in U : g \in Downstream(a)}
<1> DEFINE T == {Leading(g) : g \in Leading(u)}
<1>1. \A g \in Filter : /\ g \in Downstream(g)
                        /\ \A k \in Downstream(g) : ToSet(outputs[k]) \subseteq Downstream(g)
  BY DownstreamIsClosure
<1>2. T \subseteq FiniteSubsetsOf(Filter) /\ T # {}
  <2>1. \A g : Leading(g) \in SUBSET Filter
    OBVIOUS
  <2>2. \A A \in SUBSET Filter : IsFiniteSet(A)
    BY FiniteAssumption, FS_Subset
  <2>3. Leading(u) \in T
    BY <1>1
  <2> QED BY <2>1, <2>2, <2>3 DEF FiniteSubsetsOf
<1>3. PICK x \in T : \A y \in T : <<y, x>> \notin StrictSubsetOrdering(Filter)
  <2>1. IsWellFoundedOn(StrictSubsetOrdering(Filter), FiniteSubsetsOf(Filter))
    BY FS_StrictSubsetOrderingWellFounded
  <2> HIDE DEF T
  <2> QED BY <1>2, <2>1, WFMin
<1>4. PICK g \in Leading(u) : x = Leading(g)
  OBVIOUS
<1>5. g \in U /\ g \in Filter /\ u \in Downstream(g)
  OBVIOUS
<1>6. PICK p \in U : g \in ToSet(outputs[p])
  BY <1>5
<1>7. Downstream(g) \subseteq Downstream(p) /\ g \in Downstream(p)
  <2>1. g \in Downstream(p)
    BY <1>1, <1>6
  <2>2. \A k \in Downstream(p) \cap Filter : ToSet(outputs[k]) \subseteq Downstream(p)
    BY <1>1
  <2> QED BY <1>5, <2>1, <2>2, DownstreamIsClosure
<1>8. Leading(p) \subseteq Leading(g) /\ p \in Leading(u)
  BY <1>1, <1>5, <1>6, <1>7
<1>9. Leading(p) = Leading(g)
  <2>1. Leading(p) \in T /\ Leading(p) \in SUBSET Filter /\ Leading(g) \in SUBSET Filter
    BY <1>8
  <2>2. <<Leading(p), x>> \notin StrictSubsetOrdering(Filter)
    BY <1>3, <2>1
  <2> HIDE DEF Leading
  <2> QED BY <1>4, <1>8, <2>1, <2>2 DEF StrictSubsetOrdering
<1>10. p \in Downstream(g)
  <2>1. g \in Leading(g)
    BY <1>1, <1>5
  <2> QED BY <1>9, <2>1
<1>11. InLoop(p)
  BY <1>6, <1>10 DEF InLoop
<1> QED BY <1>5, <1>7, <1>11 DEF Behind

----------------------------------------------------------------------------
(* Inputs first. *)

SourcesListed == \A f \in Filter : Inputs(f) = {} => f \in ToSet(execution_list)

\* In the first pass whatever could run is still to be visited, so at its end
\* each filter that has not run waits for another one, and is behind a loop.
WalkOrder ==
  /\ force_schedule \in BOOLEAN
  /\ tpc = "walk" /\ ~force_schedule =>
       \A f \in Filter \ done : Inputs(f) \subseteq done => f \in ToSet(work)
  /\ tpc = "walk" /\ force_schedule => \A f \in Filter \ done : Behind(f)

OrderInv == SourcesListed /\ WalkOrder

LEMMA InitOrder == TickerInit => OrderInv
<1> SUFFICES ASSUME TickerInit PROVE OrderInv
  OBVIOUS
<1>1. SourcesListed
  <2> DEFINE S == {f \in Filter : Inputs(f) = {}}
  <2>1. /\ execution_list \in [1..Cardinality(S) -> S]
        /\ \A i, j \in 1..Cardinality(S) : i # j => execution_list[i] # execution_list[j]
    BY DEF TickerInit, SetToSeqs
  <2>2. execution_list \in Injection(1..Cardinality(S), S)
    <3> HIDE DEF S
    <3> QED BY <2>1 DEF Injection, IsInjective
  <2>3. IsFiniteSet(S) /\ Cardinality(S) \in Nat
    BY FiniteAssumption, FS_Subset, FS_CardinalityType
  <2> HIDE DEF S
  <2>4. Cardinality(1..Cardinality(S)) = Cardinality(S)
    BY <2>3, FS_Interval
  <2>5. execution_list \in Surjection(1..Cardinality(S), S)
    BY <2>2, <2>3, <2>4, FS_Injection
  <2>6. S \subseteq ToSet(execution_list)
    BY <2>3, <2>5 DEF Surjection, ToSet
  <2> QED BY <2>6 DEF S, SourcesListed
<1>2. WalkOrder
  BY DEF TickerInit, TicksIdle, WalkOrder
<1> QED BY <1>1, <1>2 DEF OrderInv

LEMMA BehindStays ==
  ASSUME UNCHANGED outputs, NEW f
  PROVE  /\ Behind(f)' <=> Behind(f)
         /\ Inputs(f)' = Inputs(f)
  BY DEF Behind, InLoop, Downstream, Inputs

LEMMA OrderStep ==
  ASSUME Inv, OrderInv, [TickerNext]_<<outputs, execution_list, ticker>>
  PROVE  OrderInv'
<1> USE DEF Inv, OrderInv
<1>1. UNCHANGED <<outputs, execution_list>>
  BY DEF TickerNext, Stops
<1>2. SourcesListed'
  BY <1>1, BehindStays DEF SourcesListed
<1> SUFFICES WalkOrder'
  BY <1>2
<1>3. ASSUME tpc' # "walk", force_schedule' = force_schedule PROVE WalkOrder'
  BY <1>3 DEF WalkOrder
<1>4. ASSUME UNCHANGED <<walk, tpc>> PROVE WalkOrder'
  BY <1>1, <1>4, BehindStays DEF WalkOrder, walk
<1>5. CASE Begins \/ Exits \/ EndsTick \/ Wakes
  BY <1>3, <1>5 DEF Begins, Exits, EndsTick, Wakes, walk
<1>6. CASE Ticks
  BY <1>1, <1>6, BehindStays DEF Ticks, WalkOrder, SourcesListed
<1>7. ASSUME NEW f \in Filter, Skips(f) \/ PutsAside(f) PROVE WalkOrder'
  <2>1. ToSet(work) = {f} \cup ToSet(work') /\ done' = done /\ tpc = "walk" /\ tpc' = tpc
        /\ force_schedule' = force_schedule
    BY <1>7, Visited DEF Skips, PutsAside, Visits
  <2>2. f \in done \/ ~(Inputs(f) \subseteq done)
    BY <1>7 DEF Skips, PutsAside, filter_can_process
  <2> QED BY <1>1, <2>1, <2>2, BehindStays DEF WalkOrder
<1>8. ASSUME NEW f \in Filter, Processes(f) PROVE WalkOrder'
  <2>1. /\ Tail(work) \in Seq(Filter) /\ outputs[f] \in Seq(Filter)
        /\ ToSet(work) = {f} \cup ToSet(Tail(work))
    BY <1>8, Visited DEF Processes, GraphOK
  <2>2. ToSet(work') = ToSet(outputs[f]) \cup ToSet(Tail(work))
    <3>1. ToSet(outputs[f] \o Tail(work)) = ToSet(outputs[f]) \cup ToSet(Tail(work))
      BY <2>1, ElementsOfConcat, ZenonT(60)
    <3> QED BY <1>1, <1>8, <3>1 DEF Processes
  <2>3. done' = done \cup {f} /\ tpc = "walk" /\ tpc' = tpc /\ force_schedule' = force_schedule
    BY <1>8 DEF Processes, Visits
  <2>4. \A g \in Filter : f \in Inputs(g) <=> g \in ToSet(outputs[f])
    BY DEF Inputs
  <2> QED BY <1>1, <2>1, <2>2, <2>3, <2>4, BehindStays DEF WalkOrder
<1>9. CASE StartsSecondPass
  <2>1. /\ tpc = "walk" /\ done' = done /\ force_schedule' = TRUE
        /\ ~force_schedule => ToSet(work) = {}
    BY <1>9, ElementsOfEmpty DEF StartsSecondPass, PassOver
  <2>2. ASSUME ~force_schedule, NEW f \in Filter \ done PROVE Behind(f)
    <3>1. \A u \in Filter \ done : \E p \in Filter \ done : u \in ToSet(outputs[p])
      BY <2>1, <2>2 DEF WalkOrder, Inputs
    <3> QED BY <3>1, NoFirstMeansLoop
  <2> QED BY <1>1, <2>1, <2>2, BehindStays DEF WalkOrder
<1> QED BY <1>4, <1>5, <1>6, <1>7, <1>8, <1>9
        DEF TickerNext, TickerMoves, Stops, ticker

\* A filter runs after every filter that feeds it, unless it is behind a loop:
\* run_graphs forces only what its first pass could not run.
THEOREM InputsRunFirst == TickerSpec => InputsFirst
<1>1. ASSUME Inv, OrderInv, TickerNext, NEW f \in done' \ done
      PROVE  Inputs(f) \subseteq done \/ Behind(f)
  <2>1. CASE Stops \/ TickerMoves
    BY <1>1, <2>1 DEF Stops, TickerMoves, walk, Begins, Ticks, Exits, StartsSecondPass,
                      EndsTick, Wakes, Skips, PutsAside
  <2>2. CASE \E g \in Filter : Processes(g)
    BY <1>1, <2>2 DEF Processes, Visits, filter_can_process, OrderInv, WalkOrder
  <2> QED BY <1>1, <2>1, <2>2 DEF TickerNext
<1>2. Inv /\ OrderInv /\ [TickerNext]_<<outputs, execution_list, ticker>>
        => [\A f \in done' \ done : Inputs(f) \subseteq done \/
              \E g \in Filter : InLoop(g) /\ f \in Downstream(g)
           ]_<<outputs, execution_list, ticker>>
  BY <1>1 DEF Behind
<1> QED BY <1>2, InitOrder, OrderStep, InvAlways, PTL DEF TickerSpec, InputsFirst
=============================================================================
