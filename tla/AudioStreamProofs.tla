------------------------- MODULE AudioStreamProofs -------------------------
(***************************************************************************)
(* Theorems about the audio stream: whatever the owner, the ticker thread  *)
(* and the card's thread do in whatever order, for any number of decoders. *)
(* The invariants of the ticker on its own are taken from MSTickerProofs,  *)
(* and so are the closures that Component computes.                        *)
(***************************************************************************)
EXTENDS AudioStream, MSTickerProofs

----------------------------------------------------------------------------
(* SetToSeq lists the members of a finite set. *)

LEMMA ListOfSet ==
  ASSUME NEW S \in SUBSET Filter
  PROVE  SetToSeq(S) \in Seq(Filter) /\ ToSet(SetToSeq(S)) = S
<1> DEFINE n == Cardinality(S)
<1> DEFINE Injects(s) == s \in [1..n -> S] /\ IsInjective(s)
<1>1. IsFiniteSet(S) /\ n \in Nat
  BY FiniteAssumption, FS_Subset, FS_CardinalityType
<1>2. \E s : Injects(s)
  <2>1. PICK s \in Bijection(1..n, S) : TRUE
    <3>1. IsFiniteSet(1..n) /\ Cardinality(1..n) = n
      BY <1>1, FS_Interval
    <3> QED BY <1>1, <3>1, FS_SameCardinalityBij DEF ExistsBijection
  <2>2. s \in Injection(1..n, S)
    BY <2>1 DEF Bijection
  <2>3. s \in [1..n -> S] /\ \A a, b \in 1..n : s[a] = s[b] => a = b
    <3> HIDE DEF n
    <3> QED BY <2>2 DEF Injection, IsInjective
  <2> QED BY <2>3 DEF IsInjective
<1>3. Injects(SetToSeq(S))
  <2>1. Injects(CHOOSE s : Injects(s))
    <3> HIDE DEF Injects
    <3> QED BY <1>2
  <2> QED BY <2>1 DEF SetToSeq
<1>4. SetToSeq(S) \in Surjection(1..n, S)
  <2> HIDE DEF n
  <2>1. SetToSeq(S) \in Injection(1..n, S)
    BY <1>3 DEF Injection, IsInjective
  <2>2. Cardinality(1..n) = n
    BY <1>1, FS_Interval
  <2> QED BY <1>1, <2>1, <2>2, FS_Injection DEF n
<1> HIDE DEF n
<1>5. SetToSeq(S) \in [1..n -> S] /\ S \subseteq ToSet(SetToSeq(S))
  BY <1>1, <1>3, <1>4 DEF Surjection, ToSet
<1>6. SetToSeq(S) \in Seq(Filter)
  BY <1>1, <1>5
<1>7. ToSet(SetToSeq(S)) \subseteq S
  BY <1>1, <1>5 DEF ToSet
<1> QED BY <1>5, <1>6, <1>7

LEMMA NoElements ==
  ASSUME NEW S, NEW s \in Seq(S), ToSet(s) = {}
  PROVE  s = << >>
<1>1. ASSUME s # << >> PROVE FALSE
  <2>1. 1 \in 1..Len(s)
    BY <1>1
  <2>2. s[1] \in ToSet(s)
    BY <2>1 DEF ToSet
  <2> QED BY <2>2
<1> QED BY <1>1

LEMMA ListOfNone == SetToSeq({}) = << >>
<1> DEFINE s == SetToSeq({})
<1>1. s \in Seq(Filter) /\ ToSet(s) = {}
  BY ListOfSet
<1> HIDE DEF s
<1>2. s = << >>
  BY ONLY <1>1, NoElements
<1> QED BY ONLY <1>2 DEF s

LEMMA ListOfOne ==
  ASSUME NEW f \in Filter
  PROVE  SetToSeq({f}) = <<f>>
<1> DEFINE Injects(s) == s \in [1..1 -> {f}] /\ IsInjective(s)
<1>1. Cardinality({f}) = 1
  BY FS_Singleton
<1>2. Injects(<<f>>)
  BY DEF IsInjective
<1>3. SetToSeq({f}) = CHOOSE s : Injects(s)
  BY <1>1 DEF SetToSeq
<1>4. Injects(SetToSeq({f}))
  <2> HIDE DEF Injects
  <2> QED BY <1>2, <1>3
<1> QED BY <1>4

LEMMA ElementsOfAppend ==
  ASSUME NEW s \in Seq(Filter), NEW f \in Filter
  PROVE  Append(s, f) \in Seq(Filter) /\ ToSet(Append(s, f)) = ToSet(s) \cup {f}
<1>1. /\ Append(s, f) \in Seq(Filter) /\ Len(Append(s, f)) = Len(s) + 1 /\ Len(s) \in Nat
      /\ \A i \in 1..Len(s) : Append(s, f)[i] = s[i]
      /\ Append(s, f)[Len(s) + 1] = f
  OBVIOUS
<1>2. \A i \in 1..Len(s) + 1 : i \in 1..Len(s) \/ i = Len(s) + 1
  BY <1>1
<1> QED BY <1>1, <1>2 DEF ToSet

\* What is left of a list after ms_list_remove
LEMMA ElementsWithout ==
  ASSUME NEW s \in Seq(Filter), NEW A
  PROVE  Without(s, A) \in Seq(Filter) /\ ToSet(Without(s, A)) = ToSet(s) \ A
<1> DEFINE Round(h, n) == IF s[n] \in A THEN h[n - 1] ELSE Append(h[n - 1], s[n])
           Keeps(h, k) == /\ h \in [0..k -> Seq(Filter)]
                          /\ h[0] = << >>
                          /\ \A n \in 1..k : h[n] = Round(h, n)
           K == {k \in Nat : k <= Len(s) => \E h : Keeps(h, k)}
           Eq(h) == h = [n \in 0..Len(s) |->
                           IF n = 0 THEN << >>
                           ELSE IF s[n] \in A THEN h[n - 1] ELSE Append(h[n - 1], s[n])]
           d == CHOOSE h : Eq(h)
<1>0. Len(s) \in Nat /\ \A n \in 1..Len(s) : s[n] \in Filter
  OBVIOUS
<1>1. 0 \in K
  <2> DEFINE h == [n \in 0..0 |-> << >>]
  <2>1. Keeps(h, 0)
    OBVIOUS
  <2> HIDE DEF Keeps, h
  <2> QED BY <2>1
<1> HIDE DEF Keeps
<1>2. ASSUME NEW k \in Nat, k \in K PROVE k + 1 \in K
  <2> SUFFICES ASSUME k + 1 <= Len(s) PROVE \E h : Keeps(h, k + 1)
    OBVIOUS
  <2>1. PICK g : Keeps(g, k)
    BY <1>0, <1>2
  <2>g. g \in [0..k -> Seq(Filter)] /\ g[0] = << >> /\ \A n \in 1..k : g[n] = Round(g, n)
    BY <2>1 DEF Keeps
  <2> DEFINE last == IF s[k + 1] \in A THEN g[k] ELSE Append(g[k], s[k + 1])
             h == [n \in 0..k + 1 |-> IF n = k + 1 THEN last ELSE g[n]]
  <2>2. last \in Seq(Filter)
    BY <1>0, <2>g
  <2> HIDE DEF last
  <2>3. h \in [0..k + 1 -> Seq(Filter)] /\ h[0] = << >>
    BY <2>g, <2>2
  <2>4. ASSUME NEW n \in 1..k + 1 PROVE h[n] = Round(h, n)
    <3>1. h[n - 1] = g[n - 1]
      OBVIOUS
    <3>2. CASE n = k + 1
      BY <3>1, <3>2 DEF last
    <3>3. CASE n # k + 1
      <4>1. n \in 1..k /\ h[n] = g[n]
        BY <3>3
      <4> QED BY <2>g, <3>1, <4>1
    <3> QED BY <3>2, <3>3
  <2>5. Keeps(h, k + 1)
    BY <2>3, <2>4 DEF Keeps
  <2> HIDE DEF h
  <2> QED BY <2>5
<1>3. PICK h : Keeps(h, Len(s))
  <2> HIDE DEF K
  <2>1. Len(s) \in K
    BY <1>0, <1>1, <1>2, Induction
  <2> QED BY <1>0, <2>1 DEF K
<1>h. /\ h \in [0..Len(s) -> Seq(Filter)] /\ h[0] = << >>
      /\ \A n \in 1..Len(s) : h[n] = Round(h, n)
  BY <1>3 DEF Keeps
<1>4. Eq(h)
  <2> DEFINE G(n) == IF n = 0 THEN << >>
                     ELSE IF s[n] \in A THEN h[n - 1] ELSE Append(h[n - 1], s[n])
  <2>1. h = [n \in 0..Len(s) |-> h[n]]
    BY <1>h
  <2>2. ASSUME NEW n \in 0..Len(s) PROVE h[n] = G(n)
    <3>1. CASE n = 0
      BY <1>h, <3>1
    <3>2. CASE n # 0
      <4>1. n \in 1..Len(s)
        BY <1>0, <3>2
      <4>2. h[n] = Round(h, n)
        BY ONLY <1>h, <4>1, Zenon
      <4> QED BY <3>2, <4>2, Zenon
    <3> QED BY <3>1, <3>2
  <2>3. h = [n \in 0..Len(s) |-> G(n)]
    <3> HIDE DEF G
    <3> QED BY <2>1, <2>2
  <2> QED BY <2>3, Zenon
<1>5. Eq(d)
  <2> HIDE DEF Eq
  <2> QED BY <1>4
<1>6. d[0] = << >> /\ \A n \in 1..Len(s) : d[n] = Round(d, n)
  <2> DEFINE G(n) == IF n = 0 THEN << >>
                     ELSE IF s[n] \in A THEN d[n - 1] ELSE Append(d[n - 1], s[n])
  <2> HIDE DEF d
  <2>1. d = [n \in 0..Len(s) |-> G(n)]
    BY <1>5, Zenon
  <2>2. \A n \in 0..Len(s) : d[n] = G(n)
    <3> HIDE DEF G
    <3> QED BY <2>1
  <2>3. d[0] = << >>
    <3>1. 0 \in 0..Len(s) /\ G(0) = << >>
      BY <1>0
    <3> HIDE DEF G
    <3> QED BY <2>2, <3>1
  <2>4. ASSUME NEW n \in 1..Len(s) PROVE d[n] = Round(d, n)
    <3>1. n \in 0..Len(s) /\ n # 0
      BY <1>0
    <3>2. d[n] = G(n)
      BY ONLY <2>2, <3>1, Zenon
    <3> QED BY <3>1, <3>2, Zenon
  <2> QED BY <2>3, <2>4
<1> HIDE DEF Round
<1> DEFINE Upto(n) == {s[i] : i \in 1..n}
           M == {n \in Nat : n <= Len(s) => d[n] \in Seq(Filter) /\ ToSet(d[n]) = Upto(n) \ A}
<1> HIDE DEF d
<1>7. 0 \in M
  <2>1. Upto(0) = {} /\ << >> \in Seq(Filter) /\ ToSet(<< >>) = {}
    BY ElementsOfEmpty
  <2> HIDE DEF Upto
  <2> QED BY <1>6, <2>1
<1>8. ASSUME NEW n \in Nat, n \in M PROVE n + 1 \in M
  <2> SUFFICES ASSUME n + 1 <= Len(s)
               PROVE  d[n + 1] \in Seq(Filter) /\ ToSet(d[n + 1]) = Upto(n + 1) \ A
    OBVIOUS
  <2>1. n + 1 \in 1..Len(s) /\ (n + 1) - 1 = n /\ s[n + 1] \in Filter
    BY <1>0
  <2>2. d[n + 1] = IF s[n + 1] \in A THEN d[n] ELSE Append(d[n], s[n + 1])
    BY <1>6, <2>1 DEF Round
  <2>3. Upto(n + 1) = Upto(n) \cup {s[n + 1]}
    BY <2>1
  <2>4. d[n] \in Seq(Filter) /\ ToSet(d[n]) = Upto(n) \ A
    BY <1>0, <1>8
  <2>5. CASE s[n + 1] \in A
    BY <2>2, <2>3, <2>4, <2>5
  <2>6. CASE s[n + 1] \notin A
    <3>1. /\ Append(d[n], s[n + 1]) \in Seq(Filter)
          /\ ToSet(Append(d[n], s[n + 1])) = ToSet(d[n]) \cup {s[n + 1]}
      BY <2>1, <2>4, ElementsOfAppend
    <3> HIDE DEF Upto
    <3> QED BY <2>2, <2>3, <2>4, <2>6, <3>1
  <2> QED BY <2>5, <2>6
<1> HIDE DEF M
<1>9. Len(s) \in M
  BY <1>0, <1>7, <1>8, Induction
<1>10. Without(s, A) = d[Len(s)]
  BY DEF Without, d
<1>11. Upto(Len(s)) = ToSet(s)
  BY DEF ToSet
<1> QED BY <1>0, <1>9, <1>10, <1>11 DEF M

----------------------------------------------------------------------------
(* The chains that are linked. *)

LEMMA NextInChain ==
  ASSUME NEW c \in Seq(Filter)
  PROVE  /\ \A f : NextIn(c, f) \subseteq ToSet(c)
         /\ \A f : f \notin ToSet(c) => NextIn(c, f) = {}
         /\ \A i \in 1..Len(c) - 1 : c[i + 1] \in NextIn(c, c[i])
  BY DEF NextIn, ToSet

\* What comes after the decoder does not depend on it.
RecvRest ==
  <<"dtmfgen", "equalizer">> \o If(options.volume = "both", "volrecv")
    \o If(options.ec, "ec") \o <<"soundwrite">>

SendRoles == {"soundread", "resampler", "ec", "volsend", "encoder", "rtpsend"}
RestRoles == {"dtmfgen", "equalizer", "volrecv", "ec", "soundwrite"}

\* The chain s is made of the filters R.
MadeOf(s, R) == s \in Seq(Filter) /\ ToSet(s) = R

LEMMA MadeOfBoth ==
  ASSUME NEW s, NEW t, NEW A, NEW B, MadeOf(s, A), MadeOf(t, B)
  PROVE  MadeOf(s \o t, A \cup B)
<1>1. s \in Seq(Filter) /\ t \in Seq(Filter)
  BY DEF MadeOf
<1>2. s \o t \in Seq(Filter) /\ ToSet(s \o t) = ToSet(s) \cup ToSet(t)
  BY ONLY <1>1, ElementsOfConcat, ZenonT(60)
<1> QED BY <1>2 DEF MadeOf

Optional(option, role) == IF option THEN {role} ELSE {}

LEMMA MadeOfIf ==
  ASSUME NEW option, NEW role \in Role
  PROVE  MadeOf(If(option, role), Optional(option, role))
<1>0. role \in Filter
  BY FilterAssumption
<1>1. <<role>> \in Seq(Filter) /\ ToSet(<<role>>) = {role}
  BY <1>0, ElementsOfSingle
<1>2. << >> \in Seq(Filter) /\ ToSet(<< >>) = {}
  BY ElementsOfEmpty
<1>3. CASE option
  BY <1>1, <1>3 DEF If, Optional, MadeOf
<1>4. CASE ~option
  BY <1>2, <1>4 DEF If, Optional, MadeOf
<1> QED BY <1>3, <1>4

\* The sending chain is without the filters that only receive.
LEMMA SendFacts ==
  /\ SendChain \in Seq(Filter)
  /\ ToSet(SendChain) \subseteq SendRoles
  /\ {"soundread", "rtpsend"} \subseteq ToSet(SendChain)
  /\ "ec" \in ToSet(SendChain) <=> options.ec
<1> DEFINE s1 == <<"soundread">>
           s2 == If(options.files, "resampler")
           s3 == If(options.ec, "ec")
           s4 == If(options.volume # "none", "volsend")
           s5 == <<"encoder", "rtpsend">>
           o2 == Optional(options.files, "resampler")
           o3 == Optional(options.ec, "ec")
           o4 == Optional(options.volume # "none", "volsend")
<1>1. MadeOf(s1, {"soundread"}) /\ MadeOf(s5, {"encoder", "rtpsend"})
  BY FilterAssumption DEF Role, ToSet, MadeOf
<1>2. MadeOf(s2, o2) /\ MadeOf(s3, o3) /\ MadeOf(s4, o4)
  <2>1. "resampler" \in Role /\ "ec" \in Role /\ "volsend" \in Role
    BY DEF Role
  <2> QED BY ONLY <2>1, MadeOfIf
<1>3. SendChain = s1 \o s2 \o s3 \o s4 \o s5
  BY DEF SendChain
<1>4. o2 \subseteq {"resampler"} /\ o4 \subseteq {"volsend"}
      /\ o3 \subseteq {"ec"} /\ ("ec" \in o3 <=> options.ec)
  BY DEF Optional
<1> HIDE DEF s1, s2, s3, s4, s5, o2, o3, o4
<1>5. MadeOf(s1 \o s2 \o s3 \o s4 \o s5,
             {"soundread"} \cup o2 \cup o3 \cup o4 \cup {"encoder", "rtpsend"})
  BY ONLY <1>1, <1>2, MadeOfBoth, ZenonT(60)
<1> QED BY <1>3, <1>4, <1>5 DEF SendRoles, MadeOf

LEMMA FirstOfConcat ==
  ASSUME NEW a \in Seq(Filter), NEW b \in Seq(Filter), Len(a) > 0
  PROVE  a \o b \in Seq(Filter) /\ Len(a \o b) > 0 /\ (a \o b)[1] = a[1]
  OBVIOUS

LEMMA RestFacts ==
  /\ RecvRest \in Seq(Filter)
  /\ ToSet(RecvRest) \subseteq RestRoles
  /\ {"dtmfgen", "soundwrite"} \subseteq ToSet(RecvRest)
  /\ "ec" \in ToSet(RecvRest) <=> options.ec
  /\ RecvRest # << >> /\ RecvRest[1] = "dtmfgen"
<1> DEFINE s1 == <<"dtmfgen", "equalizer">>
           s2 == If(options.volume = "both", "volrecv")
           s3 == If(options.ec, "ec")
           s4 == <<"soundwrite">>
           o2 == Optional(options.volume = "both", "volrecv")
           o3 == Optional(options.ec, "ec")
<1>1. MadeOf(s1, {"dtmfgen", "equalizer"}) /\ MadeOf(s4, {"soundwrite"})
  BY FilterAssumption DEF Role, ToSet, MadeOf
<1>2. MadeOf(s2, o2) /\ MadeOf(s3, o3)
  <2>1. "volrecv" \in Role /\ "ec" \in Role
    BY DEF Role
  <2> QED BY ONLY <2>1, MadeOfIf
<1>3. RecvRest = s1 \o s2 \o s3 \o s4 /\ Len(s1) = 2 /\ s1[1] = "dtmfgen"
  BY DEF RecvRest
<1>4. o2 \subseteq {"volrecv"} /\ o3 \subseteq {"ec"} /\ ("ec" \in o3 <=> options.ec)
  BY DEF Optional
<1> HIDE DEF s1, s2, s3, s4, o2, o3
<1>5. MadeOf(s1 \o s2 \o s3 \o s4,
             {"dtmfgen", "equalizer"} \cup o2 \cup o3 \cup {"soundwrite"})
  BY ONLY <1>1, <1>2, MadeOfBoth, ZenonT(60)
<1>6. RecvRest # << >> /\ RecvRest[1] = "dtmfgen"
  <2>1. s1 \in Seq(Filter) /\ s2 \in Seq(Filter) /\ s3 \in Seq(Filter) /\ s4 \in Seq(Filter)
    BY <1>1, <1>2 DEF MadeOf
  <2>3. Len(s1 \o s2 \o s3 \o s4) > 0 /\ (s1 \o s2 \o s3 \o s4)[1] = s1[1]
    <3>1. Len(s1) > 0
      BY <1>3
    <3>2. s1 \o s2 \in Seq(Filter) /\ Len(s1 \o s2) > 0 /\ (s1 \o s2)[1] = s1[1]
      BY <2>1, <3>1, FirstOfConcat
    <3>3. s1 \o s2 \o s3 \in Seq(Filter) /\ Len(s1 \o s2 \o s3) > 0
          /\ (s1 \o s2 \o s3)[1] = s1[1]
      BY <2>1, <3>2, FirstOfConcat
    <3> QED BY <2>1, <3>3, FirstOfConcat
  <2> QED BY <1>3, <2>3
<1> QED BY <1>3, <1>4, <1>5, <1>6 DEF RestRoles, MadeOf

LEMMA RecvSplit ==
  ASSUME NEW d \in Filter
  PROVE  RecvChain(d) = <<"rtprecv", d>> \o RecvRest
<1> DEFINE s == If(options.volume = "both", "volrecv")
           t == If(options.ec, "ec")
<1>1. s \in Seq(Filter) /\ t \in Seq(Filter)
  <2>1. "volrecv" \in Role /\ "ec" \in Role
    BY DEF Role
  <2> QED BY <2>1, MadeOfIf DEF MadeOf
<1>2. {"rtprecv", "dtmfgen", "equalizer", "soundwrite"} \subseteq Filter
  BY FilterAssumption DEF Role
<1>3. RecvChain(d) = <<"rtprecv", d, "dtmfgen", "equalizer">> \o s \o t \o <<"soundwrite">>
      /\ RecvRest = <<"dtmfgen", "equalizer">> \o s \o t \o <<"soundwrite">>
  BY DEF RecvChain, RecvRest
<1> HIDE DEF s, t
<1>4. <<"rtprecv", d, "dtmfgen", "equalizer">> = <<"rtprecv", d>> \o <<"dtmfgen", "equalizer">>
  OBVIOUS
<1>5. ASSUME NEW a \in Seq(Filter), NEW b \in Seq(Filter), NEW c \in Seq(Filter)
      PROVE  (a \o b) \o c = a \o (b \o c)
  OBVIOUS
<1> DEFINE a == <<"rtprecv", d>>
           b == <<"dtmfgen", "equalizer">>
           w == <<"soundwrite">>
<1>6. a \in Seq(Filter) /\ b \in Seq(Filter) /\ w \in Seq(Filter)
  BY <1>2
<1> HIDE DEF a, b, w
<1>7. a \o b \o s = a \o (b \o s) /\ b \o s \in Seq(Filter)
  BY <1>1, <1>5, <1>6
<1>8. a \o b \o s \o t = a \o (b \o s \o t) /\ b \o s \o t \in Seq(Filter)
  <2> DEFINE u == b \o s
  <2>1. a \o b \o s = a \o u /\ u \in Seq(Filter)
    BY ONLY <1>7
  <2> HIDE DEF u
  <2>2. (a \o u) \o t = a \o (u \o t)
    BY ONLY <1>1, <1>5, <1>6, <2>1
  <2>3. u \o t \in Seq(Filter)
    BY ONLY <1>1, <2>1
  <2>4. a \o b \o s \o t = a \o (u \o t)
    BY ONLY <2>1, <2>2
  <2> QED BY ONLY <2>3, <2>4 DEF u
<1>9. a \o b \o s \o t \o w = a \o (b \o s \o t \o w)
  <2>1. a \o (b \o s \o t) \o w = a \o (b \o s \o t \o w)
    BY <1>5, <1>6, <1>8
  <2> QED BY <1>8, <2>1
<1> QED BY <1>3, <1>4, <1>9 DEF a, b, w

Received == ToSet(RecvRest)

LEMMA RecvFacts ==
  ASSUME NEW d \in Decoder
  PROVE  /\ RecvChain(d) \in Seq(Filter)
         /\ ToSet(RecvChain(d)) = {"rtprecv", d} \cup Received
         /\ NextIn(RecvChain(d), "rtprecv") = {d}
         /\ NextIn(RecvChain(d), d) = {"dtmfgen"}
         /\ \A f : f \notin {"rtprecv", d} => NextIn(RecvChain(d), f) = NextIn(RecvRest, f)
<1> DEFINE c == RecvChain(d)
           r == RecvRest
<1>1. d \in Filter /\ d \notin Role /\ "rtprecv" \in Role /\ Role \subseteq Filter
  BY FilterAssumption DEF Role
<1>2. r \in Seq(Filter) /\ ToSet(r) \subseteq RestRoles /\ r # << >> /\ r[1] = "dtmfgen"
  BY RestFacts
<1>3. c = <<"rtprecv", d>> \o r
  BY <1>1, RecvSplit
<1> HIDE DEF c, r
<1>4. \A i \in 1..Len(r) : r[i] \in Role /\ r[i] # "rtprecv" /\ r[i] # d
  <2>1. \A i \in 1..Len(r) : r[i] \in ToSet(r)
    BY <1>2 DEF ToSet
  <2>2. RestRoles \subseteq Role \ {"rtprecv"}
    BY DEF RestRoles, Role
  <2> QED BY <1>1, <1>2, <2>1, <2>2
<1>5. /\ c \in Seq(Filter) /\ Len(r) \in Nat /\ Len(r) >= 1 /\ Len(c) = Len(r) + 2
      /\ c[1] = "rtprecv" /\ c[2] = d
      /\ \A i \in 1..Len(r) : c[i + 2] = r[i]
  BY <1>1, <1>2, <1>3
<1>6. ToSet(c) = {"rtprecv", d} \cup ToSet(r)
  <2>1. MadeOf(<<"rtprecv", d>>, {"rtprecv", d})
    BY <1>1 DEF ToSet, MadeOf
  <2>2. MadeOf(r, ToSet(r))
    BY <1>2 DEF MadeOf
  <2>3. MadeOf(<<"rtprecv", d>> \o r, {"rtprecv", d} \cup ToSet(r))
    BY ONLY <2>1, <2>2, MadeOfBoth, Zenon
  <2> QED BY <1>3, <2>3 DEF MadeOf
<1>7. /\ \A j \in 1..Len(c) - 1 : (c[j] = "rtprecv") <=> (j = 1)
      /\ \A j \in 1..Len(c) - 1 : (c[j] = d) <=> (j = 2)
  <2> SUFFICES ASSUME NEW j \in 1..Len(c) - 1
               PROVE  ((c[j] = "rtprecv") <=> (j = 1)) /\ ((c[j] = d) <=> (j = 2))
    OBVIOUS
  <2>1. CASE j = 1 \/ j = 2
    BY <1>1, <1>5, <2>1
  <2>2. CASE j > 2
    <3>1. j - 2 \in 1..Len(r) /\ j = (j - 2) + 2
      BY <1>5, <2>2
    <3>2. c[j] = r[j - 2]
      BY <1>5, <3>1
    <3> QED BY <1>4, <2>2, <3>1, <3>2
  <2> QED BY <1>5, <2>1, <2>2
<1>8. NextIn(c, "rtprecv") = {d}
  <2>1. {j \in 1..Len(c) - 1 : c[j] = "rtprecv"} = {1}
    <3>1. 1 \in 1..Len(c) - 1
      BY <1>5
    <3>2. \A j \in 1..Len(c) - 1 : (c[j] = "rtprecv") <=> (j = 1)
      BY <1>7
    <3> HIDE DEF NextIn
    <3> QED BY <3>1, <3>2
  <2> QED BY <1>5, <2>1 DEF NextIn
<1>9. NextIn(c, d) = {"dtmfgen"}
  <2>1. {j \in 1..Len(c) - 1 : c[j] = d} = {2} /\ c[3] = "dtmfgen"
    <3>1. 2 \in 1..Len(c) - 1 /\ 1 \in 1..Len(r) /\ 3 = 1 + 2
      BY <1>5
    <3> QED BY <1>2, <1>5, <1>7, <3>1
  <2> QED BY <2>1 DEF NextIn
<1>10. ASSUME NEW f, f \notin {"rtprecv", d} PROVE NextIn(c, f) = NextIn(r, f)
  <2>1. ASSUME NEW x \in NextIn(c, f) PROVE x \in NextIn(r, f)
    <3>1. PICK j \in 1..Len(c) - 1 : c[j] = f /\ x = c[j + 1]
      BY <2>1 DEF NextIn
    <3>2. j > 2
      BY <1>5, <1>10, <3>1
    <3>3. j - 2 \in 1..Len(r) - 1 /\ r[j - 2] = f /\ x = r[(j - 2) + 1]
      BY <1>5, <3>1, <3>2
    <3> QED BY <3>3 DEF NextIn
  <2>2. ASSUME NEW x \in NextIn(r, f) PROVE x \in NextIn(c, f)
    <3>1. PICK j \in 1..Len(r) - 1 : r[j] = f /\ x = r[j + 1]
      BY <2>2 DEF NextIn
    <3>2. j + 2 \in 1..Len(c) - 1 /\ c[j + 2] = f /\ x = c[(j + 2) + 1]
      BY <1>5, <3>1
    <3> QED BY <3>2 DEF NextIn
  <2> QED BY <2>1, <2>2
<1> QED BY <1>5, <1>6, <1>8, <1>9, <1>10 DEF c, r, Received

\* What the graphs have in common, and what they have not.
LEMMA GraphFacts ==
  /\ Received \subseteq Role /\ ToSet(SendChain) \subseteq Role /\ Role \subseteq Filter
  /\ {"dtmfgen", "soundwrite"} \subseteq Received /\ "rtprecv" \notin Received
  /\ {"soundread", "rtpsend"} \subseteq ToSet(SendChain)
  /\ {"rtprecv", "dtmfgen", "soundwrite"} \cap ToSet(SendChain) = {}
  /\ "soundread" \notin Received /\ "rtpsend" \notin Received
  /\ options.ec => "ec" \in ToSet(SendChain) \cap Received
  /\ ~options.ec => ToSet(SendChain) \cap Received = {}
<1>1. Received \subseteq Role /\ ToSet(SendChain) \subseteq Role /\ Role \subseteq Filter
  <2>1. RestRoles \subseteq Role /\ SendRoles \subseteq Role
    BY DEF RestRoles, SendRoles, Role
  <2> QED BY <2>1, RestFacts, SendFacts, FilterAssumption DEF Received
<1>2. SendRoles \cap RestRoles = {"ec"}
      /\ {"rtprecv", "dtmfgen", "soundwrite"} \cap SendRoles = {}
      /\ {"rtprecv", "soundread", "rtpsend"} \cap RestRoles = {}
  BY DEF SendRoles, RestRoles
<1> QED BY <1>1, <1>2, RestFacts, SendFacts DEF Received

LEMMA WiredFacts ==
  ASSUME NEW d \in Decoder
  PROVE  /\ Wired(d) \in [Filter -> Seq(Filter)]
         /\ \A f \in Filter : ToSet(Wired(d)[f])
                                = NextIn(RecvChain(d), f) \cup NextIn(SendChain, f)
         /\ Wired(d)["rtprecv"] = <<d>>
         /\ Wired(d)[d] = <<"dtmfgen">>
         /\ \A e \in Decoder \ {d} : Wired(d)[e] = << >>
         /\ \A f \in Filter \ InStream(d) : Wired(d)[f] = << >>
         /\ \A e \in Decoder, f \in Role \ {"rtprecv"} : Wired(e)[f] = Wired(d)[f]
<1> DEFINE recv(x, f) == NextIn(RecvChain(x), f)
           send(f) == NextIn(SendChain, f)
<1>1. /\ d \in Filter /\ d \notin Role /\ Role \subseteq Filter
      /\ {"rtprecv", "dtmfgen"} \subseteq Role
  BY FilterAssumption DEF Role
<1>2. \A f : send(f) \in SUBSET Filter /\ (f \notin ToSet(SendChain) => send(f) = {})
  <2>1. SendChain \in Seq(Filter) /\ ToSet(SendChain) \subseteq Filter
    BY <1>1, SendFacts, GraphFacts
  <2> QED BY <2>1, NextInChain
<1>3. \A f : recv(d, f) \in SUBSET Filter /\ (f \notin ToSet(RecvChain(d)) => recv(d, f) = {})
  <2>1. RecvChain(d) \in Seq(Filter) /\ ToSet(RecvChain(d)) \subseteq Filter
    BY <1>1, RecvFacts, GraphFacts
  <2> QED BY <2>1, NextInChain
<1>4. \A f \in Filter : Wired(d)[f] = SetToSeq(recv(d, f)) \o SetToSeq(send(f))
  BY DEF Wired
<1> HIDE DEF recv, send
<1>5. ASSUME NEW f \in Filter
      PROVE  Wired(d)[f] \in Seq(Filter) /\ ToSet(Wired(d)[f]) = recv(d, f) \cup send(f)
  <2>1. recv(d, f) \in SUBSET Filter /\ send(f) \in SUBSET Filter
    BY <1>2, <1>3
  <2>2. MadeOf(SetToSeq(recv(d, f)), recv(d, f)) /\ MadeOf(SetToSeq(send(f)), send(f))
    BY <2>1, ListOfSet DEF MadeOf
  <2>3. MadeOf(SetToSeq(recv(d, f)) \o SetToSeq(send(f)), recv(d, f) \cup send(f))
    BY ONLY <2>2, MadeOfBoth, Zenon
  <2> QED BY <1>4, <2>3 DEF MadeOf
<1>6. \A g \in Filter : <<g>> \o << >> = <<g>> /\ << >> \o << >> = << >>
  OBVIOUS
<1>7. ASSUME NEW f \in Filter, NEW g \in Filter, recv(d, f) = {g}, send(f) = {}
      PROVE  Wired(d)[f] = <<g>>
  <2>1. Wired(d)[f] = SetToSeq({g}) \o SetToSeq({})
    BY <1>4, <1>7
  <2>2. SetToSeq({g}) = <<g>> /\ SetToSeq({}) = << >>
    BY ListOfOne, ListOfNone
  <2> QED BY <1>6, <2>1, <2>2
<1>8. ASSUME NEW f \in Filter, recv(d, f) = {}, send(f) = {}
      PROVE  Wired(d)[f] = << >>
  <2>1. Wired(d)[f] = SetToSeq({}) \o SetToSeq({})
    BY <1>4, <1>8
  <2> QED BY <2>1, ListOfNone
<1>9. Wired(d)["rtprecv"] = <<d>> /\ Wired(d)[d] = <<"dtmfgen">>
  <2>1. recv(d, "rtprecv") = {d} /\ recv(d, d) = {"dtmfgen"}
    BY RecvFacts DEF recv
  <2>2. send("rtprecv") = {} /\ send(d) = {}
    BY <1>1, <1>2, GraphFacts
  <2>3. "rtprecv" \in Filter /\ "dtmfgen" \in Filter
    BY <1>1
  <2> QED BY <1>1, <1>7, <2>1, <2>2, <2>3
<1>10. ASSUME NEW f \in Filter \ InStream(d) PROVE Wired(d)[f] = << >>
  BY <1>2, <1>3, <1>8 DEF InStream
<1>11. ASSUME NEW e \in Decoder \ {d} PROVE Wired(d)[e] = << >>
  <2>1. e \in Filter /\ e \notin Role
    BY FilterAssumption
  <2>2. e \notin InStream(d)
    BY <1>1, <2>1, RecvFacts, GraphFacts DEF InStream
  <2> QED BY <1>10, <2>1, <2>2
<1>12. ASSUME NEW e \in Decoder, NEW f \in Role \ {"rtprecv"} PROVE Wired(e)[f] = Wired(d)[f]
  <2>1. f \in Filter /\ f \notin {"rtprecv", d} /\ f \notin {"rtprecv", e}
    BY <1>1, FilterAssumption
  <2>2. NextIn(RecvChain(d), f) = NextIn(RecvRest, f)
        /\ NextIn(RecvChain(e), f) = NextIn(RecvRest, f)
    BY <2>1, RecvFacts
  <2> QED BY <2>1, <2>2 DEF Wired
<1>13. Wired(d) \in [Filter -> Seq(Filter)]
  BY <1>5 DEF Wired
<1> QED BY <1>5, <1>9, <1>10, <1>11, <1>12, <1>13 DEF recv, send

\* audio_stream_change_decoder leaves the graph as audio_stream_start_full would
\* have linked it with the new decoder.
LEMMA RewiredIsWired ==
  ASSUME NEW d \in Decoder, NEW e \in Decoder \ {d}
  PROVE  [Wired(d) EXCEPT !["rtprecv"] = <<e>>, ![e] = <<"dtmfgen">>, ![d] = << >>] = Wired(e)
<1>1. /\ {"rtprecv", d, e} \subseteq Filter /\ d \notin Role /\ e \notin Role
      /\ "rtprecv" \in Role /\ Filter = Role \cup Decoder
  BY FilterAssumption DEF Role
<1>2. Wired(d) \in [Filter -> Seq(Filter)] /\ Wired(e) \in [Filter -> Seq(Filter)]
  BY WiredFacts
<1>3. ASSUME NEW f \in Filter
      PROVE  [Wired(d) EXCEPT !["rtprecv"] = <<e>>, ![e] = <<"dtmfgen">>, ![d] = << >>][f]
               = Wired(e)[f]
  <2>1. CASE f = "rtprecv"
    BY <1>1, <1>2, <2>1, WiredFacts
  <2>2. CASE f = e
    BY <1>1, <1>2, <2>2, WiredFacts
  <2>3. CASE f = d
    BY <1>1, <1>2, <2>3, WiredFacts
  <2>4. CASE f \in Decoder \ {d, e}
    BY <1>1, <1>2, <2>4, WiredFacts
  <2>5. CASE f \in Role \ {"rtprecv"}
    BY <1>1, <1>2, <2>5, WiredFacts
  <2> QED BY <1>1, <2>1, <2>2, <2>3, <2>4, <2>5
<1> QED BY <1>2, <1>3

----------------------------------------------------------------------------
(* The filters joined to a filter. *)

\* Component(f) is closed under links in both directions, and the least such set
\* with f.
LEMMA ComponentIsClosure ==
  ASSUME GraphOK, NEW f \in Filter
  PROVE  /\ f \in Component(f) /\ Component(f) \subseteq Filter
         /\ \A g \in Component(f) : Around(g) \subseteq Component(f)
         /\ \A C : f \in C /\ (\A g \in C \cap Filter : Around(g) \subseteq C)
                     => Component(f) \subseteq C
<1> DEFINE N == [g \in Filter |-> Around(g)]
<1> DEFINE Eq(h) == h = [n \in 0..Cardinality(Filter) |->
                           IF n = 0 THEN {f}
                           ELSE UNION {Around(g) : g \in h[n - 1]}]
<1> DEFINE d == CHOOSE h : Eq(h)
<1>0. Rounds \in Nat /\ Rounds = Cardinality(Filter)
  BY RoundsType DEF Rounds
<1>1. N \in [Filter -> SUBSET Filter] /\ \A g \in Filter : g \in N[g]
  BY ElementsOfSeq DEF GraphOK, Around, Inputs
<1>a. ASSUME NEW A \in SUBSET Filter
      PROVE  UNION {N[g] : g \in A} = UNION {Around(g) : g \in A}
  OBVIOUS
<1>2. PICK h : Finds(h, N, f, Rounds)
  <2> HIDE DEF N
  <2> QED BY <1>0, <1>1, RoundsExist
<1>3. Eq(h)
  <2>1. ASSUME NEW n \in 1..Rounds
        PROVE  h[n] = UNION {Around(g) : g \in h[n - 1]}
    <3>1. h[n] = UNION {N[g] : g \in h[n - 1]} /\ h[n - 1] \subseteq Filter
      <4> HIDE DEF N
      <4> QED BY <1>0, <1>2 DEF Finds
    <3> HIDE DEF N
    <3> QED BY <1>a, <3>1
  <2> DEFINE G(n) == IF n = 0 THEN {f}
                     ELSE UNION {Around(g) : g \in h[n - 1]}
  <2>2. h = [n \in 0..Rounds |-> h[n]] /\ h[0] = {f}
    BY <1>2 DEF Finds
  <2>3. ASSUME NEW n \in 0..Rounds PROVE h[n] = G(n)
    <3>1. CASE n = 0
      BY <2>2, <3>1
    <3>2. CASE n # 0
      <4>1. n \in 1..Rounds
        BY <1>0, <3>2
      <4>2. h[n] = UNION {Around(g) : g \in h[n - 1]}
        BY <2>1, <4>1
      <4> QED BY <3>2, <4>2, Zenon
    <3> QED BY <3>1, <3>2
  <2>4. h = [n \in 0..Rounds |-> G(n)]
    <3> HIDE DEF G
    <3> QED BY <2>2, <2>3
  <2> QED BY <1>0, <2>4, Zenon
<1>4. Eq(d)
  <2> HIDE DEF Eq
  <2> QED BY <1>3
<1>5. d[0] = {f} /\ \A n \in 1..Rounds :
                      d[n] = UNION {Around(g) : g \in d[n - 1]}
  <2> HIDE DEF d
  <2> QED BY <1>0, <1>4
<1>6. \A n \in 0..Rounds : d[n] \subseteq Filter
  <2> DEFINE S == {n \in Nat : n <= Rounds => d[n] \subseteq Filter}
  <2> HIDE DEF d, N
  <2>1. 0 \in S
    BY <1>5
  <2>2. ASSUME NEW n \in Nat, n \in S PROVE n + 1 \in S
    <3> SUFFICES ASSUME n + 1 <= Rounds PROVE d[n + 1] \subseteq Filter
      OBVIOUS
    <3>1. n + 1 \in 1..Rounds /\ (n + 1) - 1 = n
      BY <1>0
    <3>2. d[n + 1] = UNION {Around(g) : g \in d[(n + 1) - 1]}
      BY <1>5, <3>1
    <3>3. d[n] \subseteq Filter
      BY <1>0, <2>2
    <3>4. \A g \in Filter : Around(g) \subseteq Filter
      BY ElementsOfSeq DEF GraphOK, Around, Inputs
    <3> QED BY <3>1, <3>2, <3>3, <3>4
  <2> HIDE DEF S
  <2>3. Nat \subseteq S
    BY <2>1, <2>2, Induction
  <2> QED BY <1>0, <2>3 DEF S
<1>7. Finds(d, N, f, Rounds)
  <2>1. d \in [0..Rounds -> SUBSET Filter]
    <3> HIDE DEF d
    <3> QED BY <1>0, <1>4, <1>6
  <2>2. ASSUME NEW n \in 1..Rounds PROVE d[n] = UNION {N[g] : g \in d[n - 1]}
    <3>1. n - 1 \in 0..Rounds
      BY <1>0
    <3>2. d[n - 1] \subseteq Filter
      BY <1>6, <3>1
    <3> HIDE DEF d, N
    <3> QED BY <1>5, <1>a, <3>2
  <2> HIDE DEF d, N
  <2> QED BY <1>5, <2>1, <2>2 DEF Finds
<1>8. Component(f) = d[Rounds]
  BY <1>0 DEF Component
<1>9. /\ f \in d[Rounds] /\ d[Rounds] \subseteq Filter
      /\ \A g \in d[Rounds] : N[g] \subseteq d[Rounds]
  <2> HIDE DEF d, N
  <2> QED BY <1>1, <1>7, RoundsClose
<1>10. ASSUME NEW C, f \in C, \A g \in C \cap Filter : Around(g) \subseteq C
       PROVE  d[Rounds] \subseteq C
  <2>1. \A g \in C \cap Filter : N[g] \subseteq C
    BY <1>10
  <2> HIDE DEF d, N
  <2> QED BY <1>0, <1>1, <1>7, <1>10, <2>1, RoundsLeast
<1> HIDE DEF d
<1> QED BY <1>8, <1>9, <1>10

\* C has both ends of a link or none.
Closed(C) == \A g, h \in Filter : h \in ToSet(outputs[g]) => (g \in C <=> h \in C)

LEMMA ComponentLeast ==
  ASSUME GraphOK, NEW f \in Filter
  PROVE  /\ f \in Component(f) /\ Component(f) \subseteq Filter /\ Closed(Component(f))
         /\ \A C : f \in C /\ Closed(C) => Component(f) \subseteq C
<1>1. \A g \in Filter : ToSet(outputs[g]) \subseteq Filter
  BY ElementsOfSeq DEF GraphOK
<1>2. Closed(Component(f))
  BY ComponentIsClosure DEF Closed, Around, Inputs
<1>3. ASSUME NEW C, f \in C, Closed(C) PROVE Component(f) \subseteq C
  <2>1. \A g \in C \cap Filter : Around(g) \subseteq C
    BY <1>1, <1>3 DEF Closed, Around, Inputs
  <2> QED BY <1>3, <2>1, ComponentIsClosure
<1> QED BY <1>2, <1>3, ComponentIsClosure

LEMMA ChainInClosed ==
  ASSUME NEW c \in Seq(Filter), NEW C, NEW x \in ToSet(c) \cap C,
         \A i \in 1..Len(c) - 1 : c[i] \in C <=> c[i + 1] \in C
  PROVE  ToSet(c) \subseteq C
<1>1. PICK k \in 1..Len(c) : c[k] \in C
  BY DEF ToSet
<1> DEFINE U == {n \in Nat : k + n <= Len(c) => c[k + n] \in C}
           D == {n \in Nat : n < k => c[k - n] \in C}
<1>2. Len(c) \in Nat /\ k \in Nat /\ 1 <= k
  BY <1>1
<1>3. 0 \in U /\ 0 \in D
  BY <1>1, <1>2
<1>4. ASSUME NEW n \in Nat, n \in U PROVE n + 1 \in U
  <2> SUFFICES ASSUME k + (n + 1) <= Len(c) PROVE c[k + (n + 1)] \in C
    OBVIOUS
  <2>1. k + n \in 1..Len(c) - 1 /\ (k + n) + 1 = k + (n + 1) /\ c[k + n] \in C
    BY <1>2, <1>4
  <2>2. c[k + n] \in C <=> c[(k + n) + 1] \in C
    BY <2>1
  <2> QED BY <2>1, <2>2
<1>5. ASSUME NEW n \in Nat, n \in D PROVE n + 1 \in D
  <2> SUFFICES ASSUME n + 1 < k PROVE c[k - (n + 1)] \in C
    OBVIOUS
  <2>1. k - (n + 1) \in 1..Len(c) - 1 /\ (k - (n + 1)) + 1 = k - n /\ c[k - n] \in C
    BY <1>1, <1>2, <1>5
  <2>2. c[k - (n + 1)] \in C <=> c[(k - (n + 1)) + 1] \in C
    BY <2>1
  <2> QED BY <2>1, <2>2
<1> HIDE DEF U, D
<1>6. Nat \subseteq U /\ Nat \subseteq D
  BY <1>3, <1>4, <1>5, Induction
<1>7. ASSUME NEW i \in 1..Len(c) PROVE c[i] \in C
  <2>1. CASE i >= k
    <3>1. i - k \in U /\ k + (i - k) = i
      BY <1>2, <1>6, <2>1
    <3> QED BY <3>1 DEF U
  <2>2. CASE i < k
    <3>1. k - i \in D /\ k - (k - i) = i /\ k - i < k
      BY <1>2, <1>6, <2>2
    <3> QED BY <3>1 DEF D
  <2> QED BY <1>2, <2>1, <2>2
<1> QED BY <1>7 DEF ToSet

\* What ms_ticker_attach finds, from the source of either graph.
LEMMA Components ==
  ASSUME GraphOK, NEW d \in Decoder, outputs = Wired(d)
  PROVE  /\ options.ec => /\ Component("soundread") = InStream(d)
                          /\ Component("rtprecv") = InStream(d)
         /\ ~options.ec => /\ Component("soundread") = ToSet(SendChain)
                           /\ Component("rtprecv") = ToSet(RecvChain(d))
<1> DEFINE S == ToSet(SendChain)
           R == ToSet(RecvChain(d))
<1>1. /\ "soundread" \in S /\ "rtprecv" \in R /\ S \subseteq Filter /\ R \subseteq Filter
      /\ {"soundread", "rtprecv"} \subseteq Filter
      /\ options.ec => "ec" \in S \cap R
      /\ ~options.ec => S \cap R = {}
      /\ InStream(d) = S \cup R
  <2>1. R = {"rtprecv", d} \cup Received /\ d \in Filter /\ d \notin Role
    BY RecvFacts, FilterAssumption
  <2>2. InStream(d) = S \cup R /\ {"soundread", "rtprecv"} \subseteq Filter
    BY FilterAssumption DEF InStream, Role
  <2> HIDE DEF S, R
  <2>3. /\ S = ToSet(SendChain) /\ S \subseteq Filter /\ S \subseteq Role
        /\ Received \subseteq Filter /\ "soundread" \in S /\ "rtprecv" \notin S
    BY GraphFacts DEF S
  <2>4. R \subseteq Filter /\ "rtprecv" \in R
    BY <2>1, <2>2, <2>3
  <2>5. CASE options.ec
    BY <2>1, <2>2, <2>3, <2>4, <2>5, GraphFacts
  <2>6. CASE ~options.ec
    <3>1. S \cap Received = {}
      BY <2>3, <2>6, GraphFacts
    <3> QED BY <2>1, <2>2, <2>3, <2>4, <2>6, <3>1
  <2> QED BY <2>5, <2>6
<1>2. SendChain \in Seq(Filter) /\ RecvChain(d) \in Seq(Filter)
  BY SendFacts, RecvFacts
<1>3. \A f \in Filter : ToSet(outputs[f]) = NextIn(RecvChain(d), f) \cup NextIn(SendChain, f)
  BY WiredFacts
<1>4. /\ \A f, g : g \in NextIn(SendChain, f) => f \in S /\ g \in S
      /\ \A f, g : g \in NextIn(RecvChain(d), f) => f \in R /\ g \in R
  BY <1>2, NextInChain
<1>5. ASSUME NEW C, Closed(C) PROVE (S \cap C # {} => S \subseteq C) /\ (R \cap C # {} => R \subseteq C)
  <2>1. ASSUME NEW c \in {SendChain, RecvChain(d)}, NEW x \in ToSet(c) \cap C
        PROVE  ToSet(c) \subseteq C
    <3>1. c \in Seq(Filter)
      BY <1>2
    <3>2. \A i \in 1..Len(c) - 1 : c[i] \in Filter /\ c[i + 1] \in Filter
                                   /\ c[i + 1] \in ToSet(outputs[c[i]])
      <4>1. \A i \in 1..Len(c) - 1 : c[i] \in Filter /\ c[i + 1] \in Filter
        BY <3>1
      <4>2. \A i \in 1..Len(c) - 1 : c[i + 1] \in NextIn(c, c[i])
        BY <3>1, NextInChain
      <4> QED BY <1>3, <4>1, <4>2
    <3>3. \A i \in 1..Len(c) - 1 : c[i] \in C <=> c[i + 1] \in C
      BY <1>5, <3>2 DEF Closed
    <3> QED BY <3>1, <3>3, ChainInClosed
  <2> QED BY <2>1
<1> HIDE DEF S, R
<1>6. Closed(S \cup R)
  BY <1>3, <1>4 DEF Closed
<1>7. ~options.ec => Closed(S) /\ Closed(R)
  BY <1>1, <1>3, <1>4 DEF Closed
<1>8. ASSUME NEW f \in {"soundread", "rtprecv"}
      PROVE  /\ f \in Component(f) /\ Closed(Component(f))
             /\ \A C : f \in C /\ Closed(C) => Component(f) \subseteq C
  BY <1>1, ComponentLeast
<1>9. S \subseteq Component("soundread") /\ R \subseteq Component("rtprecv")
  BY <1>1, <1>5, <1>8
<1>10. CASE options.ec
  <2>1. ASSUME NEW f \in {"soundread", "rtprecv"} PROVE Component(f) = S \cup R
    <3>1. S \cup R \subseteq Component(f)
      BY <1>1, <1>5, <1>8, <1>9, <1>10
    <3>2. Component(f) \subseteq S \cup R
      BY <1>1, <1>6, <1>8
    <3> QED BY <3>1, <3>2
  <2> QED BY <1>1, <1>10, <2>1
<1>11. CASE ~options.ec
  <2>1. Component("soundread") \subseteq S /\ Component("rtprecv") \subseteq R
    BY <1>1, <1>7, <1>8, <1>11
  <2>2. Component("soundread") = S /\ Component("rtprecv") = R
    BY <1>9, <2>1
  <2> QED BY <1>11, <2>2 DEF S, R
<1> QED BY <1>10, <1>11

LEMMA SourcesOf ==
  ASSUME GraphOK, NEW f \in {"soundread", "rtprecv"}
  PROVE  /\ Sources(f) \in Seq(Filter)
         /\ ToSet(Sources(f)) = {"soundread", "rtprecv"} \cap Component(f)
<1> DEFINE S == {g \in Component(f) : IsSource(g)} \ {f}
<1>1. f \in Filter /\ f \in Component(f) /\ Component(f) \subseteq Filter
  BY ComponentLeast, FilterAssumption DEF Role
<1>2. MadeOf(<<f>>, {f}) /\ MadeOf(SetToSeq(S), S)
  <2>1. S \in SUBSET Filter
    BY <1>1
  <2> HIDE DEF S
  <2> QED BY <1>1, <2>1, ElementsOfSingle, ListOfSet DEF MadeOf
<1>3. Sources(f) = <<f>> \o SetToSeq(S)
  BY DEF Sources
<1>4. {f} \cup S = {"soundread", "rtprecv"} \cap Component(f)
  BY <1>1 DEF IsSource
<1> HIDE DEF S
<1>5. MadeOf(<<f>> \o SetToSeq(S), {f} \cup S)
  BY ONLY <1>2, MadeOfBoth, Zenon
<1> QED BY <1>3, <1>4, <1>5 DEF MadeOf

----------------------------------------------------------------------------
(* The inductive invariant.  At every place of the owner it says which      *)
(* filters the ticker thread has been given (Listed): the graphs that are   *)
(* attached and not being detached.  Everything else follows the list: what *)
(* is prepared, what the thread is visiting, which sources it starts from.  *)

\* The owner's places with a linked graph, and those in the middle of a list of
\* neighbours
Linked == opc \in {"attach", "preprocess", "up", "detach", "postprocess", "join card",
                   "dismantle"}
Working == opc \in {"preprocess", "postprocess", "join card"}

Sent == ToSet(SendChain)
All  == InStream(decoder)

\* What is attached from soundread, and what is attached from root
First == IF options.ec THEN All ELSE Sent
Part  == IF options.ec \/ root = "soundread" THEN First ELSE ToSet(RecvChain(decoder))

Listed ==
  CASE opc \in {"attach", "preprocess"} -> IF root = "soundread" THEN {} ELSE First
    [] opc = "up" -> All
    [] opc = "detach" -> IF root = "soundread" THEN All ELSE All \ First
    [] opc \in {"postprocess", "join card"} -> IF root = "soundread" THEN All \ First ELSE {}
    [] OTHER -> {}

OwnerOK ==
  /\ options \in Options
  /\ live \subseteq Filter
  /\ session \in BOOLEAN
  /\ decoder \in Decoder \cup {NoDecoder}
  /\ opc \in OwnerPc
  /\ root \in {"soundread", "rtprecv"}
  /\ todo \subseteq Filter
  /\ opc \in {"none", "idle"} => tpc = "none"

GraphInv ==
  /\ Linked => /\ decoder \in Decoder
               /\ outputs = Wired(decoder)
               /\ All \subseteq live
  /\ ~Linked => outputs = NoLinks
  /\ opc \notin {"none", "stop", "join"} => session

StageInv ==
  /\ Working => todo \subseteq Part /\ (root = "rtprecv" => ~options.ec)
  /\ attached = CASE opc = "preprocess" -> Listed \cup (Part \ todo)
                  [] opc \in {"postprocess", "join card"} -> Listed \cup todo
                  [] OTHER -> Listed
  /\ ToSet(execution_list) = {"soundread", "rtprecv"} \cap Listed

\* A decoder is visited only after rtprecv has run, so that it is not replaced
\* any more in this tick.
VisitInv ==
  /\ tpc # "walk" => work = << >> /\ unschedulable = << >>
  /\ tpc = "walk" => /\ Seen \subseteq Listed
                     /\ decoder \in Seen => "rtprecv" \in done

CardInv ==
  /\ started = CardFilters \cap attached
  /\ started # {} => device = "runs"
  /\ started = {} /\ opc # "join card" => device = "none"
  /\ opc = "join card" => started = {} /\ device \in {"runs", "ended"}

StreamInv == Inv /\ OwnerOK /\ GraphInv /\ StageInv /\ VisitInv /\ CardInv

LEMMA NoLinksOK == NoLinks \in [Filter -> Seq(Filter)]
  BY DEF NoLinks

LEMMA InitStream == Init => StreamInv
<1> SUFFICES ASSUME Init PROVE StreamInv
  OBVIOUS
<1>1. Inv
  BY NoLinksOK, ElementsOfEmpty
     DEF Init, TicksIdle, Inv, GraphOK, WalkOK, LockOK, NothingForgotten
<1>2. OwnerOK /\ GraphInv
  BY FilterAssumption DEF Init, OwnerOK, OwnerPc, GraphInv, Linked
<1>3. Listed = {}
  BY DEF Init, Listed
<1>4. StageInv /\ VisitInv /\ CardInv
  BY <1>3, ElementsOfEmpty DEF Init, TicksIdle, StageInv, VisitInv, CardInv, Working
<1> QED BY <1>1, <1>2, <1>4 DEF StreamInv

\* The parts of the stream
LEMMA Parts ==
  ASSUME NEW d \in Decoder
  PROVE  /\ InStream(d) \subseteq Filter /\ d \in Filter
         /\ InStream(d) = Sent \cup {"rtprecv", d} \cup Received
         /\ ToSet(RecvChain(d)) = {"rtprecv", d} \cup Received
         /\ Sent \subseteq Role /\ Received \subseteq Role /\ d \notin Role
         /\ {"soundread", "rtpsend"} \subseteq Sent /\ "rtprecv" \notin Sent
         /\ {"soundread", "rtprecv"} \cap Received = {}
         /\ ~options.ec => Sent \cap ({"rtprecv", d} \cup Received) = {}
<1>1. Sent \subseteq Role /\ Received \subseteq Role /\ Role \subseteq Filter
      /\ d \in Filter /\ d \notin Role /\ "rtprecv" \in Role
  BY GraphFacts, FilterAssumption DEF Sent, Role
<1>2. ToSet(RecvChain(d)) = {"rtprecv", d} \cup Received
  BY RecvFacts
<1>3. InStream(d) = Sent \cup {"rtprecv", d} \cup Received
  BY <1>2 DEF InStream, Sent
<1>4. /\ {"soundread", "rtpsend"} \subseteq Sent /\ "rtprecv" \notin Sent
      /\ {"soundread", "rtprecv"} \cap Received = {}
      /\ ~options.ec => Sent \cap Received = {}
  BY GraphFacts DEF Sent
<1> QED BY <1>1, <1>2, <1>3, <1>4

\* The options of a stream do not change while it is there.
LEMMA Frame ==
  ASSUME UNCHANGED options
  PROVE  /\ (All)' = InStream(decoder') /\ (Sent)' = Sent /\ (Received)' = Received
         /\ (Wired(decoder))' = Wired(decoder')
         /\ (ToSet(RecvChain(decoder)))' = ToSet(RecvChain(decoder'))
         /\ (CardFilters)' = CardFilters
  BY DEF All, Sent, Received, RecvRest, InStream, SendChain, RecvChain, If, Wired, NextIn,
         CardFilters

----------------------------------------------------------------------------
(* The owner's steps. *)

\* A step of the owner that leaves the graph and the ticker alone, and gives the
\* thread no filter and takes none.
OwnerOnly ==
  /\ UNCHANGED <<outputs, execution_list, ticker, owned, options>>
  /\ Listed' = Listed

LEMMA OwnerOnlyInv ==
  ASSUME StreamInv, OwnerOnly
  PROVE  Inv' /\ VisitInv'
<1>1. Inv'
  BY StutterInv DEF StreamInv, OwnerOnly, ticker
<1>2. VisitInv'
  BY DEF StreamInv, OwnerOnly, VisitInv, ticker, walk, owned, Seen
<1> QED BY <1>1, <1>2

LEMMA NotWalking ==
  ASSUME StreamInv, lock = "free"
  PROVE  tpc # "walk" /\ work = << >> /\ unschedulable = << >>
  BY DEF StreamInv, Inv, LockOK, VisitInv

\* Component(root), of a linked graph
LEMMA PartIsComponent ==
  ASSUME StreamInv, Linked
  PROVE  /\ decoder \in Decoder
         /\ Component("soundread") = First
         /\ Component("rtprecv") = IF options.ec THEN All ELSE ToSet(RecvChain(decoder))
         /\ Component(root) = Part
<1>1. GraphOK /\ decoder \in Decoder /\ outputs = Wired(decoder)
      /\ root \in {"soundread", "rtprecv"}
  BY DEF StreamInv, Inv, GraphInv, OwnerOK
<1>2. CASE options.ec
  BY <1>1, <1>2, Components DEF First, Part, All
<1>3. CASE ~options.ec
  BY <1>1, <1>3, Components DEF First, Part, Sent
<1> QED BY <1>1, <1>2, <1>3

LEMMA AttachStep ==
  ASSUME StreamInv, Attach, UNCHANGED options
  PROVE  StreamInv'
<1> USE DEF StreamInv
<1>1. /\ opc = "attach" /\ UNCHANGED <<outputs, execution_list, ticker, owned, card, options>>
      /\ tpc' = tpc /\ live' = live /\ attached' = attached /\ session' = session
      /\ decoder' = decoder /\ started' = started /\ device' = device
  BY DEF Attach, ticker, owned, card
<1>2. Linked /\ decoder \in Decoder /\ attached = Listed /\ Component(root) = Part
      /\ root \in {"soundread", "rtprecv"} /\ Part \subseteq Filter
  <2>1. Linked /\ attached = Listed /\ root \in {"soundread", "rtprecv"}
    BY <1>1 DEF Linked, StageInv, OwnerOK
  <2>2. Component(root) \subseteq Filter
    BY <2>1, ComponentLeast, FilterAssumption DEF Role, Inv
  <2> QED BY <2>1, <2>2, PartIsComponent
<1>3. /\ All' = All /\ First' = First /\ Sent' = Sent
      /\ (ToSet(RecvChain(decoder)))' = ToSet(RecvChain(decoder))
      /\ (Wired(decoder))' = Wired(decoder) /\ (CardFilters)' = CardFilters
  BY <1>1, Frame DEF First, All
<1>4. /\ "soundread" \in First
      /\ "rtprecv" \in First => options.ec
      /\ options.ec => First = All
  BY <1>2, Parts DEF First, All
<1>5. CASE root \in attached
  <2>1. root = "rtprecv" /\ options.ec /\ opc' = "up" /\ root' = "soundread" /\ todo' = {}
        /\ Listed = All
    BY <1>1, <1>2, <1>4, <1>5 DEF Attach, AfterAttach, Listed
  <2>2. Listed' = All
    BY <1>3, <2>1 DEF Listed
  <2>3. OwnerOnly
    BY <1>1, <2>1, <2>2 DEF OwnerOnly
  <2>4. OwnerOK' /\ GraphInv'
    BY <1>1, <1>2, <1>3, <2>1 DEF OwnerOK, OwnerPc, GraphInv, Linked
  <2>5. StageInv' /\ CardInv'
    BY <1>1, <1>2, <1>3, <2>1, <2>2 DEF StageInv, CardInv, Working
  <2> QED BY <2>3, <2>4, <2>5, OwnerOnlyInv
<1>6. CASE root \notin attached
  <2>1. opc' = "preprocess" /\ root' = root /\ todo' = Part
    BY <1>1, <1>2, <1>6 DEF Attach
  <2>2. Listed' = Listed /\ Part' = Part
    BY <1>1, <1>3, <2>1 DEF Listed, Part
  <2>3. OwnerOnly
    BY <1>1, <2>2 DEF OwnerOnly
  <2>4. OwnerOK' /\ GraphInv'
    BY <1>1, <1>2, <1>3, <2>1 DEF OwnerOK, OwnerPc, GraphInv, Linked
  <2>5. root = "rtprecv" => ~options.ec
    BY <1>1, <1>2, <1>4, <1>6, Parts DEF Listed, All
  <2>6. StageInv' /\ CardInv'
    BY <1>1, <1>2, <1>3, <2>1, <2>2, <2>5 DEF StageInv, CardInv, Working
  <2> QED BY <2>3, <2>4, <2>6, OwnerOnlyInv
<1> QED BY <1>5, <1>6

LEMMA StopStep ==
  ASSUME StreamInv, Stop, UNCHANGED options
  PROVE  StreamInv'
<1> USE DEF StreamInv
<1>1. /\ UNCHANGED <<outputs, execution_list, ticker, owned, card, options, todo>>
      /\ tpc' = tpc /\ live' = live /\ attached' = attached /\ session' = session
      /\ decoder' = decoder /\ started' = started /\ device' = device
      /\ root' = "soundread"
      /\ (opc = "idle" /\ opc' = "free") \/ (opc = "up" /\ opc' = "detach")
  BY DEF Stop, ticker, owned, card
<1>3. /\ All' = All /\ First' = First
      /\ (Wired(decoder))' = Wired(decoder) /\ (CardFilters)' = CardFilters
      /\ NoLinks' = NoLinks
  BY <1>1, Frame DEF First, All, NoLinks
<1>4. Listed' = Listed
  BY <1>1, <1>3 DEF Listed
<1>5. OwnerOnly
  BY <1>1, <1>4 DEF OwnerOnly
<1>6. OwnerOK' /\ GraphInv'
  BY <1>1, <1>3 DEF OwnerOK, OwnerPc, GraphInv, Linked
<1>7. StageInv' /\ CardInv'
  BY <1>1, <1>3, <1>4 DEF StageInv, CardInv, Working
<1> QED BY <1>5, <1>6, <1>7, OwnerOnlyInv

\* Without a linked graph nothing is listed, prepared or visited.
LEMMA Unlinked ==
  ASSUME StreamInv, ~Linked
  PROVE  /\ outputs = NoLinks /\ Listed = {} /\ attached = {}
         /\ execution_list = << >> /\ ToSet(execution_list) = {}
         /\ started = {} /\ device = "none"
         /\ work = << >> /\ unschedulable = << >>
         /\ tpc = "walk" => done = {}
<1> USE DEF StreamInv
<1>1. Listed = {}
  BY DEF Listed, Linked
<1>2. attached = {} /\ ToSet(execution_list) = {}
  BY <1>1 DEF StageInv, Linked, Working
<1>3. execution_list = << >>
  BY <1>2, NoElements DEF Inv, GraphOK
<1>4. started = {} /\ device = "none"
  BY <1>2 DEF CardInv, Linked
<1>5. work = << >> /\ unschedulable = << >> /\ (tpc = "walk" => done = {})
  <2>1. CASE tpc = "walk"
    <3>1. ToSet(work) = {} /\ ToSet(unschedulable) = {} /\ done = {}
      BY <1>1, <2>1 DEF VisitInv, Seen
    <3> QED BY <3>1, NoElements DEF Inv, WalkOK
  <2>2. CASE tpc # "walk"
    BY <2>2 DEF VisitInv
  <2> QED BY <2>1, <2>2
<1> QED BY <1>1, <1>2, <1>3, <1>4, <1>5 DEF GraphInv

\* A step between two states without a linked graph
UnlinkedMove ==
  /\ ~Linked /\ ~Linked'
  /\ UNCHANGED <<outputs, execution_list, attached, started, device, work, unschedulable, lock>>
  /\ tpc' = tpc \/ {tpc, tpc'} \subseteq {"none", "start", "done"}
  /\ done' \subseteq done
  /\ opc' \notin {"none", "stop", "join"} => session'

LEMMA UnlinkedStep ==
  ASSUME StreamInv, UnlinkedMove, OwnerOK'
  PROVE  StreamInv'
<1>0. ~Linked /\ ~Linked' /\ UnlinkedMove
  BY DEF UnlinkedMove
<1> USE DEF StreamInv
<1>1. /\ outputs = NoLinks /\ attached = {}
      /\ execution_list = << >> /\ ToSet(execution_list) = {}
      /\ started = {} /\ device = "none"
      /\ work = << >> /\ unschedulable = << >>
      /\ tpc = "walk" => done = {}
  BY <1>0, Unlinked
<1>2. Listed' = {} /\ ~Working'
  BY <1>0 DEF Listed, Linked, Working
<1>3. (ToSet(execution_list))' = {} /\ started' = {} /\ device' = "none" /\ NoLinks' = NoLinks
  BY <1>0, <1>1 DEF UnlinkedMove, NoLinks
<1>4. Inv'
  BY <1>0, <1>1, <1>3, ElementsOfEmpty DEF UnlinkedMove, Inv, GraphOK, WalkOK, LockOK, NothingForgotten
<1>5. GraphInv' /\ StageInv'
  BY <1>0, <1>1, <1>2, <1>3 DEF UnlinkedMove, GraphInv, StageInv, Linked, Working
<1>6. VisitInv' /\ CardInv'
  <2>1. opc' # "join card"
    BY <1>0 DEF Linked
  <2> QED BY <1>0, <1>1, <1>2, <1>3, <2>1, ElementsOfEmpty DEF UnlinkedMove, VisitInv, Seen, CardInv
<1> QED BY <1>4, <1>5, <1>6

LEMMA UnlinkedSteps ==
  ASSUME StreamInv,
         New \/ (UNCHANGED options /\ (StartFails \/ Free \/ StopTicker \/ Join))
  PROVE  StreamInv'
<1> USE DEF StreamInv
<1>0. Role \subseteq Filter /\ Decoder \subseteq Filter /\ NoDecoder \notin Decoder
  BY FilterAssumption
<1>1. CASE New
  <2>1. OwnerOK'
    BY <1>0, <1>1 DEF New, OwnerOK, OwnerPc, ticker, Role
  <2>2. UnlinkedMove
    BY <1>1 DEF UnlinkedMove, New, Linked, ticker, walk, card
  <2> QED BY <2>1, <2>2, UnlinkedStep
<1>2. CASE UNCHANGED options /\ StartFails
  <2>1. /\ opc = "idle" /\ UNCHANGED <<outputs, execution_list, ticker, attached, session, card>>
        /\ opc' = opc /\ root' = root /\ todo' = todo /\ tpc' = tpc
    BY <1>2 DEF StartFails, owner, ticker
  <2>2. live' \subseteq Filter /\ decoder' \in Decoder \cup {NoDecoder}
    <3>1. Ends \subseteq Role
      <4>1. ToSet(If(options.files, "resampler")) \subseteq {"resampler"}
        BY ElementsOfEmpty, ElementsOfSingle DEF If
      <4> QED BY <4>1 DEF Ends, Role
    <3>2. live \subseteq Filter /\ decoder \in Decoder \cup {NoDecoder} /\ "encoder" \in Role
      BY DEF OwnerOK, Role
    <3> QED BY <1>0, <1>2, <3>1, <3>2 DEF StartFails
  <2>3. OwnerOK'
    BY <1>2, <2>1, <2>2 DEF OwnerOK
  <2>4. UnlinkedMove
    BY <2>1 DEF UnlinkedMove, Linked, ticker, walk, card, GraphInv
  <2> QED BY <2>3, <2>4, UnlinkedStep
<1>3. CASE UNCHANGED options /\ Free
  <2>1. OwnerOK'
    BY <1>3 DEF Free, OwnerOK, OwnerPc, ticker
  <2>2. opc = "free" /\ opc' \in {"none", "stop"}
    BY <1>3 DEF Free
  <2>3. UnlinkedMove
    BY <1>3, <2>2 DEF UnlinkedMove, Free, Linked, ticker, walk, card
  <2> QED BY <2>1, <2>3, UnlinkedStep
<1>4. CASE UNCHANGED options /\ StopTicker
  <2>1. OwnerOK'
    BY <1>4 DEF StopTicker, OwnerOK, OwnerPc, owned
  <2>2. UnlinkedMove
    BY <1>4 DEF UnlinkedMove, StopTicker, Linked, owned, walk, card
  <2> QED BY <2>1, <2>2, UnlinkedStep
<1>5. CASE UNCHANGED options /\ Join
  <2>1. OwnerOK'
    BY <1>5 DEF Join, OwnerOK, OwnerPc, owned
  <2>2. UnlinkedMove
    BY <1>5 DEF UnlinkedMove, Join, Linked, owned, card
  <2> QED BY <2>1, <2>2, UnlinkedStep
<1> QED BY <1>1, <1>2, <1>3, <1>4, <1>5

LEMMA StartStep ==
  ASSUME StreamInv, Start, UNCHANGED options
  PROVE  StreamInv'
<1> USE DEF StreamInv
<1>1. PICK d \in Decoder \ live : /\ decoder' = d
                                  /\ live' = live \cup InStream(d)
                                  /\ outputs' = Wired(d)
  BY DEF Start
<1>2. /\ opc = "idle" /\ opc' = "attach" /\ root' = "soundread" /\ tpc = "none"
      /\ tpc' = "start" /\ UNCHANGED <<execution_list, walk, lock, attached, session, card, todo>>
      /\ session /\ done' = done /\ work' = work /\ unschedulable' = unschedulable
      /\ started' = started /\ device' = device
  BY DEF Start, walk, card, OwnerOK, GraphInv
<1>3. /\ attached = {} /\ ToSet(execution_list) = {}
      /\ started = {} /\ device = "none"
      /\ work = << >> /\ unschedulable = << >>
  BY <1>2, Unlinked DEF Linked
<1>4. /\ All' = InStream(d) /\ (Wired(decoder))' = Wired(d) /\ InStream(d) \subseteq Filter
  BY <1>1, Frame, Parts
<1>5. Listed' = {} /\ (ToSet(execution_list))' = {}
  BY <1>2, <1>3 DEF Listed
<1>6. Inv'
  BY <1>1, <1>2, WiredFacts DEF Inv, GraphOK, WalkOK, LockOK, NothingForgotten
<1>7. OwnerOK' /\ GraphInv'
  BY <1>1, <1>2, <1>4 DEF OwnerOK, OwnerPc, GraphInv, Linked
<1>8. StageInv' /\ CardInv' /\ VisitInv'
  BY <1>2, <1>3, <1>5 DEF StageInv, CardInv, VisitInv, Working
<1> QED BY <1>6, <1>7, <1>8

LEMMA DismantleStep ==
  ASSUME StreamInv, Dismantle, UNCHANGED options
  PROVE  StreamInv'
<1> USE DEF StreamInv
<1>1. /\ opc = "dismantle" /\ opc' = "free" /\ UNCHANGED <<root, todo>>
      /\ UNCHANGED <<execution_list, walk, lock, run, tpc, live, attached, session, decoder>>
      /\ done' = done /\ work' = work /\ unschedulable' = unschedulable
      /\ started' = started /\ device' = device
      /\ Linked /\ decoder \in Decoder /\ outputs = Wired(decoder)
  BY DEF Dismantle, ticker, walk, owned, card, GraphInv, Linked
<1>2. outputs' = NoLinks /\ NoLinks' = NoLinks
  <2>1. \A f \in Filter \ InStream(decoder) : outputs[f] = << >>
    BY <1>1, WiredFacts
  <2> QED BY <2>1 DEF Dismantle, NoLinks
<1>3. Listed = {} /\ Listed' = {}
  BY <1>1 DEF Listed
<1>4. tpc = "walk" => done = {}
  BY <1>3 DEF VisitInv, Seen
<1>5. Inv'
  <2>1. GraphOK' /\ WalkOK' /\ LockOK'
    BY <1>1, <1>2, NoLinksOK DEF Inv, GraphOK, WalkOK, LockOK
  <2>2. NothingForgotten'
    BY <1>1, <1>4 DEF Inv, NothingForgotten, Seen
  <2> QED BY <2>1, <2>2 DEF Inv
<1>6. OwnerOK' /\ GraphInv'
  BY <1>1, <1>2 DEF OwnerOK, OwnerPc, GraphInv, Linked
<1>7. (ToSet(execution_list))' = ToSet(execution_list) /\ (CardFilters)' = CardFilters
  BY <1>1, Frame
<1>8. StageInv' /\ CardInv' /\ VisitInv'
  BY <1>1, <1>3, <1>7 DEF StageInv, CardInv, VisitInv, Working, Seen
<1> QED BY <1>5, <1>6, <1>8

\* What a step of the owner sees of a linked graph, and what stays of it
LEMMA LinkedFrame ==
  ASSUME StreamInv, Linked, UNCHANGED <<decoder, options>>
  PROVE  /\ decoder \in Decoder /\ outputs = Wired(decoder)
         /\ Component(root) = Part /\ Part \subseteq All /\ All \subseteq Filter
         /\ Part = IF root = "soundread" \/ options.ec THEN First ELSE All \ First
         /\ First \subseteq All /\ "soundread" \in First /\ "rtprecv" \in All
         /\ ("rtprecv" \in First) <=> options.ec
         /\ ("soundwrite" \in First) \in BOOLEAN
         /\ options.ec => First = All
         /\ All' = All /\ First' = First
         /\ (Wired(decoder))' = Wired(decoder) /\ (CardFilters)' = CardFilters
         /\ root' = root => Part' = Part
<1>1. decoder \in Decoder /\ outputs = Wired(decoder) /\ Component(root) = Part
  BY PartIsComponent DEF StreamInv, GraphInv
<1>2. /\ All = Sent \cup {"rtprecv", decoder} \cup Received /\ All \subseteq Filter
      /\ ToSet(RecvChain(decoder)) = {"rtprecv", decoder} \cup Received
      /\ "soundread" \in Sent /\ "rtprecv" \notin Sent
      /\ ~options.ec => Sent \cap ({"rtprecv", decoder} \cup Received) = {}
  BY <1>1, Parts DEF All
<1>3. /\ All' = All /\ Sent' = Sent
      /\ (ToSet(RecvChain(decoder)))' = ToSet(RecvChain(decoder))
      /\ (Wired(decoder))' = Wired(decoder) /\ (CardFilters)' = CardFilters
      /\ options' = options
  BY Frame DEF All
<1> HIDE DEF All, Sent
<1>4. First' = First /\ (root' = root => Part' = Part)
  BY <1>3 DEF First, Part
<1>5. CASE options.ec
  BY <1>1, <1>2, <1>3, <1>4, <1>5 DEF First, Part
<1>6. CASE ~options.ec
  <2>1. First = Sent
    BY <1>6 DEF First
  <2>2. All \ First = {"rtprecv", decoder} \cup Received
    BY <1>2, <1>6, <2>1
  <2>3. Part = IF root = "soundread" THEN First ELSE All \ First
    BY <1>2, <1>6, <2>2 DEF Part
  <2> QED BY <1>1, <1>2, <1>3, <1>4, <1>6, <2>1, <2>2, <2>3
<1> QED BY <1>5, <1>6

LEMMA ListsStep ==
  ASSUME StreamInv, Lists, UNCHANGED options
  PROVE  StreamInv'
<1> USE DEF StreamInv
<1>1. /\ opc = "preprocess" /\ todo = {} /\ lock = "free"
      /\ execution_list' = execution_list \o Sources(root)
      /\ AfterAttach
      /\ UNCHANGED <<outputs, walk, lock, run, tpc, live, attached, session, decoder, todo>>
      /\ done' = done /\ work' = work /\ unschedulable' = unschedulable
      /\ started' = started /\ device' = device
      /\ root \in {"soundread", "rtprecv"}
      /\ Linked /\ UNCHANGED <<decoder, options>>
  BY DEF Lists, ticker, walk, owned, card, OwnerOK, Linked
<1>2. /\ decoder \in Decoder /\ outputs = Wired(decoder)
      /\ Component(root) = Part /\ Part \subseteq All /\ All \subseteq Filter
      /\ Part = IF root = "soundread" \/ options.ec THEN First ELSE All \ First
      /\ First \subseteq All
      /\ All' = All /\ First' = First
      /\ (Wired(decoder))' = Wired(decoder) /\ (CardFilters)' = CardFilters
  BY <1>1, LinkedFrame
<1>3. tpc # "walk" /\ work = << >> /\ unschedulable = << >>
  BY <1>1, NotWalking
<1>4. /\ Listed = (IF root = "soundread" THEN {} ELSE First)
      /\ attached = Listed \cup Part
      /\ ToSet(execution_list) = {"soundread", "rtprecv"} \cap Listed
      /\ root = "rtprecv" => ~options.ec
  BY <1>1 DEF Listed, StageInv, Working
<1>5. Listed' = Listed \cup Part /\ ~Working'
  <2>1. CASE root = "soundread"
    BY <1>1, <1>2, <1>4, <2>1 DEF AfterAttach, Listed, Working
  <2>2. CASE root = "rtprecv"
    BY <1>1, <1>2, <1>4, <2>2 DEF AfterAttach, Listed, Working
  <2> QED BY <1>1, <2>1, <2>2
<1>6. /\ execution_list' \in Seq(Filter)
      /\ ToSet(execution_list') = ToSet(execution_list) \cup ({"soundread", "rtprecv"} \cap Part)
  <2>1. /\ MadeOf(execution_list, ToSet(execution_list))
        /\ MadeOf(Sources(root), {"soundread", "rtprecv"} \cap Part)
    BY <1>1, <1>2, SourcesOf DEF MadeOf, Inv, GraphOK
  <2>2. MadeOf(execution_list \o Sources(root),
               ToSet(execution_list) \cup ({"soundread", "rtprecv"} \cap Part))
    BY ONLY <2>1, MadeOfBoth, Zenon
  <2> QED BY <1>1, <2>2 DEF MadeOf
<1>7. Inv'
  BY <1>1, <1>3, <1>6 DEF Inv, GraphOK, WalkOK, LockOK, NothingForgotten
<1>8. OwnerOK' /\ GraphInv'
  BY <1>1, <1>2 DEF AfterAttach, OwnerOK, OwnerPc, GraphInv, Linked
<1>9. StageInv'
  <2>1. opc' \in {"attach", "up"} /\ attached' = Listed'
    BY <1>1, <1>4, <1>5 DEF AfterAttach
  <2> QED BY <1>4, <1>5, <1>6, <2>1 DEF StageInv
<1>10. CardInv' /\ VisitInv'
  <2>1. opc' # "join card" /\ opc # "join card"
    BY <1>1 DEF AfterAttach
  <2> QED BY <1>1, <1>2, <1>3, <2>1 DEF CardInv, VisitInv
<1> QED BY <1>7, <1>8, <1>9, <1>10

LEMMA DetachStep ==
  ASSUME StreamInv, Detach, UNCHANGED options
  PROVE  StreamInv'
<1> USE DEF StreamInv
<1>1. /\ opc = "detach"
      /\ UNCHANGED <<outputs, walk, lock, run, tpc, live, attached, session, decoder>>
      /\ done' = done /\ work' = work /\ unschedulable' = unschedulable
      /\ started' = started /\ device' = device
      /\ root \in {"soundread", "rtprecv"}
      /\ Linked /\ UNCHANGED <<decoder, options, ticker, owned>>
  BY DEF Detach, ticker, walk, owned, card, OwnerOK, Linked
<1>2. /\ decoder \in Decoder /\ outputs = Wired(decoder)
      /\ Component(root) = Part /\ Part \subseteq All /\ All \subseteq Filter
      /\ Part = IF root = "soundread" \/ options.ec THEN First ELSE All \ First
      /\ First \subseteq All /\ "soundread" \in First /\ "rtprecv" \in All
      /\ ("rtprecv" \in First) <=> options.ec
      /\ options.ec => First = All
      /\ All' = All /\ First' = First /\ (root' = root => Part' = Part)
      /\ (Wired(decoder))' = Wired(decoder) /\ (CardFilters)' = CardFilters
  BY <1>1, LinkedFrame
<1>3. /\ Listed = (IF root = "soundread" THEN All ELSE All \ First)
      /\ attached = Listed
      /\ ToSet(execution_list) = {"soundread", "rtprecv"} \cap Listed
  BY <1>1 DEF Listed, StageInv, Working
<1>4. CASE root \notin attached /\ AfterDetach /\ UNCHANGED <<execution_list, todo>>
  <2>1. root = "rtprecv" /\ options.ec /\ opc' = "dismantle" /\ root' = "soundread"
    BY <1>1, <1>2, <1>3, <1>4 DEF AfterDetach
  <2>2. Listed = {} /\ Listed' = {}
    BY <1>2, <1>3, <2>1 DEF Listed
  <2>3. OwnerOnly
    BY <1>1, <1>4, <2>2 DEF OwnerOnly
  <2>4. OwnerOK' /\ GraphInv'
    BY <1>1, <1>2, <1>4, <2>1 DEF OwnerOK, OwnerPc, GraphInv, Linked
  <2>5. (ToSet(execution_list))' = ToSet(execution_list)
    BY <1>4
  <2>6. StageInv' /\ CardInv'
    BY <1>1, <1>2, <1>3, <2>1, <2>2, <2>5 DEF StageInv, CardInv, Working
  <2> QED BY <2>3, <2>4, <2>6, OwnerOnlyInv
<1>5. CASE /\ root \in attached /\ lock = "free"
           /\ execution_list' = Without(execution_list, Component(root))
           /\ todo' = Component(root)
           /\ opc' = "postprocess" /\ root' = root
  <2>1. tpc # "walk" /\ work = << >> /\ unschedulable = << >>
    BY <1>5, NotWalking
  <2>2. root = "rtprecv" => ~options.ec
    BY <1>2, <1>3, <1>5
  <2>3. Listed' = Listed \ Part /\ Part \subseteq Listed
    BY <1>1, <1>2, <1>3, <1>5, <2>2 DEF Listed
  <2>4. execution_list' \in Seq(Filter) /\ ToSet(execution_list') = ToSet(execution_list) \ Part
    BY <1>2, <1>5, ElementsWithout DEF Inv, GraphOK
  <2>5. Inv'
    BY <1>1, <2>1, <2>4 DEF Inv, GraphOK, WalkOK, LockOK, NothingForgotten
  <2>6. OwnerOK' /\ GraphInv'
    BY <1>1, <1>2, <1>5 DEF OwnerOK, OwnerPc, GraphInv, Linked
  <2>7. StageInv'
    BY <1>1, <1>2, <1>3, <1>5, <2>2, <2>3, <2>4 DEF StageInv, Working
  <2>8. CardInv' /\ VisitInv'
    BY <1>1, <1>2, <1>5, <2>1 DEF CardInv, VisitInv
  <2> QED BY <2>5, <2>6, <2>7, <2>8
<1> QED BY <1>4, <1>5 DEF Detach

LEMMA DetachedStep ==
  ASSUME StreamInv, Detached, UNCHANGED options
  PROVE  StreamInv'
<1> USE DEF StreamInv
<1>1. /\ opc = "postprocess" /\ todo = {} /\ AfterDetach
      /\ UNCHANGED <<outputs, execution_list, ticker, owned, card, todo, options, decoder>>
      /\ tpc' = tpc /\ live' = live /\ attached' = attached /\ session' = session
      /\ decoder' = decoder /\ started' = started /\ device' = device
      /\ root \in {"soundread", "rtprecv"} /\ Linked
  BY DEF Detached, ticker, owned, card, OwnerOK, Linked
<1>2. /\ decoder \in Decoder /\ All' = All /\ First' = First
      /\ (Wired(decoder))' = Wired(decoder) /\ (CardFilters)' = CardFilters
  BY <1>1, LinkedFrame
<1>3. Listed' = Listed /\ ~Working' /\ attached = Listed
  BY <1>1, <1>2 DEF AfterDetach, Listed, Working, StageInv
<1>4. OwnerOnly
  BY <1>1, <1>3 DEF OwnerOnly
<1>5. OwnerOK' /\ GraphInv'
  BY <1>1, <1>2 DEF AfterDetach, OwnerOK, OwnerPc, GraphInv, Linked
<1>6. opc' \in {"detach", "dismantle"} /\ (ToSet(execution_list))' = ToSet(execution_list)
  BY <1>1 DEF AfterDetach
<1>7. StageInv' /\ CardInv'
  BY <1>1, <1>2, <1>3, <1>6 DEF StageInv, CardInv
<1> QED BY <1>4, <1>5, <1>7, OwnerOnlyInv

LEMMA JoinsCardStep ==
  ASSUME StreamInv, JoinsCard, UNCHANGED options
  PROVE  StreamInv'
<1> USE DEF StreamInv
<1>1. /\ opc = "join card" /\ device = "ended" /\ device' = "none" /\ opc' = "postprocess"
      /\ UNCHANGED <<outputs, execution_list, ticker, owned, root, todo, options, decoder>>
      /\ tpc' = tpc /\ live' = live /\ attached' = attached /\ session' = session
      /\ started' = started /\ root' = root /\ Linked
  BY DEF JoinsCard, ticker, owned, Linked
<1>2. /\ decoder \in Decoder /\ All' = All /\ First' = First /\ Part' = Part
      /\ (Wired(decoder))' = Wired(decoder) /\ (CardFilters)' = CardFilters
  BY <1>1, LinkedFrame
<1>3. Listed' = Listed
  BY <1>1, <1>2 DEF Listed
<1>4. OwnerOnly
  BY <1>1, <1>3 DEF OwnerOnly
<1>5. OwnerOK' /\ GraphInv'
  BY <1>1, <1>2 DEF OwnerOK, OwnerPc, GraphInv, Linked
<1>6. (ToSet(execution_list))' = ToSet(execution_list)
  BY <1>1
<1>7. StageInv' /\ CardInv'
  BY <1>1, <1>2, <1>3, <1>6 DEF StageInv, CardInv, Working
<1> QED BY <1>4, <1>5, <1>7, OwnerOnlyInv

LEMMA DeviceEndsStep ==
  ASSUME StreamInv, DeviceEnds
  PROVE  StreamInv'
<1> USE DEF StreamInv
<1>1. /\ device = "runs" /\ started = {} /\ device' = "ended" /\ opc = "join card"
      /\ UNCHANGED <<outputs, execution_list, ticker, owned, opc, root, todo, options, decoder>>
      /\ tpc' = tpc /\ live' = live /\ attached' = attached /\ session' = session
      /\ started' = started /\ root' = root /\ Linked
  BY DEF DeviceEnds, ticker, owned, owner, Linked, CardInv
<1>2. /\ decoder \in Decoder /\ All' = All /\ First' = First /\ Part' = Part
      /\ (Wired(decoder))' = Wired(decoder) /\ (CardFilters)' = CardFilters
  BY <1>1, LinkedFrame
<1>3. Listed' = Listed
  BY <1>1, <1>2 DEF Listed
<1>4. OwnerOnly
  BY <1>1, <1>3 DEF OwnerOnly
<1>5. OwnerOK' /\ GraphInv'
  BY <1>1, <1>2 DEF OwnerOK, OwnerPc, GraphInv, Linked
<1>6. (ToSet(execution_list))' = ToSet(execution_list)
  BY <1>1
<1>7. StageInv' /\ CardInv'
  BY <1>1, <1>2, <1>3, <1>6 DEF StageInv, CardInv, Working
<1> QED BY <1>4, <1>5, <1>7, OwnerOnlyInv

\* The neighbours still to be prepared are not in the list, so that clearing
\* their last_tick makes the thread run none of them twice.
LEMMA PreprocessStep ==
  ASSUME StreamInv, NEW f \in Filter, Preprocess(f), UNCHANGED options
  PROVE  StreamInv'
<1> USE DEF StreamInv
<1>1. /\ opc = "preprocess" /\ f \in todo /\ todo' = todo \ {f}
      /\ attached' = attached \cup {f} /\ done' = done \ {f} /\ StartsCard(f)
      /\ UNCHANGED <<outputs, execution_list, work, unschedulable, force_schedule, lock, run,
                     tpc, live, session, decoder, opc, root, options>>
      /\ UNCHANGED <<decoder, options>>
      /\ Linked /\ root \in {"soundread", "rtprecv"}
  BY DEF Preprocess, Linked, OwnerOK
<1>2. /\ decoder \in Decoder /\ All' = All /\ First' = First /\ Part' = Part
      /\ First \subseteq All
      /\ Part = IF root = "soundread" \/ options.ec THEN First ELSE All \ First
      /\ (Wired(decoder))' = Wired(decoder) /\ (CardFilters)' = CardFilters
  BY <1>1, LinkedFrame
<1>3. /\ Listed = (IF root = "soundread" THEN {} ELSE First) /\ Listed' = Listed
      /\ todo \subseteq Part /\ (root = "rtprecv" => ~options.ec)
      /\ attached = Listed \cup (Part \ todo)
  BY <1>1, <1>2 DEF Listed, StageInv, Working
<1>4. f \notin Listed /\ f \in Part /\ f \notin attached
  BY <1>1, <1>2, <1>3
<1>5. tpc = "walk" => done' = done
  BY <1>1, <1>4 DEF VisitInv, Seen
<1>6. Inv'
  BY <1>1, <1>5 DEF Inv, GraphOK, WalkOK, LockOK, NothingForgotten, Seen
<1>7. OwnerOK' /\ GraphInv'
  BY <1>1, <1>2 DEF OwnerOK, OwnerPc, GraphInv, Linked
<1>8. StageInv'
  <2>1. (ToSet(execution_list))' = ToSet(execution_list)
    BY <1>1
  <2> QED BY <1>1, <1>2, <1>3, <1>4, <2>1 DEF StageInv, Working
<1>9. VisitInv'
  BY <1>1, <1>3, <1>5 DEF VisitInv, Seen
<1>10. CardInv'
  <2>1. started = CardFilters \cap attached /\ (started # {} => device = "runs")
        /\ (started = {} => device = "none")
    BY <1>1 DEF CardInv
  <2>2. CASE f \in CardFilters
    BY <1>1, <1>2, <2>1, <2>2 DEF StartsCard, CardInv
  <2>3. CASE f \notin CardFilters
    BY <1>1, <1>2, <2>1, <2>3 DEF StartsCard, CardInv, card
  <2> QED BY <2>2, <2>3
<1> QED BY <1>6, <1>7, <1>8, <1>9, <1>10

LEMMA PostprocessStep ==
  ASSUME StreamInv, NEW f \in Filter, Postprocess(f), UNCHANGED options
  PROVE  StreamInv'
<1> USE DEF StreamInv
<1>1. /\ opc = "postprocess" /\ f \in todo /\ todo' = todo \ {f}
      /\ attached' = attached \ {f}
      /\ started' = started \ {f} /\ device' = device
      /\ opc' = IF f \in CardFilters /\ started' = {} THEN "join card" ELSE opc
      /\ UNCHANGED <<outputs, execution_list, ticker, live, session, decoder, root, options>>
      /\ tpc' = tpc /\ live' = live /\ session' = session
      /\ UNCHANGED <<decoder, options>>
      /\ Linked /\ root \in {"soundread", "rtprecv"}
  BY DEF Postprocess, StopsCard, Linked, OwnerOK, ticker
<1>2. /\ decoder \in Decoder /\ All' = All /\ First' = First /\ Part' = Part
      /\ First \subseteq All
      /\ Part = IF root = "soundread" \/ options.ec THEN First ELSE All \ First
      /\ (Wired(decoder))' = Wired(decoder) /\ (CardFilters)' = CardFilters
  BY <1>1, LinkedFrame
<1>3. /\ Listed = (IF root = "soundread" THEN All \ First ELSE {}) /\ Listed' = Listed
      /\ todo \subseteq Part /\ (root = "rtprecv" => ~options.ec)
      /\ attached = Listed \cup todo
  BY <1>1, <1>2 DEF Listed, StageInv, Working
<1>4. f \notin Listed
  BY <1>1, <1>2, <1>3
<1>5. Inv'
  BY <1>1, StutterInv DEF ticker
<1>6. OwnerOK' /\ GraphInv'
  <2>1. opc' \in {"postprocess", "join card"} /\ opc' \notin {"none", "idle", "stop", "join"}
        /\ opc' \in OwnerPc
    BY <1>1 DEF OwnerPc
  <2>2. /\ options' = options /\ live' = live /\ session' = session /\ decoder' = decoder
        /\ root' = root /\ todo' \subseteq todo /\ outputs' = outputs
    BY <1>1
  <2>3. OwnerOK'
    BY ONLY <2>1, <2>2, OwnerOK DEF OwnerOK, Options
  <2>4. GraphInv'
    <3>1. /\ decoder' \in Decoder /\ outputs' = (Wired(decoder))' /\ All' \subseteq live'
          /\ Linked' /\ session
      BY <1>1, <1>2, <2>1, <2>2 DEF GraphInv, Linked
    <3>2. session'
      BY <2>2, <3>1
    <3> QED BY <3>1, <3>2 DEF GraphInv
  <2> QED BY <2>3, <2>4
<1>7. StageInv'
  <2>1. (ToSet(execution_list))' = ToSet(execution_list) /\ opc' \in {"postprocess", "join card"}
    BY <1>1
  <2> QED BY <1>1, <1>2, <1>3, <1>4, <2>1 DEF StageInv, Working
<1>8. VisitInv'
  BY <1>1, <1>3 DEF VisitInv, Seen, ticker, walk
<1>9. CardInv'
  <2>1. started = CardFilters \cap attached /\ (started # {} => device = "runs")
        /\ (started = {} => device = "none")
    BY <1>1 DEF CardInv
  <2>2. CASE f \in CardFilters
    BY <1>1, <1>2, <1>3, <2>1, <2>2 DEF CardInv
  <2>3. CASE f \notin CardFilters
    BY <1>1, <1>2, <2>1, <2>3 DEF CardInv
  <2> QED BY <2>2, <2>3
<1> QED BY <1>5, <1>6, <1>7, <1>8, <1>9

----------------------------------------------------------------------------
(* The ticker thread's steps. *)

\* The list is made of whole graphs.
LEMMA ListedFacts ==
  ASSUME StreamInv, Linked
  PROVE  Closed(Listed) /\ Listed \subseteq All /\ Listed \subseteq live /\ Listed \subseteq attached
<1> USE DEF StreamInv
<1>1. /\ decoder \in Decoder /\ GraphOK /\ First \subseteq All /\ All \subseteq live
      /\ "soundread" \in Filter /\ "rtprecv" \in Filter
  <2>1. decoder \in Decoder /\ All \subseteq live
    BY DEF GraphInv
  <2>2. First \subseteq All
    BY <2>1, Parts DEF First, All
  <2> QED BY <2>1, <2>2, FilterAssumption DEF Inv, Role
<1>2. Closed(Component("soundread")) /\ Closed(Component("rtprecv"))
  BY <1>1, ComponentLeast
<1>3. Closed(First) /\ Closed(All)
  <2>1. Component("soundread") = First
        /\ Component("rtprecv") = IF options.ec THEN All ELSE ToSet(RecvChain(decoder))
    BY PartIsComponent
  <2>2. CASE options.ec
    BY <1>2, <2>1, <2>2
  <2>3. CASE ~options.ec
    <3>1. All = Component("soundread") \cup Component("rtprecv")
      BY <2>1, <2>3 DEF First, All, Sent, InStream
    <3> QED BY <1>2, <2>1, <3>1 DEF Closed
  <2> QED BY <2>2, <2>3
<1>4. Closed(All \ First) /\ Closed({})
  BY <1>3 DEF Closed
<1>5. Listed \in {{}, First, All, All \ First}
  BY DEF Listed
<1>6. Listed \subseteq attached
  BY DEF StageInv
<1> QED BY <1>1, <1>3, <1>4, <1>5, <1>6

\* Only rtprecv is linked to the decoder.
LEMMA BeforeDecoder ==
  ASSUME NEW d \in Decoder, NEW f \in Filter, d \in ToSet(Wired(d)[f])
  PROVE  f = "rtprecv"
<1>1. d \in NextIn(RecvChain(d), f) \/ d \in NextIn(SendChain, f)
  BY WiredFacts
<1>2. d \notin Sent /\ d \notin Received /\ d # "dtmfgen"
  BY Parts, FilterAssumption DEF Role
<1>3. d \in NextIn(RecvChain(d), f)
  BY <1>1, <1>2, SendFacts, NextInChain DEF Sent
<1>4. f # d
  BY <1>2, <1>3, RecvFacts
<1>5. CASE f \notin {"rtprecv", d}
  <2>1. d \in NextIn(RecvRest, f)
    BY <1>3, <1>5, RecvFacts
  <2>2. NextIn(RecvRest, f) \subseteq Received
    BY RestFacts, NextInChain DEF Received
  <2> QED BY <1>2, <2>1, <2>2
<1> QED BY <1>4, <1>5

LEMMA TickerFrame ==
  ASSUME StreamInv, UNCHANGED <<outputs, owned, execution_list, card, owner, options>>,
         opc \in {"none", "idle"} => tpc' = "none"
  PROVE  /\ OwnerOK' /\ GraphInv' /\ StageInv' /\ CardInv'
         /\ Listed' = Listed
<1> USE DEF StreamInv
<1>1. /\ UNCHANGED <<outputs, execution_list, live, attached, session, decoder, started, device,
                     opc, root, todo, options>>
      /\ opc' = opc /\ root' = root /\ todo' = todo /\ attached' = attached /\ live' = live
      /\ decoder' = decoder /\ session' = session /\ started' = started /\ device' = device
      /\ options' = options /\ NoLinks' = NoLinks
  BY DEF owned, card, owner, NoLinks
<1>2. /\ All' = All /\ Sent' = Sent
      /\ (Wired(decoder))' = Wired(decoder) /\ (CardFilters)' = CardFilters
      /\ (ToSet(RecvChain(decoder)))' = ToSet(RecvChain(decoder))
      /\ (ToSet(execution_list))' = ToSet(execution_list)
  BY <1>1, Frame DEF All
<1>3. First' = First /\ Part' = Part
  BY <1>1, <1>2 DEF First, Part
<1>4. Listed' = Listed
  BY <1>1, <1>2, <1>3 DEF Listed
<1>5. OwnerOK' /\ GraphInv'
  <2>1. OwnerOK'
    BY <1>1 DEF OwnerOK
  <2>2. GraphInv'
    <3>1. Linked' => decoder' \in Decoder /\ outputs' = (Wired(decoder))' /\ All' \subseteq live'
      BY <1>1, <1>2 DEF GraphInv, Linked
    <3>2. ~Linked' => outputs' = NoLinks'
      BY <1>1 DEF GraphInv, Linked
    <3>3. opc' \notin {"none", "stop", "join"} => session'
      BY <1>1 DEF GraphInv
    <3> QED BY <3>1, <3>2, <3>3 DEF GraphInv
  <2> QED BY <2>1, <2>2
<1>6. StageInv' /\ CardInv'
  BY <1>1, <1>2, <1>3, <1>4 DEF StageInv, CardInv, Working
<1> QED BY <1>4, <1>5, <1>6

LEMMA TickerMovesStep ==
  ASSUME StreamInv, TickerMoves, UNCHANGED <<outputs, owned, execution_list, card, owner, options>>
  PROVE  StreamInv'
<1> USE DEF StreamInv
<1>1. Inv'
  BY MovesInv
<1>2. tpc # "none"
  BY DEF TickerMoves, Begins, Ticks, Exits, StartsSecondPass, EndsTick, Wakes, PassOver, Skips,
         PutsAside, Visits
<1>3. OwnerOK' /\ GraphInv' /\ StageInv' /\ CardInv' /\ Listed' = Listed /\ decoder' = decoder
  BY <1>2, TickerFrame DEF OwnerOK, owned
<1> SUFFICES VisitInv'
  BY <1>1, <1>3
<1>4. CASE Begins \/ Exits \/ EndsTick \/ Wakes
  BY <1>4 DEF Begins, Exits, EndsTick, Wakes, PassOver, walk, VisitInv
<1>5. CASE Ticks
  <2>1. Seen' = {"soundread", "rtprecv"} \cap Listed /\ tpc' = "walk"
    BY <1>5, ElementsOfEmpty DEF Ticks, Seen, StageInv
  <2>2. decoder \notin Seen'
    <3>1. CASE Linked
      <4>1. decoder \in Decoder
        BY <3>1 DEF GraphInv
      <4> QED BY <2>1, <4>1, FilterAssumption DEF Role
    <3>2. CASE ~Linked
      BY <2>1, <3>2, Unlinked
    <3> QED BY <3>1, <3>2
  <2> QED BY <1>3, <2>1, <2>2 DEF VisitInv
<1>6. CASE StartsSecondPass
  <2>1. Seen' = Seen /\ done' = done /\ tpc = "walk" /\ tpc' = tpc
    BY <1>6, ElementsOfEmpty DEF StartsSecondPass, PassOver, Seen
  <2> QED BY <1>3, <2>1 DEF VisitInv
<1>7. ASSUME NEW f \in Filter, Skips(f) \/ PutsAside(f) PROVE VisitInv'
  <2>1. ToSet(work) = {f} \cup ToSet(work') /\ done' = done /\ tpc = "walk" /\ tpc' = tpc
    BY <1>7, Visited DEF Skips, PutsAside, Visits, Inv
  <2>2. Seen' \subseteq Seen
    <3>1. CASE Skips(f)
      BY <2>1, <3>1 DEF Skips, Seen
    <3>2. CASE PutsAside(f)
      <4>1. MadeOf(<<f>>, {f}) /\ MadeOf(unschedulable, ToSet(unschedulable))
        BY ElementsOfSingle DEF MadeOf, Inv, WalkOK
      <4>2. MadeOf(<<f>> \o unschedulable, {f} \cup ToSet(unschedulable))
        BY ONLY <4>1, MadeOfBoth, Zenon
      <4>3. ToSet(unschedulable') = {f} \cup ToSet(unschedulable)
        BY <3>2, <4>2 DEF PutsAside, MadeOf
      <4> QED BY <2>1, <4>3 DEF Seen
    <3> QED BY <1>7, <3>1, <3>2
  <2> QED BY <1>3, <2>1, <2>2 DEF VisitInv
<1> QED BY <1>4, <1>5, <1>6, <1>7 DEF TickerMoves

\* What a visit that processes f adds
LEMMA Processed ==
  ASSUME StreamInv, NEW f \in Filter, Processes(f), outputs' \in [Filter -> Seq(Filter)]
  PROVE  /\ work' \in Seq(Filter) /\ done' = done \cup {f} /\ f \in Seen /\ f \notin done
         /\ Seen' = Seen \cup ToSet(outputs'[f])
         /\ tpc = "walk" /\ tpc' = tpc /\ lock' = lock /\ unschedulable' = unschedulable
<1>1. Tail(work) \in Seq(Filter) /\ ToSet(work) = {f} \cup ToSet(Tail(work))
  BY Visited DEF Processes, StreamInv, Inv
<1>2. /\ work' = outputs'[f] \o Tail(work) /\ done' = done \cup {f} /\ f \notin done
      /\ tpc = "walk" /\ tpc' = tpc /\ lock' = lock /\ unschedulable' = unschedulable
  BY DEF Processes, Visits
<1>3. MadeOf(outputs'[f], ToSet(outputs'[f])) /\ MadeOf(Tail(work), ToSet(Tail(work)))
  BY <1>1 DEF MadeOf
<1>4. MadeOf(outputs'[f] \o Tail(work), ToSet(outputs'[f]) \cup ToSet(Tail(work)))
  BY ONLY <1>3, MadeOfBoth, Zenon
<1>5. work' \in Seq(Filter) /\ ToSet(work') = ToSet(outputs'[f]) \cup ToSet(Tail(work))
  BY <1>2, <1>4 DEF MadeOf
<1> QED BY <1>1, <1>2, <1>5 DEF Seen

LEMMA ProcessesStep ==
  ASSUME StreamInv, NEW f \in Filter, Processes(f),
         UNCHANGED <<outputs, owned, execution_list, card, owner, options>>
  PROVE  StreamInv'
<1> USE DEF StreamInv
<1>1. Inv'
  BY ProcessesInv
<1>2. outputs' \in [Filter -> Seq(Filter)]
  BY DEF Inv, GraphOK
<1>3. /\ done' = done \cup {f} /\ f \in Seen /\ Seen' = Seen \cup ToSet(outputs[f])
      /\ tpc = "walk" /\ tpc' = tpc
  BY <1>2, Processed
<1>4. OwnerOK' /\ GraphInv' /\ StageInv' /\ CardInv' /\ Listed' = Listed /\ decoder' = decoder
  BY <1>3, TickerFrame DEF OwnerOK, owned
<1>5. Linked /\ decoder \in Decoder /\ outputs = Wired(decoder)
  BY <1>3, Unlinked, ElementsOfEmpty DEF Seen, GraphInv
<1>6. f \in Listed /\ ToSet(outputs[f]) \subseteq Listed
  <2>1. f \in Listed /\ Closed(Listed)
    BY <1>3, <1>5, ListedFacts DEF VisitInv
  <2>2. ToSet(outputs[f]) \subseteq Filter
    BY ElementsOfSeq DEF Inv, GraphOK
  <2> QED BY <2>1, <2>2 DEF Closed
<1>7. decoder \in ToSet(outputs[f]) => f = "rtprecv"
  BY <1>5, BeforeDecoder
<1>8. VisitInv'
  BY <1>3, <1>4, <1>6, <1>7 DEF VisitInv
<1> QED BY <1>1, <1>4, <1>8

\* The decoder is replaced while rtprecv runs: the thread has not come to the old
\* one in this tick, the new one takes its place in the graph, in the list and
\* among the prepared filters, and the owner is not working on either.
LEMMA ChangesDecoderStep ==
  ASSUME StreamInv, NEW e \in Decoder \ live, ChangesDecoder(e), Processes("rtprecv"),
         UNCHANGED <<execution_list, card, owner, options>>
  PROVE  StreamInv'
<1> USE DEF StreamInv
<1> DEFINE d == decoder
<1>1. /\ outputs' = [outputs EXCEPT !["rtprecv"] = <<e>>, ![e] = <<"dtmfgen">>, ![d] = << >>]
      /\ live' = (live \ {d}) \cup {e} /\ attached' = (attached \ {d}) \cup {e}
      /\ decoder' = e /\ session' = session
      /\ execution_list' = execution_list /\ options' = options
      /\ started' = started /\ device' = device /\ opc' = opc /\ root' = root /\ todo' = todo
  BY DEF ChangesDecoder, card, owner
<1>2. "rtprecv" \in Filter /\ e \in Filter /\ Role \cap Decoder = {}
  BY FilterAssumption DEF Role
<1>3. "rtprecv" \in Seen /\ "rtprecv" \notin done /\ tpc = "walk"
  <2>1. ToSet(work) = {"rtprecv"} \cup ToSet(Tail(work))
    BY <1>2, Visited DEF Processes, Inv
  <2> QED BY <2>1 DEF Processes, Visits, Seen
<1>4. Linked /\ d \in Decoder /\ outputs = Wired(d) /\ All \subseteq live
  BY <1>3, Unlinked, ElementsOfEmpty DEF Seen, GraphInv
<1>5. "rtprecv" \in Listed /\ Listed \subseteq All /\ Seen \subseteq Listed /\ d \notin Seen
  BY <1>3, <1>4, ListedFacts DEF VisitInv
<1>6. /\ All = Sent \cup {"rtprecv", d} \cup Received
      /\ InStream(e) = Sent \cup {"rtprecv", e} \cup Received
      /\ ToSet(RecvChain(d)) = {"rtprecv", d} \cup Received
      /\ ToSet(RecvChain(e)) = {"rtprecv", e} \cup Received
      /\ Sent \subseteq Role /\ Received \subseteq Role /\ d \notin Role /\ e \notin Role
      /\ "rtprecv" \notin Sent /\ "rtprecv" \in Role
      /\ ~options.ec => Sent \cap ({"rtprecv", d} \cup Received) = {}
      /\ ~options.ec => Sent \cap ({"rtprecv", e} \cup Received) = {}
  BY <1>2, <1>4, Parts DEF All, Role
<1>7. e # d /\ e \notin All /\ e \notin Listed /\ e \notin Seen
  <2>1. e \notin live
    OBVIOUS
  <2>2. d \in All
    BY <1>6
  <2> QED BY <1>4, <1>5, <2>1, <2>2
<1>8. /\ All' = InStream(e) /\ Sent' = Sent /\ (Wired(decoder))' = Wired(e)
      /\ (ToSet(RecvChain(decoder)))' = ToSet(RecvChain(e))
      /\ (CardFilters)' = CardFilters /\ Linked' /\ (Working' <=> Working)
      /\ (ToSet(execution_list))' = ToSet(execution_list)
  BY <1>1, <1>4, Frame DEF Linked, Working
<1>9. outputs' = Wired(e)
  BY <1>1, <1>4, <1>7, RewiredIsWired
<1> HIDE DEF d
<1>10. All' = (All \ {d}) \cup {e}
  BY <1>6, <1>7, <1>8
<1>11. /\ First = IF options.ec THEN All ELSE Sent
       /\ First' = IF options.ec THEN All' ELSE Sent
       /\ Part = IF options.ec \/ root = "soundread" THEN First ELSE ToSet(RecvChain(d))
       /\ Part' = IF options.ec \/ root = "soundread" THEN First' ELSE ToSet(RecvChain(e))
  BY <1>1, <1>8 DEF First, Part, d
\* The list holds the whole receiving graph, and the owner is working on the
\* other one, if on any.
<1>12. \/ Listed = All /\ Listed' = All' /\ ~Working
       \/ Listed = All \ First /\ Listed' = All' \ First' /\ ~options.ec
            /\ (Working => root = "soundread")
  <2>1. CASE opc \in {"attach", "preprocess"}
    <3>1. Listed = First /\ root # "soundread" /\ Listed' = First'
      BY <1>1, <1>5, <2>1 DEF Listed
    <3>2. options.ec
      BY <1>5, <1>6, <1>11, <3>1
    <3>3. opc = "attach"
      BY <2>1, <3>1, <3>2 DEF StageInv, Working, OwnerOK
    <3> QED BY <1>11, <3>1, <3>2, <3>3 DEF Working
  <2>2. CASE opc = "up"
    BY <1>1, <2>2 DEF Listed, Working
  <2>3. CASE opc = "detach" /\ root = "soundread"
    BY <1>1, <2>3 DEF Listed, Working
  <2>4. CASE (opc = "detach" /\ root # "soundread") \/ opc \in {"postprocess", "join card"}
    <3>1. Listed = All \ First /\ Listed' = All' \ First' /\ (Working => root = "soundread")
      BY <1>1, <1>5, <2>4 DEF Listed, Working
    <3>2. ~options.ec
      BY <1>5, <1>11, <3>1
    <3> QED BY <3>1, <3>2
  <2>5. CASE opc = "dismantle"
    BY <1>5, <2>5 DEF Listed
  <2> QED BY <1>4, <2>1, <2>2, <2>3, <2>4, <2>5 DEF Linked
<1>13. /\ Listed' = (Listed \ {d}) \cup {e}
       /\ d \in Listed
       /\ Working => Part' = Part /\ d \notin Part
  <2>1. CASE Listed = All /\ Listed' = All' /\ ~Working
    BY <1>6, <1>10, <2>1
  <2>2. CASE Listed = All \ First /\ Listed' = All' \ First' /\ ~options.ec
             /\ (Working => root = "soundread")
    <3>1. First = Sent /\ First' = Sent /\ d \notin Sent /\ e \notin Sent
      BY <1>6, <1>11, <2>2
    <3> QED BY <1>6, <1>10, <1>11, <2>2, <3>1
  <2> QED BY <1>12, <2>1, <2>2
<1>14. outputs' \in [Filter -> Seq(Filter)] /\ ToSet(outputs'["rtprecv"]) = {e}
  BY <1>2, <1>9, WiredFacts, ElementsOfSingle
<1>15. /\ work' \in Seq(Filter) /\ done' = done \cup {"rtprecv"} /\ Seen' = Seen \cup {e}
       /\ tpc' = tpc /\ lock' = lock /\ unschedulable' = unschedulable
  BY <1>2, <1>14, Processed
<1>16. Inv'
  <2>1. GraphOK' /\ WalkOK' /\ LockOK'
    BY <1>1, <1>2, <1>14, <1>15 DEF Inv, GraphOK, WalkOK, LockOK
  <2>2. ASSUME NEW g \in done' PROVE ToSet(outputs'[g]) \subseteq Seen'
    <3>1. CASE g = "rtprecv"
      BY <1>14, <1>15, <3>1
    <3>2. CASE g # "rtprecv"
      <4>1. g \in done /\ g \in Filter /\ g \in Seen
        BY <1>15, <3>2 DEF Inv, WalkOK, Seen
      <4>2. outputs'[g] = outputs[g]
        BY <1>1, <1>5, <1>7, <3>2, <4>1 DEF Inv, GraphOK, d
      <4>3. ToSet(outputs[g]) \subseteq Seen
        BY <1>3, <4>1 DEF Inv, NothingForgotten
      <4> QED BY <1>15, <4>2, <4>3
    <3> QED BY <3>1, <3>2
  <2>3. NothingForgotten'
    BY <1>3, <1>8, <1>15, <2>2 DEF Inv, NothingForgotten
  <2> QED BY <2>1, <2>3 DEF Inv
<1>17. OwnerOK' /\ GraphInv'
  <2>1. live' \subseteq Filter /\ decoder' \in Decoder
    BY <1>1, <1>2 DEF OwnerOK
  <2>2. OwnerOK'
    BY <1>1, <1>15, <2>1 DEF OwnerOK
  <2>3. All' \subseteq live'
    BY <1>1, <1>4, <1>10 DEF d
  <2>4. opc' \notin {"none", "stop", "join"} => session'
    BY <1>1 DEF GraphInv
  <2> QED BY <1>8, <1>9, <2>1, <2>2, <2>3, <2>4 DEF GraphInv
<1>18. StageInv'
  <2>1. ToSet(execution_list) = {"soundread", "rtprecv"} \cap Listed'
    BY <1>2, <1>4, <1>6, <1>13 DEF StageInv, Role
  <2>2. attached' = (attached \ {d}) \cup {e}
    BY <1>1 DEF d
  <2>3. CASE ~Working
    <3>1. attached = Listed /\ attached' = Listed'
      BY <1>13, <2>2, <2>3 DEF StageInv, Working
    <3> QED BY <1>1, <1>8, <2>1, <2>3, <3>1 DEF StageInv, Working
  <2>4. CASE Working
    <3>1. todo \subseteq Part /\ (root = "rtprecv" => ~options.ec) /\ Part' = Part /\ d \notin Part
      BY <1>13, <2>4 DEF StageInv
    <3>2. opc \in {"postprocess", "join card"} => attached' = Listed' \cup todo
      <4>1. opc \in {"postprocess", "join card"} => attached = Listed \cup todo
        BY DEF StageInv
      <4> QED BY <1>13, <2>2, <3>1, <4>1
    <3>3. opc = "preprocess" => attached' = Listed' \cup (Part \ todo)
      <4>1. opc = "preprocess" => attached = Listed \cup (Part \ todo)
        BY DEF StageInv
      <4> QED BY <1>13, <2>2, <3>1, <4>1
    <3> QED BY <1>1, <1>8, <2>1, <2>4, <3>1, <3>2, <3>3 DEF StageInv, Working
  <2> QED BY <2>3, <2>4
<1>19. VisitInv'
  BY <1>1, <1>3, <1>5, <1>13, <1>15 DEF VisitInv
<1>20. CardInv'
  <2>1. CardFilters \subseteq Role
    BY DEF CardFilters, Role
  <2>2. CardFilters \cap attached' = CardFilters \cap attached
    BY <1>1, <1>6, <2>1 DEF d
  <2> QED BY <1>1, <1>8, <2>2 DEF CardInv
<1> QED BY <1>16, <1>17, <1>18, <1>19, <1>20

LEMMA NextStream ==
  ASSUME StreamInv, [Next]_vars
  PROVE  StreamInv'
<1>1. CASE New \/ (UNCHANGED options /\ (StartFails \/ Free \/ StopTicker \/ Join))
  BY <1>1, UnlinkedSteps
<1>2. CASE UNCHANGED options /\ (Start \/ Dismantle)
  BY <1>2, StartStep, DismantleStep
<1>3. CASE UNCHANGED options /\ (Attach \/ Lists \/ \E f \in Filter : Preprocess(f))
  BY <1>3, AttachStep, ListsStep, PreprocessStep
<1>4. CASE UNCHANGED options /\ (Stop \/ Detach \/ Detached \/ \E f \in Filter : Postprocess(f))
  BY <1>4, StopStep, DetachStep, DetachedStep, PostprocessStep
<1>5. CASE (UNCHANGED options /\ JoinsCard) \/ DeviceEnds
  BY <1>5, JoinsCardStep, DeviceEndsStep
<1>6. CASE TickerThread
  <2>1. UNCHANGED <<execution_list, card, owner, options>>
    BY <1>6 DEF TickerThread
  <2>2. CASE UNCHANGED <<outputs, owned>> /\ TickerMoves
    BY <2>1, <2>2, TickerMovesStep
  <2>3. CASE UNCHANGED <<outputs, owned>> /\ \E f \in Filter : Processes(f)
    BY <2>1, <2>3, ProcessesStep
  <2>4. CASE \E e \in Decoder \ live : ChangesDecoder(e) /\ Processes("rtprecv")
    BY <2>1, <2>4, ChangesDecoderStep
  <2> QED BY <1>6, <2>2, <2>3, <2>4 DEF TickerThread
<1>7. CASE UNCHANGED vars
  <2>1. UNCHANGED <<outputs, execution_list, ticker, owned, card, owner, options>>
    BY <1>7 DEF vars
  <2>2. OwnerOK' /\ GraphInv' /\ StageInv' /\ CardInv' /\ Listed' = Listed
    BY <2>1, TickerFrame DEF StreamInv, OwnerOK, ticker
  <2>3. OwnerOnly
    BY <2>1, <2>2 DEF OwnerOnly
  <2> QED BY <2>2, <2>3, OwnerOnlyInv DEF StreamInv
<1> QED BY <1>1, <1>2, <1>3, <1>4, <1>5, <1>6, <1>7 DEF Next, OwnerNext

LEMMA StreamAlways == Spec => []StreamInv
  BY InitStream, NextStream, PTL DEF Spec

----------------------------------------------------------------------------
(* The theorems. *)

LEMMA StreamTypeOK == StreamInv => TypeOK
<1> SUFFICES ASSUME StreamInv PROVE TypeOK
  OBVIOUS
<1> USE DEF StreamInv
<1>1. TickerTypeOK
  BY InvTypeOK
<1>2. attached \subseteq live
  <2>1. CASE ~Linked
    BY <2>1, Unlinked
  <2>2. CASE Linked
    <3>1. Listed \subseteq live /\ All \subseteq live /\ Part \subseteq All
      <4>1. Listed \subseteq live /\ All \subseteq live /\ decoder \in Decoder
        BY <2>2, ListedFacts DEF GraphInv
      <4>2. Part \subseteq All
        BY <4>1, Parts DEF Part, First, All, InStream
      <4> QED BY <4>1, <4>2
    <3>2. attached \subseteq Listed \cup Part
      BY DEF StageInv, Working
    <3> QED BY <3>1, <3>2
  <2> QED BY <2>1, <2>2
<1>3. started \subseteq CardFilters /\ device \in {"none", "runs", "ended", "lost"}
  BY DEF CardInv
<1> QED BY <1>1, <1>2, <1>3 DEF TypeOK, OwnerOK

\* Every variable of the stream has its type in every reachable state: nothing is
\* prepared that is not allocated, and there is no ticker thread between streams.
THEOREM StreamTypes == Spec => []TypeOK
  BY StreamAlways, StreamTypeOK, PTL

LEMMA StreamRunsPrepared == StreamInv => RunsOnlyPrepared
<1> SUFFICES ASSUME StreamInv PROVE RunsOnlyPrepared
  OBVIOUS
<1> USE DEF StreamInv
<1> DEFINE Starts == ToSet(execution_list) \cup ToSet(work) \cup ToSet(unschedulable)
<1>1. CASE ~Linked
  <2>1. Starts = {}
    BY <1>1, Unlinked, ElementsOfEmpty
  <2>2. Reachable = {}
    BY <2>1 DEF Reachable
  <2> QED BY <2>2 DEF RunsOnlyPrepared
<1>2. CASE Linked
  <2>1. Closed(Listed) /\ Listed \subseteq live /\ Listed \subseteq attached
    BY <1>2, ListedFacts
  <2>2. Starts \subseteq Listed /\ Starts \subseteq Filter
    <3>1. ToSet(execution_list) \subseteq Listed
      BY DEF StageInv
    <3>2. ToSet(work) \cup ToSet(unschedulable) \subseteq Listed
      <4>1. CASE tpc = "walk"
        BY <4>1 DEF VisitInv, Seen
      <4>2. CASE tpc # "walk"
        BY <4>2, ElementsOfEmpty DEF VisitInv
      <4> QED BY <4>1, <4>2
    <3>3. Starts \subseteq Filter
      BY ElementsOfSeq DEF Inv, GraphOK, WalkOK
    <3> QED BY <3>1, <3>2, <3>3
  <2>3. \A f \in Starts : Component(f) \subseteq Listed
    <3>1. GraphOK
      BY DEF Inv
    <3> HIDE DEF Starts
    <3> QED BY <2>1, <2>2, <3>1, ComponentLeast
  <2>4. Reachable \subseteq Listed
    BY <2>3 DEF Reachable
  <2>5. session
    BY <1>2 DEF GraphInv, Linked
  <2> QED BY <2>1, <2>4, <2>5 DEF RunsOnlyPrepared
<1> QED BY <1>1, <1>2

\* The ticker thread never comes to a filter that is not allocated and prepared,
\* although ms_ticker_attach prepares, and ms_ticker_detach releases, without the
\* lock, and the session is there whenever it can come to one that uses it.
THEOREM StreamRunsOnlyPrepared == Spec => []RunsOnlyPrepared
  BY StreamAlways, StreamRunsPrepared, PTL

LEMMA StreamOwnerKnows == StreamInv => OwnerKnowsGraph
<1> SUFFICES ASSUME StreamInv PROVE OwnerKnowsGraph
  OBVIOUS
<1> USE DEF StreamInv
<1>1. ASSUME opc \in OwnerPc \ {"none", "idle", "free", "stop", "join"}
      PROVE  /\ decoder \in live
             /\ outputs["rtprecv"] = <<decoder>> /\ outputs[decoder] = <<"dtmfgen">>
  <2>1. Linked
    BY <1>1 DEF OwnerPc, Linked
  <2>2. decoder \in Decoder /\ outputs = Wired(decoder) /\ All \subseteq live
    BY <2>1 DEF GraphInv
  <2>3. decoder \in All
    BY <2>2, Parts DEF All
  <2> QED BY <2>2, <2>3, WiredFacts
<1>2. ASSUME opc \in {"stop", "join", "none"}
      PROVE  outputs = NoLinks /\ execution_list = << >> /\ attached = {} /\ device = "none"
  BY <1>2, Unlinked DEF Linked
<1> QED BY <1>1, <1>2 DEF OwnerKnowsGraph, CardInv

\* The decoder that audio_stream_stop will unlink and free is the one in the
\* graph, the card's thread runs once and exactly while it is needed, and a
\* stopped stream leaves nothing behind.
THEOREM StreamOwnerKnowsGraph == Spec => []OwnerKnowsGraph
  BY StreamAlways, StreamOwnerKnows, PTL

\* A set with the first filter of a chain and, with a filter, those linked after
\* it has the whole chain.
LEMMA WholeChain ==
  ASSUME NEW c \in Seq(Filter), c # << >>, NEW C, c[1] \in C,
         \A f \in C \cap Filter : NextIn(c, f) \subseteq C
  PROVE  ToSet(c) \subseteq C
<1> DEFINE U == {n \in Nat : n + 1 <= Len(c) => c[n + 1] \in C}
<1>1. 0 \in U
  OBVIOUS
<1>2. ASSUME NEW n \in Nat, n \in U PROVE n + 1 \in U
  <2> SUFFICES ASSUME (n + 1) + 1 <= Len(c) PROVE c[(n + 1) + 1] \in C
    OBVIOUS
  <2>1. n + 1 \in 1..Len(c) - 1 /\ c[n + 1] \in C /\ c[n + 1] \in Filter
    BY <1>2
  <2>2. c[(n + 1) + 1] \in NextIn(c, c[n + 1])
    BY <2>1, NextInChain
  <2> QED BY <2>1, <2>2
<1> HIDE DEF U
<1>3. Nat \subseteq U
  BY <1>1, <1>2, Induction
<1>4. ASSUME NEW i \in 1..Len(c) PROVE c[i] \in C
  <2>1. i - 1 \in U /\ (i - 1) + 1 = i /\ i <= Len(c)
    BY <1>3
  <2> QED BY <2>1 DEF U
<1> QED BY <1>4 DEF ToSet

LEMMA SendFirst == SendChain # << >> /\ SendChain[1] = "soundread"
<1> DEFINE s1 == <<"soundread">>
           s2 == If(options.files, "resampler")
           s3 == If(options.ec, "ec")
           s4 == If(options.volume # "none", "volsend")
           s5 == <<"encoder", "rtpsend">>
<1>1. /\ s1 \in Seq(Filter) /\ s2 \in Seq(Filter) /\ s3 \in Seq(Filter) /\ s4 \in Seq(Filter)
      /\ s5 \in Seq(Filter) /\ Len(s1) = 1 /\ s1[1] = "soundread"
  <2>1. {"soundread", "resampler", "ec", "volsend", "encoder", "rtpsend"} \subseteq Role
        /\ Role \subseteq Filter
    BY FilterAssumption DEF Role
  <2> QED BY <2>1, MadeOfIf DEF MadeOf
<1>2. SendChain = s1 \o s2 \o s3 \o s4 \o s5
  BY DEF SendChain
<1> HIDE DEF s1, s2, s3, s4, s5
<1>3. Len(s1) > 0
  BY <1>1
<1>4. s1 \o s2 \in Seq(Filter) /\ Len(s1 \o s2) > 0 /\ (s1 \o s2)[1] = s1[1]
  BY <1>1, <1>3, FirstOfConcat
<1>5. s1 \o s2 \o s3 \in Seq(Filter) /\ Len(s1 \o s2 \o s3) > 0 /\ (s1 \o s2 \o s3)[1] = s1[1]
  BY <1>1, <1>4, FirstOfConcat
<1>6. /\ s1 \o s2 \o s3 \o s4 \in Seq(Filter) /\ Len(s1 \o s2 \o s3 \o s4) > 0
      /\ (s1 \o s2 \o s3 \o s4)[1] = s1[1]
  BY <1>1, <1>5, FirstOfConcat
<1>7. Len(s1 \o s2 \o s3 \o s4 \o s5) > 0 /\ (s1 \o s2 \o s3 \o s4 \o s5)[1] = s1[1]
  BY <1>1, <1>6, FirstOfConcat
<1> QED BY <1>1, <1>2, <1>7

LEMMA StreamBothRun == StreamInv => BothGraphsRun
<1> SUFFICES ASSUME StreamInv, opc = "up", PassOver, unschedulable = << >>
             PROVE  InStream(decoder) \subseteq done
  BY DEF BothGraphsRun
<1> USE DEF StreamInv
<1>1. Seen = done /\ tpc = "walk"
  BY ElementsOfEmpty DEF Seen, PassOver
<1>2. decoder \in Decoder /\ outputs = Wired(decoder) /\ Listed = All
  BY DEF GraphInv, Linked, Listed
<1>3. {"soundread", "rtprecv"} \subseteq done
  <2>1. ToSet(execution_list) = {"soundread", "rtprecv"} \cap All
    BY <1>2 DEF StageInv
  <2>2. {"soundread", "rtprecv"} \subseteq All
    BY <1>2, Parts DEF All
  <2> QED BY <1>1, <2>1, <2>2 DEF Inv, NothingForgotten
<1>4. \A f \in done \cap Filter : /\ NextIn(SendChain, f) \subseteq done
                                  /\ NextIn(RecvChain(decoder), f) \subseteq done
  BY <1>1, <1>2, WiredFacts DEF Inv, NothingForgotten
<1>5. ToSet(SendChain) \subseteq done
  <2>1. SendChain \in Seq(Filter) /\ SendChain # << >> /\ SendChain[1] \in done
    BY <1>3, SendFacts, SendFirst
  <2>2. \A f \in done \cap Filter : NextIn(SendChain, f) \subseteq done
    BY <1>4
  <2> QED BY ONLY <2>1, <2>2, WholeChain
<1>6. ToSet(RecvChain(decoder)) \subseteq done
  <2>1. RecvChain(decoder) \in Seq(Filter)
    BY <1>2, RecvFacts
  <2>2. RecvChain(decoder) # << >> /\ RecvChain(decoder)[1] = "rtprecv"
    <3>1. decoder \in Filter /\ "rtprecv" \in Filter /\ RecvRest \in Seq(Filter)
      BY <1>2, RestFacts, FilterAssumption DEF Role
    <3>2. RecvChain(decoder) = <<"rtprecv", decoder>> \o RecvRest
      BY <3>1, RecvSplit
    <3> QED BY <3>1, <3>2
  <2> QED BY <1>3, <1>4, <2>1, <2>2, WholeChain
<1> QED BY <1>5, <1>6 DEF InStream

\* In every tick that ends while the stream is up, every filter of both graphs
\* has run, the new decoder's too if rtprecv replaced it in that tick.
THEOREM StreamBothGraphsRun == Spec => []BothGraphsRun
  BY StreamAlways, StreamBothRun, PTL
=============================================================================
