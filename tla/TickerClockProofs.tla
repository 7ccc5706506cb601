------------------------- MODULE TickerClockProofs -------------------------
(***************************************************************************)
(* Theorems about the time of the ticker thread, for every interval, width *)
(* and time of boot, as long as GetTickCount does not wrap while the       *)
(* thread runs.  It is an assumption that the code makes too: at a wrap    *)
(* the thread would take the difference of two counts for a time of its    *)
(* own.                                                                    *)
(***************************************************************************)
EXTENDS TickerClock, TLAPS

\* The provers know no power: that 2^W is a number is said here.
NoWrap ==
  /\ 2^W \in Nat
  /\ \A b \in Boot : b \in Nat /\ b > 0 /\ b + MaxTime < 2^W

\* What the types come to
Types ==
  /\ boot \in Boot /\ boot \in Nat /\ boot > 0
  /\ now \in 0..MaxTime /\ card \in 0..now + 1
  /\ start \in 0..now /\ orig \in Int /\ time \in Nat /\ read \in Nat
  /\ sleep \in Int /\ until \in Int
  /\ opc \in {"out", "func", "data", "orig"} /\ arg \in {"none", "card", "system"}
  /\ func \in {"system", "card"}
  /\ tpc \in {"begin", "begun", "tick", "wait", "compare", "asleep", "crash"}

\* How far ms_ticker_set_time_func has come with the card's function
OwnerInv ==
  /\ arg = "none" => opc = "out"
  /\ arg # "system" =>
       (func = "card" <=> arg = "card" /\ opc # "func")

\* The card's function and the origin that belongs to it are both set
Changed == arg = "card" /\ opc = "out"

Started == tpc \in {"tick", "wait", "compare", "asleep"}

\* Until then, time is measured from the first reading, of either clock
BeforeInv ==
  ~Changed /\ arg # "system" =>
    /\ Started => time <= now - start + (IF tpc = "tick" THEN 0 ELSE Interval)
    /\ Started /\ func = "system" => orig = boot + start
    /\ Started /\ func = "card" => card - orig <= now - start
    /\ tpc = "compare" => read - orig <= now - start
    /\ tpc = "compare" /\ arg = "none" => time <= read - orig + Interval
    /\ tpc = "asleep" /\ arg = "none" => sleep <= Interval

\* And then from the card's, which may have been set forward by an interval; a
\* reading of the system's clock is compared with it once
AfterInv ==
  Changed =>
    /\ Started => card - orig <= now - start + Interval
    /\ tpc = "tick" => time <= now - start + Interval
    /\ tpc = "compare" => read <= card \/ time <= now - start + Interval

FirstInv ==
  /\ tpc \in {"begin", "begun"} => time = 0
  /\ tpc = "begun" /\ arg # "system" =>
       read = boot + start \/ (func = "card" /\ card - read <= now - start)

ClockInv == Types /\ OwnerInv /\ BeforeInv /\ AfterInv /\ FirstInv

----------------------------------------------------------------------------
(* Arithmetic. *)

LEMMA Remainder ==
  ASSUME NEW n \in Nat, NEW k \in Nat, k > 0
  PROVE  n % k \in Nat /\ n % k <= n /\ (n < k => n % k = n)
  OBVIOUS

\* Without a wrap the system's clock is the time since boot.
LEMMA SystemTime ==
  ASSUME NoWrap, boot \in Boot, now \in 0..MaxTime
  PROVE  TimeOf("system") = boot + now
<1>1. boot + now \in Nat /\ boot + now < 2^W /\ 2^W \in Nat /\ 2^W > 0
  BY ClockAssumption DEF NoWrap
<1>2. (boot + now) % 2^W = boot + now
  <2> DEFINE k == 2^W
  <2>1. k \in Nat /\ k > 0 /\ boot + now < k
    BY <1>1
  <2> HIDE DEF k
  <2>2. (boot + now) % k = boot + now
    BY <1>1, <2>1, Remainder
  <2> QED BY <2>2 DEF k
<1> QED BY <1>2 DEF TimeOf, DWord

----------------------------------------------------------------------------
(* The invariant is inductive: a lemma per process. *)

LEMMA ClockInit == NoWrap /\ Init => ClockInv
  BY ClockAssumption
  DEF NoWrap, Init, ClockInv, Types, OwnerInv, BeforeInv, AfterInv, FirstInv,
      Changed, Started

LEMMA ClockPasses ==
  ASSUME NoWrap, ClockInv, Passes
  PROVE  ClockInv'
<1>1. /\ now < MaxTime /\ now' = now + 1
      /\ card' = card \/ card' = card + 1
      /\ boot' = boot /\ func' = func /\ data' = data /\ orig' = orig
      /\ opc' = opc /\ arg' = arg /\ time' = time /\ tpc' = tpc
      /\ start' = start /\ read' = read /\ sleep' = sleep /\ until' = until
  BY DEF Passes, shared, owner, thread
<1>2. Types
  BY DEF ClockInv
<1>3. /\ MaxTime \in Nat /\ Interval \in Nat
      /\ boot \in Int /\ now \in Int /\ card \in Int /\ start \in Int
      /\ orig \in Int /\ time \in Int /\ read \in Int /\ sleep \in Int
  BY <1>2, ClockAssumption DEF Types
<1>4. Types'
  BY <1>1, <1>2, <1>3 DEF Types
<1>5. OwnerInv'
  BY <1>1 DEF ClockInv, OwnerInv
<1>6. BeforeInv'
  BY <1>1, <1>3 DEF ClockInv, BeforeInv, Changed, Started
<1>7. AfterInv'
  BY <1>1, <1>3 DEF ClockInv, AfterInv, Changed, Started
<1>8. FirstInv'
  BY <1>1, <1>3 DEF ClockInv, FirstInv
<1> QED BY <1>4, <1>5, <1>6, <1>7, <1>8 DEF ClockInv

LEMMA ClockOwner ==
  ASSUME NoWrap, ClockInv, Calls \/ SetsFunc \/ SetsData \/ SetsOrigin
  PROVE  ClockInv'
<1> USE ClockAssumption DEF ClockAssumption, clocks, shared, owner, thread
<1>1. CASE Calls
  BY <1>1
  DEF Calls, ClockInv, Types, OwnerInv, BeforeInv, AfterInv, FirstInv,
      Changed, Started
<1>2. CASE SetsFunc
  BY <1>2
  DEF SetsFunc, ClockInv, Types, OwnerInv, BeforeInv, AfterInv, FirstInv,
      Changed, Started
<1>3. CASE SetsData
  BY <1>3
  DEF SetsData, ClockInv, Types, OwnerInv, BeforeInv, AfterInv, FirstInv,
      Changed, Started
<1>4. CASE SetsOrigin
  <2>1. CASE arg = "card"
    <3>1. orig' = card - time
      BY <1>4, <2>1 DEF SetsOrigin, TimeOf
    <3> QED BY <1>4, <2>1, <3>1
        DEF SetsOrigin, ClockInv, Types, OwnerInv, BeforeInv, AfterInv,
            FirstInv, Changed, Started
  <2>2. CASE arg # "card"
    <3>1. arg = "system" /\ TimeOf(arg) = boot + now
      BY <1>4, <2>2, SystemTime DEF SetsOrigin, ClockInv, Types, OwnerInv
    <3> QED BY <1>4, <3>1
        DEF SetsOrigin, ClockInv, Types, OwnerInv, BeforeInv, AfterInv,
            FirstInv, Changed, Started
  <2> QED BY <2>1, <2>2
<1> QED BY <1>1, <1>2, <1>3, <1>4

\* A reading of the clock, by which a card's function without its card stops
\* the thread
LEMMA ClockReading ==
  ASSUME NoWrap, ClockInv, NEW next, ReadsClock(next)
  PROVE  /\ func = "system" => read' = boot + now
         /\ func = "card" => read' = card
         /\ read' \in Nat
         /\ tpc' \in {"crash", next}
<1>1. boot \in Boot /\ boot \in Nat /\ now \in 0..MaxTime /\ now \in Nat
      /\ card \in Nat /\ func \in {"system", "card"}
  BY ClockAssumption DEF ClockInv, Types
<1>2. TimeOf("system") = boot + now /\ TimeOf("card") = card
  BY <1>1, SystemTime DEF TimeOf
<1> QED BY <1>1, <1>2 DEF ReadsClock

LEMMA ClockReads ==
  ASSUME NoWrap, ClockInv, ReadsFirst \/ Reads
  PROVE  ClockInv'
<1> USE ClockAssumption DEF clocks, shared, owner
<1>1. CASE ReadsFirst
  <2>1. /\ func = "system" => read' = boot + now
        /\ func = "card" => read' = card
        /\ read' \in Nat
        /\ tpc' \in {"crash", "begun"}
    BY <1>1, ClockReading DEF ReadsFirst
  <2>2. ClockInv
    OBVIOUS
  <2>3. /\ UNCHANGED <<boot, now, card, func, data, orig, opc, arg>>
        /\ UNCHANGED <<time, sleep, until>>
        /\ start' = now
    BY <1>1 DEF ReadsFirst
  <2>4. tpc = "begin"
    BY <1>1 DEF ReadsFirst
  <2>5. Types' /\ OwnerInv'
    BY <2>1, <2>2, <2>3 DEF ClockInv, Types, OwnerInv
  <2>6. BeforeInv'
    BY <2>1, <2>2, <2>3, <2>4
    DEF ClockInv, Types, OwnerInv, BeforeInv, Changed, Started
  <2>7. AfterInv'
    BY <2>1, <2>2, <2>3, <2>4
    DEF ClockInv, Types, OwnerInv, BeforeInv, AfterInv, Changed, Started
  <2>8. FirstInv'
    <3>1. time = 0
      BY <2>2, <2>4 DEF ClockInv, FirstInv
    <3>2. CASE func = "system"
      BY <2>1, <2>3, <3>1, <3>2 DEF FirstInv
    <3>3. CASE func = "card"
      <4>1. card \in Int /\ now \in Int
        BY <2>2 DEF ClockInv, Types
      <4> QED BY <2>1, <2>3, <3>1, <3>3, <4>1 DEF FirstInv
    <3> QED BY <2>2, <3>2, <3>3 DEF ClockInv, Types
  <2> QED BY <2>5, <2>6, <2>7, <2>8 DEF ClockInv
<1>2. CASE Reads
  <2>1. /\ func = "system" => read' = boot + now
        /\ func = "card" => read' = card
        /\ read' \in Nat
        /\ tpc' \in {"crash", "compare"}
    BY <1>2, ClockReading DEF Reads
  <2>2. ClockInv
    OBVIOUS
  <2>3. /\ UNCHANGED <<boot, now, card, func, data, orig, opc, arg>>
        /\ UNCHANGED <<time, sleep, until>>
        /\ start' = start
    BY <1>2 DEF Reads
  <2>4. tpc = "wait"
    BY <1>2 DEF Reads
  <2>5. Types' /\ OwnerInv'
    BY <2>1, <2>2, <2>3 DEF ClockInv, Types, OwnerInv
  <2>6. BeforeInv'
    <3>1. CASE func = "system"
      BY <2>1, <2>2, <2>3, <2>4, <3>1
      DEF ClockInv, Types, BeforeInv, Changed, Started
    <3>2. CASE func = "card"
      BY <2>1, <2>2, <2>3, <2>4, <3>2
      DEF ClockInv, Types, OwnerInv, BeforeInv, Changed, Started
    <3> QED BY <2>2, <3>1, <3>2 DEF ClockInv, Types
  <2>7. AfterInv'
    BY <2>1, <2>2, <2>3, <2>4
    DEF ClockInv, Types, OwnerInv, BeforeInv, AfterInv, Changed, Started
  <2>8. FirstInv'
    BY <2>1, <2>2, <2>3, <2>4
    DEF ClockInv, Types, OwnerInv, FirstInv
  <2> QED BY <2>5, <2>6, <2>7, <2>8 DEF ClockInv
<1> QED BY <1>1, <1>2

LEMMA ClockThread ==
  ASSUME NoWrap, ClockInv, StoresOrigin \/ Tick \/ GoesOn \/ Sleeps \/ Wakes
  PROVE  ClockInv'
<1> USE ClockAssumption DEF clocks, shared, owner
<1>1. CASE StoresOrigin
  BY <1>1
  DEF StoresOrigin, ClockInv, Types, OwnerInv, BeforeInv, AfterInv, FirstInv,
      Changed, Started
<1>2. CASE Tick
  BY <1>2
  DEF Tick, ClockInv, Types, OwnerInv, BeforeInv, AfterInv, FirstInv,
      Changed, Started
<1>3. CASE GoesOn
  BY <1>3
  DEF GoesOn, diff, ClockInv, Types, OwnerInv, BeforeInv, AfterInv, FirstInv,
      Changed, Started
<1>4. CASE Sleeps
  <2>1. diff \in Nat /\ diff = time - (read - orig)
    BY <1>4 DEF Sleeps, diff, ClockInv, Types
  <2>2. sleep' \in Nat /\ sleep' <= diff
    <3> DEFINE k == 2^W
    <3>1. k \in Nat /\ k > 0
      BY DEF NoWrap, ClockInv, Types
    <3> HIDE DEF k
    <3>2. diff % k \in Nat /\ diff % k <= diff
      BY <2>1, <3>1, Remainder
    <3>3. sleep' = diff % k
      BY <1>4 DEF k, Sleeps, DWord
    <3> QED BY <3>2, <3>3
  <2> QED BY <1>4, <2>1, <2>2
      DEF Sleeps, ClockInv, Types, OwnerInv, BeforeInv, AfterInv, FirstInv,
          Changed, Started
<1>5. CASE Wakes
  BY <1>5
  DEF Wakes, ClockInv, Types, OwnerInv, BeforeInv, AfterInv, FirstInv,
      Changed, Started
<1> QED BY <1>1, <1>2, <1>3, <1>4, <1>5

\* ClockInv is an inductive invariant of the clock.
THEOREM ClockInvariant == NoWrap => (Spec => []ClockInv)
<1> SUFFICES ASSUME NoWrap PROVE Spec => []ClockInv
  OBVIOUS
<1>1. Init => ClockInv
  BY ClockInit
<1>2. ClockInv /\ [Next]_vars => ClockInv'
  <2>1. CASE UNCHANGED vars
    BY <2>1
    DEF vars, clocks, shared, owner, thread, ClockInv, Types, OwnerInv,
        BeforeInv, AfterInv, FirstInv, Changed, Started
  <2>2. ASSUME ClockInv, Next PROVE ClockInv'
    BY <2>2, ClockPasses, ClockOwner, ClockReads, ClockThread DEF Next
  <2> QED BY <2>1, <2>2
<1> QED BY <1>1, <1>2, PTL DEF Spec

\* Without a card to capture from, the argument of Sleep in ms_ticker_run is
\* never more than the interval.
THEOREM SleepIsTheRestOfATick == NoWrap => (Spec => []SystemSleepIsShort)
<1>1. ClockInv => SystemSleepIsShort
  BY ClockAssumption
  DEF ClockInv, Types, OwnerInv, BeforeInv, Changed, SystemSleepIsShort,
      SleepIsShort
<1> QED BY <1>1, ClockInvariant, PTL

\* The loop of ms_ticker_run does not tick faster than time passes, and a change
\* to the card's clock in ms_ticker_set_time_func gains at most one interval.
THEOREM TicksFollowTheClock == NoWrap => (Spec => []TicksAreEarned)
<1>1. ClockInv => TicksAreEarned
  BY ClockAssumption
  DEF ClockInv, Types, OwnerInv, BeforeInv, AfterInv, Changed, Started,
      TicksAreEarned
<1> QED BY <1>1, ClockInvariant, PTL
============================================================================
