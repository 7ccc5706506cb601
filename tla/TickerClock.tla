---------------------------- MODULE TickerClock ----------------------------
(***************************************************************************)
(* How the ticker thread keeps time (ms_ticker_run in msticker.c): after a *)
(* tick it adds the interval to s->time and sleeps until the time function *)
(* has advanced as much since s->orig.  The time function is the system's  *)
(* tick count, W bits wide, unless the capture filter of a sound card has  *)
(* replaced it, with ms_ticker_set_time_func and without the ticker's      *)
(* lock, by the card's own.                                                *)
(*                                                                         *)
(* A millisecond is a unit of time.  64-bit quantities are integers; the   *)
(* argument of Sleep has W bits.  The tick itself is MSTicker's.           *)
(***************************************************************************)
EXTENDS Integers

CONSTANTS
  W,         \* the width of a DWORD: 32 on the phone
  Interval,  \* s->interval
  Boot,      \* what GetTickCount may be when the thread is created
  MaxTime    \* bound: the milliseconds of a behaviour

ASSUME ClockAssumption ==
  /\ W \in Nat /\ MaxTime \in Nat /\ Interval \in Nat \ {0}
  /\ Boot \subseteq 0..2^W - 1

VARIABLES
  boot,      \* GetTickCount when the thread was created
  now,       \* the milliseconds since
  card,      \* winsnd_get_cur_time, from the bytes the card has captured
  func,      \* s->get_cur_time_ptr: "system", "card"
  data,      \* s->get_cur_time_data: "null", "card"
  orig,      \* s->orig
  time,      \* s->time
  opc,       \* the owner: "out", or its next store in ms_ticker_set_time_func
  arg,       \* the function it was last called with: "none" before
  tpc,       \* the thread
  start,     \* when the thread read the clock for the first time
  read,      \* the value of the time function that it read last
  sleep,     \* the argument of its last Sleep
  until      \* when that sleep is over

clocks == <<boot, now, card>>
shared == <<func, data, orig>>
owner  == <<opc, arg>>
thread == <<time, tpc, start, read, sleep, until>>
vars   == <<clocks, shared, owner, thread>>

DWord(n) == n % 2^W

\* The two time functions
TimeOf(f) == IF f = "card" THEN card ELSE DWord(boot + now)

\* The card's clock goes on from the streams of earlier calls.
Init ==
  /\ boot \in Boot /\ now = 0 /\ card \in {0, 1}
  /\ func = "system" /\ data = "null" /\ orig = 0 /\ time = 0
  /\ opc = "out" /\ arg = "none"
  /\ tpc = "begin" /\ start = 0 /\ read = 0 /\ sleep = 0 /\ until = 0

\* A millisecond; the card's clock advances by blocks and may lag behind.
Passes ==
  /\ now < MaxTime
  /\ now' = now + 1
  /\ card' \in {card, card + 1}
  /\ UNCHANGED <<boot, shared, owner, thread>>

----------------------------------------------------------------------------
(* ms_ticker_set_time_func, called by winsnd_read_preprocess with the card's *)
(* function and by winsnd_read_postprocess with NULL, the system's.          *)

\* Called by the preprocess of a capture filter, if the stream has one, and
\* again by its postprocess
Calls ==
  /\ opc = "out" /\ arg # "system"
  /\ arg' = IF arg = "none" THEN "card" ELSE "system"
  /\ opc' = "func"
  /\ UNCHANGED <<clocks, shared, thread>>

SetsFunc ==
  /\ opc = "func"
  /\ func' = arg
  /\ opc' = "data"
  /\ UNCHANGED <<clocks, data, orig, arg, thread>>

SetsData ==
  /\ opc = "data"
  /\ data' = IF arg = "card" THEN "card" ELSE "null"
  /\ opc' = "orig"
  /\ UNCHANGED <<clocks, func, orig, arg, thread>>

SetsOrigin ==
  /\ opc = "orig"
  /\ orig' = TimeOf(arg) - time
  /\ opc' = "out"
  /\ UNCHANGED <<clocks, func, data, arg, thread>>

----------------------------------------------------------------------------
(* The thread. *)

\* The call s->get_cur_time_ptr(s->get_cur_time_data): the card's function
\* dereferences its argument.
ReadsClock(next) ==
  /\ read' = TimeOf(func)
  /\ tpc' = IF func = "card" /\ data = "null" THEN "crash" ELSE next

ReadsFirst ==
  /\ tpc = "begin"
  /\ ReadsClock("begun")
  /\ start' = now
  /\ UNCHANGED <<clocks, shared, owner, time, sleep, until>>

StoresOrigin ==
  /\ tpc = "begun"
  /\ orig' = read
  /\ tpc' = "tick"
  /\ UNCHANGED <<clocks, func, data, owner, time, start, read, sleep, until>>

\* run_graphs, which may take any time
Tick ==
  /\ tpc = "tick"
  /\ time' = time + Interval
  /\ tpc' = "wait"
  /\ UNCHANGED <<clocks, shared, owner, start, read, sleep, until>>

Reads ==
  /\ tpc = "wait"
  /\ ReadsClock("compare")
  /\ UNCHANGED <<clocks, shared, owner, time, start, sleep, until>>

diff == time - (read - orig)

GoesOnEarly ==    \* mutant: it goes on one interval early
  /\ tpc = "compare" /\ diff <= Interval
  /\ tpc' = "tick"
  /\ UNCHANGED <<clocks, shared, owner, time, start, read, sleep, until>>

GoesOn ==
  /\ tpc = "compare" /\ diff <= 0
  /\ tpc' = "tick"
  /\ UNCHANGED <<clocks, shared, owner, time, start, read, sleep, until>>

SleepsTwice ==    \* mutant: it sleeps an interval more
  /\ tpc = "compare" /\ diff > 0
  /\ sleep' = DWord(diff + Interval)
  /\ until' = now + sleep'
  /\ tpc' = "asleep"
  /\ UNCHANGED <<clocks, shared, owner, time, start, read>>

Sleeps ==
  /\ tpc = "compare" /\ diff > 0
  /\ sleep' = DWord(diff)
  /\ until' = now + sleep'
  /\ tpc' = "asleep"
  /\ UNCHANGED <<clocks, shared, owner, time, start, read>>

Wakes ==
  /\ tpc = "asleep" /\ now >= until
  /\ tpc' = "wait"
  /\ UNCHANGED <<clocks, shared, owner, time, start, read, sleep, until>>

Next ==
  \/ Passes
  \/ Calls \/ SetsFunc \/ SetsData \/ SetsOrigin
  \/ ReadsFirst \/ StoresOrigin \/ Tick \/ Reads \/ GoesOn \/ Sleeps \/ Wakes

Spec == Init /\ [][Next]_vars

----------------------------------------------------------------------------
(* Correctness. *)

\* The thread never sleeps longer than the time of one tick: its Sleep is until
\* the next tick, and no other thread can wake it.
SleepIsShort == tpc = "asleep" => sleep <= Interval

\* The same of a stream that has no card to capture from
SystemSleepIsShort == arg = "none" => SleepIsShort

\* The thread does not tick faster than time passes, however late some ticks
\* were; changing to the card's clock while it waits brings at most one tick
\* forward.
TicksAreEarned ==
  tpc = "tick" /\ arg # "system" =>
    time <= now - start + (IF arg = "card" THEN Interval ELSE 0)
============================================================================
