---------------------------- MODULE RtpScheduler ----------------------------
(***************************************************************************)
(* The scheduler of oRTP (scheduler.c), the wait wp of its sessions    *)
(* (rtpsession.c) and session_set_select (sessionset.c), on the condition  *)
(* variables of port.c for Windows, which are auto-reset events.           *)
(*                                                                         *)
(* Threads: the scheduler's; one per blocking session, which sends on it;  *)
(* and one that polls the other sessions: it selects and sends on those    *)
(* that are reported.  The send side is modelled; the receive side is the  *)
(* same code on rcv.wp and r_sessions.                                     *)
(*                                                                         *)
(* A mask is a row of 32-bit words; setting or clearing a bit loads a word *)
(* and stores it, and threads that do so hold different locks.             *)
(***************************************************************************)
EXTENDS Integers, FiniteSets

CONSTANTS
  Waiter,       \* sessions in blocking mode, each with a thread of its own
  Polled,       \* sessions of the thread that calls session_set_select
  NoSession,    \* the value of a thread's session outside a call
  max_sessions, \* positions in a SessionSet
  ClockRange    \* bound: time values; uint32_t time is counted modulo ClockRange

Session == Waiter \cup Polled
Pos     == 0..max_sessions - 1
Time    == 0..ClockRange - 1
Thread  == Waiter \cup {"poll", "sched"}

ASSUME SessionAssumption ==
  /\ Waiter \cap Polled = {} /\ IsFiniteSet(Session)
  /\ {"poll", "sched", "free", NoSession} \cap Session = {}
ASSUME RangeAssumption   == max_sessions \in Nat \ {0} /\ ClockRange \in Nat \ {0}

VARIABLES
  packed,       \* the positions in use are all in one word of the masks
  others,       \* the positions of the application's other sessions
  time_,        \* sched->time_
  list,         \* the sessions in sched->list, those with IN_SCHEDULER
  mask_pos,     \* session->mask_pos
  all_sessions, \* the positions taken
  w_sessions,   \* the positions of the sessions to report to select
  wp,           \* session->snd.wp.time, or Asleep while wp.wakeup is FALSE
  wp_lock,      \* who holds session->snd.wp.lock
  wp_event,     \* session->snd.wp.cond: an event that stays set
  lock,         \* who holds sched->lock
  unblock,      \* sched->unblock_select_cond: an event that stays set
  pc,           \* where each thread is
  loaded,       \* the bits of the mask word a thread has loaded
  cur,          \* the session a thread is adding, sending on or reporting
  todo,         \* sessions the scheduler has still to process in this tick
  words,        \* words session_set_and has still to look at
  found         \* the sessions select has found

layout   == <<packed, others>>
sessions == <<list, mask_pos, all_sessions>>
vars == <<layout, time_, sessions, w_sessions, wp, wp_lock, wp_event, lock,
          unblock, pc, loaded, cur, todo, words, found>>

Free   == "free"
Asleep == -1

----------------------------------------------------------------------------
(* Pieces. *)

\* RTP_TIMESTAMP_IS_NEWER_THAN: equal, or less than half the range ahead
Newer(t1, t2) == (t1 - t2) % ClockRange < ClockRange \div 2

WordOf(p) == IF packed THEN Pos ELSE {p}
Words     == {WordOf(p) : p \in Pos}

\* The two halves of |= and &= on a word of the mask
Loads(t, word)     == loaded' = [loaded EXCEPT ![t] = w_sessions \cap word]
Stores(t, word, bits) ==
  /\ w_sessions' = (w_sessions \ word) \cup bits
  /\ loaded' = [loaded EXCEPT ![t] = {}]
  /\ cur' = [cur EXCEPT ![t] = NoSession]

StoresSet(t)   == LET p == mask_pos[cur[t]] IN Stores(t, WordOf(p), loaded[t] \cup {p})
StoresClear(t) == LET p == mask_pos[cur[t]] IN Stores(t, WordOf(p), loaded[t] \ {p})

Goes(t, from, to) == pc[t] = from /\ pc' = [pc EXCEPT ![t] = to]

Own(t) == IF t \in Waiter THEN {t} ELSE Polled

\* layout does not change; others is bounded to at most one position.
Init ==
  /\ packed \in BOOLEAN
  /\ others \in {{}, {0}}
  /\ time_ = 0
  /\ list = {}
  /\ mask_pos = [s \in Session |-> 0]
  /\ all_sessions = others
  /\ w_sessions = {}
  /\ wp = [s \in Session |-> Asleep]
  /\ wp_lock = [s \in Session |-> Free]
  /\ wp_event = [s \in Session |-> FALSE]
  /\ lock = Free
  /\ unblock = FALSE
  /\ pc = [t \in Thread |-> IF t = "sched" THEN "tick" ELSE "idle"]
  /\ loaded = [t \in Thread |-> {}]
  /\ cur = [t \in Thread |-> NoSession]
  /\ todo = {}
  /\ words = {}
  /\ found = {}

----------------------------------------------------------------------------
(* rtp_session_set_scheduling_mode(TRUE) and rtp_session_uninit. *)

Lowest(S) == CHOOSE p \in S : \A q \in S : p <= q

\* rtp_scheduler_add_session.  A session that has not started is reported.
Adds(t, s) ==
  /\ pc[t] = "idle" /\ lock = Free
  /\ s \in Own(t) \ list
  /\ list' = list \cup {s}
  /\ \/ \E p \in Pos \ all_sessions :
          /\ p = Lowest(Pos \ all_sessions)
          /\ mask_pos' = [mask_pos EXCEPT ![s] = p]
          /\ all_sessions' = all_sessions \cup {p}
          /\ Loads(t, WordOf(p))
          /\ cur' = [cur EXCEPT ![t] = s]
          /\ Goes(t, "idle", "added")
          /\ lock' = t
     \/ \* every position is taken
        /\ Pos \subseteq all_sessions
        /\ UNCHANGED <<mask_pos, all_sessions, loaded, cur, pc, lock>>
  /\ UNCHANGED <<time_, w_sessions, wp, wp_lock, wp_event, unblock, todo, words, found>>

Added(t) ==
  /\ Goes(t, "added", "idle")
  /\ StoresSet(t)
  /\ lock' = Free
  /\ UNCHANGED <<time_, sessions, wp, wp_lock, wp_event, unblock, todo,
                 words, found>>

GivesBackFirst(t, s) ==    \* mutant: position 0 is given back, whatever the session had
  /\ pc[t] = "idle" /\ lock = Free
  /\ s \in Own(t) \cap list
  /\ list' = list \ {s}
  /\ all_sessions' = all_sessions \ {0}
  /\ mask_pos' = [mask_pos EXCEPT ![s] = 0]
  /\ wp' = [wp EXCEPT ![s] = Asleep]
  /\ wp_event' = [wp_event EXCEPT ![s] = FALSE]
  /\ UNCHANGED <<time_, w_sessions, wp_lock, lock, unblock, pc, loaded, cur,
                 todo, words, found>>

\* rtp_scheduler_remove_session, called to destroy the session: its bit in
\* w_sessions stays.  Its name stands for the next session that is made.
Removes(t, s) ==
  /\ pc[t] = "idle" /\ lock = Free
  /\ s \in Own(t) \cap list
  /\ list' = list \ {s}
  /\ all_sessions' = all_sessions \ {mask_pos[s]}
  /\ mask_pos' = [mask_pos EXCEPT ![s] = 0]
  /\ wp' = [wp EXCEPT ![s] = Asleep]
  /\ wp_event' = [wp_event EXCEPT ![s] = FALSE]
  /\ UNCHANGED <<time_, w_sessions, wp_lock, lock, unblock, pc, loaded, cur,
                 todo, words, found>>

----------------------------------------------------------------------------
(* __rtp_session_sendm_with_ts, on a scheduled session. *)

SendsUnlocked(t, s) ==    \* mutant: the bit is cleared after the wait point is unlocked
  /\ pc[t] = IF t \in Waiter THEN "idle" ELSE "handle"
  /\ s \in list /\ s \in (IF t \in Waiter THEN {t} ELSE found)
  /\ wp_lock[s] = Free
  /\ cur' = [cur EXCEPT ![t] = s]
  /\ \E packet_time \in Time :
       \/ /\ Newer(packet_time, time_) /\ packet_time # time_
          /\ wp' = [wp EXCEPT ![s] = packet_time]
          /\ \/ /\ t \in Waiter
                /\ pc' = [pc EXCEPT ![t] = "sleep"]
                /\ UNCHANGED <<wp_lock, loaded>>
             \/ /\ t \notin Waiter
                /\ pc' = [pc EXCEPT ![t] = "clear"]
                /\ UNCHANGED wp_lock
                /\ Loads(t, WordOf(mask_pos[s]))
       \/ /\ ~(Newer(packet_time, time_) /\ packet_time # time_)
          /\ pc' = [pc EXCEPT ![t] = "set"]
          /\ wp_lock' = [wp_lock EXCEPT ![s] = t]
          /\ Loads(t, WordOf(mask_pos[s]))
          /\ UNCHANGED wp
  /\ UNCHANGED <<time_, sessions, w_sessions, wp_event, lock, unblock, todo, words, found>>

\* The wait point is locked and the packet's time compared with the clock.  In
\* blocking mode the caller sleeps on the wait point, otherwise it clears the
\* session's bit at once; a packet that is late sets it.
Sends(t, s) ==
  /\ pc[t] = IF t \in Waiter THEN "idle" ELSE "handle"
  /\ s \in list /\ s \in (IF t \in Waiter THEN {t} ELSE found)
  /\ wp_lock[s] = Free
  /\ cur' = [cur EXCEPT ![t] = s]
  /\ \E packet_time \in Time :
       \/ /\ Newer(packet_time, time_) /\ packet_time # time_
          /\ wp' = [wp EXCEPT ![s] = packet_time]
          /\ \/ /\ t \in Waiter
                /\ pc' = [pc EXCEPT ![t] = "sleep"]
                /\ UNCHANGED <<wp_lock, loaded>>
             \/ /\ t \notin Waiter
                /\ pc' = [pc EXCEPT ![t] = "clear"]
                /\ wp_lock' = [wp_lock EXCEPT ![s] = t]
                /\ Loads(t, WordOf(mask_pos[s]))
       \/ /\ ~(Newer(packet_time, time_) /\ packet_time # time_)
          /\ pc' = [pc EXCEPT ![t] = "set"]
          /\ wp_lock' = [wp_lock EXCEPT ![s] = t]
          /\ Loads(t, WordOf(mask_pos[s]))
          /\ UNCHANGED wp
  /\ UNCHANGED <<time_, sessions, w_sessions, wp_event, lock, unblock, todo, words, found>>

\* WIN_cond_wait on the wait point: unlock, wait, lock again
WakesUp(t) ==
  /\ Goes(t, "sleep", "woken")
  /\ wp_event[t]
  /\ wp_event' = [wp_event EXCEPT ![t] = FALSE]
  /\ UNCHANGED <<time_, sessions, w_sessions, wp, wp_lock, lock, unblock, loaded, cur,
                 todo, words, found>>

LocksAgain(t) ==
  /\ Goes(t, "woken", "clear")
  /\ wp_lock[t] = Free
  /\ wp_lock' = [wp_lock EXCEPT ![t] = t]
  /\ Loads(t, WordOf(mask_pos[t]))
  /\ UNCHANGED <<time_, sessions, w_sessions, wp, wp_event, lock, unblock, cur, todo,
                 words, found>>

\* The bit is written, the wait point unlocked and the packet sent.
Sent(t) ==
  /\ \/ pc[t] = "clear" /\ StoresClear(t)
     \/ pc[t] = "set" /\ StoresSet(t)
  /\ pc' = [pc EXCEPT ![t] = IF t \in Waiter THEN "idle" ELSE "handle"]
  /\ wp_lock' = [wp_lock EXCEPT ![cur[t]] = Free]
  /\ found' = IF t \in Waiter THEN found ELSE found \ {cur[t]}
  /\ UNCHANGED <<time_, sessions, wp, wp_event, lock, unblock, todo, words>>

----------------------------------------------------------------------------
(* session_set_select, and what the polling thread does with its result. *)

Watched == Polled \cap list

\* The lock is taken, at first or after the wait, and the masks are compared
\* word by word.
Selects ==
  /\ Watched # {}
  /\ Goes("poll", "idle", "and") \/ Goes("poll", "unblocked", "and")
  /\ lock = Free
  /\ lock' = "poll"
  /\ words' = Words
  /\ found' = {}
  /\ UNCHANGED <<time_, sessions, w_sessions, wp, wp_lock, wp_event, unblock, loaded,
                 cur, todo>>

\* session_set_and, from the first word to the last: a word is loaded ...
Word == WordOf(Lowest(UNION words))

And ==
  /\ Goes("poll", "and", "and_not")
  /\ words # {}
  /\ Loads("poll", Word)
  /\ found' = found \cup {s \in Watched : mask_pos[s] \in w_sessions \cap Word}
  /\ UNCHANGED <<time_, sessions, w_sessions, wp, wp_lock, wp_event, lock, unblock,
                 cur, todo, words>>

\* ... and stored without the sessions found.
AndNot ==
  /\ Goes("poll", "and_not", "and")
  /\ Stores("poll", Word, loaded["poll"] \ {mask_pos[s] : s \in found})
  /\ words' = words \ {Word}
  /\ UNCHANGED <<time_, sessions, wp, wp_lock, wp_event, lock, unblock, 
                 todo, found>>

\* The select returns, or waits for the scheduler's next tick.
Selected ==
  /\ words = {} /\ lock' = Free
  /\ \/ found # {} /\ Goes("poll", "and", "handle")
     \/ found = {} /\ Goes("poll", "and", "blocked")
  /\ UNCHANGED <<time_, sessions, w_sessions, wp, wp_lock, wp_event, unblock, loaded,
                 cur, todo, words, found>>

Unblocked ==
  /\ Goes("poll", "blocked", "unblocked")
  /\ unblock
  /\ unblock' = FALSE
  /\ UNCHANGED <<time_, sessions, w_sessions, wp, wp_lock, wp_event, lock, loaded, cur,
                 todo, words, found>>

\* Every session that was reported has been sent on.
Handled ==
  /\ Goes("poll", "handle", "idle")
  /\ found = {}
  /\ UNCHANGED <<time_, sessions, w_sessions, wp, wp_lock, wp_event, lock, unblock,
                 loaded, cur, todo, words, found>>

----------------------------------------------------------------------------
(* rtp_scheduler_schedule: one tick per timer interval. *)

TicksUnlocked ==    \* mutant: the list is read without the lock
  /\ Goes("sched", "tick", "process")
  /\ todo' = list
  /\ UNCHANGED <<time_, sessions, w_sessions, wp, wp_lock, wp_event, lock, unblock, loaded,
                 cur, words, found>>

Ticks ==
  /\ Goes("sched", "tick", "process")
  /\ lock = Free
  /\ lock' = "sched"
  /\ todo' = list
  /\ UNCHANGED <<time_, sessions, w_sessions, wp, wp_lock, wp_event, unblock, loaded,
                 cur, words, found>>

Due(s) == wp[s] # Asleep /\ Newer(time_, wp[s])

PassesSignalling(s) ==    \* mutant: every session in the list is signalled
  /\ pc["sched"] = "process"
  /\ s \in todo /\ wp_lock[s] = Free
  /\ ~Due(s)
  /\ todo' = todo \ {s}
  /\ wp_event' = [wp_event EXCEPT ![s] = TRUE]
  /\ UNCHANGED <<time_, sessions, w_sessions, wp, wp_lock, lock, unblock, pc,
                 loaded, cur, words, found>>

\* rtp_session_process on a session with nothing due
Passes(s) ==
  /\ pc["sched"] = "process"
  /\ s \in todo /\ wp_lock[s] = Free
  /\ ~Due(s)
  /\ todo' = todo \ {s}
  /\ UNCHANGED <<time_, sessions, w_sessions, wp, wp_lock, wp_event, lock, unblock, pc,
                 loaded, cur, words, found>>

\* rtp_session_process on a session whose time has come
Reports(s) ==
  /\ Goes("sched", "process", "report")
  /\ s \in todo /\ wp_lock[s] = Free
  /\ Due(s)
  /\ wp' = [wp EXCEPT ![s] = Asleep]
  /\ wp_lock' = [wp_lock EXCEPT ![s] = "sched"]
  /\ cur' = [cur EXCEPT !["sched"] = s]
  /\ todo' = todo \ {s}
  /\ Loads("sched", WordOf(mask_pos[s]))
  /\ UNCHANGED <<time_, sessions, w_sessions, wp_event, lock, unblock, words, found>>

ReportedSilently ==    \* mutant: the sender is not woken
  /\ Goes("sched", "report", "process")
  /\ StoresSet("sched")
  /\ wp_lock' = [wp_lock EXCEPT ![cur["sched"]] = Free]
  /\ UNCHANGED <<time_, sessions, wp, wp_event, lock, unblock, todo, words, found>>

Reported ==
  /\ Goes("sched", "report", "process")
  /\ StoresSet("sched")
  /\ wp_event' = [wp_event EXCEPT ![cur["sched"]] = TRUE]
  /\ wp_lock' = [wp_lock EXCEPT ![cur["sched"]] = Free]
  /\ UNCHANGED <<time_, sessions, wp, lock, unblock, todo, words, found>>

ProcessedSilently ==    \* mutant: select is not woken
  /\ Goes("sched", "process", "sleep")
  /\ todo = {}
  /\ lock' = Free
  /\ UNCHANGED <<time_, sessions, w_sessions, wp, wp_lock, wp_event, unblock, loaded, cur, todo,
                 words, found>>

\* The selecting thread is woken; the lock is released; the timer is waited for.
Processed ==
  /\ Goes("sched", "process", "sleep")
  /\ todo = {}
  /\ unblock' = TRUE
  /\ lock' = Free
  /\ UNCHANGED <<time_, sessions, w_sessions, wp, wp_lock, wp_event, loaded, cur, todo,
                 words, found>>

TimePasses ==
  /\ Goes("sched", "sleep", "tick")
  /\ time_' = (time_ + 1) % ClockRange
  /\ UNCHANGED <<sessions, w_sessions, wp, wp_lock, wp_event, lock, unblock, loaded,
                 cur, todo, words, found>>

----------------------------------------------------------------------------
Sending(t) ==
  \/ Added(t) \/ Sent(t)
  \/ \E s \in Session : Adds(t, s) \/ Removes(t, s) \/ Sends(t, s)

WaiterNext(t) == Sending(t) \/ WakesUp(t) \/ LocksAgain(t)
PollNext == Sending("poll") \/ Selects \/ And \/ AndNot \/ Selected \/ Unblocked \/ Handled
SchedNext ==
  \/ Ticks \/ Reported \/ Processed \/ TimePasses
  \/ \E s \in Session : Passes(s) \/ Reports(s)

Next ==
  /\ UNCHANGED layout
  /\ \/ \E t \in Waiter : WaiterNext(t)
     \/ PollNext
     \/ SchedNext

Spec == Init /\ [][Next]_vars

\* Threads go on once they have begun a call, and the lock of a wait point and
\* that of the scheduler are given to a thread that keeps asking for them.
Fairness ==
  /\ SF_vars(UNCHANGED layout /\ SchedNext)
  /\ SF_vars(UNCHANGED layout /\ PollNext /\ pc["poll"] # "idle")
  /\ \A t \in Waiter : SF_vars(UNCHANGED layout /\ WaiterNext(t) /\ pc[t] # "idle")

FairSpec == Spec /\ Fairness

----------------------------------------------------------------------------
(* Correctness. *)

PcOf(t) ==
  CASE t = "sched" -> {"tick", "process", "report", "sleep"}
    [] t = "poll"  -> {"idle", "added", "and", "and_not", "blocked", "unblocked",
                       "handle", "clear", "set"}
    [] OTHER       -> {"idle", "added", "sleep", "woken", "clear", "set"}

TypeOK ==
  /\ packed \in BOOLEAN /\ others \subseteq Pos
  /\ time_ \in Time
  /\ list \subseteq Session
  /\ mask_pos \in [Session -> Pos]
  /\ all_sessions \subseteq Pos
  /\ w_sessions \subseteq Pos
  /\ wp \in [Session -> Time \cup {Asleep}]
  /\ wp_lock \in [Session -> Thread \cup {Free}]
  /\ wp_event \in [Session -> BOOLEAN]
  /\ lock \in Thread \cup {Free}
  /\ unblock \in BOOLEAN
  /\ \A t \in Thread : pc[t] \in PcOf(t)
  /\ loaded \in [Thread -> SUBSET Pos]
  /\ cur \in [Thread -> Session \cup {NoSession}]
  /\ todo \subseteq list
  /\ words \subseteq SUBSET Pos
  /\ found \subseteq Watched

\* There is a position for every session.
Fits == Cardinality(Session) <= Cardinality(Pos \ others)

\* A session that is scheduled has a bit of its own, as long as there are
\* positions for all: what removing one session gives back was its own.
PositionsDiffer ==
  Fits => \A s \in list :
            /\ mask_pos[s] \notin others
            /\ \A r \in list : r # s => mask_pos[r] # mask_pos[s]

\* A sender that has slept goes on only after the scheduler has found its wait
\* point due: neither a left-over event nor another session's wakes it.
SleepsUntilDue == \A t \in Waiter : pc[t] \in {"woken", "clear"} => wp[t] = Asleep

\* A session that is polled is never forgotten: the scheduler will find it due
\* or is reporting it, it is marked for select, or the polling thread has it.
InHand(s) ==
  \/ wp[s] # Asleep
  \/ mask_pos[s] \in w_sessions
  \/ s \in found
  \/ cur["sched"] = s /\ pc["sched"] = "report"
  \/ cur["poll"] = s /\ pc["poll"] \in {"added", "set"}

NeverForgotten == \A s \in Watched : InHand(s)

\* It holds when no two sessions share a word of the mask.
NeverForgottenApart == ~packed /\ Fits => NeverForgotten

\* Who waits goes on: a sender in blocking mode, although WIN_cond_wait unlocks
\* the wait point before it waits ("not very atomic"), and session_set_select,
\* when no two sessions share a word of the mask.
WaitersReturn ==
  /\ \A t \in Waiter : pc[t] = "sleep" ~> pc[t] = "idle"
  /\ (~packed /\ Fits /\ pc["poll"] = "and") ~> pc["poll"] = "handle"
=============================================================================
