------------------------- MODULE RtpSchedulerProofs -------------------------
(***************************************************************************)
(* Theorems about RtpScheduler, for every number of sessions, positions    *)
(* and time values: TypeOK, SleepsUntilDue, PositionsDiffer and            *)
(* NeverForgottenApart.                                                    *)
(*                                                                         *)
(* SleepsUntilDue needs no lock: a wait point of a sleeping sender is      *)
(* armed, being reported or signalled, never two of these at once, and     *)
(* that of a sender that does not sleep is none of them (SleepInv).        *)
(* PositionsDiffer needs that all_sessions holds the positions of the      *)
(* sessions in the list and no other, each taken once (PositionInv).       *)
(* NeverForgottenApart needs both, who holds which lock (LockInv,          *)
(* WpLockInv), on which session each thread is (CurInv), and that the      *)
(* polling thread writes back a word only with sessions left out that it   *)
(* found (ApartInv).                                                       *)
(***************************************************************************)
EXTENDS RtpScheduler, FiniteSetTheorems, TLAPS

Place == {"tick", "process", "report", "sleep", "idle", "added", "and", "and_not", "blocked",
          "unblocked", "handle", "woken", "clear", "set"}

WaitType ==
  /\ wp \in [Session -> Time \cup {Asleep}]
  /\ wp_event \in [Session -> BOOLEAN]
  /\ pc \in [Thread -> Place]
  /\ cur \in [Thread -> Session \cup {NoSession}]
  /\ found \subseteq Polled

\* The scheduler has found the wait point of t due and has not signalled it.
Reporting(t) == pc["sched"] = "report" /\ cur["sched"] = t

SleepInv ==
  \A t \in Waiter :
    /\ pc[t] # "sleep" => wp[t] = Asleep /\ ~wp_event[t] /\ ~Reporting(t)
    /\ wp[t] # Asleep => ~wp_event[t] /\ ~Reporting(t)
    /\ ~(wp_event[t] /\ Reporting(t))

WaitInv == WaitType /\ SleepInv

LEMMA Constants ==
  /\ "poll" \notin Waiter /\ "sched" \notin Waiter /\ "poll" # "sched"
  /\ "poll" \in Thread /\ "sched" \in Thread /\ Waiter \subseteq Thread
  /\ \A t \in Waiter \cup {"poll"} : t \in Thread /\ t # "sched"
  /\ Waiter \subseteq Session /\ Polled \subseteq Session /\ Waiter \cap Polled = {}
  /\ \A packet_time \in Time : packet_time # Asleep
BY SessionAssumption, RangeAssumption DEF Session, Thread, Time, Asleep

LEMMA WaitInit == Init => WaitInv
<1> SUFFICES ASSUME Init PROVE WaitInv
  OBVIOUS
<1>1. WaitType
  BY Constants DEF Init, WaitType, Place
<1>2. SleepInv
  BY Constants DEF Init, SleepInv, Reporting
<1> QED BY <1>1, <1>2 DEF WaitInv

----------------------------------------------------------------------------
(* Steps of a thread that leave the wait points alone. *)

\* Thread t goes to a place that is no sleep of a sender.
LEMMA QuietKeeps ==
  ASSUME WaitInv, NEW t \in Thread, NEW place \in Place, NEW s \in Session \cup {NoSession},
         UNCHANGED <<wp, wp_event>>, found' \subseteq Polled,
         pc[t] # "sleep" \/ t = "sched",
         t = "sched" => place # "report",
         t \in Waiter => place # "sleep",
         pc' = [pc EXCEPT ![t] = place],
         cur' = cur \/ cur' = [cur EXCEPT ![t] = s]
  PROVE  WaitInv'
<1>1. WaitType'
  BY DEF WaitInv, WaitType
<1>2. /\ pc'[t] = place
      /\ \A r \in Thread : r # t => pc'[r] = pc[r] /\ cur'[r] = cur[r]
  BY DEF WaitInv, WaitType
<1>3. SleepInv'
  <2> SUFFICES ASSUME NEW r \in Waiter
               PROVE  /\ pc'[r] # "sleep" => wp[r] = Asleep /\ ~wp_event[r] /\ ~Reporting(r)'
                      /\ wp[r] # Asleep => ~wp_event[r] /\ ~Reporting(r)'
                      /\ ~(wp_event[r] /\ Reporting(r)')
    BY DEF SleepInv
  <2>1. Reporting(r)' => Reporting(r)
    BY <1>2, Constants DEF Reporting
  <2>2. pc'[r] # "sleep" => pc[r] # "sleep"
    BY <1>2, Constants
  <2> QED BY <2>1, <2>2 DEF WaitInv, SleepInv
<1> QED BY <1>1, <1>3 DEF WaitInv

LEMMA AddsQuiet ==
  ASSUME WaitInv, NEW t \in Waiter \cup {"poll"}, NEW s \in Session, Adds(t, s)
  PROVE  WaitInv'
<1>1. t \in Thread /\ t # "sched" /\ UNCHANGED <<wp, wp_event, found>>
  BY Constants DEF Adds
<1>2. CASE UNCHANGED <<pc, cur>>
  BY <1>1, <1>2 DEF WaitInv, WaitType, SleepInv, Reporting
<1>3. CASE pc[t] = "idle" /\ pc' = [pc EXCEPT ![t] = "added"] /\ cur' = [cur EXCEPT ![t] = s]
  <2>1. "added" \in Place /\ found' \subseteq Polled
    BY <1>1 DEF Place, WaitInv, WaitType
  <2> QED BY <1>1, <1>3, <2>1, QuietKeeps
<1> QED BY <1>2, <1>3 DEF Adds, Goes

LEMMA CallerQuiet ==
  ASSUME WaitInv, NEW t \in Waiter \cup {"poll"}, Added(t) \/ Sent(t)
  PROVE  WaitInv'
<1>1. t \in Thread /\ t # "sched"
  BY Constants
<1>2. CASE Added(t)
  <2>1. /\ UNCHANGED <<wp, wp_event>> /\ found' \subseteq Polled
        /\ pc[t] = "added" /\ pc' = [pc EXCEPT ![t] = "idle"]
        /\ cur' = [cur EXCEPT ![t] = NoSession]
    BY <1>2 DEF Added, Goes, StoresSet, Stores, WaitInv, WaitType
  <2>2. "idle" \in Place
    BY DEF Place
  <2> QED BY <1>1, <2>1, <2>2, QuietKeeps
<1>3. CASE Sent(t)
  <2> DEFINE place == IF t \in Waiter THEN "idle" ELSE "handle"
  <2>1. /\ UNCHANGED <<wp, wp_event>> /\ found' \subseteq Polled
        /\ pc[t] = "clear" \/ pc[t] = "set"
        /\ pc' = [pc EXCEPT ![t] = place]
        /\ cur' = [cur EXCEPT ![t] = NoSession]
    BY <1>3 DEF Sent, StoresSet, StoresClear, Stores, WaitInv, WaitType
  <2>2. place \in Place /\ place # "sleep"
    BY DEF Place
  <2> QED BY <1>1, <2>1, <2>2, QuietKeeps
<1> QED BY <1>2, <1>3

LEMMA SelectQuiet ==
  ASSUME WaitInv, Selects \/ And \/ AndNot \/ Selected \/ Unblocked \/ Handled
  PROVE  WaitInv'
<1>1. UNCHANGED <<wp, wp_event>>
  BY DEF Selects, And, AndNot, Selected, Unblocked, Handled
<1>2. found' \subseteq Polled
  BY DEF Selects, And, AndNot, Selected, Unblocked, Handled, Watched, WaitInv, WaitType
<1>3. cur' = cur \/ cur' = [cur EXCEPT !["poll"] = NoSession]
  BY DEF Selects, And, AndNot, Selected, Unblocked, Handled, Stores
<1>4. PICK place \in Place : pc[("poll")] # "sleep" /\ pc' = [pc EXCEPT !["poll"] = place]
  BY DEF Selects, And, AndNot, Selected, Unblocked, Handled, Goes, Place
<1> QED BY <1>1, <1>2, <1>3, <1>4, Constants, QuietKeeps

LEMMA SchedQuiet ==
  ASSUME WaitInv, Ticks \/ Processed \/ TimePasses
  PROVE  WaitInv'
<1>1. UNCHANGED <<wp, wp_event, cur>> /\ found' \subseteq Polled
  BY DEF Ticks, Processed, TimePasses, WaitInv, WaitType
<1>2. PICK place \in Place : place # "report" /\ pc' = [pc EXCEPT !["sched"] = place]
  BY DEF Ticks, Processed, TimePasses, Goes, Place
<1> QED BY <1>1, <1>2, Constants, QuietKeeps

----------------------------------------------------------------------------
(* Steps that write a wait point. *)

LEMMA RemovesKeeps ==
  ASSUME WaitInv, NEW t \in Waiter \cup {"poll"}, NEW s \in Session, Removes(t, s)
  PROVE  WaitInv'
<1>1. /\ UNCHANGED <<pc, cur, found>> /\ pc[t] = "idle" /\ s \in Own(t)
      /\ wp' = [wp EXCEPT ![s] = Asleep] /\ wp_event' = [wp_event EXCEPT ![s] = FALSE]
  BY DEF Removes
<1>2. WaitType'
  BY <1>1 DEF WaitInv, WaitType
<1>3. SleepInv'
  <2> SUFFICES ASSUME NEW r \in Waiter
               PROVE  /\ pc[r] # "sleep" => wp'[r] = Asleep /\ ~wp_event'[r] /\ ~Reporting(r)
                      /\ wp'[r] # Asleep => ~wp_event'[r] /\ ~Reporting(r)
                      /\ ~(wp_event'[r] /\ Reporting(r))
    BY <1>1 DEF SleepInv, Reporting
  <2>1. CASE r = s
    <3>1. wp'[r] = Asleep /\ wp_event'[r] = FALSE
      BY <1>1, <2>1, Constants DEF WaitInv, WaitType
    <3>2. r = t
      BY <1>1, <2>1, Constants DEF Own
    <3> QED BY <1>1, <3>1, <3>2 DEF WaitInv, SleepInv
  <2>2. CASE r # s
    <3>1. wp'[r] = wp[r] /\ wp_event'[r] = wp_event[r]
      BY <1>1, <2>2, Constants DEF WaitInv, WaitType
    <3> QED BY <3>1 DEF WaitInv, SleepInv
  <2> QED BY <2>1, <2>2
<1> QED BY <1>2, <1>3 DEF WaitInv

\* A waiter puts the time of its packet and sleeps; the polling thread writes
\* the wait points of its own sessions.
LEMMA SendsKeeps ==
  ASSUME WaitInv, NEW t \in Waiter \cup {"poll"}, NEW s \in Session, Sends(t, s)
  PROVE  WaitInv'
<1>1. /\ t \in Waiter => s = t /\ pc[t] = "idle"
      /\ t = "poll" => s \in Polled /\ pc[t] = "handle"
      /\ UNCHANGED <<wp_event, found>> /\ cur' = [cur EXCEPT ![t] = s]
  BY Constants DEF Sends, WaitInv, WaitType
<1>2. PICK place \in Place, packet_time \in Time \cup {Asleep} :
        /\ pc' = [pc EXCEPT ![t] = place]
        /\ wp' = wp \/ wp' = [wp EXCEPT ![s] = packet_time]
        /\ t \in Waiter /\ place # "sleep" => wp' = wp
  BY Constants DEF Sends, Place, Newer
<1>3. WaitType'
  BY <1>1, <1>2 DEF WaitInv, WaitType
<1>4. /\ pc'[t] = place
      /\ \A r \in Thread : r # t => pc'[r] = pc[r] /\ cur'[r] = cur[r]
  BY <1>1, <1>2, Constants DEF WaitInv, WaitType
<1>5. \A r \in Waiter : r # t => wp'[r] = wp[r]
  BY <1>1, <1>2, Constants DEF WaitInv, WaitType
<1>6. SleepInv'
  <2> SUFFICES ASSUME NEW r \in Waiter
               PROVE  /\ pc'[r] # "sleep" => wp'[r] = Asleep /\ ~wp_event[r] /\ ~Reporting(r)'
                      /\ wp'[r] # Asleep => ~wp_event[r] /\ ~Reporting(r)'
                      /\ ~(wp_event[r] /\ Reporting(r)')
    BY <1>1 DEF SleepInv
  <2>1. Reporting(r)' <=> Reporting(r)
    BY <1>4, Constants DEF Reporting
  <2>2. CASE r = t
    <3>1. wp[r] = Asleep /\ ~wp_event[r] /\ ~Reporting(r)
      BY <1>1, <2>2 DEF WaitInv, SleepInv
    <3> QED BY <1>2, <1>4, <2>1, <2>2, <3>1
  <2>3. CASE r # t
    <3>1. wp'[r] = wp[r] /\ pc'[r] = pc[r]
      BY <1>4, <1>5, <2>3, Constants
    <3> QED BY <2>1, <3>1 DEF WaitInv, SleepInv
  <2> QED BY <2>2, <2>3
<1> QED BY <1>3, <1>6 DEF WaitInv

LEMMA WaiterKeeps ==
  ASSUME WaitInv, NEW t \in Waiter, WakesUp(t) \/ LocksAgain(t)
  PROVE  WaitInv'
<1> t \in Thread /\ t \in Session /\ t # "sched"
  BY Constants
<1>1. CASE WakesUp(t)
  <2>1. /\ UNCHANGED <<wp, cur, found>> /\ pc[t] = "sleep" /\ wp_event[t]
        /\ pc' = [pc EXCEPT ![t] = "woken"] /\ wp_event' = [wp_event EXCEPT ![t] = FALSE]
    BY <1>1 DEF WakesUp, Goes
  <2>2. WaitType'
    BY <2>1 DEF WaitInv, WaitType, Place
  <2>3. /\ pc'[t] = "woken" /\ wp_event'[t] = FALSE
        /\ \A r \in Thread : r # t => pc'[r] = pc[r]
        /\ \A r \in Waiter : r # t => wp_event'[r] = wp_event[r]
    BY <2>1, Constants DEF WaitInv, WaitType
  <2>4. wp[t] = Asleep /\ ~Reporting(t)
    BY <2>1 DEF WaitInv, SleepInv
  <2>5. \A r \in Waiter : Reporting(r)' <=> Reporting(r)
    BY <2>1, <2>3, Constants DEF Reporting
  <2>6. SleepInv'
    BY <2>1, <2>3, <2>4, <2>5, Constants DEF WaitInv, SleepInv
  <2> QED BY <2>2, <2>6 DEF WaitInv
<1>2. CASE LocksAgain(t)
  <2>1. /\ UNCHANGED <<wp, wp_event, cur>> /\ found' \subseteq Polled
        /\ pc[t] = "woken" /\ pc' = [pc EXCEPT ![t] = "clear"]
    BY <1>2 DEF LocksAgain, Goes, WaitInv, WaitType
  <2>2. "clear" \in Place
    BY DEF Place
  <2> QED BY <2>1, <2>2, QuietKeeps
<1> QED BY <1>1, <1>2

LEMMA ReportsKeeps ==
  ASSUME WaitInv, NEW s \in Session, Reports(s)
  PROVE  WaitInv'
<1>1. /\ UNCHANGED <<wp_event, found>> /\ pc["sched"] = "process" /\ wp[s] # Asleep
      /\ pc' = [pc EXCEPT !["sched"] = "report"] /\ wp' = [wp EXCEPT ![s] = Asleep]
      /\ cur' = [cur EXCEPT !["sched"] = s]
  BY DEF Reports, Goes, Due
<1>2. WaitType'
  BY <1>1 DEF WaitInv, WaitType, Place
<1>3. /\ wp'[s] = Asleep /\ cur'["sched"] = s
      /\ \A r \in Waiter : pc'[r] = pc[r] /\ (r # s => wp'[r] = wp[r])
  BY <1>1, Constants DEF WaitInv, WaitType
<1>4. \A r \in Waiter : ~Reporting(r) /\ (Reporting(r)' => r = s)
  BY <1>1, <1>3 DEF Reporting
<1>5. s \in Waiter => pc[s] = "sleep" /\ ~wp_event[s]
  BY <1>1 DEF WaitInv, SleepInv
<1>6. SleepInv'
  BY <1>1, <1>3, <1>4, <1>5 DEF WaitInv, SleepInv
<1> QED BY <1>2, <1>6 DEF WaitInv

LEMMA ReportedKeeps ==
  ASSUME WaitInv, Reported
  PROVE  WaitInv'
<1> DEFINE s == cur["sched"]
<1>1. /\ UNCHANGED <<wp, found>> /\ pc["sched"] = "report"
      /\ pc' = [pc EXCEPT !["sched"] = "process"]
      /\ cur' = [cur EXCEPT !["sched"] = NoSession]
      /\ wp_event' = [wp_event EXCEPT ![s] = TRUE]
  BY DEF Reported, Goes, StoresSet, Stores
<1>2. WaitType'
  BY <1>1 DEF WaitInv, WaitType, Place
<1>3. /\ pc'["sched"] = "process"
      /\ \A r \in Waiter : pc'[r] = pc[r] /\ (r # s => wp_event'[r] = wp_event[r])
  BY <1>1, Constants DEF WaitInv, WaitType
<1>4. s \in Waiter => Reporting(s) /\ pc[s] = "sleep" /\ wp[s] = Asleep
  BY <1>1 DEF WaitInv, SleepInv, Reporting
<1>5. \A r \in Waiter : ~Reporting(r)'
  BY <1>3 DEF Reporting
<1>6. SleepInv'
  BY <1>1, <1>3, <1>4, <1>5 DEF WaitInv, SleepInv
<1> QED BY <1>2, <1>6 DEF WaitInv

LEMMA WaitNext == WaitInv /\ [Next]_vars => WaitInv'
<1> SUFFICES ASSUME WaitInv, [Next]_vars PROVE WaitInv'
  OBVIOUS
<1>1. CASE UNCHANGED vars
  BY <1>1 DEF vars, WaitInv, WaitType, SleepInv, Reporting
<1>2. ASSUME NEW t \in Waiter \cup {"poll"}, Sending(t) PROVE WaitInv'
  BY <1>2, AddsQuiet, CallerQuiet, RemovesKeeps, SendsKeeps DEF Sending
<1>3. ASSUME NEW t \in Waiter, WaiterNext(t) PROVE WaitInv'
  BY <1>2, <1>3, WaiterKeeps DEF WaiterNext
<1>4. ASSUME PollNext PROVE WaitInv'
  BY <1>2, <1>4, SelectQuiet DEF PollNext
<1>5. ASSUME NEW s \in Session, Passes(s) PROVE WaitInv'
  BY <1>5 DEF Passes, WaitInv, WaitType, SleepInv, Reporting
<1>6. ASSUME SchedNext PROVE WaitInv'
  BY <1>5, <1>6, SchedQuiet, ReportsKeeps, ReportedKeeps DEF SchedNext
<1> QED BY <1>1, <1>3, <1>4, <1>6 DEF Next

\* A sender in blocking mode that has slept on its wait point (sleep_wp of
\* __rtp_session_sendm_with_ts) goes on only after rtp_session_process has
\* found the wait point due: SleepsUntilDue holds in every instance.
THEOREM SendersSleepUntilDue == Spec => []SleepsUntilDue
<1>1. WaitInv => SleepsUntilDue
  BY DEF WaitInv, SleepInv, SleepsUntilDue
<1> QED BY <1>1, WaitInit, WaitNext, PTL DEF Spec
----------------------------------------------------------------------------
(* Positions. *)

Taken(S, pos) == {pos[s] : s \in S}

PositionType ==
  /\ others \subseteq Pos
  /\ list \subseteq Session
  /\ mask_pos \in [Session -> Pos]

PositionInv ==
  /\ PositionType
  /\ Fits => all_sessions = others \cup Taken(list, mask_pos)
  /\ PositionsDiffer

\* Fewer sessions than the positions left by the others do not take them all.
LEMMA RoomLeft ==
  ASSUME PositionType, Fits, NEW s \in Session \ list
  PROVE  ~(Pos \subseteq others \cup Taken(list, mask_pos))
<1> SUFFICES ASSUME Pos \ others \subseteq Taken(list, mask_pos) PROVE FALSE
  OBVIOUS
<1>1. IsFiniteSet(Session) /\ IsFiniteSet(Session \ {s}) /\ IsFiniteSet(list)
  BY SessionAssumption, FS_Subset DEF PositionType
<1>2. Cardinality(list) <= Cardinality(Session \ {s})
  BY <1>1, FS_Subset DEF PositionType
<1>3. Cardinality(Session \ {s}) = Cardinality(Session) - 1 /\ Cardinality(Session) \in Nat
  BY <1>1, FS_RemoveElement, FS_CardinalityType
<1>4. IsFiniteSet(Taken(list, mask_pos)) /\ Cardinality(Taken(list, mask_pos)) <= Cardinality(list)
  <2>1. [r \in list |-> mask_pos[r]] \in Surjection(list, Taken(list, mask_pos))
    BY DEF Surjection, Taken
  <2> QED BY <1>1, <2>1, FS_Surjection
<1>5. Cardinality(Pos \ others) <= Cardinality(Taken(list, mask_pos))
  BY <1>4, FS_Subset
<1>6. /\ Cardinality(list) \in Nat /\ Cardinality(Session \ {s}) \in Nat
      /\ Cardinality(Taken(list, mask_pos)) \in Nat /\ Cardinality(Pos \ others) \in Nat
  BY <1>1, <1>4, FS_Subset, FS_CardinalityType
<1> QED BY <1>2, <1>3, <1>4, <1>5, <1>6 DEF Fits

LEMMA PositionInit == Init => PositionInv
BY RangeAssumption DEF Init, PositionInv, PositionType, PositionsDiffer, Taken, Pos

LEMMA AddsKeepsPositions ==
  ASSUME PositionInv, UNCHANGED layout, NEW t, NEW s \in Session, Adds(t, s)
  PROVE  PositionInv'
<1>1. /\ UNCHANGED others /\ (Fits' <=> Fits)
      /\ s \notin list /\ list' = list \cup {s}
  BY DEF layout, Fits, Adds
<1>2. CASE UNCHANGED <<mask_pos, all_sessions>> /\ Pos \subseteq all_sessions
  <2>1. ~Fits
    BY <1>1, <1>2, RoomLeft DEF PositionInv
  <2> QED BY <1>1, <1>2, <2>1 DEF PositionInv, PositionType, PositionsDiffer
<1>3. ASSUME NEW p \in Pos \ all_sessions, mask_pos' = [mask_pos EXCEPT ![s] = p],
             all_sessions' = all_sessions \cup {p}
      PROVE  PositionInv'
  <2>1. PositionType'
    BY <1>1, <1>3 DEF PositionInv, PositionType
  <2>2. mask_pos'[s] = p /\ \A r \in list : mask_pos'[r] = mask_pos[r]
    BY <1>1, <1>3 DEF PositionInv, PositionType
  <2>3. Fits => /\ all_sessions' = others \cup Taken(list', mask_pos')
                /\ \A r \in list : mask_pos[r] \in all_sessions
                /\ others \subseteq all_sessions
    BY <1>1, <1>3, <2>2 DEF PositionInv, Taken
  <2>4. PositionsDiffer'
    BY <1>1, <1>3, <2>2, <2>3 DEF PositionInv, PositionsDiffer
  <2> QED BY <1>1, <2>1, <2>3, <2>4 DEF PositionInv
<1> QED BY <1>2, <1>3 DEF Adds

LEMMA RemovesKeepsPositions ==
  ASSUME PositionInv, UNCHANGED layout, NEW t, NEW s \in Session, Removes(t, s)
  PROVE  PositionInv'
<1>1. /\ UNCHANGED others /\ (Fits' <=> Fits) /\ s \in list
      /\ list' = list \ {s} /\ all_sessions' = all_sessions \ {mask_pos[s]}
      /\ mask_pos' = [mask_pos EXCEPT ![s] = 0]
  BY DEF layout, Fits, Removes
<1>2. PositionType'
  BY <1>1, RangeAssumption DEF PositionInv, PositionType, Pos
<1>3. \A r \in list' : mask_pos'[r] = mask_pos[r]
  BY <1>1 DEF PositionInv, PositionType
<1>4. Fits => all_sessions' = others \cup Taken(list', mask_pos')
  BY <1>1, <1>3 DEF PositionInv, PositionsDiffer, Taken
<1>5. PositionsDiffer'
  BY <1>1, <1>3 DEF PositionInv, PositionsDiffer
<1> QED BY <1>1, <1>2, <1>4, <1>5 DEF PositionInv

LEMMA PositionNext == PositionInv /\ [Next]_vars => PositionInv'
<1> SUFFICES ASSUME PositionInv, [Next]_vars PROVE PositionInv'
  OBVIOUS
<1> USE DEF Taken
<1>1. CASE UNCHANGED <<layout, sessions>>
  BY <1>1 DEF layout, sessions, PositionInv, PositionType, PositionsDiffer, Fits
<1>2. CASE UNCHANGED vars
  BY <1>1, <1>2 DEF vars
<1>3. CASE Next
  <2>1. UNCHANGED layout
    BY <1>3 DEF Next
  <2>2. ASSUME NEW t, Sending(t) PROVE PositionInv'
    <3>1. ASSUME NEW s \in Session, Sends(t, s) PROVE UNCHANGED sessions
      BY <3>1 DEF Sends
    <3>2. ASSUME Added(t) \/ Sent(t) PROVE UNCHANGED sessions
      BY <3>2 DEF Added, Sent
    <3> QED BY <1>1, <2>1, <2>2, <3>1, <3>2, AddsKeepsPositions, RemovesKeepsPositions DEF Sending
  <2>3. ASSUME NEW t \in Waiter, WaiterNext(t) PROVE PositionInv'
    BY <1>1, <2>1, <2>2, <2>3 DEF WaiterNext, WakesUp, LocksAgain
  <2>4. ASSUME PollNext PROVE PositionInv'
    BY <1>1, <2>1, <2>2, <2>4
       DEF PollNext, Selects, And, AndNot, Selected, Unblocked, Handled
  <2>5. ASSUME SchedNext PROVE PositionInv'
    BY <1>1, <2>1, <2>5
       DEF SchedNext, Ticks, Reported, Processed, TimePasses, Passes, Reports
  <2> QED BY <1>3, <2>3, <2>4, <2>5 DEF Next
<1> QED BY <1>2, <1>3

\* Where there is a position for each session, rtp_scheduler_add_session gives
\* each one of its own and rtp_scheduler_remove_session takes back that one.
THEOREM EachSessionHasItsPosition == Spec => []PositionsDiffer
<1>1. PositionInv => PositionsDiffer
  BY DEF PositionInv
<1> QED BY <1>1, PositionInit, PositionNext, PTL DEF Spec
----------------------------------------------------------------------------
(* Locks.  A thread at one of these places holds the scheduler's lock,     *)
(* or the lock of the wait point of its session.                           *)

Locking   == {"process", "report", "added", "and", "and_not"}
WpLocking == {"clear", "set", "report"}

LockInv == \A t \in Thread : pc[t] \in Locking => lock = t

WpLockInv ==
  /\ wp_lock \in [Session -> Thread \cup {Free}]
  /\ \A t \in Thread : pc[t] \in WpLocking => cur[t] \in Session /\ wp_lock[cur[t]] = t

\* A sender is on its own session, the polling thread on one that was reported
\* and whose wait point it has armed before it clears the bit.
CurInv ==
  /\ \A t \in Waiter : pc[t] \in {"sleep", "woken", "clear", "set"} => cur[t] = t /\ t \in list
  /\ pc["poll"] \in {"clear", "set"} => cur["poll"] \in found
  /\ pc["poll"] = "clear" => wp[cur["poll"]] # Asleep
  /\ pc["poll"] \in {"idle", "added", "blocked", "unblocked"} => found = {}
  /\ found \subseteq list

LEMMA FreeIsNoThread == Free \notin Thread
BY SessionAssumption DEF Free, Thread, Session

LEMMA LocksInit == Init => LockInv /\ WpLockInv
BY DEF Init, LockInv, WpLockInv, Locking, WpLocking

LEMMA LockStep ==
  ASSUME WaitInv, LockInv, NEW t \in Thread, NEW place \in Place,
         pc' = [pc EXCEPT ![t] = place],
         \/ lock' = lock /\ (place \in Locking => pc[t] \in Locking)
         \/ lock = Free /\ lock' = t
         \/ pc[t] \in Locking /\ lock' = Free /\ place \notin Locking
  PROVE  LockInv'
<1>1. pc'[t] = place /\ \A r \in Thread : r # t => pc'[r] = pc[r]
  BY DEF WaitInv, WaitType
<1> QED BY <1>1, FreeIsNoThread DEF LockInv

LEMMA LockNext == WaitInv /\ LockInv /\ [Next]_vars => LockInv'
<1> SUFFICES ASSUME WaitInv, LockInv, [Next]_vars PROVE LockInv'
  OBVIOUS
<1>1. CASE UNCHANGED <<pc, lock>>
  BY <1>1 DEF LockInv
<1>2. ASSUME NEW t \in Waiter \cup {"poll"}, NEW s \in Session, Adds(t, s) PROVE LockInv'
  <2>1. CASE lock = Free /\ lock' = t /\ pc' = [pc EXCEPT ![t] = "added"]
    BY <2>1, LockStep, Constants DEF Place
  <2> QED BY <1>1, <1>2, <2>1 DEF Adds, Goes
<1>3. ASSUME NEW t \in Waiter \cup {"poll"}, NEW s \in Session, Sends(t, s) PROVE LockInv'
  <2>1. PICK place \in Place : /\ place \notin Locking /\ lock' = lock
                               /\ pc' = [pc EXCEPT ![t] = place]
    BY <1>3 DEF Sends, Place, Locking
  <2> QED BY <2>1, LockStep, Constants
<1>4. ASSUME NEW t \in Waiter \cup {"poll"}, Added(t) \/ Sent(t) PROVE LockInv'
  <2>1. CASE Added(t)
    <3>1. pc[t] = "added" /\ pc' = [pc EXCEPT ![t] = "idle"] /\ lock' = Free
      BY <2>1 DEF Added, Goes
    <3> QED BY <3>1, LockStep, Constants DEF Place, Locking
  <2>2. CASE Sent(t)
    <3> DEFINE place == IF t \in Waiter THEN "idle" ELSE "handle"
    <3>1. pc' = [pc EXCEPT ![t] = place] /\ lock' = lock
      BY <2>2 DEF Sent
    <3>2. place \in Place /\ place \notin Locking
      BY DEF Place, Locking
    <3> QED BY <3>1, <3>2, LockStep, Constants
  <2> QED BY <1>4, <2>1, <2>2
<1>5. ASSUME NEW t \in Waiter, WakesUp(t) \/ LocksAgain(t) PROVE LockInv'
  <2>1. PICK place \in Place : /\ place \notin Locking /\ lock' = lock
                               /\ pc' = [pc EXCEPT ![t] = place]
    BY <1>5 DEF WakesUp, LocksAgain, Goes, Place, Locking
  <2> QED BY <2>1, LockStep, Constants
<1>6. ASSUME Selects \/ And \/ AndNot \/ Selected \/ Unblocked \/ Handled PROVE LockInv'
  <2>1. PICK place \in Place :
          /\ pc' = [pc EXCEPT !["poll"] = place]
          /\ \/ lock' = lock /\ (place \in Locking => pc["poll"] \in Locking)
             \/ lock = Free /\ lock' = "poll"
             \/ pc["poll"] \in Locking /\ lock' = Free /\ place \notin Locking
    BY <1>6 DEF Selects, And, AndNot, Selected, Unblocked, Handled, Goes, Place, Locking
  <2> QED BY <2>1, LockStep, Constants
<1>7. ASSUME NEW s \in Session, Reports(s) PROVE LockInv'
  <2>1. /\ pc["sched"] = "process" /\ pc' = [pc EXCEPT !["sched"] = "report"]
        /\ lock' = lock
    BY <1>7 DEF Reports, Goes
  <2> QED BY <2>1, LockStep, Constants DEF Place, Locking
<1>8. ASSUME Ticks \/ Reported \/ Processed \/ TimePasses PROVE LockInv'
  <2>1. PICK place \in Place :
          /\ pc' = [pc EXCEPT !["sched"] = place]
          /\ \/ lock' = lock /\ (place \in Locking => pc["sched"] \in Locking)
             \/ lock = Free /\ lock' = "sched"
             \/ pc["sched"] \in Locking /\ lock' = Free /\ place \notin Locking
    BY <1>8 DEF Ticks, Reported, Processed, TimePasses, Goes, Place, Locking
  <2> QED BY <2>1, LockStep, Constants
<1>9. ASSUME NEW t \in Waiter \cup {"poll"}, Sending(t) PROVE LockInv'
  BY <1>1, <1>2, <1>3, <1>4, <1>9 DEF Sending, Removes
<1>10. ASSUME SchedNext PROVE LockInv'
  BY <1>1, <1>7, <1>8, <1>10 DEF SchedNext, Passes
<1> QED BY <1>1, <1>5, <1>6, <1>9, <1>10 DEF Next, vars, WaiterNext, PollNext

LEMMA WpLockStep ==
  ASSUME WaitInv, WpLockInv, NEW t \in Thread, NEW place \in Place,
         NEW s \in Session \cup {NoSession},
         pc' = [pc EXCEPT ![t] = place],
         cur' = cur \/ cur' = [cur EXCEPT ![t] = s],
         \/ /\ wp_lock' = wp_lock
            /\ place \in WpLocking => pc[t] \in WpLocking /\ cur' = cur
         \/ /\ s \in Session /\ wp_lock[s] = Free
            /\ wp_lock' = [wp_lock EXCEPT ![s] = t] /\ cur'[t] = s
         \/ /\ pc[t] \in WpLocking /\ place \notin WpLocking
            /\ wp_lock' = [wp_lock EXCEPT ![cur[t]] = Free]
  PROVE  WpLockInv'
<1>1. /\ pc'[t] = place
      /\ \A r \in Thread : r # t => pc'[r] = pc[r] /\ cur'[r] = cur[r]
  BY DEF WaitInv, WaitType
<1>2. wp_lock' \in [Session -> Thread \cup {Free}]
  BY DEF WpLockInv
<1>3. CASE /\ wp_lock' = wp_lock
           /\ place \in WpLocking => pc[t] \in WpLocking /\ cur' = cur
  BY <1>1, <1>2, <1>3 DEF WpLockInv
<1>4. CASE /\ s \in Session /\ wp_lock[s] = Free
           /\ wp_lock' = [wp_lock EXCEPT ![s] = t] /\ cur'[t] = s
  <2>1. wp_lock'[s] = t /\ \A r \in Session : r # s => wp_lock'[r] = wp_lock[r]
    BY <1>4 DEF WpLockInv
  <2>2. \A r \in Thread : pc[r] \in WpLocking => cur[r] # s
    BY <1>4, FreeIsNoThread DEF WpLockInv
  <2> QED BY <1>1, <1>2, <1>4, <2>1, <2>2 DEF WpLockInv
<1>5. CASE /\ pc[t] \in WpLocking /\ place \notin WpLocking
           /\ wp_lock' = [wp_lock EXCEPT ![cur[t]] = Free]
  <2>1. \A r \in Session : r # cur[t] => wp_lock'[r] = wp_lock[r]
    BY <1>5 DEF WpLockInv
  <2>2. \A r \in Thread : r # t /\ pc[r] \in WpLocking => cur[r] # cur[t]
    BY <1>5 DEF WpLockInv
  <2> QED BY <1>1, <1>2, <1>5, <2>1, <2>2 DEF WpLockInv
<1> QED BY <1>3, <1>4, <1>5

LEMMA WpLockNext == WaitInv /\ CurInv /\ WpLockInv /\ [Next]_vars => WpLockInv'
<1> SUFFICES ASSUME WaitInv, CurInv, WpLockInv, [Next]_vars PROVE WpLockInv'
  OBVIOUS
<1>1. CASE UNCHANGED <<pc, cur, wp_lock>>
  BY <1>1 DEF WpLockInv
<1>2. ASSUME NEW t \in Waiter \cup {"poll"}, NEW s \in Session, Adds(t, s) PROVE WpLockInv'
  <2>1. CASE pc' = [pc EXCEPT ![t] = "added"] /\ cur' = [cur EXCEPT ![t] = s]
    <3>1. wp_lock' = wp_lock
      BY <1>2 DEF Adds
    <3> QED BY <2>1, <3>1, WpLockStep, Constants DEF Place, WpLocking
  <2> QED BY <1>1, <1>2, <2>1 DEF Adds, Goes
<1>3. ASSUME NEW t \in Waiter \cup {"poll"}, NEW s \in Session, Sends(t, s) PROVE WpLockInv'
  <2>1. PICK place \in Place :
          /\ pc' = [pc EXCEPT ![t] = place] /\ cur' = [cur EXCEPT ![t] = s]
          /\ \/ wp_lock' = wp_lock /\ place \notin WpLocking
             \/ wp_lock[s] = Free /\ wp_lock' = [wp_lock EXCEPT ![s] = t]
    BY <1>3 DEF Sends, Place, WpLocking
  <2>2. t \in Thread /\ cur'[t] = s
    BY <2>1, Constants DEF WaitInv, WaitType
  <2> QED BY <2>1, <2>2, WpLockStep
<1>4. ASSUME NEW t \in Waiter \cup {"poll"}, Added(t) \/ Sent(t) PROVE WpLockInv'
  <2>1. PICK place \in Place :
          /\ pc' = [pc EXCEPT ![t] = place] /\ cur' = [cur EXCEPT ![t] = NoSession]
          /\ place \notin WpLocking
          /\ \/ wp_lock' = wp_lock
             \/ pc[t] \in WpLocking /\ wp_lock' = [wp_lock EXCEPT ![cur[t]] = Free]
    BY <1>4 DEF Added, Sent, StoresSet, StoresClear, Stores, Goes, Place, WpLocking
  <2> QED BY <2>1, WpLockStep, Constants
<1>5. ASSUME NEW t \in Waiter, WakesUp(t) PROVE WpLockInv'
  <2>1. UNCHANGED <<cur, wp_lock>> /\ pc' = [pc EXCEPT ![t] = "woken"]
    BY <1>5 DEF WakesUp, Goes
  <2> QED BY <2>1, WpLockStep, Constants DEF Place, WpLocking
<1>6. ASSUME NEW t \in Waiter, LocksAgain(t) PROVE WpLockInv'
  <2>1. /\ UNCHANGED cur /\ pc[t] = "woken" /\ pc' = [pc EXCEPT ![t] = "clear"]
        /\ wp_lock[t] = Free /\ wp_lock' = [wp_lock EXCEPT ![t] = t]
    BY <1>6 DEF LocksAgain, Goes
  <2>2. cur'[t] = t
    BY <2>1 DEF CurInv
  <2> QED BY <2>1, <2>2, WpLockStep, Constants DEF Place
<1>7. ASSUME Selects \/ And \/ AndNot \/ Selected \/ Unblocked \/ Handled PROVE WpLockInv'
  <2>1. PICK place \in Place :
          /\ pc' = [pc EXCEPT !["poll"] = place] /\ place \notin WpLocking
          /\ wp_lock' = wp_lock
          /\ cur' = cur \/ cur' = [cur EXCEPT !["poll"] = NoSession]
    BY <1>7
       DEF Selects, And, AndNot, Selected, Unblocked, Handled, Stores, Goes, Place, WpLocking
  <2> QED BY <2>1, WpLockStep, Constants
<1>8. ASSUME NEW s \in Session, Reports(s) PROVE WpLockInv'
  <2>1. /\ pc' = [pc EXCEPT !["sched"] = "report"] /\ cur' = [cur EXCEPT !["sched"] = s]
        /\ wp_lock[s] = Free /\ wp_lock' = [wp_lock EXCEPT ![s] = "sched"]
    BY <1>8 DEF Reports, Goes
  <2>2. cur'["sched"] = s
    BY <2>1, Constants DEF WaitInv, WaitType
  <2> QED BY <2>1, <2>2, WpLockStep, Constants DEF Place
<1>9. ASSUME Ticks \/ Reported \/ Processed \/ TimePasses PROVE WpLockInv'
  <2>1. PICK place \in Place :
          /\ pc' = [pc EXCEPT !["sched"] = place] /\ place \notin WpLocking
          /\ cur' = cur \/ cur' = [cur EXCEPT !["sched"] = NoSession]
          /\ \/ wp_lock' = wp_lock
             \/ /\ pc["sched"] \in WpLocking
                /\ wp_lock' = [wp_lock EXCEPT ![cur["sched"]] = Free]
    BY <1>9
       DEF Ticks, Reported, Processed, TimePasses, StoresSet, Stores, Goes, Place, WpLocking
  <2> QED BY <2>1, WpLockStep, Constants
<1>10. ASSUME NEW t \in Waiter \cup {"poll"}, Sending(t) PROVE WpLockInv'
  BY <1>1, <1>2, <1>3, <1>4, <1>10 DEF Sending, Removes
<1>11. ASSUME SchedNext PROVE WpLockInv'
  BY <1>1, <1>8, <1>9, <1>11 DEF SchedNext, Passes
<1> QED BY <1>1, <1>5, <1>6, <1>7, <1>10, <1>11 DEF Next, vars, WaiterNext, PollNext
----------------------------------------------------------------------------
(* Sessions in hand. *)

LEMMA CurInit == Init => CurInv
BY Constants DEF Init, CurInv

\* Thread t moves, and no wait point changes.
LEMMA MoveKeepsCur ==
  ASSUME WaitInv, CurInv, NEW t \in Thread, NEW place \in Place,
         pc' = [pc EXCEPT ![t] = place],
         \A r \in Thread : r # t => cur'[r] = cur[r],
         UNCHANGED <<list, wp>>,
         t \in Waiter => /\ found' = found
                         /\ place \in {"sleep", "woken", "clear", "set"} =>
                              pc[t] \in {"sleep", "woken"} /\ cur'[t] = cur[t],
         t = "poll" => /\ place \notin {"clear", "set"}
                       /\ place \in {"idle", "added", "blocked", "unblocked"} => found' = {}
                       /\ found' \subseteq list,
         t = "sched" => found' = found
  PROVE  CurInv'
<1>1. /\ pc'[t] = place
      /\ \A r \in Thread : r # t => pc'[r] = pc[r] /\ cur'[r] = cur[r]
  BY DEF WaitInv, WaitType
<1>2. CASE t \in Waiter
  BY <1>1, <1>2, Constants DEF CurInv
<1>3. CASE t = "poll"
  BY <1>1, <1>3, Constants DEF CurInv
<1>4. CASE t = "sched"
  BY <1>1, <1>4, Constants DEF CurInv
<1> QED BY <1>2, <1>3, <1>4 DEF Thread

LEMMA AddsKeepsCur ==
  ASSUME WaitInv, CurInv, NEW t \in Waiter \cup {"poll"}, NEW s \in Session, Adds(t, s)
  PROVE  CurInv'
<1>1. UNCHANGED <<wp, found>> /\ list' = list \cup {s} /\ pc[t] = "idle"
  BY DEF Adds
<1>2. CASE UNCHANGED <<pc, cur>>
  BY <1>1, <1>2 DEF CurInv
<1>3. CASE pc' = [pc EXCEPT ![t] = "added"] /\ cur' = [cur EXCEPT ![t] = s]
  <2>1. /\ pc'[t] = "added"
        /\ \A r \in Thread : r # t => pc'[r] = pc[r] /\ cur'[r] = cur[r]
    BY <1>3, Constants DEF WaitInv, WaitType
  <2> QED BY <1>1, <2>1, Constants DEF CurInv
<1> QED BY <1>2, <1>3 DEF Adds, Goes

LEMMA RemovesKeepsCur ==
  ASSUME WaitInv, CurInv, NEW t \in Waiter \cup {"poll"}, NEW s \in Session, Removes(t, s)
  PROVE  CurInv'
<1>1. /\ UNCHANGED <<pc, cur, found>> /\ pc[t] = "idle" /\ s \in Own(t)
      /\ list' = list \ {s} /\ wp' = [wp EXCEPT ![s] = Asleep]
  BY DEF Removes
<1>2. \A r \in Session : r # s => wp'[r] = wp[r]
  BY <1>1 DEF WaitInv, WaitType
<1>3. CASE t = "poll"
  <2>1. s \in Polled /\ found = {} /\ pc["poll"] = "idle"
    BY <1>1, <1>3, Constants DEF Own, CurInv
  <2> QED BY <1>1, <2>1, Constants DEF CurInv
<1>4. CASE t \in Waiter
  <2>1. s = t /\ s \notin Polled
    BY <1>1, <1>4, Constants DEF Own
  <2>2. found \subseteq Polled
    BY DEF WaitInv, WaitType
  <2> QED BY <1>1, <1>2, <2>1, <2>2, Constants DEF CurInv
<1> QED BY <1>3, <1>4

LEMMA SendsKeepsCur ==
  ASSUME WaitInv, CurInv, NEW t \in Waiter \cup {"poll"}, NEW s \in Session, Sends(t, s)
  PROVE  CurInv'
<1>1. /\ t \in Waiter => s = t
      /\ t = "poll" => s \in found
      /\ UNCHANGED <<found, list>> /\ cur' = [cur EXCEPT ![t] = s] /\ s \in list
  BY Constants DEF Sends, sessions
<1>2. PICK place \in Place, packet_time \in Time :
        /\ pc' = [pc EXCEPT ![t] = place]
        /\ wp' = wp \/ wp' = [wp EXCEPT ![s] = packet_time]
        /\ t = "poll" /\ place = "clear" => wp' = [wp EXCEPT ![s] = packet_time]
        /\ place \in {"sleep", "clear", "set"}
        /\ t = "poll" => place # "sleep"
  BY Constants DEF Sends, Place, Newer
<1>3. /\ pc'[t] = place /\ cur'[t] = s
      /\ \A r \in Thread : r # t => pc'[r] = pc[r] /\ cur'[r] = cur[r]
      /\ \A r \in Session : r # s => wp'[r] = wp[r]
  BY <1>1, <1>2, Constants DEF WaitInv, WaitType
<1>4. CASE t \in Waiter
  <2>1. found \subseteq Session /\ s \notin found
    BY <1>1, <1>4, Constants DEF WaitInv, WaitType
  <2> QED BY <1>1, <1>2, <1>3, <1>4, <2>1, Constants DEF CurInv
<1>5. CASE t = "poll"
  <2>1. place = "clear" => wp'[s] # Asleep
    BY <1>2, <1>5, Constants DEF WaitInv, WaitType
  <2> QED BY <1>1, <1>2, <1>3, <1>5, <2>1, Constants DEF CurInv
<1> QED BY <1>4, <1>5

LEMMA CallerKeepsCur ==
  ASSUME WaitInv, CurInv, NEW t \in Waiter \cup {"poll"}, Added(t) \/ Sent(t)
  PROVE  CurInv'
<1>1. PICK place \in Place :
        /\ pc' = [pc EXCEPT ![t] = place] /\ cur' = [cur EXCEPT ![t] = NoSession]
        /\ place \in {"idle", "handle"}
        /\ place = "idle" => t \in Waiter \/ pc[t] = "added"
        /\ t \in Waiter \/ pc[t] = "added" => found' = found
        /\ found' \subseteq found
        /\ UNCHANGED <<list, wp>>
  BY Constants DEF Added, Sent, StoresSet, StoresClear, Stores, Goes, Place, sessions
<1>2. t \in Thread /\ \A r \in Thread : r # t => cur'[r] = cur[r]
  BY <1>1, Constants DEF WaitInv, WaitType
<1>3. t = "poll" /\ place = "idle" => found' = {}
  BY <1>1, Constants DEF CurInv
<1> QED BY <1>1, <1>2, <1>3, Constants, MoveKeepsCur, ZenonT(60) DEF CurInv

LEMMA ReportsKeepsCur ==
  ASSUME WaitInv, WpLockInv, CurInv, NEW s \in Session, Reports(s)
  PROVE  CurInv'
<1>1. /\ pc' = [pc EXCEPT !["sched"] = "report"] /\ cur' = [cur EXCEPT !["sched"] = s]
      /\ wp' = [wp EXCEPT ![s] = Asleep] /\ wp_lock[s] = Free
      /\ UNCHANGED <<list, found>>
  BY DEF Reports, Goes, sessions
<1>2. /\ \A r \in Thread : r # "sched" => pc'[r] = pc[r] /\ cur'[r] = cur[r]
      /\ \A r \in Session : r # s => wp'[r] = wp[r]
  BY <1>1, Constants DEF WaitInv, WaitType
<1>3. pc["poll"] = "clear" => cur["poll"] \in Session /\ cur["poll"] # s
  BY <1>1, Constants, FreeIsNoThread DEF WpLockInv, WpLocking
<1> QED BY <1>1, <1>2, <1>3, Constants DEF CurInv

LEMMA CurNext == WaitInv /\ WpLockInv /\ CurInv /\ [Next]_vars => CurInv'
<1> SUFFICES ASSUME WaitInv, WpLockInv, CurInv, [Next]_vars PROVE CurInv'
  OBVIOUS
<1>1. CASE UNCHANGED <<pc, cur, list, wp, found>>
  BY <1>1 DEF CurInv
<1>2. ASSUME NEW t \in Waiter, WakesUp(t) \/ LocksAgain(t) PROVE CurInv'
  <2>1. PICK place \in Place : pc' = [pc EXCEPT ![t] = place] /\ pc[t] \in {"sleep", "woken"}
    BY <1>2 DEF WakesUp, LocksAgain, Goes, Place
  <2>2. UNCHANGED <<cur, list, wp, found>>
    BY <1>2 DEF WakesUp, LocksAgain, sessions
  <2> QED BY <2>1, <2>2, Constants, MoveKeepsCur
<1>3. ASSUME Selects \/ And \/ AndNot \/ Selected \/ Unblocked \/ Handled PROVE CurInv'
  <2>1. PICK place \in Place :
          /\ pc' = [pc EXCEPT !["poll"] = place]
          /\ place \notin {"clear", "set"}
          /\ place \in {"idle", "added", "blocked", "unblocked"} => found' = {}
          /\ found' \subseteq list
    BY <1>3 DEF Selects, And, AndNot, Selected, Unblocked, Handled, Goes, Place, CurInv, Watched
  <2>2. cur' = cur \/ cur' = [cur EXCEPT !["poll"] = NoSession]
    BY <1>3 DEF Selects, And, AndNot, Selected, Unblocked, Handled, Stores
  <2>3. \A r \in Thread : r # "poll" => cur'[r] = cur[r]
    BY <2>2 DEF WaitInv, WaitType
  <2>4. UNCHANGED <<list, wp>>
    BY <1>3 DEF Selects, And, AndNot, Selected, Unblocked, Handled, sessions
  <2> QED BY <2>1, <2>3, <2>4, Constants, MoveKeepsCur
<1>4. ASSUME Ticks \/ Reported \/ Processed \/ TimePasses PROVE CurInv'
  <2>1. PICK place \in Place : pc' = [pc EXCEPT !["sched"] = place]
    BY <1>4 DEF Ticks, Reported, Processed, TimePasses, Goes, Place
  <2>2. cur' = cur \/ cur' = [cur EXCEPT !["sched"] = NoSession]
    BY <1>4 DEF Ticks, Reported, Processed, TimePasses, StoresSet, Stores
  <2>3. \A r \in Thread : r # "sched" => cur'[r] = cur[r]
    BY <2>2 DEF WaitInv, WaitType
  <2>4. UNCHANGED <<list, wp, found>>
    BY <1>4 DEF Ticks, Reported, Processed, TimePasses, sessions
  <2> QED BY <2>1, <2>3, <2>4, Constants, MoveKeepsCur
<1>5. ASSUME NEW t \in Waiter \cup {"poll"}, Sending(t) PROVE CurInv'
  BY <1>5, AddsKeepsCur, RemovesKeepsCur, SendsKeepsCur, CallerKeepsCur DEF Sending
<1>6. ASSUME SchedNext PROVE CurInv'
  BY <1>1, <1>4, <1>6, ReportsKeepsCur DEF SchedNext, Passes, sessions
<1> QED BY <1>1, <1>2, <1>3, <1>5, <1>6 DEF Next, vars, sessions, WaiterNext, PollNext
----------------------------------------------------------------------------
(* Where no two sessions share a word, a polled session is in hand; and    *)
(* while the polling thread has a word loaded, a session of that word that *)
(* it has not found is one the scheduler will find due.                    *)

Kept(s) ==
  /\ InHand(s)
  /\ pc["poll"] = "and_not" /\ mask_pos[s] \in Word => s \in found \/ wp[s] # Asleep

ApartInv == ~packed /\ Fits => \A s \in Watched : Kept(s)

BaseInv == WaitInv /\ PositionInv /\ LockInv /\ WpLockInv /\ CurInv

LEMMA ApartInit == Init => ApartInv
BY DEF Init, ApartInv, Watched

\* A thread that sets the bit of its session leaves the other bits set.
LEMMA SetKeepsBits ==
  ASSUME NEW t, ~packed, StoresSet(t)
  PROVE  w_sessions \cup {mask_pos[cur[t]]} \subseteq w_sessions'
BY DEF StoresSet, Stores, WordOf

LEMMA ClearKeepsBits ==
  ASSUME NEW t, ~packed, StoresClear(t)
  PROVE  w_sessions \ {mask_pos[cur[t]]} \subseteq w_sessions'
BY DEF StoresClear, Stores, WordOf

\* A step that concerns neither s nor the two threads that report and select.
LEMMA ElsewhereKept ==
  ASSUME NEW s, Kept(s),
         mask_pos'[s] = mask_pos[s], wp'[s] = wp[s], found' = found, words' = words,
         pc'["poll"] = pc["poll"], cur'["poll"] = cur["poll"],
         pc'["sched"] = pc["sched"], cur'["sched"] = cur["sched"],
         UNCHANGED layout,
         mask_pos[s] \in w_sessions => mask_pos[s] \in w_sessions'
  PROVE  Kept(s)'
<1>1. Word' = Word
  BY DEF Word, WordOf, layout
<1> QED BY <1>1 DEF Kept, InHand

LEMMA WaiterApart ==
  ASSUME BaseInv, ~packed, Fits, UNCHANGED layout, \A s \in Watched : Kept(s),
         NEW t \in Waiter, WaiterNext(t), NEW s \in Watched'
  PROVE  Kept(s)'
<1>1. s \in Watched /\ s # t /\ s \in Session
  <2>1. list' \subseteq list \cup {t}
    BY Constants DEF WaiterNext, Sending, Added, Sent, Adds, Removes, Sends, WakesUp, LocksAgain,
                     Own, sessions
  <2> QED BY <2>1, Constants DEF Watched
<1>2. mask_pos'[s] = mask_pos[s]
  <2>1. mask_pos' = mask_pos \/ \E p \in Pos : mask_pos' = [mask_pos EXCEPT ![t] = p]
    BY RangeAssumption, Constants
       DEF WaiterNext, Sending, Added, Sent, Adds, Removes, Sends, WakesUp, LocksAgain,
           Own, sessions, Pos
  <2> QED BY <1>1, <2>1 DEF BaseInv, PositionInv, PositionType
<1>3. wp'[s] = wp[s]
  <2>1. wp' = wp \/ \E time \in Time \cup {Asleep} : wp' = [wp EXCEPT ![t] = time]
    BY Constants DEF WaiterNext, Sending, Added, Sent, Adds, Removes, Sends, WakesUp, LocksAgain, Own
  <2> QED BY <1>1, <2>1 DEF BaseInv, WaitInv, WaitType
<1>4. UNCHANGED <<found, words>>
  BY DEF WaiterNext, Sending, Added, Sent, Adds, Removes, Sends, WakesUp, LocksAgain
<1>5. \A r \in {"poll", "sched"} : pc'[r] = pc[r]
  <2>1. pc' = pc \/ \E place \in Place : pc' = [pc EXCEPT ![t] = place]
    BY DEF WaiterNext, Sending, Added, Sent, Adds, Removes, Sends, WakesUp, LocksAgain, Goes, Place
  <2> QED BY <2>1, Constants DEF BaseInv, WaitInv, WaitType
<1>6. \A r \in {"poll", "sched"} : cur'[r] = cur[r]
  <2>1. cur' = cur \/ \E r \in Session \cup {NoSession} : cur' = [cur EXCEPT ![t] = r]
    BY DEF WaiterNext, Sending, Added, Sent, Adds, Removes, Sends, WakesUp, LocksAgain,
           StoresSet, StoresClear, Stores
  <2> QED BY <2>1, Constants DEF BaseInv, WaitInv, WaitType
<1>7. mask_pos[s] \in w_sessions => mask_pos[s] \in w_sessions'
  <2>1. CASE Added(t)
    BY <2>1, SetKeepsBits DEF Added
  <2>2. CASE Sent(t)
    <3>1. CASE pc[t] = "set" /\ StoresSet(t)
      BY <3>1, SetKeepsBits
    <3>2. CASE pc[t] = "clear" /\ StoresClear(t)
      <4>1. cur[t] = t /\ t \in list
        BY <3>2 DEF BaseInv, CurInv
      <4>2. mask_pos[s] # mask_pos[t]
        BY <1>1, <4>1 DEF BaseInv, PositionInv, PositionsDiffer, Watched
      <4> QED BY <3>2, <4>1, <4>2, ClearKeepsBits
    <3> QED BY <2>2, <3>1, <3>2 DEF Sent
  <2>3. CASE w_sessions' = w_sessions
    BY <2>3
  <2>4. Added(t) \/ Sent(t) \/ w_sessions' = w_sessions
    BY DEF WaiterNext, Sending, Adds, Removes, Sends, WakesUp, LocksAgain
  <2> QED BY <2>1, <2>2, <2>3, <2>4
<1> QED BY <1>1, <1>2, <1>3, <1>4, <1>5, <1>6, <1>7, ElsewhereKept

LEMMA SchedApart ==
  ASSUME BaseInv, ~packed, Fits, UNCHANGED layout, \A s \in Watched : Kept(s),
         SchedNext, NEW s \in Watched'
  PROVE  Kept(s)'
<1>1. /\ UNCHANGED <<sessions, found, words>>
      /\ s \in Watched /\ s \in Session /\ Kept(s) /\ Word' = Word
  <2>1. UNCHANGED <<sessions, found, words>>
    BY DEF SchedNext, Ticks, Reported, Processed, TimePasses, Passes, Reports
  <2>2. s \in Watched /\ s \in Session
    BY <2>1, Constants DEF Watched, sessions
  <2> QED BY <2>1, <2>2 DEF Word, WordOf, layout
<1>2. pc'["poll"] = pc["poll"] /\ cur'["poll"] = cur["poll"]
  <2>1. pc' = pc \/ \E place \in Place : pc' = [pc EXCEPT !["sched"] = place]
    BY DEF SchedNext, Ticks, Reported, Processed, TimePasses, Passes, Reports, Goes, Place
  <2>2. cur' = cur \/ \E r \in Session \cup {NoSession} : cur' = [cur EXCEPT !["sched"] = r]
    BY DEF SchedNext, Ticks, Reported, Processed, TimePasses, Passes, Reports, StoresSet, Stores
  <2> QED BY <2>1, <2>2, Constants DEF BaseInv, WaitInv, WaitType
<1>3. ASSUME NEW r \in Session, Reports(r) PROVE Kept(s)'
  <2>1. /\ pc'["sched"] = "report" /\ cur'["sched"] = r /\ pc["sched"] = "process"
        /\ w_sessions' = w_sessions /\ (r # s => wp'[s] = wp[s])
    BY <1>1, <1>3, Constants DEF Reports, Goes, BaseInv, WaitInv, WaitType
  <2>2. pc["poll"] # "and_not"
    BY <2>1, Constants DEF BaseInv, LockInv, Locking
  <2> QED BY <1>1, <1>2, <2>1, <2>2 DEF Kept, InHand, sessions
<1>4. CASE Reported
  <2>1. wp' = wp /\ w_sessions \cup {mask_pos[cur["sched"]]} \subseteq w_sessions'
    BY <1>4, SetKeepsBits DEF Reported
  <2> QED BY <1>1, <1>2, <2>1 DEF Kept, InHand, sessions
<1>5. ASSUME Ticks \/ Processed \/ TimePasses \/ \E r \in Session : Passes(r) PROVE Kept(s)'
  <2>1. UNCHANGED <<wp, w_sessions, cur>>
    BY <1>5 DEF Ticks, Processed, TimePasses, Passes
  <2>2. pc'["sched"] = "report" <=> pc["sched"] = "report"
    BY <1>5, Constants DEF Ticks, Processed, TimePasses, Passes, Goes, BaseInv, WaitInv, WaitType
  <2> QED BY <1>1, <1>2, <2>1, <2>2 DEF Kept, InHand, sessions
<1> QED BY <1>3, <1>4, <1>5 DEF SchedNext

\* What the polling thread does outside session_set_select
LEMMA PollSendingApart ==
  ASSUME BaseInv, ~packed, Fits, UNCHANGED layout, \A s \in Watched : Kept(s),
         Sending("poll"), NEW s \in Watched'
  PROVE  Kept(s)'
<1>1. pc["poll"] # "and_not" /\ pc'["poll"] # "and_not" /\ s \in Session
  <2>1. \/ pc' = pc /\ pc["poll"] # "and_not"
        \/ /\ pc["poll"] # "and_not"
           /\ \E place \in Place \ {"and_not"} : pc' = [pc EXCEPT !["poll"] = place]
    BY Constants DEF Sending, Added, Sent, Adds, Removes, Sends, Goes, Place
  <2> QED BY <2>1, Constants DEF BaseInv, WaitInv, WaitType, Watched
<1>2. pc'["sched"] = pc["sched"] /\ cur'["sched"] = cur["sched"]
  <2>1. pc' = pc \/ \E place \in Place : pc' = [pc EXCEPT !["poll"] = place]
    BY DEF Sending, Added, Sent, Adds, Removes, Sends, Goes, Place
  <2>2. cur' = cur \/ \E r \in Session \cup {NoSession} : cur' = [cur EXCEPT !["poll"] = r]
    BY DEF Sending, Added, Sent, Adds, Removes, Sends, StoresSet, StoresClear, Stores
  <2> QED BY <2>1, <2>2, Constants DEF BaseInv, WaitInv, WaitType
<1>3. SUFFICES InHand(s)'
  BY <1>1 DEF Kept
<1>4. ASSUME NEW r \in Session, Adds("poll", r) PROVE InHand(s)'
  <2>1. /\ UNCHANGED <<wp, w_sessions, found>> /\ pc["poll"] = "idle"
        /\ r \notin list /\ list' = list \cup {r}
    BY <1>4 DEF Adds
  <2>2. CASE Pos \subseteq all_sessions
    BY <2>1, <2>2, RoomLeft DEF BaseInv, PositionInv
  <2>3. CASE ~(Pos \subseteq all_sessions)
    <3>1. PICK p \in Pos : /\ mask_pos' = [mask_pos EXCEPT ![r] = p]
                           /\ cur' = [cur EXCEPT !["poll"] = r]
                           /\ pc' = [pc EXCEPT !["poll"] = "added"]
      BY <1>4, <2>3 DEF Adds, Goes
    <3>2. cur'["poll"] = r /\ pc'["poll"] = "added"
      BY <3>1, Constants DEF BaseInv, WaitInv, WaitType
    <3>3. CASE s = r
      BY <3>2, <3>3 DEF InHand
    <3>4. CASE s # r
      <4>1. s \in Watched /\ mask_pos'[s] = mask_pos[s]
        BY <1>1, <2>1, <3>1, <3>4 DEF Watched, BaseInv, PositionInv, PositionType
      <4> QED BY <1>2, <2>1, <4>1 DEF Kept, InHand
    <3> QED BY <3>3, <3>4
  <2> QED BY <2>2, <2>3
<1>5. ASSUME NEW r \in Session, Removes("poll", r) PROVE InHand(s)'
  <2>1. /\ UNCHANGED <<w_sessions, found, pc, cur>> /\ list' = list \ {r}
        /\ wp' = [wp EXCEPT ![r] = Asleep] /\ mask_pos' = [mask_pos EXCEPT ![r] = 0]
    BY <1>5 DEF Removes
  <2>2. s \in Watched /\ mask_pos'[s] = mask_pos[s] /\ wp'[s] = wp[s]
    BY <1>1, <2>1
       DEF Watched, BaseInv, PositionInv, PositionType, WaitInv, WaitType
  <2>3. InHand(s)
    BY <2>2 DEF Kept
  <2>4. pc'["poll"] = pc["poll"] /\ cur'["poll"] = cur["poll"]
    BY <2>1
  <2> QED BY <1>2, <2>1, <2>2, <2>3, <2>4 DEF InHand
<1>6. ASSUME NEW r \in Session, Sends("poll", r) PROVE InHand(s)'
  <2>1. /\ UNCHANGED <<list, mask_pos, w_sessions, found>>
        /\ r \in found /\ pc["poll"] = "handle"
    BY <1>6, Constants DEF Sends, sessions
  <2>2. wp' = wp \/ \E time \in Time : wp' = [wp EXCEPT ![r] = time]
    BY <1>6 DEF Sends
  <2>3. s = r \/ wp'[s] = wp[s]
    BY <1>1, <2>2 DEF BaseInv, WaitInv, WaitType
  <2>4. s \in Watched
    BY <2>1 DEF Watched
  <2> QED BY <1>2, <2>1, <2>3, <2>4 DEF Kept, InHand
<1>7. CASE Added("poll")
  <2>1. /\ UNCHANGED <<list, mask_pos, wp, found>> /\ pc["poll"] = "added"
        /\ w_sessions \cup {mask_pos[cur["poll"]]} \subseteq w_sessions'
    BY <1>7, SetKeepsBits DEF Added, Goes, sessions
  <2>2. s \in Watched
    BY <2>1 DEF Watched
  <2> QED BY <1>2, <2>1, <2>2 DEF Kept, InHand
<1>8. CASE Sent("poll")
  <2>1. UNCHANGED <<list, mask_pos, wp>> /\ found' = found \ {cur["poll"]}
    BY <1>8, Constants DEF Sent, sessions
  <2>2. s \in Watched
    BY <2>1 DEF Watched
  <2>3. CASE pc["poll"] = "set" /\ StoresSet("poll")
    <3>1. w_sessions \cup {mask_pos[cur["poll"]]} \subseteq w_sessions'
      BY <2>3, SetKeepsBits
    <3> QED BY <1>2, <2>1, <2>2, <2>3, <3>1 DEF Kept, InHand
  <2>4. CASE pc["poll"] = "clear" /\ StoresClear("poll")
    <3>1. w_sessions \ {mask_pos[cur["poll"]]} \subseteq w_sessions'
      BY <2>4, ClearKeepsBits
    <3>2. cur["poll"] \in list /\ wp[cur["poll"]] # Asleep
      BY <2>4 DEF BaseInv, CurInv
    <3>3. s # cur["poll"] => mask_pos[s] # mask_pos[cur["poll"]]
      BY <2>2, <3>2 DEF BaseInv, PositionInv, PositionsDiffer, Watched
    <3> QED BY <1>2, <2>1, <2>2, <2>4, <3>1, <3>2, <3>3 DEF Kept, InHand
  <2> QED BY <1>8, <2>3, <2>4 DEF Sent
<1> QED BY <1>4, <1>5, <1>6, <1>7, <1>8 DEF Sending

LEMMA SelectApart ==
  ASSUME BaseInv, ~packed, Fits, UNCHANGED layout, \A s \in Watched : Kept(s),
         Selects \/ And \/ AndNot \/ Selected \/ Unblocked \/ Handled, NEW s \in Watched'
  PROVE  Kept(s)'
<1>1. /\ UNCHANGED <<sessions, wp>> /\ s \in Watched /\ s \in Session /\ Kept(s)
  <2>1. UNCHANGED <<sessions, wp>>
    BY DEF Selects, And, AndNot, Selected, Unblocked, Handled
  <2> QED BY <2>1, Constants DEF Watched, sessions
<1>2. /\ pc'["sched"] = pc["sched"] /\ cur'["sched"] = cur["sched"]
  <2>1. \E place \in Place : pc' = [pc EXCEPT !["poll"] = place]
    BY DEF Selects, And, AndNot, Selected, Unblocked, Handled, Goes, Place
  <2>2. cur' = cur \/ cur' = [cur EXCEPT !["poll"] = NoSession]
    BY DEF Selects, And, AndNot, Selected, Unblocked, Handled, Stores
  <2> QED BY <2>1, <2>2, Constants DEF BaseInv, WaitInv, WaitType
<1>3. CASE And
  <2>1. /\ pc["poll"] = "and" /\ UNCHANGED <<words, w_sessions>>
        /\ found' = found \cup {r \in Watched : mask_pos[r] \in w_sessions \cap Word}
    BY <1>3 DEF And, Goes
  <2>2. pc["sched"] # "report"
    BY <2>1, Constants DEF BaseInv, LockInv, Locking
  <2>3. Word' = Word
    BY <2>1 DEF Word, WordOf, layout
  <2> QED BY <1>1, <2>1, <2>2, <2>3 DEF Kept, InHand, sessions
<1>4. CASE AndNot
  <2>1. /\ pc["poll"] = "and_not" /\ pc' = [pc EXCEPT !["poll"] = "and"] /\ found' = found
        /\ w_sessions \ Word \subseteq w_sessions'
    BY <1>4 DEF AndNot, Goes, Stores
  <2>2. pc'["poll"] = "and"
    BY <2>1, Constants DEF BaseInv, WaitInv, WaitType
  <2>3. mask_pos[s] \in w_sessions => mask_pos[s] \in w_sessions' \/ s \in found \/ wp[s] # Asleep
    BY <1>1, <2>1 DEF Kept
  <2> QED BY <1>1, <1>2, <2>1, <2>2, <2>3 DEF Kept, InHand, sessions
<1>5. ASSUME Selects \/ Selected \/ Unblocked \/ Handled PROVE Kept(s)'
  <2>1. w_sessions' = w_sessions /\ pc["poll"] \notin {"added", "set"}
    BY <1>5 DEF Selects, Selected, Unblocked, Handled, Goes
  <2>2. s \in found => s \in found'
    BY <1>5 DEF Selects, Selected, Unblocked, Handled, Goes, BaseInv, CurInv
  <2>3. pc'["poll"] # "and_not"
    <3>1. \E place \in Place \ {"and_not"} : pc' = [pc EXCEPT !["poll"] = place]
      BY <1>5 DEF Selects, Selected, Unblocked, Handled, Goes, Place
    <3> QED BY <3>1, Constants DEF BaseInv, WaitInv, WaitType
  <2> QED BY <1>1, <1>2, <2>1, <2>2, <2>3 DEF Kept, InHand, sessions
<1> QED BY <1>3, <1>4, <1>5

LEMMA ApartNext == BaseInv /\ ApartInv /\ [Next]_vars => ApartInv'
<1> SUFFICES ASSUME BaseInv, ApartInv, [Next]_vars PROVE ApartInv'
  OBVIOUS
<1>1. CASE UNCHANGED vars
  BY <1>1 DEF vars, layout, sessions, ApartInv, Kept, InHand, Watched, Word, WordOf, Fits
<1>2. CASE Next
  <2>1. UNCHANGED layout /\ (packed' = packed) /\ (Fits' <=> Fits)
    BY <1>2 DEF Next, layout, Fits
  <2> SUFFICES ASSUME ~packed, Fits, NEW s \in Watched' PROVE Kept(s)'
    BY <2>1 DEF ApartInv
  <2>2. \A r \in Watched : Kept(r)
    BY DEF ApartInv
  <2>3. (\E t \in Waiter : WaiterNext(t)) \/ PollNext \/ SchedNext
    BY <1>2 DEF Next
  <2> QED BY <2>1, <2>2, <2>3, WaiterApart, SchedApart, PollSendingApart, SelectApart DEF PollNext
<1> QED BY <1>1, <1>2

\* Where no two sessions share a word of the masks, the unlocked loads and
\* stores of rtp_session_process, __rtp_session_sendm_with_ts and
\* session_set_select lose no session, whatever the order of the threads.
THEOREM SessionsApartAreNeverForgotten == Spec => []NeverForgottenApart
<1>1. Init => BaseInv /\ ApartInv
  BY WaitInit, PositionInit, LocksInit, CurInit, ApartInit DEF BaseInv
<1>2. BaseInv /\ ApartInv /\ [Next]_vars => BaseInv' /\ ApartInv'
  BY WaitNext, PositionNext, LockNext, WpLockNext, CurNext, ApartNext DEF BaseInv
<1>3. ApartInv => NeverForgottenApart
  BY DEF ApartInv, Kept, NeverForgottenApart, NeverForgotten
<1> QED BY <1>1, <1>2, <1>3, PTL DEF Spec

----------------------------------------------------------------------------
(* Types.  A word that is stored was loaded from positions, for each       *)
(* thread that stores is on a session (PlaceInv); what the scheduler has   *)
(* still to process stays in the list, which it has locked (TickInv).      *)

MaskInv ==
  /\ packed \in BOOLEAN /\ unblock \in BOOLEAN /\ time_ \in Time
  /\ lock \in Thread \cup {Free}
  /\ all_sessions \subseteq Pos /\ w_sessions \subseteq Pos
  /\ loaded \in [Thread -> SUBSET Pos]
  /\ words \subseteq SUBSET Pos

PlaceInv ==
  \A t \in Thread : pc[t] \in PcOf(t) /\ (pc[t] = "added" => cur[t] \in Session)

TickInv ==
  /\ todo \subseteq list
  /\ pc["sched"] \notin {"process", "report"} => todo = {}

LEMMA TypesInit == Init => MaskInv /\ PlaceInv /\ TickInv
<1> SUFFICES ASSUME Init PROVE MaskInv /\ PlaceInv /\ TickInv
  OBVIOUS
<1>1. MaskInv
  <2>1. others \subseteq Pos /\ time_ \in Time
    BY RangeAssumption DEF Init, Time, Pos
  <2>2. loaded \in [Thread -> SUBSET Pos]
    BY DEF Init
  <2> QED BY <2>1, <2>2 DEF Init, MaskInv
<1>2. PlaceInv
  BY Constants DEF Init, PlaceInv, PcOf
<1>3. TickInv
  BY DEF Init, TickInv
<1> QED BY <1>1, <1>2, <1>3

\* The position of a session in a call is one, and so is its word's.
LEMMA StoresPositions ==
  ASSUME MaskInv, NEW t \in Thread, NEW p \in Pos, NEW word, NEW bits,
         bits \subseteq loaded[t] \cup {p}, Stores(t, word, bits)
  PROVE  w_sessions' \subseteq Pos /\ loaded' \in [Thread -> SUBSET Pos]
BY DEF MaskInv, Stores

LEMMA LoadsPositions ==
  ASSUME MaskInv, NEW t \in Thread, NEW word, Loads(t, word)
  PROVE  loaded' \in [Thread -> SUBSET Pos]
BY DEF MaskInv, Loads

LEMMA MaskNext == BaseInv /\ MaskInv /\ PlaceInv /\ [Next]_vars => MaskInv'
<1> SUFFICES ASSUME BaseInv, MaskInv, PlaceInv, [Next]_vars PROVE MaskInv'
  OBVIOUS
<1>1. CASE UNCHANGED vars
  BY <1>1 DEF vars, layout, sessions, MaskInv
<1>2. ASSUME NEW t \in Thread, StoresSet(t) \/ StoresClear(t),
             pc[t] \in {"added", "clear", "set", "report"}
      PROVE  w_sessions' \subseteq Pos /\ loaded' \in [Thread -> SUBSET Pos]
  <2>1. cur[t] \in Session
    BY <1>2 DEF BaseInv, WpLockInv, WpLocking, PlaceInv
  <2>2. mask_pos[cur[t]] \in Pos
    BY <2>1 DEF BaseInv, PositionInv, PositionType
  <2> QED BY <1>2, <2>2, StoresPositions DEF StoresSet, StoresClear
<1>3. CASE Next
  <2>1. packed' = packed
    BY <1>3 DEF Next, layout
  <2>2. ASSUME NEW t \in Waiter \cup {"poll"}, NEW s \in Session, Adds(t, s) PROVE MaskInv'
    <3>1. /\ UNCHANGED <<unblock, time_, w_sessions, words>>
          /\ all_sessions' \subseteq Pos /\ lock' \in {lock, t}
      BY <2>2 DEF Adds, MaskInv
    <3>2. loaded' \in [Thread -> SUBSET Pos]
      BY <2>2, Constants, LoadsPositions DEF Adds, MaskInv
    <3> QED BY <2>1, <3>1, <3>2, Constants DEF MaskInv
  <2>3. ASSUME NEW t \in Waiter \cup {"poll"}, NEW s \in Session, Removes(t, s) PROVE MaskInv'
    BY <2>1, <2>3 DEF Removes, MaskInv
  <2>4. ASSUME NEW t \in Waiter \cup {"poll"}, NEW s \in Session, Sends(t, s) PROVE MaskInv'
    <3>1. UNCHANGED <<unblock, time_, w_sessions, words, all_sessions, lock>>
      BY <2>4 DEF Sends, sessions
    <3>2. loaded' \in [Thread -> SUBSET Pos]
      BY <2>4, Constants, LoadsPositions DEF Sends, MaskInv
    <3> QED BY <2>1, <3>1, <3>2 DEF MaskInv
  <2>5. ASSUME NEW t \in Waiter \cup {"poll"}, Added(t) \/ Sent(t) PROVE MaskInv'
    <3>1. UNCHANGED <<unblock, time_, words, all_sessions>> /\ lock' \in {lock, Free}
      BY <2>5 DEF Added, Sent, sessions
    <3>2. /\ StoresSet(t) \/ StoresClear(t)
          /\ pc[t] \in {"added", "clear", "set", "report"}
      BY <2>5 DEF Added, Sent, Goes
    <3>3. w_sessions' \subseteq Pos /\ loaded' \in [Thread -> SUBSET Pos]
      BY <1>2, <3>2, Constants
    <3> QED BY <2>1, <3>1, <3>3 DEF MaskInv
  <2>6. ASSUME NEW t \in Waiter, WakesUp(t) \/ LocksAgain(t) PROVE MaskInv'
    <3>1. UNCHANGED <<unblock, time_, w_sessions, words, all_sessions, lock>>
      BY <2>6 DEF WakesUp, LocksAgain, sessions
    <3>2. loaded' \in [Thread -> SUBSET Pos]
      BY <2>6, Constants, LoadsPositions DEF WakesUp, LocksAgain, MaskInv
    <3> QED BY <2>1, <3>1, <3>2 DEF MaskInv
  <2>7. CASE Selects \/ Selected \/ Unblocked \/ Handled
    <3>1. UNCHANGED <<time_, w_sessions, loaded, all_sessions>> /\ unblock' \in BOOLEAN
      BY <2>7 DEF Selects, Selected, Unblocked, Handled, sessions, MaskInv
    <3>2. lock' \in Thread \cup {Free}
      BY <2>7, Constants DEF Selects, Selected, Unblocked, Handled, MaskInv
    <3>3. words' \subseteq SUBSET Pos
      BY <2>7 DEF Selects, Selected, Unblocked, Handled, MaskInv, Words, WordOf
    <3> QED BY <2>1, <3>1, <3>2, <3>3 DEF MaskInv
  <2>8. CASE And
    BY <2>1, <2>8, Constants, LoadsPositions DEF And, sessions, MaskInv
  <2>9. CASE AndNot
    <3>1. UNCHANGED <<time_, unblock, lock, all_sessions>> /\ words' \subseteq words
      BY <2>9 DEF AndNot, sessions
    <3>2. w_sessions' \subseteq Pos /\ loaded' \in [Thread -> SUBSET Pos]
      BY <2>9, Constants, StoresPositions, RangeAssumption DEF AndNot, Pos
    <3> QED BY <2>1, <3>1, <3>2 DEF MaskInv
  <2>10. CASE Ticks \/ Processed \/ TimePasses
    <3>1. UNCHANGED <<w_sessions, loaded, words, all_sessions>>
      BY <2>10 DEF Ticks, Processed, TimePasses, sessions
    <3>2. unblock' \in BOOLEAN
      BY <2>10 DEF Ticks, Processed, TimePasses, MaskInv
    <3>3. lock' \in Thread \cup {Free}
      BY <2>10, Constants DEF Ticks, Processed, TimePasses, MaskInv
    <3>4. time_' \in Time
      BY <2>10, RangeAssumption DEF Ticks, Processed, TimePasses, MaskInv, Time
    <3> QED BY <2>1, <3>1, <3>2, <3>3, <3>4 DEF MaskInv
  <2>11. CASE Reported
    <3>1. UNCHANGED <<time_, unblock, lock, all_sessions, words>>
      BY <2>11 DEF Reported, sessions
    <3>2. w_sessions' \subseteq Pos /\ loaded' \in [Thread -> SUBSET Pos]
      BY <1>2, <2>11, Constants DEF Reported, Goes
    <3> QED BY <2>1, <3>1, <3>2 DEF MaskInv
  <2>12. ASSUME NEW s \in Session, Passes(s) \/ Reports(s) PROVE MaskInv'
    <3>1. UNCHANGED <<unblock, time_, w_sessions, words, all_sessions, lock>>
      BY <2>12 DEF Passes, Reports, sessions
    <3>2. loaded' \in [Thread -> SUBSET Pos]
      BY <2>12, Constants, LoadsPositions DEF Passes, Reports, MaskInv
    <3> QED BY <2>1, <3>1, <3>2 DEF MaskInv
  <2>13. ASSUME NEW t \in Waiter \cup {"poll"}, Sending(t) PROVE MaskInv'
    BY <2>2, <2>3, <2>4, <2>5, <2>13 DEF Sending
  <2>14. CASE PollNext
    BY <2>7, <2>8, <2>9, <2>13, <2>14 DEF PollNext
  <2>15. CASE SchedNext
    BY <2>10, <2>11, <2>12, <2>15 DEF SchedNext
  <2>16. ASSUME NEW t \in Waiter, WaiterNext(t) PROVE MaskInv'
    BY <2>6, <2>13, <2>16 DEF WaiterNext
  <2> QED BY <1>3, <2>14, <2>15, <2>16 DEF Next
<1> QED BY <1>1, <1>3

\* A thread goes to one of its places, and to "added" with its session.
LEMMA PlaceStep ==
  ASSUME WaitInv, PlaceInv, NEW t \in Thread, NEW place \in PcOf(t),
         NEW s \in Session \cup {NoSession},
         pc' = [pc EXCEPT ![t] = place],
         cur' = cur \/ cur' = [cur EXCEPT ![t] = s],
         place = "added" => cur'[t] \in Session
  PROVE  PlaceInv'
<1>1. /\ pc'[t] = place
      /\ \A r \in Thread : r # t => pc'[r] = pc[r] /\ cur'[r] = cur[r]
  BY DEF WaitInv, WaitType
<1> QED BY <1>1 DEF PlaceInv, PcOf

LEMMA Places ==
  /\ \A t \in Waiter : PcOf(t) = {"idle", "added", "sleep", "woken", "clear", "set"}
  /\ PcOf("poll") = {"idle", "added", "and", "and_not", "blocked", "unblocked",
                      "handle", "clear", "set"}
  /\ PcOf("sched") = {"tick", "process", "report", "sleep"}
BY Constants DEF PcOf

LEMMA PlaceNext == WaitInv /\ PlaceInv /\ [Next]_vars => PlaceInv'
<1> SUFFICES ASSUME WaitInv, PlaceInv, [Next]_vars PROVE PlaceInv'
  OBVIOUS
<1>1. CASE UNCHANGED <<pc, cur>>
  BY <1>1 DEF PlaceInv, PcOf
<1>2. ASSUME NEW t \in Waiter \cup {"poll"}, NEW s \in Session, Adds(t, s) PROVE PlaceInv'
  <2>1. CASE pc' = [pc EXCEPT ![t] = "added"] /\ cur' = [cur EXCEPT ![t] = s]
    <3>1. cur'[t] = s
      BY <2>1, Constants DEF WaitInv, WaitType
    <3> QED BY <2>1, <3>1, PlaceStep, Places, Constants
  <2> QED BY <1>1, <1>2, <2>1 DEF Adds, Goes
<1>3. ASSUME NEW t \in Waiter \cup {"poll"}, NEW s \in Session, Sends(t, s) PROVE PlaceInv'
  <2>1. PICK place \in PcOf(t) : place # "added" /\ pc' = [pc EXCEPT ![t] = place]
    BY <1>3, Places, Constants DEF Sends
  <2>2. cur' = [cur EXCEPT ![t] = s]
    BY <1>3 DEF Sends
  <2> QED BY <2>1, <2>2, PlaceStep, Constants
<1>4. ASSUME NEW t \in Waiter \cup {"poll"}, Added(t) \/ Sent(t) PROVE PlaceInv'
  <2>1. PICK place \in PcOf(t) : place # "added" /\ pc' = [pc EXCEPT ![t] = place]
    BY <1>4, Places, Constants DEF Added, Sent, Goes
  <2>2. cur' = [cur EXCEPT ![t] = NoSession]
    BY <1>4 DEF Added, Sent, StoresSet, StoresClear, Stores
  <2> QED BY <2>1, <2>2, PlaceStep, Constants
<1>5. ASSUME NEW t \in Waiter, WakesUp(t) \/ LocksAgain(t) PROVE PlaceInv'
  <2>1. PICK place \in PcOf(t) : place # "added" /\ pc' = [pc EXCEPT ![t] = place]
    BY <1>5, Places DEF WakesUp, LocksAgain, Goes
  <2>2. cur' = cur
    BY <1>5 DEF WakesUp, LocksAgain
  <2> QED BY <2>1, <2>2, PlaceStep, Constants
<1>6. ASSUME Selects \/ And \/ AndNot \/ Selected \/ Unblocked \/ Handled PROVE PlaceInv'
  <2>1. PICK place \in PcOf("poll") : place # "added" /\ pc' = [pc EXCEPT !["poll"] = place]
    BY <1>6, Places DEF Selects, And, AndNot, Selected, Unblocked, Handled, Goes
  <2>2. cur' = cur \/ cur' = [cur EXCEPT !["poll"] = NoSession]
    BY <1>6 DEF Selects, And, AndNot, Selected, Unblocked, Handled, Stores
  <2> QED BY <2>1, <2>2, PlaceStep, Constants
<1>7. ASSUME NEW s \in Session, Reports(s) PROVE PlaceInv'
  <2>1. pc' = [pc EXCEPT !["sched"] = "report"] /\ cur' = [cur EXCEPT !["sched"] = s]
    BY <1>7 DEF Reports, Goes
  <2> QED BY <2>1, PlaceStep, Places, Constants
<1>8. ASSUME Ticks \/ Reported \/ Processed \/ TimePasses PROVE PlaceInv'
  <2>1. PICK place \in PcOf("sched") : place # "added" /\ pc' = [pc EXCEPT !["sched"] = place]
    BY <1>8, Places DEF Ticks, Reported, Processed, TimePasses, Goes
  <2>2. cur' = cur \/ cur' = [cur EXCEPT !["sched"] = NoSession]
    BY <1>8 DEF Ticks, Reported, Processed, TimePasses, StoresSet, Stores
  <2> QED BY <2>1, <2>2, PlaceStep, Constants
<1>9. ASSUME NEW t \in Waiter \cup {"poll"}, Sending(t) PROVE PlaceInv'
  BY <1>1, <1>2, <1>3, <1>4, <1>9 DEF Sending, Removes
<1>10. ASSUME SchedNext PROVE PlaceInv'
  BY <1>1, <1>7, <1>8, <1>10 DEF SchedNext, Passes
<1> QED BY <1>1, <1>5, <1>6, <1>9, <1>10 DEF Next, vars, WaiterNext, PollNext

LEMMA TickNext == WaitInv /\ LockInv /\ TickInv /\ PlaceInv /\ [Next]_vars => TickInv'
<1> SUFFICES ASSUME WaitInv, LockInv, TickInv, PlaceInv, [Next]_vars PROVE TickInv'
  OBVIOUS
<1>1. CASE UNCHANGED <<list, todo>> /\ pc'["sched"] = pc["sched"]
  BY <1>1 DEF TickInv
<1>2. ASSUME NEW t \in Waiter \cup {"poll"}, NEW place \in Place,
             pc' = pc \/ pc' = [pc EXCEPT ![t] = place]
      PROVE  pc'["sched"] = pc["sched"]
  BY <1>2, Constants DEF WaitInv, WaitType
<1>3. ASSUME NEW t \in Waiter \cup {"poll"}, NEW s \in Session, Adds(t, s) \/ Removes(t, s)
      PROVE  TickInv'
  <2>1. todo = {}
    BY <1>3, FreeIsNoThread, Constants DEF Adds, Removes, LockInv, Locking, TickInv
  <2>2. todo' = todo
    BY <1>3 DEF Adds, Removes
  <2> QED BY <2>1, <2>2 DEF TickInv
<1>4. ASSUME NEW t \in Waiter \cup {"poll"}, NEW s \in Session, Sends(t, s) PROVE TickInv'
  <2>1. UNCHANGED <<list, todo>> /\ \E place \in Place : pc' = [pc EXCEPT ![t] = place]
    BY <1>4 DEF Sends, sessions, Place
  <2> QED BY <1>1, <1>2, <2>1
<1>5. ASSUME NEW t \in Waiter \cup {"poll"}, Added(t) \/ Sent(t) PROVE TickInv'
  <2>1. UNCHANGED <<list, todo>> /\ \E place \in Place : pc' = [pc EXCEPT ![t] = place]
    BY <1>5 DEF Added, Sent, Goes, sessions, Place
  <2> QED BY <1>1, <1>2, <2>1
<1>6. ASSUME NEW t \in Waiter, WakesUp(t) \/ LocksAgain(t) PROVE TickInv'
  <2>1. UNCHANGED <<list, todo>> /\ \E place \in Place : pc' = [pc EXCEPT ![t] = place]
    BY <1>6 DEF WakesUp, LocksAgain, Goes, sessions, Place
  <2> QED BY <1>1, <1>2, <2>1
<1>7. ASSUME Selects \/ And \/ AndNot \/ Selected \/ Unblocked \/ Handled PROVE TickInv'
  <2>1. UNCHANGED <<list, todo>> /\ \E place \in Place : pc' = [pc EXCEPT !["poll"] = place]
    BY <1>7 DEF Selects, And, AndNot, Selected, Unblocked, Handled, Goes, sessions, Place
  <2> QED BY <1>1, <1>2, <2>1
<1>8. ASSUME NEW s \in Session, Passes(s) \/ Reports(s) PROVE TickInv'
  <2>1. /\ list' = list /\ todo' \subseteq todo
        /\ pc'["sched"] \in {"process", "report"}
    BY <1>8, Constants DEF Passes, Reports, Goes, sessions, WaitInv, WaitType
  <2> QED BY <2>1 DEF TickInv
<1>9. CASE Ticks \/ Reported
  <2>1. list' = list /\ todo' \in {todo, list} /\ pc'["sched"] = "process"
    BY <1>9, Constants DEF Ticks, Reported, Goes, sessions, WaitInv, WaitType
  <2> QED BY <2>1 DEF TickInv
<1>10. CASE Processed \/ TimePasses
  <2>1. list' = list /\ todo' = todo /\ todo = {}
    BY <1>10 DEF Processed, TimePasses, Goes, sessions, TickInv
  <2> QED BY <2>1 DEF TickInv
<1>11. ASSUME NEW t \in Waiter \cup {"poll"}, Sending(t) PROVE TickInv'
  BY <1>3, <1>4, <1>5, <1>11 DEF Sending
<1>12. CASE SchedNext
  BY <1>8, <1>9, <1>10, <1>12 DEF SchedNext
<1>13. CASE UNCHANGED vars
  BY <1>1, <1>13 DEF vars, sessions
<1> QED BY <1>6, <1>7, <1>11, <1>12, <1>13 DEF Next, WaiterNext, PollNext

\* The masks hold positions only, each thread is at a place of its own code,
\* and rtp_scheduler_schedule and session_set_select are on sessions that are
\* still in the scheduler's list, although others add, remove and send.
THEOREM SchedulerTypes == Spec => []TypeOK
<1>1. Init => BaseInv /\ MaskInv /\ PlaceInv /\ TickInv
  BY WaitInit, PositionInit, LocksInit, CurInit, TypesInit DEF BaseInv
<1>2. /\ BaseInv /\ MaskInv /\ PlaceInv /\ TickInv /\ [Next]_vars
      => BaseInv' /\ MaskInv' /\ PlaceInv' /\ TickInv'
  BY WaitNext, PositionNext, LockNext, WpLockNext, CurNext, MaskNext, PlaceNext, TickNext
     DEF BaseInv
<1>3. BaseInv /\ MaskInv /\ PlaceInv /\ TickInv => TypeOK
  BY DEF BaseInv, WaitInv, WaitType, PositionInv, PositionType, WpLockInv, CurInv,
         MaskInv, PlaceInv, TickInv, TypeOK, Watched
<1> QED BY <1>1, <1>2, <1>3, PTL DEF Spec
=============================================================================
