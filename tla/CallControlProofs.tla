------------------------- MODULE CallControlProofs -------------------------
(***************************************************************************)
(* Theorems about CallControl, for every set of legs, every queue bound    *)
(* and every configuration: types first, then safety.  The argument for    *)
(* safety is about the events that wait in the stack's queue: as long as   *)
(* lc->call has not been left dangling, the queue tells a consistent story *)
(* about each leg, and what is still to be read agrees with the state of   *)
(* the call.                                                               *)
(***************************************************************************)
EXTENDS CallControl, SequenceTheorems, TLAPS

USE NoCallAssumption, LegAssumption, ConfigAssumption, QueueAssumption, GarbageAssumption

(* Handling an event takes a well-formed event and leaves a queue of them. *)
LEMMA HandledEvent ==
  ASSUME TypeOK, NEW t, Handles(t)
  PROVE  ev \in Event /\ evq' \in Seq(Event)
  BY DEF TypeOK, Handles, ev

(* The pieces the handlers are built from keep their types. *)
LEMMA LoggedType ==
  ASSUME TypeOK, NEW c \in LinphoneCall
  PROVE  Logged(c) \in [Leg -> LogStatus]
  BY DEF TypeOK, Logged, Completed, LinphoneCall, CallState, CallDir, LogStatus

LEMMA TerminatedType ==
  ASSUME TypeOK, NEW c
  PROVE  Terminated(c) \in [Leg -> LegState] /\ Refused(c) \in [Leg -> LegState]
  BY DEF TypeOK, Terminated, Refused, LegState

LEMMA NewCallType ==
  ASSUME NEW c \in Leg, NEW d \in CallDir
  PROVE  NewCall(c, d) \in LinphoneCall
  BY DEF NewCall, LinphoneCall, CallState

LEMMA HasCallType ==
  ASSUME TypeOK, HasCall
  PROVE  call \in LinphoneCall
  BY DEF TypeOK, HasCall

LEMMA StartedType == Started \in {"allocated", "running"}
  BY DEF Started


(* Placing and terminating a call keep the types of what they change. *)
LEMMA PlacesCallType ==
  ASSUME TypeOK, NEW logs \in [Leg -> LogStatus], PlacesCall(logs)
  PROVE  /\ call' \in LinphoneCall \cup {NoCall}
         /\ audio' \in {"none", "allocated", "running"}
         /\ ring' \in BOOLEAN
         /\ gstate' \in GState
         /\ call_logs' \in [Leg -> LogStatus]
         /\ leg' \in [Leg -> LegState]
         /\ fault' = fault
  BY NewCallType DEF PlacesCall, NewStream, TypeOK, GState, LegState, CallDir

LEMMA TerminatesCallType ==
  ASSUME TypeOK, TerminatesCall
  PROVE  /\ call' \in LinphoneCall \cup {NoCall}
         /\ audio' \in {"none", "allocated", "running"}
         /\ ring' \in BOOLEAN
         /\ gstate' \in GState
         /\ call_logs' \in [Leg -> LogStatus]
         /\ leg' \in [Leg -> LegState]
         /\ fault' \in {"none", "null", "heap", "refer"}
<1>1. call \in LinphoneCall
  BY HasCallType DEF TerminatesCall
<1>2. [call EXCEPT !.freed = TRUE] \in LinphoneCall
  BY <1>1 DEF LinphoneCall
<1>3. CASE call.freed
  BY <1>3 DEF TerminatesCall, Destroys, Dies, core, TypeOK
<1>4. CASE ~call.freed
  <2>1. /\ call_logs' = Logged(call)
        /\ leg' = Terminated(call.cid)
        /\ call' = [call EXCEPT !.freed = TRUE]
        /\ GoesSilent
        /\ fault' = fault
    BY <1>4 DEF TerminatesCall, Destroys
  <2>2. Logged(call) \in [Leg -> LogStatus] /\ Terminated(call.cid) \in [Leg -> LegState]
    BY <1>1, LoggedType, TerminatedType
  <2> QED
    BY <1>2, <2>1, <2>2 DEF GoesSilent, TypeOK, GState
<1> QED BY <1>3, <1>4

(* The operations of the user keep every variable in its type. *)
LEMMA UserType ==
  ASSUME TypeOK, UNCHANGED sdp_200_ack, User
  PROVE  TypeOK'
<1>1. CASE Invite
  BY <1>1, PlacesCallType DEF Invite, TypeOK, loop
<1>2. CASE TerminateCall
  BY <1>2, TerminatesCallType DEF TerminateCall, TypeOK, loop
<1>3. CASE AcceptCall
  <2>1. call \in LinphoneCall
    BY <1>3, HasCallType DEF AcceptCall
  <2>2. [call EXCEPT !.state = "AVRunning"] \in LinphoneCall
    BY <2>1 DEF LinphoneCall, CallState
  <2> QED
    BY <1>3, <2>1, <2>2, StartedType
       DEF AcceptCall, NewStream, Dies, core, loop, TypeOK, GState, LegState
<1>4. CASE Refer
  BY <1>4 DEF Refer, Dies, core, loop, TypeOK
<1>5. CASE DialogCloses
  BY <1>5 DEF DialogCloses, core, env, TypeOK
<1> QED BY <1>1, <1>2, <1>3, <1>4, <1>5 DEF User

(* A call that takes the cid of an event, or another state, is still a call. *)
LEMMA ChangedCallType ==
  ASSUME TypeOK, HasCall, evq # << >>
  PROVE  /\ Adopted \in LinphoneCall
         /\ \A st \in CallState :
              /\ [call EXCEPT !.state = st] \in LinphoneCall
              /\ [Adopted EXCEPT !.state = st] \in LinphoneCall
         /\ \A b \in BOOLEAN :
              /\ [call EXCEPT !.sdp = b] \in LinphoneCall
              /\ [Adopted EXCEPT !.sdp = b] \in LinphoneCall
              /\ [Adopted EXCEPT !.freed = b] \in LinphoneCall
<1>1. call \in LinphoneCall
  BY HasCallType
<1>2. ev \in Event
  BY DEF TypeOK, ev
<1>3. Adopted \in LinphoneCall
  BY <1>1, <1>2 DEF Adopted, LinphoneCall, Event
<1> QED BY <1>1, <1>3 DEF LinphoneCall, CallState


(* Every handler keeps every variable in its type. *)
LEMMA HandlerType ==
  ASSUME TypeOK, UNCHANGED sdp_200_ack, ProcessEvent
  PROVE  TypeOK'
<1> USE DEF core, loop
<1>0. ev \in Event /\ evq' \in Seq(Event) /\ evq # << >> /\ pc' \in {"idle", "drain", "check"}
  <2>1. PICK t \in EventType : Handles(t)
    BY DEF ProcessEvent, CallAccepted, CallProceeding, CallRinging, CallTerminated,
           CallFailure, CallReleased, CallRedirected, IncNewCall, HandleReinvite,
           HandleAck, EventType
  <2> QED
    BY <2>1, HandledEvent
       DEF Handles, TypeOK, ProcessEvent, CallAccepted, CallProceeding, CallRinging,
           CallTerminated, CallFailure, CallReleased, CallRedirected, IncNewCall,
           HandleReinvite, HandleAck
<1>a. /\ Terminated(ev.leg) \in [Leg -> LegState]
      /\ Refused(ev.leg) \in [Leg -> LegState]
      /\ Started \in {"none", "allocated", "running"}
  BY TerminatedType, StartedType
<1>b. ASSUME HasCall
      PROVE  /\ call \in LinphoneCall
             /\ Adopted \in LinphoneCall
             /\ Logged(call) \in [Leg -> LogStatus]
             /\ Logged(Adopted) \in [Leg -> LogStatus]
             /\ \A st \in CallState : [call EXCEPT !.state = st] \in LinphoneCall
             /\ \A st \in CallState : [Adopted EXCEPT !.state = st] \in LinphoneCall
  BY <1>0, <1>b, HasCallType, ChangedCallType, LoggedType
<1>1. CASE CallAccepted
  <2>1. CASE Stray
    BY <1>0, <1>1, <2>1, TerminatedType DEF CallAccepted, TypeOK, Stray
  <2>2. CASE ~Stray
    <3>1. HasCall
      BY <2>2 DEF Stray
    <3>2. [Adopted EXCEPT !.freed = TRUE] \in LinphoneCall
      BY <1>b, <3>1 DEF LinphoneCall
    <3>3. \A b \in BOOLEAN : [Adopted EXCEPT !.sdp = b, !.state = "AVRunning"] \in LinphoneCall
      BY <1>b, <3>1 DEF LinphoneCall, CallState
    <3>4. sdp_200_ack \/ Adopted.sdp \in BOOLEAN
      BY <1>b, <3>1 DEF LinphoneCall
    <3>5. CASE call.state = "AVRunning"
      BY <1>0, <1>1, <1>b, <2>2, <3>1, <3>5 DEF CallAccepted, TypeOK
    <3>6. CASE call.state # "AVRunning" /\ (~sdp_200_ack \/ ev.arg = "good")
      BY <1>0, <1>1, <1>a, <2>2, <3>1, <3>3, <3>4, <3>6, ZenonT(60)
         DEF CallAccepted, TypeOK, Dies, ConnectsIncoming, GState, LegState
    <3>7. CASE call.state # "AVRunning" /\ sdp_200_ack /\ ev.arg # "good"
      BY <1>0, <1>1, <1>a, <1>b, <2>2, <3>1, <3>2, <3>7
         DEF CallAccepted, TypeOK, Dies, GoesSilent, GState
    <3> QED BY <3>5, <3>6, <3>7
  <2> QED BY <2>1, <2>2
<1>2. CASE CallProceeding
  BY <1>0, <1>2, TerminatedType, ChangedCallType DEF CallProceeding, TypeOK, Stray
<1>3. CASE CallRinging
  <2>1. CASE ~HasCall
    BY <1>0, <1>3, <1>a, <2>1 DEF CallRinging, TypeOK, Stray
  <2>2. CASE HasCall /\ Stray
    BY <1>0, <1>3, <1>a, <1>b, <2>2 DEF CallRinging, TypeOK, Dies, CallState, GState
  <2>3. CASE HasCall /\ ~Stray
    BY <1>0, <1>3, <1>a, <1>b, <2>3 DEF CallRinging, TypeOK, Dies, CallState, GState
  <2> QED BY <2>1, <2>2, <2>3
<1>4. CASE CallTerminated
  BY <1>0, <1>4, <1>b
     DEF CallTerminated, TypeOK, ClosesCall, Destroys, Dies, GoesSilent, GState
<1>5. CASE CallFailure
  BY <1>0, <1>5, <1>b
     DEF CallFailure, TypeOK, ClosesCall, Destroys, Dies, GoesSilent, GState
<1>6. CASE CallReleased
  BY <1>0, <1>6, LoggedType, HasCallType
     DEF CallReleased, TypeOK, Destroys, Dies, GState
<1>7. CASE CallRedirected
  <2>1. CASE HasCall
    <3>1. Logged(call) \in [Leg -> LogStatus]
      BY <2>1, LoggedType, HasCallType
    <3> QED
      BY <1>0, <1>7, <2>1, <3>1, PlacesCallType
         DEF CallRedirected, TypeOK, Destroys, Dies
  <2>2. CASE ~HasCall
    BY <1>0, <1>7, <2>2, PlacesCallType DEF CallRedirected, TypeOK
  <2> QED BY <2>1, <2>2
<1>8. CASE IncNewCall
  <2>1. /\ NewCall(ev.leg, "Incoming") \in LinphoneCall
        /\ Logged(NewCall(ev.leg, "Incoming")) \in [Leg -> LogStatus]
        /\ [NewCall(ev.leg, "Incoming") EXCEPT
             !.state = "Ringing", !.sdp = (ev.arg = "good")] \in LinphoneCall
    BY <1>0, NewCallType, LoggedType, ZenonT(60) DEF Event, CallDir, CallState, LinphoneCall
  <2> QED
    BY <1>0, <1>8, <2>1, TerminatedType DEF IncNewCall, AnswersSdp, NewStream, TypeOK, GState
<1>9. CASE HandleReinvite
  <2>1. CASE ~HasCall
    BY <1>0, <1>9, <2>1 DEF HandleReinvite, Dies, TypeOK
  <2>2. CASE HasCall
    <3>1. /\ [call EXCEPT !.sdp = TRUE, !.state = "AVRunning"] \in LinphoneCall
          /\ [call EXCEPT !.sdp = TRUE] \in LinphoneCall
      BY <1>b, <2>2 DEF LinphoneCall, CallState
    <3> QED
      BY <1>0, <1>9, <1>a, <2>2, <3>1 DEF HandleReinvite, RestartsMedia, Dies, TypeOK
  <2> QED BY <2>1, <2>2
<1>10. CASE HandleAck
  BY <1>0, <1>10, ChangedCallType, StartedType
     DEF HandleAck, ConnectsIncoming, Dies, TypeOK, CallState
<1> QED
  BY <1>1, <1>2, <1>3, <1>4, <1>5, <1>6, <1>7, <1>8, <1>9, <1>10 DEF ProcessEvent


(* So do the other steps of an iteration, the clock and the heap. *)
LEMMA LoopType ==
  ASSUME TypeOK, UNCHANGED sdp_200_ack, TimerFires \/ DrainDone \/ Check \/ TimePasses \/ HeapReuse
  PROVE  TypeOK'
<1>1. CASE TimerFires
  BY <1>1 DEF TimerFires, TypeOK, core, env
<1>2. CASE DrainDone
  BY <1>2 DEF DrainDone, TypeOK, core, LegState
<1>3. CASE Check
  BY <1>3, TerminatesCallType DEF Check, TypeOK, core
<1>4. CASE TimePasses
  <2>1. [call EXCEPT !.expired = TRUE] \in LinphoneCall
    BY <1>4, HasCallType DEF TimePasses, LinphoneCall
  <2> QED BY <1>4, <2>1 DEF TimePasses, TypeOK, loop, env
<1>5. CASE HeapReuse
  <2>1. PICK g \in Garbage :
          call' = [call EXCEPT !.cid = g.cid, !.dir = g.dir, !.state = g.state]
    BY <1>5 DEF HeapReuse
  <2>2. call' \in LinphoneCall
    BY <1>5, <2>1, HasCallType DEF HeapReuse, LinphoneCall
  <2> QED BY <1>5, <2>2 DEF HeapReuse, TypeOK, loop, env
<1> QED BY <1>1, <1>2, <1>3, <1>4, <1>5

(* Whatever the peers and the stack send, the queue holds events. *)
LEMMA SignalsType ==
  ASSUME TypeOK, UNCHANGED sdp_200_ack, NEW c \in Leg, NEW from, NEW to \in LegState,
         NEW type \in EventType, NEW args \in SUBSET EventArg,
         Signals(c, from, to, type, args)
  PROVE  TypeOK'
<1>1. PICK a \in args : evq' = Append(evq, [type |-> type, leg |-> c, arg |-> a])
  BY DEF Signals
<1>2. [type |-> type, leg |-> c, arg |-> a] \in Event
  BY <1>1 DEF Event
<1>3. evq' \in Seq(Event)
  BY <1>1, <1>2 DEF TypeOK
<1> QED BY <1>3 DEF Signals, TypeOK, core, loop

LEMMA EnvironmentType ==
  ASSUME TypeOK, UNCHANGED sdp_200_ack, Environment
  PROVE  TypeOK'
<1> PICK c \in Leg :
      \/ PeerProceeds(c)  \/ PeerRings(c)     \/ PeerAnswers(c) \/ PeerChallenges(c)
      \/ PeerFails(c)     \/ PeerRedirects(c) \/ PeerInvites(c) \/ PeerCancels(c)
      \/ PeerAcks(c)      \/ PeerReinvites(c) \/ PeerHangsUp(c) \/ StackReleases(c)
  BY DEF Environment
<1> USE DEF LegState, EventType, EventArg
<1>1. CASE PeerProceeds(c)
  BY <1>1, SignalsType DEF PeerProceeds
<1>2. CASE PeerRings(c)
  BY <1>2, SignalsType DEF PeerRings
<1>3. CASE PeerAnswers(c)
  BY <1>3, SignalsType DEF PeerAnswers
<1>4. CASE PeerChallenges(c)
  BY <1>4, SignalsType DEF PeerChallenges
<1>5. CASE PeerFails(c)
  BY <1>5, SignalsType DEF PeerFails
<1>6. CASE PeerRedirects(c)
  BY <1>6, SignalsType DEF PeerRedirects
<1>7. CASE PeerInvites(c)
  BY <1>7, SignalsType DEF PeerInvites
<1>8. CASE PeerCancels(c)
  BY <1>8, SignalsType DEF PeerCancels
<1>9. CASE PeerAcks(c)
  BY <1>9, SignalsType DEF PeerAcks
<1>10. CASE PeerReinvites(c)
  BY <1>10, SignalsType DEF PeerReinvites
<1>11. CASE PeerHangsUp(c)
  BY <1>11, SignalsType DEF PeerHangsUp
<1>12. CASE StackReleases(c)
  BY <1>12, SignalsType DEF StackReleases
<1> QED
  BY <1>1, <1>2, <1>3, <1>4, <1>5, <1>6, <1>7, <1>8, <1>9, <1>10, <1>11, <1>12

(* Type correctness: no handler, in any order, leaves a variable outside its
   type; in particular the record of a call never loses a field. *)
THEOREM TypeCorrect == Spec => []TypeOK
<1>1. Init => TypeOK
  <2> SUFFICES ASSUME Init PROVE TypeOK
    OBVIOUS
  <2>1. evq \in Seq(Event)
    BY DEF Init
  <2>2. call_logs \in [Leg -> LogStatus]
    BY DEF Init, LogStatus
  <2>3. leg \in [Leg -> LegState]
    BY DEF Init, LegState
  <2> QED
    BY <2>1, <2>2, <2>3 DEF Init, TypeOK, GState
<1>2. TypeOK /\ [Next]_vars => TypeOK'
  <2> SUFFICES ASSUME TypeOK, [Next]_vars PROVE TypeOK'
    OBVIOUS
  <2>1. CASE UNCHANGED vars
    BY <2>1 DEF vars, core, loop, env, TypeOK
  <2>2. CASE Next
    BY <2>2, UserType, HandlerType, LoopType, EnvironmentType DEF Next, Iterate
  <2> QED BY <2>1, <2>2
<1> QED BY <1>1, <1>2, PTL DEF Spec


(* The general state shown to the user is not idle while a call exists: the
   handlers that set GSTATE_CALL_IDLE are exactly those that end the call, and
   none of those that replace the call forgets to announce the new one. *)
LEMMA HandlerShows ==
  ASSUME TypeOK, LiveCallIsShown, ProcessEvent
  PROVE  LiveCallIsShown'
<1> USE DEF LiveCallIsShown, Live, HasCall, core, Dies, GoesSilent
<1>1. CASE CallAccepted
  <2>1. CASE Stray
    BY <1>1, <2>1 DEF CallAccepted, Stray
  <2>2. CASE ~Stray
    <3>1. Adopted.freed = call.freed
      BY <2>2 DEF Stray, TypeOK, LinphoneCall, Adopted
    <3>2. [Adopted EXCEPT !.freed = TRUE].freed
      BY <2>2 DEF Stray, TypeOK, LinphoneCall, Adopted
    <3> QED BY <1>1, <2>2, <3>1, <3>2 DEF CallAccepted, Stray, ConnectsIncoming
  <2> QED BY <2>1, <2>2
<1>2. CASE CallProceeding
  BY <1>2 DEF CallProceeding, Stray, Adopted, TypeOK, LinphoneCall
<1>3. CASE CallRinging
  <2>1. ASSUME HasCall
        PROVE  /\ Adopted.freed = call.freed
               /\ [Adopted EXCEPT !.state = "Ringing"].freed = call.freed
               /\ [call EXCEPT !.state = "Ringing"].freed = call.freed
    BY <2>1 DEF Adopted, TypeOK, LinphoneCall
  <2> QED BY <1>3, <2>1 DEF CallRinging, Stray
<1>4. CASE CallTerminated
  BY <1>4 DEF CallTerminated, ClosesCall, Destroys
<1>5. CASE CallFailure
  BY <1>5 DEF CallFailure, ClosesCall, Destroys
<1>6. CASE CallReleased
  BY <1>6 DEF CallReleased, Destroys
<1>7. CASE CallRedirected
  BY <1>7 DEF CallRedirected, Destroys, PlacesCall
<1>8. CASE IncNewCall
  BY <1>8 DEF IncNewCall
<1>9. CASE HandleReinvite
  <2>1. HasCall => /\ [call EXCEPT !.sdp = TRUE].freed = call.freed
                   /\ [call EXCEPT !.sdp = TRUE, !.state = "AVRunning"].freed = call.freed
    BY DEF TypeOK, LinphoneCall
  <2> QED BY <1>9, <2>1 DEF HandleReinvite
<1>10. CASE HandleAck
  <2>1. HasCall => [call EXCEPT !.state = "AVRunning"].freed = call.freed
    BY DEF TypeOK, LinphoneCall
  <2> QED BY <1>10, <2>1 DEF HandleAck, ConnectsIncoming
<1> QED
  BY <1>1, <1>2, <1>3, <1>4, <1>5, <1>6, <1>7, <1>8, <1>9, <1>10 DEF ProcessEvent

LEMMA OthersShow ==
  ASSUME TypeOK, LiveCallIsShown,
         User \/ TimerFires \/ DrainDone \/ Check \/ TimePasses \/ HeapReuse \/ Environment
  PROVE  LiveCallIsShown'
<1> USE DEF LiveCallIsShown, Live, HasCall, core, Dies
<1>1. CASE Invite
  BY <1>1 DEF Invite, PlacesCall
<1>2. CASE TerminateCall \/ Check
  BY <1>2 DEF TerminateCall, Check, TerminatesCall, Destroys, TypeOK, LinphoneCall
<1>3. CASE AcceptCall
  BY <1>3 DEF AcceptCall, TypeOK, LinphoneCall
<1>4. CASE Refer \/ DialogCloses \/ TimerFires \/ DrainDone
  BY <1>4 DEF Refer, DialogCloses, TimerFires, DrainDone
<1>5. CASE TimePasses \/ HeapReuse
  BY <1>5 DEF TimePasses, HeapReuse, TypeOK, LinphoneCall
<1>6. CASE Environment
  <2>1. UNCHANGED core
    BY <1>6 DEF Environment, Signals, PeerProceeds, PeerRings, PeerAnswers,
       PeerChallenges, PeerFails, PeerRedirects, PeerInvites, PeerCancels, PeerAcks,
       PeerReinvites, PeerHangsUp, StackReleases
  <2> QED BY <2>1
<1> QED BY <1>1, <1>2, <1>3, <1>4, <1>5, <1>6 DEF User

(* In every reachable state, for any number of calls and events: the state the
   user is shown is not idle while there is a call. *)
THEOREM CallIsShown == Spec => []LiveCallIsShown
<1>1. Init => LiveCallIsShown
  BY DEF Init, LiveCallIsShown, Live, HasCall
<1>2. TypeOK /\ LiveCallIsShown /\ [Next]_vars => LiveCallIsShown'
  <2> SUFFICES ASSUME TypeOK, LiveCallIsShown, [Next]_vars PROVE LiveCallIsShown'
    OBVIOUS
  <2>1. CASE UNCHANGED vars
    BY <2>1 DEF vars, core, LiveCallIsShown, Live, HasCall
  <2>2. CASE Next
    BY <2>2, HandlerShows, OthersShow DEF Next, Iterate
  <2> QED BY <2>1, <2>2
<1> QED BY <1>1, <1>2, TypeCorrect, PTL DEF Spec

----------------------------------------------------------------------------
(* The queue, as a set of events and as an order among those of one leg. *)

Pending == {evq[i] : i \in 1..Len(evq)}

Waiting(type, c) == \E e \in Pending : e.type = type /\ e.leg = c

\* An ACK that carries the answer to the offer of our 200.
OfferAnswered(e) == e.type = "ACK" /\ e.arg # "none"

\* No signalling of the dialogue follows, only the release of its state.
Terminal(e) ==
  e.type \in {"CLOSED", "REDIRECTED"} \/ (e.type = "FAILURE" /\ e.arg # "auth")

\* An event f may follow the event e of the same leg.
Follows(e, f) ==
  /\ e.type # "RELEASED"
  /\ f.type # "INVITE"
  /\ Terminal(e) => f.type = "RELEASED"
  /\ e.type = "ANSWERED" => f.type \notin {"ANSWERED", "RINGING", "REDIRECTED"}
  /\ e.type = "REINVITE" => f.type # "ACK"

Ordered ==
  \A i, j \in 1..Len(evq) :
    i < j /\ evq[i].leg = evq[j].leg => Follows(evq[i], evq[j])

----------------------------------------------------------------------------
(* The inductive invariant, as long as lc->call does not dangle. *)

Current(c) == HasCall /\ call.cid = c

Over == {"ended", "released"}

\* Every dialogue under way is the current call's, and the stack announces
\* those the engine has not heard of, and the end of those it keeps.
LegOK(c) ==
  /\ leg[c] # "cancelling"
  /\ leg[c] \in {"calling", "challenged", "answered", "up", "accepted", "offering"}
       => Current(c)
  /\ leg[c] = "offered" => Current(c) \/ Waiting("INVITE", c)
  /\ leg[c] = "free" => ~Current(c) /\ \A e \in Pending : e.leg # c
  /\ leg[c] = "released" /\ Current(c) => Waiting("RELEASED", c)

LegsOK == \A c \in Leg : LegOK(c)

\* The call, its stream and its ring agree with its leg and its events.
CallOK ==
  HasCall =>
    /\ ~call.freed
    /\ call.cid \in Leg
    /\ call.dir = "Outgoing" =>
         leg[call.cid] \in {"calling", "challenged", "answered", "up"} \cup Over
    /\ call.dir = "Incoming" =>
         leg[call.cid] \in {"offered", "accepted", "offering", "up"} \cup Over
    /\ call.state = "AVRunning" => ~ring
    /\ call.state = "AVRunning" /\ audio = "none" => Waiting("CLOSED", call.cid)
    /\ call.state # "AVRunning"
         /\ (call.sdp \/ (call.dir = "Outgoing" /\ ~sdp_200_ack)) => audio # "none"
    /\ leg[call.cid] = "offering" => audio # "none"
    /\ leg[call.cid] = "accepted" => call.state = "AVRunning"
    /\ leg[call.cid] \in {"calling", "challenged"} => call.state # "AVRunning"
    /\ call.state # "AVRunning"
         /\ (leg[call.cid] = "up" \/ Waiting("REINVITE", call.cid))
         => \E e \in Pending : OfferAnswered(e) /\ e.leg = call.cid

\* The handlers that never compare the cid only meet events of their call.
EventOK(e) ==
  /\ e.type \in {"ANSWERED", "PROCEEDING", "RINGING", "FAILURE", "REDIRECTED"}
       => Current(e.leg) /\ call.dir = "Outgoing"
  /\ e.type \in {"RINGING", "REDIRECTED"} => call.state # "AVRunning"
  /\ e.type = "RINGING" => leg[e.leg] \in {"calling", "challenged", "answered"} \cup Over
  /\ e.type = "ANSWERED" => leg[e.leg] \in {"answered"} \cup Over
  /\ e.type \in {"ACK", "REINVITE"} => Current(e.leg) /\ leg[e.leg] \in {"up"} \cup Over
  /\ OfferAnswered(e) => audio # "none" /\ call.dir = "Incoming"
  /\ e.type = "REINVITE" => leg[e.leg] = "up" \/ Waiting("CLOSED", e.leg)
  /\ Terminal(e) => leg[e.leg] \in Over
  /\ e.type = "RELEASED" => leg[e.leg] = "released"
  /\ e.type = "INVITE" =>
       /\ ~Current(e.leg)
       /\ leg[e.leg] \in {"offered"} \cup Over
       /\ leg[e.leg] = "released" => Waiting("RELEASED", e.leg)

EventsOK == \A e \in Pending : EventOK(e)

\* The log knows only dialogues that are over.
LogsOK ==
  \A c \in Leg : leg[c] = "free" \/ Current(c) \/ Waiting("INVITE", c)
                   => call_logs[c] = "none"

\* The SDP offer in the INVITE is what creates the stream early enough.
FaultOK == fault = "null" => sdp_200_ack

Safe == Ordered /\ LegsOK /\ CallOK /\ EventsOK /\ LogsOK /\ FaultOK

\* After the local side hung up, lc->call points to a freed block for ever.
Lost == HasCall /\ call.freed

SafeInv == Lost \/ Safe

----------------------------------------------------------------------------
(* Taking an event from the queue, and adding one. *)

LEMMA TakingFromASequence ==
  ASSUME NEW S, NEW q \in Seq(S), q # << >>
  PROVE  /\ Len(q) \in Nat \ {0} /\ Head(q) = q[1]
         /\ Tail(q) \in Seq(S) /\ Len(Tail(q)) = Len(q) - 1
         /\ \A i \in 1..Len(Tail(q)) : Tail(q)[i] = q[i + 1] /\ i + 1 \in 1..Len(q)
         /\ \A i \in 2..Len(q) : i - 1 \in 1..Len(Tail(q)) /\ q[i] = Tail(q)[i - 1]
  OBVIOUS

LEMMA Taking ==
  ASSUME TypeOK, Ordered, evq # << >>, evq' = Tail(evq)
  PROVE  /\ ev \in Pending /\ ev \in Event
         /\ Pending' \subseteq Pending
         /\ \A e \in Pending : e = ev \/ e \in Pending'
         /\ \A e \in Pending' : e.leg = ev.leg => Follows(ev, e)
         /\ Ordered'
<1>1. /\ Len(evq) \in Nat \ {0} /\ Head(evq) = evq[1]
      /\ Len(evq') = Len(evq) - 1
      /\ \A i \in 1..Len(evq') : evq'[i] = evq[i + 1] /\ i + 1 \in 1..Len(evq)
      /\ \A i \in 2..Len(evq) : i - 1 \in 1..Len(evq') /\ evq[i] = evq'[i - 1]
  BY TakingFromASequence DEF TypeOK
<1>2. ev \in Pending /\ ev = evq[1]
  BY <1>1 DEF Pending, ev
<1>3. Pending' \subseteq Pending
  BY <1>1 DEF Pending
<1>4. ASSUME NEW e \in Pending PROVE e = ev \/ e \in Pending'
  <2>1. PICK i \in 1..Len(evq) : e = evq[i]
    BY DEF Pending
  <2>2. CASE i = 1
    BY <1>2, <2>1, <2>2
  <2>3. CASE i # 1
    <3>1. i \in 2..Len(evq)
      BY <1>1, <2>3
    <3> QED BY <1>1, <2>1, <3>1 DEF Pending
  <2> QED BY <2>2, <2>3
<1>5. ASSUME NEW e \in Pending', e.leg = ev.leg PROVE Follows(ev, e)
  <2>1. PICK i \in 1..Len(evq') : e = evq'[i]
    BY DEF Pending
  <2>2. i + 1 \in 1..Len(evq) /\ e = evq[i + 1] /\ 1 \in 1..Len(evq) /\ 1 < i + 1
    BY <1>1, <2>1
  <2> QED BY <1>2, <1>5, <2>2 DEF Ordered
<1>6. Ordered'
  <2> SUFFICES ASSUME NEW i \in 1..Len(evq'), NEW j \in 1..Len(evq'), i < j,
                      evq'[i].leg = evq'[j].leg
               PROVE  Follows(evq'[i], evq'[j])
    BY DEF Ordered, Follows, Terminal
  <2>1. /\ i + 1 \in 1..Len(evq) /\ j + 1 \in 1..Len(evq) /\ i + 1 < j + 1
        /\ evq'[i] = evq[i + 1] /\ evq'[j] = evq[j + 1]
    BY <1>1
  <2> QED BY <2>1 DEF Ordered
<1>7. ev \in Event
  BY DEF TypeOK, ev
<1> QED BY <1>2, <1>3, <1>4, <1>5, <1>6, <1>7

LEMMA Adding ==
  ASSUME TypeOK, Ordered, NEW e \in Event, evq' = Append(evq, e),
         \A f \in Pending : f.leg = e.leg => Follows(f, e)
  PROVE  Pending' = Pending \cup {e} /\ Ordered'
<1>1. /\ Len(evq) \in Nat /\ Len(evq') = Len(evq) + 1 /\ evq'[Len(evq')] = e
      /\ \A i \in 1..Len(evq) : evq'[i] = evq[i] /\ i \in 1..Len(evq')
      /\ \A i \in 1..Len(evq') : i \in 1..Len(evq) \/ i = Len(evq')
  BY DEF TypeOK
<1>2. Pending' = Pending \cup {e}
  <2>1. Len(evq') \in 1..Len(evq')
    BY <1>1
  <2> QED BY <1>1, <2>1 DEF Pending
<1>3. Ordered'
  <2> SUFFICES ASSUME NEW i \in 1..Len(evq'), NEW j \in 1..Len(evq'), i < j,
                      evq'[i].leg = evq'[j].leg
               PROVE  Follows(evq'[i], evq'[j])
    BY DEF Ordered, Follows, Terminal
  <2>1. i \in 1..Len(evq) /\ evq'[i] = evq[i]
    BY <1>1
  <2>2. CASE j \in 1..Len(evq)
    BY <1>1, <2>1, <2>2 DEF Ordered
  <2>3. CASE j = Len(evq')
    <3>1. evq[i] \in Pending
      BY <2>1 DEF Pending
    <3> QED BY <1>1, <2>1, <2>3, <3>1
  <2> QED BY <1>1, <2>2, <2>3
<1> QED BY <1>2, <1>3

LEMMA EventsArePending ==
  ASSUME TypeOK
  PROVE  /\ Pending \subseteq Event
         /\ evq' = evq => Pending' = Pending /\ (Ordered => Ordered')
  BY DEF TypeOK, Pending, Ordered, Follows, Terminal

LEMMA WaitingAfterTaking ==
  ASSUME TypeOK, Safe, evq # << >>, evq' = Tail(evq)
  PROVE  /\ \A t, c : Waiting(t, c)' => Waiting(t, c)
         /\ \A t, c : Waiting(t, c) => Waiting(t, c)' \/ (ev.type = t /\ ev.leg = c)
  BY Taking DEF Waiting, Safe

----------------------------------------------------------------------------
(* An event that changes nothing, or that ends the call. *)

LEMMA TakenQuietly ==
  ASSUME TypeOK, Safe, evq # << >>, evq' = Tail(evq), FaultOK',
         UNCHANGED <<sdp_200_ack, core, leg>>,
         ev.type # "INVITE", ~OfferAnswered(ev),
         ev.type \in {"CLOSED", "RELEASED"} => ~Current(ev.leg)
  PROVE  Safe'
<1> USE WaitingAfterTaking, Taking DEF core
<1>1. Ordered' /\ Pending' \subseteq Pending
  BY DEF Safe
<1>2. \A c : Current(c)' = Current(c)
  BY DEF Current, HasCall
<1>3. LegsOK'
  BY <1>1, <1>2 DEF Safe, LegsOK, LegOK
<1>4. CallOK'
  <2> SUFFICES ASSUME HasCall PROVE CallOK'
    BY DEF CallOK, HasCall
  <2>1. \A e \in Pending : OfferAnswered(e) => e \in Pending'
    BY DEF Safe
  <2>2. Current(call.cid)
    BY DEF Current
  <2> QED BY <2>1, <2>2 DEF Safe, CallOK, HasCall
<1>5. EventsOK'
  <2> SUFFICES ASSUME NEW e \in Pending' PROVE EventOK(e)'
    BY DEF EventsOK, EventOK, OfferAnswered, Terminal
  <2>1. e \in Pending /\ EventOK(e)
    BY <1>1 DEF Safe, EventsOK
  <2>2. e.leg = ev.leg => Follows(ev, e)
    BY DEF Safe
  <2> QED BY <1>2, <2>1, <2>2 DEF EventOK, Follows, OfferAnswered, Terminal, HasCall, Current
<1>6. LogsOK'
  BY <1>2 DEF Safe, LogsOK
<1> QED BY <1>1, <1>3, <1>4, <1>5, <1>6 DEF Safe

\* Between two calls, once the event is taken: no dialogue is under way, no
\* event needs a call, and logs has no entry for a dialogue still to come.
FreeAfter(logs) ==
  /\ Ordered'
  /\ \A c \in Leg :
       /\ leg[c] \in {"free", "offered"} \cup Over
       /\ leg[c] = "offered" => Waiting("INVITE", c)'
       /\ leg[c] = "free" => \A e \in Pending' : e.leg # c
       /\ leg[c] = "free" \/ Waiting("INVITE", c)' => logs[c] = "none"
  /\ \A e \in Pending' :
       /\ e \in Event
       /\ e.type \in {"CLOSED", "RELEASED", "INVITE"}
       /\ e.type = "CLOSED" => leg[e.leg] \in Over
       /\ e.type = "RELEASED" => leg[e.leg] = "released"
       /\ e.type = "INVITE" => leg[e.leg] \in {"offered"} \cup Over
       /\ e.type = "INVITE" /\ leg[e.leg] = "released" => Waiting("RELEASED", e.leg)'

\* Taking another event loses no INVITE, nor the release of its dialogue.
LEMMA InvitesStay ==
  ASSUME TypeOK, Safe, evq # << >>, evq' = Tail(evq), ev.type # "INVITE"
  PROVE  /\ \A c : Waiting("INVITE", c)' <=> Waiting("INVITE", c)
         /\ \A e \in Pending' : e.type = "INVITE" /\ Waiting("RELEASED", e.leg)
                                  => Waiting("RELEASED", e.leg)'
<1>1. \A c : Waiting("INVITE", c)' <=> Waiting("INVITE", c)
  BY WaitingAfterTaking
<1>2. ASSUME NEW e \in Pending', e.type = "INVITE", Waiting("RELEASED", e.leg)
      PROVE  Waiting("RELEASED", e.leg)'
  <2>1. e.leg = ev.leg => Follows(ev, e)
    BY Taking DEF Safe
  <2> QED BY <1>2, <2>1, WaitingAfterTaking DEF Follows
<1> QED BY <1>1, <1>2

LEMMA IdleIsFree ==
  ASSUME TypeOK, Safe, ~HasCall,
         evq' = evq \/ (evq # << >> /\ evq' = Tail(evq) /\ ev.type # "INVITE")
  PROVE  FreeAfter(call_logs)
<1>1. /\ Ordered' /\ Pending' \subseteq Pending /\ Pending \subseteq Event
      /\ \A c : Waiting("INVITE", c)' <=> Waiting("INVITE", c)
      /\ \A e \in Pending' : e.type = "INVITE" /\ Waiting("RELEASED", e.leg)
                               => Waiting("RELEASED", e.leg)'
  <2>1. CASE evq' = evq
    BY <2>1, EventsArePending DEF Safe, Waiting
  <2>2. CASE evq # << >> /\ evq' = Tail(evq) /\ ev.type # "INVITE"
    BY <2>2, EventsArePending, Taking, InvitesStay DEF Safe
  <2> QED BY <2>1, <2>2
<1>2. \A c : ~Current(c)
  BY DEF Current
<1>3. ASSUME NEW c \in Leg
      PROVE  /\ leg[c] \in {"free", "offered"} \cup Over
             /\ leg[c] = "offered" => Waiting("INVITE", c)'
             /\ leg[c] = "free" => \A e \in Pending' : e.leg # c
             /\ leg[c] = "free" \/ Waiting("INVITE", c)' => call_logs[c] = "none"
  <2>1. leg[c] \in LegState
    BY DEF TypeOK
  <2> QED BY <1>1, <1>2, <2>1 DEF Safe, LegsOK, LegOK, LogsOK, LegState, Over
<1>4. ASSUME NEW e \in Pending'
      PROVE  /\ e \in Event
             /\ e.type \in {"CLOSED", "RELEASED", "INVITE"}
             /\ e.type = "CLOSED" => leg[e.leg] \in Over
             /\ e.type = "RELEASED" => leg[e.leg] = "released"
             /\ e.type = "INVITE" => leg[e.leg] \in {"offered"} \cup Over
             /\ e.type = "INVITE" /\ leg[e.leg] = "released" => Waiting("RELEASED", e.leg)'
  <2>1. e \in Event /\ EventOK(e)
    BY <1>1 DEF Safe, EventsOK
  <2> QED BY <1>1, <1>2, <2>1 DEF EventOK, Terminal, Event, EventType
<1> QED BY <1>1, <1>3, <1>4 DEF FreeAfter

LEMMA EndFreesTheLine ==
  ASSUME TypeOK, Safe, evq # << >>, evq' = Tail(evq), Current(ev.leg),
         Terminal(ev) \/ ev.type = "RELEASED"
  PROVE  FreeAfter(Logged(call))
<1>1. /\ Ordered' /\ Pending' \subseteq Pending /\ Pending \subseteq Event
      /\ ev \in Event /\ ev \in Pending
      /\ \A c : Waiting("INVITE", c)' <=> Waiting("INVITE", c)
      /\ \A e \in Pending' : e.type = "INVITE" /\ Waiting("RELEASED", e.leg)
                               => Waiting("RELEASED", e.leg)'
  BY EventsArePending, Taking, InvitesStay DEF Safe, Terminal
<1>2. leg[ev.leg] \in Over /\ ev.leg \in Leg
  BY <1>1 DEF Safe, EventsOK, EventOK, Over, Event
<1>3. \A c : Current(c) => c = ev.leg
  BY DEF Current
<1>4. ASSUME NEW e \in Pending'
      PROVE  e.leg = ev.leg => e.type = "RELEASED"
  BY <1>4, Taking DEF Safe, Follows
<1>5. ASSUME NEW c \in Leg
      PROVE  /\ leg[c] \in {"free", "offered"} \cup Over
             /\ leg[c] = "offered" => Waiting("INVITE", c)'
             /\ leg[c] = "free" => \A e \in Pending' : e.leg # c
             /\ leg[c] = "free" \/ Waiting("INVITE", c)' => Logged(call)[c] = "none"
  <2>1. leg[c] \in LegState
    BY DEF TypeOK
  <2>2. Waiting("INVITE", c)' => c # ev.leg
    BY <1>4 DEF Waiting
  <2>3. c # ev.leg => Logged(call)[c] = call_logs[c]
    BY DEF Logged, Current
  <2> QED
    BY <1>1, <1>2, <1>3, <2>1, <2>2, <2>3 DEF Safe, LegsOK, LegOK, LogsOK, LegState, Over
<1>6. ASSUME NEW e \in Pending'
      PROVE  /\ e \in Event
             /\ e.type \in {"CLOSED", "RELEASED", "INVITE"}
             /\ e.type = "CLOSED" => leg[e.leg] \in Over
             /\ e.type = "RELEASED" => leg[e.leg] = "released"
             /\ e.type = "INVITE" => leg[e.leg] \in {"offered"} \cup Over
             /\ e.type = "INVITE" /\ leg[e.leg] = "released" => Waiting("RELEASED", e.leg)'
  <2>1. e \in Event /\ EventOK(e)
    BY <1>1 DEF Safe, EventsOK
  <2>2. Current(e.leg) => e.type = "RELEASED"
    BY <1>3, <1>4
  <2> QED BY <1>1, <2>1, <2>2 DEF EventOK, Terminal, Event, EventType
<1> QED BY <1>1, <1>5, <1>6 DEF FreeAfter

\* The line stays free.
LEMMA NoCallAfter ==
  ASSUME TypeOK, NEW logs, FreeAfter(logs), call' = NoCall, call_logs' = logs,
         UNCHANGED <<sdp_200_ack, leg>>, FaultOK'
  PROVE  Safe'
<1>1. \A c : ~Current(c)'
  BY DEF Current, HasCall
<1>2. LegsOK' /\ LogsOK'
  BY <1>1 DEF FreeAfter, LegsOK, LegOK, LogsOK, Over
<1>3. EventsOK'
  BY DEF FreeAfter, EventsOK, EventOK, Terminal, OfferAnswered, Over, Current, HasCall
<1>4. CallOK'
  BY DEF CallOK, HasCall
<1> QED BY <1>2, <1>3, <1>4 DEF FreeAfter, Safe

\* The free line is taken by a call that is placed.
LEMMA CallPlacedAfter ==
  ASSUME TypeOK, NEW logs, FreeAfter(logs), NEW c \in Leg, leg[c] = "free",
         leg' = [leg EXCEPT ![c] = "calling"], call' = NewCall(c, "Outgoing"),
         audio' = IF sdp_200_ack THEN audio ELSE NewStream,
         call_logs' = logs, UNCHANGED sdp_200_ack, FaultOK'
  PROVE  Safe'
<1>1. /\ \A d : Current(d)' <=> d = c
      /\ call'.cid = c /\ call'.dir = "Outgoing" /\ call'.state = "Init"
      /\ ~call'.sdp /\ ~call'.freed
  <2>1. call' \in LinphoneCall
    BY NewCallType DEF CallDir
  <2> QED BY <2>1 DEF Current, HasCall, NewCall
<1>2. leg'[c] = "calling" /\ \A d \in Leg : d # c => leg'[d] = leg[d]
  BY DEF TypeOK
<1>3. \A e \in Pending' : e.leg # c
  BY DEF FreeAfter
<1>4. ~Waiting("INVITE", c)' /\ ~Waiting("REINVITE", c)'
  BY <1>3 DEF Waiting
<1>5. LegsOK'
  <2> SUFFICES ASSUME NEW d \in Leg PROVE LegOK(d)'
    BY DEF LegsOK
  <2> QED BY <1>1, <1>2, <1>3 DEF LegOK, FreeAfter, Over
<1>6. LogsOK'
  BY <1>1, <1>2, <1>4 DEF LogsOK, FreeAfter
<1>7. EventsOK'
  <2> SUFFICES ASSUME NEW e \in Pending' PROVE EventOK(e)'
    BY DEF EventsOK, EventOK, OfferAnswered, Terminal
  <2>1. e.leg # c /\ leg'[e.leg] = leg[e.leg]
    BY <1>2, <1>3 DEF FreeAfter, Event
  <2> QED BY <1>1, <2>1 DEF EventOK, FreeAfter, Terminal, OfferAnswered, Over
<1>8. CallOK'
  BY <1>1, <1>2, <1>4 DEF CallOK, NewStream
<1> QED BY <1>5, <1>6, <1>7, <1>8 DEF FreeAfter, Safe

LEMMA PlacedCallIsSafe ==
  ASSUME TypeOK, FaultOK, NEW logs, FreeAfter(logs), PlacesCall(logs),
         UNCHANGED sdp_200_ack
  PROVE  Safe'
<1>1. FaultOK' /\ call_logs' = logs
  BY DEF PlacesCall, FaultOK
<1>2. CASE call' = NoCall /\ UNCHANGED leg
  BY <1>1, <1>2, NoCallAfter
<1>3. CASE \E c \in Leg :
             /\ leg[c] = "free"
             /\ leg' = [leg EXCEPT ![c] = "calling"]
             /\ call' = NewCall(c, "Outgoing")
             /\ audio' = IF sdp_200_ack THEN audio ELSE NewStream
  BY <1>1, <1>3, CallPlacedAfter
<1> QED BY <1>2, <1>3 DEF PlacesCall

----------------------------------------------------------------------------
(* The handlers of the answers to our INVITE. *)

LEMMA AdoptedIsCall ==
  ASSUME TypeOK, Current(ev.leg)
  PROVE  Adopted = call /\ HasCall /\ call \in LinphoneCall /\ ~Stray
BY DEF TypeOK, Current, HasCall, Adopted, LinphoneCall, Stray

\* Dying leaves the call, the stream and the legs as they are.
LEMMA DyingIsSafe ==
  ASSUME TypeOK, Safe, evq # << >>, evq' = Tail(evq), UNCHANGED sdp_200_ack,
         NEW why, Dies(why), why = "null" => sdp_200_ack,
         ev.type \in {"ANSWERED", "RINGING"}
  PROVE  Safe'
BY TakenQuietly DEF Dies, FaultOK, OfferAnswered, core

LEMMA CallAcceptedIsSafe ==
  ASSUME TypeOK, Safe, CallAccepted, UNCHANGED sdp_200_ack
  PROVE  SafeInv'
<1> USE DEF core
<1>0. evq # << >> /\ evq' = Tail(evq) /\ ev.type = "ANSWERED"
  BY DEF CallAccepted, Handles
<1>1. /\ ev \in Pending /\ ev \in Event /\ Pending' \subseteq Pending /\ Ordered'
      /\ \A e \in Pending' : e.leg = ev.leg => Follows(ev, e)
      /\ \A e \in Pending : e = ev \/ e \in Pending'
  BY <1>0, Taking DEF Safe
<1>2. /\ Current(ev.leg) /\ call.dir = "Outgoing" /\ ev.leg \in Leg
      /\ leg[ev.leg] \in {"answered"} \cup Over
  BY <1>0, <1>1 DEF Safe, EventsOK, EventOK, Event
<1>3. Adopted = call /\ HasCall /\ ~Stray /\ call \in LinphoneCall /\ ~call.freed
  BY <1>2, AdoptedIsCall DEF Safe, CallOK
<1>4. CASE UNCHANGED <<core, leg, fault>>
  BY <1>0, <1>4, TakenQuietly DEF SafeInv, Safe, FaultOK, OfferAnswered
<1>5. CASE call.state # "AVRunning" /\ sdp_200_ack /\ ev.arg # "good"
  <2>1. [Adopted EXCEPT !.freed = TRUE] \in LinphoneCall
    BY <1>0, <1>3, ChangedCallType
  <2>2. call' = [Adopted EXCEPT !.freed = TRUE] /\ call'.freed
    BY <1>3, <1>5 DEF CallAccepted, LinphoneCall
  <2> QED BY <2>1, <2>2 DEF SafeInv, Lost, HasCall
<1>6. CASE call.state # "AVRunning" /\ (~sdp_200_ack \/ ev.arg = "good")
  <2>1. ~sdp_200_ack => audio # "none"
    BY <1>2, <1>3, <1>6 DEF Safe, CallOK
  <2>2. /\ ConnectsIncoming([Adopted EXCEPT !.sdp = sdp_200_ack \/ @])
        /\ leg' = [leg EXCEPT ![ev.leg] = IF @ = "answered" THEN "up" ELSE @]
        /\ UNCHANGED <<call_logs, fault>>
    BY <1>3, <1>6, <2>1 DEF CallAccepted
  <2>3. /\ HasCall' /\ call'.cid = ev.leg /\ call'.dir = "Outgoing"
        /\ call'.state = "AVRunning" /\ ~call'.freed /\ ~ring' /\ audio' # "none"
    <3>1. [call EXCEPT !.sdp = sdp_200_ack \/ @, !.state = "AVRunning"] \in LinphoneCall
      BY <1>3 DEF LinphoneCall, CallState, TypeOK
    <3>2. call' = [call EXCEPT !.sdp = sdp_200_ack \/ @, !.state = "AVRunning"]
      BY <1>3, <2>2 DEF ConnectsIncoming
    <3> QED
      BY <1>2, <1>3, <2>2, <3>1, <3>2, StartedType
         DEF ConnectsIncoming, HasCall, Current, LinphoneCall
  <2>4. \A d : Current(d)' <=> Current(d)
    BY <1>2, <2>3 DEF Current, HasCall
  <2>5. /\ leg'[ev.leg] = IF leg[ev.leg] = "answered" THEN "up" ELSE leg[ev.leg]
        /\ \A d \in Leg : d # ev.leg => leg'[d] = leg[d]
    BY <1>2, <2>2 DEF TypeOK
  <2>7. \A t, d : t # "ANSWERED" => (Waiting(t, d)' <=> Waiting(t, d))
    BY <1>0, WaitingAfterTaking
  <2>8. LegsOK'
    <3> SUFFICES ASSUME NEW d \in Leg PROVE LegOK(d)'
      BY DEF LegsOK
    <3>1. LegOK(d)
      BY DEF Safe, LegsOK
    <3> QED BY <1>1, <1>2, <2>4, <2>5, <2>7, <3>1 DEF LegOK, Over
  <2>9. LogsOK'
    BY <1>2, <2>2, <2>4, <2>5, <2>7 DEF Safe, LogsOK, Over
  <2>10. CallOK'
    BY <1>2, <2>3, <2>5 DEF CallOK, Over
  <2>11. EventsOK'
    <3> SUFFICES ASSUME NEW e \in Pending' PROVE EventOK(e)'
      BY DEF EventsOK, EventOK, OfferAnswered, Terminal
    <3>1. e \in Pending /\ EventOK(e)
      BY <1>1 DEF Safe, EventsOK
    <3>2. e.leg \in Leg
      BY <1>1, <3>1, EventsArePending DEF Event
    <3>3. e.leg = ev.leg => e.type \notin {"ANSWERED", "RINGING", "REDIRECTED"}
      BY <1>0, <1>1 DEF Follows
    <3>4. Current(e.leg) <=> e.leg = ev.leg
      BY <1>2 DEF Current
    <3> QED BY <1>2, <2>3, <2>4, <2>5, <2>7, <3>1, <3>2, <3>3, <3>4
       DEF EventOK, OfferAnswered, Over
  <2> QED BY <1>1, <2>2, <2>8, <2>9, <2>10, <2>11 DEF Safe, SafeInv, FaultOK
<1>7. CASE fault' # fault
  BY <1>0, <1>2, <1>3, <1>7, DyingIsSafe DEF CallAccepted, SafeInv, Safe, CallOK
<1> QED
  BY <1>0, <1>3, <1>4, <1>5, <1>6, <1>7 DEF CallAccepted

LEMMA CallProceedingIsSafe ==
  ASSUME TypeOK, Safe, CallProceeding, UNCHANGED sdp_200_ack
  PROVE  Safe'
<1>1. evq # << >> /\ evq' = Tail(evq) /\ ev.type = "PROCEEDING"
  BY DEF CallProceeding, Handles
<1>2. Current(ev.leg)
  BY <1>1, Taking DEF Safe, EventsOK, EventOK
<1>3. UNCHANGED <<core, leg, fault>>
  BY <1>2, AdoptedIsCall DEF CallProceeding, core
<1> QED BY <1>1, <1>3, TakenQuietly DEF Safe, FaultOK, OfferAnswered

LEMMA CallRingingIsSafe ==
  ASSUME TypeOK, Safe, CallRinging, UNCHANGED sdp_200_ack
  PROVE  Safe'
<1> USE DEF core
<1>0. evq # << >> /\ evq' = Tail(evq) /\ ev.type = "RINGING"
  BY DEF CallRinging, Handles
<1>1. /\ ev \in Pending /\ ev \in Event /\ Pending' \subseteq Pending /\ Ordered'
      /\ \A e \in Pending : e = ev \/ e \in Pending'
  BY <1>0, Taking DEF Safe
<1>2. /\ Current(ev.leg) /\ call.dir = "Outgoing" /\ ev.leg \in Leg
      /\ call.state # "AVRunning"
      /\ leg[ev.leg] \in {"calling", "challenged", "answered"} \cup Over
  BY <1>0, <1>1 DEF Safe, EventsOK, EventOK, Event
<1>3. Adopted = call /\ HasCall /\ ~Stray /\ call \in LinphoneCall /\ ~call.freed
  BY <1>2, AdoptedIsCall DEF Safe, CallOK
<1>4. ~sdp_200_ack => audio # "none"
  BY <1>2, <1>3 DEF Safe, CallOK
<1>5. CASE ev.arg # "none" /\ audio = "none"
  BY <1>0, <1>3, <1>4, <1>5, DyingIsSafe DEF CallRinging
<1>6. CASE ~(ev.arg # "none" /\ audio = "none")
  <2>1. /\ call' = call \/ call' = [call EXCEPT !.state = "Ringing"]
        /\ audio # "none" => audio' # "none"
        /\ UNCHANGED <<call_logs, leg, fault>>
    BY <1>3, <1>6, StartedType DEF CallRinging
  <2>2. /\ call' \in LinphoneCall /\ HasCall' /\ call'.state # "AVRunning"
        /\ call'.cid = ev.leg /\ call'.dir = "Outgoing" /\ ~call'.freed
        /\ call'.sdp = call.sdp
    BY <1>2, <1>3, <2>1 DEF LinphoneCall, CallState, HasCall, Current
  <2>3. \A d : Current(d)' <=> Current(d)
    BY <1>2, <2>2 DEF Current, HasCall
  <2>4. \A t, d : t # "RINGING" => (Waiting(t, d)' <=> Waiting(t, d))
    BY <1>0, WaitingAfterTaking
  <2>5. LegsOK' /\ LogsOK'
    BY <1>1, <2>1, <2>3, <2>4 DEF Safe, LegsOK, LegOK, LogsOK
  <2>6. CallOK'
    <3>1. ~Waiting("REINVITE", ev.leg) /\ leg[ev.leg] # "up"
      <4>1. ASSUME NEW e \in Pending PROVE ~OfferAnswered(e)
        BY <1>2 DEF Safe, EventsOK, EventOK
      <4> QED BY <1>2, <1>3, <4>1 DEF Safe, CallOK, Current, Over
    <3> QED BY <1>2, <1>3, <2>1, <2>2, <2>4, <3>1 DEF Safe, CallOK, Over, HasCall, Current
  <2>7. EventsOK'
    <3> SUFFICES ASSUME NEW e \in Pending' PROVE EventOK(e)'
      BY DEF EventsOK, EventOK, OfferAnswered, Terminal
    <3>1. e \in Pending /\ EventOK(e)
      BY <1>1 DEF Safe, EventsOK
    <3> QED BY <1>2, <2>1, <2>2, <2>3, <2>4, <3>1 DEF EventOK, OfferAnswered
  <2> QED BY <1>1, <2>1, <2>5, <2>6, <2>7 DEF Safe, FaultOK
<1> QED BY <1>5, <1>6

----------------------------------------------------------------------------
(* The handlers that end the call. *)

LEMMA CallTerminatedIsSafe ==
  ASSUME TypeOK, Safe, CallTerminated, UNCHANGED sdp_200_ack
  PROVE  Safe'
<1>1. evq # << >> /\ evq' = Tail(evq) /\ ev.type = "CLOSED" /\ leg' = leg
  BY DEF CallTerminated, Handles
<1>2. CASE NotCurrent
  BY <1>1, <1>2, TakenQuietly
     DEF CallTerminated, NotCurrent, Current, Safe, FaultOK, OfferAnswered
<1>3. CASE ~HasCall
  BY <1>1, <1>3, IdleIsFree, NoCallAfter
     DEF CallTerminated, NotCurrent, HasCall, Safe, FaultOK
<1>4. CASE HasCall /\ ~NotCurrent
  <2>1. Current(ev.leg) /\ ~call.freed
    BY <1>4 DEF NotCurrent, Current, Safe, CallOK
  <2>2. call' = NoCall /\ call_logs' = Logged(call) /\ UNCHANGED fault
    BY <1>4, <2>1 DEF CallTerminated, ClosesCall, Destroys
  <2> QED BY <1>1, <2>1, <2>2, EndFreesTheLine, NoCallAfter DEF Safe, FaultOK, Terminal
<1> QED BY <1>2, <1>3, <1>4

LEMMA CallFailureIsSafe ==
  ASSUME TypeOK, Safe, CallFailure, UNCHANGED sdp_200_ack
  PROVE  Safe'
<1>1. evq # << >> /\ evq' = Tail(evq) /\ ev.type = "FAILURE" /\ leg' = leg
  BY DEF CallFailure, Handles
<1>2. Current(ev.leg) /\ HasCall /\ ~NotCurrent /\ ~call.freed
  BY <1>1, Taking DEF Safe, EventsOK, EventOK, Current, NotCurrent, CallOK
<1>3. CASE ev.arg = "auth"
  BY <1>1, <1>2, <1>3, TakenQuietly DEF CallFailure, Safe, FaultOK, OfferAnswered
<1>4. CASE ev.arg # "auth"
  <2>1. call' = NoCall /\ call_logs' = Logged(call) /\ UNCHANGED fault
    BY <1>2, <1>4 DEF CallFailure, ClosesCall, Destroys
  <2> QED
    BY <1>1, <1>2, <1>4, <2>1, EndFreesTheLine, NoCallAfter DEF Safe, FaultOK, Terminal
<1> QED BY <1>3, <1>4

LEMMA CallReleasedIsSafe ==
  ASSUME TypeOK, Safe, CallReleased, UNCHANGED sdp_200_ack
  PROVE  Safe'
<1>1. evq # << >> /\ evq' = Tail(evq) /\ ev.type = "RELEASED" /\ leg' = leg
  BY DEF CallReleased, Handles
<1>2. CASE ~Current(ev.leg)
  BY <1>1, <1>2, TakenQuietly DEF CallReleased, Current, Safe, FaultOK, OfferAnswered
<1>3. CASE Current(ev.leg)
  <2>1. call' = NoCall /\ call_logs' = Logged(call) /\ UNCHANGED fault
    BY <1>3 DEF CallReleased, Destroys, Current, Safe, CallOK
  <2> QED BY <1>1, <1>3, <2>1, EndFreesTheLine, NoCallAfter DEF Safe, FaultOK
<1> QED BY <1>2, <1>3

LEMMA CallRedirectedIsSafe ==
  ASSUME TypeOK, Safe, CallRedirected, UNCHANGED sdp_200_ack
  PROVE  Safe'
<1>1. evq # << >> /\ evq' = Tail(evq) /\ ev.type = "REDIRECTED"
  BY DEF CallRedirected, Handles
<1>2. Current(ev.leg) /\ HasCall /\ ~call.freed
  BY <1>1, Taking DEF Safe, EventsOK, EventOK, Current, CallOK
<1>3. FreeAfter(Logged(call)) /\ FaultOK
  BY <1>1, <1>2, EndFreesTheLine DEF Terminal, Safe
<1>4. CASE ev.arg = "380"
  <2>1. call' = NoCall /\ call_logs' = Logged(call) /\ UNCHANGED <<fault, leg>>
    BY <1>2, <1>4 DEF CallRedirected, Destroys
  <2> QED BY <1>3, <2>1, NoCallAfter DEF FaultOK
<1>5. CASE ev.arg = "302"
  BY <1>2, <1>3, <1>5, PlacedCallIsSafe DEF CallRedirected
<1>6. CASE ev.arg \notin {"380", "302"}
  BY <1>1, <1>2, <1>6, TakenQuietly DEF CallRedirected, Safe, FaultOK, OfferAnswered
<1> QED BY <1>4, <1>5, <1>6

----------------------------------------------------------------------------
(* The handlers of the requests of the remote party. *)

\* The INVITE of a leg is the only one, and nothing about it came before.
LEMMA TakingAnInvite ==
  ASSUME TypeOK, Safe, evq # << >>, evq' = Tail(evq), ev.type = "INVITE"
  PROVE  /\ ev.leg \in Leg /\ ev \in Pending /\ EventOK(ev)
         /\ Pending' \subseteq Pending /\ Pending' \subseteq Event /\ Ordered'
         /\ \A e \in Pending' : e.leg = ev.leg => e.type # "INVITE"
         /\ \A t, c : t # "INVITE" \/ c # ev.leg => (Waiting(t, c)' <=> Waiting(t, c))
         /\ \A c : c = ev.leg => ~Waiting("INVITE", c)'
         /\ \A e \in Pending : OfferAnswered(e) => e \in Pending'
<1>1. /\ ev.leg \in Leg /\ ev \in Pending /\ EventOK(ev)
      /\ Pending' \subseteq Pending /\ Pending' \subseteq Event /\ Ordered'
      /\ \A e \in Pending' : e.leg = ev.leg => e.type # "INVITE"
  BY Taking, EventsArePending DEF Safe, EventsOK, Event, Follows
<1>2. \A t, c : t # "INVITE" \/ c # ev.leg => (Waiting(t, c)' <=> Waiting(t, c))
  BY WaitingAfterTaking
<1>3. \A c : c = ev.leg => ~Waiting("INVITE", c)'
  BY <1>1 DEF Waiting
<1>4. \A e \in Pending : OfferAnswered(e) => e \in Pending'
  BY Taking DEF OfferAnswered, Safe
<1> QED BY <1>1, <1>2, <1>3, <1>4

\* 486 or 415 on a leg the line was not given to.
LEMMA RefusalIsSafe ==
  ASSUME TypeOK, Safe, evq # << >>, evq' = Tail(evq), ev.type = "INVITE",
         leg' = Refused(ev.leg),
         UNCHANGED <<sdp_200_ack, call, audio, ring, fault>>,
         \A c \in Leg : c # ev.leg => call_logs'[c] = call_logs[c]
  PROVE  Safe'
<1> USE TakingAnInvite
<1>1. /\ leg[ev.leg] \in {"offered"} \cup Over /\ ~Current(ev.leg)
      /\ leg[ev.leg] = "released" => Waiting("RELEASED", ev.leg)
  BY DEF EventOK
<1>2. /\ leg'[ev.leg] \in Over
      /\ leg'[ev.leg] = "released" => leg[ev.leg] = "released"
      /\ leg[ev.leg] # "offered" => leg'[ev.leg] = leg[ev.leg]
      /\ \A c \in Leg : c # ev.leg => leg'[c] = leg[c]
  BY <1>1 DEF Refused, Over
<1>3. \A c : Current(c)' <=> Current(c)
  BY DEF Current, HasCall
<1>4. LegsOK'
  <2> SUFFICES ASSUME NEW c \in Leg PROVE LegOK(c)'
    BY DEF LegsOK
  <2>1. LegOK(c)
    BY DEF Safe, LegsOK
  <2> QED BY <1>1, <1>2, <1>3, <2>1 DEF LegOK, Over
<1>5. LogsOK'
  BY <1>1, <1>2, <1>3 DEF Safe, LogsOK, Over
<1>6. CallOK'
  <2> SUFFICES ASSUME HasCall PROVE CallOK'
    BY DEF CallOK, HasCall
  <2>1. call.cid # ev.leg /\ call.cid \in Leg /\ leg'[call.cid] = leg[call.cid]
    BY <1>1, <1>2 DEF Current, Safe, CallOK
  <2> QED BY <2>1 DEF Safe, CallOK, HasCall
<1>7. EventsOK'
  <2> SUFFICES ASSUME NEW e \in Pending' PROVE EventOK(e)'
    BY DEF EventsOK, EventOK, OfferAnswered, Terminal
  <2>1. e \in Pending /\ EventOK(e) /\ e.leg \in Leg
    BY DEF Safe, EventsOK, Event
  <2>2. CASE e.leg # ev.leg
    BY <1>2, <1>3, <2>1, <2>2 DEF EventOK, OfferAnswered, Terminal, Current, HasCall
  <2>3. CASE e.leg = ev.leg
    <3>1. e.type \in {"CLOSED", "RELEASED"}
      BY <1>1, <2>1, <2>3 DEF EventOK, Event, EventType
    <3>2. e.type = "RELEASED" => leg'[e.leg] = "released"
      BY <1>1, <1>2, <2>1, <2>3 DEF EventOK
    <3> QED BY <1>2, <2>3, <3>1, <3>2 DEF EventOK, OfferAnswered, Terminal
  <2> QED BY <2>2, <2>3
<1> QED BY <1>4, <1>5, <1>6, <1>7 DEF Safe, FaultOK

LEMMA IncNewCallIsSafe ==
  ASSUME TypeOK, Safe, IncNewCall, UNCHANGED sdp_200_ack
  PROVE  Safe'
<1>0. evq # << >> /\ evq' = Tail(evq) /\ ev.type = "INVITE" /\ fault' = fault
  BY DEF IncNewCall, Handles
<1>1. CASE HasCall
  BY <1>0, <1>1, RefusalIsSafe DEF IncNewCall, core
<1>2. CASE ~HasCall /\ ev.arg = "bad"
  <2>1. \A c \in Leg : c # ev.leg => Logged(NewCall(ev.leg, "Incoming"))[c] = call_logs[c]
    BY DEF Logged, NewCall
  <2> QED BY <1>0, <1>2, <2>1, RefusalIsSafe DEF IncNewCall
<1>3. CASE ~HasCall /\ ev.arg # "bad"
  <2> USE <1>0, TakingAnInvite
  <2>1. /\ call' = [NewCall(ev.leg, "Incoming") EXCEPT
                      !.state = "Ringing", !.sdp = (ev.arg = "good")]
        /\ audio' = AnswersSdp
        /\ UNCHANGED <<call_logs, leg>>
    BY <1>3 DEF IncNewCall
  <2>2. /\ HasCall' /\ call'.cid = ev.leg /\ call'.dir = "Incoming"
        /\ call'.state = "Ringing" /\ ~call'.freed /\ (call'.sdp => ev.arg = "good")
    <3>1. call' \in LinphoneCall
      BY <2>1 DEF NewCall, LinphoneCall, CallDir, CallState
    <3> QED BY <2>1, <3>1 DEF NewCall, HasCall
  <2>3. \A c : ~Current(c) /\ (Current(c)' <=> c = ev.leg)
    BY <1>3, <2>2 DEF Current, HasCall
  <2>4. /\ leg[ev.leg] \in {"offered"} \cup Over
        /\ leg[ev.leg] = "released" => Waiting("RELEASED", ev.leg)
    BY DEF EventOK
  <2>5. LegsOK'
    <3> SUFFICES ASSUME NEW c \in Leg PROVE LegOK(c)'
      BY DEF LegsOK
    <3>1. LegOK(c)
      BY DEF Safe, LegsOK
    <3> QED BY <2>1, <2>3, <2>4, <3>1 DEF LegOK, Over
  <2>6. LogsOK'
    <3>1. Waiting("INVITE", ev.leg)
      BY DEF Waiting
    <3> QED BY <2>1, <2>3, <3>1 DEF Safe, LogsOK
  <2>7. EventsOK'
    <3> SUFFICES ASSUME NEW e \in Pending' PROVE EventOK(e)'
      BY DEF EventsOK, EventOK, OfferAnswered, Terminal
    <3>1. e \in Pending /\ EventOK(e) /\ e \in Event
      BY DEF Safe, EventsOK
    <3>2. e.type \in {"CLOSED", "RELEASED", "INVITE"}
      BY <2>3, <3>1 DEF EventOK, Event, EventType
    <3> QED BY <2>1, <2>3, <3>1, <3>2 DEF EventOK, OfferAnswered, Terminal
  <2>8. CallOK'
    <3>1. ~Waiting("REINVITE", ev.leg)
      BY <2>3 DEF Safe, EventsOK, EventOK, Waiting
    <3> QED BY <2>1, <2>2, <2>4, <3>1 DEF CallOK, AnswersSdp, NewStream, Over
  <2> QED BY <2>5, <2>6, <2>7, <2>8 DEF Safe, FaultOK
<1> QED BY <1>1, <1>2, <1>3

LEMMA HandleReinviteIsSafe ==
  ASSUME TypeOK, Safe, HandleReinvite, UNCHANGED sdp_200_ack
  PROVE  Safe'
<1>0. evq # << >> /\ evq' = Tail(evq) /\ ev.type = "REINVITE"
  BY DEF HandleReinvite, Handles
<1>1. /\ ev \in Pending /\ ev \in Event /\ Pending' \subseteq Pending /\ Ordered'
      /\ \A e \in Pending' : e.leg = ev.leg => Follows(ev, e)
      /\ \A e \in Pending : e = ev \/ e \in Pending'
  BY <1>0, Taking DEF Safe
<1>2. /\ Current(ev.leg) /\ ev.leg \in Leg /\ leg[ev.leg] \in {"up"} \cup Over
      /\ leg[ev.leg] = "up" \/ Waiting("CLOSED", ev.leg)
  BY <1>0, <1>1 DEF Safe, EventsOK, EventOK, Event
<1>3. HasCall /\ call.cid = ev.leg /\ call \in LinphoneCall /\ ~call.freed
  BY <1>2, AdoptedIsCall DEF Safe, CallOK, Current
<1>4. \A e \in Pending : e.leg = ev.leg => ~OfferAnswered(e)
  BY <1>0, <1>1 DEF Follows, OfferAnswered
<1>5. call.state = "AVRunning"
  <2>1. Waiting("REINVITE", call.cid)
    BY <1>0, <1>1, <1>3 DEF Waiting
  <2> QED BY <1>3, <1>4, <2>1 DEF Safe, CallOK
<1>6. CASE ev.arg = "none" \/ ev.arg = "bad"
  BY <1>0, <1>3, <1>6, TakenQuietly DEF HandleReinvite, Safe, FaultOK, OfferAnswered
<1>7. CASE ev.arg \notin {"none", "bad"}
  <2>1. /\ \/ leg[ev.leg] = "up" /\ audio' # "none"
           \/ leg[ev.leg] # "up" /\ audio' = "none"
        /\ call' \in {[call EXCEPT !.sdp = TRUE, !.state = "AVRunning"],
                      [call EXCEPT !.sdp = TRUE]}
        /\ UNCHANGED <<ring, call_logs, fault, leg>>
    BY <1>3, <1>7, StartedType DEF HandleReinvite, RestartsMedia
  <2>2. /\ call' \in LinphoneCall /\ HasCall' /\ call'.state = "AVRunning"
        /\ call'.cid = ev.leg /\ call'.dir = call.dir /\ ~call'.freed
    <3>1. call' \in LinphoneCall
      BY <1>3, <2>1 DEF LinphoneCall, CallState
    <3>2. /\ call'.state = "AVRunning" /\ call'.cid = ev.leg
          /\ call'.dir = call.dir /\ ~call'.freed
      BY <1>3, <1>5, <2>1 DEF LinphoneCall
    <3> QED BY <3>1, <3>2 DEF HasCall
  <2>3. \A d : Current(d)' <=> Current(d)
    BY <1>2, <2>2 DEF Current, HasCall
  <2>4. \A t, d : t # "REINVITE" => (Waiting(t, d)' <=> Waiting(t, d))
    BY <1>0, WaitingAfterTaking
  <2>5. LegsOK' /\ LogsOK'
    BY <1>1, <2>1, <2>3, <2>4 DEF Safe, LegsOK, LegOK, LogsOK
  <2>6. CallOK'
    BY <1>2, <1>3, <1>5, <2>1, <2>2, <2>4 DEF Safe, CallOK, Over
  <2>7. EventsOK'
    <3> SUFFICES ASSUME NEW e \in Pending' PROVE EventOK(e)'
      BY DEF EventsOK, EventOK, OfferAnswered, Terminal
    <3>1. e \in Pending /\ EventOK(e)
      BY <1>1 DEF Safe, EventsOK
    <3>2. ~OfferAnswered(e)
      <4>1. e.type = "ACK" => e.leg = ev.leg
        BY <1>3, <3>1 DEF EventOK, Current
      <4> QED BY <1>4, <3>1, <4>1 DEF OfferAnswered
    <3>3. e.type \notin {"RINGING", "REDIRECTED"}
      BY <1>5, <3>1 DEF EventOK
    <3> QED
      BY <2>1, <2>2, <2>3, <2>4, <3>1, <3>2, <3>3 DEF EventOK, OfferAnswered
  <2> QED BY <1>1, <2>1, <2>5, <2>6, <2>7 DEF Safe, FaultOK
<1> QED BY <1>6, <1>7

LEMMA HandleAckIsSafe ==
  ASSUME TypeOK, Safe, HandleAck, UNCHANGED sdp_200_ack
  PROVE  Safe'
<1>0. evq # << >> /\ evq' = Tail(evq) /\ ev.type = "ACK"
  BY DEF HandleAck, Handles
<1>1. /\ ev \in Pending /\ ev \in Event /\ Pending' \subseteq Pending /\ Ordered'
  BY <1>0, Taking DEF Safe
<1>2. /\ Current(ev.leg) /\ ev.leg \in Leg /\ leg[ev.leg] \in {"up"} \cup Over
      /\ OfferAnswered(ev) => audio # "none" /\ call.dir = "Incoming"
  BY <1>0, <1>1 DEF Safe, EventsOK, EventOK, Event
<1>3. HasCall /\ call.cid = ev.leg /\ call \in LinphoneCall /\ ~call.freed
  BY <1>2, AdoptedIsCall DEF Safe, CallOK, Current
<1>4. CASE ev.arg = "none"
  BY <1>0, <1>4, TakenQuietly DEF HandleAck, Safe, FaultOK, OfferAnswered
<1>5. CASE ev.arg # "none"
  <2>0. audio # "none" /\ call.dir = "Incoming"
    BY <1>0, <1>2, <1>5 DEF OfferAnswered
  <2>1. /\ call' = [call EXCEPT !.state = "AVRunning"]
        /\ audio' # "none" /\ ring' = FALSE
        /\ UNCHANGED <<call_logs, fault, leg>>
    BY <1>3, <1>5, <2>0, StartedType DEF HandleAck, ConnectsIncoming
  <2>2. /\ call' \in LinphoneCall /\ HasCall' /\ call'.state = "AVRunning"
        /\ call'.cid = ev.leg /\ call'.dir = "Incoming" /\ ~call'.freed
    BY <1>3, <2>0, <2>1 DEF LinphoneCall, CallState, HasCall
  <2>3. \A d : Current(d)' <=> Current(d)
    BY <1>2, <2>2 DEF Current, HasCall
  <2>4. \A t, d : t # "ACK" => (Waiting(t, d)' <=> Waiting(t, d))
    BY <1>0, WaitingAfterTaking
  <2>5. LegsOK' /\ LogsOK'
    BY <1>1, <2>1, <2>3, <2>4 DEF Safe, LegsOK, LegOK, LogsOK
  <2>6. CallOK'
    BY <1>2, <2>1, <2>2 DEF CallOK, Over
  <2>7. EventsOK'
    <3> SUFFICES ASSUME NEW e \in Pending' PROVE EventOK(e)'
      BY DEF EventsOK, EventOK, OfferAnswered, Terminal
    <3>1. e \in Pending /\ EventOK(e)
      BY <1>1 DEF Safe, EventsOK
    <3>2. e.type \notin {"RINGING", "REDIRECTED"}
      BY <2>0, <3>1 DEF EventOK
    <3> QED BY <2>0, <2>1, <2>2, <2>3, <2>4, <3>1, <3>2 DEF EventOK, OfferAnswered
  <2> QED BY <1>1, <2>1, <2>5, <2>6, <2>7 DEF Safe, FaultOK
<1> QED BY <1>4, <1>5

----------------------------------------------------------------------------
(* The user, the rest of an iteration, time and the heap. *)

LEMMA QuietStep ==
  ASSUME TypeOK, Safe, UNCHANGED <<sdp_200_ack, core, leg, evq>>, FaultOK'
  PROVE  Safe'
<1> USE DEF core
<1>1. Pending' = Pending /\ Ordered'
  BY EventsArePending DEF Safe
<1>2. \A t, c : Waiting(t, c)' <=> Waiting(t, c)
  BY <1>1 DEF Waiting
<1>3. \A c : Current(c)' <=> Current(c)
  BY DEF Current, HasCall
<1>4. LegsOK' /\ LogsOK'
  BY <1>1, <1>2, <1>3 DEF Safe, LegsOK, LegOK, LogsOK
<1>5. CallOK'
  BY <1>1, <1>2 DEF Safe, CallOK, HasCall
<1>6. EventsOK'
  BY <1>1, <1>2, <1>3 DEF Safe, EventsOK, EventOK, OfferAnswered, Terminal
<1> QED BY <1>1, <1>4, <1>5, <1>6 DEF Safe

\* Hanging up leaves lc->call pointing to the block that was freed.
LEMMA HangingUpLosesTheCall ==
  ASSUME TypeOK, Safe, TerminatesCall
  PROVE  Lost'
<1>1. call \in LinphoneCall /\ ~call.freed
  BY HasCallType DEF TerminatesCall, Safe, CallOK
<1>2. [call EXCEPT !.freed = TRUE] \in LinphoneCall
  BY <1>1 DEF LinphoneCall
<1>3. call' = [call EXCEPT !.freed = TRUE] /\ call'.freed
  BY <1>1 DEF TerminatesCall, Destroys, LinphoneCall
<1> QED BY <1>2, <1>3 DEF Lost, HasCall

LEMMA AcceptCallIsSafe ==
  ASSUME TypeOK, Safe, AcceptCall, UNCHANGED sdp_200_ack
  PROVE  Safe'
<1> USE DEF core
<1>0. HasCall /\ call \in LinphoneCall /\ call.state # "AVRunning" /\ evq' = evq
      /\ call.cid \in Leg /\ ~call.freed
  BY HasCallType DEF AcceptCall, Safe, CallOK
<1>1. Pending' = Pending /\ Ordered'
  BY <1>0, EventsArePending DEF Safe
<1>2. \A t, c : Waiting(t, c)' <=> Waiting(t, c)
  BY <1>1 DEF Waiting
<1>3. CASE call' = call /\ UNCHANGED <<audio, call_logs, fault, leg>>
  <2>1. \A c : Current(c)' <=> Current(c)
    BY <1>3 DEF Current, HasCall
  <2>2. LegsOK' /\ LogsOK'
    BY <1>1, <1>2, <1>3, <2>1 DEF Safe, LegsOK, LegOK, LogsOK
  <2>3. CallOK'
    BY <1>0, <1>1, <1>2, <1>3 DEF Safe, CallOK, HasCall
  <2>4. EventsOK'
    BY <1>1, <1>2, <1>3, <2>1 DEF Safe, EventsOK, EventOK, OfferAnswered, Terminal
  <2> QED BY <1>1, <1>3, <2>2, <2>3, <2>4 DEF Safe, FaultOK
<1>4. CASE leg[call.cid] = "offered"
  <2>1. call.sdp => audio # "none"
    BY <1>0 DEF Safe, CallOK
  <2>2. /\ leg' = [leg EXCEPT ![call.cid] = IF call.sdp THEN "accepted" ELSE "offering"]
        /\ call' = IF call.sdp THEN [call EXCEPT !.state = "AVRunning"] ELSE call
        /\ audio' # "none" /\ ring' = FALSE
        /\ UNCHANGED <<call_logs, fault>>
    BY <1>0, <1>4, <2>1, StartedType DEF AcceptCall, NewStream
  <2>3. /\ HasCall' /\ call'.cid = call.cid /\ call'.dir = call.dir
        /\ ~call'.freed /\ call'.sdp = call.sdp
        /\ call.sdp <=> call'.state = "AVRunning"
    <3>1. call' \in LinphoneCall
      BY <1>0, <2>2 DEF LinphoneCall, CallState
    <3> QED BY <1>0, <2>2, <3>1 DEF LinphoneCall, HasCall
  <2>4. \A c : Current(c)' <=> Current(c)
    BY <1>0, <2>3 DEF Current
  <2>5. /\ leg'[call.cid] = IF call.sdp THEN "accepted" ELSE "offering"
        /\ \A c \in Leg : c # call.cid => leg'[c] = leg[c]
    BY <1>0, <2>2 DEF TypeOK
  <2>6. \A c : Current(c) <=> c = call.cid
    BY <1>0 DEF Current
  <2>7. call.dir = "Incoming"
    BY <1>0, <1>4 DEF Safe, CallOK, LinphoneCall, CallDir, Over
  <2>8. \A e \in Pending : e.leg # call.cid
    <3> SUFFICES ASSUME NEW e \in Pending, e.leg = call.cid PROVE FALSE
      OBVIOUS
    <3>1. EventOK(e) /\ e \in Event
      BY EventsArePending DEF Safe, EventsOK
    <3>2. Current(e.leg)
      BY <2>6
    <3> QED BY <1>4, <2>7, <3>1, <3>2 DEF EventOK, Terminal, Event, EventType, Over
  <2>9. LegsOK'
    <3> SUFFICES ASSUME NEW c \in Leg PROVE LegOK(c)'
      BY DEF LegsOK
    <3>1. LegOK(c)
      BY DEF Safe, LegsOK
    <3> QED BY <1>1, <1>2, <2>4, <2>5, <2>6, <3>1 DEF LegOK
  <2>10. LogsOK'
    <3>1. call_logs[call.cid] = "none"
      BY <1>0, <2>6 DEF Safe, LogsOK
    <3> QED BY <1>2, <2>2, <2>4, <2>5, <2>6, <3>1 DEF Safe, LogsOK
  <2>11. CallOK'
    <3>1. ~Waiting("REINVITE", call.cid)
      BY <2>8 DEF Waiting
    <3> QED BY <1>0, <1>2, <2>2, <2>3, <2>5, <2>7, <3>1 DEF CallOK
  <2>12. EventsOK'
    <3> SUFFICES ASSUME NEW e \in Pending PROVE EventOK(e)'
      BY <1>1 DEF EventsOK, EventOK, OfferAnswered, Terminal
    <3>1. EventOK(e) /\ e.leg \in Leg /\ e.leg # call.cid
      BY <2>8, EventsArePending DEF Safe, EventsOK, Event
    <3>2. ~Current(e.leg) /\ leg'[e.leg] = leg[e.leg]
      BY <2>5, <2>6, <3>1
    <3> QED BY <1>1, <1>2, <2>4, <3>1, <3>2 DEF EventOK, OfferAnswered, Terminal
  <2> QED BY <1>1, <2>2, <2>9, <2>10, <2>11, <2>12 DEF Safe, FaultOK
<1> QED BY <1>0, <1>3, <1>4 DEF AcceptCall

LEMMA UserIsSafe ==
  ASSUME TypeOK, Safe, User, UNCHANGED sdp_200_ack
  PROVE  SafeInv'
<1> USE DEF SafeInv
<1>1. CASE Invite
  <2>1. FreeAfter(call_logs)
    BY <1>1, IdleIsFree DEF Invite
  <2> QED BY <1>1, <2>1, PlacedCallIsSafe DEF Invite, Safe
<1>2. CASE TerminateCall
  BY <1>2, HangingUpLosesTheCall DEF TerminateCall
<1>3. CASE AcceptCall
  BY <1>3, AcceptCallIsSafe
<1>4. CASE Refer
  BY <1>4, QuietStep DEF Refer, Dies, FaultOK
<1>5. CASE DialogCloses
  BY <1>5, QuietStep DEF DialogCloses, env, FaultOK, Safe
<1> QED BY <1>1, <1>2, <1>3, <1>4, <1>5 DEF User

LEMMA DrainDoneIsSafe ==
  ASSUME TypeOK, Safe, DrainDone, UNCHANGED sdp_200_ack
  PROVE  Safe'
<1> USE DEF core
<1>1. PICK retried \in SUBSET {c \in Leg : leg[c] = "challenged"} :
        leg' = [c \in Leg |-> IF c \in retried THEN "calling" ELSE leg[c]]
  BY DEF DrainDone
<1>2. evq = << >> /\ evq' = evq /\ UNCHANGED <<core, fault>>
  BY DEF DrainDone
<1>3. Pending' = Pending /\ Pending = {} /\ Ordered'
  BY <1>2, EventsArePending DEF Safe, Pending
<1>4. /\ \A t, c : ~Waiting(t, c) /\ ~Waiting(t, c)'
      /\ \A c : Current(c)' <=> Current(c)
  BY <1>2, <1>3 DEF Waiting, Current, HasCall
<1>5. \A c \in Leg : leg'[c] = leg[c] \/ (leg[c] = "challenged" /\ leg'[c] = "calling")
  BY <1>1
<1>6. LegsOK' /\ LogsOK'
  BY <1>2, <1>3, <1>4, <1>5 DEF Safe, LegsOK, LegOK, LogsOK
<1>7. CallOK'
  <2> SUFFICES ASSUME HasCall PROVE CallOK'
    BY <1>2 DEF CallOK, HasCall
  <2>1. call.cid \in Leg
    BY DEF Safe, CallOK
  <2>2. \/ leg'[call.cid] = leg[call.cid]
        \/ leg[call.cid] = "challenged" /\ leg'[call.cid] = "calling"
    BY <1>5, <2>1
  <2> QED BY <1>2, <1>3, <1>4, <2>1, <2>2 DEF Safe, CallOK, HasCall, Over
<1>8. EventsOK'
  BY <1>3 DEF EventsOK
<1> QED BY <1>2, <1>3, <1>6, <1>7, <1>8 DEF Safe, FaultOK

LEMMA TimePassesIsSafe ==
  ASSUME TypeOK, Safe, TimePasses, UNCHANGED sdp_200_ack
  PROVE  Safe'
<1>1. call \in LinphoneCall /\ HasCall
  BY HasCallType DEF TimePasses
<1>2. /\ HasCall' /\ call'.cid = call.cid /\ call'.dir = call.dir
      /\ call'.state = call.state /\ call'.sdp = call.sdp /\ call'.freed = call.freed
      /\ UNCHANGED <<audio, ring, call_logs, fault, leg, evq>>
  <2>1. [call EXCEPT !.expired = TRUE] \in LinphoneCall
    BY <1>1 DEF LinphoneCall
  <2> QED BY <1>1, <2>1 DEF TimePasses, HasCall, LinphoneCall, env
<1>3. Pending' = Pending /\ Ordered'
  BY <1>2, EventsArePending DEF Safe
<1>4. \A t, c : Waiting(t, c)' <=> Waiting(t, c)
  BY <1>3 DEF Waiting
<1>5. \A c : Current(c)' <=> Current(c)
  BY <1>1, <1>2 DEF Current
<1>6. LegsOK' /\ LogsOK'
  BY <1>2, <1>3, <1>4, <1>5 DEF Safe, LegsOK, LegOK, LogsOK
<1>7. CallOK'
  BY <1>1, <1>2, <1>3, <1>4 DEF Safe, CallOK
<1>8. EventsOK'
  BY <1>2, <1>3, <1>4, <1>5 DEF Safe, EventsOK, EventOK, OfferAnswered, Terminal
<1> QED BY <1>2, <1>3, <1>6, <1>7, <1>8 DEF Safe, FaultOK

LEMMA LoopIsSafe ==
  ASSUME TypeOK, Safe, TimerFires \/ DrainDone \/ Check \/ TimePasses \/ HeapReuse,
         UNCHANGED sdp_200_ack
  PROVE  SafeInv'
<1> USE DEF SafeInv
<1>1. CASE TimerFires
  BY <1>1, QuietStep DEF TimerFires, env, FaultOK, Safe
<1>2. CASE DrainDone
  BY <1>2, DrainDoneIsSafe
<1>3. CASE Check
  <2>1. TerminatesCall \/ UNCHANGED <<core, fault, leg, evq>>
    BY <1>3 DEF Check
  <2> QED BY <2>1, QuietStep, HangingUpLosesTheCall DEF FaultOK, Safe
<1>4. CASE TimePasses
  BY <1>4, TimePassesIsSafe
<1>5. CASE HeapReuse
  BY <1>5 DEF HeapReuse, Safe, CallOK
<1> QED BY <1>1, <1>2, <1>3, <1>4, <1>5

----------------------------------------------------------------------------
(* The stack and the remote parties: a dialogue moves and an event is queued. *)

\* What a signal about leg c changes, and what it leaves.
Moves(c, to, e) ==
  /\ Pending' = Pending \cup {e}
  /\ leg'[c] = to /\ \A d \in Leg : d # c => leg'[d] = leg[d]
  /\ \A d : Current(d)' <=> Current(d)
  /\ \A t, d : Waiting(t, d)' <=> Waiting(t, d) \/ (t = e.type /\ d = e.leg)
  /\ UNCHANGED <<sdp_200_ack, core, fault>>

\* An event e of leg c is queued in its place among the events of the leg.
Announced(c, from, to, type, args, e) ==
  /\ leg[c] \in from
  /\ e.type = type /\ e.leg = c /\ e.arg \in args
  /\ (\A f \in Pending : f.leg = c => Follows(f, e)) => Ordered' /\ Moves(c, to, e)

LEMMA SignalMoves ==
  ASSUME TypeOK, Safe, UNCHANGED sdp_200_ack, NEW c \in Leg, NEW from, NEW to,
         NEW type \in EventType, NEW args, args \subseteq EventArg,
         Signals(c, from, to, type, args)
  PROVE  \E e \in Event : Announced(c, from, to, type, args, e)
<1>1. PICK a \in args : evq' = Append(evq, [type |-> type, leg |-> c, arg |-> a])
  BY DEF Signals
<1> DEFINE e == [type |-> type, leg |-> c, arg |-> a]
<1>2. e \in Event /\ e.type = type /\ e.leg = c /\ e.arg \in args
  BY DEF Event
<1>3. SUFFICES ASSUME \A f \in Pending : f.leg = c => Follows(f, e)
               PROVE  Ordered' /\ Moves(c, to, e)
  BY <1>2 DEF Signals, Announced
<1>4. evq' = Append(evq, e)
  BY <1>1
<1> HIDE DEF e
<1>a. Pending' = Pending \cup {e} /\ Ordered'
  BY <1>2, <1>3, <1>4, Adding DEF Safe
<1>5. leg'[c] = to /\ (\A d \in Leg : d # c => leg'[d] = leg[d])
      /\ UNCHANGED <<core, fault>>
  BY DEF Signals, TypeOK
<1>6. \A d : Current(d)' <=> Current(d)
  BY <1>5 DEF Current, HasCall, core
<1>7. \A t, d : Waiting(t, d)' <=> Waiting(t, d) \/ (t = e.type /\ d = e.leg)
  BY <1>a DEF Waiting
<1> QED BY <1>a, <1>5, <1>6, <1>7 DEF Moves

\* Only what is about the leg that moved has to be looked at.
LEMMA MoveIsSafe ==
  ASSUME TypeOK, Safe, NEW c \in Leg, NEW to, NEW e \in Event, e.leg = c,
         Moves(c, to, e), Ordered', LegOK(c)', EventOK(e)',
         \A f \in Pending : f.leg = c => EventOK(f)',
         CallOK', to # "free",
         e.type = "INVITE" => leg[c] = "free"
  PROVE  Safe'
<1> USE DEF Moves, core
<1>1. LegsOK'
  <2> SUFFICES ASSUME NEW d \in Leg, d # c PROVE LegOK(d)'
    BY DEF LegsOK
  <2>1. LegOK(d)
    BY DEF Safe, LegsOK
  <2> QED BY <2>1 DEF LegOK
<1>2. LogsOK'
  BY DEF Safe, LogsOK
<1>3. EventsOK'
  <2> SUFFICES ASSUME NEW f \in Pending, f.leg # c PROVE EventOK(f)'
    BY DEF EventsOK
  <2>1. EventOK(f) /\ f.leg \in Leg
    BY EventsArePending DEF Safe, EventsOK, Event
  <2> QED BY <2>1 DEF EventOK, OfferAnswered, Terminal
<1> QED BY <1>1, <1>2, <1>3 DEF Safe, FaultOK

\* Answers to an INVITE of ours.
LEMMA AnswerIsSafe ==
  ASSUME TypeOK, Safe, NEW c \in Leg, NEW to, NEW e \in Event, e.leg = c,
         leg[c] = "calling",
         \/ to = "calling" /\ e.type \in {"PROCEEDING", "RINGING"}
         \/ to = "answered" /\ e.type = "ANSWERED"
         \/ to = "challenged" /\ e.type = "FAILURE" /\ e.arg = "auth"
         \/ to = "ended" /\ Terminal(e) /\ e.type \in {"FAILURE", "REDIRECTED"},
         (\A f \in Pending : f.leg = c => Follows(f, e)) => Ordered' /\ Moves(c, to, e)
  PROVE  Safe'
<1>1. /\ Current(c) /\ HasCall /\ call.cid = c /\ call.dir = "Outgoing"
      /\ call.state # "AVRunning" /\ call \in LinphoneCall /\ ~call.freed
  BY DEF Safe, LegsOK, LegOK, CallOK, Current, HasCall, TypeOK, LinphoneCall, CallDir, Over
<1>2. ASSUME NEW f \in Pending, f.leg = c
      PROVE  /\ f.type \in {"PROCEEDING", "RINGING", "FAILURE"} /\ ~Terminal(f)
             /\ EventOK(f)
  <2>1. EventOK(f) /\ f \in Event
    BY EventsArePending DEF Safe, EventsOK
  <2> QED BY <1>2, <2>1 DEF EventOK, Event, EventType, Terminal, Over
<1>3. Ordered' /\ Moves(c, to, e)
  BY <1>2 DEF Follows, Terminal
<1> USE DEF core
<1>4. HasCall' /\ UNCHANGED <<call, audio, ring, sdp_200_ack>>
  BY <1>1, <1>3 DEF Moves, HasCall
<1>5. ~Waiting("REINVITE", c)'
  BY <1>2, <1>3 DEF Waiting, Moves, Terminal
<1>6. LegOK(c)' /\ EventOK(e)'
  BY <1>1, <1>3, <1>4 DEF Moves, LegOK, EventOK, Over, OfferAnswered, Terminal
<1>7. \A f \in Pending : f.leg = c => EventOK(f)'
  BY <1>1, <1>2, <1>3, <1>4 DEF Moves, EventOK, Over, OfferAnswered, Terminal
<1>8. CallOK'
  BY <1>1, <1>3, <1>4, <1>5 DEF Safe, CallOK, Moves, Over
<1> QED BY <1>3, <1>6, <1>7, <1>8, MoveIsSafe DEF Terminal

LEMMA InviteArrivesSafely ==
  ASSUME TypeOK, Safe, NEW c \in Leg, NEW e \in Event, e.leg = c,
         leg[c] = "free", e.type = "INVITE",
         (\A f \in Pending : f.leg = c => Follows(f, e)) => Ordered' /\ Moves(c, "offered", e)
  PROVE  Safe'
<1> USE DEF core
<1>1. ~Current(c) /\ \A f \in Pending : f.leg # c
  BY DEF Safe, LegsOK, LegOK
<1>2. Ordered' /\ Moves(c, "offered", e)
  BY <1>1
<1>3. LegOK(c)' /\ EventOK(e)'
  BY <1>1, <1>2 DEF Moves, LegOK, EventOK, OfferAnswered, Terminal
<1>4. CallOK'
  <2> SUFFICES ASSUME HasCall PROVE CallOK'
    BY <1>2 DEF CallOK, HasCall, Moves
  <2>1. call.cid \in Leg /\ call.cid # c
    BY <1>1 DEF Safe, CallOK, Current
  <2> QED BY <1>2, <2>1 DEF Safe, CallOK, HasCall, Moves
<1> QED BY <1>1, <1>2, <1>3, <1>4, MoveIsSafe

\* Hanging up, CANCEL, and the release of a dialogue.
LEMMA EndIsSafe ==
  ASSUME TypeOK, Safe, NEW c \in Leg, NEW to, NEW e \in Event, e.leg = c,
         \/ /\ to = "ended" /\ e.type = "CLOSED"
            /\ leg[c] \in {"offered", "answered", "up", "accepted", "offering"}
         \/ /\ to = "released" /\ e.type = "RELEASED"
            /\ leg[c] \in {"challenged", "ended"},
         (\A f \in Pending : f.leg = c => Follows(f, e)) => Ordered' /\ Moves(c, to, e)
  PROVE  Safe'
<1> USE DEF core
<1>1. ASSUME NEW f \in Pending, f.leg = c
      PROVE  EventOK(f) /\ Follows(f, e)
  <2>1. EventOK(f) /\ f \in Event
    BY EventsArePending DEF Safe, EventsOK
  <2> QED BY <1>1, <2>1 DEF EventOK, Follows, Over
<1>2. Ordered' /\ Moves(c, to, e)
  BY <1>1
<1>3. LegOK(c)
  BY DEF Safe, LegsOK
<1>4. LegOK(c)' /\ EventOK(e)'
  BY <1>2, <1>3 DEF Moves, LegOK, EventOK, Over, OfferAnswered, Terminal
<1>5. \A f \in Pending : f.leg = c => EventOK(f)'
  BY <1>1, <1>2 DEF Moves, EventOK, Over, OfferAnswered, Terminal
<1>6. CallOK'
  <2> SUFFICES ASSUME HasCall PROVE CallOK'
    BY <1>2 DEF CallOK, HasCall, Moves
  <2>1. call.cid \in Leg /\ Waiting("REINVITE", call.cid)' = Waiting("REINVITE", call.cid)
    BY <1>2 DEF Safe, CallOK, Moves, Waiting
  <2>2. CASE call.cid # c
    BY <1>2, <2>1, <2>2 DEF Safe, CallOK, HasCall, Moves
  <2>3. CASE call.cid = c
    BY <1>2, <2>1, <2>3 DEF Safe, CallOK, HasCall, Moves, Over
  <2> QED BY <2>2, <2>3
<1> QED BY <1>2, <1>4, <1>5, <1>6, MoveIsSafe

\* Requests of the remote party within the dialogue.
LEMMA RequestIsSafe ==
  ASSUME TypeOK, Safe, NEW c \in Leg, NEW e \in Event, e.leg = c,
         \/ leg[c] = "accepted" /\ e.type = "ACK" /\ e.arg = "none"
         \/ leg[c] = "offering" /\ e.type = "ACK"
         \/ leg[c] = "up" /\ e.type = "REINVITE",
         leg[c] = "offering" => e.arg # "none",
         (\A f \in Pending : f.leg = c => Follows(f, e)) => Ordered' /\ Moves(c, "up", e)
  PROVE  Safe'
<1> USE DEF core
<1>1. /\ Current(c) /\ HasCall /\ call.cid = c
      /\ leg[c] \in {"accepted", "offering"} => call.dir = "Incoming"
  BY DEF Safe, LegsOK, LegOK, CallOK, Current, HasCall, TypeOK, LinphoneCall, CallDir, Over
<1>2. ASSUME NEW f \in Pending, f.leg = c
      PROVE  /\ EventOK(f) /\ Follows(f, e)
             /\ f.type \in {"PROCEEDING", "FAILURE", "ACK", "REINVITE"} /\ ~Terminal(f)
             /\ leg[c] # "up" => f.type # "REINVITE"
  <2>1. EventOK(f) /\ f \in Event
    BY EventsArePending DEF Safe, EventsOK
  <2> QED BY <1>2, <2>1 DEF EventOK, Follows, Over, Event, EventType, Terminal
<1>3. Ordered' /\ Moves(c, "up", e)
  BY <1>2
<1>4. HasCall' /\ UNCHANGED <<call, audio, ring, sdp_200_ack>>
  BY <1>1, <1>3 DEF Moves, HasCall
<1>5. LegOK(c)'
  BY <1>1, <1>3 DEF Moves, LegOK
<1>6. EventOK(e)'
  BY <1>1, <1>3, <1>4 DEF Safe, CallOK, Moves, EventOK, OfferAnswered, Terminal
<1>7. \A f \in Pending : f.leg = c => EventOK(f)'
  BY <1>2, <1>3, <1>4 DEF Moves, EventOK, OfferAnswered, Terminal
<1>8. CallOK'
  BY <1>1, <1>3, <1>4 DEF Safe, CallOK, Moves, Over, OfferAnswered
<1> QED BY <1>3, <1>5, <1>6, <1>7, <1>8, MoveIsSafe

LEMMA EnvironmentIsSafe ==
  ASSUME TypeOK, Safe, Environment, UNCHANGED sdp_200_ack
  PROVE  Safe'
<1> PICK c \in Leg :
      \/ PeerProceeds(c)  \/ PeerRings(c)     \/ PeerAnswers(c) \/ PeerChallenges(c)
      \/ PeerFails(c)     \/ PeerRedirects(c) \/ PeerInvites(c) \/ PeerCancels(c)
      \/ PeerAcks(c)      \/ PeerReinvites(c) \/ PeerHangsUp(c) \/ StackReleases(c)
  BY DEF Environment
<1>0. leg[c] # "cancelling"
  BY DEF Safe, LegsOK, LegOK
<1>1. CASE PeerProceeds(c)
  <2>1. PICK e \in Event : Announced(c, {"calling"}, "calling", "PROCEEDING", {"none"}, e)
    BY <1>1, SignalMoves DEF PeerProceeds, EventType, EventArg
  <2> QED BY <1>0, <2>1, AnswerIsSafe DEF Announced
<1>2. CASE PeerRings(c)
  <2>1. PICK e \in Event : Announced(c, {"calling"}, "calling", "RINGING", {"none", "good"}, e)
    BY <1>2, SignalMoves DEF PeerRings, EventType, EventArg
  <2> QED BY <1>0, <2>1, AnswerIsSafe DEF Announced
<1>3. CASE PeerAnswers(c)
  <2>1. PICK e \in Event : Announced(c, {"calling", "cancelling"}, "answered", "ANSWERED",
                                    {"good", "bad"}, e)
    BY <1>3, SignalMoves DEF PeerAnswers, EventType, EventArg
  <2> QED BY <1>0, <2>1, AnswerIsSafe DEF Announced
<1>4. CASE PeerChallenges(c)
  <2>1. PICK e \in Event : Announced(c, {"calling"}, "challenged", "FAILURE", {"auth"}, e)
    BY <1>4, SignalMoves DEF PeerChallenges, EventType, EventArg
  <2> QED BY <1>0, <2>1, AnswerIsSafe DEF Announced
<1>5. CASE PeerFails(c)
  <2>1. PICK e \in Event : Announced(c, {"calling", "cancelling"}, "ended", "FAILURE",
                                    {"other"}, e)
    BY <1>5, SignalMoves DEF PeerFails, EventType, EventArg
  <2> QED BY <1>0, <2>1, AnswerIsSafe DEF Announced, Terminal
<1>6. CASE PeerRedirects(c)
  <2>1. PICK e \in Event : Announced(c, {"calling", "cancelling"}, "ended", "REDIRECTED",
                                    {"302", "380", "other"}, e)
    BY <1>6, SignalMoves DEF PeerRedirects, EventType, EventArg
  <2> QED BY <1>0, <2>1, AnswerIsSafe DEF Announced, Terminal
<1>7. CASE PeerInvites(c)
  <2>1. PICK e \in Event : Announced(c, {"free"}, "offered", "INVITE",
                                    {"none", "good", "bad"}, e)
    BY <1>7, SignalMoves DEF PeerInvites, EventType, EventArg
  <2> QED BY <1>0, <2>1, InviteArrivesSafely DEF Announced
<1>8. CASE PeerCancels(c)
  <2>1. PICK e \in Event : Announced(c, {"offered"}, "ended", "CLOSED", {"none"}, e)
    BY <1>8, SignalMoves DEF PeerCancels, EventType, EventArg
  <2> QED BY <1>0, <2>1, EndIsSafe DEF Announced
<1>9. CASE PeerAcks(c)
  <2>1. CASE Signals(c, {"accepted"}, "up", "ACK", {"none"})
    <3>1. PICK e \in Event : Announced(c, {"accepted"}, "up", "ACK", {"none"}, e)
      BY <2>1, SignalMoves DEF EventType, EventArg
    <3> QED BY <3>1, RequestIsSafe DEF Announced
  <2>2. CASE Signals(c, {"offering"}, "up", "ACK", {"good"})
    <3>1. PICK e \in Event : Announced(c, {"offering"}, "up", "ACK", {"good"}, e)
      BY <2>2, SignalMoves DEF EventType, EventArg
    <3> QED BY <3>1, RequestIsSafe DEF Announced
  <2> QED BY <1>9, <2>1, <2>2 DEF PeerAcks
<1>10. CASE PeerReinvites(c)
  <2>1. PICK e \in Event : Announced(c, {"up"}, "up", "REINVITE", {"none", "good", "bad"}, e)
    BY <1>10, SignalMoves DEF PeerReinvites, EventType, EventArg
  <2> QED BY <1>0, <2>1, RequestIsSafe DEF Announced
<1>11. CASE PeerHangsUp(c)
  <2>1. PICK e \in Event : Announced(c, {"answered", "up", "accepted", "offering"}, "ended", "CLOSED",
                                    {"none"}, e)
    BY <1>11, SignalMoves DEF PeerHangsUp, EventType, EventArg
  <2> QED BY <1>0, <2>1, EndIsSafe DEF Announced
<1>12. CASE StackReleases(c)
  <2>1. PICK e \in Event : Announced(c, {"challenged", "ended"}, "released", "RELEASED",
                                    {"none"}, e)
    BY <1>12, SignalMoves DEF StackReleases, EventType, EventArg
  <2> QED BY <1>0, <2>1, EndIsSafe DEF Announced
<1> QED
  BY <1>1, <1>2, <1>3, <1>4, <1>5, <1>6, <1>7, <1>8, <1>9, <1>10, <1>11, <1>12

----------------------------------------------------------------------------
(* Once lc->call dangles it dangles for ever, and nothing more is logged. *)

LEMMA AnEventIsHandled ==
  ASSUME TypeOK, ProcessEvent
  PROVE  evq # << >> /\ ev \in Event
<1>1. PICK t : Handles(t)
  BY DEF ProcessEvent, CallAccepted, CallProceeding, CallRinging, CallTerminated,
         CallFailure, CallReleased, CallRedirected, IncNewCall, HandleReinvite, HandleAck
<1> QED BY <1>1, HandledEvent DEF Handles

LEMMA LostForEver ==
  ASSUME TypeOK, Lost, [Next]_vars
  PROVE  Lost' /\ call_logs' = call_logs
<1> USE DEF core, Dies
<1>0. HasCall /\ call.freed /\ call \in LinphoneCall
  BY HasCallType DEF Lost
<1>1. SUFFICES call' \in LinphoneCall /\ call'.freed /\ call_logs' = call_logs
  BY DEF Lost, HasCall
<1>2. CASE UNCHANGED vars
  BY <1>0, <1>2 DEF vars
<1>3. CASE User
  BY <1>0, <1>3
     DEF User, Invite, TerminateCall, TerminatesCall, Destroys, AcceptCall, Refer,
         DialogCloses, LinphoneCall, CallState
<1>4. CASE ProcessEvent
  <2>1. evq # << >> /\ ev \in Event
    BY <1>4, AnEventIsHandled
  <2>2. Adopted \in LinphoneCall /\ Adopted.freed
    BY <1>0, <2>1 DEF Adopted, LinphoneCall, Event
  <2>3. CASE CallAccepted
    <3>1. CASE UNCHANGED <<call, call_logs>> \/ (call' = Adopted /\ call_logs' = call_logs)
      BY <1>0, <2>2, <3>1
    <3>2. CASE /\ ConnectsIncoming([Adopted EXCEPT !.sdp = sdp_200_ack \/ @])
               /\ call_logs' = call_logs
      BY <2>2, <3>2 DEF ConnectsIncoming, LinphoneCall, CallState
    <3> QED BY <1>0, <2>3, <3>1, <3>2 DEF CallAccepted
  <2>4. CASE CallProceeding \/ CallRinging
    BY <1>0, <2>2, <2>4 DEF CallProceeding, CallRinging, LinphoneCall, CallState
  <2>5. CASE CallTerminated \/ CallFailure \/ CallReleased
    BY <1>0, <2>5 DEF CallTerminated, CallFailure, CallReleased, ClosesCall, Destroys
  <2>6. CASE CallRedirected \/ IncNewCall
    BY <1>0, <2>6 DEF CallRedirected, IncNewCall, Destroys
  <2>7. CASE HandleReinvite
    BY <1>0, <2>7 DEF HandleReinvite, LinphoneCall, CallState
  <2>8. CASE HandleAck
    BY <1>0, <2>8 DEF HandleAck, ConnectsIncoming, LinphoneCall, CallState
  <2> QED BY <1>4, <2>3, <2>4, <2>5, <2>6, <2>7, <2>8 DEF ProcessEvent
<1>5. CASE TimerFires \/ DrainDone \/ Check
  BY <1>0, <1>5 DEF TimerFires, DrainDone, Check, TerminatesCall, Destroys
<1>6. CASE TimePasses
  BY <1>0, <1>6 DEF TimePasses, LinphoneCall
<1>7. CASE HeapReuse
  <2>1. PICK g \in Garbage :
          call' = [call EXCEPT !.cid = g.cid, !.dir = g.dir, !.state = g.state]
    BY <1>7 DEF HeapReuse
  <2> QED BY <1>0, <1>7, <2>1, GarbageAssumption DEF HeapReuse, LinphoneCall
<1>8. CASE Environment
  BY <1>0, <1>8 DEF Environment, Signals, PeerProceeds, PeerRings, PeerAnswers,
     PeerChallenges, PeerFails, PeerRedirects, PeerInvites, PeerCancels, PeerAcks,
     PeerReinvites, PeerHangsUp, StackReleases
<1> QED BY <1>2, <1>3, <1>4, <1>5, <1>6, <1>7, <1>8 DEF Next, Iterate

LEMMA HandlersAreSafe ==
  ASSUME TypeOK, Safe, ProcessEvent, UNCHANGED sdp_200_ack
  PROVE  SafeInv'
BY CallAcceptedIsSafe, CallProceedingIsSafe, CallRingingIsSafe, CallTerminatedIsSafe,
   CallFailureIsSafe, CallReleasedIsSafe, CallRedirectedIsSafe, IncNewCallIsSafe,
   HandleReinviteIsSafe, HandleAckIsSafe
   DEF ProcessEvent, SafeInv

LEMMA SafeInvIsInductive ==
  ASSUME TypeOK, SafeInv, [Next]_vars
  PROVE  SafeInv'
<1>1. CASE Lost
  BY <1>1, LostForEver DEF SafeInv
<1>2. CASE Safe /\ UNCHANGED vars
  BY <1>2, QuietStep DEF vars, env, Safe, FaultOK, SafeInv
<1>3. CASE Safe /\ Next
  BY <1>3, UserIsSafe, HandlersAreSafe, LoopIsSafe, EnvironmentIsSafe
     DEF Next, Iterate, SafeInv
<1> QED BY <1>1, <1>2, <1>3 DEF SafeInv

LEMMA SafeInvAlways == Spec => []SafeInv
<1>1. Init => SafeInv
  <2> SUFFICES ASSUME Init PROVE Safe
    BY DEF SafeInv
  <2>1. Pending = {} /\ Ordered /\ ~HasCall
    BY DEF Init, Pending, Ordered, HasCall
  <2> QED BY <2>1 DEF Safe, Init, LegsOK, LegOK, CallOK, EventsOK, LogsOK, FaultOK, Current
<1>2. TypeOK /\ SafeInv /\ [Next]_vars => SafeInv'
  BY SafeInvIsInductive
<1> QED BY <1>1, <1>2, TypeCorrect, PTL DEF Spec

----------------------------------------------------------------------------
(* What follows for every reachable state. *)

LEMMA WaitingIsQueued ==
  ASSUME NEW t, NEW c, Waiting(t, c)
  PROVE  Queued(t, c)
BY DEF Waiting, Queued, Pending

\* A dialogue that uses the line is the current call's, or its INVITE has not
\* been read yet: no handler drops a call and leaves its leg open.
THEOREM HeldLegsAreKnown == Spec => []HeldLegIsCurrent
<1>1. TypeOK /\ SafeInv => HeldLegIsCurrent
  BY WaitingIsQueued
     DEF SafeInv, Lost, Safe, LegsOK, LegOK, HeldLegIsCurrent, Live, Held, Current
<1> QED BY <1>1, SafeInvAlways, TypeCorrect, PTL

\* The event that ends a dead call is always still to be read.
THEOREM DeadCallsAreReaped == Spec => []DeadCallIsReaped
<1>1. SafeInv => DeadCallIsReaped
  BY WaitingIsQueued
     DEF SafeInv, Lost, Safe, LegsOK, LegOK, CallOK, DeadCallIsReaped, Live, Current
<1> QED BY <1>1, SafeInvAlways, PTL

\* No handler leaves the ring playing over an established call.
THEOREM NoRingOverTheTalk == Spec => []TalkingIsNotRinging
<1>1. SafeInv => TalkingIsNotRinging
  BY DEF SafeInv, Lost, Safe, CallOK, TalkingIsNotRinging, Live
<1> QED BY <1>1, SafeInvAlways, PTL

\* With the SDP offer in the INVITE no handler meets a NULL call or stream.
THEOREM HandlersMeetNoNull == Spec => []NoNullDereference
<1>1. SafeInv => NoNullDereference
  BY DEF SafeInv, Lost, Safe, FaultOK, NoNullDereference
<1> QED BY <1>1, SafeInvAlways, PTL

\* A handler that never compares the cid still only acts on its own leg.
THEOREM StrangersDoNoHarm == Spec => StrangerEventsHarmless
<1>1. ASSUME TypeOK, SafeInv, [Next]_vars, Live, ProcessEvent, ev.leg # call.cid
      PROVE  UNCHANGED core
  <2> USE DEF core
  <2>1. Safe /\ HasCall /\ ~call.freed /\ ~Current(ev.leg)
    BY <1>1 DEF SafeInv, Lost, Live, Current
  <2>2. evq # << >> /\ ev \in Event
    BY <1>1, AnEventIsHandled
  <2>3. EventOK(ev)
    <3>1. ev \in Pending
      BY <2>2, TakingFromASequence DEF TypeOK, Pending, ev
    <3> QED BY <2>1, <3>1 DEF Safe, EventsOK
  <2>4. ev.type \in {"CLOSED", "RELEASED", "INVITE"}
    BY <2>1, <2>2, <2>3 DEF EventOK, Event, EventType
  <2>5. NotCurrent
    BY <1>1, <2>1 DEF NotCurrent
  <2>6. CallTerminated \/ CallReleased \/ IncNewCall
    BY <1>1, <2>4 DEF ProcessEvent, CallAccepted, CallProceeding, CallRinging,
           CallFailure, CallRedirected, HandleReinvite, HandleAck, Handles
  <2> QED BY <1>1, <2>1, <2>5, <2>6 DEF CallTerminated, CallReleased, IncNewCall
<1>2. TypeOK /\ SafeInv /\ [Next]_vars
        => [Live /\ ProcessEvent /\ ev.leg # call.cid => UNCHANGED core]_vars
  BY <1>1
<1> QED BY <1>2, SafeInvAlways, TypeCorrect, PTL DEF Spec, StrangerEventsHarmless
=============================================================================
