----------------------- MODULE CallControlRefinement -----------------------
(***************************************************************************)
(* The call engine implements PhoneLine, and starts the media only after   *)
(* an answer: what its steps may do, from the invariant of                 *)
(* CallControlProofs.                                                      *)
(***************************************************************************)
EXTENDS CallControlProofs

USE NoCallAssumption

\* No step opens the microphone while the current call is an incoming one that
\* nobody has accepted, whatever ACK or re-INVITE arrives: each of the five
\* places that start the stream has the leg answered before, or by the step.
THEOREM MediaWaitForTheAnswer == Spec => MediaStartsAfterAnswer
<1>1. ASSUME TypeOK, SafeInv, [Next]_vars, audio # "running", audio' = "running", Live'
      PROVE  call'.dir = "Outgoing" \/ leg'[call'.cid] \notin {"offered", "free"}
  <2>1. Safe
    BY <1>1, LostForEver DEF SafeInv, Lost, Live
  <2>2. Next /\ UNCHANGED sdp_200_ack
    BY <1>1 DEF vars, core, Next
  <2>3. CASE AcceptCall
    <3>1. HasCall /\ call \in LinphoneCall
      BY <1>1, <2>3, HasCallType DEF AcceptCall
    <3>2. /\ leg' = [leg EXCEPT ![call.cid] = IF call.sdp THEN "accepted" ELSE "offering"]
          /\ call.cid \in Leg
          /\ call' = call \/ call' = [call EXCEPT !.state = "AVRunning"]
      BY <1>1, <2>3 DEF AcceptCall, Dies, core
    <3> QED BY <1>1, <3>1, <3>2 DEF TypeOK, LinphoneCall
  <2>4. CASE ProcessEvent
    <3>1. ev \in Pending /\ EventOK(ev) /\ ev \in Event
      BY <1>1, <2>1, <2>4, AnEventIsHandled, TakingFromASequence
         DEF TypeOK, Pending, ev, Safe, EventsOK
    <3>2. CASE CallAccepted \/ CallRinging
      <4>1. Current(ev.leg) /\ call.dir = "Outgoing"
        BY <3>1, <3>2 DEF EventOK, CallAccepted, CallRinging, Handles
      <4>2. Adopted = call /\ ~Stray /\ HasCall /\ call \in LinphoneCall
        BY <1>1, <4>1, AdoptedIsCall
      <4> QED
        BY <1>1, <3>2, <4>1, <4>2
           DEF CallAccepted, CallRinging, ConnectsIncoming, GoesSilent, Dies, core,
               LinphoneCall
    <3>3. CASE HandleReinvite \/ HandleAck
      <4>1. Current(ev.leg) /\ leg[ev.leg] \in {"up"} \cup Over /\ call \in LinphoneCall
        BY <1>1, <3>1, <3>3, AdoptedIsCall DEF EventOK, HandleReinvite, HandleAck, Handles
      <4>2. leg' = leg /\ call'.cid = ev.leg
        BY <1>1, <3>3, <4>1
           DEF HandleReinvite, HandleAck, ConnectsIncoming, Dies, core, Current,
               LinphoneCall
      <4> QED BY <4>1, <4>2 DEF Over
    <3>4. CASE CallProceeding \/ CallTerminated \/ CallFailure \/ CallReleased
      BY <1>1, <3>4
         DEF CallProceeding, CallTerminated, CallFailure, CallReleased, ClosesCall,
             Destroys, GoesSilent, Dies, core
    <3>5. CASE CallRedirected \/ IncNewCall
      BY <1>1, <3>5
         DEF CallRedirected, IncNewCall, AnswersSdp, NewStream, PlacesCall, Destroys,
             Dies, core
    <3> QED BY <2>4, <3>2, <3>3, <3>4, <3>5 DEF ProcessEvent
  <2>5. CASE Invite \/ TerminateCall \/ Refer \/ DialogCloses
    BY <1>1, <2>5
       DEF Invite, TerminateCall, Refer, DialogCloses, PlacesCall, TerminatesCall,
           Destroys, GoesSilent, NewStream, Dies, core
  <2>6. CASE TimerFires \/ DrainDone \/ Check \/ TimePasses \/ HeapReuse \/ Environment
    BY <1>1, <2>6
       DEF TimerFires, DrainDone, Check, TimePasses, HeapReuse, TerminatesCall, Destroys,
           GoesSilent, Dies, core, Environment, Signals, PeerProceeds, PeerRings,
           PeerAnswers, PeerChallenges, PeerFails, PeerRedirects, PeerInvites,
           PeerCancels, PeerAcks, PeerReinvites, PeerHangsUp, StackReleases
  <2> QED BY <2>2, <2>3, <2>4, <2>5, <2>6 DEF Next, User, Iterate
<1>2. TypeOK /\ SafeInv /\ [Next]_vars =>
        [ audio # "running" /\ audio' = "running" /\ Live' =>
            call'.dir = "Outgoing" \/ leg'[call'.cid] \notin {"offered", "free"} ]_vars
  BY <1>1
<1> QED BY <1>2, SafeInvAlways, TypeCorrect, PTL DEF Spec, MediaStartsAfterAnswer

----------------------------------------------------------------------------
(* What a step of the engine may do to the line: eight outcomes. *)

Talking(c) == c.state = "AVRunning"

Dead == fault' # "none" /\ UNCHANGED <<call, call_logs>>

HungUp == Lost' /\ HasCall /\ call_logs' = Logged(call)

SameLine ==
  /\ UNCHANGED <<fault, call_logs>>
  /\ \/ ~HasCall /\ ~HasCall'
     \/ /\ HasCall /\ HasCall'
        /\ call'.cid = call.cid /\ call'.dir = call.dir /\ ~call'.freed
        /\ Talking(call)' <=> Talking(call)

TalkBegins ==
  /\ HasCall /\ HasCall' /\ call'.cid = call.cid /\ ~call'.freed
  /\ ~Talking(call) /\ Talking(call)'
  /\ UNCHANGED <<fault, call_logs>>

CallOver == HasCall /\ call' = NoCall /\ call_logs' = Logged(call) /\ UNCHANGED fault

\* A call on a leg that has no entry in the log.
Takes(c) ==
  /\ call_logs[c] = "none"
  /\ HasCall' /\ call'.cid = c /\ ~call'.freed /\ ~Talking(call)'
  /\ UNCHANGED fault

LineTaken == ~HasCall /\ call_logs' = call_logs /\ \E c \in Leg : Takes(c)

CallMoved ==
  /\ HasCall /\ call.dir = "Outgoing" /\ ~Talking(call) /\ call'.dir = "Outgoing"
  /\ call_logs' = Logged(call)
  /\ \E c \in Leg : c # call.cid /\ Takes(c)

Refusal ==
  /\ ~HasCall /\ call' = call /\ UNCHANGED fault
  /\ \E c \in Leg :
       /\ call_logs[c] = "none" /\ call_logs'[c] # "none"
       /\ \A d \in Leg : d # c => call_logs'[d] = call_logs[d]

Outcome ==
  \/ Dead \/ HungUp \/ SameLine \/ TalkBegins \/ CallOver \/ LineTaken \/ CallMoved
  \/ Refusal

LEMMA PlacedCallTakesTheLine ==
  ASSUME TypeOK, Safe, NEW logs, PlacesCall(logs)
  PROVE  /\ call_logs' = logs /\ UNCHANGED fault
         /\ \/ call' = NoCall
            \/ call'.dir = "Outgoing" /\ \E c \in Leg : leg[c] = "free" /\ Takes(c)
<1>1. SUFFICES ASSUME NEW c \in Leg, leg[c] = "free", call' = NewCall(c, "Outgoing"),
                      UNCHANGED fault
               PROVE  Takes(c)
  BY DEF PlacesCall, NewCall
<1>2. call' \in LinphoneCall
  BY <1>1, NewCallType DEF CallDir
<1>3. call_logs[c] = "none"
  BY <1>1 DEF Safe, LogsOK
<1> QED BY <1>1, <1>2, <1>3 DEF Takes, NewCall, HasCall, Talking

LEMMA HandlerOutcome ==
  ASSUME TypeOK, Safe, ProcessEvent
  PROVE  Outcome
<1> USE DEF Outcome, core
<1>1. /\ ev \in Pending /\ EventOK(ev) /\ ev \in Event
      /\ HasCall => call \in LinphoneCall /\ ~call.freed
  BY AnEventIsHandled, TakingFromASequence, HasCallType
     DEF TypeOK, Pending, ev, Safe, EventsOK, CallOK
<1>2. ASSUME NEW why, why # "none", Dies(why) PROVE Dead
  BY <1>2 DEF Dies, Dead
<1>3. CASE UNCHANGED <<call, call_logs, fault>>
  BY <1>1, <1>3 DEF SameLine, HasCall, Talking
<1>4. CASE CallAccepted
  <2>1. /\ Current(ev.leg) /\ Adopted = call /\ ~Stray /\ HasCall
    BY <1>1, <1>4, AdoptedIsCall DEF EventOK, CallAccepted, Handles
  <2>2. CASE call.state # "AVRunning" /\ sdp_200_ack /\ ev.arg # "good"
    <3>1. [call EXCEPT !.freed = TRUE] \in LinphoneCall
          /\ [call EXCEPT !.freed = TRUE].freed
      BY <1>1, <2>1 DEF LinphoneCall
    <3> QED
      BY <1>1, <1>4, <2>1, <2>2, <3>1 DEF CallAccepted, HungUp, Lost, HasCall
  <2>3. CASE call.state # "AVRunning" /\ (~sdp_200_ack \/ ev.arg = "good")
    <3>1. CASE Dies("null")
      BY <1>2, <3>1
    <3>2. CASE ~Dies("null")
      <4>1. /\ call' = [call EXCEPT !.sdp = sdp_200_ack \/ @, !.state = "AVRunning"]
            /\ UNCHANGED <<call_logs, fault>>
        BY <1>4, <2>1, <2>3, <3>2 DEF CallAccepted, ConnectsIncoming
      <4>2. call' \in LinphoneCall
        BY <1>1, <2>1, <4>1 DEF LinphoneCall, CallState, TypeOK
      <4> QED
        BY <1>1, <2>1, <2>3, <4>1, <4>2 DEF TalkBegins, HasCall, Talking, LinphoneCall
    <3> QED BY <3>1, <3>2
  <2> QED BY <1>3, <1>4, <2>1, <2>2, <2>3 DEF CallAccepted
<1>5. CASE CallProceeding \/ CallRinging
  <2>1. /\ Current(ev.leg) /\ Adopted = call /\ ~Stray /\ HasCall
        /\ ev.type = "RINGING" => ~Talking(call)
    BY <1>1, <1>5, AdoptedIsCall DEF EventOK, CallProceeding, CallRinging, Handles, Talking
  <2>2. [call EXCEPT !.state = "Ringing"] \in LinphoneCall
    BY <1>1, <2>1 DEF LinphoneCall, CallState
  <2>3. CASE Dies("null")
    BY <1>2, <2>3
  <2>4. CASE call' = [call EXCEPT !.state = "Ringing"] /\ UNCHANGED <<call_logs, fault>>
             /\ ev.type = "RINGING"
    BY <1>1, <2>1, <2>2, <2>4 DEF SameLine, HasCall, Talking, LinphoneCall
  <2> QED
    BY <1>3, <1>5, <2>1, <2>3, <2>4 DEF CallProceeding, CallRinging, Handles
<1>6. CASE CallTerminated \/ CallFailure \/ CallReleased
  <2>1. CASE HasCall /\ call' = NoCall /\ call_logs' = Logged(call) /\ UNCHANGED fault
    BY <2>1 DEF CallOver
  <2> QED
    BY <1>1, <1>3, <1>6, <2>1
       DEF CallTerminated, CallFailure, CallReleased, ClosesCall, Destroys
<1>7. CASE CallRedirected
  <2>1. /\ Current(ev.leg) /\ HasCall /\ call.dir = "Outgoing" /\ ~Talking(call)
    BY <1>1, <1>7 DEF EventOK, CallRedirected, Handles, Talking, Current
  <2>2. CASE ev.arg = "302"
    <3>1. PlacesCall(Logged(call))
      BY <1>1, <1>7, <2>1, <2>2 DEF CallRedirected
    <3>2. leg[call.cid] # "free"
      BY <2>1 DEF Safe, CallOK, LegsOK, LegOK, Current
    <3> QED BY <2>1, <3>1, <3>2, PlacedCallTakesTheLine DEF CallOver, CallMoved
  <2>3. CASE ev.arg # "302"
    BY <1>1, <1>3, <1>7, <2>1, <2>3 DEF CallRedirected, Destroys, CallOver
  <2> QED BY <2>2, <2>3
<1>8. CASE IncNewCall
  <2>1. ev.leg \in Leg /\ call_logs[ev.leg] = "none"
    <3>1. Waiting("INVITE", ev.leg) /\ ev.leg \in Leg
      BY <1>1, <1>8 DEF IncNewCall, Handles, Waiting, Event
    <3> QED BY <3>1 DEF Safe, LogsOK
  <2>2. CASE HasCall
    BY <1>3, <1>8, <2>2 DEF IncNewCall
  <2>3. CASE ~HasCall /\ ev.arg = "bad"
    BY <1>8, <2>1, <2>3 DEF IncNewCall, Refusal, Logged, NewCall, Completed
  <2>4. CASE ~HasCall /\ ev.arg # "bad"
    <3>1. /\ call' = [NewCall(ev.leg, "Incoming") EXCEPT
                        !.state = "Ringing", !.sdp = (ev.arg = "good")]
          /\ UNCHANGED <<call_logs, fault>>
      BY <1>8, <2>4 DEF IncNewCall
    <3>2. call' \in LinphoneCall
      BY <2>1, <3>1 DEF NewCall, LinphoneCall, CallDir, CallState
    <3>3. Takes(ev.leg)
      BY <2>1, <3>1, <3>2 DEF Takes, NewCall, HasCall, Talking
    <3> QED BY <2>1, <2>4, <3>1, <3>3 DEF LineTaken
  <2> QED BY <2>2, <2>3, <2>4
<1>9. CASE HandleReinvite \/ HandleAck
  <2>1. HasCall /\ call \in LinphoneCall /\ ~call.freed
    BY <1>1, <1>9 DEF EventOK, HandleReinvite, HandleAck, Handles, Current
  <2>2. CASE Dies("null")
    BY <1>2, <2>2
  <2>3. CASE /\ UNCHANGED <<call_logs, fault>>
             /\ call' \in {[call EXCEPT !.sdp = TRUE, !.state = "AVRunning"],
                           [call EXCEPT !.sdp = TRUE], [call EXCEPT !.state = "AVRunning"]}
    <3>1. call' \in LinphoneCall
      BY <2>1, <2>3 DEF LinphoneCall, CallState
    <3>2. /\ HasCall' /\ call'.cid = call.cid /\ call'.dir = call.dir /\ ~call'.freed
          /\ call'.state \in {call.state, "AVRunning"}
      BY <2>1, <2>3, <3>1 DEF LinphoneCall, HasCall
    <3> QED BY <2>1, <2>3, <3>2 DEF SameLine, TalkBegins, Talking
  <2> QED
    BY <1>3, <1>9, <2>2, <2>3 DEF HandleReinvite, HandleAck, ConnectsIncoming
<1> QED BY <1>4, <1>5, <1>6, <1>7, <1>8, <1>9 DEF ProcessEvent

LEMMA StepOutcome ==
  ASSUME TypeOK, Safe, Next
  PROVE  Outcome
<1> USE DEF Outcome, core
<1>1. HasCall => call \in LinphoneCall /\ ~call.freed
  BY HasCallType DEF Safe, CallOK
<1>2. CASE UNCHANGED <<call, call_logs, fault>>
  BY <1>1, <1>2 DEF SameLine, HasCall, Talking
<1>3. CASE TerminatesCall
  BY <1>1, <1>3, HangingUpLosesTheCall DEF TerminatesCall, Destroys, HungUp
<1>4. CASE Invite
  BY <1>4, PlacedCallTakesTheLine DEF Invite, LineTaken, SameLine, HasCall
<1>5. CASE AcceptCall
  <2>1. CASE Dies("null")
    BY <2>1 DEF Dies, Dead
  <2>2. CASE call' = [call EXCEPT !.state = "AVRunning"] /\ UNCHANGED <<call_logs, fault>>
    <3>1. call' \in LinphoneCall
      BY <1>1, <1>5, <2>2 DEF AcceptCall, LinphoneCall, CallState
    <3> QED
      BY <1>1, <1>5, <2>2, <3>1 DEF AcceptCall, TalkBegins, HasCall, Talking, LinphoneCall
  <2> QED BY <1>2, <1>5, <2>1, <2>2 DEF AcceptCall
<1>6. CASE Refer
  BY <1>6 DEF Refer, Dies, Dead
<1>7. CASE TimePasses
  <2>1. call' = [call EXCEPT !.expired = TRUE] /\ HasCall /\ UNCHANGED <<call_logs, fault>>
    BY <1>7 DEF TimePasses
  <2>2. call' \in LinphoneCall
    BY <1>1, <2>1 DEF LinphoneCall
  <2> QED BY <1>1, <2>1, <2>2 DEF SameLine, HasCall, Talking, LinphoneCall
<1>8. CASE HeapReuse
  BY <1>1, <1>8 DEF HeapReuse
<1>9. CASE DialogCloses \/ TimerFires \/ DrainDone
  BY <1>2, <1>9 DEF DialogCloses, TimerFires, DrainDone
<1>10. CASE Environment
  BY <1>2, <1>10 DEF Environment, Signals, PeerProceeds, PeerRings, PeerAnswers,
     PeerChallenges, PeerFails, PeerRedirects, PeerInvites, PeerCancels, PeerAcks,
     PeerReinvites, PeerHangsUp, StackReleases
<1>11. CASE TerminateCall \/ Check
  BY <1>2, <1>3, <1>11 DEF TerminateCall, Check
<1> QED
  BY <1>4, <1>5, <1>6, <1>7, <1>8, <1>9, <1>10, <1>11, HandlerOutcome
     DEF Next, User, Iterate

----------------------------------------------------------------------------
(* The refinement: each outcome is a step of PhoneLine, or no step at all. *)

\* The line, its dialogue, who called and who is over, as PhoneLine sees them.
Who == IF LineState \in {"setup", "talk"} THEN {call.cid} ELSE {}
Caller == LineState = "setup" /\ call.dir = "Outgoing"
OverSet == {c \in Leg : call_logs[c] # "none"}

LEMMA LineValues ==
  /\ (fault # "none" \/ Lost) => LineState = "lost" /\ Who = {} /\ Caller = FALSE
  /\ (fault = "none" /\ ~HasCall) => LineState = "free" /\ Who = {} /\ Caller = FALSE
  /\ (fault = "none" /\ HasCall /\ ~call.freed /\ ~Talking(call)) =>
       LineState = "setup" /\ Who = {call.cid} /\ Caller = (call.dir = "Outgoing")
  /\ (fault = "none" /\ HasCall /\ ~call.freed /\ Talking(call)) =>
       LineState = "talk" /\ Who = {call.cid} /\ Caller = FALSE
BY DEF LineState, Who, Caller, Lost, Talking, HasCall

LEMMA LineValuesAfter ==
  /\ (fault' # "none" \/ Lost') => LineState' = "lost" /\ Who' = {} /\ Caller' = FALSE
  /\ (fault' = "none" /\ ~HasCall') => LineState' = "free" /\ Who' = {} /\ Caller' = FALSE
  /\ (fault' = "none" /\ HasCall' /\ ~call'.freed /\ ~Talking(call)') =>
       LineState' = "setup" /\ Who' = {call'.cid} /\ Caller' = (call'.dir = "Outgoing")
  /\ (fault' = "none" /\ HasCall' /\ ~call'.freed /\ Talking(call)') =>
       LineState' = "talk" /\ Who' = {call'.cid} /\ Caller' = FALSE
BY DEF LineState, Who, Caller, Lost, Talking, HasCall

\* What the log says once the call is over.
LEMMA LoggedIsOver ==
  ASSUME TypeOK, HasCall, call.cid \in Leg, call_logs' = Logged(call)
  PROVE  OverSet' = OverSet \cup {call.cid}
<1>1. call \in LinphoneCall /\ Completed(call) # "none"
  BY HasCallType DEF LinphoneCall, CallState, Completed
<1>2. \A c \in Leg : call_logs'[c] = IF c = call.cid THEN Completed(call) ELSE call_logs[c]
  BY DEF Logged
<1> QED BY <1>1, <1>2 DEF OverSet

\* The steps of PhoneLine, on these values.
LEMMA LineSteps ==
  /\ UNCHANGED <<LineState, Who, Caller, OverSet>> => UNCHANGED Line!vars
  /\ LineState # "lost" /\ LineState' = "lost" /\ Who' = {} /\ Caller' = FALSE
       /\ OverSet' \in {OverSet, OverSet \cup Who} => Line!Next
  /\ LineState = "setup" /\ LineState' = "talk" /\ Caller' = FALSE
       /\ Who' = Who /\ OverSet' = OverSet => Line!Next
  /\ LineState \in {"setup", "talk"} /\ LineState' = "free" /\ Who' = {}
       /\ Caller' = FALSE /\ OverSet' = OverSet \cup Who => Line!Next
  /\ \A c \in Leg \ (OverSet \cup Who) :
       /\ LineState = "free" /\ LineState' = "setup" /\ Who' = {c}
            /\ Caller' \in BOOLEAN /\ OverSet' = OverSet => Line!Next
       /\ LineState = "setup" /\ LineState' = "setup" /\ Caller /\ Caller' = Caller
            /\ Who' = {c} /\ OverSet' = OverSet \cup Who => Line!Next
       /\ LineState = "free" /\ LineState' = "free" /\ Who' = Who
            /\ Caller' = Caller /\ OverSet' = OverSet \cup {c} => Line!Next
BY DEF Line!Next, Line!Lose, Line!Talk, Line!End, Line!Setup, Line!Redirect, Line!Refuse,
       Line!Fresh, Line!vars, Who, Caller, OverSet

LEMMA OutcomeIsLineStep ==
  ASSUME TypeOK, Safe, fault = "none", Outcome, TypeOK'
  PROVE  Line!Next \/ UNCHANGED Line!vars
<1>1. HasCall => call \in LinphoneCall /\ ~call.freed /\ call.cid \in Leg
  BY HasCallType DEF Safe, CallOK
<1>2. LineState # "lost"
  BY <1>1 DEF LineState
<1> USE LineValues, LineValuesAfter
<1>3. CASE Dead
  <2>1. OverSet' = OverSet
    BY <1>3 DEF Dead, OverSet
  <2> QED BY <1>2, <1>3, <2>1, LineSteps DEF Dead
<1>4. CASE HungUp
  <2>1. OverSet' = OverSet \cup Who
    BY <1>1, <1>4, LoggedIsOver DEF HungUp
  <2> QED BY <1>2, <1>4, <2>1, LineSteps DEF HungUp
<1>5. CASE SameLine
  <2>1. OverSet' = OverSet
    BY <1>5 DEF SameLine, OverSet
  <2>2. LineState' = LineState /\ Who' = Who /\ Caller' = Caller
    BY <1>1, <1>5 DEF SameLine
  <2> QED BY <2>1, <2>2, LineSteps
<1>6. CASE TalkBegins
  <2>1. OverSet' = OverSet
    BY <1>6 DEF TalkBegins, OverSet
  <2> QED BY <1>1, <1>6, <2>1, LineSteps DEF TalkBegins
<1>7. CASE CallOver
  <2>1. OverSet' = OverSet \cup Who
    BY <1>1, <1>7, LoggedIsOver DEF CallOver
  <2>2. ~HasCall'
    BY <1>7 DEF CallOver, HasCall
  <2> QED BY <1>1, <1>7, <2>1, <2>2, LineSteps DEF CallOver
<1>8. CASE LineTaken
  <2>1. PICK c \in Leg : Takes(c)
    BY <1>8 DEF LineTaken
  <2>2. OverSet' = OverSet /\ c \notin OverSet
    BY <1>8, <2>1 DEF LineTaken, Takes, OverSet
  <2>3. LineState' = "setup" /\ Who' = {c} /\ Caller' \in BOOLEAN
    BY <2>1 DEF Takes
  <2> QED BY <1>8, <2>2, <2>3, LineSteps DEF LineTaken
<1>9. CASE CallMoved
  <2>1. PICK c \in Leg : c # call.cid /\ Takes(c)
    BY <1>9 DEF CallMoved
  <2>2. OverSet' = OverSet \cup Who
    BY <1>1, <1>9, LoggedIsOver DEF CallMoved
  <2>3. LineState = "setup" /\ Who = {call.cid} /\ Caller
    BY <1>1, <1>9 DEF CallMoved
  <2>4. c \in Leg \ (OverSet \cup Who)
    BY <2>1, <2>3 DEF Takes, OverSet
  <2>5. LineState' = "setup" /\ Who' = {c} /\ Caller' = Caller
    BY <1>1, <1>9, <2>1, <2>3 DEF Takes, CallMoved
  <2> QED BY <2>2, <2>3, <2>4, <2>5, LineSteps
<1>10. CASE Refusal
  <2>1. PICK c \in Leg :
          /\ call_logs[c] = "none" /\ call_logs'[c] # "none"
          /\ \A d \in Leg : d # c => call_logs'[d] = call_logs[d]
    BY <1>10 DEF Refusal
  <2>2. OverSet' = OverSet \cup {c} /\ c \notin OverSet
    BY <2>1 DEF OverSet
  <2>3. /\ LineState = "free" /\ LineState' = "free" /\ Who = {} /\ Who' = Who
        /\ Caller' = Caller
    BY <1>10 DEF Refusal, HasCall
  <2> QED BY <2>2, <2>3, LineSteps
<1> QED
  BY <1>3, <1>4, <1>5, <1>6, <1>7, <1>8, <1>9, <1>10 DEF Outcome

LEMMA LostIsQuiet ==
  ASSUME TypeOK, Lost, [Next]_vars
  PROVE  UNCHANGED Line!vars
<1>1. Lost' /\ call_logs' = call_logs
  BY LostForEver
<1> QED BY <1>1, LineValues, LineValuesAfter, LineSteps DEF OverSet

\* After a memory error nothing happens.
LEMMA DeadIsQuiet ==
  ASSUME fault # "none", [Next]_vars
  PROVE  UNCHANGED vars
BY DEF Next, vars, Alive, User, Invite, TerminateCall, AcceptCall, Refer, DialogCloses,
       Iterate, TimerFires, ProcessEvent, CallAccepted, CallProceeding, CallRinging,
       CallTerminated, CallFailure, CallReleased, CallRedirected, IncNewCall,
       HandleReinvite, HandleAck, Handles, DrainDone, Check, TimePasses, HeapReuse,
       Environment, Signals, PeerProceeds, PeerRings, PeerAnswers, PeerChallenges,
       PeerFails, PeerRedirects, PeerInvites, PeerCancels, PeerAcks, PeerReinvites,
       PeerHangsUp, StackReleases

\* Every behaviour of the engine is one of a phone with one line: a dialogue has
\* the line at most once, only the caller's set-up moves to another dialogue,
\* and what gives the line back is logged.
THEOREM EngineIsAPhoneLine == Spec => ImplementsPhoneLine
<1>1. Init => Line!Init
  <2> SUFFICES ASSUME Init PROVE Line!Init
    OBVIOUS
  <2>1. LineState = "free" /\ Who = {} /\ Caller = FALSE /\ OverSet = {}
    BY LineValues DEF Init, HasCall, OverSet
  <2> QED BY <2>1 DEF Line!Init, Who, Caller, OverSet
<1>2. ASSUME TypeOK, TypeOK', SafeInv, [Next]_vars
      PROVE  [Line!Next]_(Line!vars)
  <2>1. CASE UNCHANGED vars
    <3>1. UNCHANGED <<LineState, Who, Caller, OverSet>>
      BY <2>1 DEF vars, core, LineState, Who, Caller, OverSet, HasCall
    <3> QED BY <3>1, LineSteps
  <2>2. CASE Lost
    BY <1>2, <2>2, LostIsQuiet
  <2>3. CASE fault # "none"
    BY <1>2, <2>1, <2>3, DeadIsQuiet
  <2>4. CASE Safe /\ fault = "none" /\ Next
    BY <1>2, <2>4, StepOutcome, OutcomeIsLineStep
  <2> QED BY <1>2, <2>1, <2>2, <2>3, <2>4 DEF SafeInv
<1>3. TypeOK /\ TypeOK' /\ SafeInv /\ [Next]_vars => [Line!Next]_(Line!vars)
  BY <1>2
<1> QED
  BY <1>1, <1>3, SafeInvAlways, TypeCorrect, PTL DEF Spec, ImplementsPhoneLine, Line!Spec

=============================================================================
