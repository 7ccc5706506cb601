---------------------------- MODULE CallControl ----------------------------
(***************************************************************************)
(* The call engine of the mobilePhone soft-phone: CLinphoneCore with the   *)
(* CEvents handlers and the iterate loop of CPhoneCore.  One GUI thread    *)
(* runs everything: a 300 ms timer calls linphone_core_iterate, which      *)
(* drains the event queue of the SIP stack (eXosip) one handler at a time  *)
(* and then looks at timeouts; between two iterations the user's buttons   *)
(* run.  The SIP stack, the network and the remote parties are the         *)
(* environment: a leg per SIP dialogue, and a FIFO queue of events.        *)
(***************************************************************************)
EXTENDS Integers, Sequences, FiniteSets

CONSTANTS
  Leg,        \* the call identifiers (cid) the SIP stack hands out
  NoLeg,      \* the value -1 of a cid that has not been assigned
  NoCall,     \* the NULL value of lc->call
  MaxQueue,   \* bound: events waiting in the stack's queue
  Cards,      \* sound cards are configured (playback, capture, ring)
  Garbage     \* bound: what a freed call may look like when its block is reused

ASSUME LegAssumption == NoLeg \notin Leg
ASSUME QueueAssumption == MaxQueue \in Nat \ {0}
ASSUME ConfigAssumption == Cards \in BOOLEAN

VARIABLES
  sdp_200_ack, \* sip_conf.sdp_200_ack, read once: invite without an SDP offer
  call,       \* lc->call: NoCall or the fields of the LinphoneCall it points to
  audio,      \* lc->audiostream: "none" (NULL), "allocated" or "running"
  ring,       \* lc->ringstream # NULL
  gstate,     \* lc->gstate_call; END and ERROR go to IDLE at once
  call_logs,  \* how each call ended, as linphone_call_log_completed records it
  pc,         \* where linphone_core_iterate is: "idle", "drain" or "check"
  modal,      \* iterations suspended in the modal dialog of an incoming call
  fault,      \* "none", or the memory error that ended the process
  leg,        \* environment: the state of each SIP dialogue
  evq         \* environment: events waiting in eXosip's queue

core  == <<call, audio, ring, gstate, call_logs>>
loop  == <<pc, modal>>
env   == <<leg, evq>>
vars  == <<sdp_200_ack, core, loop, fault, env>>

CallDir   == {"Incoming", "Outgoing"}
CallState == {"Init", "Ringing", "AVRunning"}

\* sdp: sdpctx->answerstr # NULL; expired: start_time is more than
\* inc_timeout ago; freed: the block was given back by linphone_call_destroy.
LinphoneCall ==
  [cid : Leg \cup {NoLeg}, dir : CallDir, state : CallState,
   sdp : BOOLEAN, expired : BOOLEAN, freed : BOOLEAN]

ASSUME GarbageAssumption ==
  Garbage \subseteq [cid : Leg \cup {NoLeg}, dir : CallDir, state : CallState]
ASSUME NoCallAssumption == NoCall \notin LinphoneCall

GState == {"IDLE", "OUT_INVITE", "OUT_CONNECTED", "IN_INVITE", "IN_CONNECTED"}

\* "challenged": refused with 401/407, waiting for eXosip_automatic_action.
\* "cancelling": given up by us, the final answer is still to come.
\* "accepted" / "offering": we sent 200 with an SDP answer / with an offer.
\* "ended": no signalling left; "released": the stack has freed the dialogue.
LegState == {"free", "calling", "challenged", "answered", "up", "cancelling",
             "offered", "accepted", "offering", "ended", "released"}

EventType == {"ANSWERED", "PROCEEDING", "RINGING", "FAILURE", "REDIRECTED",
              "INVITE", "REINVITE", "ACK", "CLOSED", "RELEASED"}

\* What a handler reads in the message: the SDP body (absent, negotiable or
\* not) or the class of the status code.
EventArg == {"none", "good", "bad", "auth", "380", "302", "other"}

Event == [type : EventType, leg : Leg, arg : EventArg]

LogStatus == {"none", "Aborted", "Missed", "Success"}

TypeOK ==
  /\ sdp_200_ack \in BOOLEAN
  /\ call \in LinphoneCall \cup {NoCall}
  /\ audio \in {"none", "allocated", "running"}
  /\ ring \in BOOLEAN
  /\ gstate \in GState
  /\ call_logs \in [Leg -> LogStatus]
  /\ pc \in {"idle", "drain", "check"}
  /\ modal \in Nat
  /\ fault \in {"none", "null", "heap", "refer"}
  /\ leg \in [Leg -> LegState]
  /\ evq \in Seq(Event)

Init ==
  /\ sdp_200_ack \in BOOLEAN
  /\ call = NoCall
  /\ audio = "none"
  /\ ring = FALSE
  /\ gstate = "IDLE"
  /\ call_logs = [c \in Leg |-> "none"]
  /\ pc = "idle"
  /\ modal = 0
  /\ fault = "none"
  /\ leg = [c \in Leg |-> "free"]
  /\ evq = << >>

----------------------------------------------------------------------------
(* Pieces shared by the handlers. *)

\* A memory error ends the process: nothing else happens.
Alive == fault = "none"

HasCall == call # NoCall

\* linphone_call_init_common: the fields of a call that was just created.
NewCall(c, d) ==
  [cid |-> c, dir |-> d, state |-> "Init", sdp |-> FALSE,
   expired |-> FALSE, freed |-> FALSE]

\* linphone_call_log_completed: the status depends on the state the call is in.
Completed(c) ==
  CASE c.state = "Init"      -> "Aborted"
    [] c.state = "Ringing"   -> IF c.dir = "Incoming" THEN "Missed" ELSE "Aborted"
    [] c.state = "AVRunning" -> "Success"

Logged(c) ==
  [l \in Leg |-> IF l = c.cid THEN Completed(c) ELSE call_logs[l]]

\* linphone_core_init_media_streams: a stream is made over whatever was there.
NewStream == "allocated"

\* linphone_core_start_media_streams: without a card the stream is not started.
Started == IF Cards THEN "running" ELSE "allocated"

\* eXosip_call_terminate: CANCEL, BYE or a refusal, as the dialogue allows.
Terminated(c) ==
  [l \in Leg |->
     IF l # c THEN leg[l]
     ELSE CASE leg[l] = "calling" -> "cancelling"
            [] leg[l] \in {"challenged", "answered", "up", "offered",
                           "accepted", "offering"} -> "ended"
            [] OTHER -> leg[l]]

\* eXosip_call_send_answer with a final refusal.
NeverRefused(c) == leg    \* mutant: 486 is not sent

Refused(c) ==
  [l \in Leg |-> IF l = c /\ leg[l] = "offered" THEN "ended" ELSE leg[l]]

Dies(why) == fault' = why /\ UNCHANGED <<core, leg>>

\* ring_stop, linphone_core_stop_media_streams, and GSTATE_CALL_END or ERROR.
GoesSilent ==
  /\ ring' = FALSE
  /\ audio' = "none"
  /\ gstate' = "IDLE"

\* linphone_call_destroy.  On a block that was already destroyed the log, the
\* RTP profile, the SDP context and the block are all freed a second time.
Destroys(rest) ==
  IF call.freed
    THEN Dies("heap")
    ELSE call_logs' = Logged(call) /\ rest

\* The current call is over and forgotten.
ClosesCall ==
  Destroys(GoesSilent /\ call' = NoCall /\ UNCHANGED <<fault, leg>>)

\* The drain loop takes the oldest event and dispatches it on its type.
ev == Head(evq)

Handles(type) ==
  /\ Alive /\ pc = "drain"
  /\ evq # << >>
  /\ ev.type = type
  /\ evq' = Tail(evq)

\* linphone_call_matches_event is FALSE, or there is no call at all.
Stray == HasCall => call.cid \notin {NoLeg, ev.leg}

Adopted == [call EXCEPT !.cid = ev.leg]

----------------------------------------------------------------------------
(* Operations of the user: they run on the GUI thread between iterations. *)

\* linphone_core_invite, once it is known that no call exists.  logs is what
\* the call log has become, for the caller that destroyed a call before.
PlacesCall(logs) ==
  /\ call_logs' = logs
  /\ UNCHANGED <<ring, fault>>
  /\ \/ \* bad url, or the INVITE cannot be built
        /\ gstate' = "IDLE"
        /\ call' = NoCall
        /\ UNCHANGED <<audio, leg>>
     \/ \* eXosip_call_send_initial_invite fails
        /\ gstate' = "IDLE"
        /\ call' = NoCall
        /\ audio' = "none"
        /\ UNCHANGED leg
     \/ \E c \in Leg :
          /\ leg[c] = "free"
          /\ leg' = [leg EXCEPT ![c] = "calling"]
          /\ call' = NewCall(c, "Outgoing")
          /\ gstate' = "OUT_INVITE"
          /\ audio' = IF sdp_200_ack THEN audio ELSE NewStream

InviteAnyway ==    \* mutant: the test for a second call is missing
  /\ Alive /\ pc = "idle"
  /\ PlacesCall(call_logs)
  /\ UNCHANGED <<loop, evq>>

Invite ==
  /\ Alive /\ pc = "idle"
  /\ ~HasCall
  /\ PlacesCall(call_logs)
  /\ UNCHANGED <<loop, evq>>

\* linphone_core_terminate_call.  lc->call keeps pointing to the freed block.
TerminatesCall ==
  /\ HasCall
  /\ Destroys(/\ leg' = Terminated(call.cid)
              /\ GoesSilent
              /\ call' = [call EXCEPT !.freed = TRUE]
              /\ UNCHANGED fault)

TerminateCall ==
  /\ Alive /\ pc = "idle"
  /\ TerminatesCall
  /\ UNCHANGED <<loop, evq>>

\* linphone_core_accept_call: the ring is stopped before the 200 is built.
\* With an answer to send the stream is started at once; without one an offer
\* goes out and the stream waits for the ACK.
AcceptCall ==
  /\ Alive /\ pc = "idle"
  /\ HasCall
  /\ call.state # "AVRunning"
  /\ UNCHANGED <<loop, evq>>
  /\ \/ \* eXosip_call_build_answer fails: nothing to answer
        /\ call.cid \in Leg => leg[call.cid] # "offered"
        /\ ring' = FALSE
        /\ UNCHANGED <<call, audio, gstate, call_logs, fault, leg>>
     \/ /\ call.cid \in Leg
        /\ leg[call.cid] = "offered"
        /\ IF call.sdp /\ Cards /\ audio = "none"
             THEN Dies("null")
             ELSE /\ ring' = FALSE
                  /\ gstate' = "IN_CONNECTED"
                  /\ leg' = [leg EXCEPT ![call.cid] =
                               IF call.sdp THEN "accepted" ELSE "offering"]
                  /\ audio' = IF call.sdp THEN Started ELSE NewStream
                  /\ call' = IF call.sdp
                               THEN [call EXCEPT !.state = "AVRunning"] ELSE call
                  /\ UNCHANGED <<call_logs, fault>>

\* linphone_core_refer: lc->call is set to NULL and dereferenced.
Refer ==
  /\ Alive /\ pc = "idle"
  /\ HasCall
  /\ Dies("refer")
  /\ UNCHANGED <<loop, evq>>

\* The dialog of an incoming call is closed: linphone_inc_new_call returns and
\* the iteration it belongs to goes on draining.
DialogClosesTwice ==    \* mutant: nothing keeps track of the dialogs
  /\ Alive /\ pc = "idle"
  /\ modal' = modal - 1
  /\ pc' = "drain"
  /\ UNCHANGED <<core, fault, env>>

DialogCloses ==
  /\ Alive /\ pc = "idle"
  /\ modal > 0
  /\ modal' = modal - 1
  /\ pc' = "drain"
  /\ UNCHANGED <<core, fault, env>>

User == Invite \/ TerminateCall \/ AcceptCall \/ Refer \/ DialogCloses
----------------------------------------------------------------------------
(* Handlers of CEvents: one action per type of event. *)

\* linphone_connect_incoming on call c: the stream of a call that had early
\* media is stopped and made again before it is started.
ConnectsRinging(c) ==    \* mutant: the ring goes on
  /\ call' = [c EXCEPT !.state = "AVRunning"]
  /\ ring' = ring
  /\ audio' = Started

ConnectsIncoming(c) ==
  /\ call' = [c EXCEPT !.state = "AVRunning"]
  /\ ring' = FALSE
  /\ audio' = Started

\* linphone_call_accepted
CallAccepted ==
  /\ Handles("ANSWERED")
  /\ UNCHANGED loop
  /\ \/ \* no call to accept
        /\ ~HasCall
        /\ UNCHANGED <<core, fault, leg>>
     \/ \* linphone_call_proceeding ends the leg of a call given up before
        /\ HasCall /\ Stray
        /\ leg' = Terminated(ev.leg)
        /\ UNCHANGED <<core, fault>>
     \/ \* already accepted
        /\ ~Stray
        /\ call.state = "AVRunning"
        /\ call' = Adopted
        /\ UNCHANGED <<audio, ring, gstate, call_logs, fault, leg>>
     \/ \* the answer has been read, or an answer to the offer computed
        /\ ~Stray
        /\ call.state # "AVRunning"
        /\ ~sdp_200_ack \/ ev.arg = "good"
        /\ IF ~sdp_200_ack /\ audio = "none"
             THEN Dies("null")
             ELSE /\ gstate' = "OUT_CONNECTED"
                  /\ ConnectsIncoming([Adopted EXCEPT !.sdp = sdp_200_ack \/ @])
                  /\ leg' = [leg EXCEPT ![ev.leg] = IF @ = "answered" THEN "up" ELSE @]
                  /\ UNCHANGED <<call_logs, fault>>
     \/ \* incompatible offer in the 200: ACK, then BYE
        /\ ~Stray
        /\ call.state # "AVRunning"
        /\ sdp_200_ack /\ ev.arg # "good"
        /\ IF call.freed
             THEN Dies("heap")
             ELSE /\ leg' = Terminated(ev.leg)
                  /\ GoesSilent
                  /\ call_logs' = Logged(Adopted)
                  /\ call' = [Adopted EXCEPT !.freed = TRUE]
                  /\ UNCHANGED fault

\* linphone_call_proceeding
CallProceeding ==
  /\ Handles("PROCEEDING")
  /\ IF Stray THEN leg' = Terminated(ev.leg) /\ UNCHANGED call
              ELSE call' = Adopted /\ UNCHANGED leg
  /\ UNCHANGED <<audio, ring, gstate, call_logs, loop, fault>>

\* linphone_call_ringing: after linphone_call_proceeding has dealt with the
\* leg, the current call rings whether or not the event was about it.
CallRinging ==
  /\ Handles("RINGING")
  /\ UNCHANGED <<call_logs, loop>>
  /\ LET legs   == IF Stray THEN Terminated(ev.leg) ELSE leg
         proceed == IF Stray THEN call ELSE Adopted
     IN \/ /\ ~HasCall
           /\ leg' = legs
           /\ UNCHANGED <<call, audio, ring, gstate, fault>>
        \/ \* 180 without SDP: play the remote ring
           /\ HasCall
           /\ ev.arg = "none"
           /\ leg' = legs
           /\ ring' = (ring \/ Cards)
           /\ call' = IF ring THEN proceed ELSE [proceed EXCEPT !.state = "Ringing"]
           /\ UNCHANGED <<audio, gstate, fault>>
        \/ \* early media
           /\ HasCall
           /\ ev.arg # "none"
           /\ audio = "none"
           /\ Dies("null")
        \/ \* early media already started
           /\ HasCall
           /\ ev.arg # "none"
           /\ audio = "running"
           /\ leg' = legs
           /\ call' = proceed
           /\ UNCHANGED <<audio, ring, gstate, fault>>
        \/ /\ HasCall
           /\ ev.arg # "none"
           /\ audio = "allocated"
           /\ leg' = legs
           /\ gstate' = "OUT_CONNECTED"
           /\ ring' = FALSE
           /\ audio' = Started
           /\ call' = [proceed EXCEPT !.state = "Ringing"]
           /\ UNCHANGED fault

\* The call a CLOSED or a failure is about is not the current one.
AnyIsCurrent == FALSE   \* mutant: the cid is not compared
NotCurrent   == HasCall /\ call.cid # ev.leg

\* linphone_call_terminated, for CLOSED and CANCELLED
CallTerminated ==
  /\ Handles("CLOSED")
  /\ UNCHANGED <<loop, leg>>
  /\ \/ \* this was not the current call
        /\ NotCurrent
        /\ UNCHANGED <<core, fault>>
     \/ /\ ~HasCall
        /\ GoesSilent
        /\ UNCHANGED <<call, call_logs, fault>>
     \/ /\ HasCall /\ ~NotCurrent
        /\ ClosesCall

\* linphone_call_failure, for NOANSWER, TIMEOUT and every failing status.  A
\* 401/407 only goes to linphone_process_authentication (the password), which
\* leaves the call as it is.
CallFailure ==
  /\ Handles("FAILURE")
  /\ UNCHANGED <<loop, leg>>
  /\ \/ \* an old call, or a challenge
        /\ NotCurrent \/ ev.arg = "auth"
        /\ UNCHANGED <<core, fault>>
     \/ /\ ~HasCall
        /\ ev.arg # "auth"
        /\ ring' = FALSE
        /\ audio' = "none"
        /\ UNCHANGED <<call, gstate, call_logs, fault>>
     \/ /\ HasCall /\ ~NotCurrent
        /\ ev.arg # "auth"
        /\ ClosesCall

CallReleasedForAll ==    \* mutant: the general state changes for any leg
  /\ Handles("RELEASED")
  /\ gstate' = "IDLE"
  /\ call' = IF HasCall /\ call.cid = ev.leg THEN NoCall ELSE call
  /\ UNCHANGED <<audio, ring, call_logs, loop, fault, leg>>

CallReleasedIfInit ==    \* mutant: a call that rings is left alone
  /\ Handles("RELEASED")
  /\ UNCHANGED <<audio, ring, gstate, call_logs, loop, fault, leg>>
  /\ call' = IF HasCall /\ call.cid = ev.leg /\ call.state = "Init"
               THEN NoCall ELSE call

\* linphone_call_released: neither the ring nor the media are stopped.
CallReleased ==
  /\ Handles("RELEASED")
  /\ UNCHANGED <<loop, leg>>
  /\ \/ /\ HasCall => call.cid # ev.leg
        /\ UNCHANGED <<core, fault>>
     \/ /\ HasCall /\ call.cid = ev.leg
        /\ Destroys(/\ call' = NoCall
                    /\ gstate' = "IDLE"
                    /\ UNCHANGED <<audio, ring, fault>>)

\* linphone_call_redirected, without a look at the leg: 380 only forgets the
\* call, 302 places another one (linphone_do_automatic_redirect).
CallRedirected ==
  /\ Handles("REDIRECTED")
  /\ UNCHANGED loop
  /\ \/ /\ ev.arg = "380" /\ HasCall
        /\ Destroys(call' = NoCall /\ UNCHANGED <<audio, ring, gstate, fault, leg>>)
     \/ /\ ev.arg = "302" /\ HasCall
        /\ IF call.freed THEN Dies("heap") ELSE PlacesCall(Logged(call))
     \/ /\ ev.arg = "302" /\ ~HasCall
        /\ PlacesCall(call_logs)
     \/ /\ ev.arg = "other" \/ (ev.arg = "380" /\ ~HasCall)
        /\ UNCHANGED <<core, fault, leg>>

\* linphone_answer_sdp: a stream is made if the offer can be answered.
AnswersAndStarts  == IF ev.arg = "good" THEN Started ELSE audio       \* mutant
AnswersWithNoInit == audio                                           \* mutant
AnswersSdp        == IF ev.arg = "good" THEN NewStream ELSE audio

\* linphone_inc_new_call (presence_mode is ONLINE: nothing changes it).  The
\* call rings, then the dialog runs a message loop of its own, with the timer.
IncNewCall ==
  /\ Handles("INVITE")
  /\ UNCHANGED fault
  /\ \/ \* busy: 486
        /\ HasCall
        /\ leg' = Refused(ev.leg)
        /\ UNCHANGED <<core, loop>>
     \/ \* 415: the call is created and destroyed
        /\ ~HasCall
        /\ ev.arg = "bad"
        /\ leg' = Refused(ev.leg)
        /\ call_logs' = Logged(NewCall(ev.leg, "Incoming"))
        /\ UNCHANGED <<call, audio, ring, gstate, loop>>
     \/ /\ ~HasCall
        /\ ev.arg # "bad"
        /\ call' = [NewCall(ev.leg, "Incoming") EXCEPT
                      !.state = "Ringing", !.sdp = (ev.arg = "good")]
        /\ audio' = AnswersSdp
        /\ gstate' = "IN_INVITE"
        /\ ring' = (ring \/ Cards)
        /\ modal' = modal + 1
        /\ pc' = "idle"
        /\ UNCHANGED <<call_logs, leg>>

\* linphone_handle_reinvite, for an acceptable offer
RestartsThenStops == audio' = "none"    \* mutant: stopped after it was made
RestartsMedia     == audio' = Started

\* linphone_handle_reinvite, without a look at the leg
HandleReinvite ==
  /\ Handles("REINVITE")
  /\ UNCHANGED loop
  /\ \/ \* 603, or the status of the negotiation
        /\ ev.arg = "none" \/ (HasCall /\ ev.arg = "bad")
        /\ UNCHANGED <<core, fault, leg>>
     \/ /\ ev.arg # "none" /\ ~HasCall
        /\ Dies("null")
     \/ /\ ev.arg = "good" /\ HasCall
        /\ leg[ev.leg] = "up"
        /\ RestartsMedia
        /\ call' = [call EXCEPT !.sdp = TRUE, !.state = "AVRunning"]
        /\ UNCHANGED <<ring, gstate, call_logs, fault, leg>>
     \/ \* the 200 cannot be built: reinvite for closed call
        /\ ev.arg = "good" /\ HasCall
        /\ leg[ev.leg] # "up"
        /\ audio' = "none"
        /\ call' = [call EXCEPT !.sdp = TRUE]
        /\ UNCHANGED <<ring, gstate, call_logs, fault, leg>>

\* linphone_handle_ack, without a look at the leg
HandleAck ==
  /\ Handles("ACK")
  /\ UNCHANGED loop
  /\ \/ /\ ev.arg = "none"
        /\ UNCHANGED <<core, fault, leg>>
     \/ /\ ev.arg # "none"
        /\ ~HasCall \/ audio = "none"
        /\ Dies("null")
     \/ /\ ev.arg # "none"
        /\ HasCall /\ audio # "none"
        /\ ConnectsIncoming(call)
        /\ UNCHANGED <<gstate, call_logs, fault, leg>>

ProcessEvent ==
  \/ CallAccepted   \/ CallProceeding \/ CallRinging \/ CallTerminated
  \/ CallFailure    \/ CallReleased   \/ CallRedirected
  \/ IncNewCall     \/ HandleReinvite \/ HandleAck

----------------------------------------------------------------------------
(* The rest of linphone_core_iterate, and time. *)

\* WM_TIMER: the GUI thread is in a message loop.
TimerFiresOnce ==    \* mutant: iterate is not entered again from the dialog
  /\ Alive /\ pc = "idle" /\ modal = 0
  /\ pc' = "drain"
  /\ UNCHANGED <<core, modal, fault, env>>

TimerFires ==
  /\ Alive /\ pc = "idle"
  /\ pc' = "drain"
  /\ UNCHANGED <<core, modal, fault, env>>

\* The queue is empty; eXosip_automatic_action sends the challenged requests
\* again for which it has credentials.
DrainDone ==
  /\ Alive /\ pc = "drain"
  /\ evq = << >>
  /\ pc' = "check"
  /\ \E retried \in SUBSET {c \in Leg : leg[c] = "challenged"} :
       leg' = [c \in Leg |-> IF c \in retried THEN "calling" ELSE leg[c]]
  /\ UNCHANGED <<core, modal, fault, evq>>

\* An unanswered incoming call times out; linphone_core_disconnected when the
\* stream of an established call has stopped receiving.
TimesOutInit ==    \* mutant: the state a call has only before it rings
  call.dir = "Incoming" /\ call.state = "Init" /\ call.expired

TimesOut == call.dir = "Incoming" /\ call.state = "Ringing" /\ call.expired
Starved  == call.state = "AVRunning" /\ audio = "running"

Check ==
  /\ Alive /\ pc = "check"
  /\ pc' = "idle"
  /\ UNCHANGED <<modal, evq>>
  /\ \/ /\ ~(HasCall /\ TimesOut)
        /\ UNCHANGED <<core, fault, leg>>
     \/ /\ HasCall
        /\ TimesOut \/ Starved
        /\ TerminatesCall

\* More than inc_timeout seconds have passed since the call was created.
TimePasses ==
  /\ Alive /\ HasCall
  /\ ~call.expired
  /\ call' = [call EXCEPT !.expired = TRUE]
  /\ UNCHANGED <<audio, ring, gstate, call_logs, loop, fault, env>>

\* The heap gives the freed block to somebody else, who writes over it.
HeapReuse ==
  /\ Alive /\ HasCall
  /\ call.freed
  /\ \E g \in Garbage :
       call' = [call EXCEPT !.cid = g.cid, !.dir = g.dir, !.state = g.state]
  /\ UNCHANGED <<audio, ring, gstate, call_logs, loop, fault, env>>

----------------------------------------------------------------------------
(* The SIP stack and the remote parties. *)

\* The dialogue moves and the stack queues an event about it.
Signals(c, from, to, type, args) ==
  /\ Alive /\ Len(evq) < MaxQueue
  /\ leg[c] \in from
  /\ leg' = [leg EXCEPT ![c] = to]
  /\ \E a \in args : evq' = Append(evq, [type |-> type, leg |-> c, arg |-> a])
  /\ UNCHANGED <<core, loop, fault>>

PeerProceeds(c)   == Signals(c, {"calling"}, "calling", "PROCEEDING", {"none"})
PeerRings(c)      == Signals(c, {"calling"}, "calling", "RINGING", {"none", "good"})
PeerAnswers(c)    == Signals(c, {"calling", "cancelling"}, "answered", "ANSWERED",
                             {"good", "bad"})
PeerChallenges(c) == Signals(c, {"calling"}, "challenged", "FAILURE", {"auth"})
PeerFails(c)      == Signals(c, {"calling", "cancelling"}, "ended", "FAILURE", {"other"})
PeerRedirects(c)  == Signals(c, {"calling", "cancelling"}, "ended", "REDIRECTED",
                             {"302", "380", "other"})
PeerInvites(c)    == Signals(c, {"free"}, "offered", "INVITE", {"none", "good", "bad"})
PeerCancels(c)    == Signals(c, {"offered"}, "ended", "CLOSED", {"none"})
PeerAcks(c)       == \/ Signals(c, {"accepted"}, "up", "ACK", {"none"})
                     \/ Signals(c, {"offering"}, "up", "ACK", {"good"})
PeerReinvites(c)  == Signals(c, {"up"}, "up", "REINVITE", {"none", "good", "bad"})
PeerHangsUp(c)    == Signals(c, {"answered", "up", "accepted", "offering"}, "ended",
                             "CLOSED", {"none"})
\* A challenge nobody answered is given up; a finished dialogue is freed.
StackReleases(c)  == Signals(c, {"challenged", "ended"}, "released", "RELEASED", {"none"})

Environment ==
  \E c \in Leg :
    \/ PeerProceeds(c)  \/ PeerRings(c)     \/ PeerAnswers(c) \/ PeerChallenges(c)
    \/ PeerFails(c)     \/ PeerRedirects(c) \/ PeerInvites(c) \/ PeerCancels(c)
    \/ PeerAcks(c)      \/ PeerReinvites(c) \/ PeerHangsUp(c) \/ StackReleases(c)

----------------------------------------------------------------------------
Iterate == TimerFires \/ ProcessEvent \/ DrainDone \/ Check

Next ==
  /\ UNCHANGED sdp_200_ack
  /\ User \/ Iterate \/ TimePasses \/ HeapReuse \/ Environment

Spec == Init /\ [][Next]_vars

\* The timer keeps firing and the drain loop keeps taking events, the clock
\* runs, and the stack frees every finished dialogue (strong fairness only
\* because its queue is bounded here).  Users and peers may stop for ever.
Fairness ==
  /\ WF_vars(TimerFires /\ UNCHANGED sdp_200_ack)
  /\ WF_vars(ProcessEvent /\ UNCHANGED sdp_200_ack)
  /\ WF_vars(DrainDone /\ UNCHANGED sdp_200_ack)
  /\ WF_vars(Check /\ UNCHANGED sdp_200_ack)
  /\ WF_vars(TimePasses /\ UNCHANGED sdp_200_ack)
  /\ \A c \in Leg : SF_vars(StackReleases(c) /\ UNCHANGED sdp_200_ack)

FairSpec == Spec /\ Fairness

----------------------------------------------------------------------------
(* The promise of PhoneLine, which this engine implements. *)

\* A call that exists and whose block is still allocated.
Live == HasCall /\ ~call.freed

\* Once lc->call dangles, or the process is gone, the line is lost.
LineState ==
  IF fault # "none" \/ (HasCall /\ call.freed) THEN "lost"
  ELSE IF ~HasCall THEN "free"
  ELSE IF call.state = "AVRunning" THEN "talk" ELSE "setup"

Line == INSTANCE PhoneLine WITH
  Dialogue <- Leg,
  state    <- LineState,
  who      <- IF LineState \in {"setup", "talk"} THEN {call.cid} ELSE {},
  caller   <- LineState = "setup" /\ call.dir = "Outgoing",
  over     <- {c \in Leg : call_logs[c] # "none"}

\* Every step of the engine is one of PhoneLine's, or leaves the line as it is.
ImplementsPhoneLine == Line!Spec

----------------------------------------------------------------------------
(* Correctness. *)

Queued(type, c) == \E i \in 1..Len(evq) : evq[i].type = type /\ evq[i].leg = c

Held == {"calling", "answered", "up", "offered", "accepted", "offering"}

\* The state shown to the user is never "idle" while a call exists, although
\* seven handlers create, replace or end calls and set it separately.
LiveCallIsShown == Live => gstate # "IDLE"

\* A dialogue that is using the line is the current call's, unless the engine
\* has not seen its INVITE yet: no handler drops or replaces a call and leaves
\* its leg open.
HeldLegIsCurrent ==
  (HasCall => ~call.freed) =>
    \A c \in Leg : leg[c] \in Held =>
      (Live /\ call.cid = c) \/ Queued("INVITE", c)

\* A call that is dead has the event before it that ends it, so lc->call cannot
\* stay busy with it: RELEASED, if the stack has freed the dialogue; CLOSED, if
\* it is established without a stream, as only the failing branch of
\* linphone_handle_reinvite leaves it.
DeadCallIsReaped ==
  Live =>
    /\ leg[call.cid] = "released" => Queued("RELEASED", call.cid)
    /\ call.state = "AVRunning" /\ audio = "none" => Queued("CLOSED", call.cid)

\* No ring is played over an established call.
TalkingIsNotRinging == Live /\ call.state = "AVRunning" => ~ring

\* None of the handlers that use lc->call or lc->audiostream without a test
\* meets a NULL pointer, in the offer-in-INVITE scheme.
NoNullDereference ==
  ~sdp_200_ack /\ fault = "null" => HasCall /\ call.freed

\* An event about another leg leaves the current call, its ring and its stream
\* alone, although four handlers never compare the cid.
StrangerEventsHarmless ==
  [][ Live /\ ProcessEvent /\ ev.leg # call.cid
        => UNCHANGED core ]_vars

\* No step starts the stream (opens the microphone) while the current call is
\* an incoming one nobody has accepted, whatever ACK or re-INVITE arrives.
MediaStartsAfterAnswer ==
  [][ audio # "running" /\ audio' = "running" /\ Live' =>
        call'.dir = "Outgoing" \/ leg'[call'.cid] \notin {"offered", "free"} ]_vars

\* A call whose dialogue is over is forgotten: lc->call does not stay busy with
\* it, even while the dialog of another incoming call keeps iterations waiting.
EndedCallIsForgotten ==
  \A c \in Leg :
    (Live /\ call.cid = c /\ leg[c] = "ended")
      ~> (fault # "none" \/ ~(Live /\ call.cid = c))

\* An incoming call does not ring for ever.
IncomingStopsRinging ==
  (Live /\ call.dir = "Incoming" /\ call.state = "Ringing")
    ~> (fault # "none" \/ ~(Live /\ call.dir = "Incoming" /\ call.state = "Ringing"))

\* The ring timeout rejects only calls that nobody answered.
TimeoutRejectsUnanswered ==
  [][ \A c \in Leg : call_logs'[c] = "Missed" /\ call_logs[c] # "Missed"
        => leg[c] \notin {"accepted", "offering", "up"} ]_vars

\* An INVITE is answered 486 (busy) only while there is a call.
BusyOnlyInCall ==
  [][ HasCall /\ ProcessEvent /\ ev.type = "INVITE" /\ leg' # leg => ~call.freed ]_vars

============================================================================
