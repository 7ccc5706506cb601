----------------------------- MODULE SipAccount -----------------------------
(***************************************************************************)
(* The registration of the phone and the passwords it is asked for:        *)
(* CEvents' registration handlers, CPrivate's authentication, CProxy and   *)
(* the part of linphone_core_iterate that hands the SIP stack its turn.    *)
(* One timer handler does all of the phone's work: it drains the stack's   *)
(* event queue and then, unless automatic_action counts a password the     *)
(* user was asked for, lets the stack retry challenged requests and        *)
(* refresh what expires (PhoneCore.cpp:139-147).  At the end of the        *)
(* program sip_config_uninit does the same a fixed number of times, but    *)
(* without looking at automatic_action.                                    *)
(*                                                                         *)
(* A realm stands for the two kinds of challenge a response may carry: one *)
(* of the proxy and one of the server itself.  The user has one name, so   *)
(* the two searches of find_auth_info agree.  The stack, the registrar and *)
(* the network are external.  Presence composes this module with the       *)
(* friends' subscriptions, which share the queue and the stack's turn.     *)
(***************************************************************************)
EXTENDS Integers, Sequences, FiniteSets

Realms == {"proxy", "www"}

CONSTANTS
  QuitLoops,   \* sip_config_uninit drains the queue that often: 20
  MaxRequests, \* bound: REGISTER and INVITE transactions with a number of their own
  MaxQueue,    \* bound: events that wait in the stack's queue
  MaxWork      \* bound: what peers, the network and the user start, in all

\* what the configuration (known) and the registrar (protects) hold; right: the
\* registrar has the same password
PasswordSets ==
  {p \in [known : SUBSET Realms, right : SUBSET Realms, protects : SUBSET Realms] :
     p.right \subseteq p.known \cap p.protects}

ASSUME BoundsAssumption ==
  /\ QuitLoops \in Nat \ {0} /\ MaxRequests \in Nat \ {0}
  /\ MaxQueue \in Nat \ {0} /\ MaxWork \in Nat

VARIABLES
  passwords,  \* fixed: known (lc->auth_info), right (the password is the
              \* registrar's too), protects (what a request has to carry)
  auth,       \* automatic_action and, of each info, works and first_time;
              \* asked: the realms the user was ever asked for
  proxy,      \* the proxy config: rid, registered, auth_failures
  gstate_reg, \* lc->gstate_reg
  requests,   \* the stack's: each request's kind, state, the passwords it
              \* carries, whether it unregisters; the passwords ever sent in it
              \* (tried) and whether it failed_once
  queue,      \* the stack's event queue
  pc,         \* "wait" for the timer, "drain", "quit", "off" and "crashed"
  loops,      \* drains left at the end of the program
  work        \* counts against MaxWork

account == <<passwords, auth, proxy, gstate_reg, requests>>
turn    == <<pc, loops>>

Working == work < MaxWork /\ work' = work + 1

\* an event joins the stack's queue
Signals(e) == Len(queue) < MaxQueue /\ queue' = Append(queue, e)

----------------------------------------------------------------------------
(* The phone's handlers, on the event at the head of the queue. *)

AsksUntried(r) == r \notin passwords.known \/ ~auth.works[r]

\* linphone_core_find_or_ask_for_auth_info
Asks(r) == r \notin passwords.known \/ (~auth.works[r] /\ ~auth.first_time[r])

\* linphone_process_authentication, of a response with challenges of the realms
ProcessAuthentication(realms) ==
  auth' = [auth EXCEPT
    !.automatic_action = @ + Cardinality({r \in realms : Asks(r)}),
    !.first_time       = [r \in Realms |-> @[r] /\ r \notin realms],
    !.asked            = @ \cup {r \in realms : Asks(r)}]

AuthenticationIgnored(carried) == UNCHANGED auth

\* linphone_authentication_ok: the info that was found last
AuthenticationOk(carried) ==
  LET last == IF "www" \in carried THEN "www" ELSE "proxy"
  IN  auth' = IF carried = {} THEN auth ELSE [auth EXCEPT !.works[last] = TRUE]

NewRequest(kind) ==
  [kind |-> kind, state |-> "sent", carries |-> {}, unregisters |-> FALSE, tried |-> {},
   failed_once |-> FALSE]

\* what the stack has an answer to, of the challenges a request gets
Answerable == passwords.known \cap passwords.protects

\* a request is sent again under its old number; the stack answers the challenge
\* that came last
Resent(rid, unregisters) ==
  LET r == requests[rid]
      carries == IF r.state = "challenged" THEN Answerable ELSE {}
  IN  [requests EXCEPT ![rid] = [r EXCEPT !.state = "sent", !.unregisters = unregisters,
                                          !.carries = carries, !.tried = @ \cup carries]]

\* linphone_proxy_config_register: a new number for the proxy config
Registers(cfg) ==
  /\ Len(requests) < MaxRequests
  /\ requests' = Append(requests, NewRequest("register"))
  /\ proxy' = [cfg EXCEPT !.rid = Len(requests) + 1]

\* linphone_registration_success; e.moved: the registrar saw another contact
RegistrationSuccess(e) ==
  /\ AuthenticationOk(e.carries)
  /\ IF e.rid # proxy.rid
     THEN UNCHANGED <<proxy, gstate_reg, requests>>
     ELSE /\ gstate_reg' = "ok"
          /\ proxy' = [proxy EXCEPT !.registered = ~e.unregisters]
          /\ requests' = IF ~e.unregisters /\ e.moved
                         THEN Resent(e.rid, FALSE) ELSE requests

\* linphone_proxy_config_process_authentication_failure, of a 403
AuthenticationFailure ==
  LET counted == [proxy EXCEPT !.auth_failures = @ + 1]
  IN  IF counted.auth_failures = 1
      THEN Registers(counted)
      ELSE proxy' = counted /\ UNCHANGED requests

\* register_again_with_updated_contact reads the config, of a response whose Via
\* shows another contact than the request's, that the search did not find
ReadsNull(e) ==
  e.type = "reg_fail" /\ e.status # "401" /\ e.moved /\ e.rid # proxy.rid

RegistrationFailureAnew(e) ==
  IF e.status = "401"
  THEN /\ ProcessAuthentication(e.realms)
       /\ gstate_reg' = "failed"
       /\ AuthenticationFailure
  ELSE /\ gstate_reg' = "failed"
       /\ IF e.status = "403" /\ e.rid = proxy.rid
          THEN AuthenticationFailure ELSE UNCHANGED <<proxy, requests>>
       /\ UNCHANGED auth

\* linphone_registration_faillure
RegistrationFailure(e) ==
  \/ /\ e.status = "401"
     /\ ProcessAuthentication(e.realms)
     /\ gstate_reg' = "failed"
     /\ UNCHANGED <<proxy, requests>>
  \/ /\ e.status # "401" /\ e.moved
     /\ requests' = Resent(proxy.rid, FALSE)
     /\ UNCHANGED <<auth, proxy, gstate_reg>>
  \/ /\ e.status # "401" /\ ~e.moved
     /\ gstate_reg' = "failed"
     /\ IF e.status = "403" /\ e.rid = proxy.rid
        THEN AuthenticationFailure ELSE UNCHANGED <<proxy, requests>>
     /\ UNCHANGED auth

\* linphone_call_failure of a 401 or 407, unless the user has hung up, and the
\* end of a CALL_ANSWERED
CallChallenged(e) ==
  /\ ProcessAuthentication(e.realms) \/ UNCHANGED auth
  /\ UNCHANGED <<proxy, gstate_reg, requests>>

CallAnswered(e) == AuthenticationOk(e.carries) /\ UNCHANGED <<proxy, gstate_reg, requests>>

AccountEvent(e) ==
  /\ \/ e.type = "reg_ok"     /\ RegistrationSuccess(e)
     \/ e.type = "reg_fail"   /\ RegistrationFailure(e)
     \/ e.type = "challenged" /\ CallChallenged(e)
     \/ e.type = "answered"   /\ CallAnswered(e)
  /\ UNCHANGED passwords

----------------------------------------------------------------------------
(* The phone's turn: the user between two timers, the timer, the end. *)

\* user_register, once after the program was configured: the proxy config is
\* allocated without initialising registered
UserRegister ==
  /\ pc = "wait" /\ proxy.rid = 0
  /\ \E garbage \in BOOLEAN :
       Registers([proxy EXCEPT !.registered = garbage])
  /\ UNCHANGED <<passwords, auth, gstate_reg, queue, turn, work>>

\* linphone_core_invite
UserInvites ==
  /\ pc = "wait" /\ Working
  /\ \A i \in DOMAIN requests : requests[i].kind # "invite"
  /\ Len(requests) < MaxRequests
  /\ requests' = Append(requests, NewRequest("invite"))
  /\ UNCHANGED <<passwords, auth, proxy, gstate_reg, queue, turn>>

Timer ==
  /\ pc = "wait" /\ pc' = "drain"
  /\ UNCHANGED <<account, queue, loops, work>>

\* sip_config_uninit begins: linphone_proxy_config_edit unregisters; the stack
\* refuses it while an answer to that number is still awaited
Quit ==
  /\ pc = "wait" /\ pc' = "quit" /\ loops' = QuitLoops
  /\ proxy' = [proxy EXCEPT !.auth_failures = 0, !.registered = FALSE]
  /\ requests' = IF proxy.registered /\ requests[proxy.rid].state # "sent"
                 THEN Resent(proxy.rid, TRUE) ELSE requests
  /\ UNCHANGED <<passwords, auth, gstate_reg, queue, work>>

\* eXosip_automatic_action: a challenged request is sent again with the
\* passwords that are known, unless it already carried them; a registration
\* that is about to expire is refreshed
Retried ==
  [i \in DOMAIN requests |->
     LET r == requests[i] IN
     IF r.state = "challenged" /\ r.carries # Answerable
     THEN [r EXCEPT !.state = "sent", !.carries = Answerable, !.tried = @ \cup Answerable]
     ELSE r]

AutomaticAction ==
  \/ requests' = Retried /\ UNCHANGED work
  \/ /\ proxy.rid # 0 /\ requests[proxy.rid].state = "accepted"
     /\ ~requests[proxy.rid].unregisters
     /\ Working
     /\ requests' = Resent(proxy.rid, FALSE)

\* the stack's turn, if the phone grants it
MayAct == auth.automatic_action = 0

----------------------------------------------------------------------------
(* The registrar, the proxy and the network. *)

Satisfied(r) == passwords.protects \subseteq r.carries \cap passwords.right

Ends(i, state) == requests' = [requests EXCEPT ![i].state = state]

\* a 200; the registrar may have seen another contact than the request's
Accepts(i) ==
  /\ requests[i].state = "sent" /\ Satisfied(requests[i])
  /\ Ends(i, "accepted")
  /\ LET r == requests[i] IN
     IF r.kind = "register"
     THEN \E moved \in BOOLEAN :
            /\ Signals([type |-> "reg_ok", rid |-> i, carries |-> r.carries,
                        unregisters |-> r.unregisters, moved |-> moved])
            /\ IF moved THEN Working ELSE UNCHANGED work
     ELSE Signals([type |-> "answered", carries |-> r.carries]) /\ UNCHANGED work
  /\ UNCHANGED <<passwords, auth, proxy, gstate_reg, turn>>

\* a 401 or 407
Challenges(i) ==
  /\ requests[i].state = "sent" /\ ~Satisfied(requests[i])
  /\ Ends(i, "challenged")
  /\ Signals(IF requests[i].kind = "register"
             THEN [type |-> "reg_fail", rid |-> i, status |-> "401",
                   realms |-> passwords.protects, moved |-> FALSE]
             ELSE [type |-> "challenged", realms |-> passwords.protects])
  /\ UNCHANGED <<passwords, auth, proxy, gstate_reg, turn, work>>

\* a 403 to a wrong password, another failure, or no answer at all
Fails(i) ==
  /\ requests[i].state = "sent" /\ requests[i].kind = "register"
  /\ Working
  /\ requests' = [requests EXCEPT ![i].state = "failed", ![i].failed_once = TRUE]
  /\ \E status \in {"403", "other"}, moved \in BOOLEAN :
       /\ status = "403" => ~Satisfied(requests[i])
       /\ Signals([type |-> "reg_fail", rid |-> i, status |-> status,
                   realms |-> {}, moved |-> moved])
  /\ UNCHANGED <<passwords, auth, proxy, gstate_reg, turn>>

Registrar(i) == Accepts(i) \/ Challenges(i)

AccountInit ==
  /\ passwords \in PasswordSets
  /\ auth = [automatic_action |-> 0, asked |-> {},
             works |-> [r \in Realms |-> FALSE], first_time |-> [r \in Realms |-> TRUE]]
  /\ proxy = [rid |-> 0, registered |-> FALSE, auth_failures |-> 0]
  /\ gstate_reg = "none" /\ requests = <<>>
  /\ queue = <<>> /\ pc = "wait" /\ loops = 0 /\ work = 0
=============================================================================
