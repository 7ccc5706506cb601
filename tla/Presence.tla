------------------------------ MODULE Presence ------------------------------
(***************************************************************************)
(* A friend of the phone's list and the two subscriptions between them:    *)
(* ours to the friend's presence (CFriend's subscribe, CPresence's NOTIFY  *)
(* and answer handlers) and the friend's to ours.  They share the event    *)
(* queue and the stack's turn with the registration, so that a password    *)
(* nobody supplies also ends the refreshing of subscriptions.              *)
(*                                                                         *)
(* A subscription is known by a number; the program's sid and out_did, and *)
(* its nid and in_did, are two numbers of one subscription, and 0 is the   *)
(* code's -1.  The network delivers the friend's NOTIFY before its answer, *)
(* also the NOTIFY that ends the subscription.                             *)
(***************************************************************************)
EXTENDS SipAccount

CONSTANTS
  Configurations, \* the passwords, and of the friend subscribe and pol
  MaxSubscribes, \* bound: SUBSCRIBEs the phone sends
  MaxWatches     \* bound: SUBSCRIBEs the friend sends

Policies == {"wait", "accept", "deny"}
States   == {"none", "pending", "active", "terminated"}

ASSUME ConfigurationsAssumption ==
  Configurations \subseteq [passwords : PasswordSets, subscribe : BOOLEAN, pol : Policies]
ASSUME PresenceBounds == MaxSubscribes \in Nat \ {0} /\ MaxWatches \in Nat

VARIABLES
  friend,  \* sid, out_did, nid, in_did, pending (inc_subscribe_pending),
           \* status, and fixed: subscribe and pol
  subs,    \* our subscriptions: open, answered (no SUBSCRIBE is under way),
           \* unheard (ended by a NOTIFY before the answer, or by a refusal)
  watches  \* the friend's: open, and told: the last state we sent in it

presence == <<friend, subs, watches>>
vars     == <<account, turn, queue, work, presence>>

----------------------------------------------------------------------------
(* What the phone sends. *)

\* linphone_friend_notify: in the incoming dialogue the friend is known by
Told(in_did, state) ==
  IF in_did = 0 THEN watches ELSE [watches EXCEPT ![in_did].told = state]

PolicyState(pol) ==
  CASE pol = "wait"   -> "pending"
    [] pol = "accept" -> "active"
    [] pol = "deny"   -> "terminated"

\* __linphone_friend_do_subscribe: a SUBSCRIBE of its own, whatever is under way
Subscribed ==
  Append(subs, [open |-> TRUE, answered |-> FALSE, unheard |-> FALSE])

\* linphone_friend_apply, on the friend as its caller left it
Applies(f) ==
  /\ watches' = IF f.pending THEN Told(f.in_did, PolicyState(f.pol)) ELSE watches
  /\ friend' = [f EXCEPT !.pending = FALSE]
  /\ IF f.subscribe /\ f.out_did = 0 /\ Len(subs) < MaxSubscribes
     THEN subs' = Subscribed ELSE UNCHANGED subs

----------------------------------------------------------------------------
(* The handlers. *)

\* linphone_subscription_new, of a friend; the 202 and then linphone_friend_done
SubscriptionNew(e) ==
  Applies([friend EXCEPT !.in_did = e.did, !.nid = e.did, !.pending = TRUE])

SubscriptionClosedKeeping(e) ==
  /\ friend' = IF friend.nid = e.did
               THEN [friend EXCEPT !.nid = 0, !.pending = TRUE] ELSE friend
  /\ UNCHANGED <<subs, watches>>

SubscriptionClosedAny(e) ==
  /\ friend' = [friend EXCEPT !.in_did = 0, !.nid = 0, !.pending = TRUE]
  /\ UNCHANGED <<subs, watches>>

\* linphone_subscription_closed
SubscriptionClosed(e) ==
  /\ friend' = IF friend.nid = e.did
               THEN [friend EXCEPT !.in_did = 0, !.nid = 0, !.pending = TRUE]
               ELSE friend
  /\ UNCHANGED <<subs, watches>>

\* linphone_subscription_answered
SubscriptionAnswered(e) ==
  /\ friend' = [friend EXCEPT !.out_did = e.sid, !.sid = e.sid]
  /\ UNCHANGED <<subs, watches>>

\* linphone_notify_recv: of another sid it is dropped, the state it told too
NotifyRecv(e) ==
  /\ friend' =
       IF friend.sid # e.sid THEN friend
       ELSE IF e.terminated
            THEN [friend EXCEPT !.status = "closed", !.sid = 0, !.out_did = 0]
            ELSE [friend EXCEPT !.status = "online"]
  /\ UNCHANGED <<subs, watches>>

PresenceEvent(e) ==
  \/ e.type = "in_sub"       /\ SubscriptionNew(e)
  \/ e.type = "in_closed"    /\ SubscriptionClosed(e)
  \/ e.type = "sub_answered" /\ SubscriptionAnswered(e)
  \/ e.type = "notify"       /\ NotifyRecv(e)

\* linphone_core_process_event, on the head of the queue
Handle ==
  /\ pc = "drain" \/ (pc = "quit" /\ loops > 0)
  /\ queue # <<>>
  /\ queue' = Tail(queue)
  /\ IF ReadsNull(Head(queue))
     THEN pc' = "crashed" /\ UNCHANGED <<account, presence>>
     ELSE /\ \/ AccountEvent(Head(queue)) /\ UNCHANGED presence
             \/ PresenceEvent(Head(queue)) /\ UNCHANGED account
          /\ UNCHANGED pc
  /\ UNCHANGED <<loops, work>>

\* the stack's turn also renews our subscriptions
StackActs ==
  \/ AutomaticAction /\ UNCHANGED subs
  \/ /\ \E i \in DOMAIN subs :
          /\ subs[i].open /\ subs[i].answered
          /\ subs' = [subs EXCEPT ![i].answered = FALSE]
     /\ Working
     /\ UNCHANGED requests

\* the queue is empty: linphone_core_iterate goes on
DrainDone ==
  /\ pc = "drain" /\ queue = <<>>
  /\ pc' = "wait"
  /\ IF MayAct THEN StackActs ELSE UNCHANGED <<requests, subs, work>>
  /\ UNCHANGED <<passwords, auth, proxy, gstate_reg, queue, loops, friend, watches>>

QuitDrainsOnceMore ==
  /\ pc = "quit" /\ queue = <<>>
  /\ StackActs
  /\ loops' = loops - 1
  /\ UNCHANGED <<passwords, auth, proxy, gstate_reg, queue, pc, friend, watches>>

\* and sip_config_uninit goes on, after Sleep(100)
QuitDrainDone ==
  /\ pc = "quit" /\ queue = <<>> /\ loops > 0
  /\ StackActs
  /\ loops' = loops - 1
  /\ UNCHANGED <<passwords, auth, proxy, gstate_reg, queue, pc, friend, watches>>

\* ui_config_uninit: linphone_friend_destroy says goodbye in both subscriptions
Destroy ==
  /\ pc = "quit" /\ loops = 0
  /\ pc' = "off"
  /\ watches' = Told(friend.in_did, "terminated")
  /\ subs' = IF friend.out_did = 0 THEN subs
             ELSE [subs EXCEPT ![friend.out_did].open = FALSE]
  /\ UNCHANGED <<account, queue, loops, work, friend>>

\* linphone_core_notify_all_friends: a call begins or ends
NotifyAllFriends ==
  /\ pc \notin {"off", "crashed"} /\ Working
  /\ watches' = Told(friend.in_did, "active")
  /\ UNCHANGED <<account, turn, queue, friend, subs>>

----------------------------------------------------------------------------
(* The friend and the network. *)

FriendEvent == UNCHANGED <<account, turn, friend>>

FriendSubscribes ==
  /\ Len(watches) < MaxWatches /\ Working
  /\ watches' = Append(watches, [open |-> TRUE, told |-> "none"])
  /\ Signals([type |-> "in_sub", did |-> Len(watches) + 1])
  /\ UNCHANGED subs /\ FriendEvent

FriendUnsubscribes(i) ==
  /\ watches[i].open /\ Working
  /\ watches' = [watches EXCEPT ![i].open = FALSE]
  /\ Signals([type |-> "in_closed", did |-> i])
  /\ UNCHANGED subs /\ FriendEvent

\* also after the NOTIFY that ended the subscription overtook it
FriendAnswers(i) ==
  /\ ~subs[i].answered
  /\ subs' = [subs EXCEPT ![i].answered = TRUE]
  /\ Signals([type |-> "sub_answered", sid |-> i])
  /\ UNCHANGED <<watches, work>> /\ FriendEvent

\* a refusal: an event the phone has no case for
FriendRefuses(i) ==
  /\ ~subs[i].answered /\ subs[i].open /\ Working
  /\ subs' = [subs EXCEPT ![i] = [open |-> FALSE, answered |-> TRUE, unheard |-> TRUE]]
  /\ UNCHANGED <<watches, queue>> /\ FriendEvent

FriendNotifies(i) ==
  /\ subs[i].open /\ Working
  /\ \E last \in BOOLEAN :
       /\ Signals([type |-> "notify", sid |-> i, terminated |-> last])
       /\ subs' = [subs EXCEPT ![i].open = ~last,
                               ![i].unheard = @ \/ (last /\ ~subs[i].answered)]
  /\ UNCHANGED watches /\ FriendEvent

\* linphone_core_add_friend, of the configuration's friend, applies at the start
Init ==
  /\ AccountInit
  /\ \E c \in Configurations :
       /\ passwords = c.passwords
       /\ friend = [sid |-> 0, out_did |-> 0, nid |-> 0, in_did |-> 0, pending |-> FALSE,
                    status |-> "offline", subscribe |-> c.subscribe, pol |-> c.pol]
       /\ subs = IF c.subscribe
                 THEN <<[open |-> TRUE, answered |-> FALSE, unheard |-> FALSE]>>
                 ELSE <<>>
  /\ watches = <<>>

Phone == Handle \/ DrainDone \/ QuitDrainDone \/ Destroy

AccountSteps ==
  /\ \/ UserRegister \/ UserInvites \/ Timer \/ Quit
     \/ \E i \in DOMAIN requests : Accepts(i) \/ Challenges(i) \/ Fails(i)
  /\ UNCHANGED presence

FriendSteps ==
  \/ NotifyAllFriends \/ FriendSubscribes
  \/ \E i \in DOMAIN watches : FriendUnsubscribes(i)
  \/ \E i \in DOMAIN subs : FriendAnswers(i) \/ FriendRefuses(i) \/ FriendNotifies(i)

Next == Phone \/ AccountSteps \/ FriendSteps

Spec == Init /\ [][Next]_vars

\* the timer fires (mobilePhoneDlg.cpp:147, every 300 ms) and its handler runs
\* to its end; the registrar answers, and the network brings it
FairSpec ==
  /\ Spec
  /\ WF_vars(Phone)
  /\ WF_vars(Timer /\ UNCHANGED presence)
  /\ WF_vars(\E i \in DOMAIN requests : Registrar(i) /\ UNCHANGED presence)

----------------------------------------------------------------------------
(* Properties. *)

\* Every variable has its type.
TypeOK ==
  /\ passwords \in PasswordSets
  /\ auth \in [automatic_action : Nat, asked : SUBSET Realms,
                works : [Realms -> BOOLEAN], first_time : [Realms -> BOOLEAN]]
  /\ proxy \in [rid : 0..Len(requests), registered : BOOLEAN, auth_failures : Nat]
  /\ gstate_reg \in {"none", "ok", "failed"}
  /\ requests \in Seq([kind : {"register", "invite"},
                       state : {"sent", "challenged", "accepted", "failed"},
                       carries : SUBSET Realms, unregisters : BOOLEAN, tried : SUBSET Realms,
                       failed_once : BOOLEAN])
  /\ work \in 0..MaxWork
  /\ pc \in {"wait", "drain", "quit", "off", "crashed"} /\ loops \in 0..QuitLoops
  /\ friend \in [sid : 0..Len(subs), out_did : 0..Len(subs),
                  nid : 0..Len(watches), in_did : 0..Len(watches), pending : BOOLEAN,
                  status : {"offline", "online", "closed"},
                  subscribe : BOOLEAN, pol : Policies]
  /\ subs \in Seq([open : BOOLEAN, answered : BOOLEAN, unheard : BOOLEAN])
  /\ watches \in Seq([open : BOOLEAN, told : States])

Awaited(e) == \E k \in DOMAIN queue : queue[k] = e

Running == pc \in {"wait", "drain"}

\* Until the program ends, the answer to a REGISTER finds its proxy config:
\* linphone_registration_faillure (Events.cpp:855) hands what the search gives
\* to a function that reads it, and a 403 gives the config another number.  (At
\* the end linphone_proxy_config_edit sends the unREGISTER while such an answer
\* may wait in the queue; a 403 then registers anew, and the answer to the
\* unREGISTER finds nothing.)
AnswersFindProxy ==
  Running => \A k \in DOMAIN queue :
    queue[k].type \in {"reg_ok", "reg_fail"} => queue[k].rid = proxy.rid

OnlyRegisters == \A i \in DOMAIN requests : requests[i].kind = "register"

NoFailure == \A i \in DOMAIN requests : ~requests[i].failed_once

\* While there are no calls the phone asks the user only for a password that it
\* does not have, or that the stack has tried: first_time (Private.cpp:262) lets
\* the first challenge pass.  (A challenge of a call that is handled before the
\* stack has its turn takes a first_time that the other one had to use up.)
\* Nor does it ever ask for the right password, however often the registrar
\* challenges, if there is one realm only and every REGISTER gets its answer.
\* (Of two realms authentication_ok, Private.cpp:249-251, remembers one: the
\* refresh asks for the other.  And if the answer that would have shown that the
\* password works is lost, the next challenge asks for it.)
AskedForAReason ==
  Running /\ OnlyRegisters =>
    /\ \A r \in auth.asked \cap passwords.known :
         \E i \in DOMAIN requests : r \in requests[i].tried
    /\ NoFailure /\ Cardinality(passwords.protects) = 1 =>
         auth.asked \cap passwords.right = {}

\* The dialogues the friend is known by are open, unless the end of one waits in
\* the queue (Presence.cpp:165, :189); or the phone cannot hear of it: the NOTIFY
\* that ends our subscription overtook the answer that names it (:178), or a
\* refresh was refused, an event without a case.
KnownDialogsAreOpen ==
  /\ friend.in_did # 0 =>
       \/ watches[friend.in_did].open
       \/ Awaited([type |-> "in_closed", did |-> friend.in_did])
  /\ friend.out_did # 0 /\ pc # "off" =>
       \/ subs[friend.out_did].open \/ subs[friend.out_did].unheard
       \/ Awaited([type |-> "notify", sid |-> friend.out_did, terminated |-> TRUE])

\* When the phone is off, the friend's last subscription that it handled has been
\* told so, and so has the friend's side of ours, if it was the only one and was
\* answered (LinphoneCore.cpp:2057, Friend.cpp:547).
GoodbyeIsSaid ==
  pc = "off" =>
    /\ \A i \in DOMAIN watches :
         watches[i].open /\ watches[i].told # "none"
           /\ (\A j \in i + 1..Len(watches) : watches[j].told = "none")
         => watches[i].told = "terminated"
    /\ Len(subs) = 1 /\ subs[1].open =>
         ~subs[1].answered \/ Awaited([type |-> "sub_answered", sid |-> 1])

\* A registration whose passwords the phone has, of one realm and with no calls,
\* succeeds, and again after each refresh, unless the network or the registrar
\* fails it or the program ends: no challenge suspends the stack.
RegistersWithPassword ==
  OnlyRegisters /\ proxy.rid # 0 /\ passwords.protects = passwords.right
    /\ Cardinality(passwords.protects) < 2
  ~> \/ proxy.rid # 0 /\ requests[proxy.rid].state = "accepted"
     \/ ~NoFailure
     \/ pc \in {"quit", "off", "crashed"} \/ ~OnlyRegisters
=============================================================================
