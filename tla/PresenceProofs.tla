--------------------------- MODULE PresenceProofs ---------------------------
(***************************************************************************)
(* Theorems about the registration and the friend's subscriptions, for     *)
(* every set of passwords, every policy and every bound: types first, then *)
(* that the answers find the proxy config, that the dialogues a friend is  *)
(* known by are open, that a goodbye is said when the program ends and why *)
(* the phone asks for a password.                                          *)
(***************************************************************************)
EXTENDS Presence, FiniteSetTheorems, TLAPS

----------------------------------------------------------------------------
(* Types of the account. *)

Request ==
  [kind : {"register", "invite"},
   state : {"sent", "challenged", "accepted", "failed"},
   carries : SUBSET Realms, unregisters : BOOLEAN, tried : SUBSET Realms,
   failed_once : BOOLEAN]

Auth ==
  [automatic_action : Nat, asked : SUBSET Realms,
   works : [Realms -> BOOLEAN], first_time : [Realms -> BOOLEAN]]

AccountTypes ==
  /\ passwords \in PasswordSets
  /\ auth \in Auth
  /\ proxy \in [rid : 0..Len(requests), registered : BOOLEAN, auth_failures : Nat]
  /\ proxy.registered => proxy.rid # 0
  /\ gstate_reg \in {"none", "ok", "failed"}
  /\ requests \in Seq(Request)

----------------------------------------------------------------------------
(* What the handlers' helpers return. *)

LEMMA AppendSeq ==
  ASSUME NEW S, NEW s \in Seq(S), NEW e \in S
  PROVE  /\ Append(s, e) \in Seq(S) /\ Len(Append(s, e)) = Len(s) + 1
         /\ Append(s, e)[Len(s) + 1] = e
         /\ \A k \in 1..Len(s) : Append(s, e)[k] = s[k]
  OBVIOUS

LEMMA ExceptSeq ==
  ASSUME NEW S, NEW s \in Seq(S), NEW i \in 1..Len(s), NEW e \in S
  PROVE  /\ [s EXCEPT ![i] = e] \in Seq(S)
         /\ Len([s EXCEPT ![i] = e]) = Len(s)
         /\ [s EXCEPT ![i] = e][i] = e
         /\ \A k \in 1..Len(s) : k # i => [s EXCEPT ![i] = e][k] = s[k]
  OBVIOUS

LEMMA TailSeq ==
  ASSUME NEW S, NEW s \in Seq(S), s # << >>
  PROVE  /\ Tail(s) \in Seq(S) /\ Len(Tail(s)) = Len(s) - 1 /\ Len(s) > 0
         /\ Head(s) \in S /\ Head(s) = s[1]
         /\ \A k \in 1..Len(s) - 1 : Tail(s)[k] = s[k + 1]
  OBVIOUS

LEMMA ProcessAuthenticationTypes ==
  ASSUME auth \in Auth, NEW realms \in SUBSET Realms,
         ProcessAuthentication(realms)
  PROVE  auth' \in Auth
<1> DEFINE asked == {r \in realms : Asks(r)}
<1>1. asked \subseteq Realms /\ IsFiniteSet(Realms)
  <2>1. IsFiniteSet({"proxy"})
    BY FS_Singleton
  <2>2. IsFiniteSet({"proxy"} \cup {"www"})
    BY <2>1, FS_AddElement
  <2>3. {"proxy"} \cup {"www"} = Realms
    BY DEF Realms
  <2> QED BY <2>2, <2>3
<1>2. Cardinality(asked) \in Nat
  BY <1>1, FS_Subset, FS_CardinalityType, Zenon
<1> DEFINE count == auth.automatic_action + Cardinality(asked)
           firsts == [r \in Realms |-> auth.first_time[r] /\ r \notin realms]
           all == auth.asked \cup asked
<1>3. auth' = [auth EXCEPT !.automatic_action = count, !.first_time = firsts,
                           !.asked = all]
  BY DEF ProcessAuthentication
<1>4. count \in Nat
  BY <1>2 DEF Auth
<1>5. firsts \in [Realms -> BOOLEAN]
  BY Zenon
<1>6. all \in SUBSET Realms
  BY <1>1 DEF Auth
<1> HIDE DEF count, firsts, all
<1> QED BY <1>3, <1>4, <1>5, <1>6 DEF Auth

LEMMA AuthenticationOkTypes ==
  ASSUME auth \in Auth, NEW carried, AuthenticationOk(carried)
  PROVE  auth' \in Auth
  BY DEF Auth, AuthenticationOk, Realms

LEMMA ResentTypes ==
  ASSUME AccountTypes, NEW rid \in 1..Len(requests), NEW u \in BOOLEAN
  PROVE  /\ Resent(rid, u) \in Seq(Request)
         /\ Len(Resent(rid, u)) = Len(requests)
         /\ \A k \in 1..Len(requests) :
              /\ Resent(rid, u)[k].kind = requests[k].kind
              /\ k # rid => Resent(rid, u)[k] = requests[k]
<1>1. requests \in Seq(Request) /\ requests[rid] \in Request
      /\ passwords \in PasswordSets
  BY DEF AccountTypes
<1>2. Answerable \in SUBSET Realms
  BY <1>1 DEF Answerable, PasswordSets
<1> DEFINE carries == IF requests[rid].state = "challenged" THEN Answerable ELSE {}
           new == [requests[rid] EXCEPT !.state = "sent", !.unregisters = u,
                     !.carries = carries, !.tried = @ \cup carries]
<1>3. carries \in SUBSET Realms
  BY <1>2
<1> HIDE DEF carries
<1>4. new \in Request /\ new.kind = requests[rid].kind
  BY <1>1, <1>3 DEF Request
<1>5. Resent(rid, u) = [requests EXCEPT ![rid] = new]
  BY DEF Resent, new, carries
<1> HIDE DEF new
<1>6. /\ Resent(rid, u) \in Seq(Request)
      /\ Len(Resent(rid, u)) = Len(requests)
      /\ Resent(rid, u)[rid] = new
      /\ \A k \in 1..Len(requests) : k # rid => Resent(rid, u)[k] = requests[k]
  BY <1>1, <1>4, <1>5, ExceptSeq
<1> QED BY <1>4, <1>6

LEMMA NewRequestTypes ==
  ASSUME NEW kind \in {"register", "invite"}
  PROVE  NewRequest(kind) \in Request /\ NewRequest(kind).kind = kind
  BY DEF NewRequest, Request

LEMMA RegistersTypes ==
  ASSUME AccountTypes,
         NEW cfg \in [rid : 0..Len(requests), registered : BOOLEAN,
                      auth_failures : Nat],
         Registers(cfg)
  PROVE  /\ requests' \in Seq(Request) /\ Len(requests') = Len(requests) + 1
         /\ proxy' \in [rid : 0..Len(requests'), registered : BOOLEAN,
                        auth_failures : Nat]
         /\ proxy'.rid = Len(requests) + 1
         /\ requests'[Len(requests) + 1].kind = "register"
         /\ \A k \in 1..Len(requests) : requests'[k] = requests[k]
<1>1. requests \in Seq(Request)
  BY DEF AccountTypes
<1>2. NewRequest("register") \in Request
      /\ NewRequest("register").kind = "register"
  BY NewRequestTypes
<1>3. requests' = Append(requests, NewRequest("register"))
      /\ proxy' = [cfg EXCEPT !.rid = Len(requests) + 1]
  BY DEF Registers
<1> QED BY <1>1, <1>2, <1>3, AppendSeq

LEMMA RetriedTypes ==
  ASSUME AccountTypes
  PROVE  /\ Retried \in Seq(Request) /\ Len(Retried) = Len(requests)
         /\ \A k \in 1..Len(requests) :
              /\ Retried[k].kind = requests[k].kind
              /\ requests[k].state # "challenged" => Retried[k] = requests[k]
<1>1. requests \in Seq(Request) /\ passwords \in PasswordSets
  BY DEF AccountTypes
<1>2. Answerable \in SUBSET Realms
  BY <1>1 DEF Answerable, PasswordSets
<1> DEFINE again(k) == [requests[k] EXCEPT !.state = "sent", !.carries = Answerable,
                                           !.tried = @ \cup Answerable]
<1>3. ASSUME NEW k \in 1..Len(requests)
      PROVE  again(k) \in Request /\ again(k).kind = requests[k].kind
  <2>1. requests[k] \in Request
    BY <1>1
  <2> QED BY <1>2, <2>1 DEF Request
<1>4. Retried = [k \in 1..Len(requests) |->
                   IF requests[k].state = "challenged"
                      /\ requests[k].carries # Answerable
                   THEN again(k) ELSE requests[k]]
  BY <1>1 DEF Retried
<1> HIDE DEF again
<1>5. \A k \in 1..Len(requests) : requests[k] \in Request
  BY <1>1
<1> QED BY <1>1, <1>3, <1>4, <1>5

----------------------------------------------------------------------------
(* The events, by the numbers of requests and of subscriptions there are. *)

Events(nr, nw, ns) ==
  UNION {
    [type : {"reg_ok"}, rid : 1..nr, carries : SUBSET Realms,
     unregisters : BOOLEAN, moved : BOOLEAN],
    [type : {"reg_fail"}, rid : 1..nr, status : {"401", "403", "other"},
     realms : SUBSET Realms, moved : BOOLEAN],
    [type : {"challenged"}, realms : SUBSET Realms],
    [type : {"answered"}, carries : SUBSET Realms],
    [type : {"in_sub", "in_closed"}, did : 1..nw],
    [type : {"sub_answered"}, sid : 1..ns],
    [type : {"notify"}, sid : 1..ns, terminated : BOOLEAN]}

LEMMA EventFields ==
  ASSUME NEW nr \in Nat, NEW nw \in Nat, NEW ns \in Nat, NEW e \in Events(nr, nw, ns)
  PROVE  /\ e.type = "reg_ok" =>
              e.rid \in 1..nr /\ e.carries \in SUBSET Realms
              /\ e.unregisters \in BOOLEAN /\ e.moved \in BOOLEAN
         /\ e.type = "reg_fail" =>
              e.rid \in 1..nr /\ e.status \in {"401", "403", "other"}
              /\ e.realms \in SUBSET Realms /\ e.moved \in BOOLEAN
         /\ e.type = "challenged" => e.realms \in SUBSET Realms
         /\ e.type = "answered" => e.carries \in SUBSET Realms
         /\ e.type \in {"in_sub", "in_closed"} => e.did \in 1..nw
         /\ e.type = "sub_answered" => e.sid \in 1..ns
         /\ e.type = "notify" => e.sid \in 1..ns /\ e.terminated \in BOOLEAN
  BY DEF Events

LEMMA EventsGrow ==
  ASSUME NEW nr \in Nat, NEW nw \in Nat, NEW ns \in Nat,
         NEW mr \in Nat, NEW mw \in Nat, NEW ms \in Nat,
         nr <= mr, nw <= mw, ns <= ms
  PROVE  Events(nr, nw, ns) \subseteq Events(mr, mw, ms)
<1>1. 1..nr \subseteq 1..mr /\ 1..nw \subseteq 1..mw /\ 1..ns \subseteq 1..ms
  OBVIOUS
<1>2. ASSUME NEW S, NEW T, S \subseteq T PROVE
        [type : {"reg_ok"}, rid : S, carries : SUBSET Realms,
         unregisters : BOOLEAN, moved : BOOLEAN] \subseteq
        [type : {"reg_ok"}, rid : T, carries : SUBSET Realms,
         unregisters : BOOLEAN, moved : BOOLEAN]
  BY <1>2
<1>3. ASSUME NEW S, NEW T, S \subseteq T PROVE
        [type : {"reg_fail"}, rid : S, status : {"401", "403", "other"},
         realms : SUBSET Realms, moved : BOOLEAN] \subseteq
        [type : {"reg_fail"}, rid : T, status : {"401", "403", "other"},
         realms : SUBSET Realms, moved : BOOLEAN]
  BY <1>3
<1>4. ASSUME NEW S, NEW T, S \subseteq T PROVE
        /\ [type : {"in_sub", "in_closed"}, did : S] \subseteq
           [type : {"in_sub", "in_closed"}, did : T]
        /\ [type : {"sub_answered"}, sid : S] \subseteq
           [type : {"sub_answered"}, sid : T]
        /\ [type : {"notify"}, sid : S, terminated : BOOLEAN] \subseteq
           [type : {"notify"}, sid : T, terminated : BOOLEAN]
  BY <1>4
<1> QED BY <1>1, <1>2, <1>3, <1>4, ZenonT(60) DEF Events

----------------------------------------------------------------------------
(* The handlers of the account keep its types. *)

LEMMA AuthenticationFailureTypes ==
  ASSUME AccountTypes, proxy.rid # 0, AuthenticationFailure
  PROVE  /\ proxy' \in [rid : 0..Len(requests'), registered : BOOLEAN,
                        auth_failures : Nat]
         /\ proxy'.rid # 0
         /\ requests' \in Seq(Request)
         /\ Len(requests') \in Nat /\ Len(requests') >= Len(requests)
<1> DEFINE counted == [proxy EXCEPT !.auth_failures = @ + 1]
<1>1. counted \in [rid : 0..Len(requests), registered : BOOLEAN,
                   auth_failures : Nat] /\ counted.rid = proxy.rid
      /\ Len(requests) \in Nat /\ requests \in Seq(Request)
  BY DEF AccountTypes
<1>2. CASE counted.auth_failures = 1
  <2>1. Registers(counted)
    BY <1>2 DEF AuthenticationFailure
  <2> HIDE DEF counted
  <2> QED BY <1>1, <2>1, RegistersTypes
<1>3. CASE counted.auth_failures # 1
  <2>1. proxy' = counted /\ UNCHANGED requests
    BY <1>3 DEF AuthenticationFailure
  <2> HIDE DEF counted
  <2> QED BY <1>1, <2>1
<1> QED BY <1>2, <1>3

LEMMA RegistrationSuccessTypes ==
  ASSUME AccountTypes, NEW e, e.rid \in 1..Len(requests),
         e.unregisters \in BOOLEAN, RegistrationSuccess(e), UNCHANGED passwords
  PROVE  AccountTypes' /\ Len(requests') = Len(requests)
<1>1. auth' \in Auth
  BY AuthenticationOkTypes DEF AccountTypes, RegistrationSuccess
<1>2. CASE e.rid # proxy.rid
  BY <1>1, <1>2 DEF RegistrationSuccess, AccountTypes
<1>3. CASE e.rid = proxy.rid
  <2>1. gstate_reg' = "ok" /\ proxy' = [proxy EXCEPT !.registered = ~e.unregisters]
    BY <1>3 DEF RegistrationSuccess
  <2>2. requests' = Resent(e.rid, FALSE) \/ requests' = requests
    BY <1>3 DEF RegistrationSuccess
  <2>3. requests' \in Seq(Request) /\ Len(requests') = Len(requests)
    <3>1. /\ Resent(e.rid, FALSE) \in Seq(Request)
          /\ Len(Resent(e.rid, FALSE)) = Len(requests)
      BY ResentTypes
    <3> QED BY <2>2, <3>1 DEF AccountTypes
  <2>4. proxy' \in [rid : 0..Len(requests'), registered : BOOLEAN,
                    auth_failures : Nat] /\ proxy'.rid = proxy.rid
    BY <2>1, <2>3 DEF AccountTypes
  <2> QED BY <1>1, <1>3, <2>1, <2>3, <2>4 DEF AccountTypes
<1> QED BY <1>2, <1>3

LEMMA RegistrationFailureTypes ==
  ASSUME AccountTypes, NEW e, e.rid \in 1..Len(requests),
         e.type = "reg_fail", e.realms \in SUBSET Realms, ~ReadsNull(e),
         RegistrationFailure(e), UNCHANGED passwords
  PROVE  AccountTypes' /\ Len(requests') \in Nat /\ Len(requests') >= Len(requests)
<1>1. requests \in Seq(Request) /\ Len(requests) \in Nat
  BY DEF AccountTypes
<1>2. CASE e.status = "401"
  <2>1. auth' \in Auth
    BY <1>2, ProcessAuthenticationTypes DEF RegistrationFailure, AccountTypes
  <2> QED BY <1>1, <1>2, <2>1 DEF RegistrationFailure, AccountTypes
<1>3. CASE e.status # "401" /\ e.moved
  <2>1. e.rid = proxy.rid
    BY <1>3 DEF ReadsNull
  <2>2. requests' = Resent(proxy.rid, FALSE) /\ UNCHANGED <<auth, proxy, gstate_reg>>
    BY <1>3 DEF RegistrationFailure
  <2>3. requests' \in Seq(Request) /\ Len(requests') = Len(requests)
    BY <2>1, <2>2, ResentTypes
  <2>4. proxy' \in [rid : 0..Len(requests'), registered : BOOLEAN,
                    auth_failures : Nat]
    BY <2>2, <2>3 DEF AccountTypes
  <2>5. /\ passwords \in PasswordSets /\ auth \in Auth
        /\ proxy.registered => proxy.rid # 0
        /\ gstate_reg \in {"none", "ok", "failed"}
    BY DEF AccountTypes
  <2>6. AccountTypes'
    BY <2>2, <2>3, <2>4, <2>5, Zenon DEF AccountTypes
  <2> QED BY <1>1, <2>3, <2>6
<1>4. CASE e.status # "401" /\ ~e.moved
  <2>1. gstate_reg' = "failed" /\ UNCHANGED auth
    BY <1>4 DEF RegistrationFailure
  <2>2. CASE e.status = "403" /\ e.rid = proxy.rid
    <3>1. AuthenticationFailure
      BY <1>4, <2>2 DEF RegistrationFailure
    <3>2. proxy.rid # 0
      BY <1>1, <2>2
    <3> QED BY <2>1, <3>1, <3>2, AuthenticationFailureTypes DEF AccountTypes
  <2>3. CASE ~(e.status = "403" /\ e.rid = proxy.rid)
    <3>1. UNCHANGED <<proxy, requests>>
      BY <1>4, <2>3 DEF RegistrationFailure
    <3> QED BY <1>1, <2>1, <3>1 DEF AccountTypes
  <2> QED BY <2>2, <2>3
<1> QED BY <1>2, <1>3, <1>4

LEMMA AccountEventTypes ==
  ASSUME AccountTypes, NEW nw \in Nat, NEW ns \in Nat,
         NEW e \in Events(Len(requests), nw, ns), ~ReadsNull(e), AccountEvent(e)
  PROVE  AccountTypes' /\ Len(requests') \in Nat /\ Len(requests') >= Len(requests)
<1>1. requests \in Seq(Request) /\ Len(requests) \in Nat /\ UNCHANGED passwords
  BY DEF AccountTypes, AccountEvent
<1>2. CASE e.type = "reg_ok" /\ RegistrationSuccess(e)
  <2>1. e.rid \in 1..Len(requests) /\ e.unregisters \in BOOLEAN
    BY <1>1, <1>2, EventFields
  <2> QED BY <1>1, <1>2, <2>1, RegistrationSuccessTypes
<1>3. CASE e.type = "reg_fail" /\ RegistrationFailure(e)
  <2>1. e.rid \in 1..Len(requests) /\ e.realms \in SUBSET Realms
    BY <1>1, <1>3, EventFields
  <2> QED BY <1>1, <1>3, <2>1, RegistrationFailureTypes
<1>4. CASE e.type = "challenged" /\ CallChallenged(e)
  <2>1. e.realms \in SUBSET Realms
    BY <1>1, <1>4, EventFields
  <2>2. auth' \in Auth
    BY <1>4, <2>1, ProcessAuthenticationTypes DEF CallChallenged, AccountTypes
  <2> QED BY <1>1, <1>4, <2>2 DEF CallChallenged, AccountTypes
<1>5. CASE e.type = "answered" /\ CallAnswered(e)
  <2>1. auth' \in Auth
    BY <1>5, AuthenticationOkTypes DEF CallAnswered, AccountTypes
  <2> QED BY <1>1, <1>5, <2>1 DEF CallAnswered, AccountTypes
<1> QED BY <1>2, <1>3, <1>4, <1>5 DEF AccountEvent

----------------------------------------------------------------------------
(* The friend and the subscriptions. *)

Friends(nw, ns) ==
  [sid : 0..ns, out_did : 0..ns, nid : 0..nw, in_did : 0..nw, pending : BOOLEAN,
   status : {"offline", "online", "closed"}, subscribe : BOOLEAN, pol : Policies]

Subscription == [open : BOOLEAN, answered : BOOLEAN, unheard : BOOLEAN]

Watch == [open : BOOLEAN, told : States]

PresenceTypes ==
  /\ friend \in Friends(Len(watches), Len(subs))
  /\ subs \in Seq(Subscription)
  /\ watches \in Seq(Watch)

LEMMA FriendsGrow ==
  ASSUME NEW nw \in Nat, NEW ns \in Nat, NEW mw \in Nat, NEW ms \in Nat,
         nw <= mw, ns <= ms
  PROVE  Friends(nw, ns) \subseteq Friends(mw, ms)
<1>1. 0..nw \subseteq 0..mw /\ 0..ns \subseteq 0..ms
  OBVIOUS
<1>2. ASSUME NEW S, NEW T, NEW V, NEW X, S \subseteq T, V \subseteq X PROVE
        [sid : V, out_did : V, nid : S, in_did : S, pending : BOOLEAN,
         status : {"offline", "online", "closed"}, subscribe : BOOLEAN,
         pol : Policies] \subseteq
        [sid : X, out_did : X, nid : T, in_did : T, pending : BOOLEAN,
         status : {"offline", "online", "closed"}, subscribe : BOOLEAN,
         pol : Policies]
  BY <1>2
<1> QED BY <1>1, <1>2, Zenon DEF Friends

LEMMA FriendUpdates ==
  ASSUME NEW N, NEW M, NEW S, NEW P, NEW did \in N, NEW sid \in M, NEW status \in S,
         NEW f \in [sid : M, out_did : M, nid : N, in_did : N, pending : BOOLEAN,
                   status : S, subscribe : BOOLEAN, pol : P]
  PROVE  /\ [f EXCEPT !.in_did = did, !.nid = did, !.pending = TRUE] \in
              [sid : M, out_did : M, nid : N, in_did : N, pending : BOOLEAN,
               status : S, subscribe : BOOLEAN, pol : P]
         /\ [f EXCEPT !.out_did = sid, !.sid = sid] \in
              [sid : M, out_did : M, nid : N, in_did : N, pending : BOOLEAN,
               status : S, subscribe : BOOLEAN, pol : P]
         /\ [f EXCEPT !.status = status, !.sid = sid, !.out_did = sid] \in
              [sid : M, out_did : M, nid : N, in_did : N, pending : BOOLEAN,
               status : S, subscribe : BOOLEAN, pol : P]
         /\ [f EXCEPT !.status = status] \in
              [sid : M, out_did : M, nid : N, in_did : N, pending : BOOLEAN,
               status : S, subscribe : BOOLEAN, pol : P]
  OBVIOUS

LEMMA FriendsUpdate ==
  ASSUME NEW nw \in Nat, NEW ns \in Nat, NEW f \in Friends(nw, ns),
         NEW did \in 0..nw, NEW sid \in 0..ns, NEW status \in {"online", "closed"}
  PROVE  /\ [f EXCEPT !.in_did = did, !.nid = did, !.pending = TRUE] \in Friends(nw, ns)
         /\ [f EXCEPT !.out_did = sid, !.sid = sid] \in Friends(nw, ns)
         /\ [f EXCEPT !.status = status, !.sid = sid, !.out_did = sid] \in Friends(nw, ns)
         /\ [f EXCEPT !.status = status] \in Friends(nw, ns)
<1>1. status \in {"offline", "online", "closed"}
  OBVIOUS
<1> QED BY <1>1, FriendUpdates, Zenon DEF Friends

LEMMA SubscribedTypes ==
  ASSUME PresenceTypes
  PROVE  /\ Subscribed \in Seq(Subscription) /\ Len(Subscribed) = Len(subs) + 1
         /\ \A k \in 1..Len(subs) : Subscribed[k] = subs[k]
         /\ Subscribed[Len(subs) + 1]
              = [open |-> TRUE, answered |-> FALSE, unheard |-> FALSE]
<1>1. [open |-> TRUE, answered |-> FALSE, unheard |-> FALSE] \in Subscription
  BY DEF Subscription
<1> QED BY <1>1, AppendSeq DEF Subscribed, PresenceTypes

LEMMA ToldTypes ==
  ASSUME PresenceTypes, NEW did \in 0..Len(watches), NEW state \in States
  PROVE  /\ Told(did, state) \in Seq(Watch) /\ Len(Told(did, state)) = Len(watches)
         /\ \A k \in 1..Len(watches) :
              Told(did, state)[k].open = watches[k].open
<1>1. watches \in Seq(Watch)
  BY DEF PresenceTypes
<1>2. CASE did = 0
  BY <1>1, <1>2 DEF Told
<1>3. CASE did # 0
  <2> DEFINE new == [watches[did] EXCEPT !.told = state]
  <2>1. did \in 1..Len(watches) /\ watches[did] \in Watch
    BY <1>1, <1>3
  <2>2. new \in Watch /\ new.open = watches[did].open
    BY <2>1 DEF Watch
  <2>3. Told(did, state) = [watches EXCEPT ![did] = new]
    BY <1>3 DEF Told
  <2> HIDE DEF new
  <2> QED BY <1>1, <2>1, <2>2, <2>3, ExceptSeq
<1> QED BY <1>2, <1>3

LEMMA AppliesTypes ==
  ASSUME PresenceTypes, NEW f \in Friends(Len(watches), Len(subs)), Applies(f)
  PROVE  /\ PresenceTypes'
         /\ Len(watches') = Len(watches)
         /\ Len(subs') \in Nat /\ Len(subs') >= Len(subs)
         /\ \A k \in 1..Len(watches) : watches'[k].open = watches[k].open
         /\ \A k \in 1..Len(subs) : subs'[k] = subs[k]
         /\ \A k \in Len(subs) + 1..Len(subs') : subs'[k].open
         /\ friend' = [f EXCEPT !.pending = FALSE]
<1>1. /\ Len(watches) \in Nat /\ Len(subs) \in Nat
      /\ watches \in Seq(Watch) /\ subs \in Seq(Subscription)
  BY DEF PresenceTypes
<1>2. f.in_did \in 0..Len(watches) /\ PolicyState(f.pol) \in States
  BY DEF Friends, PolicyState, Policies, States
<1>3. watches' = Told(f.in_did, PolicyState(f.pol)) \/ watches' = watches
  BY DEF Applies
<1>4. /\ watches' \in Seq(Watch) /\ Len(watches') = Len(watches)
      /\ \A k \in 1..Len(watches) : watches'[k].open = watches[k].open
  BY <1>1, <1>2, <1>3, ToldTypes
<1>5. subs' = Subscribed \/ subs' = subs
  BY DEF Applies
<1>6. /\ subs' \in Seq(Subscription)
      /\ Len(subs') \in Nat /\ Len(subs') >= Len(subs)
      /\ \A k \in 1..Len(subs) : subs'[k] = subs[k]
      /\ \A k \in Len(subs) + 1..Len(subs') : subs'[k].open
  <2>1. CASE subs' = Subscribed
    BY <1>1, <2>1, SubscribedTypes
  <2>2. CASE subs' = subs
    BY <1>1, <2>2
  <2> QED BY <1>5, <2>1, <2>2
<1>7. friend' = [f EXCEPT !.pending = FALSE]
  BY DEF Applies
<1>8. friend' \in Friends(Len(watches), Len(subs))
  BY <1>7 DEF Friends
<1>9. friend' \in Friends(Len(watches'), Len(subs'))
  BY <1>1, <1>4, <1>6, <1>8, FriendsGrow
<1> QED BY <1>4, <1>6, <1>7, <1>9 DEF PresenceTypes

LEMMA PresenceEventTypes ==
  ASSUME PresenceTypes, NEW nr \in Nat, NEW e \in Events(nr, Len(watches), Len(subs)),
         PresenceEvent(e)
  PROVE  /\ PresenceTypes'
         /\ Len(watches') = Len(watches)
         /\ Len(subs') \in Nat /\ Len(subs') >= Len(subs)
<1>1. /\ Len(watches) \in Nat /\ Len(subs) \in Nat
      /\ friend \in Friends(Len(watches), Len(subs))
  BY DEF PresenceTypes
<1>2. /\ e.type \in {"in_sub", "in_closed"} => e.did \in 1..Len(watches)
      /\ e.type = "sub_answered" => e.sid \in 1..Len(subs)
      /\ e.type = "notify" => e.sid \in 1..Len(subs)
  BY <1>1, EventFields
<1>3. CASE e.type = "in_sub" /\ SubscriptionNew(e)
  <2> DEFINE f == [friend EXCEPT !.in_did = e.did, !.nid = e.did, !.pending = TRUE]
  <2>1. e.did \in 0..Len(watches) /\ 0 \in 0..Len(subs)
    BY <1>1, <1>2, <1>3
  <2>2. f \in Friends(Len(watches), Len(subs))
    BY <1>1, <2>1, FriendsUpdate, ZenonT(60)
  <2>3. Applies(f)
    BY <1>3 DEF SubscriptionNew
  <2> HIDE DEF f
  <2> QED BY <2>2, <2>3, AppliesTypes
<1>4. ASSUME friend' \in Friends(Len(watches), Len(subs)), UNCHANGED <<subs, watches>>
      PROVE  /\ PresenceTypes'
             /\ Len(watches') = Len(watches)
             /\ Len(subs') \in Nat /\ Len(subs') >= Len(subs)
  BY <1>1, <1>4 DEF PresenceTypes
<1> DEFINE closed == [friend EXCEPT !.in_did = 0, !.nid = 0, !.pending = TRUE]
           gone == [friend EXCEPT !.status = "closed", !.sid = 0, !.out_did = 0]
           online == [friend EXCEPT !.status = "online"]
           answered(sid) == [friend EXCEPT !.out_did = sid, !.sid = sid]
<1>5. /\ {friend, closed, gone, online} \subseteq Friends(Len(watches), Len(subs))
      /\ e.type = "sub_answered" => answered(e.sid) \in Friends(Len(watches), Len(subs))
  <2>1. 0 \in 0..Len(watches) /\ 0 \in 0..Len(subs)
        /\ (e.type = "sub_answered" => e.sid \in 0..Len(subs))
    BY <1>1, <1>2
  <2> DEFINE nw == Len(watches)  ns == Len(subs)
  <2>2. nw \in Nat /\ ns \in Nat /\ friend \in Friends(nw, ns) /\ 0 \in 0..nw
        /\ 0 \in 0..ns /\ (e.type = "sub_answered" => e.sid \in 0..ns)
    BY <1>1, <2>1
  <2> HIDE DEF nw, ns
  <2>3. closed \in Friends(nw, ns) /\ gone \in Friends(nw, ns)
        /\ online \in Friends(nw, ns)
    BY <2>2, FriendsUpdate, ZenonT(60)
  <2>4. e.type = "sub_answered" => answered(e.sid) \in Friends(nw, ns)
    BY <2>2, FriendsUpdate, ZenonT(60)
  <2> HIDE DEF closed, gone, online, answered
  <2> QED BY <2>2, <2>3, <2>4 DEF nw, ns
<1>6. CASE e.type = "in_closed" /\ SubscriptionClosed(e)
  <2>1. friend' \in {friend, closed} /\ UNCHANGED <<subs, watches>>
    BY <1>6 DEF SubscriptionClosed
  <2> QED BY <1>4, <1>5, <2>1
<1>7. CASE e.type = "sub_answered" /\ SubscriptionAnswered(e)
  <2>1. friend' = answered(e.sid) /\ UNCHANGED <<subs, watches>>
    BY <1>7 DEF SubscriptionAnswered
  <2> HIDE DEF answered
  <2> QED BY <1>4, <1>5, <1>7, <2>1
<1>8. CASE e.type = "notify" /\ NotifyRecv(e)
  <2>1. friend' \in {friend, gone, online} /\ UNCHANGED <<subs, watches>>
    BY <1>8 DEF NotifyRecv
  <2> HIDE DEF gone, online
  <2> QED BY <1>4, <1>5, <2>1
<1> QED BY <1>3, <1>6, <1>7, <1>8 DEF PresenceEvent

----------------------------------------------------------------------------
(* Every step keeps the types. *)

QueueTypes == queue \in Seq(Events(Len(requests), Len(watches), Len(subs)))

TurnTypes ==
  /\ work \in 0..MaxWork
  /\ pc \in {"wait", "drain", "quit", "off", "crashed"} /\ loops \in 0..QuitLoops

TypeInv == AccountTypes /\ PresenceTypes /\ QueueTypes /\ TurnTypes

LEMMA Lengths ==
  ASSUME TypeInv
  PROVE  /\ Len(requests) \in Nat /\ Len(watches) \in Nat /\ Len(subs) \in Nat
         /\ Len(queue) \in Nat
  BY DEF TypeInv, AccountTypes, PresenceTypes, QueueTypes

\* The numbers of requests and of subscriptions only grow.
Grow ==
  /\ Len(requests') \in Nat /\ Len(requests') >= Len(requests)
  /\ Len(watches') \in Nat /\ Len(watches') >= Len(watches)
  /\ Len(subs') \in Nat /\ Len(subs') >= Len(subs)

LEMMA SeqOfMore ==
  ASSUME NEW S, NEW T, S \subseteq T, NEW s \in Seq(S)
  PROVE  s \in Seq(T)
  OBVIOUS

LEMMA EventsOfMore ==
  ASSUME TypeInv, Grow
  PROVE  Events(Len(requests), Len(watches), Len(subs))
           \subseteq Events(Len(requests'), Len(watches'), Len(subs'))
<1> DEFINE nr == Len(requests)  nw == Len(watches)  ns == Len(subs)
           mr == Len(requests')  mw == Len(watches')  ms == Len(subs')
<1>1. nr \in Nat /\ nw \in Nat /\ ns \in Nat
  BY Lengths
<1>2. mr \in Nat /\ mw \in Nat /\ ms \in Nat /\ nr <= mr /\ nw <= mw /\ ns <= ms
  BY <1>1 DEF Grow
<1> HIDE DEF nr, nw, ns, mr, mw, ms
<1>3. Events(nr, nw, ns) \subseteq Events(mr, mw, ms)
  BY ONLY <1>1, <1>2, EventsGrow, SMTT(30)
<1> QED BY <1>3 DEF nr, nw, ns, mr, mw, ms

LEMMA QueueStays ==
  ASSUME TypeInv, Grow, UNCHANGED queue
  PROVE  QueueTypes'
<1>1. Events(Len(requests), Len(watches), Len(subs))
        \subseteq Events(Len(requests'), Len(watches'), Len(subs'))
  BY EventsOfMore
<1> QED BY <1>1, SeqOfMore, Zenon DEF TypeInv, QueueTypes

LEMMA QueueTaken ==
  ASSUME TypeInv, Grow, queue # << >>, queue' = Tail(queue)
  PROVE  QueueTypes'
<1>1. Events(Len(requests), Len(watches), Len(subs))
        \subseteq Events(Len(requests'), Len(watches'), Len(subs'))
  BY EventsOfMore
<1>2. Tail(queue) \in Seq(Events(Len(requests), Len(watches), Len(subs)))
  BY TailSeq DEF TypeInv, QueueTypes
<1> QED BY <1>1, <1>2, SeqOfMore, Zenon DEF QueueTypes

LEMMA QueueSignalled ==
  ASSUME TypeInv, Grow, NEW e \in Events(Len(requests'), Len(watches'), Len(subs')),
         Signals(e)
  PROVE  QueueTypes'
<1>1. Events(Len(requests), Len(watches), Len(subs))
        \subseteq Events(Len(requests'), Len(watches'), Len(subs'))
  BY EventsOfMore
<1>2. queue \in Seq(Events(Len(requests'), Len(watches'), Len(subs')))
  BY <1>1, SeqOfMore, Zenon DEF TypeInv, QueueTypes
<1>3. Append(queue, e) \in Seq(Events(Len(requests'), Len(watches'), Len(subs')))
  BY <1>2, AppendSeq
<1> QED BY <1>3 DEF QueueTypes, Signals

LEMMA AccountStays ==
  ASSUME AccountTypes, UNCHANGED <<passwords, auth, proxy, gstate_reg>>,
         requests' \in Seq(Request), Len(requests') \in Nat,
         Len(requests') >= Len(requests)
  PROVE  AccountTypes'
<1>1. proxy' \in [rid : 0..Len(requests'), registered : BOOLEAN, auth_failures : Nat]
  <2> DEFINE nr == Len(requests)  mr == Len(requests')
  <2>1. 0..nr \subseteq 0..mr /\ proxy \in [rid : 0..nr, registered : BOOLEAN,
                                          auth_failures : Nat]
    BY DEF AccountTypes
  <2> HIDE DEF nr, mr
  <2>2. proxy \in [rid : 0..mr, registered : BOOLEAN, auth_failures : Nat]
    BY <2>1
  <2> QED BY <2>2 DEF mr
<1> QED BY <1>1, Zenon DEF AccountTypes

LEMMA WorkTypes ==
  ASSUME work \in 0..MaxWork, Working \/ UNCHANGED work
  PROVE  work' \in 0..MaxWork
  BY BoundsAssumption DEF Working

LEMMA StackTypes ==
  ASSUME AccountTypes, PresenceTypes, StackActs,
         UNCHANGED <<passwords, auth, proxy, gstate_reg, friend, watches>>
  PROVE  /\ AccountTypes' /\ PresenceTypes'
         /\ Len(requests') = Len(requests) /\ Len(subs') = Len(subs)
         /\ Working \/ UNCHANGED work
<1>1. /\ requests \in Seq(Request) /\ subs \in Seq(Subscription)
      /\ Len(requests) \in Nat /\ Len(subs) \in Nat
  BY DEF AccountTypes, PresenceTypes
<1>2. CASE AutomaticAction /\ UNCHANGED subs
  <2>1. requests' = Retried \/ (proxy.rid # 0 /\ requests' = Resent(proxy.rid, FALSE))
    BY <1>2 DEF AutomaticAction
  <2>2. Working \/ UNCHANGED work
    BY <1>2 DEF AutomaticAction
  <2>3. requests' \in Seq(Request) /\ Len(requests') = Len(requests)
    <3>1. CASE requests' = Retried
      BY <3>1, RetriedTypes
    <3>2. CASE proxy.rid # 0 /\ requests' = Resent(proxy.rid, FALSE)
      <4>1. proxy.rid \in 1..Len(requests)
        BY <1>1, <3>2 DEF AccountTypes
      <4> QED BY <3>2, <4>1, ResentTypes
    <3> QED BY <2>1, <3>1, <3>2
  <2>4. AccountTypes'
    BY <1>1, <2>3, AccountStays
  <2>5. PresenceTypes'
    BY <1>2 DEF PresenceTypes
  <2> QED BY <1>2, <2>2, <2>3, <2>4, <2>5
<1>3. ASSUME NEW i \in DOMAIN subs, subs' = [subs EXCEPT ![i].answered = FALSE],
             Working, UNCHANGED requests
      PROVE  /\ AccountTypes' /\ PresenceTypes'
             /\ Len(requests') = Len(requests) /\ Len(subs') = Len(subs)
  <2> DEFINE new == [subs[i] EXCEPT !.answered = FALSE]
  <2>1. new \in Subscription /\ i \in 1..Len(subs)
    <3>1. i \in 1..Len(subs) /\ subs[i] \in Subscription
      BY <1>1
    <3> QED BY <3>1 DEF Subscription
  <2>2. subs' = [subs EXCEPT ![i] = new]
    BY <1>3
  <2> HIDE DEF new
  <2>3. subs' \in Seq(Subscription) /\ Len(subs') = Len(subs)
    BY <1>1, <2>1, <2>2, ExceptSeq
  <2>4. AccountTypes'
    BY <1>1, <1>3, AccountStays
  <2> QED BY <1>3, <2>3, <2>4 DEF PresenceTypes
<1> QED BY <1>2, <1>3 DEF StackActs

LEMMA TypesInit == Init => TypeInv
<1> SUFFICES ASSUME Init PROVE TypeInv
  OBVIOUS
<1>1. PICK c \in Configurations :
        /\ passwords = c.passwords
        /\ friend = [sid |-> 0, out_did |-> 0, nid |-> 0, in_did |-> 0,
                     pending |-> FALSE, status |-> "offline",
                     subscribe |-> c.subscribe, pol |-> c.pol]
        /\ subs = IF c.subscribe
                  THEN <<[open |-> TRUE, answered |-> FALSE, unheard |-> FALSE]>>
                  ELSE << >>
  BY DEF Init
<1>2. c.passwords \in PasswordSets /\ c.subscribe \in BOOLEAN /\ c.pol \in Policies
  BY ConfigurationsAssumption
<1>3. AccountTypes
  BY DEF Init, AccountInit, AccountTypes, Auth
<1>4. subs \in Seq(Subscription) /\ watches \in Seq(Watch)
      /\ Len(subs) \in Nat /\ Len(watches) \in Nat
  <2>1. [open |-> TRUE, answered |-> FALSE, unheard |-> FALSE] \in Subscription
    BY DEF Subscription
  <2> QED BY <1>1, <2>1 DEF Init
<1>5. friend \in Friends(Len(watches), Len(subs))
  BY <1>1, <1>2, <1>4 DEF Friends
<1>6. QueueTypes /\ TurnTypes
  BY BoundsAssumption DEF Init, AccountInit, QueueTypes, TurnTypes
<1> QED BY <1>3, <1>4, <1>5, <1>6 DEF TypeInv, PresenceTypes

\* The phone's steps
LEMMA HandleTypes == TypeInv /\ Handle => TypeInv'
<1> SUFFICES ASSUME TypeInv, Handle PROVE TypeInv'
  OBVIOUS
<1> DEFINE e == Head(queue)
<1>1. /\ queue # << >> /\ queue' = Tail(queue) /\ UNCHANGED <<loops, work>>
      /\ AccountTypes /\ PresenceTypes /\ TurnTypes /\ QueueTypes
  BY DEF Handle, TypeInv
<1>2. e \in Events(Len(requests), Len(watches), Len(subs))
  BY <1>1, TailSeq DEF QueueTypes
<1>3. CASE ReadsNull(e)
  <2>1. pc' = "crashed" /\ UNCHANGED <<account, presence>>
    BY <1>3 DEF Handle
  <2>2. AccountTypes' /\ PresenceTypes' /\ TurnTypes'
    BY <1>1, <2>1 DEF account, presence, AccountTypes, PresenceTypes, TurnTypes
  <2>3. Grow
    BY <2>1, Lengths DEF account, presence, Grow
  <2> QED BY <1>1, <2>2, <2>3, QueueTaken DEF TypeInv
<1>4. CASE ~ReadsNull(e) /\ AccountEvent(e) /\ UNCHANGED presence /\ UNCHANGED pc
  <2>1. AccountTypes' /\ Len(requests') \in Nat /\ Len(requests') >= Len(requests)
    BY <1>1, <1>2, <1>4, Lengths, AccountEventTypes
  <2>2. PresenceTypes' /\ TurnTypes'
    BY <1>1, <1>4 DEF presence, PresenceTypes, TurnTypes
  <2>3. Grow
    BY <1>4, <2>1, Lengths DEF presence, Grow
  <2> QED BY <1>1, <2>1, <2>2, <2>3, QueueTaken DEF TypeInv
<1>5. CASE PresenceEvent(e) /\ UNCHANGED account /\ UNCHANGED pc
  <2>1. PresenceTypes' /\ Len(watches') = Len(watches)
        /\ Len(subs') \in Nat /\ Len(subs') >= Len(subs)
    BY <1>1, <1>2, <1>5, Lengths, PresenceEventTypes
  <2>2. AccountTypes' /\ TurnTypes'
    BY <1>1, <1>5 DEF account, AccountTypes, TurnTypes
  <2>3. Grow
    BY <1>5, <2>1, Lengths DEF account, Grow
  <2> QED BY <1>1, <2>1, <2>2, <2>3, QueueTaken DEF TypeInv
<1> QED BY <1>3, <1>4, <1>5 DEF Handle

LEMMA DrainTypes == TypeInv /\ (DrainDone \/ QuitDrainDone) => TypeInv'
<1> SUFFICES ASSUME TypeInv, DrainDone \/ QuitDrainDone PROVE TypeInv'
  OBVIOUS
<1>1. AccountTypes /\ PresenceTypes /\ TurnTypes
  BY DEF TypeInv
<1>2. /\ UNCHANGED <<passwords, auth, proxy, gstate_reg, friend, watches, queue>>
      /\ pc' \in {pc, "wait"}
      /\ StackActs \/ UNCHANGED <<requests, subs, work>>
  BY DEF DrainDone, QuitDrainDone
<1>3. /\ AccountTypes' /\ PresenceTypes'
      /\ Len(requests') = Len(requests) /\ Len(subs') = Len(subs)
      /\ Working \/ UNCHANGED work
  <2>1. CASE StackActs
    BY <1>1, <1>2, <2>1, StackTypes
  <2>2. CASE UNCHANGED <<requests, subs, work>>
    BY <1>1, <1>2, <2>2 DEF AccountTypes, PresenceTypes
  <2> QED BY <1>2, <2>1, <2>2
<1>4. TurnTypes'
  <2>1. work' \in 0..MaxWork
    BY <1>1, <1>3, WorkTypes DEF TurnTypes
  <2>2. loops' \in 0..QuitLoops
    BY <1>1, BoundsAssumption DEF TurnTypes, DrainDone, QuitDrainDone
  <2> QED BY <1>1, <1>2, <2>1, <2>2 DEF TurnTypes
<1>5. QueueTypes'
  <2>1. Grow
    BY <1>2, <1>3, Lengths DEF Grow
  <2> QED BY <1>2, <2>1, QueueStays
<1> QED BY <1>3, <1>4, <1>5 DEF TypeInv

LEMMA DestroyTypes == TypeInv /\ (Destroy \/ NotifyAllFriends) => TypeInv'
<1> SUFFICES ASSUME TypeInv, Destroy \/ NotifyAllFriends PROVE TypeInv'
  OBVIOUS
<1>1. AccountTypes /\ PresenceTypes /\ TurnTypes
  BY DEF TypeInv
<1>2. /\ UNCHANGED <<account, queue, loops, friend>>
      /\ pc' \in {pc, "off"}
      /\ Working \/ UNCHANGED work
      /\ watches' \in {Told(friend.in_did, "terminated"), Told(friend.in_did, "active")}
  BY DEF Destroy, NotifyAllFriends, turn
<1>3. watches' \in Seq(Watch) /\ Len(watches') = Len(watches)
  <2>1. friend.in_did \in 0..Len(watches) /\ {"terminated", "active"} \subseteq States
    BY <1>1 DEF PresenceTypes, Friends, States
  <2> QED BY <1>1, <1>2, <2>1, ToldTypes
<1>4. subs' \in Seq(Subscription) /\ Len(subs') = Len(subs)
  <2>1. subs \in Seq(Subscription)
    BY <1>1 DEF PresenceTypes
  <2>2. CASE subs' = subs
    BY <2>1, <2>2
  <2>3. CASE friend.out_did # 0
             /\ subs' = [subs EXCEPT ![friend.out_did].open = FALSE]
    <3> DEFINE new == [subs[friend.out_did] EXCEPT !.open = FALSE]
    <3>1. friend.out_did \in 1..Len(subs)
      BY <1>1, <2>3, Lengths DEF PresenceTypes, Friends
    <3>2. subs[friend.out_did] \in Subscription
      BY <2>1, <3>1
    <3>3. new \in Subscription
      BY <3>2 DEF Subscription
    <3>4. subs' = [subs EXCEPT ![friend.out_did] = new]
      BY <2>3
    <3> HIDE DEF new
    <3> QED BY <2>1, <3>1, <3>3, <3>4, ExceptSeq
  <2> QED BY <2>2, <2>3 DEF Destroy, NotifyAllFriends
<1>5. AccountTypes' /\ PresenceTypes'
  BY <1>1, <1>2, <1>3, <1>4 DEF account, AccountTypes, PresenceTypes
<1>6. TurnTypes'
  BY <1>1, <1>2, WorkTypes DEF TurnTypes
<1>7. QueueTypes'
  <2>1. Grow
    BY <1>2, <1>3, <1>4, Lengths DEF Grow, account
  <2> QED BY <1>2, <2>1, QueueStays
<1> QED BY <1>5, <1>6, <1>7 DEF TypeInv

\* The steps of the user, the registrar and the network
LEMMA UserTypes ==
  ASSUME TypeInv, UserRegister \/ UserInvites \/ Timer \/ Quit, UNCHANGED presence
  PROVE  TypeInv'
<1>1. AccountTypes /\ PresenceTypes /\ TurnTypes
  BY DEF TypeInv
<1>2. PresenceTypes' /\ Len(watches') = Len(watches) /\ Len(subs') = Len(subs)
  BY <1>1 DEF PresenceTypes, presence
<1>3. ASSUME UNCHANGED queue, AccountTypes', TurnTypes', Len(requests') \in Nat,
             Len(requests') >= Len(requests)
      PROVE  TypeInv'
  <2>1. Grow
    BY <1>2, <1>3, Lengths DEF Grow
  <2> QED BY <1>2, <1>3, <2>1, QueueStays DEF TypeInv
<1>4. CASE UserRegister
  <2>1. PICK garbage \in BOOLEAN : Registers([proxy EXCEPT !.registered = garbage])
    BY <1>4 DEF UserRegister
  <2> DEFINE cfg == [proxy EXCEPT !.registered = garbage]
  <2>2. cfg \in [rid : 0..Len(requests), registered : BOOLEAN, auth_failures : Nat]
    BY <1>1 DEF AccountTypes
  <2>3. Registers(cfg)
    BY <2>1
  <2> HIDE DEF cfg
  <2>4. /\ requests' \in Seq(Request) /\ Len(requests') = Len(requests) + 1
        /\ proxy' \in [rid : 0..Len(requests'), registered : BOOLEAN,
                       auth_failures : Nat]
        /\ proxy'.rid = Len(requests) + 1
    BY <1>1, <2>2, <2>3, RegistersTypes
  <2>5. proxy'.rid # 0 /\ Len(requests') \in Nat /\ Len(requests') >= Len(requests)
    BY <2>4, Lengths
  <2>6. AccountTypes' /\ TurnTypes' /\ UNCHANGED queue
    BY <1>1, <1>4, <2>4, <2>5 DEF UserRegister, AccountTypes, TurnTypes, turn
  <2> QED BY <1>3, <2>5, <2>6
<1>5. CASE UserInvites
  <2>1. requests \in Seq(Request) /\ NewRequest("invite") \in Request
    BY <1>1, NewRequestTypes DEF AccountTypes
  <2>2. requests' \in Seq(Request) /\ Len(requests') = Len(requests) + 1
    BY <1>5, <2>1, AppendSeq DEF UserInvites
  <2>3. Len(requests') \in Nat /\ Len(requests') >= Len(requests)
    BY <2>2, Lengths
  <2>4. AccountTypes'
    BY <1>1, <1>5, <2>2, <2>3, AccountStays DEF UserInvites
  <2>5. TurnTypes' /\ UNCHANGED queue
    BY <1>1, <1>5, WorkTypes DEF UserInvites, TurnTypes, turn
  <2> QED BY <1>3, <2>3, <2>4, <2>5
<1>6. CASE Timer
  <2>1. AccountTypes' /\ TurnTypes' /\ UNCHANGED <<queue, requests>>
    BY <1>1, <1>6 DEF Timer, account, AccountTypes, TurnTypes
  <2> QED BY <1>3, <2>1, Lengths
<1>7. CASE Quit
  <2>1. requests' = requests \/ (proxy.registered /\ requests' = Resent(proxy.rid, TRUE))
    BY <1>7 DEF Quit
  <2>2. requests' \in Seq(Request) /\ Len(requests') = Len(requests)
    <3>1. CASE requests' = requests
      BY <1>1, <3>1 DEF AccountTypes
    <3>2. CASE proxy.registered /\ requests' = Resent(proxy.rid, TRUE)
      <4>1. proxy.rid \in 1..Len(requests)
        BY <1>1, <3>2, Lengths DEF AccountTypes
      <4>2. Resent(proxy.rid, TRUE) \in Seq(Request)
            /\ Len(Resent(proxy.rid, TRUE)) = Len(requests)
        BY <1>1, <4>1, ResentTypes
      <4> QED BY <3>2, <4>2
    <3> QED BY <2>1, <3>1, <3>2
  <2>3. proxy' = [proxy EXCEPT !.auth_failures = 0, !.registered = FALSE]
    BY <1>7 DEF Quit
  <2>4. proxy' \in [rid : 0..Len(requests'), registered : BOOLEAN,
                    auth_failures : Nat] /\ ~proxy'.registered
    BY <1>1, <2>2, <2>3 DEF AccountTypes
  <2>5. AccountTypes'
    BY <1>1, <1>7, <2>2, <2>4 DEF Quit, AccountTypes
  <2>6. TurnTypes' /\ UNCHANGED queue
    BY <1>1, <1>7, BoundsAssumption DEF Quit, TurnTypes
  <2> QED BY <1>3, <2>2, <2>5, <2>6, Lengths
<1> QED BY <1>4, <1>5, <1>6, <1>7

\* The outcome of a request: sent by the registrar, or lost
LEMMA OutcomeTypes ==
  ASSUME AccountTypes, NEW i \in DOMAIN requests, NEW new \in Request,
         requests' = [requests EXCEPT ![i] = new]
  PROVE  /\ requests' \in Seq(Request) /\ Len(requests') = Len(requests)
         /\ requests'[i] = new
         /\ \A k \in 1..Len(requests) : k # i => requests'[k] = requests[k]
<1>1. requests \in Seq(Request) /\ i \in 1..Len(requests)
  BY DEF AccountTypes
<1>2. /\ [requests EXCEPT ![i] = new] \in Seq(Request)
      /\ Len([requests EXCEPT ![i] = new]) = Len(requests)
      /\ [requests EXCEPT ![i] = new][i] = new
      /\ \A k \in 1..Len(requests) :
           k # i => [requests EXCEPT ![i] = new][k] = requests[k]
  BY <1>1, ExceptSeq
<1> QED BY <1>2

LEMMA EndsTypes ==
  ASSUME AccountTypes, NEW i \in DOMAIN requests,
         NEW state \in {"sent", "challenged", "accepted", "failed"}, Ends(i, state)
  PROVE  /\ requests' \in Seq(Request) /\ Len(requests') = Len(requests)
         /\ requests'[i].kind = requests[i].kind /\ requests'[i].state = state
         /\ \A k \in 1..Len(requests) : k # i => requests'[k] = requests[k]
<1> DEFINE new == [requests[i] EXCEPT !.state = state]
<1>1. requests[i] \in Request
  BY DEF AccountTypes
<1>2. new \in Request /\ new.kind = requests[i].kind /\ new.state = state
  BY <1>1 DEF Request
<1>3. requests' = [requests EXCEPT ![i] = new]
  BY DEF Ends
<1> HIDE DEF new
<1>4. /\ requests' \in Seq(Request) /\ Len(requests') = Len(requests)
      /\ requests'[i] = new
      /\ \A k \in 1..Len(requests) : k # i => requests'[k] = requests[k]
  BY <1>2, <1>3, OutcomeTypes
<1> QED BY <1>2, <1>4

LEMMA FailsTypes ==
  ASSUME AccountTypes, NEW i \in DOMAIN requests, Fails(i)
  PROVE  /\ requests' \in Seq(Request) /\ Len(requests') = Len(requests)
         /\ requests'[i].kind = requests[i].kind /\ requests'[i].state = "failed"
         /\ \A k \in 1..Len(requests) : k # i => requests'[k] = requests[k]
<1> DEFINE new == [requests[i] EXCEPT !.state = "failed", !.failed_once = TRUE]
<1>1. requests[i] \in Request
  BY DEF AccountTypes
<1>2. new \in Request /\ new.kind = requests[i].kind /\ new.state = "failed"
  BY <1>1 DEF Request
<1>3. requests' = [requests EXCEPT ![i] = new]
  BY DEF Fails
<1> HIDE DEF new
<1>4. /\ requests' \in Seq(Request) /\ Len(requests') = Len(requests)
      /\ requests'[i] = new
      /\ \A k \in 1..Len(requests) : k # i => requests'[k] = requests[k]
  BY <1>2, <1>3, OutcomeTypes
<1> QED BY <1>2, <1>4

LEMMA RegistrarTypes ==
  ASSUME TypeInv, NEW i \in DOMAIN requests,
         Accepts(i) \/ Challenges(i) \/ Fails(i), UNCHANGED presence
  PROVE  TypeInv'
<1>1. /\ AccountTypes /\ PresenceTypes /\ TurnTypes
      /\ requests \in Seq(Request) /\ i \in 1..Len(requests) /\ requests[i] \in Request
      /\ passwords \in PasswordSets
  BY DEF TypeInv, AccountTypes
<1>2. PresenceTypes' /\ Len(watches') = Len(watches) /\ Len(subs') = Len(subs)
  BY <1>1 DEF PresenceTypes, presence
<1>3. /\ UNCHANGED <<passwords, auth, proxy, gstate_reg, turn>>
      /\ Working \/ UNCHANGED work
  BY DEF Accepts, Challenges, Fails
<1>4. requests' \in Seq(Request) /\ Len(requests') = Len(requests)
  <2>1. CASE Fails(i)
    BY <1>1, <2>1, FailsTypes
  <2>2. CASE Accepts(i)
    BY <1>1, <2>2, EndsTypes DEF Accepts
  <2>3. CASE Challenges(i)
    BY <1>1, <2>3, EndsTypes DEF Challenges
  <2> QED BY <2>1, <2>2, <2>3
<1>5. AccountTypes' /\ TurnTypes' /\ Grow
  <2>1. Grow
    BY <1>2, <1>4, Lengths DEF Grow
  <2>2. AccountTypes'
    BY <1>1, <1>3, <1>4, <2>1, AccountStays DEF Grow
  <2>3. TurnTypes'
    BY <1>1, <1>3, WorkTypes DEF TurnTypes, turn
  <2> QED BY <2>1, <2>2, <2>3
<1> DEFINE E == Events(Len(requests'), Len(watches'), Len(subs'))
<1>6. \E e \in E : Signals(e)
  <2>1. i \in 1..Len(requests') /\ requests[i].carries \in SUBSET Realms
        /\ requests[i].unregisters \in BOOLEAN /\ passwords.protects \in SUBSET Realms
    BY <1>1, <1>4 DEF Request, PasswordSets
  <2>2. CASE Accepts(i)
    <3>1. CASE requests[i].kind = "register"
      <4>1. PICK moved \in BOOLEAN :
              Signals([type |-> "reg_ok", rid |-> i, carries |-> requests[i].carries,
                       unregisters |-> requests[i].unregisters, moved |-> moved])
        BY <2>2, <3>1 DEF Accepts
      <4>2. [type |-> "reg_ok", rid |-> i, carries |-> requests[i].carries,
             unregisters |-> requests[i].unregisters, moved |-> moved] \in E
        BY <2>1 DEF Events
      <4> QED BY <4>1, <4>2
    <3>2. CASE requests[i].kind # "register"
      <4>1. Signals([type |-> "answered", carries |-> requests[i].carries])
        BY <2>2, <3>2 DEF Accepts
      <4>2. [type |-> "answered", carries |-> requests[i].carries] \in E
        BY <2>1 DEF Events
      <4> QED BY <4>1, <4>2
    <3> QED BY <3>1, <3>2
  <2>3. CASE Challenges(i)
    <3> DEFINE e1 == [type |-> "reg_fail", rid |-> i, status |-> "401",
                      realms |-> passwords.protects, moved |-> FALSE]
               e2 == [type |-> "challenged", realms |-> passwords.protects]
    <3>1. e1 \in E /\ e2 \in E
      BY <2>1 DEF Events
    <3>2. Signals(e1) \/ Signals(e2)
      BY <2>3 DEF Challenges
    <3> QED BY <3>1, <3>2
  <2>4. CASE Fails(i)
    <3>1. PICK status \in {"403", "other"}, moved \in BOOLEAN :
            Signals([type |-> "reg_fail", rid |-> i, status |-> status,
                     realms |-> {}, moved |-> moved])
      BY <2>4 DEF Fails
    <3>2. [type |-> "reg_fail", rid |-> i, status |-> status,
           realms |-> {}, moved |-> moved] \in E
      BY <2>1 DEF Events
    <3> QED BY <3>1, <3>2
  <2> QED BY <2>2, <2>3, <2>4
<1> QED BY <1>2, <1>5, <1>6, QueueSignalled DEF TypeInv

\* The steps of the friend
LEMMA SubscriptionSet ==
  ASSUME PresenceTypes, NEW i \in DOMAIN subs, NEW new \in Subscription,
         subs' = [subs EXCEPT ![i] = new]
  PROVE  /\ subs' \in Seq(Subscription) /\ Len(subs') = Len(subs) /\ i \in 1..Len(subs)
         /\ subs'[i] = new
         /\ \A k \in 1..Len(subs) : k # i => subs'[k] = subs[k]
<1>1. subs \in Seq(Subscription) /\ i \in 1..Len(subs)
  BY DEF PresenceTypes
<1>2. /\ [subs EXCEPT ![i] = new] \in Seq(Subscription)
      /\ Len([subs EXCEPT ![i] = new]) = Len(subs)
      /\ [subs EXCEPT ![i] = new][i] = new
      /\ \A k \in 1..Len(subs) :
           k # i => [subs EXCEPT ![i] = new][k] = subs[k]
  BY <1>1, ExceptSeq
<1> QED BY <1>1, <1>2

LEMMA WatchSet ==
  ASSUME PresenceTypes, NEW i \in DOMAIN watches, NEW new \in Watch,
         watches' = [watches EXCEPT ![i] = new]
  PROVE  /\ watches' \in Seq(Watch) /\ Len(watches') = Len(watches)
         /\ i \in 1..Len(watches) /\ watches'[i] = new
         /\ \A k \in 1..Len(watches) : k # i => watches'[k] = watches[k]
<1>1. watches \in Seq(Watch) /\ i \in 1..Len(watches)
  BY DEF PresenceTypes
<1>2. /\ [watches EXCEPT ![i] = new] \in Seq(Watch)
      /\ Len([watches EXCEPT ![i] = new]) = Len(watches)
      /\ [watches EXCEPT ![i] = new][i] = new
      /\ \A k \in 1..Len(watches) :
           k # i => [watches EXCEPT ![i] = new][k] = watches[k]
  BY <1>1, ExceptSeq
<1> QED BY <1>1, <1>2

\* What a step of the friend does to the subscriptions and to the queue
LEMMA FriendSubscribesTypes ==
  ASSUME PresenceTypes, FriendSubscribes
  PROVE  /\ watches' \in Seq(Watch) /\ Len(watches') = Len(watches) + 1
         /\ watches'[Len(watches) + 1].open
         /\ \A k \in 1..Len(watches) : watches'[k] = watches[k]
         /\ Signals([type |-> "in_sub", did |-> Len(watches) + 1])
         /\ UNCHANGED subs
<1>1. [open |-> TRUE, told |-> "none"] \in Watch
  BY DEF Watch, States
<1> QED BY <1>1, AppendSeq DEF FriendSubscribes, PresenceTypes

LEMMA FriendUnsubscribesTypes ==
  ASSUME PresenceTypes, NEW i \in DOMAIN watches, FriendUnsubscribes(i)
  PROVE  /\ watches' \in Seq(Watch) /\ Len(watches') = Len(watches)
         /\ i \in 1..Len(watches)
         /\ \A k \in 1..Len(watches) : k # i => watches'[k] = watches[k]
         /\ Signals([type |-> "in_closed", did |-> i])
         /\ UNCHANGED subs
<1> DEFINE new == [watches[i] EXCEPT !.open = FALSE]
<1>1. watches[i] \in Watch
  BY DEF PresenceTypes
<1>2. new \in Watch
  BY <1>1 DEF Watch
<1>3. watches' = [watches EXCEPT ![i] = new]
  BY DEF FriendUnsubscribes
<1>4. Signals([type |-> "in_closed", did |-> i]) /\ UNCHANGED subs
  BY DEF FriendUnsubscribes
<1> HIDE DEF new
<1> QED BY <1>2, <1>3, <1>4, WatchSet

LEMMA FriendAnswersTypes ==
  ASSUME PresenceTypes, NEW i \in DOMAIN subs, FriendAnswers(i)
  PROVE  /\ subs' \in Seq(Subscription) /\ Len(subs') = Len(subs) /\ i \in 1..Len(subs)
         /\ subs'[i].answered
         /\ subs'[i].open = subs[i].open /\ subs'[i].unheard = subs[i].unheard
         /\ \A k \in 1..Len(subs) : k # i => subs'[k] = subs[k]
         /\ ~subs[i].answered
         /\ Signals([type |-> "sub_answered", sid |-> i])
         /\ UNCHANGED watches
<1> DEFINE new == [subs[i] EXCEPT !.answered = TRUE]
<1>1. subs[i] \in Subscription
  BY DEF PresenceTypes
<1>2. new \in Subscription /\ new.answered
      /\ new.open = subs[i].open /\ new.unheard = subs[i].unheard
  BY <1>1 DEF Subscription
<1>3. subs' = [subs EXCEPT ![i] = new]
  BY DEF FriendAnswers
<1>4. Signals([type |-> "sub_answered", sid |-> i]) /\ UNCHANGED watches
      /\ ~subs[i].answered
  BY DEF FriendAnswers
<1> HIDE DEF new
<1>5. /\ subs' \in Seq(Subscription) /\ Len(subs') = Len(subs) /\ i \in 1..Len(subs)
      /\ subs'[i] = new
      /\ \A k \in 1..Len(subs) : k # i => subs'[k] = subs[k]
  BY <1>2, <1>3, SubscriptionSet
<1> QED BY <1>2, <1>4, <1>5

LEMMA FriendRefusesTypes ==
  ASSUME PresenceTypes, NEW i \in DOMAIN subs, FriendRefuses(i)
  PROVE  /\ subs' \in Seq(Subscription) /\ Len(subs') = Len(subs) /\ i \in 1..Len(subs)
         /\ subs'[i].unheard /\ subs'[i].answered
         /\ \A k \in 1..Len(subs) : k # i => subs'[k] = subs[k]
         /\ UNCHANGED <<watches, queue>>
<1> DEFINE new == [open |-> FALSE, answered |-> TRUE, unheard |-> TRUE]
<1>1. new \in Subscription /\ new.unheard /\ new.answered
  BY DEF Subscription
<1>2. subs' = [subs EXCEPT ![i] = new] /\ UNCHANGED <<watches, queue>>
  BY DEF FriendRefuses
<1> HIDE DEF new
<1>3. /\ subs' \in Seq(Subscription) /\ Len(subs') = Len(subs) /\ i \in 1..Len(subs)
      /\ subs'[i] = new
      /\ \A k \in 1..Len(subs) : k # i => subs'[k] = subs[k]
  BY <1>1, <1>2, SubscriptionSet
<1> QED BY <1>1, <1>2, <1>3

LEMMA FriendNotifiesTypes ==
  ASSUME PresenceTypes, NEW i \in DOMAIN subs, FriendNotifies(i)
  PROVE  /\ subs' \in Seq(Subscription) /\ Len(subs') = Len(subs) /\ i \in 1..Len(subs)
         /\ subs'[i].answered = subs[i].answered
         /\ subs[i].unheard => subs'[i].unheard
         /\ \A k \in 1..Len(subs) : k # i => subs'[k] = subs[k]
         /\ UNCHANGED watches
         /\ \E last \in BOOLEAN :
              /\ Signals([type |-> "notify", sid |-> i, terminated |-> last])
              /\ subs'[i].open = ~last
              /\ last /\ ~subs[i].answered => subs'[i].unheard
<1>1. PICK last \in BOOLEAN :
        /\ Signals([type |-> "notify", sid |-> i, terminated |-> last])
        /\ subs' = [subs EXCEPT ![i].open = ~last,
                               ![i].unheard = @ \/ (last /\ ~subs[i].answered)]
  BY DEF FriendNotifies
<1> DEFINE new == [subs[i] EXCEPT !.open = ~last,
                                  !.unheard = @ \/ (last /\ ~subs[i].answered)]
<1>2. subs[i] \in Subscription
  BY DEF PresenceTypes
<1>3. new \in Subscription /\ new.answered = subs[i].answered /\ new.open = ~last
      /\ (subs[i].unheard => new.unheard)
      /\ (last /\ ~subs[i].answered => new.unheard)
  BY <1>2 DEF Subscription
<1>4. subs' = [subs EXCEPT ![i] = new]
  BY <1>1, <1>2
<1>5. UNCHANGED watches
  BY DEF FriendNotifies
<1> HIDE DEF new
<1>6. /\ subs' \in Seq(Subscription) /\ Len(subs') = Len(subs) /\ i \in 1..Len(subs)
      /\ subs'[i] = new
      /\ \A k \in 1..Len(subs) : k # i => subs'[k] = subs[k]
  BY <1>3, <1>4, SubscriptionSet
<1> QED BY <1>1, <1>3, <1>5, <1>6

FriendActs ==
  \/ FriendSubscribes
  \/ \E i \in DOMAIN watches : FriendUnsubscribes(i)
  \/ \E i \in DOMAIN subs : FriendAnswers(i) \/ FriendRefuses(i) \/ FriendNotifies(i)

LEMMA FriendTypes ==
  ASSUME TypeInv, FriendActs
  PROVE  TypeInv'
<1>1. AccountTypes /\ PresenceTypes /\ TurnTypes
      /\ watches \in Seq(Watch) /\ subs \in Seq(Subscription)
  BY DEF TypeInv, PresenceTypes
<1>2. FriendEvent /\ (Working \/ UNCHANGED work)
  BY DEF FriendActs, FriendSubscribes, FriendUnsubscribes, FriendAnswers,
         FriendRefuses, FriendNotifies
<1>3. AccountTypes' /\ TurnTypes'
  BY <1>1, <1>2, WorkTypes DEF FriendEvent, account, turn, AccountTypes, TurnTypes
<1> DEFINE E == Events(Len(requests'), Len(watches'), Len(subs'))
           Kept == /\ watches' \in Seq(Watch) /\ subs' \in Seq(Subscription) /\ Grow
                   /\ UNCHANGED queue \/ \E e \in E : Signals(e)
<1>4. ASSUME FriendSubscribes PROVE Kept
  <2>1. /\ watches' \in Seq(Watch) /\ Len(watches') = Len(watches) + 1
        /\ Signals([type |-> "in_sub", did |-> Len(watches) + 1])
        /\ UNCHANGED subs
    BY <1>1, <1>4, FriendSubscribesTypes
  <2>2. Grow
    BY <1>2, <2>1, Lengths DEF FriendEvent, account, Grow
  <2>3. Len(watches) + 1 \in 1..Len(watches')
    BY <2>1, Lengths
  <2>4. [type |-> "in_sub", did |-> Len(watches) + 1] \in E
    BY <2>3 DEF Events
  <2> QED BY <1>1, <2>1, <2>2, <2>4
<1>5. ASSUME NEW i \in DOMAIN watches, FriendUnsubscribes(i) PROVE Kept
  <2>1. /\ watches' \in Seq(Watch) /\ Len(watches') = Len(watches)
        /\ i \in 1..Len(watches)
        /\ Signals([type |-> "in_closed", did |-> i])
        /\ UNCHANGED subs
    BY <1>1, <1>5, FriendUnsubscribesTypes
  <2>2. Grow
    BY <1>2, <2>1, Lengths DEF FriendEvent, account, Grow
  <2>3. [type |-> "in_closed", did |-> i] \in E
    BY <2>1 DEF Events
  <2> QED BY <1>1, <2>1, <2>2, <2>3
<1>6. ASSUME NEW i \in DOMAIN subs, FriendAnswers(i) PROVE Kept
  <2>1. /\ subs' \in Seq(Subscription) /\ Len(subs') = Len(subs) /\ i \in 1..Len(subs)
        /\ Signals([type |-> "sub_answered", sid |-> i])
        /\ UNCHANGED watches
    BY <1>1, <1>6, FriendAnswersTypes
  <2>2. Grow
    BY <1>2, <2>1, Lengths DEF FriendEvent, account, Grow
  <2>3. [type |-> "sub_answered", sid |-> i] \in E
    BY <2>1 DEF Events
  <2> QED BY <1>1, <2>1, <2>2, <2>3
<1>7. ASSUME NEW i \in DOMAIN subs, FriendRefuses(i) PROVE Kept
  <2>1. /\ subs' \in Seq(Subscription) /\ Len(subs') = Len(subs)
        /\ UNCHANGED <<watches, queue>>
    BY <1>1, <1>7, FriendRefusesTypes
  <2>2. Grow
    BY <1>2, <2>1, Lengths DEF FriendEvent, account, Grow
  <2> QED BY <1>1, <2>1, <2>2
<1>8. ASSUME NEW i \in DOMAIN subs, FriendNotifies(i) PROVE Kept
  <2>1. /\ subs' \in Seq(Subscription) /\ Len(subs') = Len(subs) /\ i \in 1..Len(subs)
        /\ UNCHANGED watches
    BY <1>1, <1>8, FriendNotifiesTypes
  <2>2. PICK last \in BOOLEAN :
          Signals([type |-> "notify", sid |-> i, terminated |-> last])
    BY <1>1, <1>8, FriendNotifiesTypes
  <2>3. Grow
    BY <1>2, <2>1, Lengths DEF FriendEvent, account, Grow
  <2>4. [type |-> "notify", sid |-> i, terminated |-> last] \in E
    BY <2>1 DEF Events
  <2> QED BY <1>1, <2>1, <2>2, <2>3, <2>4
<1>9. Kept
  BY <1>4, <1>5, <1>6, <1>7, <1>8, Zenon DEF FriendActs
<1>10. QueueTypes'
  BY <1>9, QueueStays, QueueSignalled
<1>11. PresenceTypes'
  <2>1. friend \in Friends(Len(watches'), Len(subs'))
    BY <1>1, <1>9, Lengths, FriendsGrow DEF Grow, PresenceTypes
  <2> QED BY <1>2, <1>9, <2>1 DEF FriendEvent, PresenceTypes
<1> QED BY <1>3, <1>10, <1>11 DEF TypeInv

LEMMA TypesStep == TypeInv /\ [Next]_vars => TypeInv'
<1> SUFFICES ASSUME TypeInv, [Next]_vars PROVE TypeInv'
  OBVIOUS
<1>1. CASE UNCHANGED vars
  BY <1>1 DEF vars, account, turn, presence, TypeInv, AccountTypes, PresenceTypes,
              QueueTypes, TurnTypes
<1>2. CASE Phone
  BY <1>2, HandleTypes, DrainTypes, DestroyTypes DEF Phone
<1>3. CASE AccountSteps
  BY <1>3, UserTypes, RegistrarTypes DEF AccountSteps
<1>4. CASE FriendSteps
  <2>1. NotifyAllFriends \/ FriendActs
    BY <1>4 DEF FriendSteps, FriendActs
  <2> QED BY <2>1, DestroyTypes, FriendTypes
<1> QED BY <1>1, <1>2, <1>3, <1>4 DEF Next

\* Every variable keeps its type: the ids that the handlers of CEvents and
\* CPresence search for name requests and subscriptions that exist.
THEOREM PresenceTypeOK == Spec => []TypeOK
<1>1. TypeInv => TypeOK
  BY DEF TypeInv, AccountTypes, Auth, Request, PresenceTypes, Friends, Subscription,
         Watch, TurnTypes, TypeOK
<1> QED BY <1>1, TypesInit, TypesStep, PTL DEF Spec

----------------------------------------------------------------------------
(* The answers to the REGISTERs. *)

IsAnswer(e) == e.type \in {"reg_ok", "reg_fail"}

Outcome(e) ==
  IF e.type = "reg_ok" THEN "accepted"
  ELSE IF e.status = "401" THEN "challenged" ELSE "failed"

\* While the program runs there is one registration that has not failed, the
\* proxy config's, and in the queue no answer but to that one, and one at most.
ProxyInv ==
  Running =>
    /\ \A k \in 1..Len(queue) : IsAnswer(queue[k]) =>
         /\ queue[k].rid = proxy.rid
         /\ requests[proxy.rid].state = Outcome(queue[k])
    /\ \A k, j \in 1..Len(queue) : IsAnswer(queue[k]) /\ IsAnswer(queue[j]) => j = k
    /\ \A i \in 1..Len(requests) :
         requests[i].kind = "register" => i = proxy.rid \/ requests[i].state = "failed"
    /\ proxy.rid # 0 => requests[proxy.rid].kind = "register"

LEMMA QueueShape ==
  ASSUME TypeInv
  PROVE  /\ queue \in Seq(Events(Len(requests), Len(watches), Len(subs)))
         /\ requests \in Seq(Request) /\ passwords \in PasswordSets
         /\ proxy.rid \in 0..Len(requests)
         /\ Len(queue) \in Nat /\ Len(requests) \in Nat
         /\ \A k \in 1..Len(queue) : IsAnswer(queue[k]) => queue[k].rid \in 1..Len(requests)
<1>1. /\ queue \in Seq(Events(Len(requests), Len(watches), Len(subs)))
      /\ requests \in Seq(Request) /\ passwords \in PasswordSets
      /\ proxy.rid \in 0..Len(requests)
  BY DEF TypeInv, QueueTypes, AccountTypes
<1>2. ASSUME NEW k \in 1..Len(queue), IsAnswer(queue[k])
      PROVE  queue[k].rid \in 1..Len(requests)
  <2>1. queue[k] \in Events(Len(requests), Len(watches), Len(subs))
    BY <1>1
  <2> QED BY <1>2, <2>1, Lengths, EventFields DEF IsAnswer
<1> QED BY <1>1, <1>2, Lengths

\* An event that is no answer is handled, or an answer that changes no request.
LEMMA ProxyTaken ==
  ASSUME TypeInv, Running, ProxyInv, queue # << >>, queue' = Tail(queue),
         proxy'.rid = proxy.rid, UNCHANGED requests
  PROVE  ProxyInv'
<1>1. /\ Len(queue') = Len(queue) - 1 /\ Len(queue) \in Nat
      /\ \A k \in 1..Len(queue') : queue'[k] = queue[k + 1] /\ k + 1 \in 1..Len(queue)
  BY QueueShape, TailSeq
<1>2. \A k, j \in 1..Len(queue') : k + 1 = j + 1 => k = j
  BY <1>1
<1> QED BY <1>1, <1>2 DEF ProxyInv, IsAnswer, Outcome

\* An answer is handled: there was no other.
LEMMA ProxyAnswered ==
  ASSUME TypeInv, Running, ProxyInv, queue # << >>, queue' = Tail(queue),
         IsAnswer(Head(queue)),
         \A i \in 1..Len(requests') :
           requests'[i].kind = "register" => i = proxy'.rid \/ requests'[i].state = "failed",
         proxy'.rid # 0 => requests'[proxy'.rid].kind = "register"
  PROVE  ProxyInv'
<1>1. /\ Len(queue') = Len(queue) - 1 /\ Len(queue) \in Nat /\ Len(queue) > 0
      /\ Head(queue) = queue[1]
      /\ \A k \in 1..Len(queue') : queue'[k] = queue[k + 1] /\ k + 1 \in 1..Len(queue)
  BY QueueShape, TailSeq
<1>2. \A k \in 1..Len(queue') : ~IsAnswer(queue'[k])
  <2>1. \A k \in 2..Len(queue) : ~IsAnswer(queue[k])
    BY <1>1 DEF ProxyInv
  <2> QED BY <1>1, <2>1
<1>3. \A k \in 1..Len(queue') : ~IsAnswer(queue[k])'
  BY <1>2 DEF IsAnswer
<1> QED BY <1>3 DEF ProxyInv

\* Another event joins the queue.
LEMMA ProxyStays ==
  ASSUME TypeInv, Running, ProxyInv, UNCHANGED <<proxy, requests>>,
         \/ UNCHANGED queue
         \/ \E e : Signals(e) /\ ~IsAnswer(e)
  PROVE  ProxyInv'
<1>1. CASE UNCHANGED queue
  BY <1>1 DEF ProxyInv, IsAnswer, Outcome
<1>2. ASSUME NEW e, Signals(e), ~IsAnswer(e) PROVE ProxyInv'
  <2>1. /\ Len(queue') = Len(queue) + 1 /\ Len(queue) \in Nat
        /\ queue'[Len(queue) + 1] = e
        /\ \A k \in 1..Len(queue) : queue'[k] = queue[k]
    BY <1>2, QueueShape DEF Signals
  <2>2. \A k \in 1..Len(queue') : IsAnswer(queue'[k]) =>
          k \in 1..Len(queue) /\ queue'[k] = queue[k]
    BY <1>2, <2>1
  <2> QED BY <2>2 DEF ProxyInv, IsAnswer, Outcome
<1> QED BY <1>1, <1>2

LEMMA ProxyHandles ==
  ASSUME TypeInv, Running, ProxyInv, Handle, Running'
  PROVE  ProxyInv'
<1> DEFINE e == Head(queue)
<1>1. /\ queue # << >> /\ queue' = Tail(queue)
      /\ e = queue[1] /\ 1 \in 1..Len(queue)
      /\ e \in Events(Len(requests), Len(watches), Len(subs))
  BY QueueShape, TailSeq DEF Handle
<1>2. IsAnswer(e) =>
        /\ e.rid = proxy.rid /\ proxy.rid \in 1..Len(requests)
        /\ requests[proxy.rid].state = Outcome(e)
        /\ requests[proxy.rid].kind = "register"
  BY <1>1, QueueShape DEF ProxyInv
<1>3. \A i \in 1..Len(requests) :
        requests[i].kind = "register" => i = proxy.rid \/ requests[i].state = "failed"
  BY DEF ProxyInv
<1>4. AccountTypes /\ requests \in Seq(Request)
  BY DEF TypeInv, AccountTypes
<1> HIDE DEF e
<1>5. ASSUME IsAnswer(e), requests' = Resent(proxy.rid, FALSE), proxy'.rid = proxy.rid
      PROVE  ProxyInv'
  <2>1. /\ Len(requests') = Len(requests)
        /\ \A k \in 1..Len(requests) :
             /\ requests'[k].kind = requests[k].kind
             /\ k # proxy.rid => requests'[k] = requests[k]
    BY <1>2, <1>4, <1>5, ResentTypes
  <2>2. /\ \A i \in 1..Len(requests') :
             requests'[i].kind = "register" =>
               i = proxy'.rid \/ requests'[i].state = "failed"
        /\ proxy'.rid # 0 => requests'[proxy'.rid].kind = "register"
    BY <1>2, <1>3, <1>5, <2>1
  <2>3. IsAnswer(Head(queue)) /\ queue # << >> /\ queue' = Tail(queue)
    BY <1>1, <1>5 DEF e
  <2> QED BY <2>2, <2>3, ProxyAnswered
<1>6. ASSUME IsAnswer(e), AuthenticationFailure, requests[proxy.rid].state = "failed"
      PROVE  ProxyInv'
  <2> DEFINE counted == [proxy EXCEPT !.auth_failures = @ + 1]
  <2>1. counted \in [rid : 0..Len(requests), registered : BOOLEAN, auth_failures : Nat]
        /\ counted.rid = proxy.rid
    BY <1>4 DEF AccountTypes
  <2>2. CASE Registers(counted)
    <3> HIDE DEF counted
    <3>1. /\ Len(requests') = Len(requests) + 1
          /\ proxy'.rid = Len(requests) + 1
          /\ requests'[Len(requests) + 1].kind = "register"
          /\ \A k \in 1..Len(requests) : requests'[k] = requests[k]
      BY <1>4, <2>1, <2>2, RegistersTypes
    <3>2. \A i \in 1..Len(requests') : i \in 1..Len(requests) \/ i = Len(requests) + 1
      BY <1>4, <3>1
    <3>3. /\ \A i \in 1..Len(requests') :
               requests'[i].kind = "register" =>
                 i = proxy'.rid \/ requests'[i].state = "failed"
          /\ proxy'.rid # 0 => requests'[proxy'.rid].kind = "register"
      BY <1>3, <1>6, <3>1, <3>2
    <3> QED BY <1>1, <1>6, <3>3, ProxyAnswered DEF e
  <2>3. CASE proxy' = counted /\ UNCHANGED requests
    BY <1>1, <2>1, <2>3, ProxyTaken DEF e
  <2> QED BY <1>6, <2>2, <2>3 DEF AuthenticationFailure
<1>7. CASE AccountEvent(e) /\ ~ReadsNull(e)
  <2>1. CASE e.type = "reg_ok" /\ RegistrationSuccess(e)
    <3>1. proxy'.rid = proxy.rid
      BY <1>4, <2>1 DEF RegistrationSuccess, AccountTypes
    <3>2. IsAnswer(e) /\ (UNCHANGED requests \/ requests' = Resent(proxy.rid, FALSE))
      BY <1>2, <2>1 DEF RegistrationSuccess, IsAnswer
    <3> QED BY <1>1, <1>5, <3>1, <3>2, ProxyTaken
  <2>2. CASE e.type = "reg_fail" /\ RegistrationFailure(e)
    <3>1. IsAnswer(e)
      BY <2>2 DEF IsAnswer
    <3>2. CASE UNCHANGED <<proxy, requests>>
      BY <1>1, <3>2, ProxyTaken
    <3>3. CASE requests' = Resent(proxy.rid, FALSE) /\ UNCHANGED proxy
      BY <1>5, <3>1, <3>3
    <3>4. CASE e.status = "403" /\ AuthenticationFailure
      <4>1. requests[proxy.rid].state = "failed"
        BY <1>2, <2>2, <3>1, <3>4 DEF Outcome
      <4> QED BY <1>6, <3>1, <3>4, <4>1
    <3> QED BY <2>2, <3>2, <3>3, <3>4 DEF RegistrationFailure
  <2>3. CASE CallChallenged(e) \/ CallAnswered(e)
    BY <1>1, <2>3, ProxyTaken DEF CallChallenged, CallAnswered
  <2> QED BY <1>7, <2>1, <2>2, <2>3 DEF AccountEvent
<1>8. CASE UNCHANGED account
  BY <1>1, <1>8, ProxyTaken DEF account
<1> QED BY <1>7, <1>8 DEF Handle, e, Running

LEMMA ProxyUser ==
  ASSUME TypeInv, Running, ProxyInv, UserRegister \/ UserInvites \/ Timer
  PROVE  ProxyInv'
<1>1. AccountTypes
  BY DEF TypeInv
<1>2. CASE UserRegister
  <2>1. PICK garbage \in BOOLEAN : Registers([proxy EXCEPT !.registered = garbage])
    BY <1>2 DEF UserRegister
  <2> DEFINE cfg == [proxy EXCEPT !.registered = garbage]
  <2>2. cfg \in [rid : 0..Len(requests), registered : BOOLEAN, auth_failures : Nat]
    BY <1>1 DEF AccountTypes
  <2>3. Registers(cfg)
    BY <2>1
  <2> HIDE DEF cfg
  <2>4. /\ Len(requests') = Len(requests) + 1
        /\ proxy'.rid = Len(requests) + 1
        /\ requests'[Len(requests) + 1].kind = "register"
        /\ \A k \in 1..Len(requests) : requests'[k] = requests[k]
    BY <1>1, <2>2, <2>3, RegistersTypes
  <2>5. UNCHANGED queue /\ proxy.rid = 0
    BY <1>2 DEF UserRegister
  <2>6. \A k \in 1..Len(queue) : ~IsAnswer(queue[k])
    <3>1. ASSUME NEW k \in 1..Len(queue), IsAnswer(queue[k]) PROVE FALSE
      <4>1. queue[k].rid = 0 /\ queue[k].rid \in 1..Len(requests)
        BY <2>5, <3>1, QueueShape DEF ProxyInv
      <4> QED BY <4>1, QueueShape
    <3> QED BY <3>1
  <2>7. \A k \in 1..Len(queue') : ~IsAnswer(queue[k])'
    BY <2>5, <2>6 DEF IsAnswer
  <2>8. \A i \in 1..Len(requests') : i \in 1..Len(requests) \/ i = Len(requests) + 1
    BY <2>4, QueueShape
  <2>9. \A i \in 1..Len(requests) :
          requests[i].kind = "register" => requests[i].state = "failed"
    BY <2>5 DEF ProxyInv
  <2>10. /\ \A i \in 1..Len(requests') :
              requests'[i].kind = "register" =>
                i = proxy'.rid \/ requests'[i].state = "failed"
         /\ proxy'.rid # 0 => requests'[proxy'.rid].kind = "register"
    BY <2>4, <2>8, <2>9
  <2> QED BY <2>7, <2>10 DEF ProxyInv
<1>3. CASE UserInvites
  <2>1. requests' = Append(requests, NewRequest("invite")) /\ UNCHANGED <<proxy, queue>>
    BY <1>3 DEF UserInvites
  <2>2. /\ Len(requests') = Len(requests) + 1
        /\ requests'[Len(requests) + 1].kind = "invite"
        /\ \A k \in 1..Len(requests) : requests'[k] = requests[k]
    BY <2>1, QueueShape, NewRequestTypes, AppendSeq
  <2>3. \A i \in 1..Len(requests') : i \in 1..Len(requests) \/ i = Len(requests) + 1
    BY <2>2, QueueShape
  <2>4. \A k \in 1..Len(queue) : IsAnswer(queue[k]) =>
          proxy.rid \in 1..Len(requests)
    BY QueueShape DEF ProxyInv
  <2>5. proxy.rid # 0 => proxy.rid \in 1..Len(requests)
    BY QueueShape
  <2> QED BY <2>1, <2>2, <2>3, <2>4, <2>5 DEF ProxyInv, IsAnswer, Outcome
<1>4. CASE Timer
  BY <1>4 DEF Timer, account, ProxyInv, IsAnswer, Outcome
<1> QED BY <1>2, <1>3, <1>4

LEMMA ProxyDrained ==
  ASSUME TypeInv, Running, ProxyInv, DrainDone
  PROVE  ProxyInv'
<1>1. AccountTypes /\ requests \in Seq(Request)
  BY DEF TypeInv, AccountTypes
<1>2. queue = << >> /\ queue' = << >> /\ proxy' = proxy
  BY DEF DrainDone
<1>3. \/ UNCHANGED requests
      \/ requests' = Retried
      \/ proxy.rid \in 1..Len(requests) /\ requests' = Resent(proxy.rid, FALSE)
  <2>1. CASE UNCHANGED requests
    BY <2>1
  <2>2. CASE AutomaticAction
    <3>1. requests' = Retried \/ (proxy.rid # 0 /\ requests' = Resent(proxy.rid, FALSE))
      BY <2>2 DEF AutomaticAction
    <3>2. proxy.rid # 0 => proxy.rid \in 1..Len(requests)
      BY QueueShape
    <3> QED BY <3>1, <3>2
  <2>3. UNCHANGED requests \/ AutomaticAction
    BY DEF DrainDone, StackActs
  <2> QED BY <2>1, <2>2, <2>3
<1>4. \A i \in 1..Len(requests) :
        requests[i].kind = "register" => i = proxy.rid \/ requests[i].state = "failed"
  BY DEF ProxyInv
<1>5. /\ Len(requests') = Len(requests)
      /\ \A i \in 1..Len(requests) :
           /\ requests'[i].kind = requests[i].kind
           /\ i = proxy.rid \/ requests[i].state # "failed" \/ requests'[i] = requests[i]
  <2>1. CASE requests' = Retried
    BY <1>1, <2>1, RetriedTypes
  <2>2. CASE proxy.rid \in 1..Len(requests) /\ requests' = Resent(proxy.rid, FALSE)
    <3>1. /\ Len(Resent(proxy.rid, FALSE)) = Len(requests)
          /\ \A k \in 1..Len(requests) :
               /\ Resent(proxy.rid, FALSE)[k].kind = requests[k].kind
               /\ k # proxy.rid => Resent(proxy.rid, FALSE)[k] = requests[k]
      BY <1>1, <2>2, ResentTypes
    <3> QED BY <2>2, <3>1
  <2>3. CASE UNCHANGED requests
    BY <2>3
  <2> QED BY <1>3, <2>1, <2>2, <2>3
<1>6. proxy.rid # 0 => requests'[proxy.rid].kind = "register"
  BY <1>5, QueueShape DEF ProxyInv
<1>7. \A i \in 1..Len(requests') :
        requests'[i].kind = "register" => i = proxy'.rid \/ requests'[i].state = "failed"
  BY <1>2, <1>4, <1>5
<1>8. 1..Len(queue') = {}
  BY <1>2
<1> QED BY <1>2, <1>6, <1>7, <1>8 DEF ProxyInv

\* Only the registration that an answer is awaited for gets one.
LEMMA ProxyRegistrar ==
  ASSUME TypeInv, Running, ProxyInv, NEW i \in DOMAIN requests,
         Accepts(i) \/ Challenges(i) \/ Fails(i)
  PROVE  ProxyInv'
<1>1. /\ AccountTypes /\ requests \in Seq(Request) /\ i \in 1..Len(requests)
      /\ requests[i].state = "sent" /\ UNCHANGED proxy
  BY DEF TypeInv, AccountTypes, Accepts, Challenges, Fails
<1> DEFINE state == IF Accepts(i) THEN "accepted"
                    ELSE IF Challenges(i) THEN "challenged" ELSE "failed"
<1>2. /\ Len(requests') = Len(requests)
      /\ requests'[i].kind = requests[i].kind /\ requests'[i].state = state
      /\ \A k \in 1..Len(requests) : k # i => requests'[k] = requests[k]
  <2>1. CASE Accepts(i)
    BY <1>1, <2>1, EndsTypes DEF Accepts
  <2>2. CASE ~Accepts(i) /\ Challenges(i)
    BY <1>1, <2>2, EndsTypes DEF Challenges
  <2>3. CASE ~Accepts(i) /\ ~Challenges(i) /\ Fails(i)
    BY <1>1, <2>3, FailsTypes
  <2> QED BY <2>1, <2>2, <2>3
<1>3. \E e : /\ Signals(e)
             /\ IF requests[i].kind = "register"
                THEN IsAnswer(e) /\ e.rid = i /\ Outcome(e) = state
                ELSE ~IsAnswer(e)
  <2>1. CASE Accepts(i)
    <3>1. CASE requests[i].kind = "register"
      <4>1. PICK moved \in BOOLEAN :
              Signals([type |-> "reg_ok", rid |-> i, carries |-> requests[i].carries,
                       unregisters |-> requests[i].unregisters, moved |-> moved])
        BY <2>1, <3>1 DEF Accepts
      <4> QED BY <2>1, <3>1, <4>1 DEF IsAnswer, Outcome
    <3>2. CASE requests[i].kind # "register"
      <4>1. Signals([type |-> "answered", carries |-> requests[i].carries])
        BY <2>1, <3>2 DEF Accepts
      <4> QED BY <3>2, <4>1 DEF IsAnswer
    <3> QED BY <3>1, <3>2
  <2>2. CASE ~Accepts(i) /\ Challenges(i)
    <3>1. CASE requests[i].kind = "register"
      <4>1. Signals([type |-> "reg_fail", rid |-> i, status |-> "401",
                     realms |-> passwords.protects, moved |-> FALSE])
        BY <2>2, <3>1 DEF Challenges
      <4> QED BY <2>2, <3>1, <4>1 DEF IsAnswer, Outcome
    <3>2. CASE requests[i].kind # "register"
      <4>1. Signals([type |-> "challenged", realms |-> passwords.protects])
        BY <2>2, <3>2 DEF Challenges
      <4> QED BY <3>2, <4>1 DEF IsAnswer
    <3> QED BY <3>1, <3>2
  <2>3. CASE ~Accepts(i) /\ ~Challenges(i) /\ Fails(i)
    <3>1. PICK status \in {"403", "other"}, moved \in BOOLEAN :
            Signals([type |-> "reg_fail", rid |-> i, status |-> status,
                     realms |-> {}, moved |-> moved])
      BY <2>3 DEF Fails
    <3>2. requests[i].kind = "register"
      BY <2>3 DEF Fails
    <3> QED BY <2>3, <3>1, <3>2 DEF IsAnswer, Outcome
  <2> QED BY <2>1, <2>2, <2>3
<1> HIDE DEF state
<1>4. PICK e : /\ Signals(e)
               /\ IF requests[i].kind = "register"
                  THEN IsAnswer(e) /\ e.rid = i /\ Outcome(e) = state
                  ELSE ~IsAnswer(e)
  BY <1>3
<1>5. /\ Len(queue') = Len(queue) + 1 /\ Len(queue) \in Nat
      /\ queue'[Len(queue) + 1] = e
      /\ \A k \in 1..Len(queue) : queue'[k] = queue[k]
      /\ \A k \in 1..Len(queue') : k \in 1..Len(queue) \/ k = Len(queue) + 1
  BY <1>4, QueueShape DEF Signals
<1>6. /\ \A k \in 1..Len(requests') :
           requests'[k].kind = "register" => k = proxy'.rid \/ requests'[k].state = "failed"
      /\ proxy'.rid # 0 => requests'[proxy'.rid].kind = "register"
  <2>1. /\ \A k \in 1..Len(requests) :
             requests[k].kind = "register" => k = proxy.rid \/ requests[k].state = "failed"
        /\ proxy.rid # 0 => requests[proxy.rid].kind = "register"
        /\ proxy.rid \in 0..Len(requests) /\ Len(requests) \in Nat
    BY QueueShape DEF ProxyInv
  <2>2. /\ \A k \in 1..Len(requests) : requests'[k].kind = requests[k].kind
        /\ \A k \in 1..Len(requests) : requests[k].state = "failed" =>
             requests'[k] = requests[k]
    BY <1>1, <1>2
  <2>3. proxy.rid # 0 => proxy.rid \in 1..Len(requests)
    BY <2>1
  <2> QED BY <1>1, <1>2, <2>1, <2>2, <2>3
<1>7. CASE requests[i].kind = "register"
  <2>1. i = proxy.rid
    BY <1>1, <1>7 DEF ProxyInv
  <2>2. \A k \in 1..Len(queue) : ~IsAnswer(queue[k])
    BY <1>1, <2>1 DEF ProxyInv, Outcome
  <2>3. \A k \in 1..Len(queue') : IsAnswer(queue'[k]) => k = Len(queue) + 1
    BY <1>5, <2>2
  <2>4. \A k \in 1..Len(queue') : IsAnswer(queue[k])' =>
          /\ queue'[k].rid = proxy'.rid
          /\ requests'[proxy'.rid].state = Outcome(queue[k])'
          /\ k = Len(queue) + 1
    BY <1>1, <1>2, <1>4, <1>5, <1>7, <2>1, <2>3 DEF IsAnswer, Outcome
  <2> QED BY <1>6, <2>4 DEF ProxyInv
<1>8. CASE requests[i].kind # "register"
  <2>1. \A k \in 1..Len(queue') : IsAnswer(queue'[k]) =>
          k \in 1..Len(queue) /\ queue'[k] = queue[k]
    BY <1>4, <1>5, <1>8
  <2>2. \A k \in 1..Len(queue) : IsAnswer(queue[k]) =>
          /\ queue[k].rid = proxy.rid
          /\ requests'[proxy.rid].state = Outcome(queue[k])
    <3>1. ASSUME NEW k \in 1..Len(queue), IsAnswer(queue[k])
          PROVE  /\ queue[k].rid = proxy.rid
                 /\ requests'[proxy.rid].state = Outcome(queue[k])
      <4>1. queue[k].rid = proxy.rid /\ proxy.rid \in 1..Len(requests)
            /\ requests[proxy.rid].state = Outcome(queue[k])
            /\ requests[proxy.rid].kind = "register"
        BY <3>1, QueueShape DEF ProxyInv
      <4> QED BY <1>2, <1>8, <4>1
    <3> QED BY <3>1
  <2>3. \A k, j \in 1..Len(queue) : IsAnswer(queue[k]) /\ IsAnswer(queue[j]) => j = k
    BY DEF ProxyInv
  <2>4. \A k \in 1..Len(queue') : IsAnswer(queue[k])' =>
          /\ queue'[k].rid = proxy'.rid
          /\ requests'[proxy'.rid].state = Outcome(queue[k])'
    BY <1>1, <2>1, <2>2 DEF IsAnswer, Outcome
  <2>5. \A k, j \in 1..Len(queue') : IsAnswer(queue[k])' /\ IsAnswer(queue[j])' => j = k
    BY <2>1, <2>3 DEF IsAnswer
  <2> QED BY <1>6, <2>4, <2>5 DEF ProxyInv
<1> QED BY <1>7, <1>8

LEMMA ProxyStep == TypeInv /\ ProxyInv /\ [Next]_vars => ProxyInv'
<1> SUFFICES ASSUME TypeInv, ProxyInv, [Next]_vars, Running' PROVE ProxyInv'
  BY DEF ProxyInv
<1>1. CASE UNCHANGED vars
  BY <1>1 DEF vars, account, turn, ProxyInv, IsAnswer, Outcome, Running
<1>2. CASE Phone
  <2>1. CASE Handle
    <3>1. Running
      BY <2>1 DEF Handle, Running
    <3> QED BY <2>1, <3>1, ProxyHandles
  <2>2. CASE DrainDone
    <3>1. Running
      BY <2>2 DEF DrainDone, Running
    <3> QED BY <2>2, <3>1, ProxyDrained
  <2>3. CASE QuitDrainDone \/ Destroy
    BY <2>3 DEF QuitDrainDone, Destroy, Running
  <2> QED BY <1>2, <2>1, <2>2, <2>3 DEF Phone
<1>3. CASE AccountSteps
  <2>1. CASE UserRegister \/ UserInvites \/ Timer
    <3>1. Running
      BY <2>1 DEF UserRegister, UserInvites, Timer, Running
    <3> QED BY <2>1, <3>1, ProxyUser
  <2>2. CASE Quit
    BY <2>2 DEF Quit, Running
  <2>3. ASSUME NEW i \in DOMAIN requests, Accepts(i) \/ Challenges(i) \/ Fails(i)
        PROVE  ProxyInv'
    <3>1. Running
      BY <2>3 DEF Accepts, Challenges, Fails, Running, turn
    <3> QED BY <2>3, <3>1, ProxyRegistrar
  <2> QED BY <1>3, <2>1, <2>2, <2>3 DEF AccountSteps
<1>4. CASE FriendSteps
  <2>1. UNCHANGED <<proxy, requests, pc>>
    BY <1>4 DEF FriendSteps, NotifyAllFriends, FriendSubscribes, FriendUnsubscribes,
                FriendAnswers, FriendRefuses, FriendNotifies, FriendEvent, account, turn
  <2>2. Running
    BY <2>1 DEF Running
  <2>3. UNCHANGED queue \/ \E e : Signals(e) /\ ~IsAnswer(e)
    <3>1. CASE NotifyAllFriends
      BY <3>1 DEF NotifyAllFriends
    <3>2. CASE FriendSubscribes
      BY <3>2 DEF FriendSubscribes, IsAnswer
    <3>3. ASSUME NEW i \in DOMAIN watches, FriendUnsubscribes(i)
          PROVE  \E e : Signals(e) /\ ~IsAnswer(e)
      BY <3>3 DEF FriendUnsubscribes, IsAnswer
    <3>4. ASSUME NEW i \in DOMAIN subs, FriendAnswers(i)
          PROVE  \E e : Signals(e) /\ ~IsAnswer(e)
      BY <3>4 DEF FriendAnswers, IsAnswer
    <3>5. ASSUME NEW i \in DOMAIN subs, FriendRefuses(i) PROVE UNCHANGED queue
      BY <3>5 DEF FriendRefuses
    <3>6. ASSUME NEW i \in DOMAIN subs, FriendNotifies(i)
          PROVE  \E e : Signals(e) /\ ~IsAnswer(e)
      BY <3>6 DEF FriendNotifies, IsAnswer
    <3> QED BY <1>4, <3>1, <3>2, <3>3, <3>4, <3>5, <3>6 DEF FriendSteps
  <2> QED BY <2>1, <2>2, <2>3, ProxyStays
<1> QED BY <1>1, <1>2, <1>3, <1>4 DEF Next

\* Until the program ends, the search of linphone_registration_faillure and
\* linphone_registration_success finds the proxy config that a REGISTER was sent
\* for, whatever the registrar answers and the network loses.
THEOREM AnswersAreFound == Spec => []AnswersFindProxy
<1>1. Init => ProxyInv
  <2>1. Init => queue = << >> /\ requests = << >> /\ proxy.rid = 0
    BY DEF Init, AccountInit
  <2> QED BY <2>1 DEF ProxyInv
<1>2. TypeInv /\ ProxyInv => AnswersFindProxy
  BY QueueShape DEF ProxyInv, IsAnswer, AnswersFindProxy
<1> QED BY <1>1, <1>2, ProxyStep, TypesInit, TypesStep, PTL DEF Spec

----------------------------------------------------------------------------
(* The subscriptions. *)

\* The queue q holds the event e behind its k-th.
After(q, k, e) == \E j \in k + 1..Len(q) : q[j] = e

Closed(did) == [type |-> "in_closed", did |-> did]

Ended(sid) == [type |-> "notify", sid |-> sid, terminated |-> TRUE]

WatchedAfter(k, did) == watches[did].open \/ After(queue, k, Closed(did))

KnownAfter(k, sid) == subs[sid].open \/ subs[sid].unheard \/ After(queue, k, Ended(sid))

\* What the friend's record and each event that will enter it name is open, or
\* the queue tells of its end behind the event.
WatchInv ==
  /\ friend.nid = friend.in_did
  /\ friend.in_did # 0 => WatchedAfter(0, friend.in_did)
  /\ \A k \in 1..Len(queue) :
       queue[k].type = "in_sub" => WatchedAfter(k, queue[k].did)

SubscriptionInv ==
  /\ friend.sid = friend.out_did
  /\ pc # "off" =>
       /\ \A i \in 1..Len(subs) : ~subs[i].answered => subs[i].open \/ subs[i].unheard
       /\ friend.out_did # 0 => KnownAfter(0, friend.out_did)
       /\ \A k \in 1..Len(queue) :
            queue[k].type = "sub_answered" => KnownAfter(k, queue[k].sid)

LEMMA AfterTail ==
  ASSUME NEW S, NEW q \in Seq(S), q # << >>, NEW k \in Nat, NEW e
  PROVE  /\ After(q, k + 1, e) => After(Tail(q), k, e)
         /\ After(q, 0, e) /\ Head(q) # e => After(Tail(q), 0, e)
<1>1. ASSUME NEW n \in Nat, NEW j \in n + 2..Len(q), q[j] = e PROVE After(Tail(q), n, e)
  <2>1. j - 1 \in n + 1..Len(Tail(q)) /\ Tail(q)[j - 1] = e
    BY <1>1
  <2> QED BY <2>1 DEF After
<1>2. After(q, k + 1, e) => After(Tail(q), k, e)
  <2>1. ASSUME After(q, k + 1, e) PROVE \E j \in k + 2..Len(q) : q[j] = e
    <3>1. PICK j \in (k + 1) + 1..Len(q) : q[j] = e
      BY <2>1 DEF After
    <3>2. j \in k + 2..Len(q)
      BY <3>1
    <3> QED BY <3>1, <3>2
  <2> QED BY <1>1, <2>1
<1>3. After(q, 0, e) /\ Head(q) # e => \E j \in 2..Len(q) : q[j] = e
  BY DEF After
<1>4. (\E j \in 2..Len(q) : q[j] = e) => After(Tail(q), 0, e)
  BY <1>1
<1> QED BY <1>2, <1>3, <1>4

LEMMA AfterAppend ==
  ASSUME NEW S, NEW q \in Seq(S), NEW k \in 0..Len(q), NEW e, NEW x
  PROVE  /\ After(q, k, x) => After(Append(q, e), k, x)
         /\ After(Append(q, e), k, e)
<1>1. /\ Len(Append(q, e)) = Len(q) + 1 /\ Append(q, e)[Len(q) + 1] = e
      /\ \A j \in 1..Len(q) : Append(q, e)[j] = q[j]
  OBVIOUS
<1>2. \A j \in k + 1..Len(q) : j \in k + 1..Len(Append(q, e)) /\ j \in 1..Len(q)
  BY <1>1
<1>3. Len(q) + 1 \in k + 1..Len(Append(q, e))
  BY <1>1
<1> QED BY <1>1, <1>2, <1>3 DEF After

LEMMA DialogShape ==
  ASSUME TypeInv
  PROVE  /\ friend.in_did \in 0..Len(watches) /\ friend.out_did \in 0..Len(subs)
         /\ watches \in Seq(Watch) /\ subs \in Seq(Subscription)
         /\ \A k \in 1..Len(queue) :
              /\ queue[k].type = "in_sub" => queue[k].did \in 1..Len(watches)
              /\ queue[k].type = "sub_answered" => queue[k].sid \in 1..Len(subs)
<1>1. /\ friend.in_did \in 0..Len(watches) /\ friend.out_did \in 0..Len(subs)
      /\ watches \in Seq(Watch) /\ subs \in Seq(Subscription)
  BY DEF TypeInv, PresenceTypes, Friends
<1>2. ASSUME NEW k \in 1..Len(queue)
      PROVE  /\ queue[k].type = "in_sub" => queue[k].did \in 1..Len(watches)
             /\ queue[k].type = "sub_answered" => queue[k].sid \in 1..Len(subs)
  <2>1. queue[k] \in Events(Len(requests), Len(watches), Len(subs))
    BY QueueShape
  <2> QED BY <2>1, Lengths, EventFields
<1> QED BY <1>1, <1>2

\* An event is handled: what it names stands for what was behind it.
LEMMA WatchTaken ==
  ASSUME TypeInv, WatchInv, queue # << >>, queue' = Tail(queue),
         \A d \in 1..Len(watches) : watches'[d].open = watches[d].open,
         friend'.nid = friend'.in_did,
         friend'.in_did # 0 =>
           \/ friend'.in_did = friend.in_did /\ Head(queue) # Closed(friend.in_did)
           \/ Head(queue).type = "in_sub" /\ Head(queue).did = friend'.in_did
  PROVE  WatchInv'
<1>1. /\ queue \in Seq(Events(Len(requests), Len(watches), Len(subs)))
      /\ Len(queue') = Len(queue) - 1 /\ Len(queue) \in Nat
      /\ Head(queue) = queue[1] /\ 1 \in 1..Len(queue)
      /\ \A k \in 1..Len(queue') : queue'[k] = queue[k + 1] /\ k + 1 \in 1..Len(queue)
                                  /\ k \in Nat
  BY QueueShape, TailSeq
<1>2. ASSUME NEW k \in 1..Len(queue'), queue'[k].type = "in_sub"
      PROVE  WatchedAfter(k, queue[k].did)'
  <2>1. WatchedAfter(k + 1, queue'[k].did) /\ queue'[k].did \in 1..Len(watches)
    BY <1>1, <1>2, DialogShape DEF WatchInv
  <2>2. watches[queue'[k].did].open \/ After(queue', k, Closed(queue'[k].did))
    BY <1>1, <2>1, AfterTail DEF WatchedAfter
  <2> QED BY <2>1, <2>2 DEF WatchedAfter, After, Closed
<1>3. ASSUME friend'.in_did # 0 PROVE WatchedAfter(0, friend.in_did)'
  <2>1. friend'.in_did \in 1..Len(watches)
        /\ (watches[friend'.in_did].open \/ After(queue', 0, Closed(friend'.in_did)))
    <3>1. CASE friend'.in_did = friend.in_did /\ Head(queue) # Closed(friend.in_did)
      <4>1. friend.in_did \in 1..Len(watches) /\ WatchedAfter(0, friend.in_did)
        BY <1>3, <3>1, DialogShape, Lengths DEF WatchInv
      <4> QED BY <1>1, <3>1, <4>1, AfterTail DEF WatchedAfter
    <3>2. CASE Head(queue).type = "in_sub" /\ Head(queue).did = friend'.in_did
      <4>1. WatchedAfter(1, friend'.in_did) /\ friend'.in_did \in 1..Len(watches)
        BY <1>1, <3>2, DialogShape DEF WatchInv
      <4>2. After(queue, 0 + 1, Closed(friend'.in_did)) =>
              After(Tail(queue), 0, Closed(friend'.in_did))
        BY <1>1, AfterTail
      <4> QED BY <4>1, <4>2 DEF WatchedAfter
    <3> QED BY <1>3, <3>1, <3>2
  <2> QED BY <2>1 DEF WatchedAfter, After, Closed
<1> QED BY <1>2, <1>3 DEF WatchInv

\* A step of another kind: a subscription ends with an event.
LEMMA WatchGrows ==
  ASSUME TypeInv, WatchInv, UNCHANGED friend,
         \/ UNCHANGED queue
         \/ \E e : Signals(e) /\ (e.type = "in_sub" => watches'[e.did].open),
         \A d \in 1..Len(watches) :
           watches[d].open => watches'[d].open \/ Signals(Closed(d))
  PROVE  WatchInv'
<1>1. queue \in Seq(Events(Len(requests), Len(watches), Len(subs))) /\ Len(queue) \in Nat
  BY QueueShape
<1>2. ASSUME NEW k \in 0..Len(queue), NEW d \in 1..Len(watches), WatchedAfter(k, d)
      PROVE  watches'[d].open \/ After(queue', k, Closed(d))
  <2>1. CASE Signals(Closed(d))
    BY <1>1, <2>1, AfterAppend DEF Signals
  <2>2. CASE watches'[d].open
    BY <2>2
  <2>3. CASE After(queue, k, Closed(d))
    <3>1. CASE UNCHANGED queue
      BY <2>3, <3>1
    <3>2. ASSUME NEW e, Signals(e) PROVE After(queue', k, Closed(d))
      BY <1>1, <2>3, <3>2, AfterAppend DEF Signals
    <3> QED BY <3>1, <3>2
  <2> QED BY <1>2, <2>1, <2>2, <2>3 DEF WatchedAfter
<1>3. friend'.in_did # 0 => WatchedAfter(0, friend.in_did)'
  <2>1. friend.in_did # 0 =>
          friend.in_did \in 1..Len(watches) /\ WatchedAfter(0, friend.in_did)
    BY DialogShape, Lengths DEF WatchInv
  <2> QED BY <1>1, <1>2, <2>1 DEF WatchedAfter, After, Closed
<1>4. ASSUME NEW k \in 1..Len(queue'), queue'[k].type = "in_sub"
      PROVE  WatchedAfter(k, queue[k].did)'
  <2>1. CASE k \in 1..Len(queue) /\ queue'[k] = queue[k]
    <3>1. WatchedAfter(k, queue[k].did) /\ queue[k].did \in 1..Len(watches)
          /\ k \in 0..Len(queue)
      BY <1>1, <1>4, <2>1, DialogShape DEF WatchInv
    <3>2. watches'[queue[k].did].open \/ After(queue', k, Closed(queue[k].did))
      BY <1>2, <3>1
    <3> QED BY <2>1, <3>2 DEF WatchedAfter, After, Closed
  <2>2. CASE ~(k \in 1..Len(queue) /\ queue'[k] = queue[k])
    <3>1. PICK e : Signals(e) /\ (e.type = "in_sub" => watches'[e.did].open)
      BY <1>4, <2>2
    <3>2. queue'[k] = e
      BY <1>1, <1>4, <2>2, <3>1 DEF Signals
    <3> QED BY <1>4, <3>1, <3>2 DEF WatchedAfter
  <2> QED BY <2>1, <2>2
<1> QED BY <1>3, <1>4 DEF WatchInv

LEMMA SubscriptionTaken ==
  ASSUME TypeInv, SubscriptionInv, pc # "off", queue # << >>, queue' = Tail(queue),
         \A i \in 1..Len(subs) : subs'[i] = subs[i],
         Len(subs') \in Nat, Len(subs') >= Len(subs),
         \A i \in Len(subs) + 1..Len(subs') : subs'[i].open,
         friend'.sid = friend'.out_did,
         friend'.out_did # 0 =>
           \/ friend'.out_did = friend.out_did /\ Head(queue) # Ended(friend.out_did)
           \/ Head(queue).type = "sub_answered" /\ Head(queue).sid = friend'.out_did
  PROVE  SubscriptionInv'
<1>1. /\ queue \in Seq(Events(Len(requests), Len(watches), Len(subs)))
      /\ Len(queue') = Len(queue) - 1 /\ Len(queue) \in Nat
      /\ Head(queue) = queue[1] /\ 1 \in 1..Len(queue)
      /\ \A k \in 1..Len(queue') : queue'[k] = queue[k + 1] /\ k + 1 \in 1..Len(queue)
                                  /\ k \in Nat
  BY QueueShape, TailSeq
<1>2. ASSUME NEW k \in 1..Len(queue'), queue'[k].type = "sub_answered"
      PROVE  KnownAfter(k, queue[k].sid)'
  <2>1. KnownAfter(k + 1, queue'[k].sid) /\ queue'[k].sid \in 1..Len(subs)
    BY <1>1, <1>2, DialogShape DEF SubscriptionInv
  <2>2. \/ subs[queue'[k].sid].open \/ subs[queue'[k].sid].unheard
        \/ After(queue', k, Ended(queue'[k].sid))
    BY <1>1, <2>1, AfterTail DEF KnownAfter
  <2> QED BY <2>1, <2>2 DEF KnownAfter, After, Ended
<1>3. ASSUME friend'.out_did # 0 PROVE KnownAfter(0, friend.out_did)'
  <2> DEFINE sid == friend'.out_did
  <2>1. sid \in 1..Len(subs)
        /\ (subs[sid].open \/ subs[sid].unheard \/ After(queue', 0, Ended(sid)))
    <3>1. CASE sid = friend.out_did /\ Head(queue) # Ended(friend.out_did)
      <4>1. friend.out_did \in 1..Len(subs) /\ KnownAfter(0, friend.out_did)
        BY <1>3, <3>1, DialogShape, Lengths DEF SubscriptionInv
      <4> QED BY <1>1, <3>1, <4>1, AfterTail DEF KnownAfter
    <3>2. CASE Head(queue).type = "sub_answered" /\ Head(queue).sid = sid
      <4>1. KnownAfter(1, sid) /\ sid \in 1..Len(subs)
        BY <1>1, <3>2, DialogShape DEF SubscriptionInv
      <4>2. After(queue, 0 + 1, Ended(sid)) => After(Tail(queue), 0, Ended(sid))
        BY <1>1, AfterTail
      <4> QED BY <4>1, <4>2 DEF KnownAfter
    <3> QED BY <1>3, <3>1, <3>2
  <2> QED BY <2>1 DEF KnownAfter, After, Ended
<1>4. \A i \in 1..Len(subs') : ~subs'[i].answered => subs'[i].open \/ subs'[i].unheard
  <2>1. \A i \in 1..Len(subs') : i \in 1..Len(subs) \/ i \in Len(subs) + 1..Len(subs')
    BY Lengths
  <2>2. \A i \in 1..Len(subs) : ~subs[i].answered => subs[i].open \/ subs[i].unheard
    BY DEF SubscriptionInv
  <2> QED BY <2>1, <2>2
<1> QED BY <1>2, <1>3, <1>4 DEF SubscriptionInv

\* An answer that names a subscription the phone will hear the end of
Rightly(e) ==
  e.type = "sub_answered" => subs'[e.sid].open \/ subs'[e.sid].unheard

LEMMA SubscriptionGrows ==
  ASSUME TypeInv, SubscriptionInv, UNCHANGED friend, pc # "off",
         \/ UNCHANGED queue
         \/ \E e : Signals(e) /\ Rightly(e),
         \A i \in 1..Len(subs) : subs[i].open \/ subs[i].unheard =>
           subs'[i].open \/ subs'[i].unheard \/ Signals(Ended(i)),
         \A i \in 1..Len(subs') :
           ~subs'[i].answered => subs'[i].open \/ subs'[i].unheard
  PROVE  SubscriptionInv'
<1>1. queue \in Seq(Events(Len(requests), Len(watches), Len(subs))) /\ Len(queue) \in Nat
  BY QueueShape
<1>2. ASSUME NEW k \in 0..Len(queue), NEW i \in 1..Len(subs), KnownAfter(k, i)
      PROVE  subs'[i].open \/ subs'[i].unheard \/ After(queue', k, Ended(i))
  <2>1. CASE Signals(Ended(i))
    BY <1>1, <2>1, AfterAppend DEF Signals
  <2>2. CASE subs'[i].open \/ subs'[i].unheard
    BY <2>2
  <2>3. CASE After(queue, k, Ended(i))
    <3>1. CASE UNCHANGED queue
      BY <2>3, <3>1
    <3>2. ASSUME NEW e, Signals(e) PROVE After(queue', k, Ended(i))
      BY <1>1, <2>3, <3>2, AfterAppend DEF Signals
    <3> QED BY <3>1, <3>2
  <2> QED BY <1>2, <2>1, <2>2, <2>3 DEF KnownAfter
<1>3. friend'.out_did # 0 => KnownAfter(0, friend.out_did)'
  <2>1. friend.out_did # 0 =>
          friend.out_did \in 1..Len(subs) /\ KnownAfter(0, friend.out_did)
    BY DialogShape, Lengths DEF SubscriptionInv
  <2> QED BY <1>1, <1>2, <2>1 DEF KnownAfter, After, Ended
<1>4. ASSUME NEW k \in 1..Len(queue'), queue'[k].type = "sub_answered"
      PROVE  KnownAfter(k, queue[k].sid)'
  <2>1. CASE k \in 1..Len(queue) /\ queue'[k] = queue[k]
    <3>1. KnownAfter(k, queue[k].sid) /\ queue[k].sid \in 1..Len(subs)
          /\ k \in 0..Len(queue)
      BY <1>1, <1>4, <2>1, DialogShape DEF SubscriptionInv
    <3>2. \/ subs'[queue[k].sid].open \/ subs'[queue[k].sid].unheard
          \/ After(queue', k, Ended(queue[k].sid))
      BY <1>2, <3>1
    <3> QED BY <2>1, <3>2 DEF KnownAfter, After, Ended
  <2>2. CASE ~(k \in 1..Len(queue) /\ queue'[k] = queue[k])
    <3>1. PICK e : Signals(e) /\ Rightly(e)
      BY <1>4, <2>2
    <3>2. queue'[k] = e
      BY <1>1, <1>4, <2>2, <3>1 DEF Signals
    <3> QED BY <1>4, <3>1, <3>2 DEF Rightly, KnownAfter
  <2> QED BY <2>1, <2>2
<1> QED BY <1>3, <1>4 DEF SubscriptionInv

DialogInv == WatchInv /\ SubscriptionInv

LEMMA DialogHandles ==
  ASSUME TypeInv, DialogInv, Handle
  PROVE  DialogInv'
<1> DEFINE e == Head(queue)
<1>1. /\ queue # << >> /\ queue' = Tail(queue) /\ pc # "off"
      /\ WatchInv /\ SubscriptionInv
      /\ friend.nid = friend.in_did /\ friend.sid = friend.out_did
  BY DEF Handle, DialogInv, WatchInv, SubscriptionInv
<1>2. e \in Events(Len(requests), Len(watches), Len(subs))
      /\ PresenceTypes /\ friend \in Friends(Len(watches), Len(subs))
      /\ Len(watches) \in Nat /\ Len(subs) \in Nat
  BY <1>1, QueueShape, TailSeq, Lengths DEF TypeInv, PresenceTypes
<1> HIDE DEF e
<1>3. ASSUME UNCHANGED <<subs, watches>>, friend'.nid = friend'.in_did,
             friend'.sid = friend'.out_did,
             friend'.in_did # 0 =>
               \/ friend'.in_did = friend.in_did /\ e # Closed(friend.in_did)
               \/ e.type = "in_sub" /\ e.did = friend'.in_did,
             friend'.out_did # 0 =>
               \/ friend'.out_did = friend.out_did /\ e # Ended(friend.out_did)
               \/ e.type = "sub_answered" /\ e.sid = friend'.out_did
      PROVE  DialogInv'
  <2>1. WatchInv'
    BY <1>1, <1>3, WatchTaken DEF e
  <2>2. /\ Len(subs') \in Nat /\ Len(subs') >= Len(subs)
        /\ \A i \in 1..Len(subs) : subs'[i] = subs[i]
        /\ \A i \in Len(subs) + 1..Len(subs') : subs'[i].open
    BY <1>2, <1>3
  <2>3. SubscriptionInv'
    BY <1>1, <1>3, <2>2, SubscriptionTaken DEF e
  <2> QED BY <2>1, <2>3 DEF DialogInv
<1>4. CASE UNCHANGED presence /\ e.type \notin {"in_closed", "notify"}
  BY <1>1, <1>3, <1>4 DEF presence, Closed, Ended
<1>5. CASE ReadsNull(e) /\ UNCHANGED presence
  BY <1>4, <1>5 DEF ReadsNull
<1>6. CASE AccountEvent(e) /\ UNCHANGED presence
  BY <1>4, <1>6 DEF AccountEvent
<1>7. CASE e.type = "in_sub" /\ SubscriptionNew(e)
  <2> DEFINE f == [friend EXCEPT !.in_did = e.did, !.nid = e.did, !.pending = TRUE]
  <2>1. e.did \in 0..Len(watches) /\ 0 \in 0..Len(subs)
    BY <1>2, <1>7, EventFields
  <2>2. f \in Friends(Len(watches), Len(subs))
    BY <1>2, <2>1, FriendsUpdate, ZenonT(60)
  <2>3. Applies(f)
    BY <1>7 DEF SubscriptionNew
  <2>4. f.in_did = e.did /\ f.nid = e.did /\ f.sid = friend.sid
        /\ f.out_did = friend.out_did
    BY <1>2 DEF Friends
  <2> HIDE DEF f
  <2>5. /\ Len(subs') \in Nat /\ Len(subs') >= Len(subs)
        /\ \A k \in 1..Len(watches) : watches'[k].open = watches[k].open
        /\ \A k \in 1..Len(subs) : subs'[k] = subs[k]
        /\ \A k \in Len(subs) + 1..Len(subs') : subs'[k].open
        /\ friend' = [f EXCEPT !.pending = FALSE]
    BY <1>2, <2>2, <2>3, AppliesTypes
  <2>6. friend'.in_did = e.did /\ friend'.nid = e.did /\ friend'.sid = friend.sid
        /\ friend'.out_did = friend.out_did
    BY <2>2, <2>4, <2>5 DEF Friends
  <2>7. WatchInv'
    BY <1>1, <1>7, <2>5, <2>6, WatchTaken DEF e
  <2>8. e # Ended(friend.out_did)
    BY <1>7 DEF Ended
  <2>9. SubscriptionInv'
    BY <1>1, <2>5, <2>6, <2>8, SubscriptionTaken DEF e
  <2> QED BY <2>7, <2>9 DEF DialogInv
<1>8. CASE e.type = "in_closed" /\ SubscriptionClosed(e)
  <2>1. e # Ended(friend.out_did)
    BY <1>8 DEF Ended
  <2>2. CASE friend.nid = e.did
    <3>1. /\ UNCHANGED <<subs, watches>>
          /\ friend' = [friend EXCEPT !.in_did = 0, !.nid = 0, !.pending = TRUE]
      BY <1>8, <2>2 DEF SubscriptionClosed
    <3>2. friend'.in_did = 0 /\ friend'.nid = 0 /\ friend'.sid = friend.sid
          /\ friend'.out_did = friend.out_did
      BY <1>2, <3>1 DEF Friends
    <3> QED BY <1>1, <1>3, <2>1, <3>1, <3>2
  <2>3. CASE friend.nid # e.did
    <3>1. UNCHANGED <<friend, subs, watches>> /\ e # Closed(friend.in_did)
      BY <1>1, <1>8, <2>3 DEF SubscriptionClosed, Closed
    <3> QED BY <1>1, <1>3, <2>1, <3>1
  <2> QED BY <2>2, <2>3
<1>9. CASE e.type = "sub_answered" /\ SubscriptionAnswered(e)
  <2>1. /\ UNCHANGED <<subs, watches>>
        /\ friend' = [friend EXCEPT !.out_did = e.sid, !.sid = e.sid]
        /\ e # Closed(friend.in_did)
    BY <1>9 DEF SubscriptionAnswered, Closed
  <2>2. friend'.out_did = e.sid /\ friend'.sid = e.sid
        /\ friend'.in_did = friend.in_did /\ friend'.nid = friend.nid
    BY <1>2, <2>1 DEF Friends
  <2> QED BY <1>1, <1>3, <1>9, <2>1, <2>2
<1>10. CASE e.type = "notify" /\ NotifyRecv(e)
  <2>1. UNCHANGED <<subs, watches>> /\ e # Closed(friend.in_did)
    BY <1>10 DEF NotifyRecv, Closed
  <2>2. CASE friend.sid # e.sid
    <3>1. friend' = friend /\ e # Ended(friend.out_did)
      BY <1>1, <1>10, <2>2 DEF NotifyRecv, Ended
    <3> QED BY <1>1, <1>3, <2>1, <3>1
  <2>3. CASE friend.sid = e.sid /\ e.terminated
    <3>1. friend' = [friend EXCEPT !.status = "closed", !.sid = 0, !.out_did = 0]
      BY <1>10, <2>3 DEF NotifyRecv
    <3>2. friend'.sid = 0 /\ friend'.out_did = 0
          /\ friend'.in_did = friend.in_did /\ friend'.nid = friend.nid
      BY <1>2, <3>1 DEF Friends
    <3> QED BY <1>1, <1>3, <2>1, <3>2
  <2>4. CASE friend.sid = e.sid /\ ~e.terminated
    <3>1. friend' = [friend EXCEPT !.status = "online"] /\ e # Ended(friend.out_did)
      BY <1>10, <2>4 DEF NotifyRecv, Ended
    <3>2. friend'.sid = friend.sid /\ friend'.out_did = friend.out_did
          /\ friend'.in_did = friend.in_did /\ friend'.nid = friend.nid
      BY <1>2, <3>1 DEF Friends
    <3> QED BY <1>1, <1>3, <2>1, <3>1, <3>2
  <2> QED BY <2>2, <2>3, <2>4
<1> QED BY <1>5, <1>6, <1>7, <1>8, <1>9, <1>10 DEF Handle, PresenceEvent, e

LEMMA DialogOff ==
  ASSUME SubscriptionInv, UNCHANGED friend, pc' = "off"
  PROVE  SubscriptionInv'
  BY DEF SubscriptionInv

\* A step that leaves the subscriptions alone
LEMMA DialogQuiet ==
  ASSUME TypeInv, DialogInv, UNCHANGED presence, pc = "off" => pc' = "off",
         \/ UNCHANGED queue
         \/ \E e : Signals(e) /\ e.type \notin {"in_sub", "sub_answered"}
  PROVE  DialogInv'
<1>1. /\ UNCHANGED <<friend, subs, watches>> /\ WatchInv /\ SubscriptionInv
  BY DEF presence, DialogInv
<1>2. /\ \/ UNCHANGED queue
         \/ \E e : Signals(e) /\ (e.type = "in_sub" => watches'[e.did].open)
      /\ \/ UNCHANGED queue
         \/ \E e : Signals(e) /\ Rightly(e)
  BY DEF Rightly
<1>3. WatchInv'
  BY <1>1, <1>2, WatchGrows
<1>4. CASE pc = "off"
  BY <1>1, <1>3, <1>4, DialogOff DEF DialogInv
<1>5. CASE pc # "off"
  <2>1. \A i \in 1..Len(subs) : ~subs[i].answered => subs[i].open \/ subs[i].unheard
    BY <1>1, <1>5 DEF SubscriptionInv
  <2>2. SubscriptionInv'
    BY <1>1, <1>2, <1>5, <2>1, SubscriptionGrows
  <2> QED BY <1>3, <2>2 DEF DialogInv
<1> QED BY <1>4, <1>5

\* The stack renews a subscription, when the queue is empty.
LEMMA DialogRenews ==
  ASSUME TypeInv, DialogInv, NEW i \in DOMAIN subs, subs[i].open,
         subs' = [subs EXCEPT ![i].answered = FALSE],
         UNCHANGED <<queue, friend, watches>>, pc # "off"
  PROVE  DialogInv'
<1>1. WatchInv'
  BY WatchGrows DEF DialogInv
<1>2. /\ subs \in Seq(Subscription) /\ i \in 1..Len(subs) /\ subs[i] \in Subscription
      /\ SubscriptionInv
  BY DialogShape DEF DialogInv
<1> DEFINE new == [subs[i] EXCEPT !.answered = FALSE]
<1>3. new.open /\ new \in Subscription
  BY <1>2 DEF Subscription
<1>4. subs' = [subs EXCEPT ![i] = new]
  BY <1>2
<1> HIDE DEF new
<1>5. /\ Len(subs') = Len(subs) /\ subs'[i].open
      /\ \A k \in 1..Len(subs) : k # i => subs'[k] = subs[k]
  <2>1. PresenceTypes
    BY DEF TypeInv
  <2> QED BY <1>3, <1>4, <2>1, SubscriptionSet
<1>6. SubscriptionInv'
  <2>1. \A k \in 1..Len(subs) : ~subs[k].answered => subs[k].open \/ subs[k].unheard
    BY <1>2 DEF SubscriptionInv
  <2>2. /\ \A k \in 1..Len(subs) : subs[k].open \/ subs[k].unheard =>
             subs'[k].open \/ subs'[k].unheard
        /\ \A k \in 1..Len(subs') :
             ~subs'[k].answered => subs'[k].open \/ subs'[k].unheard
    BY <1>5, <2>1
  <2> QED BY <1>2, <2>2, SubscriptionGrows
<1> QED BY <1>1, <1>6 DEF DialogInv

LEMMA DialogDrained ==
  ASSUME TypeInv, DialogInv, DrainDone \/ QuitDrainDone
  PROVE  DialogInv'
<1>1. UNCHANGED <<queue, friend, watches>> /\ pc # "off"
  BY DEF DrainDone, QuitDrainDone
<1>2. CASE UNCHANGED subs
  BY <1>1, <1>2, DialogQuiet DEF presence
<1>3. ASSUME NEW i \in DOMAIN subs, subs[i].open,
             subs' = [subs EXCEPT ![i].answered = FALSE]
      PROVE  DialogInv'
  BY <1>1, <1>3, DialogRenews
<1> QED BY <1>2, <1>3 DEF DrainDone, QuitDrainDone, StackActs

LEMMA DialogTells ==
  ASSUME TypeInv, DialogInv, Destroy \/ NotifyAllFriends
  PROVE  DialogInv'
<1>1. /\ UNCHANGED <<queue, friend>> /\ WatchInv /\ SubscriptionInv
      /\ watches' \in {Told(friend.in_did, "terminated"), Told(friend.in_did, "active")}
  BY DEF Destroy, NotifyAllFriends, DialogInv
<1>2. \A d \in 1..Len(watches) : watches'[d].open = watches[d].open
  <2>1. friend.in_did \in 0..Len(watches) /\ {"terminated", "active"} \subseteq States
        /\ PresenceTypes
    BY DialogShape DEF TypeInv, States
  <2> QED BY <1>1, <2>1, ToldTypes
<1>3. WatchInv'
  BY <1>1, <1>2, WatchGrows
<1>4. CASE Destroy
  BY <1>1, <1>3, <1>4, DialogOff DEF Destroy, DialogInv
<1>5. CASE NotifyAllFriends
  <2>1. UNCHANGED <<subs, pc>> /\ pc # "off"
    BY <1>5 DEF NotifyAllFriends, turn
  <2>2. \A i \in 1..Len(subs) : ~subs[i].answered => subs[i].open \/ subs[i].unheard
    BY <1>1, <2>1 DEF SubscriptionInv
  <2>3. SubscriptionInv'
    BY <1>1, <2>1, <2>2, SubscriptionGrows
  <2> QED BY <1>3, <2>3 DEF DialogInv
<1> QED BY <1>4, <1>5

LEMMA DialogFriend ==
  ASSUME TypeInv, DialogInv, FriendActs
  PROVE  DialogInv'
<1>1. PresenceTypes /\ WatchInv /\ SubscriptionInv
      /\ Len(watches) \in Nat /\ Len(subs) \in Nat
  BY Lengths DEF TypeInv, DialogInv
<1>2. UNCHANGED <<friend, pc>>
  BY DEF FriendActs, FriendSubscribes, FriendUnsubscribes, FriendAnswers,
         FriendRefuses, FriendNotifies, FriendEvent, turn
<1> DEFINE Watches ==
             /\ \/ UNCHANGED queue
                \/ \E e : Signals(e) /\ (e.type = "in_sub" => watches'[e.did].open)
             /\ \A d \in 1..Len(watches) :
                  watches[d].open => watches'[d].open \/ Signals(Closed(d))
           Subscriptions ==
             /\ \/ UNCHANGED queue
                \/ \E e : Signals(e) /\ Rightly(e)
             /\ \A i \in 1..Len(subs) : subs[i].open \/ subs[i].unheard =>
                  subs'[i].open \/ subs'[i].unheard \/ Signals(Ended(i))
             /\ \A i \in 1..Len(subs') :
                  ~subs'[i].answered => subs'[i].open \/ subs'[i].unheard
<1>3. Watches
  <2>1. CASE FriendSubscribes
    <3>1. /\ watches'[Len(watches) + 1].open
          /\ \A k \in 1..Len(watches) : watches'[k] = watches[k]
          /\ Signals([type |-> "in_sub", did |-> Len(watches) + 1])
      BY <1>1, <2>1, FriendSubscribesTypes
    <3> QED BY <3>1
  <2>2. ASSUME NEW i \in DOMAIN watches, FriendUnsubscribes(i) PROVE Watches
    <3>1. /\ \A k \in 1..Len(watches) : k # i => watches'[k] = watches[k]
          /\ Signals(Closed(i)) /\ Closed(i).type = "in_closed"
      BY <1>1, <2>2, FriendUnsubscribesTypes DEF Closed
    <3> QED BY <3>1
  <2>3. ASSUME NEW i \in DOMAIN subs, FriendAnswers(i) PROVE Watches
    <3>1. UNCHANGED watches /\ Signals([type |-> "sub_answered", sid |-> i])
      BY <1>1, <2>3, FriendAnswersTypes
    <3> QED BY <3>1
  <2>4. ASSUME NEW i \in DOMAIN subs, FriendRefuses(i) PROVE Watches
    BY <2>4 DEF FriendRefuses
  <2>5. ASSUME NEW i \in DOMAIN subs, FriendNotifies(i) PROVE Watches
    BY <2>5 DEF FriendNotifies
  <2> QED BY <2>1, <2>2, <2>3, <2>4, <2>5 DEF FriendActs
<1>4. WatchInv'
  BY <1>1, <1>2, <1>3, WatchGrows
<1>5. CASE pc = "off"
  BY <1>1, <1>2, <1>4, <1>5, DialogOff DEF DialogInv
<1>6. CASE pc # "off"
  <2>1. \A i \in 1..Len(subs) : ~subs[i].answered => subs[i].open \/ subs[i].unheard
    BY <1>1, <1>6 DEF SubscriptionInv
  <2>2. Subscriptions
    <3>1. CASE FriendSubscribes
      <4>1. UNCHANGED subs /\ Signals([type |-> "in_sub", did |-> Len(watches) + 1])
        BY <1>1, <3>1, FriendSubscribesTypes
      <4>2. Rightly([type |-> "in_sub", did |-> Len(watches) + 1])
        BY DEF Rightly
      <4> QED BY <2>1, <4>1, <4>2
    <3>2. ASSUME NEW i \in DOMAIN watches, FriendUnsubscribes(i) PROVE Subscriptions
      <4>1. UNCHANGED subs /\ Signals([type |-> "in_closed", did |-> i])
        BY <1>1, <3>2, FriendUnsubscribesTypes
      <4>2. Rightly([type |-> "in_closed", did |-> i])
        BY DEF Rightly
      <4> QED BY <2>1, <4>1, <4>2
    <3>3. ASSUME NEW i \in DOMAIN subs, FriendAnswers(i) PROVE Subscriptions
      <4> DEFINE a == [type |-> "sub_answered", sid |-> i]
      <4>1. /\ Len(subs') = Len(subs) /\ i \in 1..Len(subs)
            /\ subs'[i].answered
            /\ subs'[i].open = subs[i].open /\ subs'[i].unheard = subs[i].unheard
            /\ \A k \in 1..Len(subs) : k # i => subs'[k] = subs[k]
            /\ ~subs[i].answered
            /\ Signals(a)
        BY <1>1, <3>3, FriendAnswersTypes
      <4>2. Rightly(a)
        BY <2>1, <4>1 DEF Rightly
      <4> HIDE DEF a
      <4> QED BY <2>1, <4>1, <4>2
    <3>4. ASSUME NEW i \in DOMAIN subs, FriendRefuses(i) PROVE Subscriptions
      <4>1. /\ Len(subs') = Len(subs) /\ i \in 1..Len(subs)
            /\ subs'[i].unheard /\ subs'[i].answered
            /\ \A k \in 1..Len(subs) : k # i => subs'[k] = subs[k]
            /\ UNCHANGED queue
        BY <1>1, <3>4, FriendRefusesTypes
      <4> QED BY <2>1, <4>1
    <3>5. ASSUME NEW i \in DOMAIN subs, FriendNotifies(i) PROVE Subscriptions
      <4>1. /\ Len(subs') = Len(subs) /\ i \in 1..Len(subs)
            /\ subs'[i].answered = subs[i].answered
            /\ subs[i].unheard => subs'[i].unheard
            /\ \A k \in 1..Len(subs) : k # i => subs'[k] = subs[k]
        BY <1>1, <3>5, FriendNotifiesTypes
      <4>2. PICK last \in BOOLEAN :
              /\ Signals([type |-> "notify", sid |-> i, terminated |-> last])
              /\ subs'[i].open = ~last
              /\ last /\ ~subs[i].answered => subs'[i].unheard
        BY <1>1, <3>5, FriendNotifiesTypes
      <4> DEFINE n == [type |-> "notify", sid |-> i, terminated |-> last]
      <4>3. Signals(n) /\ Rightly(n) /\ (last => n = Ended(i))
        BY <4>2 DEF Rightly, Ended
      <4> HIDE DEF n
      <4>4. subs'[i].open \/ Signals(Ended(i))
        BY <4>2, <4>3
      <4>5. ~subs[i].answered => subs'[i].open \/ subs'[i].unheard
        BY <4>2
      <4> QED BY <2>1, <4>1, <4>3, <4>4, <4>5
    <3> QED BY <3>1, <3>2, <3>3, <3>4, <3>5 DEF FriendActs
  <2>3. SubscriptionInv'
    BY <1>1, <1>2, <1>6, <2>2, SubscriptionGrows
  <2> QED BY <1>4, <2>3 DEF DialogInv
<1> QED BY <1>5, <1>6

LEMMA DialogStep == TypeInv /\ DialogInv /\ [Next]_vars => DialogInv'
<1> SUFFICES ASSUME TypeInv, DialogInv, [Next]_vars PROVE DialogInv'
  OBVIOUS
<1>1. CASE UNCHANGED vars
  BY <1>1, DialogQuiet DEF vars, turn
<1>2. CASE Phone
  BY <1>2, DialogHandles, DialogDrained, DialogTells DEF Phone
<1>3. CASE AccountSteps
  <2>1. CASE UserRegister \/ UserInvites \/ Timer \/ Quit
    <3>1. UNCHANGED <<presence, queue>> /\ (pc = "off" => pc' = "off")
      BY <1>3, <2>1 DEF AccountSteps, UserRegister, UserInvites, Timer, Quit, turn
    <3> QED BY <3>1, DialogQuiet
  <2>2. ASSUME NEW i \in DOMAIN requests, Accepts(i) \/ Challenges(i) \/ Fails(i)
        PROVE  DialogInv'
    <3>1. UNCHANGED <<presence, pc>>
      BY <1>3, <2>2 DEF AccountSteps, Accepts, Challenges, Fails, turn
    <3>2. \E e : Signals(e) /\ e.type \notin {"in_sub", "sub_answered"}
      <4>1. CASE Accepts(i)
        <5>1. CASE requests[i].kind = "register"
          <6>1. PICK moved \in BOOLEAN :
                  Signals([type |-> "reg_ok", rid |-> i, carries |-> requests[i].carries,
                           unregisters |-> requests[i].unregisters, moved |-> moved])
            BY <4>1, <5>1 DEF Accepts
          <6> QED BY <6>1
        <5>2. CASE requests[i].kind # "register"
          BY <4>1, <5>2 DEF Accepts
        <5> QED BY <5>1, <5>2
      <4>2. CASE Challenges(i)
        <5>1. CASE requests[i].kind = "register"
          BY <4>2, <5>1 DEF Challenges
        <5>2. CASE requests[i].kind # "register"
          BY <4>2, <5>2 DEF Challenges
        <5> QED BY <5>1, <5>2
      <4>3. CASE Fails(i)
        BY <4>3 DEF Fails
      <4> QED BY <2>2, <4>1, <4>2, <4>3
    <3> QED BY <3>1, <3>2, DialogQuiet
  <2> QED BY <1>3, <2>1, <2>2 DEF AccountSteps
<1>4. CASE FriendSteps
  <2>1. NotifyAllFriends \/ FriendActs
    BY <1>4 DEF FriendSteps, FriendActs
  <2> QED BY <2>1, DialogTells, DialogFriend
<1> QED BY <1>1, <1>2, <1>3, <1>4 DEF Next

\* The dialogues that linphone_subscription_new and linphone_subscription_answered
\* wrote into the friend are open, or the queue holds the event that will clear
\* them, or the phone is told of their end by an event it has no case for.
THEOREM DialogsAreKnown == Spec => []KnownDialogsAreOpen
<1>1. Init => DialogInv
  <2>1. Init => /\ queue = << >> /\ friend.sid = 0 /\ friend.out_did = 0
                /\ friend.nid = 0 /\ friend.in_did = 0
    BY DEF Init, AccountInit
  <2>2. Init => \A i \in 1..Len(subs) : subs[i].open
    BY DEF Init
  <2> QED BY <2>1, <2>2 DEF DialogInv, WatchInv, SubscriptionInv
<1>2. TypeInv /\ DialogInv => KnownDialogsAreOpen
  <2> SUFFICES ASSUME TypeInv, DialogInv PROVE KnownDialogsAreOpen
    OBVIOUS
  <2>1. ASSUME NEW e, After(queue, 0, e) PROVE Awaited(e)
    BY <2>1, QueueShape DEF After, Awaited
  <2>2. friend.in_did # 0 => watches[friend.in_did].open \/ Awaited(Closed(friend.in_did))
    BY <2>1 DEF DialogInv, WatchInv, WatchedAfter
  <2>3. friend.out_did # 0 /\ pc # "off" =>
          \/ subs[friend.out_did].open \/ subs[friend.out_did].unheard
          \/ Awaited(Ended(friend.out_did))
    BY <2>1 DEF DialogInv, SubscriptionInv, KnownAfter
  <2> QED BY <2>2, <2>3 DEF KnownDialogsAreOpen, Closed, Ended
<1> QED BY <1>1, <1>2, DialogStep, TypesInit, TypesStep, PTL DEF Spec

----------------------------------------------------------------------------
(* The goodbye.  The friend's SUBSCRIBEs are handled in their order, so    *)
(* that the last one that was told something is the dialogue the friend is *)
(* known by, unless that one was closed; and an answered subscription is   *)
(* the one we know, or its answer waits in the queue.                      *)

\* of the friend's subscriptions, i is the last that was told something
LastTold(i) ==
  /\ watches[i].open /\ watches[i].told # "none"
  /\ \A j \in 1..Len(watches) : j > i => watches[j].told = "none"

WatchOrder ==
  /\ \A k \in 1..Len(queue), j \in 1..Len(watches) :
       queue[k].type = "in_sub" /\ queue[k].did <= j => watches[j].told = "none"
  /\ \A k, l \in 1..Len(queue) :
       queue[k].type = "in_sub" /\ queue[l].type = "in_sub" /\ k < l =>
         queue[k].did < queue[l].did
  /\ \A k \in 1..Len(queue), j \in 1..Len(watches) :
       queue[k] = Closed(j) => ~watches[j].open
  /\ friend.in_did # 0 => watches[friend.in_did].told # "none"
  /\ \A i \in 1..Len(watches) :
       LastTold(i) => IF pc = "off" THEN watches[i].told = "terminated"
                      ELSE friend.in_did = i

Answered(sid) == [type |-> "sub_answered", sid |-> sid]

AnswerOrder ==
  /\ \A k \in 1..Len(queue), i \in 1..Len(subs) : queue[k] = Ended(i) => ~subs[i].open
  /\ Len(subs) = 1 /\ subs[1].open /\ subs[1].answered =>
       \/ pc # "off" /\ friend.out_did = 1
       \/ After(queue, 0, Answered(1))

GoodbyeInv == WatchOrder /\ AnswerOrder


LEMMA ToldOne ==
  ASSUME PresenceTypes, NEW did \in 1..Len(watches), NEW state \in States
  PROVE  /\ Told(did, state)[did].told = state
         /\ \A k \in 1..Len(watches) : k # did => Told(did, state)[k] = watches[k]
<1> DEFINE new == [watches[did] EXCEPT !.told = state]
<1>1. watches \in Seq(Watch) /\ watches[did] \in Watch /\ did # 0
  BY DEF PresenceTypes
<1>2. new \in Watch /\ new.told = state
  BY <1>1 DEF Watch
<1>3. Told(did, state) = [watches EXCEPT ![did] = new]
  BY <1>1 DEF Told
<1> HIDE DEF new
<1> QED BY <1>1, <1>2, <1>3, ExceptSeq

LEMMA QueueDids ==
  ASSUME TypeInv, NEW k \in 1..Len(queue)
  PROVE  /\ queue[k].type = "in_sub" => queue[k].did \in 1..Len(watches)
         /\ queue[k].type = "notify" => queue[k].sid \in 1..Len(subs)
<1>1. queue[k] \in Events(Len(requests), Len(watches), Len(subs))
  BY QueueShape
<1> QED BY <1>1, Lengths, EventFields

LEMMA TailShape ==
  ASSUME TypeInv, queue # << >>, queue' = Tail(queue)
  PROVE  /\ Len(queue') \in Nat /\ Len(queue) \in Nat
         /\ Head(queue) = queue[1] /\ 1 \in 1..Len(queue)
         /\ \A k \in 1..Len(queue') : queue'[k] = queue[k + 1] /\ k + 1 \in 1..Len(queue)
                                      /\ 1 < k + 1
BY QueueShape, TailSeq

LEMMA SignalShape ==
  ASSUME TypeInv, NEW e, Signals(e)
  PROVE  /\ Len(queue') = Len(queue) + 1 /\ Len(queue) \in Nat
         /\ queue'[Len(queue) + 1] = e
         /\ \A k \in 1..Len(queue) : queue'[k] = queue[k]
BY QueueShape DEF Signals

\* An event is handled: a SUBSCRIBE, which is the next, or another.
LEMMA OrderTaken ==
  ASSUME TypeInv, WatchOrder, pc # "off", pc' # "off", queue # << >>, queue' = Tail(queue),
         Len(watches') = Len(watches),
         \A d \in 1..Len(watches) :
           /\ watches'[d].open = watches[d].open
           /\ \/ Head(queue).type = "in_sub" /\ d = Head(queue).did
              \/ watches'[d].told = watches[d].told,
         \/ /\ Head(queue).type # "in_sub"
            /\ \/ friend'.in_did = friend.in_did
               \/ friend'.in_did = 0 /\ Head(queue) = Closed(friend.in_did)
         \/ /\ Head(queue).type = "in_sub" /\ friend'.in_did = Head(queue).did
            /\ watches'[Head(queue).did].told # "none"
  PROVE  WatchOrder'
<1> DEFINE h == Head(queue).did
<1>1. /\ Len(queue') \in Nat /\ Len(queue) \in Nat
      /\ Head(queue) = queue[1] /\ 1 \in 1..Len(queue)
      /\ \A k \in 1..Len(queue') : queue'[k] = queue[k + 1] /\ k + 1 \in 1..Len(queue)
                                   /\ 1 < k + 1
  BY TailShape
<1>2. /\ Len(watches) \in Nat /\ friend.in_did \in 0..Len(watches)
      /\ Head(queue).type = "in_sub" => h \in 1..Len(watches)
      /\ \A k \in 1..Len(queue) : queue[k].type = "in_sub" => queue[k].did \in 1..Len(watches)
  BY <1>1, QueueDids, Lengths, DialogShape
<1> HIDE DEF h
<1>3. ASSUME NEW k \in 1..Len(queue'), NEW j \in 1..Len(watches'),
             queue'[k].type = "in_sub", queue'[k].did <= j
      PROVE  watches'[j].told = "none"
  <2>1. k + 1 \in 1..Len(queue) /\ queue[k + 1].type = "in_sub" /\ queue[k + 1].did <= j
        /\ 1 < k + 1 /\ j \in 1..Len(watches) /\ queue[k + 1].did \in 1..Len(watches)
    BY <1>1, <1>2, <1>3
  <2>2. watches[j].told = "none"
    BY <2>1 DEF WatchOrder
  <2>3. Head(queue).type = "in_sub" => h < queue[k + 1].did
    BY <1>1, <2>1 DEF WatchOrder, h
  <2>4. ~(Head(queue).type = "in_sub" /\ j = h)
    BY <1>2, <2>1, <2>3
  <2> QED BY <2>1, <2>2, <2>4 DEF h
<1>4. ASSUME NEW k \in 1..Len(queue'), NEW l \in 1..Len(queue'),
             queue'[k].type = "in_sub", queue'[l].type = "in_sub", k < l
      PROVE  queue'[k].did < queue'[l].did
  <2>1. k + 1 < l + 1
    BY <1>4
  <2> QED BY <1>1, <1>4, <2>1 DEF WatchOrder
<1>5. ASSUME NEW k \in 1..Len(queue'), NEW j \in 1..Len(watches'), queue'[k] = Closed(j)
      PROVE  ~watches'[j].open
  BY <1>1, <1>5 DEF WatchOrder
<1>6. friend'.in_did # 0 => watches'[friend'.in_did].told # "none"
  BY <1>2 DEF WatchOrder
<1>7. ASSUME NEW i \in 1..Len(watches'), LastTold(i)' PROVE friend'.in_did = i
  <2>1. i \in 1..Len(watches) /\ watches[i].open
    BY <1>7 DEF LastTold
  <2>2. CASE Head(queue).type # "in_sub"
    <3>1. LastTold(i)
      BY <1>7, <2>1, <2>2 DEF LastTold
    <3>2. friend.in_did = i
      BY <2>1, <3>1 DEF WatchOrder
    <3>3. Head(queue) # Closed(i)
      BY <1>1, <2>1 DEF WatchOrder
    <3> QED BY <2>2, <3>2, <3>3
  <2>3. CASE Head(queue).type = "in_sub"
    <3>1. friend'.in_did = h /\ watches'[h].told # "none" /\ h \in 1..Len(watches)
      BY <1>2, <2>3 DEF h
    <3>2. ~(h > i)
      BY <1>7, <3>1 DEF LastTold
    <3>3. h <= i => watches[i].told = "none"
      BY <1>1, <2>1, <2>3 DEF WatchOrder, h
    <3>4. i # h => watches[i].told # "none"
      BY <1>7, <2>1 DEF LastTold, h
    <3> QED BY <1>2, <2>1, <3>1, <3>2, <3>3, <3>4
  <2> QED BY <2>2, <2>3
<1> QED BY <1>3, <1>4, <1>5, <1>6, <1>7, Zenon DEF WatchOrder

\* The friend subscribes or closes, or another step tells in the dialogue.
LEMMA OrderGrows ==
  ASSUME TypeInv, WatchOrder, UNCHANGED friend,
         Len(watches') \in Nat, Len(watches') >= Len(watches),
         pc' = "off" <=> pc = "off",
         \A d \in 1..Len(watches) :
           /\ watches'[d].open => watches[d].open
           /\ watches'[d].told = "none" <=> watches[d].told = "none"
           /\ pc = "off" => watches'[d].told = watches[d].told,
         \A d \in Len(watches) + 1..Len(watches') : watches'[d].told = "none",
         \/ UNCHANGED queue
         \/ \E e : /\ Signals(e)
                   /\ e.type = "in_sub" => e.did = Len(watches) + 1
                   /\ \A j \in 1..Len(watches) : e = Closed(j) => ~watches'[j].open
                   /\ \A j \in Len(watches) + 1..Len(watches') : e # Closed(j)
  PROVE  WatchOrder'
<1>1. /\ Len(watches) \in Nat /\ Len(queue) \in Nat /\ friend.in_did \in 0..Len(watches)
      /\ \A k \in 1..Len(queue) : queue[k].type = "in_sub" => queue[k].did \in 1..Len(watches)
      /\ \A j \in 1..Len(watches') : j \in 1..Len(watches) \/ j \in Len(watches) + 1..Len(watches')
  BY QueueDids, Lengths, DialogShape
<1> DEFINE Old(k) == k \in 1..Len(queue) /\ queue'[k] = queue[k]
           New(k) == /\ queue'[k].type = "in_sub" => queue'[k].did = Len(watches) + 1
                     /\ \A j \in 1..Len(watches) : queue'[k] = Closed(j) => ~watches'[j].open
                     /\ \A j \in Len(watches) + 1..Len(watches') : queue'[k] # Closed(j)
                     /\ k = Len(queue) + 1
<1>2. \A k \in 1..Len(queue') : Old(k) \/ New(k)
  <2>1. CASE UNCHANGED queue
    BY <2>1
  <2>2. ASSUME NEW e, Signals(e),
               e.type = "in_sub" => e.did = Len(watches) + 1,
               \A j \in 1..Len(watches) : e = Closed(j) => ~watches'[j].open,
               \A j \in Len(watches) + 1..Len(watches') : e # Closed(j)
        PROVE  \A k \in 1..Len(queue') : Old(k) \/ New(k)
    <3>1. /\ Len(queue') = Len(queue) + 1 /\ Len(queue) \in Nat
          /\ queue'[Len(queue) + 1] = e
          /\ \A k \in 1..Len(queue) : queue'[k] = queue[k]
      BY <2>2, SignalShape
    <3>2. New(Len(queue) + 1)
      BY <2>2, <3>1
    <3>3. \A k \in 1..Len(queue') : k \in 1..Len(queue) \/ k = Len(queue) + 1
      BY <3>1
    <3> QED BY <3>1, <3>2, <3>3
  <2> QED BY <2>1, <2>2
<1>3. ASSUME NEW k \in 1..Len(queue'), NEW j \in 1..Len(watches'),
             queue'[k].type = "in_sub", queue'[k].did <= j
      PROVE  watches'[j].told = "none"
  <2>1. CASE j \in 1..Len(watches) /\ Old(k)
    BY <1>3, <2>1 DEF WatchOrder
  <2>2. CASE j \in 1..Len(watches) /\ New(k)
    BY <1>1, <1>3, <2>2
  <2>3. CASE j \in Len(watches) + 1..Len(watches')
    BY <2>3
  <2> QED BY <1>1, <1>2, <2>1, <2>2, <2>3
<1>4. ASSUME NEW k \in 1..Len(queue'), NEW l \in 1..Len(queue'),
             queue'[k].type = "in_sub", queue'[l].type = "in_sub", k < l
      PROVE  queue'[k].did < queue'[l].did
  <2>1. CASE Old(k) /\ Old(l)
    BY <1>4, <2>1 DEF WatchOrder
  <2>2. CASE Old(k) /\ New(l)
    BY <1>1, <1>4, <2>2
  <2>3. CASE New(k)
    BY <1>1, <1>2, <1>4, <2>3
  <2> QED BY <1>2, <2>1, <2>2, <2>3
<1>5. ASSUME NEW k \in 1..Len(queue'), NEW j \in 1..Len(watches'), queue'[k] = Closed(j)
      PROVE  ~watches'[j].open
  <2>1. CASE New(k)
    BY <1>1, <1>5, <2>1
  <2>2. CASE Old(k)
    <3>1. j \in 1..Len(watches)
      <4>1. queue[k] \in Events(Len(requests), Len(watches), Len(subs)) /\ queue[k].type = "in_closed"
            /\ queue[k].did = j
        BY <1>5, <2>2, QueueShape DEF Closed
      <4> QED BY <4>1, EventFields, Lengths
    <3>2. ~watches[j].open
      BY <1>5, <2>2, <3>1 DEF WatchOrder
    <3> QED BY <3>1, <3>2
  <2> QED BY <1>2, <2>1, <2>2
<1>6. friend'.in_did # 0 => watches'[friend'.in_did].told # "none"
  BY <1>1 DEF WatchOrder
<1>7. ASSUME NEW i \in 1..Len(watches'), LastTold(i)'
      PROVE  IF pc' = "off" THEN watches'[i].told = "terminated" ELSE friend'.in_did = i
  <2>1. i \in 1..Len(watches)
    BY <1>1, <1>7 DEF LastTold
  <2>2. LastTold(i)
    BY <1>1, <1>7, <2>1 DEF LastTold
  <2> QED BY <2>1, <2>2 DEF WatchOrder
<1> QED BY <1>3, <1>4, <1>5, <1>6, <1>7, Zenon DEF WatchOrder

\* linphone_friend_destroy tells in the dialogue that the friend is known by.
LEMMA OrderEnds ==
  ASSUME TypeInv, WatchOrder, Destroy
  PROVE  WatchOrder'
<1>1. /\ pc # "off" /\ pc' = "off" /\ UNCHANGED <<queue, friend>>
      /\ watches' = Told(friend.in_did, "terminated")
      /\ friend.in_did \in 0..Len(watches) /\ Len(watches) \in Nat
      /\ "terminated" \in States /\ PresenceTypes
  BY DialogShape, Lengths DEF Destroy, States, TypeInv
<1>2. /\ Len(watches') = Len(watches)
      /\ \A d \in 1..Len(watches) : watches'[d].open = watches[d].open
  BY <1>1, ToldTypes
<1>3. \A d \in 1..Len(watches) :
        IF d = friend.in_did THEN watches'[d].told = "terminated" ELSE watches'[d] = watches[d]
  <2>1. CASE friend.in_did = 0
    BY <1>1, <2>1 DEF Told
  <2>2. CASE friend.in_did \in 1..Len(watches)
    BY <1>1, <2>2, ToldOne
  <2> QED BY <1>1, <2>1, <2>2
<1>4. \A d \in 1..Len(watches) : watches'[d].told = "none" <=> watches[d].told = "none"
  BY <1>3 DEF WatchOrder
<1>5. ASSUME NEW i \in 1..Len(watches'), LastTold(i)' PROVE watches'[i].told = "terminated"
  <2>1. LastTold(i)
    BY <1>2, <1>4, <1>5 DEF LastTold
  <2>2. friend.in_did = i
    BY <1>1, <1>2, <2>1 DEF WatchOrder
  <2> QED BY <1>2, <1>3, <2>2
<1>6. friend'.in_did # 0 => watches'[friend'.in_did].told # "none"
  BY <1>1, <1>4 DEF WatchOrder
<1> QED BY <1>1, <1>2, <1>4, <1>5, <1>6 DEF WatchOrder


\* An event is handled: the answer that names a subscription, or another.
LEMMA AnswerTaken ==
  ASSUME TypeInv, AnswerOrder, pc # "off", pc' # "off", queue # << >>, queue' = Tail(queue),
         Len(subs') \in Nat, Len(subs') >= Len(subs),
         \A i \in 1..Len(subs) : subs'[i] = subs[i],
         \A i \in Len(subs) + 1..Len(subs') : ~subs'[i].answered,
         \/ friend'.out_did = friend.out_did /\ Head(queue).type # "sub_answered"
         \/ Head(queue) = Ended(friend.out_did)
         \/ Head(queue).type = "sub_answered" /\ friend'.out_did = Head(queue).sid
  PROVE  AnswerOrder'
<1>1. /\ Len(queue') \in Nat /\ Len(queue) \in Nat
      /\ Head(queue) = queue[1] /\ 1 \in 1..Len(queue)
      /\ \A k \in 1..Len(queue') : queue'[k] = queue[k + 1] /\ k + 1 \in 1..Len(queue)
                                   /\ 1 < k + 1
  BY TailShape
<1>2. /\ Len(subs) \in Nat /\ queue \in Seq(Events(Len(requests), Len(watches), Len(subs)))
      /\ \A k \in 1..Len(queue) :
           /\ queue[k].type = "notify" => queue[k].sid \in 1..Len(subs)
           /\ queue[k].type = "sub_answered" => queue[k].sid \in 1..Len(subs)
  BY QueueShape, QueueDids, Lengths, DialogShape
<1>3. ASSUME NEW k \in 1..Len(queue'), NEW i \in 1..Len(subs'), queue'[k] = Ended(i)
      PROVE  ~subs'[i].open
  <2>1. k + 1 \in 1..Len(queue) /\ queue[k + 1] = Ended(i)
    BY <1>1, <1>3
  <2>2. i \in 1..Len(subs)
    BY <1>2, <2>1 DEF Ended
  <2> QED BY <2>1, <2>2 DEF AnswerOrder
<1>4. ASSUME Len(subs') = 1, subs'[1].open, subs'[1].answered
      PROVE  friend'.out_did = 1 \/ After(queue', 0, Answered(1))
  <2>1. Len(subs) = 1 /\ subs[1].open /\ subs[1].answered
    <3>1. Len(subs) # 0
      BY <1>4
    <3>2. Len(subs) = 1 /\ 1 \in 1..Len(subs)
      <4>1. Len(subs) \in Nat /\ Len(subs) <= 1
        BY <1>2, <1>4
      <4> DEFINE n == Len(subs)
      <4>2. n \in Nat /\ n <= 1 /\ n # 0
        BY <3>1, <4>1
      <4> HIDE DEF n
      <4>3. n = 1 /\ 1 \in 1..n
        BY ONLY <4>2
      <4> QED BY ONLY <4>3 DEF n
    <3>3. subs'[1] = subs[1]
      BY <3>2
    <3> QED BY <1>4, <3>2, <3>3
  <2>2. friend.out_did = 1 \/ After(queue, 0, Answered(1))
    BY <2>1 DEF AnswerOrder
  <2>3. CASE Head(queue).type = "sub_answered"
    <3>1. Head(queue).sid = 1
      BY <1>1, <1>2, <2>1, <2>3
    <3>2. friend'.out_did = 1
      BY <2>3, <3>1 DEF Ended
    <3> QED BY <3>2
  <2>4. CASE Head(queue).type # "sub_answered"
    <3>1. Head(queue) # Answered(1)
      BY <2>4 DEF Answered
    <3>2. After(queue, 0, Answered(1)) => After(queue', 0, Answered(1))
      BY <1>2, <3>1, AfterTail
    <3>3. Head(queue) # Ended(1)
      BY <1>1, <2>1 DEF AnswerOrder
    <3> QED BY <2>2, <2>4, <3>2, <3>3
  <2> QED BY <2>3, <2>4
<1>5. After(queue', 0, Answered(1)) => After(queue, 0, Answered(1))'
  BY DEF After, Answered
<1> QED BY <1>3, <1>4, <1>5 DEF AnswerOrder

\* The friend answers, refuses or ends, or the stack renews.
LEMMA AnswerGrows ==
  ASSUME TypeInv, AnswerOrder, UNCHANGED friend, pc' = "off" <=> pc = "off",
         Len(subs') = Len(subs),
         \A i \in 1..Len(subs) :
           /\ subs'[i].open => subs[i].open
           /\ subs'[i].open /\ subs'[i].answered => subs[i].answered \/ Signals(Answered(i)),
         \/ UNCHANGED queue
         \/ \E e : Signals(e) /\ \A i \in 1..Len(subs) : e = Ended(i) => ~subs'[i].open
  PROVE  AnswerOrder'
<1>1. /\ queue \in Seq(Events(Len(requests), Len(watches), Len(subs)))
      /\ Len(queue) \in Nat /\ 0 \in 0..Len(queue)
  BY QueueShape
<1>2. ASSUME NEW k \in 1..Len(queue'), NEW i \in 1..Len(subs'), queue'[k] = Ended(i)
      PROVE  ~subs'[i].open
  <2>1. CASE k \in 1..Len(queue) /\ queue'[k] = queue[k]
    <3>1. ~subs[i].open
      BY <1>2, <2>1 DEF AnswerOrder
    <3> QED BY <3>1
  <2>2. CASE ~(k \in 1..Len(queue) /\ queue'[k] = queue[k])
    <3>1. PICK e : Signals(e) /\ \A j \in 1..Len(subs) : e = Ended(j) => ~subs'[j].open
      BY <1>2, <2>2
    <3>2. queue'[k] = e
      BY <1>2, <2>2, <3>1, SignalShape
    <3> QED BY <1>2, <3>1, <3>2
  <2> QED BY <2>1, <2>2
<1>3. ASSUME Len(subs') = 1, subs'[1].open, subs'[1].answered
      PROVE  (pc' # "off" /\ friend'.out_did = 1) \/ After(queue', 0, Answered(1))
  <2>1. CASE Signals(Answered(1))
    BY <1>1, <2>1, AfterAppend DEF Signals
  <2>2. CASE subs[1].answered
    <3>1. (pc # "off" /\ friend.out_did = 1) \/ After(queue, 0, Answered(1))
      BY <1>3, <2>2 DEF AnswerOrder
    <3>2. After(queue, 0, Answered(1)) => After(queue', 0, Answered(1))
      BY <1>1, AfterAppend DEF Signals
    <3> QED BY <3>1, <3>2
  <2> QED BY <1>3, <2>1, <2>2
<1>4. After(queue', 0, Answered(1)) => After(queue, 0, Answered(1))'
  BY DEF After, Answered
<1> QED BY <1>2, <1>3, <1>4 DEF AnswerOrder

\* linphone_friend_destroy closes the subscription that it knows.
LEMMA AnswerEnds ==
  ASSUME TypeInv, AnswerOrder, Destroy
  PROVE  AnswerOrder'
<1>1. /\ pc # "off" /\ UNCHANGED <<queue, friend>>
      /\ friend.out_did \in 0..Len(subs) /\ PresenceTypes
      /\ subs \in Seq(Subscription) /\ Len(subs) \in Nat
  BY DialogShape, Lengths DEF Destroy, TypeInv
<1>2. /\ Len(subs') = Len(subs)
      /\ \A i \in 1..Len(subs) :
           IF i = friend.out_did THEN subs'[i].open = FALSE ELSE subs'[i] = subs[i]
  <2>1. CASE friend.out_did = 0
    BY <1>1, <2>1 DEF Destroy
  <2>2. CASE friend.out_did # 0
    <3> DEFINE new == [subs[friend.out_did] EXCEPT !.open = FALSE]
    <3>1. friend.out_did \in 1..Len(subs) /\ friend.out_did \in DOMAIN subs
          /\ subs[friend.out_did] \in Subscription
      BY <1>1, <2>2
    <3>2. new \in Subscription /\ new.open = FALSE
      BY <3>1 DEF Subscription
    <3>3. subs' = [subs EXCEPT ![friend.out_did] = new]
      BY <2>2 DEF Destroy
    <3> HIDE DEF new
    <3> QED BY <1>1, <3>1, <3>2, <3>3, SubscriptionSet
  <2> QED BY <2>1, <2>2
<1>3. \A i \in 1..Len(subs) : subs'[i].open => subs[i].open
  BY <1>2
<1>4. ASSUME Len(subs') = 1, subs'[1].open, subs'[1].answered
      PROVE  After(queue, 0, Answered(1))
  <2>1. friend.out_did # 1 /\ subs'[1] = subs[1]
    BY <1>1, <1>2, <1>4
  <2> QED BY <1>2, <1>4, <2>1 DEF AnswerOrder
<1>5. After(queue, 0, Answered(1)) => After(queue, 0, Answered(1))'
  BY <1>1 DEF After, Answered
<1> QED BY <1>1, <1>2, <1>3, <1>4, <1>5 DEF AnswerOrder


LEMMA GoodbyeHandles ==
  ASSUME TypeInv, DialogInv, GoodbyeInv, Handle
  PROVE  GoodbyeInv'
<1> DEFINE e == Head(queue)
<1>1. /\ queue # << >> /\ queue' = Tail(queue) /\ pc # "off" /\ pc' # "off"
      /\ WatchOrder /\ AnswerOrder
      /\ friend.nid = friend.in_did /\ friend.sid = friend.out_did
  BY DEF Handle, GoodbyeInv, DialogInv, WatchInv, SubscriptionInv
<1>2. e \in Events(Len(requests), Len(watches), Len(subs))
      /\ PresenceTypes /\ friend \in Friends(Len(watches), Len(subs))
      /\ Len(watches) \in Nat /\ Len(subs) \in Nat
  BY <1>1, QueueShape, TailSeq, Lengths DEF TypeInv, PresenceTypes
<1> HIDE DEF e
<1>3. ASSUME UNCHANGED <<subs, watches>>, e.type # "in_sub",
             \/ friend'.in_did = friend.in_did
             \/ friend'.in_did = 0 /\ e = Closed(friend.in_did),
             \/ friend'.out_did = friend.out_did /\ e.type # "sub_answered"
             \/ e = Ended(friend.out_did)
             \/ e.type = "sub_answered" /\ friend'.out_did = e.sid
      PROVE  GoodbyeInv'
  <2>1. WatchOrder'
    BY <1>1, <1>3, OrderTaken DEF e
  <2>2. AnswerOrder'
    <3>1. /\ Len(subs') \in Nat /\ Len(subs') >= Len(subs)
          /\ \A i \in 1..Len(subs) : subs'[i] = subs[i]
          /\ \A i \in Len(subs) + 1..Len(subs') : ~subs'[i].answered
      BY <1>2, <1>3
    <3> QED BY <1>1, <1>3, <3>1, AnswerTaken DEF e
  <2> QED BY <2>1, <2>2 DEF GoodbyeInv
<1>4. CASE UNCHANGED presence /\ e.type \notin {"in_sub", "sub_answered"}
  BY <1>3, <1>4 DEF presence
<1>5. CASE ReadsNull(e) /\ UNCHANGED presence
  BY <1>4, <1>5 DEF ReadsNull
<1>6. CASE AccountEvent(e) /\ UNCHANGED presence
  BY <1>4, <1>6 DEF AccountEvent
<1>7. CASE e.type = "in_sub" /\ SubscriptionNew(e)
  <2> DEFINE f == [friend EXCEPT !.in_did = e.did, !.nid = e.did, !.pending = TRUE]
  <2>1. e.did \in 1..Len(watches) /\ e.did \in 0..Len(watches) /\ 0 \in 0..Len(subs)
    BY <1>2, <1>7, EventFields
  <2>2. f \in Friends(Len(watches), Len(subs))
    BY <1>2, <2>1, FriendsUpdate, ZenonT(60)
  <2>3. Applies(f)
    BY <1>7 DEF SubscriptionNew
  <2>4. f.in_did = e.did /\ f.pending /\ f.out_did = friend.out_did /\ f.pol \in Policies
    BY <1>2, <2>1 DEF Friends
  <2> HIDE DEF f
  <2>5. /\ Len(watches') = Len(watches) /\ Len(subs') \in Nat /\ Len(subs') >= Len(subs)
        /\ \A k \in 1..Len(watches) : watches'[k].open = watches[k].open
        /\ \A k \in 1..Len(subs) : subs'[k] = subs[k]
        /\ friend' = [f EXCEPT !.pending = FALSE]
    BY <1>2, <2>2, <2>3, AppliesTypes
  <2>6. friend'.in_did = e.did /\ friend'.out_did = friend.out_did
    BY <2>2, <2>4, <2>5 DEF Friends
  <2>7. /\ watches'[e.did].told # "none"
        /\ \A k \in 1..Len(watches) : k # e.did => watches'[k] = watches[k]
    <3>1. watches' = Told(e.did, PolicyState(f.pol))
      BY <2>3, <2>4 DEF Applies
    <3>2. PolicyState(f.pol) \in States /\ PolicyState(f.pol) # "none"
      BY <2>4 DEF PolicyState, Policies, States
    <3> QED BY <1>2, <2>1, <3>1, <3>2, ToldOne
  <2>8. \A k \in Len(subs) + 1..Len(subs') : ~subs'[k].answered
    <3>1. CASE subs' = Subscribed
      BY <1>2, <3>1, SubscribedTypes
    <3>2. CASE subs' = subs
      BY <1>2, <3>2
    <3> QED BY <2>3, <3>1, <3>2 DEF Applies
  <2>9. WatchOrder'
    BY <1>1, <1>7, <2>5, <2>6, <2>7, OrderTaken DEF e
  <2>10. AnswerOrder'
    BY <1>1, <1>7, <2>5, <2>6, <2>8, AnswerTaken DEF e
  <2> QED BY <2>9, <2>10 DEF GoodbyeInv
<1>8. CASE e.type = "in_closed" /\ SubscriptionClosed(e)
  <2>1. CASE friend.nid = e.did
    <3>1. /\ UNCHANGED <<subs, watches>>
          /\ friend' = [friend EXCEPT !.in_did = 0, !.nid = 0, !.pending = TRUE]
      BY <1>8, <2>1 DEF SubscriptionClosed
    <3>2. friend'.in_did = 0 /\ friend'.out_did = friend.out_did
      BY <1>2, <3>1 DEF Friends
    <3>3. e = Closed(friend.in_did)
      <4>1. e \in [type : {"in_sub", "in_closed"}, did : 1..Len(watches)]
        BY <1>2, <1>8 DEF Events
      <4> QED BY <1>1, <1>8, <2>1, <4>1 DEF Closed
    <3> QED BY <1>3, <1>8, <3>1, <3>2, <3>3
  <2>2. CASE friend.nid # e.did
    <3>1. UNCHANGED <<friend, subs, watches>>
      BY <1>8, <2>2 DEF SubscriptionClosed
    <3> QED BY <1>3, <1>8, <3>1
  <2> QED BY <2>1, <2>2
<1>9. CASE e.type = "sub_answered" /\ SubscriptionAnswered(e)
  <2>1. UNCHANGED <<subs, watches>> /\ friend' = [friend EXCEPT !.out_did = e.sid, !.sid = e.sid]
    BY <1>9 DEF SubscriptionAnswered
  <2>2. friend'.out_did = e.sid /\ friend'.in_did = friend.in_did
    BY <1>2, <2>1 DEF Friends
  <2> QED BY <1>3, <1>9, <2>1, <2>2
<1>10. CASE e.type = "notify" /\ NotifyRecv(e)
  <2>1. UNCHANGED <<subs, watches>>
    BY <1>10 DEF NotifyRecv
  <2>2. CASE friend.sid # e.sid
    <3>1. friend' = friend
      BY <1>10, <2>2 DEF NotifyRecv
    <3> QED BY <1>3, <1>10, <2>1, <3>1
  <2>3. CASE friend.sid = e.sid /\ e.terminated
    <3>1. friend' = [friend EXCEPT !.status = "closed", !.sid = 0, !.out_did = 0]
      BY <1>10, <2>3 DEF NotifyRecv
    <3>2. friend'.in_did = friend.in_did
      BY <1>2, <3>1 DEF Friends
    <3>3. e = Ended(friend.out_did)
      <4>1. e \in [type : {"notify"}, sid : 1..Len(subs), terminated : BOOLEAN]
        BY <1>2, <1>10 DEF Events
      <4> QED BY <1>1, <1>10, <2>3, <4>1 DEF Ended
    <3> QED BY <1>3, <1>10, <2>1, <3>2, <3>3
  <2>4. CASE friend.sid = e.sid /\ ~e.terminated
    <3>1. friend' = [friend EXCEPT !.status = "online"]
      BY <1>10, <2>4 DEF NotifyRecv
    <3>2. friend'.out_did = friend.out_did /\ friend'.in_did = friend.in_did
      BY <1>2, <3>1 DEF Friends
    <3> QED BY <1>3, <1>10, <2>1, <3>2
  <2> QED BY <2>2, <2>3, <2>4
<1> QED BY <1>5, <1>6, <1>7, <1>8, <1>9, <1>10 DEF Handle, PresenceEvent, e

\* A step that leaves the subscriptions alone
LEMMA GoodbyeQuiet ==
  ASSUME TypeInv, GoodbyeInv, UNCHANGED presence, pc' = "off" <=> pc = "off",
         \/ UNCHANGED queue
         \/ \E e : Signals(e) /\ e.type \notin {"in_sub", "in_closed", "sub_answered", "notify"}
  PROVE  GoodbyeInv'
<1>1. /\ UNCHANGED <<friend, subs, watches>> /\ WatchOrder /\ AnswerOrder
      /\ Len(watches) \in Nat /\ Len(subs) \in Nat
  BY Lengths DEF presence, GoodbyeInv
<1>2. WatchOrder'
  <2>1. \/ UNCHANGED queue
        \/ \E e : /\ Signals(e)
                  /\ e.type = "in_sub" => e.did = Len(watches) + 1
                  /\ \A j \in 1..Len(watches) : e = Closed(j) => ~watches'[j].open
                  /\ \A j \in Len(watches) + 1..Len(watches') : e # Closed(j)
    BY DEF Closed
  <2> QED BY <1>1, <2>1, OrderGrows
<1>3. AnswerOrder'
  <2>1. \/ UNCHANGED queue
        \/ \E e : Signals(e) /\ \A i \in 1..Len(subs) : e = Ended(i) => ~subs'[i].open
    BY DEF Ended
  <2> QED BY <1>1, <2>1, AnswerGrows
<1> QED BY <1>2, <1>3 DEF GoodbyeInv

\* The drained queue; the stack may renew a subscription
LEMMA GoodbyeDrained ==
  ASSUME TypeInv, GoodbyeInv, DrainDone \/ QuitDrainDone
  PROVE  GoodbyeInv'
<1>1. UNCHANGED <<queue, friend, watches>> /\ pc # "off" /\ pc' # "off"
  BY DEF DrainDone, QuitDrainDone
<1>2. CASE UNCHANGED subs
  BY <1>1, <1>2, GoodbyeQuiet DEF presence
<1>3. ASSUME NEW i \in DOMAIN subs, subs' = [subs EXCEPT ![i].answered = FALSE]
      PROVE  GoodbyeInv'
  <2> DEFINE new == [subs[i] EXCEPT !.answered = FALSE]
  <2>1. /\ subs[i] \in Subscription /\ PresenceTypes
        /\ WatchOrder /\ AnswerOrder /\ Len(watches) \in Nat
    BY DialogShape, Lengths DEF TypeInv, GoodbyeInv
  <2>2. new \in Subscription /\ new.open = subs[i].open /\ ~new.answered
    BY <2>1 DEF Subscription
  <2>3. subs' = [subs EXCEPT ![i] = new]
    BY <1>3
  <2> HIDE DEF new
  <2>4. /\ Len(subs') = Len(subs) /\ subs'[i] = new
        /\ \A k \in 1..Len(subs) : k # i => subs'[k] = subs[k]
    BY <2>1, <2>2, <2>3, SubscriptionSet
  <2>5. \A k \in 1..Len(subs) :
          /\ subs'[k].open => subs[k].open
          /\ subs'[k].open /\ subs'[k].answered => subs[k].answered \/ Signals(Answered(k))
    BY <2>2, <2>4
  <2>6. AnswerOrder'
    BY <1>1, <2>1, <2>4, <2>5, AnswerGrows
  <2>7. WatchOrder'
    BY <1>1, <2>1, OrderGrows
  <2> QED BY <2>6, <2>7 DEF GoodbyeInv
<1> QED BY <1>2, <1>3 DEF DrainDone, QuitDrainDone, StackActs

LEMMA GoodbyeTells ==
  ASSUME TypeInv, GoodbyeInv, NotifyAllFriends
  PROVE  GoodbyeInv'
<1>1. /\ UNCHANGED <<queue, friend, subs, pc>> /\ WatchOrder /\ AnswerOrder
      /\ watches' = Told(friend.in_did, "active") /\ pc # "off"
      /\ friend.in_did \in 0..Len(watches) /\ "active" \in States /\ PresenceTypes
      /\ Len(watches) \in Nat /\ Len(subs) \in Nat
  BY DialogShape, Lengths DEF NotifyAllFriends, turn, GoodbyeInv, States, TypeInv
<1>2. /\ Len(watches') = Len(watches)
      /\ \A d \in 1..Len(watches) : watches'[d].open = watches[d].open
  BY <1>1, ToldTypes
<1>3. \A d \in 1..Len(watches) :
        IF d = friend.in_did THEN watches'[d].told = "active" ELSE watches'[d] = watches[d]
  <2>1. CASE friend.in_did = 0
    BY <1>1, <2>1 DEF Told
  <2>2. CASE friend.in_did \in 1..Len(watches)
    BY <1>1, <2>2, ToldOne
  <2> QED BY <1>1, <2>1, <2>2
<1>4. \A d \in 1..Len(watches) : watches'[d].told = "none" <=> watches[d].told = "none"
  BY <1>1, <1>3 DEF WatchOrder
<1>5. WatchOrder'
  BY <1>1, <1>2, <1>4, OrderGrows
<1>6. AnswerOrder'
  BY <1>1, AnswerGrows
<1> QED BY <1>5, <1>6 DEF GoodbyeInv


LEMMA GoodbyeFriend ==
  ASSUME TypeInv, GoodbyeInv, FriendActs
  PROVE  GoodbyeInv'
<1>1. /\ PresenceTypes /\ WatchOrder /\ AnswerOrder
      /\ Len(watches) \in Nat /\ Len(subs) \in Nat
      /\ watches \in Seq(Watch) /\ subs \in Seq(Subscription)
  BY Lengths DEF TypeInv, GoodbyeInv, PresenceTypes
<1>2. UNCHANGED <<friend, pc>>
  BY DEF FriendActs, FriendSubscribes, FriendUnsubscribes, FriendAnswers,
         FriendRefuses, FriendNotifies, FriendEvent, turn
<1>3. CASE FriendSubscribes
  <2> DEFINE e == [type |-> "in_sub", did |-> Len(watches) + 1]
  <2>1. /\ Len(watches') = Len(watches) + 1 /\ UNCHANGED subs
        /\ \A k \in 1..Len(watches) : watches'[k] = watches[k]
        /\ watches'[Len(watches) + 1].told = "none"
        /\ Signals(e)
    <3>1. watches' = Append(watches, [open |-> TRUE, told |-> "none"])
      BY <1>3 DEF FriendSubscribes
    <3>2. watches'[Len(watches) + 1] = [open |-> TRUE, told |-> "none"]
      BY <1>1, <3>1
    <3> QED BY <1>1, <1>3, <3>2, FriendSubscribesTypes
  <2>2. /\ e.type = "in_sub" => e.did = Len(watches) + 1
        /\ \A j \in 1..Len(watches) : e # Closed(j)
        /\ \A j \in Len(watches) + 1..Len(watches') : e # Closed(j)
        /\ \A i \in 1..Len(subs) : e # Ended(i)
    BY DEF Closed, Ended
  <2> HIDE DEF e
  <2>3. WatchOrder'
    <3>1. \A d \in Len(watches) + 1..Len(watches') : watches'[d].told = "none"
      BY <1>1, <2>1
    <3>2. Len(watches') \in Nat /\ Len(watches') >= Len(watches)
      BY <1>1, <2>1
    <3>3. \A d \in 1..Len(watches) :
            /\ watches'[d].open => watches[d].open
            /\ watches'[d].told = "none" <=> watches[d].told = "none"
            /\ pc = "off" => watches'[d].told = watches[d].told
      BY <2>1
    <3> QED BY <1>1, <1>2, <2>1, <2>2, <3>1, <3>2, <3>3, OrderGrows
  <2>4. AnswerOrder'
    <3>1. Len(subs') = Len(subs)
      BY <2>1
    <3>2. \A i \in 1..Len(subs) :
            /\ subs'[i].open => subs[i].open
            /\ subs'[i].open /\ subs'[i].answered => subs[i].answered \/ Signals(Answered(i))
      BY <2>1
    <3> QED BY <1>1, <1>2, <2>1, <2>2, <3>1, <3>2, AnswerGrows
  <2> QED BY <2>3, <2>4 DEF GoodbyeInv
<1>4. ASSUME NEW i \in DOMAIN watches, FriendUnsubscribes(i) PROVE GoodbyeInv'
  <2>1. /\ Len(watches') = Len(watches) /\ i \in 1..Len(watches) /\ UNCHANGED subs
        /\ \A k \in 1..Len(watches) : k # i => watches'[k] = watches[k]
        /\ Signals(Closed(i)) /\ Closed(i).type = "in_closed"
    BY <1>1, <1>4, FriendUnsubscribesTypes DEF Closed
  <2>2. watches'[i].open = FALSE /\ watches'[i].told = watches[i].told
    <3>1. watches[i] \in Watch /\ watches' = [watches EXCEPT ![i].open = FALSE]
      BY <1>1, <1>4, <2>1 DEF FriendUnsubscribes
    <3> QED BY <1>1, <2>1, <3>1 DEF Watch
  <2>3. /\ \A j \in 1..Len(watches) : Closed(i) = Closed(j) => j = i
        /\ \A j \in Len(watches) + 1..Len(watches') : FALSE
        /\ \A k \in 1..Len(subs) : Closed(i) # Ended(k)
    <3>1. \A j \in 1..Len(watches) : Closed(i).did = i /\ Closed(j).did = j
      BY DEF Closed
    <3>2. \A k \in 1..Len(subs) : Closed(i).type # Ended(k).type
      BY DEF Closed, Ended
    <3>3. \A j \in Len(watches) + 1..Len(watches') : FALSE
      BY <1>1, <2>1
    <3> QED BY <3>1, <3>2, <3>3
  <2>4. WatchOrder'
    <3>1. \A d \in 1..Len(watches) :
            /\ watches'[d].open => watches[d].open
            /\ watches'[d].told = "none" <=> watches[d].told = "none"
            /\ pc = "off" => watches'[d].told = watches[d].told
      BY <2>1, <2>2
    <3>2. /\ Closed(i).type = "in_sub" => Closed(i).did = Len(watches) + 1
          /\ \A j \in 1..Len(watches) : Closed(i) = Closed(j) => ~watches'[j].open
          /\ \A j \in Len(watches) + 1..Len(watches') : Closed(i) # Closed(j)
      BY <2>1, <2>2, <2>3
    <3> QED BY <1>1, <1>2, <2>1, <2>3, <3>1, <3>2, OrderGrows
  <2>5. AnswerOrder'
    BY <1>1, <1>2, <2>1, <2>3, AnswerGrows
  <2> QED BY <2>4, <2>5 DEF GoodbyeInv
<1>5. ASSUME NEW i \in DOMAIN subs, UNCHANGED watches, Len(subs') = Len(subs),
             i \in 1..Len(subs), \A k \in 1..Len(subs) : k # i => subs'[k] = subs[k],
             subs'[i].open => subs[i].open,
             subs'[i].open /\ subs'[i].answered => subs[i].answered \/ Signals(Answered(i)),
             \/ UNCHANGED queue
             \/ \E e : /\ Signals(e) /\ e.type \notin {"in_sub", "in_closed"}
                       /\ \A k \in 1..Len(subs) : e = Ended(k) => k = i /\ ~subs'[i].open
      PROVE  GoodbyeInv'
  <2>1. WatchOrder'
    <3>1. \/ UNCHANGED queue
          \/ \E e : /\ Signals(e)
                    /\ e.type = "in_sub" => e.did = Len(watches) + 1
                    /\ \A j \in 1..Len(watches) : e = Closed(j) => ~watches'[j].open
                    /\ \A j \in Len(watches) + 1..Len(watches') : e # Closed(j)
      <4>1. \A j : Closed(j).type = "in_closed"
        BY DEF Closed
      <4> QED BY <1>5, <4>1
    <3>2. \A d \in Len(watches) + 1..Len(watches') : FALSE
      BY <1>1, <1>5
    <3> QED BY <1>1, <1>2, <1>5, <3>1, <3>2, OrderGrows
  <2>2. AnswerOrder'
    <3>1. \A k \in 1..Len(subs) :
            /\ subs'[k].open => subs[k].open
            /\ subs'[k].open /\ subs'[k].answered => subs[k].answered \/ Signals(Answered(k))
      BY <1>5
    <3>2. \/ UNCHANGED queue
          \/ \E e : Signals(e) /\ \A k \in 1..Len(subs) : e = Ended(k) => ~subs'[k].open
      BY <1>5
    <3> QED BY <1>1, <1>2, <1>5, <3>1, <3>2, AnswerGrows
  <2> QED BY <2>1, <2>2 DEF GoodbyeInv
<1>6. ASSUME NEW i \in DOMAIN subs, FriendAnswers(i) PROVE GoodbyeInv'
  <2>1. /\ Len(subs') = Len(subs) /\ i \in 1..Len(subs) /\ subs'[i].open = subs[i].open
        /\ \A k \in 1..Len(subs) : k # i => subs'[k] = subs[k]
        /\ Signals(Answered(i)) /\ UNCHANGED watches
    BY <1>1, <1>6, FriendAnswersTypes DEF Answered
  <2>2. Answered(i).type = "sub_answered" /\ \A k : Ended(k).type = "notify"
    BY DEF Answered, Ended
  <2> QED BY <1>5, <2>1, <2>2
<1>7. ASSUME NEW i \in DOMAIN subs, FriendRefuses(i) PROVE GoodbyeInv'
  <2>1. /\ Len(subs') = Len(subs) /\ i \in 1..Len(subs)
        /\ \A k \in 1..Len(subs) : k # i => subs'[k] = subs[k]
        /\ UNCHANGED <<watches, queue>>
    BY <1>1, <1>7, FriendRefusesTypes
  <2>2. subs'[i].open = FALSE
    BY <1>1, <1>7, <2>1 DEF FriendRefuses
  <2> QED BY <1>5, <2>1, <2>2
<1>8. ASSUME NEW i \in DOMAIN subs, FriendNotifies(i) PROVE GoodbyeInv'
  <2>1. /\ Len(subs') = Len(subs) /\ i \in 1..Len(subs) /\ UNCHANGED watches
        /\ subs'[i].answered = subs[i].answered /\ subs[i].open
        /\ \A k \in 1..Len(subs) : k # i => subs'[k] = subs[k]
    BY <1>1, <1>8, FriendNotifiesTypes DEF FriendNotifies
  <2>2. PICK last \in BOOLEAN :
          /\ Signals([type |-> "notify", sid |-> i, terminated |-> last])
          /\ subs'[i].open = ~last
    BY <1>1, <1>8, FriendNotifiesTypes
  <2> DEFINE n == [type |-> "notify", sid |-> i, terminated |-> last]
  <2>3. /\ Signals(n) /\ n.type = "notify" /\ n.sid = i /\ n.terminated = last
        /\ \A k : Ended(k).sid = k /\ Ended(k).terminated = TRUE
    BY <2>2 DEF Ended
  <2> HIDE DEF n
  <2>4. \A k \in 1..Len(subs) : n = Ended(k) => k = i /\ ~subs'[i].open
    BY <2>2, <2>3
  <2> QED BY <1>5, <2>1, <2>3, <2>4
<1> QED BY <1>3, <1>4, <1>6, <1>7, <1>8 DEF FriendActs

LEMMA GoodbyeStep == TypeInv /\ DialogInv /\ GoodbyeInv /\ [Next]_vars => GoodbyeInv'
<1> SUFFICES ASSUME TypeInv, DialogInv, GoodbyeInv, [Next]_vars PROVE GoodbyeInv'
  OBVIOUS
<1>1. CASE UNCHANGED vars
  BY <1>1, GoodbyeQuiet DEF vars, turn
<1>2. CASE Phone
  <2>1. CASE Destroy
    BY <2>1, OrderEnds, AnswerEnds DEF GoodbyeInv
  <2> QED BY <1>2, <2>1, GoodbyeHandles, GoodbyeDrained DEF Phone
<1>3. CASE AccountSteps
  <2>1. CASE UserRegister \/ UserInvites \/ Timer \/ Quit
    <3>1. UNCHANGED <<presence, queue>> /\ pc # "off" /\ pc' # "off"
      BY <1>3, <2>1 DEF AccountSteps, UserRegister, UserInvites, Timer, Quit, turn
    <3> QED BY <3>1, GoodbyeQuiet
  <2>2. ASSUME NEW i \in DOMAIN requests, Accepts(i) \/ Challenges(i) \/ Fails(i)
        PROVE  GoodbyeInv'
    <3>1. UNCHANGED <<presence, pc>>
      BY <1>3, <2>2 DEF AccountSteps, Accepts, Challenges, Fails, turn
    <3>2. \E e : Signals(e) /\ e.type \notin {"in_sub", "in_closed", "sub_answered", "notify"}
      <4>1. CASE Accepts(i)
        <5>1. CASE requests[i].kind = "register"
          <6>1. PICK moved \in BOOLEAN :
                  Signals([type |-> "reg_ok", rid |-> i, carries |-> requests[i].carries,
                           unregisters |-> requests[i].unregisters, moved |-> moved])
            BY <4>1, <5>1 DEF Accepts
          <6> QED BY <6>1
        <5>2. CASE requests[i].kind # "register"
          BY <4>1, <5>2 DEF Accepts
        <5> QED BY <5>1, <5>2
      <4>2. CASE Challenges(i)
        <5>1. CASE requests[i].kind = "register"
          BY <4>2, <5>1 DEF Challenges
        <5>2. CASE requests[i].kind # "register"
          BY <4>2, <5>2 DEF Challenges
        <5> QED BY <5>1, <5>2
      <4>3. CASE Fails(i)
        BY <4>3 DEF Fails
      <4> QED BY <2>2, <4>1, <4>2, <4>3
    <3> QED BY <3>1, <3>2, GoodbyeQuiet
  <2> QED BY <1>3, <2>1, <2>2 DEF AccountSteps
<1>4. CASE FriendSteps
  <2>1. NotifyAllFriends \/ FriendActs
    BY <1>4 DEF FriendSteps, FriendActs
  <2> QED BY <2>1, GoodbyeTells, GoodbyeFriend
<1> QED BY <1>1, <1>2, <1>3, <1>4 DEF Next

\* When the program has ended, ui_config_uninit has told the friend's last
\* subscription so and has ended ours, if it knew it: GoodbyeIsSaid holds for
\* every policy and every number of subscriptions of either side.
THEOREM FriendsHearGoodbye == Spec => []GoodbyeIsSaid
<1>1. Init => DialogInv /\ GoodbyeInv
  <2> SUFFICES ASSUME Init PROVE DialogInv /\ GoodbyeInv
    OBVIOUS
  <2>1. /\ queue = << >> /\ friend.sid = 0 /\ friend.out_did = 0 /\ watches = << >>
        /\ friend.nid = 0 /\ friend.in_did = 0
    BY DEF Init, AccountInit
  <2>2. \A i \in 1..Len(subs) : subs[i].open /\ ~subs[i].answered
    BY DEF Init
  <2>3. DialogInv
    BY <2>1, <2>2 DEF DialogInv, WatchInv, SubscriptionInv
  <2>4. GoodbyeInv
    BY <2>1, <2>2 DEF GoodbyeInv, WatchOrder, AnswerOrder
  <2> QED BY <2>3, <2>4
<1>2. TypeInv /\ GoodbyeInv => GoodbyeIsSaid
  <2> SUFFICES ASSUME TypeInv, GoodbyeInv, pc = "off" PROVE GoodbyeIsSaid
    BY DEF GoodbyeIsSaid
  <2>1. watches \in Seq(Watch) /\ Len(watches) \in Nat /\ Len(queue) \in Nat
        /\ queue \in Seq(Events(Len(requests), Len(watches), Len(subs)))
    BY DialogShape, Lengths, QueueShape
  <2>2. ASSUME NEW i \in DOMAIN watches, watches[i].open, watches[i].told # "none",
               \A j \in i + 1..Len(watches) : watches[j].told = "none"
        PROVE  watches[i].told = "terminated"
    <3>1. i \in 1..Len(watches)
      BY <2>1
    <3>2. \A j \in 1..Len(watches) : j > i => j \in i + 1..Len(watches)
      BY <2>1, <3>1
    <3>3. LastTold(i)
      BY <2>2, <3>2 DEF LastTold
    <3> QED BY <3>1, <3>3 DEF GoodbyeInv, WatchOrder
  <2>3. ASSUME Len(subs) = 1, subs[1].open, subs[1].answered
        PROVE  Awaited([type |-> "sub_answered", sid |-> 1])
    <3>1. After(queue, 0, Answered(1))
      BY <2>3 DEF GoodbyeInv, AnswerOrder
    <3> QED BY <2>1, <3>1 DEF After, Answered, Awaited
  <2> QED BY <2>2, <2>3 DEF GoodbyeIsSaid
<1> QED BY <1>1, <1>2, DialogStep, GoodbyeStep, TypesInit, TypesStep, PTL DEF Spec

----------------------------------------------------------------------------
(* Why the phone asks for a password.  A challenge that is handled uses up *)
(* first_time; from then on until the stack's next turn a request waits to *)
(* be sent again with what is known (Retrying), and no answer can be in    *)
(* the queue.  So the next challenge finds the password tried; and if it   *)
(* is the right one, it finds that it works.                               *)

NoAnswer == \A k \in 1..Len(queue) : ~IsAnswer(queue[k])

TriedIn(r) == \E i \in 1..Len(requests) : r \in requests[i].tried

\* The phone has handled the challenge, and the stack will send again.
Retrying == proxy.rid # 0 /\ requests[proxy.rid].state = "challenged" /\ NoAnswer

Carried(p) == \E k \in 1..Len(queue) : queue[k].type = "reg_ok" /\ queue[k].carries = {p}

\* The right password is on its way, or the answer that it works.
Proving(p) ==
  \/ Retrying
  \/ proxy.rid # 0 /\ requests[proxy.rid].state = "sent" /\ requests[proxy.rid].carries = {p}
  \/ Carried(p)

EventsFit ==
  \A k \in 1..Len(queue) :
    /\ queue[k].type \notin {"challenged", "answered"}
    /\ queue[k].type = "reg_fail" => queue[k].realms \subseteq passwords.protects

RequestsFit ==
  \A i \in 1..Len(requests) :
    /\ requests[i].carries \subseteq requests[i].tried
    /\ requests[i].state = "failed" => requests[i].failed_once

FirstTimes ==
  \A r \in passwords.known : ~auth.first_time[r] =>
    r \in passwords.protects /\ (TriedIn(r) \/ Retrying)

AskedTried == \A r \in auth.asked \cap passwords.known : TriedIn(r)

TheRight(p) == passwords.protects = {p} /\ passwords.right = {p}

RightWorks ==
  NoFailure => \A p \in Realms : TheRight(p) =>
    p \notin auth.asked /\ (auth.first_time[p] \/ auth.works[p] \/ Proving(p))

Reasons == EventsFit /\ RequestsFit /\ FirstTimes /\ AskedTried /\ RightWorks

ReasonInv == Running /\ OnlyRegisters => Reasons

\* What a step leaves of a request
Keeps ==
  /\ Len(requests') \in Nat /\ Len(requests') >= Len(requests)
  /\ \A i \in 1..Len(requests) :
       /\ requests'[i].kind = requests[i].kind
       /\ requests[i].tried \subseteq requests'[i].tried
       /\ requests[i].failed_once => requests'[i].failed_once

LEMMA RequestsKeep ==
  ASSUME TypeInv, requests' \in Seq(Request), Keeps
  PROVE  /\ OnlyRegisters' => OnlyRegisters
         /\ NoFailure' => NoFailure
         /\ \A r : TriedIn(r) => TriedIn(r)'
<1>1. /\ DOMAIN requests = 1..Len(requests) /\ DOMAIN requests' = 1..Len(requests')
      /\ \A i \in 1..Len(requests) : i \in 1..Len(requests')
  BY QueueShape DEF Keeps
<1>2. OnlyRegisters' => OnlyRegisters
  BY <1>1 DEF Keeps, OnlyRegisters
<1>3. NoFailure' => NoFailure
  BY <1>1 DEF Keeps, NoFailure
<1>4. ASSUME NEW r, TriedIn(r) PROVE TriedIn(r)'
  BY <1>1, <1>4 DEF Keeps, TriedIn
<1> QED BY <1>2, <1>3, <1>4

\* A step that does not touch the infos: where a request waited to be sent
\* again, it still does or has been, and the proof that the password works goes on.
LEMMA ReasonsStay ==
  ASSUME TypeInv, requests' \in Seq(Request), Running, OnlyRegisters, Reasons, Keeps,
         UNCHANGED <<passwords, auth>>, EventsFit', RequestsFit',
         Retrying => Retrying' \/ (\A r \in Answerable : TriedIn(r)'),
         NoFailure' => \A p \in Realms : TheRight(p) /\ Proving(p) => Proving(p)'
  PROVE  ReasonInv'
<1>1. /\ OnlyRegisters' => OnlyRegisters
      /\ NoFailure' => NoFailure
      /\ \A r : TriedIn(r) => TriedIn(r)'
  BY RequestsKeep
<1>2. FirstTimes'
  <2> SUFFICES ASSUME NEW r \in passwords.known, ~auth.first_time[r]
               PROVE  r \in passwords.protects /\ (TriedIn(r)' \/ Retrying')
    BY DEF FirstTimes
  <2>1. r \in passwords.protects /\ (TriedIn(r) \/ Retrying)
    BY DEF Reasons, FirstTimes
  <2>2. r \in Answerable
    BY <2>1 DEF Answerable
  <2> QED BY <1>1, <2>1, <2>2
<1>3. AskedTried'
  BY <1>1 DEF Reasons, AskedTried
<1>4. RightWorks'
  <2> SUFFICES ASSUME NoFailure', NEW p \in Realms, TheRight(p)'
               PROVE  /\ p \notin auth.asked
                      /\ auth.first_time[p] \/ auth.works[p] \/ Proving(p)'
    BY DEF RightWorks
  <2>1. TheRight(p)
    BY DEF TheRight
  <2>2. p \notin auth.asked /\ (auth.first_time[p] \/ auth.works[p] \/ Proving(p))
    BY <1>1, <2>1 DEF Reasons, RightWorks
  <2>3. Proving(p) => Proving(p)'
    BY <2>1
  <2> QED BY <2>2, <2>3
<1> QED BY <1>2, <1>3, <1>4 DEF ReasonInv, Reasons

\* The queue loses its head, or grows by one event.
LEMMA AnswersTaken ==
  ASSUME TypeInv, queue # << >>, queue' = Tail(queue), ~IsAnswer(Head(queue))
  PROVE  /\ NoAnswer' <=> NoAnswer
         /\ \A p : Carried(p)' <=> Carried(p)
<1>1. /\ Len(queue') = Len(queue) - 1 /\ Len(queue) \in Nat /\ Len(queue) > 0
      /\ Head(queue) = queue[1]
      /\ \A k \in 1..Len(queue') : queue'[k] = queue[k + 1] /\ k + 1 \in 1..Len(queue)
  BY QueueShape, TailSeq
<1>2. \A k \in 1..Len(queue) : k = 1 \/ (k - 1 \in 1..Len(queue') /\ queue'[k - 1] = queue[k])
  BY <1>1
<1>3. NoAnswer' <=> NoAnswer
  BY <1>1, <1>2 DEF NoAnswer, IsAnswer
<1>4. ASSUME NEW p PROVE Carried(p)' <=> Carried(p)
  <2>1. Carried(p)' => Carried(p)
    BY <1>1 DEF Carried
  <2>2. ASSUME NEW k \in 1..Len(queue), queue[k].type = "reg_ok", queue[k].carries = {p}
        PROVE  Carried(p)'
    <3>1. k # 1
      BY <1>1, <2>2 DEF IsAnswer
    <3> QED BY <1>2, <2>2, <3>1 DEF Carried
  <2> QED BY <2>1, <2>2 DEF Carried
<1> QED BY <1>3, <1>4

LEMMA AnswersJoin ==
  ASSUME TypeInv, NEW e, Signals(e)
  PROVE  /\ ~IsAnswer(e) => (NoAnswer' <=> NoAnswer)
         /\ \A p : Carried(p) => Carried(p)'
         /\ \A p : e.type = "reg_ok" /\ e.carries = {p} => Carried(p)'
         /\ EventsFit /\ e.type \notin {"challenged", "answered"} /\ UNCHANGED passwords
              /\ (e.type = "reg_fail" => e.realms \subseteq passwords.protects)
            => EventsFit'
<1>1. /\ Len(queue') = Len(queue) + 1 /\ Len(queue) \in Nat
      /\ queue'[Len(queue) + 1] = e
      /\ \A k \in 1..Len(queue) : queue'[k] = queue[k] /\ k \in 1..Len(queue')
      /\ \A k \in 1..Len(queue') : k \in 1..Len(queue) \/ k = Len(queue) + 1
      /\ Len(queue) + 1 \in 1..Len(queue')
  BY QueueShape DEF Signals
<1>2. ~IsAnswer(e) => (NoAnswer' <=> NoAnswer)
  BY <1>1 DEF NoAnswer, IsAnswer
<1>3. ASSUME NEW p, Carried(p) PROVE Carried(p)'
  BY <1>1, <1>3 DEF Carried
<1>4. ASSUME NEW p, e.type = "reg_ok", e.carries = {p} PROVE Carried(p)'
  BY <1>1, <1>4 DEF Carried
<1>5. ASSUME EventsFit, e.type \notin {"challenged", "answered"}, UNCHANGED passwords,
             e.type = "reg_fail" => e.realms \subseteq passwords.protects
      PROVE  EventsFit'
  BY <1>1, <1>5 DEF EventsFit
<1> QED BY <1>2, <1>3, <1>4, <1>5

LEMMA EventsFitTaken ==
  ASSUME TypeInv, queue # << >>, queue' = Tail(queue), UNCHANGED passwords, EventsFit
  PROVE  EventsFit'
<1>1. \A k \in 1..Len(queue') : queue'[k] = queue[k + 1] /\ k + 1 \in 1..Len(queue)
  BY QueueShape, TailSeq
<1> QED BY <1>1 DEF EventsFit

\* A request whose last state was no challenge is sent again.
LEMMA ResentKeeps ==
  ASSUME TypeInv, NEW rid \in 1..Len(requests), NEW u \in BOOLEAN,
         requests[rid].state # "challenged", requests' = Resent(rid, u), RequestsFit
  PROVE  /\ requests' \in Seq(Request) /\ Keeps /\ RequestsFit'
         /\ requests'[rid].state = "sent"
         /\ requests'[rid].failed_once = requests[rid].failed_once
<1>1. AccountTypes /\ requests \in Seq(Request) /\ requests[rid] \in Request
  BY DEF TypeInv, AccountTypes
<1> DEFINE new == [requests[rid] EXCEPT !.state = "sent", !.unregisters = u,
                     !.carries = {}, !.tried = @ \cup {}]
<1>2. /\ new \in Request /\ new.kind = requests[rid].kind /\ new.state = "sent"
      /\ new.carries = {} /\ new.tried = requests[rid].tried
      /\ new.failed_once = requests[rid].failed_once
  BY <1>1 DEF Request
<1>3. requests' = [requests EXCEPT ![rid] = new]
  BY DEF Resent
<1> HIDE DEF new
<1>4. /\ requests' \in Seq(Request) /\ Len(requests') = Len(requests) /\ requests'[rid] = new
      /\ \A k \in 1..Len(requests) : k # rid => requests'[k] = requests[k]
  BY <1>1, <1>2, <1>3, OutcomeTypes
<1>5. Keeps
  BY <1>2, <1>4, Lengths DEF Keeps
<1>6. RequestsFit'
  BY <1>2, <1>4 DEF RequestsFit
<1> QED BY <1>2, <1>4, <1>5, <1>6

LEMMA RegistersKeeps ==
  ASSUME TypeInv, NEW cfg \in [rid : 0..Len(requests), registered : BOOLEAN,
                               auth_failures : Nat],
         Registers(cfg), RequestsFit
  PROVE  requests' \in Seq(Request) /\ Keeps /\ RequestsFit'
<1>1. AccountTypes /\ requests \in Seq(Request) /\ Len(requests) \in Nat
  BY Lengths DEF TypeInv, AccountTypes
<1>2. /\ requests' \in Seq(Request) /\ Len(requests') = Len(requests) + 1
      /\ \A k \in 1..Len(requests) : requests'[k] = requests[k]
  BY <1>1, RegistersTypes
<1>3. requests'[Len(requests) + 1] = NewRequest("register")
  BY <1>1, NewRequestTypes, AppendSeq DEF Registers
<1>4. Keeps
  BY <1>1, <1>2 DEF Keeps
<1>5. RequestsFit'
  <2>1. \A i \in 1..Len(requests') : i \in 1..Len(requests) \/ i = Len(requests) + 1
    BY <1>1, <1>2
  <2>2. NewRequest("register").carries = {} /\ NewRequest("register").state = "sent"
    BY DEF NewRequest
  <2> QED BY <1>2, <1>3, <2>1, <2>2 DEF RequestsFit
<1> QED BY <1>2, <1>4, <1>5

\* The answer at the head of the queue is the only one there.
LEMMA HeadAlone ==
  ASSUME TypeInv, Running, ProxyInv, EventsFit, queue # << >>, queue' = Tail(queue),
         IsAnswer(Head(queue))
  PROVE  /\ Head(queue) \in Events(Len(requests), Len(watches), Len(subs))
         /\ Head(queue).rid = proxy.rid /\ proxy.rid \in 1..Len(requests)
         /\ requests[proxy.rid].state = Outcome(Head(queue))
         /\ Head(queue).type = "reg_fail" => Head(queue).realms \subseteq passwords.protects
         /\ ~NoAnswer /\ NoAnswer'
         /\ \A p : Carried(p) => Head(queue).type = "reg_ok" /\ Head(queue).carries = {p}
<1>1. /\ Len(queue') = Len(queue) - 1 /\ Len(queue) \in Nat /\ Len(queue) > 0
      /\ Head(queue) = queue[1] /\ 1 \in 1..Len(queue)
      /\ Head(queue) \in Events(Len(requests), Len(watches), Len(subs))
      /\ \A k \in 1..Len(queue') : queue'[k] = queue[k + 1] /\ k + 1 \in 1..Len(queue)
                                   /\ k + 1 # 1
  BY QueueShape, TailSeq
<1>2. \A k \in 1..Len(queue) : IsAnswer(queue[k]) => k = 1
  BY <1>1 DEF ProxyInv
<1>3. /\ Head(queue).rid = proxy.rid /\ proxy.rid \in 1..Len(requests)
      /\ requests[proxy.rid].state = Outcome(Head(queue))
  BY <1>1, QueueShape DEF ProxyInv
<1>4. Head(queue).type = "reg_fail" => Head(queue).realms \subseteq passwords.protects
  BY <1>1 DEF EventsFit
<1>5. ~NoAnswer
  BY <1>1 DEF NoAnswer
<1>6. NoAnswer'
  <2>1. \A k \in 1..Len(queue') : ~IsAnswer(queue'[k])
    BY <1>1, <1>2
  <2> QED BY <2>1 DEF NoAnswer, IsAnswer
<1>7. ASSUME NEW p, Carried(p)
      PROVE  Head(queue).type = "reg_ok" /\ Head(queue).carries = {p}
  <2>1. PICK k \in 1..Len(queue) : queue[k].type = "reg_ok" /\ queue[k].carries = {p}
    BY <1>7 DEF Carried
  <2>2. k = 1
    BY <1>2, <2>1 DEF IsAnswer
  <2> QED BY <1>1, <2>1, <2>2
<1> QED BY <1>1, <1>3, <1>4, <1>5, <1>6, <1>7

\* A 200: the password that it carries works.
LEMMA ReasonSuccess ==
  ASSUME TypeInv, Running, OnlyRegisters, ProxyInv, Reasons,
         queue # << >>, queue' = Tail(queue), UNCHANGED passwords,
         Head(queue).type = "reg_ok", RegistrationSuccess(Head(queue))
  PROVE  ReasonInv'
<1> DEFINE e == Head(queue)
<1>1. /\ e.rid = proxy.rid /\ proxy.rid \in 1..Len(requests)
      /\ requests[proxy.rid].state = "accepted" /\ ~NoAnswer
      /\ \A p : Carried(p) => e.carries = {p}
  BY HeadAlone DEF Reasons, IsAnswer, Outcome
<1>2. requests' \in Seq(Request) /\ Keeps /\ RequestsFit'
  <2>1. requests' = requests \/ requests' = Resent(proxy.rid, FALSE)
    BY <1>1 DEF RegistrationSuccess
  <2>2. CASE requests' = requests
    BY <2>2, QueueShape DEF Keeps, Reasons, RequestsFit
  <2>3. CASE requests' = Resent(proxy.rid, FALSE)
    BY <1>1, <2>3, ResentKeeps DEF Reasons
  <2> QED BY <2>1, <2>2, <2>3
<1>3. /\ OnlyRegisters' => OnlyRegisters
      /\ NoFailure' => NoFailure
      /\ \A r : TriedIn(r) => TriedIn(r)'
  BY <1>2, RequestsKeep
<1>4. /\ auth'.first_time = auth.first_time /\ auth'.asked = auth.asked
      /\ \A p \in Realms : auth.works[p] \/ e.carries = {p} => auth'.works[p]
  <2>1. auth \in Auth /\ AuthenticationOk(e.carries)
    BY DEF TypeInv, AccountTypes, RegistrationSuccess
  <2> HIDE DEF e
  <2> DEFINE last == IF "www" \in e.carries THEN "www" ELSE "proxy"
  <2>2. auth' = IF e.carries = {} THEN auth ELSE [auth EXCEPT !.works[last] = TRUE]
    BY <2>1 DEF AuthenticationOk
  <2>3. last \in Realms /\ \A p \in Realms : e.carries = {p} => last = p
    BY DEF Realms
  <2> HIDE DEF last
  <2>4. CASE e.carries = {}
    BY <2>2, <2>4
  <2>5. CASE e.carries # {}
    <3>1. auth' = [auth EXCEPT !.works = [auth.works EXCEPT ![last] = TRUE]]
      BY <2>2, <2>5
    <3>2. /\ auth'.first_time = auth.first_time /\ auth'.asked = auth.asked
          /\ auth'.works = [auth.works EXCEPT ![last] = TRUE]
          /\ auth.works \in [Realms -> BOOLEAN]
      BY <2>1, <3>1 DEF Auth
    <3> QED BY <2>3, <3>2
  <2> QED BY <2>4, <2>5
<1>5. EventsFit'
  BY EventsFitTaken DEF Reasons
<1>6. FirstTimes'
  <2> SUFFICES ASSUME NEW r \in passwords.known, ~auth.first_time[r]
               PROVE  r \in passwords.protects /\ TriedIn(r)'
    BY <1>4, Zenon DEF FirstTimes
  <2>1. r \in passwords.protects /\ (TriedIn(r) \/ Retrying)
    BY DEF Reasons, FirstTimes
  <2> QED BY <1>1, <1>3, <2>1 DEF Retrying
<1>7. AskedTried'
  BY <1>3, <1>4 DEF Reasons, AskedTried
<1>8. RightWorks'
  <2> SUFFICES ASSUME NoFailure', NEW p \in Realms, TheRight(p)'
               PROVE  /\ p \notin auth'.asked
                      /\ auth'.first_time[p] \/ auth'.works[p]
    BY Zenon DEF RightWorks
  <2>1. TheRight(p)
    BY DEF TheRight
  <2>2. p \notin auth.asked /\ (auth.first_time[p] \/ auth.works[p] \/ Proving(p))
    BY <1>3, <2>1 DEF Reasons, RightWorks
  <2>3. Proving(p) => e.carries = {p}
    BY <1>1 DEF Proving, Retrying
  <2>4. p \notin auth'.asked
    BY <1>4, <2>2
  <2> QED BY <1>4, <2>2, <2>3, <2>4, Zenon
<1> QED BY <1>2, <1>5, <1>6, <1>7, <1>8 DEF ReasonInv, Reasons

\* A 401: what the phone asks for has been tried, and works if it is right.
LEMMA ReasonChallenged ==
  ASSUME TypeInv, Running, OnlyRegisters, ProxyInv, Reasons,
         queue # << >>, queue' = Tail(queue), UNCHANGED <<passwords, proxy, requests>>,
         Head(queue).type = "reg_fail", Head(queue).status = "401",
         ProcessAuthentication(Head(queue).realms)
  PROVE  ReasonInv'
<1> DEFINE e == Head(queue)
<1>1. /\ proxy.rid \in 1..Len(requests) /\ requests[proxy.rid].state = "challenged"
      /\ e.realms \subseteq passwords.protects /\ ~NoAnswer /\ NoAnswer'
      /\ \A p : ~Carried(p)
      /\ e \in Events(Len(requests), Len(watches), Len(subs))
  BY HeadAlone DEF Reasons, IsAnswer, Outcome
<1>2. e.realms \in SUBSET Realms /\ auth \in Auth
  <2>1. auth \in Auth
    BY DEF TypeInv, AccountTypes
  <2> QED BY <1>1, <2>1, Lengths, EventFields
<1>3. Retrying' /\ ~Retrying /\ \A p : ~Proving(p)
  BY <1>1, QueueShape DEF Retrying, Proving
<1>4. EventsFit' /\ RequestsFit'
  BY EventsFitTaken DEF Reasons, RequestsFit
<1>5. requests' = requests /\ passwords' = passwords /\ (\A r : TriedIn(r) => TriedIn(r)')
      /\ (NoFailure' => NoFailure)
  BY DEF TriedIn, NoFailure
<1> HIDE DEF e
<1>6. /\ auth'.asked = auth.asked \cup {r \in e.realms : Asks(r)}
      /\ auth'.works = auth.works
      /\ \A r \in Realms : auth'.first_time[r] <=> (auth.first_time[r] /\ r \notin e.realms)
  <2> DEFINE firsts == [r \in Realms |-> auth.first_time[r] /\ r \notin e.realms]
             all == auth.asked \cup {r \in e.realms : Asks(r)}
             count == auth.automatic_action + Cardinality({r \in e.realms : Asks(r)})
  <2>1. auth' = [auth EXCEPT !.automatic_action = count, !.first_time = firsts, !.asked = all]
    BY DEF ProcessAuthentication, e
  <2>2. \A r \in Realms : firsts[r] <=> (auth.first_time[r] /\ r \notin e.realms)
    BY Zenon
  <2> HIDE DEF firsts, all, count
  <2>3. auth'.asked = all /\ auth'.works = auth.works /\ auth'.first_time = firsts
    BY <1>2, <2>1 DEF Auth
  <2> QED BY <2>2, <2>3, Zenon DEF all
<1>7. FirstTimes'
  <2> SUFFICES ASSUME NEW r \in passwords.known, ~auth'.first_time[r]
               PROVE  r \in passwords.protects
    BY <1>3, <1>5, Zenon DEF FirstTimes
  <2>1. r \in Realms
    BY QueueShape DEF PasswordSets
  <2>2. ~auth.first_time[r] \/ r \in e.realms
    BY <1>6, <2>1, Zenon
  <2> QED BY <1>1, <2>2, Zenon DEF e, Reasons, FirstTimes
<1>8. ASSUME NEW r \in e.realms, r \in passwords.known, Asks(r)
      PROVE  ~auth.works[r] /\ ~auth.first_time[r] /\ TriedIn(r) /\ r \in Realms
  <2>1. ~auth.works[r] /\ ~auth.first_time[r]
    BY <1>8, Zenon DEF Asks
  <2>2. TriedIn(r)
    BY <1>3, <1>8, <2>1, Zenon DEF Reasons, FirstTimes
  <2> QED BY <1>2, <1>8, <2>1, <2>2, Zenon
<1>9. AskedTried'
  <2> SUFFICES ASSUME NEW r \in auth'.asked, r \in passwords.known PROVE TriedIn(r)'
    BY <1>5 DEF AskedTried
  <2>1. CASE r \in auth.asked
    BY <1>5, <2>1 DEF Reasons, AskedTried
  <2>2. CASE r \in e.realms /\ Asks(r)
    BY <1>5, <1>8, <2>2, Zenon
  <2> QED BY <1>6, <2>1, <2>2
<1>10. RightWorks'
  <2> SUFFICES ASSUME NoFailure', NEW p \in Realms, TheRight(p)' PROVE p \notin auth'.asked
    BY <1>3 DEF RightWorks, Proving
  <2>1. TheRight(p) /\ p \in passwords.known
    BY QueueShape DEF TheRight, PasswordSets
  <2>2. p \notin auth.asked /\ (auth.first_time[p] \/ auth.works[p])
    BY <1>3, <1>5, <2>1 DEF Reasons, RightWorks
  <2>3. ~(p \in e.realms /\ Asks(p))
    BY <1>8, <2>1, <2>2, Zenon
  <2> QED BY <1>6, <2>2, <2>3
<1> QED BY <1>4, <1>7, <1>9, <1>10 DEF ReasonInv, Reasons

LEMMA ReasonHandles ==
  ASSUME TypeInv, Running, OnlyRegisters, ProxyInv, Reasons, Handle, Running'
  PROVE  ReasonInv'
<1> DEFINE e == Head(queue)
<1>1. /\ queue # << >> /\ queue' = Tail(queue)
      /\ e = queue[1] /\ 1 \in 1..Len(queue)
  BY QueueShape, TailSeq DEF Handle
<1>2. e.type \notin {"challenged", "answered"}
  BY <1>1 DEF Reasons, EventsFit
<1>3. EventsFit' \/ ~(UNCHANGED passwords)
  BY <1>1, EventsFitTaken DEF Reasons
<1>4. CASE UNCHANGED account /\ ~IsAnswer(e)
  <2>1. UNCHANGED <<passwords, auth, proxy, requests>>
    BY <1>4 DEF account
  <2>2. (NoAnswer' <=> NoAnswer) /\ \A p : Carried(p)' <=> Carried(p)
    BY <1>1, <1>4, AnswersTaken
  <2>3. requests' \in Seq(Request) /\ Keeps /\ RequestsFit'
    BY <2>1, QueueShape DEF Keeps, Reasons, RequestsFit
  <2>4. /\ Retrying => Retrying'
        /\ \A p : Proving(p) => Proving(p)'
    BY <2>1, <2>2 DEF Retrying, Proving
  <2> QED BY <1>3, <2>1, <2>3, <2>4, ReasonsStay
<1>5. CASE e.type = "reg_ok" /\ RegistrationSuccess(e) /\ UNCHANGED passwords
  BY <1>1, <1>5, ReasonSuccess
<1>6. CASE e.type = "reg_fail" /\ RegistrationFailure(e) /\ UNCHANGED passwords /\ ~ReadsNull(e)
  <2>1. CASE e.status = "401"
    BY <1>1, <1>6, <2>1, ReasonChallenged DEF RegistrationFailure
  <2>2. CASE e.status # "401"
    <3>1. /\ proxy.rid \in 1..Len(requests) /\ requests[proxy.rid].state = "failed"
          /\ ~NoAnswer
      BY <1>1, <1>6, <2>2, HeadAlone DEF Reasons, IsAnswer, Outcome
    <3>2. requests[proxy.rid].failed_once /\ RequestsFit
      BY <3>1 DEF Reasons, RequestsFit
    <3>3. auth' = auth
      BY <1>6, <2>2 DEF RegistrationFailure
    <3>4. requests' \in Seq(Request) /\ Keeps /\ RequestsFit'
      <4>1. CASE requests' = Resent(proxy.rid, FALSE)
        BY <3>1, <3>2, <4>1, ResentKeeps
      <4>2. CASE AuthenticationFailure
        <5> DEFINE counted == [proxy EXCEPT !.auth_failures = @ + 1]
        <5>1. counted \in [rid : 0..Len(requests), registered : BOOLEAN,
                           auth_failures : Nat]
          BY DEF TypeInv, AccountTypes
        <5>2. Registers(counted) \/ requests' = requests
          BY <4>2 DEF AuthenticationFailure
        <5> HIDE DEF counted
        <5>3. CASE Registers(counted)
          BY <3>2, <5>1, <5>3, RegistersKeeps
        <5>4. CASE requests' = requests
          BY <3>2, <5>4, QueueShape DEF Keeps, RequestsFit
        <5> QED BY <5>2, <5>3, <5>4
      <4>3. CASE requests' = requests
        BY <3>2, <4>3, QueueShape DEF Keeps, RequestsFit
      <4> QED BY <1>6, <2>2, <4>1, <4>2, <4>3 DEF RegistrationFailure
    <3>5. ~NoFailure'
      <4>1. DOMAIN requests' = 1..Len(requests') /\ proxy.rid \in 1..Len(requests')
            /\ requests'[proxy.rid].failed_once
        BY <3>1, <3>2, <3>4, Lengths DEF Keeps
      <4> QED BY <4>1 DEF NoFailure
    <3>6. ~Retrying
      BY <3>1 DEF Retrying
    <3> QED BY <1>3, <1>6, <3>3, <3>4, <3>5, <3>6, ReasonsStay
  <2> QED BY <2>1, <2>2
<1> HIDE DEF e
<1>7. pc' # "crashed"
  BY DEF Running
<1>8. ~ReadsNull(e) /\ (AccountEvent(e) \/ (PresenceEvent(e) /\ UNCHANGED account))
  BY <1>7 DEF Handle, e
<1>9. PresenceEvent(e) => ~IsAnswer(e)
  BY DEF PresenceEvent, IsAnswer
<1>10. AccountEvent(e) =>
         /\ UNCHANGED passwords
         /\ \/ e.type = "reg_ok" /\ RegistrationSuccess(e)
            \/ e.type = "reg_fail" /\ RegistrationFailure(e)
  BY <1>2 DEF AccountEvent
<1> QED BY <1>4, <1>5, <1>6, <1>8, <1>9, <1>10

LEMMA RetriedKeeps ==
  ASSUME TypeInv, requests' = Retried, RequestsFit
  PROVE  /\ requests' \in Seq(Request) /\ Keeps /\ RequestsFit'
         /\ \A i \in 1..Len(requests) :
              /\ requests[i].state # "challenged" => requests'[i] = requests[i]
              /\ requests[i].state = "challenged" =>
                   /\ Answerable \subseteq requests'[i].tried
                   /\ \/ requests'[i] = requests[i]
                      \/ requests'[i].state = "sent" /\ requests'[i].carries = Answerable
<1>1. AccountTypes /\ requests \in Seq(Request) /\ Len(requests) \in Nat
  BY Lengths DEF TypeInv, AccountTypes
<1>2. requests' \in Seq(Request) /\ Len(requests') = Len(requests)
  BY <1>1, RetriedTypes
<1> DEFINE again(k) == [requests[k] EXCEPT !.state = "sent", !.carries = Answerable,
                                           !.tried = @ \cup Answerable]
<1>3. ASSUME NEW k \in 1..Len(requests)
      PROVE  /\ again(k).kind = requests[k].kind
             /\ again(k).failed_once = requests[k].failed_once
             /\ again(k).state = "sent" /\ again(k).carries = Answerable
             /\ again(k).tried = requests[k].tried \cup Answerable
  <2>1. requests[k] \in Request
    BY <1>1
  <2> QED BY <2>1 DEF Request
<1>4. \A k \in 1..Len(requests) :
        requests'[k] = IF requests[k].state = "challenged" /\ requests[k].carries # Answerable
                       THEN again(k) ELSE requests[k]
  <2>1. Retried = [k \in 1..Len(requests) |->
                     IF requests[k].state = "challenged"
                        /\ requests[k].carries # Answerable
                     THEN again(k) ELSE requests[k]]
    BY ONLY <1>1 DEF Retried
  <2> HIDE DEF again
  <2> QED BY <2>1
<1> HIDE DEF again
<1>5. Keeps
  BY <1>1, <1>2, <1>3, <1>4 DEF Keeps
<1>6. RequestsFit'
  BY <1>2, <1>3, <1>4 DEF RequestsFit
<1>7. ASSUME NEW i \in 1..Len(requests)
      PROVE  /\ requests[i].state # "challenged" => requests'[i] = requests[i]
             /\ requests[i].state = "challenged" =>
                  /\ Answerable \subseteq requests'[i].tried
                  /\ \/ requests'[i] = requests[i]
                     \/ requests'[i].state = "sent" /\ requests'[i].carries = Answerable
  BY <1>3, <1>4 DEF RequestsFit
<1> QED BY <1>2, <1>5, <1>6, <1>7

LEMMA ReasonDrained ==
  ASSUME TypeInv, Running, OnlyRegisters, ProxyInv, Reasons, DrainDone
  PROVE  ReasonInv'
<1>1. queue = << >> /\ queue' = << >> /\ UNCHANGED <<passwords, auth, proxy>>
  BY DEF DrainDone
<1>2. NoAnswer /\ NoAnswer' /\ (\A p : ~Carried(p)) /\ EventsFit'
  <2>1. 1..Len(queue) = {} /\ 1..Len(queue') = {}
    BY <1>1
  <2> QED BY <2>1 DEF NoAnswer, Carried, EventsFit
<1>3. proxy.rid # 0 => proxy.rid \in 1..Len(requests)
  BY QueueShape
<1>4. CASE UNCHANGED requests
  <2>1. requests' \in Seq(Request) /\ Keeps /\ RequestsFit'
    BY <1>4, QueueShape DEF Keeps, Reasons, RequestsFit
  <2>2. (Retrying => Retrying') /\ \A p : Proving(p) => Proving(p)'
    BY <1>1, <1>2, <1>4 DEF Retrying, Proving
  <2> QED BY <1>1, <1>2, <2>1, <2>2, ReasonsStay
<1>5. CASE requests' = Retried
  <2>1. /\ requests' \in Seq(Request) /\ Keeps /\ RequestsFit'
        /\ \A i \in 1..Len(requests) :
             /\ requests[i].state # "challenged" => requests'[i] = requests[i]
             /\ requests[i].state = "challenged" =>
                  /\ Answerable \subseteq requests'[i].tried
                  /\ \/ requests'[i] = requests[i]
                     \/ requests'[i].state = "sent" /\ requests'[i].carries = Answerable
    BY <1>5, RetriedKeeps DEF Reasons
  <2>2. ASSUME Retrying, NEW r \in Answerable PROVE TriedIn(r)'
    <3>1. proxy.rid \in 1..Len(requests') /\ r \in requests'[proxy.rid].tried
      BY <1>3, <2>1, <2>2, Lengths DEF Retrying, Keeps
    <3> QED BY <3>1 DEF TriedIn
  <2>3. ASSUME NEW p \in Realms, TheRight(p), Proving(p) PROVE Proving(p)'
    <3>1. Answerable = {p}
      BY <2>3, QueueShape DEF Answerable, TheRight, PasswordSets
    <3>2. CASE Retrying
      BY <1>1, <1>2, <1>3, <2>1, <3>1, <3>2 DEF Retrying, Proving
    <3>3. CASE proxy.rid # 0 /\ requests[proxy.rid].state = "sent"
               /\ requests[proxy.rid].carries = {p}
      BY <1>1, <1>3, <2>1, <3>3 DEF Proving
    <3> QED BY <1>2, <2>3, <3>2, <3>3 DEF Proving
  <2> QED BY <1>1, <1>2, <2>1, <2>2, <2>3, ReasonsStay
<1>6. CASE /\ proxy.rid # 0 /\ requests[proxy.rid].state = "accepted"
           /\ requests' = Resent(proxy.rid, FALSE)
  <2>1. requests' \in Seq(Request) /\ Keeps /\ RequestsFit'
    BY <1>3, <1>6, ResentKeeps DEF Reasons
  <2>2. ~Retrying /\ \A p : ~Proving(p)
    BY <1>2, <1>6 DEF Retrying, Proving
  <2> QED BY <1>1, <1>2, <2>1, <2>2, ReasonsStay
<1> QED BY <1>4, <1>5, <1>6 DEF DrainDone, StackActs, AutomaticAction

LEMMA ReasonUser ==
  ASSUME TypeInv, Running, OnlyRegisters, ProxyInv, Reasons, OnlyRegisters',
         UserRegister \/ UserInvites \/ Timer
  PROVE  ReasonInv'
<1>1. CASE UserRegister
  <2>1. PICK garbage \in BOOLEAN : Registers([proxy EXCEPT !.registered = garbage])
    BY <1>1 DEF UserRegister
  <2> DEFINE cfg == [proxy EXCEPT !.registered = garbage]
  <2>2. cfg \in [rid : 0..Len(requests), registered : BOOLEAN, auth_failures : Nat]
    BY DEF TypeInv, AccountTypes
  <2>3. Registers(cfg)
    BY <2>1
  <2> HIDE DEF cfg
  <2>4. requests' \in Seq(Request) /\ Keeps /\ RequestsFit'
    BY <2>2, <2>3, RegistersKeeps DEF Reasons
  <2>5. UNCHANGED <<passwords, auth, queue>> /\ proxy.rid = 0
    BY <1>1 DEF UserRegister
  <2>6. EventsFit' /\ (\A p : Carried(p) => Carried(p)') /\ ~Retrying
    BY <2>5 DEF Reasons, EventsFit, Carried, Retrying
  <2>7. \A p : Proving(p) => Proving(p)'
    BY <2>5, <2>6 DEF Proving
  <2> QED BY <2>4, <2>5, <2>6, <2>7, ReasonsStay
<1>2. CASE UserInvites
  <2>1. requests' = Append(requests, NewRequest("invite"))
    BY <1>2 DEF UserInvites
  <2>2. /\ requests' \in Seq(Request) /\ Len(requests') = Len(requests) + 1
        /\ requests'[Len(requests) + 1].kind = "invite"
    BY <2>1, QueueShape, NewRequestTypes, AppendSeq
  <2>3. Len(requests) + 1 \in DOMAIN requests'
    BY <2>2, Lengths
  <2> QED BY <2>2, <2>3 DEF OnlyRegisters
<1>3. CASE Timer
  <2>1. UNCHANGED <<passwords, auth, proxy, requests, queue>>
    BY <1>3 DEF Timer, account
  <2>2. requests' \in Seq(Request) /\ Keeps /\ RequestsFit' /\ EventsFit'
    BY <2>1, QueueShape DEF Keeps, Reasons, RequestsFit, EventsFit
  <2>3. (Retrying => Retrying') /\ \A p : Proving(p) => Proving(p)'
    BY <2>1 DEF Retrying, Proving, NoAnswer, IsAnswer, Carried
  <2> QED BY <2>1, <2>2, <2>3, ReasonsStay
<1> QED BY <1>1, <1>2, <1>3

LEMMA ReasonRegistrar ==
  ASSUME TypeInv, Running, OnlyRegisters, ProxyInv, Reasons, NEW i \in DOMAIN requests,
         Accepts(i) \/ Challenges(i) \/ Fails(i)
  PROVE  ReasonInv'
<1>1. /\ i \in 1..Len(requests) /\ requests[i] \in Request
      /\ requests[i].state = "sent" /\ requests[i].kind = "register"
      /\ UNCHANGED <<passwords, auth, proxy>>
  BY QueueShape DEF Accepts, Challenges, Fails, OnlyRegisters
<1>2. i = proxy.rid /\ proxy.rid # 0 /\ ~Retrying
  BY <1>1 DEF ProxyInv, Retrying
<1> DEFINE state == IF Accepts(i) THEN "accepted"
                    ELSE IF Challenges(i) THEN "challenged" ELSE "failed"
           failed == requests[i].failed_once \/ state = "failed"
           new == [requests[i] EXCEPT !.state = state, !.failed_once = failed]
<1>3. /\ new \in Request /\ new.kind = "register" /\ new.state = state
      /\ new.carries = requests[i].carries /\ new.tried = requests[i].tried
      /\ (new.failed_once <=> failed)
  <2>1. state \in {"accepted", "challenged", "failed"} /\ failed \in BOOLEAN
    BY <1>1 DEF Request
  <2> HIDE DEF state, failed
  <2> QED BY <1>1, <2>1 DEF Request
<1>4. requests' = [requests EXCEPT ![i] = new]
  <2>1. CASE Accepts(i)
    <3>1. requests' = [requests EXCEPT ![i].state = "accepted"]
          /\ failed = requests[i].failed_once
      BY <1>1, <2>1 DEF Accepts, Ends, Request
    <3> QED BY <1>1, <2>1, <3>1 DEF Request
  <2>2. CASE ~Accepts(i) /\ Challenges(i)
    <3>1. requests' = [requests EXCEPT ![i].state = "challenged"]
          /\ failed = requests[i].failed_once
      BY <1>1, <2>2 DEF Challenges, Ends, Request
    <3> QED BY <1>1, <2>2, <3>1 DEF Request
  <2>3. CASE ~Accepts(i) /\ ~Challenges(i) /\ Fails(i)
    <3>1. requests' = [requests EXCEPT ![i].state = "failed", ![i].failed_once = TRUE]
          /\ failed = TRUE
      BY <1>1, <2>3 DEF Fails
    <3> QED BY <1>1, <2>3, <3>1 DEF Request
  <2> QED BY <2>1, <2>2, <2>3
<1> HIDE DEF state, failed, new
<1>5. /\ requests' \in Seq(Request) /\ Len(requests') = Len(requests)
      /\ requests'[i] = new
      /\ \A k \in 1..Len(requests) : k # i => requests'[k] = requests[k]
  BY <1>1, <1>3, <1>4, OutcomeTypes DEF TypeInv
<1>6. Keeps
  BY <1>1, <1>3, <1>5, Lengths DEF Keeps, failed
<1>7. RequestsFit'
  BY <1>3, <1>5 DEF Reasons, RequestsFit, failed
<1>8. CASE Accepts(i)
  <2>1. PICK moved \in BOOLEAN :
          Signals([type |-> "reg_ok", rid |-> i, carries |-> requests[i].carries,
                   unregisters |-> requests[i].unregisters, moved |-> moved])
    BY <1>1, <1>8 DEF Accepts
  <2>2. EventsFit' /\ \A p : Carried(p) \/ requests[i].carries = {p} => Carried(p)'
    BY <1>1, <2>1, AnswersJoin DEF Reasons
  <2>3. \A p : Proving(p) => Proving(p)'
    BY <1>2, <2>2 DEF Proving
  <2> QED BY <1>1, <1>2, <1>5, <1>6, <1>7, <2>2, <2>3, ReasonsStay
<1>9. CASE Challenges(i)
  <2>1. Signals([type |-> "reg_fail", rid |-> i, status |-> "401",
                 realms |-> passwords.protects, moved |-> FALSE])
    BY <1>1, <1>9 DEF Challenges
  <2>2. EventsFit' /\ \A p : Carried(p) => Carried(p)'
    BY <1>1, <2>1, AnswersJoin DEF Reasons
  <2>3. ASSUME NEW p, TheRight(p), Proving(p) PROVE Proving(p)'
    <3>1. requests[i].carries # {p}
      BY <1>9, <2>3 DEF Challenges, Satisfied, TheRight
    <3> QED BY <1>2, <2>2, <2>3, <3>1 DEF Proving
  <2> QED BY <1>1, <1>2, <1>5, <1>6, <1>7, <2>2, <2>3, ReasonsStay
<1>10. CASE Fails(i) /\ ~Accepts(i) /\ ~Challenges(i)
  <2>1. PICK status \in {"403", "other"}, moved \in BOOLEAN :
          Signals([type |-> "reg_fail", rid |-> i, status |-> status,
                   realms |-> {}, moved |-> moved])
    BY <1>10 DEF Fails
  <2>2. EventsFit'
    BY <1>1, <2>1, AnswersJoin DEF Reasons
  <2>3. requests'[i].failed_once /\ i \in DOMAIN requests'
    BY <1>1, <1>3, <1>5, <1>10 DEF failed, state
  <2>4. ~NoFailure'
    BY <2>3 DEF NoFailure
  <2> QED BY <1>1, <1>2, <1>5, <1>6, <1>7, <2>2, <2>4, ReasonsStay
<1> QED BY <1>8, <1>9, <1>10

\* The friend's events touch neither.
LEMMA ReasonFriend ==
  ASSUME TypeInv, Running, OnlyRegisters, Reasons,
         UNCHANGED <<passwords, auth, proxy, requests>>,
         \/ UNCHANGED queue
         \/ \E e : Signals(e) /\ ~IsAnswer(e) /\ e.type \notin {"challenged", "answered"}
  PROVE  ReasonInv'
<1>1. requests' \in Seq(Request) /\ Keeps /\ RequestsFit'
  BY QueueShape DEF Keeps, Reasons, RequestsFit
<1>2. CASE UNCHANGED queue
  <2>1. EventsFit' /\ (Retrying => Retrying') /\ \A p : Proving(p) => Proving(p)'
    BY <1>2 DEF Reasons, EventsFit, Retrying, Proving, NoAnswer, IsAnswer, Carried
  <2> QED BY <1>1, <2>1, ReasonsStay
<1>3. ASSUME NEW e, Signals(e), ~IsAnswer(e), e.type \notin {"challenged", "answered"}
      PROVE  ReasonInv'
  <2>1. EventsFit' /\ (NoAnswer' <=> NoAnswer) /\ \A p : Carried(p) => Carried(p)'
    BY <1>3, AnswersJoin DEF Reasons, IsAnswer
  <2>2. (Retrying => Retrying') /\ \A p : Proving(p) => Proving(p)'
    BY <2>1 DEF Retrying, Proving
  <2> QED BY <1>1, <2>1, <2>2, ReasonsStay
<1> QED BY <1>2, <1>3

\* Every step keeps the requests' kinds.
KindsKeep ==
  /\ Len(requests') \in Nat /\ Len(requests') >= Len(requests)
  /\ \A k \in 1..Len(requests) : requests'[k].kind = requests[k].kind

LEMMA ResentKinds ==
  ASSUME AccountTypes, NEW rid \in 1..Len(requests), requests' = Resent(rid, FALSE)
  PROVE  KindsKeep
<1>1. /\ Len(Resent(rid, FALSE)) = Len(requests)
      /\ \A k \in 1..Len(requests) : Resent(rid, FALSE)[k].kind = requests[k].kind
  BY ResentTypes
<1>2. /\ Len(requests') = Len(requests)
      /\ \A k \in 1..Len(requests) : requests'[k].kind = requests[k].kind
  BY <1>1
<1>3. Len(requests) \in Nat
  BY DEF AccountTypes
<1> QED BY ONLY <1>2, <1>3 DEF KindsKeep

\* A step that leads to Running comes from there.
LEMMA ReasonBefore ==
  ASSUME [Next]_vars, Running'
  PROVE  Running
  BY DEF Next, vars, turn, Running, Phone, Handle, DrainDone, QuitDrainDone, Destroy,
         AccountSteps, UserRegister, UserInvites, Timer, Quit, Accepts, Challenges, Fails,
         FriendSteps, NotifyAllFriends, FriendSubscribes, FriendUnsubscribes,
         FriendAnswers, FriendRefuses, FriendNotifies, FriendEvent

LEMMA HandleKinds ==
  ASSUME TypeInv, Handle
  PROVE  KindsKeep
<1> DEFINE e == Head(queue)
<1>1. /\ e \in Events(Len(requests), Len(watches), Len(subs))
      /\ AccountTypes /\ Len(requests) \in Nat
  BY QueueShape, TailSeq DEF Handle, TypeInv
<1> HIDE DEF e
<1>2. e.type \in {"reg_ok", "reg_fail"} => e.rid \in 1..Len(requests)
  BY <1>1, Lengths, EventFields
<1>3. ASSUME NEW rid \in 1..Len(requests), requests' = Resent(rid, FALSE) PROVE KindsKeep
  BY <1>1, <1>3, ResentKinds
<1>4. CASE requests' = requests
  BY <1>1, <1>4 DEF KindsKeep
<1>5. CASE e.type = "reg_ok" /\ RegistrationSuccess(e)
  BY <1>2, <1>3, <1>4, <1>5 DEF RegistrationSuccess
<1>6. CASE AuthenticationFailure
  <2> DEFINE counted == [proxy EXCEPT !.auth_failures = @ + 1]
  <2>1. counted \in [rid : 0..Len(requests), registered : BOOLEAN, auth_failures : Nat]
    BY <1>1 DEF AccountTypes
  <2>2. Registers(counted) \/ requests' = requests
    BY <1>6 DEF AuthenticationFailure
  <2> HIDE DEF counted
  <2>3. CASE Registers(counted)
    BY <1>1, <2>1, <2>3, RegistersTypes DEF KindsKeep
  <2> QED BY <1>4, <2>2, <2>3
<1>7. CASE e.type = "reg_fail" /\ RegistrationFailure(e) /\ ~ReadsNull(e)
  <2>1. e.status # "401" /\ e.moved => proxy.rid \in 1..Len(requests)
    BY <1>2, <1>7 DEF ReadsNull
  <2> QED BY <1>3, <1>4, <1>6, <1>7, <2>1 DEF RegistrationFailure
<1>8. \/ requests' = requests
      \/ e.type = "reg_ok" /\ RegistrationSuccess(e)
      \/ e.type = "reg_fail" /\ RegistrationFailure(e) /\ ~ReadsNull(e)
  BY DEF Handle, e, AccountEvent, CallChallenged, CallAnswered, account
<1> QED BY <1>4, <1>5, <1>7, <1>8

LEMMA StepKinds ==
  ASSUME TypeInv, [Next]_vars, Running'
  PROVE  KindsKeep
<1>1. /\ AccountTypes /\ requests \in Seq(Request) /\ Len(requests) \in Nat
      /\ proxy.rid # 0 => proxy.rid \in 1..Len(requests)
  BY QueueShape DEF TypeInv
<1>2. CASE requests' = requests
  BY <1>1, <1>2 DEF KindsKeep
<1>3. CASE DrainDone
  <2>1. \/ requests' = requests \/ requests' = Retried
        \/ proxy.rid # 0 /\ requests' = Resent(proxy.rid, FALSE)
    BY <1>3 DEF DrainDone, StackActs, AutomaticAction
  <2>2. CASE requests' = Retried
    BY <1>1, <2>2, RetriedTypes DEF KindsKeep
  <2>3. CASE proxy.rid # 0 /\ requests' = Resent(proxy.rid, FALSE)
    BY <1>1, <2>3, ResentKinds
  <2> QED BY <1>2, <2>1, <2>2, <2>3
<1>4. CASE UserRegister
  <2>1. PICK garbage \in BOOLEAN : Registers([proxy EXCEPT !.registered = garbage])
    BY <1>4 DEF UserRegister
  <2> DEFINE cfg == [proxy EXCEPT !.registered = garbage]
  <2>2. cfg \in [rid : 0..Len(requests), registered : BOOLEAN, auth_failures : Nat]
    BY <1>1 DEF AccountTypes
  <2>3. Registers(cfg)
    BY <2>1
  <2> HIDE DEF cfg
  <2> QED BY <1>1, <2>2, <2>3, RegistersTypes DEF KindsKeep
<1>5. CASE UserInvites
  BY <1>1, <1>5, NewRequestTypes, AppendSeq DEF UserInvites, KindsKeep
<1>6. ASSUME NEW i \in DOMAIN requests, Accepts(i) \/ Challenges(i) \/ Fails(i)
      PROVE  KindsKeep
  <2>1. CASE Accepts(i)
    BY <1>1, <2>1, EndsTypes DEF Accepts, KindsKeep
  <2>2. CASE Challenges(i)
    BY <1>1, <2>2, EndsTypes DEF Challenges, KindsKeep
  <2>3. CASE Fails(i)
    BY <1>1, <2>3, FailsTypes DEF KindsKeep
  <2> QED BY <1>6, <2>1, <2>2, <2>3
<1>7. CASE UNCHANGED vars
  BY <1>2, <1>7 DEF vars, account
<1>8. CASE Phone
  BY <1>3, <1>8, HandleKinds DEF Phone, QuitDrainDone, Destroy, Running
<1>9. CASE AccountSteps
  BY <1>2, <1>4, <1>5, <1>6, <1>9 DEF AccountSteps, Timer, account, Quit, Running
<1>10. CASE FriendSteps
  BY <1>2, <1>10 DEF FriendSteps, NotifyAllFriends, FriendSubscribes, FriendUnsubscribes,
                     FriendAnswers, FriendRefuses, FriendNotifies, FriendEvent, account
<1> QED BY <1>7, <1>8, <1>9, <1>10 DEF Next

LEMMA ReasonStep == TypeInv /\ ProxyInv /\ ReasonInv /\ [Next]_vars => ReasonInv'
<1> SUFFICES ASSUME TypeInv, ProxyInv, ReasonInv, [Next]_vars, Running', OnlyRegisters'
             PROVE  ReasonInv'
  BY DEF ReasonInv
<1>1. Running /\ KindsKeep
  BY ReasonBefore, StepKinds
<1>2. OnlyRegisters
  <2>1. /\ DOMAIN requests = 1..Len(requests)
        /\ \A i \in 1..Len(requests) : i \in 1..Len(requests')
    BY <1>1, QueueShape DEF KindsKeep
  <2>2. TypeInv'
    BY TypesStep
  <2>3. DOMAIN requests' = 1..Len(requests')
    BY <2>2 DEF TypeInv, AccountTypes
  <2> QED BY <1>1, <2>1, <2>3 DEF KindsKeep, OnlyRegisters
<1>3. Reasons
  BY <1>1, <1>2 DEF ReasonInv
<1>4. CASE UNCHANGED vars
  BY <1>1, <1>2, <1>3, <1>4, ReasonFriend DEF vars, account
<1>5. CASE Phone
  BY <1>1, <1>2, <1>3, <1>5, ReasonHandles, ReasonDrained
     DEF Phone, QuitDrainDone, Destroy, Running
<1>6. CASE AccountSteps
  BY <1>1, <1>2, <1>3, <1>6, ReasonUser, ReasonRegistrar DEF AccountSteps, Quit, Running
<1>7. CASE FriendSteps
  <2>1. UNCHANGED <<passwords, auth, proxy, requests>>
    BY <1>7 DEF FriendSteps, NotifyAllFriends, FriendSubscribes, FriendUnsubscribes,
                FriendAnswers, FriendRefuses, FriendNotifies, FriendEvent, account
  <2>2. \/ UNCHANGED queue
        \/ \E e : Signals(e) /\ ~IsAnswer(e) /\ e.type \notin {"challenged", "answered"}
    <3> DEFINE Friendly(e) == Signals(e) /\ ~IsAnswer(e)
                              /\ e.type \notin {"challenged", "answered"}
    <3>1. CASE NotifyAllFriends
      BY <3>1 DEF NotifyAllFriends
    <3>2. ASSUME FriendSubscribes PROVE \E e : Friendly(e)
      BY <3>2 DEF FriendSubscribes, IsAnswer
    <3>3. ASSUME NEW i \in DOMAIN watches, FriendUnsubscribes(i) PROVE \E e : Friendly(e)
      BY <3>3 DEF FriendUnsubscribes, IsAnswer
    <3>4. ASSUME NEW i \in DOMAIN subs, FriendAnswers(i) PROVE \E e : Friendly(e)
      BY <3>4 DEF FriendAnswers, IsAnswer
    <3>5. ASSUME NEW i \in DOMAIN subs, FriendRefuses(i) PROVE UNCHANGED queue
      BY <3>5 DEF FriendRefuses
    <3>6. ASSUME NEW i \in DOMAIN subs, FriendNotifies(i) PROVE \E e : Friendly(e)
      BY <3>6 DEF FriendNotifies, IsAnswer
    <3> QED BY <1>7, <3>1, <3>2, <3>3, <3>4, <3>5, <3>6 DEF FriendSteps
  <2> QED BY <1>1, <1>2, <1>3, <2>1, <2>2, ReasonFriend
<1> QED BY <1>4, <1>5, <1>6, <1>7 DEF Next

\* linphone_core_find_or_ask_for_auth_info asks, while there are no calls, only
\* for a password that it lacks or that the stack has tried, and never for the
\* right one of a single realm while every REGISTER is answered: however often
\* and whenever the registrar challenges, and whatever else is in the queue.
THEOREM AsksForAReason == Spec => []AskedForAReason
<1>1. Init => ProxyInv /\ ReasonInv
  <2> SUFFICES ASSUME Init PROVE ProxyInv /\ ReasonInv
    OBVIOUS
  <2>1. /\ queue = << >> /\ requests = << >> /\ proxy.rid = 0
        /\ auth.asked = {} /\ auth.first_time = [r \in Realms |-> TRUE]
        /\ passwords \in PasswordSets
    BY ConfigurationsAssumption DEF Init, AccountInit
  <2>2. ProxyInv
    BY <2>1 DEF ProxyInv
  <2>3. /\ passwords.known \subseteq Realms
        /\ \A r \in Realms : auth.first_time[r]
    BY <2>1 DEF PasswordSets
  <2>4. EventsFit /\ RequestsFit /\ AskedTried
    BY <2>1 DEF EventsFit, RequestsFit, AskedTried
  <2>5. FirstTimes /\ RightWorks
    BY <2>1, <2>3 DEF FirstTimes, RightWorks
  <2> QED BY <2>2, <2>4, <2>5 DEF ReasonInv, Reasons
<1>2. TypeInv /\ ReasonInv => AskedForAReason
  <2> SUFFICES ASSUME TypeInv, ReasonInv, Running, OnlyRegisters
               PROVE  /\ \A r \in auth.asked \cap passwords.known :
                           \E i \in DOMAIN requests : r \in requests[i].tried
                      /\ NoFailure /\ Cardinality(passwords.protects) = 1 =>
                           auth.asked \cap passwords.right = {}
    BY DEF AskedForAReason
  <2>1. Reasons /\ DOMAIN requests = 1..Len(requests) /\ passwords \in PasswordSets
    BY QueueShape DEF ReasonInv
  <2>2. \A r \in auth.asked \cap passwords.known :
          \E i \in DOMAIN requests : r \in requests[i].tried
    BY <2>1 DEF Reasons, AskedTried, TriedIn
  <2>3. ASSUME NoFailure, Cardinality(passwords.protects) = 1,
               NEW p \in auth.asked \cap passwords.right
        PROVE  FALSE
    <3>1. p \in Realms /\ p \in passwords.protects /\ passwords.right \subseteq passwords.protects
          /\ passwords.protects \subseteq Realms
      BY <2>1, <2>3 DEF PasswordSets
    <3>2. passwords.protects = {p}
      <4>1. IsFiniteSet(passwords.protects)
        <5>1. IsFiniteSet({"proxy"})
          BY FS_Singleton
        <5>2. IsFiniteSet({"proxy"} \cup {"www"})
          BY <5>1, FS_AddElement
        <5>3. {"proxy"} \cup {"www"} = Realms
          BY DEF Realms
        <5> QED BY <3>1, <5>2, <5>3, FS_Subset
      <4>2. PICK x : passwords.protects = {x}
        BY <2>3, <4>1, FS_Singleton
      <4> QED BY <3>1, <4>2
    <3>3. TheRight(p)
      BY <2>3, <3>1, <3>2 DEF TheRight
    <3> QED BY <2>1, <2>3, <3>1, <3>3 DEF Reasons, RightWorks
  <2> QED BY <2>2, <2>3
<1> QED BY <1>1, <1>2, ProxyStep, ReasonStep, TypesInit, TypesStep, PTL DEF Spec
=============================================================================
