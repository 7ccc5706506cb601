----------------------------- MODULE RtpReceive -----------------------------
(***************************************************************************)
(* The receiving half of an oRTP session: a datagram is parsed and queued  *)
(* (rtpparse.c), the application asks for what is due (rtpsession.c), and  *)
(* dialled keys, sent as telephone events, are told apart from their own   *)
(* repetitions (telephonyevents.c).  The network loses, repeats and        *)
(* reorders; a second source may send to the same port.                    *)
(*                                                                         *)
(* A packet carries the number and the time its sender counted without     *)
(* bound; the code sees them modulo SeqMod and TsMod only.                 *)
(*                                                                         *)
(* The jitter buffer turns the application's timestamp into one of the     *)
(* stream with floating-point averages: here it may be any timestamp.      *)
(***************************************************************************)
EXTENDS Integers, Sequences, FiniteSets

CONSTANTS
  SeqMod,      \* 2^16: sequence numbers are uint16_t
  TsMod,       \* 2^32: timestamps are uint32_t
  LoopWindow,  \* 200: how near the loop hwrcv_extseq recognises it
  Threshold,   \* SSRC_CHANGED_THRESHOLD
  TsJump,      \* session->rtp.ts_jump
  max_rq_size, \* session->rtp.max_rq_size
  Streams,     \* bound: what may be sent, [script, handled] records
  First,       \* bound: the first sequence number, near the loop
  Jump,        \* bound: how far the timestamps of a "jump" go
  MaxNet,      \* bound: packets under way at a time, but for those of a key
  MaxRepeats,  \* bound: packets the network repeats
  Keys         \* bound: the timestamps at which keys are pressed

\* What a script says of one packet, or of a key
Entries == {<<"key">>} \cup {"peer", "stray"} \X {"media", "empty"} \X {0, 1, Jump, -Jump}

\* The window is small beside the number space; numbers start above 0
ASSUME NumbersAssumption ==
  /\ SeqMod \in Nat /\ SeqMod >= 8 /\ TsMod \in Nat \ {0}
  /\ LoopWindow \in Nat \ {0} /\ 4 * LoopWindow <= SeqMod
  /\ max_rq_size \in Nat /\ First \in Nat \ {0} /\ Jump \in Nat \ {0}

\* Who dials keys sends by the ticker's time, which does not go back (msrtp.c,
\* sender_process)
ASSUME StreamsAssumption ==
  \A s \in Streams :
    /\ s.handled \in BOOLEAN /\ s.script \in Seq(Entries)
    /\ \A i, j \in 1..Len(s.script) :
         s.script[i] = <<"key">> => s.script[j] = <<"key">> \/ s.script[j][3] # -Jump

NoPacket == [kind |-> "none"]

VARIABLES
  handled,      \* "timestamp_jump" and "ssrc_changed" call rtp_session_resync
  script,       \* what is still to be sent
  number, time, \* each source's next sequence number and last timestamp
  net,          \* the packets under way
  repeats,      \* how many the network has repeated
  ssrc_set,
  ssrc,         \* session->rcv.ssrc
  candidate,    \* session->inc_ssrc_candidate
  same_count,   \* session->inc_same_ssrc_count
  extseq,       \* session->rtp.hwrcv_extseq: [hi, lo]
  rq, tev_rq,   \* the media packets and the telephone events to be read
  rcv_last_ts,
  flags,        \* of RECV_SYNC, FIRST_PACKET_DELIVERED
  current_tev,  \* the last event's [ts, E], or NoPacket
  heard,        \* the keys reported on "telephone-event", in that order
  given,        \* the last media packet given since the last resync
  base,         \* loops before the first packet of the session
  top,          \* the highest number of the session's source
  disturbed,    \* of "loop": what the loop window cannot cope with happened;
                \* of "keys": events were read in another order than sent
  last_tev,     \* the number of the last event read
  arrived       \* the keys whose end was queued, and not dropped since

sender   == <<script, number, time>>
lock_on  == <<ssrc_set, ssrc, candidate, same_count>>
events   == <<current_tev, heard, last_tev>>
vars == <<handled, sender, net, repeats, lock_on, extseq, rq, tev_rq, rcv_last_ts,
          flags, events, given, base, top, disturbed, arrived>>

Sources == {"peer", "stray"}

----------------------------------------------------------------------------
(* Numbers that wrap. *)

Seq16(p) == p.n % SeqMod
Ts(p)    == p.t % TsMod

GreaterUnwrapped(s1, s2)   == s1 > s2
StrictlyNewerSwapped(t1, t2) == (t2 - t1) % TsMod < TsMod \div 2 /\ t1 # t2

\* RTP_SEQ_IS_GREATER, RTP_TIMESTAMP_IS_NEWER_THAN and its strict form
Greater(s1, s2)       == (s1 - s2) % SeqMod < SeqMod \div 2
Newer(t1, t2)         == (t1 - t2) % TsMod < TsMod \div 2
StrictlyNewer(t1, t2) == Newer(t1, t2) /\ t1 # t2

----------------------------------------------------------------------------
(* The queues. *)

\* rtp_putq: below the last packet that is not greater; a duplicate is freed
Put(q, p) ==
  LET Below == {i \in 1..Len(q) : Seq16(p) = Seq16(q[i]) \/ Greater(Seq16(p), Seq16(q[i]))}
      at    == CHOOSE i \in Below \cup {0} : \A j \in Below : j <= i
  IN  IF at > 0 /\ Seq16(p) = Seq16(q[at])
      THEN q
      ELSE SubSeq(q, 1, at) \o <<p>> \o SubSeq(q, at + 1, Len(q))

QueuedOneMore(q, p) ==
  LET longer == Put(q, p)
  IN  IF p.kind = "empty" THEN q
      ELSE IF Len(longer) > max_rq_size + 1 THEN Tail(longer) ELSE longer

\* queue_packet: packets without data are not queued, the oldest are dropped
Queued(q, p) ==
  LET longer == Put(q, p)
  IN  IF p.kind = "empty" THEN q
      ELSE IF Len(longer) > max_rq_size THEN Tail(longer) ELSE longer

\* rtp_getq takes the packets that are due from the front, as long as each has
\* another timestamp than the one before, and returns the last it took
Taken(q, ts) ==
  LET Due(i) == Newer(ts, Ts(q[i])) /\ (i > 1 => Ts(q[i]) # Ts(q[i-1]))
  IN  CHOOSE k \in 0..Len(q) : /\ \A i \in 1..k : Due(i)
                               /\ k < Len(q) => ~Due(k + 1)

Elements(q) == {q[i] : i \in 1..Len(q)}

----------------------------------------------------------------------------
(* The senders, and the network. *)

Init ==
  /\ \E s \in Streams : script = s.script /\ handled = s.handled
  /\ number = [s \in Sources |-> First] /\ time = [s \in Sources |-> 0]
  /\ net = {} /\ repeats = 0
  /\ ssrc_set = FALSE /\ ssrc = "none" /\ candidate = "none" /\ same_count = 0
  /\ extseq = [hi |-> 0, lo |-> 0]
  /\ rq = <<>> /\ tev_rq = <<>>
  /\ rcv_last_ts = 0 /\ flags = {"RECV_SYNC"}
  /\ current_tev = NoPacket /\ heard = <<>> /\ last_tev = 0
  /\ given = NoPacket /\ base = 0 /\ top = 0 /\ disturbed = {} /\ arrived = {}

Packet(s, kind, n, t, mark, E, copies) ==
  [src |-> s, kind |-> kind, n |-> n, t |-> t, mark |-> mark, E |-> E, copies |-> copies]

\* Bound: packets that meet are less than half the number space apart, and a
\* key is pressed when nothing of the last one is under way
Together(s, n) ==
  \A p \in net \cup Elements(rq) \cup Elements(tev_rq) : p.src = s => n - p.n < SeqMod \div 2

\* The packet of a script's entry, one more number; timestamps go on, stand
\* still (a frame in parts), or jump
SendsMedia ==
  \E s \in Sources, kind \in {"media", "empty"}, step \in {0, 1, Jump, -Jump} :
    /\ script # <<>> /\ Head(script) = <<s, kind, step>>
    /\ Cardinality(net) < MaxNet /\ Together(s, number[s])
    /\ number' = [number EXCEPT ![s] = @ + 1]
    /\ time' = [time EXCEPT ![s] = @ + step]
    /\ net' = net \cup {Packet(s, kind, number[s], time'[s], FALSE, FALSE, 1)}

\* rtp_session_send_dtmf2: start, update, and the end three times over with
\* one number
SendsKey ==
  LET n == number["peer"]   t == time["peer"] + 1
      tev(i, copies) == Packet("peer", "tev", n + i, t, i = 0, i = 2, copies)
  IN  /\ script # <<>> /\ Head(script) = <<"key">>
      /\ \A p \in net : p.kind # "tev"
      /\ Together("peer", n + 2)
      /\ number' = [number EXCEPT !["peer"] = n + 3]
      /\ time' = [time EXCEPT !["peer"] = t]
      /\ net' = net \cup {tev(0, 1), tev(1, 1), tev(2, 3)}

Send ==
  /\ SendsMedia \/ SendsKey
  /\ script' = Tail(script)
  /\ UNCHANGED <<handled, repeats, lock_on, extseq, rq, tev_rq, rcv_last_ts, flags,
                 events, given, base, top, disturbed, arrived>>

Without(p) ==
  (net \ {p}) \cup IF p.copies > 1 THEN {[p EXCEPT !.copies = @ - 1]} ELSE {}

Lose ==
  /\ \E p \in net : net' = Without(p)
  /\ UNCHANGED <<handled, sender, repeats, lock_on, extseq, rq, tev_rq, rcv_last_ts,
                 flags, events, given, base, top, disturbed, arrived>>

\* A packet reaches the socket, and the network may hold another copy of it
Arrives(p) ==
  \/ net' = Without(p) /\ UNCHANGED repeats
  \/ repeats < MaxRepeats /\ repeats' = repeats + 1 /\ UNCHANGED net

----------------------------------------------------------------------------
(* rtp_session_rtp_parse, for one datagram of rtp_session_rtp_recv's loop. *)

\* The source is locked on, or another one has sent Threshold packets and more
\* while the first was silent
LocksOn(p) ==
  IF ~ssrc_set THEN
    ssrc_set' = TRUE /\ ssrc' = p.src /\ UNCHANGED <<candidate, same_count>>
  ELSE IF p.src = ssrc THEN
    same_count' = 0 /\ UNCHANGED <<ssrc_set, ssrc, candidate>>
  ELSE
    /\ same_count' = IF candidate = p.src THEN same_count + 1 ELSE 0
    /\ candidate' = p.src
    /\ ssrc' = IF same_count' > Threshold THEN p.src ELSE ssrc
    /\ UNCHANGED ssrc_set

Changes(p) == ssrc_set /\ ssrc' # ssrc

CountsNoLoop(p) ==
  extseq' = IF Seq16(p) > extseq.lo THEN [extseq EXCEPT !.lo = Seq16(p)] ELSE extseq

CountsSequence(p) ==
  LET seq == Seq16(p)
      loops == seq < LoopWindow /\ extseq.lo > SeqMod - LoopWindow
  IN  extseq' = IF seq > extseq.lo THEN [extseq EXCEPT !.lo = seq]
                ELSE IF loops THEN [hi |-> extseq.hi + 1, lo |-> seq]
                ELSE extseq

\* For the properties: what the window cannot know about
Disturbs(p) ==
  \/ Changes(p)
  \/ p.n \div SeqMod < top \div SeqMod
  \/ /\ top # 0 /\ p.n \div SeqMod > top \div SeqMod
     /\ ~(/\ p.n \div SeqMod = (top \div SeqMod) + 1
          /\ Seq16(p) < LoopWindow /\ (top % SeqMod) > SeqMod - LoopWindow)

\* rtp_session_resync, the jitter controller's values aside
Resynced(fl) == (fl \ {"FIRST_PACKET_DELIVERED"}) \cup {"RECV_SYNC"}

ParseForeign(p) ==
  /\ LocksOn(p) /\ ssrc' # p.src
  /\ UNCHANGED <<extseq, rq, tev_rq, rcv_last_ts, flags, given, base, top, disturbed, arrived>>

AcceptsAll(p) ==
  /\ LocksOn(p) /\ CountsSequence(p)
  /\ base' = IF top = 0 THEN p.n \div SeqMod ELSE base
  /\ top' = IF p.n > top THEN p.n ELSE top
  /\ disturbed' = disturbed \cup (IF p.src = ssrc THEN {} ELSE {"loop"})

\* What is done with every packet of the source; a change of source resyncs
Accepts(p) ==
  /\ LocksOn(p) /\ ssrc' = p.src
  /\ CountsSequence(p)
  /\ base' = IF top = 0 THEN p.n \div SeqMod ELSE base
  /\ top' = IF Changes(p) \/ p.n > top THEN p.n ELSE top
  /\ disturbed' = disturbed \cup (IF Disturbs(p) THEN {"loop"} ELSE {})

ParseEvent(p) ==
  LET resync == Changes(p) /\ handled
  IN  /\ p.kind = "tev" /\ Accepts(p)
      /\ rcv_last_ts' = IF Changes(p) THEN Ts(p) ELSE rcv_last_ts
      /\ flags' = IF resync THEN Resynced(flags) ELSE flags
      /\ rq' = IF resync THEN <<>> ELSE rq
      /\ given' = IF resync THEN NoPacket ELSE given
      /\ tev_rq' = Queued(tev_rq, p)
      /\ arrived' = (arrived \cup IF p.E THEN {p.t} ELSE {})
                       \ {q.t : q \in {r \in Elements(tev_rq) \ Elements(tev_rq') : r.E}}

\* Packets older than the last one given are not queued, and a jump either way
\* resyncs, if the application has asked for that
ParseMedia(p) ==
  /\ p.kind # "tev" /\ Accepts(p)
  /\ rcv_last_ts' = IF Changes(p) THEN Ts(p) ELSE rcv_last_ts
  /\ LET delivered == "FIRST_PACKET_DELIVERED" \in flags /\ ~(Changes(p) /\ handled)
         ahead  == delivered /\ Newer(Ts(p), rcv_last_ts' + TsJump)
         late   == delivered /\ ~ahead /\ StrictlyNewer(rcv_last_ts', Ts(p))
         behind == late /\ StrictlyNewer(rcv_last_ts', (Ts(p) + TsJump) % TsMod)
         resync == handled /\ (Changes(p) \/ ahead \/ behind)
         kept   == IF resync THEN <<>> ELSE rq
     IN  /\ rq' = IF late THEN kept ELSE Queued(kept, p)
         /\ flags' = IF resync THEN Resynced(flags) ELSE flags
         /\ given' = IF resync THEN NoPacket ELSE given
  /\ UNCHANGED <<tev_rq, arrived>>

Parse ==
  /\ \E p \in net :
       /\ Arrives(p)
       /\ LET mp == [p EXCEPT !.copies = 1]
          IN  ParseForeign(mp) \/ ParseEvent(mp) \/ ParseMedia(mp)
  /\ UNCHANGED <<handled, sender, events>>

----------------------------------------------------------------------------
(* rtp_session_recvm_with_ts, after the socket has been read. *)

\* For the properties: are events read in the order they were sent?
NoteEvent(m) ==
  /\ disturbed' = disturbed \cup (IF m.n < last_tev THEN {"keys"} ELSE {})
  /\ last_tev' = m.n

ChecksForgetting(m) ==
  LET fresh == m.mark \/ current_tev = NoPacket \/ current_tev.ts # Ts(m)
  IN  /\ current_tev' = IF fresh THEN [ts |-> Ts(m), E |-> m.E] ELSE current_tev
      /\ heard' = IF m.E /\ (fresh \/ ~current_tev.E) THEN Append(heard, m.t) ELSE heard
      /\ NoteEvent(m)

ChecksMarkedOnly(m) ==
  LET fresh == m.mark \/ current_tev = NoPacket \/ current_tev.ts # Ts(m)
  IN  /\ current_tev' = IF fresh THEN [ts |-> Ts(m), E |-> m.E]
                        ELSE [current_tev EXCEPT !.E = @ \/ m.E]
      /\ heard' = IF m.E /\ ~fresh /\ ~current_tev.E THEN Append(heard, m.t) ELSE heard
      /\ NoteEvent(m)

\* rtp_session_check_telephone_events: the first packet of a key, or its first
\* one to be read, is kept to tell the repetitions of its end
ChecksEvent(m) ==
  LET fresh == m.mark \/ current_tev = NoPacket \/ current_tev.ts # Ts(m)
  IN  /\ current_tev' = IF fresh THEN [ts |-> Ts(m), E |-> m.E]
                        ELSE [current_tev EXCEPT !.E = @ \/ m.E]
      /\ heard' = IF m.E /\ (fresh \/ ~current_tev.E) THEN Append(heard, m.t) ELSE heard
      /\ NoteEvent(m)

ReadsEvent ==
  IF tev_rq = <<>> THEN UNCHANGED <<tev_rq, events, disturbed>>
  ELSE ChecksEvent(Head(tev_rq)) /\ tev_rq' = Tail(tev_rq)

\* The media packet for the stream's timestamp ts, if one is due
Gives(ts) ==
  LET k == Taken(rq, ts)
  IN  IF k = 0 THEN UNCHANGED <<rq, rcv_last_ts, given>> /\ flags' = flags \ {"RECV_SYNC"}
      ELSE /\ rq' = SubSeq(rq, k + 1, Len(rq))
           /\ given' = rq[k]
           /\ rcv_last_ts' = Ts(rq[k])
           /\ flags' = {"FIRST_PACKET_DELIVERED"}

Receive ==
  /\ ReadsEvent
  /\ IF "RECV_SYNC" \in flags /\ rq = <<>>
     THEN UNCHANGED <<rq, rcv_last_ts, flags, given, ssrc>>
     ELSE /\ ssrc' = IF "RECV_SYNC" \in flags THEN rq[1].src ELSE ssrc
          /\ \E ts \in 0..TsMod - 1 : Gives(ts)
  /\ UNCHANGED <<handled, sender, net, repeats, ssrc_set, candidate, same_count, extseq,
                 base, top, arrived>>

Next == Send \/ Lose \/ Parse \/ Receive

\* The ticker calls rtp_session_recvm_with_ts at every tick (msrtp.c); the
\* network is not fair
Spec     == Init /\ [][Next]_vars
FairSpec == Spec /\ WF_vars(Receive)

----------------------------------------------------------------------------
(* Properties. *)

TypeOK ==
  /\ handled \in BOOLEAN /\ ssrc_set \in BOOLEAN
  /\ ssrc \in Sources \cup {"none"} /\ candidate \in Sources \cup {"none"}
  /\ ssrc_set <=> ssrc # "none"
  /\ same_count \in Nat
  /\ extseq.hi \in Nat /\ extseq.lo \in 0..SeqMod - 1
  /\ Len(rq) <= max_rq_size /\ Len(tev_rq) <= max_rq_size
  /\ \A i \in 1..Len(rq) : rq[i].kind = "media"
  /\ \A i \in 1..Len(tev_rq) : tev_rq[i].kind = "tev"
  /\ rcv_last_ts \in 0..TsMod - 1
  /\ flags \subseteq {"RECV_SYNC", "FIRST_PACKET_DELIVERED"}

(* rtp_putq, rtpsession.c:100, sorts by numbers that wrap and looks for a
   duplicate as far as the first packet that is older: a queue holds each packet
   of a source once, in the order they were sent, as far as no packet of another
   source lies between them (the numbers of two sources are not comparable, and
   a session that does not resync keeps both). *)
QueuesInOrder ==
  \A q \in {rq, tev_rq} : \A i, j \in 1..Len(q) :
    i < j /\ (\A k \in i..j : q[k].src = q[i].src) => q[i].n < q[j].n

(* rtpparse.c:127, "to avoid receiving mixed streams": where a change of source
   resyncs, the queue never holds, and the application between two resyncs is
   never given, packets of two sources. *)
StreamsAreApart ==
  handled => \A i \in 1..Len(rq) : rq[i].src = ssrc /\ (given # NoPacket => given.src = rq[i].src)

(* "don't queue packets older than the last returned packet to the
   application", rtpparse.c:214, and the queue's order: until the next resync
   the application is given packets sent later and later, or more of the frame
   it was given last.  (A session that does not resync and hears a second source
   mixes the two.) *)
GivenInOrder ==
  [][given # NoPacket /\ given' \notin {NoPacket, given} /\ (handled \/ candidate = "none")
       => given'.n > given.n \/ given'.t = given.t]_vars

(* "this is a check for sequence number looping", rtpparse.c:185: the extended
   number in a receiver report is the highest one the source has sent us, as
   long as no packet from before the loop comes after it and the losses around
   the loop leave one packet on either side within the window. *)
LoopsCounted ==
  "loop" \notin disturbed /\ top # 0 =>
    (base + extseq.hi) * SeqMod + extseq.lo = top

(* telephonyevents.c:279, "the last packet is sent three times in order to
   improve reliability": the application hears a key once, however many of its
   packets are lost or repeated, if they are read in the order they were sent. *)
HeardOnce ==
  "keys" \notin disturbed => \A i, j \in 1..Len(heard) : i < j => heard[i] < heard[j]

(* A key of which one end packet was queued is heard, whatever became of its
   other packets, unless that one is dropped again from a full queue. *)
KeysAreHeard ==
  \A k \in Keys : k \in arrived ~> k \in Elements(heard) \/ k \notin arrived

=============================================================================
