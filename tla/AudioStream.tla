---------------------------- MODULE AudioStream ----------------------------
(***************************************************************************)
(* An audio stream (mediastreamer2/src/audiostream.c), its ticker and the  *)
(* sound card (winsnd.c): three threads, the owner (the user interface),   *)
(* which builds, attaches, detaches and frees the filters, the ticker      *)
(* thread, which runs them and, when the payload type changes, replaces    *)
(* the decoder, and the card's thread, which two filters start and stop.   *)
(*                                                                         *)
(* A filter is the role it has in the stream; decoders, which are          *)
(* replaced, are told apart.  The owner's unlocked steps are one action    *)
(* per filter, so the ticker thread comes between any two of them.         *)
(***************************************************************************)
EXTENDS MSTicker

CONSTANTS
  Decoder,    \* the decoders that may be alive
  NoDecoder   \* stream->decoder is NULL

Role == {"soundread", "resampler", "ec", "volsend", "encoder", "rtpsend",
         "rtprecv", "dtmfgen", "equalizer", "volrecv", "soundwrite"}

ASSUME FilterAssumption ==
  /\ Filter = Role \cup Decoder
  /\ Role \cap Decoder = {}
  /\ NoDecoder \notin Decoder

VARIABLES
  options,   \* how the stream is started
  live,      \* the filters that are allocated
  attached,  \* the filters whose ticker is set: preprocessed, not yet postprocessed
  session,   \* the RTP session is allocated
  decoder,   \* stream->decoder
  started,   \* of the card: the filters with read_started or write_started TRUE
  device,    \* the card's thread, of the handle d->thread
  opc,       \* the owner's place in audio_stream_start_full or audio_stream_stop
  root,      \* the filter it attaches or detaches
  todo       \* the neighbours of root it has still to preprocess or postprocess

owner == <<opc, root, todo>>
card  == <<started, device>>
owned == <<live, attached, session, decoder>>
vars  == <<outputs, execution_list, ticker, owned, card, owner, options>>

\* ec: the echo canceller joins the two graphs; volume: "both" for the echo
\* limiter, "send" for automatic gain control alone; files: a file player, and a
\* resampler after it, replace the sound card, and no echo is cancelled.
Options ==
  {o \in [ec : BOOLEAN, volume : {"none", "send", "both"}, files : BOOLEAN] :
     ~(o.ec /\ o.files)}

OwnerPc == {"none", "idle", "attach", "preprocess", "up", "detach", "postprocess",
            "join card", "dismantle", "free", "stop", "join"}

----------------------------------------------------------------------------
(* The graphs. *)

If(option, role) == IF option THEN <<role>> ELSE << >>

SendChain ==
  <<"soundread">> \o If(options.files, "resampler") \o If(options.ec, "ec")
    \o If(options.volume # "none", "volsend") \o <<"encoder", "rtpsend">>

RecvChain(d) ==
  <<"rtprecv", d, "dtmfgen", "equalizer">> \o If(options.volume = "both", "volrecv")
    \o If(options.ec, "ec") \o <<"soundwrite">>

NextIn(chain, f) == {chain[i + 1] : i \in {j \in 1..Len(chain) - 1 : chain[j] = f}}

\* ms_connection_helper_link: the pins of the receiving graph come first in the
\* echo canceller, the only filter of both graphs.
Wired(d) ==
  [f \in Filter |-> SetToSeq(NextIn(RecvChain(d), f)) \o SetToSeq(NextIn(SendChain, f))]

NoLinks == [f \in Filter |-> << >>]

InStream(d) == ToSet(SendChain) \cup ToSet(RecvChain(d))

\* winsnd's, of a stream that plays no file
CardFilters == IF options.files THEN {} ELSE {"soundread", "soundwrite"}

IsSource(f) == f \in {"soundread", "rtprecv"}

\* get_sources of ms_filter_find_neighbours(f): the search starts at f.
Sources(f) == <<f>> \o SetToSeq({g \in Component(f) : IsSource(g)} \ {f})

----------------------------------------------------------------------------
Init ==
  /\ options \in Options
  /\ outputs = NoLinks
  /\ execution_list = << >>
  /\ TicksIdle
  /\ lock = "free"
  /\ run = FALSE
  /\ tpc = "none"
  /\ live = {}
  /\ attached = {}
  /\ session = FALSE
  /\ decoder = NoDecoder
  /\ started = {} /\ device = "none"
  /\ opc = "none"
  /\ root = "soundread"
  /\ todo = {}

----------------------------------------------------------------------------
(* The owner: building a stream. *)

\* audio_stream_new, with the options it will be started with.  The resampler of
\* an earlier stream is still there: audio_stream_free forgets it.
New ==
  /\ opc = "none"
  /\ options' \in Options
  /\ opc' = "idle"
  /\ session' = TRUE
  /\ live' = live \cup {"rtpsend"}
  /\ UNCHANGED <<outputs, execution_list, ticker, attached, decoder, card, root, todo>>

Ends == {"rtprecv", "dtmfgen", "soundread", "soundwrite"} \cup ToSet(If(options.files, "resampler"))

\* audio_stream_start_full returns -1: the payload type is unknown, or has no
\* encoder or no decoder.  What it has created stays; there is no ticker, and a
\* later event may start the stream again.
StartFails ==
  /\ opc = "idle"
  /\ \/ live' = live \cup Ends /\ decoder' = decoder
     \/ live' = live \cup Ends \cup {"encoder"} /\ decoder' = NoDecoder
     \/ \E d \in Decoder \ live :
          live' = live \cup Ends \cup {d} /\ decoder' = d
  /\ UNCHANGED <<outputs, execution_list, ticker, attached, session, card, owner>>

\* audio_stream_start_full up to ms_ticker_new: the filters are created and
\* linked, and the ticker thread is started on an empty list.
Start ==
  /\ opc = "idle"
  /\ \E d \in Decoder \ live :
       /\ decoder' = d
       /\ live' = live \cup InStream(d)
       /\ outputs' = Wired(d)
  /\ run' = TRUE
  /\ tpc' = "start"
  /\ opc' = "attach"
  /\ root' = "soundread"
  /\ UNCHANGED <<execution_list, walk, lock, attached, session, card, todo>>

\* After one graph, the other; a graph joined to the first is done already.
AfterAttach == IF root = "soundread" THEN opc' = "attach" /\ root' = "rtprecv"
                                     ELSE opc' = "up" /\ root' = "soundread"

\* ms_ticker_attach up to the list of neighbours
Attach ==
  /\ opc = "attach"
  /\ \/ root \in attached /\ AfterAttach /\ todo' = {}
     \/ /\ root \notin attached
        /\ todo' = Component(root)
        /\ opc' = "preprocess" /\ root' = root
  /\ UNCHANGED <<outputs, execution_list, ticker, owned, card>>

\* winsnd_start_r and winsnd_start_w: the first of them starts the thread.  A
\* thread that is there already would lose its handle.
StartsCard(f) ==
  IF f \notin CardFilters THEN UNCHANGED card
  ELSE /\ started' = started \cup {f}
       /\ device' = IF started # {} THEN device
                    ELSE IF device = "none" THEN "runs" ELSE "lost"

\* ms_filter_preprocess, without the lock: last_tick becomes 0.
Preprocess(f) ==
  /\ opc = "preprocess" /\ f \in todo
  /\ todo' = todo \ {f}
  /\ attached' = attached \cup {f}
  /\ done' = done \ {f}
  /\ StartsCard(f)
  /\ UNCHANGED <<outputs, execution_list, work, unschedulable, force_schedule, lock, run,
                 tpc, live, session, decoder, opc, root>>

\* The end of ms_ticker_attach, with the lock: the sources are listed.
ListsEarly ==    \* mutant: the sources are listed before the filters are ready
  /\ opc = "preprocess" /\ lock = "free"
  /\ execution_list' = execution_list \o SelectSeq(Sources(root), LAMBDA f : f \in todo)
  /\ (todo # {} /\ UNCHANGED <<opc, root>>) \/ (todo = {} /\ AfterAttach)
  /\ UNCHANGED <<outputs, ticker, owned, card, todo>>

Lists ==
  /\ opc = "preprocess" /\ todo = {} /\ lock = "free"
  /\ execution_list' = execution_list \o Sources(root)
  /\ AfterAttach
  /\ UNCHANGED <<outputs, ticker, owned, card, todo>>

----------------------------------------------------------------------------
(* The owner: audio_stream_stop. *)

\* A stream without a ticker is freed at once.
Stop ==
  /\ \/ opc = "idle" /\ opc' = "free"
     \/ opc = "up" /\ opc' = "detach"
  /\ root' = "soundread"
  /\ UNCHANGED <<outputs, execution_list, ticker, owned, card, todo>>

AfterDetach == IF root = "soundread" THEN opc' = "detach" /\ root' = "rtprecv"
                                     ELSE opc' = "dismantle" /\ root' = "soundread"

\* ms_list_remove of each member of A
Without(s, A) ==
  LET kept[n \in 0..Len(s)] ==
        IF n = 0 THEN << >>
        ELSE IF s[n] \in A THEN kept[n - 1] ELSE Append(kept[n - 1], s[n])
  IN kept[Len(s)]

\* ms_ticker_detach up to unlocking: the sources of the whole graph are removed.
DetachesOne ==    \* mutant: only the source it was called with is removed
  /\ opc = "detach"
  /\ \/ root \notin attached /\ AfterDetach /\ UNCHANGED <<execution_list, todo>>
     \/ /\ root \in attached /\ lock = "free"
        /\ execution_list' = Without(execution_list, {root})
        /\ todo' = Component(root)
        /\ opc' = "postprocess" /\ root' = root
  /\ UNCHANGED <<outputs, ticker, owned, card>>

Detach ==
  /\ opc = "detach"
  /\ \/ root \notin attached /\ AfterDetach /\ UNCHANGED <<execution_list, todo>>
     \/ /\ root \in attached /\ lock = "free"
        /\ execution_list' = Without(execution_list, Component(root))
        /\ todo' = Component(root)
        /\ opc' = "postprocess" /\ root' = root
  /\ UNCHANGED <<outputs, ticker, owned, card>>

\* winsnd_stop_r and winsnd_stop_w: the last of them waits for the thread.
StopsJoining(f) ==    \* mutant: each of them waits
  /\ started' = started \ {f}
  /\ opc' = IF f \in CardFilters THEN "join card" ELSE opc
  /\ UNCHANGED device

StopsCard(f) ==
  /\ started' = started \ {f}
  /\ opc' = IF f \in CardFilters /\ started' = {} THEN "join card" ELSE opc
  /\ UNCHANGED device

\* ms_filter_postprocess, after unlocking
Postprocess(f) ==
  /\ opc = "postprocess" /\ f \in todo
  /\ todo' = todo \ {f}
  /\ attached' = attached \ {f}
  /\ StopsCard(f)
  /\ UNCHANGED <<outputs, execution_list, ticker, live, session, decoder, root>>

JoinsCard ==
  /\ opc = "join card" /\ device = "ended"
  /\ device' = "none"
  /\ opc' = "postprocess"
  /\ UNCHANGED <<outputs, execution_list, ticker, owned, started, root, todo>>

Detached ==
  /\ opc = "postprocess" /\ todo = {}
  /\ AfterDetach
  /\ UNCHANGED <<outputs, execution_list, ticker, owned, card, todo>>

Dismantle ==
  /\ opc = "dismantle"
  /\ outputs' = [f \in Filter |-> IF f \in InStream(decoder) THEN << >> ELSE outputs[f]]
  /\ opc' = "free"
  /\ UNCHANGED <<execution_list, ticker, owned, card, root, todo>>

\* audio_stream_free up to the ticker: the session first, then every filter it
\* knows of.  The resampler is not among them.
Frees == (Role \ {"resampler"}) \cup {decoder}

Free ==
  /\ opc = "free"
  /\ session' = FALSE
  /\ live' = live \ Frees
  /\ decoder' = NoDecoder
  /\ opc' = IF tpc = "none" THEN "none" ELSE "stop"
  /\ UNCHANGED <<outputs, execution_list, ticker, attached, card, root, todo>>

StopTickerLate ==    \* mutant: run stays TRUE
  /\ opc = "stop" /\ lock = "free"
  /\ opc' = "join"
  /\ UNCHANGED <<outputs, execution_list, ticker, owned, card, root, todo>>

\* ms_ticker_stop asks the thread to end, with the lock ...
StopTicker ==
  /\ opc = "stop" /\ lock = "free"
  /\ run' = FALSE
  /\ opc' = "join"
  /\ UNCHANGED <<outputs, execution_list, walk, lock, tpc, owned, card, root, todo>>

\* ... and waits until it has.
Join ==
  /\ opc = "join" /\ tpc = "done"
  /\ tpc' = "none"
  /\ opc' = "none"
  /\ done' = {}
  /\ UNCHANGED <<outputs, execution_list, work, unschedulable, force_schedule, lock, run,
                 owned, card, root, todo>>

OwnerNext ==
  \/ New
  \/ /\ UNCHANGED options
     /\ \/ StartFails \/ Start \/ Attach \/ Lists
        \/ Stop \/ Detach \/ JoinsCard \/ Detached \/ Dismantle \/ Free \/ StopTicker \/ Join
        \/ \E f \in Filter : Preprocess(f) \/ Postprocess(f)

----------------------------------------------------------------------------
(* The ticker thread. *)

\* audio_stream_change_decoder, called from the process of rtprecv when a
\* packet has another payload type for which there is a decoder
ChangesKeepingOld(e) ==    \* mutant: stream->decoder is not updated
  /\ outputs' = [outputs EXCEPT !["rtprecv"] = <<e>>, ![e] = <<"dtmfgen">>,
                                ![decoder] = << >>]
  /\ live' = (live \ {decoder}) \cup {e}
  /\ attached' = (attached \ {decoder}) \cup {e}
  /\ UNCHANGED <<session, decoder>>

ChangesDecoder(e) ==
  /\ outputs' = [outputs EXCEPT !["rtprecv"] = <<e>>, ![e] = <<"dtmfgen">>,
                                ![decoder] = << >>]
  /\ live' = (live \ {decoder}) \cup {e}
  /\ attached' = (attached \ {decoder}) \cup {e}
  /\ decoder' = e
  /\ UNCHANGED session

TickerThread ==
  /\ UNCHANGED <<execution_list, card, owner, options>>
  /\ \/ UNCHANGED <<outputs, owned>> /\ TickerMoves
     \/ UNCHANGED <<outputs, owned>> /\ \E f \in Filter : Processes(f)
     \/ /\ Visits("rtprecv")
        /\ \E e \in Decoder \ live : ChangesDecoder(e)
        /\ Processes("rtprecv")

----------------------------------------------------------------------------
(* The card's thread: it looks at read_started and write_started between two *)
(* buffers.                                                                  *)

DeviceEnds ==
  /\ device = "runs" /\ started = {}
  /\ device' = "ended"
  /\ UNCHANGED <<outputs, execution_list, ticker, owned, started, owner, options>>

Next == OwnerNext \/ TickerThread \/ DeviceEnds

Spec == Init /\ [][Next]_vars

\* The threads keep running; the mutex is given to whoever waits for it, and
\* nobody is obliged to place a call or to hang up.
Fairness ==
  /\ WF_vars(TickerThread)
  /\ WF_vars(DeviceEnds)
  /\ WF_vars(OwnerNext /\ opc \notin {"none", "idle", "up"})
  /\ SF_vars(Lists /\ UNCHANGED options)
  /\ SF_vars(Detach /\ UNCHANGED options)
  /\ SF_vars(StopTicker /\ UNCHANGED options)

FairSpec == Spec /\ Fairness

----------------------------------------------------------------------------
(* Correctness. *)

TypeOK ==
  /\ TickerTypeOK
  /\ options \in Options
  /\ attached \subseteq live /\ live \subseteq Filter
  /\ session \in BOOLEAN
  /\ decoder \in Decoder \cup {NoDecoder}
  /\ started \subseteq CardFilters
  /\ device \in {"none", "runs", "ended", "lost"}
  /\ opc \in OwnerPc
  /\ root \in {"soundread", "rtprecv"}
  /\ todo \subseteq Filter
  /\ opc \in {"none", "idle"} => tpc = "none"

\* The filters the ticker thread may touch: what its list and its pending
\* visits lead to, and the inputs of those.
Reachable ==
  UNION {Component(f) : f \in ToSet(execution_list) \cup ToSet(work) \cup ToSet(unschedulable)}

\* Whatever the owner is doing, the ticker thread can only come to filters
\* that are allocated and prepared, and to an RTP session that exists.
RunsOnlyPrepared ==
  /\ Reachable \subseteq live \cap attached
  /\ Reachable \cap {"rtprecv", "rtpsend"} # {} => session

\* The decoder the owner will unlink and free is the one in the graph, although
\* the ticker thread replaces it; the card's thread, which the first filter to
\* start and the last to stop share, runs once and as long as one of them needs
\* it; and a stopped stream leaves nothing behind: no link, no source, no
\* preparation, no thread of the card.
OwnerKnowsGraph ==
  /\ opc \in OwnerPc \ {"none", "idle", "free", "stop", "join"} =>
       /\ decoder \in live
       /\ outputs["rtprecv"] = <<decoder>> /\ outputs[decoder] = <<"dtmfgen">>
  /\ opc \in {"stop", "join", "none"} =>
       /\ outputs = NoLinks
       /\ execution_list = << >>
       /\ attached = {}
       /\ device = "none"
  /\ started # {} => device = "runs"
  /\ started = {} /\ opc # "join card" => device = "none"

\* While the stream is up, both graphs run completely in every tick, also in
\* the tick in which the decoder is replaced.
BothGraphsRun ==
  opc = "up" /\ PassOver /\ unschedulable = << >> => InStream(decoder) \subseteq done

\* audio_stream_stop returns, whatever the ticker thread was doing.
StopReturns == opc = "detach" ~> opc = "none"
=============================================================================
