# mtalk: a TLA+ verification project

mtalk (`baiyuqi/mtalk`) is a family of programs for a mutual-assistance service: a Windows
Mobile SIP video phone (`src/mediastreamer2.root`), the server it talks to
(`src/AssistanceWeb`, `src/AssistanceBusiness`, `src/AssistanceEntity`), an Android client
(`src/MutualAssistance`), and unrelated tools (`src/DfsBrowser`, `src/Triangle`). The
logic that is hard to get right is in the phone: a call engine driven by the events of a
SIP stack, an RTP library with its own threads, and a media engine that runs a graph of
filters on another thread.

Every definition in the modules is translated from the C, C++ or Java source; the SIP
stack (eXosip) and the remote parties are modelled from how the code uses them.

## The system's parts

| part | source | state | operations | hard behaviour |
|---|---|---|---|---|
| call engine | `mobilePhone/LinphoneCore.cpp`, `Events.cpp`, `PhoneCore.cpp` | `lc->call`, `audiostream`, `ringstream`, general state, call log | invite, accept, terminate, refer; one handler per eXosip event; the 300 ms iterate | events about old calls, late answers, NULL or freed calls, iterate re-entered from a modal dialog |
| registration and authentication | `mobilePhone/Proxy.cpp`, `Private.cpp`, `Events.cpp` | proxy list, `auth_info`, `automatic_action` | register, edit, find-or-ask for a password | retries suspended for ever, several realms |
| presence and friends | `mobilePhone/Presence.cpp`, `Friend.cpp` | friend list, subscription ids | subscribe, notify, close | events for old subscriptions |
| SDP negotiation | `mobilePhone/SdpHandler.cpp` | negotiation context | offer, answer, read answer | codec matching |
| RTP sessions and scheduler | `oRTP/src/rtpsession.c`, `scheduler.c`, `sessionset.c` | queues, timestamps, wait points, session masks | send, receive, select, set unset | threads sharing bit masks and wait points, timestamp wrap-around |
| RTCP, telephone events | `oRTP/src/rtcp.c`, `telephonyevents.c` | report counters | build and parse reports | sequence wrap-around |
| media engine | `mediastreamer2/src/msticker.c`, `msfilter.c`, `msqueue.c`, `audiostream.c` | filter graph, execution list, queues | attach, detach, tick | attaching while the ticker thread runs |
| ICE and STUN | `mediastreamer2/src/ice.c`, `oRTP/src/stun.c` | candidate pairs | connectivity checks | not called by the phone's streams |
| SIP server | `AssistanceWeb/src/com/tc/sip` | registered devices | register, message | two servlet threads |
| persistence, entities | `AssistanceBusiness`, `AssistanceEntity` | database rows, protocol text | CRUD, parse, stream | round trip of the protocol |
| Android client | `MutualAssistance` | accounts, HTTP server | login, message | service restart |
| file browser, geometry | `DfsBrowser`, `Triangle` | user interface, triangulation | | sequential |
| codecs, devices, third party | `mediastreamer2/src/*`, `Phone-deps` | | | not the program's own logic, or hardware |

`PROJECT.json` lists each of them under "components" with what is modelled.

## The modules and the code

| module | models | extends | checked by the runs |
|---|---|---|---|
| `CallControl` | the call engine: `LinphoneCore.cpp`, `Events.cpp`, `PhoneCore.cpp` (of `mobilePhone`) | | `call_control`, `call_control_live`, `ring_timeout`, `busy_without_call` |
| `PhoneLine` | the abstract promise of the call engine: a phone with one line | | as `ImplementsPhoneLine` in `call_control` |
| `MCCallControl` | the symmetry of the legs and the contents of freed blocks, for TLC | `CallControl` | |
| `CallControlProofs` | theorems about the call engine: types, the window, and that the queue, the legs and the call agree | `CallControl` | |
| `CallControlRefinement` | theorems about its steps: media, and the refinement of `PhoneLine` | `CallControlProofs` | |
| `SipAccount` | registration, challenges and passwords: `Events.cpp`, `Private.cpp`, `Proxy.cpp`, the end of `PhoneCore.cpp`'s iterate | | through `Presence` |
| `Presence` | a friend and the two subscriptions between us: `Presence.cpp`, `Friend.cpp`; the composition with `SipAccount`, which shares the event queue and the stack's turn | `SipAccount` | `presence` |
| `MCPresence` | the configurations, for TLC | `Presence` | |
| `PresenceProofs` | theorems about both: types, the answers, the dialogues, the goodbye, the passwords | `Presence` | |
| `MSTicker` | the ticker thread's walk over the filter graphs: `msticker.c`, `msfilter.c` | | `ticker` |
| `MSTickerProofs` | theorems about the ticker | `MSTicker` | |
| `AudioStream` | an audio stream, its owner, its ticker thread and the sound card's thread: `audiostream.c`, the attaching half of `msticker.c`, the starting and stopping half of `winsnd.c` | `MSTicker` | `audio_stream` |
| `AudioStreamProofs` | theorems about the audio stream | `AudioStream`, `MSTickerProofs` | |
| `TickerClock` | how the ticker thread keeps time: `msticker.c`, `winsnd.c` | | `ticker_clock`, `ticker_clock_race` |
| `TickerClockProofs` | theorems about the clock | `TickerClock` | |
| `RtpScheduler` | the scheduler's thread, wait points, masks and `session_set_select`: `scheduler.c`, `rtpsession.c`, `sessionset.c`, `port.c` (of `oRTP/src`) | | `rtp_scheduler`, `rtp_scheduler_shared` |
| `RtpSchedulerProofs` | theorems about the scheduler | `RtpScheduler` | |
| `RtpReceive` | parsing, queueing and reading of packets and telephone events: `rtpparse.c`, `rtpsession.c`, `telephonyevents.c` | | `rtp_receive` |
| `MCRtpReceive` | what is sent to the session, for TLC | `RtpReceive` | |
| `RtpReceiveProofs` | theorems about the receiver | `RtpReceive` | |

`PROJECT.json` maps every definition to the lines it stands for. Definitions whose comment
says "mutant" are the code with a plausible mistake; nothing uses them in the specification.
They show that the property they are paired with in `PROJECT.json` can fail.

### CallControl

One GUI thread runs the whole engine. A 300 ms timer calls `linphone_core_iterate`, which
takes events out of eXosip's queue, one handler at a time, then looks at timeouts; the
user's buttons run between two iterations. A step of the model is a whole handler or a whole
user operation. What is not atomic is an iteration: an incoming call opens a modal dialog
*inside* its handler, the dialog runs a message loop, the timer fires again, and a second
iteration starts while the first is suspended.

| variable | code |
|---|---|
| `call` | `lc->call`: `NoCall` for NULL, or the fields of the block it points to; `freed` says the block was given back while the pointer stayed |
| `audio`, `ring` | `lc->audiostream` (NULL, allocated, running) and `lc->ringstream` |
| `gstate` | `lc->gstate_call`; END and ERROR go on to IDLE at once, in the same call |
| `call_logs` | the status `linphone_call_log_completed` writes, per leg |
| `pc`, `modal` | where the iteration is, and how many iterations wait in a modal dialog |
| `fault` | the memory error that ended the process; nothing happens after it |
| `leg`, `evq` | the environment: each SIP dialogue's state, and eXosip's FIFO event queue |

User operations: `Invite`, `AcceptCall`, `TerminateCall`, `Refer`, `DialogCloses`. Handlers:
`CallAccepted`, `CallProceeding`, `CallRinging`, `CallTerminated`, `CallFailure`,
`CallReleased`, `CallRedirected`, `IncNewCall`, `HandleReinvite`, `HandleAck`; they run under
`ProcessEvent`, after `TimerFires` and before `DrainDone` and `Check`. `TimePasses` makes the
ring timeout due. `HeapReuse` lets the allocator give a freed call's block to somebody who
writes over it, since the engine goes on reading it.

The environment is a small protocol machine per leg, so events come in the orders a SIP stack
can produce: provisional answers before final ones, a 200 that crosses our CANCEL, a
challenge that is retried or given up, an INVITE that is cancelled before or after we answer,
re-INVITEs and BYEs at any time in an established call, and RELEASED last. The variable
`sdp_200_ack` is the setting of that name: the offer travels in the INVITE or in the 200.
`Garbage` is what the allocator may leave in a freed block; `SomeGarbage` lets the engine read
it, `NoGarbage` keeps freed blocks as they were.

Abstractions: an SDP body is absent, negotiable or not; a status code is its class
(authentication, 380, 302, other). The stack retries any subset of the challenged requests
when the queue is drained, which covers every value of `automatic_action`. The order and
eviction of the call log are left out. Presence is always online, as in the code, whose
setter compares the new member with itself (`LinphoneCore.cpp:1307`).

### PhoneLine

The abstract specification: a dialogue takes the free line, may become a conversation, and
gives it back; it has the line at most once; only a call being placed can move to another
destination; and the line may be *lost*, for good. It is lost because
`linphone_core_terminate_call` frees the call and leaves `lc->call` pointing at it, and
because of the NULL dereferences listed below. `CallControl` implements it under the mapping
at `Line` (`call_control`).

### MSTicker

The ticker thread holds `ticker->lock` during a tick and gives it back while it sleeps. In a
tick, `run_graph` recurses from each source along the outputs; a filter whose inputs have not
all run is put aside and run in a second pass. The recursion is a sequence `work` of pending
visits (it is depth first, so the visits of a filter's outputs go in front), and
`last_tick == ticks` is membership in `done`. `Processes` reads the outputs *after* the
filter's process method, as the code does; this matters because the RTP receiver replaces the
decoder after it from inside process.

### AudioStream

| variable | code |
|---|---|
| `outputs`, `execution_list`, `done`, ... | the filter graph and the ticker of `MSTicker` |
| `live` | filters that are allocated |
| `attached` | filters whose `ticker` field is set: preprocessed and not postprocessed |
| `session`, `decoder` | `stream->session`, `stream->decoder` |
| `options` | the arguments and fields that choose the optional filters |
| `started`, `device` | `WinSnd`'s `read_started` and `write_started`, and its `thread` |
| `opc`, `root`, `todo` | where the owner is in `audio_stream_start_full`, `audio_stream_stop` and what it calls |

Two threads. The owner (the GUI thread, inside the call engine's handlers) creates the
filters, links them, starts the ticker, attaches the two graphs, and later detaches,
dismantles, frees them and joins the ticker. What it does without the lock (preprocessing and
postprocessing) is one step per filter. The ticker thread walks the graphs and may replace
the decoder when a packet with another payload type arrives (`ChangesDecoder`). The echo
canceller is the one filter that belongs to both graphs, so attaching one attaches both.
`StartFails` covers the returns in the middle of `audio_stream_start_full`.

The sound card is a third thread. Its reader and writer filters share one `WinSnd` record:
`started` is `read_started` and `write_started`, `device` is its thread. The first filter to be
prepared starts it, the last to be taken apart waits for it (`JoinsCard`), and the thread ends
when it sees neither of the two flags (`DeviceEnds`). Files (`options.files`) replace the card.

Decoders are told apart because they are replaced; every other filter is named by its role.
`options` is chosen once per stream: the echo canceller, a volume filter in one direction
(automatic gain control), both (echo limiter) or none, and files or cards. The resampler of a stream that plays a file stays allocated for ever
(`audiostream.c:51-63` never destroys it); the model keeps it in `live`.

### TickerClock

After a tick the thread adds the interval to `time`, and sleeps until the time function has
advanced as much since `orig`. The model has the system's tick count with `W` bits, the
card's clock, and each store of `ms_ticker_set_time_func` as a step, because its lock is
commented out. `Sleep`'s argument is cut to `W` bits.

### SipAccount and Presence

One timer handler does all the work: it drains the stack's queue, one handler per event, and
then, unless `automatic_action` counts a password the user was asked for, gives the stack its
turn, in which it answers challenges and refreshes what expires (`PhoneCore.cpp:139-147`). The
end of the program (`sip_config_uninit`) drains and gives the turn a fixed number of times
without looking at `automatic_action`.

| variable | code |
|---|---|
| `auth` | `lc->automatic_action`; of each `auth_info`, `works` and `first_time` |
| `proxy`, `gstate_reg` | the proxy config's `rid`, `registered`, `auth_failures`; the registration's general state |
| `friend` | `sid`, `out_did`, `nid`, `in_did`, `inc_subscribe_pending`, `status`, and the settings `subscribe` and `pol` |
| `pc`, `loops` | the timer's handler and the end of the program |
| `requests`, `subs`, `watches`, `queue` | the environment: the stack's transactions and dialogues, and its event queue |
| `passwords` | which passwords the configuration has, which of them are right, and which realms the registrar asks for |

The stack is modelled from how it is used: every `eXosip_register_build_initial_register` gives
a fresh number, it answers the challenge that came last, and refuses to build another REGISTER
for a number whose answer is awaited. A response may show another contact in its Via than the
request (`moved`). Handlers that read the config which the search did not find are a crash
(`ReadsNull`). `user_register` (`UserRegister`) runs once, and the configs read from the
settings do not register, so there is one proxy config. Its constructor leaves `registered`
uninitialised: both values are tried.

Not in these modules: the functions that nobody calls (`linphone_core_remove_proxy_config`,
`linphone_core_abort_authentication`, `remove_friend`, `reject_subscriber`) and subscribers who
are not in the friend list, for whom the user is asked.
`linphone_core_notify_all_friends` tells "active" to denied friends too; the comparison that
would make the presence mode change at all is dead code (`LinphoneCore.cpp:1307`). A second
SUBSCRIBE, sent while the first is unanswered, leaves one dialogue that nobody will close;
`GoodbyeIsSaid` therefore promises the goodbye only where there is one.

### RtpScheduler

Threads: the scheduler's (`"sched"`), one for each session in blocking mode, and one that polls
the others (`"poll"`): it selects, and sends on each session that is reported. The sending side
is modelled; the receiving side is the same code on the other mask and wait point. Condition
variables are what `port.c` makes of them on Windows: auto-reset events that stay set.

| variable | code |
|---|---|
| `time_`, `list`, `all_sessions`, `w_sessions`, `lock`, `unblock` | the fields of `RtpScheduler` |
| `mask_pos`, `wp`, `wp_lock`, `wp_event` | of each session: its bit, `snd.wp.time` (or `Asleep`), the wait point's lock and event |
| `packed` | whether the positions in use are all in one 32-bit word, or each in a word of its own |
| `others` | positions that the application's other sessions have taken |
| `pc`, `loaded`, `cur`, `todo`, `words`, `found` | where each thread is, the word it has loaded, its session, what is left of the scheduler's list and of the masks, and what select found |

`|=` and `&=` on a word are a load and a store (`Loads`, `Stores`), with other threads in
between. `time_` is counted modulo `ClockRange`, as `uint32_t` is; packets may be for any time.

### RtpReceive

A datagram is parsed (`Parse`), queued or dropped, and read by `Receive`; the sender (`Send`)
follows a script of media, packets without data, jumps of the timestamp, packets of a stranger
and dialled keys, each of which is a start, an update and three times the end of an event.
The network loses, duplicates and reorders. Numbers and times are counted without bound by the
sender and seen modulo `SeqMod` and `TsMod` by the code, so that wrap-around is met within a few
packets. The jitter buffer's averages are replaced by any timestamp. What the code does not
keep is recorded beside it to state the properties: `heard`, `given`, `base`, `top`,
`disturbed`, `last_tev`, `arrived`. `handled` says whether the application installed the two
callbacks that resync, as the audio stream does and the video stream does not.

## What the runs check

| run | instance | what it shows |
|---|---|---|
| `call_control` | 3 legs, queue of 2, both values of `sdp_200_ack`, reused blocks | The engine stays typed. A live call is never shown as idle (`LiveCallIsShown`). A dialogue that uses the line is the current call's (`HeldLegIsCurrent`). A call whose dialogue the stack has freed still has its RELEASED event before it, and one without sound is being closed (`DeadCallIsReaped`). No ring over a conversation (`TalkingIsNotRinging`). No handler meets a NULL call or stream unless the local user has hung up before (`NoNullDereference`). Events of other legs leave the call alone (`StrangerEventsHarmless`). The microphone never opens for an unanswered call (`MediaStartsAfterAnswer`). The engine implements `PhoneLine`. |
| `call_control_live` | 2 legs, queue of 1, no cards | A call whose dialogue is over is forgotten, and an incoming call stops ringing, also while modal dialogs keep iterations waiting. |
| `ring_timeout` | 2 legs, queue of 2 | A violation: an answered call is ended as missed. |
| `busy_without_call` | 2 legs, queue of 2 | A violation: 486 without a call. |
| `ticker` | every graph of 4 filters, at most 2 links from each | A tick runs everything that a source leads to (`TickIsComplete`), a filter after its inputs unless it is behind a loop (`InputsFirst`), and ends (`TickEnds`). |
| `audio_stream` | all options, 2 decoders | The ticker thread only comes to filters that are allocated and prepared (`RunsOnlyPrepared`); the owner knows the current decoder, the card's thread runs once and as long as it is needed, and a stopped stream leaves nothing behind (`OwnerKnowsGraph`); both graphs run completely in every tick (`BothGraphsRun`); stopping returns (`StopReturns`). |
| `ticker_clock` | 5-bit clock, 6 ms, interval of 2 ms, no wrap | The sleep is never longer than a tick until a card's clock is put in, and no tick comes early, by more than one interval at that change. |
| `ticker_clock_race` | 5-bit clock, no wrap | A violation: the thread sleeps for the phone's uptime. |
| `rtp_scheduler` | 1 session in blocking mode, 1 polled, 2 positions, one of which may be taken | Sessions have positions of their own (`PositionsDiffer`), a sender wakes only when its time has come (`SleepsUntilDue`), where no two share a word no session is forgotten (`NeverForgottenApart`), and sleepers and select return (`WaitersReturn`). |
| `rtp_scheduler_shared` | 2 polled sessions | A violation: with a shared word a session is forgotten. |
| `rtp_receive` | 8 scripts, 4-bit numbers and times, queue of 3, 3 packets under way, 2 repeated | Each stretch of one source in a queue holds its packets once and in order (`QueuesInOrder`); where a change of source resyncs there is one source at a time (`StreamsAreApart`); what is given goes forward, where sources are not mixed (`GivenInOrder`); the extended number counts the loops (`LoopsCounted`); a key is heard once (`HeardOnce`), and is heard (`KeysAreHeard`). |
| `presence` | a right password, a wrong one, right ones of two realms; a friend that is watched or not | Answers find their proxy config (`AnswersFindProxy`); the user is asked for a password only for a reason (`AskedForAReason`); the dialogues a friend is known by are open (`KnownDialogsAreOpen`); the phone says goodbye (`GoodbyeIsSaid`); a registration with the right password succeeds (`RegistersWithPassword`). |

`AskedForAReason` and `RegistersWithPassword` have conditions, each of which the model needs:
with calls, the challenge of a call uses up the one free try of a password; with two realms,
`authentication_ok` remembers only one of them as working; and when the 200 that proves a
password is lost, the next challenge asks for it again.

### Bounds

- Legs: three, because the engine holds one call, so an old dialogue, the current one and a
  new one are the most it can confuse; two where the property is about one call and the
  events of another.
- `MaxQueue` 2: two events queued when the user acts or another handler runs is what lets an
  event outlive the call it is about; the bound is in the guard of `Signals`.
- `Garbage`: two ways a freed block may read, one of them like a call that still rings, in the
  run that asks about memory; none elsewhere, since it multiplies states.
- Filters: four make a diamond (two branches that join, as in the echo canceller) and, in
  other graphs, loops that a source leads into. The audio stream runs on its real graphs.
- Decoders: two, the current one and its replacement; the model's start is disabled when
  streams that failed to start have kept both.
- The clock: what matters is that the uptime is longer than the interval and that the clock
  wraps, which five bits give; `MaxTime` bounds the milliseconds.
- `Waiter`, `Polled`: each session is checked against one of its own kind of thread and one of
  the other; two sessions are enough to share a word, and the theorems below are for any
  number. `ClockRange` 4 has a time ahead, one behind and the wrap between them.
- `SeqMod`, `TsMod` 16 with `First` 14: the scripts pass the loop after two packets; `MaxNet`
  3 packets under way (those of one key apart) lets a packet be overtaken by two, and
  `MaxRepeats` 2 lets one arrive three times.
- `MaxRequests` 4: REGISTER, the one after a 403, an INVITE and one more. `MaxWork` 3 is how
  much the network, the user and the friend may do wrong or begin, in all; `MaxSubscribes` and
  `MaxWatches` 2 are an old subscription and a new one. `QuitLoops` 1 stands for 20: one drain
  leaves the most events unhandled.

`CHECK_DEADLOCK FALSE` is set for `CallControl` because its process ends at a memory error,
for `MSTicker` because the thread ends when it is stopped, for `TickerClock` because time is
bounded, for `Presence` because the program ends, and for `RtpReceive` because the script does.
`AudioStream` and `RtpScheduler`, the two with locks between threads, are checked for deadlock.

### Fairness

- Call engine (`FairSpec`): weak fairness of the timer and of each step of an iteration (the
  window's message loop keeps running, also inside a modal dialog) and of the clock. Strong
  fairness of the stack releasing a finished dialogue, only because the model's queue is
  bounded and may be full at times. Users and peers are under no obligation.
- Ticker: weak fairness of the thread's steps; nobody has to stop it.
- Scheduler (`FairSpec`): strong fairness of each thread that has begun a call: locks are
  Windows mutexes, which are given to a thread that keeps asking. Beginning a call is not fair.
- Receiver: weak fairness of `Receive`, which the ticker calls at every tick; the network is not
  fair.
- Presence: weak fairness of the 300 ms timer and its handler, and of the registrar's answers;
  users, friends and failures are under no obligation.
- Audio stream (`FairSpec`): weak fairness of the ticker's and the card's threads and of the owner while it is inside
  start or stop, and strong fairness of its steps that take the lock: the ticker thread
  releases the mutex every tick, and the phone's mutex is a Windows kernel object
  (`oRTP/src/port.c:182`), which wakes those who wait for it. Nobody is obliged to place a call
  or to hang up.

## What is proved

Proofs are checked by TLAPS for every value of the constants that the named assumptions allow.
Every safety and action property that a passing run checks has a theorem, and so has the
refinement. Seldom is such a property inductive; what follows names the invariants that are.

- `CallControlProofs!TypeCorrect`: `Spec => []TypeOK`. The type invariant is inductive; there
  is a lemma per family of actions (user, handlers, loop, environment). It rests on
  `NoCallAssumption`, `LegAssumption`, `ConfigAssumption` and `QueueAssumption`.
- `CallControlProofs!CallIsShown`: `Spec => []LiveCallIsShown`, inductive relative to `TypeOK`:
  each handler that creates or replaces a call also announces it, and those that set the idle
  state end the call in the same step.
- `CallControlProofs`: `HeldLegsAreKnown`, `DeadCallsAreReaped`, `NoRingOverTheTalk`,
  `HandlersMeetNoNull` and `StrangersDoNoHarm`, for any set of legs and any length of the
  queue. None of these properties is inductive, because what a handler may do depends on what
  is still in the queue. The invariant `SafeInv` says that either the call dangles (`Lost`,
  which lasts for ever: `LostForEver`), or `Safe` holds: the events of a leg wait in an order
  the stack can produce (`Ordered`, `Follows`); a leg under way is the current call's, or its
  INVITE is waiting (`LegsOK`); the call, its stream and its ring agree with its leg and with
  the events that are to come (`CallOK`); each waiting event is about the current call, if its
  handler is one of those that never compare the call id (`EventsOK`). So those handlers only
  ever meet their own call, which is why the code works without the comparison. The proof has
  a lemma for each handler, each user operation and each signal of the stack; taking an event
  (`Taking`) and adding one are lemmas about the queue. Like the types, it rests on the
  assumptions about `NoCall`, `Leg`, the configuration and the queue, and on
  `GarbageAssumption`: what a freed block may read as is still the fields of a call.
- `CallControlRefinement!MediaWaitForTheAnswer` and `EngineIsAPhoneLine`, from the same
  invariant. For the refinement, each step has one of eight outcomes for the line (the call is
  dead, was hung up, the line is the same, the talk begins, the call is over, the line is
  taken, the call moves to another dialogue, a refusal is logged: `StepOutcome`), and each
  outcome is a step of `PhoneLine` or a stutter (`OutcomeIsLineStep`). Once the call dangles
  the line never changes again (`LostIsQuiet`).

- `MSTickerProofs!TickerTypeCorrect` and `TickComplete`, for every finite set of
  filters (`FiniteAssumption`) and every graph, loops included. `TickIsComplete` speaks of the
  end of a tick only. The invariant `NothingForgotten` speaks of every
  moment of the walk: the sources, and whatever is linked after a filter that has run, have
  run, or are in the work, or were put aside. Visiting a filter moves it from the work to one
  of the other two, processing it adds its outputs to the work, and the second pass makes the
  work out of what was put aside; when both are empty, all have run. The lemmas `ElementsOf...`
  about the elements of concatenated sequences carry it.
- `MSTickerProofs!InputsRunFirst`: `InputsFirst`, by `WalkOrder`. In the first pass whatever
  could run is still to be visited, so at its end each filter that has not run waits for another
  one that has not; such a set closed under waiting, in a finite graph, has a loop behind each of its
  members. The last is an induction over the graph, done without the library's induction
  theorems (they take an operator) from the well-foundedness of finite sets under inclusion.
- `AudioStreamProofs`: `StreamTypes`, `StreamRunsOnlyPrepared`, `StreamOwnerKnowsGraph` and
  `StreamBothGraphsRun`, for any number of decoders and every choice of options. `StreamInv`
  adds to the ticker's invariant what is listed with the ticker at each point of the owner's
  way (`Listed`, `StageInv`), the shape of the graph while it is linked (`GraphInv`), the
  card's flags (`CardInv`), and `VisitInv`: a decoder is visited only after the RTP receiver has
  run, so that what the walk holds is never replaced under it. `Component`, what is connected
  to a filter, is shown to be the least closed set, and equal to the filters of the stream for
  each option.
- `TickerClockProofs!SleepIsTheRestOfATick` and `TicksFollowTheClock`, for every width, interval
  and uptime, provided the clock does not wrap while the phone is up (`NoWrap`). `ClockInv` says
  for each stage of the thread and of `ms_ticker_set_time_func` how `time`, `orig` and the clock
  lie to each other.

- `PresenceProofs!PresenceTypeOK`: the numbers that the handlers keep and compare name requests
  and subscriptions that exist, for every bound.
- `PresenceProofs!AnswersAreFound`: at most one live registration, at most one answer to it
  in the queue, and it is the proxy config's (`ProxyInv`); a 403 gives the config a new number
  only while no answer to the old one is left.
- `PresenceProofs!DialogsAreKnown`: a dialogue that the friend, or an event in the queue,
  names is open, or the event of its end is queued behind (`WatchInv`, `SubscriptionInv`).
- `PresenceProofs!FriendsHearGoodbye`: the subscription that was told something last is
  the one the friend record names, until the program is off and it has been told the end
  (`WatchOrder`); our own subscription, once answered, is known or its answer is still queued
  behind (`AnswerOrder`).
- `PresenceProofs!AsksForAReason`, by `ReasonInv`, relative to `ProxyInv`: the first challenge of
  a realm uses up `first_time`; from then on the registration is being retried until the stack's
  turn, with no answer in the queue, so the next challenge finds the password tried, and the
  right one works.

- `RtpReceiveProofs`, for the widths, windows and queues of `NumbersAssumption` (16 and 32 bits and
  a window of 200 satisfy it) and the senders of `StreamsAssumption` (who dials keys sends
  by the ticker's time, as `sender_process` of `msrtp.c` does). Lemmas on numbers that wrap come
  first: what is less than half the space apart is compared rightly (`Compare`,
  `OlderIsLate`). `ReceiveTypes` and `SortedQueues`: `QueueInv` adds that what meets is that
  close (`WindowInv`); `PutInOrder` is the lemma about `rtp_putq`. `OneStreamAtATime`
  (`StreamsInv`). `EveryLoopCounted`: undisturbed, the extended number is the highest that
  was received, and the source has sent it (`LoopInv`). `KeysHeardOnce`: packets of keys follow
  each other as they were sent (`KeyInv`, `ForwardInv`), and one that may still be read is of a
  later key or repeats the end last noted (`HeardInv`).
- `RtpReceiveProofs!GivenForward`: `GivenInOrder`, where timestamps do not go back (`Forward`) and
  the packets that meet span, with `ts_jump`, less than half the timestamps (`Slow`; with the code's
  widths and 5 s of `ts_jump`, up to about 65000 units from a packet to the next). What was sent
  no later has no later time (`TimesInv`), so an older packet is seen to be late and is not
  queued (`GivenInv`). Without `Forward` it is false: where timestamps go back by less than
  `ts_jump` and nobody resyncs, an older packet has a later time, is queued and given.
- `RtpSchedulerProofs`, for any finite set of sessions, any number of positions and any range
  of the clock. `SchedulerTypes` (`MaskInv`, `PlaceInv`, `TickInv`). `SendersSleepUntilDue`: a
  wait point is armed, being reported or signalled, never
  two of these, and none of them unless its sender sleeps (`SleepInv`); no lock is needed.
  `EachSessionHasItsPosition`: where there is room, `all_sessions` is exactly what the sessions
  hold (`PositionInv`; that a position is left is a matter of cardinalities, `RoomLeft`).
  `SessionsApartAreNeverForgotten`: with locks (`LockInv`, `WpLockInv`) and the sessions the
  threads are on (`CurInv`), the polling thread stores a word only without sessions that it
  found, or that the scheduler will find due (`ApartInv`). This is the guarantee the code gives
  with one session in a word; `rtp_scheduler_shared` shows that it is lost with two.

Only model-checked: liveness, out of TLAPS's reach with fairness (`EndedCallIsForgotten`,
`IncomingStopsRinging`, `TickEnds`, `StopReturns`, `WaitersReturn`, `KeysAreHeard`,
`RegistersWithPassword`), that no thread waits for ever for another (the deadlock check of
`audio_stream`, `rtp_scheduler`), and `GivenInOrder` on the scripts of the run, whose
timestamps jump back by more than `ts_jump`.

## Disagreements between the code and what it says

- `ring_timeout`: `commonStruct.h:47` calls `inc_timeout` the time after which an *un-answered*
  call is rejected. A call accepted with the offer in the 200 stays in `LCStateRinging` until
  the ACK, so `linphone_core_iterate` (`PhoneCore.cpp:155`) ends it and logs it as missed.
- `busy_without_call`: after a local hang-up `lc->call` points at freed memory
  (`LinphoneCore.cpp:1260`) and every later INVITE gets 486, although `LinphoneCore.h:56` calls
  the member "the current call" and nobody is in one.
- `ticker_clock_race`: the same sleep lasts as long as the phone has been up when the thread
  reads the card's clock before the new origin is stored; the lock around the three stores of
  `ms_ticker_set_time_func` is commented out (`msticker.c:403-409`). The thread can also call
  the card's function with its data still NULL (`ReadsClock`, "crash").

- `rtp_scheduler_shared`: `sessionset.c:104` locks the scheduler so that the masks are not read
  "while they are being modified by the scheduler", but a sending session modifies the same word
  under its own wait point's lock only (`rtpsession.c:828`): a bit is lost and the application
  never sends on that session again.

The models also show, without a document that says otherwise: once `GetTickCount` has wrapped
during a stream and the ticker is late, it sleeps for 49 days, because the difference is taken
in 64 bits and the count has 32 (`msticker.c:332`); a key whose end is dropped from a full
queue is not heard; a 380 after early media leaves
the stream running with no call; a 200 handled after a local hang-up dereferences a NULL
stream through the dangling call; a 180 queued before the hang-up starts the ring again; the
ring timeout leads the next iteration to destroy the call twice; RELEASED and 380 leave the
ring playing; with `sdp_200_ack`, early media dereference a NULL stream (`Events.cpp:741`).

## Hazards

`PROJECT.json` lists under "hazards" where this code is hard to test, with the properties that
cover each, or the reason why none does. Smaller ones not listed there: the preview of a ring
tone shares `lc->ringstream` with a real ring; two servlet threads may both store the same new
device; a `HashMap` shared by request threads (`AlarmRegister.java:26`); `downloadRelation`
clears the known devices before the reads that may fail; RTCP's loss fraction divides by the
packets expected; the one slot for a DTMF to send (`msrtp.c:74`); the jitter of two timestamps
on either side of the 32-bit wrap; the Android client edits its accounts without committing
them; a buffer that `winsnd.c` still plays when the device is closed.

## What is left

In order of importance:

1. The composition of `CallControl` with `SipAccount`: challenges of calls are in both, but the
   queue is not yet one. It would show which calls stay unanswered while a password is asked for.
2. The ring stream (`ringstream`) beside the call's, on one sound card, and the streams leaked
   after a 380.
3. `SdpHandler.cpp`: matching of payload lists against a reference definition.
4. RTCP's counters across the wrap of sequence numbers, from `RtpReceive`'s `extseq`.
5. `GivenInOrder` for senders whose timestamps jump back by more than `ts_jump` and who are
   resynced: the jump has to be told from every delay that the network may cause.

## Not modelled, and why

Codecs, sound and video devices, and the echo canceller's signal processing are input and
output or numeric code. STUN and ICE are third-party or unused by the phone's streams. The
conference mixer's graphs are never built by the phone. Windows, settings files and web pages
keep no state that a property could relate. The persistence facade forwards to a container
that owns the transactions. The file browser and the triangulation library are sequential
tools unrelated to the phone. Every one of them is listed in `PROJECT.json` with its reason.

## Running

`tlc -config CallControl.cfg MCCallControl`, and so on with each pair of configuration and
module in `PROJECT.json`; the largest, `AudioStream`, takes about three minutes. `tlapm M.tla`, for
each `M` whose name ends in `Proofs` and for `CallControlRefinement`, checks the proofs, in one to
a few minutes each.
