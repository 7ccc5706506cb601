------------------------------ MODULE MSTicker ------------------------------
(***************************************************************************)
(* The media ticker (mediastreamer2/src/msticker.c): a thread that, every  *)
(* interval, runs the process method of every filter of the graphs it has  *)
(* been given, starting from their sources.  The recursion of run_graph is *)
(* the sequence "work" of visits still to make, and comparing last_tick    *)
(* with ticks is membership in "done", which a new tick empties.           *)
(*                                                                         *)
(* The thread holds the ticker's lock during a tick and gives it back while *)
(* it sleeps.  AudioStream composes this thread with its owner's; on its   *)
(* own (TickerSpec) it runs any graph, cyclic ones included.               *)
(***************************************************************************)
EXTENDS Naturals, Sequences, FiniteSets, SequencesExt

CONSTANT Filter

ASSUME FiniteAssumption == IsFiniteSet(Filter)

VARIABLES
  outputs,         \* filter -> the filters its output pins are linked to, in order
  execution_list,  \* the sources of the attached graphs
  done,            \* the filters whose last_tick is the current tick
  work,            \* the visits run_graph still has to make in this pass
  unschedulable,   \* visited filters whose inputs have not all run
  force_schedule,  \* this is the second pass, over the unschedulable ones
  lock,            \* who holds ticker->lock: "free", "ticker"
  run,             \* ticker->run
  tpc              \* the thread: "none", "start", "loop", "walk", "sleep", "done"

walk   == <<done, work, unschedulable, force_schedule>>
ticker == <<walk, lock, run, tpc>>

Inputs(f) == {g \in Filter : f \in ToSet(outputs[g])}

\* filter_can_process: every filter linked to an input has run in this tick.
filter_can_process(f) == Inputs(f) \subseteq done

----------------------------------------------------------------------------
(* The thread. *)

TicksIdle ==
  /\ done = {}
  /\ work = << >>
  /\ unschedulable = << >>
  /\ force_schedule = FALSE

\* ms_ticker_run enters its loop.
Begins ==
  /\ tpc = "start" /\ lock = "free"
  /\ lock' = "ticker"
  /\ tpc' = "loop"
  /\ UNCHANGED <<walk, run>>

\* s->ticks++ makes every last_tick an old one, and the first pass starts.
Ticks ==
  /\ tpc = "loop" /\ run
  /\ done' = {}
  /\ work' = execution_list
  /\ unschedulable' = << >>
  /\ force_schedule' = FALSE
  /\ tpc' = "walk"
  /\ UNCHANGED <<lock, run>>

Exits ==
  /\ tpc = "loop" /\ ~run
  /\ lock' = "free"
  /\ tpc' = "done"
  /\ UNCHANGED <<walk, run>>

Visits(f) == tpc = "walk" /\ work # << >> /\ f = Head(work)

\* run_graph on a filter that has already run
Skips(f) ==
  /\ Visits(f) /\ f \in done
  /\ work' = Tail(work)
  /\ UNCHANGED <<done, unschedulable, force_schedule, lock, run, tpc>>

ProcessesUnmarked(f) ==    \* mutant: last_tick is not set
  /\ Visits(f) /\ f \notin done
  /\ filter_can_process(f) \/ force_schedule
  /\ done' = done
  /\ work' = outputs'[f] \o Tail(work)
  /\ UNCHANGED <<unschedulable, force_schedule, lock, run, tpc>>

ProcessesAnyway(f) ==      \* mutant: the inputs are not looked at
  /\ Visits(f) /\ f \notin done
  /\ done' = done \cup {f}
  /\ work' = outputs'[f] \o Tail(work)
  /\ UNCHANGED <<unschedulable, force_schedule, lock, run, tpc>>

ProcessesStale(f) ==       \* mutant: the outputs are read before process
  /\ Visits(f) /\ f \notin done
  /\ filter_can_process(f) \/ force_schedule
  /\ done' = done \cup {f}
  /\ work' = outputs[f] \o Tail(work)
  /\ UNCHANGED <<unschedulable, force_schedule, lock, run, tpc>>

\* run_graph on a filter that can run.  last_tick is set before process and
\* before the recursion, and the recursion reads the outputs after process,
\* which may have changed them.
Processes(f) ==
  /\ Visits(f) /\ f \notin done
  /\ filter_can_process(f) \/ force_schedule
  /\ done' = done \cup {f}
  /\ work' = outputs'[f] \o Tail(work)
  /\ UNCHANGED <<unschedulable, force_schedule, lock, run, tpc>>

\* run_graph on a filter whose inputs have not all run: it is put aside.
Forgets(f) ==              \* mutant: it is not
  /\ Visits(f) /\ f \notin done
  /\ ~filter_can_process(f) /\ ~force_schedule
  /\ unschedulable' = unschedulable
  /\ work' = Tail(work)
  /\ UNCHANGED <<done, force_schedule, lock, run, tpc>>

PutsAside(f) ==
  /\ Visits(f) /\ f \notin done
  /\ ~filter_can_process(f) /\ ~force_schedule
  /\ unschedulable' = <<f>> \o unschedulable
  /\ work' = Tail(work)
  /\ UNCHANGED <<done, force_schedule, lock, run, tpc>>

PassOver == tpc = "walk" /\ work = << >>

\* run_graphs calls itself once for what was put aside.
StartsSecondPass ==
  /\ PassOver /\ unschedulable # << >>
  /\ work' = unschedulable
  /\ unschedulable' = << >>
  /\ force_schedule' = TRUE
  /\ UNCHANGED <<done, lock, run, tpc>>

\* The tick is over: the thread unlocks and sleeps until the next one.
EndsTickLocked ==          \* mutant: it sleeps with the lock
  /\ PassOver /\ unschedulable = << >>
  /\ lock' = lock
  /\ tpc' = "sleep"
  /\ UNCHANGED <<walk, run>>

EndsTick ==
  /\ PassOver /\ unschedulable = << >>
  /\ lock' = "free"
  /\ tpc' = "sleep"
  /\ UNCHANGED <<walk, run>>

Wakes ==
  /\ tpc = "sleep" /\ lock = "free"
  /\ lock' = "ticker"
  /\ tpc' = "loop"
  /\ UNCHANGED <<walk, run>>

\* The steps in which no filter is processed
TickerMoves ==
  \/ Begins \/ Ticks \/ Exits \/ StartsSecondPass \/ EndsTick \/ Wakes
  \/ \E f \in Filter : Skips(f) \/ PutsAside(f)

----------------------------------------------------------------------------
(* The filters around a filter. *)

Around(f) == {f} \cup ToSet(outputs[f]) \cup Inputs(f)

\* find_filters: everything linked to f, directly or not, in either direction
Component(f) ==
  LET found[n \in 0..Cardinality(Filter)] ==
        IF n = 0 THEN {f} ELSE UNION {Around(g) : g \in found[n - 1]}
  IN found[Cardinality(Filter)]

\* What the recursion of run_graph can get to from f
Downstream(f) ==
  LET found[n \in 0..Cardinality(Filter)] ==
        IF n = 0 THEN {f} ELSE UNION {{g} \cup ToSet(outputs[g]) : g \in found[n - 1]}
  IN found[Cardinality(Filter)]

InLoop(f) == \E g \in ToSet(outputs[f]) : f \in Downstream(g)

----------------------------------------------------------------------------
(* The ticker alone, on any graph whose sources have all been attached. *)

Links ==
  {s \in UNION {[1..n -> Filter] : n \in 0..2} : IsInjective(s)}

TickerInit ==
  /\ outputs \in [Filter -> Links]
  /\ \A f \in Filter : f \notin ToSet(outputs[f])
  /\ execution_list \in SetToSeqs({f \in Filter : Inputs(f) = {}})
  /\ execution_list # << >>
  /\ TicksIdle
  /\ lock = "free"
  /\ run = TRUE
  /\ tpc = "start"

\* ms_ticker_stop asks the thread to end.
Stops ==
  /\ run /\ lock = "free"
  /\ run' = FALSE
  /\ UNCHANGED <<outputs, execution_list, walk, lock, tpc>>

TickerNext ==
  \/ Stops
  \/ /\ UNCHANGED <<outputs, execution_list>>
     /\ TickerMoves \/ \E f \in Filter : Processes(f)

TickerSpec ==
  /\ TickerInit
  /\ [][TickerNext]_<<outputs, execution_list, ticker>>
  /\ WF_<<outputs, execution_list, ticker>>(TickerNext /\ ~Stops)

----------------------------------------------------------------------------
(* Correctness. *)

TickerTypeOK ==
  /\ \A f \in Filter : ToSet(outputs[f]) \subseteq Filter
  /\ ToSet(execution_list) \cup ToSet(work) \cup ToSet(unschedulable) \subseteq Filter
  /\ done \subseteq Filter
  /\ lock = "ticker" <=> tpc \in {"loop", "walk"}

\* When a tick ends, every filter that a source leads to has run, whatever the
\* graph: the sources have, and whatever is linked after a filter that has.  The
\* two passes of run_graphs miss none, not even in a loop.
TickIsComplete ==
  PassOver /\ unschedulable = << >> =>
    /\ ToSet(execution_list) \subseteq done
    /\ \A f \in done : ToSet(outputs[f]) \subseteq done

\* A filter runs after the filters that feed it, so what they produce goes all
\* the way in one tick; only a filter behind a loop is run without.
InputsFirst ==
  [][ \A f \in done' \ done :
        Inputs(f) \subseteq done \/ \E g \in Filter : InLoop(g) /\ f \in Downstream(g)
    ]_<<outputs, execution_list, ticker>>

\* Marking a filter before the recursion makes every tick end, in a loop too:
\* the thread gives the lock back, and its owner can stop it.
TickEnds == tpc = "walk" ~> lock = "free"
=============================================================================
