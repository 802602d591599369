----------------------------- MODULE NordwindPage -----------------------------
(***************************************************************************)
(* The Nordwind page (web/nordwind.js) on top of the hub.  It asks         *)
(* /api/state once, which reads last_run first and whether a run is active *)
(* afterwards; only when that answer is there it opens the event stream,   *)
(* and when the stream breaks the browser opens it again without asking    *)
(* for the state.  What is broadcast in between never reaches the page.    *)
(*                                                                         *)
(* The page keeps whether a run is active (the button is disabled then)    *)
(* and the events of the run it follows, from which it draws the table of  *)
(* hops.  The status text is left out, and the graph is in MeshLive.  A    *)
(* reader too slow for the hub's channel of events loses some like one     *)
(* whose stream breaks.                                                    *)
(***************************************************************************)
EXTENDS HubFeed, Sequences

CONSTANT MaxBreaks  \* bound: times the stream breaks

ASSUME PageAssumption == MaxBreaks \in Nat

VARIABLES
  at,           \* how far the page is: closed, asked, loaded, open or broken
  running,      \* setRunning's flag
  log,          \* the page's lastRun
  queue,        \* events under way to the page
  breaks,       \* times the stream broke
  missed        \* history: events sent since last_run was read that the page never gets

pageVars == <<at, running, log, queue, breaks, missed>>
vars     == <<feedVars, pageVars>>

PageInit ==
  /\ Init
  /\ at = "closed" /\ running = FALSE /\ log = {} /\ queue = <<>>
  /\ breaks = 0 /\ missed = {}

-----------------------------------------------------------------------------
(* init: /api/state, then the stream.                                      *)

ReadLastRun ==
  /\ at = "closed" /\ at' = "asked"
  /\ log' = lastRun
  /\ UNCHANGED <<feedVars, running, queue, breaks, missed>>

ReadRunning ==
  /\ at = "asked" /\ at' = "loaded"
  /\ running' = (run # NoRun)
  /\ UNCHANGED <<feedVars, log, queue, breaks, missed>>

\* Also what the browser does by itself after a break.
Subscribe ==
  /\ at \in {"loaded", "broken"} /\ at' = "open"
  /\ UNCHANGED <<feedVars, running, log, queue, breaks, missed>>

\* Mutation of StreamBreaks: what was under way is kept for the next stream.
StreamBreaksKeeping ==
  /\ at = "open" /\ breaks < MaxBreaks
  /\ at' = "broken" /\ breaks' = breaks + 1
  /\ UNCHANGED <<feedVars, running, log, queue, missed>>

StreamBreaks ==
  /\ at = "open" /\ breaks < MaxBreaks
  /\ at' = "broken" /\ breaks' = breaks + 1
  /\ missed' = missed \cup {queue[i] : i \in DOMAIN queue} /\ queue' = <<>>
  /\ UNCHANGED <<feedVars, running, log>>

-----------------------------------------------------------------------------
(* onEvent.                                                                *)

\* Mutation of RunningAfter: run_error is only logged.
RunningUnlessDone(e) ==
  IF IsStart(e) THEN TRUE ELSE IF e.kind = "run_done" THEN FALSE ELSE running

RunningAfter(e) ==
  IF IsStart(e) THEN TRUE ELSE IF IsTerminal(e) THEN FALSE ELSE running

OnEvent ==
  /\ queue # <<>> /\ queue' = Tail(queue)
  /\ running' = RunningAfter(Head(queue))
  /\ log' = (IF IsStart(Head(queue)) THEN {} ELSE log) \cup {Head(queue)}
  /\ UNCHANGED <<feedVars, at, breaks, missed>>

-----------------------------------------------------------------------------
\* A step of the hub sends one event or none.
Heard ==
  LET new == sent' \ sent IN
  /\ queue' = IF at = "open" /\ new # {} THEN Append(queue, CHOOSE e \in new : TRUE) ELSE queue
  /\ missed' = IF at \in {"closed", "open"} THEN missed ELSE missed \cup new
  /\ UNCHANGED <<at, running, log, breaks>>

HubStep == Next /\ Heard

PageStep == ReadLastRun \/ ReadRunning \/ Subscribe \/ StreamBreaks \/ OnEvent

PageNext == HubStep \/ PageStep

PageSpec == PageInit /\ [][PageNext]_vars

\* A run goes on to its end (RunEnds of HubRun), an event that is recorded is sent, and
\* what is sent to an open page arrives.  A broken stream may stay broken.
Milestone(r) == \E e \in Event : e.run = r /\ (IsStart(e) \/ IsTerminal(e)) /\ Record(e)

Fairness ==
  /\ \A r \in Runs : WF_vars(Milestone(r) /\ Heard) /\ WF_vars(Close(r) /\ Heard)
  /\ \A e \in Event : WF_vars(Send(e) /\ Heard)
  /\ WF_vars(OnEvent)

FairPageSpec == PageSpec /\ Fairness

-----------------------------------------------------------------------------
(* Properties.                                                             *)

TypeOK ==
  /\ run \in Runs \cup {NoRun} /\ created \in 0..MaxRuns /\ phase \in [Runs -> Phase]
  /\ pending \subseteq Event /\ lastRun \subseteq Event /\ sent \subseteq Event
  /\ at \in {"closed", "asked", "loaded", "open", "broken"} /\ running \in BOOLEAN
  /\ log \subseteq Event /\ missed \subseteq Event
  /\ queue \in Seq(Event) /\ breaks \in 0..MaxBreaks
  /\ queue # <<>> => at = "open"

HubAtRest == run = NoRun /\ \A r \in Runs : phase[r] \in {"off", "over"}

\* Every event of the newest run is in the page's table, on its way, or was missed: the
\* snapshot loses nothing, and run_start clears nothing that belongs to its own run.
LogComplete ==
  at = "open" =>
    \A e \in sent :
      e.run = created => e \in log \cup missed \/ \E i \in DOMAIN queue : queue[i] = e

\* A page that shows a run while it is connected gets its button back, unless the end
\* of a run was broadcast where the page could not hear it: between its two requests, or
\* while its stream was broken.  No order of snapshot, subscription and events alone
\* leaves it disabled.
ButtonComesBack ==
  (at = "open" /\ running) ~>
    (~running \/ at = "broken" \/ (HubAtRest /\ \E e \in missed : IsTerminal(e)))

=============================================================================
