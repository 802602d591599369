------------------------------- MODULE HubRun -------------------------------
(***************************************************************************)
(* The life of a scenario run in the Nordwind hub                          *)
(* (src/bin/nordwind_hub.rs).  POST /api/scenario accepts at most one      *)
(* run; a spawned task, run_scenario, calls Zentrale through a channel and *)
(* emits the run's events; while the call is out, Zentrale posts live hop  *)
(* reports that node_hop handlers accept under the run lock and emit after *)
(* they have dropped it.  Every emit is two steps: the event is recorded   *)
(* in last_run under its lock, and broadcast after the lock is released.   *)
(*                                                                         *)
(* Runs are numbered in the order in which their random ids are drawn; the *)
(* id stands for the pair of id and token, both fresh for every run.  Hop  *)
(* states "ok" and "error" are one state, "done": the hub treats them      *)
(* alike.  No two events of a behaviour are equal, so last_run and the     *)
(* stream are kept as sets: a property about their order speaks of the     *)
(* step that adds an event.  Zentrale is the orchestration of              *)
(* nordwind_node.py, reduced to what the hub can see of it.  The poll that *)
(* ends run_scenario (line 304) touches none of this state.                *)
(***************************************************************************)
EXTENDS Naturals, FiniteSets

CONSTANTS
  Visitors,     \* concurrent POST /api/scenario requests
  MaxRuns,      \* bound: runs started in a behaviour
  LastSeq,      \* the last hop Zentrale may make (4 in the code)
  MaxReports,   \* MAX_REPORTS_PER_RUN (20 in the code)
  HistCap,      \* entries last_run may hold (80 in the code)
  Disconnects   \* whether a client may drop its request inside a handler

ASSUME HubAssumption ==
  /\ MaxRuns \in Nat
  /\ LastSeq \in 2..9
  /\ MaxReports \in Nat
  /\ HistCap \in Nat
  /\ Disconnects \in BOOLEAN

NoRun   == 0
Runs    == 1..MaxRuns
HopSeqs == 2..LastSeq

Report == [run : Runs, seq : HopSeqs, state : {"start", "done"}]
Event  == [run : Runs, kind : {"run_start", "start", "done", "run_done", "run_error"},
           seq : 0..LastSeq, src : {"hub", "node", "trace"}]

Ev(r, kind, seq, src) == [run |-> r, kind |-> kind, seq |-> seq, src |-> src]
NodeEvent(p) == Ev(p.run, p.state, p.seq, "node")

VARIABLES
  run, seen, reports,          \* Hub.run: NoRun, or the ActiveRun's id, seen and reports
  throttled,                   \* last_start lies less than 3 s back
  created,                     \* ids drawn so far
  vpc,                         \* where each api_scenario handler is
  scn, half, outcome, todo,    \* each run_scenario task: position, inside an emit, result, trace hops left
  zst, hops,                   \* Zentrale: state of each orchestration, hops completed
  net,                         \* hop reports on their way to the hub
  accepted, recorded,          \* node_hop handlers inside emit: before and after recording
  lastRun, sent                \* Hub.last_run; the events broadcast so far

hubVars  == <<run, seen, reports>>
doorVars == <<throttled, created, vpc>>
taskVars == <<scn, half, outcome, todo>>
zVars    == <<zst, hops>>
nodeVars == <<accepted, recorded>>
outVars  == <<lastRun, sent>>
vars     == <<hubVars, doorVars, taskVars, zVars, net, nodeVars, outVars>>

\* Positions of a task whose run occupies the hub: from acceptance to line 295.
Occupying == {"start", "hop1", "call", "done1", "snap", "trace", "clear"}
Emitting  == {"start", "hop1", "done1", "trace", "final"}
TaskPos   == Occupying \cup {"off", "final", "end"}
Replied   == {"ok", "failed"}

Init ==
  /\ run = NoRun /\ seen = {} /\ reports = 0
  /\ throttled = FALSE /\ created = 0
  /\ vpc = [v \in Visitors |-> "idle"]
  /\ scn = [r \in Runs |-> "off"]
  /\ half = [r \in Runs |-> FALSE]
  /\ outcome = [r \in Runs |-> "none"]
  /\ todo = [r \in Runs |-> {}]
  /\ zst = [r \in Runs |-> "idle"]
  /\ hops = [r \in Runs |-> 0]
  /\ net = {} /\ accepted = {} /\ recorded = {}
  /\ lastRun = {} /\ sent = {}

-----------------------------------------------------------------------------
(* Hub::emit, in its two halves.                                           *)

\* Mutation of Record: run_start does not clear last_run.
RecordWithoutClear(e) ==
  lastRun' = IF Cardinality(lastRun) < HistCap THEN lastRun \cup {e} ELSE lastRun

Record(e) ==
  LET kept == IF e.kind = "run_start" THEN {} ELSE lastRun
  IN  lastRun' = IF Cardinality(kept) < HistCap THEN kept \cup {e} ELSE kept

Send(e) == sent' = sent \cup {e}

-----------------------------------------------------------------------------
(* api_scenario: the throttle, and then the run lock.                      *)

PassThrottle(v) ==
  /\ vpc[v] = "idle"
  /\ ~throttled
  /\ created < MaxRuns
  /\ throttled' = TRUE
  /\ vpc' = [vpc EXCEPT ![v] = "passed"]
  /\ UNCHANGED <<created, hubVars, taskVars, zVars, net, nodeVars, outVars>>

ThrottleExpires ==
  /\ throttled
  /\ throttled' = FALSE
  /\ UNCHANGED <<created, vpc, hubVars, taskVars, zVars, net, nodeVars, outVars>>

AlreadyRunning(v) ==
  /\ vpc[v] = "passed"
  /\ run # NoRun
  /\ vpc' = [vpc EXCEPT ![v] = "idle"]
  /\ UNCHANGED <<throttled, created, hubVars, taskVars, zVars, net, nodeVars, outVars>>

\* What accepting a request does once the run lock is held.
Accept(v) ==
  /\ created < MaxRuns
  /\ created' = created + 1
  /\ run' = created + 1 /\ seen' = {} /\ reports' = 0
  /\ scn' = [scn EXCEPT ![created + 1] = "start"]
  /\ vpc' = [vpc EXCEPT ![v] = "idle"]
  /\ UNCHANGED <<throttled, half, outcome, todo, zVars, net, nodeVars, outVars>>

\* Mutation of StartRun: the is_some test is left out.
StartRunUnchecked(v) == vpc[v] = "passed" /\ Accept(v)

StartRun(v) ==
  /\ vpc[v] = "passed"
  /\ run = NoRun
  /\ Accept(v)

-----------------------------------------------------------------------------
(* run_scenario.                                                           *)

Least(S) == CHOOSE s \in S : \A t \in S : s <= t

\* Mutation of EventOf: hop 1 is announced before the run.
EventOfSwapped(r) ==
  CASE scn[r] = "start" -> Ev(r, "start", 1, "hub")
    [] scn[r] = "hop1"  -> Ev(r, "run_start", 0, "hub")
    [] scn[r] = "done1" -> Ev(r, "done", 1, "hub")
    [] scn[r] = "trace" -> Ev(r, "done", Least(todo[r]), "trace")
    [] scn[r] = "final" -> Ev(r, IF outcome[r] = "ok" THEN "run_done" ELSE "run_error", 0, "hub")

EventOf(r) ==
  CASE scn[r] = "start" -> Ev(r, "run_start", 0, "hub")
    [] scn[r] = "hop1"  -> Ev(r, "start", 1, "hub")
    [] scn[r] = "done1" -> Ev(r, "done", 1, "hub")
    [] scn[r] = "trace" -> Ev(r, "done", Least(todo[r]), "trace")
    [] scn[r] = "final" -> Ev(r, IF outcome[r] = "ok" THEN "run_done" ELSE "run_error", 0, "hub")

TodoAfter(r) == IF scn[r] = "trace" THEN todo[r] \ {Least(todo[r])} ELSE todo[r]

NextPos(r) ==
  CASE scn[r] = "start" -> "hop1"
    [] scn[r] = "hop1"  -> "call"
    [] scn[r] = "done1" -> "snap"
    [] scn[r] = "trace" -> IF TodoAfter(r) = {} THEN "clear" ELSE "trace"
    [] scn[r] = "final" -> "end"

TaskRecord(r) ==
  /\ scn[r] \in Emitting
  /\ ~half[r]
  /\ Record(EventOf(r))
  /\ half' = [half EXCEPT ![r] = TRUE]
  /\ UNCHANGED <<hubVars, doorVars, scn, outcome, todo, zVars, net, nodeVars, sent>>

TaskSend(r) ==
  /\ scn[r] \in Emitting
  /\ half[r]
  /\ Send(EventOf(r))
  /\ half' = [half EXCEPT ![r] = FALSE]
  /\ scn' = [scn EXCEPT ![r] = NextPos(r)]
  /\ todo' = [todo EXCEPT ![r] = TodoAfter(r)]
  /\ UNCHANGED <<hubVars, doorVars, outcome, zVars, net, nodeVars, lastRun>>

\* Mutation of CallReturns: the call has no timeout and no error.
CallReturnsOnlyReplies(r, o) ==
  /\ scn[r] = "call"
  /\ o \in Replied /\ zst[r] = o
  /\ outcome' = [outcome EXCEPT ![r] = o]
  /\ scn' = [scn EXCEPT ![r] = "done1"]
  /\ UNCHANGED <<hubVars, doorVars, half, todo, zVars, net, nodeVars, outVars>>

\* The channel call ends with Zentrale's answer, or with an error or the 170 s
\* timeout, whatever Zentrale is doing.
CallReturns(r, o) ==
  /\ scn[r] = "call"
  /\ o = "lost" \/ (o \in Replied /\ zst[r] = o)
  /\ outcome' = [outcome EXCEPT ![r] = o]
  /\ scn' = [scn EXCEPT ![r] = "done1"]
  /\ UNCHANGED <<hubVars, doorVars, half, todo, zVars, net, nodeVars, outVars>>

\* The hops in the reply's trace; a lost call has none.
Trace(r) == IF outcome[r] \in Replied THEN 2..(hops[r] + 1) ELSE {}

\* Mutation of TakeSnapshot: one live report suppresses the whole trace.
TakeSnapshotAllOrNothing(r) ==
  /\ scn[r] = "snap"
  /\ LET left == IF seen # {} THEN {} ELSE Trace(r)
     IN  /\ todo' = [todo EXCEPT ![r] = left]
         /\ scn' = [scn EXCEPT ![r] = IF left = {} THEN "clear" ELSE "trace"]
  /\ UNCHANGED <<hubVars, doorVars, half, outcome, zVars, net, nodeVars, outVars>>

TakeSnapshot(r) ==
  /\ scn[r] = "snap"
  /\ LET left == Trace(r) \ (IF run # NoRun THEN seen ELSE {})
     IN  /\ todo' = [todo EXCEPT ![r] = left]
         /\ scn' = [scn EXCEPT ![r] = IF left = {} THEN "clear" ELSE "trace"]
  /\ UNCHANGED <<hubVars, doorVars, half, outcome, zVars, net, nodeVars, outVars>>

ClearRun(r) ==
  /\ scn[r] = "clear"
  /\ run' = NoRun /\ seen' = {} /\ reports' = 0
  /\ scn' = [scn EXCEPT ![r] = "final"]
  /\ UNCHANGED <<doorVars, half, outcome, todo, zVars, net, nodeVars, outVars>>

-----------------------------------------------------------------------------
(* node_hop.  A report that fails the id, token or budget test is answered *)
(* with 401 or 422 and changes nothing.                                    *)

\* What the handler does with a report that passed those tests.
TakeReport(p) ==
  /\ net' = net \ {p}
  /\ reports' = reports + 1
  /\ seen' = IF p.state # "start" THEN seen \cup {p.seq} ELSE seen
  /\ accepted' = accepted \cup {NodeEvent(p)}
  /\ UNCHANGED <<run, doorVars, taskVars, zVars, recorded, outVars>>

\* Mutations of NodeHop: no budget; any active run will do; a start counts as seen.
NodeHopUnbudgeted(p) == p \in net /\ run = p.run /\ TakeReport(p)
NodeHopAnyRun(p) == p \in net /\ run # NoRun /\ reports < MaxReports /\ TakeReport(p)
NodeHopSeesStarts(p) ==
  /\ p \in net
  /\ run = p.run
  /\ reports < MaxReports
  /\ net' = net \ {p}
  /\ reports' = reports + 1
  /\ seen' = seen \cup {p.seq}
  /\ accepted' = accepted \cup {NodeEvent(p)}
  /\ UNCHANGED <<run, doorVars, taskVars, zVars, recorded, outVars>>

NodeHop(p) ==
  /\ p \in net
  /\ run = p.run
  /\ reports < MaxReports
  /\ TakeReport(p)

NodeHopRefused(p) ==
  /\ p \in net
  /\ run # p.run \/ reports >= MaxReports
  /\ net' = net \ {p}
  /\ UNCHANGED <<hubVars, doorVars, taskVars, zVars, nodeVars, outVars>>

HandlerRecord(e) ==
  /\ e \in accepted
  /\ Record(e)
  /\ accepted' = accepted \ {e}
  /\ recorded' = recorded \cup {e}
  /\ UNCHANGED <<hubVars, doorVars, taskVars, zVars, net, sent>>

HandlerSend(e) ==
  /\ e \in recorded
  /\ Send(e)
  /\ recorded' = recorded \ {e}
  /\ UNCHANGED <<hubVars, doorVars, taskVars, zVars, net, accepted, lastRun>>

\* The node gives up after 3 s; the server then drops a handler that waits at
\* an await point, here at the lock of last_run.
HandlerDropped(e) ==
  /\ Disconnects
  /\ e \in accepted
  /\ accepted' = accepted \ {e}
  /\ UNCHANGED <<hubVars, doorVars, taskVars, zVars, net, recorded, outVars>>

-----------------------------------------------------------------------------
(* Zentrale, as far as the hub can see it: svc_toern_briefing makes its    *)
(* hops in order, reports start and end of each, and answers with the list *)
(* of completed hops.  It knows nothing of the hub's timeout.              *)

Briefing(r) ==
  /\ zst[r] = "idle"
  /\ scn[r] = "call"
  /\ zst' = [zst EXCEPT ![r] = "between"]
  /\ UNCHANGED <<hops, hubVars, doorVars, taskVars, net, nodeVars, outVars>>

HopStarts(r) ==
  /\ zst[r] = "between"
  /\ hops[r] + 2 <= LastSeq
  /\ zst' = [zst EXCEPT ![r] = "calling"]
  /\ net' = net \cup {[run |-> r, seq |-> hops[r] + 2, state |-> "start"]}
  /\ UNCHANGED <<hops, hubVars, doorVars, taskVars, nodeVars, outVars>>

HopEnds(r) ==
  /\ zst[r] = "calling"
  /\ zst' = [zst EXCEPT ![r] = "between"]
  /\ hops' = [hops EXCEPT ![r] = @ + 1]
  /\ net' = net \cup {[run |-> r, seq |-> hops[r] + 2, state |-> "done"]}
  /\ UNCHANGED <<hubVars, doorVars, taskVars, nodeVars, outVars>>

\* A good answer needs the hops to Werkstatt (2) and Hafenbuero (3).
Answers(r, a) ==
  /\ zst[r] = "between"
  /\ a = "ok" => hops[r] >= 2
  /\ zst' = [zst EXCEPT ![r] = a]
  /\ UNCHANGED <<hops, hubVars, doorVars, taskVars, net, nodeVars, outVars>>

ReportLost(p) ==
  /\ p \in net
  /\ net' = net \ {p}
  /\ UNCHANGED <<hubVars, doorVars, taskVars, zVars, nodeVars, outVars>>

-----------------------------------------------------------------------------
\* The bound on runs is used up and everything has come to rest.
Rest ==
  /\ created = MaxRuns
  /\ \A r \in Runs : scn[r] = "end"
  /\ net = {} /\ accepted = {} /\ recorded = {}
  /\ UNCHANGED vars

DoorStep(v) == PassThrottle(v) \/ AlreadyRunning(v) \/ StartRun(v)

TaskStep(r) ==
  \/ TaskRecord(r) \/ TaskSend(r)
  \/ \E o \in Replied \cup {"lost"} : CallReturns(r, o)
  \/ TakeSnapshot(r) \/ ClearRun(r)

ZentraleStep(r) ==
  Briefing(r) \/ HopStarts(r) \/ HopEnds(r) \/ \E a \in Replied : Answers(r, a)

Next ==
  \/ \E v \in Visitors : DoorStep(v)
  \/ ThrottleExpires
  \/ \E r \in Runs : TaskStep(r) \/ ZentraleStep(r)
  \/ \E p \in net : NodeHop(p) \/ NodeHopRefused(p) \/ ReportLost(p)
  \/ \E e \in accepted : HandlerRecord(e) \/ HandlerDropped(e)
  \/ \E e \in recorded : HandlerSend(e)
  \/ Rest

Spec == Init /\ [][Next]_vars

\* The runtime polls every spawned task and handler again, and the channel call
\* ends by its timeout.  Nothing is assumed of visitors, Zentrale or the network.
NodeEvents == {Ev(r, k, s, "node") : r \in Runs, k \in {"start", "done"}, s \in HopSeqs}
Fairness ==
  /\ \A r \in Runs : WF_vars(TaskStep(r))
  /\ \A e \in NodeEvents : WF_vars(HandlerRecord(e)) /\ WF_vars(HandlerSend(e))

FairSpec == Spec /\ Fairness

-----------------------------------------------------------------------------
(* Properties.                                                             *)

TypeOK ==
  /\ run \in Runs \cup {NoRun} /\ seen \in SUBSET HopSeqs /\ reports \in 0..MaxReports
  /\ throttled \in BOOLEAN /\ created \in 0..MaxRuns
  /\ vpc \in [Visitors -> {"idle", "passed"}]
  /\ scn \in [Runs -> TaskPos] /\ half \in [Runs -> BOOLEAN]
  /\ outcome \in [Runs -> Replied \cup {"none", "lost"}]
  /\ todo \in [Runs -> SUBSET HopSeqs]
  /\ zst \in [Runs -> Replied \cup {"idle", "between", "calling"}]
  /\ hops \in [Runs -> 0..(LastSeq - 1)]
  /\ net \in SUBSET Report
  /\ accepted \in SUBSET Event /\ recorded \in SUBSET Event
  /\ lastRun \in SUBSET Event /\ sent \in SUBSET Event

\* One run at a time: two requests that both passed the throttle never both
\* start a run, and the run the hub names is the one whose task occupies it.
OneRunAtATime ==
  \A r \in Runs : scn[r] \in Occupying <=> run = r

HopOf(r, s) == {e \in Event : e.run = r /\ e.kind = "done" /\ e.seq = s}

Shown(r, s) == sent \cap HopOf(r, s) # {}
OnItsWay(r, s) == (accepted \cup recorded) \cap HopOf(r, s) # {}
Accounted(r, s) == Shown(r, s) \/ OnItsWay(r, s)

\* Once the trace has been replayed, every hop the reply names has been shown,
\* live or from the trace, or is held by a handler about to show it: a report
\* that is counted in seen but never shown would be lost to both.
EveryHopAccountedFor ==
  \A r \in Runs : scn[r] \in {"clear", "final", "end"} =>
    \A s \in Trace(r) : Accounted(r, s)

\* What /api/state serves agrees with the stream: no event of the newest run
\* that was broadcast is missing from last_run, by a clear or by the cap, even
\* with events of older runs still arriving.
LastRunComplete ==
  \A e \in sent : e.run = created => e \in lastRun

IsTerminal(e) == e.kind \in {"run_done", "run_error"}

\* Each run's events are broadcast in an order the page can follow: run_start
\* before anything else (live reports run concurrently with the task), the trace
\* after the end of hop 1, nothing but late live reports after the terminal
\* event, hence one terminal event.
StreamOrder ==
  [][\A e \in sent' \ sent :
       /\ e.kind # "run_start" => Ev(e.run, "run_start", 0, "hub") \in sent
       /\ e.src = "trace" => Ev(e.run, "done", 1, "hub") \in sent
       /\ e.src # "node" => \A d \in sent : d.run = e.run => ~IsTerminal(d)]_vars

\* A live report is accepted only while the task of its own run occupies the
\* hub: neither a report of an earlier run that arrives late nor one that
\* arrives after the run was cleared.
ReportsOnlyWhileActive ==
  [][\A e \in accepted' \ accepted : scn[e.run] \in Occupying]_vars

\* Every accepted run comes to a terminal event and frees the hub, whatever
\* Zentrale, the network and the other visitors do.
RunEnds ==
  \A r \in Runs : scn[r] = "start" ~>
    /\ \E e \in sent : e.run = r /\ IsTerminal(e)
    /\ run # r

\* Every hop in the trace of an answered run is eventually on the stream.
HopsShown ==
  \A r \in Runs : \A s \in HopSeqs :
    (scn[r] = "snap" /\ s \in Trace(r)) ~> Shown(r, s)

-----------------------------------------------------------------------------
(* What those who watch the hub may rely on.                               *)

FeedPhase ==
  [r \in Runs |->
     CASE scn[r] = "off"   -> "off"
       [] scn[r] = "start" -> IF half[r] THEN "opening" ELSE "accepted"
       [] scn[r] = "final" -> IF half[r] THEN "ending" ELSE "closing"
       [] scn[r] = "end"   -> "over"
       [] OTHER            -> "telling"]

FeedPending == recorded \cup {EventOf(r) : r \in {q \in Runs : half[q]}}

\* The events there can be.
Told == {Ev(r, k, 0, "hub") : r \in Runs, k \in {"run_start", "run_done", "run_error"}}
          \cup {Ev(r, k, 1, "hub") : r \in Runs, k \in {"start", "done"}}
          \cup {Ev(r, "done", s, "trace") : r \in Runs, s \in HopSeqs} \cup NodeEvents

Feed == INSTANCE HubFeed WITH Event <- Told, phase <- FeedPhase, pending <- FeedPending

\* The hub keeps the promise of HubFeed: every step of a handler, a task, Zentrale or
\* the network is one of its steps, or changes nothing that a watcher sees.
ImplementsHubFeed == Feed!Spec

-----------------------------------------------------------------------------
(* The inductive invariant behind the safety properties (HubRun_proofs).   *)

\* A task that replays the trace has a hop left to replay.
TraceHasWork == \A r \in Runs : scn[r] = "trace" => todo[r] # {}

\* Zentrale is never inside a hop beyond the last.
HopsInOrder == \A r \in Runs : zst[r] = "calling" => hops[r] + 2 <= LastSeq

\* Ids are drawn in order: exactly the ids drawn have a task.
TasksAreDrawn == \A r \in Runs : scn[r] = "off" <=> r > created

\* Once the hub holds Zentrale's answer, Zentrale makes no further hop of that
\* run: the trace is final.
AnswerIsFinal == \A r \in Runs : outcome[r] \in Replied => zst[r] = outcome[r]

\* What the hub counts as seen is shown or about to be.
SeenIsShown ==
  run # NoRun => \A s \in seen : Accounted(run, s)

\* While the trace is replayed, what is not left to replay is shown or about to be.
ReplayedIsShown ==
  \A r \in Runs : scn[r] = "trace" =>
    \A s \in Trace(r) \ todo[r] : Accounted(r, s)

TypeInv == TypeOK /\ TraceHasWork /\ HopsInOrder
RunInv  == TypeInv /\ OneRunAtATime /\ TasksAreDrawn
HopInv  == RunInv /\ AnswerIsFinal /\ SeenIsShown /\ ReplayedIsShown /\ EveryHopAccountedFor

=============================================================================
