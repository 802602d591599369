-------------------------------- MODULE HubFeed --------------------------------
(***************************************************************************)
(* What the hub (src/bin/nordwind_hub.rs) promises to those who watch it:  *)
(* one run is active at a time, its events are told between its run_start  *)
(* and its end, and each event is in last_run before it is broadcast.      *)
(* HubRun, with its handlers, reports and locks, implements this module    *)
(* (ImplementsHubFeed); the page is composed with it (NordwindPage).       *)
(*                                                                         *)
(* The active run is given up before its end is told, so the start of the  *)
(* next run may come first; and a live report that was taken in time may   *)
(* be told at any time later.                                              *)
(***************************************************************************)
EXTENDS Naturals, FiniteSets

CONSTANTS
  MaxRuns,      \* bound: runs started in a behaviour
  Event,        \* records with fields run, kind and src at least
  HistCap       \* entries last_run may hold (80 in the code)

Runs  == 1..MaxRuns
NoRun == 0

ASSUME FeedAssumption ==
  /\ MaxRuns \in Nat /\ HistCap \in Nat
  /\ \A e \in Event : e.run \in Runs

VARIABLES
  run,          \* the active run, or NoRun
  created,      \* runs accepted so far
  phase,        \* how far each run is
  pending,      \* events in last_run that are not broadcast yet
  lastRun, sent \* Hub.last_run; the events broadcast so far

feedVars == <<run, created, phase, pending, lastRun, sent>>

Untold == {"off", "accepted", "opening"}
Phase  == Untold \cup {"telling", "closing", "ending", "over"}

IsStart(e)    == e.kind = "run_start"
IsTerminal(e) == e.kind \in {"run_done", "run_error"}

Init ==
  /\ run = NoRun /\ created = 0
  /\ phase = [r \in Runs |-> "off"]
  /\ pending = {} /\ lastRun = {} /\ sent = {}

Accept ==
  /\ run = NoRun /\ created < MaxRuns
  /\ created' = created + 1 /\ run' = created + 1
  /\ phase' = [phase EXCEPT ![created + 1] = "accepted"]
  /\ UNCHANGED <<pending, lastRun, sent>>

\* Mutation of MayRecord: reports are taken before run_start is out.
MayRecordEarly(e) ==
  \/ IsStart(e) /\ phase[e.run] = "accepted"
  \/ IsTerminal(e) /\ phase[e.run] = "closing"
  \/ /\ ~IsStart(e) /\ ~IsTerminal(e)
     /\ IF e.src = "node" THEN phase[e.run] # "off" ELSE phase[e.run] = "telling"

\* The order in which a run is told.  A live report is the node's.
MayRecord(e) ==
  \/ IsStart(e) /\ phase[e.run] = "accepted"
  \/ IsTerminal(e) /\ phase[e.run] = "closing"
  \/ /\ ~IsStart(e) /\ ~IsTerminal(e)
     /\ IF e.src = "node" THEN phase[e.run] \notin Untold ELSE phase[e.run] = "telling"

\* The phase a run comes to when its start or its end is recorded, and then sent.
Advance(e, atStart, atEnd) ==
  phase' = IF IsStart(e) THEN [phase EXCEPT ![e.run] = atStart]
           ELSE IF IsTerminal(e) THEN [phase EXCEPT ![e.run] = atEnd] ELSE phase

Kept(e) == IF IsStart(e) THEN {} ELSE lastRun

Record(e) ==
  /\ lastRun' = IF Cardinality(Kept(e)) < HistCap THEN Kept(e) \cup {e} ELSE Kept(e)
  /\ MayRecord(e)
  /\ pending' = pending \cup {e}
  /\ Advance(e, "opening", "ending")
  /\ UNCHANGED <<run, created, sent>>

Send(e) ==
  /\ e \in pending
  /\ sent' = sent \cup {e}
  /\ pending' = pending \ {e}
  /\ Advance(e, "telling", "over")
  /\ UNCHANGED <<run, created, lastRun>>

\* The hub's own events of the run have been sent by then.
Close(r) ==
  /\ run = r /\ phase[r] = "telling"
  /\ \A e \in pending : e.run = r => e.src = "node"
  /\ run' = NoRun
  /\ phase' = [phase EXCEPT ![r] = "closing"]
  /\ UNCHANGED <<created, pending, lastRun, sent>>

Next ==
  \/ Accept
  \/ \E e \in Event \ (pending \cup sent) : Record(e)
  \/ \E e \in pending : Send(e)
  \/ \E r \in Runs : Close(r)

Spec == Init /\ [][Next]_feedVars

=============================================================================
