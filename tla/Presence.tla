------------------------------- MODULE Presence -------------------------------
(***************************************************************************)
(* Presence of the bridge's peers (src/main.rs): heartbeat_handler takes   *)
(* the time of a heartbeat, waits for the lock, stores it, be a later one  *)
(* stored by then or not, and reports a peer that was offline as online;   *)
(* presence_watchdog wakes up every 5 s, reads both peers and reports what *)
(* changed since it last looked.                                           *)
(*                                                                         *)
(* Time is counted in watchdog periods: between two of its wake-ups every  *)
(* peer's heartbeat ages by one, at any moment, so a peer may go stale in  *)
(* the middle of a pass or of a heartbeat.  A request is handled in less   *)
(* than a period.  HEARTBEAT_STALE_AFTER (35 s) is 7 periods.              *)
(***************************************************************************)
EXTENDS Naturals

CONSTANTS
  Peers,        \* peers with a heartbeat token
  Posts,        \* heartbeat requests in flight at once, per peer
  StaleAfter    \* HEARTBEAT_STALE_AFTER in watchdog periods

\* With a shorter window the watchdog could sleep through a peer's whole visit.
ASSUME PresenceAssumption == StaleAfter \in Nat /\ StaleAfter > 3

VARIABLES
  age, aged,    \* periods since the time that is stored; whether it aged in this period
  post, before, \* each request: its position, and whether it saw the peer online
  late,         \* requests that were in flight when the heartbeat last aged
  turn, todo,   \* the watchdog: asleep, reading or reporting; peers left to read or report
  now, was,     \* what it read in this pass, and in the one before
  told,         \* the last presence event of each peer
  changed,      \* history: whether a peer came or went since the watchdog woke up
  beat          \* history: periods since a heartbeat was last stored, whatever its time

postVars  == <<post, before, late>>
watchVars == <<turn, todo, now, was>>
vars      == <<age, aged, postVars, watchVars, told, changed, beat>>

\* Mutation of Online: the window includes its end.
OnlineInclusive(p) == age[p] <= StaleAfter

\* No heartbeat, or one so old that it does not count, has the age StaleAfter.
Online(p) == age[p] < StaleAfter

Init ==
  /\ age = [p \in Peers |-> StaleAfter] /\ aged = [p \in Peers |-> FALSE]
  /\ post = [p \in Peers |-> [i \in Posts |-> "idle"]]
  /\ before = [p \in Peers |-> [i \in Posts |-> FALSE]]
  /\ late = [p \in Peers |-> {}]
  /\ turn = "asleep" /\ todo = {}
  /\ now = [p \in Peers |-> FALSE] /\ was = [p \in Peers |-> FALSE]
  /\ told = [p \in Peers |-> FALSE]
  /\ changed = [p \in Peers |-> FALSE]
  /\ beat = [p \in Peers |-> StaleAfter]

-----------------------------------------------------------------------------
(* Time.                                                                   *)

Age(p) ==
  /\ ~aged[p] /\ late[p] = {}
  /\ aged' = [aged EXCEPT ![p] = TRUE]
  /\ age' = [age EXCEPT ![p] = IF Online(p) THEN @ + 1 ELSE @]
  /\ beat' = [beat EXCEPT ![p] = IF @ < StaleAfter THEN @ + 1 ELSE @]
  /\ changed' = [changed EXCEPT ![p] = @ \/ age[p] + 1 = StaleAfter]
  /\ late' = [late EXCEPT ![p] = {i \in Posts : post[p][i] # "idle"}]
  /\ UNCHANGED <<post, before, watchVars, told>>

-----------------------------------------------------------------------------
(* heartbeat_handler: last_seen is read, then written, under two locks.    *)

ReadLastSeen(p, i) ==
  /\ post[p][i] = "idle"
  /\ before' = [before EXCEPT ![p][i] = Online(p)]
  /\ post' = [post EXCEPT ![p][i] = "read"]
  /\ UNCHANGED <<age, aged, late, watchVars, told, changed, beat>>

\* Instant::now() comes before the lock is waited for: a heartbeat that aged meanwhile
\* may have done so before or after.
StoreTime(p, i) ==
  \E taken \in IF i \in late[p] THEN {0, 1} ELSE {0} : age' = [age EXCEPT ![p] = taken]

\* A peer that was online already has nothing to report.
Stored(p, i) ==
  /\ post' = [post EXCEPT ![p][i] = IF before[p][i] THEN "idle" ELSE "written"]
  /\ late' = [late EXCEPT ![p] = IF before[p][i] THEN @ \ {i} ELSE @]
  /\ before' = [before EXCEPT ![p][i] = FALSE]
  /\ beat' = [beat EXCEPT ![p] = 0]
  /\ changed' = [changed EXCEPT ![p] = @ \/ ~Online(p)]

\* Mutation of WriteLastSeen: the time is kept only when the peer comes.
WriteFirstSeen(p, i) ==
  /\ post[p][i] = "read"
  /\ IF before[p][i] THEN age' = age ELSE StoreTime(p, i)
  /\ Stored(p, i)
  /\ UNCHANGED <<aged, watchVars, told>>

WriteLastSeen(p, i) ==
  /\ post[p][i] = "read"
  /\ StoreTime(p, i)
  /\ Stored(p, i)
  /\ UNCHANGED <<aged, watchVars, told>>

ReportOnline(p, i) ==
  /\ post[p][i] = "written"
  /\ told' = [told EXCEPT ![p] = TRUE]
  /\ post' = [post EXCEPT ![p][i] = "idle"]
  /\ late' = [late EXCEPT ![p] = @ \ {i}]
  /\ UNCHANGED <<age, aged, before, watchVars, changed, beat>>

-----------------------------------------------------------------------------
(* presence_watchdog.                                                      *)

WakeUp ==
  /\ turn = "asleep" /\ \A p \in Peers : aged[p]
  /\ turn' = "reading" /\ todo' = Peers
  /\ aged' = [p \in Peers |-> FALSE]
  /\ changed' = [p \in Peers |-> FALSE]
  /\ UNCHANGED <<age, postVars, now, was, told, beat>>

ReadPeer(p) ==
  /\ turn = "reading" /\ p \in todo
  /\ now' = [now EXCEPT ![p] = Online(p)]
  /\ IF todo = {p} THEN turn' = "reporting" /\ todo' = Peers
                   ELSE turn' = turn /\ todo' = todo \ {p}
  /\ UNCHANGED <<age, aged, postVars, was, told, changed, beat>>

\* Mutation of News: the watchdog reports only peers that went offline.
NewsOffline(p) == was[p] /\ ~now[p]

News(p) == now[p] # was[p]

\* Mutation of Report: what was read is not remembered for the next pass.
ReportForgets(p) ==
  /\ turn = "reporting" /\ p \in todo
  /\ told' = IF News(p) THEN [told EXCEPT ![p] = now[p]] ELSE told
  /\ todo' = todo \ {p}
  /\ turn' = IF todo = {p} THEN "asleep" ELSE turn
  /\ UNCHANGED <<age, aged, postVars, now, was, changed, beat>>

Report(p) ==
  /\ turn = "reporting" /\ p \in todo
  /\ told' = IF News(p) THEN [told EXCEPT ![p] = now[p]] ELSE told
  /\ was' = [was EXCEPT ![p] = now[p]]
  /\ todo' = todo \ {p}
  /\ turn' = IF todo = {p} THEN "asleep" ELSE turn
  /\ UNCHANGED <<age, aged, postVars, now, changed, beat>>

-----------------------------------------------------------------------------
Handle(p, i) == WriteLastSeen(p, i) \/ ReportOnline(p, i)

Watch == WakeUp \/ \E p \in Peers : ReadPeer(p) \/ Report(p)

Next ==
  \/ \E p \in Peers : Age(p) \/ \E i \in Posts : ReadLastSeen(p, i) \/ Handle(p, i)
  \/ Watch

Spec == Init /\ [][Next]_vars

\* Time passes, and the bridge's tasks are scheduled.  No peer has to send anything.
Fairness ==
  /\ WF_vars(Watch)
  /\ \A p \in Peers : WF_vars(Age(p)) /\ \A i \in Posts : WF_vars(Handle(p, i))

FairSpec == Spec /\ Fairness

-----------------------------------------------------------------------------
(* Properties.                                                             *)

TypeOK ==
  /\ age \in [Peers -> 0..StaleAfter] /\ aged \in [Peers -> BOOLEAN]
  /\ post \in [Peers -> [Posts -> {"idle", "read", "written"}]]
  /\ before \in [Peers -> [Posts -> BOOLEAN]]
  /\ late \in [Peers -> SUBSET Posts]
  /\ turn \in {"asleep", "reading", "reporting"} /\ todo \in SUBSET Peers
  /\ now \in [Peers -> BOOLEAN] /\ was \in [Peers -> BOOLEAN]
  /\ told \in [Peers -> BOOLEAN] /\ changed \in [Peers -> BOOLEAN]
  /\ beat \in [Peers -> 0..StaleAfter]

\* A heartbeat that is stored keeps its peer online for the whole of its window, less
\* the one period that its request may take, however requests interleave: the last one to
\* store a time may have taken it before the others.
StoredIsOnline == \A p \in Peers : beat[p] + 1 < StaleAfter => Online(p)

\* "This just makes the SSE stream self-correcting": when a peer has stayed as it is
\* for one whole pass of the watchdog, the last event on the stream tells the truth,
\* whatever reports of handlers and watchdog were swapped before.
StreamCatchesUp ==
  \A p \in Peers : turn = "asleep" /\ ~changed[p] => (told[p] <=> Online(p))

\* "So a dashboard left open doesn't show a peer as online forever after it drops."
DroppedIsTold ==
  \A p \in Peers : <>[](\A i \in Posts : post[p][i] = "idle") => <>[]~told[p]

=============================================================================
