------------------------------- MODULE MeshLive -------------------------------
(***************************************************************************)
(* What the hub (src/bin/nordwind_hub.rs) knows of the mesh and of the     *)
(* account, and what a page (web/nordwind.js) shows of it.                 *)
(*                                                                         *)
(* poll() asks Zentrale for the state of the mesh, folds the reply into    *)
(* Hub.live and announces it.  The background task polls for ever, and     *)
(* every run polls once more when it is over; neither waits for the other. *)
(* topology() answers from a cache that lives for CP_CACHE, or reads the   *)
(* account at the control plane; requests that miss together all read it.  *)
(* A page loads the graph again at every announcement, and shows the       *)
(* answers in the order they arrive.                                       *)
(*                                                                         *)
(* The mesh and the account are versions; a graph names the version of     *)
(* each that it was built from.  Time is counted in ticks.  The requests   *)
(* of other viewers read and fill the cache as the page's own do: two of   *)
(* the page's are enough to overtake each other.                           *)
(***************************************************************************)
EXTENDS Naturals

CONSTANTS
  MaxRuns,      \* runs that are started
  MaxChanges,   \* changes of the mesh
  MaxMoves,     \* changes of the account's topology
  MaxFails,     \* calls, reads, answers and announcements that go wrong
  MaxLoads,     \* a page's requests that can be under way at once
  CacheLife,    \* CP_CACHE in ticks
  FetchTicks,   \* the longest a reading of the account is on its way, in ticks
  Failed,       \* a reading, or a read of the account, that went wrong
  None          \* nothing yet

ASSUME MeshAssumption ==
  /\ {MaxRuns, MaxChanges, MaxMoves, MaxFails, MaxLoads, FetchTicks} \subseteq Nat
  /\ CacheLife \in Nat \ {0}
  /\ Failed \notin Nat /\ None \notin Nat \cup {Failed}

Runs    == 1..MaxRuns
Pollers == {0} \cup Runs      \* 0 is the background task
Loads   == 1..MaxLoads
MeshVersions == 0..MaxChanges
Accounts     == 0..MaxMoves
Longest == FetchTicks + CacheLife

VARIABLES
  mesh, account, \* the mesh and the account as they are now
  fails,         \* how much may still go wrong
  at, got,       \* each poller: its position, and what the mesh answered
  live,          \* Hub.live
  cache, age,    \* Hub.cp_cache: the result, and the ticks since it was stored
  load,          \* each request: position, ticks since it read, and the graph's two versions
  page, shown,   \* the page: closed, ready to subscribe or open; the graph it shows
  due,           \* whether an announcement waits for the page
  gone           \* history: ticks since a version of the account was replaced

worldVars == <<mesh, account, gone>>
pollVars  == <<at, got, live>>
hubVars   == <<cache, age, load>>
pageVars  == <<page, shown, due>>
vars      == <<worldVars, fails, pollVars, hubVars, pageVars>>

Running == \E n \in Runs : at[n] = "running"      \* Hub.run is taken

Idle == [at |-> "idle", spent |-> 0, top |-> None, live |-> None]

Init ==
  /\ mesh = 0 /\ account = 0 /\ gone = [v \in Accounts |-> 0]
  /\ fails = MaxFails
  /\ at = [p \in Pollers |-> IF p = 0 THEN "rest" ELSE "unborn"]
  /\ got = [p \in Pollers |-> None]
  /\ live = None
  /\ cache = None /\ age = 0
  /\ load = [r \in Loads |-> Idle]
  /\ page = "closed" /\ shown = [top |-> None, live |-> None] /\ due = FALSE

-----------------------------------------------------------------------------
(* The mesh, the account and the clock.                                    *)

MeshChanges ==
  /\ mesh < MaxChanges /\ mesh' = mesh + 1
  /\ UNCHANGED <<account, gone, fails, pollVars, hubVars, pageVars>>

AccountMoves ==
  /\ account < MaxMoves /\ account' = account + 1
  /\ UNCHANGED <<mesh, gone, fails, pollVars, hubVars, pageVars>>

Tick ==
  /\ \A r \in Loads : load[r].at = "read" => load[r].spent < FetchTicks
  /\ age' = IF cache # None /\ age < CacheLife THEN age + 1 ELSE age
  /\ load' = [r \in Loads |-> IF load[r].at = "read" THEN [load[r] EXCEPT !.spent = @ + 1] ELSE load[r]]
  /\ gone' = [v \in Accounts |-> IF v < account /\ gone[v] < Longest THEN gone[v] + 1 ELSE gone[v]]
  /\ UNCHANGED <<mesh, account, fails, pollVars, cache, pageVars>>

-----------------------------------------------------------------------------
(* Runs, as far as poll() notices them: HubRun is the detailed model.      *)

RunStarts(n) ==
  /\ ~Running /\ at[n] = "unborn" /\ \A m \in Runs : m < n => at[m] # "unborn"
  /\ at' = [at EXCEPT ![n] = "running"]
  /\ UNCHANGED <<worldVars, fails, got, live, hubVars, pageVars>>

RunEnds(n) ==
  /\ at[n] = "running"
  /\ at' = [at EXCEPT ![n] = "rest"]
  /\ UNCHANGED <<worldVars, fails, got, live, hubVars, pageVars>>

-----------------------------------------------------------------------------
(* poll.                                                                   *)

Over(p) == IF p = 0 THEN "rest" ELSE "gone"

\* No poll begins during a run; the one after a run is then left out.
PollBegins(p) ==
  /\ at[p] = "rest" /\ (p = 0 => ~Running)
  /\ at' = [at EXCEPT ![p] = IF Running THEN "gone" ELSE "called"]
  /\ UNCHANGED <<worldVars, fails, got, live, hubVars, pageVars>>

MeshAnswers(p) ==
  /\ at[p] = "called"
  /\ at' = [at EXCEPT ![p] = "answered"]
  /\ got' = [got EXCEPT ![p] = mesh]
  /\ UNCHANGED <<worldVars, fails, live, hubVars, pageVars>>

\* The call fails or times out, or the reply cannot be read.
CallFails(p) ==
  /\ at[p] = "called" /\ fails > 0
  /\ at' = [at EXCEPT ![p] = "answered"]
  /\ got' = [got EXCEPT ![p] = Failed]
  /\ fails' = fails - 1
  /\ UNCHANGED <<worldVars, live, hubVars, pageVars>>

Announced == due \/ page = "open"

\* Mutation of Fold: a reading that is no news is not announced.
FoldQuiet(p) ==
  /\ at[p] = "answered"
  /\ live' = got[p]
  /\ at' = [at EXCEPT ![p] = Over(p)] /\ got' = [got EXCEPT ![p] = None]
  /\ due' = (due \/ (page = "open" /\ got[p] # live))
  /\ UNCHANGED <<worldVars, fails, hubVars, page, shown>>

\* apply_mesh_status, where a failed call marks every node as offline, and the
\* announcement: emit awaits nothing for an event without a run.  One announcement
\* in waiting stands for all that wait for the page together.
Fold(p) ==
  /\ at[p] = "answered"
  /\ live' = got[p]
  /\ at' = [at EXCEPT ![p] = Over(p)] /\ got' = [got EXCEPT ![p] = None]
  /\ due' = Announced
  /\ UNCHANGED <<worldVars, fails, hubVars, page, shown>>

-----------------------------------------------------------------------------
(* topology and graph.                                                     *)

\* Mutation of Fresh: the last instant is counted in.
FreshInclusive == cache # None /\ age <= CacheLife

\* Mutation of Fresh: an entry that was never stored counts as new.
FreshEmpty == age < CacheLife

Fresh == cache # None /\ age < CacheLife

\* Nothing but polls writes Hub.live, and they do not look at the cache: a reading
\* folded between topology() and the clone of live might as well have come before.
Built(top) == [at |-> "answer", spent |-> 0, top |-> top, live |-> live]

\* A new request takes the first place that is free.
Requested(r) ==
  /\ load[r] = Idle /\ \A q \in Loads : q < r => load[q] # Idle
  /\ load' = [load EXCEPT ![r] = IF Fresh THEN Built(cache) ELSE [Idle EXCEPT !.at = "fetch"]]

AccountRead(r) ==
  /\ load[r].at = "fetch"
  /\ load' = [load EXCEPT ![r] = [@ EXCEPT !.at = "read", !.top = account]]
  /\ UNCHANGED <<worldVars, fails, pollVars, cache, age, pageVars>>

\* No token, an HTTP error, or an account without the Nordwind agents.
FetchFails(r) ==
  /\ load[r].at = "fetch" /\ fails > 0
  /\ load' = [load EXCEPT ![r] = [@ EXCEPT !.at = "read", !.top = Failed]]
  /\ fails' = fails - 1
  /\ UNCHANGED <<worldVars, pollVars, cache, age, pageVars>>

\* The result is kept, an error too; the entry's time is that of the end of the read.
Store(r) ==
  /\ load[r].at = "read"
  /\ cache' = load[r].top /\ age' = 0
  /\ load' = [load EXCEPT ![r] = Built(load[r].top)]
  /\ UNCHANGED <<worldVars, fails, pollVars, pageVars>>

-----------------------------------------------------------------------------
(* The page: init, loadGraph and onEvent of web/nordwind.js.               *)

\* init asks for /api/state, whose graph is built in the same way.
OpenPage(r) ==
  /\ page = "closed" /\ \A q \in Loads : load[q] = Idle
  /\ Requested(r)
  /\ UNCHANGED <<worldVars, fails, pollVars, cache, age, pageVars>>

\* The answer to init comes before the stream is opened.
Answer(r) ==
  /\ load[r].at = "answer"
  /\ shown' = [top |-> load[r].top, live |-> load[r].live]
  /\ page' = IF page = "closed" THEN "ready" ELSE page
  /\ load' = [load EXCEPT ![r] = Idle]
  /\ UNCHANGED <<worldVars, fails, pollVars, cache, age, due>>

Subscribe ==
  /\ page = "ready" /\ page' = "open"
  /\ UNCHANGED <<worldVars, fails, pollVars, hubVars, shown, due>>

LoadGraph(r) ==
  /\ due /\ due' = FALSE
  /\ Requested(r)
  /\ UNCHANGED <<worldVars, fails, pollVars, cache, age, page, shown>>

\* loadGraph keeps the last graph when the request fails; a handler whose client is
\* gone is dropped where it waits, and stores nothing.
AnswerLost(r) ==
  /\ page = "open" /\ load[r] # Idle /\ fails > 0
  /\ fails' = fails - 1 /\ load' = [load EXCEPT ![r] = Idle]
  /\ UNCHANGED <<worldVars, pollVars, cache, age, pageVars>>

\* The stream breaks or lags behind.
EventsLost ==
  /\ due /\ fails > 0
  /\ fails' = fails - 1 /\ due' = FALSE
  /\ UNCHANGED <<worldVars, pollVars, hubVars, page, shown>>

-----------------------------------------------------------------------------
Poll(p) == PollBegins(p) \/ MeshAnswers(p) \/ Fold(p)

Serve(r) == AccountRead(r) \/ Store(r) \/ Answer(r)

Handle == Subscribe \/ \E r \in Loads : LoadGraph(r)

Next ==
  \/ MeshChanges \/ AccountMoves \/ Tick
  \/ \E n \in Runs : RunStarts(n) \/ RunEnds(n)
  \/ \E p \in Pollers : Poll(p) \/ CallFails(p)
  \/ \E r \in Loads : OpenPage(r) \/ Serve(r) \/ FetchFails(r) \/ AnswerLost(r)
  \/ Handle \/ EventsLost

Spec == Init /\ [][Next]_vars

\* The hub's tasks and handlers are scheduled, time passes, calls and reads end, and
\* so do runs (HubRun!RunEnds).  Nobody has to start a run or open a page.
Fairness ==
  /\ WF_vars(Tick) /\ WF_vars(Handle)
  /\ WF_vars(Poll(0)) /\ \A n \in Runs : WF_vars(RunEnds(n) \/ Poll(n))
  /\ \A r \in Loads : WF_vars(Serve(r))

FairSpec == Spec /\ Fairness

-----------------------------------------------------------------------------
(* Properties.                                                             *)

TypeOK ==
  /\ mesh \in MeshVersions /\ account \in Accounts /\ gone \in [Accounts -> 0..Longest]
  /\ fails \in 0..MaxFails
  /\ at \in [Pollers -> {"unborn", "running", "rest", "called", "answered", "gone"}]
  /\ got \in [Pollers -> MeshVersions \cup {Failed, None}]
  /\ live \in MeshVersions \cup {Failed, None}
  /\ cache \in Accounts \cup {Failed, None} /\ age \in 0..CacheLife
  /\ load \in [Loads -> [at : {"idle", "fetch", "read", "answer"},
                         spent : 0..FetchTicks,
                         top : Accounts \cup {Failed, None},
                         live : MeshVersions \cup {Failed, None}]]
  /\ \A r \in Loads : load[r].at \in {"read", "answer"} => load[r].top # None
  /\ page \in {"closed", "ready", "open"} /\ due \in BOOLEAN
  /\ shown \in [top : Accounts \cup {Failed, None}, live : MeshVersions \cup {Failed, None}]

\* A graph never shows an account that was replaced longer ago than a read may take
\* plus the life of an entry: a slow read that overwrites a newer entry, or is stored
\* late, adds nothing to that ("CP_CACHE").
ServedFresh ==
  [][\A r \in Loads : load[r].at # "answer" /\ load'[r].at = "answer" /\ load'[r].top \in Accounts
       => gone'[load'[r].top] < Longest]_vars

\* When mesh and account have come to rest, an open page shows them as they are, and
\* goes on doing so, although polls overwrite each other's readings, answers overtake
\* each other, and errors are cached.
PageCatchesUp ==
  <>[](page = "open" => shown = [top |-> account, live |-> mesh])

=============================================================================
