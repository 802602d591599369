# TLA+ models of the CADS agent-to-agent demos

The repository holds two demos of agents that talk over brokered channels, each
call being one `ct-agent channel` process:

* the **bridge** demo: `src/main.rs` serves a dashboard (`index.html`), dials a
  peer per visitor request and streams every step over server-sent events;
* the **Nordwind** demo: a hub (`src/bin/nordwind_hub.rs`, with `hops.rs`,
  `topology.rs`, `gate.rs` and the page `web/nordwind.*`) starts an orchestrated
  run at the node Zentrale (`nordwind/node/nordwind_node.py`), which calls other
  nodes hop by hop, reports live to the hub, and hands a job to a field node
  that can only poll.

`ct-agent`, the control plane and the edge are other projects. They appear in
the models as what their callers can observe: a call returns a reply, fails, or
times out; a process prints lines and ends, or does not.

Line numbers below are those of the repository's files.

## Inventory

| Component | State it keeps | Operations | What makes it correct |
|---|---|---|---|
| Hub, runs (`nordwind_hub.rs` 60-90, 230-340) | `run` (id, token, seen, reports) under one lock, `last_run` under another, a broadcast channel, `last_start` | `POST /api/scenario`, the spawned `run_scenario`, `POST /node/hop/:run`, `/api/events`, `/api/state` | one run at a time; live reports and the trace together show every hop; `last_run` and the stream agree and stay in order; each run ends |
| Hub, mesh (`nordwind_hub.rs` 88-184, 220-233, 386-392) | `live`, `cp_cache`, `token_cache` | `poll` (from the background task and after each run), `/api/topology`, `/api/state` | a graph is not staler than the cache allows; what pages show corrects itself |
| Channel call (`hops.rs`) | a process and its pipes | `initiator_env`, `run_call`: a process, two reader threads, a timeout | it returns, whatever the process does, and its result is the process's last word |
| Topology (`topology.rs`) | `Live` | `fetch_topology`, `pick_topology`, `apply_mesh_status`, `build_graph` | what a graph shows online is what the last poll heard |
| Gate (`gate.rs`) | none | header checks | - |
| Nordwind page (`nordwind.js`) | graph, running flag, hops shown | `init`, `onEvent`, `loadGraph`, `start` | it shows the latest graph and every hop of the newest run; it leaves the running state |
| Node, briefing (`nordwind_node.py` 234-266, 376-477) | `lastseen` files | `svc_toern_briefing`, `Reporter`, `svc_mesh_status` | the trace has every hop made; hop 4 is skipped only if the field node is away |
| Node, field hop (`nordwind_node.py` 480-669) | directories `inbox`, `claimed`, `outbox` | `field_hop`, `svc_feld_abruf`, `svc_feld_quittung`, `field_loop` | a job goes to one poll; a result is never invented; everybody stops waiting |
| Node, supervisor (`node-run.sh`) | none | restart after 3 s | - |
| Bridge, rounds (`main.rs` 349-579) | lock `busy`, counter `round`, broadcast channel | `POST /run`, `POST /run/:scenario`, `run_round`, `/events` | one round after the other on the stream, one outcome each; the lock comes free |
| Bridge, presence (`main.rs` 201-235, 584-597, 671-699) | `last_seen` per peer; the watchdog's `was_online` | `POST /heartbeat/:peer`, watchdog, `/status` | the stream corrects itself |
| Bridge, logs (`main.rs` 248-275, 609-666) | ring buffer per peer | `POST /monitor/:peer`, `GET /logs/:peer` | the latest lines, in order |
| Dashboard chat (`index.html` 304-434) | button, watchdog timer, outcome | Send, stream events | the button comes back |
| Dashboard presence (`index.html` 256-263, 329-345, 435-448) | pills, options of the picker | `refreshStatus`, `populateOptions`, `applyOnlineState` | what is shown of a peer comes to be so |
| Scripts (`*.sh`, `nordwind/scripts`) | control-plane records | seed, provision, run | a repeated run finishes what an earlier one began |

How they interact: a page posts to its server and listens to one stream that
carries everybody's events, so response and events race. The hub calls Zentrale
through a process and is called back by Zentrale's reporter over HTTP while that
call is out, so reports race with the reply and with the end of the run. Every
service call at a node is a process of its own; they share only files. The field
node sees Zentrale through two calls, poll and receipt, either of which may be
lost in either direction.

Hard behaviour, listed line by line under `hazards` in `PROJECT.json`: events
that are emitted after the lock that ordered them was released; handlers that are
dropped at an `await`; polls that outlive their callers; timeouts of nested
waits (100 s + 100 s + 45 s inside 170 s); events lost by slow or reconnecting
subscribers; a stale window seen by two observers.

## Modules

| Module | Stands for | Kind |
|---|---|---|
| `HubFeed` | what the hub promises to its watchers | abstract |
| `HubRun` | hub runs with the node side of the reports, implementing `HubFeed` | detailed |
| `HubRun_proofs` | its theorems, the refinement and the replay among them | proofs |
| `NordwindPage` | the page of a run, composed with `HubFeed` | composition |
| `NordwindPage_proofs` | theorems about page and feed | proofs |
| `FieldJob` | what hop 4 promises | abstract |
| `FieldMailbox` | the field hop over its directories, implementing `FieldJob` | detailed |
| `FieldMailbox_proofs` | its theorems, the refinement among them | proofs |
| `Briefing` | the orchestration at Zentrale and the file `lastseen`, composed with `FieldMailbox` | composition |
| `Briefing_proofs` | theorems about briefing and mailbox | proofs |
| `ChannelCall` | one channel call of the hub | detailed |
| `MeshGraph` | from a poll (over `ChannelCall`) to the graph | composition |
| `MeshGraph_proofs` | theorems about call and graph | proofs |
| `MeshLive` | overlapping polls, control-plane cache and graph of the hub, and the page that shows it | detailed |
| `MeshLive_proofs` | its theorems | proofs |
| `BridgeRounds` | the bridge's rounds | detailed |
| `BridgeChat` | the dashboard chat, composed with `BridgeRounds` | composition |
| `BridgeChat_proofs` | theorems about rounds and chat | proofs |
| `Presence` | heartbeats and the presence watchdog | detailed |
| `Dashboard` | the status requests of the dashboard, composed with `Presence` | composition |
| `Dashboard_proofs` | theorems about presence and dashboard | proofs |
| `MCHubRun`, `MCFieldMailbox` | symmetry sets for TLC | instances |
| `MCMeshGraph`, `MCNordwindPage` | a manifest with its accounts; the events of two runs | instances |

A definition named `XyZ` with the comment `Mutation of Abc` is not part of a
specification: it is `Abc` with a plausible bug, kept to show that a property
would notice it.

### HubRun

`run`, `seen` and `reports` are `Hub.run`. `scn` is the position of each spawned
`run_scenario` (its own positions between two awaits), `vpc` that of each
`POST /api/scenario`, `zst` and `hops` Zentrale's orchestration, `net` the
reports on their way, `accepted` and `recorded` the `node_hop` handlers inside
`emit`. `emit` is two steps everywhere, because it appends to `last_run` under a
lock and broadcasts after releasing it (`Record`, `Send`); handlers run in
parallel, so both orders of two emits occur. `node_hop` decides and counts under
the run lock in one step (`NodeHop`), and emits after the lock is gone.
`HandlerDropped` is a client that gives up while its handler waits for `last_run`:
axum drops the handler's future there.

### HubFeed and NordwindPage

`HubFeed` is what a watcher may rely on: runs are accepted one after the other; of each
run the start is recorded and sent first, then the events in any number, then the end;
an event is recorded before it is sent. It forgets hops, reports, tokens, the trace and
the throttle. `HubRun` implements it (`ImplementsHubFeed`): the mapping reads the phase
of a run off the position of its task (`FeedPhase`), and what is recorded and not yet
sent off the tasks and handlers inside `emit` (`FeedPending`). Two freedoms of the
abstract feed are those of the code: a live report taken in time may be told at any
later time, also after its run's end, and the next start may come before the last end.

`NordwindPage` watches that feed. `ReadLastRun` and `ReadRunning` are the two looks of
`api_state` (the page's request for it is one more moment that nothing depends on),
`Subscribe` the `EventSource`, which the browser also opens again by itself;
`StreamBreaks` loses what is under way. `missed` is a history variable: what was
broadcast where the page could not hear it. The log shows late events of an older run
below the newest, and the end of run 1 after the start of run 2 switches the button on
while run 2 is active; both follow from the freedoms above and neither loses anything.

### FieldMailbox and FieldJob

One action per file operation that somebody else can notice. `field_hop` removes the
stale receipt, writes the job under a `.tmp` name (`WriteJob`), renames it into the inbox
(`ShowJob`), looks for a receipt until its wait is over, then removes job and receipt.
Writing and renaming are two steps because the write fixes the modification time by which
polls sort, and the rename makes the job visible: `born` and `shown` are the two orders,
and two hops that overlap may have them crossed. A receipt is one step, because nobody
reads its time. `svc_feld_abruf` lists, reads modification times, tries to claim each name
by `os.replace`, and goes round until its own wait is over; a job that it has moved and
cannot read stays in `claimed/` (`ClaimUnread`). A poll whose caller has given up runs on
(`PollFails` changes only the node). Receipts travel in `receipts`; they may arrive late,
past the end of their hop, or never. With `Faults` the processes at Zentrale may be killed,
between any two of their steps, and their file operations may fail (`HopCrashes`,
`HandlerDies`, `ClaimUnread`); the field node may restart at any time (`NodeRestarts`).

What a claim promises about order is therefore weaker than "the oldest pending job": a job
that is still pending when another is taken was written after that one, or came into the
inbox after it (`HandsOutOldest`). A node may go on working on a claimed job whose hop has
ended; its receipt then stays in `outbox/`. Nothing in the code prevents that, and the
models say no more than that such a receipt is never taken for another run's.

`FieldJob` forgets files, polls and processes: a job is offered, then handed over
at most once or withdrawn; a hop ends well only if its job was handed over. The
refinement mapping reads the job's state off the directories (`JobOf`) and the
verdict off what `field_hop` returns (`VerdictOf`). A claimed job counts as handed
even if it cannot be read, the poll is killed or its reply is lost: that is what the code does, and why the
hop must be able to end badly on a handed job.

### Briefing

`brief` is the position of `svc_toern_briefing` for each run. Hops 2 and 3 are calls that
succeed or fail; an unreadable reply is an error after hop 3; then `Decide` reads
`lastseen`. Hop 4 is `HopStep` of `FieldMailbox`, which starts only from here. Every call
that Zentrale serves on the field channel first rewrites `lastseen` (`Truncate`, then
`WriteSeen`: `open(path, "w")` empties the file before the number is written), so polls and
receipts of `FieldMailbox` are served (`ServePoll`, `ServeQuittung`) only after that.
`touch_lastseen` swallows an `OSError` of either step, and the call is served all the same:
`OpenFails` leaves the file as it is, `WriteFails` leaves it empty unless another call has
written it. A serving process may also be killed in between (`PollKilled`, `LoseQuittung`),
and `Killed` ends the briefing's process anywhere.

All that a reader can tell apart is whether there is a number from within the window
(`lastseen`). Two history variables relate that to the truth: `near`, whether a call of the
field node came in within the window, and `spoiled`, whether one has failed to leave its
number since one did. The window may end at any moment, for the number (`SeenAges`) and for
the last call (`NodeIsAway`); the number is no younger than the call it stands for.

The model keeps what follows from that: a field node that has called is left out of a
briefing that looks while a call rewrites the file, or after one could not
(`LeftOutOnlyIfAway`), and a node that went away within the window costs the briefing its 45 s
and its outcome, although hops 2 and 3 went well.

### ChannelCall and MeshGraph

`pos` is the position of `run_call`. The process prints lines into a pipe of `PipeCap`
lines, which a reader empties (`Read`); it ends at any moment, and may leave behind an
`heir`, a process of its own that holds the pipe. `Look`, `Sleep` and `Kill` are the loop
over `try_wait`; between `Look` and `Kill` the process may end. `Join` waits for the end of
the pipe, without a timeout, before the reply is judged (`Judged`). The reader is
`read_to_string`, which hands over nothing if any of the output is no UTF-8: such a line
(`Garbled`) stays in `last` and is no reply. A process that ends between `Look` and `Kill`
has lost its status, and its call counts as timed out. Standard error carries
measurements and is left out.

`MeshGraph` polls through that call. `Entries` is `apply_mesh_status`, which always writes
an entry for every site; `FetchTopology`, `PickTopology` and `BuildGraph` are the functions
of the same names, evaluated for every account and every wanted id in every state.
`MeshLive` treats what is polled as a version and lets polls overlap; here one poll runs at
a time and its content matters.

### BridgeRounds and BridgeChat

`Accept` is a handler from `try_lock_owned` to `tokio::spawn`: nothing in between
awaits. `at[n]` is the position of round `n`'s task; the lock is released by the
task after `run_round` has returned (`Release`), one step after `round_done` was
sent. `PeerStep` is the process's doing, `TaskStep` the bridge's.

`BridgeChat` adds pages. A click posts; the bridge answers 202, 429 or another
error; the response and the stream are independent, so `Deliver` may run ahead of
`ResponseAccepted`. `held` is the timer behind the variable `watchdog`, `loose`
the timers whose handle was overwritten by a later response (they still call
`failRound`). `NextEvent` is the broadcast channel's behaviour for a slow reader:
it continues with the oldest event that is still kept. Rounds of clients without
a page are those of `BridgeRounds` itself.

The watchdog fires only for a round that is past its own timeout
(`PastItsTimeout`): the page's 100 s start after the 90 s of `run_round`.

### Presence

The unit of time is one period of the watchdog (5 s), the window 7 of them. Each
peer's heartbeat ages by one in every period, at any moment of it, so a peer may
go stale between two steps of a pass or of a request. The one timing assumption:
a request does not last longer than a period (`late`). `changed` is a history
variable: did the peer come or go since the watchdog last woke up.

Line 592 takes the time before it waits for the lock (Rust evaluates the right side of an
assignment first). A request that was in flight when the heartbeat last aged may have taken
it before or after that, so it stores an age of one period or of none (`StoreTime`): of two
requests the one with the older time may store it last. `beat` is a history
variable, the periods since a heartbeat was last stored, whatever its time. `StoredIsOnline`
bounds what is lost by that: a peer is online for the window less one period after each
store.

`ASSUME StaleAfter > 3` is needed: with a window of three periods the `Age` steps of a
visit can fall between two readings of the watchdog, which then never reports the peer as
offline (`StreamCatchesUp` is violated). The code's 7 leaves room.

`Dashboard` adds a page. `refreshStatus` runs on load, every 8 s and on every presence
event, and never waits for its own previous request: `Refresh` is possible at any time for
a free slot of `Requests`. `status_handler` looks at the peers one by one (`StatusReads`).
`StatusArrives` sets pills and options; `IdentitiesArrive` builds the options, enabled,
whenever that answer comes.

### MeshLive

`mesh` and `account` are versions of what a poll and the control plane would find
now. `at[0]` is the background task, `at[n]` the task of run `n`, which polls once
more after the run (`RunEnds` leaves it at the beginning of `poll`). Runs appear only
as far as `poll` notices them; `HubRun` has the rest. `Fold` is `apply_mesh_status`
with the announcement, between which nothing is awaited. `load` holds the requests
for a graph: `Requested` looks at the cache, `AccountRead` is the moment at which the
control plane answers, `Store` writes the entry and stamps it with the time of the
write, as line 135 does. Building the graph is part of the step before it, because the
only thing that could come between them, a fold, does not depend on the cache. `gone` is a history
variable: how long ago was a version of the account replaced.

The model allows a newer reading to be replaced by an older one, in `live`, in the
cache and on the page, because the code does. What it shows is that none of this lasts.

## Runs

Every bound is a constant in the `.cfg`. Where a bound could stop a model it stutters in an
explicit `Rest` action, and TLC's deadlock check stays on; only `page` turns it off, because
feed and page really come to rest when all runs are over and everything has been heard.

| Run | Bounds | Shows |
|---|---|---|
| `hub_runs` | 2 visitors, 2 runs, last hop 2, 1 report per run, replay of 8, dropped handlers, visitors symmetric | `OneRunAtATime`, `LastRunComplete`, `StreamOrder`, `ReportsOnlyWhileActive`, `ImplementsHubFeed`. Two runs are enough for every overlap of an old run's tasks and reports with a new run; a third could overlap only with the second in the same ways |
| `hub_live` | 1 visitor, 1 run, hops 2 and 3, 4 reports | `EveryHopAccountedFor` (start and end of both hops fit into the budget, so live and lost reports mix freely), `RunEnds`, `HopsShown` |
| `hub_dropped` (violation) | 1 run, hop 2, handlers may be dropped | a hop lost to the display, see Findings |
| `page` | 2 runs with 3 and 4 events, a live report in each, 1 break of the stream | `LogComplete`, `ButtonComesBack`. Two runs are what it takes for a late report or end to meet the next start; one break separates any two events |
| `mailbox` | 2 hops, 2 handlers, killed processes and failing operations, all symmetric | `HandedOutOnce`, `HandsOutOldest`, `ImplementsFieldJob`. Two polls and two jobs give every race over one job, and two orders between jobs |
| `mailbox_poll` (violation) | 1 hop, 2 handlers | a poll that dies, see Findings |
| `briefing` | 1 briefing, 2 handlers, killed processes and failing operations | `HonestBriefing`, `LeftOutOnlyIfAway`, `BriefingEnds`, `PollsEnd`. Two handlers and the receipt are three calls that may rewrite `lastseen` at once, one more than a reader needs; two polls are what it takes to lose a race for a job |
| `topology` | at most 2 lines of output through a pipe of 1, 8 accounts, 3 wanted ids, 2 topologies fetched | `ResultIsLastWord`, `GraphTellsPoll`, `NordwindIsShown`, `CallReturns`. Two lines make a last word that is not the first, the pipe of one makes output that is not read when the process ends; the accounts hold a topology of strangers, a partial one, one with edges both ways and without a channel, unreadable ones, and one beyond the limit |
| `mesh` | 1 run, 1 change of the mesh and 1 of the account, 1 failure of any kind, 2 requests, a cache life and a read of 1 tick each | `ServedFresh`, `PageCatchesUp`. Two polls (background and after the run) and two requests are what it takes to overtake; the theorem covers `ServedFresh` for all bounds |
| `chat` | 1 page, 2 clicks, 2 rounds, 1 line of log in the second, 2 events kept | `DisabledIsGuarded`, `ButtonComesBack`, `LegibleStream`, `OneOutcome`, `RoundsMakeWay`. Two clicks are what it takes to overwrite a watchdog; the second round is another client's or the page's own |
| `chat_text` (violation) | 1 click, 1 round | a button that stays disabled, see Findings |
| `dashboard` | 1 peer, 2 overlapping heartbeats, a window of 4 periods, 2 overlapping status requests | `StoredIsOnline`, `StreamCatchesUp`, `DroppedIsTold`, `PageTellsPresence`. Two heartbeats are what it takes to store times in the wrong order, two requests to overtake; 4 is the shortest window for which the stream corrects itself, so it leaves the least room, and the theorems cover longer ones; peers share no state |

The replay bound of `hub_runs` is above the events of its runs, as the code's 80
is above those of a real run (start, end, 20 reports, a trace of three hops).
`LastRunKept` says how much room the code's 80 leaves for emits of older runs: 66.

### Fairness

* `HubRun`: the tokio runtime polls spawned tasks and handlers (weak fairness of
  each task's and each handler's steps); the task includes the timeout of the call
  at 170 s. Nothing is assumed of Zentrale, of visitors, or of reports.
* `NordwindPage`: a run goes on to its end (`HubRun!RunEnds`), what was recorded is sent,
  and what was sent to an open stream arrives. A broken stream may stay broken.
* `Briefing`: processes at Zentrale are scheduled, unless they are killed, their calls end
  (100 s) and their clocks run. Nothing is assumed of the field node or of its channel.
* `MeshGraph`: the caller, its reader and the clock go on. Nothing is assumed of the
  process or of its heir, so `CallReturns` excepts a pipe that stays held.
* `BridgeRounds`: the spawned task is scheduled and its timeout expires. Nothing is
  assumed of the peer's process: `PeerStep` is outside.
* `BridgeChat`: also, a fetch is answered or fails, and browser timers run down. No
  event is assumed to arrive, which covers a stream that is dead.
* `MeshLive`: time passes, tasks, handlers and the page's callbacks are scheduled, calls
  end (60 s) and runs end (`HubRun!RunEnds`, so a run that hangs would stop the polls).
  Failures are finitely many; nobody has to start a run or open a page.
* `Presence`: time passes and the bridge's tasks are scheduled. No peer sends. `Dashboard`:
  also, the page's timer runs, requests end, and not all of those that are made again and
  again fail (strong fairness of an answer); the request for `/identities` may fail for good.

## Findings

* **A hop lost to the display** (`hub_dropped`): `node_hop` notes a hop as seen
  (line 328) before it awaits the lock of `last_run` inside `emit` (335). The node's
  reporter gives up after 3 s; a handler dropped at that await leaves the hop seen
  and never emitted, and the trace then leaves it out. The comment at lines 284-285
  promises the trace for hops that were not reported live. `NoHopLost` proves that
  this is the only way to lose one.
* **A poll that dies** (`mailbox_poll`): the sort key of line 515 reads modification
  times outside the `try`; a job withdrawn or claimed in between raises. The docstring
  allows a job or an empty reply. The node recovers by polling again.
* **A button that stays disabled** (`chat_text`): `await resp.text()` in `index.html`
  366 is outside the `try` and before `failRound`.

Also met, and no runs of their own. If `ct-agent` cannot be spawned, `run_round` returns after
`round_error` without `round_done` (`main.rs` 407-410), while the 429 text (494) tells others to
wait for `round_done`; `OneOutcome` says what does hold. A page that loads while a run ends, or
whose stream breaks then, shows "running" until the next run (`ButtonComesBack` of
`NordwindPage` names exactly this exception). `fetch_topology` reads the first 10 topologies
only, so neither the configured one nor the Nordwind one is found beyond them. A briefing
that looks while `touch_lastseen` has emptied `lastseen` (382) and not yet written it (383)
covers three sites although the field node is connected, and says so; writing under another
name and renaming, as `_write_json_atomic` does, would close the gap. The comment of
`presence_watchdog` says it only reports peers that went offline, but it reports both directions. The second report is
needed: with it left out (`NewsOffline`), `StreamCatchesUp` fails, because the watchdog
can report "offline" from a reading older than the heartbeat just reported.

## Proofs

`HubRun_proofs` proves, for every number of visitors, runs, hops and reports:

* `TypeCorrect`: `Spec => []TypeOK`. Inductive invariant `TypeInv`: `TypeOK`, and that
  a task in the trace has hops left to show and a calling Zentrale a hop left to make;
  without these two, the sequence numbers of emitted events leave their type.
* `OneRun`: `Spec => []OneRunAtATime`. `OneRunAtATime` is inductive only with
  `TasksAreDrawn` (a task that has not begun has an id that has not been drawn),
  because a new run must not find its own task already occupying the hub: `RunInv`.
* `OnlyActiveReports`: the action property `ReportsOnlyWhileActive`, from `RunInv`.
* `NoHopLost`: `~Disconnects => (Spec => []EveryHopAccountedFor)`. Inductive invariant
  `HopInv`: what was seen has been accepted, and hence is on its way or sent
  (`SeenIsShown`); what the snapshot found missing is in the trace still to be replayed
  or was sent (`ReplayedIsShown`); an answer and its hops are final (`AnswerIsFinal`).
  Its step is proved per action from lemmas that say how each action changes what is
  on its way or sent.

* `StreamInOrder`: the action property `StreamOrder`. `FeedInv` is `RunInv` with what the
  stream tells about positions: a run's task has passed what it has sent and what it
  still has to replay is not on the stream (`TaskBehind`); a report on its way or told
  was made by Zentrale (`OnlyMade`), which the hub called (`BriefedIsCalled`); a live
  report is in one place between Zentrale and the stream (`OneWay`).
* `HubImplementsFeed`: `ImplementsHubFeed`. Each action is mapped to `Accept`, `Record`,
  `Send`, `Close` or a stutter of `HubFeed`; only emitting positions carry a half-done
  emit (`EmitsInPlace`).
* `LastRunKept`: `Spec /\ []FewWait(K) => []LastRunComplete` if `HistCap` is at least
  `3 * LastSeq + 2 + K`. The property is false for a cap that is too small, so a condition
  is needed, and this is the weakest the argument found. A run has at most `3 * LastSeq + 2`
  different events (`OwnCount`, an injection into an interval). Emits of older runs can
  take room from it: those that waited for the lock when its start was recorded, since
  that start clears what was there before. `FewWait(K)` says that they are at most `K`,
  handlers inside `emit` and tasks about to record their end; with the code's numbers, 80
  and 14, `K` may be 66. Inductive invariant `KeepInv`: the active run is the newest
  (`Newest`), what was recorded of it is in `last_run` (`KeptOfNewest`), and what is there
  of older runs, with what still waits, does not grow once it has begun (`OldNext`). The
  events of a run come after its start (`NothingBeforeStart`), so the clear takes nothing
  of its own. The steps are taken through `HubFeed`, whose actions are what is left of
  `HubRun` for this purpose. `LastRunKeptBelowCap` needs no condition on behaviours.

`NordwindPage_proofs` proves, for every number of runs, events and breaks of the stream:

* `PageTypeCorrect`: `PageSpec => []TypeOK`.
* `PageLogComplete`: `PageSpec /\ []ReplayComplete => []LogComplete`. `ReplayComplete` is
  `LastRunComplete` of `HubRun`, said of the feed: the page can show no more than the hub
  keeps, and `LastRunKept` is the other half. The argument needs that a `run_start` under
  way finds nothing of its own run or a later one before it (`StartsInOrder`, from
  `StartsAlone` and `NewestOpens` of the hub), because `OnEvent` empties the log there.
* `PageLogCompleteBelowCap`: `[]LogComplete` without that hypothesis while all events fit
  into `last_run`; it shows that the hypothesis can be met.

`FieldMailbox_proofs` proves, for any set of handlers, any finite set of jobs, with and
without killed processes and failing operations:

* `TypeCorrect`: `Spec => []TypeOK`, which is inductive.
* `OnceHandedOut`: `HandedOutOnce`, from `MailInv`: a job is in one directory and only once
  its hop has shown it (`OnePlace`); one that a poll has read is a claimed one and was read
  once (`CountedOnce`); whatever answers for a job, from the reply to the poll to the
  receipt and what the hop read, answers for one that was read (`AnswersHanded`).
* `OldestFirst`: `HandsOutOldest`. A poll claims from an old listing; `Listed` says that
  what is in the inbox and not in the listing came there after everything that is in the
  listing, and `LastShown` that a job which is shown is the last so far. Within the listing
  the poll takes the one that was written first.
* `MailboxImplementsFieldJob`: `ImplementsFieldJob`, from `MailInv`.

`Briefing_proofs` proves, for any set of handlers and any finite set of briefings:

* `BriefingKeepsMailbox`: `BriefingSpec => Spec`, so that each theorem about the mailbox
  holds of a briefing; `BriefingImplementsFieldJob` is the one that matters most.
* `BriefingTypeCorrect`, `BriefingIsHonest` and `LeftOutForAReason`: `BriefingTypeOK`,
  `HonestBriefing` and `LeftOutOnlyIfAway`. `BriefInv` is `BriefingTypeOK` and `MailInv` with
  two parts: an outcome is what the hop's end says it is (`OutcomesEarned`), and `lastseen`
  has a number of the window if a call came in within it, no call holds the file open and
  none has failed to write it since the last that did (`SeenIfNear`).

`MeshGraph_proofs` proves, for every manifest of the mesh, every account, any texts, and
any length of output and pipe:

* `CallReturnsLastWord`: `ResultIsLastWord`, for text and other bytes, from `CallInv`: nobody is left to write
  when the pipe is at its end (`NobodyWrites`), a caller in its loop looks at a process
  that exists (`LooksAtProcess`), and a new call finds nothing of the last (`SpawnsClean`).
* `GraphTypeCorrect` and `GraphIsThePoll`: `TypeOK` and `GraphTellsPoll`, from `GraphInv`,
  which adds that `live` is what the last poll heard (`LiveIsHeard`).
* `NordwindShown`: `NordwindIsShown`. The first topology in the account's order that
  matches exists by well-foundedness of the naturals.

`BridgeChat_proofs` proves, for every number of pages, clicks, rounds, lines and kept events:

* `StreamIsLegible` and `RoundHasOneOutcome`, from `RoundsInv`: one round is in flight,
  the last accepted, exactly while the lock is held (`OneInFlight`); the stream ends with
  its events once it has begun (`StreamIsCurrent`); it has no outcome before its position
  says so (`OutcomeAt`). Every step of the chat is one of the rounds or leaves them alone.
* `TypeCorrect`, and `ButtonIsGuarded`: `~TextMayFail => (ChatSpec => []DisabledIsGuarded)`.
  The condition is the finding of `chat_text`.

`Dashboard_proofs` proves, for every number of peers and requests and every window of more
than three periods:

* `StoredHeartbeatCounts`: `StoredIsOnline`, from `Young`: a request in flight sees its
  peer age at most once, so the time it stores is at most a period old, and what is stored
  is never more than a period older than the last store.
* `StreamSelfCorrects`: `StreamCatchesUp`, from `WatchInv`. A peer that was offline when it
  was last read and is online now came since, so its heartbeat is too young to go stale
  before the next reading: the watchdog misses no visit that ended, and what it has not
  told yet is nothing but the coming of a peer. This is where the window must exceed three
  periods: one that the request took, two until the watchdog looks.
* `DashboardTypeCorrect`: `DashboardTypeOK`.

`MeshLive_proofs` proves, for every number of runs, requests and failures, every life of
the cache and every length of a read:

* `TypeCorrect`: `Spec => []TypeOK`, which is inductive. It includes that no request is
  answered from a cache that was never filled.
* `AccountIsFresh`: `Spec => ServedFresh`. Inductive invariant `FreshInv`: a result on its
  way was replaced no longer ago than it has been on its way, an entry no longer ago than
  the longest read and its own age; the current version has never been replaced. The
  entry's age is counted from its own store, so the clause on entries survives a slow
  request that overwrites a newer one.

The only assumptions are those on the constants (and `~Disconnects`, `~TextMayFail`, the
room in `last_run` or the hub's half of a bargain where a theorem states it): that numbers
are numbers and a value stands apart from the values it is told from, and

* `HubAssumption`: hop numbers reach from 2 to at most 9 (line 321 of `nordwind_hub.rs` refuses others);
* `PresenceAssumption`: a window of more than three periods (7 in the code);
* `MeshAssumption`: the manifest's channels between sites are those `apply_mesh_status` has
  by heart (`topology.rs` 143-148) and `nordwind-provision.sh` 17 writes. Without it an edge
  could name a channel that no poll ever reports;
* `AccountAssumption`: an account that can be read is a sequence of topologies, none of which
  is the value that stands for none;
* `CallsAssumption`: a call that rewrites `lastseen` is a poll or a receipt, not both.

TLC evaluates them in the runs of these modules.

Only model-checked: every liveness property, `PageTellsPresence` among them (liveness under
fairness is outside what the proof system supports). Every invariant and every safety
property that a run checks is a theorem.

## Not modelled, and the plan

What is left of the code that could still be added, in this order:

1. Page and hub as one: `PageLogComplete` and `LastRunKept` fit together through
   `ReplayComplete`, `HubImplementsFeed` being the link; a theorem over `HubRun` with a page
   would say it in one formula.
2. `field_sheet`, `next_saturday`, `clean_topic` and the other pure helpers of a node, as
   operators against a reference definition. They hold no state and take wording and
   weather figures; their outcomes are nondeterministic results in `Briefing` and
   `FieldMailbox`.

Left out, with the reason:

* Shipped logs (`/monitor`, `/logs`): a ring buffer behind one lock and one event per
  line. A model would restate push and pop; that buffer and stream may disagree on the order
  of two lines breaks no promise the repository makes.
* Seeding and provisioning scripts: what a request leaves behind is in the control plane,
  which is another project, so what a second run finds cannot be read off this code.
* `dispatch` at a node is a table lookup; the supervisor restarts its process, which the
  models have as `NodeRestarts` and, at Zentrale, as processes that may be killed.
* Identities and start-up: files and environment read once.

Left out for good: drawing, wording and layout of the pages, environment lookups at
start-up, `gate.rs` (two stateless checks), the local lab (stand-ins for a test) and
deployment files.
