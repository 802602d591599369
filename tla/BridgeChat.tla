------------------------------ MODULE BridgeChat ------------------------------
(***************************************************************************)
(* The dashboard's chat (index.html) on top of the bridge: a page posts a  *)
(* round, learns from the response whether it was accepted, and follows it *)
(* on the event stream, which carries the rounds of every visitor.  The    *)
(* response and the stream are separate connections: either may be first.  *)
(* Rounds may also be accepted for clients without a page (curl).          *)
(*                                                                         *)
(* The page keeps one watchdog handle.  A second response overwrites it;   *)
(* the timer behind the old handle runs on ("loose").  A subscriber reads  *)
(* the broadcast channel at its own pace and loses what is older than the  *)
(* channel's capacity; after a reconnect it starts at the end.             *)
(***************************************************************************)
EXTENDS BridgeRounds

CONSTANTS
  Pages,        \* open dashboards
  MaxClicks,    \* bound: clicks on Send at one page
  Capacity,     \* events kept for a slow subscriber
  TextMayFail   \* whether a response may break off between its status and its text

ASSUME ChatAssumption ==
  /\ MaxClicks \in Nat /\ Capacity \in Nat \ {0}
  /\ TextMayFail \in BOOLEAN

VARIABLES
  enabled,      \* whether the Send button is enabled
  fetch,        \* each click's POST
  grant,        \* the round a POST was accepted as, or 0
  held, loose,  \* the round of the watchdog timer with a handle, or 0; rounds of the other timers
  cursor, link  \* events the stream has delivered or skipped; state of the EventSource

pageVars   == <<enabled, fetch, grant, held, loose>>
streamVars == <<cursor, link>>
vars       == <<roundVars, pageVars, streamVars>>

Clicks == 1..MaxClicks

Init ==
  /\ RoundsInit
  /\ enabled = [p \in Pages |-> TRUE]
  /\ fetch = [p \in Pages |-> [c \in Clicks |-> "unused"]]
  /\ grant = [p \in Pages |-> [c \in Clicks |-> 0]]
  /\ held = [p \in Pages |-> 0] /\ loose = [p \in Pages |-> {}]
  /\ cursor = [p \in Pages |-> 0] /\ link = [p \in Pages |-> "open"]

Becomes(p, c, from, to) == fetch[p][c] = from /\ fetch' = [fetch EXCEPT ![p][c] = to]

-----------------------------------------------------------------------------
(* The POST.                                                               *)

Click(p, c) ==
  /\ enabled[p]
  /\ \A d \in 1..(c - 1) : fetch[p][d] # "unused"
  /\ Becomes(p, c, "unused", "sent")
  /\ enabled' = [enabled EXCEPT ![p] = FALSE]
  /\ UNCHANGED <<roundVars, grant, held, loose, streamVars>>

\* Mutation of BridgeAccepts: the number is taken before it is drawn.
BridgeAcceptsOldNumber(p, c) ==
  /\ Becomes(p, c, "sent", "accepted")
  /\ Accept
  /\ grant' = [grant EXCEPT ![p][c] = round]
  /\ UNCHANGED <<enabled, held, loose, streamVars>>

BridgeAccepts(p, c) ==
  /\ Becomes(p, c, "sent", "accepted")
  /\ Accept
  /\ grant' = [grant EXCEPT ![p][c] = round + 1]
  /\ UNCHANGED <<enabled, held, loose, streamVars>>

\* 429: another round holds the lock.
BridgeIsBusy(p, c) ==
  /\ busy
  /\ Becomes(p, c, "sent", "busy")
  /\ UNCHANGED <<roundVars, enabled, grant, held, loose, streamVars>>

\* 400 or 404: the message is too long, the scenario is not provisioned.
BridgeRejects(p, c) ==
  /\ Becomes(p, c, "sent", "rejected")
  /\ UNCHANGED <<roundVars, enabled, grant, held, loose, streamVars>>

\* finishRound: the handle is cleared, the button comes back.
FinishRound(p) ==
  /\ held' = [held EXCEPT ![p] = 0]
  /\ enabled' = [enabled EXCEPT ![p] = TRUE]

\* setTimeout: a handle that is still there is overwritten, not cleared.
SetWatchdog(p, n) ==
  /\ held' = [held EXCEPT ![p] = n]
  /\ loose' = [loose EXCEPT ![p] = @ \cup ({held[p]} \ {0})]
  /\ UNCHANGED enabled

\* Mutation of ResponseAccepted: the stream is trusted to bring the end.
ResponseAcceptedUnwatched(p, c) ==
  /\ Becomes(p, c, "accepted", "over")
  /\ UNCHANGED <<roundVars, enabled, grant, held, loose, streamVars>>

ResponseAccepted(p, c) ==
  /\ Becomes(p, c, "accepted", "over")
  /\ SetWatchdog(p, grant[p][c])
  /\ UNCHANGED <<roundVars, grant, streamVars>>

ResponseBusy(p, c) ==
  /\ Becomes(p, c, "busy", "over")
  /\ FinishRound(p)
  /\ UNCHANGED <<roundVars, grant, loose, streamVars>>

\* The text of the rejection is awaited before failRound, outside the try.
ResponseRejected(p, c) ==
  /\ Becomes(p, c, "rejected", "over")
  /\ \/ FinishRound(p)
     \/ TextMayFail /\ UNCHANGED <<enabled, held>>
  /\ UNCHANGED <<roundVars, grant, loose, streamVars>>

Pending(p) == {c \in Clicks : fetch[p][c] \in {"sent", "accepted", "busy", "rejected"}}

\* Mutation of FetchFails: only statuses are looked at, a rejected fetch is not caught.
FetchFailsUncaught(p, c) ==
  /\ c \in Pending(p)
  /\ fetch' = [fetch EXCEPT ![p][c] = "over"]
  /\ UNCHANGED <<roundVars, enabled, grant, held, loose, streamVars>>

\* The connection is lost before or after the bridge has seen the request.  (A
\* request that arrives later is accepted like that of a client without a page.)
FetchFails(p, c) ==
  /\ c \in Pending(p)
  /\ fetch' = [fetch EXCEPT ![p][c] = "over"]
  /\ FinishRound(p)
  /\ UNCHANGED <<roundVars, grant, loose, streamVars>>

-----------------------------------------------------------------------------
(* The watchdog: NO_ANSWER_MS after the response.  The task's own timeout  *)
(* began earlier and is shorter, so the round is past it by then.          *)

PastItsTimeout(n) == at[n] \in {"release", "over"}

WatchdogFires(p) ==
  /\ held[p] # 0 /\ PastItsTimeout(held[p])
  /\ FinishRound(p)
  /\ UNCHANGED <<roundVars, fetch, grant, loose, streamVars>>

LooseTimerFires(p, n) ==
  /\ n \in loose[p] /\ PastItsTimeout(n)
  /\ loose' = [loose EXCEPT ![p] = @ \ {n}]
  /\ FinishRound(p)
  /\ UNCHANGED <<roundVars, fetch, grant, streamVars>>

-----------------------------------------------------------------------------
(* The stream.                                                             *)

\* The next event for a subscriber: the oldest the channel still has.
NextEvent(p) ==
  IF Len(stream) - cursor[p] > Capacity THEN Len(stream) - Capacity + 1 ELSE cursor[p] + 1

Deliver(p) ==
  /\ link[p] = "open" /\ cursor[p] < Len(stream)
  /\ cursor' = [cursor EXCEPT ![p] = NextEvent(p)]
  /\ LET e == stream[NextEvent(p)] IN
       IF e.kind \in {"round_error", "round_done"}
       THEN FinishRound(p)
       ELSE UNCHANGED <<enabled, held>>
  /\ UNCHANGED <<roundVars, fetch, grant, loose, link>>

LinkBreaks(p) ==
  /\ link[p] = "open"
  /\ link' = [link EXCEPT ![p] = "connecting"]
  /\ UNCHANGED <<roundVars, pageVars, cursor>>

\* EventSource reconnects: what was sent in between is gone.
Reconnect(p) ==
  /\ link[p] = "connecting"
  /\ link' = [link EXCEPT ![p] = "open"]
  /\ cursor' = [cursor EXCEPT ![p] = Len(stream)]
  /\ UNCHANGED <<roundVars, pageVars>>

\* The browser gives the stream up: onerror with readyState CLOSED.
LinkCloses(p) ==
  /\ link[p] = "connecting"
  /\ link' = [link EXCEPT ![p] = "closed"]
  /\ IF held[p] # 0 THEN FinishRound(p) ELSE UNCHANGED <<enabled, held>>
  /\ UNCHANGED <<roundVars, fetch, grant, loose, cursor>>

-----------------------------------------------------------------------------
PostStep(p, c) ==
  \/ BridgeAccepts(p, c) \/ BridgeIsBusy(p, c) \/ BridgeRejects(p, c)
  \/ ResponseAccepted(p, c) \/ ResponseBusy(p, c) \/ ResponseRejected(p, c) \/ FetchFails(p, c)

TimerStep(p) == WatchdogFires(p) \/ \E n \in Rounds : LooseTimerFires(p, n)

StreamStep(p) == Deliver(p) \/ LinkBreaks(p) \/ Reconnect(p) \/ LinkCloses(p)

PageStep(p) ==
  \/ \E c \in Clicks : Click(p, c) \/ PostStep(p, c)
  \/ TimerStep(p) \/ StreamStep(p)

BridgeStep == RoundsNext /\ UNCHANGED <<pageVars, streamVars>>

Next == BridgeStep \/ \E p \in Pages : PageStep(p)

ChatSpec == Init /\ [][Next]_vars

\* Tasks are scheduled, a fetch is answered or fails, timers run down.  Events are
\* not assumed to arrive.
Fairness ==
  /\ \A n \in Rounds : WF_vars(TaskStep(n) /\ UNCHANGED <<pageVars, streamVars>>)
  /\ \A p \in Pages : WF_vars(TimerStep(p))
  /\ \A p \in Pages, c \in Clicks : WF_vars(PostStep(p, c))

FairChatSpec == ChatSpec /\ Fairness

-----------------------------------------------------------------------------
(* Properties.                                                             *)

TypeOK ==
  /\ RoundsTypeOK
  /\ enabled \in [Pages -> BOOLEAN]
  /\ fetch \in [Pages -> [Clicks -> {"unused", "sent", "accepted", "busy", "rejected", "over"}]]
  /\ grant \in [Pages -> [Clicks -> 0..MaxRounds]]
  /\ \A p \in Pages, c \in Clicks : fetch[p][c] = "accepted" => grant[p][c] # 0
  /\ held \in [Pages -> 0..MaxRounds] /\ loose \in [Pages -> SUBSET Rounds]
  /\ cursor \in [Pages -> Nat] /\ \A p \in Pages : cursor[p] <= Len(stream)
  /\ link \in [Pages -> {"open", "connecting", "closed"}]

\* A disabled button always has something that will enable it: a POST that is still
\* out, or a watchdog with a handle; no event is needed for it.
DisabledIsGuarded ==
  \A p \in Pages : ~enabled[p] => held[p] # 0 \/ Pending(p) # {}

\* "A failed POST and a lost stream cannot leave the button disabled."
ButtonComesBack == \A p \in Pages : ~enabled[p] ~> enabled[p]

=============================================================================
