----------------------------- MODULE BridgeRounds -----------------------------
(***************************************************************************)
(* The demo bridge (src/main.rs): a visitor's POST /run or /run/:scenario  *)
(* takes the busy lock and spawns run_round, which dials a peer through a  *)
(* ct-agent process of its own and reports every step on one broadcast     *)
(* stream.  The lock is released by the spawned task, after run_round.     *)
(*                                                                         *)
(* An event carries the round it belongs to as a ghost: the code puts the  *)
(* number into round_start and round_done only.  The stderr lines of       *)
(* ct-agent (transport, channel_connected, initiator_log) are one kind.    *)
(***************************************************************************)
EXTENDS Naturals, Sequences

CONSTANTS
  MaxRounds,    \* bound: rounds the bridge accepts
  MaxLines,     \* bound: stderr lines of one ct-agent
  Logged        \* bound: the rounds whose stderr lines are told

ASSUME BridgeAssumption == MaxRounds \in Nat /\ MaxLines \in Nat

VARIABLES
  busy,         \* the busy lock: held or not
  round,        \* BridgeState::round, the last number given out
  at,           \* position of each round's task
  got,          \* whether a reply line was read from the peer
  exit,         \* how the peer's process ended: well or not, killed included
  lines,        \* stderr lines read so far
  stream        \* everything broadcast so far

roundVars == <<busy, round, at, got, exit, lines, stream>>

Rounds == 1..MaxRounds
Outcome == {"reply_received", "round_error"}
EventKind == {"round_start", "initiator_dialing", "line", "round_done"} \cup Outcome

RoundsInit ==
  /\ busy = FALSE /\ round = 0
  /\ at = [n \in Rounds |-> "none"]
  /\ got = [n \in Rounds |-> FALSE] /\ exit = [n \in Rounds |-> "none"]
  /\ lines = [n \in Rounds |-> 0]
  /\ stream = <<>>

Emit(kind, n) == stream' = Append(stream, [kind |-> kind, round |-> n])
Move(n, from, to) == at[n] = from /\ at' = [at EXCEPT ![n] = to]

-----------------------------------------------------------------------------
(* run_handler and run_scenario_handler, once the request is valid.        *)

\* Mutation of Accept: the lock is let go when the handler returns.
AcceptAndLetGo ==
  /\ ~busy /\ round < MaxRounds
  /\ round' = round + 1
  /\ Move(round + 1, "none", "start")
  /\ UNCHANGED <<busy, got, exit, lines, stream>>

Accept ==
  /\ ~busy /\ round < MaxRounds
  /\ busy' = TRUE
  /\ round' = round + 1
  /\ Move(round + 1, "none", "start")
  /\ UNCHANGED <<got, exit, lines, stream>>

-----------------------------------------------------------------------------
(* run_round.                                                              *)

Start(n) ==
  /\ Move(n, "start", "dial")
  /\ Emit("round_start", n)
  /\ UNCHANGED <<busy, round, got, exit, lines>>

Dial(n) ==
  /\ Move(n, "dial", "spawn")
  /\ Emit("initiator_dialing", n)
  /\ UNCHANGED <<busy, round, got, exit, lines>>

\* Mutation of SpawnFails: the error is reported, but the round goes on.
SpawnFailsGoesOn(n) ==
  /\ Move(n, "spawn", "outcome")
  /\ exit' = [exit EXCEPT ![n] = "failed"]
  /\ Emit("round_error", n)
  /\ UNCHANGED <<busy, round, got, lines>>

\* ct-agent cannot be started: run_round returns at once.
SpawnFails(n) ==
  /\ Move(n, "spawn", "release")
  /\ Emit("round_error", n)
  /\ UNCHANGED <<busy, round, got, exit, lines>>

Spawn(n) ==
  /\ Move(n, "spawn", "reading")
  /\ UNCHANGED <<busy, round, got, exit, lines, stream>>

LogLine(n) ==
  /\ at[n] = "reading" /\ n \in Logged /\ lines[n] < MaxLines
  /\ lines' = [lines EXCEPT ![n] = @ + 1]
  /\ Emit("line", n)
  /\ UNCHANGED <<busy, round, at, got, exit>>

ReplyLine(n) ==
  /\ at[n] = "reading" /\ ~got[n]
  /\ got' = [got EXCEPT ![n] = TRUE]
  /\ UNCHANGED <<busy, round, at, exit, lines, stream>>

\* Both pipes are at their end and the process was waited for: it succeeded, it
\* did not, or wait failed.
PeerExits(n) ==
  /\ Move(n, "reading", "outcome")
  /\ \E how \in {"ok", "failed"} : exit' = [exit EXCEPT ![n] = how]
  /\ UNCHANGED <<busy, round, got, lines, stream>>

\* Mutation of TimesOut: the clock stops with the first reply line.
TimesOutWithoutReply(n) ==
  /\ ~got[n]
  /\ Move(n, "reading", "outcome")
  /\ exit' = [exit EXCEPT ![n] = "failed"]
  /\ UNCHANGED <<busy, round, got, lines, stream>>

\* INITIATOR_TIMEOUT: the process is killed.
TimesOut(n) ==
  /\ Move(n, "reading", "outcome")
  /\ exit' = [exit EXCEPT ![n] = "failed"]
  /\ UNCHANGED <<busy, round, got, lines, stream>>

\* Mutation of Verdict: a reply line counts, however the process ended.
VerdictByReply(n) == IF got[n] THEN "reply_received" ELSE "round_error"

Verdict(n) == IF exit[n] = "ok" /\ got[n] THEN "reply_received" ELSE "round_error"

ReportOutcome(n) ==
  /\ Move(n, "outcome", "done")
  /\ Emit(Verdict(n), n)
  /\ UNCHANGED <<busy, round, got, exit, lines>>

RoundDone(n) ==
  /\ Move(n, "done", "release")
  /\ Emit("round_done", n)
  /\ UNCHANGED <<busy, round, got, exit, lines>>

\* drop(guard), after run_round has returned.
Release(n) ==
  /\ Move(n, "release", "over")
  /\ busy' = FALSE
  /\ UNCHANGED <<round, got, exit, lines, stream>>

-----------------------------------------------------------------------------
\* What the bridge itself does for a round, and what the peer's process does.
TaskStep(n) ==
  \/ Start(n) \/ Dial(n) \/ SpawnFails(n) \/ Spawn(n)
  \/ TimesOut(n) \/ ReportOutcome(n) \/ RoundDone(n) \/ Release(n)

PeerStep(n) == LogLine(n) \/ ReplyLine(n) \/ PeerExits(n)

\* At the bound: the model accepts no further round.
RoundsRest ==
  /\ round = MaxRounds /\ ~busy
  /\ UNCHANGED roundVars

RoundsNext ==
  \/ Accept
  \/ \E n \in Rounds : TaskStep(n) \/ PeerStep(n)
  \/ RoundsRest

Spec == RoundsInit /\ [][RoundsNext]_roundVars

\* A spawned task is scheduled, and its timeout expires.  Nothing is assumed of
\* the peer or of its process.
TaskFairness == \A n \in Rounds : WF_roundVars(TaskStep(n))

-----------------------------------------------------------------------------
(* Properties.                                                             *)

RoundsTypeOK ==
  /\ busy \in BOOLEAN /\ round \in 0..MaxRounds
  /\ at \in [Rounds -> {"none", "start", "dial", "spawn", "reading", "outcome", "done",
                        "release", "over"}]
  /\ got \in [Rounds -> BOOLEAN] /\ lines \in [Rounds -> 0..MaxLines]
  /\ exit \in [Rounds -> {"none", "ok", "failed"}]
  /\ stream \in Seq([kind : EventKind, round : Rounds])
  /\ \A n \in Rounds : at[n] = "none" <=> n > round

\* "One round in flight so the dashboard's event stream stays a single legible
\* sequence": the events of a round are in one piece, from its round_start on, and
\* rounds follow one another in the order of their numbers.
LegibleStream ==
  \A i \in DOMAIN stream :
    LET before == IF i = 1 THEN 0 ELSE stream[i - 1].round
    IN  IF stream[i].kind = "round_start" THEN stream[i].round > before
                                          ELSE stream[i].round = before

\* A round has one outcome, and nothing but round_done comes after it; it is a reply
\* only if the peer ended well; and the lock is not let go before it.  (A round whose
\* process could not be started ends with round_error alone: who was told to "wait for
\* round_done" must not wait for that only.)
OneOutcome ==
  /\ \A i, j \in DOMAIN stream :
       i < j /\ stream[i].round = stream[j].round /\ stream[i].kind \in Outcome
         => stream[j].kind = "round_done"
  /\ \A i \in DOMAIN stream :
       stream[i].kind = "reply_received" => exit[stream[i].round] = "ok"
  /\ \A n \in Rounds : at[n] \in {"release", "over"} =>
       \E i \in DOMAIN stream : stream[i].round = n /\ stream[i].kind \in Outcome

\* Every accepted round lets the next one in, whatever the peer does.
RoundsMakeWay == busy ~> ~busy

=============================================================================
