-------------------------- MODULE BridgeChat_proofs --------------------------
(* Theorems about the bridge's rounds and the chat on top of them, for every *)
(* number of rounds, pages, clicks and events.                               *)
EXTENDS BridgeChat, TLAPS

-----------------------------------------------------------------------------
(* The stream grows by one event at a time.                                *)

Entry == [kind : EventKind, round : Rounds]

LEMMA Elements ==
  ASSUME NEW S, NEW t \in Seq(S)
  PROVE  /\ Len(t) \in Nat /\ DOMAIN t = 1..Len(t)
         /\ \A i \in DOMAIN t : t[i] \in S
OBVIOUS

LEMMA StreamType ==
  ASSUME RoundsTypeOK
  PROVE  /\ Len(stream) \in Nat /\ DOMAIN stream = 1..Len(stream)
         /\ \A i \in DOMAIN stream :
              stream[i] \in Entry /\ stream[i].round \in Rounds /\ stream[i].kind \in EventKind
<1>1. stream \in Seq(Entry)
  BY DEF RoundsTypeOK, Entry
<1>2. \A e \in Entry : e.round \in Rounds /\ e.kind \in EventKind
  BY DEF Entry
<1> QED
  BY <1>1, <1>2, Elements

LEMMA EmitAppends ==
  ASSUME stream \in Seq(Entry), NEW k \in EventKind, NEW n \in Rounds, Emit(k, n)
  PROVE  /\ stream' \in Seq(Entry)
         /\ Len(stream) \in Nat /\ Len(stream') = Len(stream) + 1
         /\ DOMAIN stream = 1..Len(stream) /\ DOMAIN stream' = 1..(Len(stream) + 1)
         /\ \A i \in DOMAIN stream : stream'[i] = stream[i] /\ stream[i] \in Entry
         /\ stream'[Len(stream) + 1] = [kind |-> k, round |-> n]
<1>1. [kind |-> k, round |-> n] \in Entry
  BY DEF Entry
<1> HIDE DEF Entry
<1> QED
  BY <1>1 DEF Emit

-----------------------------------------------------------------------------
(* The rounds.  One round is in flight, it is the last one accepted, and   *)
(* the stream ends with its events.                                        *)

InFlight == {"start", "dial", "spawn", "reading", "outcome", "done", "release"}

OneInFlight ==
  /\ \A n \in Rounds : at[n] \in InFlight => busy /\ n = round
  /\ busy => round \in Rounds /\ at[round] \in InFlight

StreamIsCurrent ==
  /\ \A i \in DOMAIN stream : at[stream[i].round] \notin {"none", "start"}
  /\ \A n \in Rounds : at[n] \in InFlight \ {"start"} =>
       Len(stream) > 0 /\ stream[Len(stream)].round = n

OutcomeAt ==
  \A n \in Rounds :
    /\ at[n] \in {"none", "start", "dial", "spawn", "reading", "outcome"} =>
         \A i \in DOMAIN stream : stream[i].round = n => stream[i].kind \notin Outcome
    /\ at[n] = "done" =>
         \E i \in DOMAIN stream : stream[i].round = n /\ stream[i].kind \in Outcome

RoundsInv ==
  RoundsTypeOK /\ OneInFlight /\ StreamIsCurrent /\ OutcomeAt /\ LegibleStream /\ OneOutcome

LEMMA RoundsInvInit == RoundsInit => RoundsInv
<1> SUFFICES ASSUME RoundsInit PROVE RoundsInv
  OBVIOUS
<1>1. DOMAIN stream = {} /\ Len(stream) = 0 /\ stream \in Seq(Entry)
  BY DEF RoundsInit
<1>2. RoundsTypeOK
  <2>1. 0 \in 0..MaxRounds /\ 0 \in 0..MaxLines /\ \A n \in Rounds : n > 0
    BY BridgeAssumption DEF Rounds
  <2> QED
    BY <1>1, <2>1 DEF RoundsInit, RoundsTypeOK, Entry
<1> QED
  BY <1>1, <1>2 DEF RoundsInit, RoundsInv, OneInFlight, StreamIsCurrent, OutcomeAt,
                    LegibleStream, OneOutcome, InFlight

\* A task goes on without an event: it has started the peer or waited for it.
LEMMA QuietStep ==
  ASSUME RoundsInv, NEW n \in Rounds, NEW from \in {"spawn", "reading"}, NEW to \in {"reading", "outcome"},
         Move(n, from, to), UNCHANGED <<busy, round, got, lines, stream>>,
         exit' \in [Rounds -> {"none", "ok", "failed"}],
         \A q \in Rounds \ {n} : exit'[q] = exit[q]
  PROVE  RoundsInv'
<1>1. /\ at' = [at EXCEPT ![n] = to] /\ at[n] = from /\ n = round /\ busy
      /\ at \in [Rounds -> {"none", "over"} \cup InFlight]
  BY DEF RoundsInv, RoundsTypeOK, Move, OneInFlight, InFlight
<1>2. \A i \in DOMAIN stream : stream[i].round \in Rounds
  BY StreamType DEF RoundsInv
<1>3. RoundsTypeOK'
  BY <1>1 DEF RoundsInv, RoundsTypeOK, InFlight
<1>4. OneInFlight'
  BY <1>1 DEF RoundsInv, OneInFlight, InFlight
<1>5. StreamIsCurrent'
  BY <1>1, <1>2 DEF RoundsInv, StreamIsCurrent, InFlight
<1>6. OutcomeAt'
  BY <1>1 DEF RoundsInv, OutcomeAt
<1>7. LegibleStream'
  BY DEF RoundsInv, LegibleStream
<1>8. OneOutcome'
  <2>1. \A i \in DOMAIN stream : stream[i].round = n => stream[i].kind \notin Outcome
    BY <1>1 DEF RoundsInv, OutcomeAt
  <2>2. \A i \in DOMAIN stream : stream[i].kind = "reply_received" => exit'[stream[i].round] = "ok"
    BY <1>2, <2>1 DEF RoundsInv, OneOutcome, Outcome
  <2>3. \A q \in Rounds : at'[q] \in {"release", "over"} => at[q] \in {"release", "over"}
    BY <1>1
  <2> QED
    BY <2>2, <2>3 DEF RoundsInv, OneOutcome
<1> QED
  BY <1>3, <1>4, <1>5, <1>6, <1>7, <1>8 DEF RoundsInv

\* A task goes on with an event.
LEMMA EmitStep ==
  ASSUME RoundsInv, NEW n \in Rounds, NEW from, NEW to, NEW k \in EventKind,
         at[n] = from, at' = [at EXCEPT ![n] = to], Emit(k, n),
         UNCHANGED <<busy, round, got, exit>>, lines' \in [Rounds -> 0..MaxLines],
         from \in {"start", "dial", "spawn", "reading", "outcome", "done"},
         to \in {"dial", "spawn", "reading", "done", "release"},
         k = "round_start" <=> from = "start",
         k \in Outcome <=> from # "done" /\ to \in {"done", "release"},
         k = "reply_received" => exit[n] = "ok",
         from = "done" => k = "round_done" /\ to = "release"
  PROVE  RoundsInv'
<1>1. /\ n = round /\ busy /\ at \in [Rounds -> {"none", "over"} \cup InFlight]
  BY DEF RoundsInv, RoundsTypeOK, OneInFlight, InFlight
<1>2. /\ Len(stream) \in Nat /\ DOMAIN stream = 1..Len(stream)
      /\ \A i \in DOMAIN stream : stream[i].round \in Rounds /\ stream[i].kind \in EventKind
      /\ stream \in Seq(Entry)
  BY StreamType DEF RoundsInv, RoundsTypeOK, Entry
<1> DEFINE last == Len(stream) + 1
<1>3. /\ stream' \in Seq(Entry) /\ DOMAIN stream' = 1..last /\ Len(stream') = last
      /\ \A i \in 1..Len(stream) : stream'[i] = stream[i]
      /\ stream'[last].kind = k /\ stream'[last].round = n
  <2>1. /\ stream' \in Seq(Entry) /\ Len(stream') = Len(stream) + 1
        /\ DOMAIN stream' = 1..(Len(stream) + 1)
        /\ \A i \in DOMAIN stream : stream'[i] = stream[i]
        /\ stream'[Len(stream) + 1] = [kind |-> k, round |-> n]
    BY <1>2, EmitAppends
  <2> QED
    BY <1>2, <2>1
<1>4. \A i \in 1..last : i \in 1..Len(stream) \/ i = last
  BY <1>2
<1>5. RoundsTypeOK'
  BY <1>1, <1>3 DEF RoundsInv, RoundsTypeOK, Entry
<1>6. OneInFlight'
  BY <1>1 DEF RoundsInv, OneInFlight, InFlight
<1> HIDE DEF last
<1>7. StreamIsCurrent'
  <2>1. \A i \in 1..Len(stream) : at'[stream[i].round] \notin {"none", "start"}
    BY <1>1, <1>2 DEF RoundsInv, StreamIsCurrent
  <2>2. at'[n] = to
    BY <1>1
  <2>3. \A q \in Rounds : at'[q] \in InFlight => q = n
    BY <1>1, <1>6 DEF OneInFlight
  <2>4. last > 0
    BY <1>2 DEF last
  <2> QED
    BY <1>3, <1>4, <2>1, <2>2, <2>3, <2>4 DEF StreamIsCurrent
<1>8. OutcomeAt'
  <2> SUFFICES ASSUME NEW q \in Rounds
               PROVE  /\ at'[q] \in {"none", "start", "dial", "spawn", "reading", "outcome"} =>
                           \A i \in DOMAIN stream' : stream'[i].round = q => stream'[i].kind \notin Outcome
                      /\ at'[q] = "done" =>
                           \E i \in DOMAIN stream' : stream'[i].round = q /\ stream'[i].kind \in Outcome
    BY DEF OutcomeAt
  <2>1. CASE q # n
    <3>1. at'[q] = at[q] /\ at[q] # "done"
      BY <1>1, <2>1 DEF RoundsInv, OneInFlight, InFlight
    <3> QED
      BY <1>2, <1>3, <1>4, <2>1, <3>1 DEF RoundsInv, OutcomeAt
  <2>2. CASE q = n
    <3>1. at'[q] = to
      BY <1>1, <2>2
    <3>2. CASE to = "done"
      <4>1. last \in DOMAIN stream' /\ stream'[last].kind \in Outcome
        BY <1>2, <1>3, <3>2 DEF last
      <4> QED
        BY <1>3, <2>2, <3>1, <3>2, <4>1
    <3>3. CASE to \in {"dial", "spawn", "reading"}
      <4>1. k \notin Outcome /\ \A i \in DOMAIN stream : stream[i].round = n => stream[i].kind \notin Outcome
        BY <3>3 DEF RoundsInv, OutcomeAt
      <4> QED
        BY <1>2, <1>3, <1>4, <2>2, <3>1, <3>3, <4>1
    <3>4. CASE to = "release"
      BY <3>1, <3>4
    <3> QED
      BY <3>2, <3>3, <3>4
  <2> QED
    BY <2>1, <2>2
<1>9. LegibleStream'
  <2> SUFFICES ASSUME NEW i \in 1..last
               PROVE  LET before == IF i = 1 THEN 0 ELSE stream'[i - 1].round
                      IN  IF stream'[i].kind = "round_start" THEN stream'[i].round > before
                                                             ELSE stream'[i].round = before
    BY <1>3 DEF LegibleStream
  <2>1. CASE i \in 1..Len(stream)
    <3>1. i # 1 => stream'[i - 1] = stream[i - 1]
      BY <1>2, <1>3, <2>1
    <3> QED
      BY <1>2, <1>3, <2>1, <3>1 DEF RoundsInv, LegibleStream
  <2>2. CASE i = last
    <3>1. i - 1 = Len(stream) /\ (i = 1 <=> Len(stream) = 0) /\ Len(stream) \in Nat
      BY <1>2, <2>2 DEF last
    <3>2. i # 1 => stream'[i - 1] = stream[Len(stream)] /\ Len(stream) \in DOMAIN stream
      BY <1>2, <1>3, <3>1
    <3>3. CASE k = "round_start"
      <4>1. \A j \in DOMAIN stream : stream[j].round < n
        <5>1. \A j \in DOMAIN stream : stream[j].round # n /\ at[stream[j].round] # "none"
          BY <3>3 DEF RoundsInv, StreamIsCurrent
        <5>2. \A q \in Rounds : at[q] # "none" => q <= round
          BY DEF RoundsInv, RoundsTypeOK, Rounds
        <5> QED
          BY <1>1, <1>2, <5>1, <5>2 DEF Rounds
      <4>2. n > 0
        BY DEF Rounds
      <4> QED
        BY <1>3, <2>2, <3>1, <3>2, <3>3, <4>1, <4>2
    <3>4. CASE k # "round_start"
      <4>1. Len(stream) > 0 /\ stream[Len(stream)].round = n
        BY <3>4 DEF RoundsInv, StreamIsCurrent, InFlight
      <4> QED
        BY <1>3, <2>2, <3>1, <3>2, <3>4, <4>1
    <3> QED
      BY <3>3, <3>4
  <2> QED
    BY <1>4, <2>1, <2>2
<1>10. OneOutcome'
  <2>1. \A i, j \in 1..last :
          i < j /\ stream'[i].round = stream'[j].round /\ stream'[i].kind \in Outcome
            => stream'[j].kind = "round_done"
    <3> SUFFICES ASSUME NEW i \in 1..last, NEW j \in 1..last, i < j,
                        stream'[i].round = stream'[j].round, stream'[i].kind \in Outcome
                 PROVE  stream'[j].kind = "round_done"
      OBVIOUS
    <3>1. i \in 1..Len(stream)
      BY <1>2 DEF last
    <3>2. CASE j \in 1..Len(stream)
      <4>1. stream'[i] = stream[i] /\ stream'[j] = stream[j]
        BY <1>3, <3>1, <3>2
      <4>2. i \in DOMAIN stream /\ j \in DOMAIN stream
        BY <1>2, <3>1, <3>2
      <4> QED
        BY <4>1, <4>2 DEF RoundsInv, OneOutcome
    <3>3. CASE j = last
      <4>1. stream[i].round = n /\ stream[i].kind \in Outcome
        BY <1>3, <3>1, <3>3
      <4>2. from = "done"
        BY <1>2, <3>1, <4>1 DEF RoundsInv, OutcomeAt
      <4> QED
        BY <1>3, <3>3, <4>2
    <3> QED
      BY <1>4, <3>2, <3>3
  <2>2. \A i \in 1..last : stream'[i].kind = "reply_received" => exit'[stream'[i].round] = "ok"
    <3>1. \A i \in 1..Len(stream) : stream[i].kind = "reply_received" => exit[stream[i].round] = "ok"
      BY <1>2 DEF RoundsInv, OneOutcome
    <3> QED
      BY <1>3, <1>4, <3>1
  <2>3. \A q \in Rounds : at'[q] \in {"release", "over"} =>
          \E i \in 1..last : stream'[i].round = q /\ stream'[i].kind \in Outcome
    <3> SUFFICES ASSUME NEW q \in Rounds, at'[q] \in {"release", "over"}
                 PROVE  \E i \in 1..last : stream'[i].round = q /\ stream'[i].kind \in Outcome
      OBVIOUS
    <3>0. 1..Len(stream) \subseteq 1..last /\ last \in 1..last
      BY <1>2 DEF last
    <3>1. CASE q # n \/ from = "done"
      <4>1. at[q] \in {"release", "over", "done"}
        BY <1>1, <3>1
      <4>2. \E i \in DOMAIN stream : stream[i].round = q /\ stream[i].kind \in Outcome
        BY <4>1 DEF RoundsInv, OneOutcome, OutcomeAt
      <4> QED
        BY <1>2, <1>3, <3>0, <4>2
    <3>2. CASE q = n /\ from # "done"
      <4>1. k \in Outcome
        BY <1>1, <3>2
      <4> QED
        BY <1>3, <3>0, <3>2, <4>1
    <3> QED
      BY <3>1, <3>2
  <2> QED
    BY <1>3, <2>1, <2>2, <2>3 DEF OneOutcome
<1> QED
  BY <1>5, <1>6, <1>7, <1>8, <1>9, <1>10 DEF RoundsInv

LEMMA AcceptStep ==
  ASSUME RoundsInv, Accept
  PROVE  RoundsInv'
<1> DEFINE n == round + 1
<1>1. /\ n \in Rounds /\ round \in Nat /\ n > round
      /\ at[n] = "none" /\ at' = [at EXCEPT ![n] = "start"] /\ ~busy /\ busy' = TRUE
      /\ round' = n /\ UNCHANGED <<got, exit, lines, stream>>
      /\ at \in [Rounds -> {"none", "over"} \cup InFlight]
  BY BridgeAssumption DEF Accept, Move, RoundsInv, RoundsTypeOK, Rounds, InFlight
<1> HIDE DEF n
<1>2. \A i \in DOMAIN stream : stream[i].round \in Rounds \ {n}
  BY <1>1, StreamType DEF RoundsInv, StreamIsCurrent
<1>3. RoundsTypeOK'
  <2>1. n \in 0..MaxRounds
    BY <1>1 DEF Rounds
  <2>2. \A q \in Rounds : at'[q] = "none" <=> q > n
    <3>1. \A q \in Rounds \ {n} : q > n <=> q > round
      BY <1>1 DEF Rounds, n
    <3> QED
      BY <1>1, <3>1 DEF RoundsInv, RoundsTypeOK, Rounds
  <2> QED
    BY <1>1, <2>1, <2>2 DEF RoundsInv, RoundsTypeOK, InFlight
<1>4. OneInFlight'
  BY <1>1 DEF RoundsInv, OneInFlight, InFlight
<1>5. StreamIsCurrent'
  BY <1>1, <1>2 DEF RoundsInv, StreamIsCurrent
<1>6. OutcomeAt'
  BY <1>1 DEF RoundsInv, OutcomeAt
<1>7. LegibleStream' /\ OneOutcome'
  BY <1>1 DEF RoundsInv, LegibleStream, OneOutcome
<1> QED
  BY <1>3, <1>4, <1>5, <1>6, <1>7 DEF RoundsInv

LEMMA ReleaseStep ==
  ASSUME RoundsInv, NEW n \in Rounds, Release(n)
  PROVE  RoundsInv'
<1>1. /\ at[n] = "release" /\ at' = [at EXCEPT ![n] = "over"] /\ busy' = FALSE
      /\ UNCHANGED <<round, got, exit, lines, stream>>
      /\ at \in [Rounds -> {"none", "over"} \cup InFlight]
  BY DEF Release, Move, RoundsInv, RoundsTypeOK, InFlight
<1>2. \A i \in DOMAIN stream : stream[i].round \in Rounds
  BY StreamType DEF RoundsInv
<1>3. RoundsTypeOK'
  BY <1>1 DEF RoundsInv, RoundsTypeOK, InFlight
<1>4. OneInFlight'
  <2>1. \A q \in Rounds : at[q] \in InFlight => q = n
    BY <1>1 DEF RoundsInv, OneInFlight, InFlight
  <2> QED
    BY <1>1, <2>1 DEF OneInFlight, InFlight
<1>5. StreamIsCurrent'
  BY <1>1, <1>2 DEF RoundsInv, StreamIsCurrent, InFlight
<1>6. OutcomeAt'
  BY <1>1 DEF RoundsInv, OutcomeAt
<1>7. LegibleStream' /\ OneOutcome'
  BY <1>1 DEF RoundsInv, LegibleStream, OneOutcome
<1> QED
  BY <1>3, <1>4, <1>5, <1>6, <1>7 DEF RoundsInv

\* A reply line only sets got.
LEMMA ReplyLineStep ==
  ASSUME RoundsInv, NEW n \in Rounds, ReplyLine(n)
  PROVE  RoundsInv'
BY DEF RoundsInv, RoundsTypeOK, OneInFlight, StreamIsCurrent, OutcomeAt, LegibleStream, OneOutcome,
       ReplyLine

LEMMA RoundsInvNext ==
  ASSUME RoundsInv, [RoundsNext]_roundVars
  PROVE  RoundsInv'
<1>0. lines \in [Rounds -> 0..MaxLines] /\ at \in [Rounds -> {"none", "over"} \cup InFlight]
      /\ exit \in [Rounds -> {"none", "ok", "failed"}]
  BY DEF RoundsInv, RoundsTypeOK, InFlight
<1> USE DEF EventKind, Outcome
<1>1. ASSUME NEW n \in Rounds, Start(n) PROVE RoundsInv'
  BY <1>0, <1>1, EmitStep DEF Start, Move
<1>2. ASSUME NEW n \in Rounds, Dial(n) PROVE RoundsInv'
  BY <1>0, <1>2, EmitStep DEF Dial, Move
<1>3. ASSUME NEW n \in Rounds, SpawnFails(n) PROVE RoundsInv'
  BY <1>0, <1>3, EmitStep DEF SpawnFails, Move
<1>4. ASSUME NEW n \in Rounds, Spawn(n) PROVE RoundsInv'
  BY <1>0, <1>4, QuietStep DEF Spawn
<1>5. ASSUME NEW n \in Rounds, LogLine(n) PROVE RoundsInv'
  <2>1. lines' \in [Rounds -> 0..MaxLines]
    BY <1>0, <1>5, BridgeAssumption DEF LogLine
  <2>2. at' = [at EXCEPT ![n] = "reading"] /\ at[n] = "reading"
    BY <1>0, <1>5 DEF LogLine
  <2> QED
    BY <1>5, <2>1, <2>2, EmitStep DEF LogLine
<1>6. ASSUME NEW n \in Rounds, PeerExits(n) \/ TimesOut(n) PROVE RoundsInv'
  <2>1. /\ exit' \in [Rounds -> {"none", "ok", "failed"}]
        /\ \A q \in Rounds \ {n} : exit'[q] = exit[q]
    BY <1>0, <1>6 DEF PeerExits, TimesOut
  <2> QED
    BY <1>6, <2>1, QuietStep DEF PeerExits, TimesOut
<1>7. ASSUME NEW n \in Rounds, ReportOutcome(n) PROVE RoundsInv'
  <2>1. Verdict(n) \in Outcome /\ (Verdict(n) = "reply_received" => exit[n] = "ok")
    BY DEF Verdict
  <2> QED
    BY <1>0, <1>7, <2>1, EmitStep DEF ReportOutcome, Move
<1>8. ASSUME NEW n \in Rounds, RoundDone(n) PROVE RoundsInv'
  <2>1. "round_done" \in EventKind /\ "round_done" \notin Outcome
    OBVIOUS
  <2>2. at[n] = "done" /\ at' = [at EXCEPT ![n] = "release"] /\ Emit("round_done", n)
        /\ UNCHANGED <<busy, round, got, exit, lines>>
    BY <1>8 DEF RoundDone, Move
  <2> HIDE DEF EventKind, Outcome
  <2> QED
    BY <1>0, <2>1, <2>2, EmitStep
<1>9. CASE UNCHANGED roundVars
  BY <1>9 DEF roundVars, RoundsInv, RoundsTypeOK, OneInFlight, StreamIsCurrent, OutcomeAt,
              LegibleStream, OneOutcome
<1> QED
  BY <1>1, <1>2, <1>3, <1>4, <1>5, <1>6, <1>7, <1>8, <1>9, AcceptStep, ReleaseStep, ReplyLineStep
     DEF RoundsNext, TaskStep, PeerStep, RoundsRest

-----------------------------------------------------------------------------
(* The chat: to the rounds, a page's step is a step of the bridge or none. *)

LEMMA ChatIsRounds == [Next]_vars => [RoundsNext]_roundVars
<1>1. ASSUME NEW p \in Pages, NEW c \in Clicks, Click(p, c) \/ PostStep(p, c)
      PROVE  [RoundsNext]_roundVars
  BY <1>1 DEF Click, PostStep, BridgeAccepts, BridgeIsBusy, BridgeRejects, ResponseAccepted,
              ResponseBusy, ResponseRejected, FetchFails, RoundsNext
<1>2. ASSUME NEW p \in Pages, TimerStep(p) \/ StreamStep(p)
      PROVE  UNCHANGED roundVars
  BY <1>2 DEF TimerStep, WatchdogFires, LooseTimerFires, StreamStep, Deliver, LinkBreaks,
              Reconnect, LinkCloses
<1> QED
  BY <1>1, <1>2 DEF Next, BridgeStep, PageStep, vars

LEMMA RoundsAlways == ChatSpec => []RoundsInv
<1>1. Init => RoundsInv
  BY RoundsInvInit DEF Init
<1>2. RoundsInv /\ [Next]_vars => RoundsInv'
  BY ChatIsRounds, RoundsInvNext
<1> QED
  BY <1>1, <1>2, PTL DEF ChatSpec

\* However many visitors post at once, the stream is a single legible sequence: the
\* busy lock keeps every event of a round between its round_start and the next one's.
THEOREM StreamIsLegible == ChatSpec => []LegibleStream
<1>1. RoundsInv => LegibleStream
  BY DEF RoundsInv
<1> QED
  BY <1>1, RoundsAlways, PTL

\* A round has one outcome, it is a reply only if the peer ended well, and the lock is
\* not let go before it, for any number of rounds and stderr lines.
THEOREM RoundHasOneOutcome == ChatSpec => []OneOutcome
<1>1. RoundsInv => OneOutcome
  BY DEF RoundsInv
<1> QED
  BY <1>1, RoundsAlways, PTL

-----------------------------------------------------------------------------
(* Type correctness of the chat.                                           *)

PageTypes ==
  /\ enabled \in [Pages -> BOOLEAN]
  /\ fetch \in [Pages -> [Clicks -> {"unused", "sent", "accepted", "busy", "rejected", "over"}]]
  /\ grant \in [Pages -> [Clicks -> 0..MaxRounds]]
  /\ \A p \in Pages, c \in Clicks : fetch[p][c] = "accepted" => grant[p][c] # 0
  /\ held \in [Pages -> 0..MaxRounds] /\ loose \in [Pages -> SUBSET Rounds]

StreamTypes ==
  /\ cursor \in [Pages -> Nat] /\ \A p \in Pages : cursor[p] <= Len(stream)
  /\ link \in [Pages -> {"open", "connecting", "closed"}]

LEMMA TypeParts == TypeOK <=> RoundsTypeOK /\ PageTypes /\ StreamTypes
BY DEF TypeOK, PageTypes, StreamTypes

LEMMA PostTypes ==
  ASSUME RoundsTypeOK, PageTypes, NEW p \in Pages, NEW c \in Clicks,
         Click(p, c) \/ PostStep(p, c)
  PROVE  PageTypes'
<1> USE DEF PageTypes, Becomes, FinishRound
<1>0. 0 \in 0..MaxRounds
  BY BridgeAssumption
<1>1. CASE Click(p, c)
  BY <1>1 DEF Click
<1>2. CASE BridgeAccepts(p, c)
  <2>1. round + 1 \in 0..MaxRounds /\ round + 1 # 0
    BY <1>2, BridgeAssumption DEF BridgeAccepts, Accept, RoundsTypeOK
  <2>2. /\ grant' = [grant EXCEPT ![p][c] = round + 1]
        /\ fetch' = [fetch EXCEPT ![p][c] = "accepted"]
        /\ UNCHANGED <<enabled, held, loose>>
    BY <1>2 DEF BridgeAccepts
  <2>3. grant' \in [Pages -> [Clicks -> 0..MaxRounds]]
    BY <2>1, <2>2
  <2>4. \A q \in Pages, d \in Clicks : fetch'[q][d] = "accepted" => grant'[q][d] # 0
    <3> SUFFICES ASSUME NEW q \in Pages, NEW d \in Clicks, fetch'[q][d] = "accepted"
                 PROVE  grant'[q][d] # 0
      OBVIOUS
    <3>1. CASE q = p /\ d = c
      BY <2>1, <2>2, <3>1
    <3>2. CASE q # p \/ d # c
      <4>1. grant'[q][d] = grant[q][d] /\ fetch'[q][d] = fetch[q][d]
        BY <2>2, <3>2
      <4> QED
        BY <4>1
    <3> QED
      BY <3>1, <3>2
  <2>5. fetch' \in [Pages -> [Clicks -> {"unused", "sent", "accepted", "busy", "rejected", "over"}]]
    BY <2>2
  <2>6. /\ enabled' \in [Pages -> BOOLEAN]
        /\ held' \in [Pages -> 0..MaxRounds] /\ loose' \in [Pages -> SUBSET Rounds]
    BY <2>2
  <2> QED
    BY <2>3, <2>4, <2>5, <2>6
<1>3. CASE BridgeIsBusy(p, c) \/ BridgeRejects(p, c)
  <2>1. /\ \E s \in {"busy", "rejected"} : fetch' = [fetch EXCEPT ![p][c] = s]
        /\ UNCHANGED <<enabled, grant, held, loose>>
    BY <1>3 DEF BridgeIsBusy, BridgeRejects
  <2>2. fetch' \in [Pages -> [Clicks -> {"unused", "sent", "accepted", "busy", "rejected", "over"}]]
    BY <2>1
  <2>3. \A q \in Pages, d \in Clicks : fetch'[q][d] = "accepted" => fetch[q][d] = "accepted"
    BY <2>1
  <2> QED
    BY <2>1, <2>2, <2>3
<1>4. CASE ResponseAccepted(p, c)
  <2>1. {held[p]} \ {0} \subseteq Rounds
    BY BridgeAssumption DEF Rounds
  <2> QED
    BY <1>4, <2>1 DEF ResponseAccepted, SetWatchdog
<1>5. CASE ResponseBusy(p, c)
  BY <1>0, <1>5 DEF ResponseBusy
<1>6. CASE ResponseRejected(p, c)
  BY <1>0, <1>6 DEF ResponseRejected
<1>7. CASE FetchFails(p, c)
  BY <1>0, <1>7 DEF FetchFails
<1> QED
  BY <1>1, <1>2, <1>3, <1>4, <1>5, <1>6, <1>7 DEF PostStep

LEMMA TimerTypes ==
  ASSUME PageTypes, NEW p \in Pages, TimerStep(p) \/ StreamStep(p)
  PROVE  PageTypes'
<1>0. 0 \in 0..MaxRounds
  BY BridgeAssumption
<1> USE <1>0 DEF PageTypes, FinishRound
<1>1. CASE WatchdogFires(p)
  BY <1>1 DEF WatchdogFires
<1>2. ASSUME NEW n \in Rounds, LooseTimerFires(p, n) PROVE PageTypes'
  BY <1>2 DEF LooseTimerFires
<1>3. CASE Deliver(p)
  BY <1>3 DEF Deliver
<1>4. CASE LinkBreaks(p)
  BY <1>4 DEF LinkBreaks, pageVars
<1>5. CASE Reconnect(p)
  BY <1>5 DEF Reconnect, pageVars
<1>6. CASE LinkCloses(p)
  BY <1>6 DEF LinkCloses
<1> QED
  BY <1>1, <1>2, <1>3, <1>4, <1>5, <1>6 DEF TimerStep, StreamStep

\* The stream never gets shorter.
LEMMA StreamGrows ==
  ASSUME RoundsTypeOK, [RoundsNext]_roundVars
  PROVE  Len(stream) \in Nat /\ Len(stream') \in Nat /\ Len(stream) <= Len(stream')
<1>0. Len(stream) \in Nat /\ stream \in Seq(Entry)
  BY StreamType DEF RoundsTypeOK, Entry
<1>1. ASSUME NEW n \in Rounds, NEW k \in EventKind, Emit(k, n)
      PROVE  Len(stream') = Len(stream) + 1
  BY <1>0, <1>1, EmitAppends
<1>2. (\E n \in Rounds, k \in EventKind : Emit(k, n)) \/ stream' = stream
  BY DEF RoundsNext, TaskStep, PeerStep, Accept, Start, Dial, SpawnFails, Spawn, TimesOut,
     ReportOutcome, RoundDone, Release, LogLine, ReplyLine, PeerExits, RoundsRest, roundVars,
     Verdict, EventKind, Outcome
<1> QED
  BY <1>0, <1>1, <1>2

LEMMA StreamTypesNext ==
  ASSUME RoundsTypeOK, StreamTypes, [Next]_vars
  PROVE  StreamTypes'
<1> USE DEF StreamTypes
<1>1. Len(stream) \in Nat /\ Len(stream') \in Nat /\ Len(stream) <= Len(stream')
  BY ChatIsRounds, StreamGrows
<1>2. ASSUME NEW p \in Pages, Deliver(p) PROVE StreamTypes'
  <2>1. NextEvent(p) \in Nat /\ NextEvent(p) <= Len(stream)
    BY <1>1, <1>2, ChatAssumption DEF Deliver, NextEvent
  <2> QED
    BY <1>1, <1>2, <2>1 DEF Deliver, roundVars
<1>3. ASSUME NEW p \in Pages, Reconnect(p) PROVE StreamTypes'
  BY <1>1, <1>3 DEF Reconnect, roundVars
<1>4. ASSUME NEW p \in Pages, LinkBreaks(p) \/ LinkCloses(p) PROVE StreamTypes'
  BY <1>1, <1>4 DEF LinkBreaks, LinkCloses, roundVars
<1>5. CASE UNCHANGED <<cursor, link>>
  BY <1>1, <1>5
<1> QED
  BY <1>2, <1>3, <1>4, <1>5
     DEF Next, BridgeStep, PageStep, Click, PostStep, BridgeAccepts, BridgeIsBusy, BridgeRejects,
     ResponseAccepted, ResponseBusy, ResponseRejected, FetchFails, TimerStep, WatchdogFires,
     LooseTimerFires, StreamStep, streamVars, vars

LEMMA ChatTypeInit == Init => PageTypes /\ StreamTypes
<1> SUFFICES ASSUME Init PROVE PageTypes /\ StreamTypes
  OBVIOUS
<1>1. 0 \in 0..MaxRounds /\ Len(stream) = 0
  BY BridgeAssumption DEF Init, RoundsInit
<1> QED
  BY <1>1 DEF Init, PageTypes, StreamTypes

ChatInv == RoundsInv /\ PageTypes /\ StreamTypes

LEMMA ChatInvNext == ChatInv /\ [Next]_vars => ChatInv'
<1> SUFFICES ASSUME ChatInv, [Next]_vars PROVE ChatInv'
  OBVIOUS
<1>1. RoundsInv' /\ StreamTypes' /\ RoundsTypeOK
  BY ChatIsRounds, RoundsInvNext, StreamTypesNext DEF ChatInv, RoundsInv
<1>2. PageTypes'
  <2>1. CASE UNCHANGED pageVars
    BY <2>1 DEF ChatInv, PageTypes, pageVars
  <2> QED
    BY <1>1, <2>1, PostTypes, TimerTypes DEF ChatInv, Next, BridgeStep, PageStep, vars
<1> QED
  BY <1>1, <1>2 DEF ChatInv

LEMMA ChatAlways == ChatSpec => []ChatInv
<1>1. Init => ChatInv
  BY RoundsInvInit, ChatTypeInit DEF Init, ChatInv
<1> QED
  BY <1>1, ChatInvNext, PTL DEF ChatSpec

\* Every variable of bridge and page keeps its type; a page never reads past the stream.
THEOREM TypeCorrect == ChatSpec => []TypeOK
<1>1. ChatInv => TypeOK
  BY TypeParts DEF ChatInv, RoundsInv
<1> QED
  BY <1>1, ChatAlways, PTL

-----------------------------------------------------------------------------
(* The Send button.                                                        *)

Guarded(p) == ~enabled[p] => held[p] # 0 \/ Pending(p) # {}

\* A page's step leaves its button enabled or guarded.
LEMMA PostGuards ==
  ASSUME PageTypes, ~TextMayFail, NEW p \in Pages, NEW c \in Clicks, Guarded(p),
         Click(p, c) \/ PostStep(p, c)
  PROVE  Guarded(p)'
<1> USE DEF Guarded, PageTypes, Pending, Becomes, FinishRound
<1>1. CASE Click(p, c)
  <2>1. c \in Pending(p)'
    BY <1>1 DEF Click
  <2> QED
    BY <2>1
<1>2. CASE BridgeAccepts(p, c) \/ BridgeIsBusy(p, c) \/ BridgeRejects(p, c)
  <2>1. c \in Pending(p)'
    BY <1>2 DEF BridgeAccepts, BridgeIsBusy, BridgeRejects
  <2> QED
    BY <2>1
<1>3. CASE ResponseAccepted(p, c)
  <2>1. held'[p] # 0
    BY <1>3 DEF ResponseAccepted, SetWatchdog
  <2> QED
    BY <2>1
<1>4. CASE ResponseBusy(p, c) \/ ResponseRejected(p, c) \/ FetchFails(p, c)
  <2>1. enabled'[p] = TRUE
    BY <1>4 DEF ResponseBusy, ResponseRejected, FetchFails
  <2> QED
    BY <2>1
<1> QED
  BY <1>1, <1>2, <1>3, <1>4 DEF PostStep

LEMMA TimerGuards ==
  ASSUME PageTypes, NEW p \in Pages, Guarded(p), TimerStep(p) \/ StreamStep(p)
  PROVE  Guarded(p)'
<1> USE DEF Guarded, PageTypes, FinishRound
<1>1. enabled'[p] = TRUE \/ (UNCHANGED <<enabled, held, fetch>>)
  BY DEF TimerStep, WatchdogFires, LooseTimerFires, StreamStep, Deliver, LinkBreaks, Reconnect,
     LinkCloses, pageVars
<1>2. CASE UNCHANGED <<enabled, held, fetch>>
  BY <1>2 DEF Pending
<1> QED
  BY <1>1, <1>2

\* Other pages are not touched.
LEMMA OthersGuarded ==
  ASSUME PageTypes, NEW p \in Pages, NEW q \in Pages \ {p}, Guarded(q), PageStep(p)
  PROVE  Guarded(q)'
<1>1. enabled'[q] = enabled[q] /\ held'[q] = held[q] /\ fetch'[q] = fetch[q]
  BY DEF PageTypes, PageStep, Click, PostStep, BridgeAccepts, BridgeIsBusy, BridgeRejects,
     ResponseAccepted, ResponseBusy, ResponseRejected, FetchFails, TimerStep, WatchdogFires,
     LooseTimerFires, StreamStep, Deliver, LinkBreaks, Reconnect, LinkCloses,
     Becomes, FinishRound, SetWatchdog, pageVars
<1> QED
  BY <1>1 DEF Guarded, Pending

\* If responses do not break off between their status and their text, a disabled
\* button always has a POST that is out or a watchdog with a handle to enable it.
THEOREM ButtonIsGuarded == ~TextMayFail => (ChatSpec => []DisabledIsGuarded)
<1> SUFFICES ASSUME ~TextMayFail PROVE ChatSpec => []DisabledIsGuarded
  OBVIOUS
<1>1. Init => DisabledIsGuarded
  BY DEF Init, DisabledIsGuarded
<1>2. DisabledIsGuarded <=> \A p \in Pages : Guarded(p)
  BY DEF DisabledIsGuarded, Guarded
<1>3. ChatInv /\ DisabledIsGuarded /\ [Next]_vars => DisabledIsGuarded'
  <2> SUFFICES ASSUME ChatInv, DisabledIsGuarded, [Next]_vars, NEW q \in Pages
               PROVE  Guarded(q)'
    BY DEF DisabledIsGuarded, Guarded
  <2>1. CASE UNCHANGED pageVars
    BY <1>2, <2>1 DEF pageVars, Guarded, Pending
  <2>2. ASSUME NEW p \in Pages, PageStep(p) PROVE Guarded(q)'
    BY <1>2, <2>2, PostGuards, TimerGuards, OthersGuarded DEF ChatInv, PageStep
  <2> QED
    BY <2>1, <2>2 DEF Next, BridgeStep, vars
<1> QED
  BY <1>1, <1>3, ChatAlways, PTL DEF ChatSpec

=============================================================================
