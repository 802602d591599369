------------------------- MODULE NordwindPage_proofs -------------------------
(* Theorems about NordwindPage, for every number of runs, events and       *)
(* breaks of the stream.                                                   *)
EXTENDS NordwindPage, FiniteSetTheorems, SequenceTheorems, TLAPS

-----------------------------------------------------------------------------
(* The inductive invariant, first of the hub and then of the page.         *)

Known == sent \cup pending

\* A run whose start is not out is the one the hub names, and the newest.
NewestOpens ==
  /\ run \in {NoRun, created}
  /\ \A r \in Runs : /\ phase[r] = "off" <=> r > created
                     /\ phase[r] \in {"accepted", "opening"} => run = r

\* Until its start is out, a run has no other event.
StartsAlone ==
  /\ \A e \in Known : phase[e.run] \notin {"off", "accepted"}
  /\ \A e \in Known, d \in Known :
       e.run = d.run /\ phase[e.run] = "opening" => e = d
  /\ \A e \in pending : IsStart(e) => phase[e.run] = "opening"

\* What is in last_run, at the page or on its way there was recorded.
Recorded ==
  /\ lastRun \subseteq Known /\ log \subseteq Known
  /\ \A i \in DOMAIN queue : queue[i] \in sent

\* A start under way finds nothing of its run, or of a later one, but itself.
Precedes(d, s) == d.run >= s.run => d = s

StartsInOrder ==
  \A i \in DOMAIN queue : IsStart(queue[i]) =>
    /\ \A d \in log : Precedes(d, queue[i])
    /\ \A j \in 1..(i - 1) : Precedes(queue[j], queue[i])

\* From the moment last_run was read, no event of the newest run goes astray unnoticed.
NothingAstray ==
  at # "closed" =>
    \A e \in sent :
      e.run = created => e \in log \cup missed \/ \E i \in DOMAIN queue : queue[i] = e

OrderInv == TypeOK /\ NewestOpens /\ StartsAlone /\ Recorded /\ StartsInOrder

\* The hub's half of the bargain (LastRunComplete of HubRun): what was broadcast of the
\* newest run is in last_run.
ReplayComplete == \A e \in sent : e.run = created => e \in lastRun

\* Why it keeps it while last_run is not full.
ReplayInv == \A e \in Known : e.run = created => e \in lastRun

-----------------------------------------------------------------------------
(* The hub's part: a run is opened once, and alone.                        *)

FeedTypes ==
  /\ run \in Runs \cup {NoRun} /\ created \in 0..MaxRuns /\ phase \in [Runs -> Phase]
  /\ pending \subseteq Event /\ lastRun \subseteq Event /\ sent \subseteq Event

FeedPart == FeedTypes /\ NewestOpens /\ StartsAlone

LEMMA EventRun == \A e \in Event : e.run \in Runs
BY FeedAssumption

LEMMA AcceptKeepsFeed ==
  ASSUME FeedPart, Accept
  PROVE  FeedPart'
<1> USE DEF FeedPart, FeedTypes, NewestOpens, StartsAlone, Accept, Known
<1>1. created + 1 \in Runs /\ created + 1 \in 0..MaxRuns /\ created \in Nat
  BY FeedAssumption DEF Runs
<1>2. phase' \in [Runs -> Phase]
  BY <1>1 DEF Phase, Untold
<1>3. \A r \in Runs : r # created + 1 => phase'[r] = phase[r] /\ phase[r] \notin {"accepted", "opening"}
  BY <1>1 DEF NoRun, Runs
<1>4. phase'[created + 1] = "accepted" /\ phase[created + 1] = "off"
  BY <1>1
<1>5. NewestOpens'
  <2> SUFFICES ASSUME NEW r \in Runs
               PROVE  /\ phase'[r] = "off" <=> r > created'
                      /\ phase'[r] \in {"accepted", "opening"} => run' = r
    BY <1>1
  <2> QED
    BY <1>1, <1>3, <1>4 DEF Runs
<1>6. \A e \in Known : e.run # created + 1 /\ e.run \in Runs
  BY <1>4, EventRun
<1>7. StartsAlone'
  BY <1>3, <1>6
<1> QED
  BY <1>1, <1>2, <1>5, <1>7

LEMMA RecordKeepsFeed ==
  ASSUME FeedPart, NEW e \in Event \ (pending \cup sent), Record(e)
  PROVE  FeedPart'
<1> USE DEF FeedPart, FeedTypes, NewestOpens, StartsAlone, Known
<1>1. e.run \in Runs /\ pending' = pending \cup {e} /\ sent' = sent /\ UNCHANGED <<run, created>>
  BY EventRun DEF Record
<1>2. lastRun' \subseteq Event
  BY DEF Record, Kept
<1>3. CASE IsStart(e)
  <2>1. phase[e.run] = "accepted" /\ phase' = [phase EXCEPT ![e.run] = "opening"]
    BY <1>3 DEF Record, MayRecord, IsStart, IsTerminal, Advance
  <2>2. \A d \in Known : d.run # e.run /\ d.run \in Runs
    BY <2>1, EventRun
  <2> QED
    BY <1>1, <1>2, <2>1, <2>2 DEF Phase, Untold
<1>4. CASE IsTerminal(e)
  <2>1. phase[e.run] = "closing" /\ phase' = [phase EXCEPT ![e.run] = "ending"] /\ ~IsStart(e)
    BY <1>4 DEF Record, MayRecord, IsStart, IsTerminal, Advance
  <2>2. \A d \in Known : d.run \in Runs
    BY EventRun
  <2> QED
    BY <1>1, <1>2, <2>1, <2>2 DEF Phase, Untold
<1>5. CASE ~IsStart(e) /\ ~IsTerminal(e)
  <2>1. phase[e.run] \notin Untold /\ phase' = phase
    BY <1>5 DEF Record, MayRecord, Advance, Untold
  <2> QED
    BY <1>1, <1>2, <1>5, <2>1 DEF Untold
<1> QED
  BY <1>3, <1>4, <1>5

LEMMA SendKeepsFeed ==
  ASSUME FeedPart, NEW e \in pending, Send(e)
  PROVE  FeedPart'
<1> USE DEF FeedPart, FeedTypes, NewestOpens, StartsAlone, Known
<1>1. /\ e \in Event /\ e.run \in Runs /\ pending' = pending \ {e} /\ sent' = sent \cup {e}
      /\ UNCHANGED <<run, created, lastRun>>
  BY EventRun DEF Send
<1>2. Known' = Known /\ \A d \in Known : d.run \in Runs
  BY <1>1, EventRun
<1>3. CASE IsStart(e)
  <2>1. phase[e.run] = "opening" /\ phase' = [phase EXCEPT ![e.run] = "telling"]
    BY <1>3 DEF Send, Advance
  <2>2. \A d \in pending' : d.run # e.run
    BY <1>1, <1>2, <2>1
  <2> QED
    BY <1>1, <1>2, <2>1, <2>2 DEF Phase, Untold
<1>4. CASE IsTerminal(e)
  <2>1. phase[e.run] \notin {"off", "accepted"} /\ phase' = [phase EXCEPT ![e.run] = "over"]
    BY <1>4 DEF Send, Advance, IsStart, IsTerminal
  <2>2. \A d \in pending' : IsStart(d) => d.run # e.run
    <3> SUFFICES ASSUME NEW d \in pending', IsStart(d), d.run = e.run PROVE FALSE
      OBVIOUS
    <3>1. d = e
      BY <1>1, <1>2
    <3> QED
      BY <1>1, <3>1
  <2> QED
    BY <1>1, <1>2, <2>1, <2>2 DEF Phase, Untold
<1>5. CASE ~IsStart(e) /\ ~IsTerminal(e)
  <2>1. phase' = phase
    BY <1>5 DEF Send, Advance
  <2> QED
    BY <1>1, <1>2, <2>1
<1> QED
  BY <1>3, <1>4, <1>5

LEMMA CloseKeepsFeed ==
  ASSUME FeedPart, NEW r \in Runs, Close(r)
  PROVE  FeedPart'
<1> USE DEF FeedPart, FeedTypes, NewestOpens, StartsAlone, Known, Close
<1>1. \A d \in Known : d.run \in Runs
  BY EventRun
<1>2. phase' = [phase EXCEPT ![r] = "closing"] /\ phase[r] = "telling" /\ run = r /\ r # NoRun
  BY DEF Runs, NoRun
<1> QED
  BY <1>1, <1>2 DEF Phase, Untold

LEMMA HubKeepsFeed ==
  ASSUME FeedPart, Next
  PROVE  FeedPart'
BY AcceptKeepsFeed, RecordKeepsFeed, SendKeepsFeed, CloseKeepsFeed DEF Next

\* What was known stays known, and the newest run is never replaced by an older one.
LEMMA KnownStays ==
  ASSUME Next
  PROVE  Known \subseteq Known' /\ sent \subseteq sent'
BY DEF Next, Accept, Record, Send, Close, Known

LEMMA LastRunIsKnown ==
  ASSUME lastRun \subseteq Known, Next
  PROVE  lastRun' \subseteq Known'
<1>1. ASSUME NEW e \in Event \ (pending \cup sent), Record(e)
      PROVE  lastRun' \subseteq Known'
  BY <1>1 DEF Record, Kept, Known
<1> QED
  BY <1>1, KnownStays DEF Next, Accept, Send, Close

\* A step of the hub broadcasts the start of a run that is known by nothing else, or
\* something else, or nothing.
LEMMA NewlySent ==
  ASSUME FeedPart, Next
  PROVE  \/ sent' = sent
         \/ \E e \in pending \ sent :
              /\ sent' = sent \cup {e} /\ created' = created
              /\ IsStart(e) => \A d \in Known : Precedes(d, e)
<1>1. ASSUME NEW e \in pending, Send(e), e \notin sent
      PROVE  /\ sent' = sent \cup {e} /\ created' = created
             /\ IsStart(e) => \A d \in Known : Precedes(d, e)
  <2>1. sent' = sent \cup {e} /\ created' = created
    BY <1>1 DEF Send
  <2>2. ASSUME IsStart(e), NEW d \in Known, d.run >= e.run
        PROVE  d = e
    <3>1. e \in Known /\ e.run \in Runs /\ d.run \in Runs /\ created \in Nat
      BY EventRun DEF FeedPart, FeedTypes, Known
    <3>2. phase[e.run] = "opening" /\ run = e.run /\ run = created
      BY <2>2, <3>1 DEF FeedPart, NewestOpens, StartsAlone, NoRun, Runs
    <3>3. d.run <= created
      BY <3>1 DEF FeedPart, NewestOpens, StartsAlone, Runs
    <3>4. d.run = e.run
      BY <2>2, <3>1, <3>2, <3>3 DEF Runs
    <3> QED
      BY <3>1, <3>2, <3>4 DEF FeedPart, StartsAlone
  <2> QED
    BY <2>1, <2>2 DEF Precedes
<1>2. ASSUME NEW e \in pending, Send(e), e \in sent
      PROVE  sent' = sent
  BY <1>2 DEF Send
<1> QED
  BY <1>1, <1>2 DEF Next, Accept, Record, Close

-----------------------------------------------------------------------------
(* The page's part.                                                        *)

PageTypes ==
  /\ at \in {"closed", "asked", "loaded", "open", "broken"} /\ running \in BOOLEAN
  /\ log \subseteq Event /\ missed \subseteq Event
  /\ queue \in Seq(Event) /\ breaks \in 0..MaxBreaks
  /\ queue # <<>> => at = "open"

LEMMA TypeParts == TypeOK <=> FeedTypes /\ PageTypes
BY DEF TypeOK, FeedTypes, PageTypes

LEMMA OrderParts == OrderInv <=> FeedPart /\ PageTypes /\ Recorded /\ StartsInOrder
BY TypeParts DEF OrderInv, FeedPart

\* What the page hears of a step of the hub: nothing, or one event if its stream is open.
LEMMA HeardOne ==
  ASSUME NEW e, e \notin sent, sent' = sent \cup {e}, Heard
  PROVE  /\ queue' = IF at = "open" THEN Append(queue, e) ELSE queue
         /\ missed' = IF at \in {"closed", "open"} THEN missed ELSE missed \cup {e}
<1>1. sent' \ sent = {e}
  OBVIOUS
<1>2. (CHOOSE d \in sent' \ sent : TRUE) = e
  BY <1>1
<1> DEFINE new == sent' \ sent
           first == CHOOSE d \in new : TRUE
<1>4. /\ queue' = IF at = "open" /\ new # {} THEN Append(queue, first) ELSE queue
      /\ missed' = IF at \in {"closed", "open"} THEN missed ELSE missed \cup new
  BY DEF Heard
<1>5. new = {e} /\ first = e
  BY <1>1, <1>2
<1> HIDE DEF new, first
<1> QED
  BY <1>4, <1>5

LEMMA HeardNothing ==
  ASSUME sent' = sent, Heard
  PROVE  queue' = queue /\ missed' = missed
<1>1. sent' \ sent = {}
  OBVIOUS
<1> QED
  BY <1>1 DEF Heard

LEMMA AppendIs ==
  ASSUME NEW e \in Event, queue \in Seq(Event)
  PROVE  /\ Append(queue, e) \in Seq(Event) /\ Append(queue, e) # <<>>
         /\ DOMAIN Append(queue, e) = DOMAIN queue \cup {Len(queue) + 1}
         /\ Append(queue, e)[Len(queue) + 1] = e
         /\ \A i \in DOMAIN queue : Append(queue, e)[i] = queue[i]
         /\ DOMAIN queue = 1..Len(queue) /\ Len(queue) \in Nat
BY AppendProperties

LEMMA TailIs ==
  ASSUME queue \in Seq(Event), queue # <<>>
  PROVE  /\ Tail(queue) \in Seq(Event) /\ Head(queue) \in Event
         /\ Head(queue) = queue[1] /\ 1 \in DOMAIN queue
         /\ DOMAIN queue = 1..Len(queue) /\ Len(queue) \in Nat
         /\ DOMAIN Tail(queue) = 1..(Len(queue) - 1)
         /\ \A i \in DOMAIN Tail(queue) : Tail(queue)[i] = queue[i + 1]
BY HeadTailProperties

LEMMA HubKeepsOrder ==
  ASSUME OrderInv, HubStep
  PROVE  OrderInv'
<1>0. FeedPart /\ PageTypes /\ Recorded /\ StartsInOrder /\ Next /\ Heard
  BY OrderParts DEF HubStep
<1>1. FeedPart' /\ lastRun' \subseteq Known' /\ Known \subseteq Known' /\ sent \subseteq sent'
  BY <1>0, HubKeepsFeed, KnownStays, LastRunIsKnown DEF Recorded
<1>2. UNCHANGED <<at, running, log, breaks>>
  BY <1>0 DEF Heard
<1>3. CASE sent' = sent
  <2>1. queue' = queue /\ missed' = missed
    BY <1>0, <1>3, HeardNothing
  <2>2. PageTypes' /\ Recorded' /\ StartsInOrder'
    BY <1>0, <1>1, <1>2, <1>3, <2>1 DEF PageTypes, Recorded, StartsInOrder
  <2> QED
    BY <1>1, <2>2 DEF OrderInv, TypeOK, FeedPart, FeedTypes, PageTypes
<1>4. ASSUME NEW e \in pending \ sent, sent' = sent \cup {e},
             IsStart(e) => \A d \in Known : Precedes(d, e)
      PROVE  OrderInv'
  <2>1. /\ queue' = IF at = "open" THEN Append(queue, e) ELSE queue
        /\ missed' = IF at \in {"closed", "open"} THEN missed ELSE missed \cup {e}
    BY <1>0, <1>4, HeardOne
  <2>2. e \in Event /\ queue \in Seq(Event)
    BY <1>0 DEF FeedPart, FeedTypes, PageTypes
  <2>3. CASE at # "open"
    <3>1. PageTypes' /\ Recorded' /\ StartsInOrder'
      BY <1>0, <1>1, <1>2, <1>4, <2>1, <2>2, <2>3 DEF PageTypes, Recorded, StartsInOrder
    <3> QED
      BY <1>1, <3>1 DEF OrderInv, TypeOK, FeedPart, FeedTypes, PageTypes
  <2>4. CASE at = "open"
    <3>1. /\ queue' \in Seq(Event) /\ DOMAIN queue' = DOMAIN queue \cup {Len(queue) + 1}
          /\ queue'[Len(queue) + 1] = e /\ \A i \in DOMAIN queue : queue'[i] = queue[i]
          /\ DOMAIN queue = 1..Len(queue) /\ Len(queue) \in Nat
      BY <2>1, <2>2, <2>4, AppendIs
    <3>2. PageTypes'
      BY <1>0, <1>2, <2>1, <2>4, <3>1 DEF PageTypes
    <3>3. Recorded'
      BY <1>0, <1>1, <1>2, <1>4, <3>1 DEF Recorded
    <3>4. ASSUME NEW i \in DOMAIN queue', IsStart(queue'[i])
          PROVE  /\ \A d \in log' : Precedes(d, queue'[i])
                 /\ \A j \in 1..(i - 1) : Precedes(queue'[j], queue'[i])
      <4>1. CASE i \in DOMAIN queue
        <5>1. \A j \in 1..(i - 1) : j \in DOMAIN queue
          BY <3>1, <4>1
        <5> QED
          BY <1>0, <1>2, <3>1, <3>4, <4>1, <5>1 DEF StartsInOrder
      <4>2. CASE i = Len(queue) + 1
        <5>1. \A j \in 1..(i - 1) : j \in DOMAIN queue /\ queue'[j] \in Known
          BY <1>0, <3>1, <4>2 DEF Recorded, Known
        <5>2. log' \subseteq Known
          BY <1>0, <1>2 DEF Recorded
        <5> QED
          BY <1>4, <3>1, <3>4, <4>2, <5>1, <5>2
      <4> QED
        BY <3>1, <4>1, <4>2
    <3>5. StartsInOrder'
      BY <3>4 DEF StartsInOrder
    <3> QED
      BY <1>1, <3>2, <3>3, <3>5 DEF OrderInv, TypeOK, FeedPart, FeedTypes, PageTypes
  <2> QED
    BY <2>3, <2>4
<1> QED
  BY <1>0, <1>3, <1>4, NewlySent

LEMMA PageKeepsOrder ==
  ASSUME OrderInv, PageStep
  PROVE  OrderInv'
<1>0. FeedPart /\ PageTypes /\ Recorded /\ StartsInOrder
  BY OrderParts
<1>1. UNCHANGED feedVars
  BY DEF PageStep, ReadLastRun, ReadRunning, Subscribe, StreamBreaks, OnEvent
<1>2. FeedPart' /\ Known' = Known /\ sent' = sent /\ lastRun' = lastRun
  BY <1>0, <1>1 DEF feedVars, FeedPart, FeedTypes, NewestOpens, StartsAlone, Known
<1> USE DEF PageTypes, Recorded, StartsInOrder
<1>3. ASSUME PageTypes' /\ Recorded' /\ StartsInOrder' PROVE OrderInv'
  BY <1>2, <1>3 DEF OrderInv, TypeOK, FeedPart, FeedTypes
<1>4. CASE ReadLastRun
  <2>1. queue = <<>>
    BY <1>0, <1>4 DEF ReadLastRun
  <2>2. lastRun \subseteq Event
    BY <1>0 DEF FeedPart, FeedTypes
  <2> QED
    BY <1>0, <1>2, <1>3, <1>4, <2>1, <2>2 DEF ReadLastRun
<1>5. CASE ReadRunning
  <2>1. running' \in BOOLEAN
    BY <1>5 DEF ReadRunning
  <2> QED
    BY <1>0, <1>2, <1>3, <1>5, <2>1 DEF ReadRunning
<1>6. CASE Subscribe
  BY <1>0, <1>2, <1>3, <1>6 DEF Subscribe
<1>7. CASE StreamBreaks
  <2>1. queue' = <<>> /\ <<>> \in Seq(Event) /\ DOMAIN queue' = {}
    BY <1>7 DEF StreamBreaks
  <2>2. missed' \subseteq Event
    BY <1>0, <1>7 DEF StreamBreaks
  <2>3. breaks' \in 0..MaxBreaks
    BY <1>0, <1>7, PageAssumption DEF StreamBreaks
  <2> QED
    BY <1>0, <1>2, <1>3, <1>7, <2>1, <2>2, <2>3 DEF StreamBreaks
<1>8. CASE OnEvent
  <2>1. queue # <<>> /\ queue' = Tail(queue) /\ UNCHANGED <<at, breaks, missed>>
    BY <1>8 DEF OnEvent
  <2>2. /\ queue' \in Seq(Event) /\ Head(queue) \in Event
        /\ Head(queue) = queue[1] /\ 1 \in DOMAIN queue
        /\ DOMAIN queue = 1..Len(queue) /\ Len(queue) \in Nat
        /\ DOMAIN queue' = 1..(Len(queue) - 1)
        /\ \A i \in DOMAIN queue' : queue'[i] = queue[i + 1]
    BY <1>0, <2>1, TailIs
  <2>3. log' \subseteq log \cup {queue[1]}
    BY <1>8, <2>2 DEF OnEvent
  <2>4. PageTypes'
    <3>1. running' \in BOOLEAN
      BY <1>0, <1>8 DEF OnEvent, RunningAfter
    <3> QED
      BY <1>0, <2>1, <2>2, <2>3, <3>1
  <2>5. Recorded'
    <3>1. queue[1] \in Known
      BY <1>0, <2>2 DEF Known
    <3>2. \A i \in DOMAIN queue' : i + 1 \in DOMAIN queue
      BY <2>2
    <3> QED
      BY <1>0, <1>2, <2>2, <2>3, <3>1, <3>2
  <2>6. ASSUME NEW i \in DOMAIN queue', IsStart(queue'[i])
        PROVE  /\ \A d \in log' : Precedes(d, queue'[i])
               /\ \A j \in 1..(i - 1) : Precedes(queue'[j], queue'[i])
    <3>1. i + 1 \in DOMAIN queue /\ queue'[i] = queue[i + 1] /\ 1 \in 1..((i + 1) - 1)
      BY <2>2
    <3>2. /\ \A d \in log : Precedes(d, queue[i + 1])
          /\ \A j \in 1..((i + 1) - 1) : Precedes(queue[j], queue[i + 1])
      BY <1>0, <2>6, <3>1
    <3>3. \A j \in 1..(i - 1) : j + 1 \in 1..((i + 1) - 1) /\ queue'[j] = queue[j + 1]
      BY <2>2
    <3> QED
      BY <2>3, <3>1, <3>2, <3>3
  <2> QED
    BY <1>3, <2>4, <2>5, <2>6
<1> QED
  BY <1>4, <1>5, <1>6, <1>7, <1>8 DEF PageStep

LEMMA PageOrderInit == PageInit => OrderInv
<1> SUFFICES ASSUME PageInit PROVE OrderInv
  OBVIOUS
<1>1. FeedPart
  BY FeedAssumption DEF PageInit, Init, FeedPart, FeedTypes, NewestOpens, StartsAlone, Known,
     Runs, NoRun, Phase, Untold
<1>2. <<>> \in Seq(Event) /\ DOMAIN <<>> = {} /\ FALSE \in BOOLEAN /\ 0 \in 0..MaxBreaks
  BY PageAssumption
<1>3. PageTypes /\ Recorded /\ StartsInOrder
  BY <1>2 DEF PageInit, Init, PageTypes, Recorded, StartsInOrder, Known
<1> QED
  BY <1>1, <1>3, OrderParts

LEMMA PageOrderNext == OrderInv /\ [PageNext]_vars => OrderInv'
<1>1. OrderInv /\ UNCHANGED vars => OrderInv'
  BY DEF vars, feedVars, pageVars, OrderInv, TypeOK, NewestOpens, StartsAlone, Recorded,
         StartsInOrder, Known
<1> QED
  BY <1>1, HubKeepsOrder, PageKeepsOrder DEF PageNext

LEMMA PageOrderAlways == PageSpec => []OrderInv
BY PageOrderInit, PageOrderNext, PTL DEF PageSpec

\* Every variable of the hub's feed and of the page keeps its type, and nothing is under
\* way to a page whose stream is not open.
THEOREM PageTypeCorrect == PageSpec => []TypeOK
<1>1. OrderInv => TypeOK
  BY DEF OrderInv
<1> QED
  BY <1>1, PageOrderAlways, PTL

-----------------------------------------------------------------------------
(* Nothing goes astray.                                                    *)

Got(e) == e \in log \cup missed \/ \E i \in DOMAIN queue : queue[i] = e

LEMMA HubLosesNothing ==
  ASSUME OrderInv, NothingAstray, HubStep
  PROVE  NothingAstray'
<1>0. FeedPart /\ PageTypes /\ Next /\ Heard
  BY OrderParts DEF HubStep
<1>1. UNCHANGED <<at, log>>
  BY <1>0 DEF Heard
<1> SUFFICES ASSUME at # "closed", NEW e \in sent', e.run = created' PROVE Got(e)'
  BY <1>1 DEF NothingAstray, Got
<1>2. CASE sent' = sent
  <2>1. queue' = queue /\ missed' = missed
    BY <1>0, <1>2, HeardNothing
  <2>2. created' = created
    <3>1. phase[e.run] # "off" /\ e.run \in Runs
      BY <1>0, <1>2, EventRun DEF FeedPart, FeedTypes, StartsAlone, Known
    <3>2. ~(e.run > created)
      BY <1>0, <3>1 DEF FeedPart, NewestOpens
    <3>3. created' = created \/ created' = created + 1
      BY <1>0 DEF Next, Accept, Record, Send, Close
    <3>4. created \in Nat
      BY <1>0 DEF FeedPart, FeedTypes
    <3> QED
      BY <3>1, <3>2, <3>3, <3>4 DEF Runs
  <2>3. Got(e)
    BY <1>2, <2>2 DEF NothingAstray, Got
  <2> QED
    BY <1>1, <2>1, <2>3 DEF Got
<1>3. ASSUME NEW d \in pending \ sent, sent' = sent \cup {d}, created' = created
      PROVE  Got(e)'
  <2>1. /\ queue' = IF at = "open" THEN Append(queue, d) ELSE queue
        /\ missed' = IF at \in {"closed", "open"} THEN missed ELSE missed \cup {d}
    BY <1>0, <1>3, HeardOne
  <2>2. d \in Event /\ queue \in Seq(Event)
    BY <1>0 DEF FeedPart, FeedTypes, PageTypes
  <2>3. e = d \/ Got(e)
    BY <1>3 DEF NothingAstray, Got
  <2>4. CASE at # "open"
    <3>1. queue' = queue /\ missed' = missed \cup {d}
      BY <2>1, <2>4
    <3> QED
      BY <1>1, <2>3, <3>1 DEF Got
  <2>5. CASE at = "open"
    <3>1. /\ DOMAIN queue' = DOMAIN queue \cup {Len(queue) + 1} /\ queue'[Len(queue) + 1] = d
          /\ \A i \in DOMAIN queue : queue'[i] = queue[i]
          /\ missed' = missed
      BY <2>1, <2>2, <2>5, AppendIs
    <3> QED
      BY <1>1, <2>3, <3>1 DEF Got
  <2> QED
    BY <2>4, <2>5
<1> QED
  BY <1>0, <1>2, <1>3, NewlySent

\* run_start clears the table of nothing that belongs to its own run, or to a later one.
LEMMA OnEventLosesNothing ==
  ASSUME OrderInv, NothingAstray, OnEvent
  PROVE  NothingAstray'
<1>0. FeedPart /\ PageTypes /\ StartsInOrder
  BY OrderParts
<1>1. queue # <<>> /\ queue' = Tail(queue) /\ UNCHANGED <<at, breaks, missed, sent, created>>
  BY DEF OnEvent, feedVars
<1>2. /\ Head(queue) = queue[1] /\ 1 \in DOMAIN queue
      /\ DOMAIN queue = 1..Len(queue) /\ Len(queue) \in Nat
      /\ DOMAIN queue' = 1..(Len(queue) - 1)
      /\ \A i \in DOMAIN queue' : queue'[i] = queue[i + 1]
  BY <1>0, <1>1, TailIs DEF PageTypes
<1>3. log' = (IF IsStart(queue[1]) THEN {} ELSE log) \cup {queue[1]}
  BY <1>2 DEF OnEvent
<1> SUFFICES ASSUME at # "closed", NEW e \in sent, e.run = created PROVE Got(e)'
  BY <1>1 DEF NothingAstray, Got
<1>4. Got(e)
  BY DEF NothingAstray, Got
<1>5. CASE e \in missed
  BY <1>1, <1>5 DEF Got
<1>6. CASE e \in log
  <2>1. CASE IsStart(queue[1])
    <3>1. queue[1] \in sent /\ created \in Nat
      BY <1>0, <1>2 DEF OrderInv, Recorded, FeedPart, FeedTypes
    <3>2. queue[1].run \in Runs /\ ~(queue[1].run > created)
      BY <1>0, <3>1, EventRun DEF FeedPart, FeedTypes, NewestOpens, StartsAlone, Known
    <3>3. e.run >= queue[1].run
      BY <3>1, <3>2 DEF Runs
    <3>4. e = queue[1]
      BY <1>0, <1>2, <1>6, <2>1, <3>3 DEF StartsInOrder, Precedes
    <3> QED
      BY <1>3, <3>4 DEF Got
  <2>2. CASE ~IsStart(queue[1])
    BY <1>3, <1>6, <2>2 DEF Got
  <2> QED
    BY <2>1, <2>2
<1>7. ASSUME NEW i \in DOMAIN queue, queue[i] = e
      PROVE  Got(e)'
  <2>1. CASE i = 1
    BY <1>3, <1>7, <2>1 DEF Got
  <2>2. CASE i # 1
    <3>1. i - 1 \in DOMAIN queue' /\ (i - 1) + 1 = i
      BY <1>2, <2>2
    <3>2. queue'[i - 1] = e
      BY <1>2, <1>7, <3>1
    <3> QED
      BY <3>1, <3>2 DEF Got
  <2> QED
    BY <2>1, <2>2
<1> QED
  BY <1>4, <1>5, <1>6, <1>7 DEF Got

LEMMA PageLosesNothing ==
  ASSUME OrderInv, ReplayComplete, NothingAstray, PageStep
  PROVE  NothingAstray'
<1>1. CASE ReadLastRun
  BY <1>1 DEF ReadLastRun, feedVars, ReplayComplete, NothingAstray
<1>2. CASE ReadRunning \/ Subscribe
  BY <1>2 DEF ReadRunning, Subscribe, feedVars, NothingAstray
<1>3. CASE StreamBreaks
  BY <1>3 DEF StreamBreaks, feedVars, NothingAstray
<1> QED
  BY <1>1, <1>2, <1>3, OnEventLosesNothing DEF PageStep

\* If the hub keeps in last_run what it broadcast of the newest run, as HubRun promises in
\* LastRunComplete, a page with an open stream has every such event, or it is under way,
\* or it is one of those the page is known to have missed: whatever order snapshot,
\* subscription, breaks and events come in, and however many runs go by.
THEOREM PageLogComplete == PageSpec /\ []ReplayComplete => []LogComplete
<1>1. PageInit => NothingAstray
  BY DEF PageInit, NothingAstray
<1>2. OrderInv /\ ReplayComplete /\ NothingAstray /\ [PageNext]_vars => NothingAstray'
  <2>1. NothingAstray /\ UNCHANGED vars => NothingAstray'
    BY DEF NothingAstray, vars, feedVars, pageVars
  <2> QED
    BY <2>1, HubLosesNothing, PageLosesNothing DEF PageNext
<1>3. NothingAstray => LogComplete
  BY DEF NothingAstray, LogComplete
<1> QED
  BY <1>1, <1>2, <1>3, PageOrderAlways, PTL DEF PageSpec

-----------------------------------------------------------------------------
(* The hub keeps its half while last_run is not full.                      *)

LEMMA ReplayNext ==
  ASSUME IsFiniteSet(Event), Cardinality(Event) <= HistCap,
         OrderInv, ReplayInv, Next
  PROVE  ReplayInv'
<1>0. FeedPart /\ Recorded
  BY OrderParts
<1>1. CASE Accept
  <2>1. Known' = Known /\ lastRun' = lastRun /\ created' = created + 1 /\ created \in Nat
    BY <1>0, <1>1 DEF Accept, Known, FeedPart, FeedTypes
  <2>2. \A e \in Known : phase[e.run] # "off" /\ e.run \in Runs
    BY <1>0, EventRun DEF FeedPart, FeedTypes, StartsAlone, Known
  <2>3. \A e \in Known : ~(e.run > created)
    BY <1>0, <2>2 DEF FeedPart, NewestOpens
  <2>4. \A e \in Known : e.run # created + 1
    BY <2>1, <2>2, <2>3 DEF Runs
  <2> QED
    BY <2>1, <2>4 DEF ReplayInv
<1>2. ASSUME NEW e \in Event \ (pending \cup sent), Record(e)
      PROVE  ReplayInv'
  <2>1. Known' = Known \cup {e} /\ created' = created
    BY <1>2 DEF Record, Known
  <2>2. Kept(e) \subseteq Event \ {e}
    BY <1>0, <1>2 DEF Kept, Recorded, FeedPart, FeedTypes, Known
  <2>3. Cardinality(Kept(e)) < HistCap
    <3>1. IsFiniteSet(Event \ {e}) /\ Cardinality(Event \ {e}) = Cardinality(Event) - 1
      BY <1>2, FS_RemoveElement
    <3>2. IsFiniteSet(Kept(e)) /\ Cardinality(Kept(e)) <= Cardinality(Event \ {e})
      BY <2>2, <3>1, FS_Subset
    <3> QED
      BY <3>1, <3>2, FS_CardinalityType, FeedAssumption
  <2>4. lastRun' = Kept(e) \cup {e}
    BY <1>2, <2>3 DEF Record
  <2>5. ASSUME NEW d \in Known, d.run = created
        PROVE  d \in lastRun'
    <3>1. CASE ~IsStart(e)
      BY <2>4, <2>5, <3>1 DEF Kept, ReplayInv
    <3>2. CASE IsStart(e)
      <4>1. phase[e.run] = "accepted" /\ e.run \in Runs
        BY <1>2, <3>2, EventRun DEF Record, MayRecord, IsStart, IsTerminal
      <4>2. e.run = created
        BY <1>0, <4>1 DEF FeedPart, NewestOpens, NoRun, Runs
      <4>3. phase[d.run] # "accepted"
        BY <1>0, <2>5 DEF FeedPart, StartsAlone
      <4> QED
        BY <2>5, <4>1, <4>2, <4>3
    <3> QED
      BY <3>1, <3>2
  <2> QED
    BY <2>1, <2>4, <2>5 DEF ReplayInv
<1>3. CASE (\E e \in pending : Send(e)) \/ \E r \in Runs : Close(r)
  <2>1. Known' \subseteq Known /\ lastRun' = lastRun /\ created' = created
    BY <1>3 DEF Send, Close, Known
  <2> QED
    BY <2>1 DEF ReplayInv
<1> QED
  BY <1>1, <1>2, <1>3 DEF Next

\* While last_run can hold all there is to tell, the hub keeps its half of the bargain,
\* and the page's table is complete without any assumption.
THEOREM PageLogCompleteBelowCap ==
  IsFiniteSet(Event) /\ Cardinality(Event) <= HistCap => (PageSpec => []LogComplete)
<1> SUFFICES ASSUME IsFiniteSet(Event), Cardinality(Event) <= HistCap
             PROVE  PageSpec => []LogComplete
  OBVIOUS
<1>1. PageInit => ReplayInv
  BY DEF PageInit, Init, ReplayInv, Known
<1>2. OrderInv /\ ReplayInv /\ [PageNext]_vars => ReplayInv'
  <2>1. UNCHANGED feedVars /\ ReplayInv => ReplayInv'
    BY DEF feedVars, ReplayInv, Known
  <2>2. PageStep \/ UNCHANGED vars => UNCHANGED feedVars
    BY DEF PageStep, ReadLastRun, ReadRunning, Subscribe, StreamBreaks, OnEvent, vars
  <2> QED
    BY <2>1, <2>2, ReplayNext DEF PageNext, HubStep
<1>3. ReplayInv => ReplayComplete
  BY DEF ReplayInv, ReplayComplete, Known
<1>4. PageSpec => []ReplayComplete
  BY <1>1, <1>2, <1>3, PageOrderAlways, PTL DEF PageSpec
<1> QED
  BY <1>4, PageLogComplete, PTL

=============================================================================
