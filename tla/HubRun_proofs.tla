---------------------------- MODULE HubRun_proofs ----------------------------
(* Theorems about HubRun, for every number of runs, visitors and reports:    *)
(* types, one run at a time, no hop lost, the order of the stream, HubRun as *)
(* an implementation of HubFeed, and what last_run keeps.                    *)
EXTENDS HubRun, Functions, FiniteSetTheorems, TLAPS

\* A set of hop numbers has a least element: hop numbers are at most 9.
LEMMA LeastHop ==
  ASSUME NEW S \in SUBSET HopSeqs, S # {}
  PROVE  /\ Least(S) \in S
         /\ \A t \in S : Least(S) <= t
<1>1. \E s \in S : \A t \in S : s <= t
  <2>1. SUFFICES ASSUME \A s \in S : \E t \in S : t < s
                 PROVE  FALSE
    BY HubAssumption DEF HopSeqs
  <2>2. \A s \in S : s \in Nat /\ s >= 2 /\ s <= 9
    BY HubAssumption DEF HopSeqs
  <2>3. 2 \notin S
    BY <2>1, <2>2
  <2>4. 3 \notin S
    BY <2>1, <2>2, <2>3
  <2>5. 4 \notin S
    BY <2>1, <2>2, <2>3, <2>4
  <2>6. 5 \notin S
    BY <2>1, <2>2, <2>3, <2>4, <2>5
  <2>7. 6 \notin S
    BY <2>1, <2>2, <2>3, <2>4, <2>5, <2>6
  <2>8. 7 \notin S
    BY <2>1, <2>2, <2>3, <2>4, <2>5, <2>6, <2>7
  <2>9. 8 \notin S
    BY <2>1, <2>2, <2>3, <2>4, <2>5, <2>6, <2>7, <2>8
  <2>10. 9 \notin S
    BY <2>1, <2>2, <2>3, <2>4, <2>5, <2>6, <2>7, <2>8, <2>9
  <2> QED
    BY <2>2, <2>3, <2>4, <2>5, <2>6, <2>7, <2>8, <2>9, <2>10
<1> QED
  BY <1>1 DEF Least

-----------------------------------------------------------------------------
(* Type correctness.  TypeOK alone is not inductive: the hop a task emits  *)
(* from the trace exists only because a task in "trace" has a hop left.    *)

LEMMA EventOfType ==
  ASSUME TypeInv, NEW r \in Runs, scn[r] \in Emitting
  PROVE  /\ EventOf(r) \in Event
         /\ EventOf(r).run = r
         /\ NextPos(r) \in TaskPos \ {"off"}
         /\ TodoAfter(r) \in SUBSET HopSeqs
         /\ NextPos(r) = "trace" => TodoAfter(r) # {}
<1> USE HubAssumption DEF TypeInv, TypeOK, EventOf, NextPos, TodoAfter, Emitting, TaskPos, Occupying
<1>1. CASE scn[r] = "trace"
  <2>1. todo[r] \in SUBSET HopSeqs /\ todo[r] # {}
    BY <1>1 DEF TraceHasWork
  <2>2. Least(todo[r]) \in 0..LastSeq
    BY <2>1, LeastHop DEF HopSeqs
  <2> QED
    BY <1>1, <2>1, <2>2 DEF Ev, Event
<1>2. CASE scn[r] # "trace"
  BY <1>2 DEF Ev, Event
<1> QED
  BY <1>1, <1>2

LEMMA RecordType ==
  ASSUME lastRun \in SUBSET Event, NEW e \in Event, Record(e)
  PROVE  lastRun' \in SUBSET Event
BY DEF Record

LEMMA NodeEventType ==
  ASSUME NEW p \in Report
  PROVE  NodeEvent(p) \in Event
BY HubAssumption DEF Report, NodeEvent, Ev, Event, HopSeqs

LEMMA TypeInit == Init => TypeInv
<1> SUFFICES ASSUME Init PROVE TypeInv
  OBVIOUS
<1> USE HubAssumption DEF Init
<1>1. TypeOK
  <2>1. 0 \in 0..(LastSeq - 1) /\ 0 \in 0..MaxRuns /\ 0 \in 0..MaxReports
    OBVIOUS
  <2> QED
    BY <2>1 DEF TypeOK, TaskPos, Occupying, Replied
<1>2. TraceHasWork /\ HopsInOrder
  BY DEF TraceHasWork, HopsInOrder
<1> QED
  BY <1>1, <1>2 DEF TypeInv

LEMMA TypeNext == TypeInv /\ [Next]_vars => TypeInv'
<1> SUFFICES ASSUME TypeInv, [Next]_vars
             PROVE  TypeInv'
  OBVIOUS
<1> USE HubAssumption DEF TypeInv, TypeOK, TraceHasWork, HopsInOrder
<1>1. ASSUME NEW v \in Visitors, PassThrottle(v)
      PROVE  TypeInv'
  BY <1>1 DEF PassThrottle, hubVars, taskVars, zVars, nodeVars, outVars
<1>2. CASE ThrottleExpires
  BY <1>2 DEF ThrottleExpires, hubVars, taskVars, zVars, nodeVars, outVars
<1>3. ASSUME NEW v \in Visitors, AlreadyRunning(v)
      PROVE  TypeInv'
  BY <1>3 DEF AlreadyRunning, hubVars, taskVars, zVars, nodeVars, outVars
<1>4. ASSUME NEW v \in Visitors, StartRun(v)
      PROVE  TypeInv'
  <2>1. created + 1 \in Runs
    BY <1>4 DEF StartRun, Accept, Runs
  <2>2. "start" \in TaskPos /\ "start" # "trace"
    BY DEF TaskPos, Occupying
  <2> QED
    BY <1>4, <2>1, <2>2 DEF StartRun, Accept, zVars, nodeVars, outVars, Runs
<1>5. ASSUME NEW r \in Runs, TaskRecord(r)
      PROVE  TypeInv'
  <2>1. EventOf(r) \in Event
    BY <1>5, EventOfType DEF TaskRecord
  <2>2. lastRun' \in SUBSET Event
    BY <1>5, <2>1, RecordType DEF TaskRecord
  <2> QED
    BY <1>5, <2>2 DEF TaskRecord, hubVars, doorVars, zVars, nodeVars
<1>6. ASSUME NEW r \in Runs, TaskSend(r)
      PROVE  TypeInv'
  <2>1. /\ EventOf(r) \in Event /\ NextPos(r) \in TaskPos
        /\ TodoAfter(r) \in SUBSET HopSeqs
        /\ NextPos(r) = "trace" => TodoAfter(r) # {}
    BY <1>6, EventOfType DEF TaskSend
  <2> QED
    BY <1>6, <2>1 DEF TaskSend, Send, hubVars, doorVars, zVars, nodeVars
<1>7. ASSUME NEW r \in Runs, NEW o \in Replied \cup {"lost"}, CallReturns(r, o)
      PROVE  TypeInv'
  <2>1. "done1" \in TaskPos /\ "done1" # "trace"
    BY DEF TaskPos, Occupying
  <2> QED
    BY <1>7, <2>1 DEF CallReturns, hubVars, doorVars, zVars, nodeVars, outVars
<1>8. ASSUME NEW r \in Runs, TakeSnapshot(r)
      PROVE  TypeInv'
  <2>1. Trace(r) \in SUBSET HopSeqs
    BY DEF Trace, HopSeqs
  <2>2. {"clear", "trace"} \in SUBSET TaskPos
    BY DEF TaskPos, Occupying
  <2> QED
    BY <1>8, <2>1, <2>2 DEF TakeSnapshot, hubVars, doorVars, zVars, nodeVars, outVars
<1>9. ASSUME NEW r \in Runs, ClearRun(r)
      PROVE  TypeInv'
  <2>1. "final" \in TaskPos /\ "final" # "trace"
    BY DEF TaskPos
  <2> QED
    BY <1>9, <2>1 DEF ClearRun, doorVars, zVars, nodeVars, outVars
<1>10. ASSUME NEW p \in net, NodeHop(p)
       PROVE  TypeInv'
  <2>1. p \in Report /\ p.seq \in HopSeqs /\ NodeEvent(p) \in Event
    BY NodeEventType DEF Report
  <2>2. reports + 1 \in 0..MaxReports
    BY <1>10 DEF NodeHop
  <2> QED
    BY <1>10, <2>1, <2>2 DEF NodeHop, TakeReport, doorVars, taskVars, zVars, outVars
<1>11. ASSUME NEW p \in net, NodeHopRefused(p) \/ ReportLost(p)
       PROVE  TypeInv'
  BY <1>11 DEF NodeHopRefused, ReportLost, hubVars, doorVars, taskVars, zVars, nodeVars, outVars
<1>12. ASSUME NEW e \in accepted, HandlerRecord(e)
       PROVE  TypeInv'
  <2>1. lastRun' \in SUBSET Event
    BY <1>12, RecordType DEF HandlerRecord
  <2> QED
    BY <1>12, <2>1 DEF HandlerRecord, hubVars, doorVars, taskVars, zVars
<1>13. ASSUME NEW e \in accepted, HandlerDropped(e)
       PROVE  TypeInv'
  BY <1>13 DEF HandlerDropped, hubVars, doorVars, taskVars, zVars, outVars
<1>14. ASSUME NEW e \in recorded, HandlerSend(e)
       PROVE  TypeInv'
  BY <1>14 DEF HandlerSend, Send, hubVars, doorVars, taskVars, zVars
<1>15. ASSUME NEW r \in Runs, Briefing(r)
       PROVE  TypeInv'
  BY <1>15 DEF Briefing, hubVars, doorVars, taskVars, nodeVars, outVars
<1>16. ASSUME NEW r \in Runs, HopStarts(r)
       PROVE  TypeInv'
  <2>1. hops[r] + 2 \in HopSeqs
    BY <1>16 DEF HopStarts, HopSeqs
  <2> QED
    BY <1>16, <2>1 DEF HopStarts, Report, hubVars, doorVars, taskVars, nodeVars, outVars
<1>17. ASSUME NEW r \in Runs, HopEnds(r)
       PROVE  TypeInv'
  <2>1. hops[r] + 2 \in HopSeqs /\ hops[r] + 1 \in 0..(LastSeq - 1)
    BY <1>17 DEF HopEnds, HopSeqs
  <2> QED
    BY <1>17, <2>1 DEF HopEnds, Report, hubVars, doorVars, taskVars, nodeVars, outVars
<1>18. ASSUME NEW r \in Runs, NEW a \in Replied, Answers(r, a)
       PROVE  TypeInv'
  BY <1>18 DEF Answers, Replied, hubVars, doorVars, taskVars, nodeVars, outVars
<1>19. CASE UNCHANGED vars
  BY <1>19 DEF vars, hubVars, doorVars, taskVars, zVars, nodeVars, outVars
<1> QED
  BY <1>1, <1>2, <1>3, <1>4, <1>5, <1>6, <1>7, <1>8, <1>9, <1>10, <1>11, <1>12, <1>13,
     <1>14, <1>15, <1>16, <1>17, <1>18, <1>19
     DEF Next, DoorStep, TaskStep, ZentraleStep, Rest

\* Every variable keeps its type: in particular the budget of reports is never
\* exceeded and hop numbers stay in the range the hub accepts.
THEOREM TypeCorrect == Spec => []TypeOK
<1>1. TypeInv => TypeOK
  BY DEF TypeInv
<1> QED
  BY TypeInit, TypeNext, <1>1, PTL DEF Spec

-----------------------------------------------------------------------------
(* One run at a time.                                                      *)

LEMMA RunInit == Init => RunInv
BY TypeInit, HubAssumption DEF Init, RunInv, OneRunAtATime, TasksAreDrawn, Occupying, Runs, NoRun

LEMMA RunNext == RunInv /\ [Next]_vars => RunInv'
<1> SUFFICES ASSUME RunInv, [Next]_vars
             PROVE  OneRunAtATime' /\ TasksAreDrawn'
  BY TypeNext DEF RunInv
<1> USE HubAssumption DEF RunInv, OneRunAtATime, TasksAreDrawn
<1>0. TypeInv /\ TypeOK
  BY DEF TypeInv
<1>1. CASE UNCHANGED <<run, created, scn>>
  BY <1>1
<1>2. ASSUME NEW v \in Visitors, StartRun(v)
      PROVE  OneRunAtATime' /\ TasksAreDrawn'
  <2>1. created' = created + 1 /\ created \in Nat /\ created + 1 \in Runs /\ run' = created + 1
    BY <1>0, <1>2 DEF StartRun, Accept, TypeOK, Runs
  <2>2. scn' = [scn EXCEPT ![created + 1] = "start"] /\ scn \in [Runs -> TaskPos]
    BY <1>0, <1>2 DEF StartRun, Accept, TypeOK
  <2>3. \A r \in Runs : scn[r] \notin Occupying
    BY <1>2 DEF StartRun, NoRun, Runs
  <2>4. "start" \in Occupying /\ "start" # "off"
    BY DEF Occupying
  <2> QED
    BY <2>1, <2>2, <2>3, <2>4 DEF Runs
<1>3. ASSUME NEW r \in Runs, TaskSend(r)
      PROVE  OneRunAtATime' /\ TasksAreDrawn'
  <2>1. /\ scn' = [scn EXCEPT ![r] = NextPos(r)] /\ scn \in [Runs -> TaskPos]
        /\ UNCHANGED <<run, created>>
    BY <1>0, <1>3 DEF TaskSend, TypeOK, hubVars, doorVars
  <2>2. scn[r] \in Occupying <=> NextPos(r) \in Occupying
    BY <1>3 DEF TaskSend, NextPos, Emitting, Occupying
  <2>3. scn[r] # "off" /\ NextPos(r) # "off"
    BY <1>3 DEF TaskSend, NextPos, Emitting
  <2> QED
    BY <2>1, <2>2, <2>3
<1>4. ASSUME NEW r \in Runs, NEW o \in Replied \cup {"lost"}, CallReturns(r, o)
      PROVE  OneRunAtATime' /\ TasksAreDrawn'
  BY <1>0, <1>4 DEF CallReturns, TypeOK, Occupying, hubVars, doorVars
<1>5. ASSUME NEW r \in Runs, TakeSnapshot(r)
      PROVE  OneRunAtATime' /\ TasksAreDrawn'
  BY <1>0, <1>5 DEF TakeSnapshot, TypeOK, Occupying, hubVars, doorVars
<1>6. ASSUME NEW r \in Runs, ClearRun(r)
      PROVE  OneRunAtATime' /\ TasksAreDrawn'
  <2>1. /\ scn' = [scn EXCEPT ![r] = "final"] /\ scn \in [Runs -> TaskPos]
        /\ run' = NoRun /\ created' = created /\ scn[r] = "clear"
    BY <1>0, <1>6 DEF ClearRun, TypeOK, doorVars
  <2>2. run = r
    BY <2>1 DEF Occupying
  <2>3. \A q \in Runs : scn'[q] \notin Occupying
    BY <2>1, <2>2 DEF Occupying
  <2> QED
    BY <2>1, <2>3 DEF NoRun, Runs
<1>7. ASSUME NEW r \in Runs, TaskRecord(r)
      PROVE  OneRunAtATime' /\ TasksAreDrawn'
  BY <1>1, <1>7 DEF TaskRecord, hubVars, doorVars
<1>8. ASSUME NEW v \in Visitors, PassThrottle(v) \/ AlreadyRunning(v)
      PROVE  OneRunAtATime' /\ TasksAreDrawn'
  BY <1>1, <1>8 DEF PassThrottle, AlreadyRunning, hubVars, taskVars
<1>9. CASE ThrottleExpires
  BY <1>1, <1>9 DEF ThrottleExpires, hubVars, taskVars
<1>10. ASSUME NEW r \in Runs, ZentraleStep(r)
       PROVE  OneRunAtATime' /\ TasksAreDrawn'
  BY <1>1, <1>10 DEF ZentraleStep, Briefing, HopStarts, HopEnds, Answers, hubVars, doorVars, taskVars
<1>11. ASSUME NEW p \in net, NodeHop(p) \/ NodeHopRefused(p) \/ ReportLost(p)
       PROVE  OneRunAtATime' /\ TasksAreDrawn'
  BY <1>1, <1>11 DEF NodeHop, TakeReport, NodeHopRefused, ReportLost, hubVars, doorVars, taskVars
<1>12. ASSUME NEW e \in accepted \cup recorded, HandlerRecord(e) \/ HandlerDropped(e) \/ HandlerSend(e)
       PROVE  OneRunAtATime' /\ TasksAreDrawn'
  BY <1>1, <1>12 DEF HandlerRecord, HandlerDropped, HandlerSend, hubVars, doorVars, taskVars
<1>13. CASE UNCHANGED vars
  BY <1>1, <1>13 DEF vars, hubVars, doorVars, taskVars
<1> QED
  BY <1>2, <1>3, <1>4, <1>5, <1>6, <1>7, <1>8, <1>9, <1>10, <1>11, <1>12, <1>13
     DEF Next, DoorStep, TaskStep, Rest

\* However many requests pass the throttle at once, at most one run_scenario task
\* is between its acceptance and line 295, and it is the one the hub names.
THEOREM OneRun == Spec => []OneRunAtATime
<1>1. RunInv => OneRunAtATime
  BY DEF RunInv
<1> QED
  BY RunInit, RunNext, <1>1, PTL DEF Spec

-----------------------------------------------------------------------------
(* Live reports are accepted only from the run that occupies the hub.      *)

LEMMA AcceptedStep ==
  ASSUME RunInv, Next
  PROVE  \A e \in accepted' \ accepted : scn[e.run] \in Occupying
<1>1. ASSUME NEW p \in net, NodeHop(p)
      PROVE  \A e \in accepted' \ accepted : scn[e.run] \in Occupying
  <2>1. p.run \in Runs /\ run = p.run /\ accepted' = accepted \cup {NodeEvent(p)}
    BY <1>1 DEF NodeHop, TakeReport, RunInv, TypeInv, TypeOK, Report
  <2>2. NodeEvent(p).run = p.run
    BY DEF NodeEvent, Ev
  <2> QED
    BY <2>1, <2>2 DEF RunInv, OneRunAtATime
<1>2. CASE accepted' \subseteq accepted
  BY <1>2
<1>3. (\E p \in net : NodeHop(p)) \/ accepted' \subseteq accepted
  BY DEF Next, DoorStep, PassThrottle, AlreadyRunning, StartRun, Accept, ThrottleExpires,
     TaskStep, TaskRecord, TaskSend, CallReturns, TakeSnapshot, ClearRun,
     ZentraleStep, Briefing, HopStarts, HopEnds, Answers,
     NodeHopRefused, ReportLost, HandlerRecord, HandlerDropped, HandlerSend, Rest,
     vars, nodeVars
<1> QED
  BY <1>1, <1>2, <1>3

\* A report of an earlier run, or one that arrives after its run was cleared, is
\* never accepted, in any interleaving of any number of runs.
THEOREM OnlyActiveReports == Spec => ReportsOnlyWhileActive
<1>1. RunInv /\ [Next]_vars => [\A e \in accepted' \ accepted : scn[e.run] \in Occupying]_vars
  BY AcceptedStep
<1> QED
  BY <1>1, RunInit, RunNext, PTL DEF Spec, ReportsOnlyWhileActive

-----------------------------------------------------------------------------
(* No hop is lost between live reports and trace, if handlers are not      *)
(* dropped inside emit.                                                    *)

Held == accepted \cup recorded \cup sent

LEMMA AccountedIsHeld ==
  ASSUME NEW r, NEW s
  PROVE  Accounted(r, s) <=> \E e \in Held : e \in HopOf(r, s)
BY DEF Accounted, Shown, OnItsWay, Held

\* An accepted report stays with its handler until it is on the stream.
LEMMA HeldGrows ==
  ASSUME ~Disconnects, [Next]_vars
  PROVE  Held \subseteq Held'
<1> USE DEF Held
<1>1. ASSUME NEW p \in net, NodeHop(p)
      PROVE  Held \subseteq Held'
  BY <1>1 DEF NodeHop, TakeReport, outVars
<1>2. ASSUME NEW e \in accepted, HandlerRecord(e) \/ HandlerDropped(e)
      PROVE  Held \subseteq Held'
  BY <1>2 DEF HandlerRecord, HandlerDropped
<1>3. ASSUME NEW e \in recorded, HandlerSend(e)
      PROVE  Held \subseteq Held'
  BY <1>3 DEF HandlerSend, Send
<1>4. ASSUME NEW r \in Runs, TaskSend(r)
      PROVE  Held \subseteq Held'
  BY <1>4 DEF TaskSend, Send, nodeVars
<1>5. CASE UNCHANGED <<accepted, recorded, sent>>
  BY <1>5
<1> QED
  BY <1>1, <1>2, <1>3, <1>4, <1>5
     DEF Next, DoorStep, PassThrottle, AlreadyRunning, StartRun, Accept, ThrottleExpires,
     TaskStep, TaskRecord, CallReturns, TakeSnapshot, ClearRun,
     ZentraleStep, Briefing, HopStarts, HopEnds, Answers,
     NodeHopRefused, ReportLost, Rest, vars, nodeVars, outVars

LEMMA AccountedStays ==
  ASSUME ~Disconnects, [Next]_vars, NEW r, NEW s, Accounted(r, s)
  PROVE  Accounted(r, s)'
BY HeldGrows, AccountedIsHeld DEF Accounted, Shown, OnItsWay, Held, HopOf

\* Zentrale's answer is final.
LEMMA AnswerNext ==
  ASSUME TypeInv, AnswerIsFinal, [Next]_vars
  PROVE  AnswerIsFinal'
<1> USE DEF TypeInv, TypeOK, AnswerIsFinal, Replied
<1>1. ASSUME NEW r \in Runs, NEW o \in Replied \cup {"lost"}, CallReturns(r, o)
      PROVE  AnswerIsFinal'
  BY <1>1 DEF CallReturns, zVars
<1>2. ASSUME NEW r \in Runs, ZentraleStep(r)
      PROVE  AnswerIsFinal'
  BY <1>2 DEF ZentraleStep, Briefing, HopStarts, HopEnds, Answers, taskVars
<1>3. CASE UNCHANGED <<outcome, zst>>
  BY <1>3
<1> QED
  BY <1>1, <1>2, <1>3
     DEF Next, DoorStep, PassThrottle, AlreadyRunning, StartRun, Accept, ThrottleExpires,
     TaskStep, TaskRecord, TaskSend, TakeSnapshot, ClearRun, NodeHop, TakeReport,
     NodeHopRefused, ReportLost, HandlerRecord, HandlerDropped, HandlerSend, Rest,
     vars, taskVars, zVars

\* The trace does not change after the call has returned.
LEMMA TraceStays ==
  ASSUME TypeInv, AnswerIsFinal, [Next]_vars, NEW r \in Runs, scn[r] # "call"
  PROVE  Trace(r)' = Trace(r)
<1> USE DEF TypeInv, TypeOK, Trace
<1>1. ASSUME NEW q \in Runs, NEW o \in Replied \cup {"lost"}, CallReturns(q, o)
      PROVE  Trace(r)' = Trace(r)
  BY <1>1 DEF CallReturns, zVars
<1>2. ASSUME NEW q \in Runs, HopEnds(q)
      PROVE  Trace(r)' = Trace(r)
  BY <1>2 DEF HopEnds, taskVars, AnswerIsFinal, Replied
<1>3. CASE UNCHANGED <<outcome, hops>>
  BY <1>3
<1> QED
  BY <1>1, <1>2, <1>3
     DEF Next, DoorStep, PassThrottle, AlreadyRunning, StartRun, Accept, ThrottleExpires,
     TaskStep, TaskRecord, TaskSend, TakeSnapshot, ClearRun, ZentraleStep, Briefing, HopStarts,
     Answers, NodeHop, TakeReport, NodeHopRefused, ReportLost, HandlerRecord, HandlerDropped,
     HandlerSend, Rest, vars, taskVars, zVars

LEMMA SeenNext ==
  ASSUME ~Disconnects, RunInv, SeenIsShown, [Next]_vars
  PROVE  SeenIsShown'
<1> USE DEF RunInv, TypeInv, TypeOK
<1>1. ASSUME NEW v \in Visitors, StartRun(v)
      PROVE  SeenIsShown'
  BY <1>1 DEF StartRun, Accept, SeenIsShown
<1>2. ASSUME NEW r \in Runs, ClearRun(r)
      PROVE  SeenIsShown'
  BY <1>2 DEF ClearRun, SeenIsShown
<1>3. ASSUME NEW p \in net, NodeHop(p)
      PROVE  SeenIsShown'
  <2> SUFFICES ASSUME NEW s \in seen'
               PROVE  Accounted(run, s)'
    BY <1>3 DEF SeenIsShown
  <2>1. /\ run # NoRun /\ run' = run /\ run = p.run
        /\ accepted' = accepted \cup {NodeEvent(p)}
    BY <1>3 DEF NodeHop, TakeReport, Report, Runs, NoRun
  <2>2. CASE s \in seen
    BY <2>1, <2>2, AccountedStays DEF SeenIsShown
  <2>3. CASE s \notin seen
    <3>1. p.state = "done" /\ s = p.seq
      BY <1>3, <2>3 DEF NodeHop, TakeReport, Report
    <3>2. NodeEvent(p) \in HopOf(run, s)
      BY <2>1, <3>1, NodeEventType DEF HopOf, NodeEvent, Ev
    <3> QED
      BY <2>1, <3>2 DEF Accounted, OnItsWay, HopOf
  <2> QED
    BY <2>2, <2>3
<1>4. CASE UNCHANGED <<run, seen>>
  BY <1>4, AccountedStays DEF SeenIsShown
<1> QED
  BY <1>1, <1>2, <1>3, <1>4
     DEF Next, DoorStep, PassThrottle, AlreadyRunning, ThrottleExpires,
     TaskStep, TaskRecord, TaskSend, CallReturns, TakeSnapshot, ZentraleStep, Briefing,
     HopStarts, HopEnds, Answers, NodeHopRefused, ReportLost, HandlerRecord,
     HandlerDropped, HandlerSend, Rest, vars, hubVars

LEMMA ReplayNext ==
  ASSUME ~Disconnects, HopInv, [Next]_vars
  PROVE  ReplayedIsShown' /\ EveryHopAccountedFor'
<1> USE DEF HopInv, RunInv, TypeInv, TypeOK
<1> DEFINE Past(q) == scn[q] \in {"clear", "final", "end"}
\* What the two parts say of one run.
<1> DEFINE Good(q) == /\ scn[q] = "trace" => \A s \in Trace(q) \ todo[q] : Accounted(q, s)
                      /\ Past(q) => \A s \in Trace(q) : Accounted(q, s)
<1>1. \A q \in Runs : Good(q)
  BY DEF ReplayedIsShown, EveryHopAccountedFor
<1>2. ASSUME NEW q \in Runs, scn'[q] = scn[q], todo'[q] = todo[q]
      PROVE  Good(q)'
  <2>1. scn[q] = "trace" \/ Past(q) => Trace(q)' = Trace(q)
    BY TraceStays
  <2> QED
    BY <1>1, <1>2, <2>1, AccountedStays
<1>3. SUFFICES \A q \in Runs : Good(q)'
  BY DEF ReplayedIsShown, EveryHopAccountedFor
<1>4. ASSUME NEW r \in Runs, TaskSend(r)
      PROVE  \A q \in Runs : Good(q)'
  <2>1. \A q \in Runs \ {r} : Good(q)'
    BY <1>2, <1>4 DEF TaskSend
  <2>2. /\ scn'[r] = NextPos(r) /\ todo'[r] = TodoAfter(r)
        /\ EventOf(r) \in sent' /\ scn[r] \in Emitting
    BY <1>4 DEF TaskSend, Send
  <2>3. CASE scn[r] = "trace"
    <3>1. PICK l \in todo[r] : l = Least(todo[r])
      BY <2>3, LeastHop DEF TraceHasWork
    <3>2. EventOf(r) \in HopOf(r, l)
      BY <2>2, <2>3, <3>1, EventOfType DEF EventOf, HopOf, Ev
    <3>3. Accounted(r, l)'
      BY <2>2, <3>2 DEF Accounted, Shown, HopOf
    <3>4. Trace(r)' = Trace(r)
      BY <2>3, TraceStays
    <3>5. todo'[r] = todo[r] \ {l}
      BY <2>2, <2>3, <3>1 DEF TodoAfter
    <3>6. \A s \in Trace(r)' \ todo'[r] : Accounted(r, s)'
      <4> SUFFICES ASSUME NEW s \in Trace(r) \ (todo[r] \ {l})
                   PROVE  Accounted(r, s)'
        BY <3>4, <3>5
      <4>1. CASE s = l
        BY <3>3, <4>1
      <4>2. CASE s \notin todo[r]
        BY <1>1, <2>3, <4>2, AccountedStays
      <4> QED
        BY <4>1, <4>2
    <3>7. Past(r)' => todo'[r] = {}
      BY <2>2, <2>3 DEF NextPos
    <3> QED
      BY <2>1, <3>6, <3>7
  <2>4. CASE scn[r] = "final"
    <3>1. Trace(r)' = Trace(r) /\ scn'[r] = "end"
      BY <2>2, <2>4, TraceStays DEF NextPos
    <3> QED
      BY <1>1, <2>1, <2>4, <3>1, AccountedStays
  <2>5. CASE scn[r] \notin {"trace", "final"}
    <3>1. scn'[r] # "trace" /\ ~Past(r)'
      BY <2>2, <2>5 DEF NextPos, Emitting
    <3> QED
      BY <2>1, <3>1
  <2> QED
    BY <2>3, <2>4, <2>5
<1>5. ASSUME NEW r \in Runs, TakeSnapshot(r)
      PROVE  \A q \in Runs : Good(q)'
  <2>1. \A q \in Runs \ {r} : Good(q)'
    BY <1>2, <1>5 DEF TakeSnapshot
  <2>2. run = r /\ run # NoRun
    BY <1>5 DEF TakeSnapshot, OneRunAtATime, Occupying, Runs, NoRun
  <2>3. /\ todo'[r] = Trace(r) \ seen
        /\ scn'[r] = IF todo'[r] = {} THEN "clear" ELSE "trace"
        /\ Trace(r)' = Trace(r)
    BY <1>5, <2>2, TraceStays DEF TakeSnapshot
  <2>4. \A s \in seen : Accounted(r, s)'
    BY <2>2, AccountedStays DEF SeenIsShown
  <2> QED
    BY <2>1, <2>3, <2>4
<1>6. ASSUME NEW r \in Runs, ClearRun(r)
      PROVE  \A q \in Runs : Good(q)'
  <2>1. \A q \in Runs \ {r} : Good(q)'
    BY <1>2, <1>6 DEF ClearRun
  <2>2. Past(r) /\ scn'[r] = "final" /\ Trace(r)' = Trace(r)
    BY <1>6, TraceStays DEF ClearRun
  <2> QED
    BY <1>1, <2>1, <2>2, AccountedStays
<1>7. ASSUME NEW r \in Runs, NEW o \in Replied \cup {"lost"}, CallReturns(r, o)
      PROVE  \A q \in Runs : Good(q)'
  <2>1. scn'[r] = "done1"
    BY <1>7 DEF CallReturns
  <2> QED
    BY <1>2, <1>7, <2>1 DEF CallReturns
<1>8. ASSUME NEW v \in Visitors, StartRun(v)
      PROVE  \A q \in Runs : Good(q)'
  <2>1. /\ created + 1 \in Runs /\ todo' = todo
        /\ scn' = [scn EXCEPT ![created + 1] = "start"]
    BY <1>8, HubAssumption DEF StartRun, Accept, Runs
  <2> QED
    BY <1>2, <2>1
<1>9. CASE UNCHANGED <<scn, todo>>
  BY <1>2, <1>9
<1> QED
  BY <1>4, <1>5, <1>6, <1>7, <1>8, <1>9
     DEF Next, DoorStep, PassThrottle, AlreadyRunning, ThrottleExpires,
     TaskStep, TaskRecord, ZentraleStep, Briefing, HopStarts, HopEnds, Answers,
     NodeHop, TakeReport, NodeHopRefused, ReportLost, HandlerRecord, HandlerDropped,
     HandlerSend, Rest, vars, taskVars

LEMMA HopInit == Init => HopInv
BY RunInit DEF Init, HopInv, AnswerIsFinal, SeenIsShown, ReplayedIsShown, EveryHopAccountedFor, Replied

\* As long as no handler is dropped inside emit, every completed hop of an
\* answered run is shown live or from the trace, whatever reports are lost, late,
\* refused for want of budget or left over from other runs.
THEOREM NoHopLost == ~Disconnects => (Spec => []EveryHopAccountedFor)
<1> SUFFICES ASSUME ~Disconnects
             PROVE  Spec => []EveryHopAccountedFor
  OBVIOUS
<1>1. HopInv /\ [Next]_vars => HopInv'
  <2> SUFFICES ASSUME HopInv, [Next]_vars
               PROVE  HopInv'
    OBVIOUS
  <2>1. RunInv'
    BY RunNext DEF HopInv
  <2>2. AnswerIsFinal'
    BY AnswerNext DEF HopInv, RunInv
  <2>3. SeenIsShown'
    BY SeenNext DEF HopInv
  <2> QED
    BY <2>1, <2>2, <2>3, ReplayNext DEF HopInv
<1>2. HopInv => EveryHopAccountedFor
  BY DEF HopInv
<1> QED
  BY HopInit, <1>1, <1>2, PTL DEF Spec

-----------------------------------------------------------------------------
(* The invariant of the feed.  What is on the stream lies behind the position *)
(* of its run's task, or behind Zentrale's hops if it is a live report; and *)
(* a live report is at one place between Zentrale and the stream.           *)

RunStart(r) == Ev(r, "run_start", 0, "hub")
HopOneDone(r) == Ev(r, "done", 1, "hub")

EmitsInPlace == \A r \in Runs : half[r] => scn[r] \in Emitting

BriefedIsCalled == \A r \in Runs : zst[r] # "idle" => scn[r] \notin {"off", "start"}

\* The events the task of run r has broadcast.
Behind(r) ==
  /\ RunStart(r) \in sent <=> scn[r] \notin {"off", "start"}
  /\ Ev(r, "start", 1, "hub") \in sent => scn[r] \notin {"off", "start", "hop1"}
  /\ HopOneDone(r) \in sent <=> scn[r] \in {"snap", "trace", "clear", "final", "end"}
  /\ \A s \in HopSeqs : Ev(r, "done", s, "trace") \in sent =>
       scn[r] \in {"trace", "clear", "final", "end"} /\ s \notin todo[r]
  /\ \A k \in {"run_done", "run_error"} : Ev(r, k, 0, "hub") \in sent => scn[r] = "end"

TaskBehind == \A r \in Runs : Behind(r)

\* Zentrale has made the step that run, hop and state stand for.
Made(r, s, k) ==
  /\ zst[r] # "idle"
  /\ s < hops[r] + 2 \/ (s = hops[r] + 2 /\ k = "start" /\ zst[r] = "calling")

OnlyMade ==
  /\ \A p \in net : Made(p.run, p.seq, p.state)
  /\ \A e \in Held : e.src = "node" => Made(e.run, e.seq, e.kind)

OneWay ==
  /\ accepted \cup recorded \subseteq NodeEvents
  /\ sent \subseteq Told
  /\ \A p \in net : NodeEvent(p) \notin Held
  /\ accepted \cap (recorded \cup sent) = {}
  /\ recorded \cap sent = {}

FeedInv == RunInv /\ EmitsInPlace /\ BriefedIsCalled /\ TaskBehind /\ OnlyMade /\ OneWay

LEMMA FeedInvInit == Init => FeedInv
BY RunInit, HubAssumption
   DEF Init, FeedInv, EmitsInPlace, BriefedIsCalled, TaskBehind, Behind, RunStart, HopOneDone,
       OnlyMade, OneWay, Held

\* What the task of a run emits, case by case.
LEMMA EmitCases ==
  ASSUME RunInv, NEW r \in Runs, scn[r] \in Emitting
  PROVE  /\ EventOf(r) \in Told /\ EventOf(r).run = r /\ EventOf(r).src # "node"
         /\ scn[r] = "start" => EventOf(r) = RunStart(r)
         /\ scn[r] = "hop1"  => EventOf(r) = Ev(r, "start", 1, "hub")
         /\ scn[r] = "done1" => EventOf(r) = HopOneDone(r)
         /\ scn[r] = "trace" => /\ Least(todo[r]) \in todo[r] /\ Least(todo[r]) \in HopSeqs
                                /\ EventOf(r) = Ev(r, "done", Least(todo[r]), "trace")
         /\ scn[r] = "final" => \E k \in {"run_done", "run_error"} : EventOf(r) = Ev(r, k, 0, "hub")
<1> USE DEF EventOf, RunStart, HopOneDone, Emitting
<1>1. CASE scn[r] = "trace"
  <2>1. todo[r] \in SUBSET HopSeqs /\ todo[r] # {}
    BY <1>1 DEF RunInv, TypeInv, TypeOK, TraceHasWork
  <2>2. Least(todo[r]) \in todo[r] /\ Least(todo[r]) \in HopSeqs
    BY <2>1, LeastHop
  <2> QED
    BY <1>1, <2>2 DEF Told, Ev
<1>2. CASE scn[r] # "trace"
  BY <1>2 DEF Told, Ev
<1> QED
  BY <1>1, <1>2

LEMMA NodeSource ==
  ASSUME NEW e \in NodeEvents
  PROVE  /\ e.src = "node" /\ e.run \in Runs /\ e.kind \in {"start", "done"} /\ e \in Told
         /\ e.seq \in HopSeqs
BY DEF NodeEvents, Told, Ev

LEMMA ReportEvent ==
  ASSUME NEW p \in Report
  PROVE  /\ NodeEvent(p) \in NodeEvents
         /\ NodeEvent(p).run = p.run /\ NodeEvent(p).seq = p.seq
         /\ NodeEvent(p).kind = p.state /\ NodeEvent(p).src = "node"
BY DEF Report, NodeEvent, NodeEvents, Ev

LEMMA ReportsDiffer ==
  ASSUME NEW p \in Report, NEW q \in Report, NodeEvent(p) = NodeEvent(q)
  PROVE  p = q
BY ReportEvent DEF Report

\* Whatever the task emits differs from every event before it.
LEMMA EmitsFresh ==
  ASSUME FeedInv, NEW r \in Runs, scn[r] \in Emitting
  PROVE  EventOf(r) \notin sent
BY EmitCases DEF FeedInv, TaskBehind, Behind, Emitting

-----------------------------------------------------------------------------
(* The invariant is inductive: the task's part.                            *)

LEMMA SentStays ==
  ASSUME [Next]_vars
  PROVE  sent \subseteq sent'
BY DEF Next, DoorStep, PassThrottle, AlreadyRunning, StartRun, Accept, ThrottleExpires,
   TaskStep, TaskRecord, TaskSend, Send, CallReturns, TakeSnapshot, ClearRun,
   ZentraleStep, Briefing, HopStarts, HopEnds, Answers, NodeHop, TakeReport,
   NodeHopRefused, ReportLost, HandlerRecord, HandlerDropped, HandlerSend, Rest,
   vars, outVars

LEMMA BehindStays ==
  ASSUME FeedInv, NEW r \in Runs, scn'[r] = scn[r], todo'[r] = todo[r], sent \subseteq sent',
         \A e \in sent' \ sent : e.src = "node" \/ e.run # r
  PROVE  Behind(r)'
BY DEF FeedInv, TaskBehind, Behind, RunStart, HopOneDone, Ev

LEMMA BehindSend ==
  ASSUME FeedInv, NEW r \in Runs, TaskSend(r)
  PROVE  Behind(r)'
<1> USE DEF RunStart, HopOneDone, Ev
<1>1. /\ scn[r] \in Emitting /\ sent' = sent \cup {EventOf(r)}
      /\ scn'[r] = NextPos(r) /\ todo'[r] = TodoAfter(r)
  BY DEF TaskSend, Send, FeedInv, RunInv, TypeInv, TypeOK
<1>2. Behind(r)
  BY DEF FeedInv, TaskBehind
<1>3. CASE scn[r] = "trace"
  <2>1. /\ Least(todo[r]) \in HopSeqs /\ todo'[r] = todo[r] \ {Least(todo[r])}
        /\ EventOf(r) = Ev(r, "done", Least(todo[r]), "trace") /\ scn'[r] \in {"trace", "clear"}
    BY <1>1, <1>3, EmitCases DEF FeedInv, TodoAfter, NextPos
  <2> QED
    BY <1>1, <1>2, <1>3, <2>1 DEF Behind
<1>4. CASE scn[r] = "start"
  BY <1>1, <1>2, <1>4 DEF Behind, EventOf, NextPos, TodoAfter
<1>5. CASE scn[r] = "hop1"
  BY <1>1, <1>2, <1>5 DEF Behind, EventOf, NextPos, TodoAfter
<1>6. CASE scn[r] = "done1"
  BY <1>1, <1>2, <1>6 DEF Behind, EventOf, NextPos, TodoAfter
<1>7. CASE scn[r] = "final"
  BY <1>1, <1>2, <1>7 DEF Behind, EventOf, NextPos, TodoAfter
<1> QED
  BY <1>1, <1>3, <1>4, <1>5, <1>6, <1>7 DEF Emitting

LEMMA TaskBehindNext ==
  ASSUME FeedInv, [Next]_vars
  PROVE  TaskBehind'
<1> SUFFICES ASSUME NEW q \in Runs PROVE Behind(q)'
  BY DEF TaskBehind
<1> USE DEF FeedInv, RunInv, TypeInv, TypeOK
<1>0. sent \subseteq sent'
  BY SentStays
<1>1. ASSUME NEW r \in Runs, TaskSend(r)
      PROVE  Behind(q)'
  <2>1. CASE q = r
    BY <1>1, <2>1, BehindSend
  <2>2. CASE q # r
    <3>1. EventOf(r).run = r
      BY <1>1, EmitCases DEF TaskSend
    <3> QED
      BY <1>0, <1>1, <2>2, <3>1, BehindStays DEF TaskSend, Send
  <2> QED
    BY <2>1, <2>2
<1>2. ASSUME NEW e \in recorded, HandlerSend(e)
      PROVE  Behind(q)'
  <2>1. e.src = "node"
    BY NodeSource DEF OneWay
  <2> QED
    BY <1>0, <1>2, <2>1, BehindStays DEF HandlerSend, Send, taskVars
<1>3. CASE UNCHANGED <<scn, todo, sent>>
  BY <1>0, <1>3, BehindStays
<1>4. ASSUME NEW r \in Runs, scn'[q] = scn[q] \/ q = r, todo'[q] = todo[q] \/ q = r, sent' = sent,
             NEW o \in Replied \cup {"lost"}, CallReturns(r, o) \/ TakeSnapshot(r) \/ ClearRun(r)
      PROVE  Behind(q)'
  <2>1. CASE q # r
    BY <1>0, <1>4, <2>1, BehindStays
  <2>2. CASE q = r
    <3>1. Behind(r)
      BY DEF TaskBehind
    <3>2. CASE CallReturns(r, o)
      BY <1>4, <2>2, <3>1, <3>2 DEF CallReturns, Behind
    <3>3. CASE TakeSnapshot(r)
      BY <1>4, <2>2, <3>1, <3>3 DEF TakeSnapshot, Behind
    <3>4. CASE ClearRun(r)
      BY <1>4, <2>2, <3>1, <3>4 DEF ClearRun, Behind
    <3> QED
      BY <1>4, <3>2, <3>3, <3>4
  <2> QED
    BY <2>1, <2>2
<1>5. ASSUME NEW r \in Runs, NEW o \in Replied \cup {"lost"}, CallReturns(r, o)
      PROVE  Behind(q)'
  BY <1>4, <1>5 DEF CallReturns, outVars
<1>6. ASSUME NEW r \in Runs, TakeSnapshot(r) \/ ClearRun(r)
      PROVE  Behind(q)'
  <2>1. "lost" \in Replied \cup {"lost"}
    OBVIOUS
  <2> QED
    BY <1>4, <1>6, <2>1 DEF TakeSnapshot, ClearRun, outVars
<1>7. ASSUME NEW v \in Visitors, StartRun(v)
      PROVE  Behind(q)'
  <2>1. /\ created + 1 \in Runs /\ scn[created + 1] = "off"
        /\ scn' = [scn EXCEPT ![created + 1] = "start"] /\ UNCHANGED <<todo, sent>>
    BY <1>7, HubAssumption DEF StartRun, Accept, TasksAreDrawn, Runs, outVars
  <2>2. CASE q # created + 1
    BY <1>0, <2>1, <2>2, BehindStays
  <2>3. CASE q = created + 1
    <3>1. Behind(q)
      BY DEF TaskBehind
    <3> QED
      BY <2>1, <2>3, <3>1 DEF Behind
  <2> QED
    BY <2>2, <2>3
<1> QED
  BY <1>1, <1>2, <1>3, <1>5, <1>6, <1>7
     DEF Next, DoorStep, PassThrottle, AlreadyRunning, ThrottleExpires,
     TaskStep, TaskRecord, ZentraleStep, Briefing, HopStarts, HopEnds, Answers,
     NodeHop, TakeReport, NodeHopRefused, ReportLost, HandlerRecord, HandlerDropped, Rest,
     vars, taskVars, outVars

\* A half-done emit and a call to Zentrale are at their places in the task.
LEMMA PlacesNext ==
  ASSUME FeedInv, [Next]_vars
  PROVE  EmitsInPlace' /\ BriefedIsCalled'
<1> USE DEF FeedInv, RunInv, TypeInv, TypeOK, EmitsInPlace, BriefedIsCalled
<1>1. ASSUME NEW r \in Runs, TaskSend(r)
      PROVE  EmitsInPlace' /\ BriefedIsCalled'
  <2>1. NextPos(r) \notin {"off", "start"}
    BY <1>1 DEF TaskSend, NextPos, Emitting
  <2> QED
    BY <1>1, <2>1 DEF TaskSend, zVars
<1>2. ASSUME NEW r \in Runs, TaskRecord(r)
      PROVE  EmitsInPlace' /\ BriefedIsCalled'
  BY <1>2 DEF TaskRecord, zVars
<1>3. ASSUME NEW r \in Runs, NEW o \in Replied \cup {"lost"}, CallReturns(r, o)
      PROVE  EmitsInPlace' /\ BriefedIsCalled'
  BY <1>3 DEF CallReturns, zVars, Emitting
<1>4. ASSUME NEW r \in Runs, TakeSnapshot(r) \/ ClearRun(r)
      PROVE  EmitsInPlace' /\ BriefedIsCalled'
  BY <1>4 DEF TakeSnapshot, ClearRun, zVars, Emitting
<1>5. ASSUME NEW v \in Visitors, StartRun(v)
      PROVE  EmitsInPlace' /\ BriefedIsCalled'
  <2>1. /\ created + 1 \in Runs /\ scn[created + 1] = "off"
        /\ scn' = [scn EXCEPT ![created + 1] = "start"] /\ UNCHANGED <<half, zst>>
    BY <1>5, HubAssumption DEF StartRun, Accept, TasksAreDrawn, Runs, zVars
  <2> QED
    BY <2>1 DEF Emitting
<1>6. ASSUME NEW r \in Runs, ZentraleStep(r)
      PROVE  EmitsInPlace' /\ BriefedIsCalled'
  BY <1>6 DEF ZentraleStep, Briefing, HopStarts, HopEnds, Answers, taskVars
<1>7. CASE UNCHANGED <<scn, half, zst>>
  BY <1>7
<1> QED
  BY <1>1, <1>2, <1>3, <1>4, <1>5, <1>6, <1>7
     DEF Next, DoorStep, PassThrottle, AlreadyRunning, ThrottleExpires,
     TaskStep, NodeHop, TakeReport, NodeHopRefused, ReportLost, HandlerRecord, HandlerDropped,
     HandlerSend, Rest, vars, taskVars, zVars

-----------------------------------------------------------------------------
(* The invariant is inductive: the way of the live reports.                *)

LEMMA MadeStays ==
  ASSUME TypeInv, [Next]_vars, NEW r \in Runs, NEW s \in HopSeqs, NEW k, Made(r, s, k)
  PROVE  Made(r, s, k)'
<1> USE HubAssumption DEF TypeInv, TypeOK, Made, HopSeqs
<1>1. ASSUME NEW q \in Runs, ZentraleStep(q)
      PROVE  Made(r, s, k)'
  BY <1>1 DEF ZentraleStep, Briefing, HopStarts, HopEnds, Answers, Replied
<1>2. CASE UNCHANGED <<hops, zst>>
  BY <1>2
<1> QED
  BY <1>1, <1>2
     DEF Next, DoorStep, PassThrottle, AlreadyRunning, StartRun, Accept, ThrottleExpires,
     TaskStep, TaskRecord, TaskSend, CallReturns, TakeSnapshot, ClearRun, NodeHop, TakeReport,
     NodeHopRefused, ReportLost, HandlerRecord, HandlerDropped, HandlerSend, Rest, vars, zVars

\* Where the events held in the next state come from.
LEMMA HeldFrom ==
  ASSUME FeedInv, [Next]_vars, NEW e \in Held' \ Held
  PROVE  \/ \E r \in Runs : TaskSend(r) /\ e = EventOf(r)
         \/ \E p \in net : NodeHop(p) /\ e = NodeEvent(p)
BY DEF Held, Next, DoorStep, PassThrottle, AlreadyRunning, StartRun, Accept, ThrottleExpires,
   TaskStep, TaskRecord, TaskSend, Send, CallReturns, TakeSnapshot, ClearRun,
   ZentraleStep, Briefing, HopStarts, HopEnds, Answers, NodeHop, TakeReport,
   NodeHopRefused, ReportLost, HandlerRecord, HandlerDropped, HandlerSend, Rest,
   vars, nodeVars, outVars

\* Where the reports on their way in the next state come from.
LEMMA NetFrom ==
  ASSUME FeedInv, [Next]_vars, NEW p \in net' \ net
  PROVE  p \in Report /\ ~Made(p.run, p.seq, p.state) /\ Made(p.run, p.seq, p.state)'
<1> USE HubAssumption DEF FeedInv, RunInv, TypeInv, TypeOK
<1>1. PICK r \in Runs : HopStarts(r) \/ HopEnds(r)
  BY DEF Next, DoorStep, PassThrottle, AlreadyRunning, StartRun, Accept, ThrottleExpires,
     TaskStep, TaskRecord, TaskSend, CallReturns, TakeSnapshot, ClearRun,
     ZentraleStep, Briefing, Answers, NodeHop, TakeReport,
     NodeHopRefused, ReportLost, HandlerRecord, HandlerDropped, HandlerSend, Rest, vars
<1>2. p.run = r /\ p.seq = hops[r] + 2 /\ p \in Report
  BY <1>1 DEF HopStarts, HopEnds, HopsInOrder, Report, HopSeqs
<1>3. CASE HopStarts(r)
  BY <1>2, <1>3 DEF HopStarts, Made
<1>4. CASE HopEnds(r)
  BY <1>2, <1>4 DEF HopEnds, Made
<1> QED
  BY <1>1, <1>2, <1>3, <1>4

LEMMA HeldType ==
  ASSUME FeedInv
  PROVE  Held \subseteq Told
BY NodeSource DEF FeedInv, OneWay, Held

LEMMA ToldType ==
  ASSUME NEW e \in Told
  PROVE  /\ e.run \in Runs
         /\ e.src = "node" => e \in NodeEvents /\ e.seq \in HopSeqs
BY DEF Told, NodeEvents, Ev

LEMMA OnlyMadeNext ==
  ASSUME FeedInv, [Next]_vars
  PROVE  OnlyMade'
<1>1. TypeInv /\ net \subseteq Report
  BY DEF FeedInv, RunInv, TypeInv, TypeOK
<1>2. ASSUME NEW p \in net'
      PROVE  Made(p.run, p.seq, p.state)'
  <2>1. CASE p \in net
    BY <1>1, <2>1, MadeStays DEF FeedInv, OnlyMade, Report
  <2>2. CASE p \notin net
    BY <2>2, NetFrom
  <2> QED
    BY <2>1, <2>2
<1>3. ASSUME NEW e \in Held', e.src = "node"
      PROVE  Made(e.run, e.seq, e.kind)'
  <2>1. CASE e \in Held
    <3>1. e.run \in Runs /\ e.seq \in HopSeqs
      BY <1>3, <2>1, HeldType, ToldType
    <3> QED
      BY <1>1, <1>3, <2>1, <3>1, MadeStays DEF FeedInv, OnlyMade
  <2>2. CASE e \notin Held
    <3>1. PICK p \in net : e = NodeEvent(p)
      BY <1>3, <2>2, HeldFrom, EmitCases DEF TaskSend, FeedInv
    <3>2. Made(p.run, p.seq, p.state)'
      BY <1>1, MadeStays DEF FeedInv, OnlyMade, Report
    <3> QED
      BY <1>1, <3>1, <3>2, ReportEvent
  <2> QED
    BY <2>1, <2>2
<1> QED
  BY <1>2, <1>3 DEF OnlyMade

LEMMA OneWayNext ==
  ASSUME FeedInv, [Next]_vars
  PROVE  OneWay'
<1> USE DEF FeedInv
<1>0. net \subseteq Report /\ OneWay
  BY DEF RunInv, TypeInv, TypeOK
<1>1. ASSUME NEW p \in net', p \notin net
      PROVE  NodeEvent(p) \notin Held
  BY <1>1, NetFrom, ReportEvent DEF OnlyMade
<1>2. ASSUME NEW r \in Runs, TaskSend(r)
      PROVE  OneWay'
  <2>1. EventOf(r) \in Told /\ EventOf(r).src # "node" /\ EventOf(r) \notin NodeEvents
    BY <1>2, EmitCases, NodeSource DEF TaskSend
  <2>2. \A p \in net : NodeEvent(p) # EventOf(r)
    BY <1>0, <2>1, ReportEvent
  <2> QED
    BY <1>0, <1>2, <2>1, <2>2 DEF TaskSend, Send, OneWay, Held, nodeVars
<1>3. ASSUME NEW p \in net, NodeHop(p)
      PROVE  OneWay'
  <2>1. NodeEvent(p) \in NodeEvents /\ NodeEvent(p) \notin Held
    BY <1>0, ReportEvent DEF OneWay
  <2>2. \A q \in net \ {p} : NodeEvent(q) # NodeEvent(p)
    BY <1>0, ReportsDiffer
  <2> QED
    BY <1>0, <1>3, <2>1, <2>2 DEF NodeHop, TakeReport, OneWay, Held, outVars
<1>4. ASSUME NEW e \in accepted, HandlerRecord(e) \/ HandlerDropped(e)
      PROVE  OneWay'
  BY <1>0, <1>4 DEF HandlerRecord, HandlerDropped, OneWay, Held, outVars
<1>5. ASSUME NEW e \in recorded, HandlerSend(e)
      PROVE  OneWay'
  BY <1>0, <1>5, NodeSource DEF HandlerSend, Send, OneWay, Held
<1>6. CASE UNCHANGED <<accepted, recorded, sent>>
  <2>1. Held' = Held
    BY <1>6 DEF Held
  <2>2. \A p \in net' : NodeEvent(p) \notin Held'
    BY <1>0, <1>1, <2>1 DEF OneWay
  <2> QED
    BY <1>0, <1>6, <2>2 DEF OneWay
<1> QED
  BY <1>2, <1>3, <1>4, <1>5, <1>6
     DEF Next, DoorStep, PassThrottle, AlreadyRunning, StartRun, Accept, ThrottleExpires,
     TaskStep, TaskRecord, CallReturns, TakeSnapshot, ClearRun,
     ZentraleStep, Briefing, HopStarts, HopEnds, Answers,
     NodeHopRefused, ReportLost, Rest, vars, nodeVars, outVars

LEMMA FeedInvNext == FeedInv /\ [Next]_vars => FeedInv'
BY RunNext, TaskBehindNext, PlacesNext, OnlyMadeNext, OneWayNext DEF FeedInv

LEMMA FeedInvAlways == Spec => []FeedInv
BY FeedInvInit, FeedInvNext, PTL DEF Spec

-----------------------------------------------------------------------------
(* The order of the stream.                                                *)

\* What StreamOrder says of one event that is being broadcast.
InOrder(e) ==
  /\ e.kind # "run_start" => Ev(e.run, "run_start", 0, "hub") \in sent
  /\ e.src = "trace" => Ev(e.run, "done", 1, "hub") \in sent
  /\ e.src # "node" => \A d \in sent : d.run = e.run => ~IsTerminal(d)

LEMMA TerminalIsEnd ==
  ASSUME FeedInv, NEW d \in sent, IsTerminal(d)
  PROVE  d.run \in Runs /\ scn[d.run] = "end"
<1>1. d \in Told
  BY DEF FeedInv, OneWay
<1>2. \E r \in Runs, k \in {"run_done", "run_error"} : d = Ev(r, k, 0, "hub")
  BY <1>1 DEF Told, NodeEvents, IsTerminal, Ev
<1>3. PICK r \in Runs, k \in {"run_done", "run_error"} : d = Ev(r, k, 0, "hub")
  BY <1>2
<1>4. d.run = r
  BY <1>3 DEF Ev
<1> QED
  BY <1>3, <1>4 DEF FeedInv, TaskBehind, Behind

LEMMA TaskInOrder ==
  ASSUME FeedInv, NEW r \in Runs, scn[r] \in Emitting
  PROVE  InOrder(EventOf(r))
<1>1. Behind(r)
  BY DEF FeedInv, TaskBehind
<1>2. EventOf(r).kind # "run_start" => RunStart(r) \in sent
  BY <1>1 DEF Behind, EventOf, RunStart, Emitting, Ev
<1>3. EventOf(r).src = "trace" => HopOneDone(r) \in sent
  BY <1>1 DEF Behind, EventOf, HopOneDone, Emitting, Ev
<1>4. \A d \in sent : d.run = r => ~IsTerminal(d)
  BY TerminalIsEnd DEF Emitting
<1>5. EventOf(r).run = r
  BY EmitCases DEF FeedInv
<1> QED
  BY <1>2, <1>3, <1>4, <1>5 DEF InOrder, RunStart, HopOneDone

LEMMA ReportInOrder ==
  ASSUME FeedInv, NEW e \in recorded
  PROVE  InOrder(e)
<1>1. e \in NodeEvents /\ e.src = "node" /\ e.run \in Runs
  BY NodeSource DEF FeedInv, OneWay
<1>2. zst[e.run] # "idle"
  BY <1>1 DEF FeedInv, OnlyMade, Held, Made
<1>3. RunStart(e.run) \in sent
  BY <1>1, <1>2 DEF FeedInv, BriefedIsCalled, TaskBehind, Behind
<1> QED
  BY <1>1, <1>3 DEF InOrder, RunStart

LEMMA SentFrom ==
  ASSUME FeedInv, [Next]_vars, NEW e \in sent' \ sent
  PROVE  e \in recorded \/ \E r \in Runs : scn[r] \in Emitting /\ e = EventOf(r)
BY DEF Next, DoorStep, PassThrottle, AlreadyRunning, StartRun, Accept, ThrottleExpires,
   TaskStep, TaskRecord, TaskSend, Send, CallReturns, TakeSnapshot, ClearRun,
   ZentraleStep, Briefing, HopStarts, HopEnds, Answers, NodeHop, TakeReport,
   NodeHopRefused, ReportLost, HandlerRecord, HandlerDropped, HandlerSend, Rest,
   vars, outVars

\* Every run's events are broadcast in an order the page can follow, however many
\* live reports, left-overs of other runs and requests cross each other.
THEOREM StreamInOrder == Spec => StreamOrder
<1>1. FeedInv /\ [Next]_vars => [\A e \in sent' \ sent : InOrder(e)]_vars
  BY SentFrom, TaskInOrder, ReportInOrder
<1>2. Spec => [][\A e \in sent' \ sent : InOrder(e)]_vars
  BY <1>1, FeedInvAlways, PTL DEF Spec
<1> QED
  BY <1>2 DEF StreamOrder, InOrder

-----------------------------------------------------------------------------
(* HubRun implements HubFeed.                                              *)

LEMMA FeedRuns == Feed!Runs = Runs /\ Feed!NoRun = NoRun
BY DEF Feed!Runs, Runs, Feed!NoRun, NoRun

LEMMA AbstractInit == Init => Feed!Init
<1> SUFFICES ASSUME Init PROVE Feed!Init
  OBVIOUS
<1>1. FeedPhase = [r \in Runs |-> "off"]
  BY DEF Init, FeedPhase
<1>2. FeedPending = {}
  BY DEF Init, FeedPending
<1> QED
  BY <1>1, <1>2, FeedRuns DEF Init, Feed!Init

\* A step that changes no task's emit, no broadcast and no recording is not seen.
LEMMA FeedStands ==
  ASSUME UNCHANGED <<run, created, recorded, lastRun, sent, half>>,
         FeedPhase' = FeedPhase,
         \A r \in Runs : half[r] => EventOf(r)' = EventOf(r)
  PROVE  UNCHANGED Feed!feedVars
<1>1. FeedPending' = FeedPending
  BY DEF FeedPending
<1> QED
  BY <1>1 DEF Feed!feedVars

LEMMA EventOfStays ==
  ASSUME NEW r \in Runs, scn'[r] = scn[r], todo'[r] = todo[r], outcome'[r] = outcome[r]
  PROVE  EventOf(r)' = EventOf(r)
BY DEF EventOf

LEMMA StartRunAccepts ==
  ASSUME FeedInv, NEW v \in Visitors, StartRun(v)
  PROVE  Feed!Accept
<1>1. /\ run = NoRun /\ created < MaxRuns /\ created' = created + 1 /\ run' = created + 1
      /\ created + 1 \in Runs /\ scn[created + 1] = "off" /\ ~half[created + 1]
      /\ scn \in [Runs -> TaskPos] /\ half \in [Runs -> BOOLEAN]
      /\ scn' = [scn EXCEPT ![created + 1] = "start"]
      /\ UNCHANGED <<half, todo, outcome, recorded, lastRun, sent>>
  <2>1. created + 1 \in Runs /\ created + 1 > created
    BY HubAssumption DEF StartRun, Accept, FeedInv, RunInv, TypeInv, TypeOK, Runs
  <2>2. scn[created + 1] = "off" /\ ~half[created + 1]
    BY <2>1 DEF FeedInv, RunInv, TasksAreDrawn, EmitsInPlace, Emitting
  <2> QED
    BY <2>1, <2>2 DEF StartRun, Accept, FeedInv, RunInv, TypeInv, TypeOK, outVars, nodeVars
<1>2. FeedPhase' = [FeedPhase EXCEPT ![created + 1] = "accepted"]
  BY <1>1 DEF FeedPhase
<1>3. \A r \in Runs : half[r] => EventOf(r)' = EventOf(r)
  BY <1>1, EventOfStays
<1>4. FeedPending' = FeedPending
  BY <1>1, <1>3 DEF FeedPending
<1> QED
  BY <1>1, <1>2, <1>4, FeedRuns DEF Feed!Accept

LEMMA FeedCardinality ==
  ASSUME NEW S
  PROVE  Feed!Cardinality(S) = Cardinality(S)
BY DEF Cardinality, Feed!Cardinality

\* The first half of an emit does with last_run what the feed says.
LEMMA RecordKeeps ==
  ASSUME NEW e, Record(e)
  PROVE  lastRun' = IF Feed!Cardinality(Feed!Kept(e)) < HistCap
                    THEN Feed!Kept(e) \cup {e} ELSE Feed!Kept(e)
<1>1. Feed!Kept(e) = IF e.kind = "run_start" THEN {} ELSE lastRun
  BY DEF Feed!Kept, Feed!IsStart
<1>2. Feed!Cardinality(Feed!Kept(e)) = Cardinality(Feed!Kept(e))
  BY FeedCardinality
<1> QED
  BY <1>1, <1>2 DEF Record

\* Pending emits of two tasks, or of a task and a report, are different events.
LEMMA PendingIs ==
  ASSUME FeedInv
  PROVE  /\ \A r \in Runs : half[r] => EventOf(r) \notin recorded
         /\ \A r, q \in Runs : half[r] /\ half[q] /\ r # q => EventOf(r) # EventOf(q)
         /\ recorded \subseteq NodeEvents
<1>1. \A r \in Runs : half[r] => EventOf(r).run = r /\ EventOf(r).src # "node"
  BY EmitCases DEF FeedInv, EmitsInPlace
<1>2. recorded \subseteq NodeEvents
  BY DEF FeedInv, OneWay
<1> QED
  BY <1>1, <1>2, NodeSource

LEMMA TaskRecordRecords ==
  ASSUME FeedInv, NEW r \in Runs, TaskRecord(r)
  PROVE  EventOf(r) \in Told \ (FeedPending \cup sent) /\ Feed!Record(EventOf(r))
<1> DEFINE e == EventOf(r)
<1>1. /\ scn[r] \in Emitting /\ ~half[r] /\ half' = [half EXCEPT ![r] = TRUE]
      /\ half \in [Runs -> BOOLEAN] /\ scn \in [Runs -> TaskPos]
      /\ UNCHANGED <<run, created, recorded, sent, scn, todo, outcome>>
  BY DEF TaskRecord, FeedInv, RunInv, TypeInv, TypeOK, hubVars, doorVars, nodeVars
<1>2. e \in Told /\ e.run = r /\ e.src # "node"
  BY <1>1, EmitCases DEF FeedInv
<1>3. e \notin sent
  BY <1>1, EmitsFresh
<1>4. e \notin FeedPending
  <2>1. \A q \in Runs : half[q] => EventOf(q).run = q
    BY EmitCases DEF FeedInv, EmitsInPlace
  <2>2. e \notin recorded
    BY <1>2, NodeSource DEF FeedInv, OneWay
  <2> QED
    BY <1>1, <1>2, <2>1, <2>2 DEF FeedPending
<1>5. \A q \in Runs : EventOf(q)' = EventOf(q)
  BY <1>1, EventOfStays
<1>6. FeedPending' = FeedPending \cup {e}
  BY <1>1, <1>5 DEF FeedPending
<1>7. CASE scn[r] = "start"
  <2>1. e.kind = "run_start"
    BY <1>7 DEF EventOf, Ev
  <2>2. FeedPhase[r] = "accepted" /\ FeedPhase' = [FeedPhase EXCEPT ![r] = "opening"]
    BY <1>1, <1>7 DEF FeedPhase
  <2>3. Feed!MayRecord(e) /\ Feed!Advance(e, "opening", "ending")
    BY <1>2, <2>1, <2>2 DEF Feed!MayRecord, Feed!Advance, Feed!IsStart
  <2> HIDE DEF e
  <2> QED
    BY <1>1, <1>2, <1>3, <1>4, <1>6, <2>3, RecordKeeps DEF Feed!Record, TaskRecord, e
<1>8. CASE scn[r] = "final"
  <2>1. e.kind \in {"run_done", "run_error"}
    BY <1>8 DEF EventOf, Ev
  <2>2. FeedPhase[r] = "closing" /\ FeedPhase' = [FeedPhase EXCEPT ![r] = "ending"]
    BY <1>1, <1>8 DEF FeedPhase
  <2>3. Feed!MayRecord(e) /\ Feed!Advance(e, "opening", "ending")
    BY <1>2, <2>1, <2>2 DEF Feed!MayRecord, Feed!Advance, Feed!IsStart, Feed!IsTerminal
  <2> HIDE DEF e
  <2> QED
    BY <1>1, <1>2, <1>3, <1>4, <1>6, <2>3, RecordKeeps DEF Feed!Record, TaskRecord, e
<1>9. CASE scn[r] \in {"hop1", "done1", "trace"}
  <2>1. e.kind \in {"start", "done"}
    BY <1>9 DEF EventOf, Ev
  <2>2. FeedPhase[r] = "telling" /\ FeedPhase' = FeedPhase
    BY <1>1, <1>9 DEF FeedPhase
  <2>3. Feed!MayRecord(e) /\ Feed!Advance(e, "opening", "ending")
    BY <1>2, <2>1, <2>2 DEF Feed!MayRecord, Feed!Advance, Feed!IsStart, Feed!IsTerminal
  <2> HIDE DEF e
  <2> QED
    BY <1>1, <1>2, <1>3, <1>4, <1>6, <2>3, RecordKeeps DEF Feed!Record, TaskRecord, e
<1> QED
  BY <1>1, <1>7, <1>8, <1>9 DEF Emitting

LEMMA TaskSendSends ==
  ASSUME FeedInv, NEW r \in Runs, TaskSend(r)
  PROVE  EventOf(r) \in FeedPending /\ Feed!Send(EventOf(r))
<1> DEFINE e == EventOf(r)
<1>1. /\ scn[r] \in Emitting /\ half[r] /\ half' = [half EXCEPT ![r] = FALSE]
      /\ half \in [Runs -> BOOLEAN] /\ scn \in [Runs -> TaskPos]
      /\ scn' = [scn EXCEPT ![r] = NextPos(r)] /\ todo' = [todo EXCEPT ![r] = TodoAfter(r)]
      /\ todo \in [Runs -> SUBSET HopSeqs]
      /\ UNCHANGED <<run, created, recorded, lastRun, outcome>> /\ sent' = sent \cup {e}
  BY DEF TaskSend, Send, FeedInv, RunInv, TypeInv, TypeOK, hubVars, doorVars, nodeVars
<1>2. e.run = r
  BY <1>1, EmitCases DEF FeedInv
<1>3. e \in FeedPending
  BY <1>1 DEF FeedPending
<1>4. \A q \in Runs \ {r} : EventOf(q)' = EventOf(q)
  BY <1>1, EventOfStays
<1>5. FeedPending' = FeedPending \ {e}
  BY <1>1, <1>4, PendingIs DEF FeedPending
<1>6. CASE scn[r] = "start"
  <2>1. e.kind = "run_start"
    BY <1>6 DEF EventOf, Ev
  <2>2. FeedPhase' = [FeedPhase EXCEPT ![r] = "telling"]
    BY <1>1, <1>6 DEF FeedPhase, NextPos
  <2>3. Feed!Advance(e, "telling", "over")
    BY <1>2, <2>1, <2>2 DEF Feed!Advance, Feed!IsStart
  <2> QED
    BY <1>1, <1>3, <1>5, <2>3 DEF Feed!Send
<1>7. CASE scn[r] = "final"
  <2>1. e.kind \in {"run_done", "run_error"}
    BY <1>7 DEF EventOf, Ev
  <2>2. FeedPhase' = [FeedPhase EXCEPT ![r] = "over"]
    BY <1>1, <1>7 DEF FeedPhase, NextPos
  <2>3. Feed!Advance(e, "telling", "over")
    BY <1>2, <2>1, <2>2 DEF Feed!Advance, Feed!IsStart, Feed!IsTerminal
  <2> QED
    BY <1>1, <1>3, <1>5, <2>3 DEF Feed!Send
<1>8. CASE scn[r] \in {"hop1", "done1", "trace"}
  <2>1. e.kind \in {"start", "done"}
    BY <1>8 DEF EventOf, Ev
  <2>2. FeedPhase' = FeedPhase
    <3>1. NextPos(r) \in {"call", "snap", "trace", "clear"}
      BY <1>8 DEF NextPos
    <3> QED
      BY <1>1, <1>8, <3>1 DEF FeedPhase
  <2>3. Feed!Advance(e, "telling", "over")
    BY <1>2, <2>1, <2>2 DEF Feed!Advance, Feed!IsStart, Feed!IsTerminal
  <2> QED
    BY <1>1, <1>3, <1>5, <2>3 DEF Feed!Send
<1> QED
  BY <1>1, <1>6, <1>7, <1>8 DEF Emitting

LEMMA ClearRunCloses ==
  ASSUME FeedInv, NEW r \in Runs, ClearRun(r)
  PROVE  Feed!Close(r)
<1>1. /\ scn[r] = "clear" /\ ~half[r] /\ run = r /\ run' = NoRun
      /\ scn \in [Runs -> TaskPos] /\ scn' = [scn EXCEPT ![r] = "final"]
      /\ UNCHANGED <<created, half, todo, outcome, recorded, lastRun, sent>>
  BY DEF ClearRun, FeedInv, RunInv, TypeInv, TypeOK, OneRunAtATime, Occupying, EmitsInPlace,
         Emitting, doorVars, nodeVars, outVars
<1>2. FeedPhase[r] = "telling" /\ FeedPhase' = [FeedPhase EXCEPT ![r] = "closing"]
  BY <1>1 DEF FeedPhase
<1>3. \A q \in Runs : half[q] => EventOf(q)' = EventOf(q)
  BY <1>1, EventOfStays
<1>4. FeedPending' = FeedPending
  BY <1>1, <1>3 DEF FeedPending
<1>5. \A e \in FeedPending : e.run = r => e.src = "node"
  <2>1. \A q \in Runs : half[q] => EventOf(q).run = q
    BY EmitCases DEF FeedInv, EmitsInPlace
  <2> QED
    BY <1>1, <2>1, PendingIs, NodeSource DEF FeedPending
<1> QED
  BY <1>1, <1>2, <1>4, <1>5, FeedRuns DEF Feed!Close

\* The call and the snapshot change a task between two emits.
LEMMA BetweenEmits ==
  ASSUME FeedInv, NEW r \in Runs, NEW o \in Replied \cup {"lost"},
         CallReturns(r, o) \/ TakeSnapshot(r)
  PROVE  UNCHANGED Feed!feedVars
<1>1. /\ scn[r] \in {"call", "snap"} /\ ~half[r] /\ scn \in [Runs -> TaskPos]
      /\ \E t \in {"done1", "clear", "trace"} : scn' = [scn EXCEPT ![r] = t]
      /\ \A q \in Runs \ {r} : todo'[q] = todo[q] /\ outcome'[q] = outcome[q]
      /\ UNCHANGED <<run, created, half, recorded, lastRun, sent>>
  BY DEF CallReturns, TakeSnapshot, FeedInv, RunInv, TypeInv, TypeOK, EmitsInPlace, Emitting,
         hubVars, doorVars, nodeVars, outVars
<1>2. FeedPhase' = FeedPhase
  BY <1>1 DEF FeedPhase
<1>3. \A q \in Runs : half[q] => EventOf(q)' = EventOf(q)
  BY <1>1, EventOfStays
<1> QED
  BY <1>1, <1>2, <1>3, FeedStands

LEMMA ReportRecorded ==
  ASSUME FeedInv, NEW e \in accepted, HandlerRecord(e)
  PROVE  e \in Told \ (FeedPending \cup sent) /\ Feed!Record(e)
<1>1. e \in NodeEvents /\ e.src = "node" /\ e.run \in Runs /\ e \in Told
      /\ e.kind \in {"start", "done"}
  BY NodeSource DEF FeedInv, OneWay
<1>2. /\ recorded' = recorded \cup {e} /\ Record(e)
      /\ UNCHANGED <<run, created, scn, half, outcome, todo, sent>>
  BY DEF HandlerRecord, hubVars, doorVars, taskVars
<1>3. e \notin recorded \cup sent
  BY DEF FeedInv, OneWay
<1>4. \A r \in Runs : half[r] => EventOf(r) # e
  BY <1>1, EmitCases DEF FeedInv, EmitsInPlace
<1>5. FeedPhase' = FeedPhase
  BY <1>2 DEF FeedPhase
<1>6. FeedPending' = FeedPending \cup {e}
  <2>1. \A r \in Runs : EventOf(r)' = EventOf(r)
    BY <1>2, EventOfStays
  <2> QED
    BY <1>2, <2>1 DEF FeedPending
<1>7. FeedPhase[e.run] \notin Feed!Untold
  <2>1. scn[e.run] \notin {"off", "start"}
    BY <1>1 DEF FeedInv, OnlyMade, Held, Made, BriefedIsCalled
  <2> QED
    BY <1>1, <2>1 DEF FeedPhase, Feed!Untold
<1>8. Feed!MayRecord(e) /\ Feed!Advance(e, "opening", "ending")
  BY <1>1, <1>5, <1>7 DEF Feed!MayRecord, Feed!Advance, Feed!IsStart, Feed!IsTerminal
<1> QED
  BY <1>1, <1>2, <1>3, <1>4, <1>6, <1>8, RecordKeeps DEF Feed!Record, FeedPending

LEMMA ReportSent ==
  ASSUME FeedInv, NEW e \in recorded, HandlerSend(e)
  PROVE  e \in FeedPending /\ Feed!Send(e)
<1>1. e \in NodeEvents /\ e.src = "node" /\ e.kind \in {"start", "done"}
  BY NodeSource DEF FeedInv, OneWay
<1>2. /\ recorded' = recorded \ {e} /\ sent' = sent \cup {e}
      /\ UNCHANGED <<run, created, scn, half, outcome, todo, lastRun>>
  BY DEF HandlerSend, Send, hubVars, doorVars, taskVars
<1>3. \A r \in Runs : half[r] => EventOf(r) # e
  BY <1>1, EmitCases DEF FeedInv, EmitsInPlace
<1>4. FeedPhase' = FeedPhase
  BY <1>2 DEF FeedPhase
<1>5. FeedPending' = FeedPending \ {e}
  <2>1. \A r \in Runs : EventOf(r)' = EventOf(r)
    BY <1>2, EventOfStays
  <2> QED
    BY <1>2, <1>3, <2>1 DEF FeedPending
<1>6. Feed!Advance(e, "telling", "over")
  BY <1>1, <1>4 DEF Feed!Advance, Feed!IsStart, Feed!IsTerminal
<1> QED
  BY <1>2, <1>5, <1>6 DEF Feed!Send, FeedPending

\* What a watcher can see is untouched.
LEMMA Unseen ==
  ASSUME UNCHANGED <<run, created, recorded, lastRun, sent, scn, half, outcome, todo>>
  PROVE  UNCHANGED Feed!feedVars
<1>1. FeedPhase' = FeedPhase
  BY DEF FeedPhase
<1>2. \A r \in Runs : EventOf(r)' = EventOf(r)
  BY EventOfStays
<1> QED
  BY <1>1, <1>2, FeedStands

LEMMA FeedNext == FeedInv /\ [Next]_vars => [Feed!Next]_(Feed!feedVars)
<1> SUFFICES ASSUME FeedInv, [Next]_vars
             PROVE  Feed!Next \/ UNCHANGED Feed!feedVars
  OBVIOUS
<1>1. ASSUME NEW v \in Visitors, StartRun(v)
      PROVE  Feed!Next
  BY <1>1, StartRunAccepts DEF Feed!Next
<1>2. ASSUME NEW r \in Runs, TaskRecord(r)
      PROVE  Feed!Next
  BY <1>2, TaskRecordRecords DEF Feed!Next
<1>3. ASSUME NEW r \in Runs, TaskSend(r)
      PROVE  Feed!Next
  BY <1>3, TaskSendSends DEF Feed!Next
<1>4. ASSUME NEW r \in Runs, ClearRun(r)
      PROVE  Feed!Next
  BY <1>4, ClearRunCloses, FeedRuns DEF Feed!Next
<1>5. ASSUME NEW e \in accepted, HandlerRecord(e)
      PROVE  Feed!Next
  BY <1>5, ReportRecorded DEF Feed!Next
<1>6. ASSUME NEW e \in recorded, HandlerSend(e)
      PROVE  Feed!Next
  BY <1>6, ReportSent DEF Feed!Next
<1>7. ASSUME NEW r \in Runs, TakeSnapshot(r)
      PROVE  UNCHANGED Feed!feedVars
  BY <1>7, BetweenEmits
<1>8. CASE UNCHANGED <<run, created, recorded, lastRun, sent, scn, half, outcome, todo>>
  BY <1>8, Unseen
<1> QED
  BY <1>1, <1>2, <1>3, <1>4, <1>5, <1>6, <1>7, <1>8, BetweenEmits
     DEF Next, DoorStep, PassThrottle, AlreadyRunning, ThrottleExpires, TaskStep,
     ZentraleStep, Briefing, HopStarts, HopEnds, Answers, NodeHop, TakeReport,
     NodeHopRefused, ReportLost, HandlerDropped, Rest, vars, hubVars, doorVars, taskVars,
     nodeVars, outVars

\* The hub keeps the promise of HubFeed in every interleaving of handlers, tasks,
\* reports and runs: those who watch it may rely on HubFeed alone.
THEOREM HubImplementsFeed == Spec => ImplementsHubFeed
<1>1. Spec => Feed!Init /\ [][Feed!Next]_(Feed!feedVars)
  BY AbstractInit, FeedNext, FeedInvAlways, PTL DEF Spec
<1> QED
  BY <1>1 DEF ImplementsHubFeed, Feed!Spec

-----------------------------------------------------------------------------
(* What last_run keeps.  It is cleared by the start of a run and capped, so *)
(* an event of the newest run could be missing for two reasons: a clear     *)
(* that comes late, or left-over emits of older runs that use up the room.  *)

\* Emits of older runs that may still wait for the lock of last_run: live reports,
\* and terminal events, which are emitted after the run was given up.
Waiting == accepted \cup {EventOf(q) : q \in {q \in Runs : scn[q] = "final" /\ ~half[q]}}

\* At most K of them wait when a run_start is about to be recorded.
FewWait(K) ==
  \A r \in Runs : scn[r] = "start" /\ ~half[r] => Cardinality(Waiting) <= K

\* The newest run's start has been recorded.
Begun == created > 0 /\ (scn[created] = "start" => half[created])

\* What takes, or may still take, room from the newest run.
OldEvents == {e \in lastRun \cup Waiting : e.run # created}

OwnEvents(r) == {e \in Told : e.run = r}

Newest == run \in {NoRun, created}
KeptOfNewest == \A e \in sent \cup FeedPending : e.run = created => e \in lastRun

KeepInv(K) ==
  /\ FeedInv /\ Newest
  /\ lastRun \subseteq Told
  /\ KeptOfNewest
  /\ Begun => Cardinality(OldEvents) <= K

\* The events a run can have are numbered: at most 3 * LastSeq + 2.
LEMMA OwnCount ==
  ASSUME NEW r \in Runs
  PROVE  IsFiniteSet(OwnEvents(r)) /\ Cardinality(OwnEvents(r)) <= 3 * LastSeq + 2
<1> DEFINE N == 0..(3 * LastSeq + 1)
           number == [e \in OwnEvents(r) |->
             IF e.src = "trace" THEN e.seq + 3
             ELSE IF e.src = "node"
                  THEN IF e.kind = "start" THEN e.seq + LastSeq + 2 ELSE e.seq + 2 * LastSeq + 1
             ELSE IF e.kind = "run_start" THEN 0
             ELSE IF e.kind = "run_done" THEN 1
             ELSE IF e.kind = "run_error" THEN 2
             ELSE IF e.kind = "start" THEN 3 ELSE 4]
<1>1. \A e \in OwnEvents(r) :
        \/ e \in {RunStart(r), Ev(r, "run_done", 0, "hub"), Ev(r, "run_error", 0, "hub"),
                  Ev(r, "start", 1, "hub"), HopOneDone(r)}
        \/ \E s \in HopSeqs : e \in {Ev(r, "done", s, "trace"), Ev(r, "start", s, "node"),
                                     Ev(r, "done", s, "node")}
  BY DEF OwnEvents, Told, NodeEvents, RunStart, HopOneDone, Ev
<1>2. number \in [OwnEvents(r) -> N]
  BY <1>1, HubAssumption DEF RunStart, HopOneDone, Ev, HopSeqs
<1>3. \A d, e \in OwnEvents(r) : number[d] = number[e] => d = e
  <2> SUFFICES ASSUME NEW d \in OwnEvents(r), NEW e \in OwnEvents(r), number[d] = number[e]
               PROVE  d = e
    OBVIOUS
  <2> QED
    BY <1>1, HubAssumption DEF RunStart, HopOneDone, Ev, HopSeqs
<1>4. number \in Injection(OwnEvents(r), N)
  BY <1>2, <1>3 DEF Injection, IsInjective
<1>5. IsFiniteSet(N) /\ Cardinality(N) = 3 * LastSeq + 2
  BY FS_Interval, HubAssumption
<1> HIDE DEF N, number
<1>6. IsFiniteSet(OwnEvents(r)) /\ Cardinality(OwnEvents(r)) <= Cardinality(N)
  BY <1>4, <1>5, FS_Injection
<1> QED
  BY <1>5, <1>6

LEMMA ToldFinite == IsFiniteSet(Told)
<1> DEFINE own == [r \in Runs |-> OwnEvents(r)]
           Owns == {OwnEvents(r) : r \in Runs}
<1>1. own \in Surjection(Runs, Owns)
  BY DEF Surjection
<1>2. IsFiniteSet(Runs)
  BY FS_Interval, HubAssumption DEF Runs
<1>3. \A T \in Owns : IsFiniteSet(T)
  BY OwnCount
<1> HIDE DEF own
<1>4. IsFiniteSet(Owns)
  BY <1>1, <1>2, FS_Surjection
<1>5. IsFiniteSet(UNION Owns)
  <2> HIDE DEF Owns
  <2> QED
    BY <1>3, <1>4, FS_UNION
<1>6. Told \subseteq UNION Owns
  BY ToldType DEF OwnEvents
<1> QED
  BY <1>5, <1>6, FS_Subset

\* Nothing of a run has been accepted, recorded or sent before its start is recorded.
LEMMA NothingBeforeStart ==
  ASSUME FeedInv, NEW r \in Runs, scn[r] \in {"off", "start"}
  PROVE  \A e \in Held : e.run # r
<1> SUFFICES ASSUME NEW e \in Held, e.run = r
             PROVE  FALSE
  OBVIOUS
<1>1. e \in Told
  BY HeldType
<1>2. CASE e.src = "node"
  BY <1>2 DEF FeedInv, OnlyMade, Made, BriefedIsCalled
<1>3. CASE e.src # "node"
  <2>1. e \in sent
    BY <1>3, NodeSource DEF Held, FeedInv, OneWay
  <2>2. Behind(r)
    BY DEF FeedInv, TaskBehind
  <2>3. \/ e \in {RunStart(r), HopOneDone(r), Ev(r, "start", 1, "hub")}
        \/ \E k \in {"run_done", "run_error"} : e = Ev(r, k, 0, "hub")
        \/ \E s \in HopSeqs : e = Ev(r, "done", s, "trace")
    BY <1>1, <1>3, NodeSource DEF Told, RunStart, HopOneDone, Ev
  <2> QED
    BY <2>1, <2>2, <2>3 DEF Behind
<1> QED
  BY <1>2, <1>3

LEMMA NothingPendingBeforeStart ==
  ASSUME FeedInv, NEW r \in Runs, scn[r] \in {"off", "start"}, ~half[r]
  PROVE  \A e \in sent \cup FeedPending : e.run # r
<1>1. \A q \in Runs : half[q] => EventOf(q).run = q
  BY EmitCases DEF FeedInv, EmitsInPlace
<1> QED
  BY <1>1, NothingBeforeStart DEF FeedPending, Held

LEMMA WaitingType ==
  ASSUME FeedInv
  PROVE  Waiting \subseteq Told /\ IsFiniteSet(Waiting)
<1>1. \A q \in Runs : scn[q] = "final" => EventOf(q) \in Told
  BY EmitCases DEF FeedInv, Emitting
<1>2. accepted \subseteq Told
  BY HeldType DEF Held
<1>3. Waiting \subseteq Told
  BY <1>1, <1>2 DEF Waiting
<1> QED
  BY <1>3, ToldFinite, FS_Subset

LEMMA OldEventsFinite ==
  ASSUME FeedInv, lastRun \subseteq Told
  PROVE  IsFiniteSet(OldEvents)
<1>1. OldEvents \subseteq Told
  BY WaitingType DEF OldEvents
<1> QED
  BY <1>1, ToldFinite, FS_Subset

\* Once a run has begun there is room for each of its events.
LEMMA RoomLeft ==
  ASSUME NEW K \in Nat, HistCap >= 3 * LastSeq + 2 + K, KeepInv(K), Begun,
         NEW e \in Told, e.run = created, e \notin lastRun
  PROVE  Cardinality(lastRun) < HistCap
<1> DEFINE own == OwnEvents(created) \ {e}
<1>1. created \in Runs
  BY ToldType
<1>2. /\ IsFiniteSet(OwnEvents(created)) /\ e \in OwnEvents(created)
      /\ Cardinality(OwnEvents(created)) <= 3 * LastSeq + 2
  BY <1>1, OwnCount DEF OwnEvents
<1>3. IsFiniteSet(own) /\ Cardinality(own) = Cardinality(OwnEvents(created)) - 1
  BY <1>2, FS_RemoveElement
<1>4. IsFiniteSet(OldEvents) /\ Cardinality(OldEvents) <= K
  BY OldEventsFinite DEF KeepInv
<1>5. lastRun \subseteq own \cup OldEvents
  BY DEF KeepInv, OwnEvents, OldEvents
<1> HIDE DEF own
<1>6. /\ IsFiniteSet(own \cup OldEvents)
      /\ Cardinality(own \cup OldEvents)
           = Cardinality(own) + Cardinality(OldEvents) - Cardinality(own \cap OldEvents)
  BY <1>3, <1>4, FS_Union
<1>7. IsFiniteSet(own \cap OldEvents)
  BY <1>3, FS_Intersection
<1>8. Cardinality(lastRun) <= Cardinality(own \cup OldEvents) /\ IsFiniteSet(lastRun)
  BY <1>5, <1>6, FS_Subset
<1>9. /\ Cardinality(own) \in Nat /\ Cardinality(OldEvents) \in Nat
      /\ Cardinality(own \cap OldEvents) \in Nat /\ Cardinality(lastRun) \in Nat
      /\ Cardinality(OwnEvents(created)) \in Nat /\ Cardinality(own \cup OldEvents) \in Nat
  BY <1>2, <1>3, <1>4, <1>6, <1>7, <1>8, FS_CardinalityType
<1> QED
  BY <1>2, <1>3, <1>4, <1>6, <1>8, <1>9, HubAssumption

LEMMA KeptNext ==
  ASSUME NEW K \in Nat, HistCap >= 3 * LastSeq + 2 + K, KeepInv(K), [Next]_vars
  PROVE  Newest' /\ lastRun' \subseteq Told /\ KeptOfNewest'
<1> USE DEF KeepInv
<1>0. /\ created \in Nat /\ run \in Runs \cup {NoRun} /\ 0 \notin Runs
      /\ scn \in [Runs -> TaskPos] /\ half \in [Runs -> BOOLEAN]
  BY HubAssumption DEF FeedInv, RunInv, TypeInv, TypeOK, Runs
<1>1. CASE Feed!Accept
  <2>1. /\ created < MaxRuns /\ created' = created + 1 /\ run' = created + 1
        /\ UNCHANGED <<lastRun, sent, FeedPending>>
    BY <1>1 DEF Feed!Accept
  <2>2. created + 1 \in Runs /\ scn[created + 1] = "off" /\ ~half[created + 1]
    BY <1>0, <2>1, HubAssumption DEF Runs, FeedInv, RunInv, TasksAreDrawn, EmitsInPlace, Emitting
  <2> QED
    BY <2>1, <2>2, NothingPendingBeforeStart DEF Newest, KeptOfNewest
<1>2. ASSUME NEW e \in Told, Feed!Record(e)
      PROVE  Newest' /\ lastRun' \subseteq Told /\ KeptOfNewest'
  <2>1. /\ FeedPending' = FeedPending \cup {e} /\ UNCHANGED <<run, created, sent>>
        /\ Feed!MayRecord(e) /\ e.run \in Runs
        /\ lastRun' = IF Cardinality(Feed!Kept(e)) < HistCap
                      THEN Feed!Kept(e) \cup {e} ELSE Feed!Kept(e)
    BY <1>2, FeedCardinality, ToldType DEF Feed!Record
  <2>2. CASE e.kind = "run_start"
    <3>1. scn[e.run] = "start" /\ ~half[e.run]
      BY <2>1, <2>2 DEF Feed!MayRecord, Feed!IsStart, Feed!IsTerminal, FeedPhase
    <3>2. run = e.run /\ e.run = created
      BY <1>0, <2>1, <3>1 DEF FeedInv, RunInv, OneRunAtATime, Occupying, Newest, NoRun
    <3>3. \A d \in sent \cup FeedPending : d.run # created
      BY <2>1, <3>1, <3>2, NothingPendingBeforeStart
    <3>4. Feed!Kept(e) = {} /\ lastRun' = {e}
      BY <2>1, <2>2, FS_EmptySet, HubAssumption DEF Feed!Kept, Feed!IsStart
    <3> QED
      BY <2>1, <3>3, <3>4 DEF Newest, KeptOfNewest
  <2>3. CASE e.kind # "run_start"
    <3>1. scn[e.run] \notin {"off", "start"}
      BY <2>1, <2>3 DEF Feed!MayRecord, Feed!IsStart, Feed!IsTerminal, Feed!Untold, FeedPhase
    <3>2. e.run = created => Begun
      BY <1>0, <2>1, <3>1 DEF Begun
    <3>3. Feed!Kept(e) = lastRun
      BY <2>3 DEF Feed!Kept, Feed!IsStart
    <3>4. e.run = created => e \in lastRun'
      BY <2>1, <3>2, <3>3, RoomLeft
    <3> QED
      BY <2>1, <3>3, <3>4 DEF Newest, KeptOfNewest
  <2> QED
    BY <2>2, <2>3
<1>3. ASSUME NEW e \in FeedPending, Feed!Send(e)
      PROVE  Newest' /\ lastRun' \subseteq Told /\ KeptOfNewest'
  BY <1>3 DEF Feed!Send, Newest, KeptOfNewest
<1>4. ASSUME NEW r \in Runs, Feed!Close(r)
      PROVE  Newest' /\ lastRun' \subseteq Told /\ KeptOfNewest'
  BY <1>4, FeedRuns DEF Feed!Close, Newest, KeptOfNewest
<1>5. CASE UNCHANGED Feed!feedVars
  BY <1>5 DEF Feed!feedVars, Newest, KeptOfNewest
<1> QED
  BY <1>1, <1>2, <1>3, <1>4, <1>5, FeedNext, FeedRuns DEF Feed!Next

\* A task that now waits with its terminal event waited before, or has just given
\* up the run it occupied.
LEMMA FinalFrom ==
  ASSUME FeedInv, [Next]_vars, NEW q \in Runs, scn'[q] = "final", ~half'[q]
  PROVE  \/ scn[q] = "final" /\ ~half[q] /\ EventOf(q)' = EventOf(q)
         \/ run = q /\ EventOf(q)'.run = q
<1> USE DEF FeedInv, RunInv, TypeInv, TypeOK
<1>1. ASSUME NEW r \in Runs, TaskSend(r)
      PROVE  scn[q] = "final" /\ ~half[q] /\ outcome'[q] = outcome[q]
  <2>1. NextPos(r) # "final" /\ scn' = [scn EXCEPT ![r] = NextPos(r)]
    BY <1>1 DEF TaskSend, NextPos, Emitting
  <2> QED
    BY <1>1, <2>1 DEF TaskSend
<1>2. ASSUME NEW r \in Runs, ClearRun(r)
      PROVE  \/ scn[q] = "final" /\ ~half[q] /\ outcome'[q] = outcome[q]
             \/ run = q
  BY <1>2 DEF ClearRun, OneRunAtATime, Occupying
<1>3. ASSUME NEW r \in Runs, NEW o \in Replied \cup {"lost"}, CallReturns(r, o)
      PROVE  scn[q] = "final" /\ ~half[q] /\ outcome'[q] = outcome[q]
  BY <1>3 DEF CallReturns
<1>4. ASSUME NEW r \in Runs, TakeSnapshot(r)
      PROVE  scn[q] = "final" /\ ~half[q] /\ outcome'[q] = outcome[q]
  BY <1>4 DEF TakeSnapshot
<1>5. ASSUME NEW v \in Visitors, StartRun(v)
      PROVE  scn[q] = "final" /\ ~half[q] /\ outcome'[q] = outcome[q]
  BY <1>5 DEF StartRun, Accept
<1>6. ASSUME NEW r \in Runs, TaskRecord(r)
      PROVE  scn[q] = "final" /\ ~half[q] /\ outcome'[q] = outcome[q]
  BY <1>6 DEF TaskRecord
<1>7. ASSUME UNCHANGED <<scn, half, outcome>>
      PROVE  scn[q] = "final" /\ ~half[q] /\ outcome'[q] = outcome[q]
  BY <1>7
<1>8. \/ scn[q] = "final" /\ ~half[q] /\ outcome'[q] = outcome[q]
      \/ run = q
  BY <1>1, <1>2, <1>3, <1>4, <1>5, <1>6, <1>7
     DEF Next, DoorStep, PassThrottle, AlreadyRunning, ThrottleExpires, TaskStep,
     ZentraleStep, Briefing, HopStarts, HopEnds, Answers, NodeHop, TakeReport,
     NodeHopRefused, ReportLost, HandlerRecord, HandlerDropped, HandlerSend, Rest,
     vars, taskVars
<1> QED
  BY <1>8 DEF EventOf, Ev

\* No emit of an older run joins those that wait: a report is accepted, and a run
\* given up, only while the run is active, and then it is the newest.
LEMMA WaitingFrom ==
  ASSUME FeedInv, Newest, [Next]_vars, NEW e \in Waiting'
  PROVE  e \in Waiting \/ e.run = created
<1>0. run \in Runs => run = created
  BY HubAssumption DEF Newest, Runs, NoRun
<1>1. CASE e \in accepted' \ accepted
  <2>1. Next
    BY <1>1 DEF vars, nodeVars
  <2>2. FeedInv' /\ e \in Held'
    BY <1>1, FeedInvNext DEF Held
  <2>3. e.run \in Runs
    BY <2>2, <1>1 DEF FeedInv, RunInv, TypeInv, TypeOK, Event
  <2>4. run = e.run
    BY <1>1, <2>1, <2>3, AcceptedStep DEF FeedInv, RunInv, OneRunAtATime
  <2> QED
    BY <1>0, <2>3, <2>4
<1>2. CASE e \in accepted
  BY <1>2 DEF Waiting
<1>3. CASE e \notin accepted'
  <2>1. PICK q \in Runs : scn'[q] = "final" /\ ~half'[q] /\ e = EventOf(q)'
    BY <1>3 DEF Waiting
  <2>2. CASE scn[q] = "final" /\ ~half[q] /\ EventOf(q)' = EventOf(q)
    BY <2>1, <2>2 DEF Waiting
  <2>3. CASE run = q /\ EventOf(q)'.run = q
    BY <1>0, <2>1, <2>3
  <2> QED
    BY <2>1, <2>2, <2>3, FinalFrom
<1> QED
  BY <1>1, <1>2, <1>3

LEMMA LastRunFrom ==
  ASSUME FeedInv, Newest, [Next]_vars, NEW e \in lastRun'
  PROVE  e \in lastRun \cup Waiting \/ e.run = created
<1>1. ASSUME NEW r \in Runs, TaskRecord(r)
      PROVE  e \in lastRun \cup Waiting \/ e.run = created
  <2>1. e \in lastRun \/ e = EventOf(r)
    BY <1>1 DEF TaskRecord, Record
  <2>2. CASE scn[r] = "final"
    BY <1>1, <2>1, <2>2 DEF Waiting, TaskRecord
  <2>3. CASE scn[r] # "final"
    <3>1. EventOf(r).run = r
      BY <1>1, EmitCases DEF TaskRecord, FeedInv
    <3>2. run = r /\ r # NoRun
      BY <1>1, <2>3, HubAssumption
         DEF TaskRecord, Emitting, Occupying, FeedInv, RunInv, OneRunAtATime, Runs, NoRun
    <3> QED
      BY <2>1, <3>1, <3>2 DEF Newest
  <2> QED
    BY <2>2, <2>3
<1>2. ASSUME NEW d \in accepted, HandlerRecord(d)
      PROVE  e \in lastRun \cup Waiting
  BY <1>2 DEF HandlerRecord, Record, Waiting
<1>3. CASE UNCHANGED lastRun
  BY <1>3
<1> QED
  BY <1>1, <1>2, <1>3
     DEF Next, DoorStep, PassThrottle, AlreadyRunning, StartRun, Accept, ThrottleExpires,
     TaskStep, TaskSend, CallReturns, TakeSnapshot, ClearRun,
     ZentraleStep, Briefing, HopStarts, HopEnds, Answers, NodeHop, TakeReport,
     NodeHopRefused, ReportLost, HandlerDropped, HandlerSend, Rest,
     vars, outVars

\* A run that has just been accepted has not begun.
LEMMA NotBegunAfterAccept ==
  ASSUME FeedInv, [Next]_vars, created' # created
  PROVE  ~Begun'
<1>1. PICK v \in Visitors : StartRun(v)
  BY DEF Next, DoorStep, PassThrottle, AlreadyRunning, ThrottleExpires, TaskStep, TaskRecord,
     TaskSend, CallReturns, TakeSnapshot, ClearRun, ZentraleStep, Briefing, HopStarts, HopEnds,
     Answers, NodeHop, TakeReport, NodeHopRefused, ReportLost, HandlerRecord, HandlerDropped,
     HandlerSend, Rest, vars, doorVars
<1>2. /\ created + 1 \in Runs /\ scn[created + 1] = "off" /\ created' = created + 1
      /\ scn' = [scn EXCEPT ![created + 1] = "start"] /\ half' = half
      /\ scn \in [Runs -> TaskPos]
  BY <1>1, HubAssumption
     DEF StartRun, Accept, FeedInv, RunInv, TypeInv, TypeOK, TasksAreDrawn, Runs
<1>3. ~half[created + 1]
  BY <1>2 DEF FeedInv, EmitsInPlace, Emitting
<1> QED
  BY <1>2, <1>3 DEF Begun

\* A run begins by recording its start.
LEMMA BeginsByStart ==
  ASSUME FeedInv, [Next]_vars, Begun', ~Begun
  PROVE  created \in Runs /\ created' = created /\ TaskRecord(created) /\ scn[created] = "start"
<1> USE DEF FeedInv, RunInv, TypeInv, TypeOK
<1>2. created' = created
  BY NotBegunAfterAccept
<1>3. created \in Runs /\ scn[created] = "start" /\ ~half[created]
  BY <1>2, HubAssumption DEF Begun, Runs
<1>4. ASSUME NEW r \in Runs, TaskStep(r)
      PROVE  TaskRecord(created)
  <2>1. CASE r = created
    BY <1>3, <1>4, <2>1 DEF TaskStep, TaskSend, CallReturns, TakeSnapshot, ClearRun
  <2>2. CASE r # created
    <3>1. scn'[created] = scn[created] /\ half'[created] = half[created]
      BY <1>3, <1>4, <2>2
         DEF TaskStep, TaskRecord, TaskSend, CallReturns, TakeSnapshot, ClearRun
    <3> QED
      BY <1>2, <1>3, <3>1 DEF Begun
  <2> QED
    BY <2>1, <2>2
<1>5. ~UNCHANGED <<scn, half>>
  BY <1>2, <1>3 DEF Begun
<1>6. \E r \in Runs : TaskStep(r)
  BY <1>2, <1>5, HubAssumption
     DEF Next, DoorStep, PassThrottle, AlreadyRunning, StartRun, Accept, ThrottleExpires,
     ZentraleStep, Briefing, HopStarts, HopEnds, Answers, NodeHop, TakeReport,
     NodeHopRefused, ReportLost, HandlerRecord, HandlerDropped, HandlerSend, Rest,
     vars, taskVars
<1> QED
  BY <1>2, <1>3, <1>4, <1>6

LEMMA OldNext ==
  ASSUME NEW K \in Nat, KeepInv(K), FewWait(K), lastRun' \subseteq Told, [Next]_vars, Begun'
  PROVE  Cardinality(OldEvents') <= K
<1> USE DEF KeepInv
<1>0. IsFiniteSet(OldEvents) /\ IsFiniteSet(Waiting)
  BY OldEventsFinite, WaitingType
<1>1. CASE ~Begun
  <2>1. created \in Runs /\ created' = created /\ TaskRecord(created) /\ scn[created] = "start"
    BY <1>1, BeginsByStart
  <2>2. ~half[created] /\ Cardinality(Waiting) <= K
    BY <2>1 DEF FewWait, TaskRecord
  <2>3. EventOf(created).kind = "run_start" /\ EventOf(created).run = created
    BY <2>1 DEF EventOf, Ev
  <2>4. \A e \in lastRun' : e.run = created
    BY <2>1, <2>3 DEF TaskRecord, Record
  <2>5. OldEvents' \subseteq Waiting
    BY <2>1, <2>4, WaitingFrom DEF OldEvents
  <2>6. IsFiniteSet(OldEvents') /\ Cardinality(OldEvents') <= Cardinality(Waiting)
    BY <1>0, <2>5, FS_Subset
  <2>7. Cardinality(OldEvents') \in Nat /\ Cardinality(Waiting) \in Nat
    BY <1>0, <2>6, FS_CardinalityType
  <2> QED
    BY <2>2, <2>6, <2>7
<1>2. CASE Begun
  <2>1. CASE created' = created
    <3>1. OldEvents' \subseteq OldEvents
      BY <2>1, WaitingFrom, LastRunFrom DEF OldEvents
    <3>2. IsFiniteSet(OldEvents') /\ Cardinality(OldEvents') <= Cardinality(OldEvents)
      BY <1>0, <3>1, FS_Subset
    <3>3. Cardinality(OldEvents') \in Nat /\ Cardinality(OldEvents) \in Nat
      BY <1>0, <3>2, FS_CardinalityType
    <3> QED
      BY <1>2, <3>2, <3>3
  <2>2. CASE created' # created
    <3>1. ~Begun'
      BY <2>2, NotBegunAfterAccept
    <3> QED
      BY <3>1
  <2> QED
    BY <2>1, <2>2
<1> QED
  BY <1>1, <1>2

LEMMA KeepInit ==
  ASSUME NEW K
  PROVE  Init => KeepInv(K)
<1> SUFFICES ASSUME Init PROVE KeepInv(K)
  OBVIOUS
<1>1. FeedInv
  BY FeedInvInit
<1>2. FeedPending = {}
  BY DEF Init, FeedPending
<1> QED
  BY <1>1, <1>2 DEF Init, KeepInv, Newest, KeptOfNewest, Begun

LEMMA KeepNext ==
  ASSUME NEW K \in Nat, HistCap >= 3 * LastSeq + 2 + K
  PROVE  KeepInv(K) /\ FewWait(K) /\ [Next]_vars => KeepInv(K)'
<1> SUFFICES ASSUME KeepInv(K), FewWait(K), [Next]_vars
             PROVE  KeepInv(K)'
  OBVIOUS
<1>1. FeedInv'
  BY FeedInvNext DEF KeepInv
<1>2. Newest' /\ lastRun' \subseteq Told /\ KeptOfNewest'
  BY KeptNext
<1>3. Begun' => Cardinality(OldEvents') <= K
  BY <1>2, OldNext
<1>4. Told' = Told
  BY DEF Told, NodeEvents, Ev
<1> QED
  BY <1>1, <1>2, <1>3, <1>4 DEF KeepInv

LEMMA KeepComplete ==
  ASSUME NEW K
  PROVE  KeepInv(K) => LastRunComplete
BY DEF KeepInv, KeptOfNewest, LastRunComplete

\* What /api/state serves agrees with the stream: no event of the newest run that was
\* broadcast is missing from last_run, as long as the cap leaves room for a run's own
\* events and for the K emits of older runs that wait when its start is recorded.  With
\* the code's numbers, 80 entries and 14 events of a run, K is 66.
THEOREM LastRunKept ==
  ASSUME NEW K \in Nat, HistCap >= 3 * LastSeq + 2 + K
  PROVE  Spec /\ []FewWait(K) => []LastRunComplete
<1>1. Init => KeepInv(K)
  BY KeepInit
<1>2. KeepInv(K) /\ FewWait(K) /\ [Next]_vars => KeepInv(K)'
  BY KeepNext
<1>3. KeepInv(K) => LastRunComplete
  BY KeepComplete
<1> QED
  BY <1>1, <1>2, <1>3, PTL DEF Spec

\* In particular, whatever waits: with room for a run's own events beside all there are,
\* last_run is complete in every behaviour.
COROLLARY LastRunKeptBelowCap ==
  ASSUME HistCap >= 3 * LastSeq + 2 + Cardinality(Told)
  PROVE  Spec => []LastRunComplete
<1>1. Cardinality(Told) \in Nat
  BY ToldFinite, FS_CardinalityType
<1> SUFFICES ASSUME NEW K \in Nat, K = Cardinality(Told)
             PROVE  Spec => []LastRunComplete
  BY <1>1
<1>2. FeedInv => FewWait(K)
  <2> SUFFICES ASSUME FeedInv PROVE Cardinality(Waiting) <= Cardinality(Told)
    BY DEF FewWait
  <2> QED
    BY WaitingType, ToldFinite, FS_Subset
<1>3. Init => KeepInv(K)
  BY KeepInit
<1>4. KeepInv(K) /\ FewWait(K) /\ [Next]_vars => KeepInv(K)'
  BY KeepNext
<1>5. KeepInv(K) => LastRunComplete
  BY KeepComplete
<1> QED
  BY <1>2, <1>3, <1>4, <1>5, FeedInvAlways, PTL DEF Spec

=============================================================================
