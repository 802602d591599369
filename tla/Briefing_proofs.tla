--------------------------- MODULE Briefing_proofs ---------------------------
(* Theorems about Briefing, for every number of runs and handlers.         *)
EXTENDS Briefing, FieldMailbox_proofs

USE DEF None

-----------------------------------------------------------------------------
(* A briefing moves the mailbox only by steps of the mailbox.              *)

LEMMA BriefingIsMailboxStep == [BriefingNext]_allVars => [Next]_vars
<1> SUFFICES ASSUME [BriefingNext]_allVars PROVE [Next]_vars
  OBVIOUS
<1>1. ASSUME NEW r \in Runs, Ask(r) \/ BriefingStep(r) \/ Killed(r)
      PROVE  [Next]_vars
  <2>1. CASE FieldHop(r)
    BY <2>1 DEF FieldHop, Next
  <2>2. CASE Killed(r)
    BY <2>2 DEF Killed, Next
  <2>3. CASE ~FieldHop(r) /\ ~Killed(r)
    <3>1. UNCHANGED vars
      BY <1>1, <2>3 DEF Ask, BriefingStep, CallWerkstatt, CallHafenbuero, Decide, FieldAnswers
    <3> QED
      BY <3>1
  <2> QED
    BY <2>1, <2>2, <2>3
<1>2. ASSUME NEW c \in Calls, TouchStep(c) PROVE [Next]_vars
  <2>1. UNCHANGED vars
    BY <1>2 DEF TouchStep, Truncate, OpenFails, WriteSeen, WriteFails
  <2> QED
    BY <2>1
<1>3. SeenAges \/ NodeIsAway => UNCHANGED vars
  BY DEF SeenAges, NodeIsAway
<1>4. ASSUME NEW h \in Handlers, ServePoll(h) \/ PollKilled(h) PROVE [Next]_vars
  BY <1>4 DEF ServePoll, PollKilled, Next
<1>5. ASSUME NEW q \in receipts, ServeQuittung(q) \/ LoseQuittung(q) PROVE [Next]_vars
  BY <1>5 DEF ServeQuittung, LoseQuittung, Next
<1>6. NodeStep => Next
  BY DEF Next
<1>7. UNCHANGED allVars => UNCHANGED vars
  BY DEF allVars
<1> QED
  BY <1>1, <1>2, <1>3, <1>4, <1>5, <1>6, <1>7 DEF BriefingNext

\* Whatever briefings do around it, hop 4 goes on as the mailbox on its own does, so
\* that every theorem about FieldMailbox holds of a briefing.
THEOREM BriefingKeepsMailbox == BriefingSpec => Spec
<1>1. BriefingInit => Init
  BY DEF BriefingInit
<1> QED
  BY <1>1, BriefingIsMailboxStep, PTL DEF BriefingSpec, Spec

\* A briefing's hop 4 implements the job that is handed over once.
COROLLARY BriefingImplementsFieldJob == BriefingSpec => ImplementsFieldJob
BY BriefingKeepsMailbox, MailboxImplementsFieldJob, PTL

-----------------------------------------------------------------------------
(* Type correctness.                                                       *)

TouchTypes ==
  /\ lastseen \in {"fresh", "stale"}
  /\ near \in BOOLEAN /\ spoiled \in BOOLEAN
  /\ open \in SUBSET Calls /\ dated \in SUBSET Calls
  /\ open \cap dated = {}

\* A poll that is rewriting lastseen, or has done so, is being served.
BusyHandlers ==
  \A h \in Handlers : h \in open \cup dated => hpc[h] # "idle"

BriefTypes ==
  brief \in [Runs -> Outcomes \cup {"none", "hop2", "hop3", "decide", "field", "killed"}]

LEMMA BriefingTypeParts ==
  BriefingTypeOK <=> TypeOK /\ BriefTypes /\ TouchTypes /\ BusyHandlers
BY DEF BriefingTypeOK, BriefTypes, TouchTypes, BusyHandlers

LEMMA ServedIsCall == TypeOK => Served \subseteq Calls
BY DEF TypeOK, Served, Calls

LEMMA ServedIsBusy ==
  ASSUME TypeOK, NEW h \in Handlers, h \in Served
  PROVE  hpc[h] = "scan"
BY CallsAssumption DEF TypeOK, Served

LEMMA BriefTypesNext ==
  ASSUME BriefTypes, [BriefingNext]_allVars PROVE BriefTypes'
<1> USE DEF BriefTypes, Outcomes, Goto
<1>1. ASSUME NEW r \in Runs, Ask(r) \/ BriefingStep(r) \/ Killed(r) PROVE BriefTypes'
  BY <1>1 DEF Ask, BriefingStep, CallWerkstatt, CallHafenbuero, Decide, FieldHop,
              FieldAnswers, Killed, briefingVars
<1>2. ASSUME NEW c \in Calls, TouchStep(c) PROVE UNCHANGED brief
  BY <1>2 DEF TouchStep, Truncate, OpenFails, WriteSeen, WriteFails
<1>3. ASSUME NEW h \in Handlers, ServePoll(h) \/ PollKilled(h) PROVE UNCHANGED brief
  BY <1>3 DEF ServePoll, PollKilled, Forget
<1>4. ASSUME NEW q \in receipts, ServeQuittung(q) \/ LoseQuittung(q) PROVE UNCHANGED brief
  BY <1>4 DEF ServeQuittung, LoseQuittung, Forget
<1> QED
  BY <1>1, <1>2, <1>3, <1>4 DEF BriefingNext, SeenAges, NodeIsAway, briefingVars, allVars

\* A step of a briefing itself serves no call.
LEMMA BriefingServesNobody ==
  ASSUME NEW r \in Runs, Ask(r) \/ BriefingStep(r) \/ Killed(r)
  PROVE  UNCHANGED <<touchVars, hpc>>
BY DEF Ask, BriefingStep, CallWerkstatt, CallHafenbuero, Decide, FieldHop, FieldAnswers, Killed,
       briefingVars, vars, pollVars, HopStep, RemoveStale, WriteJob, ShowJob, ReadReceipt,
       WaitIsOver, RemoveJob, RemoveReceipt, HopCrashes

LEMMA TouchNext ==
  ASSUME TypeOK, TouchTypes, BusyHandlers, [BriefingNext]_allVars
  PROVE  TouchTypes' /\ BusyHandlers'
<1> USE DEF TouchTypes, BusyHandlers
<1>1. ASSUME NEW r \in Runs, Ask(r) \/ BriefingStep(r) \/ Killed(r)
      PROVE  TouchTypes' /\ BusyHandlers'
  BY <1>1, BriefingServesNobody DEF touchVars
<1>2. ASSUME NEW c \in Calls, TouchStep(c) PROVE TouchTypes' /\ BusyHandlers'
  <2> USE DEF TouchStep, Truncate, OpenFails, WriteSeen, WriteFails
  <2>1. UNCHANGED hpc
    BY <1>2 DEF vars, pollVars
  <2>2. c \in Handlers => hpc[c] # "idle"
    BY <1>2, ServedIsBusy
  <2>3. near' \in BOOLEAN /\ spoiled' \in BOOLEAN
    BY <1>2
  <2> QED
    BY <1>2, <2>1, <2>2, <2>3
<1>3. CASE SeenAges \/ NodeIsAway
  BY <1>3 DEF SeenAges, NodeIsAway, vars, pollVars
<1>4. ASSUME NEW h \in Handlers, ServePoll(h) \/ PollKilled(h)
      PROVE  TouchTypes' /\ BusyHandlers'
  <2>1. \A g \in Handlers \ {h} : hpc'[g] = hpc[g]
    BY <1>4 DEF ServePoll, PollKilled, PollStep, ListInbox, StatNames, Claim, ClaimUnread,
       ClaimFails, EndOfPass, Reply, HandlerDies, HandlerRests, PollWaitIsOver, TypeOK
  <2>2. spoiled' \in BOOLEAN
    BY <1>4 DEF ServePoll, PollKilled, Forget
  <2> QED
    BY <1>4, <2>1, <2>2 DEF ServePoll, PollKilled, Forget
<1>5. ASSUME NEW q \in receipts, ServeQuittung(q) \/ LoseQuittung(q)
      PROVE  TouchTypes' /\ BusyHandlers'
  <2>1. spoiled' \in BOOLEAN /\ UNCHANGED hpc
    BY <1>5 DEF ServeQuittung, LoseQuittung, Quittung, QuittungLost, Forget, pollVars
  <2> QED
    BY <1>5, <2>1 DEF ServeQuittung, LoseQuittung, Forget
<1>6. CASE NodeStep /\ UNCHANGED briefingVars
  <2>1. \A g \in Handlers : hpc'[g] = "idle" => hpc[g] = "idle"
    BY <1>6 DEF NodeStep, Poll, PollFails, PostReturns, NodeRestarts, Work, pollVars, TypeOK
  <2> QED
    BY <1>6, <2>1 DEF briefingVars, touchVars
<1>7. CASE UNCHANGED allVars
  BY <1>7 DEF allVars, briefingVars, touchVars, vars, pollVars
<1> QED
  BY <1>1, <1>2, <1>3, <1>4, <1>5, <1>6, <1>7 DEF BriefingNext

LEMMA BriefingTypeInit == BriefingInit => BriefingTypeOK
<1>1. BriefingInit => TypeOK
  BY TypeInit DEF BriefingInit
<1> QED
  BY <1>1, BriefingTypeParts
     DEF BriefingInit, BriefTypes, TouchTypes, BusyHandlers, Outcomes

LEMMA BriefingTypeNext == BriefingTypeOK /\ [BriefingNext]_allVars => BriefingTypeOK'
<1> SUFFICES ASSUME BriefingTypeOK, [BriefingNext]_allVars PROVE BriefingTypeOK'
  OBVIOUS
<1>1. TypeOK'
  BY BriefingTypeParts, BriefingIsMailboxStep, TypeNext
<1>2. BriefTypes' /\ TouchTypes' /\ BusyHandlers'
  BY BriefingTypeParts, BriefTypesNext, TouchNext
<1> QED
  BY <1>1, <1>2 DEF BriefingTypeOK, BriefTypes, TouchTypes, BusyHandlers

\* Every variable keeps its type, no call empties lastseen and has written it at the same
\* time, and a poll that rewrites it, or has done so, is being served.
THEOREM BriefingTypeCorrect == BriefingSpec => []BriefingTypeOK
BY BriefingTypeInit, BriefingTypeNext, PTL DEF BriefingSpec

-----------------------------------------------------------------------------
(* An outcome says what the field node did, and the file has a number of   *)
(* the window unless there is a reason.                                    *)

\* Until it has decided for the field node, and for good if it decides against, a
\* briefing has not begun its field hop; one that counts four sites read a good receipt.
OutcomesEarned ==
  \A r \in Runs :
    /\ brief[r] \in {"none", "hop2", "hop3", "decide", "three"} => hop[r] = "new"
    /\ brief[r] = "four" => got[r] = "good"

\* If a call came in within the window, the file has its number or that of another, unless
\* a call is rewriting it or the last one could not.
SeenIfNear == near /\ open = {} /\ ~spoiled => lastseen = "fresh"

BriefInv == BriefingTypeOK /\ MailInv /\ OutcomesEarned /\ SeenIfNear

LEMMA OutcomesNext ==
  ASSUME BriefingTypeOK, OutcomesEarned, [BriefingNext]_allVars
  PROVE  OutcomesEarned'
<1> USE DEF OutcomesEarned
<1>0. TypeOK /\ BriefTypes
  BY BriefingTypeParts
<1>1. ASSUME NEW r \in Runs, FieldHop(r) PROVE OutcomesEarned'
  <2>1. UNCHANGED brief /\ brief[r] = "field"
    BY <1>1 DEF FieldHop, briefingVars
  <2>2. \A q \in Runs \ {r} : hop'[q] = hop[q] /\ got'[q] = got[q]
    BY <1>0, <1>1 DEF FieldHop, HopStep, RemoveStale, WriteJob, ShowJob, ReadReceipt,
                      WaitIsOver, RemoveJob, RemoveReceipt, TypeOK
  <2> QED
    BY <2>1, <2>2
<1>2. ASSUME NEW r \in Runs, Killed(r) PROVE OutcomesEarned'
  <2>1. \A q \in Runs \ {r} : hop'[q] = hop[q] /\ got'[q] = got[q]
    BY <1>0, <1>2 DEF Killed, HopCrashes, TypeOK, vars, hopVars
  <2> QED
    BY <1>0, <1>2, <2>1 DEF Killed, BriefTypes
<1>3. ASSUME NEW r \in Runs, Ask(r) \/ CallWerkstatt(r) \/ CallHafenbuero(r) \/ Decide(r)
                             \/ FieldAnswers(r)
      PROVE  OutcomesEarned'
  <2>1. UNCHANGED <<hop, got>>
    BY <1>3 DEF Ask, CallWerkstatt, CallHafenbuero, Decide, FieldAnswers, vars, hopVars
  <2> QED
    BY <1>0, <1>3, <2>1 DEF Ask, CallWerkstatt, CallHafenbuero, Decide, FieldAnswers, Goto, BriefTypes
<1>4. ASSUME UNCHANGED <<brief, hop, got>> PROVE OutcomesEarned'
  BY <1>4
<1>5. ASSUME NEW c \in Calls, TouchStep(c) PROVE UNCHANGED <<brief, hop, got>>
  BY <1>5 DEF TouchStep, Truncate, OpenFails, WriteSeen, WriteFails, vars, hopVars
<1>6. ASSUME NEW h \in Handlers, ServePoll(h) \/ PollKilled(h)
      PROVE  UNCHANGED <<brief, hop, got>>
  <2>1. UNCHANGED brief
    BY <1>6 DEF ServePoll, PollKilled, Forget
  <2>2. UNCHANGED <<hop, got>>
    BY <1>6 DEF ServePoll, PollKilled, PollStep, ListInbox, StatNames, Claim, ClaimUnread,
       TakeOldest, ClaimFails, EndOfPass, Reply, PollWaitIsOver, HandlerDies, hopVars
  <2> QED
    BY <2>1, <2>2
<1>7. ASSUME NEW q \in receipts, ServeQuittung(q) \/ LoseQuittung(q)
      PROVE  UNCHANGED <<brief, hop, got>>
  BY <1>7 DEF ServeQuittung, LoseQuittung, Quittung, QuittungLost, Forget, hopVars
<1>8. NodeStep /\ UNCHANGED briefingVars => UNCHANGED <<brief, hop, got>>
  BY DEF NodeStep, Poll, PollFails, PostReturns, NodeRestarts, Work, briefingVars, hopVars
<1>9. SeenAges \/ NodeIsAway \/ UNCHANGED allVars => UNCHANGED <<brief, hop, got>>
  BY DEF SeenAges, NodeIsAway, allVars, briefingVars, vars, hopVars
<1> QED
  BY <1>1, <1>2, <1>3, <1>4, <1>5, <1>6, <1>7, <1>8, <1>9 DEF BriefingNext, BriefingStep

LEMMA SeenNext ==
  ASSUME TouchTypes, SeenIfNear, [BriefingNext]_allVars PROVE SeenIfNear'
<1> USE DEF SeenIfNear, TouchTypes
<1>1. ASSUME NEW r \in Runs, Ask(r) \/ BriefingStep(r) \/ Killed(r)
      PROVE  UNCHANGED touchVars
  BY <1>1, BriefingServesNobody
<1>2. ASSUME NEW c \in Calls, Truncate(c) \/ OpenFails(c) \/ WriteSeen(c) PROVE SeenIfNear'
  BY <1>2 DEF Truncate, OpenFails, WriteSeen
<1>3. ASSUME NEW c \in Calls, WriteFails(c) PROVE SeenIfNear'
  BY <1>3 DEF WriteFails
<1>4. SeenAges => SeenIfNear'
  BY DEF SeenAges
<1>5. NodeIsAway => SeenIfNear'
  BY DEF NodeIsAway
<1>6. ASSUME NEW h \in Handlers, ServePoll(h) PROVE SeenIfNear'
  BY <1>6 DEF ServePoll
<1>7. ASSUME NEW q \in receipts, ServeQuittung(q) PROVE SeenIfNear'
  BY <1>7 DEF ServeQuittung
<1>8. ASSUME NEW c, Forget(c) PROVE SeenIfNear'
  <2>1. CASE c \in open /\ near
    BY <1>8, <2>1 DEF Forget
  <2>2. CASE c \notin open
    BY <1>8, <2>2 DEF Forget
  <2>3. CASE ~near
    BY <1>8, <2>3 DEF Forget
  <2> QED
    BY <2>1, <2>2, <2>3
<1>9. UNCHANGED touchVars => SeenIfNear'
  BY DEF touchVars
<1> QED
  BY <1>1, <1>2, <1>3, <1>4, <1>5, <1>6, <1>7, <1>8, <1>9
     DEF BriefingNext, TouchStep, PollKilled, LoseQuittung, allVars, briefingVars

LEMMA BriefInvInit == BriefingInit => BriefInv
<1>1. BriefingInit => BriefingTypeOK /\ MailInv
  BY BriefingTypeInit, MailInit DEF BriefingInit
<1> QED
  BY <1>1 DEF BriefingInit, Init, BriefInv, OutcomesEarned, SeenIfNear

LEMMA BriefInvNext == BriefInv /\ [BriefingNext]_allVars => BriefInv'
BY BriefingTypeNext, BriefingTypeParts, MailNext, BriefingIsMailboxStep, OutcomesNext, SeenNext
   DEF BriefInv

LEMMA BriefInvAlways == BriefingSpec => []BriefInv
BY BriefInvInit, BriefInvNext, PTL DEF BriefingSpec

\* A briefing of three sites was never given to the field node, and in one of four the
\* field node was handed the job exactly once and answered it.
THEOREM BriefingIsHonest == BriefingSpec => []HonestBriefing
<1>1. BriefInv => HonestBriefing
  <2> SUFFICES ASSUME BriefInv, NEW r \in Runs
               PROVE  /\ brief[r] = "three" => handouts[r] = 0 /\ r \notin inbox
                      /\ brief[r] = "four" => handouts[r] = 1 /\ got[r] = "good"
    BY DEF HonestBriefing
  <2> USE DEF BriefInv, OutcomesEarned, MailInv
  <2>1. ASSUME brief[r] = "three" PROVE handouts[r] = 0 /\ r \notin inbox
    <3>1. r \notin inbox \cup claimed
      BY <2>1 DEF OnePlace
    <3> QED
      BY <3>1 DEF CountedOnce
  <2>2. ASSUME brief[r] = "four" PROVE handouts[r] = 1 /\ got[r] = "good"
    <3>1. got[r] = "good"
      BY <2>2
    <3> QED
      BY <3>1 DEF AnswersHanded
  <2> QED
    BY <2>1, <2>2
<1> QED
  BY <1>1, BriefInvAlways, PTL

\* A field node that called within the window is left out of a briefing only while one of
\* its calls is rewriting lastseen, or if one has failed to leave its number since the
\* last that did.
THEOREM LeftOutForAReason == BriefingSpec => LeftOutOnlyIfAway
<1> DEFINE Step == \A r \in Runs : brief[r] = "decide" /\ brief'[r] = "three" =>
                     ~near \/ open # {} \/ spoiled
<1>1. BriefInv /\ [BriefingNext]_allVars => [Step]_allVars
  <2> SUFFICES ASSUME BriefInv, [BriefingNext]_allVars, NEW r \in Runs,
                      brief[r] = "decide", brief'[r] = "three"
               PROVE  ~near \/ open # {} \/ spoiled
    BY DEF BriefInv
  <2>1. TouchTypes /\ BriefTypes /\ SeenIfNear
    BY BriefingTypeParts DEF BriefInv
  <2>2. PICK q \in Runs : Ask(q) \/ BriefingStep(q) \/ Killed(q)
    BY DEF BriefingNext, TouchStep, Truncate, OpenFails, WriteSeen, WriteFails, SeenAges,
       NodeIsAway, ServePoll, PollKilled, ServeQuittung, LoseQuittung, Forget, allVars,
       briefingVars
  <2>3. lastseen # "fresh"
    BY <2>1, <2>2 DEF Ask, BriefingStep, CallWerkstatt, CallHafenbuero, Decide, FieldHop,
       FieldAnswers, Killed, Goto, briefingVars, BriefTypes
  <2> QED
    BY <2>1, <2>3 DEF SeenIfNear
<1>2. BriefingSpec => [][Step]_allVars
  BY <1>1, BriefInvInit, BriefInvNext, PTL DEF BriefingSpec
<1> QED
  BY <1>2 DEF LeftOutOnlyIfAway

=============================================================================
