------------------------- MODULE FieldMailbox_proofs -------------------------
(* Theorems about FieldMailbox, for every number of runs and handlers.     *)
EXTENDS FieldMailbox, FiniteSetTheorems, WellFoundedInduction, TLAPS

USE DEF None

-----------------------------------------------------------------------------
(* Type correctness.                                                       *)

LEMMA NextPlace ==
  /\ Cardinality(Born) + 1 \in Nat
  /\ Cardinality(Shown) + 1 \in Nat /\ Cardinality(Shown) + 1 > 0
<1>1. IsFiniteSet(Born) /\ IsFiniteSet(Shown)
  BY MailboxAssumption, FS_Subset DEF Born, Shown
<1>2. Cardinality(Born) \in Nat /\ Cardinality(Shown) \in Nat
  BY <1>1, FS_CardinalityType
<1> QED
  BY <1>2

LEMMA TypeInit == Init => TypeOK
BY DEF Init, TypeOK, Receipt

LEMMA TypeHopStep ==
  ASSUME TypeOK, NEW r \in Runs, HopStep(r) \/ HopCrashes(r)
  PROVE  TypeOK'
<1> USE DEF TypeOK, Receipt, pollVars, nodeVars, fileVars
<1>1. CASE RemoveStale(r)
  BY <1>1 DEF RemoveStale
<1>2. CASE WriteJob(r)
  BY <1>2, NextPlace DEF WriteJob
<1>3. CASE ShowJob(r)
  BY <1>3, NextPlace DEF ShowJob
<1>4. CASE ReadReceipt(r)
  BY <1>4 DEF ReadReceipt
<1>5. CASE WaitIsOver(r)
  BY <1>5 DEF WaitIsOver
<1>6. CASE RemoveJob(r)
  BY <1>6 DEF RemoveJob
<1>7. CASE RemoveReceipt(r)
  BY <1>7 DEF RemoveReceipt
<1>8. CASE HopCrashes(r)
  BY <1>8 DEF HopCrashes
<1> QED
  BY <1>1, <1>2, <1>3, <1>4, <1>5, <1>6, <1>7, <1>8 DEF HopStep

LEMMA TypePollStep ==
  ASSUME TypeOK, NEW h \in Handlers, PollStep(h) \/ PollWaitIsOver(h) \/ HandlerDies(h)
  PROVE  TypeOK'
<1> USE DEF TypeOK, hopVars, nodeVars, fileVars
<1>1. CASE ListInbox(h)
  BY <1>1 DEF ListInbox
<1>2. CASE StatNames(h)
  BY <1>2 DEF StatNames
<1>3. CASE Claim(h)
  BY <1>3 DEF Claim, TakeOldest
<1>4. CASE ClaimUnread(h)
  BY <1>4 DEF ClaimUnread, TakeOldest
<1>5. CASE ClaimFails(h)
  BY <1>5 DEF ClaimFails
<1>6. CASE EndOfPass(h)
  BY <1>6 DEF EndOfPass
<1>7. CASE Reply(h)
  BY <1>7 DEF Reply, HandlerRests
<1>8. CASE PollWaitIsOver(h)
  BY <1>8 DEF PollWaitIsOver
<1>9. CASE HandlerDies(h)
  BY <1>9 DEF HandlerDies, HandlerRests
<1> QED
  BY <1>1, <1>2, <1>3, <1>4, <1>5, <1>6, <1>7, <1>8, <1>9 DEF PollStep

LEMMA TypeNodeStep ==
  ASSUME TypeOK, NodeStep
  PROVE  TypeOK'
<1> USE DEF TypeOK, Receipt, hopVars, fileVars, pollVars
<1>1. ASSUME NEW h \in Handlers, Poll(h)
      PROVE  TypeOK'
  BY <1>1 DEF Poll
<1>2. CASE PollFails
  BY <1>2 DEF PollFails
<1>3. CASE PostReturns
  BY <1>3 DEF PostReturns
<1>4. CASE NodeRestarts
  BY <1>4 DEF NodeRestarts
<1>5. ASSUME NEW q \in Receipt, Work(q)
      PROVE  TypeOK'
  BY <1>5 DEF Work
<1> QED
  BY <1>1, <1>2, <1>3, <1>4, <1>5 DEF NodeStep

LEMMA TypeReceipt ==
  ASSUME TypeOK, NEW q \in receipts, Quittung(q) \/ QuittungLost(q)
  PROVE  TypeOK'
BY DEF TypeOK, Receipt, Quittung, QuittungLost, hopVars, fileVars, pollVars, nodeVars

LEMMA TypeNext == TypeOK /\ [Next]_vars => TypeOK'
<1> SUFFICES ASSUME TypeOK, [Next]_vars PROVE TypeOK'
  OBVIOUS
<1>1. CASE UNCHANGED vars
  BY <1>1 DEF TypeOK, vars, hopVars, fileVars, pollVars, nodeVars
<1> QED
  BY <1>1, TypeHopStep, TypePollStep, TypeNodeStep, TypeReceipt DEF Next

\* Every variable keeps its type, and a field node at work has a job.
THEOREM TypeCorrect == Spec => []TypeOK
BY TypeInit, TypeNext, PTL DEF Spec

-----------------------------------------------------------------------------
(* The inductive invariant: a job is in one place, it was shown once, and  *)
(* everything that answers for it comes from its one hand-over.            *)

OnePlace ==
  /\ inbox \cap claimed = {}
  /\ \A r \in inbox \cup claimed : shown[r] > 0
  /\ \A r \in Runs : hop[r] \in {"new", "started", "written"} => shown[r] = 0
  /\ \A r \in Runs : hop[r] \in {"waiting", "settling", "settled", "ended"} => shown[r] > 0
  /\ \A r \in Runs : hop[r] \in {"settled", "ended"} => r \notin inbox

\* A job can be claimed and read by nobody, but not read without having been claimed.
CountedOnce ==
  \A r \in Runs : handouts[r] \in {0, 1} /\ (handouts[r] = 1 => r \in claimed)

AnswersHanded ==
  /\ \A h \in Handlers : hjob[h] # None => handouts[hjob[h]] = 1
  /\ njob # None => handouts[njob] = 1
  /\ \A q \in receipts : handouts[q.run] = 1
  /\ \A r \in Runs : outbox[r] # None => handouts[r] = 1
  /\ \A r \in Runs : got[r] # None => handouts[r] = 1

MailInv == TypeOK /\ OnePlace /\ CountedOnce /\ AnswersHanded

LEMMA MailInit == Init => MailInv
BY TypeInit DEF Init, MailInv, OnePlace, CountedOnce, AnswersHanded

LEMMA MailHopStep ==
  ASSUME MailInv, NEW r \in Runs, HopStep(r) \/ HopCrashes(r)
  PROVE  OnePlace' /\ CountedOnce' /\ AnswersHanded'
<1> USE DEF MailInv, TypeOK, OnePlace, CountedOnce, AnswersHanded, pollVars, nodeVars, fileVars
<1>1. CASE RemoveStale(r)
  BY <1>1 DEF RemoveStale
<1>2. CASE WriteJob(r)
  BY <1>2, NextPlace DEF WriteJob
<1>3. CASE ShowJob(r)
  BY <1>3, NextPlace DEF ShowJob
<1>4. CASE ReadReceipt(r)
  BY <1>4 DEF ReadReceipt
<1>5. CASE WaitIsOver(r)
  BY <1>5 DEF WaitIsOver
<1>6. CASE RemoveJob(r)
  BY <1>6 DEF RemoveJob
<1>7. CASE RemoveReceipt(r)
  BY <1>7 DEF RemoveReceipt
<1>8. CASE HopCrashes(r)
  BY <1>8 DEF HopCrashes
<1> QED
  BY <1>1, <1>2, <1>3, <1>4, <1>5, <1>6, <1>7, <1>8 DEF HopStep

LEMMA MailPollStep ==
  ASSUME MailInv, NEW h \in Handlers, PollStep(h) \/ PollWaitIsOver(h) \/ HandlerDies(h)
  PROVE  OnePlace' /\ CountedOnce' /\ AnswersHanded'
<1> USE DEF MailInv, TypeOK, OnePlace, CountedOnce, AnswersHanded, hopVars, nodeVars, fileVars
<1>1. CASE ListInbox(h)
  BY <1>1 DEF ListInbox
<1>2. CASE StatNames(h)
  BY <1>2 DEF StatNames
<1>3. CASE Claim(h)
  BY <1>3 DEF Claim, TakeOldest
<1>4. CASE ClaimUnread(h)
  BY <1>4 DEF ClaimUnread, TakeOldest
<1>5. CASE ClaimFails(h)
  BY <1>5 DEF ClaimFails
<1>6. CASE EndOfPass(h)
  BY <1>6 DEF EndOfPass
<1>7. CASE Reply(h)
  BY <1>7 DEF Reply, HandlerRests
<1>8. CASE PollWaitIsOver(h)
  BY <1>8 DEF PollWaitIsOver
<1>9. CASE HandlerDies(h)
  BY <1>9 DEF HandlerDies, HandlerRests
<1> QED
  BY <1>1, <1>2, <1>3, <1>4, <1>5, <1>6, <1>7, <1>8, <1>9 DEF PollStep

LEMMA MailNodeStep ==
  ASSUME MailInv, NodeStep
  PROVE  OnePlace' /\ CountedOnce' /\ AnswersHanded'
<1> USE DEF MailInv, TypeOK, OnePlace, CountedOnce, AnswersHanded, hopVars, fileVars, pollVars
<1>1. ASSUME NEW h \in Handlers, Poll(h)
      PROVE  OnePlace' /\ CountedOnce' /\ AnswersHanded'
  BY <1>1 DEF Poll
<1>2. CASE PollFails
  BY <1>2 DEF PollFails
<1>3. CASE PostReturns
  BY <1>3 DEF PostReturns
<1>4. CASE NodeRestarts
  BY <1>4 DEF NodeRestarts
<1>5. ASSUME NEW q \in Receipt, Work(q)
      PROVE  OnePlace' /\ CountedOnce' /\ AnswersHanded'
  BY <1>5 DEF Work
<1> QED
  BY <1>1, <1>2, <1>3, <1>4, <1>5 DEF NodeStep

LEMMA MailReceipt ==
  ASSUME MailInv, NEW q \in receipts, Quittung(q) \/ QuittungLost(q)
  PROVE  OnePlace' /\ CountedOnce' /\ AnswersHanded'
BY DEF MailInv, TypeOK, OnePlace, CountedOnce, AnswersHanded, Quittung, QuittungLost,
       hopVars, fileVars, pollVars, nodeVars

LEMMA MailNext == MailInv /\ [Next]_vars => MailInv'
<1> SUFFICES ASSUME MailInv, [Next]_vars PROVE MailInv'
  OBVIOUS
<1>1. TypeOK'
  BY TypeNext DEF MailInv
<1>2. CASE UNCHANGED vars
  BY <1>1, <1>2 DEF MailInv, OnePlace, CountedOnce, AnswersHanded,
                    vars, hopVars, fileVars, pollVars, nodeVars
<1> QED
  BY <1>1, <1>2, MailHopStep, MailPollStep, MailNodeStep, MailReceipt DEF Next, MailInv

LEMMA MailAlways == Spec => []MailInv
BY MailInit, MailNext, PTL DEF Spec

\* A job is read by at most one poll, with any number of handlers and jobs.
THEOREM OnceHandedOut == Spec => []HandedOutOnce
<1>1. MailInv => HandedOutOnce
  BY DEF MailInv, CountedOnce, HandedOutOnce
<1> QED
  BY <1>1, MailAlways, PTL

-----------------------------------------------------------------------------
(* A poll works from an old listing: what is pending and not on it came    *)
(* into the inbox later than everything that is.                           *)

LEMMA LeastNat ==
  ASSUME NEW S \in SUBSET Nat, S # {}
  PROVE  \E n \in S : \A m \in S : n <= m
<1> DEFINE R == OpToRel(<, Nat)
<1>1. IsWellFoundedOn(R, Nat)
  BY NatLessThanWellFounded
<1>2. \A n, m \in Nat : m < n => <<m, n>> \in R
  BY DEF OpToRel
<1> HIDE DEF R
<1>3. PICK n \in S : \A m \in S : ~ (<<m, n>> \in R)
  BY <1>1, WFMin, Zenon
<1>4. \A m \in S : ~ (m < n)
  BY <1>2, <1>3, Zenon
<1> QED
  BY <1>4

LEMMA OldestIsOldest ==
  ASSUME TypeOK, NEW S \in SUBSET Runs, S # {}
  PROVE  Oldest(S) \in S /\ \A q \in S : born[Oldest(S)] <= born[q]
<1> DEFINE B == {born[r] : r \in S}
<1>1. PICK n \in B : \A m \in B : n <= m
  <2>1. B \in SUBSET Nat /\ B # {}
    BY DEF TypeOK
  <2> HIDE DEF B
  <2> QED
    BY <2>1, LeastNat
<1>2. PICK r \in S : n = born[r]
  OBVIOUS
<1>3. \A q \in S : born[r] <= born[q]
  BY <1>1, <1>2
<1> QED
  BY <1>3 DEF Oldest

LastShown == \A r \in Runs : shown[r] <= Cardinality(Shown)

Listed ==
  \A h \in Handlers :
    /\ \A n \in names[h] : shown[n] > 0
    /\ hpc[h] \in {"stat", "claim"} =>
         \A n \in names[h], q \in inbox \ names[h] : shown[n] < shown[q]

OrderInv == MailInv /\ LastShown /\ Listed

LEMMA OrderInit == Init => OrderInv
<1>1. ASSUME Init PROVE Shown = {}
  BY <1>1 DEF Init, Shown
<1> QED
  BY <1>1, MailInit, FS_EmptySet DEF Init, OrderInv, LastShown, Listed

LEMMA ShownCount == UNCHANGED shown => UNCHANGED Cardinality(Shown)
BY DEF Shown

LEMMA ShowJobIsLast ==
  ASSUME OrderInv, NEW r \in Runs, ShowJob(r)
  PROVE  LastShown' /\ Listed'
<1> USE DEF OrderInv, MailInv, TypeOK, OnePlace, ShowJob
<1>1. shown[r] = 0 /\ Cardinality(Shown) \in Nat
  BY FS_Subset, FS_CardinalityType, MailboxAssumption DEF Shown
<1>2. IsFiniteSet(Shown) /\ r \notin Shown
  BY <1>1, FS_Subset, MailboxAssumption DEF Shown
<1>3. Shown' = Shown \cup {r}
  <2>1. shown'[r] > 0
    BY <1>1
  <2>2. \A q \in Runs \ {r} : shown'[q] = shown[q]
    OBVIOUS
  <2> QED
    BY <2>1, <2>2 DEF Shown
<1>4. Cardinality(Shown)' = Cardinality(Shown) + 1
  BY <1>2, <1>3, FS_AddElement
<1>5. LastShown'
  BY <1>1, <1>4 DEF LastShown
<1>6. Listed'
  BY <1>1 DEF Listed, LastShown, pollVars
<1> QED
  BY <1>5, <1>6

LEMMA OrderPollStep ==
  ASSUME OrderInv, NEW h \in Handlers, PollStep(h) \/ PollWaitIsOver(h) \/ HandlerDies(h)
  PROVE  Listed'
<1> USE DEF OrderInv, MailInv, TypeOK, OnePlace, Listed, fileVars
<1>1. CASE ListInbox(h)
  BY <1>1 DEF ListInbox
<1>2. CASE StatNames(h)
  BY <1>2 DEF StatNames
<1>3. CASE Claim(h)
  BY <1>3 DEF Claim, TakeOldest
<1>4. CASE ClaimUnread(h)
  BY <1>4 DEF ClaimUnread, TakeOldest
<1>5. CASE ClaimFails(h)
  BY <1>5 DEF ClaimFails
<1>6. CASE EndOfPass(h)
  BY <1>6 DEF EndOfPass
<1>7. CASE Reply(h)
  BY <1>7 DEF Reply, HandlerRests
<1>8. CASE PollWaitIsOver(h)
  BY <1>8 DEF PollWaitIsOver
<1>9. CASE HandlerDies(h)
  BY <1>9 DEF HandlerDies, HandlerRests
<1> QED
  BY <1>1, <1>2, <1>3, <1>4, <1>5, <1>6, <1>7, <1>8, <1>9 DEF PollStep

\* Every other step writes no job and starts no listing.
LEMMA OrderRest ==
  ASSUME OrderInv, UNCHANGED <<shown, names>>, inbox' \subseteq inbox,
         \A h \in Handlers : hpc'[h] \in {"stat", "claim"} => hpc[h] \in {"stat", "claim"}
  PROVE  Listed'
BY DEF OrderInv, Listed, MailInv, TypeOK

LEMMA OrderNext == OrderInv /\ [Next]_vars => OrderInv'
<1> SUFFICES ASSUME OrderInv, [Next]_vars PROVE OrderInv'
  OBVIOUS
<1>1. MailInv'
  BY MailNext DEF OrderInv
<1>2. ASSUME NEW r \in Runs, ShowJob(r) PROVE OrderInv'
  BY <1>1, <1>2, ShowJobIsLast DEF OrderInv
<1>3. ASSUME NEW r \in Runs, HopStep(r) \/ HopCrashes(r), ~ShowJob(r)
      PROVE  OrderInv'
  <2>1. inbox' \subseteq inbox /\ UNCHANGED <<shown, names, hpc>>
    BY <1>3 DEF HopStep, RemoveStale, WriteJob, ReadReceipt, WaitIsOver, RemoveJob, RemoveReceipt,
                HopCrashes, fileVars, pollVars
  <2> QED
    BY <1>1, <2>1, ShownCount, OrderRest DEF OrderInv, LastShown
<1>4. ASSUME NEW h \in Handlers, PollStep(h) \/ PollWaitIsOver(h) \/ HandlerDies(h)
      PROVE  OrderInv'
  <2>1. UNCHANGED shown
    BY <1>4 DEF PollStep, ListInbox, StatNames, Claim, ClaimUnread, TakeOldest, ClaimFails,
                EndOfPass, Reply, PollWaitIsOver, HandlerDies, fileVars
  <2> QED
    BY <1>1, <1>4, <2>1, ShownCount, OrderPollStep DEF OrderInv, LastShown
<1>5. CASE NodeStep
  <2>1. UNCHANGED <<inbox, shown, names>>
    BY <1>5 DEF NodeStep, Poll, PollFails, PostReturns, NodeRestarts, Work, fileVars, pollVars
  <2>2. \A h \in Handlers : hpc'[h] \in {"stat", "claim"} => hpc[h] \in {"stat", "claim"}
    BY <1>5 DEF NodeStep, Poll, PollFails, PostReturns, NodeRestarts, Work, pollVars,
                OrderInv, MailInv, TypeOK
  <2> QED
    BY <1>1, <2>1, <2>2, ShownCount, OrderRest DEF OrderInv, LastShown
<1>6. ASSUME NEW q \in receipts, Quittung(q) \/ QuittungLost(q)
      PROVE  OrderInv'
  <2>1. UNCHANGED <<inbox, shown, names, hpc>>
    BY <1>6 DEF Quittung, QuittungLost, fileVars, pollVars
  <2> QED
    BY <1>1, <2>1, ShownCount, OrderRest DEF OrderInv, LastShown
<1>7. CASE UNCHANGED vars
  <2>1. UNCHANGED <<inbox, shown, names, hpc>>
    BY <1>7 DEF vars, fileVars, pollVars
  <2> QED
    BY <1>1, <2>1, ShownCount, OrderRest DEF OrderInv, LastShown
<1> QED
  BY <1>2, <1>3, <1>4, <1>5, <1>6, <1>7 DEF Next

LEMMA TakesOldest ==
  ASSUME OrderInv, NEW h \in Handlers, Claim(h) \/ ClaimUnread(h), NEW r \in inbox \ inbox'
  PROVE  \A q \in inbox : born[r] <= born[q] \/ shown[r] < shown[q]
<1>0. TakeOldest(h)
  BY DEF Claim, ClaimUnread
<1>1. r = Oldest(names[h]) /\ names[h] \in SUBSET Runs /\ names[h] # {}
  BY <1>0 DEF TakeOldest, OrderInv, MailInv, TypeOK
<1>2. r \in names[h] /\ \A q \in names[h] : born[r] <= born[q]
  BY <1>1, OldestIsOldest DEF OrderInv, MailInv
<1>3. \A q \in inbox \ names[h] : shown[r] < shown[q]
  BY <1>0, <1>2 DEF TakeOldest, OrderInv, Listed
<1> QED
  BY <1>2, <1>3

\* Only a poll that takes a job moves it to claimed/.
LEMMA OnlyPollsTake ==
  ASSUME [Next]_vars, \A h \in Handlers : ~Claim(h) /\ ~ClaimUnread(h)
  PROVE  claimed' = claimed
<1>1. ASSUME NEW r \in Runs, HopStep(r) \/ HopCrashes(r) PROVE claimed' = claimed
  BY <1>1 DEF HopStep, RemoveStale, WriteJob, ShowJob, ReadReceipt, WaitIsOver, RemoveJob,
              RemoveReceipt, HopCrashes, fileVars
<1>2. ASSUME NEW h \in Handlers, PollStep(h) \/ PollWaitIsOver(h) \/ HandlerDies(h)
      PROVE  claimed' = claimed
  BY <1>2 DEF PollStep, ListInbox, StatNames, ClaimFails, EndOfPass, Reply, PollWaitIsOver,
              HandlerDies, fileVars
<1>3. NodeStep => claimed' = claimed
  BY DEF NodeStep, Poll, PollFails, PostReturns, NodeRestarts, Work, fileVars
<1>4. ASSUME NEW q \in receipts, Quittung(q) \/ QuittungLost(q) PROVE claimed' = claimed
  BY <1>4 DEF Quittung, QuittungLost, fileVars
<1>5. UNCHANGED vars => claimed' = claimed
  BY DEF vars, fileVars
<1> QED
  BY <1>1, <1>2, <1>3, <1>4, <1>5 DEF Next

\* The oldest job goes first: what is still pending when a poll takes a job was written
\* after that job or came into the inbox after it, although other polls and hops have
\* changed the inbox since svc_feld_abruf listed it.
THEOREM OldestFirst == Spec => HandsOutOldest
<1> DEFINE Step == \A r \in inbox \ inbox' : r \in claimed' \ claimed =>
                     \A q \in inbox : born[r] <= born[q] \/ shown[r] < shown[q]
<1>1. OrderInv /\ [Next]_vars => [Step]_vars
  BY TakesOldest, OnlyPollsTake
<1>2. Spec => [][Step]_vars
  BY <1>1, OrderInit, OrderNext, PTL DEF Spec
<1> QED
  BY <1>2 DEF HandsOutOldest

-----------------------------------------------------------------------------
(* The mailbox implements FieldJob.                                        *)

\* Where no file of the mailbox and no hop ends, the abstract job stands still.
LEMMA AbstractStands ==
  ASSUME inbox' = inbox, claimed' = claimed, shown' = shown, got' = got,
         \A r \in Runs : hop'[r] = "ended" <=> hop[r] = "ended"
  PROVE  UNCHANGED Abstract!vars
<1>1. \A r \in Runs : JobOf(r)' = JobOf(r)
  BY DEF JobOf
<1>2. \A r \in Runs : VerdictOf(r)' = VerdictOf(r)
  BY DEF VerdictOf
<1> QED
  BY <1>1, <1>2 DEF Abstract!vars

LEMMA AbstractInit == Init => Abstract!Init
BY DEF Init, Abstract!Init, JobOf, VerdictOf

\* A step that changes the job of one run and no verdict.
LEMMA AbstractJob ==
  ASSUME NEW r \in Runs, NEW j,
         JobOf(r)' = j,
         \A q \in Runs \ {r} : JobOf(q)' = JobOf(q),
         \A q \in Runs : VerdictOf(q)' = VerdictOf(q)
  PROVE  /\ [q \in Runs |-> JobOf(q)]' = [[q \in Runs |-> JobOf(q)] EXCEPT ![r] = j]
         /\ UNCHANGED [q \in Runs |-> VerdictOf(q)]
OBVIOUS

\* A step that ends one hop and changes no job.
LEMMA AbstractVerdict ==
  ASSUME NEW r \in Runs, NEW v,
         VerdictOf(r)' = v,
         \A q \in Runs \ {r} : VerdictOf(q)' = VerdictOf(q),
         \A q \in Runs : JobOf(q)' = JobOf(q)
  PROVE  /\ [q \in Runs |-> VerdictOf(q)]' = [[q \in Runs |-> VerdictOf(q)] EXCEPT ![r] = v]
         /\ UNCHANGED [q \in Runs |-> JobOf(q)]
OBVIOUS

\* ShowJob offers the job.
LEMMA ShowJobOffers ==
  ASSUME MailInv, NEW r \in Runs, ShowJob(r)
  PROVE  Abstract!Offer(r)
<1> USE DEF MailInv, TypeOK, OnePlace, ShowJob, Shown
<1>1. JobOf(r) = "none" /\ VerdictOf(r) = "open"
  BY DEF JobOf, VerdictOf
<1>2. JobOf(r)' = "offered"
  BY DEF JobOf
<1>3. \A q \in Runs \ {r} : JobOf(q)' = JobOf(q)
  BY DEF JobOf
<1>4. \A q \in Runs : VerdictOf(q)' = VerdictOf(q)
  BY DEF VerdictOf
<1> QED
  BY <1>1, <1>2, <1>3, <1>4, AbstractJob DEF Abstract!Offer

\* A poll that takes the oldest listed job has it handed over, read or not.
LEMMA TakeHands ==
  ASSUME MailInv, NEW h \in Handlers, Claim(h) \/ ClaimUnread(h)
  PROVE  \E r \in Runs : Abstract!Hand(r)
<1>0. TakeOldest(h)
  BY DEF Claim, ClaimUnread
<1>1. PICK r \in Runs : r = Oldest(names[h]) /\ r \in inbox /\ r \notin claimed
  BY <1>0 DEF TakeOldest, MailInv, TypeOK, OnePlace
<1>2. inbox' = inbox \ {r} /\ claimed' = claimed \cup {r} /\ UNCHANGED <<shown, hop, got>>
  BY <1>0, <1>1 DEF TakeOldest, hopVars
<1>3. JobOf(r) = "offered" /\ JobOf(r)' = "handed"
  BY <1>1, <1>2 DEF JobOf
<1>4. \A q \in Runs \ {r} : JobOf(q)' = JobOf(q)
  BY <1>2 DEF JobOf
<1>5. \A q \in Runs : VerdictOf(q)' = VerdictOf(q)
  BY <1>2 DEF VerdictOf
<1> QED
  BY <1>1, <1>3, <1>4, <1>5, AbstractJob DEF Abstract!Hand

\* RemoveJob withdraws a job that nobody fetched.
LEMMA RemoveJobWithdraws ==
  ASSUME MailInv, NEW r \in Runs, RemoveJob(r)
  PROVE  Abstract!Withdraw(r) \/ UNCHANGED Abstract!vars
<1> USE DEF MailInv, TypeOK, OnePlace, RemoveJob
<1>1. CASE r \notin inbox
  BY <1>1, AbstractStands
<1>2. CASE r \in inbox
  <2>1. JobOf(r) = "offered" /\ VerdictOf(r) = "open"
    BY <1>2 DEF JobOf, VerdictOf
  <2>2. JobOf(r)' = "withdrawn"
    BY <1>2 DEF JobOf
  <2>3. \A q \in Runs \ {r} : JobOf(q)' = JobOf(q)
    BY DEF JobOf
  <2>4. \A q \in Runs : VerdictOf(q)' = VerdictOf(q)
    BY DEF VerdictOf
  <2> QED
    BY <2>1, <2>2, <2>3, <2>4, AbstractJob DEF Abstract!Withdraw
<1> QED
  BY <1>1, <1>2

\* RemoveReceipt ends the hop: well only if a good receipt was read.
LEMMA RemoveReceiptEnds ==
  ASSUME MailInv, NEW r \in Runs, RemoveReceipt(r)
  PROVE  Abstract!EndWell(r) \/ Abstract!EndBadly(r)
<1> USE DEF MailInv, TypeOK, OnePlace, CountedOnce, AnswersHanded, RemoveReceipt
<1>1. VerdictOf(r) = "open"
  BY DEF VerdictOf
<1>2. JobOf(r) \in {"handed", "withdrawn"}
  BY DEF JobOf
<1>3. \A q \in Runs : JobOf(q)' = JobOf(q)
  BY DEF JobOf
<1>4. \A q \in Runs \ {r} : VerdictOf(q)' = VerdictOf(q)
  BY DEF VerdictOf
<1>5. CASE got[r] = "good"
  <2>1. JobOf(r) = "handed"
    BY <1>5 DEF JobOf, Receipt
  <2>2. VerdictOf(r)' = "ok"
    BY <1>5 DEF VerdictOf
  <2> QED
    BY <1>1, <1>3, <1>4, <2>1, <2>2, AbstractVerdict DEF Abstract!EndWell
<1>6. CASE got[r] # "good"
  <2>1. VerdictOf(r)' = "error"
    BY <1>6 DEF VerdictOf
  <2> QED
    BY <1>1, <1>2, <1>3, <1>4, <2>1, AbstractVerdict DEF Abstract!EndBadly
<1> QED
  BY <1>5, <1>6

LEMMA AbstractHopStep ==
  ASSUME MailInv, NEW r \in Runs, HopStep(r) \/ HopCrashes(r)
  PROVE  Abstract!Next \/ UNCHANGED Abstract!vars
<1> USE DEF MailInv, TypeOK, OnePlace, fileVars
<1>1. CASE RemoveStale(r)
  BY <1>1, AbstractStands DEF RemoveStale
<1>2. CASE WriteJob(r)
  BY <1>2, AbstractStands DEF WriteJob
<1>3. CASE ShowJob(r)
  BY <1>3, ShowJobOffers DEF Abstract!Next
<1>4. CASE ReadReceipt(r)
  <2>1. \A q \in Runs : JobOf(q)' = JobOf(q)
    BY <1>4 DEF ReadReceipt, JobOf
  <2>2. \A q \in Runs : VerdictOf(q)' = VerdictOf(q)
    BY <1>4 DEF ReadReceipt, VerdictOf
  <2> QED
    BY <2>1, <2>2 DEF Abstract!vars
<1>5. CASE WaitIsOver(r)
  BY <1>5, AbstractStands DEF WaitIsOver
<1>6. CASE RemoveJob(r)
  BY <1>6, RemoveJobWithdraws DEF Abstract!Next
<1>7. CASE RemoveReceipt(r)
  BY <1>7, RemoveReceiptEnds DEF Abstract!Next
<1>8. CASE HopCrashes(r)
  BY <1>8, AbstractStands DEF HopCrashes
<1> QED
  BY <1>1, <1>2, <1>3, <1>4, <1>5, <1>6, <1>7, <1>8 DEF HopStep

LEMMA AbstractPollStep ==
  ASSUME MailInv, NEW h \in Handlers, PollStep(h) \/ PollWaitIsOver(h) \/ HandlerDies(h)
  PROVE  Abstract!Next \/ UNCHANGED Abstract!vars
<1>1. CASE Claim(h) \/ ClaimUnread(h)
  BY <1>1, TakeHands DEF Abstract!Next
<1>2. CASE ~Claim(h) /\ ~ClaimUnread(h)
  <2>1. UNCHANGED <<hopVars, fileVars>>
    BY <1>2 DEF PollStep, ListInbox, StatNames, ClaimFails, EndOfPass, Reply, PollWaitIsOver,
                HandlerDies
  <2> QED
    BY <2>1, AbstractStands DEF hopVars, fileVars
<1> QED
  BY <1>1, <1>2

LEMMA AbstractNext == MailInv /\ [Next]_vars => [Abstract!Next]_(Abstract!vars)
<1> SUFFICES ASSUME MailInv, [Next]_vars PROVE Abstract!Next \/ UNCHANGED Abstract!vars
  OBVIOUS
<1>1. CASE NodeStep \/ UNCHANGED vars
  <2>1. UNCHANGED <<hopVars, fileVars>>
    BY <1>1 DEF NodeStep, Poll, PollFails, PostReturns, NodeRestarts, Work, vars
  <2> QED
    BY <2>1, AbstractStands DEF hopVars, fileVars
<1>2. ASSUME NEW q \in receipts, Quittung(q) \/ QuittungLost(q)
      PROVE  UNCHANGED Abstract!vars
  BY <1>2, AbstractStands DEF Quittung, QuittungLost, hopVars, fileVars
<1> QED
  BY <1>1, <1>2, AbstractHopStep, AbstractPollStep DEF Next

\* However polls, replies, receipts and killed processes interleave, a hop ends
\* well only on a job that was handed to the field node once.
THEOREM MailboxImplementsFieldJob == Spec => ImplementsFieldJob
<1>1. Spec => Abstract!Init /\ [][Abstract!Next]_(Abstract!vars)
  BY AbstractInit, AbstractNext, MailAlways, PTL DEF Spec
<1> QED
  BY <1>1 DEF ImplementsFieldJob, Abstract!Spec

=============================================================================
