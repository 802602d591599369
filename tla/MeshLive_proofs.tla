--------------------------- MODULE MeshLive_proofs ---------------------------
(***************************************************************************)
(* Theorems about MeshLive, for every number of runs, requests, changes    *)
(* and failures, and every length of the cache's life and of a read.       *)
(***************************************************************************)
EXTENDS MeshLive, TLAPS

ConstantFacts == Longest \in Nat /\ 0 < CacheLife /\ FetchTicks < Longest

LEMMA Constants == ConstantFacts
  BY MeshAssumption DEF ConstantFacts, Longest

-----------------------------------------------------------------------------
(* Type correctness.                                                       *)

LEMMA InitTyped == Init => TypeOK
<1> SUFFICES ASSUME Init PROVE TypeOK
  OBVIOUS
<1> USE MeshAssumption
<1>1. 0 \in Accounts /\ 0 \in MeshVersions /\ 0 \in 0..Longest /\ 0 \in 0..FetchTicks
  BY Constants DEF Accounts, MeshVersions, ConstantFacts
<1>2. gone \in [Accounts -> 0..Longest] /\ age \in 0..CacheLife /\ fails \in 0..MaxFails
  BY <1>1 DEF Init
<1>3. /\ load \in [Loads -> [at : {"idle", "fetch", "read", "answer"}, spent : 0..FetchTicks,
                            top : Accounts \cup {Failed, None},
                            live : MeshVersions \cup {Failed, None}]]
      /\ \A r \in Loads : load[r].at = "idle"
  BY <1>1 DEF Init, Idle
<1> QED
  BY <1>1, <1>2, <1>3 DEF Init, TypeOK

\* What a request becomes when its graph is built from a result of topology().
LEMMA BuiltTyped ==
  ASSUME TypeOK, NEW top \in Accounts \cup {Failed}
  PROVE  /\ Built(top) \in [at : {"idle", "fetch", "read", "answer"}, spent : 0..FetchTicks,
                            top : Accounts \cup {Failed, None},
                            live : MeshVersions \cup {Failed, None}]
         /\ Built(top).top # None
  BY MeshAssumption DEF Built, TypeOK, Accounts

LEMMA RequestTyped ==
  ASSUME TypeOK, NEW r \in Loads, Requested(r)
  PROVE  /\ load' \in [Loads -> [at : {"idle", "fetch", "read", "answer"}, spent : 0..FetchTicks,
                                 top : Accounts \cup {Failed, None},
                                 live : MeshVersions \cup {Failed, None}]]
         /\ \A q \in Loads : load'[q].at \in {"read", "answer"} => load'[q].top # None
<1>1. CASE Fresh
  <2>1. cache \in Accounts \cup {Failed}
    BY <1>1 DEF Fresh, TypeOK
  <2>2. load' = [load EXCEPT ![r] = Built(cache)]
    BY <1>1 DEF Requested
  <2> QED
    BY <2>1, <2>2, BuiltTyped DEF TypeOK
<1>2. CASE ~Fresh
  <2>1. load' = [load EXCEPT ![r] = [Idle EXCEPT !.at = "fetch"]]
    BY <1>2 DEF Requested
  <2> QED
    BY <2>1, MeshAssumption DEF TypeOK, Idle
<1> QED
  BY <1>1, <1>2

LEMMA StepTyped == TypeOK /\ [Next]_vars => TypeOK'
<1> SUFFICES ASSUME TypeOK, [Next]_vars
             PROVE  TypeOK'
  OBVIOUS
<1> USE MeshAssumption
<1> USE DEF worldVars, pollVars, hubVars, pageVars
<1>1. CASE UNCHANGED vars
  BY <1>1 DEF TypeOK, vars
<1>2. CASE MeshChanges
  BY <1>2 DEF TypeOK, MeshChanges, MeshVersions
<1>3. CASE AccountMoves
  BY <1>3 DEF TypeOK, AccountMoves, Accounts
<1>4. CASE Tick
  <2>1. age' \in 0..CacheLife
    BY <1>4 DEF TypeOK, Tick
  <2>2. gone' \in [Accounts -> 0..Longest]
    BY <1>4, Constants DEF TypeOK, Tick, ConstantFacts
  <2>3. \A r \in Loads : load[r].at = "read" => load[r].spent + 1 \in 0..FetchTicks
    BY <1>4 DEF TypeOK, Tick
  <2>4. load' \in [Loads -> [at : {"idle", "fetch", "read", "answer"}, spent : 0..FetchTicks,
                             top : Accounts \cup {Failed, None},
                             live : MeshVersions \cup {Failed, None}]]
    BY <1>4, <2>3 DEF TypeOK, Tick
  <2>5. \A r \in Loads : load'[r].at = load[r].at /\ load'[r].top = load[r].top
    BY <1>4 DEF TypeOK, Tick
  <2> QED
    BY <1>4, <2>1, <2>2, <2>4, <2>5 DEF TypeOK, Tick
<1>5. ASSUME NEW n \in Runs, RunStarts(n) \/ RunEnds(n)
      PROVE  TypeOK'
  BY <1>5 DEF TypeOK, RunStarts, RunEnds, Pollers
<1>6. ASSUME NEW p \in Pollers, Poll(p) \/ CallFails(p)
      PROVE  TypeOK'
  <2>1. CASE PollBegins(p)
    BY <2>1 DEF TypeOK, PollBegins
  <2>2. CASE MeshAnswers(p)
    BY <2>2 DEF TypeOK, MeshAnswers
  <2>3. CASE Fold(p)
    BY <2>3 DEF TypeOK, Fold, Over, Announced
  <2>4. CASE CallFails(p)
    BY <2>4 DEF TypeOK, CallFails
  <2> QED
    BY <1>6, <2>1, <2>2, <2>3, <2>4 DEF Poll
<1>7. ASSUME NEW r \in Loads, OpenPage(r) \/ LoadGraph(r)
      PROVE  TypeOK'
  <2>1. Requested(r)
    BY <1>7 DEF OpenPage, LoadGraph
  <2> QED
    BY <1>7, <2>1, RequestTyped DEF TypeOK, OpenPage, LoadGraph
<1>8. ASSUME NEW r \in Loads, Serve(r) \/ FetchFails(r) \/ AnswerLost(r)
      PROVE  TypeOK'
  <2>1. CASE AccountRead(r)
    <3>1. account \in Nat /\ account # None
      BY DEF TypeOK, Accounts
    <3>2. load' = [load EXCEPT ![r] = [load[r] EXCEPT !.at = "read", !.top = account]]
      BY <2>1 DEF AccountRead
    <3>3. load'[r].top = account /\ \A q \in Loads : q # r => load'[q] = load[q]
      BY <3>2 DEF TypeOK
    <3>4. load' \in [Loads -> [at : {"idle", "fetch", "read", "answer"}, spent : 0..FetchTicks,
                               top : Accounts \cup {Failed, None},
                               live : MeshVersions \cup {Failed, None}]]
      BY <3>2 DEF TypeOK
    <3> QED
      BY <2>1, <3>1, <3>3, <3>4 DEF TypeOK, AccountRead
  <2>2. CASE Store(r)
    <3>1. load[r].top \in Accounts \cup {Failed}
      BY <2>2 DEF TypeOK, Store
    <3> QED
      BY <2>2, <3>1, BuiltTyped DEF TypeOK, Store
  <2>3. CASE Answer(r)
    BY <2>3 DEF TypeOK, Answer, Idle
  <2>4. CASE FetchFails(r)
    <3>1. load' = [load EXCEPT ![r] = [load[r] EXCEPT !.at = "read", !.top = Failed]]
      BY <2>4 DEF FetchFails
    <3>2. load'[r].top = Failed /\ \A q \in Loads : q # r => load'[q] = load[q]
      BY <3>1 DEF TypeOK
    <3>3. load' \in [Loads -> [at : {"idle", "fetch", "read", "answer"}, spent : 0..FetchTicks,
                               top : Accounts \cup {Failed, None},
                               live : MeshVersions \cup {Failed, None}]]
      BY <3>1 DEF TypeOK
    <3>4. fails' \in 0..MaxFails
      BY <2>4 DEF TypeOK, FetchFails
    <3> QED
      BY <2>4, <3>2, <3>3, <3>4 DEF TypeOK, FetchFails
  <2>5. CASE AnswerLost(r)
    BY <2>5 DEF TypeOK, AnswerLost, Idle
  <2> QED
    BY <1>8, <2>1, <2>2, <2>3, <2>4, <2>5 DEF Serve
<1>9. CASE Subscribe
  BY <1>9 DEF TypeOK, Subscribe
<1>10. CASE EventsLost
  <2>1. fails' \in 0..MaxFails
    BY <1>10 DEF TypeOK, EventsLost
  <2>2. due' \in BOOLEAN
    BY <1>10 DEF EventsLost
  <2> QED
    BY <1>10, <2>1, <2>2 DEF TypeOK, EventsLost
<1> QED
  BY <1>1, <1>2, <1>3, <1>4, <1>5, <1>6, <1>7, <1>8, <1>9, <1>10 DEF Next, Handle

\* Every variable keeps its type, and no request is answered without a result of
\* topology(): the empty cache is never served.
THEOREM TypeCorrect == Spec => []TypeOK
  BY InitTyped, StepTyped, PTL DEF Spec

-----------------------------------------------------------------------------
(* Freshness.                                                              *)

\* How long ago a result of topology() can have been replaced: on its way it is no
\* older than its time on the way, in the cache no older than that and the entry's age.
AgesBounded ==
  /\ \A v \in Accounts : v >= account => gone[v] = 0
  /\ \A r \in Loads : load[r].at = "fetch" => load[r].spent = 0
  /\ \A r \in Loads : load[r].at = "read" /\ load[r].top \in Accounts
                        => gone[load[r].top] <= load[r].spent
  /\ cache \in Accounts /\ age < CacheLife => gone[cache] <= FetchTicks + age

FreshInv == TypeOK /\ AgesBounded

LEMMA InitFresh == Init => FreshInv
<1> SUFFICES ASSUME Init PROVE AgesBounded
  BY InitTyped DEF FreshInv
<1> QED
  BY MeshAssumption DEF Init, AgesBounded, Idle, Accounts

LEMMA StepFresh == FreshInv /\ [Next]_vars => FreshInv'
<1> SUFFICES ASSUME FreshInv, [Next]_vars
             PROVE  AgesBounded'
  BY StepTyped DEF FreshInv
<1> USE MeshAssumption
<1> USE DEF FreshInv, worldVars, pollVars, hubVars, pageVars
<1>1. CASE UNCHANGED <<account, gone, cache, age, load>>
  BY <1>1 DEF AgesBounded
<1>2. CASE AccountMoves
  BY <1>2 DEF TypeOK, AgesBounded, AccountMoves, Accounts
<1>3. CASE Tick
  <2>1. \A v \in Accounts : gone'[v] <= gone[v] + 1 /\ (v >= account => gone'[v] = gone[v])
    BY <1>3, Constants DEF TypeOK, Tick, Accounts, ConstantFacts
  <2>2. \A v \in Accounts : gone[v] \in Nat /\ gone'[v] \in Nat
    BY <1>3, Constants DEF TypeOK, Tick, ConstantFacts
  <2>3. \A v \in Accounts : v >= account' => gone'[v] = 0
    BY <1>3, <2>1 DEF AgesBounded, Tick
  <2>4. \A r \in Loads : load'[r].at = load[r].at /\ load'[r].top = load[r].top
    BY <1>3 DEF TypeOK, Tick
  <2>5. \A r \in Loads : load[r].at = "fetch" => load'[r].spent = load[r].spent
    BY <1>3 DEF TypeOK, Tick
  <2>6. \A r \in Loads : load[r].at = "read" => load'[r].spent = load[r].spent + 1
    BY <1>3 DEF TypeOK, Tick
  <2>7. \A r \in Loads : load[r].spent \in Nat
    BY DEF TypeOK
  <2>8. ASSUME NEW r \in Loads, load'[r].at = "read", load'[r].top \in Accounts
        PROVE  gone'[load'[r].top] <= load'[r].spent
    BY <2>1, <2>2, <2>4, <2>6, <2>7, <2>8 DEF AgesBounded
  <2>9. ASSUME cache' \in Accounts, age' < CacheLife
        PROVE  gone'[cache'] <= FetchTicks + age'
    <3>1. cache' = cache /\ cache # None /\ age \in Nat
      BY <1>3, <2>9 DEF TypeOK, Tick, Accounts
    <3>2. age' = age + 1
      BY <1>3, <2>9, <3>1 DEF TypeOK, Tick
    <3> QED
      BY <2>1, <2>2, <2>9, <3>1, <3>2 DEF AgesBounded
  <2> QED
    BY <2>3, <2>4, <2>5, <2>8, <2>9 DEF AgesBounded
<1>4. ASSUME NEW r \in Loads, Requested(r), UNCHANGED <<account, gone, cache, age>>
      PROVE  AgesBounded'
  BY <1>4 DEF TypeOK, AgesBounded, Requested, Built, Idle
<1>5. ASSUME NEW r \in Loads, AccountRead(r)
      PROVE  AgesBounded'
  BY <1>5 DEF TypeOK, AgesBounded, AccountRead, Accounts
<1>6. ASSUME NEW r \in Loads, FetchFails(r)
      PROVE  AgesBounded'
  BY <1>6 DEF TypeOK, AgesBounded, FetchFails, Accounts
<1>7. ASSUME NEW r \in Loads, Store(r)
      PROVE  AgesBounded'
  <2>1. load[r].spent <= FetchTicks /\ load[r].spent \in Nat
    BY DEF TypeOK
  <2>2. cache' \in Accounts => gone'[cache'] <= FetchTicks + age'
    <3>1. load[r].top \in Accounts => gone[load[r].top] \in Nat
      BY Constants DEF TypeOK, ConstantFacts
    <3> QED
      BY <1>7, <2>1, <3>1 DEF AgesBounded, Store
  <2> QED
    BY <1>7, <2>2 DEF TypeOK, AgesBounded, Store, Built
<1>8. ASSUME NEW r \in Loads, load' = [load EXCEPT ![r] = Idle],
             UNCHANGED <<account, gone, cache, age>>
      PROVE  AgesBounded'
  BY <1>8 DEF TypeOK, AgesBounded, Idle
<1>9. ASSUME NEW p \in Pollers, Poll(p) \/ CallFails(p)
      PROVE  AgesBounded'
  BY <1>1, <1>9 DEF Poll, PollBegins, MeshAnswers, Fold, CallFails
<1>10. ASSUME NEW n \in Runs, RunStarts(n) \/ RunEnds(n)
       PROVE  AgesBounded'
  BY <1>1, <1>10 DEF RunStarts, RunEnds
<1>11. CASE MeshChanges \/ Subscribe \/ EventsLost \/ UNCHANGED vars
  BY <1>1, <1>11 DEF MeshChanges, Subscribe, EventsLost, vars
<1>12. ASSUME NEW r \in Loads, OpenPage(r) \/ LoadGraph(r)
       PROVE  AgesBounded'
  BY <1>4, <1>12 DEF OpenPage, LoadGraph
<1>13. ASSUME NEW r \in Loads, Answer(r) \/ AnswerLost(r)
       PROVE  AgesBounded'
  BY <1>8, <1>13 DEF Answer, AnswerLost
<1> QED
  BY <1>2, <1>3, <1>5, <1>6, <1>7, <1>9, <1>10, <1>11, <1>12, <1>13 DEF Next, Serve, Handle

\* What one step may serve.
Served ==
  \A r \in Loads : load[r].at # "answer" /\ load'[r].at = "answer" /\ load'[r].top \in Accounts
    => gone'[load'[r].top] < Longest

LEMMA StepServes == FreshInv /\ [Next]_vars => [Served]_vars
<1> SUFFICES ASSUME FreshInv, [Next]_vars,
                    NEW r \in Loads, load[r].at # "answer", load'[r].at = "answer",
                    load'[r].top \in Accounts
             PROVE  gone'[load'[r].top] < Longest
  BY DEF Served
<1> USE MeshAssumption
<1> USE DEF FreshInv, worldVars, pollVars, hubVars, pageVars
<1>1. ASSUME NEW q \in Loads, Requested(q), UNCHANGED gone
      PROVE  gone'[load'[r].top] < Longest
  <2>1. q = r /\ Fresh /\ load'[r].top = cache
    BY <1>1 DEF TypeOK, Requested, Built, Idle
  <2>2. gone[cache] \in Nat /\ age \in Nat
    BY <2>1, Constants DEF TypeOK, ConstantFacts
  <2> QED
    BY <1>1, <2>1, <2>2 DEF AgesBounded, Fresh, Longest
<1>2. ASSUME NEW q \in Loads, Store(q)
      PROVE  gone'[load'[r].top] < Longest
  <2>1. q = r /\ load'[r].top = load[r].top /\ load[r].at = "read"
    BY <1>2 DEF TypeOK, Store, Built
  <2>2. gone[load[r].top] \in Nat /\ load[r].spent \in 0..FetchTicks
    BY <2>1, Constants DEF TypeOK, ConstantFacts
  <2> QED
    BY <1>2, <2>1, <2>2 DEF AgesBounded, Store, Longest
<1>3. CASE \A q \in Loads : load'[q].at = "answer" => load[q].at = "answer"
  BY <1>3
<1>4. CASE Tick
  BY <1>3, <1>4 DEF TypeOK, Tick
<1>5. ASSUME NEW p \in Pollers, Poll(p) \/ CallFails(p)
      PROVE  gone'[load'[r].top] < Longest
  BY <1>3, <1>5 DEF Poll, PollBegins, MeshAnswers, Fold, CallFails
<1>6. ASSUME NEW n \in Runs, RunStarts(n) \/ RunEnds(n)
      PROVE  gone'[load'[r].top] < Longest
  BY <1>3, <1>6 DEF RunStarts, RunEnds
<1>7. CASE MeshChanges \/ AccountMoves \/ Subscribe \/ EventsLost \/ UNCHANGED vars
  BY <1>3, <1>7 DEF MeshChanges, AccountMoves, Subscribe, EventsLost, vars
<1>8. ASSUME NEW q \in Loads, OpenPage(q) \/ LoadGraph(q)
      PROVE  gone'[load'[r].top] < Longest
  BY <1>1, <1>8 DEF OpenPage, LoadGraph
<1>9. ASSUME NEW q \in Loads, AccountRead(q) \/ FetchFails(q) \/ Answer(q) \/ AnswerLost(q)
      PROVE  gone'[load'[r].top] < Longest
  <2>1. CASE AccountRead(q)
    BY <1>3, <2>1 DEF TypeOK, AccountRead
  <2>2. CASE FetchFails(q)
    BY <1>3, <2>2 DEF TypeOK, FetchFails
  <2>3. CASE Answer(q) \/ AnswerLost(q)
    BY <1>3, <2>3 DEF TypeOK, Answer, AnswerLost, Idle
  <2> QED
    BY <1>9, <2>1, <2>2, <2>3
<1> QED
  BY <1>2, <1>4, <1>5, <1>6, <1>7, <1>8, <1>9 DEF Next, Serve, Handle

\* However many requests miss the cache together, and in whatever order they store
\* what they read, no graph shows an account that was replaced longer ago than the
\* longest read and CP_CACHE.
THEOREM AccountIsFresh == Spec => ServedFresh
<1>1. Spec => []FreshInv
  BY InitFresh, StepFresh, PTL DEF Spec
<1>2. Spec => [][Served]_vars
  BY <1>1, StepServes, PTL DEF Spec
<1> QED
  BY <1>2 DEF ServedFresh, Served

=============================================================================
