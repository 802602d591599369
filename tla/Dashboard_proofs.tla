--------------------------- MODULE Dashboard_proofs ---------------------------
(* Theorems about Presence and Dashboard, for every number of peers and      *)
(* requests and every window of more than three watchdog periods.            *)
EXTENDS Dashboard, TLAPS

-----------------------------------------------------------------------------
(* Type correctness, and what is young: a request in flight sees its peer  *)
(* age once, before or after it stores a time.                             *)

YoungOf(p) ==
  /\ age[p] <= beat[p] + 1
  /\ \A i \in Posts :
       post[p][i] = "written" => beat[p] <= 1 /\ (i \notin late[p] => beat[p] = 0)

Young == \A p \in Peers : YoungOf(p)

LEMMA StoredIsYoung ==
  ASSUME TypeOK, NEW p \in Peers, NEW i \in Posts, StoreTime(p, i)
  PROVE  /\ age' \in [Peers -> 0..StaleAfter] /\ age'[p] \in 0..1
         /\ \A q \in Peers \ {p} : age'[q] = age[q]
<1>1. PICK taken \in IF i \in late[p] THEN {0, 1} ELSE {0} : age' = [age EXCEPT ![p] = taken]
  BY Zenon DEF StoreTime
<1>2. taken = 0 \/ taken = 1
  BY <1>1, Zenon
<1> QED
  BY <1>1, <1>2, PresenceAssumption DEF TypeOK

LEMMA PresenceTypeInit == Init => TypeOK
BY PresenceAssumption DEF Init, TypeOK

LEMMA PresenceTypeNext == TypeOK /\ [Next]_vars => TypeOK'
<1> SUFFICES ASSUME TypeOK, [Next]_vars PROVE TypeOK'
  OBVIOUS
<1> USE PresenceAssumption DEF TypeOK
<1>1. ASSUME NEW p \in Peers, Age(p) PROVE TypeOK'
  BY <1>1 DEF Age, Online, watchVars
<1>2. ASSUME NEW p \in Peers, NEW i \in Posts, ReadLastSeen(p, i) PROVE TypeOK'
  BY <1>2 DEF ReadLastSeen, Online, watchVars
<1>3. ASSUME NEW p \in Peers, NEW i \in Posts, WriteLastSeen(p, i) PROVE TypeOK'
  <2>1. age' \in [Peers -> 0..StaleAfter]
    BY <1>3, StoredIsYoung DEF WriteLastSeen
  <2>2. Online(p) \in BOOLEAN
    BY DEF Online
  <2>3. post' \in [Peers -> [Posts -> {"idle", "read", "written"}]]
    BY <1>3 DEF WriteLastSeen, Stored
  <2>4. before' \in [Peers -> [Posts -> BOOLEAN]]
    BY <1>3 DEF WriteLastSeen, Stored
  <2>5. late' \in [Peers -> SUBSET Posts]
    BY <1>3 DEF WriteLastSeen, Stored
  <2>6. beat' \in [Peers -> 0..StaleAfter] /\ changed' \in [Peers -> BOOLEAN]
    BY <1>3, <2>2 DEF WriteLastSeen, Stored
  <2> QED
    BY <1>3, <2>1, <2>3, <2>4, <2>5, <2>6 DEF WriteLastSeen, watchVars
<1>4. ASSUME NEW p \in Peers, NEW i \in Posts, ReportOnline(p, i) PROVE TypeOK'
  BY <1>4 DEF ReportOnline, watchVars
<1>5. CASE WakeUp
  BY <1>5 DEF WakeUp, postVars
<1>6. ASSUME NEW p \in Peers, ReadPeer(p) PROVE TypeOK'
  BY <1>6 DEF ReadPeer, Online, postVars
<1>7. ASSUME NEW p \in Peers, Report(p) PROVE TypeOK'
  BY <1>7 DEF Report, News, postVars
<1>8. CASE UNCHANGED vars
  BY <1>8 DEF vars, postVars, watchVars
<1> QED
  BY <1>1, <1>2, <1>3, <1>4, <1>5, <1>6, <1>7, <1>8 DEF Next, Handle, Watch

LEMMA YoungIsOnline ==
  ASSUME TypeOK, Young, NEW p \in Peers, beat[p] + 1 < StaleAfter
  PROVE  Online(p)
BY PresenceAssumption DEF TypeOK, Young, YoungOf, Online

LEMMA YoungNext == TypeOK /\ Young /\ [Next]_vars => Young'
<1> SUFFICES ASSUME TypeOK, Young, [Next]_vars, NEW q \in Peers PROVE YoungOf(q)'
  BY DEF Young
<1> USE PresenceAssumption DEF TypeOK, YoungOf
<1>a. YoungOf(q)
  BY DEF Young
<1>1. ASSUME Age(q) PROVE YoungOf(q)'
  <2>1. age'[q] <= beat'[q] + 1
    BY <1>1, <1>a DEF Age, Online
  <2> SUFFICES ASSUME NEW j \in Posts, post'[q][j] = "written"
               PROVE  beat'[q] <= 1 /\ j \in late'[q]
    BY <2>1
  <2>2. /\ late[q] = {} /\ post' = post
        /\ post[q][j] # "idle" => j \in late'[q]
        /\ beat'[q] = IF beat[q] < StaleAfter THEN beat[q] + 1 ELSE beat[q]
    BY <1>1 DEF Age
  <2> QED
    BY <1>a, <2>2
<1>2. ASSUME NEW i \in Posts, ReadLastSeen(q, i) PROVE YoungOf(q)'
  BY <1>2, <1>a DEF ReadLastSeen
<1>3. ASSUME NEW i \in Posts, WriteLastSeen(q, i) PROVE YoungOf(q)'
  <2>1. age'[q] \in 0..1
    BY <1>3, StoredIsYoung DEF WriteLastSeen
  <2>2. beat'[q] = 0
    BY <1>3 DEF WriteLastSeen, Stored
  <2> QED
    BY <2>1, <2>2
<1>4. ASSUME NEW i \in Posts, ReportOnline(q, i) PROVE YoungOf(q)'
  BY <1>4, <1>a DEF ReportOnline
<1>5. ASSUME NEW p \in Peers \ {q}, NEW i \in Posts, ReadLastSeen(p, i) \/ Handle(p, i)
      PROVE  YoungOf(q)'
  <2>1. /\ age'[q] = age[q] /\ beat'[q] = beat[q] /\ post'[q] = post[q]
        /\ late'[q] = late[q]
    BY <1>5, StoredIsYoung DEF ReadLastSeen, Handle, WriteLastSeen, Stored, ReportOnline
  <2> QED
    BY <1>a, <2>1
<1>6. CASE UNCHANGED <<age, beat, postVars>>
  BY <1>6, <1>a DEF postVars
<1>7. ASSUME NEW p \in Peers \ {q}, Age(p) PROVE YoungOf(q)'
  <2>1. /\ age'[q] = age[q] /\ beat'[q] = beat[q] /\ post'[q] = post[q]
        /\ late'[q] = late[q]
    BY <1>7 DEF Age
  <2> QED
    BY <1>a, <2>1
<1> QED
  BY <1>1, <1>2, <1>3, <1>4, <1>5, <1>6, <1>7
     DEF Next, Handle, Watch, WakeUp, ReadPeer, Report, vars

-----------------------------------------------------------------------------
(* The watchdog and one peer.  In a pass it has not read the peer yet, has *)
(* read it, or is done with it.                                            *)

Unread(p) == turn = "reading" /\ p \in todo
Read(p)   == (turn = "reading" /\ p \notin todo) \/ (turn = "reporting" /\ p \in todo)
Done(p)   == turn = "asleep" \/ (turn = "reporting" /\ p \notin todo)

\* What the watchdog last read of the peer.
LastRead(p) == IF Unread(p) THEN was[p] ELSE now[p]

\* The inductive invariant.  A peer that was offline when it was last read and is
\* online now has come since: its heartbeat, at most a period old when it was stored, is
\* too young to go stale before the next reading.  So the watchdog misses no visit that
\* ended, and what it left untold is nothing but the coming of a peer.
WatchOf(p) ==
  /\ Done(p) => was[p] = now[p]
  /\ was[p] => told[p]
  /\ ~Unread(p) /\ ~changed[p] => (now[p] <=> Online(p))
  /\ ~LastRead(p) /\ Online(p) =>
       age[p] <= 1 + (IF Unread(p) THEN 1 ELSE 0) + (IF aged[p] THEN 1 ELSE 0)
  /\ ~LastRead(p) /\ ~Online(p) /\ (Read(p) => ~was[p]) => ~told[p]

WatchInv == \A p \in Peers : WatchOf(p)

PresenceInv == TypeOK /\ Young /\ WatchInv

LEMMA PresenceInvInit == Init => PresenceInv
<1> SUFFICES ASSUME Init PROVE PresenceInv
  OBVIOUS
<1>1. TypeOK
  BY PresenceTypeInit
<1>2. Young
  <2> SUFFICES ASSUME NEW p \in Peers
               PROVE  age[p] <= beat[p] + 1 /\ \A i \in Posts : post[p][i] = "idle"
    BY DEF Young, YoungOf
  <2>1. age[p] <= beat[p] + 1
    BY PresenceAssumption DEF Init
  <2> QED
    BY <2>1 DEF Init
<1>3. WatchInv
  <2> SUFFICES ASSUME NEW p \in Peers PROVE WatchOf(p)
    BY DEF WatchInv
  <2>1. age[p] = StaleAfter /\ ~Online(p)
    BY PresenceAssumption DEF Init, Online
  <2>2. turn = "asleep" /\ now[p] = FALSE /\ was[p] = FALSE /\ told[p] = FALSE
    BY DEF Init
  <2> QED
    BY <2>1, <2>2 DEF WatchOf
<1> QED
  BY <1>1, <1>2, <1>3 DEF PresenceInv

LEMMA WatchNext == PresenceInv /\ [Next]_vars => WatchInv'
<1> SUFFICES ASSUME PresenceInv, [Next]_vars, NEW q \in Peers PROVE WatchOf(q)'
  BY DEF WatchInv
<1>a. TypeOK /\ Young /\ WatchOf(q)
  BY DEF PresenceInv, WatchInv
<1>b. /\ age[q] \in Nat /\ age[q] <= StaleAfter /\ aged[q] \in BOOLEAN
      /\ now[q] \in BOOLEAN /\ was[q] \in BOOLEAN
      /\ told[q] \in BOOLEAN /\ changed[q] \in BOOLEAN
  BY <1>a, PresenceAssumption DEF TypeOK
<1>1. ASSUME NEW p \in Peers, Age(p) PROVE WatchOf(q)'
  <2>1. CASE p = q
    <3>1. ~aged[q] /\ aged'[q] /\ age[q] \in Nat
      BY <1>1, <1>a, <2>1, PresenceAssumption DEF Age, TypeOK
    <3>2. UNCHANGED <<turn, todo, now, was, told>>
      BY <1>1 DEF Age, watchVars
    <3>3. /\ age'[q] = IF Online(q) THEN age[q] + 1 ELSE age[q]
          /\ changed'[q] = (changed[q] \/ age[q] + 1 = StaleAfter)
      BY <1>1, <1>a, <2>1 DEF Age, TypeOK
    <3>4. Unread(q)' = Unread(q) /\ Read(q)' = Read(q) /\ Done(q)' = Done(q)
          /\ LastRead(q)' = LastRead(q)
      BY <3>2 DEF Done, Read, Unread, LastRead
    <3> QED
      BY <3>1, <3>2, <3>3, <3>4, <1>a, <1>b, PresenceAssumption
         DEF WatchOf, Online
  <2>2. CASE p # q
    BY <1>1, <1>a, <2>2 DEF Age, watchVars, WatchOf, Done, Read, Unread, LastRead, Online, TypeOK
  <2> QED
    BY <2>1, <2>2
<1>2. ASSUME NEW p \in Peers, NEW i \in Posts, ReadLastSeen(p, i) PROVE WatchOf(q)'
  BY <1>2, <1>a DEF ReadLastSeen, watchVars, WatchOf, Done, Read, Unread, LastRead, Online
<1>3. ASSUME NEW p \in Peers, NEW i \in Posts, WriteLastSeen(p, i) PROVE WatchOf(q)'
  <2>1. UNCHANGED <<turn, todo, now, was, told, aged>>
    BY <1>3 DEF WriteLastSeen, watchVars
  <2>2. CASE p = q
    <3>1. age'[q] \in 0..1 /\ changed'[q] = (changed[q] \/ ~Online(q))
      BY <1>3, <1>a, <2>2, StoredIsYoung DEF WriteLastSeen, Stored, TypeOK
    <3>2. Unread(q)' = Unread(q) /\ Read(q)' = Read(q) /\ Done(q)' = Done(q)
          /\ LastRead(q)' = LastRead(q)
      BY <2>1 DEF Done, Read, Unread, LastRead
    <3>3. Online(q)' = TRUE
      BY <3>1, PresenceAssumption DEF Online
    <3>4. ~Unread(q) /\ ~changed'[q] => now[q] = TRUE
      BY <3>1, <1>a, <1>b DEF WatchOf, Online
    <3> QED
      BY <2>1, <3>1, <3>2, <3>3, <3>4, <1>a, <1>b DEF WatchOf
  <2>3. CASE p # q
    <3>1. age'[q] = age[q] /\ changed'[q] = changed[q]
      BY <1>3, <1>a, <2>3, StoredIsYoung DEF WriteLastSeen, Stored, TypeOK
    <3> QED
      BY <2>1, <3>1, <1>a DEF WatchOf, Done, Read, Unread, LastRead, Online
  <2> QED
    BY <2>2, <2>3
<1>4. ASSUME NEW p \in Peers, NEW i \in Posts, ReportOnline(p, i) PROVE WatchOf(q)'
  <2>1. UNCHANGED <<turn, todo, now, was, age, aged, changed>>
    BY <1>4 DEF ReportOnline, watchVars
  <2>2. CASE p = q
    <3>0. beat[q] + 1 < StaleAfter
      BY <1>4, <1>a, <2>2, PresenceAssumption DEF ReportOnline, Young, YoungOf, TypeOK
    <3>1. Online(q)
      BY <3>0, <1>a, YoungIsOnline
    <3>2. was[q] => told'[q]
      BY <1>4, <1>a, <2>2 DEF ReportOnline, WatchOf, TypeOK
    <3> QED
      BY <2>1, <3>1, <3>2, <1>a DEF WatchOf, Done, Read, Unread, LastRead, Online
  <2>3. CASE p # q
    BY <1>4, <1>a, <2>1, <2>3
       DEF ReportOnline, WatchOf, Done, Read, Unread, LastRead, Online, TypeOK
  <2> QED
    BY <2>2, <2>3
<1>5. CASE WakeUp
  <2>1. /\ turn = "asleep" /\ turn' = "reading" /\ q \in todo' /\ ~changed'[q]
        /\ aged[q] /\ ~aged'[q]
        /\ UNCHANGED <<age, now, was, told>>
    BY <1>5 DEF WakeUp, postVars
  <2> QED
    BY <2>1, <1>a DEF WatchOf, Done, Read, Unread, LastRead, Online
<1>6. ASSUME NEW p \in Peers, ReadPeer(p) PROVE WatchOf(q)'
  <2>1. /\ turn = "reading" /\ p \in todo
        /\ UNCHANGED <<age, aged, was, told, changed>>
        /\ IF todo = {p} THEN turn' = "reporting" /\ todo' = Peers
                         ELSE turn' = turn /\ todo' = todo \ {p}
    BY <1>6 DEF ReadPeer, postVars
  <2>2. CASE p = q
    <3>1. now'[q] = Online(q) /\ Unread(q) /\ Read(q)' /\ ~Unread(q)' /\ ~Done(q)'
      BY <1>6, <1>a, <2>1, <2>2 DEF ReadPeer, TypeOK, Read, Unread, Done
    <3> QED
      BY <2>1, <3>1, <1>a DEF WatchOf, Done, Read, Unread, LastRead, Online
  <2>3. CASE p # q
    <3>1. now'[q] = now[q]
      BY <1>6, <1>a, <2>3 DEF ReadPeer, TypeOK
    <3>2. Unread(q)' = Unread(q) /\ Read(q)' = Read(q) /\ ~Done(q)' /\ ~Done(q)
      BY <2>1, <2>3 DEF Read, Unread, Done
    <3> QED
      BY <2>1, <3>1, <3>2, <1>a DEF WatchOf, LastRead, Online
  <2> QED
    BY <2>2, <2>3
<1>7. ASSUME NEW p \in Peers, Report(p) PROVE WatchOf(q)'
  <2>1. /\ turn = "reporting" /\ p \in todo
        /\ UNCHANGED <<age, aged, now, changed>>
        /\ todo' = todo \ {p}
        /\ turn' = (IF todo = {p} THEN "asleep" ELSE turn)
    BY <1>7 DEF Report, postVars
  <2>2. CASE p = q
    <3>1. was'[q] = now[q] /\ told'[q] = IF now[q] # was[q] THEN now[q] ELSE told[q]
      BY <1>7, <1>a, <2>2 DEF Report, News, TypeOK
    <3>2. ~Unread(q) /\ Read(q) /\ ~Unread(q)' /\ ~Read(q)' /\ Done(q)'
      BY <2>1, <2>2 DEF Read, Unread, Done
    <3>3. now[q] \in BOOLEAN /\ was[q] \in BOOLEAN /\ told[q] \in BOOLEAN
      BY <1>a DEF TypeOK
    <3> QED
      BY <2>1, <3>1, <3>2, <3>3, <1>a DEF WatchOf, LastRead, Online
  <2>3. CASE p # q
    <3>1. was'[q] = was[q] /\ told'[q] = told[q]
      BY <1>7, <1>a, <2>3 DEF Report, TypeOK
    <3>2. Unread(q)' = Unread(q) /\ Read(q)' = Read(q) /\ Done(q)' = Done(q)
      BY <2>1, <2>3 DEF Read, Unread, Done
    <3> QED
      BY <2>1, <3>1, <3>2, <1>a DEF WatchOf, LastRead, Online
  <2> QED
    BY <2>2, <2>3
<1>8. CASE UNCHANGED vars
  BY <1>8, <1>a DEF vars, postVars, watchVars, WatchOf, Done, Read, Unread, LastRead, Online
<1> QED
  BY <1>1, <1>2, <1>3, <1>4, <1>5, <1>6, <1>7, <1>8 DEF Next, Handle, Watch

LEMMA PresenceInvNext == PresenceInv /\ [Next]_vars => PresenceInv'
BY PresenceTypeNext, YoungNext, WatchNext DEF PresenceInv

LEMMA SettledIsTold == PresenceInv => StreamCatchesUp
<1> SUFFICES ASSUME PresenceInv, NEW p \in Peers, turn = "asleep", ~changed[p]
             PROVE  told[p] <=> Online(p)
  BY DEF StreamCatchesUp
<1>1. Done(p) /\ ~Unread(p) /\ ~Read(p)
  BY DEF Done, Unread, Read
<1>2. WatchOf(p)
  BY DEF PresenceInv, WatchInv, WatchOf
<1>3. (now[p] <=> Online(p)) /\ was[p] = now[p]
  BY <1>1, <1>2 DEF WatchOf
<1> QED
  BY <1>1, <1>2, <1>3 DEF WatchOf, LastRead

-----------------------------------------------------------------------------
(* The dashboard only reads what the bridge keeps.                         *)

LEMMA DashboardStep == [DashboardNext]_allVars => [Next]_vars
<1>1. ASSUME NEW f \in Requests, PageStep(f) PROVE UNCHANGED vars
  BY <1>1 DEF PageStep, Refresh, StatusArrives, StatusFails, StatusReads
<1>2. CASE IdentitiesArrive \/ IdentitiesFail
  BY <1>2 DEF IdentitiesArrive, IdentitiesFail
<1> QED
  BY <1>1, <1>2 DEF DashboardNext, allVars

LEMMA PresenceOfDashboard == DashboardSpec => []PresenceInv
<1>1. DashboardInit => PresenceInv
  BY PresenceInvInit DEF DashboardInit
<1>2. PresenceInv /\ [DashboardNext]_allVars => PresenceInv'
  BY PresenceInvNext, DashboardStep
<1> QED
  BY <1>1, <1>2, PTL DEF DashboardSpec

\* A heartbeat that was stored keeps its peer online for its window less the period that
\* its request may take: heartbeat_handler may store an older time over a younger one,
\* but none that is older than that.
THEOREM StoredHeartbeatCounts == DashboardSpec => []StoredIsOnline
<1>1. PresenceInv => StoredIsOnline
  BY YoungIsOnline DEF PresenceInv, StoredIsOnline
<1> QED
  BY <1>1, PresenceOfDashboard, PTL

\* After a pass of presence_watchdog in which a peer neither came nor went, the last
\* presence event of that peer is true, however many handlers and passes were swapped.
THEOREM StreamSelfCorrects == DashboardSpec => []StreamCatchesUp
<1>1. PresenceInv => StreamCatchesUp
  BY SettledIsTold
<1> QED
  BY <1>1, PresenceOfDashboard, PTL

-----------------------------------------------------------------------------
(* The page's own variables.                                               *)

LEMMA PageTypeInit == DashboardInit => DashboardTypeOK
BY PresenceTypeInit DEF DashboardInit, DashboardTypeOK

LEMMA PageTypeNext ==
  DashboardTypeOK /\ PresenceInv /\ [DashboardNext]_allVars => DashboardTypeOK'
<1> SUFFICES ASSUME DashboardTypeOK, PresenceInv, [DashboardNext]_allVars PROVE DashboardTypeOK'
  OBVIOUS
<1>1. TypeOK'
  BY PresenceTypeNext, DashboardStep DEF PresenceInv
<1> USE <1>1 DEF DashboardTypeOK
<1>2. ASSUME NEW f \in Requests, Refresh(f) PROVE DashboardTypeOK'
  BY <1>2 DEF Refresh
<1>3. ASSUME NEW f \in Requests, NEW p \in Peers, StatusReads(f, p) PROVE DashboardTypeOK'
  <2>1. Online(p) \in BOOLEAN
    BY DEF Online
  <2>2. heard' \in [Requests -> [Peers -> BOOLEAN]]
    BY <1>3, <2>1 DEF StatusReads
  <2>3. unread' \in [Requests -> SUBSET Peers] /\ \A g \in Requests : unread'[g] \subseteq unread[g]
    BY <1>3 DEF StatusReads
  <2> QED
    BY <1>3, <2>2, <2>3 DEF StatusReads
<1>4. ASSUME NEW f \in Requests, StatusArrives(f) PROVE DashboardTypeOK'
  BY <1>4 DEF StatusArrives, ApplyOnlineState, Finished
<1>5. ASSUME NEW f \in Requests, StatusFails(f) PROVE DashboardTypeOK'
  BY <1>5 DEF StatusFails, Finished
<1>6. CASE IdentitiesArrive
  BY <1>6 DEF IdentitiesArrive
<1>7. CASE IdentitiesFail
  BY <1>7 DEF IdentitiesFail
<1>8. CASE UNCHANGED pageVars
  BY <1>8 DEF pageVars
<1> QED
  BY <1>2, <1>3, <1>4, <1>5, <1>6, <1>7, <1>8 DEF DashboardNext, PageStep, allVars

\* The picker has options exactly when the identities arrived, and a request that is
\* over has nothing left to read: refreshStatus and populateOptions never mix up the
\* answers of overlapping requests.
THEOREM DashboardTypeCorrect == DashboardSpec => []DashboardTypeOK
BY PageTypeInit, PageTypeNext, PresenceOfDashboard, PTL DEF DashboardSpec

=============================================================================
