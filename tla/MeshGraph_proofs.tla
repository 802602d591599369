--------------------------- MODULE MeshGraph_proofs ---------------------------
(* Theorems about MeshGraph and the channel call under it, for every       *)
(* manifest of the Nordwind mesh and every account.                        *)
EXTENDS MeshGraph, SequenceTheorems, WellFoundedInduction, TLAPS

-----------------------------------------------------------------------------
(* The channel call: the inductive invariant.                              *)

Results ==
  [ok : BOOLEAN, output : Texts \cup {None},
   error : {"none", "environment", "spawning", "timeout", "service", "exit"}]

CallTypes == CallTypeOK /\ result \in Results

\* Nothing of an earlier call is left when a process is about to be started.
SpawnsClean ==
  pos = "spawn" => /\ child = "none" /\ ~heir
                   /\ pipe = <<>> /\ last = None /\ status = "none"

\* The process that the caller looks at has been started and not been killed.
LooksAtProcess ==
  pos \in {"feed", "wait", "looked"} => child \in {"running", "success", "failure"}

\* What has been judged stays as it was judged: the pipe is at its end.
NobodyWrites == pos = "done" => child # "running" /\ ~heir /\ pipe = <<>>

CallInv ==
  CallTypes /\ SpawnsClean /\ LooksAtProcess /\ NobodyWrites /\ ResultIsLastWord

LEMMA EmptyPipe == <<>> \in Seq(Lines) /\ Len(<<>>) = 0
OBVIOUS

LEMMA NoResultIsResult == NoResult \in Results
BY DEF NoResult, Results

\* Where no process is, an empty pipe and no result have their types.
LEMMA CleanTypes ==
  ASSUME pos \in {"idle", "spawn"}, child = "none", heir = FALSE, pipe = <<>>, written = 0,
         last = None, late = FALSE, status = "none", result = NoResult
  PROVE  CallInv
<1>0. heir \in BOOLEAN /\ ~heir /\ late \in BOOLEAN
  OBVIOUS
<1>1. CallTypes
  <2>1. pipe \in Seq(Lines) /\ Len(pipe) <= PipeCap /\ written \in 0..MaxLines
    BY CallAssumption, EmptyPipe
  <2>2. result \in Results
    BY NoResultIsResult
  <2> QED
    BY <1>0, <2>1, <2>2 DEF CallTypes, CallTypeOK, Results
<1>2. SpawnsClean /\ LooksAtProcess /\ NobodyWrites /\ ResultIsLastWord
  BY <1>0 DEF SpawnsClean, LooksAtProcess, NobodyWrites, ResultIsLastWord
<1> QED
  BY <1>1, <1>2 DEF CallInv

LEMMA CallInvInit == CallInit => CallInv
BY CleanTypes DEF CallInit

LEMMA FailedIsResult ==
  ASSUME NEW e \in {"none", "environment", "spawning", "timeout", "service", "exit"}
  PROVE  FailedWith(e) \in Results /\ FailedWith(e).ok = FALSE
BY DEF FailedWith, NoResult, Results

\* What Join returns when the pipe is at its end, and when that is a success.
LEMMA JudgedIsLastWord ==
  ASSUME CallTypes, pipe = <<>>
  PROVE  /\ Judged \in Results
         /\ LET good == status = "success" /\ LastWord # None /\ LastWord.kind = "output"
            IN  /\ Judged.ok <=> good
                /\ Judged.ok => Judged.output = LastWord.text
<1>0. LastWord = IF Garbled(last) THEN None ELSE last
  BY DEF LastWord
<1>1. CASE status = "none"
  BY <1>1, FailedIsResult DEF Judged
<1>2. CASE status = "success" /\ last # None /\ ~Garbled(last)
  <2>1. last \in Lines
    BY <1>2 DEF CallTypes, CallTypeOK
  <2>2. CASE last.kind = "output"
    <3>1. Judged = [ok |-> TRUE, output |-> last.text, error |-> "none"]
      BY <1>2, <2>2 DEF Judged
    <3>2. last.text \in Texts
      BY <2>1, <2>2 DEF Lines
    <3> QED
      BY <1>0, <1>2, <2>2, <3>1, <3>2 DEF Results
  <2>3. CASE last.kind # "output"
    <3>1. Judged = FailedWith("service")
      BY <1>2, <2>3 DEF Judged
    <3> QED
      BY <1>0, <2>3, <3>1, FailedIsResult
  <2> QED
    BY <2>2, <2>3
<1>3. CASE status # "none" /\ ~(status = "success" /\ last # None /\ ~Garbled(last))
  <2>1. Judged = FailedWith("exit")
    BY <1>3 DEF Judged
  <2> QED
    BY <1>0, <1>3, <2>1, FailedIsResult
<1> QED
  BY <1>1, <1>2, <1>3

LEMMA CallerKeepsInv ==
  ASSUME CallInv, Begin \/ CallerStep \/ TimePasses
  PROVE  CallInv'
<1> USE CallAssumption
    DEF CallInv, CallTypes, CallTypeOK, SpawnsClean, LooksAtProcess, NobodyWrites
<1>1. CASE Begin
  <2>1. /\ pos' = "spawn" /\ child' = "none" /\ heir' \in BOOLEAN /\ ~heir'
        /\ pipe' = <<>> /\ written' = 0 /\ last' = None
        /\ late' \in BOOLEAN /\ status' = "none" /\ result' = NoResult
    BY <1>1 DEF Begin, Fresh
  <2>2. pipe' \in Seq(Lines) /\ Len(pipe') <= PipeCap /\ written' \in 0..MaxLines
    BY <2>1, EmptyPipe
  <2>3. result' \in Results
    BY <2>1, NoResultIsResult
  <2> QED
    BY <2>1, <2>2, <2>3 DEF ResultIsLastWord, Results
<1>2. CASE CannotStart
  <2>1. result' \in Results /\ result'.ok = FALSE
    BY <1>2, FailedIsResult DEF CannotStart
  <2> QED
    BY <1>2, <2>1 DEF CannotStart, ResultIsLastWord, Results
<1>3. CASE Spawn
  BY <1>3 DEF Spawn, ResultIsLastWord
<1>4. CASE Feed
  BY <1>4 DEF Feed, ResultIsLastWord
<1>5. CASE Look
  BY <1>5 DEF Look, ResultIsLastWord
<1>6. CASE Sleep
  BY <1>6 DEF Sleep, ResultIsLastWord
<1>7. CASE Kill
  BY <1>7 DEF Kill, ResultIsLastWord
<1>8. CASE Join
  <2>1. UNCHANGED <<child, heir, pipe, written, last, late, status>> /\ pos' = "done"
        /\ result' = Judged /\ EndOfFile
    BY <1>8 DEF Join
  <2>2. Judged \in Results /\ ResultIsLastWord'
    BY <2>1, JudgedIsLastWord DEF EndOfFile, ResultIsLastWord, LastWord
  <2> QED
    BY <2>1, <2>2 DEF EndOfFile, Results
<1>9. CASE TimePasses
  BY <1>9 DEF TimePasses, ResultIsLastWord, LastWord
<1> QED
  BY <1>1, <1>2, <1>3, <1>4, <1>5, <1>6, <1>7, <1>8, <1>9 DEF CallerStep

LEMMA ProcessKeepsInv ==
  ASSUME CallInv, Read \/ ProcessStep
  PROVE  CallInv'
<1> USE CallAssumption
    DEF CallInv, CallTypes, CallTypeOK, SpawnsClean, LooksAtProcess, NobodyWrites
<1>1. CASE Read
  <2>1. Head(pipe) \in Lines /\ Tail(pipe) \in Seq(Lines) /\ Len(Tail(pipe)) <= PipeCap
    BY <1>1, HeadTailProperties DEF Read
  <2> QED
    BY <1>1, <2>1 DEF Read, ResultIsLastWord
<1>2. ASSUME NEW l \in Lines, WriteLine(l) PROVE CallInv'
  <2>1. Append(pipe, l) \in Seq(Lines) /\ Len(Append(pipe, l)) <= PipeCap
    BY <1>2, AppendProperties DEF WriteLine
  <2> QED
    BY <1>2, <2>1 DEF WriteLine, ResultIsLastWord
<1>3. CASE HeirEnds
  <2>1. /\ pos # "done" /\ heir' \in BOOLEAN /\ ~heir'
        /\ UNCHANGED <<pos, child, pipe, written, last, late, status, result>>
    BY <1>3 DEF HeirEnds
  <2> QED
    BY <2>1 DEF ResultIsLastWord
<1>4. ASSUME NEW s \in {"success", "failure"}, Exit(s) PROVE CallInv'
  BY <1>4 DEF Exit, ResultIsLastWord
<1> QED
  BY <1>1, <1>2, <1>3, <1>4 DEF ProcessStep

LEMMA CallInvNext ==
  ASSUME CallInv, Begin \/ CallStep \/ UNCHANGED callVars
  PROVE  CallInv'
<1>1. CASE UNCHANGED callVars
  BY <1>1 DEF callVars, CallInv, CallTypes, CallTypeOK, SpawnsClean, LooksAtProcess,
              NobodyWrites, ResultIsLastWord, LastWord
<1> QED
  BY <1>1, CallerKeepsInv, ProcessKeepsInv DEF CallStep

-----------------------------------------------------------------------------
(* The graph.                                                              *)

\* live holds what the last poll found, for all sites and channels, and nothing else;
\* whoever has heard of a neighbour has heard Zentrale.
LiveIsHeard ==
  IF heard = None THEN live = [nodes |-> <<>>, edges |-> <<>>]
  ELSE /\ heard \subseteq Sites /\ "cloud" \in heard
       /\ heard = {"cloud"} \/ "zentrale" \in heard
       /\ live = Entries(heard \ {"cloud"})

GraphInv == CallInv /\ LiveIsHeard

LEMMA SiteNames ==
  /\ DOMAIN ChannelOf = {"zentrale", "werkstatt", "hafenbuero", "aussendienst"}
  /\ Sites = {"cloud", "zentrale", "werkstatt", "hafenbuero", "aussendienst"}
BY DEF ChannelOf, Sites

\* A reply that can be read names Zentrale and neighbours, and no other site.
LEMMA OnlineAreSites ==
  ASSUME NEW r \in Results, r.ok => r.output \in Texts
  PROVE  /\ OnlineSites(r) \subseteq Sites \ {"cloud"}
         /\ OnlineSites(r) = {} \/ "zentrale" \in OnlineSites(r)
<1>1. CASE r.ok /\ r.output # Unreadable
  <2>1. PICK S \in SUBSET Neighbours : r.output = [online |-> S]
    BY <1>1, GraphAssumption DEF FieldTexts
  <2>2. OnlineSites(r) = {"zentrale"} \cup S
    BY <1>1, <2>1 DEF OnlineSites
  <2> QED
    BY <2>2, SiteNames DEF Neighbours
<1>2. CASE ~(r.ok /\ r.output # Unreadable)
  BY <1>2 DEF OnlineSites
<1> QED
  BY <1>1, <1>2

LEMMA GraphInvInit == Init => GraphInv
BY CallInvInit DEF Init, GraphInv, LiveIsHeard

\* The poll that is folded in is the call that was judged.
LEMMA FoldHears ==
  ASSUME GraphInv, Fold
  PROVE  LiveIsHeard'
<1> DEFINE good == status = "success" /\ LastWord # None /\ LastWord.kind = "output"
           answered == good /\ LastWord.text # Unreadable
<1>1. result \in Results /\ (result.ok <=> good) /\ (result.ok => result.output = LastWord.text)
  BY DEF GraphInv, CallInv, CallTypes, ResultIsLastWord, Fold
<1>2. result.ok => result.output \in Texts
  <2>1. ASSUME good PROVE LastWord.text \in Texts
    <3>1. LastWord = last /\ last # None
      BY <2>1 DEF GraphInv, CallInv, NobodyWrites, Fold, LastWord
    <3>2. last \in Lines
      BY <3>1 DEF GraphInv, CallInv, CallTypes, CallTypeOK
    <3> QED
      BY <2>1, <3>1, <3>2 DEF Lines
  <2> QED
    BY <1>1, <2>1
<1>3. OnlineSites(result) = IF answered THEN {"zentrale"} \cup LastWord.text.online ELSE {}
  BY <1>1 DEF OnlineSites
<1>4. heard' = {"cloud"} \cup OnlineSites(result)
  BY <1>3 DEF Fold
<1>5. live' = Entries(OnlineSites(result))
  BY DEF Fold
<1> HIDE DEF good, answered
<1>6. /\ OnlineSites(result) \subseteq Sites \ {"cloud"}
      /\ OnlineSites(result) = {} \/ "zentrale" \in OnlineSites(result)
  BY <1>1, <1>2, OnlineAreSites
<1>7. heard' \subseteq Sites /\ heard' \ {"cloud"} = OnlineSites(result)
  BY <1>4, <1>6, SiteNames
<1>8. heard' # None
  BY <1>7, MeshAssumption
<1>9. heard' = {"cloud"} \/ "zentrale" \in heard'
  BY <1>4, <1>6
<1>10. live' = Entries(heard' \ {"cloud"})
  BY <1>5, <1>7
<1>11. "cloud" \in heard'
  BY <1>4
<1>12. live' = Entries(heard \ {"cloud"})'
  BY <1>10 DEF Entries
<1> QED
  BY <1>7, <1>8, <1>9, <1>11, <1>12 DEF LiveIsHeard

LEMMA GraphInvNext == GraphInv /\ [Next]_vars => GraphInv'
<1> SUFFICES ASSUME GraphInv, [Next]_vars PROVE GraphInv'
  OBVIOUS
<1>1. CASE Fold
  <2>1. CallInv'
    BY <1>1 DEF Fold, GraphInv, CallInv, CallTypes, CallTypeOK, SpawnsClean, LooksAtProcess,
                NobodyWrites, ResultIsLastWord
  <2> QED
    BY <1>1, <2>1, FoldHears DEF GraphInv
<1>2. CASE PollBegins \/ Calling \/ UNCHANGED vars
  <2>1. UNCHANGED <<live, heard>>
    BY <1>2 DEF PollBegins, Calling, vars
  <2>2. CallInv'
    BY <1>2, CallInvNext DEF PollBegins, Calling, vars, GraphInv
  <2> QED
    BY <2>1, <2>2 DEF GraphInv, LiveIsHeard, Entries
<1> QED
  BY <1>1, <1>2 DEF Next

LEMMA GraphInvAlways == Spec => []GraphInv
BY GraphInvInit, GraphInvNext, PTL DEF Spec

\* Every variable keeps its type: live is empty or has an entry for every site.
THEOREM GraphTypeCorrect == Spec => []TypeOK
<1>1. GraphInv => TypeOK
  <2> SUFFICES ASSUME GraphInv PROVE TypeOK
    OBVIOUS
  <2>1. CallTypeOK
    BY DEF GraphInv, CallInv, CallTypes
  <2>2. CASE heard = None
    BY <2>1, <2>2 DEF GraphInv, LiveIsHeard, TypeOK
  <2>3. CASE heard # None
    <3>1. heard \subseteq Sites /\ live = Entries(heard \ {"cloud"})
      BY <2>3 DEF GraphInv, LiveIsHeard
    <3> DEFINE nodes == [s \in Sites |-> s \in (heard \ {"cloud"}) \cup {"cloud"}]
               edges == [c \in {ChannelOf[s] : s \in DOMAIN ChannelOf} |->
                           \E s \in heard \ {"cloud"} : c = ChannelOf[s]]
    <3>2. live.nodes = nodes /\ live.edges = edges
      BY <3>1 DEF Entries
    <3>3. DOMAIN nodes = Sites /\ \A s \in DOMAIN nodes : nodes[s] \in BOOLEAN
      OBVIOUS
    <3>4. \A c \in DOMAIN edges : edges[c] \in BOOLEAN
      OBVIOUS
    <3> HIDE DEF nodes, edges
    <3> QED
      BY <2>1, <3>1, <3>2, <3>3, <3>4 DEF TypeOK
  <2> QED
    BY <2>2, <2>3
<1> QED
  BY <1>1, GraphInvAlways, PTL

\* A call succeeds exactly when its process was seen to end well, all it printed was text
\* and its last word an output, and returns that output, whatever it printed before and
\* whoever held its pipe.
THEOREM CallReturnsLastWord == Spec => []ResultIsLastWord
<1>1. GraphInv => ResultIsLastWord
  BY DEF GraphInv, CallInv
<1> QED
  BY <1>1, GraphInvAlways, PTL

-----------------------------------------------------------------------------
(* What a graph tells of the last poll.                                    *)

\* A site's entry says online exactly if the site was heard of.
LEMMA NodesOnline ==
  ASSUME GraphInv, NEW s
  PROVE  (s \in DOMAIN live.nodes /\ live.nodes[s]) <=> (heard # None /\ s \in heard)
<1>1. CASE heard = None
  BY <1>1 DEF GraphInv, LiveIsHeard
<1>2. CASE heard # None
  <2>1. heard \subseteq Sites /\ "cloud" \in heard /\ live = Entries(heard \ {"cloud"})
    BY <1>2 DEF GraphInv, LiveIsHeard
  <2>2. live.nodes = [t \in Sites |-> t \in (heard \ {"cloud"}) \cup {"cloud"}]
    BY <2>1 DEF Entries
  <2> QED
    BY <1>2, <2>1, <2>2
<1> QED
  BY <1>1, <1>2

\* A channel's entry says connected exactly if the site it is named for was heard of.
LEMMA EdgesConnected ==
  ASSUME GraphInv, NEW s \in DOMAIN ChannelOf
  PROVE  (ChannelOf[s] \in DOMAIN live.edges /\ live.edges[ChannelOf[s]])
           <=> (heard # None /\ s \in heard)
<1>1. CASE heard = None
  BY <1>1 DEF GraphInv, LiveIsHeard
<1>2. CASE heard # None
  <2>1. heard \subseteq Sites /\ live = Entries(heard \ {"cloud"})
    BY <1>2 DEF GraphInv, LiveIsHeard
  <2>2. live.edges = [c \in {ChannelOf[t] : t \in DOMAIN ChannelOf} |->
                        \E t \in heard \ {"cloud"} : c = ChannelOf[t]]
    BY <2>1 DEF Entries
  <2>3. live.edges[ChannelOf[s]] <=> \E t \in heard \ {"cloud"} : ChannelOf[s] = ChannelOf[t]
    BY <2>2
  <2>4. \A t \in Sites \ {"cloud"} : ChannelOf[s] = ChannelOf[t] => s = t
    BY SiteNames DEF ChannelOf
  <2>5. s # "cloud"
    BY SiteNames
  <2> QED
    BY <1>2, <2>1, <2>2, <2>3, <2>4, <2>5
<1> QED
  BY <1>1, <1>2

LEMMA NodeTells ==
  ASSUME GraphInv, NEW h
  PROVE  NodeState(h) = "online" <=> Heard(h)
BY NodesOnline DEF NodeState, Heard

\* Both ends of a site's channel were heard of if the site was.
LEMMA BothEndsHeard ==
  ASSUME GraphInv, heard # None, NEW s \in DOMAIN ChannelOf, s \in heard
  PROVE  OtherEnd(s) \in heard
<1>1. s # "cloud" /\ "cloud" \in heard /\ (heard = {"cloud"} \/ "zentrale" \in heard)
  BY SiteNames DEF GraphInv, LiveIsHeard
<1> QED
  BY <1>1 DEF OtherEnd

LEMMA EdgeTells ==
  ASSUME GraphInv, NEW e
  PROVE  EdgeState(e) = "connected" <=>
           /\ Heard(e[1]) /\ Heard(e[2])
           /\ \E c \in Manifest.channels :
                {c.a, c.b} = {NodeByHolder(e[1]).id, NodeByHolder(e[2]).id}
<1> DEFINE a == NodeByHolder(e[1]).id
           b == NodeByHolder(e[2]).id
<1>1. EdgeState(e) = "connected" <=>
        /\ e[1] \in Holders /\ e[2] \in Holders
        /\ \E c \in Manifest.channels :
             /\ {c.a, c.b} = {a, b}
             /\ c.name \in DOMAIN live.edges /\ live.edges[c.name]
  BY DEF EdgeState, ChannelsBetween
<1>2. Heard(e[1]) <=> heard # None /\ e[1] \in Holders /\ a \in heard
  BY DEF Heard
<1>3. Heard(e[2]) <=> heard # None /\ e[2] \in Holders /\ b \in heard
  BY DEF Heard
<1> HIDE DEF a, b
<1>4. ASSUME NEW c \in Manifest.channels, {c.a, c.b} = {a, b},
             c.name \in DOMAIN live.edges, live.edges[c.name]
      PROVE  heard # None /\ a \in heard /\ b \in heard
  <2>1. heard # None
    BY <1>4 DEF GraphInv, LiveIsHeard
  <2>2. c.name \in {ChannelOf[s] : s \in DOMAIN ChannelOf}
    <3>1. live = Entries(heard \ {"cloud"})
      BY <2>1 DEF GraphInv, LiveIsHeard
    <3> QED
      BY <1>4, <3>1 DEF Entries
  <2>3. PICK s \in DOMAIN ChannelOf : c.name = ChannelOf[s] /\ {c.a, c.b} = {s, OtherEnd(s)}
    BY <2>2, MeshAssumption
  <2>4. s \in heard
    BY <1>4, <2>3, EdgesConnected
  <2>5. OtherEnd(s) \in heard
    BY <2>1, <2>4, BothEndsHeard
  <2> QED
    BY <1>4, <2>1, <2>3, <2>4, <2>5
<1>5. ASSUME NEW c \in Manifest.channels, {c.a, c.b} = {a, b},
             heard # None, a \in heard, b \in heard
      PROVE  c.name \in DOMAIN live.edges /\ live.edges[c.name]
  <2>1. {c.a, c.b} \subseteq Sites
    BY <1>5 DEF GraphInv, LiveIsHeard
  <2>2. PICK s \in DOMAIN ChannelOf : c.name = ChannelOf[s] /\ {c.a, c.b} = {s, OtherEnd(s)}
    BY <2>1, MeshAssumption
  <2>3. s \in heard
    BY <1>5, <2>2
  <2> QED
    BY <1>5, <2>2, <2>3, EdgesConnected
<1> QED
  <2>1. (\E c \in Manifest.channels : {c.a, c.b} = {a, b}) <=>
        (\E c \in Manifest.channels :
            {c.a, c.b} = {NodeByHolder(e[1]).id, NodeByHolder(e[2]).id})
    BY DEF a, b
  <2> QED
    BY <1>1, <1>2, <1>3, <1>4, <1>5, <2>1

\* In every graph a site is online exactly if it answered in the last poll, and an edge
\* connected exactly if both its ends did and the manifest knows a channel between them:
\* nothing stays green after a poll that failed, for every manifest of the mesh and every
\* account.
THEOREM GraphIsThePoll == Spec => []GraphTellsPoll
<1>1. GraphInv => GraphTellsPoll
  BY NodeTells, EdgeTells DEF GraphTellsPoll, BuildGraph
<1> QED
  BY <1>1, GraphInvAlways, PTL

-----------------------------------------------------------------------------
(* Which topology is drawn.                                                *)

LEMMA LeastIndex ==
  ASSUME NEW S \in SUBSET Nat, S # {}
  PROVE  \E n \in S : \A m \in S : n <= m
<1> DEFINE R == OpToRel(<, Nat)
<1>1. IsWellFoundedOn(R, Nat)
  BY NatLessThanWellFounded
<1>2. \A n, m \in Nat : m < n => <<m, n>> \in R
  BY DEF OpToRel
<1> HIDE DEF R
<1>3. PICK n \in S : \A m \in S : ~ (<<m, n>> \in R)
  BY <1>1, WFMin, Zenon
<1>4. \A m \in S : ~ (m < n)
  BY <1>2, <1>3, Zenon
<1> QED
  BY <1>4

\* The first hit is a hit.
LEMMA FirstIsHit ==
  ASSUME NEW views, NEW hits \in SUBSET Nat, hits # {}
  PROVE  \E i \in hits : First(views, hits) = views[i]
<1>1. \E i \in hits : \A j \in hits : i <= j
  BY LeastIndex
<1> QED
  BY <1>1 DEF First

\* What is fetched of an account: its first ViewLimit topologies, as they come.
LEMMA FetchedViews ==
  ASSUME NEW account \in Accounts \ {Failed}
  PROVE  LET limit == IF Len(account) < ViewLimit THEN Len(account) ELSE ViewLimit
             views == SubSeq(account, 1, limit)
         IN  /\ DOMAIN views = {i \in DOMAIN account : i <= ViewLimit}
             /\ \A i \in DOMAIN views : views[i] = account[i]
             /\ DOMAIN views \subseteq Nat
<1> DEFINE T == {account[i] : i \in DOMAIN account}
           limit == IF Len(account) < ViewLimit THEN Len(account) ELSE ViewLimit
<1>1. account \in Seq(T)
  BY AccountAssumption
<1> HIDE DEF T
<1>2. Len(account) \in Nat /\ DOMAIN account = 1..Len(account)
  BY <1>1
<1>3. limit \in Nat /\ limit <= Len(account) /\ limit <= ViewLimit
  BY <1>2, GraphAssumption
<1>4. SubSeq(account, 1, limit) = [i \in 1..limit |-> account[i]]
  BY <1>1, <1>2, <1>3 DEF limit
<1> QED
  BY <1>2, <1>3, <1>4, GraphAssumption

\* A user with several topologies gets a Nordwind one: if none of those fetched fails and
\* one of them has a Nordwind agent, that is what the graph shows, from the control plane.
THEOREM NordwindShown == Spec => []NordwindIsShown
<1>1. ASSUME NEW account \in Accounts \ {Failed},
             \A i \in {i \in DOMAIN account : i <= ViewLimit} : account[i] # Failed,
             \E i \in {i \in DOMAIN account : i <= ViewLimit} : account[i].agents \cap Holders # {}
      PROVE  LET top == FetchTopology(account, None)
             IN  top # None /\ top.agents \cap Holders # {}
  <2> DEFINE limit == IF Len(account) < ViewLimit THEN Len(account) ELSE ViewLimit
             views == SubSeq(account, 1, limit)
             hits == {i \in DOMAIN views : views[i].agents \cap Holders # {}}
  <2>1. /\ DOMAIN views = {i \in DOMAIN account : i <= ViewLimit}
        /\ \A i \in DOMAIN views : views[i] = account[i]
        /\ DOMAIN views \subseteq Nat
    BY FetchedViews
  <2>2. account \notin {Failed, <<>>}
    BY <1>1
  <2>3. FetchTopology(account, None) =
          IF \E i \in DOMAIN views : views[i] = Failed THEN None ELSE PickTopology(views, None)
    BY <2>2 DEF FetchTopology
  <2> HIDE DEF views
  <2>4. FetchTopology(account, None) = First(views, hits)
    BY <1>1, <2>1, <2>3 DEF PickTopology
  <2>5. hits # {} /\ hits \in SUBSET Nat
    BY <1>1, <2>1
  <2>6. PICK i \in hits : First(views, hits) = views[i]
    BY <2>5, FirstIsHit
  <2>7. views[i] = account[i] /\ account[i] # None
    BY <2>1, <2>6, AccountAssumption
  <2> QED
    BY <2>4, <2>6, <2>7
<1>2. NordwindIsShown
  BY <1>1 DEF NordwindIsShown, BuildGraph
<1> QED
  BY <1>2, PTL

=============================================================================
