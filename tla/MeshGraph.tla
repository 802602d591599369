------------------------------ MODULE MeshGraph ------------------------------
(***************************************************************************)
(* From a poll to the graph (src/topology.rs): the outcome of a channel    *)
(* call to Zentrale is folded into Hub.live, and a graph is drawn from the *)
(* account's topology, or from the manifest if the control plane fails,    *)
(* with live on top of it.                                                 *)
(*                                                                         *)
(* A mesh_status answer is the set of neighbours it calls online.  One     *)
(* poll at a time: MeshLive has polls that overlap.  Measurements, labels  *)
(* and versions are left out; a live entry is whether it is online.        *)
(***************************************************************************)
EXTENDS ChannelCall

CONSTANTS
  Manifest,     \* [nodes : sets of [id, holder, planned], channels : sets of [name, a, b]]
  Accounts,     \* what /me/topologies may hold: sequences of topologies, or Failed
  Wanted,       \* values of NW_TOPOLOGY_ID, None among them
  ViewLimit,    \* topologies that are fetched (10 in the code)
  Unreadable,   \* an answer that is no JSON
  Failed        \* a request to the control plane that went wrong

VARIABLES
  live,         \* Hub.live: online or not, by site and by channel
  heard         \* history: the sites that answered in the last poll, or None

vars == <<callVars, live, heard>>

Neighbours == {"werkstatt", "hafenbuero", "aussendienst"}
FieldTexts == {[online |-> S] : S \in SUBSET Neighbours} \cup {Unreadable}

ASSUME GraphAssumption ==
  /\ Texts = FieldTexts
  /\ ViewLimit \in Nat
  /\ \A m, n \in Manifest.nodes : (m.id = n.id \/ m.holder = n.holder) => m = n
  /\ \A c, d \in Manifest.channels : {c.a, c.b} = {d.a, d.b} => c = d

Init ==
  /\ CallInit
  /\ live = [nodes |-> <<>>, edges |-> <<>>]
  /\ heard = None

-----------------------------------------------------------------------------
(* apply_mesh_status.                                                      *)

ChannelOf == [zentrale |-> "cloud-zentrale", werkstatt |-> "zentrale-werkstatt",
              hafenbuero |-> "zentrale-hafenbuero", aussendienst |-> "aussendienst-zentrale"]

Sites == DOMAIN ChannelOf \cup {"cloud"}

\* The manifest is the one nordwind-provision.sh writes, the mesh this function has by
\* heart: Zentrale's channel leads to the hub and every other site's to Zentrale.
OtherEnd(s) == IF s = "zentrale" THEN "cloud" ELSE "zentrale"

ASSUME MeshAssumption ==
  /\ \A c \in Manifest.channels :
       \/ c.name \in {ChannelOf[s] : s \in DOMAIN ChannelOf}
       \/ {c.a, c.b} \subseteq Sites
       => \E s \in DOMAIN ChannelOf : c.name = ChannelOf[s] /\ {c.a, c.b} = {s, OtherEnd(s)}
  /\ \A S \in SUBSET Sites : S # None

\* Mutation of Entries: the hub forgets itself.
EntriesOfNodes(online) ==
  [nodes |-> [s \in DOMAIN ChannelOf |-> s \in online],
   edges |-> [c \in {ChannelOf[s] : s \in DOMAIN ChannelOf} |->
                \E s \in online : c = ChannelOf[s]]]

\* The entries written for a poll that found these sites online: always for all of them.
Entries(online) ==
  [nodes |-> [s \in Sites |-> s \in online \cup {"cloud"}],
   edges |-> [c \in {ChannelOf[s] : s \in DOMAIN ChannelOf} |->
                \E s \in online : c = ChannelOf[s]]]

\* Mutation of OnlineSites: a failed call says nothing about the neighbours.
OnlineSitesStale(r) ==
  IF r.ok /\ r.output # Unreadable THEN {"zentrale"} \cup r.output.online
  ELSE {s \in Neighbours \cap DOMAIN live.nodes : live.nodes[s]}

\* A call that failed, or an answer that cannot be read, leaves no site online.
OnlineSites(r) == IF r.ok /\ r.output # Unreadable THEN {"zentrale"} \cup r.output.online ELSE {}

Fold ==
  /\ pos = "done" /\ pos' = "idle"
  /\ live' = Entries(OnlineSites(result))
  /\ heard' = {"cloud"} \cup
       IF status = "success" /\ LastWord # None /\ LastWord.kind = "output" /\ LastWord.text # Unreadable
       THEN {"zentrale"} \cup LastWord.text.online ELSE {}
  /\ UNCHANGED <<child, heir, pipe, written, last, late, status, result>>

-----------------------------------------------------------------------------
(* fetch_topology and pick_topology.                                       *)

Holders == {n.holder : n \in Manifest.nodes}
NodeByHolder(h) == CHOOSE n \in Manifest.nodes : n.holder = h

First(views, hits) == IF hits = {} THEN None ELSE views[CHOOSE i \in hits : \A j \in hits : i <= j]

Named(views, wanted) == First(views, {i \in DOMAIN views : views[i].id = wanted})

\* Mutation of PickTopology: the first one is as good as any.
PickFirst(views, wanted) == IF wanted # None THEN Named(views, wanted) ELSE views[1]

PickTopology(views, wanted) ==
  IF wanted # None THEN Named(views, wanted)
                   ELSE First(views, {i \in DOMAIN views : views[i].agents \cap Holders # {}})

ASSUME AccountAssumption ==
  \A account \in Accounts \ {Failed} :
    /\ account \in Seq({account[i] : i \in DOMAIN account})
    /\ \A i \in DOMAIN account : account[i] # None

\* None is an error: no answer, no topology, one that cannot be read, or none to pick.
FetchTopology(account, wanted) ==
  IF account \in {Failed, <<>>} THEN None
  ELSE LET views == SubSeq(account, 1, IF Len(account) < ViewLimit THEN Len(account) ELSE ViewLimit)
       IN  IF \E i \in DOMAIN views : views[i] = Failed THEN None ELSE PickTopology(views, wanted)

\* The topologies a graph may be drawn of.
Fetched == {FetchTopology(account, wanted) : account \in Accounts, wanted \in Wanted}

-----------------------------------------------------------------------------
(* build_graph.                                                            *)

FromManifest ==
  LET HolderOf(id) == (CHOOSE n \in Manifest.nodes : n.id = id).holder
      ids == {n.id : n \in Manifest.nodes}
  IN  [agents |-> Holders,
       edges  |-> {<<HolderOf(c.a), HolderOf(c.b)>> :
                     c \in {d \in Manifest.channels : {d.a, d.b} \subseteq ids}}]

NodeState(h) ==
  LET n == NodeByHolder(h)
  IN  IF h \notin Holders THEN "unknown"
      ELSE IF n.id \in DOMAIN live.nodes /\ live.nodes[n.id] THEN "online"
      ELSE IF n.planned THEN "planned"
      ELSE IF n.id \in DOMAIN live.nodes THEN "offline" ELSE "unknown"

\* Mutation of ChannelsBetween: only in the manifest's direction.
ChannelsOneWay(a, b) == {c \in Manifest.channels : c.a = a /\ c.b = b}

ChannelsBetween(a, b) == {c \in Manifest.channels : {c.a, c.b} = {a, b}}

EdgeState(e) ==
  IF /\ {e[1], e[2]} \subseteq Holders
     /\ \E c \in ChannelsBetween(NodeByHolder(e[1]).id, NodeByHolder(e[2]).id) :
          c.name \in DOMAIN live.edges /\ live.edges[c.name]
  THEN "connected" ELSE "offline"

BuildGraph(top) ==
  LET shape == IF top = None THEN FromManifest ELSE top
  IN  [source |-> IF top = None THEN "manifest" ELSE "control-plane",
       nodes  |-> [h \in shape.agents |-> NodeState(h)],
       edges  |-> [e \in shape.edges |-> EdgeState(e)]]

-----------------------------------------------------------------------------
PollBegins == Begin /\ UNCHANGED <<live, heard>>
Calling    == CallStep /\ UNCHANGED <<live, heard>>

Next == PollBegins \/ Calling \/ Fold

Spec == Init /\ [][Next]_vars

\* The caller, the reader and the clock go on; nothing is assumed of the process.
Fairness ==
  /\ WF_vars(CallerStep /\ UNCHANGED <<live, heard>>)
  /\ WF_vars(Read /\ UNCHANGED <<live, heard>>)
  /\ WF_vars(TimePasses /\ UNCHANGED <<live, heard>>)

FairSpec == Spec /\ Fairness

-----------------------------------------------------------------------------
(* Properties.                                                             *)

TypeOK ==
  /\ CallTypeOK
  /\ DOMAIN live.nodes \in {{}, Sites}
  /\ \A s \in DOMAIN live.nodes : live.nodes[s] \in BOOLEAN
  /\ \A c \in DOMAIN live.edges : live.edges[c] \in BOOLEAN
  /\ heard = None \/ heard \subseteq Sites

Heard(h) == heard # None /\ h \in Holders /\ NodeByHolder(h).id \in heard

\* "Live state comes exclusively from real channel calls": in whatever graph is drawn
\* now, a site is online exactly if it answered in the last poll, and an edge connected
\* exactly if both its ends did and the manifest knows a channel between them, in either
\* direction; nothing stays green after a poll that failed.
GraphTellsPoll ==
  \A top \in Fetched :
    LET g == BuildGraph(top)
    IN  /\ \A h \in DOMAIN g.nodes : g.nodes[h] = "online" <=> Heard(h)
        /\ \A e \in DOMAIN g.edges :
             g.edges[e] = "connected" <=>
               /\ Heard(e[1]) /\ Heard(e[2])
               /\ \E c \in Manifest.channels :
                    {c.a, c.b} = {NodeByHolder(e[1]).id, NodeByHolder(e[2]).id}

\* "So a user with several topologies gets the Nordwind one": if no topology is asked
\* for, none of those fetched fails and one of them has a Nordwind agent, the graph is
\* the control plane's and shows such an agent.
NordwindIsShown ==
  \A account \in Accounts \ {Failed} :
    LET seen == {i \in DOMAIN account : i <= ViewLimit}
        g == BuildGraph(FetchTopology(account, None))
    IN  /\ \A i \in seen : account[i] # Failed
        /\ \E i \in seen : account[i].agents \cap Holders # {}
        => g.source = "control-plane" /\ DOMAIN g.nodes \cap Holders # {}

=============================================================================
