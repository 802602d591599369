------------------------------- MODULE Dashboard -------------------------------
(***************************************************************************)
(* How the dashboard shows the presence of the peers (index.html).  It     *)
(* asks for /status when it loads, every 8 s, and on every presence event  *)
(* (whose own content it ignores), without waiting for the request before  *)
(* it, so answers may overtake one another.  status_handler looks at one   *)
(* peer after the other.  The answer sets each peer's pill and enables or  *)
(* disables its option in the chat's picker; the picker is built once, by  *)
(* the answer to /identities, which may come before or after a status.     *)
(*                                                                         *)
(* The interval alone makes a request possible at any time, so the events  *)
(* that only add more of them are not followed one by one.                 *)
(***************************************************************************)
EXTENDS Presence

CONSTANTS
  Requests      \* bound: /status requests of the page in flight at once

VARIABLES
  picker,       \* the request for /identities: asked, built or failed
  pill, option, \* what is shown of each peer: its pill is lit; its option in the picker
  asking,       \* the requests under way
  unread,       \* the peers a request has not looked at yet
  heard         \* what it found of the others

pageVars == <<picker, pill, option, asking, unread, heard>>
allVars  == <<vars, pageVars>>

DashboardInit ==
  /\ Init
  /\ picker = "asked"
  /\ pill = [p \in Peers |-> FALSE] /\ option = [p \in Peers |-> "missing"]
  /\ asking = {}
  /\ unread = [f \in Requests |-> {}]
  /\ heard = [f \in Requests |-> [p \in Peers |-> FALSE]]

-----------------------------------------------------------------------------
(* refreshStatus, and status_handler at the bridge.                        *)

\* Mutation of Refresh: the page asks again only while it shows nobody.
RefreshUntilSeen(f) ==
  /\ f \notin asking
  /\ \A p \in Peers : ~pill[p]
  /\ asking' = asking \cup {f}
  /\ unread' = [unread EXCEPT ![f] = Peers]
  /\ UNCHANGED <<vars, picker, pill, option, heard>>

Refresh(f) ==
  /\ f \notin asking
  /\ asking' = asking \cup {f}
  /\ unread' = [unread EXCEPT ![f] = Peers]
  /\ UNCHANGED <<vars, picker, pill, option, heard>>

StatusReads(f, p) ==
  /\ p \in unread[f]
  /\ heard' = [heard EXCEPT ![f][p] = Online(p)]
  /\ unread' = [unread EXCEPT ![f] = @ \ {p}]
  /\ UNCHANGED <<vars, picker, pill, option, asking>>

Finished(f) ==
  /\ asking' = asking \ {f}
  /\ unread' = [unread EXCEPT ![f] = {}]
  /\ heard' = [heard EXCEPT ![f] = [p \in Peers |-> FALSE]]

\* applyOnlineState touches the options that exist.
ApplyOnlineState(on) ==
  option' = [p \in Peers |-> IF option[p] = "missing" THEN "missing"
                             ELSE IF on[p] THEN "enabled" ELSE "disabled"]

\* Mutation of StatusArrives: the picker is left as it is.
StatusArrivesPillOnly(f) ==
  /\ f \in asking /\ unread[f] = {}
  /\ pill' = heard[f]
  /\ Finished(f)
  /\ UNCHANGED <<vars, picker, option>>

StatusArrives(f) ==
  /\ f \in asking /\ unread[f] = {}
  /\ pill' = heard[f]
  /\ ApplyOnlineState(heard[f])
  /\ Finished(f)
  /\ UNCHANGED <<vars, picker>>

\* A request that never reaches the bridge is like one whose answer is lost.
StatusFails(f) ==
  /\ f \in asking /\ unread[f] = {}
  /\ Finished(f)
  /\ UNCHANGED <<vars, picker, pill, option>>

-----------------------------------------------------------------------------
(* The request for /identities; a failed one is not repeated.              *)

\* populateOptions: a new option is enabled, whatever was heard before.
IdentitiesArrive ==
  /\ picker = "asked"
  /\ picker' = "built"
  /\ option' = [p \in Peers |-> "enabled"]
  /\ UNCHANGED <<vars, pill, asking, unread, heard>>

IdentitiesFail ==
  /\ picker = "asked"
  /\ picker' = "failed"
  /\ UNCHANGED <<vars, pill, option, asking, unread, heard>>

-----------------------------------------------------------------------------
PageStep(f) ==
  Refresh(f) \/ StatusArrives(f) \/ StatusFails(f) \/ \E p \in Peers : StatusReads(f, p)

DashboardNext ==
  \/ Next /\ UNCHANGED pageVars
  \/ \E f \in Requests : PageStep(f)
  \/ IdentitiesArrive \/ IdentitiesFail

\* The page's timer runs, its requests are answered or fail, and not all of those
\* that it makes again and again fail.
DashboardFairness ==
  /\ Fairness
  /\ \A f \in Requests : WF_allVars(PageStep(f))
  /\ SF_allVars(\E f \in Requests : StatusArrives(f))
  /\ WF_allVars(IdentitiesArrive \/ IdentitiesFail)

DashboardSpec == DashboardInit /\ [][DashboardNext]_allVars /\ DashboardFairness

-----------------------------------------------------------------------------
(* Properties.                                                             *)

DashboardTypeOK ==
  /\ TypeOK
  /\ picker \in {"asked", "built", "failed"}
  /\ pill \in [Peers -> BOOLEAN] /\ option \in [Peers -> {"missing", "enabled", "disabled"}]
  /\ \A p \in Peers : option[p] = "missing" <=> picker # "built"
  /\ asking \in SUBSET Requests /\ unread \in [Requests -> SUBSET Peers]
  /\ heard \in [Requests -> [Peers -> BOOLEAN]]
  /\ \A f \in Requests \ asking : unread[f] = {}

\* A dashboard left open comes to show what is so, in its pill and in the picker:
\* neither an answer that was overtaken nor an option that was built enabled for an
\* absent peer lasts, whether or not an event ever reaches the page.
PageTellsPresence ==
  \A p \in Peers :
    /\ <>[]Online(p) => <>[](pill[p] /\ option[p] # "disabled")
    /\ <>[]~Online(p) => <>[](~pill[p] /\ option[p] # "enabled")

=============================================================================
