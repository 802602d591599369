------------------------------- MODULE FieldJob -------------------------------
(***************************************************************************)
(* What hop 4 of a briefing promises (src/nordwind/node/nordwind_node.py,  *)
(* svc_feld_abruf, svc_feld_quittung, field_hop), without files, polls or  *)
(* processes: the job of a run is offered once, is handed to the field     *)
(* node at most once or withdrawn, and the hop ends well only if the job   *)
(* was handed over.  It never invents a field result.  Handed means taken  *)
(* out of the inbox for the node, which may never get to hear of it.       *)
(***************************************************************************)
CONSTANT Runs

VARIABLES
  job,        \* what became of each run's job
  verdict     \* how each run's hop 4 ended

vars == <<job, verdict>>

Init ==
  /\ job = [r \in Runs |-> "none"]
  /\ verdict = [r \in Runs |-> "open"]

Offer(r) ==
  /\ job[r] = "none" /\ verdict[r] = "open"
  /\ job' = [job EXCEPT ![r] = "offered"]
  /\ UNCHANGED verdict

Hand(r) ==
  /\ job[r] = "offered"
  /\ job' = [job EXCEPT ![r] = "handed"]
  /\ UNCHANGED verdict

Withdraw(r) ==
  /\ job[r] = "offered" /\ verdict[r] = "open"
  /\ job' = [job EXCEPT ![r] = "withdrawn"]
  /\ UNCHANGED verdict

EndWell(r) ==
  /\ job[r] = "handed" /\ verdict[r] = "open"
  /\ verdict' = [verdict EXCEPT ![r] = "ok"]
  /\ UNCHANGED job

EndBadly(r) ==
  /\ job[r] \in {"handed", "withdrawn"} /\ verdict[r] = "open"
  /\ verdict' = [verdict EXCEPT ![r] = "error"]
  /\ UNCHANGED job

Next == \E r \in Runs : Offer(r) \/ Hand(r) \/ Withdraw(r) \/ EndWell(r) \/ EndBadly(r)

Spec == Init /\ [][Next]_vars
=============================================================================
