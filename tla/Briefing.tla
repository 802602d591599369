------------------------------- MODULE Briefing -------------------------------
(***************************************************************************)
(* svc_toern_briefing (src/nordwind/node/nordwind_node.py) on top of the   *)
(* mailbox: hops 2 and 3 are channel calls, and hop 4 is made only if the  *)
(* field node was seen within FIELD_ONLINE_WINDOW_S.  When it was seen is  *)
(* the number in the file lastseen, which main rewrites at the start of    *)
(* every call served on the field channel: once for each poll and once for *)
(* each receipt.  open(path, "w") empties the file and the number is       *)
(* written afterwards, so whoever reads in between finds no number and     *)
(* takes the field node for absent.  An error of either step is swallowed: *)
(* the call is served, and the file stays as it is, empty if it was so.    *)
(*                                                                         *)
(* An absent file, an empty one and one with an old number are all alike   *)
(* to a reader: there is no number from within the window.                 *)
(***************************************************************************)
EXTENDS FieldMailbox

VARIABLES
  brief,       \* the briefing of each run: position, then outcome
  lastseen,    \* the file: a number from within the window, or nothing of use
  open,        \* calls that have emptied lastseen and not written it yet
  dated,       \* calls that have done so, or failed to, and are being served
  near,        \* history: whether a call of the field node came in within the window
  spoiled      \* history: whether one has failed to leave its number since one did

touchVars    == <<lastseen, open, dated, near, spoiled>>
briefingVars == <<brief, touchVars>>
allVars      == <<vars, briefingVars>>

Calls == Handlers \cup [run : Runs, sheet : Receipt]

\* A poll is no receipt: each call is a process of its own.
ASSUME CallsAssumption == Handlers \cap [run : Runs, sheet : Receipt] = {}

\* What the caller gets: a briefing of three sites, of four, or an error.
Outcomes == {"three", "four", "error"}

BriefingInit ==
  /\ Init
  /\ brief = [r \in Runs |-> "none"]
  /\ lastseen \in {"fresh", "stale"}
  /\ open = {} /\ dated = {}
  /\ near = (lastseen = "fresh") /\ spoiled = FALSE

-----------------------------------------------------------------------------
(* svc_toern_briefing.                                                     *)

Goto(r, from, to) == brief[r] = from /\ brief' = [brief EXCEPT ![r] = to]

Ask(r) == Goto(r, "none", "hop2") /\ UNCHANGED <<vars, touchVars>>

\* A call over a channel has an end of its own, its timeout of 100 s.
CallWerkstatt(r) ==
  /\ \E next \in {"hop3", "error"} : Goto(r, "hop2", next)
  /\ UNCHANGED <<vars, touchVars>>

\* An unreadable reply of either node comes to light after hop 3.
CallHafenbuero(r) ==
  /\ \E next \in {"decide", "error"} : Goto(r, "hop3", next)
  /\ UNCHANGED <<vars, touchVars>>

\* read_lastseen is None for an absent and for an empty file, and then counts like an old one.
Decide(r) ==
  /\ Goto(r, "decide", IF lastseen = "fresh" THEN "field" ELSE "three")
  /\ UNCHANGED <<vars, touchVars>>

FieldHop(r) == brief[r] = "field" /\ HopStep(r) /\ UNCHANGED briefingVars

\* Mutation of FieldAnswers: a field hop that failed is passed over in silence.
FieldAnswersPassedOver(r) ==
  /\ hop[r] = "ended"
  /\ Goto(r, "field", IF got[r] = "good" THEN "four" ELSE "three")
  /\ UNCHANGED <<vars, touchVars>>

FieldAnswers(r) ==
  /\ hop[r] = "ended"
  /\ Goto(r, "field", IF got[r] = "good" THEN "four" ELSE "error")
  /\ UNCHANGED <<vars, touchVars>>

\* The briefing's process dies; what it put into the mailbox stays.
Killed(r) ==
  /\ Faults
  /\ \/ brief[r] \in {"hop2", "hop3", "decide"} /\ UNCHANGED vars
     \/ brief[r] = "field" /\ HopCrashes(r)
  /\ brief' = [brief EXCEPT ![r] = "killed"]
  /\ UNCHANGED touchVars

-----------------------------------------------------------------------------
(* main and touch_lastseen, for the calls of the field channel.            *)

Served == {h \in Handlers : hpc[h] = "scan"} \cup receipts

\* Mutation of Truncate: the file is not closed, so the number waits for the service's end.
TruncateUnclosed(c) ==
  /\ c \in Served \ (open \cup dated)
  /\ lastseen' = "stale"
  /\ dated' = dated \cup {c}
  /\ near' = TRUE
  /\ UNCHANGED <<vars, brief, open, spoiled>>

Truncate(c) ==
  /\ c \in Served \ (open \cup dated)
  /\ lastseen' = "stale"
  /\ open' = open \cup {c}
  /\ near' = TRUE
  /\ UNCHANGED <<vars, brief, dated, spoiled>>

\* The file cannot be opened and stays as it is.
OpenFails(c) ==
  /\ Faults
  /\ c \in Served \ (open \cup dated)
  /\ dated' = dated \cup {c}
  /\ near' = TRUE /\ spoiled' = TRUE
  /\ UNCHANGED <<vars, brief, lastseen, open>>

\* Mutation of WriteSeen: the call is not noted as dated.
WriteSeenAgain(c) ==
  /\ c \in open
  /\ lastseen' = "fresh"
  /\ dated' = dated \cup {c}
  /\ near' = TRUE /\ spoiled' = FALSE
  /\ UNCHANGED <<vars, brief, open>>

WriteSeen(c) ==
  /\ c \in open
  /\ lastseen' = "fresh"
  /\ open' = open \ {c} /\ dated' = dated \cup {c}
  /\ near' = TRUE /\ spoiled' = FALSE
  /\ UNCHANGED <<vars, brief>>

\* The number does not reach the file, which is what this or another call made of it.
WriteFails(c) ==
  /\ Faults
  /\ c \in open
  /\ open' = open \ {c} /\ dated' = dated \cup {c}
  /\ spoiled' = near
  /\ UNCHANGED <<vars, brief, lastseen, near>>

\* FIELD_ONLINE_WINDOW_S have passed since the number was written; the last call that
\* came in is no older, and younger only if it has not left a number.
SeenAges ==
  /\ lastseen = "fresh"
  /\ lastseen' = "stale"
  /\ \/ near' = FALSE /\ spoiled' = FALSE
     \/ (spoiled \/ open # {}) /\ UNCHANGED <<near, spoiled>>
  /\ UNCHANGED <<vars, brief, open, dated>>

\* They have passed since the last call came in, and there is no number of its time.
NodeIsAway ==
  /\ near /\ lastseen # "fresh"
  /\ near' = FALSE /\ spoiled' = FALSE
  /\ UNCHANGED <<vars, brief, lastseen, open, dated>>

\* A service begins once its call is done with the file.
ServePoll(h) ==
  /\ hpc[h] # "idle"
  /\ h \in dated
  /\ PollStep(h) \/ PollWaitIsOver(h)
  /\ dated' = IF hpc'[h] = "idle" THEN dated \ {h} ELSE dated
  /\ UNCHANGED <<brief, lastseen, open, near, spoiled>>

ServeQuittung(q) ==
  /\ q \in dated
  /\ Quittung(q)
  /\ dated' = dated \ {q}
  /\ UNCHANGED <<brief, lastseen, open, near, spoiled>>

\* The call is gone, with the file as it has left it.
Forget(c) ==
  /\ open' = open \ {c} /\ dated' = dated \ {c}
  /\ spoiled' = (spoiled \/ (near /\ c \in open))
  /\ UNCHANGED <<brief, lastseen, near>>

PollKilled(h) == HandlerDies(h) /\ Forget(h)

\* A receipt is lost on its way, or with the process that serves it.
LoseQuittung(q) ==
  /\ Faults \/ q \notin open \cup dated
  /\ QuittungLost(q) /\ Forget(q)

TouchStep(c) == Truncate(c) \/ OpenFails(c) \/ WriteSeen(c) \/ WriteFails(c)

-----------------------------------------------------------------------------
BriefingStep(r) ==
  CallWerkstatt(r) \/ CallHafenbuero(r) \/ Decide(r) \/ FieldHop(r) \/ FieldAnswers(r)

BriefingNext ==
  \/ \E r \in Runs : Ask(r) \/ BriefingStep(r) \/ Killed(r)
  \/ \E c \in Calls : TouchStep(c)
  \/ SeenAges \/ NodeIsAway
  \/ \E h \in Handlers : ServePoll(h) \/ PollKilled(h)
  \/ \E q \in receipts : ServeQuittung(q) \/ LoseQuittung(q)
  \/ NodeStep /\ UNCHANGED briefingVars

\* Processes at Zentrale are scheduled, their calls end and their clocks run.  Nothing
\* is assumed of the field node or of its channel.
BriefingFairness ==
  /\ \A r \in Runs : WF_allVars(BriefingStep(r))
  /\ \A c \in Calls : WF_allVars(TouchStep(c))
  /\ \A h \in Handlers : /\ WF_allVars(ServePoll(h))
                         /\ WF_allVars(h \in dated /\ PollWaitIsOver(h) /\ UNCHANGED briefingVars)

BriefingSpec == BriefingInit /\ [][BriefingNext]_allVars /\ BriefingFairness

-----------------------------------------------------------------------------
(* Properties.                                                             *)

BriefingTypeOK ==
  /\ TypeOK
  /\ brief \in [Runs -> Outcomes \cup {"none", "hop2", "hop3", "decide", "field", "killed"}]
  /\ lastseen \in {"fresh", "stale"}
  /\ open \in SUBSET Calls /\ dated \in SUBSET Calls
  /\ near \in BOOLEAN /\ spoiled \in BOOLEAN
  /\ open \cap dated = {}
  /\ (open \cup dated) \cap Handlers \subseteq {h \in Handlers : hpc[h] # "idle"}

\* "Otherwise the run honestly covers three sites and says so - never a made-up field
\* result": a briefing of three sites was never given to the field node, in one of four
\* the field node was handed the job once and answered it.
HonestBriefing ==
  \A r \in Runs :
    /\ brief[r] = "three" => handouts[r] = 0 /\ r \notin inbox
    /\ brief[r] = "four" => handouts[r] = 1 /\ got[r] = "good"

\* A field node that called within the window is left out of a briefing only in the
\* instant in which one of its calls is rewriting lastseen, or if a call has failed to
\* leave its number since the last one that did.
LeftOutOnlyIfAway ==
  [][\A r \in Runs : brief[r] = "decide" /\ brief'[r] = "three" =>
       ~near \/ open # {} \/ spoiled]_allVars

\* A briefing that was asked for gets its outcome, whatever the field node does with the
\* job and however its polls and receipts go astray.
BriefingEnds == \A r \in Runs : brief[r] = "hop2" ~> brief[r] \in Outcomes \cup {"killed"}

\* A poll is answered, with its caller gone or not, although it goes round while its wait
\* lasts and may lose every race for a job.
PollsEnd == \A h \in Handlers : hpc[h] = "scan" ~> hpc[h] = "idle"

=============================================================================
