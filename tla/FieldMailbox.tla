----------------------------- MODULE FieldMailbox -----------------------------
(***************************************************************************)
(* Hop 4 of a briefing at Zentrale (src/nordwind/node/nordwind_node.py).   *)
(* Every service call is a process of its own, so field_hop (one per run), *)
(* the long-polling svc_feld_abruf handlers and svc_feld_quittung meet     *)
(* only in the state directory: inbox/ with jobs, claimed/ with jobs that  *)
(* were handed out, outbox/ with receipts ("Quittungen").  The field node  *)
(* runs field_loop: one poll, one job, one receipt at a time.              *)
(*                                                                         *)
(* A file operation is one step.  A job is written under a .tmp name, which*)
(* fixes its modification time, and shown by os.replace: the two orders may*)
(* differ between two hops.  Of a receipt nobody reads the time, so writing*)
(* it is one step.  A poll whose caller has given up runs on and answers   *)
(* nobody.  Run ids are fresh.                                             *)
(***************************************************************************)
EXTENDS Naturals, FiniteSets

CONSTANTS
  Runs,       \* runs that reach hop 4
  Handlers,   \* processes that can serve feld_abruf at the same time
  Faults      \* whether processes at Zentrale may die and its file operations fail

ASSUME MailboxAssumption == IsFiniteSet(Runs) /\ Faults \in BOOLEAN

None == "none"
ASSUME NoneAssumption == None \notin Runs /\ None \notin Handlers

VARIABLES
  hop, got,                 \* field_hop of each run: position, and the receipt it read
  inbox, born, shown,       \* jobs in inbox/; the orders of their modification times and of their coming there
  claimed, outbox,          \* jobs in claimed/; the receipt in outbox/ of each run, or None
  hpc, names, hjob, over,   \* each feld_abruf handler: position, names left, job claimed, wait over
  npc, nh, njob,            \* the field node: position, the handler of its poll, the job it works on
  receipts,                 \* feld_quittung calls on their way
  handouts                  \* history: how often each job was read by a handler

hopVars  == <<hop, got>>
fileVars == <<inbox, born, shown, claimed, outbox>>
pollVars == <<hpc, names, hjob, over>>
nodeVars == <<npc, nh, njob>>
vars     == <<hopVars, fileVars, pollVars, nodeVars, receipts, handouts>>

Receipt == {"good", "bad"}      \* with a valid "ergebnis", or without

Init ==
  /\ hop = [r \in Runs |-> "new"] /\ got = [r \in Runs |-> None]
  /\ inbox = {} /\ born = [r \in Runs |-> 0] /\ shown = [r \in Runs |-> 0]
  /\ claimed = {} /\ outbox = [r \in Runs |-> None]
  /\ hpc = [h \in Handlers |-> "idle"] /\ names = [h \in Handlers |-> {}]
  /\ hjob = [h \in Handlers |-> None] /\ over = [h \in Handlers |-> FALSE]
  /\ npc = "idle" /\ nh = None /\ njob = None
  /\ receipts = {}
  /\ handouts = [r \in Runs |-> 0]

-----------------------------------------------------------------------------
(* field_hop.                                                              *)

RemoveStale(r) ==
  /\ hop[r] = "new"
  /\ outbox' = [outbox EXCEPT ![r] = None]
  /\ hop' = [hop EXCEPT ![r] = "started"]
  /\ UNCHANGED <<got, inbox, born, shown, claimed, pollVars, nodeVars, receipts, handouts>>

Born == {r \in Runs : born[r] > 0}
Shown == {r \in Runs : shown[r] > 0}

\* The job is in its .tmp file.
WriteJob(r) ==
  /\ hop[r] = "started"
  /\ born' = [born EXCEPT ![r] = Cardinality(Born) + 1]
  /\ hop' = [hop EXCEPT ![r] = "written"]
  /\ UNCHANGED <<got, inbox, shown, claimed, outbox, pollVars, nodeVars, receipts, handouts>>

ShowJob(r) ==
  /\ hop[r] = "written"
  /\ inbox' = inbox \cup {r}
  /\ shown' = [shown EXCEPT ![r] = Cardinality(Shown) + 1]
  /\ hop' = [hop EXCEPT ![r] = "waiting"]
  /\ UNCHANGED <<got, born, claimed, outbox, pollVars, nodeVars, receipts, handouts>>

ReadReceipt(r) ==
  /\ hop[r] = "waiting"
  /\ outbox[r] # None
  /\ got' = [got EXCEPT ![r] = outbox[r]]
  /\ hop' = [hop EXCEPT ![r] = "settling"]
  /\ UNCHANGED <<fileVars, pollVars, nodeVars, receipts, handouts>>

\* Mutation of WaitIsOver: a job that was fetched stops the clock.
WaitIsOverUnlessFetched(r) ==
  /\ hop[r] = "waiting"
  /\ r \in inbox
  /\ hop' = [hop EXCEPT ![r] = "settling"]
  /\ UNCHANGED <<got, fileVars, pollVars, nodeVars, receipts, handouts>>

\* FIELD_WAIT_S have passed since the last look at the outbox found nothing.
WaitIsOver(r) ==
  /\ hop[r] = "waiting"
  /\ hop' = [hop EXCEPT ![r] = "settling"]
  /\ UNCHANGED <<got, fileVars, pollVars, nodeVars, receipts, handouts>>

\* Mutation of RemoveJob: the job stays in the inbox.
RemoveJobForgotten(r) ==
  /\ hop[r] = "settling"
  /\ hop' = [hop EXCEPT ![r] = "settled"]
  /\ UNCHANGED <<got, fileVars, pollVars, nodeVars, receipts, handouts>>

RemoveJob(r) ==
  /\ hop[r] = "settling"
  /\ inbox' = inbox \ {r}
  /\ hop' = [hop EXCEPT ![r] = "settled"]
  /\ UNCHANGED <<got, born, shown, claimed, outbox, pollVars, nodeVars, receipts, handouts>>

RemoveReceipt(r) ==
  /\ hop[r] = "settled"
  /\ outbox' = [outbox EXCEPT ![r] = None]
  /\ hop' = [hop EXCEPT ![r] = "ended"]
  /\ UNCHANGED <<got, inbox, born, shown, claimed, pollVars, nodeVars, receipts, handouts>>

\* The process of the briefing is killed or dies of a failing write; its files stay.
HopCrashes(r) ==
  /\ Faults
  /\ hop[r] \in {"started", "written", "waiting", "settling", "settled"}
  /\ hop' = [hop EXCEPT ![r] = "crashed"]
  /\ UNCHANGED <<got, fileVars, pollVars, nodeVars, receipts, handouts>>

-----------------------------------------------------------------------------
(* svc_feld_abruf.                                                         *)

\* Mutation of Oldest: the listing is sorted the wrong way round.
Youngest(S) == CHOOSE r \in S : \A q \in S : born[r] >= born[q]

Oldest(S) == CHOOSE r \in S : \A q \in S : born[r] <= born[q]

ListInbox(h) ==
  /\ hpc[h] = "scan"
  /\ names' = [names EXCEPT ![h] = inbox]
  /\ hpc' = [hpc EXCEPT ![h] = "stat"]
  /\ UNCHANGED <<hjob, over, hopVars, fileVars, nodeVars, receipts, handouts>>

\* getmtime of every listed name: one that is gone raises outside the try.
StatNames(h) ==
  /\ hpc[h] = "stat"
  /\ IF names[h] \subseteq inbox
     THEN hpc' = [hpc EXCEPT ![h] = "claim"] /\ UNCHANGED names
     ELSE hpc' = [hpc EXCEPT ![h] = "failed"] /\ names' = [names EXCEPT ![h] = {}]
  /\ UNCHANGED <<hjob, over, hopVars, fileVars, nodeVars, receipts, handouts>>

\* Mutation of TakeOldest: the job is copied, not moved.
CopyOldest(h) ==
  /\ hpc[h] = "claim" /\ names[h] # {}
  /\ Oldest(names[h]) \in inbox
  /\ claimed' = claimed \cup {Oldest(names[h])}
  /\ UNCHANGED <<over, hopVars, inbox, born, shown, outbox, nodeVars, receipts>>

\* os.replace moves the job to claimed/.
TakeOldest(h) ==
  /\ hpc[h] = "claim" /\ names[h] # {}
  /\ Oldest(names[h]) \in inbox
  /\ inbox' = inbox \ {Oldest(names[h])}
  /\ claimed' = claimed \cup {Oldest(names[h])}
  /\ UNCHANGED <<over, hopVars, born, shown, outbox, nodeVars, receipts>>

Claim(h) ==
  /\ TakeOldest(h)
  /\ hjob' = [hjob EXCEPT ![h] = Oldest(names[h])]
  /\ handouts' = [handouts EXCEPT ![Oldest(names[h])] = @ + 1]
  /\ hpc' = [hpc EXCEPT ![h] = "reply"]
  /\ names' = [names EXCEPT ![h] = {}]

\* The job is moved and cannot be read: it lies in claimed/ and the poll tries the next.
ClaimUnread(h) ==
  /\ Faults
  /\ TakeOldest(h)
  /\ names' = [names EXCEPT ![h] = @ \ {Oldest(names[h])}]
  /\ UNCHANGED <<hpc, hjob, handouts>>

\* os.replace fails: the job went to another poll or was withdrawn.
ClaimFails(h) ==
  /\ hpc[h] = "claim" /\ names[h] # {}
  /\ Oldest(names[h]) \notin inbox
  /\ names' = [names EXCEPT ![h] = @ \ {Oldest(names[h])}]
  /\ UNCHANGED <<hpc, hjob, over, hopVars, fileVars, nodeVars, receipts, handouts>>

\* Mutation of EndOfPass: the wait is never over.
EndOfPassAgain(h) ==
  /\ hpc[h] = "claim" /\ names[h] = {}
  /\ hpc' = [hpc EXCEPT ![h] = "scan"]
  /\ UNCHANGED <<names, hjob, over, hopVars, fileVars, nodeVars, receipts, handouts>>

EndOfPass(h) ==
  /\ hpc[h] = "claim" /\ names[h] = {}
  /\ hpc' = [hpc EXCEPT ![h] = IF over[h] THEN "reply" ELSE "scan"]
  /\ UNCHANGED <<names, hjob, over, hopVars, fileVars, nodeVars, receipts, handouts>>

PollWaitIsOver(h) ==
  /\ hpc[h] \in {"scan", "stat", "claim"} /\ ~over[h]
  /\ over' = [over EXCEPT ![h] = TRUE]
  /\ UNCHANGED <<hpc, names, hjob, hopVars, fileVars, nodeVars, receipts, handouts>>

HandlerRests(h) ==
  /\ hpc' = [hpc EXCEPT ![h] = "idle"]
  /\ names' = [names EXCEPT ![h] = {}]
  /\ hjob' = [hjob EXCEPT ![h] = None]
  /\ over' = [over EXCEPT ![h] = FALSE]

\* The process that serves the poll is killed: the caller hears nothing.
HandlerDies(h) ==
  /\ Faults
  /\ hpc[h] # "idle"
  /\ HandlerRests(h)
  /\ UNCHANGED <<hopVars, fileVars, nodeVars, receipts, handouts>>

-----------------------------------------------------------------------------
(* The field node: field_loop.                                             *)

Poll(h) ==
  /\ npc = "idle"
  /\ hpc[h] = "idle"
  /\ npc' = "polling" /\ nh' = h
  /\ hpc' = [hpc EXCEPT ![h] = "scan"]
  /\ UNCHANGED <<names, hjob, over, njob, hopVars, fileVars, receipts, handouts>>

\* Mutation of Reply: an empty reply is worked on like a job.
ReplyUnchecked(h) ==
  /\ hpc[h] \in {"reply", "failed"}
  /\ HandlerRests(h)
  /\ IF npc = "polling" /\ nh = h
     THEN /\ nh' = None
          /\ njob' = hjob[h]
          /\ npc' = "working"
     ELSE UNCHANGED nodeVars
  /\ UNCHANGED <<hopVars, fileVars, receipts, handouts>>

\* The handler prints its reply; it reaches the node only if that poll still waits.
Reply(h) ==
  /\ hpc[h] \in {"reply", "failed"}
  /\ HandlerRests(h)
  /\ IF npc = "polling" /\ nh = h
     THEN /\ nh' = None
          /\ njob' = hjob[h]
          /\ npc' = IF hjob[h] # None THEN "working" ELSE "idle"
     ELSE UNCHANGED nodeVars
  /\ UNCHANGED <<hopVars, fileVars, receipts, handouts>>

\* The call fails or times out at the node; the handler is not told.
PollFails ==
  /\ npc = "polling"
  /\ npc' = "idle" /\ nh' = None
  /\ UNCHANGED <<njob, hopVars, fileVars, pollVars, receipts, handouts>>

\* field_sheet, then the feld_quittung call.
Work(q) ==
  /\ npc = "working"
  /\ receipts' = receipts \cup {[run |-> njob, sheet |-> q]}
  /\ npc' = "posting" /\ njob' = None
  /\ UNCHANGED <<nh, hopVars, fileVars, pollVars, handouts>>

\* The call returns or times out; nothing is retried.
PostReturns ==
  /\ npc = "posting"
  /\ npc' = "idle"
  /\ UNCHANGED <<nh, njob, hopVars, fileVars, pollVars, receipts, handouts>>

NodeRestarts ==
  /\ npc # "idle"
  /\ npc' = "idle" /\ nh' = None /\ njob' = None
  /\ UNCHANGED <<hopVars, fileVars, pollVars, receipts, handouts>>

\* Mutation of Quittung: one receipt file for all runs.
QuittungOneFile(q) ==
  /\ q \in receipts
  /\ receipts' = receipts \ {q}
  /\ outbox' = [r \in Runs |-> q.sheet]
  /\ UNCHANGED <<hopVars, inbox, born, shown, claimed, pollVars, nodeVars, handouts>>

\* svc_feld_quittung: nobody asks whether the run still waits.
Quittung(q) ==
  /\ q \in receipts
  /\ receipts' = receipts \ {q}
  /\ outbox' = [outbox EXCEPT ![q.run] = q.sheet]
  /\ UNCHANGED <<hopVars, inbox, born, shown, claimed, pollVars, nodeVars, handouts>>

QuittungLost(q) ==
  /\ q \in receipts
  /\ receipts' = receipts \ {q}
  /\ UNCHANGED <<hopVars, fileVars, pollVars, nodeVars, handouts>>

-----------------------------------------------------------------------------
HopStep(r) ==
  \/ RemoveStale(r) \/ WriteJob(r) \/ ShowJob(r)
  \/ ReadReceipt(r) \/ WaitIsOver(r) \/ RemoveJob(r) \/ RemoveReceipt(r)

PollStep(h) ==
  \/ ListInbox(h) \/ StatNames(h) \/ Claim(h) \/ ClaimUnread(h) \/ ClaimFails(h)
  \/ EndOfPass(h) \/ Reply(h)

NodeStep ==
  \/ \E h \in Handlers : Poll(h)
  \/ PollFails \/ PostReturns \/ NodeRestarts
  \/ \E q \in Receipt : Work(q)

Next ==
  \/ \E r \in Runs : HopStep(r) \/ HopCrashes(r)
  \/ \E h \in Handlers : PollStep(h) \/ PollWaitIsOver(h) \/ HandlerDies(h)
  \/ NodeStep
  \/ \E q \in receipts : Quittung(q) \/ QuittungLost(q)

Spec == Init /\ [][Next]_vars

-----------------------------------------------------------------------------
(* Properties.                                                             *)

TypeOK ==
  /\ hop \in [Runs -> {"new", "started", "written", "waiting", "settling", "settled",
                  "ended", "crashed"}]
  /\ got \in [Runs -> Receipt \cup {None}]
  /\ inbox \in SUBSET Runs /\ born \in [Runs -> Nat] /\ shown \in [Runs -> Nat]
  /\ claimed \in SUBSET Runs /\ outbox \in [Runs -> Receipt \cup {None}]
  /\ hpc \in [Handlers -> {"idle", "scan", "stat", "claim", "reply", "failed"}]
  /\ names \in [Handlers -> SUBSET Runs]
  /\ hjob \in [Handlers -> Runs \cup {None}] /\ over \in [Handlers -> BOOLEAN]
  /\ npc \in {"idle", "polling", "working", "posting"}
  /\ nh \in Handlers \cup {None} /\ njob \in Runs \cup {None}
  /\ npc = "working" => njob # None
  /\ receipts \in SUBSET [run : Runs, sheet : Receipt]
  /\ handouts \in [Runs -> Nat]

\* A job is read by at most one poll, however many polls, live or abandoned, scan
\* the inbox at once: the receipt of a run is the answer to the only hand-over.
HandedOutOnce == \A r \in Runs : handouts[r] <= 1

\* The oldest job goes first, although a poll works from a listing that others have
\* changed since: a job that is still pending when another is taken was written after
\* that one, or came into the inbox after it (its hop stood still between writing the
\* file and renaming it, and the poll had already listed).
HandsOutOldest ==
  [][\A r \in inbox \ inbox' : r \in claimed' \ claimed =>
       \A q \in inbox : born[r] <= born[q] \/ shown[r] < shown[q]]_vars

\* "Hand out the oldest pending job (claimed atomically) or time out empty": a poll
\* has no third outcome.
PollNeverFails == \A h \in Handlers : hpc[h] # "failed"

-----------------------------------------------------------------------------
(* The mailbox implements FieldJob.                                        *)

JobOf(r) ==
  CASE r \in claimed -> "handed"
    [] r \in inbox -> "offered"
    [] r \notin claimed \cup inbox /\ shown[r] = 0 -> "none"
    [] OTHER -> "withdrawn"

\* field_hop's verdict, once it returns: an error unless a valid result was read.
VerdictOf(r) ==
  IF hop[r] # "ended" THEN "open" ELSE IF got[r] = "good" THEN "ok" ELSE "error"

Abstract == INSTANCE FieldJob WITH
  job     <- [r \in Runs |-> JobOf(r)],
  verdict <- [r \in Runs |-> VerdictOf(r)]

\* With any number of concurrent polls, lost replies, late or lost receipts and
\* killed processes, a hop ends well only on a job that was handed to the node
\* once, and a job that was given up is never handed over.
ImplementsFieldJob == Abstract!Spec

=============================================================================
