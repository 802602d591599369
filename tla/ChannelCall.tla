----------------------------- MODULE ChannelCall -----------------------------
(***************************************************************************)
(* One channel call of the hub (run_call in src/hops.rs): a fresh ct-agent *)
(* process gets the payload on its stdin, two threads read its pipes, and  *)
(* the caller looks every 20 ms whether it has ended, until the timeout.   *)
(* Only then are the readers joined and the reply judged.                  *)
(*                                                                         *)
(* A payload is a few hundred bytes and fits a pipe, so writing it does    *)
(* not block.  Blank lines count for nothing and are left out, and so is   *)
(* stderr, which holds measurements.  try_wait fails only if somebody else *)
(* reaps the child, which nobody does.                                     *)
(***************************************************************************)
EXTENDS Naturals, Sequences

CONSTANTS
  Texts,        \* what a service may answer
  MaxLines,     \* bound: lines a process prints
  PipeCap,      \* lines that fit the pipe
  None          \* no line, no text

ASSUME CallAssumption ==
  /\ MaxLines \in Nat /\ PipeCap \in Nat \ {0}
  /\ None \notin Texts

\* An envelope with an output, one with an error, neither, or bytes that are no UTF-8.
Lines == [kind : {"output"}, text : Texts] \cup [kind : {"error", "junk", "bytes"}, text : {None}]

VARIABLES
  pos,            \* position of the caller
  child, heir,    \* the process; whether a process it started still holds the pipe
  pipe, written,  \* its stdout: lines not read yet, lines printed
  last,           \* the last line the reader thread has seen, or the first of bytes
  late,           \* the timeout has passed
  status,         \* what try_wait returned
  result          \* the CallResult

callVars == <<pos, child, heir, pipe, written, last, late, status, result>>

NoResult == [ok |-> FALSE, output |-> None, error |-> "none"]
FailedWith(e) == [NoResult EXCEPT !.error = e]

CallInit ==
  /\ pos = "idle" /\ child = "none" /\ heir = FALSE
  /\ pipe = <<>> /\ written = 0 /\ last = None
  /\ late = FALSE /\ status = "none"
  /\ result = NoResult

Fresh ==
  /\ child' = "none" /\ heir' = FALSE /\ pipe' = <<>> /\ written' = 0
  /\ last' = None /\ late' = FALSE /\ status' = "none"

-----------------------------------------------------------------------------
(* The caller.                                                             *)

Begin == pos = "idle" /\ pos' = "spawn" /\ result' = NoResult /\ Fresh

\* initiator_env finds no key or grant for the channel, or the process cannot be started.
CannotStart ==
  /\ pos = "spawn" /\ pos' = "done"
  /\ \E e \in {"environment", "spawning"} : result' = FailedWith(e)
  /\ UNCHANGED <<child, heir, pipe, written, last, late, status>>

Spawn ==
  /\ pos = "spawn" /\ pos' = "feed"
  /\ child' = "running"
  /\ UNCHANGED <<heir, pipe, written, last, late, status, result>>

\* The payload is written, whether anybody reads it or not, and the readers start.
Feed ==
  /\ pos = "feed" /\ pos' = "wait"
  /\ UNCHANGED <<child, heir, pipe, written, last, late, status, result>>

Look ==
  /\ pos = "wait"
  /\ IF child = "running" THEN pos' = "looked" /\ UNCHANGED status
                          ELSE pos' = "join" /\ status' = child
  /\ UNCHANGED <<child, heir, pipe, written, last, late, result>>

Sleep ==
  /\ pos = "looked" /\ ~late /\ pos' = "wait"
  /\ UNCHANGED <<child, heir, pipe, written, last, late, status, result>>

\* Mutation of Kill: the timeout is left to the process.
KillNever == pos = "looked" /\ late /\ pos' = "wait"
  /\ UNCHANGED <<child, heir, pipe, written, last, late, status, result>>

\* The process may have ended since the look: its status is thrown away.
Kill ==
  /\ pos = "looked" /\ late /\ pos' = "join"
  /\ IF child = "running" THEN child' = "killed" /\ heir' \in BOOLEAN
                          ELSE UNCHANGED <<child, heir>>
  /\ UNCHANGED <<pipe, written, last, late, status, result>>

Garbled(l) == l # None /\ l.kind = "bytes"

\* read_to_string gives nothing at all if any of it is no UTF-8.
Judged ==
  CASE status = "none" -> FailedWith("timeout")
    [] status = "success" /\ last # None /\ ~Garbled(last) ->
         IF last.kind = "output" THEN [ok |-> TRUE, output |-> last.text, error |-> "none"]
                                 ELSE FailedWith("service")
    [] OTHER -> FailedWith("exit")

\* The reader has come to the end of the pipe: nobody holds its other end.
EndOfFile == pipe = <<>> /\ child # "running" /\ ~heir

\* Mutation of Join: what was read when the process ended is taken for everything.
JoinUnread ==
  /\ pos = "join" /\ pos' = "done"
  /\ result' = Judged
  /\ UNCHANGED <<child, heir, pipe, written, last, late, status>>

Join ==
  /\ pos = "join" /\ EndOfFile /\ pos' = "done"
  /\ result' = Judged
  /\ UNCHANGED <<child, heir, pipe, written, last, late, status>>

Read ==
  /\ pos \in {"wait", "looked", "join"} /\ pipe # <<>>
  /\ last' = IF Garbled(last) THEN last ELSE Head(pipe)
  /\ pipe' = Tail(pipe)
  /\ UNCHANGED <<pos, child, heir, written, late, status, result>>

TimePasses ==
  /\ pos \in {"feed", "wait", "looked", "join"} /\ ~late /\ late' = TRUE
  /\ UNCHANGED <<pos, child, heir, pipe, written, last, status, result>>

-----------------------------------------------------------------------------
(* The process, and the one it may leave behind with the pipe.             *)

WriteLine(l) ==
  /\ child = "running" \/ heir
  /\ Len(pipe) < PipeCap /\ written < MaxLines
  /\ pipe' = Append(pipe, l) /\ written' = written + 1
  /\ UNCHANGED <<pos, child, heir, last, late, status, result>>

Exit(s) ==
  /\ child = "running" /\ child' = s
  /\ heir' \in BOOLEAN
  /\ UNCHANGED <<pos, pipe, written, last, late, status, result>>

HeirEnds ==
  /\ heir /\ heir' = FALSE
  /\ UNCHANGED <<pos, child, pipe, written, last, late, status, result>>

ProcessStep == HeirEnds \/ (\E l \in Lines : WriteLine(l)) \/ \E s \in {"success", "failure"} : Exit(s)

CallerStep == Spawn \/ CannotStart \/ Feed \/ Look \/ Sleep \/ Kill \/ Join

CallStep == CallerStep \/ Read \/ TimePasses \/ ProcessStep

-----------------------------------------------------------------------------
(* Properties.                                                             *)

CallTypeOK ==
  /\ pos \in {"idle", "spawn", "feed", "wait", "looked", "join", "done"}
  /\ child \in {"none", "running", "success", "failure", "killed"} /\ heir \in BOOLEAN
  /\ pipe \in Seq(Lines) /\ Len(pipe) <= PipeCap /\ written \in 0..MaxLines
  /\ last = None \/ last \in Lines
  /\ late \in BOOLEAN
  /\ status \in {"none", "success", "failure"}
  /\ result.ok \in BOOLEAN /\ result.output \in Texts \cup {None}
  /\ result.error \in {"none", "environment", "spawning", "timeout", "service", "exit"}

\* The last line the process printed, read or not; None if it printed none, or any that
\* is no text.
LastWord ==
  IF Garbled(last) \/ \E i \in DOMAIN pipe : Garbled(pipe[i]) THEN None
  ELSE IF pipe = <<>> THEN last ELSE pipe[Len(pipe)]

\* A call succeeds exactly when its process was seen to end well, all it printed was text
\* and its last word an output, and returns that output: no earlier line is taken for the reply when the
\* process ends before its output has been read, or is killed.
ResultIsLastWord ==
  pos = "done" =>
    LET good == status = "success" /\ LastWord # None /\ LastWord.kind = "output"
    IN  /\ result.ok <=> good
        /\ result.ok => result.output = LastWord.text

\* A call returns, whatever its process does, unless another process has inherited the
\* pipe and keeps it open: the readers are joined without a timeout.
CallReturns == pos = "spawn" ~> (pos \in {"idle", "done"} \/ heir)

=============================================================================
