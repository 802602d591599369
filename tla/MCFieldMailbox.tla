---------------------------- MODULE MCFieldMailbox ----------------------------
(* Symmetry for model checking FieldMailbox: handlers are interchangeable, *)
(* and so are runs.  Only runs without liveness properties use it.         *)
EXTENDS FieldMailbox, TLC

MailboxSymmetry == Permutations(Handlers) \cup Permutations(Runs)
=============================================================================
