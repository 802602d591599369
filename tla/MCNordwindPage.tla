--------------------------- MODULE MCNordwindPage ---------------------------
(* Two runs.  The first has a live report, which may be late, and fails;   *)
(* the second has one too, and an event of the hub's own, and ends well.   *)
EXTENDS NordwindPage

MCEvent ==
  LET Ev(r, kind, src) == [run |-> r, kind |-> kind, src |-> src]
  IN  {Ev(1, "run_start", "hub"), Ev(1, "done", "node"), Ev(1, "run_error", "hub"),
       Ev(2, "run_start", "hub"), Ev(2, "done", "hub"), Ev(2, "done", "node"),
       Ev(2, "run_done", "hub")}

=============================================================================
