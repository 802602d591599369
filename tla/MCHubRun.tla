------------------------------ MODULE MCHubRun ------------------------------
(* Bounds and symmetry for model checking HubRun.                          *)
EXTENDS HubRun, TLC

\* Visitors are interchangeable: no definition tells them apart.
VisitorSymmetry == Permutations(Visitors)
=============================================================================
