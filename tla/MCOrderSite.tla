---------------------------- MODULE MCOrderSite ----------------------------
(***************************************************************************)
(* The order of the page with all of the server around it.                 *)
(***************************************************************************)
EXTENDS OrderSite, TLC

\* Payments are interchangeable; the run checks no liveness.
Symmetry == Permutations(Payments)

=============================================================================
