------------------------------ MODULE MCOrders ------------------------------
(***************************************************************************)
(* Small instances of the order lifecycle for TLC.  The cfg of each run    *)
(* says how many orders, payments, webhook requests, workers and task      *)
(* slots there are and how many processes may die.                         *)
(***************************************************************************)
EXTENDS OrderProperties, TLC

\* Orders, payments and webhook requests are interchangeable (task slots are
\* not: FreeSlot chooses one).  Only used where no liveness is checked.
Symmetry == Permutations(Orders) \cup Permutations(Payments) \cup Permutations(Hooks)

=============================================================================
