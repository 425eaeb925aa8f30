--------------------------- MODULE MCDocumentViews ---------------------------
(***************************************************************************)
(* Two clicks on one button or on both.  Keys and formats are told apart   *)
(* by nothing.                                                             *)
(***************************************************************************)
EXTENDS DocumentViewsProperties, TLC
Symmetry == Permutations(Keys) \cup Permutations(Formats)
=============================================================================
