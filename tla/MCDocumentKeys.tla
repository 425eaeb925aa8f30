--------------------------- MODULE MCDocumentKeys ---------------------------
(* TLC instances of DocumentKeys.                                           *)
EXTENDS DocumentKeyProperties, TLC

\* Any order, browser or pair may stand for any other.
Symmetry == Permutations(Orders) \cup Permutations(Keys) \cup Permutations(Browsers)
=============================================================================
