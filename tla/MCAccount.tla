------------------------------ MODULE MCAccount ------------------------------
EXTENDS AccountProperties, TLC

\* Pairs and passwords are told apart by nothing but their names.
Symmetry == Permutations(Keys) \cup Permutations(Passwords)

=============================================================================
