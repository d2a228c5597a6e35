------------------------------ MODULE MCGoJwks ------------------------------
EXTENDS GoJwks, TLC

Symmetry == Permutations(Callers) \cup Permutations(Flights) \cup Permutations(Kids)
=============================================================================
