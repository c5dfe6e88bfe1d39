---------------------------- MODULE MCMessages ----------------------------
EXTENDS Messages, TLC

Symmetry ==
    Permutations(Users) \cup Permutations(Tasks)
    \cup Permutations(Randoms) \cup Permutations(Texts)
=============================================================================
