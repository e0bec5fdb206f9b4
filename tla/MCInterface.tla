--------------------------- MODULE MCInterface ----------------------------
EXTENDS Interface, TLC

Symmetry == Permutations(Browsers)
==========================================================================
