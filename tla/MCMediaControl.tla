--------------------------- MODULE MCMediaControl ---------------------------
EXTENDS MediaControl, TLC
Symmetry == Permutations(Mics) \cup Permutations(Videos)
=============================================================================
