------------------------- MODULE MCDevelopmentTrials -------------------------
(* Two processes that run one of two implementations over three slots.        *)
EXTENDS DevelopmentTrials, TLC
CONSTANTS p1, p2, c1, c2
Symmetry == Permutations(Procs) \cup Permutations(Codes)
=============================================================================
