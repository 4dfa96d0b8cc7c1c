---------------------------- MODULE MCManualJobs -----------------------------
(* One cloud and one operator, two protocols, two documents, one policy.      *)
EXTENDS ManualJobs, TLC
CONSTANTS pA, pB, dA, dB
Symmetry == Permutations(Protocols) \cup Permutations(Documents)
=============================================================================
