-------------------------- MODULE MCArchiveDownload --------------------------
(* Two processes, the corporate actions, the assets and two symbol months.    *)
EXTENDS ArchiveDownload, TLC
CONSTANTS p1, p2
Symmetry == Permutations(Procs)
=============================================================================
