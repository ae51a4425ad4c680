---------------------------- MODULE MCDeltaFetch ----------------------------
(* Small instances of DeltaFetch for TLC.                                  *)
EXTENDS DeltaFetch, TLC

Symmetry == Permutations(Report) \cup Permutations(Edit)
=============================================================================
