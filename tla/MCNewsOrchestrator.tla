------------------------- MODULE MCNewsOrchestrator -------------------------
(* Instances of NewsOrchestrator for TLC.                                   *)
EXTENDS NewsOrchestrator, TLC

\* Guids and contents are only compared, so their names do not matter; liveness
\* runs do not use this.
Symmetry == Permutations(Guids) \cup Permutations(Contents)
=============================================================================
