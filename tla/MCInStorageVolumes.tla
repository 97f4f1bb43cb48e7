------------------------- MODULE MCInStorageVolumes -------------------------
(* Instances of InStorageVolumes for TLC. *)
EXTENDS InStorageVolumes, TLC

Symmetry == Permutations(Procs) \cup Permutations(Vols) \cup Permutations(MapIds)
=============================================================================
