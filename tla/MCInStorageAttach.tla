-------------------------- MODULE MCInStorageAttach --------------------------
(* Instances of InStorageAttach for TLC. *)
EXTENDS InStorageAccess, TLC

CONSTANTS n1, n2, a1, v1, v2, w1, w2, w3

TwoNodesFC    == (n1 :> <<w1, w2>>) @@ (n2 :> <<w3>>)
OneNodeISCSI  == [n \in {n1} |-> <<w1>>]

NoAdminNode   == [a \in {} |-> n1]
NoAdminPorts  == [a \in {} |-> {}]
AdminOfN1     == [a \in {a1} |-> n1]
AdminLastPort == [a \in {a1} |-> {w2}]

VolumeSymmetry == Permutations(Volumes)
ProcSymmetry == Permutations(Procs)
Symmetry == VolumeSymmetry \cup ProcSymmetry
=============================================================================
