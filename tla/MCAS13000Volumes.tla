-------------------------- MODULE MCAS13000Volumes --------------------------
(* Instances of AS13000Volumes for TLC. *)
EXTENDS AS13000Volumes

CONSTANTS b1

(* "pvc-a-b" and "ac": their directories are "ab" and "ac". *)
Share1 == [pvc |-> TRUE, chars |-> <<"a", "-", "b">>]
Share2 == [pvc |-> FALSE, chars |-> <<"a", "c", "d">>]
TwoShares == {Share1, Share2}

AllAsks ==
  [op : {"create", "delete"}, name : {b1} \cup TwoShares, size : {1}]
    \cup {[op |-> "extend", name |-> b1, size |-> 2]}
=============================================================================
