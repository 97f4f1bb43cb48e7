-------------------------- MODULE MCInStorageExtend --------------------------
(* Instances of InStorageExtend for TLC. *)
EXTENDS InStorageExtend, TLC

CONSTANTS v1, v2

(* With a gigabyte of two bytes: sizes 3, asked for with a started gigabyte *)
(* more, of the active-active volume v1, and 2 of v2.                       *)
OneEach == {[vol |-> v1, bytes |-> 7], [vol |-> v2, bytes |-> 4]}
=============================================================================
