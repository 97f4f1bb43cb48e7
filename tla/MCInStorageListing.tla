------------------------- MODULE MCInStorageListing --------------------------
(* InStorageListing for TLC: its constants are given in Listing.cfg. *)
EXTENDS InStorageListing
=============================================================================
