----------------------------- MODULE MCTransport -----------------------------
(* Transport for TLC: its constants are given in Transport.cfg. *)
EXTENDS Transport
=============================================================================
