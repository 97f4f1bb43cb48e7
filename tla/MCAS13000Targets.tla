-------------------------- MODULE MCAS13000Targets --------------------------
(* Instances of AS13000Targets for TLC. *)
EXTENDS AS13000Targets, TLC

CONSTANTS n1, n2, v1, v2, v3

Attach(v, n) == [op |-> "attach", vol |-> v, node |-> n, local |-> TRUE]
Detach(v, n) == [op |-> "detach", vol |-> v, node |-> n, local |-> TRUE]
DetachByName(v, n) == [op |-> "detach", vol |-> v, node |-> n, local |-> FALSE]

(* One volume for two nodes, two that share its target or fill it. *)
SharedTarget ==
  {Attach(v1, n1), Attach(v1, n2), Detach(v1, n1), Detach(v1, n2), DetachByName(v1, n1),
   Attach(v2, n1), Detach(v2, n1), Attach(v3, n2)}
=============================================================================
