---------------------------- MODULE VolumeAccess ----------------------------
(***************************************************************************)
(* What a storage promises the controller about attaching and detaching,   *)
(* whichever array is behind it: the methods AttachVolume and DetachVolume *)
(* of IStorageOperater in pkg/storage/storage.go.                          *)
(*                                                                         *)
(* A request gives a node access to a volume or takes it away.  Serving it *)
(* may take many commands, some without an answer, and requests overlap;   *)
(* still access changes only as a request in flight asks, and a request is *)
(* answered with success only if what it asks for was so at one moment     *)
(* between its arrival and its answer.                                     *)
(***************************************************************************)
CONSTANTS Volumes, Nodes, Procs

Request == [op : {"attach", "detach"}, vol : Volumes, node : Nodes]
NoRequest == [op |-> "none"]

VARIABLES
  access,   \* the pairs of a volume and a node that may use it
  asked,    \* the request of each handler
  state     \* "idle", "pending", "met": seen to be so, "answered"

vars == <<access, asked, state>>

Init ==
  /\ access = {}
  /\ asked = [p \in Procs |-> NoRequest]
  /\ state = [p \in Procs |-> "idle"]

Pair(r) == <<r.vol, r.node>>
Effect(r) == IF r.op = "attach" THEN access \cup {Pair(r)} ELSE access \ {Pair(r)}
Holds(r, a) == r.op = "attach" <=> Pair(r) \in a

Ask(p, r) ==
  /\ state[p] = "idle"
  /\ asked' = [asked EXCEPT ![p] = r]
  /\ state' = [state EXCEPT ![p] = "pending"]
  /\ UNCHANGED access

(* Any part of the work for a request: it has its effect or none, and may  *)
(* be found wanting and start again, as after a failure.                   *)
Serve(p) ==
  /\ state[p] \in {"pending", "met"}
  /\ access' \in {access, Effect(asked[p])}
  /\ \E s \in {"pending", "met", "answered"} :
       /\ s # "pending" => state[p] = "met" \/ Holds(asked[p], access')
       /\ state' = [state EXCEPT ![p] = s]
  /\ UNCHANGED asked

(* A process that ends leaves its requests, all of them, to start again. *)
Restart(Q) ==
  /\ \A p \in Q : state[p] \in {"pending", "met"}
  /\ state' = [p \in Procs |-> IF p \in Q THEN "pending" ELSE state[p]]
  /\ UNCHANGED <<access, asked>>

Forget(p) ==
  /\ state[p] = "answered"
  /\ asked' = [asked EXCEPT ![p] = NoRequest]
  /\ state' = [state EXCEPT ![p] = "idle"]
  /\ UNCHANGED access

Next ==
  \/ \E p \in Procs : Serve(p) \/ Forget(p) \/ \E r \in Request : Ask(p, r)
  \/ \E Q \in SUBSET Procs : Restart(Q)

Spec == Init /\ [][Next]_vars
=============================================================================
