--------------------------- MODULE InStorageArray ---------------------------
(***************************************************************************)
(* The part of an AS18000 array that attaching and detaching a volume      *)
(* reads and writes: its host objects, the ports each of them carries and  *)
(* the maps of volumes to host objects.  The array is outside the          *)
(* repository; what it accepts is taken from the commands the driver sends *)
(* in pkg/storage/instorage/wrapper.go and from how it reads the answers.  *)
(*                                                                         *)
(* A host object stands for one Kubernetes node.  The driver names the     *)
(* objects it creates after the node; an administrator may have created    *)
(* objects under other names before.                                       *)
(***************************************************************************)
EXTENDS Naturals, Sequences, FiniteSets

CONSTANTS
  Nodes,        \* Kubernetes nodes; also the names the driver gives their host objects
  Volumes,      \* volume names
  Ports,        \* FC WWPNs or iSCSI initiator names
  PortsOf,      \* [Nodes -> Seq(Ports)]: the ports a node reports, in order
  AdminHosts,   \* names of the host objects an administrator created
  AdminNode,    \* [AdminHosts -> Nodes]: the node such an object stands for
  AdminPorts    \* [AdminHosts -> SUBSET Ports]: the ports it was given

HostNames == Nodes \cup AdminHosts

(* The node a host object stands for. *)
NodeOf(h) == IF h \in Nodes THEN h ELSE AdminNode[h]

PortSet(n) == {PortsOf[n][i] : i \in 1..Len(PortsOf[n])}

(* Every node has a port and lists none twice, a port belongs to one node, *)
(* an administrator gives a host object ports of its own node only and no  *)
(* port twice.                                                             *)
ASSUME ArrayAssumption ==
  /\ Nodes \cap AdminHosts = {}
  /\ PortsOf \in [Nodes -> Seq(Ports)]
  /\ \A n \in Nodes : Len(PortsOf[n]) > 0
  /\ \A n \in Nodes : \A i, j \in 1..Len(PortsOf[n]) : PortsOf[n][i] = PortsOf[n][j] => i = j
  /\ \A m, n \in Nodes : m # n => PortSet(m) \cap PortSet(n) = {}
  /\ AdminNode \in [AdminHosts -> Nodes]
  /\ AdminPorts \in [AdminHosts -> SUBSET Ports]
  /\ \A h \in AdminHosts : AdminPorts[h] # {} /\ AdminPorts[h] \subseteq PortSet(AdminNode[h])
  /\ \A g, h \in AdminHosts : g # h => AdminPorts[g] \cap AdminPorts[h] = {}

(* An administrator creates host objects one by one. *)
ASSUME AdminAssumption == IsFiniteSet(AdminHosts)

VARIABLES
  hosts,        \* the host objects that exist
  ports,        \* [HostNames -> SUBSET Ports]: the ports of every host object
  maps          \* the maps: pairs of a volume and a host object

arrayVars == <<hosts, ports, maps>>

ArrayTypeOK ==
  /\ hosts \subseteq HostNames
  /\ ports \in [HostNames -> SUBSET Ports]
  /\ maps \subseteq Volumes \X HostNames

ArrayInit ==
  /\ hosts = AdminHosts
  /\ ports = [h \in HostNames |-> IF h \in AdminHosts THEN AdminPorts[h] ELSE {}]
  /\ maps = {}

(* The host objects that carry port w: what lsfabric and lshost show.      *)
HostsWithPort(w) == {h \in hosts : w \in ports[h]}

-----------------------------------------------------------------------------
(* Commands that change the array.  A command is accepted, and applied     *)
(* whole, or refused without effect.                                       *)

(* mkhost: the name and the port must both be free. *)
MkHostAccepted(h, w) == h \notin hosts /\ HostsWithPort(w) = {}
MkHostApply(h, w) ==
  /\ hosts' = hosts \cup {h}
  /\ ports' = [ports EXCEPT ![h] = {w}]
  /\ UNCHANGED maps

(* addhostport: the host object exists and the port is free. *)
AddHostPortAccepted(h, w) == h \in hosts /\ HostsWithPort(w) = {}
AddHostPortApply(h, w) ==
  /\ ports' = [ports EXCEPT ![h] = @ \cup {w}]
  /\ UNCHANGED <<hosts, maps>>

(* Mutant: rmhost is sent with -force. *)
RmHostForced(h) == h \in hosts

(* rmhost is sent without -force: a host object with maps is kept. *)
RmHostAccepted(h) == h \in hosts /\ \A v \in Volumes : <<v, h>> \notin maps
RmHostApply(h) ==
  /\ hosts' = hosts \ {h}
  /\ ports' = [ports EXCEPT ![h] = {}]
  /\ maps' = {m \in maps : m[2] # h}

(* mkvdiskhostmap: -force allows a volume several hosts, not the same twice. *)
MkMapAccepted(v, h) == h \in hosts /\ <<v, h>> \notin maps
MkMapApply(v, h) ==
  /\ maps' = maps \cup {<<v, h>>}
  /\ UNCHANGED <<hosts, ports>>

(* rmvdiskhostmap *)
RmMapAccepted(v, h) == <<v, h>> \in maps
RmMapApply(v, h) ==
  /\ maps' = maps \ {<<v, h>>}
  /\ UNCHANGED <<hosts, ports>>
=============================================================================
