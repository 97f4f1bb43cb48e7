--------------------------- MODULE InStorageAttach ---------------------------
(***************************************************************************)
(* Attaching a volume to a node and detaching it, as StorageUtil of        *)
(* pkg/storage/instorage/storage.go does it: a handler of the CSI plugin   *)
(* or a flexvolume process looks for the node's host object on the array,  *)
(* creates it when there is none, maps the volume to it, or removes the    *)
(* map and then the host object no volume is left on.  Every step is one   *)
(* CLI command over SSH.  No lock is taken: the steps of handlers          *)
(* interleave, each acting on what its earlier queries returned.           *)
(*                                                                         *)
(* A command may fail to reach the array, its answer may be lost after it  *)
(* took effect, and a query the array rejects is read as an empty answer   *)
(* (wrapper.go:59, ssh.go:97).  A handler may be killed at any step.  The  *)
(* caller (kubelet, a CSI sidecar) sends a failed request again.           *)
(***************************************************************************)
EXTENDS InStorageArray

CONSTANTS
  Procs,         \* handler slots: requests that may be in flight together
  Link,          \* "fc" or "iscsi" (HostInfo.Link)
  BlankReplies,  \* TRUE: the array may reject a query, read as an empty answer
  Ops,           \* the operations the callers ask for
  MaxCalls,      \* bound: requests callers make, retries not counted
  MaxFaults      \* bound: commands that fail, handlers that are killed

NoHost == "no host"

ASSUME AttachAssumption ==
  /\ Link \in {"fc", "iscsi"}
  /\ Link = "iscsi" => \A n \in Nodes : Len(PortsOf[n]) = 1
  /\ BlankReplies \in BOOLEAN
  /\ Ops \subseteq {"attach", "detach"}
  /\ MaxCalls \in Nat
  /\ MaxFaults \in Nat
  /\ NoHost \notin HostNames

(* A request.  "local" is TRUE when the handler runs on the node itself    *)
(* and reports its ports; the controller's detach only has the node's      *)
(* name (BuildHostInfo).  Nothing attaches without the ports.              *)
Request ==
  {r \in [op : Ops, vol : Volumes, node : Nodes, local : BOOLEAN] :
     r.op = "attach" => r.local}

NoRequest == [op |-> "none"]

Labels == {"idle", "lsfabric", "lshosts", "lshost", "byname", "site",
           "mkhost", "addport", "undo", "lun", "mkmap", "lunAgain", "conn",
           "lsmap", "rmmap", "lsvols", "rmhost", "ok", "err"}

VARIABLES
  pc,        \* the next command of each handler; "ok" and "err": its answer
  req,       \* the request it serves
  host,      \* hostName, the host object it found or created
  todo,      \* WWPNs still to look for, then ports still to add
  cand,      \* host names of lshost still to inspect
  lastErr,   \* the handlers whose lastErr of getHostWithHostInfo is set
  raced,     \* history: the handlers during which an opposite request took effect
  calls,     \* requests made
  faults     \* faults met

procVars == <<pc, req, host, todo, cand, lastErr, raced>>
vars == <<hosts, ports, maps, pc, req, host, todo, cand, lastErr, raced, calls, faults>>

(* The commands that name the host object the search returned or created. *)
UsesHost == {"addport", "undo", "lun", "mkmap", "lunAgain", "conn",
             "lsmap", "rmmap", "lsvols", "rmhost"}

(* Types; moreover a handler always serves a request, and the "" of a      *)
(* search that found nothing never goes into a command (AttachVolume,      *)
(* DetachVolume).                                                          *)
TypeOK ==
  /\ ArrayTypeOK
  /\ pc \in [Procs -> Labels]
  /\ req \in [Procs -> Request \cup {NoRequest}]
  /\ \A p \in Procs : pc[p] # "idle" => req[p] \in Request
  /\ \A p \in Procs : pc[p] \in UsesHost => host[p] # NoHost
  /\ host \in [Procs -> HostNames \cup {NoHost}]
  /\ todo \in [Procs -> Seq(Ports)]
  /\ cand \in [Procs -> SUBSET HostNames]
  /\ lastErr \subseteq Procs
  /\ raced \subseteq Procs
  /\ calls \in 0..MaxCalls
  /\ faults \in 0..MaxFaults

Init ==
  /\ ArrayInit
  /\ pc = [p \in Procs |-> "idle"]
  /\ req = [p \in Procs |-> NoRequest]
  /\ host = [p \in Procs |-> NoHost]
  /\ todo = [p \in Procs |-> <<>>]
  /\ cand = [p \in Procs |-> {}]
  /\ lastErr = {}
  /\ raced = {}
  /\ calls = 0
  /\ faults = 0

Goto(p, label) == pc' = [pc EXCEPT ![p] = label]

(* How a command ends.  "lost" and "unsent" reach the caller as an error. *)
Outcomes == {"done", "lost", "unsent"}
Spend(o) ==
  /\ o # "done" => faults < MaxFaults
  /\ faults' = IF o = "done" THEN faults ELSE faults + 1
  /\ UNCHANGED calls

(* How a query ends: answered, with an error, or with an empty answer. *)
Replies == {"done", "error"} \cup (IF BlankReplies THEN {"blank"} ELSE {})

QuerySpend(r) ==
  /\ r # "done" => faults < MaxFaults
  /\ faults' = IF r = "done" THEN faults ELSE faults + 1
  /\ UNCHANGED calls

-----------------------------------------------------------------------------
(* A caller's request. *)

FirstLabel(r) ==
  CASE ~r.local         -> "byname"
    [] r.local /\ Link = "fc"    -> "lsfabric"
    [] r.local /\ Link = "iscsi" -> "lshosts"

Begin(p, r) ==
  /\ Goto(p, FirstLabel(r))
  /\ req' = [req EXCEPT ![p] = r]
  /\ host' = [host EXCEPT ![p] = NoHost]
  /\ todo' = [todo EXCEPT ![p] = IF FirstLabel(r) = "lsfabric" THEN PortsOf[r.node] ELSE <<>>]
  /\ cand' = [cand EXCEPT ![p] = {}]
  /\ lastErr' = lastErr \ {p}
  /\ raced' = raced \ {p}
  /\ UNCHANGED <<arrayVars, faults>>

Call(p) ==
  /\ pc[p] = "idle"
  /\ calls < MaxCalls
  /\ calls' = calls + 1
  /\ \E r \in Request : Begin(p, r)

(* The caller sends a failed request again. *)
Retry(p) ==
  /\ pc[p] = "err"
  /\ Begin(p, req[p])
  /\ UNCHANGED calls

(* The handler of a satisfied request is gone. *)
Done(p) ==
  /\ pc[p] = "ok"
  /\ Goto(p, "idle")
  /\ req' = [req EXCEPT ![p] = NoRequest]
  /\ host' = [host EXCEPT ![p] = NoHost]
  /\ todo' = [todo EXCEPT ![p] = <<>>]
  /\ cand' = [cand EXCEPT ![p] = {}]
  /\ lastErr' = lastErr \ {p}
  /\ raced' = raced \ {p}
  /\ UNCHANGED <<arrayVars, calls, faults>>

(* The plugin or the flexvolume process dies; the caller sees an error.    *)
Kill(p) ==
  /\ pc[p] \notin {"idle", "ok", "err"}
  /\ faults < MaxFaults
  /\ faults' = faults + 1
  /\ Goto(p, "err")
  /\ UNCHANGED <<arrayVars, req, host, todo, cand, lastErr, raced, calls>>

-----------------------------------------------------------------------------
(* getHostWithHostInfo: by WWPN, by initiator, then by name.               *)

AfterFound(p) == IF req[p].op = "attach" THEN "lun" ELSE "lsmap"

(* Mutant: the blank row of an absent host object is taken for a host.     *)
BlankRowIsHost(p) == AfterFound(p)

AfterNotFound(p) == IF req[p].op = "attach" THEN "site" ELSE "ok"

FoundHost(p, h) ==
  /\ host' = [host EXCEPT ![p] = h]
  /\ Goto(p, AfterFound(p))

(* lsfabric for the next WWPN; an error is remembered and the next tried.  *)
LsFabric(p) ==
  /\ pc[p] = "lsfabric"
  /\ \E r \in Replies :
       LET w == Head(todo[p])
           rows == IF r = "done" THEN HostsWithPort(w) ELSE {}
       IN /\ QuerySpend(r)
          /\ todo' = [todo EXCEPT ![p] = Tail(@)]
          /\ lastErr' = IF r = "error" THEN lastErr \cup {p} ELSE lastErr
          /\ \/ \E h \in rows : FoundHost(p, h)
             \/ /\ rows = {}
                /\ Goto(p, IF Len(todo[p]) = 1 THEN "byname" ELSE "lsfabric")
                /\ UNCHANGED host
  /\ UNCHANGED <<arrayVars, req, cand, raced>>

(* lshost without a name lists all host objects. *)
LsHosts(p) ==
  /\ pc[p] = "lshosts"
  /\ \E r \in Replies :
       LET names == IF r = "done" THEN hosts ELSE {}
       IN /\ QuerySpend(r)
          /\ cand' = [cand EXCEPT ![p] = names]
          /\ Goto(p, IF r = "error" THEN "err"
                     ELSE IF names = {} THEN "byname" ELSE "lshost")
  /\ UNCHANGED <<arrayVars, req, host, todo, lastErr, raced>>

(* lshost of one listed name, which may be gone by now.                    *)
LsHost(p) ==
  /\ pc[p] = "lshost"
  /\ \E h \in cand[p], r \in Replies :
       LET match == r = "done" /\ h \in hosts /\ PortsOf[req[p].node][1] \in ports[h]
       IN /\ QuerySpend(r)
          /\ cand' = [cand EXCEPT ![p] = @ \ {h}]
          /\ lastErr' = IF r = "error" THEN lastErr \cup {p} ELSE lastErr
          /\ \/ match /\ FoundHost(p, h)
             \/ /\ ~match
                /\ Goto(p, IF cand[p] = {h} THEN "byname" ELSE "lshost")
                /\ UNCHANGED host
  /\ UNCHANGED <<arrayVars, req, todo, raced>>

(* lshost of the node's name.  The empty answer for an absent host object  *)
(* parses to one blank row, so "" is returned here and lastErr never read. *)
LsHostByName(p) ==
  /\ pc[p] = "byname"
  /\ \E r \in Replies :
       /\ QuerySpend(r)
       /\ \/ /\ r = "error"
             /\ Goto(p, "err")
             /\ UNCHANGED host
          \/ /\ r = "done" /\ req[p].node \in hosts
             /\ FoundHost(p, req[p].node)
          \/ /\ r = "blank" \/ (r = "done" /\ req[p].node \notin hosts)
             /\ Goto(p, AfterNotFound(p))
             /\ UNCHANGED host
  /\ UNCHANGED <<arrayVars, req, todo, cand, lastErr, raced>>

-----------------------------------------------------------------------------
(* AttachVolume *)

LocalUnchanged == UNCHANGED <<req, todo, cand, lastErr>>

(* getVolumePreferSiteName: lsvdisk and lsiogrp, whose rows decide the     *)
(* -site argument only.                                                    *)
GetVolumePreferSiteName(p) ==
  /\ pc[p] = "site"
  /\ \E r \in Replies : QuerySpend(r) /\ Goto(p, IF r = "error" THEN "err" ELSE "mkhost")
  /\ LocalUnchanged
  /\ UNCHANGED <<arrayVars, host, raced>>

(* Mutant: the loop over the other ports is lost. *)
FirstPortOnly(left) == "lun"

AfterPorts(left) == IF left = <<>> THEN "lun" ELSE "addport"

(* createHost: mkhost with the first port ... *)
MkHost(p) ==
  /\ pc[p] = "mkhost"
  /\ \E o \in Outcomes :
       LET n == req[p].node
           w == PortsOf[n][1]
           applied == o # "unsent" /\ MkHostAccepted(n, w)
       IN /\ Spend(o)
          /\ IF applied THEN MkHostApply(n, w) ELSE UNCHANGED arrayVars
          /\ IF applied /\ o = "done"
               THEN /\ host' = [host EXCEPT ![p] = n]
                    /\ todo' = [todo EXCEPT ![p] = Tail(PortsOf[n])]
                    /\ Goto(p, AfterPorts(Tail(PortsOf[n])))
               ELSE Goto(p, "err") /\ UNCHANGED <<host, todo>>
  /\ UNCHANGED <<req, cand, lastErr, raced>>

(* ... then addhostport for each of the others ... *)
AddHostPort(p) ==
  /\ pc[p] = "addport"
  /\ \E o \in Outcomes :
       LET w == Head(todo[p])
           applied == o # "unsent" /\ AddHostPortAccepted(host[p], w)
       IN /\ Spend(o)
          /\ IF applied THEN AddHostPortApply(host[p], w) ELSE UNCHANGED arrayVars
          /\ IF applied /\ o = "done"
               THEN /\ todo' = [todo EXCEPT ![p] = Tail(@)]
                    /\ Goto(p, AfterPorts(Tail(todo[p])))
               ELSE Goto(p, "undo") /\ UNCHANGED todo
  /\ UNCHANGED <<req, host, cand, lastErr, raced>>

(* ... and deleteHost, whose error is ignored, when one of them fails.     *)
UndoCreateHost(p) ==
  /\ pc[p] = "undo"
  /\ \E o \in Outcomes :
       /\ Spend(o)
       /\ IF o # "unsent" /\ RmHostAccepted(host[p])
            THEN RmHostApply(host[p])
            ELSE UNCHANGED arrayVars
  /\ Goto(p, "err")
  /\ LocalUnchanged
  /\ UNCHANGED <<host, raced>>

(* Mutant: the host of a map is not compared. *)
GetLunIDOfAnyHost(p) ==
  /\ pc[p] = "lun"
  /\ \E r \in Replies :
       LET mapped == r = "done" /\ \E h \in hosts : <<req[p].vol, h>> \in maps
       IN QuerySpend(r) /\ Goto(p, IF mapped THEN "conn" ELSE "mkmap")
  /\ LocalUnchanged
  /\ UNCHANGED <<arrayVars, host, raced>>

(* Mutant: the volume is mapped without looking for the map first.         *)
MapWithoutLook(p) ==
  /\ pc[p] = "lun"
  /\ \E r \in Replies : QuerySpend(r) /\ Goto(p, "mkmap")
  /\ LocalUnchanged
  /\ UNCHANGED <<arrayVars, host, raced>>

(* getLunID before mapping: an error counts as "not mapped".               *)
GetLunID(p) ==
  /\ pc[p] = "lun"
  /\ \E r \in Replies :
       LET mapped == r = "done" /\ <<req[p].vol, host[p]>> \in maps
       IN QuerySpend(r) /\ Goto(p, IF mapped THEN "conn" ELSE "mkmap")
  /\ LocalUnchanged
  /\ UNCHANGED <<arrayVars, host, raced>>

(* The handlers of the opposite request for the same volume and the node   *)
(* of p's host object: a command of p overtakes them.                      *)
Overtaken(p, opposite) ==
  {q \in Procs : /\ pc[q] # "idle"
                 /\ req[q].op = opposite
                 /\ req[q].vol = req[p].vol
                 /\ req[q].node = NodeOf(host[p])}

MkVdiskHostMap(p) ==
  /\ pc[p] = "mkmap"
  /\ \E o \in Outcomes :
       LET applied == o # "unsent" /\ MkMapAccepted(req[p].vol, host[p])
       IN /\ Spend(o)
          /\ IF applied
               THEN MkMapApply(req[p].vol, host[p]) /\ raced' = raced \cup Overtaken(p, "detach")
               ELSE UNCHANGED <<arrayVars, raced>>
          /\ Goto(p, IF applied /\ o = "done" THEN "lunAgain" ELSE "err")
  /\ LocalUnchanged
  /\ UNCHANGED host

(* getLunID after mapping: an absent map is no error. *)
GetLunIDAgain(p) ==
  /\ pc[p] = "lunAgain"
  /\ \E r \in Replies : QuerySpend(r) /\ Goto(p, IF r = "error" THEN "err" ELSE "conn")
  /\ LocalUnchanged
  /\ UNCHANGED <<arrayVars, host, raced>>

(* buildConnProperty: queries for the array's ports. *)
BuildConnProperty(p) ==
  /\ pc[p] = "conn"
  /\ \E r \in Replies : QuerySpend(r) /\ Goto(p, IF r = "error" THEN "err" ELSE "ok")
  /\ LocalUnchanged
  /\ UNCHANGED <<arrayVars, host, raced>>

-----------------------------------------------------------------------------
(* DetachVolume *)

(* Mutant: an error of lsvdiskhostmap counts as "not mapped". *)
LsVdiskHostMapErrorIgnored(p) ==
  /\ pc[p] = "lsmap"
  /\ \E r \in Replies :
       LET found == r = "done" /\ <<req[p].vol, host[p]>> \in maps
       IN QuerySpend(r) /\ Goto(p, IF found THEN "rmmap" ELSE "lsvols")
  /\ LocalUnchanged
  /\ UNCHANGED <<arrayVars, host, raced>>

(* UnmapVolumeFromHost looks for the map among those of the volume ... *)
LsVdiskHostMap(p) ==
  /\ pc[p] = "lsmap"
  /\ \E r \in Replies :
       LET found == r = "done" /\ <<req[p].vol, host[p]>> \in maps
       IN /\ QuerySpend(r)
          /\ Goto(p, IF r = "error" THEN "err" ELSE IF found THEN "rmmap" ELSE "lsvols")
  /\ LocalUnchanged
  /\ UNCHANGED <<arrayVars, host, raced>>

(* ... and removes it. *)
RmVdiskHostMap(p) ==
  /\ pc[p] = "rmmap"
  /\ \E o \in Outcomes :
       LET applied == o # "unsent" /\ RmMapAccepted(req[p].vol, host[p])
       IN /\ Spend(o)
          /\ IF applied
               THEN RmMapApply(req[p].vol, host[p]) /\ raced' = raced \cup Overtaken(p, "attach")
               ELSE UNCHANGED <<arrayVars, raced>>
          /\ Goto(p, IF applied /\ o = "done" THEN "lsvols" ELSE "err")
  /\ LocalUnchanged
  /\ UNCHANGED host

(* volumesMappedToHost: when it cannot be told, the host object stays.     *)
LsHostVdiskMap(p) ==
  /\ pc[p] = "lsvols"
  /\ \E r \in Replies :
       LET vols == IF r = "done" THEN {v \in Volumes : <<v, host[p]>> \in maps} ELSE {}
       IN /\ QuerySpend(r)
          /\ Goto(p, IF r = "error" \/ vols # {} THEN "ok" ELSE "rmhost")
  /\ LocalUnchanged
  /\ UNCHANGED <<arrayVars, host, raced>>

(* deleteHost *)
DeleteHost(p) ==
  /\ pc[p] = "rmhost"
  /\ \E o \in Outcomes :
       LET applied == o # "unsent" /\ RmHostAccepted(host[p])
       IN /\ Spend(o)
          /\ IF applied THEN RmHostApply(host[p]) ELSE UNCHANGED arrayVars
          /\ Goto(p, IF applied /\ o = "done" THEN "ok" ELSE "err")
  /\ LocalUnchanged
  /\ UNCHANGED <<host, raced>>

-----------------------------------------------------------------------------
Step(p) ==
  \/ LsFabric(p) \/ LsHosts(p) \/ LsHost(p) \/ LsHostByName(p)
  \/ GetVolumePreferSiteName(p) \/ MkHost(p) \/ AddHostPort(p) \/ UndoCreateHost(p)
  \/ GetLunID(p) \/ MkVdiskHostMap(p) \/ GetLunIDAgain(p) \/ BuildConnProperty(p)
  \/ LsVdiskHostMap(p) \/ RmVdiskHostMap(p) \/ LsHostVdiskMap(p) \/ DeleteHost(p)

(* The bound on requests is reached and all are answered.                  *)
Rest ==
  /\ calls = MaxCalls
  /\ \A p \in Procs : pc[p] = "idle"
  /\ UNCHANGED vars

Next ==
  \/ \E p \in Procs : Call(p) \/ Retry(p) \/ Done(p) \/ Kill(p) \/ Step(p)
  \/ Rest

Spec == Init /\ [][Next]_vars

(* A handler runs on and its caller asks again until it is answered; both  *)
(* are loops of the code that nothing but a fault interrupts.              *)
Fairness == \A p \in Procs : WF_vars(Step(p)) /\ WF_vars(Retry(p)) /\ WF_vars(Done(p))
FairSpec == Spec /\ Fairness

-----------------------------------------------------------------------------
(* Properties *)

MappedTo(v, n) == \E h \in hosts : <<v, h>> \in maps /\ NodeOf(h) = n
Reachable(v, n) ==
  \E h \in hosts : <<v, h>> \in maps /\ ports[h] \cap PortSet(n) # {}

(* An attach that is answered with success left the volume mapped to a     *)
(* host object that carries a port of the node, unless a detach of that    *)
(* volume from that node was let in between (AttachVolume).                *)
AttachSound ==
  \A p \in Procs :
    pc[p] = "ok" /\ req[p].op = "attach" /\ p \notin raced
      => Reachable(req[p].vol, req[p].node)

(* A detach that is answered with success left no map of the volume to the *)
(* node, unless an attach of the same was let in between: what the comment *)
(* "no host info exist, volume not attached to that host" of DetachVolume  *)
(* promises.                                                               *)
DetachSound ==
  \A p \in Procs :
    pc[p] = "ok" /\ req[p].op = "detach" /\ p \notin raced
      => ~MappedTo(req[p].vol, req[p].node)

(* A map disappears only while a detach of its volume from its node runs:  *)
(* no handler, whatever is interleaved with it and whatever fails, takes a *)
(* volume from another pod, neither with rmvdiskhostmap on a stale host    *)
(* name nor with the rmhost of DetachVolume and createHost.                *)
Isolation ==
  [][\A m \in maps : m \notin maps' =>
       \E p \in Procs :
         /\ pc[p] = "rmmap"
         /\ req[p].op = "detach"
         /\ req[p].vol = m[1]
         /\ req[p].node = NodeOf(m[2])]_vars

(* Left alone and with no fault so far, the array holds no host object of  *)
(* the driver that lacks one of its node's ports or that no volume is      *)
(* mapped to, although createHost takes a command per port and             *)
(* DetachVolume decides to delete a host object on an earlier listing.     *)
QuiescentHosts ==
  faults = 0 /\ (\A p \in Procs : pc[p] = "idle")
    => \A h \in hosts \cap Nodes :
         ports[h] = PortSet(h) /\ \E v \in Volumes : <<v, h>> \in maps

(* Once faults stop, asking again gets every request through: no command   *)
(* that took effect without an answer, and no handler killed half way,     *)
(* leaves the array in a state from which its retry is refused for ever.   *)
RequestsSucceed == \A p \in Procs : pc[p] # "idle" ~> pc[p] = "ok"

-----------------------------------------------------------------------------
(* The parts of the inductive invariant behind AttachSound, DetachSound    *)
(* and Isolation.                                                          *)

AttachLabels == {"site", "mkhost", "addport", "undo", "lun", "mkmap", "lunAgain", "conn"}
DetachLabels == {"lsmap", "rmmap", "lsvols", "rmhost"}

(* Ports never cross nodes, and no host object is without a port.          *)
PortsInv ==
  \A h \in HostNames :
    /\ ports[h] \subseteq PortSet(NodeOf(h))
    /\ h \in hosts => ports[h] # {}

(* No map outlives its host object. *)
MapsInv == \A m \in maps : m[2] \in hosts

(* A handler looks for, and adds, ports of its own node. *)
TodoInv ==
  \A p \in Procs : pc[p] \in {"lsfabric", "addport"} =>
    \A i \in 1..Len(todo[p]) : todo[p][i] \in PortSet(req[p].node)

(* The host object a handler works on stands for the node of its request,  *)
(* however long ago it was looked up.                                      *)
HostInv ==
  \A p \in Procs :
    /\ pc[p] \in UsesHost => NodeOf(host[p]) = req[p].node
    /\ pc[p] \in {"addport", "undo"} => host[p] = req[p].node

OpInv ==
  \A p \in Procs :
    /\ pc[p] \in AttachLabels => req[p].op = "attach"
    /\ pc[p] \in DetachLabels => req[p].op = "detach"

(* Once an attach saw or made its map, the map stays until a detach races. *)
AttachInv ==
  \A p \in Procs :
    /\ pc[p] \in {"lunAgain", "conn", "ok"} /\ req[p].op = "attach"
    /\ p \notin raced
    => <<req[p].vol, host[p]>> \in maps /\ NodeOf(host[p]) = req[p].node

(* Once a detach saw its map gone, it stays gone until an attach races.    *)
DetachInv ==
  \A p \in Procs :
    /\ pc[p] \in {"lsvols", "rmhost", "ok"} /\ req[p].op = "detach"
    /\ p \notin raced
    => ~MappedTo(req[p].vol, req[p].node)

Inv == PortsInv /\ MapsInv /\ TodoInv /\ HostInv /\ OpInv /\ AttachInv
=============================================================================
