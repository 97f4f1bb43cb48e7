--------------------------- MODULE AS13000Targets ---------------------------
(***************************************************************************)
(* Attaching and detaching block volumes of an AS13000, as                 *)
(* Storage13000Util of pkg/storage/as13000/storage.go does it over REST.   *)
(* A volume is reached through an iSCSI target: it is mapped to one of the *)
(* driver's targets as a LUN, and the LUN is bound to the initiators of    *)
(* the nodes that use it.  An attach looks through the driver's targets    *)
(* for the volume's LUN, else takes the target with the fewest LUNs or     *)
(* creates one, maps the volume and binds the initiator.  A detach unbinds *)
(* the initiator, removes the LUN if that was the last, and the target if  *)
(* that was its last LUN.                                                  *)
(*                                                                         *)
(* Every step is one request.  No lock is taken; each handler acts on what *)
(* its earlier requests returned.  A request may not reach the array, and  *)
(* its answer may be lost.  The caller sends a failed one again.           *)
(*                                                                         *)
(* Nothing keeps the nodes of a volume apart: ControllerPublishVolume does *)
(* nothing (csiplugin/controller.go:112), the kubelet of each node asks    *)
(* for itself, and the driver offers MULTI_NODE_SINGLE_WRITER              *)
(* (csiplugin/driver.go:35).  What the volumes for several nodes come to   *)
(* when their requests overlap is kept apart in "crossed".                 *)
(*                                                                         *)
(* The array is outside the repository: it keeps target names, and the     *)
(* target of a volume, unique ("mappingLvm is unique", storage.go:342),    *)
(* gives a LUN any number free on its target, and removes no target that   *)
(* has LUNs.                                                               *)
(***************************************************************************)
EXTENDS Naturals, FiniteSets, FiniteSetsExt

CONSTANTS
  Nodes,           \* Kubernetes nodes, each with one initiator
  Volumes,         \* block volumes, of the form pool/name
  Procs,           \* handler slots
  MaxTargets,      \* max_target_num
  OptimalTargets,  \* optimal_target_num_for_k8s
  MaxLuns,         \* max_lun_num_per_target
  OtherTargets,    \* targets of other users of the array, whose names lack the prefix;
                   \* none has a volume of the driver
  Shared,          \* volumes for several nodes, whose requests may overlap: one in
                   \* flight per node; of another volume, one
  Asks,            \* the requests the callers make
  MaxCalls,        \* bound: requests callers make, retries not counted
  MaxFaults        \* bound: requests that fail, handlers that are killed

(* The controller's detach has the node's name and no initiator            *)
(* (BuildHostInfo), and a volume's name without its pool: it is not        *)
(* "local".                                                                *)
ASSUME TargetsAssumption ==
  /\ MaxTargets \in Nat /\ OptimalTargets \in Nat /\ MaxLuns \in Nat \ {0}
  /\ OtherTargets \in Nat
  /\ IsFiniteSet(Nodes) /\ IsFiniteSet(Volumes)
  /\ Shared \subseteq Volumes
  /\ Asks \subseteq [op : {"attach", "detach"}, vol : Volumes, node : Nodes, local : BOOLEAN]
  /\ \A r \in Asks : r.op = "attach" => r.local
  /\ MaxCalls \in Nat /\ MaxFaults \in Nat

Suffixes == Nat \ {0}
LunIds == 1..MaxLuns
NoTarget == 0
NoLun == 0

NoRequest == [op |-> "none"]

VARIABLES
  targets,   \* the driver's targets that exist, by the number in their name
  open,      \* the targets that admit hosts (addHost "ALL")
  lun,       \* [Volumes -> [tgt, id]]: where a volume is mapped
  iqns,      \* [Volumes -> SUBSET Nodes]: the initiators its LUN is bound to
  pc,        \* the next request of each handler; "ok" and "err": its answer
  req,       \* what it serves
  loc,       \* its local variables:
             \*   listed: targets, as queryTarget returned them
             \*   left: those whose LUNs are still to be looked at
             \*   best: targetName and k8s_target_lun_num, fewest LUNs so far
             \*   rows: detach, the LUNs of the volume found
             \*   tgt, id: targetName and lunID it works on
  \* what happened so far, which no handler sees:
  paired,    \* volumes of which two requests were in flight at once
  crossed,   \* those where one was a detach, and volumes whose LUN was taken for theirs
  strays,    \* targets that a handler of a paired volume had in hand
  calls, faults

arrayVars == <<targets, open, lun, iqns>>
history == <<paired, crossed, strays>>
vars == <<arrayVars, pc, req, loc, history, calls, faults>>

Unmapped == [tgt |-> NoTarget, id |-> NoLun]
Row == [tgt : Suffixes, id : LunIds, iqns : SUBSET Nodes]
Best == [tgt : Suffixes \cup {NoTarget}, luns : 0..MaxLuns]
Locals == [listed : SUBSET Suffixes, left : SUBSET Suffixes, best : Best, rows : SUBSET Row,
           tgt : Suffixes \cup {NoTarget}, id : LunIds \cup {NoLun}]

Labels == {"idle", "targets", "luns", "mktarget", "node", "addhost", "lunid",
           "mkmap", "lunidAgain", "bind", "portal",
           "dtargets", "dluns", "dnode", "unbind", "unmap", "dleft", "rmtarget",
           "ok", "err"}

TypeOK ==
  /\ targets \subseteq Suffixes
  /\ open \subseteq targets
  /\ lun \in [Volumes -> [tgt : Suffixes, id : LunIds] \cup {Unmapped}]
  /\ iqns \in [Volumes -> SUBSET Nodes]
  /\ pc \in [Procs -> Labels]
  /\ req \in [Procs -> Asks \cup {NoRequest}]
  /\ loc \in [Procs -> Locals]
  /\ crossed \subseteq paired /\ paired \subseteq Volumes
  /\ strays \subseteq Suffixes
  /\ calls \in 0..MaxCalls
  /\ faults \in 0..MaxFaults

NoBest == [tgt |-> NoTarget, luns |-> MaxLuns]
Blank == [listed |-> {}, left |-> {}, best |-> NoBest, rows |-> {},
          tgt |-> NoTarget, id |-> NoLun]

Init ==
  /\ targets = {} /\ open = {}
  /\ lun = [v \in Volumes |-> Unmapped]
  /\ iqns = [v \in Volumes |-> {}]
  /\ pc = [p \in Procs |-> "idle"]
  /\ req = [p \in Procs |-> NoRequest]
  /\ loc = [p \in Procs |-> Blank]
  /\ paired = {} /\ crossed = {} /\ strays = {}
  /\ calls = 0 /\ faults = 0

LunsOf(t) == {v \in Volumes : lun[v].tgt = t}
VolumeAt(t, i) == {v \in Volumes : lun[v] = [tgt |-> t, id |-> i] /\ t # NoTarget}

(* The next request of a handler, with its local variables, which go with *)
(* its answer.                                                             *)
GotoWith(p, label, l) ==
  /\ pc' = [pc EXCEPT ![p] = label]
  /\ loc' = [loc EXCEPT ![p] = IF label \in {"ok", "err"} THEN Blank ELSE l]
Goto(p, label) == GotoWith(p, label, loc[p])

(* How a request that changes the array ends. "lost": it took effect, but  *)
(* the answer did not arrive; "unsent": it never arrived.                  *)
Outcomes == {"done", "lost", "unsent"}
Spend(o) ==
  /\ o # "done" => faults < MaxFaults
  /\ faults' = IF o = "done" THEN faults ELSE faults + 1
  /\ UNCHANGED calls

(* How a query ends. *)
Replies == {"done", "error"}

(* The LUNs of a target that is gone: an error, or none. *)
LunReplies(t) == IF t \in targets THEN Replies ELSE {"done", "gone", "error"}
SpendReply(r) == Spend(IF r = "gone" THEN "done" ELSE r)
Failed(r) == r \in {"error", "gone"}

Busy(v) == \E q \in Procs : pc[q] # "idle" /\ req[q].vol = v
Running(p) == pc[p] \notin {"idle", "ok", "err"}

(* A process ends, with the handler p.  The plugin on a node serves that   *)
(* node's requests and the controller's plugin those without an initiator; *)
(* the flexvolume driver runs a process for each.                          *)
Mates(p) ==
  {q \in Procs : Running(q) /\ req[q].local = req[p].local
                 /\ (req[p].local => req[q].node = req[p].node)}
ProcessEnds(p, K) ==
  /\ K \in {{p}, Mates(p)}
  /\ pc' = [q \in Procs |-> IF q \in K THEN "err" ELSE pc[q]]
  /\ loc' = [q \in Procs |-> IF q \in K THEN Blank ELSE loc[q]]

(* Targets in the hands of handlers of paired volumes. *)
InHand ==
  {t \in targets : \E p \in Procs : pc[p] # "idle" /\ req[p].vol \in paired /\ loc[p].tgt = t}
Stray == strays' = strays \cup InHand'

-----------------------------------------------------------------------------
(* Requests of the callers. *)

Begin(p, r) ==
  /\ Goto(p, IF r.op = "attach" THEN "targets" ELSE "dtargets")
  /\ req' = [req EXCEPT ![p] = r]
  /\ UNCHANGED <<arrayVars, faults>>

Others(r) == {q \in Procs : pc[q] # "idle" /\ req[q].vol = r.vol}

(* The kubelet of a node works on a volume once at a time. *)
MayAsk(r) == \A q \in Others(r) : r.vol \in Shared /\ req[q].node # r.node

Call(p) ==
  /\ pc[p] = "idle"
  /\ calls < MaxCalls
  /\ calls' = calls + 1
  /\ \E r \in Asks :
       LET crossing == \E q \in Others(r) : "detach" \in {r.op, req[q].op}
       IN /\ MayAsk(r)
          /\ Begin(p, r)
          /\ paired' = IF Others(r) # {} THEN paired \cup {r.vol} ELSE paired
          /\ crossed' = IF crossing THEN crossed \cup {r.vol} ELSE crossed
  /\ Stray

Retry(p) ==
  /\ pc[p] = "err"
  /\ Begin(p, req[p])
  /\ UNCHANGED <<history, calls>>

Done(p) ==
  /\ pc[p] = "ok"
  /\ Goto(p, "idle")
  /\ req' = [req EXCEPT ![p] = NoRequest]
  /\ UNCHANGED <<arrayVars, history, calls, faults>>

(* A handler's process dies; the callers see an error. *)
Kill(p) ==
  /\ Running(p)
  /\ faults < MaxFaults
  /\ faults' = faults + 1
  /\ \E K \in SUBSET Procs : ProcessEnds(p, K)
  /\ UNCHANGED <<arrayVars, req, history, calls>>

-----------------------------------------------------------------------------
(* GetTargetForVolume *)

(* Where the search goes when no target has the volume: with a number of   *)
(* targets below the optimum, or with all of them full, a target is        *)
(* created; at the array's limit the attach fails.                         *)
Choice(seen, b) ==
  IF Cardinality(seen) + OtherTargets >= MaxTargets THEN "err"
  ELSE IF Cardinality(seen) < OptimalTargets \/ b.luns = MaxLuns
    THEN "mktarget" ELSE "lunid"

(* Mutant: the first target has the number 0, as no target has. *)
SuffixFromZero(seen) == IF seen = {} THEN 0 ELSE Max(seen) + 1

(* The number of a new target: one more than the largest in use. *)
NewSuffix(seen) == IF seen = {} THEN 1 ELSE Max(seen) + 1

ChosenTarget(seen, b) ==
  IF Choice(seen, b) = "mktarget" THEN NewSuffix(seen) ELSE b.tgt

Choose(p, seen, b) ==
  GotoWith(p, Choice(seen, b), [Blank EXCEPT !.tgt = ChosenTarget(seen, b)])

QueryTarget(p) ==
  /\ pc[p] = "targets"
  /\ \E r \in Replies :
       /\ SpendReply(r)
       /\ IF r = "error" THEN Goto(p, "err")
          ELSE IF targets = {} THEN Choose(p, {}, NoBest)
          ELSE GotoWith(p, "luns", [Blank EXCEPT !.listed = targets, !.left = targets])
  /\ UNCHANGED <<arrayVars, req>>

Fewer(p, t, n) == IF n < loc[p].best.luns THEN [tgt |-> t, luns |-> n] ELSE loc[p].best

(* Mutant: a LUN that is bound already is bound again. *)
BindAgain(p) == FALSE

IsLunBindIqn(p) == req[p].node \in iqns[req[p].vol]

(* The LUNs of the next target; the volume's own ends the search. *)
QueryVolumeMapping(p) ==
  /\ pc[p] = "luns"
  /\ \E t \in loc[p].left : \E r \in LunReplies(t) :
       LET own == lun[req[p].vol]
           b == Fewer(p, t, Cardinality(LunsOf(t)))
       IN /\ SpendReply(r)
          /\ IF Failed(r) THEN Goto(p, "err")
             ELSE IF own.tgt = t
               THEN GotoWith(p, IF IsLunBindIqn(p) THEN "portal" ELSE "bind",
                             [Blank EXCEPT !.tgt = t, !.id = own.id])
             ELSE IF loc[p].left = {t} THEN Choose(p, loc[p].listed, b)
             ELSE GotoWith(p, "luns", [loc[p] EXCEPT !.best = b, !.left = @ \ {t}])
  /\ UNCHANGED <<arrayVars, req>>

CreateTargetAccepted(t) ==
  t \notin targets /\ Cardinality(targets) + OtherTargets < MaxTargets

CreateTarget(p) ==
  /\ pc[p] = "mktarget"
  /\ \E o \in Outcomes :
       LET applied == o # "unsent" /\ CreateTargetAccepted(loc[p].tgt)
       IN /\ Spend(o)
          /\ targets' = IF applied THEN targets \cup {loc[p].tgt} ELSE targets
          /\ Goto(p, IF applied /\ o = "done" THEN "node" ELSE "err")
  /\ UNCHANGED <<open, lun, iqns, req>>

(* queryTargetByName.  A target that is gone is a nil, which its callers   *)
(* dereference: the process ends.  That other handlers end with it counts  *)
(* as a fault.                                                             *)
TargetByName(p, t, label, l) ==
  \/ t \in targets /\ Spend("done") /\ GotoWith(p, label, l)
  \/ Spend("error") /\ Goto(p, "err")
  \/ /\ t \notin targets
     /\ \E K \in SUBSET Procs :
          /\ ProcessEnds(p, K)
          /\ Spend(IF K = {p} THEN "done" ELSE "error")

(* For the node of the new target. *)
QueryTargetByName(p) ==
  /\ pc[p] = "node"
  /\ TargetByName(p, loc[p].tgt, "addhost", loc[p])
  /\ UNCHANGED <<arrayVars, req>>

AddHost(p) ==
  /\ pc[p] = "addhost"
  /\ \E o \in Outcomes :
       LET applied == o # "unsent" /\ loc[p].tgt \in targets
       IN /\ Spend(o)
          /\ open' = IF applied THEN open \cup {loc[p].tgt} ELSE open
          /\ Goto(p, IF applied /\ o = "done" THEN "lunid" ELSE "err")
  /\ UNCHANGED <<targets, lun, iqns, req>>

-----------------------------------------------------------------------------
(* mapVolumeToTarget, bindLunIQN and BuildConnProperty of AttachVolume *)

(* getLunMappingID: the LUN of the volume on the chosen target, if any. *)
LunIdOn(v, t) == IF t # NoTarget /\ lun[v].tgt = t THEN lun[v].id ELSE NoLun

GetLunMappingID(p) ==
  /\ pc[p] = "lunid"
  /\ \E r \in LunReplies(loc[p].tgt) :
       LET i == LunIdOn(req[p].vol, loc[p].tgt)
       IN /\ SpendReply(r)
          /\ GotoWith(p, IF Failed(r) THEN "err" ELSE IF i = NoLun THEN "mkmap" ELSE "bind",
                      [loc[p] EXCEPT !.id = i])
  /\ UNCHANGED <<arrayVars, req>>

FreeIds(t) == {i \in LunIds : VolumeAt(t, i) = {}}

CreateMapAccepted(v, t) == t \in targets /\ lun[v] = Unmapped /\ FreeIds(t) # {}

CreateVolumeMapping(p) ==
  /\ pc[p] = "mkmap"
  /\ \E o \in Outcomes :
       LET applied == o # "unsent" /\ CreateMapAccepted(req[p].vol, loc[p].tgt)
       IN /\ Spend(o)
          /\ IF applied
               THEN \E i \in FreeIds(loc[p].tgt) :
                      lun' = [lun EXCEPT ![req[p].vol] = [tgt |-> loc[p].tgt, id |-> i]]
               ELSE UNCHANGED lun
          /\ Goto(p, IF applied /\ o = "done" THEN "lunidAgain" ELSE "err")
  /\ UNCHANGED <<targets, open, iqns, req>>

(* An absent LUN gives the empty number here, and the bind is sent with it. *)
GetLunMappingIDAgain(p) ==
  /\ pc[p] = "lunidAgain"
  /\ \E r \in LunReplies(loc[p].tgt) :
       /\ SpendReply(r)
       /\ GotoWith(p, IF Failed(r) THEN "err" ELSE "bind",
                   [loc[p] EXCEPT !.id = LunIdOn(req[p].vol, loc[p].tgt)])
  /\ UNCHANGED <<arrayVars, req>>

(* bindLunIQN names the LUN by its number: whichever volume has it. *)
BindLunIQN(p) ==
  /\ pc[p] = "bind"
  /\ \E o \in Outcomes :
       LET hit == {v \in VolumeAt(loc[p].tgt, loc[p].id) : req[p].node \notin iqns[v]}
           applied == o # "unsent" /\ hit # {}
       IN /\ Spend(o)
          /\ iqns' = [v \in Volumes |->
                        IF applied /\ v \in hit THEN iqns[v] \cup {req[p].node} ELSE iqns[v]]
          /\ Goto(p, IF applied /\ o = "done" THEN "portal" ELSE "err")
  /\ UNCHANGED <<targets, open, lun, req>>

(* getPortal; the nodes' addresses that cannot be had are left out. *)
GetPortal(p) ==
  /\ pc[p] = "portal"
  /\ TargetByName(p, loc[p].tgt, "ok", loc[p])
  /\ UNCHANGED <<arrayVars, req>>

-----------------------------------------------------------------------------
(* DetachVolume *)

DQueryTarget(p) ==
  /\ pc[p] = "dtargets"
  /\ \E r \in Replies :
       /\ SpendReply(r)
       /\ GotoWith(p, IF r = "error" THEN "err" ELSE IF targets = {} THEN "ok" ELSE "dluns",
                   [Blank EXCEPT !.left = targets])
  /\ UNCHANGED <<arrayVars, req>>

(* After the search: none found is success, several an error. *)
AfterSearch(found) ==
  IF found = {} THEN "ok" ELSE IF Cardinality(found) = 1 THEN "dnode" ELSE "err"

(* getVolumeMappingByVolumeName: a name with its pool ends the search, one *)
(* without is looked for on every target.                                  *)
DQueryVolumeMapping(p) ==
  /\ pc[p] = "dluns"
  /\ \E t \in loc[p].left : \E r \in LunReplies(t) :
       LET v == req[p].vol
           here == IF lun[v].tgt = t
                     THEN {[tgt |-> t, id |-> lun[v].id, iqns |-> iqns[v]]} ELSE {}
           found == loc[p].rows \cup here
           over == loc[p].left = {t} \/ (here # {} /\ req[p].local)
       IN /\ SpendReply(r)
          /\ GotoWith(p, IF Failed(r) THEN "err"
                         ELSE IF over THEN AfterSearch(found) ELSE "dluns",
                      [loc[p] EXCEPT !.rows = found,
                                     !.left = IF over THEN {} ELSE @ \ {t}])
  /\ UNCHANGED <<arrayVars, req>>

TheRow(p) == CHOOSE x \in loc[p].rows : TRUE

(* The LUN is bound to the initiator of the request, which a request       *)
(* without one never is.                                                   *)
BoundToHost(p) == req[p].local /\ req[p].node \in TheRow(p).iqns

(* Mutant: the other initiators in the list are forgotten. *)
UnmapWhenUnbound(p) == BoundToHost(p) \/ TheRow(p).iqns = {}

(* Mutant: a LUN that is bound to no one is left alone. *)
RemoveBoundOnly(p) == BoundToHost(p) /\ Cardinality(TheRow(p).iqns) = 1

(* The LUN is removed when its list, as read before, is this initiator     *)
(* alone or "ALL", which an unbound LUN shows.                             *)
RemoveLun(p) ==
  \/ TheRow(p).iqns = {}
  \/ BoundToHost(p) /\ Cardinality(TheRow(p).iqns) = 1

DQueryTargetByName(p) ==
  /\ pc[p] = "dnode"
  /\ TargetByName(p, TheRow(p).tgt,
                  IF BoundToHost(p) THEN "unbind" ELSE IF RemoveLun(p) THEN "unmap" ELSE "ok",
                  [loc[p] EXCEPT !.tgt = TheRow(p).tgt, !.id = TheRow(p).id])
  /\ UNCHANGED <<arrayVars, req>>

UnBindLunIQN(p) ==
  /\ pc[p] = "unbind"
  /\ \E o \in Outcomes :
       LET hit == {v \in VolumeAt(loc[p].tgt, loc[p].id) : req[p].node \in iqns[v]}
           applied == o # "unsent" /\ hit # {}
       IN /\ Spend(o)
          /\ iqns' = [v \in Volumes |->
                        IF applied /\ v \in hit THEN iqns[v] \ {req[p].node} ELSE iqns[v]]
          /\ Goto(p, IF applied /\ o = "done"
                       THEN IF RemoveLun(p) THEN "unmap" ELSE "ok"
                       ELSE "err")
  /\ UNCHANGED <<targets, open, lun, req>>

(* deleteVolumeMapping with force: bindings go with the LUN. *)
DeleteVolumeMapping(p) ==
  /\ pc[p] = "unmap"
  /\ \E o \in Outcomes :
       LET hit == VolumeAt(loc[p].tgt, loc[p].id)
           applied == o # "unsent" /\ hit # {}
       IN /\ Spend(o)
          /\ IF applied
               THEN /\ lun' = [v \in Volumes |-> IF v \in hit THEN Unmapped ELSE lun[v]]
                    /\ iqns' = [v \in Volumes |-> IF v \in hit THEN {} ELSE iqns[v]]
               ELSE UNCHANGED <<lun, iqns>>
          /\ Goto(p, IF applied /\ o = "done" THEN "dleft" ELSE "err")
  /\ UNCHANGED <<targets, open, req>>

(* Mutant: the target is left for other volumes to come. *)
NeverEmpty(p) == "ok"

AfterLunRemoved(p) == IF LunsOf(loc[p].tgt) = {} THEN "rmtarget" ELSE "ok"

(* When the LUNs left cannot be told, the target stays. *)
QueryLeft(p) ==
  /\ pc[p] = "dleft"
  /\ \E r \in LunReplies(loc[p].tgt) :
       /\ SpendReply(r)
       /\ Goto(p, IF Failed(r) THEN "ok" ELSE AfterLunRemoved(p))
  /\ UNCHANGED <<arrayVars, req>>

DeleteTargetAccepted(t) == t \in targets /\ LunsOf(t) = {}

DeleteTarget(p) ==
  /\ pc[p] = "rmtarget"
  /\ \E o \in Outcomes :
       LET applied == o # "unsent" /\ DeleteTargetAccepted(loc[p].tgt)
       IN /\ Spend(o)
          /\ targets' = IF applied THEN targets \ {loc[p].tgt} ELSE targets
          /\ open' = IF applied THEN open \ {loc[p].tgt} ELSE open
          /\ Goto(p, IF applied /\ o = "done" THEN "ok" ELSE "err")
  /\ UNCHANGED <<lun, iqns, req>>

-----------------------------------------------------------------------------
Serve(p) ==
  \/ QueryTarget(p) \/ QueryVolumeMapping(p) \/ CreateTarget(p)
  \/ QueryTargetByName(p) \/ AddHost(p) \/ GetLunMappingID(p)
  \/ CreateVolumeMapping(p) \/ GetLunMappingIDAgain(p) \/ BindLunIQN(p) \/ GetPortal(p)
  \/ DQueryTarget(p) \/ DQueryVolumeMapping(p) \/ DQueryTargetByName(p)
  \/ UnBindLunIQN(p) \/ DeleteVolumeMapping(p) \/ QueryLeft(p) \/ DeleteTarget(p)

(* The volumes whose LUN or initiators the step changes, when the handler's *)
(* own is crossed: a LUN is named by its number, whoever has it now.        *)
Hit(p) ==
  {v \in Volumes : req[p].vol \in crossed /\ (lun'[v] # lun[v] \/ iqns'[v] # iqns[v])}

Step(p) ==
  /\ Serve(p)
  /\ paired' = paired \cup Hit(p)
  /\ crossed' = crossed \cup Hit(p)
  /\ Stray

(* The bound on requests is reached and all are answered. *)
Rest ==
  /\ calls = MaxCalls
  /\ \A p \in Procs : pc[p] = "idle"
  /\ UNCHANGED vars

Next ==
  \/ \E p \in Procs : Call(p) \/ Retry(p) \/ Done(p) \/ Kill(p) \/ Step(p)
  \/ Rest

Spec == Init /\ [][Next]_vars

(* A handler runs on and its caller asks again until it is answered. *)
Fairness == \A p \in Procs : WF_vars(Step(p)) /\ WF_vars(Retry(p)) /\ WF_vars(Done(p))
FairSpec == Spec /\ Fairness

-----------------------------------------------------------------------------
(* Properties *)

Access == {vn \in Volumes \X Nodes : vn[2] \in iqns[vn[1]]}

(* A detach without an initiator promises nothing about the node. *)
Promised(p) == pc[p] # "idle" /\ req[p].local

Met(p) == pc[p] \in {"portal", "unmap", "dleft", "rmtarget"}

Promise == INSTANCE VolumeAccess WITH
  access <- Access,
  asked  <- [p \in Procs |->
               IF Promised(p)
                 THEN [op |-> req[p].op, vol |-> req[p].vol, node |-> req[p].node]
                 ELSE NoRequest],
  state  <- [p \in Procs |->
               CASE ~Promised(p) -> "idle"
                 [] Promised(p) /\ pc[p] = "ok" -> "answered"
                 [] Promised(p) /\ Met(p) -> "met"
                 [] OTHER -> "pending"]

Concerns(p, v) == pc[p] # "idle" /\ req[p].vol = v
TouchesCrossed ==
  \E v \in crossed' :
    \/ iqns'[v] # iqns[v]
    \/ \E p \in Procs : pc'[p] # pc[p] /\ (Concerns(p, v) \/ Concerns(p, v)')

(* Attaching and detaching over many requests to the array, on targets     *)
(* shared by volumes and LUNs shared by nodes, looks to the controller as  *)
(* if each request took effect at one moment between its arrival and its   *)
(* answer, and none touches another's volume or node, whatever numbers     *)
(* targets and LUNs are given again (AttachVolume, DetachVolume).  Two     *)
(* nodes may attach a volume at once; only from the moment a detach of it  *)
(* has overlapped another request is it let off.                           *)
TargetsKeepPromise == Promise!Init /\ [][Promise!Next \/ TouchesCrossed]_(Promise!vars)

(* A LUN without an initiator shows "ALL" and serves every node that logs  *)
(* in to its target.  AttachVolume maps before it binds and DetachVolume   *)
(* unbinds before it removes, and either may fail in between; yet no       *)
(* volume is left so once the requests for it are answered, unless a       *)
(* detach of it overlapped another request.                                *)
NoLunForAll ==
  \A v \in Volumes \ crossed : ~Busy(v) /\ lun[v] # Unmapped => iqns[v] # {}

(* Left alone and with no fault so far, every target of the driver admits  *)
(* hosts and serves a volume, although creating one takes two requests and *)
(* removing one is decided on an earlier query (GetTargetForVolume,        *)
(* DetachVolume).  Left out are the targets that a handler had in hand     *)
(* whose volume had two requests in flight.                                *)
QuiescentTargets ==
  faults = 0 /\ (\A p \in Procs : pc[p] = "idle")
    => \A t \in targets \ strays : t \in open /\ LunsOf(t) # {}

(* Once faults stop, asking again gets every request through: a target     *)
(* created, a LUN mapped or an initiator bound without an answer, and a    *)
(* target that another handler created or deleted meanwhile, are found so  *)
(* by the retry.  The array has room for the targets.  A detach of a       *)
(* volume that overlaps an attach of it is left out: the two can remove    *)
(* and make the LUN under each other's hands for ever.                     *)
TargetRequestsSucceed ==
  \A p \in Procs : pc[p] # "idle" ~> pc[p] = "ok" \/ \E v \in crossed : Concerns(p, v)
=============================================================================
