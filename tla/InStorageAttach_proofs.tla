----------------------- MODULE InStorageAttach_proofs -----------------------
(***************************************************************************)
(* Theorems about InStorageAttach, for every value of its constants, and   *)
(* that it implements VolumeAccess.                                        *)
(***************************************************************************)
EXTENDS InStorageAccess, SequenceTheorems, FiniteSetTheorems, WellFoundedInduction, TLAPS

(* A handler that is about to send a command for the next port of its list *)
(* has one.                                                                *)
TodoOK == \A p \in Procs : pc[p] \in {"lsfabric", "addport"} => todo[p] # <<>>

(* Head and Tail keep the list's type only when it is not empty, so the    *)
(* type invariant is inductive with TodoOK.                                *)
TypeInv == TypeOK /\ TodoOK

(* Head and Tail of a non-empty list of ports. *)
LEMMA TodoTail ==
  ASSUME NEW s \in Seq(Ports), s # <<>>
  PROVE  /\ Head(s) \in Ports
         /\ Tail(s) \in Seq(Ports)
         /\ Len(s) # 1 => Tail(s) # <<>>
  <1>1. /\ Head(s) \in Ports
        /\ Tail(s) \in Seq(Ports)
        /\ Len(Tail(s)) = Len(s) - 1
    BY HeadTailProperties
  <1>2. Tail(s) = <<>> => Len(Tail(s)) = 0
    BY EmptySeq
  <1> QED
    BY <1>1, <1>2, LenProperties

LEMMA PortsOfType ==
  ASSUME NEW n \in Nodes
  PROVE  /\ PortsOf[n] \in Seq(Ports) /\ PortsOf[n] # <<>>
         /\ PortsOf[n][1] \in PortSet(n) /\ PortsOf[n][1] \in Ports
  BY ArrayAssumption DEF ArrayAssumption, PortSet

LEMMA InitType == Init => TypeInv
  BY ArrayAssumption, AttachAssumption
     DEF ArrayAssumption, AttachAssumption, Init, ArrayInit, TypeInv, TypeOK, ArrayTypeOK,
         TodoOK, HostNames, Labels, UsesHost

(* The array's types survive every command that changes it. *)
LEMMA ApplyType ==
  ASSUME ArrayTypeOK, NEW h \in HostNames, NEW w \in Ports, NEW v \in Volumes
  PROVE  /\ MkHostApply(h, w) => ArrayTypeOK'
         /\ AddHostPortApply(h, w) => ArrayTypeOK'
         /\ RmHostApply(h) => ArrayTypeOK'
         /\ MkMapApply(v, h) => ArrayTypeOK'
         /\ RmMapApply(v, h) => ArrayTypeOK'
         /\ UNCHANGED arrayVars => ArrayTypeOK'
  BY DEF ArrayTypeOK, MkHostApply, AddHostPortApply, RmHostApply, MkMapApply, RmMapApply, arrayVars

LEMMA StepType ==
  ASSUME TypeInv, NEW p \in Procs, Call(p) \/ Retry(p) \/ Done(p) \/ Kill(p) \/ Step(p)
  PROVE  TypeInv'
<1> USE ArrayAssumption, AttachAssumption DEF AttachAssumption, TypeInv, TypeOK, ArrayTypeOK, TodoOK
<1>1. CASE Call(p)
  BY <1>1, TodoTail, PortsOfType DEF Call, Begin, FirstLabel, Goto, arrayVars, Labels, UsesHost, Request, HostNames
<1>2. CASE Retry(p)
  BY <1>2, TodoTail, PortsOfType DEF Retry, Begin, FirstLabel, Goto, arrayVars, Labels, UsesHost, Request, HostNames
<1>3. CASE Done(p)
  BY <1>3, TodoTail, PortsOfType DEF Done, Goto, arrayVars, Labels, UsesHost, Request, HostNames
<1>4. CASE Kill(p)
  BY <1>4, TodoTail, PortsOfType DEF Kill, Goto, arrayVars, Labels, UsesHost, Request, HostNames
<1>5. CASE LsFabric(p)
  <2> DEFINE w == Head(todo[p])
  <2>1. PICK r \in Replies :
          LET rows == IF r = "done" THEN HostsWithPort(w) ELSE {}
          IN /\ QuerySpend(r)
             /\ todo' = [todo EXCEPT ![p] = Tail(@)]
             /\ lastErr' = IF r = "error" THEN lastErr \cup {p} ELSE lastErr
             /\ \/ \E h \in rows : FoundHost(p, h)
                \/ /\ rows = {}
                   /\ Goto(p, IF Len(todo[p]) = 1 THEN "byname" ELSE "lsfabric")
                   /\ UNCHANGED host
    BY <1>5 DEF LsFabric
  <2>2. /\ calls' \in 0..MaxCalls /\ faults' \in 0..MaxFaults
        /\ lastErr' \subseteq Procs /\ raced' \subseteq Procs
        /\ UNCHANGED <<arrayVars, req, cand>>
    BY <1>5, <2>1 DEF LsFabric, QuerySpend, Replies
  <2>3. todo' \in [Procs -> Seq(Ports)] /\ pc[p] = "lsfabric"
    BY <1>5, <2>1, TodoTail DEF LsFabric
  <2>4. CASE \E h \in hosts : FoundHost(p, h)
    BY <2>1, <2>2, <2>3, <2>4 DEF FoundHost, AfterFound, Goto, arrayVars, Labels, UsesHost, HostNames
  <2>5. CASE /\ Goto(p, IF Len(todo[p]) = 1 THEN "byname" ELSE "lsfabric")
             /\ UNCHANGED host
    <3>1. CASE Len(todo[p]) = 1
      BY <2>1, <2>2, <2>3, <2>5, <3>1 DEF Goto, arrayVars, Labels, UsesHost
    <3>2. CASE Len(todo[p]) # 1
      <4>1. Tail(todo[p]) # <<>>
        BY <2>3, <3>2, TodoTail
      <4> QED
        BY <2>1, <2>2, <2>3, <2>5, <3>2, <4>1 DEF Goto, arrayVars, Labels, UsesHost
    <3> QED
      BY <3>1, <3>2
  <2> QED
    BY <2>1, <2>4, <2>5 DEF HostsWithPort
<1>6. CASE LsHosts(p)
  BY <1>6, TodoTail, PortsOfType DEF LsHosts, QuerySpend, Replies, Goto, arrayVars, Labels, UsesHost, Request, HostNames
<1>7. CASE LsHost(p)
  <2>1. PICK h \in cand[p] : FoundHost(p, h) \/ (UNCHANGED host /\ (Goto(p, "byname") \/ Goto(p, "lshost")))
    BY <1>7 DEF LsHost
  <2>2. /\ calls' \in 0..MaxCalls /\ faults' \in 0..MaxFaults
        /\ lastErr' \subseteq Procs /\ raced' \subseteq Procs
        /\ cand' \in [Procs -> SUBSET HostNames]
        /\ UNCHANGED <<arrayVars, req, todo>> /\ pc[p] = "lshost"
    BY <1>7 DEF LsHost, QuerySpend, Replies
  <2>3. CASE FoundHost(p, h)
    BY <2>2, <2>3 DEF FoundHost, AfterFound, Goto, arrayVars, Labels, UsesHost
  <2>4. CASE UNCHANGED host /\ (Goto(p, "byname") \/ Goto(p, "lshost"))
    BY <2>2, <2>4 DEF Goto, arrayVars, Labels, UsesHost
  <2> QED
    BY <2>1, <2>3, <2>4
<1>8. CASE LsHostByName(p)
  <2>1. /\ calls' \in 0..MaxCalls /\ faults' \in 0..MaxFaults
        /\ UNCHANGED <<arrayVars, req, todo, cand, lastErr, raced>> /\ pc[p] = "byname"
        /\ req[p].node \in HostNames
    BY <1>8 DEF LsHostByName, QuerySpend, Replies, Request, HostNames
  <2>2. CASE FoundHost(p, req[p].node)
    BY <2>1, <2>2 DEF FoundHost, AfterFound, Goto, arrayVars, Labels, UsesHost
  <2>3. ASSUME NEW label \in {"err", "site", "ok"}, UNCHANGED host, Goto(p, label)
        PROVE  TypeInv'
    BY <2>1, <2>3 DEF Goto, arrayVars, Labels, UsesHost
  <2> QED
    BY <1>8, <2>2, <2>3 DEF LsHostByName, AfterNotFound
<1>9. CASE GetVolumePreferSiteName(p)
  BY <1>9, TodoTail, PortsOfType DEF GetVolumePreferSiteName, QuerySpend, Replies, LocalUnchanged, Goto, arrayVars, Labels, UsesHost, Request, HostNames
<1>10. CASE MkHost(p)
  <2> DEFINE n == req[p].node
  <2>1. /\ calls' \in 0..MaxCalls /\ faults' \in 0..MaxFaults
        /\ UNCHANGED <<req, cand, lastErr, raced>> /\ pc[p] = "mkhost"
        /\ n \in Nodes /\ n \in HostNames
    BY <1>10 DEF MkHost, Spend, Outcomes, Request, HostNames
  <2>3. /\ PortsOf[n] \in Seq(Ports) /\ Tail(PortsOf[n]) \in Seq(Ports)
        /\ PortsOf[n][1] \in Ports /\ req[p].vol \in Volumes
    BY <1>10, <2>1, PortsOfType, TodoTail DEF MkHost, Request
  <2>6. MkHostApply(n, PortsOf[n][1]) \/ UNCHANGED arrayVars
    BY <1>10 DEF MkHost
  <2>2. ArrayTypeOK'
    BY <2>1, <2>3, <2>6, ApplyType
  <2>4. CASE /\ host' = [host EXCEPT ![p] = n]
             /\ todo' = [todo EXCEPT ![p] = Tail(PortsOf[n])]
             /\ Goto(p, AfterPorts(Tail(PortsOf[n])))
    <3>1. /\ host' \in [Procs -> HostNames \cup {NoHost}] /\ host'[p] # NoHost
          /\ todo' \in [Procs -> Seq(Ports)]
      BY <2>1, <2>3, <2>4
    <3>2. CASE Tail(PortsOf[n]) = <<>>
      BY <2>1, <2>2, <2>4, <3>1, <3>2 DEF AfterPorts, Goto, Labels, UsesHost
    <3>3. CASE Tail(PortsOf[n]) # <<>>
      BY <2>1, <2>2, <2>4, <3>1, <3>3 DEF AfterPorts, Goto, Labels, UsesHost
    <3> QED
      BY <3>2, <3>3
  <2>5. CASE Goto(p, "err") /\ UNCHANGED <<host, todo>>
    BY <2>1, <2>2, <2>5 DEF Goto, Labels, UsesHost
  <2> QED
    BY <1>10, <2>4, <2>5 DEF MkHost
<1>11. CASE AddHostPort(p)
  <2>1. /\ calls' \in 0..MaxCalls /\ faults' \in 0..MaxFaults
        /\ UNCHANGED <<req, host, cand, lastErr, raced>> /\ pc[p] = "addport"
        /\ host[p] \in HostNames /\ host[p] # NoHost /\ req[p] \in Request
        /\ todo[p] \in Seq(Ports) /\ todo[p] # <<>>
    BY <1>11 DEF AddHostPort, Spend, Outcomes, UsesHost
  <2>2. Head(todo[p]) \in Ports /\ Tail(todo[p]) \in Seq(Ports)
    BY <2>1, TodoTail
  <2>3. ArrayTypeOK'
    BY <1>11, <2>1, <2>2, ApplyType DEF AddHostPort, Request
  <2>4. CASE /\ todo' = [todo EXCEPT ![p] = Tail(@)]
             /\ Goto(p, AfterPorts(Tail(todo[p])))
    BY <2>1, <2>2, <2>3, <2>4 DEF AfterPorts, Goto, Labels, UsesHost
  <2>5. CASE Goto(p, "undo") /\ UNCHANGED todo
    BY <2>1, <2>3, <2>5 DEF Goto, Labels, UsesHost
  <2> QED
    BY <1>11, <2>4, <2>5 DEF AddHostPort
<1>12. CASE UndoCreateHost(p)
  <2>1. /\ calls' \in 0..MaxCalls /\ faults' \in 0..MaxFaults
        /\ UNCHANGED <<req, host, todo, cand, lastErr, raced>> /\ pc[p] \in UsesHost
        /\ host[p] \in HostNames /\ req[p] \in Request /\ Ports # {}
    BY <1>12, PortsOfType DEF UndoCreateHost, Spend, Outcomes, LocalUnchanged, UsesHost, Request
  <2>2. ArrayTypeOK'
    BY <1>12, <2>1, ApplyType DEF UndoCreateHost, Request
  <2>3. Goto(p, "err")
    BY <1>12 DEF UndoCreateHost
  <2> QED
    BY <2>1, <2>2, <2>3 DEF Goto, Labels, UsesHost
<1>13. CASE GetLunID(p)
  BY <1>13, TodoTail, PortsOfType DEF GetLunID, QuerySpend, Replies, LocalUnchanged, Goto, arrayVars, Labels, UsesHost, Request, HostNames
<1>14. CASE MkVdiskHostMap(p)
  BY <1>14, TodoTail, PortsOfType DEF MkVdiskHostMap, Spend, Outcomes, MkMapAccepted, MkMapApply, Overtaken, LocalUnchanged, Goto, arrayVars, Labels, UsesHost, Request, HostNames
<1>15. CASE GetLunIDAgain(p)
  BY <1>15, TodoTail, PortsOfType DEF GetLunIDAgain, QuerySpend, Replies, LocalUnchanged, Goto, arrayVars, Labels, UsesHost, Request, HostNames
<1>16. CASE BuildConnProperty(p)
  BY <1>16, TodoTail, PortsOfType DEF BuildConnProperty, QuerySpend, Replies, LocalUnchanged, Goto, arrayVars, Labels, UsesHost, Request, HostNames
<1>17. CASE LsVdiskHostMap(p)
  BY <1>17, TodoTail, PortsOfType DEF LsVdiskHostMap, QuerySpend, Replies, LocalUnchanged, Goto, arrayVars, Labels, UsesHost, Request, HostNames
<1>18. CASE RmVdiskHostMap(p)
  BY <1>18, TodoTail, PortsOfType DEF RmVdiskHostMap, Spend, Outcomes, RmMapAccepted, RmMapApply, Overtaken, LocalUnchanged, Goto, arrayVars, Labels, UsesHost, Request, HostNames
<1>19. CASE LsHostVdiskMap(p)
  BY <1>19, TodoTail, PortsOfType DEF LsHostVdiskMap, QuerySpend, Replies, LocalUnchanged, Goto, arrayVars, Labels, UsesHost, Request, HostNames
<1>20. CASE DeleteHost(p)
  <2>1. /\ calls' \in 0..MaxCalls /\ faults' \in 0..MaxFaults
        /\ UNCHANGED <<req, host, todo, cand, lastErr, raced>> /\ pc[p] \in UsesHost
        /\ host[p] \in HostNames /\ req[p] \in Request /\ Ports # {}
    BY <1>20, PortsOfType DEF DeleteHost, Spend, Outcomes, LocalUnchanged, UsesHost, Request
  <2>2. ArrayTypeOK'
    BY <1>20, <2>1, ApplyType DEF DeleteHost, Request
  <2>3. Goto(p, "ok") \/ Goto(p, "err")
    BY <1>20 DEF DeleteHost
  <2> QED
    BY <2>1, <2>2, <2>3 DEF Goto, Labels, UsesHost
<1> QED
  BY <1>1, <1>2, <1>3, <1>4, <1>5, <1>6, <1>7, <1>8, <1>9, <1>10, <1>11, <1>12, <1>13, <1>14, <1>15, <1>16, <1>17, <1>18, <1>19, <1>20 DEF Step

LEMMA StutterType == TypeInv /\ UNCHANGED vars => TypeInv'
  BY DEF TypeInv, TypeOK, ArrayTypeOK, TodoOK, vars

LEMMA TypeInvariant == Spec => []TypeInv
<1>1. TypeInv /\ [Next]_vars => TypeInv'
  BY StepType, StutterType DEF Next, Rest
<1> QED
  BY InitType, <1>1, PTL DEF Spec

(* The types of the model hold in every reachable state, for any number of *)
(* nodes, volumes, ports and handlers; in particular no command is ever    *)
(* sent for the "" of a host search that found nothing.                    *)
THEOREM TypeCorrect == Spec => []TypeOK
  BY TypeInvariant, PTL DEF TypeInv

-----------------------------------------------------------------------------
(* The array's part of the invariant. *)

AnyStep(p) == Call(p) \/ Retry(p) \/ Done(p) \/ Kill(p) \/ Step(p)

(* Which steps change the array, and how. *)
LEMMA ArrayEffect ==
  ASSUME NEW p \in Procs, AnyStep(p)
  PROVE  \/ UNCHANGED arrayVars
         \/ pc[p] = "mkhost" /\ MkHostApply(req[p].node, PortsOf[req[p].node][1])
         \/ pc[p] = "addport" /\ AddHostPortAccepted(host[p], Head(todo[p]))
                              /\ AddHostPortApply(host[p], Head(todo[p]))
         \/ pc[p] \in {"undo", "rmhost"} /\ RmHostAccepted(host[p]) /\ RmHostApply(host[p])
         \/ pc[p] = "mkmap" /\ MkMapAccepted(req[p].vol, host[p])
                            /\ MkMapApply(req[p].vol, host[p])
                            /\ raced' = raced \cup Overtaken(p, "detach")
         \/ pc[p] = "rmmap" /\ RmMapAccepted(req[p].vol, host[p])
                            /\ RmMapApply(req[p].vol, host[p])
                            /\ raced' = raced \cup Overtaken(p, "attach")
<1>1. CASE Call(p)
  BY <1>1 DEF Call, Begin
<1>2. CASE Retry(p)
  BY <1>2 DEF Retry, Begin
<1>3. CASE Done(p)
  BY <1>3 DEF Done
<1>4. CASE Kill(p)
  BY <1>4 DEF Kill
<1>5. CASE LsFabric(p)
  BY <1>5 DEF LsFabric
<1>6. CASE LsHosts(p)
  BY <1>6 DEF LsHosts
<1>7. CASE LsHost(p)
  BY <1>7 DEF LsHost
<1>8. CASE LsHostByName(p)
  BY <1>8 DEF LsHostByName
<1>9. CASE GetVolumePreferSiteName(p)
  BY <1>9 DEF GetVolumePreferSiteName
<1>10. CASE MkHost(p)
  BY <1>10 DEF MkHost
<1>11. CASE AddHostPort(p)
  BY <1>11 DEF AddHostPort
<1>12. CASE UndoCreateHost(p)
  BY <1>12 DEF UndoCreateHost
<1>13. CASE GetLunID(p)
  BY <1>13 DEF GetLunID
<1>14. CASE MkVdiskHostMap(p)
  BY <1>14 DEF MkVdiskHostMap
<1>15. CASE GetLunIDAgain(p)
  BY <1>15 DEF GetLunIDAgain
<1>16. CASE BuildConnProperty(p)
  BY <1>16 DEF BuildConnProperty
<1>17. CASE LsVdiskHostMap(p)
  BY <1>17 DEF LsVdiskHostMap
<1>18. CASE RmVdiskHostMap(p)
  BY <1>18 DEF RmVdiskHostMap
<1>19. CASE LsHostVdiskMap(p)
  BY <1>19 DEF LsHostVdiskMap
<1>20. CASE DeleteHost(p)
  BY <1>20 DEF DeleteHost
<1> QED
  BY <1>1, <1>2, <1>3, <1>4, <1>5, <1>6, <1>7, <1>8, <1>9, <1>10, <1>11, <1>12, <1>13, <1>14, <1>15, <1>16, <1>17, <1>18, <1>19, <1>20 DEF AnyStep, Step

LEMMA ArrayInvStep ==
  ASSUME TypeInv, PortsInv, MapsInv, TodoInv, HostInv, NEW p \in Procs, AnyStep(p)
  PROVE  PortsInv' /\ MapsInv'
<1>1. CASE UNCHANGED arrayVars
  BY <1>1 DEF arrayVars, PortsInv, MapsInv
<1>2. ASSUME pc[p] = "mkhost", MkHostApply(req[p].node, PortsOf[req[p].node][1])
      PROVE  PortsInv' /\ MapsInv'
  <2>1. /\ req[p].node \in Nodes /\ PortsOf[req[p].node][1] \in PortSet(req[p].node)
    BY <1>2, PortsOfType DEF TypeInv, TypeOK, Request
  <2> QED
    BY <1>2, <2>1 DEF MkHostApply, PortsInv, MapsInv, NodeOf, TypeInv, TypeOK, ArrayTypeOK
<1>3. ASSUME pc[p] = "addport", AddHostPortApply(host[p], Head(todo[p]))
      PROVE  PortsInv' /\ MapsInv'
  <2>1. /\ todo[p] \in Seq(Ports) /\ todo[p] # <<>> /\ NodeOf(host[p]) = req[p].node
    BY <1>3 DEF TypeInv, TypeOK, TodoOK, HostInv, UsesHost
  <2>2. Head(todo[p]) \in PortSet(NodeOf(host[p]))
    BY <1>3, <2>1 DEF TodoInv
  <2> QED
    BY <1>3, <2>2 DEF AddHostPortApply, PortsInv, MapsInv, TypeInv, TypeOK, ArrayTypeOK
<1>4. ASSUME RmHostApply(host[p])
      PROVE  PortsInv' /\ MapsInv'
  BY <1>4 DEF RmHostApply, PortsInv, MapsInv, TypeInv, TypeOK, ArrayTypeOK
<1>5. ASSUME MkMapAccepted(req[p].vol, host[p]), MkMapApply(req[p].vol, host[p])
      PROVE  PortsInv' /\ MapsInv'
  BY <1>5 DEF MkMapAccepted, MkMapApply, PortsInv, MapsInv
<1>6. ASSUME RmMapApply(req[p].vol, host[p])
      PROVE  PortsInv' /\ MapsInv'
  BY <1>6 DEF RmMapApply, PortsInv, MapsInv
<1> QED
  BY ArrayEffect, <1>1, <1>2, <1>3, <1>4, <1>5, <1>6
-----------------------------------------------------------------------------
(* What a handler knows about itself. *)

(* The conjuncts of TodoInv, HostInv and OpInv that speak of handler p. *)
OwnInv(p) ==
  /\ pc[p] \in {"lsfabric", "addport"} =>
       \A i \in 1..Len(todo[p]) : todo[p][i] \in PortSet(req[p].node)
  /\ pc[p] \in UsesHost => NodeOf(host[p]) = req[p].node
  /\ pc[p] \in {"addport", "undo"} => host[p] = req[p].node
  /\ pc[p] \in AttachLabels => req[p].op = "attach"
  /\ pc[p] \in DetachLabels => req[p].op = "detach"

LEMMA OwnInvParts == (\A p \in Procs : OwnInv(p)) <=> TodoInv /\ HostInv /\ OpInv
  BY DEF OwnInv, TodoInv, HostInv, OpInv

(* A step of p touches no other handler but through raced, which only it   *)
(* leaves for itself.                                                      *)
LEMMA OtherHandlers ==
  ASSUME TypeInv, NEW p \in Procs, AnyStep(p), NEW q \in Procs, q # p
  PROVE  /\ pc'[q] = pc[q] /\ req'[q] = req[q] /\ host'[q] = host[q] /\ todo'[q] = todo[q]
         /\ cand'[q] = cand[q]
         /\ q \in raced => q \in raced'
<1> USE DEF TypeInv, TypeOK
<1>1. CASE Call(p)
  BY <1>1 DEF Call, Begin, Goto, LocalUnchanged
<1>2. CASE Retry(p)
  BY <1>2 DEF Retry, Begin, Goto, LocalUnchanged
<1>3. CASE Done(p)
  BY <1>3 DEF Done, Goto, LocalUnchanged
<1>4. CASE Kill(p)
  BY <1>4 DEF Kill, Goto, LocalUnchanged
<1>5. CASE LsFabric(p)
  BY <1>5 DEF LsFabric, FoundHost, Goto, LocalUnchanged
<1>6. CASE LsHosts(p)
  BY <1>6 DEF LsHosts, Goto, LocalUnchanged
<1>7. CASE LsHost(p)
  BY <1>7 DEF LsHost, FoundHost, Goto, LocalUnchanged
<1>8. CASE LsHostByName(p)
  BY <1>8 DEF LsHostByName, FoundHost, Goto, LocalUnchanged
<1>9. CASE GetVolumePreferSiteName(p)
  BY <1>9 DEF GetVolumePreferSiteName, Goto, LocalUnchanged
<1>10. CASE MkHost(p)
  BY <1>10 DEF MkHost, Goto, LocalUnchanged
<1>11. CASE AddHostPort(p)
  BY <1>11 DEF AddHostPort, Goto, LocalUnchanged
<1>12. CASE UndoCreateHost(p)
  BY <1>12 DEF UndoCreateHost, Goto, LocalUnchanged
<1>13. CASE GetLunID(p)
  BY <1>13 DEF GetLunID, Goto, LocalUnchanged
<1>14. CASE MkVdiskHostMap(p)
  BY <1>14 DEF MkVdiskHostMap, Goto, LocalUnchanged
<1>15. CASE GetLunIDAgain(p)
  BY <1>15 DEF GetLunIDAgain, Goto, LocalUnchanged
<1>16. CASE BuildConnProperty(p)
  BY <1>16 DEF BuildConnProperty, Goto, LocalUnchanged
<1>17. CASE LsVdiskHostMap(p)
  BY <1>17 DEF LsVdiskHostMap, Goto, LocalUnchanged
<1>18. CASE RmVdiskHostMap(p)
  BY <1>18 DEF RmVdiskHostMap, Goto, LocalUnchanged
<1>19. CASE LsHostVdiskMap(p)
  BY <1>19 DEF LsHostVdiskMap, Goto, LocalUnchanged
<1>20. CASE DeleteHost(p)
  BY <1>20 DEF DeleteHost, Goto, LocalUnchanged
<1> QED
  BY <1>1, <1>2, <1>3, <1>4, <1>5, <1>6, <1>7, <1>8, <1>9, <1>10, <1>11, <1>12, <1>13, <1>14, <1>15, <1>16, <1>17, <1>18, <1>19, <1>20 DEF AnyStep, Step

(* Its own request stays, and its lists and labels follow it. *)
LEMMA OwnInvStep ==
  ASSUME TypeInv, PortsInv, NEW p \in Procs, OwnInv(p), AnyStep(p)
  PROVE  OwnInv(p)'
<1> USE ArrayAssumption, AttachAssumption DEF TypeInv, TypeOK, AttachAssumption
<1> DEFINE n == req[p].node
<1>0. req[p] \in Request => /\ n \in Nodes /\ NodeOf(n) = n
                            /\ PortsOf[n] \in Seq(Ports) /\ PortsOf[n] # <<>>
  BY PortsOfType DEF Request, NodeOf
<1>1. ASSUME NEW r \in Request, Begin(p, r)  PROVE OwnInv(p)'
  <2>1. /\ pc' = [pc EXCEPT ![p] = FirstLabel(r)] /\ req'[p] = r
        /\ FirstLabel(r) \in {"byname", "lsfabric", "lshosts"}
        /\ FirstLabel(r) = "lsfabric" => todo'[p] = PortsOf[r.node]
        /\ r.node \in Nodes
    BY <1>1 DEF Begin, FirstLabel, Goto, Request
  <2>2. \A i \in 1..Len(PortsOf[r.node]) : PortsOf[r.node][i] \in PortSet(r.node)
    BY DEF PortSet
  <2>3. /\ pc'[p] \in {"byname", "lsfabric", "lshosts"} /\ req'[p] = r
        /\ pc'[p] = "lsfabric" => todo'[p] = PortsOf[r.node]
    BY <2>1
  <2> QED
    BY <2>2, <2>3 DEF OwnInv, UsesHost, AttachLabels, DetachLabels
<1>2. CASE Call(p) \/ Retry(p)
  BY <1>1, <1>2 DEF Call, Retry
<1>3. ASSUME pc'[p] \notin {"lsfabric", "addport"} \cup UsesHost \cup AttachLabels \cup DetachLabels
      PROVE  OwnInv(p)'
  BY <1>3 DEF OwnInv, UsesHost, AttachLabels, DetachLabels
<1>4. CASE Done(p) \/ Kill(p)
  BY <1>3, <1>4 DEF Done, Kill, Goto, UsesHost, AttachLabels, DetachLabels
<1>5. ASSUME NEW h \in hosts, FoundHost(p, h), NodeOf(h) = n, req'[p] = req[p], req[p] \in Request
      PROVE  OwnInv(p)'
  <2>1. /\ host'[p] = h /\ req[p].op \in {"attach", "detach"}
        /\ req[p].op = "attach" => pc'[p] = "lun"
        /\ req[p].op = "detach" => pc'[p] = "lsmap"
    <3>1. req[p].op \in {"attach", "detach"}
      BY <1>5 DEF Request
    <3> QED
      BY <1>5, <3>1 DEF FoundHost, AfterFound, Goto
  <2> QED
    BY <1>5, <2>1 DEF OwnInv, UsesHost, AttachLabels, DetachLabels
<1>6. CASE LsFabric(p)
  <2>1. /\ pc[p] = "lsfabric" /\ req' = req /\ req[p] \in Request
        /\ todo[p] \in Seq(Ports) /\ todo[p] # <<>>
        /\ todo'[p] = Tail(todo[p])
    BY <1>6 DEF LsFabric, TodoOK
  <2>2. CASE \E h \in HostsWithPort(Head(todo[p])) : FoundHost(p, h)
    <3>1. PICK h \in hosts : FoundHost(p, h) /\ Head(todo[p]) \in ports[h]
      BY <2>2 DEF HostsWithPort
    <3>2. Head(todo[p]) \in PortSet(n)
      <4>1. Head(todo[p]) = todo[p][1] /\ 1 \in 1..Len(todo[p])
        BY <2>1, HeadTailProperties, EmptySeq, LenProperties
      <4> QED
        BY <2>1, <4>1 DEF OwnInv
    <3>3. NodeOf(h) \in Nodes /\ Head(todo[p]) \in PortSet(NodeOf(h))
      BY <3>1 DEF ArrayAssumption, NodeOf, ArrayTypeOK, HostNames, PortsInv
    <3>4. NodeOf(h) = n
      BY <1>0, <2>1, <3>2, <3>3 DEF ArrayAssumption
    <3> QED
      BY <1>5, <2>1, <3>1, <3>4
  <2>3. CASE Goto(p, "byname") \/ Goto(p, "lsfabric")
    <3>1. \A i \in 1..Len(Tail(todo[p])) : Tail(todo[p])[i] \in PortSet(n)
      <4>1. /\ Len(Tail(todo[p])) = Len(todo[p]) - 1
            /\ \A i \in 1..Len(Tail(todo[p])) : Tail(todo[p])[i] = todo[p][i+1]
        BY <2>1, HeadTailProperties
      <4>2. Len(todo[p]) \in Nat
        BY <2>1, LenProperties
      <4> QED
        BY <2>1, <4>1, <4>2 DEF OwnInv
    <3>2. pc'[p] \in {"byname", "lsfabric"}
      BY <2>3 DEF Goto
    <3> QED
      BY <2>1, <3>1, <3>2 DEF OwnInv, UsesHost, AttachLabels, DetachLabels
  <2> QED
    BY <1>6, <2>2, <2>3 DEF LsFabric
<1>7. CASE LsHosts(p)
  BY <1>3, <1>7 DEF LsHosts, Goto, UsesHost, AttachLabels, DetachLabels
<1>8. CASE LsHost(p)
  <2>1. req' = req /\ req[p] \in Request /\ n \in Nodes
    BY <1>0, <1>8 DEF LsHost
  <2>2. CASE \E h \in hosts : FoundHost(p, h) /\ PortsOf[n][1] \in ports[h]
    <3>1. PICK h \in hosts : FoundHost(p, h) /\ PortsOf[n][1] \in ports[h]
      BY <2>2
    <3>2. PortsOf[n][1] \in PortSet(n)
      BY <2>1, PortsOfType
    <3>3. NodeOf(h) \in Nodes /\ PortsOf[n][1] \in PortSet(NodeOf(h))
      BY <3>1 DEF ArrayAssumption, NodeOf, ArrayTypeOK, HostNames, PortsInv
    <3>4. NodeOf(h) = n
      BY <2>1, <3>2, <3>3 DEF ArrayAssumption
    <3> QED
      BY <1>5, <2>1, <3>1, <3>4
  <2>3. CASE Goto(p, "byname") \/ Goto(p, "lshost")
    BY <1>3, <2>3 DEF Goto, UsesHost, AttachLabels, DetachLabels
  <2> QED
    BY <1>8, <2>2, <2>3 DEF LsHost
<1>9. CASE LsHostByName(p)
  <2>1. req' = req /\ req[p] \in Request /\ n \in Nodes /\ NodeOf(n) = n
    BY <1>0, <1>9 DEF LsHostByName
  <2>2. CASE n \in hosts /\ FoundHost(p, n)
    BY <1>5, <2>1, <2>2
  <2>3. CASE Goto(p, "err")
    BY <1>3, <2>3 DEF Goto, UsesHost, AttachLabels, DetachLabels
  <2>4. CASE Goto(p, AfterNotFound(p))
    <3>1. pc'[p] = IF req[p].op = "attach" THEN "site" ELSE "ok"
      BY <2>4 DEF Goto, AfterNotFound
    <3> QED
      BY <2>1, <3>1 DEF OwnInv, UsesHost, AttachLabels, DetachLabels
  <2> QED
    BY <1>9, <2>2, <2>3, <2>4 DEF LsHostByName
<1>10. CASE GetVolumePreferSiteName(p)
  BY <1>10 DEF GetVolumePreferSiteName, Goto, LocalUnchanged, OwnInv, UsesHost, AttachLabels, DetachLabels
<1>11. CASE MkHost(p)
  <2>1. /\ pc[p] = "mkhost" /\ req' = req /\ req[p] \in Request /\ req[p].op = "attach"
        /\ n \in Nodes /\ NodeOf(n) = n /\ PortsOf[n] \in Seq(Ports) /\ PortsOf[n] # <<>>
    BY <1>0, <1>11 DEF MkHost, OwnInv, AttachLabels
  <2>2. CASE /\ host' = [host EXCEPT ![p] = n]
             /\ todo' = [todo EXCEPT ![p] = Tail(PortsOf[n])]
             /\ Goto(p, AfterPorts(Tail(PortsOf[n])))
    <3>1. \A i \in 1..Len(Tail(PortsOf[n])) : Tail(PortsOf[n])[i] \in PortSet(n)
      <4>1. /\ Len(Tail(PortsOf[n])) = Len(PortsOf[n]) - 1
            /\ \A i \in 1..Len(Tail(PortsOf[n])) : Tail(PortsOf[n])[i] = PortsOf[n][i+1]
        BY <2>1, HeadTailProperties
      <4>2. Len(PortsOf[n]) \in Nat
        BY <2>1, LenProperties
      <4> QED
        BY <2>1, <4>1, <4>2 DEF PortSet
    <3>2. /\ host'[p] = n /\ todo'[p] = Tail(PortsOf[n])
          /\ pc'[p] \in {"lun", "addport"}
      BY <2>2 DEF AfterPorts, Goto
    <3> QED
      BY <2>1, <3>1, <3>2 DEF OwnInv, UsesHost, AttachLabels, DetachLabels
  <2>3. CASE Goto(p, "err")
    BY <1>3, <2>3 DEF Goto, UsesHost, AttachLabels, DetachLabels
  <2> QED
    BY <1>11, <2>2, <2>3 DEF MkHost
<1>12. CASE AddHostPort(p)
  <2>1. /\ pc[p] = "addport" /\ req' = req /\ host' = host
        /\ todo[p] \in Seq(Ports) /\ todo[p] # <<>>
    BY <1>12 DEF AddHostPort, TodoOK
  <2>2. CASE /\ todo' = [todo EXCEPT ![p] = Tail(@)]
             /\ Goto(p, AfterPorts(Tail(todo[p])))
    <3>1. \A i \in 1..Len(Tail(todo[p])) : Tail(todo[p])[i] \in PortSet(n)
      <4>1. /\ Len(Tail(todo[p])) = Len(todo[p]) - 1
            /\ \A i \in 1..Len(Tail(todo[p])) : Tail(todo[p])[i] = todo[p][i+1]
        BY <2>1, HeadTailProperties
      <4>2. Len(todo[p]) \in Nat
        BY <2>1, LenProperties
      <4> QED
        BY <2>1, <4>1, <4>2 DEF OwnInv
    <3>2. todo'[p] = Tail(todo[p]) /\ pc'[p] \in {"lun", "addport"}
      BY <2>2 DEF AfterPorts, Goto
    <3> QED
      BY <2>1, <3>1, <3>2 DEF OwnInv, UsesHost, AttachLabels, DetachLabels
  <2>3. CASE Goto(p, "undo")
    <3>1. pc'[p] = "undo"
      BY <2>3 DEF Goto
    <3> QED
      BY <2>1, <3>1 DEF OwnInv, UsesHost, AttachLabels, DetachLabels
  <2> QED
    BY <1>12, <2>2, <2>3 DEF AddHostPort
<1>13. CASE UndoCreateHost(p)
  BY <1>3, <1>13 DEF UndoCreateHost, Goto, UsesHost, AttachLabels, DetachLabels
<1>14. CASE GetLunID(p)
  BY <1>14 DEF GetLunID, Goto, LocalUnchanged, OwnInv, UsesHost, AttachLabels, DetachLabels
<1>15. CASE MkVdiskHostMap(p)
  BY <1>15 DEF MkVdiskHostMap, Goto, LocalUnchanged, OwnInv, UsesHost, AttachLabels, DetachLabels
<1>16. CASE GetLunIDAgain(p)
  BY <1>16 DEF GetLunIDAgain, Goto, LocalUnchanged, OwnInv, UsesHost, AttachLabels, DetachLabels
<1>17. CASE BuildConnProperty(p)
  BY <1>17 DEF BuildConnProperty, Goto, LocalUnchanged, OwnInv, UsesHost, AttachLabels, DetachLabels
<1>18. CASE LsVdiskHostMap(p)
  BY <1>18 DEF LsVdiskHostMap, Goto, LocalUnchanged, OwnInv, UsesHost, AttachLabels, DetachLabels
<1>19. CASE RmVdiskHostMap(p)
  BY <1>19 DEF RmVdiskHostMap, Goto, LocalUnchanged, OwnInv, UsesHost, AttachLabels, DetachLabels
<1>20. CASE LsHostVdiskMap(p)
  BY <1>20 DEF LsHostVdiskMap, Goto, LocalUnchanged, OwnInv, UsesHost, AttachLabels, DetachLabels
<1>21. CASE DeleteHost(p)
  BY <1>21 DEF DeleteHost, Goto, LocalUnchanged, OwnInv, UsesHost, AttachLabels, DetachLabels
<1> QED
  BY <1>2, <1>4, <1>6, <1>7, <1>8, <1>9, <1>10, <1>11, <1>12, <1>13, <1>14, <1>15, <1>16, <1>17, <1>18, <1>19, <1>20, <1>21 DEF AnyStep, Step

(* A map is removed by rmvdiskhostmap alone, and added by mkvdiskhostmap   *)
(* alone: rmhost is refused while a map is left.                           *)
LEMMA MapsEffect ==
  ASSUME TypeInv, NEW p \in Procs, AnyStep(p)
  PROVE  /\ \A m \in maps : m \notin maps' =>
              /\ pc[p] = "rmmap" /\ m = <<req[p].vol, host[p]>>
              /\ raced' = raced \cup Overtaken(p, "attach")
         /\ \A m \in maps' : m \notin maps =>
              /\ pc[p] = "mkmap" /\ m = <<req[p].vol, host[p]>>
              /\ raced' = raced \cup Overtaken(p, "detach")
<1> USE DEF TypeInv, TypeOK, ArrayTypeOK
<1>1. CASE UNCHANGED arrayVars
  BY <1>1 DEF arrayVars
<1>2. ASSUME MkHostApply(req[p].node, PortsOf[req[p].node][1])
      PROVE  maps' = maps
  BY <1>2 DEF MkHostApply
<1>3. ASSUME AddHostPortApply(host[p], Head(todo[p]))
      PROVE  maps' = maps
  BY <1>3 DEF AddHostPortApply
<1>4. ASSUME RmHostAccepted(host[p]), RmHostApply(host[p])
      PROVE  maps' = maps
  <2>1. \A m \in maps : m[2] # host[p]
    <3>1. ASSUME NEW m \in maps  PROVE m[1] \in Volumes /\ m = <<m[1], m[2]>>
      OBVIOUS
    <3> QED
      BY <1>4, <3>1 DEF RmHostAccepted
  <2> QED
    BY <1>4, <2>1 DEF RmHostApply
<1>5. ASSUME pc[p] = "mkmap", MkMapApply(req[p].vol, host[p])
      PROVE  maps \subseteq maps' /\ \A m \in maps' : m \in maps \/ m = <<req[p].vol, host[p]>>
  BY <1>5 DEF MkMapApply
<1>6. ASSUME pc[p] = "rmmap", RmMapApply(req[p].vol, host[p])
      PROVE  maps' \subseteq maps /\ \A m \in maps : m \in maps' \/ m = <<req[p].vol, host[p]>>
  BY <1>6 DEF RmMapApply
<1>7. CASE pc[p] = "mkmap" /\ MkMapApply(req[p].vol, host[p])
                          /\ raced' = raced \cup Overtaken(p, "detach")
  BY <1>5, <1>7
<1>8. CASE pc[p] = "rmmap" /\ RmMapApply(req[p].vol, host[p])
                          /\ raced' = raced \cup Overtaken(p, "attach")
  BY <1>6, <1>8
<1> QED
  BY ArrayEffect, <1>1, <1>2, <1>3, <1>4, <1>7, <1>8

(* What an attach holds when it is about to be answered. *)
LEMMA AttachInvStep ==
  ASSUME TypeInv, Inv, NEW p \in Procs, AnyStep(p)
  PROVE  AttachInv'
<1> SUFFICES ASSUME NEW q \in Procs,
                    pc'[q] \in {"lunAgain", "conn", "ok"}, req'[q].op = "attach", q \notin raced'
             PROVE  <<req'[q].vol, host'[q]>> \in maps' /\ NodeOf(host'[q]) = req'[q].node
  BY DEF AttachInv, NodeOf
<1> USE DEF Inv
<1>1. CASE q # p
  <2>1. /\ pc[q] \in {"lunAgain", "conn", "ok"} /\ req[q].op = "attach" /\ q \notin raced
        /\ req'[q] = req[q] /\ host'[q] = host[q]
    BY <1>1, OtherHandlers
  <2>2. <<req[q].vol, host[q]>> \in maps /\ NodeOf(host[q]) = req[q].node
    BY <2>1 DEF AttachInv
  <2>3. ASSUME <<req[q].vol, host[q]>> \notin maps'
        PROVE  FALSE
    <3>1. /\ <<req[q].vol, host[q]>> = <<req[p].vol, host[p]>>
          /\ raced' = raced \cup Overtaken(p, "attach")
      BY <2>2, <2>3, MapsEffect
    <3> QED
      BY <2>1, <2>2, <3>1 DEF Overtaken
  <2> QED
    BY <2>1, <2>2, <2>3
<1>2. CASE q = p
  <2> USE <1>2 DEF TypeInv, TypeOK
  <2>1. CASE GetLunID(p)
    BY <2>1 DEF GetLunID, Goto, LocalUnchanged, arrayVars, HostInv, UsesHost
  <2>2. CASE MkVdiskHostMap(p)
    BY <2>2 DEF MkVdiskHostMap, Goto, LocalUnchanged, MkMapApply, HostInv, UsesHost
  <2>3. CASE GetLunIDAgain(p) \/ BuildConnProperty(p)
    BY <2>3 DEF GetLunIDAgain, BuildConnProperty, Goto, LocalUnchanged, arrayVars, AttachInv
  <2>4. CASE LsVdiskHostMap(p) \/ RmVdiskHostMap(p) \/ LsHostVdiskMap(p) \/ DeleteHost(p)
    BY <2>4 DEF LsVdiskHostMap, RmVdiskHostMap, LsHostVdiskMap, DeleteHost, LocalUnchanged, OpInv, DetachLabels
  <2>5. CASE Call(p) \/ Retry(p)
    <3>1. ASSUME NEW r \in Request, Begin(p, r)  PROVE FALSE
      <4>1. pc'[p] = FirstLabel(r) /\ r.local \in BOOLEAN /\ Link \in {"fc", "iscsi"}
        BY <3>1, AttachAssumption DEF Begin, Goto, Request, AttachAssumption
      <4> QED
        BY <4>1 DEF FirstLabel
    <3> QED
      BY <2>5, <3>1 DEF Call, Retry
  <2>6. CASE Done(p) \/ Kill(p)
    BY <2>6 DEF Done, Kill, Goto
  <2>7. CASE LsFabric(p)
    <3>1. pc' = [pc EXCEPT ![p] = AfterFound(p)] \/ pc' = [pc EXCEPT ![p] = "byname"]
            \/ pc' = [pc EXCEPT ![p] = "lsfabric"]
      BY <2>7 DEF LsFabric, FoundHost, Goto
    <3> QED
      BY <3>1 DEF AfterFound
  <2>8. CASE LsHosts(p) \/ LsHost(p)
    BY <2>8 DEF LsHosts, LsHost, FoundHost, AfterFound, Goto
  <2>9. CASE LsHostByName(p)
    BY <2>9 DEF LsHostByName, FoundHost, AfterFound, AfterNotFound, Goto
  <2>10. CASE GetVolumePreferSiteName(p) \/ MkHost(p) \/ AddHostPort(p) \/ UndoCreateHost(p)
    BY <2>10 DEF GetVolumePreferSiteName, MkHost, AddHostPort, AfterPorts, UndoCreateHost, Goto
  <2> QED
    BY <2>1, <2>2, <2>3, <2>4, <2>5, <2>6, <2>7, <2>8, <2>9, <2>10 DEF AnyStep, Step
<1> QED
  BY <1>1, <1>2

-----------------------------------------------------------------------------
(* The invariant, and the theorems about attach and isolation. *)

LEMMA InitInv == Init => Inv
<1> SUFFICES ASSUME Init  PROVE Inv
  OBVIOUS
<1>1. PortsInv
  BY ArrayAssumption DEF Init, ArrayInit, PortsInv, ArrayAssumption, HostNames, NodeOf
<1>2. MapsInv /\ TodoInv /\ HostInv /\ OpInv /\ AttachInv
  BY DEF Init, ArrayInit, MapsInv, TodoInv, HostInv, OpInv, AttachInv, UsesHost, AttachLabels, DetachLabels
<1> QED
  BY <1>1, <1>2 DEF Inv

LEMMA HandlerStepInv ==
  ASSUME TypeInv, Inv, NEW p \in Procs, AnyStep(p)
  PROVE  Inv'
<1>1. PortsInv' /\ MapsInv'
  BY ArrayInvStep DEF Inv
<1>2. AttachInv'
  BY AttachInvStep
<1>3. ASSUME NEW q \in Procs  PROVE OwnInv(q)'
  <2>1. OwnInv(q)
    BY OwnInvParts DEF Inv
  <2>2. CASE q = p
    BY <2>1, <2>2, OwnInvStep DEF Inv
  <2>3. CASE q # p
    <3>1. pc'[q] = pc[q] /\ req'[q] = req[q] /\ host'[q] = host[q] /\ todo'[q] = todo[q]
      BY <2>3, OtherHandlers
    <3> QED
      BY <2>1, <3>1 DEF OwnInv, NodeOf, PortSet, UsesHost, AttachLabels, DetachLabels
  <2> QED
    BY <2>2, <2>3
<1>4. TodoInv' /\ HostInv' /\ OpInv'
  <2>1. (\A q \in Procs : OwnInv(q))' <=> (TodoInv /\ HostInv /\ OpInv)'
    BY DEF OwnInv, TodoInv, HostInv, OpInv
  <2> QED
    BY <1>3, <2>1
<1> QED
  BY <1>1, <1>2, <1>4 DEF Inv

LEMMA StepInv == TypeInv /\ Inv /\ [Next]_vars => Inv'
<1>1. TypeInv /\ Inv /\ Next => Inv'
  <2>1. ASSUME Rest, Inv  PROVE Inv'
    BY <2>1 DEF Rest, vars, Inv, PortsInv, MapsInv, TodoInv, HostInv, OpInv, AttachInv, NodeOf, PortSet, UsesHost, AttachLabels, DetachLabels
  <2> QED
    BY <2>1, HandlerStepInv DEF Next, AnyStep
<1>2. Inv /\ UNCHANGED vars => Inv'
  BY DEF vars, Inv, PortsInv, MapsInv, TodoInv, HostInv, OpInv, AttachInv, NodeOf, PortSet, UsesHost, AttachLabels, DetachLabels
<1> QED
  BY <1>1, <1>2

LEMMA Invariant == Spec => [](TypeInv /\ Inv)
  BY InitInv, StepInv, TypeInvariant, PTL DEF Spec

LEMMA AttachInvSuffices == TypeInv /\ Inv => AttachSound
<1> SUFFICES ASSUME TypeInv, Inv, NEW p \in Procs,
                    pc[p] = "ok", req[p].op = "attach", p \notin raced
             PROVE  Reachable(req[p].vol, req[p].node)
  BY DEF AttachSound
<1>1. <<req[p].vol, host[p]>> \in maps /\ NodeOf(host[p]) = req[p].node
  BY DEF Inv, AttachInv
<1>2. host[p] \in hosts /\ host[p] \in HostNames
  BY <1>1 DEF Inv, MapsInv, TypeInv, TypeOK, ArrayTypeOK
<1>3. ports[host[p]] # {} /\ ports[host[p]] \subseteq PortSet(req[p].node)
  BY <1>1, <1>2 DEF Inv, PortsInv
<1> QED
  BY <1>1, <1>2, <1>3 DEF Reachable

(* An attach that is answered with success left the volume mapped to a     *)
(* host object that carries a port of its node, unless a detach raced it:  *)
(* for any number of nodes, ports and handlers, and whatever fails.        *)
THEOREM AttachIsSound == Spec => []AttachSound
  BY Invariant, AttachInvSuffices, PTL

(* No map disappears but by a detach of its volume from its node: neither  *)
(* a stale host name nor an rmhost takes a volume from another pod.        *)
THEOREM MapsAreIsolated == Spec => Isolation
<1>1. ASSUME TypeInv, Inv, [Next]_vars, NEW m \in maps, m \notin maps'
      PROVE  \E p \in Procs :
               /\ pc[p] = "rmmap"
               /\ req[p].op = "detach"
               /\ req[p].vol = m[1]
               /\ req[p].node = NodeOf(m[2])
  <2>1. PICK p \in Procs : AnyStep(p)
    BY <1>1 DEF Next, AnyStep, Rest, vars
  <2>2. pc[p] = "rmmap" /\ m = <<req[p].vol, host[p]>>
    BY <1>1, <2>1, MapsEffect
  <2>3. req[p].op = "detach" /\ NodeOf(host[p]) = req[p].node
    BY <1>1, <2>2 DEF Inv, OpInv, HostInv, DetachLabels, UsesHost
  <2> QED
    BY <2>2, <2>3
<1>2. TypeInv /\ Inv /\ [Next]_vars =>
        [\A m \in maps : m \notin maps' =>
           \E p \in Procs :
             /\ pc[p] = "rmmap"
             /\ req[p].op = "detach"
             /\ req[p].vol = m[1]
             /\ req[p].node = NodeOf(m[2])]_vars
  BY <1>1
<1> QED
  BY <1>2, Invariant, PTL DEF Spec, Isolation

-----------------------------------------------------------------------------
(* Detach, on an array on which only the driver makes host objects and     *)
(* which answers every query it accepts.                                   *)

LEMMA DetachInvStep ==
  ASSUME TypeInv, Inv, DetachInv, AdminHosts = {}, BlankReplies = FALSE,
         NEW p \in Procs, AnyStep(p)
  PROVE  DetachInv'
<1> SUFFICES ASSUME NEW q \in Procs,
                    pc'[q] \in {"lsvols", "rmhost", "ok"}, req'[q].op = "detach", q \notin raced',
                    NEW h \in hosts', <<req'[q].vol, h>> \in maps', NodeOf(h) = req'[q].node
             PROVE  FALSE
  BY DEF DetachInv, MappedTo, NodeOf
<1> USE DEF Inv
<1>0. \A g \in HostNames : NodeOf(g) = g
  BY DEF HostNames, NodeOf
<1>1. CASE q # p
  <2>1. /\ pc[q] \in {"lsvols", "rmhost", "ok"} /\ req[q].op = "detach" /\ q \notin raced
        /\ req'[q] = req[q]
    BY <1>1, OtherHandlers
  <2>2. CASE <<req[q].vol, h>> \in maps
    <3>1. h \in hosts
      BY <2>2 DEF MapsInv
    <3> QED
      BY <2>1, <2>2, <3>1 DEF DetachInv, MappedTo
  <2>3. CASE <<req[q].vol, h>> \notin maps
    <3>1. /\ <<req[q].vol, h>> = <<req[p].vol, host[p]>>
          /\ raced' = raced \cup Overtaken(p, "detach")
      BY <2>1, <2>3, MapsEffect
    <3> QED
      BY <2>1, <3>1 DEF Overtaken
  <2> QED
    BY <2>2, <2>3
<1>2. CASE q = p
  <2> USE <1>2 DEF TypeInv, TypeOK
  <2>1. h \in HostNames /\ h = req'[p].node
    <3>1. ArrayTypeOK'
      BY StepType DEF AnyStep
    <3> QED
      BY <1>0, <3>1 DEF ArrayTypeOK, HostNames
  <2>2. CASE LsVdiskHostMap(p)
    <3>1. /\ pc[p] = "lsmap" /\ <<req[p].vol, host[p]>> \notin maps
          /\ UNCHANGED arrayVars /\ req' = req
      BY <2>2 DEF LsVdiskHostMap, Replies, LocalUnchanged, Goto
    <3>2. host[p] = req[p].node
      BY <1>0, <3>1 DEF HostInv, UsesHost
    <3> QED
      BY <2>1, <3>1, <3>2 DEF arrayVars
  <2>3. CASE RmVdiskHostMap(p)
    <3>1. /\ pc[p] = "rmmap" /\ RmMapApply(req[p].vol, host[p]) /\ req' = req
      BY <2>3 DEF RmVdiskHostMap, LocalUnchanged, Goto
    <3>2. host[p] = req[p].node
      BY <1>0, <3>1 DEF HostInv, UsesHost
    <3> QED
      BY <2>1, <3>1, <3>2 DEF RmMapApply
  <2>4. CASE LsHostVdiskMap(p) \/ DeleteHost(p)
    <3>1. /\ pc[p] \in {"lsvols", "rmhost"} /\ req' = req /\ raced' = raced
          /\ maps' \subseteq maps
      BY <2>4 DEF LsHostVdiskMap, DeleteHost, LocalUnchanged, arrayVars, RmHostApply
    <3>2. h \in hosts /\ <<req[p].vol, h>> \in maps
      BY <3>1 DEF MapsInv
    <3> QED
      BY <3>1, <3>2 DEF DetachInv, MappedTo
  <2>5. CASE LsHostByName(p)
    <3>1. /\ req' = req /\ UNCHANGED arrayVars
          /\ req[p].node \notin hosts
      BY <2>5 DEF LsHostByName, Replies, FoundHost, AfterFound, AfterNotFound, Goto
    <3> QED
      BY <2>1, <3>1 DEF arrayVars
  <2>6. CASE Call(p) \/ Retry(p)
    <3>1. ASSUME NEW r \in Request, Begin(p, r)  PROVE FALSE
      <4>1. pc'[p] = FirstLabel(r) /\ r.local \in BOOLEAN /\ Link \in {"fc", "iscsi"}
        BY <3>1, AttachAssumption DEF Begin, Goto, Request, AttachAssumption
      <4> QED
        BY <4>1 DEF FirstLabel
    <3> QED
      BY <2>6, <3>1 DEF Call, Retry
  <2>7. CASE Done(p) \/ Kill(p)
    BY <2>7 DEF Done, Kill, Goto
  <2>8. CASE LsFabric(p)
    <3>1. pc' = [pc EXCEPT ![p] = AfterFound(p)] \/ pc' = [pc EXCEPT ![p] = "byname"]
            \/ pc' = [pc EXCEPT ![p] = "lsfabric"]
      BY <2>8 DEF LsFabric, FoundHost, Goto
    <3> QED
      BY <3>1 DEF AfterFound
  <2>9. CASE LsHosts(p) \/ LsHost(p)
    BY <2>9 DEF LsHosts, LsHost, FoundHost, AfterFound, Goto
  <2>10. CASE GetVolumePreferSiteName(p) \/ MkHost(p) \/ AddHostPort(p) \/ UndoCreateHost(p)
    BY <2>10 DEF GetVolumePreferSiteName, MkHost, AddHostPort, AfterPorts, UndoCreateHost, Goto
  <2>11. CASE GetLunID(p) \/ MkVdiskHostMap(p) \/ GetLunIDAgain(p) \/ BuildConnProperty(p)
    BY <2>11 DEF GetLunID, MkVdiskHostMap, GetLunIDAgain, BuildConnProperty, LocalUnchanged, OpInv, AttachLabels
  <2> QED
    BY <2>2, <2>3, <2>4, <2>5, <2>6, <2>7, <2>8, <2>9, <2>10, <2>11 DEF AnyStep, Step
<1> QED
  BY <1>1, <1>2

(* A detach that is answered with success left no map of the volume to the *)
(* node, unless an attach raced it: for every number of nodes, ports and   *)
(* handlers and whatever fails, provided every host object is the driver's *)
(* and no query is answered with an empty output for an error.  Without    *)
(* either assumption the model violates it.                                *)
THEOREM DetachIsSound ==
  ASSUME AdminHosts = {}, BlankReplies = FALSE
  PROVE  Spec => []DetachSound
<1>1. Init => DetachInv
  BY DEF Init, DetachInv
<1>2. TypeInv /\ Inv /\ DetachInv /\ [Next]_vars => DetachInv'
  <2>1. Rest \/ UNCHANGED vars => UNCHANGED vars
    BY DEF Rest
  <2>2. DetachInv /\ UNCHANGED vars => DetachInv'
    BY DEF DetachInv, MappedTo, NodeOf, vars
  <2> QED
    BY <2>1, <2>2, DetachInvStep DEF Next, AnyStep
<1>3. DetachInv => DetachSound
  BY DEF DetachInv, DetachSound
<1> QED
  BY <1>1, <1>2, <1>3, Invariant, PTL DEF Spec
-----------------------------------------------------------------------------
(* InStorageAttach implements VolumeAccess, where only the driver makes    *)
(* host objects and the array answers every query it accepts.              *)


State ==
  [p \in Procs |-> CASE pc[p] = "idle" -> "idle"
                     [] pc[p] = "ok"   -> "answered"
                     [] Met(p)         -> "met"
                     [] OTHER          -> "pending"]

AskedOf == [p \in Procs |-> Asked(p)]

PromiseStep == [Promise!Next]_(Promise!vars)

(* The driver's host object of a node has the node's name, so a node has   *)
(* access to what is mapped under its name.                                *)
LEMMA AccessIsMaps ==
  ASSUME AdminHosts = {}, ArrayTypeOK, MapsInv
  PROVE  Access = maps
<1>1. HostNames = Nodes /\ \A h \in HostNames : NodeOf(h) = h
  BY DEF HostNames, NodeOf
<1>2. ASSUME NEW m \in maps
      PROVE  m \in Access
  <2>1. m \in Volumes \X Nodes /\ m = <<m[1], m[2]>> /\ m[2] \in hosts /\ NodeOf(m[2]) = m[2]
    BY <1>1 DEF ArrayTypeOK, MapsInv
  <2> QED
    BY <2>1 DEF Access, MappedTo
<1>3. ASSUME NEW m \in Access
      PROVE  m \in maps
  <2>1. m \in Volumes \X Nodes /\ m = <<m[1], m[2]>> /\ MappedTo(m[1], m[2])
    BY DEF Access
  <2>2. PICK h \in hosts : <<m[1], h>> \in maps /\ NodeOf(h) = m[2]
    BY <2>1 DEF MappedTo
  <2>3. h = m[2]
    BY <1>1, <2>2 DEF ArrayTypeOK
  <2> QED
    BY <2>1, <2>2, <2>3
<1> QED
  BY <1>2, <1>3

LEMMA AccessIsMapsNext ==
  ASSUME AdminHosts = {}, ArrayTypeOK', MapsInv'
  PROVE  Access' = maps'
<1>1. HostNames = Nodes /\ \A h \in HostNames : NodeOf(h) = h
  BY DEF HostNames, NodeOf
<1>2. ASSUME NEW m \in maps'
      PROVE  m \in Access'
  <2>1. m \in Volumes \X Nodes /\ m = <<m[1], m[2]>> /\ m[2] \in hosts' /\ NodeOf(m[2]) = m[2]
    BY <1>1 DEF ArrayTypeOK, MapsInv
  <2> QED
    BY <2>1 DEF Access, MappedTo, NodeOf
<1>3. ASSUME NEW m \in Access'
      PROVE  m \in maps'
  <2>1. m \in Volumes \X Nodes /\ m = <<m[1], m[2]>> /\ MappedTo(m[1], m[2])'
    BY DEF Access, MappedTo, NodeOf
  <2>2. PICK h \in hosts' : <<m[1], h>> \in maps' /\ NodeOf(h) = m[2]
    BY <2>1 DEF MappedTo, NodeOf
  <2>3. h = m[2]
    BY <1>1, <2>2 DEF ArrayTypeOK
  <2> QED
    BY <2>1, <2>2, <2>3
<1> QED
  BY <1>2, <1>3

LEMMA InitPromise == Init => Promise!Init
<1> SUFFICES ASSUME Init PROVE Promise!Init
  OBVIOUS
<1>1. Access = {}
  BY DEF Init, ArrayInit, Access, MappedTo
<1>2. AskedOf = [p \in Procs |-> Promise!NoRequest] /\ State = [p \in Procs |-> "idle"]
  <2>1. \A p \in Procs : pc[p] = "idle"
    BY DEF Init
  <2>2. Promise!NoRequest = NoRequest
    BY DEF Promise!NoRequest, NoRequest
  <2>3. State = [p \in Procs |-> "idle"]
    BY <2>1 DEF State, Met
  <2> QED
    BY <2>1, <2>2, <2>3 DEF AskedOf, Asked
<1> QED
  BY <1>1, <1>2 DEF Promise!Init, AskedOf, State

(* A handler's step serves its request: the map comes or goes as the       *)
(* request asks, and the request is met when it was or is so now.          *)
LEMMA ServeStep ==
  ASSUME NEW p \in Procs, NEW l, AdminHosts = {}, TypeInv, Inv, TypeInv', Inv',
         pc[p] \notin {"idle", "ok"}, l # "idle", pc' = [pc EXCEPT ![p] = l], req' = req,
         \/ maps' = maps
         \/ req[p].op = "attach" /\ maps' = maps \cup {<<req[p].vol, req[p].node>>}
         \/ req[p].op = "detach" /\ maps' = maps \ {<<req[p].vol, req[p].node>>},
         l \in {"lunAgain", "conn", "lsvols", "rmhost", "ok"} =>
           Met(p) \/ (req[p].op = "attach" <=> <<req[p].vol, req[p].node>> \in maps')
  PROVE  PromiseStep
<1>1. Access = maps /\ Access' = maps'
  BY AccessIsMaps, AccessIsMapsNext DEF TypeInv, TypeOK, Inv
<1>2. AskedOf' = AskedOf
      /\ AskedOf[p] = [op |-> req[p].op, vol |-> req[p].vol, node |-> req[p].node]
      /\ req[p].op \in {"attach", "detach"}
  BY AttachAssumption DEF AskedOf, Asked, TypeInv, TypeOK, Request, AttachAssumption
<1>3. /\ State[p] \in {"pending", "met"} /\ (Met(p) => State[p] = "met")
      /\ \E s \in {"pending", "met", "answered"} :
           /\ s # "pending" => l \in {"lunAgain", "conn", "lsvols", "rmhost", "ok"}
           /\ State' = [State EXCEPT ![p] = s]
  <2>1. State[p] \in {"pending", "met"} /\ (Met(p) => State[p] = "met")
    BY DEF State, Met
  <2>2. State' = [State EXCEPT ![p] = State'[p]]
    BY DEF State, Met, TypeInv, TypeOK
  <2>3. /\ State'[p] \in {"pending", "met", "answered"}
        /\ State'[p] # "pending" => l \in {"lunAgain", "conn", "lsvols", "rmhost", "ok"}
    BY DEF State, Met, TypeInv, TypeOK
  <2> QED
    BY <2>1, <2>2, <2>3
<1>4. /\ Access' \in {Access, Promise!Effect(AskedOf[p])}
      /\ l \in {"lunAgain", "conn", "lsvols", "rmhost", "ok"} =>
           State[p] = "met" \/ Promise!Holds(AskedOf[p], Access')
  BY <1>1, <1>2, <1>3 DEF Promise!Effect, Promise!Holds, Promise!Pair
<1>5. \E s \in {"pending", "met", "answered"} :
         /\ s # "pending" => State[p] = "met" \/ Promise!Holds(AskedOf[p], Access')
         /\ State' = [State EXCEPT ![p] = s]
  BY <1>3, <1>4
<1>6. Promise!Serve(p)
  BY <1>2, <1>3, <1>4, <1>5 DEF Promise!Serve, State, AskedOf
<1> QED
  BY <1>6 DEF PromiseStep, Promise!Next

(* A request arrives. *)
LEMMA AskStep ==
  ASSUME NEW p \in Procs, TypeInv, Call(p)
  PROVE  PromiseStep
<1>1. PICK r \in Request : pc[p] = "idle" /\ Begin(p, r)
  BY DEF Call
<1> DEFINE a == [op |-> r.op, vol |-> r.vol, node |-> r.node]
<1>2. /\ pc' = [pc EXCEPT ![p] = FirstLabel(r)] /\ req' = [req EXCEPT ![p] = r]
      /\ FirstLabel(r) \in {"byname", "lsfabric", "lshosts"}
      /\ Access' = Access
  <2>1. r.local \in BOOLEAN /\ Link \in {"fc", "iscsi"}
    BY AttachAssumption DEF Request, AttachAssumption
  <2>2. FirstLabel(r) \in {"byname", "lsfabric", "lshosts"}
    BY <2>1 DEF FirstLabel
  <2> QED
    BY <1>1, <2>2 DEF Begin, Goto, arrayVars, Access, MappedTo, NodeOf
<1>3. a \in Promise!Request
  BY AttachAssumption DEF AttachAssumption, Request, Promise!Request
<1>4. AskedOf' = [AskedOf EXCEPT ![p] = a]
  <2>1. \A q \in Procs : q # p => Asked(q)' = Asked(q)
    BY <1>2 DEF Asked, TypeInv, TypeOK
  <2>2. Asked(p)' = a
    BY <1>2 DEF Asked, TypeInv, TypeOK
  <2> QED
    BY <2>1, <2>2 DEF AskedOf
<1>5. State[p] = "idle" /\ State' = [State EXCEPT ![p] = "pending"]
  BY <1>1, <1>2 DEF State, Met, TypeInv, TypeOK
<1>6. Promise!Ask(p, a)
  BY <1>2, <1>4, <1>5 DEF Promise!Ask, State, AskedOf
<1> QED
  BY <1>3, <1>6 DEF PromiseStep, Promise!Next

(* An answered request is over. *)
LEMMA ForgetStep ==
  ASSUME NEW p \in Procs, TypeInv, Done(p)
  PROVE  PromiseStep
<1>1. /\ pc[p] = "ok" /\ pc' = [pc EXCEPT ![p] = "idle"] /\ req' = [req EXCEPT ![p] = NoRequest]
      /\ Access' = Access
  BY DEF Done, Goto, arrayVars, Access, MappedTo, NodeOf
<1>2. AskedOf' = [AskedOf EXCEPT ![p] = Promise!NoRequest]
  <2>1. \A q \in Procs : q # p => Asked(q)' = Asked(q)
    BY <1>1 DEF Asked, TypeInv, TypeOK
  <2>2. Asked(p)' = Promise!NoRequest
    BY <1>1 DEF Asked, TypeInv, TypeOK, NoRequest, Promise!NoRequest
  <2> QED
    BY <2>1, <2>2 DEF AskedOf
<1>3. State[p] = "answered" /\ State' = [State EXCEPT ![p] = "idle"]
  BY <1>1 DEF State, Met, TypeInv, TypeOK
<1>4. Promise!Forget(p)
  BY <1>1, <1>2, <1>3 DEF Promise!Forget, State, AskedOf
<1> QED
  BY <1>4 DEF PromiseStep, Promise!Next

(* A handler's step keeps the promise. *)
LEMMA HandlerPromise ==
  ASSUME NEW p \in Procs, AdminHosts = {}, BlankReplies = FALSE,
         TypeInv, Inv, TypeInv', Inv', AnyStep(p)
  PROVE  PromiseStep
<1> DEFINE Pair == <<req[p].vol, req[p].node>>
           MetLabels == {"lunAgain", "conn", "lsvols", "rmhost", "ok"}
<1>0. \A g \in HostNames : NodeOf(g) = g
  BY DEF HostNames, NodeOf
<1>h. pc[p] \in UsesHost => host[p] = req[p].node
  BY <1>0 DEF TypeInv, TypeOK, Inv, HostInv
<1>r. \A r \in Replies : r \in {"done", "error"}
  BY DEF Replies

(* A step that neither changes a map nor meets the request. *)
<1>1. ASSUME NEW l, pc' = [pc EXCEPT ![p] = l], req' = req, maps' = maps,
             pc[p] \notin {"idle", "ok"}, l # "idle", l \in MetLabels => Met(p)
      PROVE  PromiseStep
  BY <1>1, ServeStep
<1>2. CASE Call(p)
  BY <1>2, AskStep
<1>3. CASE Done(p)
  BY <1>3, ForgetStep
<1>4. CASE Kill(p)
  BY <1>1, <1>4 DEF Kill, Goto, arrayVars
<1>5. CASE Retry(p)
  <2>1. /\ pc[p] = "err" /\ req[p] \in Request
        /\ pc' = [pc EXCEPT ![p] = FirstLabel(req[p])] /\ req' = req /\ maps' = maps
    BY <1>5 DEF Retry, Begin, Goto, arrayVars, TypeInv, TypeOK
  <2>2. req[p].local \in BOOLEAN /\ Link \in {"fc", "iscsi"}
    BY <2>1, AttachAssumption DEF Request, AttachAssumption
  <2>3. FirstLabel(req[p]) \in {"byname", "lsfabric", "lshosts"}
    BY <2>2 DEF FirstLabel
  <2> QED
    BY <1>1, <2>1, <2>3
<1>6. CASE LsFabric(p) \/ LsHosts(p) \/ LsHost(p)
  <2>1. /\ pc[p] \in {"lsfabric", "lshosts", "lshost"} /\ req' = req /\ maps' = maps
        /\ \E l \in {"lun", "lsmap", "byname", "lsfabric", "err", "lshost"} :
             pc' = [pc EXCEPT ![p] = l]
    BY <1>6 DEF LsFabric, LsHosts, LsHost, FoundHost, AfterFound, Goto, arrayVars
  <2> QED
    BY <1>1, <2>1
<1>7. CASE LsHostByName(p)
  <2>1. pc[p] = "byname" /\ req' = req /\ maps' = maps /\ req[p] \in Request
    BY <1>7 DEF LsHostByName, arrayVars, TypeInv, TypeOK
  <2>2. CASE \E l \in {"err", "lun", "lsmap", "site"} : pc' = [pc EXCEPT ![p] = l]
    BY <1>1, <2>1, <2>2
  <2>3. CASE pc' = [pc EXCEPT ![p] = "ok"] /\ req[p].op # "attach" /\ req[p].node \notin hosts
    <3>1. Pair \notin maps
      BY <2>3 DEF Inv, MapsInv
    <3> QED
      BY <2>1, <2>3, <3>1, ServeStep
  <2> QED
    BY <1>7, <1>r, <2>2, <2>3 DEF LsHostByName, FoundHost, AfterFound, AfterNotFound, Goto
<1>8. CASE GetVolumePreferSiteName(p) \/ MkHost(p) \/ AddHostPort(p) \/ UndoCreateHost(p)
  <2>1. /\ pc[p] \in {"site", "mkhost", "addport", "undo"} /\ req' = req
        /\ \E l \in {"err", "mkhost", "lun", "addport", "undo"} : pc' = [pc EXCEPT ![p] = l]
    BY <1>8 DEF GetVolumePreferSiteName, MkHost, AddHostPort, UndoCreateHost, AfterPorts,
                LocalUnchanged, Goto
  <2>2. maps' = maps
    BY <2>1, MapsEffect
  <2> QED
    BY <1>1, <2>1, <2>2
<1>9. CASE GetLunID(p)
  <2>1. /\ pc[p] = "lun" /\ req' = req /\ maps' = maps /\ host[p] = req[p].node
        /\ req[p].op = "attach"
    BY <1>9, <1>h DEF GetLunID, LocalUnchanged, arrayVars, UsesHost, Inv, OpInv, AttachLabels
  <2>2. \/ pc' = [pc EXCEPT ![p] = "mkmap"]
        \/ pc' = [pc EXCEPT ![p] = "conn"] /\ Pair \in maps
    BY <1>9, <2>1 DEF GetLunID, Goto
  <2> QED
    BY <1>1, <2>1, <2>2, ServeStep
<1>10. CASE MkVdiskHostMap(p)
  <2>1. /\ pc[p] = "mkmap" /\ req' = req /\ host[p] = req[p].node /\ req[p].op = "attach"
    BY <1>10, <1>h DEF MkVdiskHostMap, LocalUnchanged, UsesHost, Inv, OpInv, AttachLabels
  <2>2. \/ pc' = [pc EXCEPT ![p] = "err"] /\ maps' = maps
        \/ /\ pc' = [pc EXCEPT ![p] = "lunAgain"] \/ pc' = [pc EXCEPT ![p] = "err"]
           /\ maps' = maps \cup {Pair}
    BY <1>10, <2>1 DEF MkVdiskHostMap, MkMapApply, Goto, arrayVars
  <2> QED
    BY <1>1, <2>1, <2>2, ServeStep
<1>11. CASE GetLunIDAgain(p) \/ BuildConnProperty(p)
  <2>1. /\ pc[p] \in {"lunAgain", "conn"} /\ req' = req /\ maps' = maps /\ Met(p)
        /\ \E l \in {"err", "conn", "ok"} : pc' = [pc EXCEPT ![p] = l]
    BY <1>11 DEF GetLunIDAgain, BuildConnProperty, LocalUnchanged, arrayVars, Goto, Met
  <2> QED
    BY <1>1, <2>1
<1>12. CASE LsVdiskHostMap(p)
  <2>1. /\ pc[p] = "lsmap" /\ req' = req /\ maps' = maps /\ host[p] = req[p].node
        /\ req[p].op = "detach"
    BY <1>12, <1>h DEF LsVdiskHostMap, LocalUnchanged, arrayVars, UsesHost, Inv, OpInv, DetachLabels
  <2>2. \/ pc' = [pc EXCEPT ![p] = "err"] \/ pc' = [pc EXCEPT ![p] = "rmmap"]
        \/ pc' = [pc EXCEPT ![p] = "lsvols"] /\ Pair \notin maps
    BY <1>12, <1>r, <2>1 DEF LsVdiskHostMap, Goto
  <2> QED
    BY <1>1, <2>1, <2>2, ServeStep
<1>13. CASE RmVdiskHostMap(p)
  <2>1. /\ pc[p] = "rmmap" /\ req' = req /\ host[p] = req[p].node /\ req[p].op = "detach"
    BY <1>13, <1>h DEF RmVdiskHostMap, LocalUnchanged, UsesHost, Inv, OpInv, DetachLabels
  <2>2. \/ pc' = [pc EXCEPT ![p] = "err"] /\ maps' = maps
        \/ /\ pc' = [pc EXCEPT ![p] = "lsvols"] \/ pc' = [pc EXCEPT ![p] = "err"]
           /\ maps' = maps \ {Pair}
    BY <1>13, <2>1 DEF RmVdiskHostMap, RmMapApply, Goto, arrayVars
  <2> QED
    BY <1>1, <2>1, <2>2, ServeStep
<1>14. CASE LsHostVdiskMap(p) \/ DeleteHost(p)
  <2>1. /\ pc[p] \in {"lsvols", "rmhost"} /\ req' = req /\ Met(p)
        /\ \E l \in {"err", "rmhost", "ok"} : pc' = [pc EXCEPT ![p] = l]
    BY <1>14 DEF LsHostVdiskMap, DeleteHost, LocalUnchanged, Goto, Met
  <2>2. maps' = maps
    BY <2>1, MapsEffect
  <2> QED
    BY <1>1, <2>1, <2>2
<1> QED
  BY <1>2, <1>3, <1>4, <1>5, <1>6, <1>7, <1>8, <1>9, <1>10, <1>11, <1>12, <1>13, <1>14
     DEF AnyStep, Step

(* For every number of nodes, ports, volumes and handlers and whatever     *)
(* fails, attaching and detaching implement VolumeAccess, provided every   *)
(* host object is the driver's and no query is answered with an empty      *)
(* output for an error (AttachVolume and DetachVolume of IStorageOperater).*)
THEOREM PromiseIsKept ==
  ASSUME AdminHosts = {}, BlankReplies = FALSE
  PROVE  Spec => KeepsPromise
<1>1. /\ TypeInv /\ Inv /\ [Next]_vars /\ TypeInv' /\ Inv'
      => [Promise!Next]_(Promise!vars)
  <2> SUFFICES ASSUME TypeInv, Inv, [Next]_vars, TypeInv', Inv' PROVE PromiseStep
    BY DEF PromiseStep
  <2>1. CASE Rest \/ UNCHANGED vars
    BY <2>1 DEF Rest, vars, PromiseStep, Promise!vars, Access, MappedTo, NodeOf, Asked, Met
  <2>2. ASSUME NEW p \in Procs, AnyStep(p)
        PROVE  PromiseStep
    BY <2>2, HandlerPromise
  <2> QED
    BY <2>1, <2>2 DEF Next, AnyStep
<1> QED
  BY <1>1, InitPromise, Invariant, PTL DEF Spec, KeepsPromise, Promise!Spec
-----------------------------------------------------------------------------
(* Without faults, host objects come and go with their volumes. *)

(* An attach makes a host object only when no other one has a port of its  *)
(* node: the search saw each of them, and nobody makes one meanwhile.      *)
ToMake == {"byname", "site", "mkhost", "addport", "undo"}
ClearOK(p) ==
  faults = 0 /\ pc[p] # "idle" /\ req[p].op = "attach" =>
    \A h \in hosts \cap AdminHosts : AdminNode[h] = req[p].node =>
      /\ pc[p] = "lsfabric" => \A w \in ports[h] : \E i \in 1..Len(todo[p]) : w = todo[p][i]
      /\ pc[p] = "lshost" => h \in cand[p]
      /\ pc[p] \notin ToMake

LinkOK(p) == pc[p] \in {"lshosts", "lshost"} => Link = "iscsi"

(* The ports a handler has still to add are the last ones of its node. *)
LastPorts(s, n) ==
  /\ Len(s) < Len(PortsOf[n])
  /\ \A j \in 1..Len(s) : s[j] = PortsOf[n][Len(PortsOf[n]) - Len(s) + j]
SuffixOK(p) == pc[p] = "addport" => LastPorts(todo[p], req[p].node)

(* Who adds the port after one that the host object has. *)
FirstOK(n) == n \in hosts => PortsOf[n][1] \in ports[n]
PortOK(n, i) ==
  /\ faults = 0 /\ n \in hosts
  /\ PortsOf[n][i] \in ports[n] /\ PortsOf[n][i + 1] \notin ports[n]
  => \E q \in Procs : pc[q] = "addport" /\ host[q] = n /\ Len(todo[q]) = Len(PortsOf[n]) - i

(* Who maps a volume to a host object that has none, or removes it. *)
HostKeepers == {"addport", "undo", "lun", "mkmap", "lsvols", "rmhost"}
Unused(n) == \A v \in Volumes : <<v, n>> \notin maps
UsedOK(n) ==
  faults = 0 /\ n \in hosts /\ Unused(n) => \E q \in Procs : pc[q] \in HostKeepers /\ host[q] = n

HostsInv ==
  /\ \A p \in Procs : ClearOK(p) /\ LinkOK(p) /\ SuffixOK(p)
  /\ \A n \in Nodes :
       /\ FirstOK(n) /\ UsedOK(n)
       /\ \A i \in 1..(Len(PortsOf[n]) - 1) : PortOK(n, i)

LEMMA InitHosts == Init => HostsInv
<1> SUFFICES ASSUME Init PROVE HostsInv
  OBVIOUS
<1>1. \A p \in Procs : pc[p] = "idle"
  BY DEF Init
<1>2. \A n \in Nodes : n \notin hosts
  BY ArrayAssumption DEF Init, ArrayInit, ArrayAssumption
<1> QED
  BY <1>1, <1>2 DEF HostsInv, ClearOK, LinkOK, SuffixOK, FirstOK, UsedOK, PortOK

(* A command that fails is counted, and nothing else is. *)
LEMMA SpendFacts ==
  ASSUME TypeInv, NEW p \in Procs, AnyStep(p), faults' = 0
  PROVE  faults = 0 /\ ~Kill(p)
<1>1. faults \in Nat
  BY AttachAssumption DEF AttachAssumption, TypeInv, TypeOK
<1>2. ~Kill(p)
  BY <1>1 DEF Kill
<1>3. CASE Call(p) \/ Retry(p) \/ Done(p)
  BY <1>2, <1>3 DEF Call, Retry, Done, Begin
<1>4. CASE Step(p)
  <2>1. \E o : Spend(o)
    BY <1>4 DEF Step, LsFabric, LsHosts, LsHost, LsHostByName, GetVolumePreferSiteName, MkHost,
         AddHostPort, UndoCreateHost, GetLunID, MkVdiskHostMap, GetLunIDAgain, BuildConnProperty,
         LsVdiskHostMap, RmVdiskHostMap, LsHostVdiskMap, DeleteHost, QuerySpend, Spend
  <2> QED
    BY <1>1, <1>2, <2>1 DEF Spend
<1> QED
  BY <1>2, <1>3, <1>4 DEF AnyStep

LEMMA NoFault ==
  ASSUME TypeInv, faults' = 0, NEW o, Spend(o) \/ QuerySpend(o)
  PROVE  o = "done"
<1>1. faults \in Nat
  BY AttachAssumption DEF AttachAssumption, TypeInv, TypeOK
<1> QED
  BY <1>1 DEF Spend, QuerySpend

(* The request of a handler at work. *)
LEMMA AtWork ==
  ASSUME TypeInv, NEW p \in Procs, pc[p] # "idle"
  PROVE  /\ req[p] \in Request /\ req[p].node \in Nodes /\ req[p].vol \in Volumes
         /\ req[p].op \in {"attach", "detach"}
         /\ req[p].op = "attach" => req[p].local
         /\ NodeOf(req[p].node) = req[p].node
  BY AttachAssumption DEF AttachAssumption, TypeInv, TypeOK, Request, NodeOf

(* Nobody makes a host object but those of nodes, and nobody gives one of  *)
(* an administrator a port.                                                *)
LEMMA AdminEffect ==
  ASSUME TypeInv, Inv, NEW p \in Procs, AnyStep(p), NEW h \in AdminHosts, h \in hosts'
  PROVE  h \in hosts /\ ports'[h] = ports[h]
<1>0. h \notin Nodes /\ h \in HostNames
  BY ArrayAssumption DEF ArrayAssumption, HostNames
<1>1. CASE UNCHANGED arrayVars
  BY <1>1 DEF arrayVars
<1>2. CASE pc[p] = "mkhost" /\ MkHostApply(req[p].node, PortsOf[req[p].node][1])
  BY <1>0, <1>2, AtWork DEF MkHostApply, TypeInv, TypeOK, ArrayTypeOK
<1>3. CASE pc[p] = "addport" /\ AddHostPortApply(host[p], Head(todo[p]))
  <2>1. host[p] \in Nodes
    BY <1>3, AtWork DEF Inv, HostInv
  <2> QED
    BY <1>0, <1>3, <2>1 DEF AddHostPortApply, TypeInv, TypeOK, ArrayTypeOK
<1>4. CASE RmHostApply(host[p])
  BY <1>0, <1>4 DEF RmHostApply, TypeInv, TypeOK, ArrayTypeOK
<1>5. CASE MkMapApply(req[p].vol, host[p]) \/ RmMapApply(req[p].vol, host[p])
  BY <1>5 DEF MkMapApply, RmMapApply
<1> QED
  BY <1>1, <1>2, <1>3, <1>4, <1>5, ArrayEffect

(* What a command does to the host object of a node. *)
LEMMA HostEffect ==
  ASSUME TypeInv, Inv, NEW p \in Procs, AnyStep(p), NEW n \in Nodes, n \in hosts'
  PROVE  \/ n \in hosts /\ ports'[n] = ports[n]
         \/ /\ n \in hosts /\ pc[p] = "addport" /\ host[p] = n
            /\ ports'[n] = ports[n] \cup {Head(todo[p])}
         \/ n \notin hosts /\ pc[p] = "mkhost" /\ req[p].node = n /\ ports'[n] = {PortsOf[n][1]}
<1>0. n \in HostNames
  BY DEF HostNames
<1>1. CASE UNCHANGED arrayVars
  BY <1>1 DEF arrayVars
<1>2. CASE MkHost(p)
  <2>1. req[p].node \in HostNames
    BY <1>2, AtWork DEF HostNames, MkHost
  <2> QED
    BY <1>0, <1>2, <2>1 DEF MkHost, MkHostAccepted, MkHostApply, arrayVars, TypeInv, TypeOK, ArrayTypeOK
<1>3. CASE pc[p] = "addport" /\ AddHostPortApply(host[p], Head(todo[p]))
  BY <1>0, <1>3 DEF AddHostPortApply, TypeInv, TypeOK, ArrayTypeOK
<1>4. CASE RmHostApply(host[p])
  BY <1>0, <1>4 DEF RmHostApply, TypeInv, TypeOK, ArrayTypeOK
<1>5. CASE MkMapApply(req[p].vol, host[p]) \/ RmMapApply(req[p].vol, host[p])
  BY <1>5 DEF MkMapApply, RmMapApply
<1>6. pc[p] = "mkhost" => MkHost(p) \/ UNCHANGED arrayVars
  BY DEF AnyStep, Step, Call, Retry, Done, Kill, LsFabric, LsHosts, LsHost, LsHostByName,
         GetVolumePreferSiteName, AddHostPort, UndoCreateHost, GetLunID, MkVdiskHostMap,
         GetLunIDAgain, BuildConnProperty, LsVdiskHostMap, RmVdiskHostMap, LsHostVdiskMap,
         DeleteHost
<1> QED
  BY <1>1, <1>2, <1>3, <1>4, <1>5, <1>6, ArrayEffect

(* A host object without a volume has somebody who maps one or removes it. *)
LEMMA UsedStep ==
  ASSUME TypeInv, Inv, HostsInv, NEW p \in Procs, AnyStep(p), NEW n \in Nodes
  PROVE  UsedOK(n)'
<1> SUFFICES ASSUME faults' = 0, n \in hosts', Unused(n)'
             PROVE  \E q \in Procs : pc'[q] \in HostKeepers /\ host'[q] = n
  BY DEF UsedOK
<1>0. TypeOK /\ faults = 0
  BY SpendFacts DEF TypeInv
<1>1. CASE n \notin hosts
  <2>1. pc[p] = "mkhost" /\ req[p].node = n
    BY <1>1, HostEffect
  <2>2. MkHost(p)
    BY <2>1, SpendFacts DEF AnyStep, Step, Call, Retry, Done, LsFabric, LsHosts, LsHost,
         LsHostByName, GetVolumePreferSiteName, AddHostPort, UndoCreateHost, GetLunID,
         MkVdiskHostMap, GetLunIDAgain, BuildConnProperty, LsVdiskHostMap, RmVdiskHostMap,
         LsHostVdiskMap, DeleteHost
  <2>3. PICK o \in Outcomes :
          LET applied == o # "unsent" /\ MkHostAccepted(n, PortsOf[n][1])
          IN /\ Spend(o)
             /\ IF applied THEN MkHostApply(n, PortsOf[n][1]) ELSE UNCHANGED arrayVars
             /\ IF applied /\ o = "done"
                  THEN /\ host' = [host EXCEPT ![p] = n]
                       /\ Goto(p, AfterPorts(Tail(PortsOf[n])))
                  ELSE TRUE
    BY <2>1, <2>2 DEF MkHost
  <2>4. o = "done" /\ MkHostAccepted(n, PortsOf[n][1])
    BY <1>1, <2>3, NoFault DEF arrayVars
  <2>5. host'[p] = n /\ pc'[p] \in {"lun", "addport"}
    BY <1>0, <2>3, <2>4 DEF Goto, AfterPorts, TypeOK
  <2> QED
    BY <2>5 DEF HostKeepers
<1>2. CASE n \in hosts /\ ~Unused(n)
  <2>1. PICK v \in Volumes : <<v, n>> \in maps /\ <<v, n>> \notin maps'
    BY <1>2 DEF Unused
  <2>2. pc[p] = "rmmap" /\ <<v, n>> = <<req[p].vol, host[p]>>
    BY <2>1, MapsEffect
  <2>3. host[p] = n /\ req[p].vol = v
    BY <2>2
  <2>4. RmVdiskHostMap(p)
    BY <2>1, <2>2 DEF AnyStep, Step, Call, Retry, Done, Kill, LsFabric, LsHosts, LsHost,
         LsHostByName, GetVolumePreferSiteName, MkHost, AddHostPort, UndoCreateHost, GetLunID,
         MkVdiskHostMap, GetLunIDAgain, BuildConnProperty, LsVdiskHostMap, LsHostVdiskMap,
         DeleteHost, Begin, arrayVars
  <2>5. PICK o \in Outcomes :
          LET applied == o # "unsent" /\ RmMapAccepted(v, n)
          IN /\ Spend(o)
             /\ Goto(p, IF applied /\ o = "done" THEN "lsvols" ELSE "err")
    BY <2>3, <2>4 DEF RmVdiskHostMap
  <2>6. o = "done" /\ RmMapAccepted(v, n)
    BY <2>1, <2>5, NoFault DEF RmMapAccepted
  <2>7. pc'[p] = "lsvols" /\ host'[p] = n
    BY <1>0, <2>3, <2>4, <2>5, <2>6 DEF Goto, TypeOK, RmVdiskHostMap
  <2> QED
    BY <2>7 DEF HostKeepers
<1>3. CASE n \in hosts /\ Unused(n)
  <2>1. PICK q \in Procs : pc[q] \in HostKeepers /\ host[q] = n
    BY <1>0, <1>3 DEF HostsInv, UsedOK
  <2>2. CASE q # p
    BY <2>1, <2>2, OtherHandlers
  <2>3. CASE q = p
    <3>1. pc[p] \in HostKeepers /\ host[p] = n /\ req[p].vol \in Volumes
      BY <2>1, <2>3, AtWork DEF HostKeepers
    <3>2. RmHostAccepted(n) /\ <<req[p].vol, n>> \notin maps
      BY <1>3, <3>1 DEF RmHostAccepted, Unused
    <3>3. CASE AddHostPort(p)
      <4>1. pc'[p] \in {"lun", "addport", "undo"} /\ host' = host
        BY <1>0, <3>3 DEF AddHostPort, AfterPorts, Goto, TypeOK
      <4> QED
        BY <3>1, <4>1 DEF HostKeepers
    <3>4. CASE UndoCreateHost(p)
      <4>1. PICK o \in Outcomes :
              /\ Spend(o)
              /\ IF o # "unsent" /\ RmHostAccepted(n) THEN RmHostApply(n) ELSE UNCHANGED arrayVars
        BY <3>1, <3>4 DEF UndoCreateHost
      <4>2. RmHostApply(n)
        BY <3>2, <4>1, NoFault
      <4> QED
        BY <4>2 DEF RmHostApply
    <3>5. CASE GetLunID(p)
      <4>1. pc'[p] = "mkmap" /\ host' = host
        BY <1>0, <3>1, <3>2, <3>5 DEF GetLunID, Goto, TypeOK
      <4> QED
        BY <3>1, <4>1 DEF HostKeepers
    <3>6. CASE MkVdiskHostMap(p)
      <4>1. MkMapAccepted(req[p].vol, n)
        BY <1>3, <3>2 DEF MkMapAccepted
      <4>2. PICK o \in Outcomes :
              LET applied == o # "unsent" /\ MkMapAccepted(req[p].vol, n)
              IN Spend(o) /\ (applied => MkMapApply(req[p].vol, n))
        BY <3>1, <3>6 DEF MkVdiskHostMap
      <4>3. MkMapApply(req[p].vol, n)
        BY <4>1, <4>2, NoFault
      <4> QED
        BY <3>1, <4>3 DEF MkMapApply, Unused
    <3>7. CASE LsHostVdiskMap(p)
      <4>1. PICK r \in Replies :
              LET vols == IF r = "done" THEN {v \in Volumes : <<v, n>> \in maps} ELSE {}
              IN QuerySpend(r) /\ Goto(p, IF r = "error" \/ vols # {} THEN "ok" ELSE "rmhost")
        BY <3>1, <3>7 DEF LsHostVdiskMap
      <4>2. r = "done" /\ {v \in Volumes : <<v, n>> \in maps} = {}
        BY <1>3, <4>1, NoFault DEF Unused
      <4>3. pc'[p] = "rmhost" /\ host' = host
        BY <1>0, <3>7, <4>1, <4>2 DEF LsHostVdiskMap, Goto, TypeOK
      <4> QED
        BY <3>1, <4>3 DEF HostKeepers
    <3>8. CASE DeleteHost(p)
      <4>1. PICK o \in Outcomes :
              LET applied == o # "unsent" /\ RmHostAccepted(n)
              IN Spend(o) /\ (applied => RmHostApply(n))
        BY <3>1, <3>8 DEF DeleteHost
      <4>2. RmHostApply(n)
        BY <3>2, <4>1, NoFault
      <4> QED
        BY <4>2 DEF RmHostApply
    <3>9. \/ AddHostPort(p) \/ UndoCreateHost(p) \/ GetLunID(p) \/ MkVdiskHostMap(p)
          \/ LsHostVdiskMap(p) \/ DeleteHost(p)
      BY <3>1, SpendFacts DEF HostKeepers, AnyStep, Step, Call, Retry, Done, LsFabric, LsHosts,
           LsHost, LsHostByName, GetVolumePreferSiteName, MkHost, GetLunIDAgain,
           BuildConnProperty, LsVdiskHostMap, RmVdiskHostMap
    <3> QED
      BY <3>3, <3>4, <3>5, <3>6, <3>7, <3>8, <3>9
  <2> QED
    BY <2>2, <2>3
<1> QED
  BY <1>1, <1>2, <1>3

(* Adding ports in their order, one after the other. *)
LEMMA TailOfPorts ==
  ASSUME NEW n \in Nodes
  PROVE  /\ Tail(PortsOf[n]) \in Seq(Ports) /\ Len(Tail(PortsOf[n])) = Len(PortsOf[n]) - 1
         /\ LastPorts(Tail(PortsOf[n]), n)
         /\ Len(PortsOf[n]) \in Nat \ {0}
<1>1. PortsOf[n] \in Seq(Ports) /\ PortsOf[n] # <<>>
  BY PortsOfType
<1>2. /\ Tail(PortsOf[n]) \in Seq(Ports) /\ Len(Tail(PortsOf[n])) = Len(PortsOf[n]) - 1
      /\ \A i \in 1..Len(Tail(PortsOf[n])) : Tail(PortsOf[n])[i] = PortsOf[n][i + 1]
      /\ Len(PortsOf[n]) \in Nat \ {0}
  BY <1>1, HeadTailProperties, LenProperties, EmptySeq
<1>3. \A L, M \in Nat : M = L - 1 => M < L /\ \A i \in 1..M : L - M + i = i + 1
  OBVIOUS
<1>4. Len(Tail(PortsOf[n])) \in Nat /\ Len(PortsOf[n]) \in Nat
  BY <1>2, LenProperties
<1>5. /\ Len(Tail(PortsOf[n])) < Len(PortsOf[n])
      /\ \A i \in 1..Len(Tail(PortsOf[n])) : Len(PortsOf[n]) - Len(Tail(PortsOf[n])) + i = i + 1
  BY <1>2, <1>3, <1>4, Zenon
<1> QED
  BY <1>2, <1>5, Zenon DEF LastPorts

LEMMA LastPortsTail ==
  ASSUME NEW n \in Nodes, NEW s \in Seq(Ports), s # <<>>, LastPorts(s, n)
  PROVE  /\ Tail(s) \in Seq(Ports) /\ Len(Tail(s)) = Len(s) - 1 /\ LastPorts(Tail(s), n)
         /\ Len(s) \in 1..(Len(PortsOf[n]) - 1)
         /\ Head(s) = PortsOf[n][Len(PortsOf[n]) - Len(s) + 1]
<1>1. PortsOf[n] \in Seq(Ports) /\ Len(PortsOf[n]) \in Nat /\ Len(s) \in Nat \ {0}
  BY PortsOfType, LenProperties, EmptySeq
<1>2. /\ Tail(s) \in Seq(Ports) /\ Len(Tail(s)) = Len(s) - 1 /\ Head(s) = s[1]
      /\ \A i \in 1..Len(Tail(s)) : Tail(s)[i] = s[i + 1]
  BY HeadTailProperties
<1>3. Len(s) < Len(PortsOf[n]) /\ \A j \in 1..Len(s) : s[j] = PortsOf[n][Len(PortsOf[n]) - Len(s) + j]
  BY DEF LastPorts
<1>4. ASSUME NEW i \in 1..Len(Tail(s))
      PROVE  Tail(s)[i] = PortsOf[n][Len(PortsOf[n]) - Len(Tail(s)) + i]
  <2>0. \A K, L, M \in Nat : M = L - 1 /\ i \in 1..M => i + 1 \in 1..L /\ K - M + i = K - L + (i + 1)
    OBVIOUS
  <2>1. i + 1 \in 1..Len(s) /\ Len(PortsOf[n]) - Len(Tail(s)) + i = Len(PortsOf[n]) - Len(s) + (i + 1)
    <3>1. Len(Tail(s)) \in Nat /\ Len(s) \in Nat
      BY <1>1, <1>2, LenProperties
    <3> QED
      BY <1>1, <1>2, <2>0, <3>1, Zenon
  <2> QED
    BY <1>2, <1>3, <2>1
<1>5. LastPorts(Tail(s), n)
  BY <1>1, <1>2, <1>3, <1>4 DEF LastPorts
<1>6. 1 \in 1..Len(s) /\ Len(s) \in 1..(Len(PortsOf[n]) - 1)
  BY <1>1, <1>3
<1> QED
  BY <1>2, <1>3, <1>5, <1>6

(* A step of mkhost or addhostport without a fault. *)
LEMMA PortCommands ==
  ASSUME TypeInv, Inv, NEW p \in Procs, AnyStep(p), faults' = 0
  PROVE  /\ pc[p] = "mkhost" => MkHost(p)
         /\ pc[p] = "addport" => AddHostPort(p)
  BY SpendFacts DEF AnyStep, Step, Call, Retry, Done, LsFabric, LsHosts, LsHost, LsHostByName,
       GetVolumePreferSiteName, MkHost, AddHostPort, UndoCreateHost, GetLunID, MkVdiskHostMap,
       GetLunIDAgain, BuildConnProperty, LsVdiskHostMap, RmVdiskHostMap, LsHostVdiskMap, DeleteHost

LEMMA SuffixStep ==
  ASSUME TypeInv, Inv, HostsInv, NEW p \in Procs, AnyStep(p), NEW q \in Procs
  PROVE  SuffixOK(q)'
<1> SUFFICES ASSUME pc'[q] = "addport" PROVE LastPorts(todo'[q], req'[q].node)
  BY DEF SuffixOK, LastPorts
<1>0. TypeOK /\ SuffixOK(p) /\ SuffixOK(q)
  BY DEF TypeInv, HostsInv
<1>1. CASE q # p
  BY <1>0, <1>1, OtherHandlers DEF SuffixOK
<1>2. CASE q = p
  <2>1. MkHost(p) \/ AddHostPort(p)
    <3>1. \A r \in Request : FirstLabel(r) # "addport"
      BY AttachAssumption DEF FirstLabel, Request, AttachAssumption
    <3>2. ~Call(p) /\ ~Retry(p) /\ ~Done(p) /\ ~Kill(p)
      BY <1>0, <1>2, <3>1, AtWork DEF Call, Retry, Done, Kill, Begin, Goto, TypeOK
    <3>3. ~ (LsFabric(p) \/ LsHosts(p) \/ LsHost(p) \/ LsHostByName(p))
      BY <1>0, <1>2 DEF LsFabric, LsHosts, LsHost, LsHostByName, FoundHost, AfterFound, AfterNotFound,
           Goto, TypeOK
    <3>4. ~ (\/ GetVolumePreferSiteName(p) \/ UndoCreateHost(p) \/ GetLunID(p) \/ MkVdiskHostMap(p)
             \/ GetLunIDAgain(p) \/ BuildConnProperty(p) \/ LsVdiskHostMap(p) \/ RmVdiskHostMap(p)
             \/ LsHostVdiskMap(p) \/ DeleteHost(p))
      BY <1>0, <1>2 DEF GetVolumePreferSiteName, UndoCreateHost, GetLunID, MkVdiskHostMap, GetLunIDAgain,
           BuildConnProperty, LsVdiskHostMap, RmVdiskHostMap, LsHostVdiskMap, DeleteHost, Goto, TypeOK
    <3> QED
      BY <3>2, <3>3, <3>4 DEF AnyStep, Step
  <2>2. CASE MkHost(p)
    <3>1. todo'[p] = Tail(PortsOf[req[p].node]) /\ req' = req /\ req[p].node \in Nodes
      BY <1>0, <1>2, <2>2, AtWork DEF MkHost, Goto, TypeOK
    <3> QED
      BY <1>2, <3>1, TailOfPorts
  <2>3. CASE AddHostPort(p)
    <3>1. todo'[p] = Tail(todo[p]) /\ req' = req /\ pc[p] = "addport"
      BY <1>0, <1>2, <2>3 DEF AddHostPort, Goto, TypeOK
    <3>2. /\ req[p].node \in Nodes /\ todo[p] \in Seq(Ports) /\ todo[p] # <<>>
          /\ LastPorts(todo[p], req[p].node)
      BY <1>0, <3>1, AtWork DEF TypeInv, TodoOK, TypeOK, SuffixOK
    <3> QED
      BY <1>2, <3>1, <3>2, LastPortsTail
  <2> QED
    BY <2>1, <2>2, <2>3
<1> QED
  BY <1>1, <1>2

LEMMA FirstStep ==
  ASSUME TypeInv, Inv, HostsInv, NEW p \in Procs, AnyStep(p), NEW n \in Nodes
  PROVE  FirstOK(n)'
  BY HostEffect DEF HostsInv, FirstOK

(* The next port of a handler is on no other host object. *)
LEMMA NextPortFree ==
  ASSUME TypeInv, Inv, HostsInv, NEW p \in Procs, pc[p] = "addport", faults = 0,
         host[p] \in hosts, Head(todo[p]) \notin ports[host[p]]
  PROVE  AddHostPortAccepted(host[p], Head(todo[p]))
<1> DEFINE n == req[p].node
           w == Head(todo[p])
<1>1. host[p] = n /\ n \in Nodes /\ req[p].op = "attach"
  BY AtWork DEF Inv, HostInv, OpInv, AttachLabels
<1>2. w \in PortSet(n)
  <2>1. todo[p] \in Seq(Ports) /\ todo[p] # <<>>
    BY DEF TypeInv, TypeOK, TodoOK
  <2> QED
    BY <2>1 DEF Inv, TodoInv
<1>3. ASSUME NEW h \in hosts, w \in ports[h] PROVE FALSE
  <2>1. h \in HostNames /\ w \in PortSet(NodeOf(h))
    BY <1>3 DEF TypeInv, TypeOK, ArrayTypeOK, Inv, PortsInv
  <2>2. NodeOf(h) \in Nodes
    BY <2>1, ArrayAssumption DEF NodeOf, HostNames, ArrayAssumption
  <2>3. NodeOf(h) = n
    BY <1>1, <1>2, <2>1, <2>2, ArrayAssumption DEF ArrayAssumption
  <2>4. CASE h \in Nodes
    BY <1>1, <1>3, <2>3, <2>4 DEF NodeOf
  <2>5. CASE h \notin Nodes
    <3>1. h \in AdminHosts /\ AdminNode[h] = n
      BY <2>1, <2>3, <2>5 DEF NodeOf, HostNames
    <3> QED
      BY <1>1, <1>3, <3>1 DEF HostsInv, ClearOK, ToMake
  <2> QED
    BY <2>4, <2>5
<1> QED
  BY <1>3 DEF AddHostPortAccepted, HostsWithPort

(* Whoever added a port adds the next one. *)
LEMMA PortStep ==
  ASSUME TypeInv, Inv, HostsInv, NEW p \in Procs, AnyStep(p), NEW n \in Nodes,
         NEW i \in 1..(Len(PortsOf[n]) - 1)
  PROVE  PortOK(n, i)'
<1> DEFINE w == PortsOf[n][i]
           x == PortsOf[n][i + 1]
<1> SUFFICES ASSUME faults' = 0, n \in hosts', w \in ports'[n], x \notin ports'[n]
             PROVE  \E q \in Procs : /\ pc'[q] = "addport" /\ host'[q] = n
                                     /\ Len(todo'[q]) = Len(PortsOf[n]) - i
  BY DEF PortOK
<1>0. /\ TypeOK /\ faults = 0 /\ PortOK(n, i) /\ Len(PortsOf[n]) \in Nat \ {0}
      /\ i \in 1..Len(PortsOf[n]) /\ i + 1 \in 1..Len(PortsOf[n])
  BY SpendFacts, TailOfPorts DEF TypeInv, HostsInv
<1>1. \A j, k \in 1..Len(PortsOf[n]) : PortsOf[n][j] = PortsOf[n][k] => j = k
  BY ArrayAssumption DEF ArrayAssumption
<1>2. CASE n \notin hosts
  <2>1. pc[p] = "mkhost" /\ req[p].node = n /\ ports'[n] = {PortsOf[n][1]}
    BY <1>2, HostEffect
  <2>2. i = 1 /\ 1 \in 1..Len(PortsOf[n])
    BY <1>0, <1>1, <2>1
  <2>3. PICK o \in Outcomes :
          LET applied == o # "unsent" /\ MkHostAccepted(n, PortsOf[n][1])
          IN /\ Spend(o)
             /\ IF applied THEN MkHostApply(n, PortsOf[n][1]) ELSE UNCHANGED arrayVars
             /\ IF applied /\ o = "done"
                  THEN /\ host' = [host EXCEPT ![p] = n]
                       /\ todo' = [todo EXCEPT ![p] = Tail(PortsOf[n])]
                       /\ Goto(p, AfterPorts(Tail(PortsOf[n])))
                  ELSE TRUE
    BY <2>1, PortCommands DEF MkHost
  <2>4. o = "done" /\ MkHostAccepted(n, PortsOf[n][1])
    BY <1>2, <2>3, NoFault DEF arrayVars
  <2>5. Len(Tail(PortsOf[n])) = Len(PortsOf[n]) - 1 /\ Tail(PortsOf[n]) # <<>>
    <3>1. Len(Tail(PortsOf[n])) = Len(PortsOf[n]) - 1
      BY TailOfPorts
    <3>2. Len(Tail(PortsOf[n])) # 0
      BY <1>0, <2>2, <3>1
    <3> QED
      BY <3>1, <3>2, EmptySeq
  <2>6. host'[p] = n /\ pc'[p] = "addport" /\ todo'[p] = Tail(PortsOf[n])
    BY <1>0, <2>3, <2>4, <2>5 DEF Goto, AfterPorts, TypeOK
  <2> QED
    BY <2>2, <2>5, <2>6
<1>3. CASE n \in hosts /\ w \in ports[n]
  <2>1. x \notin ports[n]
    BY <1>3, HostEffect
  <2>2. PICK q \in Procs : pc[q] = "addport" /\ host[q] = n /\ Len(todo[q]) = Len(PortsOf[n]) - i
    BY <1>0, <1>3, <2>1 DEF PortOK
  <2>3. CASE q # p
    BY <2>2, <2>3, OtherHandlers
  <2>4. CASE q = p
    <3>1. /\ req[p].node = n /\ todo[p] \in Seq(Ports) /\ todo[p] # <<>>
          /\ LastPorts(todo[p], n)
      BY <2>2, <2>4 DEF Inv, HostInv, TypeInv, TypeOK, TodoOK, HostsInv, SuffixOK
    <3>2. Head(todo[p]) = PortsOf[n][Len(PortsOf[n]) - Len(todo[p]) + 1]
      BY <3>1, LastPortsTail
    <3>3. Len(PortsOf[n]) - Len(todo[p]) + 1 = i + 1
      <4>1. \A K, M \in Nat : i \in Nat /\ M = K - i => K - M + 1 = i + 1
        OBVIOUS
      <4>2. Len(todo[p]) \in Nat /\ Len(PortsOf[n]) \in Nat /\ i \in Nat
        BY <1>0, <3>1, LenProperties
      <4> QED
        BY <2>2, <2>4, <4>1, <4>2, Zenon
    <3>4. Head(todo[p]) = x
      BY <3>2, <3>3
    <3>5. AddHostPortAccepted(n, x)
      BY <1>0, <1>3, <2>1, <2>2, <2>4, <3>4, NextPortFree
    <3>6. PICK o \in Outcomes :
            LET applied == o # "unsent" /\ AddHostPortAccepted(n, x)
            IN Spend(o) /\ (applied => AddHostPortApply(n, x))
      BY <2>2, <2>4, <3>4, PortCommands DEF AddHostPort
    <3>7. AddHostPortApply(n, x)
      BY <3>5, <3>6, NoFault
    <3>8. x \in ports'[n]
      BY <1>0, <3>7 DEF AddHostPortApply, TypeOK, ArrayTypeOK, HostNames
    <3> QED
      BY <3>8
  <2> QED
    BY <2>3, <2>4
<1>4. CASE n \in hosts /\ w \notin ports[n]
  <2>1. pc[p] = "addport" /\ host[p] = n /\ Head(todo[p]) = w
    BY <1>4, HostEffect
  <2>2. /\ req[p].node = n /\ todo[p] \in Seq(Ports) /\ todo[p] # <<>> /\ LastPorts(todo[p], n)
    BY <2>1 DEF Inv, HostInv, TypeInv, TypeOK, TodoOK, HostsInv, SuffixOK
  <2>3. /\ Len(Tail(todo[p])) = Len(todo[p]) - 1 /\ Len(todo[p]) \in 1..(Len(PortsOf[n]) - 1)
        /\ w = PortsOf[n][Len(PortsOf[n]) - Len(todo[p]) + 1]
    BY <2>1, <2>2, LastPortsTail
  <2>4. Len(PortsOf[n]) - Len(todo[p]) + 1 = i
    <3>1. Len(PortsOf[n]) - Len(todo[p]) + 1 \in 1..Len(PortsOf[n])
      <4>1. \A K \in Nat : \A M \in 1..(K - 1) : K - M + 1 \in 1..K
        OBVIOUS
      <4> QED
        BY <1>0, <2>3, <4>1, Zenon
    <3> QED
      BY <1>0, <1>1, <2>3, <3>1
  <2>5. Len(Tail(todo[p])) = Len(PortsOf[n]) - i /\ Tail(todo[p]) # <<>>
    <3>1. Len(Tail(todo[p])) = Len(PortsOf[n]) - i /\ Len(Tail(todo[p])) # 0
      <4>1. \A K \in Nat : \A M \in 1..(K - 1) :
              K - M + 1 = i => M - 1 = K - i /\ (i \in 1..(K - 1) => M - 1 # 0)
        OBVIOUS
      <4>2. Len(PortsOf[n]) \in Nat
        BY <1>0
      <4> QED
        BY <2>3, <2>4, <4>1, <4>2, Zenon
    <3> QED
      BY <3>1, EmptySeq
  <2>6. PICK o \in Outcomes :
          LET applied == o # "unsent" /\ AddHostPortAccepted(n, w)
          IN /\ Spend(o)
             /\ IF applied THEN AddHostPortApply(n, w) ELSE UNCHANGED arrayVars
             /\ IF applied /\ o = "done"
                  THEN /\ todo' = [todo EXCEPT ![p] = Tail(@)]
                       /\ Goto(p, AfterPorts(Tail(todo[p])))
                  ELSE TRUE
    BY <2>1, PortCommands DEF AddHostPort
  <2>7. o = "done" /\ AddHostPortAccepted(n, w)
    BY <1>4, <2>6, NoFault DEF arrayVars
  <2>8. pc'[p] = "addport" /\ todo'[p] = Tail(todo[p]) /\ host' = host
    <3>1. host' = host
      BY <2>1, PortCommands DEF AddHostPort
    <3> QED
      BY <1>0, <2>5, <2>6, <2>7, <3>1 DEF Goto, AfterPorts, TypeOK
  <2> QED
    BY <2>1, <2>5, <2>8
<1> QED
  BY <1>2, <1>3, <1>4

(* The label a handler starts its search at. *)
LEMMA SearchBegins ==
  ASSUME NEW r \in Request
  PROVE  /\ FirstLabel(r) \in {"byname", "lsfabric", "lshosts"}
         /\ FirstLabel(r) = "lshosts" => Link = "iscsi"
         /\ r.op = "attach" => FirstLabel(r) \in {"lsfabric", "lshosts"}
         /\ FirstLabel(r) # "addport"
  BY AttachAssumption DEF FirstLabel, Request, AttachAssumption

(* The labels a command other than those of the search leads to. *)
LEMMA SearchIsOver ==
  ASSUME TypeInv, NEW p \in Procs, Step(p), pc[p] \notin {"lsfabric", "lshosts", "lshost"}
  PROVE  /\ pc'[p] \notin {"lsfabric", "lshosts", "lshost", "byname"}
         /\ pc'[p] \in ToMake => pc[p] \in ToMake
         /\ req' = req /\ pc[p] # "idle"
<1> USE DEF TypeInv, TypeOK, ToMake
<1>1. CASE LsHostByName(p)
  BY <1>1 DEF LsHostByName, FoundHost, AfterFound, AfterNotFound, Goto
<1>2. CASE GetVolumePreferSiteName(p)
  BY <1>2 DEF GetVolumePreferSiteName, LocalUnchanged, Goto
<1>3. CASE MkHost(p)
  BY <1>3 DEF MkHost, AfterPorts, Goto
<1>4. CASE AddHostPort(p)
  BY <1>4 DEF AddHostPort, AfterPorts, Goto
<1>5. CASE UndoCreateHost(p) \/ GetLunID(p) \/ GetLunIDAgain(p) \/ BuildConnProperty(p)
  BY <1>5 DEF UndoCreateHost, GetLunID, GetLunIDAgain, BuildConnProperty, LocalUnchanged, Goto
<1>6. CASE MkVdiskHostMap(p) \/ RmVdiskHostMap(p)
  BY <1>6 DEF MkVdiskHostMap, RmVdiskHostMap, LocalUnchanged, Goto
<1>7. CASE LsVdiskHostMap(p) \/ LsHostVdiskMap(p) \/ DeleteHost(p)
  BY <1>7 DEF LsVdiskHostMap, LsHostVdiskMap, DeleteHost, LocalUnchanged, Goto
<1> QED
  BY <1>1, <1>2, <1>3, <1>4, <1>5, <1>6, <1>7 DEF Step, LsFabric, LsHosts, LsHost

LEMMA LinkStep ==
  ASSUME TypeInv, HostsInv, NEW p \in Procs, AnyStep(p), NEW q \in Procs
  PROVE  LinkOK(q)'
<1>0. TypeOK /\ LinkOK(q) /\ LinkOK(p)
  BY DEF TypeInv, HostsInv
<1>1. CASE q # p
  BY <1>0, <1>1, OtherHandlers DEF LinkOK
<1>2. CASE Call(p) \/ Retry(p)
  BY <1>0, <1>1, <1>2, SearchBegins, AtWork DEF Call, Retry, Begin, Goto, LinkOK, TypeOK
<1>3. CASE Done(p) \/ Kill(p)
  BY <1>0, <1>1, <1>3 DEF Done, Kill, Goto, LinkOK, TypeOK
<1>4. CASE LsFabric(p)
  BY <1>0, <1>1, <1>4 DEF LsFabric, FoundHost, AfterFound, Goto, LinkOK, TypeOK
<1>5. CASE LsHosts(p) \/ LsHost(p)
  BY <1>0, <1>1, <1>5 DEF LsHosts, LsHost, FoundHost, AfterFound, Goto, LinkOK, TypeOK
<1>6. CASE Step(p) /\ pc[p] \notin {"lsfabric", "lshosts", "lshost"}
  BY <1>1, <1>6, SearchIsOver DEF LinkOK
<1>7. Step(p) /\ pc[p] \in {"lsfabric", "lshosts", "lshost"} => LsFabric(p) \/ LsHosts(p) \/ LsHost(p)
  BY DEF Step, LsHostByName, GetVolumePreferSiteName, MkHost, AddHostPort, UndoCreateHost, GetLunID,
       MkVdiskHostMap, GetLunIDAgain, BuildConnProperty, LsVdiskHostMap, RmVdiskHostMap,
       LsHostVdiskMap, DeleteHost
<1> QED
  BY <1>1, <1>2, <1>3, <1>4, <1>5, <1>6, <1>7 DEF AnyStep

(* The ports of a host object that are none of those looked for so far are *)
(* among the others.                                                       *)
LEMMA PortsLeft ==
  ASSUME NEW s \in Seq(Ports), s # <<>>, NEW w, w # Head(s), \E i \in 1..Len(s) : w = s[i]
  PROVE  Len(s) # 1 /\ \E i \in 1..Len(Tail(s)) : w = Tail(s)[i]
<1>1. /\ Len(s) \in Nat \ {0} /\ Len(Tail(s)) = Len(s) - 1 /\ Head(s) = s[1]
      /\ \A i \in 1..Len(Tail(s)) : Tail(s)[i] = s[i + 1]
  BY HeadTailProperties, LenProperties, EmptySeq
<1>2. PICK i \in 1..Len(s) : w = s[i]
  OBVIOUS
<1>3. \A L \in Nat : i \in 1..L /\ i # 1 => L # 1 /\ i - 1 \in 1..(L - 1) /\ (i - 1) + 1 = i
  OBVIOUS
<1>4. Len(s) # 1 /\ i - 1 \in 1..Len(Tail(s)) /\ (i - 1) + 1 = i
  BY <1>1, <1>2, <1>3, Zenon
<1> QED
  BY <1>1, <1>2, <1>4

(* The search of an attach sees every host object of its node. *)
LEMMA ClearStep ==
  ASSUME TypeInv, Inv, HostsInv, NEW p \in Procs, AnyStep(p), NEW q \in Procs
  PROVE  ClearOK(q)'
<1> SUFFICES ASSUME faults' = 0, pc'[q] # "idle", req'[q].op = "attach",
                    NEW h \in AdminHosts, h \in hosts', AdminNode[h] = req'[q].node
             PROVE  /\ pc'[q] = "lsfabric" =>
                         \A w \in ports'[h] : \E i \in 1..Len(todo'[q]) : w = todo'[q][i]
                    /\ pc'[q] = "lshost" => h \in cand'[q]
                    /\ pc'[q] \notin ToMake
  BY DEF ClearOK, ToMake
<1>0. TypeOK /\ ClearOK(q) /\ LinkOK(q)
  BY DEF TypeInv, HostsInv
<1>1. faults = 0 /\ ~Kill(p) /\ h \in hosts /\ ports'[h] = ports[h]
  BY SpendFacts, AdminEffect
<1>2. h \in HostNames /\ NodeOf(h) = AdminNode[h]
  BY ArrayAssumption DEF ArrayAssumption, HostNames, NodeOf
<1>3. ports[h] \subseteq PortSet(AdminNode[h]) /\ ports[h] # {}
  BY <1>1, <1>2 DEF Inv, PortsInv
<1>4. CASE q # p
  <2>1. pc'[q] = pc[q] /\ req'[q] = req[q] /\ todo'[q] = todo[q] /\ cand'[q] = cand[q]
    BY <1>4, OtherHandlers
  <2> QED
    BY <1>0, <1>1, <2>1 DEF ClearOK
<1>5. CASE q = p /\ (Call(p) \/ Retry(p))
  <2>1. PICK r \in Request : Begin(p, r)
    BY <1>5, AtWork DEF Call, Retry
  <2>2. /\ req'[p] = r /\ pc'[p] = FirstLabel(r)
        /\ FirstLabel(r) = "lsfabric" => todo'[p] = PortsOf[r.node]
    BY <1>0, <2>1 DEF Begin, Goto, TypeOK
  <2>3. FirstLabel(r) \in {"lsfabric", "lshosts"}
    BY <1>5, <2>2, SearchBegins
  <2> QED
    BY <1>1, <1>3, <1>5, <2>2, <2>3 DEF PortSet, ToMake
<1>6. CASE q = p /\ Done(p)
  BY <1>0, <1>6 DEF Done, Goto, TypeOK
<1>7. CASE q = p /\ LsFabric(p)
  <2>1. PICK r \in Replies :
          LET w == Head(todo[p])
              rows == IF r = "done" THEN HostsWithPort(w) ELSE {}
          IN /\ QuerySpend(r)
             /\ \/ \E g \in rows : FoundHost(p, g)
                \/ /\ rows = {}
                   /\ Goto(p, IF Len(todo[p]) = 1 THEN "byname" ELSE "lsfabric")
    BY <1>7 DEF LsFabric
  <2>2. pc[p] = "lsfabric" /\ req' = req /\ todo'[p] = Tail(todo[p]) /\ r = "done"
    BY <1>0, <1>7, <2>1, NoFault DEF LsFabric, TypeOK
  <2>3. CASE \E g \in HostsWithPort(Head(todo[p])) : FoundHost(p, g)
    <3>1. pc'[p] = "lun"
      BY <1>0, <1>7, <2>2, <2>3 DEF FoundHost, AfterFound, Goto, TypeOK
    <3> QED
      BY <1>7, <3>1 DEF ToMake
  <2>4. CASE /\ HostsWithPort(Head(todo[p])) = {}
             /\ Goto(p, IF Len(todo[p]) = 1 THEN "byname" ELSE "lsfabric")
    <3>1. todo[p] \in Seq(Ports) /\ todo[p] # <<>>
      BY <2>2 DEF TypeInv, TypeOK, TodoOK
    <3>2. \A w \in ports[h] : w # Head(todo[p]) /\ \E i \in 1..Len(todo[p]) : w = todo[p][i]
      BY <1>0, <1>1, <1>7, <2>2, <2>4 DEF HostsWithPort, ClearOK
    <3>3. \A w \in ports[h] : Len(todo[p]) # 1 /\ \E i \in 1..Len(Tail(todo[p])) : w = Tail(todo[p])[i]
      BY <3>1, <3>2, PortsLeft
    <3>4. Len(todo[p]) # 1
      BY <1>3, <3>3
    <3>5. pc'[p] = "lsfabric"
      BY <1>0, <2>4, <3>4 DEF Goto, TypeOK
    <3> QED
      BY <1>1, <1>7, <2>2, <3>3, <3>5 DEF ToMake
  <2> QED
    BY <2>1, <2>2, <2>3, <2>4
<1>8. CASE q = p /\ LsHosts(p)
  <2>1. PICK r \in Replies :
          LET names == IF r = "done" THEN hosts ELSE {}
          IN /\ QuerySpend(r)
             /\ cand' = [cand EXCEPT ![p] = names]
             /\ Goto(p, IF r = "error" THEN "err"
                        ELSE IF names = {} THEN "byname" ELSE "lshost")
    BY <1>8 DEF LsHosts
  <2>2. r = "done"
    BY <2>1, NoFault
  <2>3. pc'[p] = "lshost" /\ cand'[p] = hosts
    BY <1>0, <1>1, <2>1, <2>2 DEF Goto, TypeOK
  <2> QED
    BY <1>1, <1>8, <2>3 DEF ToMake
<1>9. CASE q = p /\ LsHost(p)
  <2>1. PICK g \in cand[p], r \in Replies :
          LET match == r = "done" /\ g \in hosts /\ PortsOf[req[p].node][1] \in ports[g]
          IN /\ QuerySpend(r)
             /\ cand' = [cand EXCEPT ![p] = @ \ {g}]
             /\ \/ match /\ FoundHost(p, g)
                \/ /\ ~match
                   /\ Goto(p, IF cand[p] = {g} THEN "byname" ELSE "lshost")
    BY <1>9 DEF LsHost
  <2>2. pc[p] = "lshost" /\ req' = req /\ r = "done" /\ req[p].node \in Nodes
    BY <1>9, <2>1, NoFault, AtWork DEF LsHost
  <2>3. h \in cand[p] /\ Link = "iscsi"
    BY <1>0, <1>1, <1>9, <2>2 DEF ClearOK, LinkOK
  <2>4. PortsOf[req[p].node][1] \in ports[h]
    <3>1. PortSet(req[p].node) = {PortsOf[req[p].node][1]}
      BY <2>2, <2>3, AttachAssumption DEF AttachAssumption, PortSet
    <3> QED
      BY <1>3, <1>9, <2>2, <3>1
  <2>5. CASE g = h \/ FoundHost(p, g)
    <3>1. FoundHost(p, g)
      BY <1>1, <2>1, <2>2, <2>4, <2>5
    <3>2. pc'[p] = "lun"
      BY <1>0, <1>9, <2>2, <3>1 DEF FoundHost, AfterFound, Goto, TypeOK
    <3> QED
      BY <1>9, <3>2 DEF ToMake
  <2>6. CASE g # h /\ ~FoundHost(p, g)
    <3>1. cand'[p] = cand[p] \ {g} /\ Goto(p, IF cand[p] = {g} THEN "byname" ELSE "lshost")
      BY <1>0, <2>1, <2>6 DEF TypeOK
    <3>2. h \in cand'[p] /\ pc'[p] = "lshost"
      BY <1>0, <2>3, <2>6, <3>1 DEF Goto, TypeOK
    <3> QED
      BY <1>9, <3>2 DEF ToMake
  <2> QED
    BY <2>5, <2>6
<1>10. CASE q = p /\ Step(p) /\ pc[p] \notin {"lsfabric", "lshosts", "lshost"}
  <2>1. /\ pc'[p] \notin {"lsfabric", "lshost"} /\ (pc'[p] \in ToMake => pc[p] \in ToMake)
        /\ req' = req /\ pc[p] # "idle"
    BY <1>10, SearchIsOver
  <2>2. pc[p] \notin ToMake
    BY <1>0, <1>1, <1>10, <2>1 DEF ClearOK
  <2> QED
    BY <1>10, <2>1, <2>2
<1>11. Step(p) /\ pc[p] \in {"lsfabric", "lshosts", "lshost"} => LsFabric(p) \/ LsHosts(p) \/ LsHost(p)
  BY DEF Step, LsHostByName, GetVolumePreferSiteName, MkHost, AddHostPort, UndoCreateHost, GetLunID,
       MkVdiskHostMap, GetLunIDAgain, BuildConnProperty, LsVdiskHostMap, RmVdiskHostMap,
       LsHostVdiskMap, DeleteHost
<1> QED
  BY <1>1, <1>4, <1>5, <1>6, <1>7, <1>8, <1>9, <1>10, <1>11 DEF AnyStep

LEMMA HostsStep == TypeInv /\ Inv /\ HostsInv /\ [Next]_vars => HostsInv'
<1> SUFFICES ASSUME TypeInv, Inv, HostsInv, [Next]_vars PROVE HostsInv'
  OBVIOUS
<1>1. CASE UNCHANGED vars
  BY <1>1 DEF vars, HostsInv, ClearOK, LinkOK, SuffixOK, FirstOK, UsedOK, Unused, PortOK
<1>2. ASSUME NEW p \in Procs, AnyStep(p) PROVE HostsInv'
  <2>1. \A q \in Procs : ClearOK(q)' /\ LinkOK(q)' /\ SuffixOK(q)'
    BY <1>2, ClearStep, LinkStep, SuffixStep
  <2>2. \A n \in Nodes : FirstOK(n)' /\ UsedOK(n)'
    BY <1>2, FirstStep, UsedStep
  <2>3. \A n \in Nodes : \A i \in 1..(Len(PortsOf[n]) - 1) : PortOK(n, i)'
    BY <1>2, PortStep
  <2> QED
    BY <2>1, <2>2, <2>3 DEF HostsInv
<1> QED
  BY <1>1, <1>2 DEF Next, AnyStep, Rest

(* At rest nobody is there to add a port: the first one that is missing    *)
(* would follow one the host object has.                                   *)
LEMMA NoPortMissing ==
  ASSUME TypeInv, Inv, HostsInv, faults = 0, \A p \in Procs : pc[p] = "idle", NEW n \in Nodes, n \in hosts
  PROVE  ports[n] = PortSet(n)
<1>0. Len(PortsOf[n]) \in Nat \ {0}
  BY TailOfPorts
<1>1. ports[n] \subseteq PortSet(n)
  BY DEF Inv, PortsInv, NodeOf, HostNames
<1>2. IsWellFoundedOn(OpToRel(<, Nat), Nat)
  BY NatLessThanWellFounded, Zenon
<1>3. ASSUME NEW j \in 1..Len(PortsOf[n]), PortsOf[n][j] \notin ports[n] PROVE FALSE
  <2> DEFINE Missing == {i \in 1..Len(PortsOf[n]) : PortsOf[n][i] \notin ports[n]}
  <2>1. Missing \subseteq Nat /\ j \in Missing
    BY <1>0, <1>3
  <2> HIDE DEF Missing
  <2>2. PICK k \in Missing : \A l \in Missing : ~ (<<l, k>> \in OpToRel(<, Nat))
    BY <1>2, <2>1, WFMin
  <2>3. k \in 1..Len(PortsOf[n]) /\ PortsOf[n][k] \notin ports[n]
    BY DEF Missing
  <2>4. k # 1
    BY <2>3 DEF HostsInv, FirstOK
  <2>5. k - 1 \in 1..(Len(PortsOf[n]) - 1) /\ k - 1 \in 1..Len(PortsOf[n]) /\ (k - 1) + 1 = k
    BY <1>0, <2>3, <2>4
  <2>6. k - 1 \notin Missing
    <3>1. <<k - 1, k>> \in OpToRel(<, Nat)
      BY <2>5, <2>3 DEF OpToRel
    <3> QED
      BY <2>2, <3>1
  <2>7. PortsOf[n][k - 1] \in ports[n]
    BY <2>5, <2>6 DEF Missing
  <2>8. PortOK(n, k - 1)
    BY <2>5 DEF HostsInv
  <2> QED
    BY <2>3, <2>5, <2>7, <2>8 DEF PortOK
<1> QED
  BY <1>1, <1>3 DEF PortSet

(* Left alone and with no fault so far, a host object of the driver has    *)
(* every port of its node and a volume: createHost ended, or took it back, *)
(* and the last detach removed it.                                         *)
THEOREM HostsComeAndGo == Spec => []QuiescentHosts
<1>1. TypeInv /\ Inv /\ HostsInv => QuiescentHosts
  <2> SUFFICES ASSUME TypeInv, Inv, HostsInv, faults = 0, \A p \in Procs : pc[p] = "idle",
                      NEW n \in hosts \cap Nodes
               PROVE  ports[n] = PortSet(n) /\ \E v \in Volumes : <<v, n>> \in maps
    BY DEF QuiescentHosts
  <2>1. ports[n] = PortSet(n)
    BY NoPortMissing
  <2>2. UsedOK(n)
    BY DEF HostsInv
  <2>3. \E v \in Volumes : <<v, n>> \in maps
    BY <2>2 DEF UsedOK, Unused, HostKeepers
  <2> QED
    BY <2>1, <2>3
<1> QED
  BY <1>1, InitHosts, HostsStep, Invariant, PTL DEF Spec
-----------------------------------------------------------------------------
(* Attempts end.  The commands of an attempt come in stages; those that    *)
(* look for a port, add one or look at a host object are repeated, once    *)
(* for each entry of a list made before.                                   *)
Stage(l) ==
  CASE l = "lshosts" -> 15
    [] l \in {"lsfabric", "lshost"} -> 14
    [] l = "byname" -> 13
    [] l = "site" -> 12
    [] l = "mkhost" -> 11
    [] l = "addport" -> 10
    [] l = "lun" -> 9
    [] l = "mkmap" -> 8
    [] l = "lunAgain" -> 7
    [] l = "conn" -> 6
    [] l = "lsmap" -> 4
    [] l = "rmmap" -> 3
    [] l = "lsvols" -> 2
    [] l \in {"rmhost", "undo"} -> 1
    [] l \in {"idle", "ok", "err"} -> 0

Running(p) == pc[p] \notin {"idle", "ok", "err"}

(* A later stage, or the same with less of its list to go through.         *)
Nearer(p) ==
  \/ Stage(pc'[p]) < Stage(pc[p])
  \/ /\ pc'[p] = pc[p]
     /\ \/ pc[p] \in {"lsfabric", "addport"} /\ Len(todo'[p]) < Len(todo[p])
        \/ pc[p] = "lshost" /\ cand'[p] \subseteq cand[p] /\ cand'[p] # cand[p]

(* Every command of an attempt brings its answer nearer, and no step of    *)
(* another handler puts it off or makes its lists longer.                  *)
Shrinks ==
  [][\A p \in Procs :
       /\ Step(p) => Nearer(p)
       /\ ~Step(p) /\ Running(p) /\ Running(p)' => UNCHANGED <<pc[p], todo[p], cand[p]>>]_vars

(* The lists are finite. *)
FiniteInv == IsFiniteSet(hosts) /\ \A p \in Procs : IsFiniteSet(cand[p])

(* The table, row by row. *)
LEMMA StageRows ==
  ASSUME NEW l
  PROVE  /\ l = "lshosts" => Stage(l) = 15
         /\ l \in {"lsfabric", "lshost"} => Stage(l) = 14
         /\ l = "byname" => Stage(l) = 13
         /\ l = "site" => Stage(l) = 12
         /\ l = "mkhost" => Stage(l) = 11
         /\ l = "addport" => Stage(l) = 10
         /\ l = "lun" => Stage(l) = 9
         /\ l = "mkmap" => Stage(l) = 8
         /\ l = "lunAgain" => Stage(l) = 7
         /\ l = "conn" => Stage(l) = 6
         /\ l = "lsmap" => Stage(l) = 4
         /\ l = "rmmap" => Stage(l) = 3
         /\ l = "lsvols" => Stage(l) = 2
         /\ l \in {"rmhost", "undo"} => Stage(l) = 1
         /\ l \in {"idle", "ok", "err"} => Stage(l) = 0
  BY DEF Stage

LEMMA StepNearer ==
  ASSUME TypeInv, NEW p \in Procs, Step(p)
  PROVE  /\ Nearer(p)
         /\ \A q \in Procs : q # p => pc'[q] = pc[q] /\ todo'[q] = todo[q] /\ cand'[q] = cand[q]
<1>1. DOMAIN pc = Procs /\ DOMAIN todo = Procs /\ DOMAIN cand = Procs
  BY DEF TypeInv, TypeOK
<1>2. pc[p] \in {"lsfabric", "addport"} => Len(Tail(todo[p])) < Len(todo[p])
  <2>1. SUFFICES ASSUME pc[p] \in {"lsfabric", "addport"} PROVE Len(Tail(todo[p])) < Len(todo[p])
    OBVIOUS
  <2>2. todo[p] \in Seq(Ports) /\ todo[p] # <<>>
    BY <2>1 DEF TypeInv, TypeOK, TodoOK
  <2> QED
    BY <2>2, HeadTailProperties, LenProperties
<1> USE <1>1 DEF Goto, FoundHost, AfterFound, AfterNotFound, LocalUnchanged, Nearer
<1>3. CASE LsFabric(p)
  BY <1>2, <1>3, StageRows DEF LsFabric
<1>4. CASE LsHosts(p)
  BY <1>4, StageRows DEF LsHosts
<1>5. CASE LsHost(p)
  BY <1>5, StageRows DEF LsHost
<1>6. CASE LsHostByName(p)
  BY <1>6, StageRows DEF LsHostByName
<1>7. CASE GetVolumePreferSiteName(p)
  BY <1>7, StageRows DEF GetVolumePreferSiteName
<1>8. CASE MkHost(p)
  BY <1>8, StageRows DEF MkHost, AfterPorts
<1>9. CASE AddHostPort(p)
  BY <1>2, <1>9, StageRows DEF AddHostPort, AfterPorts
<1>10. CASE UndoCreateHost(p)
  BY <1>10, StageRows DEF UndoCreateHost
<1>11. CASE GetLunID(p)
  BY <1>11, StageRows DEF GetLunID
<1>12. CASE MkVdiskHostMap(p)
  BY <1>12, StageRows DEF MkVdiskHostMap
<1>13. CASE GetLunIDAgain(p)
  BY <1>13, StageRows DEF GetLunIDAgain
<1>14. CASE BuildConnProperty(p)
  BY <1>14, StageRows DEF BuildConnProperty
<1>15. CASE LsVdiskHostMap(p)
  BY <1>15, StageRows DEF LsVdiskHostMap
<1>16. CASE RmVdiskHostMap(p)
  BY <1>16, StageRows DEF RmVdiskHostMap
<1>17. CASE LsHostVdiskMap(p)
  BY <1>17, StageRows DEF LsHostVdiskMap
<1>18. CASE DeleteHost(p)
  BY <1>18, StageRows DEF DeleteHost
<1> QED
  BY <1>3, <1>4, <1>5, <1>6, <1>7, <1>8, <1>9, <1>10, <1>11, <1>12, <1>13, <1>14, <1>15, <1>16,
     <1>17, <1>18 DEF Step

(* What a step does to a list of host objects. *)
LEMMA FiniteStep ==
  ASSUME TypeInv, FiniteInv, NEW p \in Procs, AnyStep(p)
  PROVE  FiniteInv'
<1>1. IsFiniteSet(hosts')
  <2>1. hosts' = hosts \/ (\E h : hosts' = hosts \cup {h}) \/ (\E h : hosts' = hosts \ {h})
    BY ArrayEffect DEF arrayVars, MkHostApply, AddHostPortApply, RmHostApply, MkMapApply, RmMapApply
  <2> QED
    BY <2>1, FS_AddElement, FS_RemoveElement DEF FiniteInv
<1>2. ASSUME NEW q \in Procs PROVE IsFiniteSet(cand'[q])
  <2>1. \/ cand'[q] = cand[q] \/ cand'[q] = {} \/ cand'[q] = hosts \/ \E h : cand'[q] = cand[q] \ {h}
    <3>1. DOMAIN cand = Procs
      BY DEF TypeInv, TypeOK
    <3>2. CASE Call(p) \/ Retry(p) \/ Done(p) \/ Kill(p)
      BY <3>1, <3>2 DEF Call, Retry, Done, Kill, Begin
    <3>3. CASE LsHosts(p) \/ LsHost(p)
      BY <3>1, <3>3 DEF LsHosts, LsHost
    <3>4. CASE Step(p) /\ ~(LsHosts(p) \/ LsHost(p))
      BY <3>4 DEF Step, LsFabric, LsHostByName, GetVolumePreferSiteName, MkHost, AddHostPort,
            UndoCreateHost, GetLunID, MkVdiskHostMap, GetLunIDAgain, BuildConnProperty,
            LsVdiskHostMap, RmVdiskHostMap, LsHostVdiskMap, DeleteHost, LocalUnchanged
    <3> QED
      BY <3>2, <3>3, <3>4 DEF AnyStep
  <2>2. IsFiniteSet(cand[q]) /\ IsFiniteSet(hosts) /\ IsFiniteSet({})
    BY FS_EmptySet DEF FiniteInv
  <2>3. \A h : IsFiniteSet(cand[q] \ {h})
    BY <2>2, FS_RemoveElement
  <2> QED
    BY <2>1, <2>2, <2>3
<1> QED
  BY <1>1, <1>2 DEF FiniteInv

LEMMA FiniteInvariant == Spec => []FiniteInv
<1>1. Init => FiniteInv
  BY AdminAssumption, FS_EmptySet DEF AdminAssumption, Init, ArrayInit, FiniteInv
<1>2. TypeInv /\ FiniteInv /\ [Next]_vars => FiniteInv'
  BY FiniteStep DEF Next, Rest, AnyStep, vars, FiniteInv
<1> QED
  BY <1>1, <1>2, TypeInvariant, PTL DEF Spec

(* Neither AttachVolume nor DetachVolume loops for ever: whatever other    *)
(* handlers do to the host objects it goes through, every command of an    *)
(* attempt is one nearer to its answer, and the lists it goes through are  *)
(* finite and never grow.  (That it takes its steps is fairness, and that  *)
(* a request is answered in the end is RequestsSucceed, a run's.)          *)
THEOREM AttemptsEnd == Spec => []FiniteInv /\ Shrinks
<1>1. TypeInv /\ [Next]_vars =>
        [\A p \in Procs :
           /\ Step(p) => Nearer(p)
           /\ ~Step(p) /\ Running(p) /\ Running(p)' => UNCHANGED <<pc[p], todo[p], cand[p]>>]_vars
  <2> SUFFICES ASSUME TypeInv, Next, NEW p \in Procs
               PROVE  /\ Step(p) => Nearer(p)
                      /\ ~Step(p) /\ Running(p) /\ Running(p)' =>
                           UNCHANGED <<pc[p], todo[p], cand[p]>>
    OBVIOUS
  <2>1. Step(p) => Nearer(p)
    BY StepNearer
  <2>2. ASSUME ~Step(p), Running(p), Running(p)' PROVE UNCHANGED <<pc[p], todo[p], cand[p]>>
    <3>1. CASE \E q \in Procs : q # p /\ Step(q)
      BY <3>1, StepNearer
    <3>2. CASE \E q \in Procs : Call(q) \/ Retry(q) \/ Done(q) \/ Kill(q)
      BY <2>2, <3>2 DEF Call, Retry, Done, Kill, Begin, Goto, Running, TypeInv, TypeOK
    <3>3. CASE UNCHANGED vars
      BY <3>3 DEF vars
    <3> QED
      BY <2>2, <3>1, <3>2, <3>3 DEF Next, Rest
  <2> QED
    BY <2>1, <2>2
<1> QED
  BY <1>1, TypeInvariant, FiniteInvariant, PTL DEF Spec, Shrinks
=============================================================================
