------------------------- MODULE NodeVolume_proofs --------------------------
(***************************************************************************)
(* Theorems about NodeVolume, for every set of volumes, LUNs and handlers, *)
(* and every number of scans, requests and faults.                         *)
(***************************************************************************)
EXTENDS NodeVolume, TLAPS

(* A volume has one request in flight. *)
OneRequest ==
  \A p, q \in Procs : pc[p] # "idle" /\ pc[q] # "idle" /\ Vol(p) = Vol(q) => p = q

Located == {"scan", "find", "login", "findAgain", "mpath", "rollback", "mount", "blkid", "mkfs",
            "mountAgain"}
WithDevice == {"mount", "blkid", "mkfs", "mountAgain"}
Publishing == {"attach"} \cup Located
Unmounted == {"info", "findOld", "remove", "count", "logout"}
Unpublishing == {"getdevice", "umount"} \cup Unmounted

(* A handler's next step belongs to its request. *)
LabelOK(p) ==
  /\ pc[p] # "idle" => req[p].op \in {"publish", "unpublish", "detach"}
  /\ pc[p] \in Publishing => req[p].op = "publish"
  /\ pc[p] \in Unpublishing => req[p].op = "unpublish"
  /\ pc[p] = "detach" => req[p].op \in {"unpublish", "detach"}
  /\ pc[p] \in Unmounted \cup {"umount", "detach"} => name[p] \in Vols
  /\ pc[p] \in {"attach", "scan"} => tries[p] < MaxTries

(* A handler that takes the map or the device of a volume away works on    *)
(* its own volume, which is not mounted; one that mounts has its LUN.      *)
HandlerOK(p) ==
  /\ pc[p] \in Publishing => mounted[Vol(p)] = NoLun
  /\ pc[p] # "idle" /\ req[p].op = "detach" => mounted[Vol(p)] = NoLun
  /\ pc[p] \in Unmounted \cup {"detach"} => mounted[Vol(p)] = NoLun
  /\ pc[p] \in Unmounted \cup {"umount", "detach"} => name[p] = Vol(p)
  /\ pc[p] \in Located \cup {"findOld", "remove"} => at[p] # NoLun /\ lun[Vol(p)] = at[p]
  /\ pc[p] = "ok" /\ req[p].op = "unpublish" =>
       /\ mounted[Vol(p)] = NoLun /\ name[p] = Vol(p)
       /\ lun[Vol(p)] = NoLun \/ p \in blind

(* On FC a device once found stays until its own volume is unpublished. *)
FcOK(p) ==
  link = "fc" =>
    /\ pc[p] \notin {"login", "findAgain", "count", "logout"}
    /\ pc[p] \in WithDevice => at[p] \in devs
    /\ pc[p] = "mkfs" => content[Vol(p)] = "blank"

TypeInv == TypeOK /\ \A p \in Procs : LabelOK(p)
Inv ==
  /\ OneRequest
  /\ \A p \in Procs : HandlerOK(p)
  /\ \A p \in Procs : FcOK(p)
  /\ MountedReachable
  /\ NeverWiped

-----------------------------------------------------------------------------
LEMMA InitInv == Init => TypeInv /\ Inv
<1> SUFFICES ASSUME Init PROVE TypeInv /\ Inv
  OBVIOUS
<1>1. TypeInv
  <2>1. session \in BOOLEAN /\ record \in BOOLEAN
    BY DEF Init
  <2>2. TypeOK
    BY <2>1, NodeAssumption DEF NodeAssumption, Init, TypeOK, Labels
  <2>3. \A p \in Procs : LabelOK(p)
    BY DEF Init, LabelOK, Publishing, Located, Unpublishing, Unmounted
  <2> QED
    BY <2>2, <2>3 DEF TypeInv
<1>2. Inv
  BY DEF Init, Inv, OneRequest, HandlerOK, FcOK, MountedReachable, NeverWiped, Publishing, Located,
     Unmounted, WithDevice
<1> QED
  BY <1>1, <1>2

(* The steps that begin or end a request, or break it off. *)
CallerStep(p) == Call(p) \/ Retry(p) \/ Done(p) \/ Kill(p)
AnyStep(p) == CallerStep(p) \/ Step(p)

AttachSteps(p) ==
  \/ AttachVolume(p) \/ Scan(p) \/ FindDisk(p) \/ Login(p) \/ FindAgain(p)
  \/ FindMultiPathDev(p) \/ Rollback(p)
MountSteps(p) == Mount(p) \/ GetDiskFormat(p) \/ Mkfs(p) \/ MountAgain(p)
UnmountSteps(p) ==
  \/ GetDevice(p) \/ Unmount(p) \/ GetVolumeAttachInfo(p) \/ FindOldDisk(p) \/ RemoveDisk(p)
  \/ CountISCSISessionDevices(p) \/ LogoutAndDelete(p) \/ DetachVolume(p)

LEMMA StepKinds == \A p : Step(p) <=> AttachSteps(p) \/ MountSteps(p) \/ UnmountSteps(p)
  BY DEF Step, AttachSteps, MountSteps, UnmountSteps

LEMMA SpendType ==
  ASSUME NEW o, TypeOK, Spend(o)
  PROVE  calls' \in 0..MaxCalls /\ faults' \in 0..MaxFaults
  BY NodeAssumption DEF NodeAssumption, Spend, TypeOK

LEMMA CallerType ==
  ASSUME TypeInv, NEW p \in Procs, CallerStep(p)
  PROVE  TypeInv'
<1> USE NodeAssumption DEF NodeAssumption, TypeInv, TypeOK, LabelOK, Labels, Publishing, Located,
        Unpublishing, Unmounted, Goto, hostVars, procVars, Vol
<1>1. ASSUME NEW op \in {"publish", "unpublish", "detach"}, NEW v \in Vols,
             Begin(p, [op |-> op, vol |-> v]), calls' \in 0..MaxCalls
      PROVE  TypeInv'
  <2>1. FirstLabel(op) = IF op = "publish" THEN "attach"
                         ELSE IF op = "unpublish" THEN "getdevice" ELSE "detach"
    BY DEF FirstLabel
  <2> QED
    BY <1>1, <2>1 DEF Begin
<1>2. CASE Call(p)
  <2>1. calls' \in 0..MaxCalls
    BY <1>2 DEF Call
  <2>2. PICK v \in Vols, op \in {"publish", "unpublish", "detach"} :
          Begin(p, [op |-> op, vol |-> v])
    BY <1>2 DEF Call
  <2> QED
    BY <1>1, <2>1, <2>2
<1>3. CASE Retry(p)
  <2>1. PICK op \in {"publish", "unpublish", "detach"}, v \in Vols : req[p] = [op |-> op, vol |-> v]
    BY <1>3 DEF Retry
  <2>2. Begin(p, [op |-> op, vol |-> v]) /\ calls' \in 0..MaxCalls
    BY <1>3, <2>1 DEF Retry
  <2> QED
    BY <1>1, <2>2
<1>4. CASE Done(p)
  BY <1>4 DEF Done
<1>5. CASE Kill(p)
  BY <1>5 DEF Kill, Running
<1> QED
  BY <1>2, <1>3, <1>4, <1>5 DEF CallerStep

LEMMA AttachType ==
  ASSUME TypeInv, NEW p \in Procs, AttachSteps(p)
  PROVE  TypeInv'
<1> USE NodeAssumption DEF NodeAssumption, TypeInv, TypeOK, LabelOK, Labels, Publishing, Located,
        Unpublishing, Unmounted, Goto, hostVars, procVars, Vol, KeepNode, KeepProc, Mapped
<1>0. \A o : Spend(o) => calls' \in 0..MaxCalls /\ faults' \in 0..MaxFaults
  BY SpendType
<1>1. CASE AttachVolume(p)
  <2>1. CASE lun' = lun /\ at' = at
    <3>1. calls' \in 0..MaxCalls /\ faults' \in 0..MaxFaults
      BY <1>0, <1>1 DEF AttachVolume
    <3>2. /\ UNCHANGED <<link, content, devs, session, record, mounted, dead, req, name, tries, blind>>
          /\ pc[p] = "attach" /\ (Goto(p, "scan") \/ Goto(p, "err"))
      BY <1>1 DEF AttachVolume
    <3>3. TypeOK'
      BY <2>1, <3>1, <3>2
    <3>4. \A q \in Procs : LabelOK(q)'
      BY <2>1, <3>2
    <3> QED
      BY <3>3, <3>4
  <2>2. ASSUME NEW l \in LunsFor(Vol(p)), lun' = [lun EXCEPT ![Vol(p)] = l]
        PROVE  /\ lun' \in [Vols -> Luns \cup {NoLun}]
               /\ \A v, w \in Vols : v # w /\ lun'[v] # NoLun => lun'[v] # lun'[w]
    <3>1. Vol(p) \in Vols
      BY <1>1 DEF AttachVolume
    <3>2. CASE lun[Vol(p)] = NoLun
      <4>1. l \in Luns /\ \A w \in Vols : lun[w] # l
        BY <2>2, <3>2 DEF LunsFor
      <4>2. \A w \in Vols : lun'[w] = IF w = Vol(p) THEN l ELSE lun[w]
        BY <2>2, <3>1
      <4> QED
        BY <2>2, <3>1, <4>1, <4>2
    <3>3. CASE lun[Vol(p)] # NoLun
      <4>1. lun' = lun
        BY <2>2, <3>1, <3>3 DEF LunsFor
      <4> QED
        BY <4>1
    <3> QED
      BY <3>2, <3>3
  <2>3. ASSUME NEW l \in LunsFor(Vol(p)), lun' = [lun EXCEPT ![Vol(p)] = l],
               NEW o \in Outcomes, at' = [at EXCEPT ![p] = IF o = "done" THEN l ELSE @]
        PROVE  TypeInv'
    <3>1. l \in Luns
      BY <1>1, <2>3 DEF LunsFor, AttachVolume
    <3>2. at' \in [Procs -> Luns \cup {NoLun}]
      BY <2>3, <3>1
    <3>3. /\ lun' \in [Vols -> Luns \cup {NoLun}]
          /\ \A v, w \in Vols : v # w /\ lun'[v] # NoLun => lun'[v] # lun'[w]
      BY <2>2, <2>3
    <3>4. calls' \in 0..MaxCalls /\ faults' \in 0..MaxFaults
      BY <1>0, <1>1 DEF AttachVolume
    <3>5. /\ UNCHANGED <<link, content, devs, session, record, mounted, dead, req, name, tries, blind>>
          /\ pc[p] = "attach" /\ (Goto(p, "scan") \/ Goto(p, "err"))
      BY <1>1 DEF AttachVolume
    <3>6. TypeOK'
      BY <3>2, <3>3, <3>4, <3>5
    <3>7. \A q \in Procs : LabelOK(q)'
      BY <3>5
    <3> QED
      BY <3>6, <3>7
  <2> QED
    BY <1>1, <2>1, <2>3 DEF AttachVolume
<1>2. CASE Scan(p)
  BY <1>0, <1>2 DEF Scan
<1>3. CASE FindDisk(p)
  BY <1>0, <1>3 DEF FindDisk, ScanAgain
<1>4. CASE Login(p)
  BY <1>0, <1>4 DEF Login
<1>5. CASE FindAgain(p) \/ FindMultiPathDev(p)
  BY <1>0, <1>5 DEF FindAgain, FindMultiPathDev
<1>6. CASE Rollback(p)
  BY <1>0, <1>6 DEF Rollback
<1> QED
  BY <1>1, <1>2, <1>3, <1>4, <1>5, <1>6 DEF AttachSteps

LEMMA MountType ==
  ASSUME TypeInv, NEW p \in Procs, MountSteps(p)
  PROVE  TypeInv'
<1> USE NodeAssumption DEF NodeAssumption, TypeInv, TypeOK, LabelOK, Labels, Publishing, Located,
        Unpublishing, Unmounted, Goto, hostVars, procVars, Vol, KeepNode, KeepProc
<1>0. \A o : Spend(o) => calls' \in 0..MaxCalls /\ faults' \in 0..MaxFaults
  BY SpendType
<1>1. ASSUME NEW l \in {"blkid", "err"}, MountWith(p, l), pc[p] \in Publishing PROVE TypeInv'
  <2>1. \/ mounted' = mounted /\ Goto(p, l)
        \/ at[p] \in Luns /\ mounted' = [mounted EXCEPT ![Vol(p)] = at[p]] /\ Goto(p, "ok")
    BY <1>1 DEF MountWith, Mountable
  <2>2. mounted' \in [Vols -> Luns \cup {NoLun}] /\ dead' \subseteq {v \in Vols : mounted'[v] # NoLun}
    BY <1>1, <2>1 DEF MountWith
  <2>3. /\ UNCHANGED <<link, lun, content, devs, session, record, req, name, at, tries, blind>>
        /\ Goto(p, l) \/ Goto(p, "ok")
        /\ calls' \in 0..MaxCalls /\ faults' \in 0..MaxFaults
    BY <1>0, <1>1 DEF MountWith
  <2>4. TypeOK'
    <3>1. pc' \in [Procs -> Labels] /\ req' = req /\ (pc[p] # "idle")
      BY <1>1, <2>3
    <3>2. \A q \in Procs : pc'[q] # "idle" => pc[q] # "idle"
      BY <1>1, <2>3
    <3> QED
      BY <2>2, <2>3, <3>1, <3>2
  <2>5. \A q \in Procs : LabelOK(q)'
    BY <1>1, <2>3
  <2> QED
    BY <2>4, <2>5
<1>2. CASE Mount(p) \/ MountAgain(p)
  BY <1>1, <1>2 DEF Mount, MountAgain
<1>3. CASE GetDiskFormat(p)
  BY <1>0, <1>3 DEF GetDiskFormat
<1>4. CASE Mkfs(p)
  BY <1>0, <1>4 DEF Mkfs
<1> QED
  BY <1>2, <1>3, <1>4 DEF MountSteps

LEMMA UnmountType ==
  ASSUME TypeInv, NEW p \in Procs, UnmountSteps(p)
  PROVE  TypeInv'
<1> USE NodeAssumption DEF NodeAssumption, TypeInv, TypeOK, LabelOK, Labels, Publishing, Located,
        Unpublishing, Unmounted, Goto, hostVars, procVars, Vol, KeepNode, KeepProc
<1>0. \A o : Spend(o) => calls' \in 0..MaxCalls /\ faults' \in 0..MaxFaults
  BY SpendType
<1>1. CASE GetDevice(p)
  <2>1. /\ UNCHANGED <<link, lun, content, hostVars, req, at, tries, blind>>
        /\ calls' \in 0..MaxCalls /\ faults' \in 0..MaxFaults /\ pc[p] = "getdevice"
        /\ \/ \E v \in Vols : name' = [name EXCEPT ![p] = v] /\ Goto(p, "umount")
           \/ name' = name /\ Goto(p, "err")
    BY <1>0, <1>1 DEF GetDevice, Behind
  <2>2. TypeOK'
    <3>1. pc' \in [Procs -> Labels] /\ \A q \in Procs : pc'[q] # "idle" => pc[q] # "idle"
      BY <2>1
    <3>2. name' \in [Procs -> Vols \cup {NoVol}]
      BY <2>1
    <3> QED
      BY <2>1, <3>1, <3>2
  <2>3. \A q \in Procs : LabelOK(q)'
    BY <2>1
  <2> QED
    BY <2>2, <2>3
<1>2. CASE Unmount(p)
  BY <1>0, <1>2 DEF Unmount, NotUnmounted
<1>3. CASE GetVolumeAttachInfo(p)
  <2>1. /\ UNCHANGED <<link, lun, content, hostVars, req, name, tries>>
        /\ calls' \in 0..MaxCalls /\ faults' \in 0..MaxFaults /\ pc[p] = "info"
        /\ blind' \subseteq Procs
        /\ Goto(p, "findOld") \/ Goto(p, "ok") \/ Goto(p, "err")
    BY <1>0, <1>3 DEF GetVolumeAttachInfo, AfterNoAnswer, Misread
  <2>2. at' \in [Procs -> Luns \cup {NoLun}]
    <3>1. name[p] \in Vols /\ lun[name[p]] \in Luns \cup {NoLun}
      BY <2>1
    <3> QED
      BY <1>3, <3>1 DEF GetVolumeAttachInfo
  <2>3. TypeOK'
    BY <2>1, <2>2
  <2>4. \A q \in Procs : LabelOK(q)'
    BY <2>1
  <2> QED
    BY <2>3, <2>4
<1>4. CASE FindOldDisk(p) \/ CountISCSISessionDevices(p)
  BY <1>0, <1>4 DEF FindOldDisk, CountISCSISessionDevices
<1>5. CASE RemoveDisk(p)
  BY <1>0, <1>5 DEF RemoveDisk, DropDevices
<1>6. CASE LogoutAndDelete(p)
  BY <1>0, <1>6 DEF LogoutAndDelete, DropDevices
<1>7. CASE DetachVolume(p)
  BY <1>0, <1>7 DEF DetachVolume, Misread
<1> QED
  BY <1>1, <1>2, <1>3, <1>4, <1>5, <1>6, <1>7 DEF UnmountSteps

LEMMA TypeStep == TypeInv /\ [Next]_vars => TypeInv'
<1>1. TypeInv /\ UNCHANGED vars => TypeInv'
  BY DEF vars, hostVars, procVars, TypeInv, TypeOK, LabelOK
<1> QED
  BY <1>1, CallerType, AttachType, MountType, UnmountType, StepKinds DEF Next, Rest, CallerStep

(* The types hold in every state: a LUN is never mapped to two volumes, no *)
(* volume is cut off from a device that it does not use, and a search      *)
(* never scans more often than it may.                                     *)
THEOREM TypeCorrect == Spec => []TypeOK
<1>1. TypeInv => TypeOK
  BY DEF TypeInv
<1> QED
  BY <1>1, InitInv, TypeStep, PTL DEF Spec

-----------------------------------------------------------------------------
(* What a step of a handler leaves alone: its own and other requests, the  *)
(* locals of other handlers, the maps, mounts and contents of other        *)
(* volumes; and on FC the devices of other LUNs, and what is cut off.      *)
Frame(p) ==
  /\ req' = req /\ link' = link
  /\ pc[p] \notin {"idle", "ok", "err"} /\ pc'[p] # "idle"
  /\ \A q \in Procs : q # p => pc'[q] = pc[q] /\ at'[q] = at[q] /\ name'[q] = name[q]
  /\ \A q \in Procs : q # p => (q \in blind' <=> q \in blind)
  /\ \A v \in Vols : v # Vol(p) =>
       lun'[v] = lun[v] /\ mounted'[v] = mounted[v] /\ content'[v] = content[v]
  /\ link = "fc" => /\ \A l \in devs : l # lun[Vol(p)] => l \in devs'
                    /\ dead' \subseteq dead

(* What a step makes of its own volume. *)
Own(p) ==
  /\ HandlerOK(p)' /\ FcOK(p)'
  /\ mounted'[Vol(p)] # NoLun => lun'[Vol(p)] = mounted'[Vol(p)]
  /\ link = "fc" => content'[Vol(p)] # "wiped"

(* The volume behind the LUN of a volume's map is that volume. *)
LEMMA BehindOwn ==
  ASSUME TypeOK, NEW v \in Vols, lun[v] # NoLun
  PROVE  Behind(lun[v]) = {v}
  BY DEF Behind, TypeOK

(* The state in which a handler acts: its request, its volume, and what    *)
(* the invariant says of both.                                             *)
LEMMA Facts ==
  ASSUME TypeInv, Inv, NEW p \in Procs, pc[p] # "idle"
  PROVE  /\ Vol(p) \in Vols /\ HandlerOK(p) /\ FcOK(p)
         /\ mounted[Vol(p)] # NoLun => lun[Vol(p)] = mounted[Vol(p)]
         /\ link = "fc" => content[Vol(p)] # "wiped"
         /\ DOMAIN pc = Procs /\ DOMAIN at = Procs /\ DOMAIN name = Procs
         /\ DOMAIN lun = Vols /\ DOMAIN mounted = Vols /\ DOMAIN content = Vols
         /\ devs \subseteq Luns /\ NoLun \notin devs
  BY NodeAssumption DEF NodeAssumption, TypeInv, TypeOK, Inv, MountedReachable, NeverWiped, Vol

LEMMA AttachEffect ==
  ASSUME TypeInv, Inv, NEW p \in Procs, AttachSteps(p)
  PROVE  Frame(p) /\ Own(p)
<1>0. pc[p] \in Publishing
  BY DEF AttachSteps, AttachVolume, Scan, FindDisk, Login, FindAgain, FindMultiPathDev, Rollback,
         Publishing, Located
<1>1. /\ pc[p] \notin {"idle", "ok", "err"} /\ Vol(p) \in Vols /\ HandlerOK(p) /\ FcOK(p)
      /\ mounted[Vol(p)] = NoLun /\ req[p].op = "publish"
      /\ link = "fc" => content[Vol(p)] # "wiped"
      /\ DOMAIN pc = Procs /\ DOMAIN at = Procs /\ DOMAIN name = Procs
      /\ DOMAIN lun = Vols /\ DOMAIN mounted = Vols /\ DOMAIN content = Vols
      /\ devs \subseteq Luns /\ NoLun \notin devs
  <2>1. pc[p] \notin {"idle", "ok", "err"}
    BY <1>0 DEF Publishing, Located
  <2> QED
    BY <1>0, <2>1, Facts DEF HandlerOK, TypeInv, LabelOK
<1> USE DEF Frame, Own, Goto, KeepNode, KeepProc, hostVars, HandlerOK, FcOK, Publishing, Located,
        Unmounted, WithDevice, Vol
<1>2. CASE AttachVolume(p)
  <2>1. PICK o \in Outcomes :
          \/ /\ \E l \in LunsFor(Vol(p)) :
                  /\ lun' = [lun EXCEPT ![Vol(p)] = l]
                  /\ at' = [at EXCEPT ![p] = IF o = "done" THEN l ELSE @]
             /\ Goto(p, IF o = "done" THEN "scan" ELSE "err")
          \/ Goto(p, "err") /\ UNCHANGED <<lun, at>>
    BY <1>2 DEF AttachVolume
  <2>2. \A l \in LunsFor(Vol(p)) : l # NoLun
    BY NodeAssumption DEF NodeAssumption, LunsFor
  <2> QED
    BY <1>1, <1>2, <2>1, <2>2 DEF AttachVolume
<1>3. CASE Scan(p)
  BY <1>1, <1>3 DEF Scan
<1>4. CASE FindDisk(p)
  BY <1>1, <1>4, NodeAssumption DEF NodeAssumption, TypeInv, TypeOK, FindDisk
<1>5. CASE Login(p)
  BY <1>1, <1>5 DEF Login
<1>6. CASE FindAgain(p)
  BY <1>1, <1>6 DEF FindAgain
<1>7. CASE FindMultiPathDev(p)
  BY <1>1, <1>7 DEF FindMultiPathDev
<1>8. CASE Rollback(p)
  BY <1>1, <1>8 DEF Rollback
<1> QED
  BY <1>2, <1>3, <1>4, <1>5, <1>6, <1>7, <1>8 DEF AttachSteps

LEMMA MountEffect ==
  ASSUME TypeInv, Inv, NEW p \in Procs, MountSteps(p)
  PROVE  Frame(p) /\ Own(p)
<1>0. pc[p] \in WithDevice /\ pc[p] \in Located /\ pc[p] \in Publishing
  BY DEF MountSteps, Mount, GetDiskFormat, Mkfs, MountAgain, Publishing, Located, WithDevice
<1>1. /\ pc[p] \notin {"idle", "ok", "err"} /\ Vol(p) \in Vols /\ HandlerOK(p) /\ FcOK(p)
      /\ mounted[Vol(p)] = NoLun /\ req[p].op = "publish"
      /\ link = "fc" => content[Vol(p)] # "wiped"
      /\ DOMAIN pc = Procs /\ DOMAIN at = Procs /\ DOMAIN name = Procs
      /\ DOMAIN lun = Vols /\ DOMAIN mounted = Vols /\ DOMAIN content = Vols
      /\ devs \subseteq Luns /\ NoLun \notin devs
  <2>1. pc[p] \notin {"idle", "ok", "err"}
    BY <1>0 DEF WithDevice
  <2> QED
    BY <1>0, <2>1, Facts DEF HandlerOK, TypeInv, LabelOK
<1>2. at[p] # NoLun /\ lun[Vol(p)] = at[p] /\ (link = "fc" => at[p] \in devs)
  BY <1>0, <1>1 DEF HandlerOK, FcOK
<1>3. Behind(at[p]) = {Vol(p)}
  BY <1>1, <1>2, BehindOwn DEF TypeInv
<1> USE DEF Frame, Own, Goto, KeepNode, KeepProc, hostVars, HandlerOK, FcOK, Publishing, Located,
        Unmounted, WithDevice, Vol
<1>4. CASE Mount(p)
  BY <1>1, <1>2, <1>4 DEF Mount, MountWith
<1>5. CASE MountAgain(p)
  BY <1>1, <1>2, <1>5 DEF MountAgain, MountWith
<1>6. CASE GetDiskFormat(p)
  BY <1>1, <1>2, <1>3, <1>6 DEF GetDiskFormat, Unformatted
<1>7. CASE Mkfs(p)
  BY <1>1, <1>2, <1>3, <1>7 DEF Mkfs
<1> QED
  BY <1>4, <1>5, <1>6, <1>7 DEF MountSteps

LEMMA UnmountEffect ==
  ASSUME TypeInv, Inv, NEW p \in Procs, UnmountSteps(p)
  PROVE  Frame(p) /\ Own(p)
<1>0. pc[p] \in Unpublishing \cup {"detach"}
  BY DEF UnmountSteps, GetDevice, Unmount, GetVolumeAttachInfo, FindOldDisk, RemoveDisk,
         CountISCSISessionDevices, LogoutAndDelete, DetachVolume, Unpublishing, Unmounted
<1>1. /\ pc[p] \notin {"idle", "ok", "err"} /\ Vol(p) \in Vols /\ HandlerOK(p) /\ FcOK(p)
      /\ req[p].op = "unpublish" \/ (pc[p] = "detach" /\ req[p].op = "detach")
      /\ mounted[Vol(p)] # NoLun => lun[Vol(p)] = mounted[Vol(p)]
      /\ link = "fc" => content[Vol(p)] # "wiped"
      /\ DOMAIN pc = Procs /\ DOMAIN at = Procs /\ DOMAIN name = Procs
      /\ DOMAIN lun = Vols /\ DOMAIN mounted = Vols /\ DOMAIN content = Vols
      /\ devs \subseteq Luns /\ NoLun \notin devs
  <2>1. pc[p] \notin {"idle", "ok", "err"}
    BY <1>0 DEF Unpublishing, Unmounted
  <2>2. req[p].op = "unpublish" \/ (pc[p] = "detach" /\ req[p].op = "detach")
    BY <1>0 DEF TypeInv, LabelOK
  <2> QED
    BY <2>1, <2>2, Facts
<1> USE DEF Frame, Own, Goto, KeepNode, KeepProc, hostVars, HandlerOK, FcOK, Publishing, Located,
        Unmounted, WithDevice, Vol
<1>2. CASE GetDevice(p)
  <2>1. mounted[Vol(p)] # NoLun => Behind(mounted[Vol(p)]) = {Vol(p)}
    BY <1>1, BehindOwn DEF TypeInv
  <2> QED
    BY <1>1, <1>2, <2>1 DEF GetDevice
<1>3. CASE Unmount(p)
  BY <1>1, <1>3 DEF Unmount, NotUnmounted, Replies
<1>4. CASE GetVolumeAttachInfo(p)
  BY <1>1, <1>4 DEF GetVolumeAttachInfo, AfterNoAnswer, Replies, Misread
<1>5. CASE FindOldDisk(p)
  BY <1>1, <1>5 DEF FindOldDisk
<1>6. CASE RemoveDisk(p)
  <2>1. at[p] # NoLun /\ lun[Vol(p)] = at[p] /\ mounted[Vol(p)] = NoLun
    BY <1>1, <1>6 DEF RemoveDisk
  <2>2. \A v \in Vols : mounted[v] # at[p]
    BY <1>1, <2>1 DEF TypeInv, TypeOK, Inv, MountedReachable
  <2>3. dead' \subseteq dead /\ devs \ {at[p]} \subseteq devs'
    BY <1>6, <2>2 DEF RemoveDisk, DropDevices
  <2> QED
    BY <1>1, <1>6, <2>1, <2>3 DEF RemoveDisk
<1>7. CASE CountISCSISessionDevices(p)
  BY <1>1, <1>7 DEF CountISCSISessionDevices
<1>8. CASE LogoutAndDelete(p)
  BY <1>1, <1>8 DEF LogoutAndDelete
<1>9. CASE DetachVolume(p)
  BY <1>1, <1>9 DEF DetachVolume, Misread
<1> QED
  BY <1>2, <1>3, <1>4, <1>5, <1>6, <1>7, <1>8, <1>9 DEF UnmountSteps

(* A step of one handler keeps what is so of every handler and volume. *)
LEMMA StepInv ==
  ASSUME TypeInv, Inv, NEW p \in Procs, Step(p)
  PROVE  Inv'
<1>1. Frame(p) /\ Own(p)
  BY StepKinds, AttachEffect, MountEffect, UnmountEffect
<1>2. Vol(p) \in Vols /\ \A q \in Procs : Vol(q)' = Vol(q)
  BY <1>1, Facts DEF Frame, Vol
<1>3. \A q \in Procs : pc'[q] # "idle" <=> pc[q] # "idle"
  BY <1>1 DEF Frame
<1>4. ASSUME NEW q \in Procs, q # p, pc[q] # "idle"
      PROVE  Vol(q) \in Vols /\ Vol(q) # Vol(p)
  BY <1>1, <1>4, Facts DEF Frame, Inv, OneRequest
<1>5. OneRequest'
  BY <1>2, <1>3 DEF Inv, OneRequest
<1>6. ASSUME NEW q \in Procs PROVE HandlerOK(q)' /\ FcOK(q)'
  <2>1. CASE q = p
    BY <1>1, <2>1 DEF Own
  <2>2. CASE q # p /\ pc[q] = "idle"
    <3>1. pc'[q] = "idle"
      BY <1>1, <2>2 DEF Frame
    <3> QED
      BY <3>1 DEF HandlerOK, FcOK, Publishing, Located, Unmounted, WithDevice
  <2>3. CASE q # p /\ pc[q] # "idle"
    <3>1. /\ lun'[Vol(q)] = lun[Vol(q)] /\ mounted'[Vol(q)] = mounted[Vol(q)]
          /\ content'[Vol(q)] = content[Vol(q)]
          /\ pc'[q] = pc[q] /\ at'[q] = at[q] /\ name'[q] = name[q] /\ req' = req /\ link' = link
          /\ (q \in blind' <=> q \in blind) /\ Vol(q)' = Vol(q)
      BY <1>1, <1>4, <2>3 DEF Frame, Vol
    <3>2. HandlerOK(q) /\ FcOK(q)
      BY DEF Inv
    <3>3. HandlerOK(q)'
      BY <1>2, <3>1, <3>2 DEF HandlerOK
    <3>4. link = "fc" /\ pc[q] \in WithDevice => at[q] # lun[Vol(p)]
      BY <1>2, <1>4, <2>3, <3>2 DEF HandlerOK, WithDevice, Located, TypeInv, TypeOK
    <3>5. FcOK(q)'
      BY <1>1, <1>2, <3>1, <3>2, <3>4 DEF FcOK, Frame
    <3> QED
      BY <3>3, <3>5
  <2> QED
    BY <2>1, <2>2, <2>3
<1>7. MountedReachable' /\ NeverWiped'
  <2>1. link = "fc" => Vol(p) \notin dead'
    BY <1>1, <1>2 DEF Frame, TypeInv, TypeOK, Inv, MountedReachable
  <2> QED
    BY <1>1, <1>2, <2>1 DEF Frame, Own, Inv, MountedReachable, NeverWiped
<1> QED
  BY <1>5, <1>6, <1>7 DEF Inv

LEMMA CallerInv ==
  ASSUME TypeInv, Inv, NEW p \in Procs, CallerStep(p)
  PROVE  Inv'
<1>1. /\ link' = link /\ lun' = lun /\ content' = content /\ devs' = devs
      /\ mounted' = mounted /\ dead' = dead
      /\ \A q \in Procs : q # p => /\ pc'[q] = pc[q] /\ req'[q] = req[q] /\ at'[q] = at[q]
                                   /\ name'[q] = name[q] /\ (q \in blind' <=> q \in blind)
      /\ DOMAIN pc = Procs /\ DOMAIN req = Procs /\ DOMAIN name = Procs
  BY DEF CallerStep, Call, Retry, Done, Kill, Begin, Goto, hostVars, procVars, TypeInv, TypeOK
<1>2. MountedReachable' /\ NeverWiped'
  BY <1>1 DEF Inv, MountedReachable, NeverWiped
<1>3. ASSUME NEW q \in Procs, q # p PROVE HandlerOK(q)' /\ FcOK(q)'
  BY <1>1, <1>3 DEF Inv, HandlerOK, FcOK, Vol
<1>4. ASSUME HandlerOK(p)', FcOK(p)', OneRequest' PROVE Inv'
  BY <1>2, <1>3, <1>4 DEF Inv
<1>5. ASSUME NEW op \in {"publish", "unpublish", "detach"}, NEW v \in Vols,
             Begin(p, [op |-> op, vol |-> v]), op # "unpublish" => mounted[v] = NoLun
      PROVE  HandlerOK(p)' /\ FcOK(p)' /\ pc'[p] # "idle" /\ Vol(p)' = v
  <2>1. pc'[p] = IF op = "publish" THEN "attach"
                 ELSE IF op = "unpublish" THEN "getdevice" ELSE "detach"
    BY <1>1, <1>5 DEF Begin, Goto, FirstLabel
  <2>2. req'[p] = [op |-> op, vol |-> v] /\ name'[p] = IF op = "unpublish" THEN NoVol ELSE v
    BY <1>1, <1>5 DEF Begin
  <2> QED
    BY <1>1, <1>5, <2>1, <2>2 DEF HandlerOK, FcOK, Vol, Publishing, Located, Unmounted, WithDevice
<1>6. CASE Call(p)
  <2>1. PICK v \in Vols, op \in {"publish", "unpublish", "detach"} :
          /\ \A q \in Procs : pc[q] # "idle" => Vol(q) # v
          /\ (op = "unpublish") = (mounted[v] # NoLun)
          /\ Begin(p, [op |-> op, vol |-> v])
    BY <1>6 DEF Call
  <2>2. HandlerOK(p)' /\ FcOK(p)' /\ pc'[p] # "idle" /\ Vol(p)' = v
    BY <1>5, <2>1
  <2>3. OneRequest'
    BY <1>1, <2>1, <2>2 DEF Inv, OneRequest, Vol
  <2> QED
    BY <1>4, <2>2, <2>3
<1>7. CASE Retry(p)
  <2>1. PICK op \in {"publish", "unpublish", "detach"}, v \in Vols : req[p] = [op |-> op, vol |-> v]
    BY <1>7 DEF Retry, TypeInv, TypeOK, LabelOK
  <2>2. Begin(p, [op |-> op, vol |-> v]) /\ pc[p] # "idle" /\ Vol(p) = v
    BY <1>7, <2>1 DEF Retry, Vol
  <2>3. op # "unpublish" => mounted[v] = NoLun
    BY <1>7, <2>1, <2>2 DEF Retry, Inv, HandlerOK, Vol
  <2>4. HandlerOK(p)' /\ FcOK(p)' /\ pc'[p] # "idle" /\ Vol(p)' = v
    BY <1>5, <2>2, <2>3
  <2>5. OneRequest'
    BY <1>1, <2>2, <2>4 DEF Inv, OneRequest, Vol
  <2> QED
    BY <1>4, <2>4, <2>5
<1>8. CASE Done(p)
  <2>1. pc'[p] = "idle"
    BY <1>1, <1>8 DEF Done, Goto
  <2>2. HandlerOK(p)' /\ FcOK(p)'
    BY <2>1 DEF HandlerOK, FcOK, Publishing, Located, Unmounted, WithDevice
  <2>3. OneRequest'
    BY <1>1, <2>1 DEF Inv, OneRequest, Vol
  <2> QED
    BY <1>4, <2>2, <2>3
<1>9. CASE Kill(p)
  <2>1. pc'[p] = "err" /\ pc[p] # "idle" /\ req' = req
    BY <1>1, <1>9 DEF Kill, Goto, Running
  <2>2. HandlerOK(p)' /\ FcOK(p)'
    BY <1>1, <2>1 DEF Inv, HandlerOK, FcOK, Vol, Publishing, Located, Unmounted, WithDevice
  <2>3. OneRequest'
    BY <1>1, <2>1 DEF Inv, OneRequest, Vol
  <2> QED
    BY <1>4, <2>2, <2>3
<1> QED
  BY <1>6, <1>7, <1>8, <1>9 DEF CallerStep

LEMMA InvStep == TypeInv /\ Inv /\ [Next]_vars => Inv'
<1>1. TypeInv /\ Inv /\ UNCHANGED vars => Inv'
  BY DEF vars, hostVars, procVars, Inv, OneRequest, HandlerOK, FcOK, MountedReachable, NeverWiped,
         Vol
<1> QED
  BY <1>1, StepInv, CallerInv DEF Next, Rest, CallerStep

LEMMA Invariants == Spec => [](TypeInv /\ Inv)
  BY InitInv, TypeStep, InvStep, PTL DEF Spec

(* What is mounted for a volume reaches that volume, whatever LUNs the     *)
(* handlers of other volumes take and return, and on FC no handler removes *)
(* the device under the file system (Attach, Detach, RemoveDisk).          *)
THEOREM MountsReachTheirVolume == Spec => []MountedReachable
<1>1. TypeInv /\ Inv => MountedReachable
  BY DEF Inv
<1> QED
  BY <1>1, Invariants, PTL

(* On FC, FormatAndMount formats no volume that holds a file system,       *)
(* whatever fails between the search for its device and the mount.         *)
THEOREM NoVolumeWiped == Spec => []NeverWiped
<1>1. TypeInv /\ Inv => NeverWiped
  BY DEF Inv
<1> QED
  BY <1>1, Invariants, PTL

(* UnMountDevice that answers success unmounted the volume it was asked    *)
(* for, and removed that volume's map.                                     *)
THEOREM UnpublishIsSound == Spec => []UnpublishSound
<1>1. TypeInv /\ Inv => UnpublishSound
  BY DEF Inv, HandlerOK, UnpublishSound
<1> QED
  BY <1>1, Invariants, PTL
-----------------------------------------------------------------------------
(* The code has no lock over a node's devices.  With one around            *)
(* MountDevice and UnMountDevice, these would run one at a time; what the  *)
(* attacher detaches would not be held up.                                 *)
OnNode(p) == Running(p) /\ req[p].op # "detach"
OneAtATime == \A p, q \in Procs : OnNode(p) /\ OnNode(q) => p = q

(* Nothing mounted is cut off from its device, and no file system is made  *)
(* over another, over FC and over iSCSI.                                   *)
NothingHarmed == dead = {} /\ \A v \in Vols : content[v] # "wiped"

(* Then a device that a handler has found, or a pod uses, is there, and    *)
(* the count of a session's devices is still true when it logs out.        *)
AloneOK(p) ==
  /\ pc[p] \in WithDevice => at[p] \in devs
  /\ pc[p] = "mkfs" => content[Vol(p)] = "blank"
  /\ pc[p] = "logout" => devs = {}

AloneInv ==
  /\ NothingHarmed
  /\ \A v \in Vols : mounted[v] # NoLun => mounted[v] \in devs
  /\ \A p \in Procs : AloneOK(p)

(* What a step leaves of the devices and of the volumes of others. *)
AloneEffect(p) ==
  /\ Running(p)
  /\ \A q \in Procs : q # p => pc'[q] = pc[q]
  /\ AloneOK(p)'
  /\ dead' = {}
  /\ \A v \in Vols : content'[v] # "wiped" /\ (mounted'[v] # NoLun => mounted'[v] \in devs')

LEMMA AloneAttach ==
  ASSUME TypeInv, Inv, AloneInv, NEW p \in Procs, AttachSteps(p)
  PROVE  AloneEffect(p)
<1>0. /\ Running(p) /\ pc[p] # "idle" /\ DOMAIN pc = Procs
      /\ dead = {}
      /\ \A v \in Vols : content[v] # "wiped" /\ (mounted[v] # NoLun => mounted[v] \in devs)
  BY DEF AttachSteps, AttachVolume, Scan, FindDisk, Login, FindAgain, FindMultiPathDev, Rollback,
         Running, TypeInv, TypeOK, AloneInv, NothingHarmed
<1>1. /\ dead' = dead /\ content' = content /\ mounted' = mounted /\ devs \subseteq devs'
      /\ at' = at \/ pc'[p] \notin WithDevice \cup {"logout"}
      /\ \A q \in Procs : q # p => pc'[q] = pc[q]
      /\ pc'[p] \notin {"blkid", "mkfs", "mountAgain", "logout"}
      /\ pc'[p] = "mount" => at'[p] \in devs'
  <2> USE <1>0 DEF Goto, KeepNode, hostVars, WithDevice
  <2>1. CASE AttachVolume(p)
    BY <2>1 DEF AttachVolume
  <2>2. CASE Scan(p)
    BY <2>2 DEF Scan
  <2>3. CASE FindDisk(p)
    BY <2>3 DEF FindDisk
  <2>4. CASE Login(p)
    BY <2>4 DEF Login
  <2>5. CASE FindAgain(p)
    BY <2>5 DEF FindAgain
  <2>6. CASE FindMultiPathDev(p)
    BY <2>6 DEF FindMultiPathDev
  <2>7. CASE Rollback(p)
    BY <2>7 DEF Rollback
  <2> QED
    BY <2>1, <2>2, <2>3, <2>4, <2>5, <2>6, <2>7 DEF AttachSteps
<1> QED
  BY <1>0, <1>1 DEF AloneEffect, AloneOK, WithDevice

LEMMA AloneMount ==
  ASSUME TypeInv, Inv, AloneInv, NEW p \in Procs, MountSteps(p)
  PROVE  AloneEffect(p)
<1>0. /\ Running(p) /\ pc[p] # "idle" /\ DOMAIN pc = Procs /\ pc[p] \in WithDevice \cap Located
      /\ DOMAIN mounted = Vols /\ DOMAIN content = Vols
      /\ dead = {}
      /\ \A v \in Vols : content[v] # "wiped" /\ (mounted[v] # NoLun => mounted[v] \in devs)
  BY DEF MountSteps, Mount, GetDiskFormat, Mkfs, MountAgain, Running, WithDevice, Located,
         TypeInv, TypeOK, AloneInv, NothingHarmed
<1>1. Vol(p) \in Vols /\ at[p] \in devs /\ at[p] # NoLun /\ lun[Vol(p)] = at[p]
  BY <1>0, Facts DEF HandlerOK, AloneInv, AloneOK
<1>2. Behind(at[p]) = {Vol(p)}
  BY <1>1, BehindOwn DEF TypeInv
<1>3. pc[p] = "mkfs" => content[Vol(p)] = "blank"
  BY DEF AloneInv, AloneOK
<1> USE DEF AloneEffect, AloneOK, Goto, KeepNode, KeepProc, hostVars, WithDevice
<1>4. CASE Mount(p)
  BY <1>0, <1>1, <1>4 DEF Mount, MountWith
<1>5. CASE MountAgain(p)
  BY <1>0, <1>1, <1>5 DEF MountAgain, MountWith
<1>6. CASE GetDiskFormat(p)
  <2>1. Vol(p)' = Vol(p)
    BY <1>6 DEF GetDiskFormat, Vol
  <2> QED
    BY <1>0, <1>1, <1>2, <1>6, <2>1 DEF GetDiskFormat, Unformatted
<1>7. CASE Mkfs(p)
  BY <1>0, <1>1, <1>2, <1>3, <1>7 DEF Mkfs
<1> QED
  BY <1>4, <1>5, <1>6, <1>7 DEF MountSteps

LEMMA AloneUnmount ==
  ASSUME TypeInv, Inv, AloneInv, NEW p \in Procs, UnmountSteps(p)
  PROVE  AloneEffect(p)
<1>0. /\ Running(p) /\ pc[p] # "idle" /\ DOMAIN pc = Procs /\ DOMAIN mounted = Vols
      /\ dead = {}
      /\ \A v \in Vols : content[v] # "wiped" /\ (mounted[v] # NoLun => mounted[v] \in devs)
  BY DEF UnmountSteps, GetDevice, Unmount, GetVolumeAttachInfo, FindOldDisk, RemoveDisk,
         CountISCSISessionDevices, LogoutAndDelete, DetachVolume, Running, TypeInv, TypeOK,
         AloneInv, NothingHarmed
<1>1. /\ content' = content
      /\ pc'[p] \notin WithDevice
      /\ \A q \in Procs : q # p => pc'[q] = pc[q]
      /\ pc'[p] = "logout" => devs' = {}
      /\ \A v \in Vols : mounted'[v] = mounted[v] \/ mounted'[v] = NoLun
      /\ dead' \subseteq dead
      /\ \A l \in devs : l \in devs' \/ \A v \in Vols : mounted[v] # l
  <2> USE <1>0 DEF Goto, KeepNode, hostVars, WithDevice
  <2>1. CASE GetDevice(p)
    BY <2>1 DEF GetDevice
  <2>2. CASE Unmount(p)
    BY <2>2 DEF Unmount, NotUnmounted
  <2>3. CASE GetVolumeAttachInfo(p)
    BY <2>3 DEF GetVolumeAttachInfo, AfterNoAnswer
  <2>4. CASE FindOldDisk(p)
    BY <2>4 DEF FindOldDisk
  <2>5. CASE RemoveDisk(p)
    <3>1. at[p] # NoLun /\ lun[Vol(p)] = at[p] /\ mounted[Vol(p)] = NoLun /\ Vol(p) \in Vols
      BY <2>5, Facts DEF RemoveDisk, HandlerOK, Unmounted
    <3>2. \A v \in Vols : mounted[v] # at[p]
      BY <3>1 DEF TypeInv, TypeOK, Inv, MountedReachable
    <3> QED
      BY <2>5, <3>2 DEF RemoveDisk, DropDevices
  <2>6. CASE CountISCSISessionDevices(p)
    BY <2>6 DEF CountISCSISessionDevices
  <2>7. CASE LogoutAndDelete(p)
    <3>1. devs = {}
      BY <2>7 DEF LogoutAndDelete, AloneInv, AloneOK
    <3> QED
      BY <2>7, <3>1 DEF LogoutAndDelete, DropDevices
  <2>8. CASE DetachVolume(p)
    BY <2>8 DEF DetachVolume
  <2> QED
    BY <2>1, <2>2, <2>3, <2>4, <2>5, <2>6, <2>7, <2>8 DEF UnmountSteps
<1> QED
  BY <1>0, <1>1 DEF AloneEffect, AloneOK, WithDevice

LEMMA AloneStep == TypeInv /\ Inv /\ AloneInv /\ OneAtATime /\ [Next]_vars => AloneInv'
<1> SUFFICES ASSUME TypeInv, Inv, AloneInv, OneAtATime, [Next]_vars PROVE AloneInv'
  OBVIOUS
<1>1. ASSUME NEW p \in Procs, Step(p) PROVE AloneInv'
  <2>1. AloneEffect(p)
    BY <1>1, StepKinds, AloneAttach, AloneMount, AloneUnmount
  <2>2. ASSUME NEW q \in Procs, q # p PROVE AloneOK(q)'
    <3>1. pc'[q] = pc[q] /\ Running(p)
      BY <2>1, <2>2 DEF AloneEffect
    <3>2. CASE ~Running(q) \/ req[q].op = "detach"
      <4>1. pc[q] \notin WithDevice \cup {"logout"}
        BY <3>2 DEF Running, WithDevice, TypeInv, LabelOK, Publishing, Located, Unpublishing, Unmounted
      <4> QED
        BY <3>1, <4>1 DEF AloneOK, WithDevice
    <3>3. CASE req[p].op = "detach"
      <4>1. pc[p] = "detach"
        BY <3>1, <3>3 DEF Running, TypeInv, TypeOK, Labels, LabelOK, Publishing, Located, Unpublishing,
              Unmounted
      <4>2. DetachVolume(p)
        BY <1>1, <4>1 DEF Step, AttachVolume, Scan, FindDisk, Login, FindAgain, FindMultiPathDev,
              Rollback, Mount, GetDiskFormat, Mkfs, MountAgain, GetDevice, Unmount,
              GetVolumeAttachInfo, FindOldDisk, RemoveDisk, CountISCSISessionDevices, LogoutAndDelete
      <4>3. at' = at /\ devs' = devs /\ content' = content /\ Vol(q)' = Vol(q)
        BY <4>2 DEF DetachVolume, KeepNode, KeepProc, hostVars, Vol
      <4> QED
        BY <3>1, <4>3 DEF AloneInv, AloneOK
    <3> QED
      BY <2>2, <3>1, <3>2, <3>3 DEF OneAtATime, OnNode
  <2> QED
    BY <2>1, <2>2 DEF AloneEffect, AloneInv, NothingHarmed
<1>2. ASSUME NEW p \in Procs, CallerStep(p) PROVE AloneInv'
  <2>1. content' = content /\ devs' = devs /\ mounted' = mounted /\ dead' = dead
    BY <1>2 DEF CallerStep, Call, Retry, Done, Kill, Begin, hostVars
  <2>2. pc'[p] \notin WithDevice \cup {"logout"}
    <3>1. \A op \in {"publish", "unpublish", "detach"} :
            FirstLabel(op) \in {"attach", "getdevice", "detach"}
      BY DEF FirstLabel
    <3>2. pc' = [pc EXCEPT ![p] = pc'[p]] /\ pc'[p] \in {"attach", "getdevice", "detach", "idle", "err"}
      <4>1. CASE Call(p)
        <5>1. PICK v \in Vols, op \in {"publish", "unpublish", "detach"} :
                Begin(p, [op |-> op, vol |-> v])
          BY <4>1 DEF Call
        <5> QED
          BY <3>1, <5>1 DEF Begin, Goto, TypeInv, TypeOK
      <4>2. CASE Retry(p)
        BY <3>1, <4>2 DEF Retry, Begin, Goto, TypeInv, TypeOK, LabelOK
      <4>3. CASE Done(p) \/ Kill(p)
        BY <4>3 DEF Done, Kill, Goto, TypeInv, TypeOK
      <4> QED
        BY <1>2, <4>1, <4>2, <4>3 DEF CallerStep
    <3> QED
      BY <3>2 DEF WithDevice
  <2>3. ASSUME NEW q \in Procs, q # p PROVE pc'[q] = pc[q] /\ at'[q] = at[q] /\ req'[q] = req[q]
    BY <1>2, <2>3 DEF CallerStep, Call, Retry, Done, Kill, Begin, Goto, procVars, TypeInv, TypeOK
  <2>4. \A q \in Procs : AloneOK(q)'
    BY <2>1, <2>2, <2>3 DEF AloneInv, AloneOK, Vol, WithDevice
  <2> QED
    BY <2>1, <2>4 DEF AloneInv, NothingHarmed
<1>3. CASE UNCHANGED vars
  BY <1>3 DEF vars, hostVars, procVars, AloneInv, NothingHarmed, AloneOK, Vol
<1> QED
  BY <1>1, <1>2, <1>3 DEF Next, Rest, CallerStep

(* What goes wrong on a node over iSCSI, a logout under another handler's  *)
(* device or a pod's and a format over a file system, comes from handlers  *)
(* that run at the same time, and from nothing else: with a lock around    *)
(* MountDevice and UnMountDevice, no fault, kill or retry does it, and     *)
(* "no device belong to the session" is true when DetachDisk logs out.     *)
THEOREM OneHandlerIsSafe ==
  Spec /\ []OneAtATime => []NothingHarmed /\ LogoutWhenEmpty
<1>1. Init => AloneInv
  BY DEF Init, AloneInv, NothingHarmed, AloneOK, WithDevice
<1>2. AloneInv => NothingHarmed
  BY DEF AloneInv
<1>3. TypeInv /\ Inv /\ AloneInv /\ [Next]_vars => [session /\ ~session' => devs = {}]_vars
  <2> SUFFICES ASSUME AloneInv, Next, session, ~session' PROVE devs = {}
    OBVIOUS
  <2>1. PICK p \in Procs : Call(p) \/ Retry(p) \/ Done(p) \/ Kill(p) \/ Step(p)
    BY DEF Next, Rest, vars, hostVars
  <2>2. ~ (Call(p) \/ Retry(p) \/ Done(p) \/ Kill(p))
    BY DEF Call, Retry, Done, Kill, Begin, hostVars
  <2>3. ~ AttachSteps(p)
    BY DEF AttachSteps, AttachVolume, Scan, FindDisk, Login, FindAgain, FindMultiPathDev, Rollback,
           KeepNode, hostVars
  <2>4. ~ MountSteps(p)
    BY DEF MountSteps, Mount, MountWith, GetDiskFormat, Mkfs, MountAgain, KeepNode, hostVars
  <2>5. LogoutAndDelete(p)
    BY <2>1, <2>2, <2>3, <2>4, StepKinds
       DEF UnmountSteps, GetDevice, Unmount, GetVolumeAttachInfo, FindOldDisk, RemoveDisk,
           CountISCSISessionDevices, DetachVolume, KeepNode, hostVars
  <2> QED
    BY <2>5 DEF LogoutAndDelete, AloneInv, AloneOK
<1> QED
  BY <1>1, <1>2, <1>3, AloneStep, Invariants, PTL DEF Spec, LogoutWhenEmpty
-----------------------------------------------------------------------------
(* The steps a handler has left at most: a search on FC scans at most      *)
(* MaxTries times, everything else is done once.                           *)
LeftAt(l, t) ==
  CASE l = "attach"    -> 8 + 2 * MaxTries
    [] l = "scan"      -> 7 + 2 * (MaxTries - t)
    [] l = "find"      -> 8 + 2 * (MaxTries - t)
    [] l \in {"login", "umount"}      -> 7
    [] l \in {"findAgain", "info"}    -> 6
    [] l \in {"mpath", "findOld"}     -> 5
    [] l \in {"mount", "remove"}      -> 4
    [] l \in {"blkid", "count"}       -> 3
    [] l \in {"mkfs", "logout"}       -> 2
    [] l \in {"rollback", "mountAgain", "detach"} -> 1
    [] l = "getdevice" -> 8
    [] l \in {"idle", "ok", "err"}    -> 0
Left(p) == LeftAt(pc[p], tries[p])

(* Every step of an attempt brings its answer nearer, and no step of       *)
(* another handler puts it off.                                            *)
Shrinks ==
  [][\A p \in Procs : /\ Step(p) => Left(p)' < Left(p)
                      /\ Running(p) /\ Running(p)' => Left(p)' <= Left(p)]_vars

(* The table, row by row. *)
LEMMA LeftRows ==
  ASSUME NEW l, NEW t
  PROVE  /\ l = "attach" => LeftAt(l, t) = 8 + 2 * MaxTries
         /\ l = "scan" => LeftAt(l, t) = 7 + 2 * (MaxTries - t)
         /\ l = "find" => LeftAt(l, t) = 8 + 2 * (MaxTries - t)
         /\ l \in {"login", "umount"} => LeftAt(l, t) = 7
         /\ l \in {"findAgain", "info"} => LeftAt(l, t) = 6
         /\ l \in {"mpath", "findOld"} => LeftAt(l, t) = 5
         /\ l \in {"mount", "remove"} => LeftAt(l, t) = 4
         /\ l \in {"blkid", "count"} => LeftAt(l, t) = 3
         /\ l \in {"mkfs", "logout"} => LeftAt(l, t) = 2
         /\ l \in {"rollback", "mountAgain", "detach"} => LeftAt(l, t) = 1
         /\ l = "getdevice" => LeftAt(l, t) = 8
         /\ l \in {"idle", "ok", "err"} => LeftAt(l, t) = 0
  BY DEF LeftAt

LEMMA LeftBound ==
  ASSUME TypeInv, NEW p \in Procs
  PROVE  Left(p) \in 0..(8 + 2 * MaxTries) /\ (Running(p) => Left(p) > 0)
<1>1. pc[p] \in Labels /\ tries[p] \in 0..MaxTries /\ MaxTries \in Nat \ {0}
      /\ (pc[p] = "scan" => tries[p] < MaxTries)
  BY NodeAssumption DEF NodeAssumption, TypeInv, TypeOK, LabelOK
<1> QED
  BY <1>1, LeftRows DEF Left, Labels, Running

LEMMA StepShrinks ==
  ASSUME TypeInv, NEW p \in Procs, Step(p)
  PROVE  /\ Left(p)' < Left(p) /\ Left(p)' <= Left(p)
         /\ \A q \in Procs : q # p => pc'[q] = pc[q] /\ tries'[q] = tries[q]
<1>0. /\ MaxTries \in Nat \ {0} /\ DOMAIN pc = Procs /\ DOMAIN tries = Procs
      /\ tries[p] \in 0..MaxTries /\ (pc[p] = "scan" => tries[p] < MaxTries)
      /\ pc[p] = "attach" => tries[p] < MaxTries
  BY NodeAssumption DEF NodeAssumption, TypeInv, TypeOK, LabelOK
<1> USE <1>0 DEF Goto, KeepNode, KeepProc, hostVars, Left
<1>1. CASE AttachVolume(p)
  BY <1>1, LeftRows DEF AttachVolume
<1>2. CASE Scan(p)
  BY <1>2, LeftRows DEF Scan
<1>3. CASE FindDisk(p)
  BY <1>3, LeftRows DEF FindDisk, ScanAgain
<1>4. CASE Login(p)
  BY <1>4, LeftRows DEF Login
<1>5. CASE FindAgain(p)
  BY <1>5, LeftRows DEF FindAgain
<1>6. CASE FindMultiPathDev(p)
  BY <1>6, LeftRows DEF FindMultiPathDev
<1>7. CASE Rollback(p)
  BY <1>7, LeftRows DEF Rollback
<1>8. CASE Mount(p)
  BY <1>8, LeftRows DEF Mount, MountWith
<1>9. CASE GetDiskFormat(p)
  BY <1>9, LeftRows DEF GetDiskFormat
<1>10. CASE Mkfs(p)
  BY <1>10, LeftRows DEF Mkfs
<1>11. CASE MountAgain(p)
  BY <1>11, LeftRows DEF MountAgain, MountWith
<1>12. CASE GetDevice(p)
  BY <1>12, LeftRows DEF GetDevice
<1>13. CASE Unmount(p)
  BY <1>13, LeftRows DEF Unmount, NotUnmounted
<1>14. CASE GetVolumeAttachInfo(p)
  BY <1>14, LeftRows DEF GetVolumeAttachInfo, AfterNoAnswer
<1>15. CASE FindOldDisk(p)
  BY <1>15, LeftRows DEF FindOldDisk
<1>16. CASE RemoveDisk(p)
  BY <1>16, LeftRows DEF RemoveDisk
<1>17. CASE CountISCSISessionDevices(p)
  BY <1>17, LeftRows DEF CountISCSISessionDevices
<1>18. CASE LogoutAndDelete(p)
  BY <1>18, LeftRows DEF LogoutAndDelete
<1>19. CASE DetachVolume(p)
  BY <1>19, LeftRows DEF DetachVolume, Misread
<1> QED
  BY <1>1, <1>2, <1>3, <1>4, <1>5, <1>6, <1>7, <1>8, <1>9, <1>10, <1>11, <1>12, <1>13, <1>14, <1>15, <1>16, <1>17, <1>18, <1>19 DEF Step
(* MountDevice and UnMountDevice never loop: whatever other handlers do    *)
(* and whatever fails, an attempt is over after 8 steps, and two more for  *)
(* each scan of a search on FC.  (That it takes them is fairness, and that *)
(* a request is served in the end is PublishServed, a run's.)              *)
THEOREM AttemptsEnd ==
  Spec => [](\A p \in Procs : Left(p) \in 0..(8 + 2 * MaxTries)) /\ Shrinks
<1>1. TypeInv => \A p \in Procs : Left(p) \in 0..(8 + 2 * MaxTries)
  BY LeftBound
<1>2. TypeInv /\ [Next]_vars =>
        [\A p \in Procs : /\ Step(p) => Left(p)' < Left(p)
                          /\ Running(p) /\ Running(p)' => Left(p)' <= Left(p)]_vars
  <2> SUFFICES ASSUME TypeInv, Next, NEW p \in Procs
               PROVE  /\ Step(p) => Left(p)' < Left(p)
                      /\ Running(p) /\ Running(p)' => Left(p)' <= Left(p)
    OBVIOUS
  <2>1. Left(p) \in Nat
    <3>1. MaxTries \in Nat
      BY NodeAssumption DEF NodeAssumption
    <3> QED
      BY <3>1, LeftBound
  <2>2. CASE Step(p)
    BY <2>2, StepShrinks
  <2>3. CASE ~Step(p)
    <3>1. Running(p) /\ Running(p)' => pc'[p] = pc[p] /\ tries'[p] = tries[p]
      <4>1. CASE \E q \in Procs : q # p /\ Step(q)
        BY <4>1, StepShrinks
      <4>2. CASE \E q \in Procs : CallerStep(q)
        BY <4>2 DEF CallerStep, Call, Retry, Done, Kill, Begin, Goto, procVars, Running, TypeInv,
              TypeOK
      <4>3. CASE UNCHANGED vars
        BY <4>3 DEF vars, procVars
      <4> QED
        BY <2>3, <4>1, <4>2, <4>3 DEF Next, Rest, CallerStep
    <3> QED
      BY <2>1, <2>3, <3>1 DEF Left
  <2> QED
    BY <2>2, <2>3
<1>3. Spec => []TypeInv
  BY InitInv, TypeStep, PTL DEF Spec
<1> QED
  BY <1>1, <1>2, <1>3, PTL DEF Spec, Shrinks
=============================================================================
