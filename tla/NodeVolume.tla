----------------------------- MODULE NodeVolume -----------------------------
(***************************************************************************)
(* Publishing and unpublishing block volumes on one node: MountDevice and  *)
(* UnMountDevice of pkg/controller/controller.go, with the search and the  *)
(* removal of devices of pkg/host/fc.go and iscsi.go and FormatAndMount of *)
(* mount.go.  A volume is mapped on the array, the SCSI bus or the iSCSI   *)
(* session is scanned, its device found by its LUN, formatted if blank and *)
(* mounted; and all that is undone in the opposite order.                  *)
(*                                                                         *)
(* Handlers for different volumes share the bus, the session and the LUNs  *)
(* and run concurrently without a lock.  kubelet keeps one request per     *)
(* volume and sends a failed one again.  A command may not be sent, or its *)
(* answer be lost; a handler may be killed.  What AttachVolume and         *)
(* DetachVolume of the storage do is one step here; InStorageAttach has    *)
(* their commands.  A query that the array rejects is read as an empty     *)
(* answer (wrapper.go:59): a volume, or its host object, seems unmapped.   *)
(***************************************************************************)
EXTENDS Naturals, FiniteSets

CONSTANTS
  Vols,      \* block volumes
  Luns,      \* LUN ids the array gives to the maps of this node
  Procs,     \* handler slots
  Links,     \* the values of the setting host.link, of "fc" and "iscsi"
  MaxTries,  \* scans of an attach on FC (SCSIScanRetryTimes)
  MaxCalls,  \* bound: requests callers make, retries not counted
  MaxFaults  \* bound: commands that fail, handlers that are killed

NoLun == "no lun"
NoVol == "no volume"

ASSUME NodeAssumption ==
  /\ NoLun \notin Luns /\ NoVol \notin Vols
  /\ Links \subseteq {"fc", "iscsi"}
  /\ MaxTries \in Nat \ {0} /\ MaxCalls \in Nat /\ MaxFaults \in Nat

Labels == {"idle", "attach", "scan", "find", "login", "findAgain", "mpath", "rollback",
           "mount", "blkid", "mkfs", "mountAgain",
           "getdevice", "umount", "info", "findOld", "remove", "count", "logout",
           "detach", "ok", "err"}

VARIABLES
  link,      \* the setting host.link of the node
  lun,       \* [Vols -> Luns or NoLun]: the maps of the array
  content,   \* [Vols -> what is on the volume]
  devs,      \* LUNs with a device on the node (/dev/disk/by-path)
  session,   \* iSCSI: the node is logged in
  record,    \* iSCSI: iscsiadm has a record of the target
  mounted,   \* [Vols -> Luns or NoLun]: the device at the target path
  dead,      \* mounted volumes whose device was removed under them
  pc,        \* next step of each handler; "ok" and "err": its answer
  req,       \* [op, vol]
  at,        \* LunIDs of the ConnProperty it works with
  name,      \* the volume an unpublish found behind the target path
  tries,     \* scans done
  blind,     \* history: the handlers that took a rejected query for "not mapped"
  calls, faults

hostVars == <<devs, session, record, mounted, dead>>
procVars == <<at, name, tries, blind>>
vars == <<link, lun, content, hostVars, pc, req, procVars, calls, faults>>

TypeOK ==
  /\ link \in Links
  /\ lun \in [Vols -> Luns \cup {NoLun}]
  /\ \A v, w \in Vols : v # w /\ lun[v] # NoLun => lun[v] # lun[w]
  /\ content \in [Vols -> {"blank", "fs", "wiped"}]
  /\ devs \subseteq Luns
  /\ session \in BOOLEAN /\ record \in BOOLEAN
  /\ mounted \in [Vols -> Luns \cup {NoLun}]
  /\ dead \subseteq {v \in Vols : mounted[v] # NoLun}
  /\ pc \in [Procs -> Labels]
  /\ req \in [Procs -> [op : {"publish", "unpublish", "detach", "none"}, vol : Vols \cup {NoVol}]]
  /\ \A p \in Procs : pc[p] # "idle" => req[p].vol \in Vols
  /\ at \in [Procs -> Luns \cup {NoLun}]
  /\ name \in [Procs -> Vols \cup {NoVol}]
  /\ tries \in [Procs -> 0..MaxTries]
  /\ blind \subseteq Procs
  /\ calls \in 0..MaxCalls /\ faults \in 0..MaxFaults

Init ==
  /\ link \in Links
  /\ lun = [v \in Vols |-> NoLun]
  /\ content = [v \in Vols |-> "blank"]
  /\ devs = {} /\ session = FALSE /\ record = FALSE
  /\ mounted = [v \in Vols |-> NoLun] /\ dead = {}
  /\ pc = [p \in Procs |-> "idle"]
  /\ req = [p \in Procs |-> [op |-> "none", vol |-> NoVol]]
  /\ at = [p \in Procs |-> NoLun]
  /\ name = [p \in Procs |-> NoVol]
  /\ tries = [p \in Procs |-> 0]
  /\ blind = {}
  /\ calls = 0 /\ faults = 0

Running(p) == pc[p] \notin {"idle", "ok", "err"}
Vol(p) == req[p].vol
Mapped == {lun[v] : v \in Vols} \ {NoLun}

(* The volume a LUN shows, if it is mapped. *)
Behind(l) == {v \in Vols : lun[v] = l}

Goto(p, label) == pc' = [pc EXCEPT ![p] = label]

(* How a command ends; "lost" and "unsent" reach the handler as an error.  *)
Outcomes == {"done", "lost", "unsent"}
Replies == {"done", "error"}
Spend(o) ==
  /\ o # "done" => faults < MaxFaults
  /\ faults' = IF o = "done" THEN faults ELSE faults + 1
  /\ UNCHANGED calls

(* The devices of a set of LUNs go; a file system on them is cut off.      *)
DropDevices(L) ==
  /\ devs' = devs \ L
  /\ dead' = dead \cup {v \in Vols : mounted[v] \in devs \cap L}

-----------------------------------------------------------------------------
(* Callers *)

FirstLabel(op) ==
  CASE op = "publish" -> "attach" [] op = "unpublish" -> "getdevice" [] op = "detach" -> "detach"

Begin(p, r) ==
  /\ Goto(p, FirstLabel(r.op))
  /\ req' = [req EXCEPT ![p] = r]
  /\ at' = [at EXCEPT ![p] = NoLun]
  /\ name' = [name EXCEPT ![p] = IF r.op = "unpublish" THEN NoVol ELSE r.vol]
  /\ tries' = [tries EXCEPT ![p] = 0]
  /\ blind' = blind \ {p}
  /\ UNCHANGED <<link, lun, content, hostVars, faults>>

(* kubelet publishes what is not mounted and unpublishes what is; a volume *)
(* that is not in use is taken off the node by the attacher.               *)
Call(p) ==
  /\ pc[p] = "idle"
  /\ calls < MaxCalls
  /\ calls' = calls + 1
  /\ \E v \in Vols, op \in {"publish", "unpublish", "detach"} :
       /\ \A q \in Procs : pc[q] # "idle" => Vol(q) # v
       /\ (op = "unpublish") = (mounted[v] # NoLun)
       /\ Begin(p, [op |-> op, vol |-> v])

(* Asked again; kubelet does not publish a path that is a mount point.     *)
Retry(p) ==
  /\ pc[p] = "err"
  /\ req[p].op = "publish" => mounted[Vol(p)] = NoLun
  /\ Begin(p, req[p])
  /\ UNCHANGED calls

(* Answered, found mounted, or an unpublish given up with its pod.         *)
Done(p) ==
  /\ \/ pc[p] = "ok"
     \/ pc[p] = "err" /\ (req[p].op = "publish" => mounted[Vol(p)] # NoLun)
  /\ Goto(p, "idle")
  /\ req' = [req EXCEPT ![p] = [op |-> "none", vol |-> NoVol]]
  /\ at' = [at EXCEPT ![p] = NoLun]
  /\ name' = [name EXCEPT ![p] = NoVol]
  /\ tries' = [tries EXCEPT ![p] = 0]
  /\ blind' = blind \ {p}
  /\ UNCHANGED <<link, lun, content, hostVars, calls, faults>>

Kill(p) ==
  /\ Running(p)
  /\ faults < MaxFaults
  /\ faults' = faults + 1
  /\ Goto(p, "err")
  /\ UNCHANGED <<link, lun, content, hostVars, req, procVars, calls>>

-----------------------------------------------------------------------------
(* MountDevice: Attach *)

KeepNode == UNCHANGED <<hostVars, content>>
KeepProc == UNCHANGED <<link, req, name, blind>>

(* Mutant: a volume that is mapped already is refused. *)
NewLunOnly(v) == IF lun[v] = NoLun THEN Luns \ Mapped ELSE {}

LunsFor(v) == IF lun[v] = NoLun THEN Luns \ Mapped ELSE {lun[v]}

(* StorageUtil.AttachVolume: an existing map is kept, a new one gets a     *)
(* free LUN.                                                               *)
AttachVolume(p) ==
  /\ pc[p] = "attach"
  /\ KeepNode /\ KeepProc /\ UNCHANGED tries
  /\ \E o \in Outcomes :
       /\ Spend(o)
       /\ \/ /\ o # "unsent"
             /\ \E l \in LunsFor(Vol(p)) :
                  /\ lun' = [lun EXCEPT ![Vol(p)] = l]
                  /\ at' = [at EXCEPT ![p] = IF o = "done" THEN l ELSE @]
             /\ Goto(p, IF o = "done" THEN "scan" ELSE "err")
          \/ /\ o = "unsent" \/ LunsFor(Vol(p)) = {}
             /\ Goto(p, "err") /\ UNCHANGED <<lun, at>>

(* The rescan of the SCSI hosts, or of the iSCSI session, whose error is   *)
(* ignored: every mapped LUN gets its device.                              *)
Scan(p) ==
  /\ pc[p] = "scan"
  /\ KeepProc /\ UNCHANGED <<lun, content, session, record, mounted, dead, at>>
  /\ tries' = [tries EXCEPT ![p] = @ + 1]
  /\ \E r \in Replies :
       /\ Spend(r)
       /\ devs' = IF r = "done" /\ (link = "fc" \/ (session /\ record)) THEN devs \cup Mapped ELSE devs
  /\ Goto(p, "find")

(* Mutant: one scan too many. *)
ScanOnceMore(p) == tries[p] <= MaxTries

ScanAgain(p) == tries[p] < MaxTries

(* findDisks, findDiskByPath: on FC not finding the device is tried again  *)
(* after another scan, on iSCSI after a login.                             *)
FindDisk(p) ==
  /\ pc[p] = "find"
  /\ KeepNode /\ KeepProc /\ UNCHANGED <<lun, at, tries>>
  /\ \E r \in Replies :
       /\ Spend(r)
       /\ Goto(p, IF r = "done" /\ at[p] \in devs THEN "mpath"
                  ELSE IF link = "iscsi" THEN "login"
                  ELSE IF ScanAgain(p) THEN "scan" ELSE "rollback")

(* DiscoveryAndLogin.  A second login to a target is refused, and every    *)
(* failed one deletes the record of the target.                            *)
Login(p) ==
  /\ pc[p] = "login"
  /\ KeepProc /\ UNCHANGED <<lun, content, mounted, dead, at, tries>>
  /\ \E o \in Outcomes :
       LET accepted == o # "unsent" /\ ~session
       IN /\ Spend(o)
          /\ session' = (session \/ accepted)
          /\ devs' = IF accepted THEN devs \cup Mapped ELSE devs
          /\ record' = (accepted /\ o = "done")
          /\ Goto(p, IF accepted /\ o = "done" THEN "findAgain" ELSE "rollback")

FindAgain(p) ==
  /\ pc[p] = "findAgain"
  /\ KeepNode /\ KeepProc /\ UNCHANGED <<lun, at, tries>>
  /\ \E r \in Replies :
       Spend(r) /\ Goto(p, IF r = "done" /\ at[p] \in devs THEN "mpath" ELSE "rollback")

(* FindMultiPathDev, with ForceUseMultiPath: the multipath device may not  *)
(* come up in time.                                                        *)
FindMultiPathDev(p) ==
  /\ pc[p] = "mpath"
  /\ KeepNode /\ KeepProc /\ UNCHANGED <<lun, at, tries>>
  /\ \E r \in Replies :
       Spend(r) /\ Goto(p, IF r = "done" /\ at[p] \in devs THEN "mount" ELSE "rollback")

(* No device: the volume is detached on the storage, errors ignored; a     *)
(* rejected query leaves the map, as when nothing was sent.                *)
Rollback(p) ==
  /\ pc[p] = "rollback"
  /\ KeepNode /\ KeepProc /\ UNCHANGED <<at, tries>>
  /\ \E o \in Outcomes :
       /\ Spend(o)
       /\ lun' = IF o = "unsent" THEN lun ELSE [lun EXCEPT ![Vol(p)] = NoLun]
  /\ Goto(p, "err")

-----------------------------------------------------------------------------
(* MountDevice: FormatAndMount *)

(* mount takes a device with a file system, at a path that is free. *)
Mountable(p) ==
  /\ at[p] \in devs
  /\ \E v \in Behind(at[p]) : content[v] # "blank"
  /\ mounted[Vol(p)] = NoLun

MountWith(p, next) ==
  /\ KeepProc /\ UNCHANGED <<lun, content, devs, session, record, dead, at, tries>>
  /\ \E r \in Replies :
       /\ Spend(r)
       /\ IF r = "done" /\ Mountable(p)
            THEN mounted' = [mounted EXCEPT ![Vol(p)] = at[p]] /\ Goto(p, "ok")
            ELSE Goto(p, next) /\ UNCHANGED mounted

Mount(p) == pc[p] = "mount" /\ MountWith(p, "blkid")
MountAgain(p) == pc[p] = "mountAgain" /\ MountWith(p, "err")

(* Mutant: an error of blkid counts as "no format". *)
ErrorMeansBlank(r, p) ==
  r = "error" \/ \A v \in Behind(at[p]) : content[v] = "blank"

(* blkid's answer "unformatted", which is also the one for a device that   *)
(* is gone.                                                                *)
Unformatted(r, p) ==
  r = "done" /\ (at[p] \in devs => \A v \in Behind(at[p]) : content[v] = "blank")

GetDiskFormat(p) ==
  /\ pc[p] = "blkid"
  /\ KeepNode /\ KeepProc /\ UNCHANGED <<lun, at, tries>>
  /\ \E r \in Replies : Spend(r) /\ Goto(p, IF Unformatted(r, p) THEN "mkfs" ELSE "err")

Mkfs(p) ==
  /\ pc[p] = "mkfs"
  /\ KeepProc /\ UNCHANGED <<lun, hostVars, at, tries>>
  /\ \E o \in Outcomes :
       LET accepted == /\ o # "unsent" /\ at[p] \in devs
                       /\ \A v \in Behind(at[p]) : mounted[v] # at[p]
       IN /\ Spend(o)
          /\ content' = [v \in Vols |->
               IF accepted /\ v \in Behind(at[p])
                 THEN IF content[v] = "blank" THEN "fs" ELSE "wiped"
                 ELSE content[v]]
          /\ Goto(p, IF o = "done" /\ accepted THEN "mountAgain" ELSE "err")

-----------------------------------------------------------------------------
(* UnMountDevice *)

(* The device at the target path, and by its uid the volume behind it.     *)
GetDevice(p) ==
  /\ pc[p] = "getdevice"
  /\ KeepNode /\ UNCHANGED <<link, req, lun, at, tries, blind>>
  /\ \E r \in Replies :
       LET l == mounted[Vol(p)]
           found == IF r = "done" /\ l \in devs /\ Vol(p) \notin dead THEN Behind(l) ELSE {}
       IN /\ Spend(r)
          /\ IF l # NoLun /\ found # {}
               THEN (\E v \in found : name' = [name EXCEPT ![p] = v]) /\ Goto(p, "umount")
               ELSE Goto(p, "err") /\ UNCHANGED name

(* Mutant: an error of umount is only logged. *)
UmountErrorIgnored(r) == FALSE

NotUnmounted(r) == r = "error"

Unmount(p) ==
  /\ pc[p] = "umount"
  /\ KeepProc /\ UNCHANGED <<lun, content, devs, session, record, at, tries>>
  /\ \E r \in Replies :
       /\ Spend(r)
       /\ IF r = "done" /\ mounted[Vol(p)] # NoLun
            THEN /\ mounted' = [mounted EXCEPT ![Vol(p)] = NoLun]
                 /\ dead' = dead \ {Vol(p)}
            ELSE UNCHANGED <<mounted, dead>>
       /\ Goto(p, IF NotUnmounted(r) THEN "err" ELSE "info")

(* A rejected query, "blank", goes for an answer without rows. *)
Misread(p, r) == blind' = IF r = "blank" THEN blind \cup {p} ELSE blind

(* Mutant: an error of the query counts as "not attached on storage". *)
NoAnswerNoMap(r) == "ok"

AfterNoAnswer(r) == IF r = "error" THEN "err" ELSE "ok"

(* GetVolumeAttachInfo: without a map there is nothing left to do. *)
GetVolumeAttachInfo(p) ==
  /\ pc[p] = "info"
  /\ KeepNode /\ UNCHANGED <<link, req, name, lun, tries>>
  /\ \E r \in Replies \cup {"blank"} :
       /\ Spend(r) /\ Misread(p, r)
       /\ IF r = "done" /\ lun[name[p]] # NoLun
            THEN at' = [at EXCEPT ![p] = lun[name[p]]] /\ Goto(p, "findOld")
            ELSE Goto(p, AfterNoAnswer(r)) /\ UNCHANGED at

(* DetachDisk: the device is looked for without a scan ... *)
FindOldDisk(p) ==
  /\ pc[p] = "findOld"
  /\ KeepNode /\ KeepProc /\ UNCHANGED <<lun, at, tries>>
  /\ \E r \in Replies :
       Spend(r) /\ Goto(p, IF r = "done" /\ at[p] \in devs THEN "remove" ELSE "err")

(* ... and removed from the SCSI subsystem.                                *)
RemoveDisk(p) ==
  /\ pc[p] = "remove"
  /\ KeepProc /\ UNCHANGED <<lun, content, session, record, mounted, at, tries>>
  /\ \E o \in Outcomes :
       LET accepted == o # "unsent" /\ at[p] \in devs
       IN /\ Spend(o)
          /\ IF accepted THEN DropDevices({at[p]}) ELSE UNCHANGED <<devs, dead>>
          /\ Goto(p, IF ~(o = "done" /\ accepted) THEN "err"
                     ELSE IF link = "fc" THEN "detach" ELSE "count")

(* countISCSISessionDevices, two seconds later. *)
CountISCSISessionDevices(p) ==
  /\ pc[p] = "count"
  /\ KeepNode /\ KeepProc /\ UNCHANGED <<lun, at, tries>>
  /\ \E r \in Replies :
       Spend(r) /\ Goto(p, IF r = "error" THEN "err" ELSE IF devs # {} THEN "detach" ELSE "logout")

(* LogoutAndDelete, whose error is only logged: the session, with all its  *)
(* devices, then the record of the target.                                 *)
LogoutAndDelete(p) ==
  /\ pc[p] = "logout"
  /\ KeepProc /\ UNCHANGED <<lun, content, mounted, at, tries>>
  /\ \E o \in Outcomes :
       LET accepted == o # "unsent" /\ session /\ record
       IN /\ Spend(o)
          /\ session' = (session /\ ~accepted)
          /\ record' = (record /\ ~(accepted /\ o = "done"))
          /\ IF accepted THEN DropDevices(devs) ELSE UNCHANGED <<devs, dead>>
  /\ Goto(p, "detach")

(* StorageUtil.DetachVolume; a rejected query for the host object, or for  *)
(* the map, ends it with success.                                          *)
DetachVolume(p) ==
  /\ pc[p] = "detach"
  /\ KeepNode /\ UNCHANGED <<link, req, name, at, tries>>
  /\ \E o \in Outcomes \cup {"blank"} :
       /\ Spend(o) /\ Misread(p, o)
       /\ lun' = IF o \in {"unsent", "blank"} THEN lun ELSE [lun EXCEPT ![name[p]] = NoLun]
       /\ Goto(p, IF o \in {"done", "blank"} THEN "ok" ELSE "err")

-----------------------------------------------------------------------------
Step(p) ==
  \/ AttachVolume(p) \/ Scan(p) \/ FindDisk(p) \/ Login(p) \/ FindAgain(p)
  \/ FindMultiPathDev(p) \/ Rollback(p)
  \/ Mount(p) \/ GetDiskFormat(p) \/ Mkfs(p) \/ MountAgain(p)
  \/ GetDevice(p) \/ Unmount(p) \/ GetVolumeAttachInfo(p) \/ FindOldDisk(p) \/ RemoveDisk(p)
  \/ CountISCSISessionDevices(p) \/ LogoutAndDelete(p) \/ DetachVolume(p)

(* The bound on requests is reached and all are answered. *)
Rest ==
  /\ calls = MaxCalls
  /\ \A p \in Procs : pc[p] = "idle"
  /\ UNCHANGED vars

Next ==
  \/ \E p \in Procs : Call(p) \/ Retry(p) \/ Done(p) \/ Kill(p) \/ Step(p)
  \/ Rest

Spec == Init /\ [][Next]_vars

(* A handler runs on and its caller asks again until it is answered.       *)
Fairness == \A p \in Procs : WF_vars(Step(p)) /\ WF_vars(Retry(p)) /\ WF_vars(Done(p))
FairSpec == Spec /\ Fairness

-----------------------------------------------------------------------------
(* Properties *)

(* What is mounted for a volume reaches that volume: its map stays, under  *)
(* the LUN of the mounted device, while handlers of other volumes take and *)
(* return LUNs, and on FC no handler removes the device under the file     *)
(* system (Detach, Attach's clean-up, RemoveDisk).  On iSCSI a logout may; *)
(* see LogoutWhenEmpty.                                                    *)
MountedReachable ==
  \A v \in Vols : mounted[v] # NoLun => lun[v] = mounted[v] /\ (link = "fc" => v \notin dead)

(* On FC no volume is formatted twice, whatever fails between the search   *)
(* for its device and its mount: FormatAndMount formats a device only if   *)
(* blkid finds nothing on it.  (On iSCSI a logout between mount and blkid  *)
(* makes a formatted volume look blank, and a login before mkfs brings it  *)
(* back.)                                                                  *)
NeverWiped == link = "fc" => \A v \in Vols : content[v] # "wiped"

(* An unpublish that is answered with success has unmounted the volume of  *)
(* its target path and removed that volume's map, and no other's: it finds *)
(* the volume by the uid of the mounted device (UnMountDevice).  The map   *)
(* is left only when this very attempt met a query that the array          *)
(* rejected, which the code cannot tell from "not mapped"; neither a fault *)
(* of another kind nor an earlier attempt leads to that.                   *)
UnpublishSound ==
  \A p \in Procs :
    pc[p] = "ok" /\ req[p].op = "unpublish" =>
      /\ mounted[Vol(p)] = NoLun /\ name[p] = Vol(p)
      /\ lun[Vol(p)] = NoLun \/ p \in blind

(* On FC a volume that is asked for gets mounted once faults stop: no      *)
(* half done attempt and no device a detach left behind keeps the next one *)
(* from finding, formatting or mounting it.                                *)
PublishServed ==
  \A p \in Procs, v \in Vols :
    link = "fc" /\ Running(p) /\ req[p] = [op |-> "publish", vol |-> v] ~> mounted[v] # NoLun

(* "no device belong to the session, logout": when DetachDisk logs out, no *)
(* device is taken from a handler or a pod that uses it.                   *)
LogoutWhenEmpty == [][session /\ ~session' => devs = {}]_vars
=============================================================================
