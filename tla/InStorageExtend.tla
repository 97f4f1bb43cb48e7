--------------------------- MODULE InStorageExtend ---------------------------
(***************************************************************************)
(* Extending a mounted volume: NodeExpandVolume of the CSI plugin, or      *)
(* expandfs of the flexvolume driver, calls ExtendVolume of                *)
(* pkg/controller/controller.go, which freezes the file system, has        *)
(* StorageUtil.ExtendVolume extend the volume on the array, thaws, rescans *)
(* the device and grows the file system.  An active-active volume is four  *)
(* vdisks whose relationship is removed, extended and made again in nine   *)
(* commands; when one fails, a barrier file on the node stops all          *)
(* extensions until an operator has put the volume right by hand.          *)
(*                                                                         *)
(* Handlers run concurrently without a lock.  A command may not be sent,   *)
(* or its answer be lost; a query may be rejected, which some callers read *)
(* as an answer without rows; a step on the node may fail; the process may *)
(* die, of a panic too; kubelet sends a failed request again.              *)
(***************************************************************************)
EXTENDS Naturals, Sequences, FiniteSets, FiniteSetsExt

CONSTANTS
  Vols,      \* volumes mounted on the node
  AAVols,    \* those of them that are active-active
  Procs,     \* handler slots
  GB,        \* bytes in a gigabyte
  FirstSize, \* the size of every volume in the beginning, in gigabytes
  Asks,      \* the requests callers make: [vol, bytes]
  Room,      \* the capacity of each of the two pools, in gigabytes
  MaxCalls,  \* bound: requests callers make, retries not counted
  MaxFaults  \* bound: commands and steps that fail, handlers that are killed,
             \* extensions refused while the volume is formatted or copied

ASSUME ExtendAssumption ==
  /\ IsFiniteSet(Vols) /\ AAVols \subseteq Vols
  /\ GB \in Nat \ {0} /\ Room \in Nat /\ FirstSize \in 1..Room
  /\ Asks \subseteq [vol : Vols, bytes : Nat]
  /\ MaxCalls \in Nat /\ MaxFaults \in Nat

Parts == {"master", "aux", "masterCV", "auxCV"}
PartsOf(v) == IF v \in AAVols THEN Parts ELSE {"master"}

(* What ties the parts of an active-active volume together: the            *)
(* relationship, the access of the second site, the change volumes.        *)
Links == {"relation", "access", "masterCV", "auxCV"}

NoRequest == [vol |-> "no volume", bytes |-> 0]
Labels == {"idle", "attachInfo", "needfreeze", "freeze", "barrier", "lsvdisk", "check",
           "lssystem", "expand", "task", "mkbarrier", "thaw", "rescan", "blkid", "growfs",
           "ok", "err"}

VARIABLES
  size,     \* [Vols -> [Parts -> Nat]], in gigabytes
  links,    \* [Vols -> SUBSET Links]
  barrier,  \* the barrier file exists
  frozen,   \* volumes whose file system is frozen
  dev, fs,  \* what device and file system on the node know of the size
  pc,       \* next step of each handler; "ok" and "err": its answer
  req,      \* the volume and the bytes it was asked for
  old,      \* oldSize, as its lsvdisk showed it
  shape,    \* the handlers whose lsvdisk showed an aux volume
  step,     \* the next task of an active-active extension
  failed,   \* the handlers on the way back with an error
  needFreezeFS, \* the handlers that freeze, and will thaw, the file system
  asked,    \* history: the largest size asked for, in gigabytes
  harmed,   \* history: what failed, or was cut short, where the code goes on regardless
  calls, faults

arrayVars == <<size, links>>
nodeVars == <<barrier, frozen, dev, fs>>
procVars == <<req, old, shape, step, failed, needFreezeFS>>
vars == <<arrayVars, nodeVars, pc, procVars, asked, harmed, calls, faults>>

(* What concerns one attempt only, and is forgotten at the next. *)
OfAttempt == {"attach", "freeze", "repair", "rescan", "format"}
Harms == Vols \X ({"tasks", "thaw"} \cup OfAttempt)

TypeOK ==
  /\ size \in [Vols -> [Parts -> 0..Room]]
  /\ links \in [Vols -> SUBSET Links]
  /\ barrier \in BOOLEAN
  /\ frozen \subseteq Vols
  /\ dev \in [Vols -> 0..Room] /\ fs \in [Vols -> 0..Room]
  /\ pc \in [Procs -> Labels]
  /\ req \in [Procs -> Asks \cup {NoRequest}]
  /\ \A p \in Procs : pc[p] # "idle" => req[p] \in Asks
  /\ old \in [Procs -> 0..Room]
  /\ shape \subseteq Procs /\ failed \subseteq Procs /\ needFreezeFS \subseteq Procs
  /\ step \in [Procs -> 1..9]
  /\ asked \in [Vols -> Nat]
  /\ harmed \subseteq Harms
  /\ calls \in 0..MaxCalls /\ faults \in 0..MaxFaults

Init ==
  /\ size = [v \in Vols |-> [x \in Parts |-> IF x \in PartsOf(v) THEN FirstSize ELSE 0]]
  /\ links = [v \in Vols |-> IF v \in AAVols THEN Links ELSE {}]
  /\ barrier = FALSE /\ frozen = {}
  /\ dev = [v \in Vols |-> FirstSize] /\ fs = dev
  /\ pc = [p \in Procs |-> "idle"]
  /\ req = [p \in Procs |-> NoRequest]
  /\ old = [p \in Procs |-> 0]
  /\ shape = {} /\ failed = {} /\ needFreezeFS = {}
  /\ step = [p \in Procs |-> 1]
  /\ asked = [v \in Vols |-> FirstSize]
  /\ harmed = {}
  /\ calls = 0 /\ faults = 0

Running(p) == pc[p] \notin {"idle", "ok", "err"}
Vol(p) == req[p].vol

(* The size asked for, in whole gigabytes: a started one is not counted.   *)
NewSize(p) == req[p].bytes \div GB

(* Mutant: the new size is sent where its difference to the old is meant.  *)
WholeSize(p) == NewSize(p)

Addition(p) == NewSize(p) - old[p]

Goto(p, label) == pc' = [pc EXCEPT ![p] = label]

(* Mutant: the error of a command is lost on the way back. *)
ReturnNil(p, error) == Goto(p, "thaw") /\ UNCHANGED failed

(* Back to the caller, through the thaw. *)
Return(p, error) ==
  /\ Goto(p, "thaw")
  /\ failed' = IF error THEN failed \cup {p} ELSE failed

Outcomes == {"done", "lost", "unsent"}
Replies == {"done", "error"}

(* A rejected query reads as an answer without rows (CLIWrapper.query). *)
QueryReplies == Replies \cup {"blank"}
Spend(o) ==
  /\ o # "done" => faults < MaxFaults
  /\ faults' = IF o = "done" THEN faults ELSE faults + 1
  /\ UNCHANGED calls

Harm(p, what) == harmed' = harmed \cup {<<Vol(p), what>>}

(* What the array still has in the pools of the two sites. *)
Used(part) == MapThenSumSet(LAMBDA v : size[v][part], Vols)
Free(site) == Room - IF site = 1 THEN Used("master") + Used("masterCV")
                                 ELSE Used("aux") + Used("auxCV")
SiteOf(part) == IF part \in {"master", "masterCV"} THEN 1 ELSE 2

-----------------------------------------------------------------------------
(* Callers: kubelet has one request for a volume at work until it is       *)
(* answered; a failed one is sent again.                                   *)

Begin(p, r) ==
  /\ \A q \in Procs \ {p} : pc[q] \notin {"idle", "err"} => Vol(q) # r.vol
  /\ Goto(p, "attachInfo")
  /\ req' = [req EXCEPT ![p] = r]
  /\ old' = [old EXCEPT ![p] = 0]
  /\ shape' = shape \ {p} /\ failed' = failed \ {p} /\ needFreezeFS' = needFreezeFS \ {p}
  /\ step' = [step EXCEPT ![p] = 1]
  /\ asked' = [asked EXCEPT ![r.vol] = Max({@, r.bytes \div GB})]
  /\ harmed' = harmed \ ({r.vol} \X OfAttempt)
  /\ UNCHANGED <<arrayVars, nodeVars, faults>>

Call(p) ==
  /\ pc[p] = "idle"
  /\ calls < MaxCalls
  /\ calls' = calls + 1
  /\ \E r \in Asks : Begin(p, r)

Retry(p) ==
  /\ pc[p] = "err"
  /\ Begin(p, req[p])
  /\ UNCHANGED calls

(* Answered; or given up when the volume is larger than asked for by now.  *)
Done(p) ==
  /\ pc[p] = "ok" \/ (pc[p] = "err" /\ size[Vol(p)]["master"] > NewSize(p))
  /\ Goto(p, "idle")
  /\ req' = [req EXCEPT ![p] = NoRequest]
  /\ old' = [old EXCEPT ![p] = 0]
  /\ shape' = shape \ {p} /\ failed' = failed \ {p} /\ needFreezeFS' = needFreezeFS \ {p}
  /\ step' = [step EXCEPT ![p] = 1]
  /\ UNCHANGED <<arrayVars, nodeVars, asked, harmed, calls, faults>>

(* What the end of a set of handlers leaves half done. *)
Cut(K) ==
  harmed' = harmed \cup
    {<<Vol(p), "tasks">> : p \in {q \in K : pc[q] \in {"task", "mkbarrier"}}} \cup
    {<<Vol(p), "thaw">> : p \in {q \in K : Running(q) /\ Vol(q) \in frozen}}

(* The process of a handler ends: its own, of the flexvolume driver, or    *)
(* the CSI plugin with all its handlers.                                   *)
ProcessEnds(p) ==
  \E K \in {{p}, Procs} :
    /\ pc' = [q \in Procs |-> IF q \in K /\ Running(q) THEN "err" ELSE pc[q]]
    /\ Cut(K)

Kill(p) ==
  /\ Running(p)
  /\ faults < MaxFaults
  /\ faults' = faults + 1
  /\ ProcessEnds(p)
  /\ UNCHANGED <<arrayVars, nodeVars, procVars, asked, calls>>

-----------------------------------------------------------------------------
(* controller.ExtendVolume *)

(* GetVolumeAttachInfo of a volume that is attached.  A query that is      *)
(* rejected reads as a host or a map that is not there: the property is    *)
(* nil, and the answer success with nothing extended.                      *)
AttachInfo(p) ==
  /\ pc[p] = "attachInfo"
  /\ \E r \in QueryReplies :
       /\ Spend(r)
       /\ Goto(p, CASE r = "done" -> "needfreeze" [] r = "error" -> "err" [] r = "blank" -> "ok")
       /\ IF r = "blank" THEN Harm(p, "attach") ELSE UNCHANGED harmed
  /\ UNCHANGED <<arrayVars, nodeVars, procVars, asked>>

FourRows(v) == {"relation", "masterCV", "auxCV"} \subseteq links[v]

(* Mutant: a file system is frozen only when the query says so. *)
NoFreezeOnError(v, r) == IF r = "done" THEN {FourRows(v), v \in AAVols} ELSE {FALSE}

(* aaSpecificOptionCheck: flexvolume passes options, whose level says what *)
(* the volume is; the CSI plugin passes none, and the number of rows of    *)
(* lsvdisk decides, or its error.                                          *)
NeedFreeze(v, r) ==
  CASE r = "done"  -> {FourRows(v), v \in AAVols}
    [] r = "error" -> {TRUE}
    [] r = "blank" -> {FALSE}

NeedFreezeFSWhenExtend(p) ==
  /\ pc[p] = "needfreeze"
  /\ \E r \in QueryReplies : \E need \in NeedFreeze(Vol(p), r) :
       /\ Spend(r)
       /\ needFreezeFS' = IF need THEN needFreezeFS \cup {p} ELSE needFreezeFS
       /\ Goto(p, IF need THEN "freeze" ELSE "barrier")
       /\ IF r = "blank" THEN Harm(p, "freeze") ELSE UNCHANGED harmed
  /\ UNCHANGED <<arrayVars, nodeVars, req, old, shape, step, failed, asked>>

(* FIFreeze, whose error is ignored. *)
Freeze(p) ==
  /\ pc[p] = "freeze"
  /\ \E r \in Replies :
       /\ Spend(r)
       /\ frozen' = IF r = "done" THEN frozen \cup {Vol(p)} ELSE frozen
       /\ IF r = "done" THEN UNCHANGED harmed ELSE Harm(p, "freeze")
  /\ Goto(p, "barrier")
  /\ UNCHANGED <<arrayVars, barrier, dev, fs, procVars, asked>>

(* Mutant: an error is returned at once. *)
ReturnWithoutThaw(p) == p \in needFreezeFS \ failed

ThawNow(p) == p \in needFreezeFS

(* FIThaw, whose error is ignored, on both ways back. *)
Thaw(p) ==
  /\ pc[p] = "thaw"
  /\ \E r \in IF p \in needFreezeFS THEN Replies ELSE {"done"} :
       /\ Spend(r)
       /\ frozen' = IF ThawNow(p) /\ r = "done" THEN frozen \ {Vol(p)} ELSE frozen
       /\ IF r = "done" THEN UNCHANGED harmed ELSE Harm(p, "thaw")
  /\ Goto(p, IF p \in failed THEN "err" ELSE "rescan")
  /\ UNCHANGED <<arrayVars, barrier, dev, fs, procVars, asked>>

(* ExtendDisk: a rescan that fails is only logged; no device found, or     *)
(* multipathd not answering, is an error, or, of an iSCSI volume for which *)
(* multipath is not demanded, a panic: the first of no devices is taken.   *)
ExtendDisk(p) ==
  /\ pc[p] = "rescan"
  /\ \E r \in {"done", "skipped", "error", "panic"} :
       /\ Spend(r)
       /\ dev' = IF r = "done" THEN [dev EXCEPT ![Vol(p)] = size[Vol(p)]["master"]] ELSE dev
       /\ CASE r = "done"    -> Goto(p, "blkid") /\ UNCHANGED harmed
            [] r = "skipped" -> Goto(p, "blkid") /\ Harm(p, "rescan")
            [] r = "error"   -> Goto(p, "err") /\ UNCHANGED harmed
            [] r = "panic"   -> ProcessEnds(p)
  /\ UNCHANGED <<arrayVars, barrier, frozen, fs, procVars, asked>>

(* GetDiskFormat: a device on which blkid finds no file system is answered *)
(* with success, as it is.                                                 *)
GetDiskFormat(p) ==
  /\ pc[p] = "blkid"
  /\ \E r \in {"done", "error", "unformatted"} :
       /\ Spend(r)
       /\ Goto(p, CASE r = "done" -> "growfs" [] r = "error" -> "err" [] r = "unformatted" -> "ok")
       /\ IF r = "unformatted" THEN Harm(p, "format") ELSE UNCHANGED harmed
  /\ UNCHANGED <<arrayVars, nodeVars, procVars, asked>>

(* ExtendFS: resize2fs or xfs_growfs, which wait while the file system is  *)
(* frozen.                                                                 *)
ExtendFS(p) ==
  /\ pc[p] = "growfs"
  /\ Vol(p) \notin frozen
  /\ \E r \in Replies :
       /\ Spend(r)
       /\ fs' = IF r = "done" THEN [fs EXCEPT ![Vol(p)] = dev[Vol(p)]] ELSE fs
       /\ Goto(p, IF r = "done" THEN "ok" ELSE "err")
  /\ UNCHANGED <<arrayVars, barrier, frozen, dev, procVars, asked, harmed>>

-----------------------------------------------------------------------------
(* StorageUtil.ExtendVolume *)

CheckBarrier(p) ==
  /\ pc[p] = "barrier"
  /\ IF barrier THEN Return(p, TRUE) ELSE Goto(p, "lsvdisk") /\ UNCHANGED failed
  /\ UNCHANGED <<arrayVars, nodeVars, req, old, shape, step, needFreezeFS, asked, harmed, calls, faults>>

(* Mutant: a volume that has the size already is an error. *)
MustGrow(p, now) == Return(p, TRUE)

AlreadyThere(p, now) == Return(p, FALSE)

(* buildVolumeInfos, and the comparison of the sizes.  The rows of a       *)
(* volume are four, told apart by their function, while the relationship   *)
(* is there, and one without it.  With the relationship but without a      *)
(* change volume the code dereferences nil: the process dies.              *)
LsVdisk(p) ==
  /\ pc[p] = "lsvdisk"
  /\ LET v == Vol(p)
         now == size[v]["master"]
     IN \/ /\ Spend("error")
           /\ Return(p, TRUE)
           /\ UNCHANGED <<old, shape, harmed>>
        \/ /\ links[v] \cap {"relation", "masterCV", "auxCV"} \in
                {{}, {"relation", "masterCV", "auxCV"}}
           /\ Spend("done")
           /\ old' = [old EXCEPT ![p] = now]
           /\ shape' = IF "relation" \in links[v] THEN shape \cup {p} ELSE shape
           /\ CASE NewSize(p) = now -> AlreadyThere(p, now)
                [] NewSize(p) < now -> Return(p, TRUE)
                [] NewSize(p) > now -> Goto(p, "check") /\ UNCHANGED failed
           /\ UNCHANGED harmed
        \/ /\ "relation" \in links[v] /\ ~ {"masterCV", "auxCV"} \subseteq links[v]
           /\ Spend("done")
           /\ ProcessEnds(p)
           /\ UNCHANGED <<old, shape, failed>>
  /\ UNCHANGED <<arrayVars, nodeVars, req, step, needFreezeFS, asked>>

(* canVolumeBeExtend: the pools have room for the vdisks of each site, and *)
(* no vdisk is being formatted or has a local copy of its own, which is up *)
(* to the array and to who takes snapshots.                                *)
CanVolumeBeExtend(p) ==
  /\ pc[p] = "check"
  /\ \E r \in Replies \cup {"formatting", "copied"} :
       LET enough == IF p \in shape
                       THEN \A site \in 1..2 : Free(site) >= 2 * Addition(p)
                       ELSE Free(1) >= Addition(p)
       IN /\ Spend(r)
          /\ IF r # "done" \/ ~enough
               THEN Return(p, TRUE)
               ELSE Goto(p, IF p \in shape THEN "lssystem" ELSE "expand") /\ UNCHANGED failed
  /\ UNCHANGED <<arrayVars, nodeVars, req, old, shape, step, needFreezeFS, asked, harmed>>

(* lssystem, for the name of the cluster.  A rejected one names none, and  *)
(* is as a mkrcrelationship that is not taken.                             *)
LsSystem(p) ==
  /\ pc[p] = "lssystem"
  /\ \E r \in Replies :
       /\ Spend(r)
       /\ IF r = "error" THEN Return(p, TRUE) ELSE Goto(p, "task") /\ UNCHANGED failed
  /\ UNCHANGED <<arrayVars, nodeVars, req, old, shape, step, needFreezeFS, asked, harmed>>

(* expandvdisksize: the array adds to the size it has. *)
ExpandAccepted(part, addition) == Free(SiteOf(part)) >= addition
ExpandApply(v, part, addition) ==
  /\ size' = [size EXCEPT ![v][part] = @ + addition]
  /\ UNCHANGED links

Expand(p) ==
  /\ pc[p] = "expand"
  /\ \E o \in Outcomes :
       LET accepted == ExpandAccepted("master", Addition(p))
       IN /\ Spend(o)
          /\ IF o # "unsent" /\ accepted
               THEN ExpandApply(Vol(p), "master", Addition(p))
               ELSE UNCHANGED arrayVars
          /\ Return(p, ~(o = "done" /\ accepted))
  /\ UNCHANGED <<nodeVars, req, old, shape, step, needFreezeFS, asked, harmed>>

(* The tasks of extendActiveActiveVolumeV2. *)
Tasks ==
  << <<"rmrc", "relation">>,
     <<"expand", "master">>, <<"expand", "aux">>, <<"expand", "masterCV">>, <<"expand", "auxCV">>,
     <<"mkrc", "relation">>, <<"link", "access">>, <<"link", "masterCV">>, <<"link", "auxCV">> >>

(* The array makes a relationship of volumes of one size only, and takes a *)
(* change volume of the size of its volume.                                *)
TaskAccepted(p, cmd, x) ==
  LET v == Vol(p)
  IN CASE cmd = "rmrc"   -> "relation" \in links[v]
       [] cmd = "expand" -> ExpandAccepted(x, Addition(p))
       [] cmd = "mkrc"   -> "relation" \notin links[v] /\ size[v]["master"] = size[v]["aux"]
       [] cmd = "link"   -> /\ "relation" \in links[v]
                            /\ x \in Parts => size[v][x] = size[v]["master"]
TaskApply(p, cmd, x) ==
  LET v == Vol(p)
  IN CASE cmd = "rmrc"   -> links' = [links EXCEPT ![v] = {}] /\ UNCHANGED size
       [] cmd = "expand" -> ExpandApply(v, x, Addition(p))
       [] cmd \in {"mkrc", "link"} ->
            links' = [links EXCEPT ![v] = @ \cup {x}] /\ UNCHANGED size

(* Mutant: one task too many. *)
TaskAfterLast(i) == i > Len(Tasks)

LastTask(i) == i = Len(Tasks)

(* Mutant: a failed extension leaves no barrier. *)
NoBarrier == "thaw"

AfterFailedTask == "mkbarrier"

Task(p) ==
  /\ pc[p] = "task"
  /\ \E o \in Outcomes :
       LET cmd == Tasks[step[p]][1]
           x == Tasks[step[p]][2]
           accepted == TaskAccepted(p, cmd, x)
       IN /\ Spend(o)
          /\ IF o # "unsent" /\ accepted THEN TaskApply(p, cmd, x) ELSE UNCHANGED arrayVars
          /\ IF o = "done" /\ accepted
               THEN IF LastTask(step[p])
                      THEN Return(p, FALSE) /\ UNCHANGED step
                      ELSE /\ step' = [step EXCEPT ![p] = @ + 1]
                           /\ UNCHANGED <<pc, failed>>
               ELSE /\ Goto(p, AfterFailedTask)
                    /\ failed' = failed \cup {p}
                    /\ UNCHANGED step
  /\ UNCHANGED <<nodeVars, req, old, shape, needFreezeFS, asked, harmed>>

(* createAAExtendFailedBarrier; that it fails is only logged. *)
MkBarrier(p) ==
  /\ pc[p] = "mkbarrier"
  /\ \E r \in Replies :
       /\ Spend(r)
       /\ barrier' = (barrier \/ r = "done")
       /\ IF r = "done" THEN UNCHANGED harmed ELSE Harm(p, "tasks")
  /\ Goto(p, "thaw")
  /\ UNCHANGED <<arrayVars, frozen, dev, fs, procVars, asked>>

Whole(v) == links[v] = IF v \in AAVols THEN Links ELSE {}

(* The operator does what the barrier file says: corrects the volumes no   *)
(* extension is working on, and removes the file.                          *)
Operator ==
  /\ barrier
  /\ LET todo == {v \in AAVols : \A p \in Procs : pc[p] \in {"task", "mkbarrier"} => Vol(p) # v}
         largest(v) == Max({size[v][x] : x \in Parts})
     IN /\ size' = [v \in Vols |-> IF v \in todo THEN [x \in Parts |-> largest(v)] ELSE size[v]]
        /\ links' = [v \in Vols |-> IF v \in todo THEN Links ELSE links[v]]
        /\ harmed' = harmed \cup
             {<<Vol(p), "repair">> : p \in {q \in Procs : Running(q) /\ Vol(q) \in todo /\ ~Whole(Vol(q))}}
  /\ barrier' = FALSE
  /\ UNCHANGED <<frozen, dev, fs, pc, procVars, asked, calls, faults>>

-----------------------------------------------------------------------------
Step(p) ==
  \/ AttachInfo(p) \/ NeedFreezeFSWhenExtend(p) \/ Freeze(p)
  \/ CheckBarrier(p) \/ LsVdisk(p) \/ CanVolumeBeExtend(p)
  \/ LsSystem(p) \/ Expand(p) \/ Task(p) \/ MkBarrier(p) \/ Thaw(p)
  \/ ExtendDisk(p) \/ GetDiskFormat(p) \/ ExtendFS(p)

(* A file system left frozen holds its handler, and the requests behind.   *)
Waits(v) == v \in frozen /\ \E p \in Procs : pc[p] = "growfs" /\ Vol(p) = v

(* The bound on requests is reached; all are answered, or wait for ever.   *)
Rest ==
  /\ \A p \in Procs : IF pc[p] = "idle" THEN calls = MaxCalls ELSE Waits(Vol(p))
  /\ ~barrier
  /\ UNCHANGED vars

Next ==
  \/ \E p \in Procs : Call(p) \/ Retry(p) \/ Done(p) \/ Kill(p) \/ Step(p)
  \/ Operator
  \/ Rest

Spec == Init /\ [][Next]_vars

(* Handlers run on, kubelet asks again, and the operator answers to a      *)
(* barrier.                                                                *)
Fairness ==
  /\ \A p \in Procs : WF_vars(Step(p)) /\ SF_vars(Retry(p)) /\ WF_vars(Done(p))
  /\ WF_vars(Operator)
FairSpec == Spec /\ Fairness

-----------------------------------------------------------------------------
(* Properties *)

(* An extension that is answered with success has every vdisk of the       *)
(* volume at least at the size asked for, the relationship complete and    *)
(* the file system grown, whichever attempts failed before.  The code      *)
(* cannot tell, and answers success as well: after an earlier attempt that *)
(* was killed between its tasks; when a rejected query reads as a volume   *)
(* that is not attached (controller.ExtendVolume); and, as to the file     *)
(* system only, when the rescan was refused, or blkid found no file system *)
(* (ExtendFS).                                                             *)
ExtendSound ==
  \A p \in Procs :
    pc[p] = "ok" /\ {<<Vol(p), "tasks">>, <<Vol(p), "attach">>} \cap harmed = {}
      => /\ \A x \in PartsOf(Vol(p)) : size[Vol(p)][x] >= NewSize(p)
         /\ Whole(Vol(p))
         /\ \/ fs[Vol(p)] >= NewSize(p)
            \/ {<<Vol(p), "rescan">>, <<Vol(p), "format">>} \cap harmed # {}

(* No vdisk outgrows what was asked for, although the array is told how    *)
(* much to add, and answers of additions are lost and asked for again.     *)
NeverTooLarge == \A v \in Vols : \A x \in Parts : size[v][x] <= asked[v]

(* A volume whose parts are not tied together is being worked on, or the   *)
(* barrier keeps extensions away from it (createAAExtendFailedBarrier).    *)
BrokenIsBarred ==
  \A v \in Vols :
    \/ Whole(v)
    \/ barrier
    \/ \E p \in Procs : pc[p] \in {"task", "mkbarrier"} /\ Vol(p) = v
    \/ <<v, "tasks">> \in harmed

(* The file system is frozen while the tasks of an active-active volume    *)
(* run, whether the options or the rows of lsvdisk said that it must       *)
(* (NeedFreezeFSWhenExtend), unless that query was rejected, FIFreeze      *)
(* failed, or the operator put the volume right between the query and the  *)
(* tasks.                                                                  *)
QuietDuringTasks ==
  \A p \in Procs :
    pc[p] = "task" => \/ Vol(p) \in frozen
                      \/ {<<Vol(p), "freeze">>, <<Vol(p), "repair">>} \cap harmed # {}

(* "We must thaw the path before return": no file system stays frozen      *)
(* after the extension, unless the thaw failed or the process died.        *)
Thawed ==
  \A v \in frozen :
    \/ \E p \in Procs : Running(p) /\ Vol(p) = v
    \/ <<v, "thaw">> \in harmed

(* An extension is served in the end, once the operator has repaired what  *)
(* a failed one left and the volume is neither formatted nor copied, if    *)
(* the pools have room and nobody asks for more; but                       *)
(* a thaw that failed leaves the growing of the file system waiting, and   *)
(* the requests behind it, and an attempt killed between its tasks leaves  *)
(* no barrier and a volume the plugin may die of at every retry.           *)
Fits(p) ==
  /\ NewSize(p) >= size[Vol(p)]["master"]
  /\ IF Vol(p) \in AAVols
       THEN \A site \in 1..2 : Free(site) >= 2 * (NewSize(p) - size[Vol(p)]["master"])
       ELSE Free(1) >= NewSize(p) - size[Vol(p)]["master"]
ExtendsServed ==
  \A p \in Procs :
    Running(p) ~> \/ pc[p] = "ok"
                  \/ pc[p] # "idle" /\ ~Fits(p)
                  \/ Waits(Vol(p))
                  \/ \E v \in Vols : <<v, "tasks">> \in harmed
=============================================================================
