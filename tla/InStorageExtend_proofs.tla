----------------------- MODULE InStorageExtend_proofs ------------------------
(***************************************************************************)
(* Theorems about InStorageExtend, for every set of volumes and handlers,  *)
(* all sizes asked for, pools of any capacity and every number of faults.  *)
(***************************************************************************)
EXTENDS InStorageExtend, FiniteSetTheorems, WellFoundedInduction, TLAPS

(* The types, without the bounds: that no vdisk outgrows its pool is about *)
(* the sums of sizes, and is proved last.                                  *)
TypeInv ==
  /\ size \in [Vols -> [Parts -> Nat]]
  /\ links \in [Vols -> SUBSET Links]
  /\ barrier \in BOOLEAN
  /\ frozen \subseteq Vols
  /\ dev \in [Vols -> Nat] /\ fs \in [Vols -> Nat]
  /\ pc \in [Procs -> Labels]
  /\ req \in [Procs -> Asks \cup {NoRequest}]
  /\ \A p \in Procs : pc[p] # "idle" => req[p] \in Asks
  /\ old \in [Procs -> Nat]
  /\ shape \subseteq Procs /\ failed \subseteq Procs /\ needFreezeFS \subseteq Procs
  /\ step \in [Procs -> 1..9]
  /\ asked \in [Vols -> Nat]

(* A volume has one request at work. *)
Working(p) == pc[p] \notin {"idle", "err"}
OneRequest ==
  \A p, q \in Procs : Working(p) /\ Working(q) /\ Vol(p) = Vol(q) => p = q

Hurt(v) == <<v, "tasks">> \in harmed
Fine(v) == Whole(v) /\ \A x \in PartsOf(v) : size[v][x] = size[v]["master"]
Worked(v) == \E p \in Procs : pc[p] \in {"task", "mkbarrier"} /\ Vol(p) = v

(* What is so of a volume: the master is never the smaller part. *)
VolOK(v) ==
  /\ v \notin AAVols => links[v] = {}
  /\ \A x \in Parts : size[v][x] <= size[v]["master"]
  /\ size[v]["master"] <= asked[v]
  /\ Fine(v) \/ barrier \/ Hurt(v) \/ Worked(v)
  /\ v \in frozen => \/ \E p \in Procs : Running(p) /\ Vol(p) = v
                     \/ <<v, "thaw">> \in harmed

(* Between its tasks a handler knows the sizes and the links of the parts. *)
TaskState(v, k, before, after) ==
  /\ size[v]["master"] = IF k <= 2 THEN before ELSE after
  /\ k <= 3 => size[v]["aux"] <= before
  /\ k <= 4 => size[v]["masterCV"] <= before
  /\ k <= 5 => size[v]["auxCV"] <= before
  /\ k \in 2..6 => links[v] = {}
  /\ k = 7 => links[v] = {"relation"}
  /\ k = 8 => links[v] = {"relation", "access"}
  /\ k = 9 => links[v] = {"relation", "access", "masterCV"}
  /\ k >= 7 => size[v]["aux"] = size[v]["master"]
  /\ k >= 9 => size[v]["masterCV"] = size[v]["master"]

Served(v, n) == Fine(v) /\ size[v]["master"] >= n

(* What a handler has found out or done is so, while it works: the file    *)
(* system is frozen from Freeze to Thaw, or something that is remembered   *)
(* went wrong; before LsVdisk also when the query has shown fewer than the *)
(* four rows of the volume.                                                *)
Loud(v) == <<v, "freeze">> \in harmed \/ <<v, "repair">> \in harmed
Asleep(v) == v \in frozen \/ Loud(v)
FreezeOK(p) ==
  /\ pc[p] \in {"attachInfo", "needfreeze", "freeze", "rescan", "blkid", "growfs"} =>
       Vol(p) \notin frozen \/ <<Vol(p), "thaw">> \in harmed
  /\ pc[p] \in {"barrier", "lsvdisk", "check", "lssystem", "expand", "task", "mkbarrier", "thaw"} =>
       Vol(p) \notin frozen \/ <<Vol(p), "thaw">> \in harmed \/ p \in needFreezeFS
  /\ pc[p] = "freeze" => p \in needFreezeFS
  /\ pc[p] \in {"barrier", "lsvdisk"} /\ Vol(p) \in AAVols =>
       Asleep(Vol(p)) \/ ~FourRows(Vol(p))
  /\ (pc[p] = "check" /\ p \in shape) \/ pc[p] \in {"lssystem", "task"} => Asleep(Vol(p))

SizeOK(p) ==
  /\ pc[p] # "idle" => NewSize(p) <= asked[Vol(p)]
  /\ pc[p] \in {"attachInfo", "needfreeze", "freeze", "barrier", "lsvdisk", "check", "lssystem"} =>
       step[p] = 1
  /\ pc[p] \in {"attachInfo", "needfreeze", "freeze", "barrier", "lsvdisk"} => p \notin shape
  /\ pc[p] \in {"lsvdisk", "check", "lssystem", "expand"} => Fine(Vol(p)) \/ Hurt(Vol(p))
  /\ pc[p] \in {"check", "lssystem", "expand", "task"} => old[p] < NewSize(p)
  /\ pc[p] \in {"check", "lssystem", "expand"} => size[Vol(p)]["master"] = old[p]
  /\ pc[p] \in {"lssystem", "task", "mkbarrier"} => Vol(p) \in AAVols
  /\ pc[p] = "check" /\ p \in shape => Vol(p) \in AAVols
  /\ (pc[p] = "check" /\ p \notin shape) \/ pc[p] = "expand" => Vol(p) \notin AAVols \/ Hurt(Vol(p))
  /\ pc[p] = "task" => TaskState(Vol(p), step[p], old[p], NewSize(p))

AnswerOK(p) ==
  /\ pc[p] = "mkbarrier" => p \in failed
  /\ (pc[p] = "thaw" /\ p \notin failed) \/ pc[p] \in {"rescan", "blkid", "growfs"} =>
       Hurt(Vol(p)) \/ Served(Vol(p), NewSize(p))
  /\ pc[p] \in {"blkid", "growfs"} =>
       Hurt(Vol(p)) \/ <<Vol(p), "rescan">> \in harmed \/ dev[Vol(p)] >= NewSize(p)
  /\ pc[p] = "ok" =>
       \/ Hurt(Vol(p)) \/ <<Vol(p), "attach">> \in harmed
       \/ /\ Served(Vol(p), NewSize(p))
          /\ \/ <<Vol(p), "rescan">> \in harmed \/ <<Vol(p), "format">> \in harmed
             \/ fs[Vol(p)] >= NewSize(p)

HandlerOK(p) == FreezeOK(p) /\ SizeOK(p) /\ AnswerOK(p)

Inv ==
  /\ OneRequest
  /\ \A v \in Vols : VolOK(v)
  /\ \A p \in Procs : HandlerOK(p)

-----------------------------------------------------------------------------
LEMMA Comparable == \A a, b \in Nat : a = b \/ a < b \/ a > b
  OBVIOUS

(* The larger of two sizes, and the size of a part that none exceeds. *)
LEMMA LargerOfTwo ==
  ASSUME NEW a \in Nat, NEW b \in Nat
  PROVE  Max({a, b}) \in Nat /\ Max({a, b}) >= a /\ Max({a, b}) >= b
<1>1. \E x \in {a, b} : \A y \in {a, b} : x >= y
  BY SMT
<1>2. Max({a, b}) \in {a, b} /\ \A y \in {a, b} : Max({a, b}) >= y
  BY <1>1, Zenon DEF Max
<1> QED
  BY <1>2

LEMMA LargestPart ==
  ASSUME NEW f \in [Parts -> Nat], \A x \in Parts : f[x] <= f["master"]
  PROVE  Max({f[x] : x \in Parts}) = f["master"]
<1> DEFINE S == {f[x] : x \in Parts}
<1>1. f["master"] \in S /\ \A y \in S : f["master"] >= y
  BY DEF Parts
<1>2. Max(S) \in S /\ \A y \in S : Max(S) >= y
  BY <1>1, Zenon DEF Max
<1>3. \A y \in S : y \in Nat
  OBVIOUS
<1>4. Max(S) = f["master"]
  <2> HIDE DEF S
  <2> QED
    BY <1>1, <1>2, <1>3
<1> QED
  BY <1>4

(* A handler's request names a volume and a whole number of gigabytes. *)
LEMMA RequestFacts ==
  ASSUME NEW r \in Asks
  PROVE  r.vol \in Vols /\ r.bytes \in Nat /\ r.bytes \div GB \in Nat
<1>1. r.vol \in Vols /\ r.bytes \in Nat /\ GB \in Nat \ {0}
  BY ExtendAssumption DEF ExtendAssumption
<1> QED
  BY <1>1

LEMMA Facts ==
  ASSUME TypeInv, NEW p \in Procs, pc[p] # "idle"
  PROVE  /\ Vol(p) \in Vols /\ NewSize(p) \in Nat /\ old[p] \in Nat /\ step[p] \in 1..9
         /\ \A x \in Parts : size[Vol(p)][x] \in Nat
         /\ dev[Vol(p)] \in Nat /\ fs[Vol(p)] \in Nat /\ asked[Vol(p)] \in Nat
         /\ links[Vol(p)] \subseteq Links
  BY RequestFacts DEF TypeInv, Vol, NewSize

LEMMA InitInv == Init => TypeInv /\ Inv
<1> SUFFICES ASSUME Init PROVE TypeInv /\ Inv
  OBVIOUS
<1>1. TypeInv
  <2>1. barrier \in BOOLEAN
    BY DEF Init
  <2> QED
    BY <2>1, ExtendAssumption DEF ExtendAssumption, Init, TypeInv, Labels, Links
<1>2. ASSUME NEW v \in Vols PROVE VolOK(v)
  <2>1. /\ size[v] = [x \in Parts |-> IF x \in PartsOf(v) THEN FirstSize ELSE 0]
        /\ links[v] = IF v \in AAVols THEN Links ELSE {}
        /\ asked[v] = FirstSize /\ frozen = {}
    BY DEF Init
  <2>2. FirstSize \in Nat /\ "master" \in PartsOf(v) /\ PartsOf(v) \subseteq Parts
    BY ExtendAssumption DEF ExtendAssumption, PartsOf, Parts
  <2> QED
    BY <2>1, <2>2 DEF VolOK, Fine, Whole
<1>3. \A p \in Procs : HandlerOK(p)
  BY DEF Init, HandlerOK, FreezeOK, SizeOK, AnswerOK
<1>4. OneRequest
  BY DEF Init, OneRequest, Working
<1> QED
  BY <1>1, <1>2, <1>3, <1>4 DEF Inv

-----------------------------------------------------------------------------
(* The table of tasks, row by row. *)
LEMMA TaskTable ==
  /\ Len(Tasks) = 9
  /\ Tasks[1] = <<"rmrc", "relation">> /\ Tasks[2] = <<"expand", "master">>
  /\ Tasks[3] = <<"expand", "aux">> /\ Tasks[4] = <<"expand", "masterCV">>
  /\ Tasks[5] = <<"expand", "auxCV">> /\ Tasks[6] = <<"mkrc", "relation">>
  /\ Tasks[7] = <<"link", "access">> /\ Tasks[8] = <<"link", "masterCV">>
  /\ Tasks[9] = <<"link", "auxCV">>
<1>1. Len(Tasks) = 9
  BY DEF Tasks
<1>2. Tasks[1] = <<"rmrc", "relation">> /\ Tasks[2] = <<"expand", "master">>
  BY DEF Tasks
<1>3. Tasks[3] = <<"expand", "aux">> /\ Tasks[4] = <<"expand", "masterCV">>
  BY DEF Tasks
<1>4. Tasks[5] = <<"expand", "auxCV">> /\ Tasks[6] = <<"mkrc", "relation">>
  BY DEF Tasks
<1>5. Tasks[7] = <<"link", "access">> /\ Tasks[8] = <<"link", "masterCV">>
  BY DEF Tasks
<1>6. Tasks[9] = <<"link", "auxCV">>
  BY DEF Tasks
<1> QED
  BY <1>1, <1>2, <1>3, <1>4, <1>5, <1>6

(* What expandvdisksize does to the sizes. *)
LEMMA ExpandFacts ==
  ASSUME TypeInv, NEW v \in Vols, NEW x \in Parts, NEW a \in Nat, ExpandApply(v, x, a)
  PROVE  /\ size' \in [Vols -> [Parts -> Nat]] /\ links' = links
         /\ size'[v][x] = size[v][x] + a
         /\ \A y \in Parts : y # x => size'[v][y] = size[v][y]
         /\ \A w \in Vols : w # v => size'[w] = size[w]
<1>1. size' = [size EXCEPT ![v] = [size[v] EXCEPT ![x] = size[v][x] + a]] /\ links' = links
  BY DEF ExpandApply
<1>2. [size[v] EXCEPT ![x] = size[v][x] + a] \in [Parts -> Nat]
  BY DEF TypeInv
<1> QED
  BY <1>1, <1>2 DEF TypeInv

(* What the tasks do, one by one: a task that is not answered, or refused, *)
(* leads to the barrier.                                                   *)
TaskEffect(p, v, k, a) ==
  \/ k = 1 /\ links' = [links EXCEPT ![v] = {}] /\ size' = size
  \/ k = 2 /\ ExpandApply(v, "master", a)
  \/ k = 3 /\ ExpandApply(v, "aux", a)
  \/ k = 4 /\ ExpandApply(v, "masterCV", a)
  \/ k = 5 /\ ExpandApply(v, "auxCV", a)
  \/ /\ k = 6 /\ size[v]["master"] = size[v]["aux"]
     /\ links' = [links EXCEPT ![v] = @ \cup {"relation"}] /\ size' = size
  \/ k = 7 /\ links' = [links EXCEPT ![v] = @ \cup {"access"}] /\ size' = size
  \/ /\ k = 8 /\ size[v]["masterCV"] = size[v]["master"]
     /\ links' = [links EXCEPT ![v] = @ \cup {"masterCV"}] /\ size' = size
  \/ /\ k = 9 /\ size[v]["auxCV"] = size[v]["master"]
     /\ links' = [links EXCEPT ![v] = @ \cup {"auxCV"}] /\ size' = size

LEMMA TaskCases ==
  ASSUME TypeInv, NEW p \in Procs, Task(p)
  PROVE  /\ UNCHANGED <<nodeVars, req, old, shape, needFreezeFS, asked, harmed>> /\ pc[p] = "task"
         /\ \/ /\ (size' = size /\ links' = links) \/ TaskEffect(p, Vol(p), step[p], Addition(p))
               /\ Goto(p, "mkbarrier") /\ failed' = failed \cup {p} /\ step' = step
            \/ /\ TaskEffect(p, Vol(p), step[p], Addition(p))
               /\ step[p] = 9 /\ Goto(p, "thaw") /\ failed' = failed /\ step' = step
            \/ /\ TaskEffect(p, Vol(p), step[p], Addition(p))
               /\ step[p] # 9 /\ step' = [step EXCEPT ![p] = @ + 1]
               /\ pc' = pc /\ failed' = failed
<1> DEFINE k == step[p]
           cmd == Tasks[k][1]
           x == Tasks[k][2]
<1>1. PICK o \in Outcomes :
        /\ IF o # "unsent" /\ TaskAccepted(p, cmd, x) THEN TaskApply(p, cmd, x) ELSE UNCHANGED arrayVars
        /\ IF o = "done" /\ TaskAccepted(p, cmd, x)
             THEN IF LastTask(k)
                    THEN Return(p, FALSE) /\ UNCHANGED step
                    ELSE step' = [step EXCEPT ![p] = @ + 1] /\ UNCHANGED <<pc, failed>>
             ELSE /\ Goto(p, AfterFailedTask)
                  /\ failed' = failed \cup {p}
                  /\ UNCHANGED step
  BY DEF Task
<1>2. TaskAccepted(p, cmd, x) /\ TaskApply(p, cmd, x) => TaskEffect(p, Vol(p), k, Addition(p))
  <2>1. k \in 1..9
    BY DEF TypeInv
  <2>2. CASE k = 1
    BY <2>2, TaskTable DEF TaskApply, TaskEffect
  <2>3. ASSUME NEW y, Tasks[k] = <<"expand", y>> PROVE TaskApply(p, cmd, x) => ExpandApply(Vol(p), y, Addition(p))
    BY <2>3 DEF TaskApply
  <2>7. CASE k = 2 \/ k = 3
    BY <2>3, <2>7, TaskTable DEF TaskEffect
  <2>8. CASE k = 4 \/ k = 5
    BY <2>3, <2>8, TaskTable DEF TaskEffect
  <2>4. CASE k = 6
    BY <2>4, TaskTable DEF TaskAccepted, TaskApply, TaskEffect
  <2>5. CASE k = 7
    BY <2>5, TaskTable DEF TaskAccepted, TaskApply, TaskEffect
  <2>6. CASE k = 8
    BY <2>6, TaskTable DEF TaskAccepted, TaskApply, TaskEffect, Parts
  <2>9. CASE k = 9
    BY <2>9, TaskTable DEF TaskAccepted, TaskApply, TaskEffect, Parts
  <2> QED
    BY <2>1, <2>2, <2>4, <2>5, <2>6, <2>7, <2>8, <2>9
<1>3. LastTask(k) <=> k = 9
  BY TaskTable DEF LastTask
<1>4. UNCHANGED <<nodeVars, req, old, shape, needFreezeFS, asked, harmed>> /\ pc[p] = "task"
  BY DEF Task
<1> HIDE DEF k, cmd, x
<1>5. CASE ~(o # "unsent" /\ TaskAccepted(p, cmd, x))
  BY <1>1, <1>4, <1>5 DEF AfterFailedTask, arrayVars
<1>6. CASE o # "unsent" /\ TaskAccepted(p, cmd, x)
  BY <1>1, <1>2, <1>3, <1>4, <1>6 DEF AfterFailedTask, Return, k
<1> QED
  BY <1>5, <1>6

-----------------------------------------------------------------------------
(* The steps that begin or end a request, or break it off. *)
CallerStep(p) == Call(p) \/ Retry(p) \/ Done(p) \/ Kill(p)

LEMMA CallerType ==
  ASSUME TypeInv, NEW p \in Procs, CallerStep(p)
  PROVE  TypeInv'
<1> USE DEF TypeInv, Labels, Goto, arrayVars, nodeVars, procVars
<1>1. ASSUME NEW r \in Asks, Begin(p, r) PROVE TypeInv'
  <2>1. asked' \in [Vols -> Nat]
    BY <1>1, RequestFacts, LargerOfTwo DEF Begin
  <2> QED
    BY <1>1, <2>1 DEF Begin
<1>2. CASE Call(p)
  BY <1>1, <1>2 DEF Call
<1>3. CASE Retry(p)
  BY <1>1, <1>3 DEF Retry
<1>4. CASE Done(p)
  BY <1>4 DEF Done
<1>5. CASE Kill(p)
  BY <1>5 DEF Kill, ProcessEnds, Running
<1> QED
  BY <1>2, <1>3, <1>4, <1>5 DEF CallerStep

LEMMA StepType ==
  ASSUME TypeInv, Inv, NEW p \in Procs, Step(p)
  PROVE  TypeInv'
<1>0. /\ pc[p] \in {"expand", "task"} => Addition(p) \in Nat
      /\ pc[p] # "idle" => Vol(p) \in Vols
  BY Facts DEF Inv, HandlerOK, SizeOK, Addition
<1> USE DEF TypeInv, Labels, Goto, arrayVars, nodeVars, procVars
<1>1. CASE AttachInfo(p)
  BY <1>1 DEF AttachInfo, QueryReplies, Replies
<1>2. CASE Freeze(p)
  BY <1>0, <1>2 DEF Freeze
<1>13. CASE NeedFreezeFSWhenExtend(p)
  BY <1>13 DEF NeedFreezeFSWhenExtend
<1>14. CASE GetDiskFormat(p)
  BY <1>14 DEF GetDiskFormat
<1>3. CASE CheckBarrier(p)
  BY <1>3 DEF CheckBarrier, Return
<1>4. CASE LsVdisk(p)
  <2>1. /\ UNCHANGED <<arrayVars, nodeVars, req, step, needFreezeFS, asked>> /\ pc[p] = "lsvdisk"
        /\ failed' = failed \/ failed' = failed \cup {p}
        /\ shape' = shape \/ shape' = shape \cup {p}
        /\ old' = old \/ old' = [old EXCEPT ![p] = size[Vol(p)]["master"]]
        /\ \/ \E l \in {"thaw", "check"} : pc' = [pc EXCEPT ![p] = l]
           \/ \E K : pc' = [q \in Procs |-> IF q \in K /\ Running(q) THEN "err" ELSE pc[q]]
    <3>1. NewSize(p) \in Nat /\ size[Vol(p)]["master"] \in Nat
      BY <1>4, Facts DEF LsVdisk, Parts
    <3>2. NewSize(p) = size[Vol(p)]["master"] \/ NewSize(p) < size[Vol(p)]["master"]
          \/ NewSize(p) > size[Vol(p)]["master"]
      BY <3>1, Comparable
    <3>3. /\ failed' = failed \/ failed' = failed \cup {p}
          /\ \/ \E l \in {"thaw", "check"} : pc' = [pc EXCEPT ![p] = l]
             \/ \E K : pc' = [q \in Procs |-> IF q \in K /\ Running(q) THEN "err" ELSE pc[q]]
      BY <1>4, <3>2 DEF LsVdisk, Return, AlreadyThere, ProcessEnds
    <3> QED
      BY <1>4, <3>3 DEF LsVdisk
  <2>2. size[Vol(p)]["master"] \in Nat
    BY <1>0, <2>1 DEF Parts
  <2>3. pc' \in [Procs -> Labels] /\ \A q \in Procs : pc'[q] # "idle" => pc[q] # "idle"
    BY <2>1 DEF Running
  <2> QED
    BY <2>1, <2>2, <2>3
<1>5. CASE CanVolumeBeExtend(p)
  BY <1>5 DEF CanVolumeBeExtend, Return
<1>6. CASE LsSystem(p)
  BY <1>6 DEF LsSystem, Return
<1>7. CASE Expand(p)
  <2>1. Addition(p) \in Nat /\ Vol(p) \in Vols /\ "master" \in Parts
    BY <1>0, <1>7 DEF Expand, Parts
  <2>2. size' \in [Vols -> [Parts -> Nat]] /\ links' = links
    BY <1>7, <2>1, ExpandFacts DEF Expand
  <2> QED
    BY <1>7, <2>2 DEF Expand, Return
<1>8. CASE Task(p)
  <2>1. Addition(p) \in Nat /\ Vol(p) \in Vols
    BY <1>0, <1>8 DEF Task
  <2>2. TaskEffect(p, Vol(p), step[p], Addition(p)) =>
          size' \in [Vols -> [Parts -> Nat]] /\ links' \in [Vols -> SUBSET Links]
    <3>1. {"master", "aux", "masterCV", "auxCV"} = Parts
      BY DEF Parts
    <3>2. ASSUME NEW x \in Parts, ExpandApply(Vol(p), x, Addition(p))
          PROVE  size' \in [Vols -> [Parts -> Nat]] /\ links' \in [Vols -> SUBSET Links]
      BY <2>1, <3>2, ExpandFacts
    <3>3. ASSUME NEW L \in SUBSET Links, links' = [links EXCEPT ![Vol(p)] = L]
          PROVE  links' \in [Vols -> SUBSET Links]
      BY <2>1, <3>3
    <3>4. ASSUME NEW x \in Links, links' = [links EXCEPT ![Vol(p)] = @ \cup {x}]
          PROVE  links' \in [Vols -> SUBSET Links]
      BY <2>1, <3>4
    <3>5. "relation" \in Links /\ "access" \in Links /\ "masterCV" \in Links /\ "auxCV" \in Links
          /\ {} \in SUBSET Links
      BY DEF Links
    <3> QED
      BY <3>1, <3>2, <3>3, <3>4, <3>5 DEF TaskEffect
  <2> HIDE DEF TypeInv
  <2>3. /\ UNCHANGED <<nodeVars, req, old, shape, needFreezeFS, asked, harmed>> /\ pc[p] = "task"
        /\ size' \in [Vols -> [Parts -> Nat]] /\ links' \in [Vols -> SUBSET Links]
        /\ \E l \in {"mkbarrier", "thaw", "task"} : pc' = [pc EXCEPT ![p] = l]
        /\ failed' = failed \/ failed' = failed \cup {p}
        /\ step' \in [Procs -> 1..9]
    <3>1. /\ size \in [Vols -> [Parts -> Nat]] /\ links \in [Vols -> SUBSET Links]
          /\ step \in [Procs -> 1..9] /\ pc \in [Procs -> Labels]
      BY DEF TypeInv
    <3>2. step[p] # 9 => [step EXCEPT ![p] = @ + 1] \in [Procs -> 1..9]
      BY <3>1
    <3>3. pc[p] = "task" => pc = [pc EXCEPT ![p] = "task"]
      BY <3>1
    <3> QED
      BY <1>8, <2>2, <3>1, <3>2, <3>3, TaskCases
  <2> QED
    BY <2>3 DEF TypeInv
<1>9. CASE MkBarrier(p)
  BY <1>9 DEF MkBarrier
<1>10. CASE Thaw(p)
  BY <1>10 DEF Thaw
<1>11. CASE ExtendDisk(p)
  <2>1. size[Vol(p)]["master"] \in Nat /\ pc[p] = "rescan"
    BY <1>0, <1>11 DEF ExtendDisk, Parts
  <2>2. pc' \in [Procs -> Labels] /\ \A q \in Procs : pc'[q] # "idle" => pc[q] # "idle"
    <3>1. ASSUME ProcessEnds(p) PROVE pc' \in [Procs -> Labels] /\ \A q \in Procs : pc'[q] # "idle" => pc[q] # "idle"
      BY <3>1 DEF ProcessEnds, Running
    <3> QED
      BY <1>11, <2>1, <3>1 DEF ExtendDisk
  <2> QED
    BY <1>11, <2>1, <2>2 DEF ExtendDisk
<1>12. CASE ExtendFS(p)
  BY <1>0, <1>12 DEF ExtendFS
<1> QED
  BY <1>1, <1>2, <1>3, <1>4, <1>5, <1>6, <1>7, <1>8, <1>9, <1>10, <1>11, <1>12, <1>13, <1>14
  DEF Step

-----------------------------------------------------------------------------
(* What a handler's step leaves alone: requests, the locals of other       *)
(* handlers, other volumes.                                                *)
Frame(p) ==
  /\ req' = req /\ asked' = asked
  /\ Running(p) /\ pc'[p] # "idle"
  /\ \A q \in Procs : q # p =>
       /\ pc'[q] = pc[q] /\ old'[q] = old[q] /\ step'[q] = step[q]
       /\ (q \in shape <=> q \in shape') /\ (q \in failed <=> q \in failed')
       /\ (q \in needFreezeFS <=> q \in needFreezeFS')
  /\ \A w \in Vols : w # Vol(p) =>
       /\ size'[w] = size[w] /\ links'[w] = links[w] /\ dev'[w] = dev[w] /\ fs'[w] = fs[w]
       /\ w \in frozen <=> w \in frozen'
  /\ harmed \subseteq harmed'
  /\ barrier => barrier'

(* A handler finds its volume and itself as the invariant says. *)
LEMMA OwnFacts ==
  ASSUME TypeInv, Inv, NEW p \in Procs, Running(p), NEW v, v = Vol(p)
  PROVE  /\ v \in Vols /\ VolOK(v) /\ FreezeOK(p) /\ SizeOK(p) /\ AnswerOK(p)
         /\ NewSize(p) \in Nat /\ old[p] \in Nat /\ step[p] \in 1..9
         /\ \A x \in Parts : size[v][x] \in Nat
         /\ dev[v] \in Nat /\ fs[v] \in Nat /\ asked[v] \in Nat /\ links[v] \subseteq Links
         /\ Worked(v) => pc[p] \in {"task", "mkbarrier"}
<1>1. pc[p] # "idle" /\ Working(p)
  BY DEF Running, Working
<1>2. Worked(v) => pc[p] \in {"task", "mkbarrier"}
  BY <1>1 DEF Inv, OneRequest, Worked, Working
<1> QED
  BY <1>1, <1>2, Facts DEF Inv, HandlerOK

(* A step that leaves sizes and links alone. *)
LEMMA SameVolume ==
  ASSUME TypeInv, Inv, NEW p \in Procs, Running(p), NEW v, v = Vol(p),
         size' = size, links' = links, asked' = asked, harmed \subseteq harmed', req' = req,
         barrier => barrier',
         pc[p] \in {"task", "mkbarrier"} =>
           pc'[p] \in {"task", "mkbarrier"} \/ barrier' \/ <<v, "tasks">> \in harmed',
         v \in frozen' => Running(p)' \/ <<v, "thaw">> \in harmed'
  PROVE  VolOK(v)' /\ (Fine(v) <=> Fine(v)') /\ (Hurt(v) => Hurt(v)') /\ Vol(p)' = v
         /\ NewSize(p)' = NewSize(p) /\ (Loud(v) => Loud(v)') /\ (FourRows(v) <=> FourRows(v)')
<1>1. VolOK(v) /\ (Worked(v) => pc[p] \in {"task", "mkbarrier"})
  BY OwnFacts
<1>2. Vol(p)' = v /\ NewSize(p)' = NewSize(p) /\ (Fine(v) <=> Fine(v)') /\ (Hurt(v) => Hurt(v)')
  BY DEF Vol, NewSize, Fine, Whole, Hurt
<1>4. (Loud(v) => Loud(v)') /\ (FourRows(v) <=> FourRows(v)')
  BY DEF Loud, FourRows
<1>3. Worked(v) => Worked(v)' \/ barrier' \/ Hurt(v)'
  BY <1>1, <1>2 DEF Worked, Hurt
<1> QED
  BY <1>1, <1>2, <1>3, <1>4 DEF VolOK

Effect(p, v) == Frame(p) /\ VolOK(v)' /\ HandlerOK(p)'

(* The queries, of which AttachInfo, NeedFreezeFSWhenExtend and            *)
(* GetDiskFormat may harm the volume.                                      *)
LEMMA QueryEffect ==
  ASSUME TypeInv, Inv, NEW p \in Procs, NEW v, v = Vol(p),
         \/ AttachInfo(p) \/ NeedFreezeFSWhenExtend(p) \/ CheckBarrier(p)
         \/ CanVolumeBeExtend(p) \/ LsSystem(p) \/ GetDiskFormat(p)
  PROVE  Effect(p, v)
<1>1. /\ UNCHANGED <<arrayVars, nodeVars, req, old, shape, step, asked>> /\ Running(p)
      /\ pc[p] \in {"attachInfo", "needfreeze", "barrier", "check", "lssystem", "blkid"}
  BY DEF AttachInfo, NeedFreezeFSWhenExtend, CheckBarrier, CanVolumeBeExtend, LsSystem,
         GetDiskFormat, arrayVars, nodeVars, procVars, Running
<1>2. /\ v \in Vols /\ VolOK(v) /\ FreezeOK(p) /\ SizeOK(p) /\ AnswerOK(p)
      /\ NewSize(p) \in Nat /\ old[p] \in Nat /\ \A x \in Parts : size[v][x] \in Nat
      /\ ~Worked(v) /\ DOMAIN pc = Procs
  BY <1>1, OwnFacts DEF TypeInv
<1>3. PICK l : /\ Goto(p, l)
               /\ failed' = IF l = "thaw" THEN failed \cup {p} ELSE failed
               /\ needFreezeFS' = IF l = "freeze" THEN needFreezeFS \cup {p} ELSE needFreezeFS
               /\ harmed \subseteq harmed'
               /\ \/ pc[p] = "attachInfo" /\ l \in {"needfreeze", "err"}
                  \/ pc[p] = "attachInfo" /\ l = "ok" /\ <<v, "attach">> \in harmed'
                  \/ pc[p] = "needfreeze" /\ l = "freeze"
                  \/ pc[p] = "needfreeze" /\ l = "barrier" /\ <<v, "freeze">> \in harmed'
                  \/ pc[p] = "needfreeze" /\ l = "barrier" /\ (v \notin AAVols \/ ~FourRows(v))
                  \/ pc[p] = "barrier" /\ l \in {"thaw", "lsvdisk"} /\ (l = "lsvdisk" => ~barrier)
                  \/ pc[p] = "check" /\ p \in shape /\ l \in {"lssystem", "thaw"}
                  \/ pc[p] = "check" /\ p \notin shape /\ l \in {"expand", "thaw"}
                  \/ pc[p] = "lssystem" /\ l \in {"task", "thaw"}
                  \/ pc[p] = "blkid" /\ l \in {"growfs", "err"}
                  \/ pc[p] = "blkid" /\ l = "ok" /\ <<v, "format">> \in harmed'
  <2>1. CASE AttachInfo(p)
    BY <2>1 DEF AttachInfo, QueryReplies, Replies, Harm, procVars, Goto
  <2>2. CASE CheckBarrier(p)
    BY <2>2 DEF CheckBarrier, Return, Goto
  <2>3. CASE CanVolumeBeExtend(p)
    BY <2>3 DEF CanVolumeBeExtend, Return, Goto
  <2>4. CASE LsSystem(p)
    BY <2>4 DEF LsSystem, Return, Goto
  <2>5. CASE NeedFreezeFSWhenExtend(p)
    BY <2>5 DEF NeedFreezeFSWhenExtend, NeedFreeze, QueryReplies, Replies, Harm, Goto
  <2>6. CASE GetDiskFormat(p)
    BY <2>6 DEF GetDiskFormat, Harm, procVars, Goto
  <2> QED
    BY <2>1, <2>2, <2>3, <2>4, <2>5, <2>6
<1>4. Frame(p)
  BY <1>1, <1>2, <1>3 DEF Frame, Goto, arrayVars, nodeVars
<1>5. pc'[p] = l /\ (Running(p)' \/ pc[p] \in {"attachInfo", "blkid"})
  <2>1. pc'[p] = l
    BY <1>2, <1>3 DEF Goto
  <2>2. pc[p] \notin {"attachInfo", "blkid"} => l \notin {"idle", "ok", "err"}
    BY <1>3
  <2> QED
    BY <2>1, <2>2 DEF Running
<1>6. /\ VolOK(v)' /\ (Fine(v) <=> Fine(v)') /\ (Hurt(v) => Hurt(v)') /\ Vol(p)' = v
      /\ NewSize(p)' = NewSize(p) /\ (Loud(v) => Loud(v)') /\ (FourRows(v) <=> FourRows(v)')
  <2>1. /\ size' = size /\ links' = links /\ asked' = asked /\ req' = req
        /\ barrier' = barrier /\ frozen' = frozen
    BY <1>1 DEF arrayVars, nodeVars
  <2>2. v \in frozen => Running(p)' \/ <<v, "thaw">> \in harmed'
    BY <1>2, <1>3, <1>5 DEF FreezeOK
  <2>4. pc[p] \notin {"task", "mkbarrier"}
    BY <1>1
  <2> QED
    BY <1>1, <1>3, <2>1, <2>2, <2>4, SameVolume
<1>7. FreezeOK(p)'
  <2>1. frozen' = frozen /\ shape' = shape /\ harmed \subseteq harmed' /\ v \in Vols
    BY <1>1, <1>2, <1>3 DEF nodeVars
  <2>2. (Asleep(v) => Asleep(v)') /\ (<<v, "freeze">> \in harmed' => Asleep(v)')
    BY <1>6, <2>1 DEF Asleep, Loud
  <2>3. l = "freeze" => p \in needFreezeFS'
    BY <1>3
  <2>4. p \in needFreezeFS => p \in needFreezeFS'
    BY <1>3
  <2>5. pc[p] \in {"attachInfo", "needfreeze", "blkid"} => v \notin frozen \/ <<v, "thaw">> \in harmed
    BY <1>2 DEF FreezeOK
  <2>6. pc[p] \in {"barrier", "check", "lssystem"} =>
          v \notin frozen \/ <<v, "thaw">> \in harmed \/ p \in needFreezeFS
    BY <1>2 DEF FreezeOK
  <2>7. l \in {"barrier", "lsvdisk"} /\ v \in AAVols => Asleep(v)' \/ ~FourRows(v)'
    BY <1>2, <1>3, <1>6, <2>2 DEF FreezeOK
  <2>8. l \in {"lssystem", "task"} => Asleep(v)'
    BY <1>2, <1>3, <2>2 DEF FreezeOK
  <2>9. l # "check" /\ l \notin {"rescan", "idle"}
    BY <1>3
  <2>10. l \in {"needfreeze", "freeze", "growfs"} => v \notin frozen' \/ <<v, "thaw">> \in harmed'
    BY <1>3, <2>1, <2>5
  <2>11. l \in {"barrier", "lsvdisk", "lssystem", "expand", "task", "thaw"} =>
           v \notin frozen' \/ <<v, "thaw">> \in harmed' \/ p \in needFreezeFS'
    BY <1>3, <2>1, <2>4, <2>5, <2>6
  <2>12. l \in {"ok", "err", "needfreeze", "freeze", "growfs", "barrier", "lsvdisk", "lssystem",
                 "expand", "task", "thaw"}
    BY <1>3
  <2> QED
    BY <1>5, <1>6, <2>3, <2>7, <2>8, <2>10, <2>11, <2>12 DEF FreezeOK
<1>8. SizeOK(p)'
  <2>1. pc[p] = "barrier" /\ ~barrier => Fine(v) \/ Hurt(v)
    BY <1>2 DEF VolOK
  <2>2. /\ size' = size /\ asked' = asked /\ old' = old /\ shape' = shape /\ step' = step
    BY <1>1 DEF arrayVars
  <2>3. pc[p] = "lssystem" => TaskState(v, 1, old[p], NewSize(p))
    BY <1>2 DEF SizeOK, TaskState, VolOK, Parts
  <2>4. TaskState(v, 1, old[p], NewSize(p)) => TaskState(v, 1, old[p], NewSize(p))'
    BY <1>1, <1>6, <2>2 DEF TaskState, arrayVars
  <2>5. pc[p] = "lssystem" => step[p] = 1
    BY <1>2 DEF SizeOK
  <2> QED
    BY <1>2, <1>3, <1>5, <1>6, <2>1, <2>2, <2>3, <2>4, <2>5 DEF SizeOK
<1>9. AnswerOK(p)'
  <2>1. size' = size /\ dev' = dev /\ harmed \subseteq harmed'
    BY <1>1, <1>3 DEF arrayVars, nodeVars
  <2>2. pc[p] = "blkid" =>
          /\ Hurt(v)' \/ Served(v, NewSize(p))'
          /\ Hurt(v)' \/ <<v, "rescan">> \in harmed' \/ dev'[v] >= NewSize(p)
    BY <1>2, <1>6, <2>1 DEF AnswerOK, Served
  <2>3. l = "thaw" => p \in failed'
    BY <1>3
  <2> QED
    BY <1>3, <1>5, <1>6, <2>2, <2>3 DEF AnswerOK
<1> QED
  BY <1>4, <1>6, <1>7, <1>8, <1>9 DEF Effect, HandlerOK

LEMMA LsVdiskEffect ==
  ASSUME TypeInv, Inv, NEW p \in Procs, NEW v, v = Vol(p), LsVdisk(p),
         ~ProcessEnds(p)
  PROVE  Effect(p, v)
<1>1. /\ UNCHANGED <<arrayVars, nodeVars, req, step, needFreezeFS, asked>> /\ pc[p] = "lsvdisk" /\ Running(p)
  BY DEF LsVdisk, Running
<1>2. /\ v \in Vols /\ VolOK(v) /\ FreezeOK(p) /\ SizeOK(p) /\ AnswerOK(p)
      /\ NewSize(p) \in Nat /\ old[p] \in Nat /\ \A x \in Parts : size[v][x] \in Nat
      /\ ~Worked(v) /\ links[v] \subseteq Links
      /\ DOMAIN pc = Procs /\ DOMAIN old = Procs
  BY <1>1, OwnFacts DEF TypeInv
<1> DEFINE now == size[v]["master"]
<1>3. /\ harmed' = harmed
      /\ \/ Goto(p, "thaw") /\ failed' = failed \cup {p} /\ UNCHANGED <<old, shape>>
         \/ /\ old' = [old EXCEPT ![p] = now]
            /\ shape' = IF "relation" \in links[v] THEN shape \cup {p} ELSE shape
            /\ links[v] \cap {"relation", "masterCV", "auxCV"} \in
                {{}, {"relation", "masterCV", "auxCV"}}
            /\ \/ NewSize(p) = now /\ Goto(p, "thaw") /\ failed' = failed
               \/ Goto(p, "thaw") /\ failed' = failed \cup {p}
               \/ NewSize(p) > now /\ Goto(p, "check") /\ failed' = failed
  <2>1. now \in Nat
    BY <1>2 DEF Parts
  <2>2. NewSize(p) = now \/ NewSize(p) < now \/ NewSize(p) > now
    BY <1>2, <2>1, Comparable
  <2> HIDE DEF now
  <2> QED
    BY <2>2 DEF LsVdisk, Return, AlreadyThere, now
<1>4. PICK l : Goto(p, l) /\ l \in {"thaw", "check"}
  BY <1>3
<1>5. pc'[p] = l /\ needFreezeFS' = needFreezeFS
  BY <1>1, <1>2, <1>4 DEF Goto
<1>6. Frame(p)
  BY <1>1, <1>2, <1>3, <1>4, <1>5 DEF Frame, Goto, arrayVars, nodeVars
<1>7. /\ VolOK(v)' /\ (Fine(v) <=> Fine(v)') /\ (Hurt(v) => Hurt(v)') /\ Vol(p)' = v
      /\ NewSize(p)' = NewSize(p) /\ (Loud(v) => Loud(v)') /\ (FourRows(v) <=> FourRows(v)')
  <2>1. /\ size' = size /\ links' = links /\ asked' = asked /\ harmed \subseteq harmed' /\ req' = req
        /\ barrier' = barrier /\ frozen' = frozen
    BY <1>1, <1>3 DEF arrayVars, nodeVars
  <2>2. v \in frozen => Running(p)' \/ <<v, "thaw">> \in harmed'
    BY <1>4, <1>5 DEF Running
  <2>4. pc[p] \notin {"task", "mkbarrier"}
    BY <1>1
  <2> QED
    BY <1>1, <2>1, <2>2, <2>4, SameVolume
<1>8. FreezeOK(p)'
  <2>1. frozen' = frozen /\ harmed' = harmed
    BY <1>1, <1>3 DEF nodeVars
  <2>2. v \notin frozen \/ <<v, "thaw">> \in harmed \/ p \in needFreezeFS
    BY <1>1, <1>2 DEF FreezeOK
  <2>3. l = "check" /\ p \in shape' => v \in AAVols /\ FourRows(v)
    <3>1. p \notin shape /\ ("relation" \in links[v] => v \in AAVols)
      BY <1>1, <1>2 DEF SizeOK, VolOK
    <3>2. l = "check" => /\ shape' = IF "relation" \in links[v] THEN shape \cup {p} ELSE shape
                         /\ links[v] \cap {"relation", "masterCV", "auxCV"} \in
                               {{}, {"relation", "masterCV", "auxCV"}}
      BY <1>2, <1>3, <1>5 DEF Goto
    <3> QED
      BY <3>1, <3>2 DEF FourRows
  <2>4. v \in AAVols /\ FourRows(v) => Asleep(v)
    BY <1>1, <1>2 DEF FreezeOK
  <2>5. Asleep(v) => Asleep(v)'
    BY <2>1 DEF Asleep, Loud
  <2> QED
    BY <1>4, <1>5, <1>7, <2>1, <2>2, <2>3, <2>4, <2>5 DEF FreezeOK
<1>9. /\ size' = size /\ asked' = asked /\ step' = step
  BY <1>1 DEF arrayVars
<1>10. SizeOK(p)'
  <2>1. l = "check" => /\ NewSize(p) > now /\ old'[p] = now
                       /\ p \in shape' => v \in AAVols
                       /\ p \notin shape' => v \notin AAVols \/ Hurt(v)
    <3>1. "relation" \in links[v] => v \in AAVols
      BY <1>2 DEF VolOK
    <3>2. v \in AAVols /\ "relation" \notin links[v] => Hurt(v)
      BY <1>1, <1>2 DEF SizeOK, Fine, Whole, Links
    <3>3. l = "check" => /\ NewSize(p) > now /\ old'[p] = now
                         /\ shape' = IF "relation" \in links[v] THEN shape \cup {p} ELSE shape
      BY <1>2, <1>3, <1>5 DEF Goto
    <3>4. p \notin shape
      BY <1>1, <1>2 DEF SizeOK
    <3> QED
      BY <3>1, <3>2, <3>3, <3>4
  <2>2. Fine(v) \/ Hurt(v)
    BY <1>1, <1>2 DEF SizeOK
  <2>3. step[p] = 1 /\ NewSize(p) <= asked[v]
    BY <1>1, <1>2 DEF SizeOK
  <2>4. now \in Nat
    BY <1>2 DEF Parts
  <2> QED
    BY <1>2, <1>4, <1>5, <1>7, <1>9, <2>1, <2>2, <2>3, <2>4 DEF SizeOK
<1>11. AnswerOK(p)'
  <2>1. l = "thaw" /\ p \notin failed' => NewSize(p) = now
    BY <1>2, <1>3, <1>5 DEF Goto
  <2>2. Fine(v) \/ Hurt(v)
    BY <1>1, <1>2 DEF SizeOK
  <2>3. now \in Nat
    BY <1>2 DEF Parts
  <2> QED
    BY <1>2, <1>4, <1>5, <1>7, <1>9, <2>1, <2>2, <2>3 DEF AnswerOK, Served
<1> QED
  BY <1>6, <1>7, <1>8, <1>10, <1>11 DEF Effect, HandlerOK

(* The steps on the node that change something there. *)
LEMMA NodeEffect ==
  ASSUME TypeInv, Inv, NEW p \in Procs, NEW v, v = Vol(p),
         Freeze(p) \/ Thaw(p) \/ MkBarrier(p) \/ (ExtendDisk(p) /\ ~ProcessEnds(p)) \/ ExtendFS(p)
  PROVE  Effect(p, v)
<1>1. /\ UNCHANGED <<arrayVars, procVars, asked>> /\ Running(p)
      /\ pc[p] \in {"freeze", "thaw", "mkbarrier", "rescan", "growfs"}
  BY DEF Freeze, Thaw, MkBarrier, ExtendDisk, ExtendFS, Running
<1>2. /\ v \in Vols /\ VolOK(v) /\ FreezeOK(p) /\ SizeOK(p) /\ AnswerOK(p)
      /\ NewSize(p) \in Nat /\ \A x \in Parts : size[v][x] \in Nat
      /\ dev[v] \in Nat /\ fs[v] \in Nat
      /\ DOMAIN pc = Procs /\ DOMAIN dev = Vols /\ DOMAIN fs = Vols
  BY <1>1, OwnFacts DEF TypeInv
<1>3. /\ size' = size /\ links' = links /\ asked' = asked /\ req' = req /\ old' = old
      /\ shape' = shape /\ step' = step /\ failed' = failed /\ needFreezeFS' = needFreezeFS
  BY <1>1 DEF arrayVars, procVars
<1>5. ASSUME harmed \subseteq harmed', barrier => barrier',
             pc[p] = "mkbarrier" => barrier' \/ <<v, "tasks">> \in harmed',
             v \in frozen' => Running(p)' \/ <<v, "thaw">> \in harmed'
      PROVE  /\ VolOK(v)' /\ (Fine(v) <=> Fine(v)') /\ (Hurt(v) => Hurt(v)') /\ Vol(p)' = v
             /\ NewSize(p)' = NewSize(p) /\ (Loud(v) => Loud(v)')
  BY <1>1, <1>3, <1>5, SameVolume
<1>6. /\ Vol(p)' = v /\ NewSize(p)' = NewSize(p)
  BY <1>3 DEF Vol, NewSize
<1>7. CASE Freeze(p)
  <2>1. /\ pc[p] = "freeze" /\ pc'[p] = "barrier" /\ Goto(p, "barrier")
        /\ UNCHANGED <<barrier, dev, fs>>
        /\ \/ frozen' = frozen \cup {v} /\ harmed' = harmed
           \/ frozen' = frozen /\ harmed' = harmed \cup {<<v, "freeze">>}
    BY <1>2, <1>7 DEF Freeze, Goto, Harm
  <2>2. Running(p)' /\ harmed \subseteq harmed'
    BY <2>1 DEF Running
  <2>3. VolOK(v)' /\ (Fine(v) <=> Fine(v)') /\ (Hurt(v) => Hurt(v)')
    BY <1>5, <2>1, <2>2
  <2>4. FreezeOK(p)'
    <3>1. p \in needFreezeFS'
      BY <1>2, <1>3, <2>1 DEF FreezeOK
    <3>2. Asleep(v)'
      BY <2>1 DEF Asleep, Loud
    <3> QED
      BY <1>6, <2>1, <3>1, <3>2 DEF FreezeOK
  <2>5. SizeOK(p)' /\ AnswerOK(p)'
    BY <1>2, <1>3, <1>6, <2>1 DEF SizeOK, AnswerOK
  <2>6. Frame(p)
    BY <1>1, <1>2, <1>3, <2>1, <2>2 DEF Frame, Goto
  <2> QED
    BY <2>3, <2>4, <2>5, <2>6 DEF Effect, HandlerOK
<1>8. CASE Thaw(p)
  <2>1. /\ pc[p] = "thaw" /\ UNCHANGED <<barrier, dev, fs>>
        /\ pc'[p] = (IF p \in failed THEN "err" ELSE "rescan")
        /\ Goto(p, IF p \in failed THEN "err" ELSE "rescan")
        /\ \/ frozen' = (IF p \in needFreezeFS THEN frozen \ {v} ELSE frozen) /\ harmed' = harmed
           \/ frozen' = frozen /\ harmed' = harmed \cup {<<v, "thaw">>}
    BY <1>2, <1>8 DEF Thaw, ThawNow, Goto, Harm
  <2>2. v \notin frozen' \/ <<v, "thaw">> \in harmed'
    BY <1>2, <2>1 DEF FreezeOK
  <2>3. harmed \subseteq harmed'
    BY <2>1
  <2>4. VolOK(v)' /\ (Fine(v) <=> Fine(v)') /\ (Hurt(v) => Hurt(v)')
    BY <1>5, <2>1, <2>2, <2>3
  <2>5. FreezeOK(p)'
    BY <1>6, <2>1, <2>2 DEF FreezeOK
  <2>6. SizeOK(p)'
    BY <1>2, <1>3, <1>6, <2>1 DEF SizeOK
  <2>7. AnswerOK(p)'
    BY <1>2, <1>3, <1>6, <2>1, <2>4 DEF AnswerOK, Served
  <2>8. Frame(p)
    BY <1>1, <1>2, <1>3, <2>1, <2>3 DEF Frame, Goto
  <2> QED
    BY <2>4, <2>5, <2>6, <2>7, <2>8 DEF Effect, HandlerOK
<1>9. CASE MkBarrier(p)
  <2>1. /\ pc[p] = "mkbarrier" /\ pc'[p] = "thaw" /\ Goto(p, "thaw") /\ UNCHANGED <<frozen, dev, fs>>
        /\ \/ barrier' /\ harmed' = harmed
           \/ (barrier => barrier') /\ harmed' = harmed \cup {<<v, "tasks">>}
    BY <1>2, <1>9 DEF MkBarrier, Goto, Harm, Replies
  <2>2. harmed \subseteq harmed' /\ Running(p)' /\ (barrier' \/ <<v, "tasks">> \in harmed')
        /\ (barrier => barrier')
    BY <2>1 DEF Running
  <2>3. VolOK(v)' /\ (Fine(v) <=> Fine(v)') /\ (Hurt(v) => Hurt(v)')
    BY <1>5, <2>1, <2>2
  <2>4. FreezeOK(p)' /\ SizeOK(p)' /\ AnswerOK(p)'
    BY <1>2, <1>3, <1>6, <2>1, <2>2 DEF FreezeOK, SizeOK, AnswerOK
  <2>5. Frame(p)
    BY <1>1, <1>2, <1>3, <2>1, <2>2 DEF Frame, Goto
  <2> QED
    BY <2>3, <2>4, <2>5 DEF Effect, HandlerOK
<1>10. CASE ExtendDisk(p) /\ ~ProcessEnds(p)
  <2>1. PICK r \in {"done", "skipped", "error"} :
          /\ dev' = IF r = "done" THEN [dev EXCEPT ![v] = size[v]["master"]] ELSE dev
          /\ harmed' = IF r = "skipped" THEN harmed \cup {<<v, "rescan">>} ELSE harmed
          /\ Goto(p, IF r = "error" THEN "err" ELSE "blkid")
    BY <1>10 DEF ExtendDisk, Harm
  <2>2. pc[p] = "rescan" /\ UNCHANGED <<barrier, frozen, fs>>
    BY <1>10 DEF ExtendDisk
  <2>3. harmed \subseteq harmed' /\ (v \in frozen => <<v, "thaw">> \in harmed')
    BY <1>2, <2>1, <2>2 DEF FreezeOK
  <2>4. VolOK(v)' /\ (Fine(v) <=> Fine(v)') /\ (Hurt(v) => Hurt(v)')
    BY <1>5, <2>2, <2>3
  <2>5. pc'[p] = IF r = "error" THEN "err" ELSE "blkid"
    BY <1>2, <2>1 DEF Goto
  <2>6. FreezeOK(p)'
    BY <1>6, <2>2, <2>3, <2>5 DEF FreezeOK
  <2>7. SizeOK(p)'
    BY <1>2, <1>3, <1>6, <2>2, <2>5 DEF SizeOK
  <2>8. AnswerOK(p)'
    <3>1. Hurt(v) \/ Served(v, NewSize(p))
      BY <1>2, <2>2 DEF AnswerOK
    <3>2. r = "done" => dev'[v] = size[v]["master"]
      BY <1>2, <2>1
    <3>3. Hurt(v)' \/ Served(v, NewSize(p))'
      BY <1>3, <1>6, <2>4, <3>1 DEF Served
    <3> QED
      BY <1>6, <2>1, <2>4, <2>5, <3>1, <3>2, <3>3 DEF AnswerOK, Served
  <2>9. Frame(p)
    BY <1>1, <1>2, <1>3, <2>1, <2>2, <2>3, <2>5 DEF Frame, Goto
  <2> QED
    BY <2>4, <2>6, <2>7, <2>8, <2>9 DEF Effect, HandlerOK
<1>11. CASE ExtendFS(p)
  <2>1. PICK r \in Replies :
          /\ fs' = IF r = "done" THEN [fs EXCEPT ![v] = dev[v]] ELSE fs
          /\ Goto(p, IF r = "done" THEN "ok" ELSE "err")
    BY <1>11 DEF ExtendFS
  <2>2. pc[p] = "growfs" /\ UNCHANGED <<barrier, frozen, dev, harmed>> /\ v \notin frozen
    BY <1>11 DEF ExtendFS
  <2>3. VolOK(v)' /\ (Fine(v) <=> Fine(v)') /\ (Hurt(v) => Hurt(v)')
    BY <1>5, <2>2
  <2>4. pc'[p] = IF r = "done" THEN "ok" ELSE "err"
    BY <1>2, <2>1 DEF Goto
  <2>5. FreezeOK(p)' /\ SizeOK(p)'
    BY <1>2, <1>3, <1>6, <2>2, <2>4 DEF FreezeOK, SizeOK
  <2>6. AnswerOK(p)'
    <3>1. Hurt(v)' \/ Served(v, NewSize(p))'
      BY <1>2, <1>3, <1>6, <2>2, <2>3 DEF AnswerOK, Served
    <3>2. r = "done" => fs'[v] = dev[v]
      BY <1>2, <2>1
    <3> QED
      BY <1>2, <1>6, <2>2, <2>3, <2>4, <3>1, <3>2 DEF AnswerOK
  <2>7. Frame(p)
    BY <1>1, <1>2, <1>3, <2>1, <2>2, <2>4 DEF Frame, Goto
  <2> QED
    BY <2>3, <2>5, <2>6, <2>7 DEF Effect, HandlerOK
<1> QED
  BY <1>7, <1>8, <1>9, <1>10, <1>11

(* The extension of a volume without a relationship. *)
LEMMA ExpandEffect ==
  ASSUME TypeInv, Inv, NEW p \in Procs, NEW v, v = Vol(p), Expand(p)
  PROVE  Effect(p, v)
<1>1. /\ UNCHANGED <<barrier, frozen, dev, fs, req, old, shape, step, needFreezeFS, asked, harmed>>
      /\ pc[p] = "expand" /\ Running(p)
  BY DEF Expand, Running, nodeVars
<1>2. /\ v \in Vols /\ VolOK(v) /\ FreezeOK(p) /\ SizeOK(p) /\ AnswerOK(p)
      /\ NewSize(p) \in Nat /\ old[p] \in Nat /\ asked[v] \in Nat
      /\ \A x \in Parts : size[v][x] \in Nat
      /\ ~Worked(v) /\ DOMAIN pc = Procs
  BY <1>1, OwnFacts DEF TypeInv
<1>3. /\ Fine(v) \/ Hurt(v)
      /\ old[p] < NewSize(p) /\ size[v]["master"] = old[p] /\ NewSize(p) <= asked[v]
      /\ v \notin AAVols \/ Hurt(v)
  BY <1>1, <1>2 DEF SizeOK
<1>4. Addition(p) \in Nat /\ old[p] + Addition(p) = NewSize(p)
  BY <1>2, <1>3 DEF Addition
<1>5. /\ Goto(p, "thaw") /\ pc'[p] = "thaw"
      /\ \/ size' = size /\ links' = links /\ failed' = failed \cup {p}
         \/ ExpandApply(v, "master", Addition(p)) /\ (failed' = failed \/ failed' = failed \cup {p})
  BY <1>2 DEF Expand, Return, Goto, arrayVars
<1>6. /\ links' = links
      /\ (size'[v]["master"] = old[p] /\ failed' = failed \cup {p}) \/ size'[v]["master"] = NewSize(p)
      /\ \A y \in Parts : y # "master" => size'[v][y] = size[v][y]
      /\ \A w \in Vols : w # v => size'[w] = size[w]
  <2>1. "master" \in Parts
    BY DEF Parts
  <2> QED
    BY <1>2, <1>3, <1>4, <1>5, <2>1, ExpandFacts
<1>7. Vol(p)' = v /\ NewSize(p)' = NewSize(p)
  BY <1>1 DEF Vol, NewSize
<1>8. Fine(v)' \/ Hurt(v)'
  <2>1. CASE Hurt(v)
    BY <1>1, <2>1 DEF Hurt
  <2>2. CASE v \notin AAVols
    BY <1>2, <1>6, <2>2 DEF VolOK, Fine, Whole, PartsOf
  <2> QED
    BY <1>3, <2>1, <2>2
<1>9. VolOK(v)'
  <2>1. Running(p)'
    BY <1>5 DEF Running
  <2>2. \A x \in Parts : size'[v][x] <= size'[v]["master"]
    BY <1>2, <1>3, <1>6 DEF VolOK
  <2> QED
    BY <1>1, <1>2, <1>3, <1>6, <1>7, <1>8, <2>1, <2>2 DEF VolOK
<1>10. FreezeOK(p)' /\ SizeOK(p)'
  BY <1>1, <1>2, <1>3, <1>5, <1>7 DEF FreezeOK, SizeOK
<1>11. AnswerOK(p)'
  BY <1>2, <1>5, <1>6, <1>7, <1>8 DEF AnswerOK, Served
<1>12. Frame(p)
  BY <1>1, <1>2, <1>5, <1>6 DEF Frame, Goto
<1> QED
  BY <1>9, <1>10, <1>11, <1>12 DEF Effect, HandlerOK

(* One task of an active-active extension: from its state to the next. *)
LEMMA TaskStates ==
  ASSUME TypeInv, NEW p, NEW v \in Vols, NEW k \in 1..9, NEW b \in Nat, NEW a \in Nat,
         TaskState(v, k, b, b + a), \A x \in Parts : size[v][x] <= size[v]["master"],
         TaskEffect(p, v, k, a)
  PROVE  /\ k # 9 => TaskState(v, k + 1, b, b + a)'
         /\ k = 9 => links'[v] = Links /\ \A x \in Parts : size'[v][x] = b + a
         /\ \A x \in Parts : size'[v][x] <= size'[v]["master"]
         /\ size'[v]["master"] \in {b, b + a}
         /\ \A w \in Vols : w # v => size'[w] = size[w] /\ links'[w] = links[w]
<1>1. size \in [Vols -> [Parts -> Nat]] /\ links \in [Vols -> SUBSET Links]
  BY DEF TypeInv
<1>2. /\ "master" \in Parts /\ "aux" \in Parts /\ "masterCV" \in Parts /\ "auxCV" \in Parts
      /\ \A x \in Parts : x = "master" \/ x = "aux" \/ x = "masterCV" \/ x = "auxCV"
  BY DEF Parts
<1>3. /\ size[v]["master"] \in Nat /\ size[v]["aux"] \in Nat /\ size[v]["masterCV"] \in Nat
      /\ size[v]["auxCV"] \in Nat
  BY <1>1, <1>2
<1>4. CASE k = 1
  BY <1>1, <1>2, <1>3, <1>4 DEF TaskState, TaskEffect
<1>5. CASE k = 2
  <2>1. ExpandApply(v, "master", a)
    BY <1>5 DEF TaskEffect
  <2>2. /\ links' = links /\ size'[v]["master"] = size[v]["master"] + a
        /\ size'[v]["aux"] = size[v]["aux"] /\ size'[v]["masterCV"] = size[v]["masterCV"]
        /\ size'[v]["auxCV"] = size[v]["auxCV"] /\ \A w \in Vols : w # v => size'[w] = size[w]
    BY <1>2, <2>1, ExpandFacts
  <2> QED
    BY <1>2, <1>3, <1>5, <2>2 DEF TaskState
<1>6. CASE k = 3
  <2>1. ExpandApply(v, "aux", a)
    BY <1>6 DEF TaskEffect
  <2>2. /\ links' = links /\ size'[v]["aux"] = size[v]["aux"] + a
        /\ size'[v]["master"] = size[v]["master"] /\ size'[v]["masterCV"] = size[v]["masterCV"]
        /\ size'[v]["auxCV"] = size[v]["auxCV"] /\ \A w \in Vols : w # v => size'[w] = size[w]
    BY <1>2, <2>1, ExpandFacts
  <2> QED
    BY <1>2, <1>3, <1>6, <2>2 DEF TaskState
<1>7. CASE k = 4
  <2>1. ExpandApply(v, "masterCV", a)
    BY <1>7 DEF TaskEffect
  <2>2. /\ links' = links /\ size'[v]["masterCV"] = size[v]["masterCV"] + a
        /\ size'[v]["master"] = size[v]["master"] /\ size'[v]["aux"] = size[v]["aux"]
        /\ size'[v]["auxCV"] = size[v]["auxCV"] /\ \A w \in Vols : w # v => size'[w] = size[w]
    BY <1>2, <2>1, ExpandFacts
  <2> QED
    BY <1>2, <1>3, <1>7, <2>2 DEF TaskState
<1>8. CASE k = 5
  <2>1. ExpandApply(v, "auxCV", a)
    BY <1>8 DEF TaskEffect
  <2>2. /\ links' = links /\ size'[v]["auxCV"] = size[v]["auxCV"] + a
        /\ size'[v]["master"] = size[v]["master"] /\ size'[v]["aux"] = size[v]["aux"]
        /\ size'[v]["masterCV"] = size[v]["masterCV"]
        /\ \A w \in Vols : w # v => size'[w] = size[w]
    BY <1>2, <2>1, ExpandFacts
  <2> QED
    BY <1>2, <1>3, <1>8, <2>2 DEF TaskState
<1>9. CASE k = 6
  BY <1>1, <1>2, <1>3, <1>9 DEF TaskState, TaskEffect
<1>10. CASE k = 7
  BY <1>1, <1>2, <1>3, <1>10 DEF TaskState, TaskEffect
<1>11. CASE k = 8
  BY <1>1, <1>2, <1>3, <1>11 DEF TaskState, TaskEffect
<1>12. CASE k = 9
  <2>1. size' = size /\ links'[v] = Links /\ \A w \in Vols : w # v => links'[w] = links[w]
    BY <1>1, <1>12 DEF TaskState, TaskEffect, Links
  <2>2. \A x \in Parts : size[v][x] = b + a
    BY <1>2, <1>3, <1>12 DEF TaskState, TaskEffect
  <2> QED
    BY <1>2, <1>12, <2>1, <2>2
<1> QED
  BY <1>4, <1>5, <1>6, <1>7, <1>8, <1>9, <1>10, <1>11, <1>12

LEMMA TaskEffects ==
  ASSUME TypeInv, Inv, NEW p \in Procs, NEW v, v = Vol(p), Task(p)
  PROVE  Effect(p, v)
<1>1. /\ UNCHANGED <<barrier, frozen, dev, fs, req, old, shape, needFreezeFS, asked, harmed>>
      /\ pc[p] = "task" /\ Running(p)
  BY TaskCases DEF Running, nodeVars
<1>2. /\ v \in Vols /\ VolOK(v) /\ FreezeOK(p) /\ SizeOK(p)
      /\ NewSize(p) \in Nat /\ old[p] \in Nat /\ asked[v] \in Nat /\ step[p] \in 1..9
      /\ \A x \in Parts : size[v][x] \in Nat
      /\ DOMAIN pc = Procs /\ DOMAIN step = Procs
  BY <1>1, OwnFacts DEF TypeInv
<1>3. /\ old[p] < NewSize(p) /\ NewSize(p) <= asked[v] /\ v \in AAVols
      /\ TaskState(v, step[p], old[p], NewSize(p))
  BY <1>1, <1>2 DEF SizeOK
<1>4. Addition(p) \in Nat /\ old[p] + Addition(p) = NewSize(p)
  BY <1>2, <1>3 DEF Addition
<1>5. PICK k \in 1..9, b \in Nat, a \in Nat :
        k = step[p] /\ b = old[p] /\ a = Addition(p) /\ b + a = NewSize(p)
  BY <1>2, <1>4
<1>6. /\ Vol(p)' = v /\ NewSize(p)' = b + a /\ old'[p] = b
  BY <1>1, <1>5 DEF Vol, NewSize
<1>7. TaskEffect(p, v, k, a) =>
        /\ k # 9 => TaskState(v, k + 1, b, b + a)'
        /\ k = 9 => links'[v] = Links /\ \A x \in Parts : size'[v][x] = b + a
        /\ \A x \in Parts : size'[v][x] <= size'[v]["master"]
        /\ size'[v]["master"] \in {b, b + a}
        /\ \A w \in Vols : w # v => size'[w] = size[w] /\ links'[w] = links[w]
  <2>1. \A x \in Parts : size[v][x] <= size[v]["master"]
    BY <1>2 DEF VolOK
  <2>2. TaskState(v, k, b, b + a)
    BY <1>3, <1>5
  <2> QED
    BY <1>2, <2>1, <2>2, TaskStates
<1>8. size[v]["master"] \in {b, b + a}
  BY <1>3, <1>5 DEF TaskState
<1>9. \/ /\ (size' = size /\ links' = links) \/ TaskEffect(p, v, k, a)
         /\ Goto(p, "mkbarrier") /\ failed' = failed \cup {p} /\ step' = step
      \/ /\ TaskEffect(p, v, k, a)
         /\ k = 9 /\ Goto(p, "thaw") /\ failed' = failed /\ step' = step
      \/ /\ TaskEffect(p, v, k, a)
         /\ k # 9 /\ step' = [step EXCEPT ![p] = @ + 1]
         /\ pc' = pc /\ failed' = failed
  BY <1>5, TaskCases
<1>10. /\ size'[v]["master"] \in {b, b + a}
       /\ \A x \in Parts : size'[v][x] <= size'[v]["master"]
       /\ \A w \in Vols : w # v => size'[w] = size[w] /\ links'[w] = links[w]
  BY <1>2, <1>7, <1>8, <1>9 DEF VolOK
<1>11. \/ pc'[p] = "mkbarrier" /\ p \in failed'
       \/ pc'[p] = "task" /\ step'[p] = k + 1 /\ TaskState(v, k + 1, b, b + a)'
       \/ pc'[p] = "thaw" /\ links'[v] = Links /\ \A x \in Parts : size'[v][x] = b + a
  BY <1>1, <1>2, <1>5, <1>7, <1>9 DEF Goto
<1>12. VolOK(v)'
  <2>1. size'[v]["master"] <= asked[v]
    BY <1>2, <1>3, <1>5, <1>10
  <2>2. Fine(v)' \/ Worked(v)'
    <3>1. CASE pc'[p] = "thaw"
      BY <1>3, <1>11, <3>1 DEF Fine, Whole, PartsOf, Parts
    <3>2. CASE pc'[p] \in {"task", "mkbarrier"}
      BY <1>6, <3>2 DEF Worked
    <3> QED
      BY <1>11, <3>1, <3>2
  <2>3. Running(p)'
    BY <1>11 DEF Running
  <2> QED
    BY <1>1, <1>2, <1>3, <1>6, <1>10, <2>1, <2>2, <2>3 DEF VolOK
<1>13. FreezeOK(p)'
  BY <1>1, <1>2, <1>6, <1>11 DEF FreezeOK, Asleep, Loud
<1>14. SizeOK(p)'
  BY <1>1, <1>3, <1>5, <1>6, <1>11 DEF SizeOK
<1>15. AnswerOK(p)'
  <2>1. pc'[p] = "thaw" => Served(v, b + a)'
    BY <1>3, <1>11 DEF Served, Fine, Whole, PartsOf, Parts
  <2> QED
    BY <1>6, <1>11, <2>1 DEF AnswerOK
<1>16. Frame(p)
  BY <1>1, <1>2, <1>9, <1>10, <1>11 DEF Frame, Goto
<1> QED
  BY <1>12, <1>13, <1>14, <1>15, <1>16 DEF Effect, HandlerOK

-----------------------------------------------------------------------------
(* A handler for whose volume nothing changes but that more is asked for,  *)
(* or more harm done.                                                      *)
LEMMA SameHandler ==
  ASSUME TypeInv, NEW q \in Procs, HandlerOK(q),
         pc'[q] = pc[q], req'[q] = req[q], old'[q] = old[q], step'[q] = step[q],
         q \in shape <=> q \in shape', q \in failed <=> q \in failed',
         q \in needFreezeFS <=> q \in needFreezeFS',
         Working(q) => \A h : <<Vol(q), h>> \in harmed => <<Vol(q), h>> \in harmed',
         pc[q] # "idle" => asked'[Vol(q)] >= asked[Vol(q)] /\ asked'[Vol(q)] \in Nat,
         Working(q) => LET v == Vol(q) IN
           /\ size'[v] = size[v] /\ links'[v] = links[v] /\ dev'[v] = dev[v] /\ fs'[v] = fs[v]
           /\ v \in frozen <=> v \in frozen'
  PROVE  HandlerOK(q)'
<1>1. Vol(q)' = Vol(q) /\ NewSize(q)' = NewSize(q)
  BY DEF Vol, NewSize
<1>2. CASE pc[q] = "idle"
  BY <1>2 DEF HandlerOK, FreezeOK, SizeOK, AnswerOK
<1>3. CASE pc[q] = "err"
  <2>1. NewSize(q) <= asked'[Vol(q)]
    BY <1>3, Facts DEF HandlerOK, SizeOK
  <2> QED
    BY <1>1, <1>3, <2>1 DEF HandlerOK, FreezeOK, SizeOK, AnswerOK
<1>4. CASE Working(q)
  <2>1. PICK v \in Vols : v = Vol(q)
    BY <1>4, Facts DEF Working
  <2>2. /\ size'[v] = size[v] /\ links'[v] = links[v] /\ dev'[v] = dev[v] /\ fs'[v] = fs[v]
        /\ v \in frozen <=> v \in frozen'
        /\ \A h : <<v, h>> \in harmed => <<v, h>> \in harmed'
    BY <1>4, <2>1
  <2>3. /\ (Fine(v) <=> Fine(v)') /\ (Hurt(v) => Hurt(v)')
        /\ (Asleep(v) => Asleep(v)') /\ (FourRows(v) <=> FourRows(v)')
    BY <2>2 DEF Fine, Whole, Hurt, Asleep, Loud, FourRows
  <2>4. FreezeOK(q)'
    BY <1>1, <2>1, <2>2, <2>3 DEF HandlerOK, FreezeOK
  <2>5. NewSize(q) <= asked'[v]
    BY <1>4, <2>1, Facts DEF HandlerOK, SizeOK, Working
  <2>6. SizeOK(q)'
    <3>1. PICK k \in 1..9, b \in Nat, n \in Nat : k = step[q] /\ b = old[q] /\ n = NewSize(q)
      BY <1>4, Facts DEF Working
    <3>2. TaskState(v, k, b, n) => TaskState(v, k, b, n)'
      BY <2>2 DEF TaskState
    <3>3. pc[q] = "task" => TaskState(v, step[q], old[q], NewSize(q))'
      BY <1>1, <2>1, <3>1, <3>2 DEF HandlerOK, SizeOK
    <3> QED
      BY <1>1, <2>1, <2>2, <2>3, <2>5, <3>3 DEF HandlerOK, SizeOK
  <2>7. AnswerOK(q)'
    BY <1>1, <2>1, <2>2, <2>3 DEF HandlerOK, AnswerOK, Served
  <2> QED
    BY <2>4, <2>6, <2>7 DEF HandlerOK
<1> QED
  BY <1>2, <1>3, <1>4 DEF Working

(* A volume on which nobody's step works. *)
LEMMA SameVolumeOfOthers ==
  ASSUME TypeInv, NEW w \in Vols, VolOK(w),
         size'[w] = size[w], links'[w] = links[w], w \in frozen <=> w \in frozen',
         \A h \in {"tasks", "thaw"} : <<w, h>> \in harmed => <<w, h>> \in harmed',
         barrier => barrier',
         asked'[w] >= asked[w], asked'[w] \in Nat,
         Worked(w) => Worked(w)' \/ Hurt(w)',
         \A q \in Procs : Running(q) /\ Vol(q) = w /\ w \in frozen =>
           (Running(q)' /\ Vol(q)' = w) \/ <<w, "thaw">> \in harmed'
  PROVE  VolOK(w)'
<1>1. /\ \A x \in Parts : size[w][x] \in Nat /\ size'[w][x] = size[w][x]
      /\ size[w]["master"] \in Nat /\ asked[w] \in Nat
  BY DEF TypeInv, Parts
<1>2. (Fine(w) <=> Fine(w)') /\ (Hurt(w) => Hurt(w)')
  BY DEF Fine, Whole, Hurt
<1>3. \A x \in Parts : size'[w][x] <= size'[w]["master"]
  BY DEF VolOK
<1>4. size'[w]["master"] <= asked'[w]
  BY <1>1 DEF VolOK
<1>5. Fine(w)' \/ barrier' \/ Hurt(w)' \/ Worked(w)'
  BY <1>2 DEF VolOK
<1>6. w \in frozen' => (\E q \in Procs : Running(q) /\ Vol(q) = w)' \/ <<w, "thaw">> \in harmed'
  BY DEF VolOK
<1> QED
  BY <1>3, <1>4, <1>5, <1>6 DEF VolOK

LEMMA EffectInv ==
  ASSUME TypeInv, TypeInv', Inv, NEW p \in Procs, NEW v, v = Vol(p), Effect(p, v)
  PROVE  Inv'
<1>1. Frame(p) /\ VolOK(v)' /\ HandlerOK(p)' /\ v \in Vols /\ Working(p)
  BY OwnFacts DEF Effect, Frame, Running, Working
<1>2. \A q \in Procs : Vol(q)' = Vol(q) /\ (q # p => pc'[q] = pc[q])
  BY <1>1 DEF Frame, Vol
<1>3. ASSUME NEW q \in Procs, q # p, Working(q) PROVE Vol(q) # v
  BY <1>1, <1>3 DEF Inv, OneRequest
<1>4. OneRequest'
  <2>1. \A q \in Procs : Working(q)' => Working(q)
    BY <1>1, <1>2 DEF Working
  <2> QED
    BY <1>2, <2>1 DEF Inv, OneRequest
<1>5. ASSUME NEW q \in Procs PROVE HandlerOK(q)'
  <2>1. CASE q # p
    <3>1. HandlerOK(q)
      BY DEF Inv
    <3>2. pc[q] # "idle" => Vol(q) \in Vols /\ asked[Vol(q)] \in Nat
      BY Facts
    <3>3. Working(q) => Vol(q) \in Vols /\ Vol(q) # Vol(p)
      BY <1>3, <2>1, <3>2 DEF Working
    <3> QED
      BY <1>1, <2>1, <3>1, <3>2, <3>3, SameHandler DEF Frame
  <2> QED
    BY <1>1, <2>1
<1>6. ASSUME NEW w \in Vols PROVE VolOK(w)'
  <2>1. CASE w # v
    <3>1. VolOK(w) /\ asked[w] \in Nat
      BY DEF Inv, TypeInv
    <3>2. Worked(w) => Worked(w)'
      BY <1>2, <2>1 DEF Worked
    <3>3. \A q \in Procs : Running(q) /\ Vol(q) = w => Running(q)' /\ Vol(q)' = w
      BY <1>2, <2>1 DEF Running
    <3>4. /\ size'[w] = size[w] /\ links'[w] = links[w] /\ (w \in frozen <=> w \in frozen')
          /\ harmed \subseteq harmed' /\ (barrier => barrier') /\ asked' = asked
      BY <1>1, <2>1 DEF Frame
    <3>5. asked'[w] >= asked[w] /\ asked'[w] \in Nat
      BY <3>1, <3>4
    <3> QED
      BY <3>1, <3>2, <3>3, <3>4, <3>5, SameVolumeOfOthers
  <2> QED
    BY <1>1, <2>1
<1> QED
  BY <1>4, <1>5, <1>6 DEF Inv

(* Handlers die: alone, or all with the plugin. *)
LEMMA CrashInv ==
  ASSUME TypeInv, TypeInv', Inv, NEW K \in SUBSET Procs, Cut(K),
         \A q \in Procs : pc'[q] = IF q \in K /\ Running(q) THEN "err" ELSE pc[q],
         UNCHANGED <<arrayVars, nodeVars, procVars, asked>>
  PROVE  Inv'
<1>1. /\ size' = size /\ links' = links /\ barrier' = barrier /\ frozen' = frozen /\ dev' = dev
      /\ fs' = fs /\ req' = req /\ old' = old /\ shape' = shape /\ step' = step /\ failed' = failed
      /\ needFreezeFS' = needFreezeFS /\ asked' = asked
  BY DEF arrayVars, nodeVars, procVars
<1>2. harmed \subseteq harmed'
  BY DEF Cut
<1>3. \A q \in Procs : Vol(q)' = Vol(q) /\ NewSize(q)' = NewSize(q)
  BY <1>1 DEF Vol, NewSize
<1>4. OneRequest'
  <2>1. \A q \in Procs : Working(q)' => Working(q)
    BY DEF Working
  <2> QED
    BY <1>3, <2>1 DEF Inv, OneRequest
<1>5. ASSUME NEW q \in Procs PROVE HandlerOK(q)'
  <2>1. HandlerOK(q)
    BY DEF Inv
  <2>2. CASE q \in K /\ Running(q)
    <3>1. pc'[q] = "err" /\ NewSize(q) <= asked[Vol(q)]
      BY <2>1, <2>2 DEF HandlerOK, SizeOK, Running
    <3> QED
      BY <1>1, <1>3, <3>1 DEF HandlerOK, FreezeOK, SizeOK, AnswerOK
  <2>3. CASE ~(q \in K /\ Running(q))
    <3>1. pc'[q] = pc[q]
      BY <2>3
    <3>2. pc[q] # "idle" => asked[Vol(q)] \in Nat
      BY Facts
    <3> QED
      BY <1>1, <1>2, <2>1, <3>1, <3>2, SameHandler
  <2> QED
    BY <2>2, <2>3
<1>6. ASSUME NEW w \in Vols PROVE VolOK(w)'
  <2>1. VolOK(w) /\ asked[w] \in Nat
    BY DEF Inv, TypeInv
  <2>2. Worked(w) => Worked(w)' \/ Hurt(w)'
    <3> SUFFICES ASSUME NEW q \in Procs, pc[q] \in {"task", "mkbarrier"}, Vol(q) = w
                 PROVE  Worked(w)' \/ Hurt(w)'
      BY DEF Worked
    <3>1. CASE q \in K
      BY <3>1 DEF Cut, Hurt
    <3>2. CASE q \notin K
      BY <1>3, <3>2 DEF Worked
    <3> QED
      BY <3>1, <3>2
  <2>3. \A q \in Procs : Running(q) /\ Vol(q) = w /\ w \in frozen =>
          (Running(q)' /\ Vol(q)' = w) \/ <<w, "thaw">> \in harmed'
    BY <1>3 DEF Cut, Running
  <2>4. asked'[w] >= asked[w] /\ asked'[w] \in Nat
    BY <1>1, <2>1
  <2> QED
    BY <1>1, <1>2, <2>1, <2>2, <2>3, <2>4, SameVolumeOfOthers
<1> QED
  BY <1>4, <1>5, <1>6 DEF Inv

LEMMA EndsInv ==
  ASSUME TypeInv, TypeInv', Inv, NEW p \in Procs, ProcessEnds(p),
         UNCHANGED <<arrayVars, nodeVars, procVars, asked>>
  PROVE  Inv'
<1>1. PICK K \in {{p}, Procs} :
        /\ pc' = [q \in Procs |-> IF q \in K /\ Running(q) THEN "err" ELSE pc[q]]
        /\ Cut(K)
  BY DEF ProcessEnds
<1>2. K \in SUBSET Procs /\ \A q \in Procs : pc'[q] = IF q \in K /\ Running(q) THEN "err" ELSE pc[q]
  BY <1>1
<1> QED
  BY <1>1, <1>2, CrashInv

LEMMA StepInv ==
  ASSUME TypeInv, Inv, NEW p \in Procs, Step(p)
  PROVE  TypeInv' /\ Inv'
<1>1. TypeInv'
  BY StepType
<1>2. PICK v : v = Vol(p)
  OBVIOUS
<1>3. CASE ~((LsVdisk(p) \/ ExtendDisk(p)) /\ ProcessEnds(p))
  <2>1. Effect(p, v)
    BY <1>2, <1>3, QueryEffect, LsVdiskEffect, NodeEffect, ExpandEffect, TaskEffects DEF Step
  <2> QED
    BY <1>1, <1>2, <2>1, EffectInv
<1>4. ASSUME ProcessEnds(p), Running(p) PROVE pc'[p] = "err"
  BY <1>4 DEF ProcessEnds
<1>5. CASE LsVdisk(p) /\ ProcessEnds(p)
  <2>1. NewSize(p) \in Nat /\ size[Vol(p)]["master"] \in Nat
    BY <1>5, Facts DEF LsVdisk, Parts
  <2>2. NewSize(p) = size[Vol(p)]["master"] \/ NewSize(p) < size[Vol(p)]["master"]
        \/ NewSize(p) > size[Vol(p)]["master"]
    BY <2>1, Comparable
  <2>3. pc[p] = "lsvdisk" /\ pc'[p] = "err" /\ DOMAIN pc = Procs
    BY <1>4, <1>5 DEF LsVdisk, Running, TypeInv
  <2>4. UNCHANGED <<old, shape, failed>>
    BY <1>5, <2>2, <2>3 DEF LsVdisk, Return, AlreadyThere, Goto
  <2>5. UNCHANGED <<arrayVars, nodeVars, procVars, asked>>
    BY <1>5, <2>4 DEF LsVdisk, procVars
  <2> QED
    BY <1>1, <1>5, <2>5, EndsInv
<1>6. CASE ExtendDisk(p) /\ ProcessEnds(p)
  <2>1. pc[p] = "rescan" /\ pc'[p] = "err" /\ DOMAIN pc = Procs
    BY <1>4, <1>6 DEF ExtendDisk, Running, TypeInv
  <2>2. dev' = dev
    BY <1>6, <2>1 DEF ExtendDisk, Goto
  <2>3. UNCHANGED <<arrayVars, nodeVars, procVars, asked>>
    BY <1>6, <2>2 DEF ExtendDisk, nodeVars
  <2> QED
    BY <1>1, <1>6, <2>3, EndsInv
<1> QED
  BY <1>3, <1>5, <1>6

-----------------------------------------------------------------------------
(* A request begins: more may be asked for than before. *)
LEMMA BeginInv ==
  ASSUME TypeInv, TypeInv', Inv, NEW p \in Procs, ~Running(p), NEW r \in Asks, Begin(p, r)
  PROVE  Inv'
<1>1. /\ size' = size /\ links' = links /\ barrier' = barrier /\ frozen' = frozen
      /\ dev' = dev /\ fs' = fs
      /\ \A w : \A h \in {"tasks", "thaw"} : <<w, h>> \in harmed => <<w, h>> \in harmed'
      /\ \A w, h : w # r.vol /\ <<w, h>> \in harmed => <<w, h>> \in harmed'
  BY DEF Begin, arrayVars, nodeVars, OfAttempt
<1>2. /\ r.vol \in Vols /\ r.bytes \div GB \in Nat
      /\ DOMAIN pc = Procs /\ DOMAIN req = Procs /\ DOMAIN old = Procs /\ DOMAIN step = Procs
  BY RequestFacts DEF TypeInv
<1>3. /\ pc'[p] = "attachInfo" /\ Vol(p)' = r.vol /\ NewSize(p)' = r.bytes \div GB
      /\ step'[p] = 1 /\ p \notin shape'
  BY <1>2 DEF Begin, Goto, Vol, NewSize
<1>4. \A q \in Procs : q # p =>
        /\ pc'[q] = pc[q] /\ req'[q] = req[q] /\ old'[q] = old[q] /\ step'[q] = step[q]
        /\ (q \in shape <=> q \in shape') /\ (q \in failed <=> q \in failed')
        /\ (q \in needFreezeFS <=> q \in needFreezeFS')
        /\ Vol(q)' = Vol(q)
  BY <1>2 DEF Begin, Goto, Vol
<1>5. /\ \A w \in Vols : asked'[w] \in Nat /\ asked'[w] >= asked[w]
      /\ asked'[r.vol] >= r.bytes \div GB
  <2>1. asked \in [Vols -> Nat]
        /\ asked' = [asked EXCEPT ![r.vol] = Max({asked[r.vol], r.bytes \div GB})]
    BY DEF Begin, TypeInv
  <2>2. PICK m \in Nat : m = Max({asked[r.vol], r.bytes \div GB}) /\ m >= asked[r.vol] /\ m >= r.bytes \div GB
    BY <1>2, <2>1, LargerOfTwo
  <2>3. asked' = [asked EXCEPT ![r.vol] = m]
    BY <2>1, <2>2
  <2> QED
    BY <1>2, <2>1, <2>2, <2>3
<1>6. \A q \in Procs : q # p /\ Working(q) => Vol(q) # r.vol
  BY DEF Begin, Working
<1>7. OneRequest'
  <2>1. \A q \in Procs : q # p => (Working(q)' <=> Working(q))
    BY <1>4 DEF Working
  <2> QED
    BY <1>3, <1>4, <1>6, <2>1 DEF Inv, OneRequest
<1>8. ASSUME NEW w \in Vols PROVE VolOK(w)'
  <2>1. VolOK(w)
    BY DEF Inv
  <2>2. Worked(w) => Worked(w)'
    <3> SUFFICES ASSUME NEW q \in Procs, pc[q] \in {"task", "mkbarrier"}, Vol(q) = w
                 PROVE  Worked(w)'
      BY DEF Worked
    <3>1. q # p
      BY DEF Running
    <3> QED
      BY <1>4, <3>1 DEF Worked
  <2>3. \A q \in Procs : Running(q) /\ Vol(q) = w => Running(q)' /\ Vol(q)' = w
    BY <1>4 DEF Running
  <2> QED
    BY <1>1, <1>5, <2>1, <2>2, <2>3, SameVolumeOfOthers
<1>9. r.vol \in frozen => <<r.vol, "thaw">> \in harmed
  <2>1. VolOK(r.vol)
    BY <1>2 DEF Inv
  <2>2. \A q \in Procs : Running(q) => q # p /\ Working(q)
    BY DEF Running, Working
  <2> QED
    BY <1>6, <2>1, <2>2 DEF VolOK
<1>10. ASSUME NEW q \in Procs PROVE HandlerOK(q)'
  <2>1. CASE q = p
    BY <1>1, <1>3, <1>5, <1>9, <2>1 DEF HandlerOK, FreezeOK, SizeOK, AnswerOK
  <2>2. CASE q # p
    <3>1. HandlerOK(q) /\ (pc[q] # "idle" => Vol(q) \in Vols)
      BY Facts DEF Inv
    <3>2. /\ pc'[q] = pc[q] /\ req'[q] = req[q] /\ old'[q] = old[q] /\ step'[q] = step[q]
          /\ (q \in shape <=> q \in shape') /\ (q \in failed <=> q \in failed')
          /\ (q \in needFreezeFS <=> q \in needFreezeFS')
      BY <1>4, <2>2
    <3>3. pc[q] # "idle" => asked'[Vol(q)] >= asked[Vol(q)] /\ asked'[Vol(q)] \in Nat
      BY <1>5, <3>1
    <3>4. Working(q) => \A h : <<Vol(q), h>> \in harmed => <<Vol(q), h>> \in harmed'
      BY <1>1, <1>6, <2>2
    <3> QED
      BY <1>1, <3>1, <3>2, <3>3, <3>4, SameHandler
  <2> QED
    BY <2>1, <2>2
<1> QED
  BY <1>7, <1>8, <1>10 DEF Inv

(* A request is answered and forgotten. *)
LEMMA DoneInv ==
  ASSUME TypeInv, TypeInv', Inv, NEW p \in Procs, Done(p)
  PROVE  Inv'
<1>1. /\ size' = size /\ links' = links /\ barrier' = barrier /\ frozen' = frozen
      /\ dev' = dev /\ fs' = fs /\ harmed' = harmed /\ asked' = asked /\ ~Running(p)
  BY DEF Done, arrayVars, nodeVars, Running
<1>2. /\ DOMAIN pc = Procs /\ DOMAIN req = Procs /\ DOMAIN old = Procs /\ DOMAIN step = Procs
  BY DEF TypeInv
<1>3. pc'[p] = "idle"
  BY <1>2 DEF Done, Goto
<1>4. \A q \in Procs : q # p =>
        /\ pc'[q] = pc[q] /\ req'[q] = req[q] /\ old'[q] = old[q] /\ step'[q] = step[q]
        /\ (q \in shape <=> q \in shape') /\ (q \in failed <=> q \in failed')
        /\ (q \in needFreezeFS <=> q \in needFreezeFS')
        /\ Vol(q)' = Vol(q)
  BY <1>2 DEF Done, Goto, Vol
<1>5. OneRequest'
  <2>1. \A q \in Procs : Working(q)' => Working(q) /\ q # p
    BY <1>3, <1>4 DEF Working
  <2> QED
    BY <1>4, <2>1 DEF Inv, OneRequest
<1>6. ASSUME NEW w \in Vols PROVE VolOK(w)'
  <2>1. VolOK(w) /\ asked[w] \in Nat
    BY DEF Inv, TypeInv
  <2>2. Worked(w) => Worked(w)'
    <3> SUFFICES ASSUME NEW q \in Procs, pc[q] \in {"task", "mkbarrier"}, Vol(q) = w
                 PROVE  Worked(w)'
      BY DEF Worked
    <3>1. q # p
      BY <1>1 DEF Running
    <3> QED
      BY <1>4, <3>1 DEF Worked
  <2>3. \A q \in Procs : Running(q) /\ Vol(q) = w => Running(q)' /\ Vol(q)' = w
    BY <1>1, <1>4 DEF Running
  <2>4. asked'[w] >= asked[w] /\ asked'[w] \in Nat
    BY <1>1, <2>1
  <2> QED
    BY <1>1, <2>1, <2>2, <2>3, <2>4, SameVolumeOfOthers
<1>7. ASSUME NEW q \in Procs PROVE HandlerOK(q)'
  <2>1. CASE q = p
    BY <1>3, <2>1 DEF HandlerOK, FreezeOK, SizeOK, AnswerOK
  <2>2. CASE q # p
    <3>1. HandlerOK(q) /\ (pc[q] # "idle" => asked[Vol(q)] \in Nat)
      BY Facts DEF Inv
    <3>2. /\ pc'[q] = pc[q] /\ req'[q] = req[q] /\ old'[q] = old[q] /\ step'[q] = step[q]
          /\ (q \in shape <=> q \in shape') /\ (q \in failed <=> q \in failed')
          /\ (q \in needFreezeFS <=> q \in needFreezeFS')
      BY <1>4, <2>2
    <3> QED
      BY <1>1, <3>1, <3>2, SameHandler
  <2> QED
    BY <2>1, <2>2
<1> QED
  BY <1>5, <1>6, <1>7 DEF Inv

LEMMA CallerInv ==
  ASSUME TypeInv, Inv, NEW p \in Procs, CallerStep(p)
  PROVE  TypeInv' /\ Inv'
<1>1. TypeInv'
  BY CallerType
<1>2. CASE Call(p)
  <2>1. ~Running(p) /\ \E r \in Asks : Begin(p, r)
    BY <1>2 DEF Call, Running
  <2> QED
    BY <1>1, <2>1, BeginInv
<1>3. CASE Retry(p)
  <2>1. ~Running(p) /\ req[p] \in Asks /\ Begin(p, req[p])
    BY <1>3 DEF Retry, Running, TypeInv
  <2>2. PICK r \in Asks : r = req[p]
    BY <2>1
  <2> QED
    BY <1>1, <2>1, <2>2, BeginInv
<1>4. CASE Done(p)
  BY <1>1, <1>4, DoneInv
<1>5. CASE Kill(p)
  <2>1. ProcessEnds(p) /\ UNCHANGED <<arrayVars, nodeVars, procVars, asked>>
    BY <1>5 DEF Kill
  <2> QED
    BY <1>1, <2>1, EndsInv
<1> QED
  BY <1>1, <1>2, <1>3, <1>4, <1>5 DEF CallerStep

-----------------------------------------------------------------------------
(* The operator makes a volume fine without changing the size of its       *)
(* master, as no part is larger.                                           *)
LEMMA OperatorInv ==
  ASSUME TypeInv, Inv, Operator
  PROVE  TypeInv' /\ Inv'
<1> DEFINE Todo == {v \in AAVols : \A p \in Procs : pc[p] \in {"task", "mkbarrier"} => Vol(p) # v}
           Largest(v) == Max({size[v][x] : x \in Parts})
<1>1. /\ size' = [v \in Vols |-> IF v \in Todo THEN [x \in Parts |-> Largest(v)] ELSE size[v]]
      /\ links' = [v \in Vols |-> IF v \in Todo THEN Links ELSE links[v]]
      /\ barrier' = FALSE
  BY DEF Operator
<1>2. /\ frozen' = frozen /\ dev' = dev /\ fs' = fs /\ pc' = pc /\ req' = req /\ old' = old
      /\ shape' = shape /\ step' = step /\ failed' = failed /\ needFreezeFS' = needFreezeFS
      /\ asked' = asked /\ harmed \subseteq harmed'
      /\ \A v, h : h # "repair" => (<<v, h>> \in harmed' <=> <<v, h>> \in harmed)
      /\ \A p \in Procs : Running(p) /\ Vol(p) \in Todo /\ ~Whole(Vol(p)) =>
           <<Vol(p), "repair">> \in harmed'
  BY DEF Operator, procVars
<1>3. ASSUME NEW v \in Vols PROVE Largest(v) = size[v]["master"] /\ size[v] \in [Parts -> Nat]
  <2>1. size[v] \in [Parts -> Nat] /\ \A x \in Parts : size[v][x] <= size[v]["master"]
    BY DEF TypeInv, Inv, VolOK
  <2> QED
    BY <2>1, LargestPart
<1> HIDE DEF Largest
<1>4. "master" \in Parts
  BY DEF Parts
<1>5. ASSUME NEW v \in Vols
      PROVE  /\ size'[v]["master"] = size[v]["master"] /\ size'[v] \in [Parts -> Nat]
             /\ v \in Todo => links'[v] = Links /\ \A x \in Parts : size'[v][x] = size[v]["master"]
             /\ v \notin Todo => size'[v] = size[v] /\ links'[v] = links[v]
  <2>1. CASE v \in Todo
    <3>1. size'[v] = [x \in Parts |-> Largest(v)] /\ links'[v] = Links
      BY <1>1, <2>1
    <3>2. Largest(v) \in Nat
      BY <1>3, <1>4
    <3> QED
      BY <1>3, <1>4, <2>1, <3>1, <3>2
  <2>2. CASE v \notin Todo
    BY <1>1, <1>3, <2>2
  <2> QED
    BY <2>1, <2>2
<1>6. TypeInv'
  <2>1. DOMAIN size' = Vols /\ \A v \in Vols : size'[v] \in [Parts -> Nat]
    BY <1>1, <1>5
  <2>2. size' \in [Vols -> [Parts -> Nat]]
    <3>1. size' = [v \in Vols |-> size'[v]]
      BY <1>1
    <3> QED
      BY <2>1, <3>1
  <2>3. links' \in [Vols -> SUBSET Links]
    BY <1>1 DEF TypeInv
  <2>4. barrier' \in BOOLEAN
    BY <1>1
  <2> QED
    BY <1>2, <2>2, <2>3, <2>4 DEF TypeInv
<1> HIDE DEF Todo
<1>7. /\ \A p \in Procs : Vol(p)' = Vol(p) /\ NewSize(p)' = NewSize(p)
      /\ \A v : Hurt(v)' <=> Hurt(v)
      /\ \A v : Worked(v)' <=> Worked(v)
  BY <1>2 DEF Vol, NewSize, Hurt, Worked
<1>13. ASSUME NEW p \in Procs, Running(p), Vol(p) \in Vols, ~FourRows(Vol(p)), FourRows(Vol(p))'
       PROVE  Asleep(Vol(p))'
  <2>1. Vol(p) \in Todo /\ Vol(p) \in AAVols
    BY <1>5, <1>7, <1>13 DEF FourRows, Todo
  <2>2. ~Whole(Vol(p))
    BY <1>13, <2>1 DEF Whole, FourRows, Links
  <2> QED
    BY <1>2, <1>7, <1>13, <2>1, <2>2 DEF Asleep, Loud
<1>8. Todo \subseteq AAVols /\ \A v \in AAVols : v \notin Todo => Worked(v)
  BY DEF Todo, Worked
<1>9. ASSUME NEW v \in Vols
      PROVE  /\ v \in Todo => Fine(v)'
             /\ Fine(v) => Fine(v)'
  <2>1. CASE v \in Todo
    <3>1. v \in AAVols
      BY <1>8, <2>1
    <3>2. links'[v] = Links /\ \A x \in Parts : size'[v][x] = size'[v]["master"]
      BY <1>5, <2>1
    <3> QED
      BY <3>1, <3>2 DEF Fine, Whole, PartsOf
  <2>2. CASE v \notin Todo
    BY <1>5, <2>2 DEF Fine, Whole
  <2> QED
    BY <2>1, <2>2
<1>10. ASSUME NEW v \in Vols PROVE VolOK(v)'
  <2>1. VolOK(v) /\ \A x \in Parts : size[v][x] \in Nat
    BY <1>3 DEF Inv
  <2>2. Fine(v)' \/ Worked(v)'
    <3>1. CASE v \notin AAVols
      BY <1>5, <1>8, <2>1, <3>1 DEF VolOK, Fine, Whole, PartsOf
    <3>2. CASE v \in AAVols
      BY <1>7, <1>8, <1>9, <3>2
    <3> QED
      BY <3>1, <3>2
  <2>3. \A x \in Parts : size'[v][x] <= size'[v]["master"]
    BY <1>4, <1>5, <2>1 DEF VolOK
  <2>4. v \notin AAVols => links'[v] = {}
    BY <1>2, <1>5, <1>8, <2>1 DEF VolOK
  <2>5. size'[v]["master"] <= asked'[v]
    BY <1>2, <1>5, <2>1 DEF VolOK
  <2>6. v \in frozen' => (\E p \in Procs : Running(p) /\ Vol(p) = v)' \/ <<v, "thaw">> \in harmed'
    BY <1>2, <1>7, <2>1 DEF VolOK, Running
  <2> QED
    BY <2>2, <2>3, <2>4, <2>5, <2>6 DEF VolOK
<1>11. ASSUME NEW p \in Procs PROVE HandlerOK(p)'
  <2>1. HandlerOK(p)
    BY DEF Inv
  <2>2. CASE pc[p] = "idle"
    BY <1>2, <2>2 DEF HandlerOK, FreezeOK, SizeOK, AnswerOK
  <2>3. CASE pc[p] # "idle"
    <3>1. PICK v \in Vols : v = Vol(p)
      BY <2>3, Facts
    <3>2. /\ Vol(p)' = v /\ NewSize(p)' = NewSize(p) /\ (Hurt(v)' <=> Hurt(v))
          /\ (Fine(v) => Fine(v)') /\ size'[v]["master"] = size[v]["master"]
      BY <1>5, <1>7, <1>9, <3>1
    <3>3. pc[p] = "task" => size'[v] = size[v] /\ links'[v] = links[v]
      BY <1>5, <3>1 DEF Todo
    <3>4. FreezeOK(p)'
      <4>1. Asleep(v) => Asleep(v)'
        BY <1>2 DEF Asleep, Loud
      <4>2. Running(p) /\ ~FourRows(v) => Asleep(v)' \/ ~FourRows(v)'
        BY <1>7, <1>13, <3>1
      <4>3. pc[p] \in {"barrier", "lsvdisk"} => Running(p)
        BY DEF Running
      <4> QED
        BY <1>2, <2>1, <3>1, <3>2, <4>1, <4>2, <4>3 DEF HandlerOK, FreezeOK
    <3>5. pc[p] = "task" => TaskState(v, step[p], old[p], NewSize(p))'
      <4>1. PICK k \in 1..9, b \in Nat, n \in Nat : k = step[p] /\ b = old[p] /\ n = NewSize(p)
        BY <2>3, Facts
      <4>2. pc[p] = "task" /\ TaskState(v, k, b, n) => TaskState(v, k, b, n)'
        BY <3>3 DEF TaskState
      <4> QED
        BY <1>2, <2>1, <3>1, <3>2, <4>1, <4>2 DEF HandlerOK, SizeOK
    <3>6. SizeOK(p)'
      BY <1>2, <2>1, <3>1, <3>2, <3>5 DEF HandlerOK, SizeOK
    <3>7. AnswerOK(p)'
      BY <1>2, <2>1, <3>1, <3>2 DEF HandlerOK, AnswerOK, Served
    <3> QED
      BY <3>4, <3>6, <3>7 DEF HandlerOK
  <2> QED
    BY <2>2, <2>3
<1>12. OneRequest'
  BY <1>2, <1>7 DEF Inv, OneRequest, Working
<1> QED
  BY <1>6, <1>10, <1>11, <1>12 DEF Inv

LEMMA StutterInv ==
  ASSUME TypeInv, Inv, UNCHANGED vars
  PROVE  TypeInv' /\ Inv'
<1>1. /\ size' = size /\ links' = links /\ barrier' = barrier /\ frozen' = frozen /\ dev' = dev
      /\ fs' = fs /\ pc' = pc /\ req' = req /\ old' = old /\ shape' = shape /\ step' = step
      /\ failed' = failed /\ needFreezeFS' = needFreezeFS /\ asked' = asked /\ harmed' = harmed
  BY DEF vars, arrayVars, nodeVars, procVars
<1>2. TypeInv'
  BY <1>1 DEF TypeInv
<1>3. Cut({}) /\ \A q \in Procs : pc'[q] = IF q \in {} /\ Running(q) THEN "err" ELSE pc[q]
  BY <1>1 DEF Cut
<1>4. UNCHANGED <<arrayVars, nodeVars, procVars, asked>>
  BY <1>1 DEF arrayVars, nodeVars, procVars
<1> QED
  BY <1>2, <1>3, <1>4, CrashInv

LEMMA Invariants == Spec => [](TypeInv /\ Inv)
<1>1. TypeInv /\ Inv /\ [Next]_vars => (TypeInv /\ Inv)'
  BY CallerInv, StepInv, OperatorInv, StutterInv DEF Next, CallerStep, Rest
<1> QED
  BY InitInv, <1>1, PTL DEF Spec

-----------------------------------------------------------------------------
(* An answer of success of controller.ExtendVolume is true, for every      *)
(* order of failed attempts, retries and repairs before it: the vdisks     *)
(* have the size asked for and the relationship is complete, unless an     *)
(* attempt was killed between its tasks or a rejected query read as a      *)
(* volume that is not attached; and the file system has grown, unless the  *)
(* rescan was refused or blkid found no file system.                       *)
THEOREM ExtensionsAreSound == Spec => []ExtendSound
<1>1. TypeInv /\ Inv => ExtendSound
  <2> SUFFICES ASSUME TypeInv, Inv, NEW p \in Procs, pc[p] = "ok",
                      <<Vol(p), "tasks">> \notin harmed, <<Vol(p), "attach">> \notin harmed
               PROVE  /\ \A x \in PartsOf(Vol(p)) : size[Vol(p)][x] >= NewSize(p)
                      /\ Whole(Vol(p))
                      /\ \/ fs[Vol(p)] >= NewSize(p)
                         \/ {<<Vol(p), "rescan">>, <<Vol(p), "format">>} \cap harmed # {}
    BY DEF ExtendSound
  <2>1. AnswerOK(p)
    BY DEF Inv, HandlerOK
  <2>2. /\ Served(Vol(p), NewSize(p))
        /\ \/ <<Vol(p), "rescan">> \in harmed \/ <<Vol(p), "format">> \in harmed
           \/ fs[Vol(p)] >= NewSize(p)
    BY <2>1 DEF AnswerOK, Hurt
  <2> QED
    BY <2>2 DEF Served, Fine
<1> QED
  BY <1>1, Invariants, PTL

(* No vdisk is ever larger than the largest size asked for of its volume,  *)
(* although expandvdisksize adds to what there is: lost answers are not    *)
(* added twice.                                                            *)
THEOREM VolumesStayInBounds == Spec => []NeverTooLarge
<1>1. TypeInv /\ Inv => NeverTooLarge
  <2> SUFFICES ASSUME TypeInv, Inv, NEW v \in Vols, NEW x \in Parts
               PROVE  size[v][x] <= asked[v]
    BY DEF NeverTooLarge
  <2>1. size[v][x] \in Nat /\ size[v]["master"] \in Nat /\ asked[v] \in Nat
    BY DEF TypeInv, Parts
  <2>2. size[v][x] <= size[v]["master"] /\ size[v]["master"] <= asked[v]
    BY DEF Inv, VolOK
  <2> QED
    BY <2>1, <2>2
<1> QED
  BY <1>1, Invariants, PTL

(* A volume whose relationship is not complete is at work, or behind the   *)
(* barrier of createAAExtendFailedBarrier, unless the process died between *)
(* its tasks or the barrier could not be written.                          *)
THEOREM BrokenVolumesAreBarred == Spec => []BrokenIsBarred
<1>1. TypeInv /\ Inv => BrokenIsBarred
  BY DEF Inv, VolOK, BrokenIsBarred, Fine, Hurt, Worked
<1> QED
  BY <1>1, Invariants, PTL

(* The file system is frozen while the tasks of an active-active extension *)
(* run, whether its options or the rows of lsvdisk decided on the freeze,  *)
(* unless that query was rejected, FIFreeze failed, or the operator put    *)
(* the volume right between the query and the tasks.                       *)
THEOREM TasksRunQuietly == Spec => []QuietDuringTasks
<1>1. TypeInv /\ Inv => QuietDuringTasks
  BY DEF Inv, HandlerOK, FreezeOK, Asleep, Loud, QuietDuringTasks
<1> QED
  BY <1>1, Invariants, PTL

(* No file system stays frozen behind an extension, unless FIThaw failed   *)
(* or the process died.                                                    *)
THEOREM FileSystemsAreThawed == Spec => []Thawed
<1>1. TypeInv /\ Inv => Thawed
  BY DEF TypeInv, Inv, VolOK, Thawed
<1> QED
  BY <1>1, Invariants, PTL
-----------------------------------------------------------------------------
(* Sums over a finite set: what the fold of Used computes. *)

(* The element a fold takes first. *)
First(s) == CHOOSE x \in s : TRUE

(* f gives the sum of h over every set of D. *)
SumsOf(f, h, D) ==
  \A s \in D : f[s] = IF s = {} THEN 0 ELSE h[First(s)] + f[s \ {First(s)}]

(* A set of natural numbers that has every number whose predecessors it has has all. *)
LEMMA LeastMissing ==
  ASSUME NEW S \in SUBSET Nat, 0 \in S, \A n \in S : n + 1 \in S
  PROVE  S = Nat
<1>1. IsWellFoundedOn(OpToRel(<, Nat), Nat)
  BY NatLessThanWellFounded, Zenon
<1> SUFFICES ASSUME NEW m \in Nat, m \notin S PROVE FALSE
  OBVIOUS
<1> DEFINE M == Nat \ S
<1>2. PICK k \in M : \A l \in M : ~ (<<l, k>> \in OpToRel(<, Nat))
  <2>1. M \subseteq Nat /\ m \in M
    OBVIOUS
  <2> HIDE DEF M
  <2> QED
    BY <1>1, <2>1, WFMin
<1>3. k \in Nat /\ k - 1 \in Nat /\ (k - 1) + 1 = k
  <2>1. k \in Nat /\ k # 0
    BY <1>2
  <2> QED
    BY <2>1
<1>4. <<k - 1, k>> \in OpToRel(<, Nat)
  BY <1>3 DEF OpToRel
<1>5. k - 1 \in S
  BY <1>2, <1>3, <1>4
<1> QED
  BY <1>2, <1>3, <1>5

IsSum(f, h, S) == f = [s \in SUBSET S |-> IF s = {} THEN 0 ELSE h[First(s)] + f[s \ {First(s)}]]

(* The recursion of the fold over a finite set has a solution, *)
LEMMA SumsExist ==
  ASSUME NEW S, IsFiniteSet(S), NEW h \in [S -> Nat]
  PROVE  \E f : IsSum(f, h, S)
<1> DEFINE Small(n) == {s \in SUBSET S : Cardinality(s) <= n}
           Good == {n \in Nat : \E f : f \in [Small(n) -> Nat] /\ SumsOf(f, h, Small(n))}
<1>0. \A s \in SUBSET S : IsFiniteSet(s) /\ Cardinality(s) \in Nat /\ (Cardinality(s) = 0 <=> s = {})
  BY FS_Subset, FS_CardinalityType, FS_EmptySet
<1>1. \A s \in SUBSET S : s # {} =>
         First(s) \in S /\ s \ {First(s)} \in SUBSET S /\ Cardinality(s \ {First(s)}) = Cardinality(s) - 1
  <2> SUFFICES ASSUME NEW s \in SUBSET S, s # {}
               PROVE  First(s) \in S /\ s \ {First(s)} \in SUBSET S /\ Cardinality(s \ {First(s)}) = Cardinality(s) - 1
    OBVIOUS
  <2>1. First(s) \in s
    BY DEF First
  <2> QED
    BY <1>0, <2>1, FS_RemoveElement
<1>2. 0 \in Good
  <2>1. \A s \in Small(0) : s = {}
    BY <1>0
  <2>2. [s \in Small(0) |-> 0] \in [Small(0) -> Nat] /\ SumsOf([s \in Small(0) |-> 0], h, Small(0))
    BY <2>1 DEF SumsOf
  <2> QED
    BY <2>2
<1>3. ASSUME NEW n \in Good PROVE n + 1 \in Good
  <2>1. PICK f \in [Small(n) -> Nat] : SumsOf(f, h, Small(n))
    BY <1>3
  <2> DEFINE g == [s \in Small(n + 1) |-> IF s = {} THEN 0 ELSE h[First(s)] + f[s \ {First(s)}]]
  <2>2. ASSUME NEW s \in Small(n + 1), s # {}
        PROVE  First(s) \in S /\ s \ {First(s)} \in Small(n)
    <3>1. /\ First(s) \in S /\ s \ {First(s)} \in SUBSET S /\ Cardinality(s) \in Nat
          /\ Cardinality(s \ {First(s)}) = Cardinality(s) - 1 /\ Cardinality(s) <= n + 1
      BY <1>0, <1>1, <2>2
    <3> QED
      BY <3>1
  <2>3. g \in [Small(n + 1) -> Nat]
    BY <2>2
  <2>4. \A s \in Small(n) : s \in Small(n + 1) /\ g[s] = f[s]
    <3>1. \A s \in Small(n) : s \in Small(n + 1)
      BY <1>0
    <3> QED
      BY <2>1, <3>1 DEF SumsOf
  <2>5. SumsOf(g, h, Small(n + 1))
    BY <2>2, <2>4 DEF SumsOf
  <2>6. n + 1 \in Nat
    OBVIOUS
  <2> HIDE DEF g, Small
  <2> QED
    BY <2>3, <2>5, <2>6
<1>4. Good = Nat
  <2>1. Good \in SUBSET Nat
    OBVIOUS
  <2> HIDE DEF Good
  <2> QED
    BY <1>2, <1>3, <2>1, LeastMissing
<1>5. Cardinality(S) \in Nat /\ Small(Cardinality(S)) = SUBSET S
  <2>1. Cardinality(S) \in Nat
    BY <1>0
  <2>2. \A s \in SUBSET S : Cardinality(s) <= Cardinality(S)
    BY FS_Subset
  <2> QED
    BY <2>1, <2>2
<1>6. PICK f \in [SUBSET S -> Nat] : SumsOf(f, h, SUBSET S)
  <2>1. Cardinality(S) \in Good
    BY <1>4, <1>5
  <2> QED
    BY <1>5, <2>1
<1>7. IsSum(f, h, S)
  BY <1>6 DEF SumsOf, IsSum
<1> QED
  BY <1>7

(* and every solution is at least what it adds up, of natural numbers. *)
LEMMA SumsBound ==
  ASSUME NEW S, IsFiniteSet(S), NEW h \in [S -> Nat], NEW f, SumsOf(f, h, SUBSET S)
  PROVE  \A s \in SUBSET S : f[s] \in Nat /\ \A x \in s : h[x] <= f[s]
<1> DEFINE Bound(s) == f[s] \in Nat /\ \A x \in s : h[x] <= f[s]
           Good == {n \in Nat : \A s \in SUBSET S : Cardinality(s) = n => Bound(s)}
<1>0. \A s \in SUBSET S : IsFiniteSet(s) /\ Cardinality(s) \in Nat /\ (Cardinality(s) = 0 <=> s = {})
  BY FS_Subset, FS_CardinalityType, FS_EmptySet
<1>1. 0 \in Good
  BY <1>0 DEF SumsOf
<1>2. ASSUME NEW n \in Good PROVE n + 1 \in Good
  <2> SUFFICES ASSUME NEW s \in SUBSET S, Cardinality(s) = n + 1 PROVE Bound(s)
    OBVIOUS
  <2>1. s # {} /\ First(s) \in s
    BY <1>0 DEF First
  <2>2. s \ {First(s)} \in SUBSET S /\ Cardinality(s \ {First(s)}) = n
    <3>1. Cardinality(s \ {First(s)}) = Cardinality(s) - 1
      BY <1>0, <2>1, FS_RemoveElement
    <3> QED
      BY <3>1
  <2>3. Bound(s \ {First(s)})
    BY <1>2, <2>2
  <2>4. f[s] = h[First(s)] + f[s \ {First(s)}]
    BY <2>1 DEF SumsOf
  <2>5. h[First(s)] \in Nat /\ f[s] \in Nat /\ h[First(s)] <= f[s] /\ f[s \ {First(s)}] <= f[s]
    BY <2>1, <2>3, <2>4
  <2>6. ASSUME NEW x \in s PROVE h[x] <= f[s]
    <3>1. h[x] \in Nat /\ (x # First(s) => h[x] <= f[s \ {First(s)}])
      BY <2>3
    <3> QED
      BY <2>3, <2>5, <3>1
  <2> QED
    BY <2>5, <2>6
<1>3. Good = Nat
  <2>1. Good \in SUBSET Nat
    OBVIOUS
  <2> HIDE DEF Good
  <2> QED
    BY <1>1, <1>2, <2>1, LeastMissing
<1> QED
  BY <1>0, <1>3


(* No pool is used for less than a vdisk it holds. *)
LEMMA UsedBound ==
  ASSUME IsFiniteSet(Vols), size \in [Vols -> [Parts -> Nat]], NEW x \in Parts
  PROVE  Used(x) \in Nat /\ \A v \in Vols : size[v][x] <= Used(x)
<1> DEFINE h == [v \in Vols |-> size[v][x]]
           F == CHOOSE f : f = [s \in SUBSET Vols |->
                                  IF s = {} THEN 0 ELSE size[First(s)][x] + f[s \ {First(s)}]]
<1>1. h \in [Vols -> Nat]
  OBVIOUS
<1>2. Used(x) = F[Vols]
  BY DEF Used, MapThenSumSet, MapThenFoldSet, First
<1>3. \A s \in SUBSET Vols : s # {} => First(s) \in Vols
  BY DEF First
<1>4. \E f : f = [s \in SUBSET Vols |-> IF s = {} THEN 0 ELSE size[First(s)][x] + f[s \ {First(s)}]]
  <2>1. PICK f : IsSum(f, h, Vols)
    <3> HIDE DEF h
    <3> QED
      BY <1>1, SumsExist
  <2>2. f = [s \in SUBSET Vols |-> IF s = {} THEN 0 ELSE size[First(s)][x] + f[s \ {First(s)}]]
    BY <1>3, <2>1 DEF IsSum
  <2> QED
    BY <2>2
<1>5. F = [s \in SUBSET Vols |-> IF s = {} THEN 0 ELSE size[First(s)][x] + F[s \ {First(s)}]]
  BY <1>4
<1>6. SumsOf(F, h, SUBSET Vols)
  <2> HIDE DEF F
  <2> QED
    BY <1>3, <1>5 DEF SumsOf
<1>7. F[Vols] \in Nat /\ \A v \in Vols : h[v] <= F[Vols]
  <2> HIDE DEF F, h
  <2> QED
    BY <1>1, <1>6, SumsBound
<1> QED
  BY <1>2, <1>7

-----------------------------------------------------------------------------
(* No vdisk outgrows its pool. *)
RoomInv ==
  /\ \A v \in Vols : size[v]["master"] <= Room /\ dev[v] <= Room /\ fs[v] <= Room
  /\ \A p \in Procs : old[p] <= Room
  /\ harmed \subseteq Harms
  /\ calls \in 0..MaxCalls /\ faults \in 0..MaxFaults

LEMMA InitRoom == Init => RoomInv
<1> SUFFICES ASSUME Init PROVE RoomInv
  OBVIOUS
<1>1. FirstSize \in Nat /\ FirstSize <= Room /\ 0 <= Room /\ MaxCalls \in Nat /\ MaxFaults \in Nat
  BY ExtendAssumption DEF ExtendAssumption
<1>2. \A v \in Vols : size[v]["master"] = FirstSize /\ dev[v] = FirstSize /\ fs[v] = FirstSize
  BY DEF Init, PartsOf, Parts
<1>3. \A p \in Procs : old[p] = 0
  BY DEF Init
<1>4. harmed = {} /\ calls = 0 /\ faults = 0
  BY DEF Init
<1> QED
  BY <1>1, <1>2, <1>3, <1>4 DEF RoomInv

(* An addition the array accepts leaves the master within its pool. *)
LEMMA ExpandStays ==
  ASSUME TypeInv, NEW v \in Vols, NEW a \in Nat, ExpandAccepted("master", a)
  PROVE  size[v]["master"] + a <= Room
<1>1. Used("master") \in Nat /\ Used("masterCV") \in Nat /\ size[v]["master"] <= Used("master")
      /\ size[v]["master"] \in Nat
  BY UsedBound, ExtendAssumption DEF ExtendAssumption, TypeInv, Parts
<1>2. Room - (Used("master") + Used("masterCV")) >= a /\ Room \in Nat
  BY ExtendAssumption DEF ExtendAssumption, ExpandAccepted, Free, SiteOf
<1> QED
  BY <1>1, <1>2
(* What fails is counted, and what it harms is a volume that is there. *)
LEMMA SpendRoom ==
  ASSUME RoomInv, NEW o, Spend(o)
  PROVE  calls' \in 0..MaxCalls /\ faults' \in 0..MaxFaults
<1>1. MaxFaults \in Nat
  BY ExtendAssumption DEF ExtendAssumption
<1> QED
  BY <1>1 DEF RoomInv, Spend

LEMMA HarmRoom ==
  ASSUME TypeInv, RoomInv, NEW p \in Procs, Running(p),
         NEW w \in {"tasks", "thaw"} \cup OfAttempt, Harm(p, w)
  PROVE  harmed' \subseteq Harms
<1>1. Vol(p) \in Vols
  BY Facts DEF Running
<1> QED
  BY <1>1 DEF RoomInv, Harm, Harms

LEMMA CutRoom ==
  ASSUME TypeInv, RoomInv, NEW K \in SUBSET Procs, Cut(K)
  PROVE  harmed' \subseteq Harms
<1>1. \A q \in K : pc[q] # "idle" => Vol(q) \in Vols
  BY Facts
<1> QED
  BY <1>1 DEF RoomInv, Cut, Harms, Running

LEMMA CallerRoom ==
  ASSUME TypeInv, RoomInv, NEW p \in Procs, CallerStep(p)
  PROVE  RoomInv'
<1>0. MaxCalls \in Nat /\ MaxFaults \in Nat /\ Room \in Nat
  BY ExtendAssumption DEF ExtendAssumption
<1>1. size' = size /\ dev' = dev /\ fs' = fs
  BY DEF CallerStep, Call, Retry, Done, Kill, Begin, arrayVars, nodeVars
<1>2. \A q \in Procs : old'[q] <= Room
  <2>1. old' = old \/ old' = [old EXCEPT ![p] = 0]
    BY DEF CallerStep, Call, Retry, Done, Kill, Begin, procVars
  <2> QED
    BY <1>0, <2>1 DEF RoomInv, TypeInv
<1>3. harmed' \subseteq Harms
  <2>1. harmed' \subseteq harmed \/ \E K \in SUBSET Procs : Cut(K)
    BY DEF CallerStep, Call, Retry, Done, Kill, Begin, ProcessEnds
  <2> QED
    BY <2>1, CutRoom DEF RoomInv
<1>4. calls' \in 0..MaxCalls /\ faults' \in 0..MaxFaults
  <2>1. /\ calls' = calls \/ (calls < MaxCalls /\ calls' = calls + 1)
        /\ faults' = faults \/ (faults < MaxFaults /\ faults' = faults + 1)
    BY DEF CallerStep, Call, Retry, Done, Kill, Begin
  <2> QED
    BY <1>0, <2>1 DEF RoomInv
<1> QED
  BY <1>1, <1>2, <1>3, <1>4 DEF RoomInv

(* The sizes grow by what the array accepts; what is read of them is no    *)
(* larger.                                                                 *)
LEMMA StepRoom ==
  ASSUME TypeInv, Inv, RoomInv, NEW p \in Procs, Step(p)
  PROVE  RoomInv'
<1>0. Running(p) /\ Vol(p) \in Vols
  <2>1. Running(p)
    BY DEF Step, AttachInfo, NeedFreezeFSWhenExtend, Freeze, CheckBarrier, LsVdisk,
           CanVolumeBeExtend, LsSystem, Expand, Task, MkBarrier, Thaw, ExtendDisk, GetDiskFormat,
           ExtendFS, Running
  <2> QED
    BY <2>1, Facts DEF Running
<1>1. /\ \A v \in Vols : size[v]["master"] <= Room /\ dev[v] <= Room /\ fs[v] <= Room
      /\ \A q \in Procs : old[q] <= Room
      /\ harmed \subseteq Harms
  BY DEF RoomInv
<1>2. calls' \in 0..MaxCalls /\ faults' \in 0..MaxFaults
  <2>1. (\E o : Spend(o)) \/ (calls' = calls /\ faults' = faults)
    BY DEF Step, AttachInfo, NeedFreezeFSWhenExtend, Freeze, CheckBarrier, LsVdisk,
           CanVolumeBeExtend, LsSystem, Expand, Task, MkBarrier, Thaw, ExtendDisk, GetDiskFormat,
           ExtendFS
  <2> QED
    BY <2>1, SpendRoom DEF RoomInv
<1>3. harmed' \subseteq Harms
  <2>1. \/ harmed' = harmed
        \/ \E w \in {"tasks", "thaw"} \cup OfAttempt : Harm(p, w)
        \/ \E K \in SUBSET Procs : Cut(K)
    BY DEF Step, AttachInfo, NeedFreezeFSWhenExtend, Freeze, CheckBarrier, LsVdisk,
           CanVolumeBeExtend, LsSystem, Expand, Task, MkBarrier, Thaw, ExtendDisk, GetDiskFormat,
           ExtendFS, OfAttempt, ProcessEnds
  <2> QED
    BY <1>0, <1>1, <2>1, HarmRoom, CutRoom
<1>4. \A q \in Procs : old'[q] <= Room
  <2>1. old' = old \/ old' = [old EXCEPT ![p] = size[Vol(p)]["master"]]
    BY DEF Step, AttachInfo, NeedFreezeFSWhenExtend, Freeze, CheckBarrier, LsVdisk,
           CanVolumeBeExtend, LsSystem, Expand, Task, MkBarrier, Thaw, ExtendDisk, GetDiskFormat,
           ExtendFS, procVars
  <2> QED
    BY <1>0, <1>1, <2>1 DEF TypeInv
<1>5. \A v \in Vols : dev'[v] <= Room /\ fs'[v] <= Room
  <2>1. /\ dev' = dev \/ dev' = [dev EXCEPT ![Vol(p)] = size[Vol(p)]["master"]]
        /\ fs' = fs \/ fs' = [fs EXCEPT ![Vol(p)] = dev[Vol(p)]]
    BY DEF Step, AttachInfo, NeedFreezeFSWhenExtend, Freeze, CheckBarrier, LsVdisk,
           CanVolumeBeExtend, LsSystem, Expand, Task, MkBarrier, Thaw, ExtendDisk, GetDiskFormat,
           ExtendFS, nodeVars
  <2> QED
    BY <1>0, <1>1, <2>1 DEF TypeInv
<1>6. \A v \in Vols : size'[v]["master"] <= Room
  <2>1. pc[p] \in {"expand", "task"} => Addition(p) \in Nat
    BY <1>0, Facts DEF Inv, HandlerOK, SizeOK, Addition, Running
  <2>2. {"master", "aux", "masterCV", "auxCV"} = Parts
    BY DEF Parts
  <2>3. ASSUME NEW x \in Parts, Addition(p) \in Nat, ExpandApply(Vol(p), x, Addition(p)),
               x = "master" => ExpandAccepted("master", Addition(p)), NEW v \in Vols
        PROVE  size'[v]["master"] <= Room
    <3>1. /\ size'[Vol(p)][x] = size[Vol(p)][x] + Addition(p)
          /\ \A y \in Parts : y # x => size'[Vol(p)][y] = size[Vol(p)][y]
          /\ \A w \in Vols : w # Vol(p) => size'[w] = size[w]
      BY <1>0, <2>3, ExpandFacts
    <3>2. x = "master" => size[Vol(p)]["master"] + Addition(p) <= Room
      BY <1>0, <2>3, ExpandStays
    <3> QED
      BY <1>1, <2>2, <3>1, <3>2
  <2>4. CASE Expand(p)
    <3>1. size' = size \/ (ExpandAccepted("master", Addition(p)) /\ ExpandApply(Vol(p), "master", Addition(p)))
      BY <2>4 DEF Expand, arrayVars
    <3>2. pc[p] = "expand"
      BY <2>4 DEF Expand
    <3> QED
      BY <1>1, <2>1, <2>2, <2>3, <3>1, <3>2
  <2>5. CASE Task(p)
    <3>1. pc[p] = "task" /\ (size' = size \/ TaskEffect(p, Vol(p), step[p], Addition(p)))
      BY <2>5, TaskCases
    <3>2. step[p] = 2 => size' = size \/ ExpandAccepted("master", Addition(p))
      <4>1. ASSUME step[p] = 2 PROVE TaskAccepted(p, Tasks[step[p]][1], Tasks[step[p]][2]) \/ size' = size
        BY <2>5 DEF Task, arrayVars
      <4>2. ASSUME step[p] = 2 PROVE Tasks[step[p]][1] = "expand" /\ Tasks[step[p]][2] = "master"
        BY <4>2, TaskTable
      <4> QED
        BY <4>1, <4>2 DEF TaskAccepted
    <3>3. \/ size' = size
          \/ /\ step[p] = 2 /\ ExpandAccepted("master", Addition(p))
             /\ ExpandApply(Vol(p), "master", Addition(p))
          \/ \E x \in Parts : x # "master" /\ ExpandApply(Vol(p), x, Addition(p))
      BY <2>2, <3>1, <3>2 DEF TaskEffect
    <3> QED
      BY <1>1, <2>1, <2>2, <2>3, <3>1, <3>3
  <2>6. CASE size' = size
    BY <1>1, <2>6
  <2>7. Expand(p) \/ Task(p) \/ size' = size
    BY DEF Step, AttachInfo, NeedFreezeFSWhenExtend, Freeze, CheckBarrier, LsVdisk,
           CanVolumeBeExtend, LsSystem, MkBarrier, Thaw, ExtendDisk, GetDiskFormat, ExtendFS, arrayVars
  <2> QED
    BY <2>4, <2>5, <2>6, <2>7
<1> QED
  BY <1>2, <1>3, <1>4, <1>5, <1>6 DEF RoomInv

(* The operator leaves the master as it is, as no part is larger. *)
LEMMA OperatorRoom ==
  ASSUME TypeInv, Inv, RoomInv, Operator
  PROVE  RoomInv'
<1> DEFINE Largest(v) == Max({size[v][x] : x \in Parts})
<1>1. /\ \A v \in Vols : size'[v] = size[v] \/ size'[v] = [x \in Parts |-> Largest(v)]
      /\ dev' = dev /\ fs' = fs /\ old' = old /\ calls' = calls /\ faults' = faults
      /\ harmed' \subseteq harmed \cup {<<Vol(p), "repair">> : p \in {q \in Procs : Running(q)}}
  BY DEF Operator, procVars
<1>4. harmed' \subseteq Harms
  <2>1. \A p \in Procs : Running(p) => Vol(p) \in Vols
    BY Facts DEF Running
  <2> QED
    BY <1>1, <2>1 DEF RoomInv, Harms, OfAttempt
<1>2. ASSUME NEW v \in Vols PROVE Largest(v) = size[v]["master"]
  <2>1. size[v] \in [Parts -> Nat] /\ \A x \in Parts : size[v][x] <= size[v]["master"]
    BY DEF TypeInv, Inv, VolOK
  <2> QED
    BY <2>1, LargestPart
<1> HIDE DEF Largest
<1>3. \A v \in Vols : size'[v]["master"] = size[v]["master"]
  BY <1>1, <1>2 DEF Parts
<1> QED
  BY <1>1, <1>3, <1>4 DEF RoomInv

(* Every variable has its type, with its bounds: no vdisk, and nothing a   *)
(* handler or the node has read of one, is larger than the pool it is in,  *)
(* however many extensions of volumes of the pool race; the check of       *)
(* canVolumeBeExtend alone, made long before the tasks, would not do.      *)
THEOREM TypeCorrect == Spec => []TypeOK
<1>1. TypeInv /\ Inv /\ RoomInv /\ [Next]_vars => RoomInv'
  <2> SUFFICES ASSUME TypeInv, Inv, RoomInv, [Next]_vars PROVE RoomInv'
    OBVIOUS
  <2>1. CASE \E p \in Procs : CallerStep(p)
    BY <2>1, CallerRoom
  <2>2. CASE \E p \in Procs : Step(p)
    BY <2>2, StepRoom
  <2>3. CASE Operator
    BY <2>3, OperatorRoom
  <2>4. CASE UNCHANGED vars
    BY <2>4 DEF vars, arrayVars, nodeVars, procVars, RoomInv
  <2> QED
    BY <2>1, <2>2, <2>3, <2>4 DEF Next, CallerStep, Rest
<1>2. TypeInv /\ Inv /\ RoomInv => TypeOK
  <2> SUFFICES ASSUME TypeInv, Inv, RoomInv PROVE TypeOK
    OBVIOUS
  <2>0. Room \in Nat
    BY ExtendAssumption DEF ExtendAssumption
  <2>1. size \in [Vols -> [Parts -> 0..Room]]
    <3>1. ASSUME NEW v \in Vols, NEW x \in Parts PROVE size[v][x] \in 0..Room
      <4>1. size[v][x] \in Nat /\ size[v]["master"] \in Nat
        BY DEF TypeInv, Parts
      <4>2. size[v][x] <= size[v]["master"] /\ size[v]["master"] <= Room
        BY DEF Inv, VolOK, RoomInv
      <4> QED
        BY <2>0, <4>1, <4>2
    <3>2. ASSUME NEW v \in Vols PROVE size[v] \in [Parts -> 0..Room]
      <4>1. size[v] \in [Parts -> Nat]
        BY DEF TypeInv
      <4> QED
        BY <3>1, <4>1
    <3> QED
      BY <3>2 DEF TypeInv
  <2>2. dev \in [Vols -> 0..Room] /\ fs \in [Vols -> 0..Room] /\ old \in [Procs -> 0..Room]
    BY <2>0 DEF TypeInv, RoomInv
  <2> QED
    BY <2>1, <2>2 DEF TypeInv, RoomInv, TypeOK
<1> QED
  BY <1>1, <1>2, InitRoom, InitInv, Invariants, PTL DEF Spec
-----------------------------------------------------------------------------
(* The steps a handler has left at most, with k its next task. *)
LeftAt(l, k) ==
  CASE l = "attachInfo" -> 21
    [] l = "needfreeze" -> 20
    [] l = "freeze"     -> 19
    [] l = "barrier"    -> 18
    [] l = "lsvdisk"    -> 17
    [] l = "check"      -> 16
    [] l = "lssystem"   -> 15
    [] l = "task"       -> 15 - k
    [] l \in {"mkbarrier", "expand"} -> 5
    [] l = "thaw"       -> 4
    [] l = "rescan"     -> 3
    [] l = "blkid"      -> 2
    [] l = "growfs"     -> 1
    [] l \in {"idle", "ok", "err"} -> 0
Left(p) == LeftAt(pc[p], step[p])

(* Every step of an attempt brings its answer nearer, and no step of       *)
(* another handler or of the operator puts it off.                         *)
Shrinks ==
  [][\A p \in Procs : /\ Step(p) => Left(p)' < Left(p)
                      /\ Running(p) /\ Running(p)' => Left(p)' <= Left(p)]_vars

(* The table, row by row. *)
LEMMA LeftRows ==
  ASSUME NEW l, NEW k
  PROVE  /\ l = "attachInfo" => LeftAt(l, k) = 21
         /\ l = "needfreeze" => LeftAt(l, k) = 20
         /\ l = "freeze" => LeftAt(l, k) = 19
         /\ l = "barrier" => LeftAt(l, k) = 18
         /\ l = "lsvdisk" => LeftAt(l, k) = 17
         /\ l = "check" => LeftAt(l, k) = 16
         /\ l = "lssystem" => LeftAt(l, k) = 15
         /\ l = "task" => LeftAt(l, k) = 15 - k
         /\ l \in {"mkbarrier", "expand"} => LeftAt(l, k) = 5
         /\ l = "thaw" => LeftAt(l, k) = 4
         /\ l = "rescan" => LeftAt(l, k) = 3
         /\ l = "blkid" => LeftAt(l, k) = 2
         /\ l = "growfs" => LeftAt(l, k) = 1
         /\ l \in {"idle", "ok", "err"} => LeftAt(l, k) = 0
  BY DEF LeftAt

LEMMA LeftBound ==
  ASSUME TypeInv, NEW p \in Procs
  PROVE  Left(p) \in 0..21 /\ (Running(p) => Left(p) > 0)
<1>1. pc[p] \in Labels /\ step[p] \in 1..9
  BY DEF TypeInv
<1> QED
  BY <1>1, LeftRows DEF Left, Labels, Running

LEMMA StepShrinks ==
  ASSUME TypeInv, Inv, NEW p \in Procs, Step(p)
  PROVE  /\ Left(p)' < Left(p) /\ Left(p)' <= Left(p)
         /\ \A q \in Procs : q # p => /\ pc'[q] = pc[q] \/ pc'[q] = "err"
                                      /\ step'[q] = step[q]
<1>0. /\ DOMAIN pc = Procs /\ DOMAIN step = Procs /\ step[p] \in 1..9
      /\ pc[p] \in {"lssystem", "attachInfo"} => step[p] = 1
  BY DEF TypeInv, Inv, HandlerOK, SizeOK
<1> USE <1>0 DEF Goto, Return, procVars, Left
<1>1. CASE AttachInfo(p)
  BY <1>1, LeftRows DEF AttachInfo, QueryReplies, Replies
<1>2. CASE Freeze(p)
  BY <1>2, LeftRows DEF Freeze
<1>13. CASE NeedFreezeFSWhenExtend(p)
  BY <1>13, LeftRows DEF NeedFreezeFSWhenExtend
<1>14. CASE GetDiskFormat(p)
  BY <1>14, LeftRows DEF GetDiskFormat
<1>3. CASE CheckBarrier(p)
  BY <1>3, LeftRows DEF CheckBarrier
<1>4. CASE LsVdisk(p)
  <2>1. /\ step' = step /\ pc[p] = "lsvdisk"
        /\ \/ \E l \in {"thaw", "check"} : pc' = [pc EXCEPT ![p] = l]
           \/ \E K \in SUBSET Procs :
                p \in K /\ pc' = [q \in Procs |-> IF q \in K /\ Running(q) THEN "err" ELSE pc[q]]
    <3>1. NewSize(p) \in Nat /\ size[Vol(p)]["master"] \in Nat
      BY <1>4, Facts DEF LsVdisk, Parts
    <3>2. NewSize(p) = size[Vol(p)]["master"] \/ NewSize(p) < size[Vol(p)]["master"]
          \/ NewSize(p) > size[Vol(p)]["master"]
      BY <3>1, Comparable
    <3> QED
      BY <1>4, <3>2 DEF LsVdisk, AlreadyThere, ProcessEnds
  <2> QED
    BY <2>1, LeftRows DEF Running
<1>5. CASE CanVolumeBeExtend(p)
  BY <1>5, LeftRows DEF CanVolumeBeExtend
<1>6. CASE LsSystem(p)
  BY <1>6, LeftRows DEF LsSystem
<1>7. CASE Expand(p)
  BY <1>7, LeftRows DEF Expand
<1>8. CASE Task(p)
  <2>1. /\ pc[p] = "task"
        /\ \/ step' = step /\ \E l \in {"mkbarrier", "thaw"} : pc' = [pc EXCEPT ![p] = l]
           \/ step[p] # 9 /\ step' = [step EXCEPT ![p] = @ + 1] /\ pc' = pc
    BY <1>8, TaskCases
  <2> QED
    BY <2>1, LeftRows
<1>9. CASE MkBarrier(p)
  BY <1>9, LeftRows DEF MkBarrier
<1>10. CASE Thaw(p)
  BY <1>10, LeftRows DEF Thaw
<1>11. CASE ExtendDisk(p)
  <2>1. /\ step' = step /\ pc[p] = "rescan"
        /\ \/ \E l \in {"blkid", "err"} : pc' = [pc EXCEPT ![p] = l]
           \/ \E K \in SUBSET Procs :
                p \in K /\ pc' = [q \in Procs |-> IF q \in K /\ Running(q) THEN "err" ELSE pc[q]]
    BY <1>11 DEF ExtendDisk, ProcessEnds
  <2> QED
    BY <2>1, LeftRows DEF Running
<1>12. CASE ExtendFS(p)
  BY <1>12, LeftRows DEF ExtendFS
<1> QED
  BY <1>1, <1>2, <1>3, <1>4, <1>5, <1>6, <1>7, <1>8, <1>9, <1>10, <1>11, <1>12, <1>13, <1>14
  DEF Step

(* ExtendVolume never loops: whatever other handlers, the operator and the *)
(* faults do, an attempt is over after at most 21 steps, nine of them the  *)
(* tasks of an active-active volume.  (That it takes them is fairness, and *)
(* that an extension is served in the end is ExtendsServed, a run's.)      *)
THEOREM AttemptsEnd == Spec => [](\A p \in Procs : Left(p) \in 0..21) /\ Shrinks
<1>1. TypeInv => \A p \in Procs : Left(p) \in 0..21
  BY LeftBound
<1>2. TypeInv /\ Inv /\ [Next]_vars =>
        [\A p \in Procs : /\ Step(p) => Left(p)' < Left(p)
                          /\ Running(p) /\ Running(p)' => Left(p)' <= Left(p)]_vars
  <2> SUFFICES ASSUME TypeInv, Inv, Next, NEW p \in Procs
               PROVE  /\ Step(p) => Left(p)' < Left(p)
                      /\ Running(p) /\ Running(p)' => Left(p)' <= Left(p)
    OBVIOUS
  <2>1. Left(p) \in Nat
    BY LeftBound
  <2>2. CASE Step(p)
    BY <2>2, StepShrinks
  <2>3. CASE ~Step(p)
    <3>1. Running(p) /\ Running(p)' => pc'[p] = pc[p] /\ step'[p] = step[p]
      <4>1. CASE \E q \in Procs : q # p /\ Step(q)
        BY <4>1, StepShrinks DEF Running
      <4>2. CASE \E q \in Procs : CallerStep(q)
        <5>1. PICK q \in Procs : CallerStep(q)
          BY <4>2
        <5>2. CASE q # p
          <6>1. (pc'[p] = pc[p] \/ pc'[p] = "err") /\ step'[p] = step[p]
            BY <5>1, <5>2 DEF CallerStep, Call, Retry, Done, Kill, ProcessEnds, Begin, Goto, procVars, TypeInv
          <6> QED
            BY <6>1 DEF Running
        <5>3. CASE q = p
          <6>1. Call(p) \/ Retry(p) \/ Done(p) => ~Running(p)
            BY DEF Call, Retry, Done, Running
          <6>2. Kill(p) => ~Running(p)'
            BY DEF Kill, ProcessEnds, Running
          <6> QED
            BY <5>1, <5>3, <6>1, <6>2 DEF CallerStep
        <5> QED
          BY <5>2, <5>3
      <4>3. CASE Operator \/ UNCHANGED vars
        BY <4>3 DEF Operator, vars, procVars
      <4> QED
        BY <2>3, <4>1, <4>2, <4>3 DEF Next, Rest, CallerStep
    <3> QED
      BY <2>1, <2>3, <3>1 DEF Left
  <2> QED
    BY <2>2, <2>3
<1> QED
  BY <1>1, <1>2, Invariants, PTL DEF Spec, Shrinks
=============================================================================
