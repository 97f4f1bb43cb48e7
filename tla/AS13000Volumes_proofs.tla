----------------------- MODULE AS13000Volumes_proofs ------------------------
(***************************************************************************)
(* Theorems about AS13000Volumes, for every set of volumes, shares,        *)
(* requests and handlers, and every number of faults.                      *)
(***************************************************************************)
EXTENDS AS13000Volumes, TLAPS

BlockCreate == {"pooltype", "lvm", "mkvol"}
BlockDelete == {"dlvm", "rmvol"}
ShareCreate == {"base", "dir", "dirNoBase", "pools", "mkdir", "mkdirOld", "share", "export", "quota",
                "quotaPut", "ip"}
ShareDelete == {"dshare", "rmclients", "unexport", "ddir", "rmdir"}

(* A handler's next request belongs to what it was asked. *)
OpOK(p) ==
  /\ pc[p] # "idle" => req[p] \in Asks
  /\ pc[p] \in BlockCreate => req[p].name \in Blocks /\ req[p].op = "create"
  /\ pc[p] \in BlockDelete => req[p].name \in Blocks /\ req[p].op = "delete"
  /\ pc[p] = "extend" => req[p].name \in Blocks /\ req[p].op = "extend"
  /\ pc[p] \in ShareCreate => req[p].name \in Shares /\ req[p].op = "create"
  /\ pc[p] \in ShareDelete => req[p].name \in Shares /\ req[p].op = "delete"

OpInv == \A p \in Procs : OpOK(p)

(* Handlers in flight for one name serve the same request. *)
FlightInv ==
  \A p, q \in Procs :
    pc[p] # "idle" /\ pc[q] # "idle" /\ req[p].name = req[q].name => req[p] = req[q]

(* A volume that exists is at least as large as it was to be created, and  *)
(* answers about volumes are true.                                         *)
BlockInv ==
  /\ \A r \in Asks : r.name \in Blocks /\ r.op = "create" /\ lvm[r.name] # 0 => lvm[r.name] >= r.size
  /\ \A p \in Procs : pc[p] = "ok" /\ req[p].name \in Blocks =>
       IF req[p].op = "delete" THEN lvm[req[p].name] = 0 ELSE lvm[req[p].name] >= req[p].size

Whole(d) == d \in dirs /\ export[d] = "client" /\ quota[d] # 0
Gone(d) == d \notin dirs /\ export[d] = "none" /\ quota[d] = 0

(* What is so of a share whichever handlers are in flight. *)
ShareOK(s) ==
  LET d == DirName(s) IN d \notin spoilt =>
    /\ export[d] # "none" => d \in dirs
    /\ d \notin dirs => quota[d] = 0
    /\ quota[d] # 0 => \A r \in Asks : r.name = s /\ r.op = "create" => quota[d] = r.size
    /\ export[d] = "closed" =>
         \A p \in Procs : pc[p] # "idle" /\ req[p].name = s => req[p].op = "delete"
    /\ Whole(d) \/ Gone(d) \/ InFlight(s) # {}

Made(p) == pc[p] = "ok" /\ req[p].op = "create"
Removed(p) == pc[p] = "ok" /\ req[p].op = "delete"

(* What a handler has made or removed so far is so. *)
HandlerOK(p) ==
  pc[p] # "idle" /\ req[p].name \in Shares /\ Dir(p) \notin spoilt =>
    /\ pc[p] \in {"share", "export", "quota", "quotaPut", "ip"} \/ Made(p) => Dir(p) \in dirs
    /\ pc[p] \in {"quota", "quotaPut", "ip"} \/ Made(p) => export[Dir(p)] = "client"
    /\ pc[p] = "ip" \/ Made(p) => quota[Dir(p)] = req[p].size
    /\ pc[p] \in {"ddir", "rmdir"} \/ Removed(p) => export[Dir(p)] = "none"
    /\ Removed(p) => Dir(p) \notin dirs

ShareInv == (\A s \in Shares : ShareOK(s)) /\ (\A p \in Procs : HandlerOK(p))

TypeInv == TypeOK /\ OpInv
Inv == FlightInv /\ BlockInv /\ ShareInv

-----------------------------------------------------------------------------
(* A request's parts, and its first label. *)
LEMMA AskFacts ==
  ASSUME NEW r \in Asks
  PROVE  /\ r.op \in {"create", "delete", "extend"} /\ r.name \in Blocks \cup Shares
         /\ r.op = "extend" => r.name \in Blocks
         /\ r.size \in Nat \ {0} /\ r.size \in Sizes
         /\ ~(r.name \in Blocks /\ r.name \in Shares)
         /\ r.name \in Shares => DirName(r.name) \in Dirs
         /\ FirstLabel(r) = IF r.op = "extend" THEN "extend"
                            ELSE IF r.op = "create"
                              THEN IF r.name \in Blocks THEN "pooltype" ELSE "base"
                              ELSE IF r.name \in Blocks THEN "dlvm" ELSE "dshare"
<1>1. /\ r.op \in {"create", "delete", "extend"} /\ r.name \in Blocks \cup Shares
      /\ r.op = "extend" => r.name \in Blocks
      /\ r.size \in Nat \ {0}
      /\ ~(r.name \in Blocks /\ r.name \in Shares)
  BY VolumesAssumption DEF VolumesAssumption
<1>2. r.size \in Sizes /\ (r.name \in Shares => DirName(r.name) \in Dirs)
  BY DEF Sizes, Dirs
<1> QED
  BY <1>1, <1>2 DEF FirstLabel

LEMMA InitInv == Init => TypeInv /\ Inv
<1> SUFFICES ASSUME Init PROVE TypeInv /\ Inv
  OBVIOUS
<1>1. TypeInv
  BY VolumesAssumption
     DEF Init, TypeInv, TypeOK, OpInv, OpOK, BlockCreate, BlockDelete, ShareCreate, ShareDelete,
         Labels, VolumesAssumption
<1>2. FlightInv /\ BlockInv
  BY DEF Init, FlightInv, BlockInv
<1>3. ShareInv
  BY DEF Init, ShareInv, ShareOK, HandlerOK, Whole, Gone, InFlight, Dirs
<1> QED
  BY <1>1, <1>2, <1>3 DEF Inv

(* A process ends, and with it some handlers, while the array stays. *)
Ends == \E K \in SUBSET Procs :
          /\ \A q \in K : Running(q)
          /\ pc' = [q \in Procs |-> IF q \in K THEN "err" ELSE pc[q]]
          /\ UNCHANGED <<arrayVars, req, spoilt>>

(* The steps that begin or end a request, or break it off. *)
CallerStep(p) == Call(p) \/ Retry(p) \/ Done(p) \/ Kill(p) \/ Panic(p)
Asked(p) == BlockStep(p) \/ ShareStep(p)
AnyStep(p) == CallerStep(p) \/ Asked(p)

LEMMA EndsFacts ==
  ASSUME NEW p \in Procs, Kill(p) \/ Panic(p)
  PROVE  /\ Ends
         /\ Running(p) /\ pc'[p] = "err"
         /\ \A q \in Procs : pc'[q] = pc[q] \/ (Running(q) /\ pc'[q] = "err")
<1>1. ProcessEnds(p) /\ UNCHANGED <<arrayVars, req, spoilt>>
  BY DEF Kill, Panic, NilBaseDirectory, NilAddressList
<1>2. PICK K \in SUBSET {q \in Procs : Running(q)} :
        p \in K /\ pc' = [q \in Procs |-> IF q \in K THEN "err" ELSE pc[q]]
  BY <1>1 DEF ProcessEnds
<1>3. K \in SUBSET Procs /\ \A q \in K : Running(q)
  BY <1>2
<1> QED
  BY <1>1, <1>2, <1>3 DEF Ends

LEMMA CallerType ==
  ASSUME TypeInv, NEW p \in Procs, CallerStep(p)
  PROVE  TypeInv'
<1> USE VolumesAssumption DEF TypeInv, TypeOK, OpInv, OpOK, BlockCreate, BlockDelete, ShareCreate,
        ShareDelete, Labels, Goto, arrayVars
<1>1. ASSUME NEW r \in Asks, Begin(p, r), calls' \in 0..MaxCalls
      PROVE  TypeInv'
  BY <1>1, AskFacts DEF Begin
<1>2. CASE Call(p)
  BY <1>1, <1>2 DEF Call, VolumesAssumption
<1>3. CASE Retry(p)
  BY <1>1, <1>3 DEF Retry
<1>4. CASE Done(p)
  BY <1>4 DEF Done
<1>5. CASE Kill(p) \/ Panic(p)
  <2>1. PICK K \in SUBSET Procs :
          /\ \A q \in K : Running(q)
          /\ pc' = [q \in Procs |-> IF q \in K THEN "err" ELSE pc[q]]
          /\ UNCHANGED <<lvm, dirs, export, quota, req, spoilt>>
    BY <1>5, EndsFacts DEF Ends
  <2>2. calls' \in 0..MaxCalls /\ faults' \in 0..MaxFaults
    BY <1>5 DEF Kill, Panic, NilBaseDirectory, NilAddressList, Spend, VolumesAssumption
  <2>3. TypeOK'
    BY <2>1, <2>2
  <2>4. ASSUME NEW q \in Procs PROVE OpOK(q)'
    BY <2>1 DEF Running
  <2> QED
    BY <2>3, <2>4
<1> QED
  BY <1>2, <1>3, <1>4, <1>5 DEF CallerStep

LEMMA BlockType ==
  ASSUME TypeInv, NEW p \in Procs, BlockStep(p)
  PROVE  TypeInv'
<1> USE VolumesAssumption, AskFacts DEF TypeInv, TypeOK, OpInv, OpOK, BlockCreate, BlockDelete,
        ShareCreate, ShareDelete, Labels, Goto, arrayVars, VolumesAssumption, Spend, Query
<1>1. CASE QueryPoolTypeByName(p) \/ QueryLvm(p) \/ DQueryLvm(p)
  BY <1>1 DEF QueryPoolTypeByName, QueryLvm, DQueryLvm, AfterLvm
<1>2. ASSUME NEW c \in Sizes \cup {0}, NEW a, BlockCommand(p, a, c), req[p].name \in Blocks,
             pc[p] # "idle"
      PROVE  TypeInv'
  BY <1>2 DEF BlockCommand, Outcomes
<1>3. CASE CreateVolume(p) \/ DeleteVolume(p) \/ ExtendLvm(p)
  BY <1>2, <1>3 DEF CreateVolume, DeleteVolume, ExtendLvm
<1> QED
  BY <1>1, <1>3 DEF BlockStep

(* A handler's step leaves every request, and the handler's in flight, as  *)
(* they are.                                                               *)
LEMMA StepShape ==
  ASSUME TypeInv, NEW p \in Procs, Asked(p)
  PROVE  /\ req' = req /\ pc[p] \notin {"idle", "ok", "err"}
         /\ \E l \in Labels \ {"idle"} : pc' = [pc EXCEPT ![p] = l]
<1> USE DEF Query, ShareQuery, Goto, Labels
<1>1. CASE BlockStep(p)
  BY <1>1 DEF BlockStep, QueryPoolTypeByName, QueryLvm, AfterLvm, CreateVolume, DQueryLvm,
              DeleteVolume, ExtendLvm, BlockCommand
<1>2. CASE GetBaseDirectory(p) \/ GetDirectoryDetail(p) \/ GetPoolDetail(p) \/ GetNFSShareInfo(p)
           \/ GetDirectoryWithoutBase(p) \/ GetClusterAccessIP(p) \/ DGetNFSShareInfo(p)
           \/ DGetDirectoryDetail(p)
  BY <1>2 DEF GetBaseDirectory, GetDirectoryDetail, GetPoolDetail, GetNFSShareInfo,
              GetDirectoryWithoutBase, GetClusterAccessIP, DGetNFSShareInfo, AfterNoShare,
              DGetDirectoryDetail
<1>3. CASE CreateDirectoryV2(p) \/ CreateDirectory(p) \/ CreateNFSShare(p) \/ DeleteDirectory(p)
  BY <1>3 DEF CreateDirectoryV2, CreateDirectory, MakeDirectory, CreateNFSShare, DeleteDirectory
<1>4. CASE PostQuota(p) \/ PutQuota(p) \/ RemoveClientList(p) \/ DeleteNFSShare(p)
  BY <1>4 DEF PostQuota, PutQuota, QuotaCommand, AfterFailedPost, RemoveClientList,
              DeleteNFSShare, ExportCommand, AfterClients
<1> QED
  BY <1>1, <1>2, <1>3, <1>4 DEF Asked, ShareStep

LEMMA ShareType ==
  ASSUME TypeInv, NEW p \in Procs, ShareStep(p)
  PROVE  TypeInv'
<1> USE VolumesAssumption, AskFacts DEF TypeInv, TypeOK, OpInv, OpOK, BlockCreate, BlockDelete,
        ShareCreate, ShareDelete, Labels, Goto, arrayVars, VolumesAssumption, Spend, Query, Dir,
        Spoil, Outcomes
<1>10. ASSUME NEW t, NEW l \in Labels, NEW m \in Labels, ShareQuery(p, t, l, m),
              \/ pc[p] \in ShareCreate /\ l \in ShareCreate /\ m \in ShareCreate
              \/ pc[p] \in ShareDelete /\ l \in ShareDelete /\ m \in ShareDelete \cup {"ok"}
       PROVE  TypeInv'
  BY <1>10 DEF ShareQuery
<1>1. CASE GetBaseDirectory(p) \/ GetDirectoryDetail(p)
  BY <1>1, <1>10 DEF GetBaseDirectory, GetDirectoryDetail
<1>11. CASE GetDirectoryWithoutBase(p)
  BY <1>11 DEF GetDirectoryWithoutBase
<1>8. CASE GetPoolDetail(p)
  BY <1>8 DEF GetPoolDetail
<1>2. CASE GetNFSShareInfo(p) \/ DGetNFSShareInfo(p) \/ DGetDirectoryDetail(p)
  BY <1>2, <1>10 DEF GetNFSShareInfo, DGetNFSShareInfo, AfterNoShare, DGetDirectoryDetail
<1>12. CASE GetClusterAccessIP(p)
  BY <1>12 DEF GetClusterAccessIP
<1>13. ASSUME NEW l \in {"mkdirOld", "err"}, MakeDirectory(p, l), pc[p] \in ShareCreate
       PROVE  TypeInv'
  BY <1>13 DEF MakeDirectory
<1>3. CASE CreateDirectoryV2(p) \/ CreateDirectory(p)
  BY <1>3, <1>13 DEF CreateDirectoryV2, CreateDirectory
<1>4. CASE CreateNFSShare(p)
  BY <1>4 DEF CreateNFSShare
<1>5. ASSUME NEW a, NEW l \in {"quotaPut", "err"}, QuotaCommand(p, a, l), pc[p] \in ShareCreate
      PROVE  TypeInv'
  BY <1>5 DEF QuotaCommand
<1>9. CASE PostQuota(p) \/ PutQuota(p)
  BY <1>5, <1>9 DEF PostQuota, PutQuota, AfterFailedPost
<1>14. ASSUME NEW a, NEW n \in {"none", "closed"}, NEW l \in {"unexport", "ddir"},
              ExportCommand(p, a, n, l), pc[p] \in ShareDelete
       PROVE  TypeInv'
  BY <1>14 DEF ExportCommand
<1>6. CASE RemoveClientList(p) \/ DeleteNFSShare(p)
  BY <1>6, <1>14 DEF RemoveClientList, DeleteNFSShare, AfterClients
<1>7. CASE DeleteDirectory(p)
  BY <1>7 DEF DeleteDirectory
<1> QED
  BY <1>1, <1>2, <1>3, <1>4, <1>6, <1>7, <1>8, <1>9, <1>11, <1>12 DEF ShareStep

LEMMA StutterInv == TypeInv /\ Inv /\ UNCHANGED vars => TypeInv' /\ Inv'
  BY DEF vars, arrayVars, TypeInv, TypeOK, OpInv, OpOK, Inv, FlightInv, BlockInv, ShareInv,
         ShareOK, HandlerOK, Whole, Gone, InFlight, Made, Removed, Dir

LEMMA TypeStep == TypeInv /\ [Next]_vars => TypeInv'
<1>1. TypeInv /\ UNCHANGED vars => TypeInv'
  BY DEF vars, arrayVars, TypeInv, TypeOK, OpInv, OpOK
<1> QED
  BY <1>1, CallerType, BlockType, ShareType DEF Next, Rest, CallerStep, Step

(* The types of volumes, shares and handlers hold in every state, and a    *)
(* handler only ever sends requests that belong to what it was asked.      *)
THEOREM TypeCorrect == Spec => []TypeOK
<1>1. TypeInv => TypeOK
  BY DEF TypeInv
<1> QED
  BY <1>1, InitInv, TypeStep, PTL DEF Spec

-----------------------------------------------------------------------------
LEMMA FlightStep ==
  ASSUME TypeInv, FlightInv, NEW p \in Procs, AnyStep(p)
  PROVE  FlightInv'
<1> USE DEF FlightInv, TypeInv, TypeOK
<1>1. CASE Asked(p)
  BY <1>1, StepShape
<1>2. CASE Call(p)
  <2>1. PICK r \in Asks : (\A q \in InFlight(r.name) : req[q] = r) /\ Begin(p, r)
    BY <1>2 DEF Call
  <2>2. \A q \in Procs : pc[q] # "idle" /\ req[q].name = r.name => req[q] = r
    BY <2>1 DEF InFlight
  <2> QED
    BY <2>1, <2>2 DEF Begin, Goto
<1>3. CASE Retry(p)
  BY <1>3 DEF Retry, Begin, Goto
<1>4. CASE Done(p)
  BY <1>4 DEF Done, Goto
<1>5. CASE Kill(p) \/ Panic(p)
  BY <1>5, EndsFacts DEF Ends, Running
<1> QED
  BY <1>1, <1>2, <1>3, <1>4, <1>5 DEF AnyStep, CallerStep

LEMMA BlockInvStep ==
  ASSUME TypeInv, FlightInv, BlockInv, NEW p \in Procs, AnyStep(p)
  PROVE  BlockInv'
<1>0. \A q \in Procs : pc[q] # "idle" => req[q] \in Asks
  BY DEF TypeInv, OpInv, OpOK
<1> USE DEF TypeInv, TypeOK
<1>1. CASE Call(p) \/ Retry(p)
  <2>1. PICK r \in Asks : Begin(p, r)
    BY <1>0, <1>1 DEF Call, Retry
  <2>2. lvm' = lvm /\ pc'[p] # "ok" /\ \A q \in Procs : q # p => pc'[q] = pc[q] /\ req'[q] = req[q]
    BY <2>1, AskFacts DEF Begin, Goto, arrayVars
  <2> QED
    BY <2>2 DEF BlockInv
<1>2. CASE Done(p)
  BY <1>2 DEF Done, Goto, arrayVars, BlockInv
<1>5. CASE Kill(p) \/ Panic(p)
  BY <1>5, EndsFacts DEF Ends, arrayVars, BlockInv
<1>3. CASE ShareStep(p)
  <2>1. lvm' = lvm
    BY <1>3 DEF ShareStep, GetBaseDirectory, GetDirectoryDetail, GetPoolDetail, GetNFSShareInfo,
                GetDirectoryWithoutBase, ShareQuery,
                GetClusterAccessIP, DGetNFSShareInfo, DGetDirectoryDetail, Query, arrayVars,
                CreateDirectoryV2, CreateDirectory, MakeDirectory, CreateNFSShare,
                DeleteDirectory, PostQuota, PutQuota, QuotaCommand, RemoveClientList,
                DeleteNFSShare, ExportCommand
  <2>2. pc[p] \in ShareCreate \cup ShareDelete
    BY <1>3 DEF ShareStep, GetBaseDirectory, GetDirectoryDetail, GetPoolDetail, GetNFSShareInfo,
                GetDirectoryWithoutBase, GetClusterAccessIP, DGetNFSShareInfo, DGetDirectoryDetail,
                CreateDirectoryV2, CreateDirectory, CreateNFSShare,
                DeleteDirectory, PostQuota, PutQuota, RemoveClientList,
                DeleteNFSShare, ShareCreate, ShareDelete
  <2>3. req[p].name \notin Blocks
    BY <2>2, VolumesAssumption DEF OpInv, OpOK, VolumesAssumption
  <2>4. req' = req /\ \A q \in Procs : q # p => pc'[q] = pc[q]
    BY <1>3, StepShape DEF Asked
  <2> QED
    BY <2>1, <2>3, <2>4 DEF BlockInv
<1>4. CASE BlockStep(p)
  <2>1. req' = req /\ \A q \in Procs : q # p => pc'[q] = pc[q]
    BY <1>4, StepShape DEF Asked
  <2>2. CASE QueryPoolTypeByName(p)
    BY <2>1, <2>2 DEF QueryPoolTypeByName, Query, arrayVars, Goto, BlockInv
  <2>3. CASE QueryLvm(p)
    <3>1. /\ req[p].name \in Blocks /\ req[p].op = "create" /\ req[p] \in Asks /\ lvm' = lvm
          /\ pc'[p] = "ok" => lvm[req[p].name] # 0
      BY <1>0, <2>3 DEF QueryLvm, Query, AfterLvm, arrayVars, Goto, OpInv, OpOK, BlockCreate
    <3> QED
      BY <2>1, <3>1 DEF BlockInv
  <2>4. CASE DQueryLvm(p)
    <3>1. /\ req[p].name \in Blocks /\ req[p].op = "delete" /\ lvm' = lvm
          /\ pc'[p] = "ok" => lvm[req[p].name] = 0
      BY <2>4 DEF DQueryLvm, Query, arrayVars, Goto, OpInv, OpOK, BlockDelete
    <3> QED
      BY <2>1, <3>1 DEF BlockInv
  <2>5. ASSUME NEW o \in Outcomes, NEW a \in BOOLEAN, NEW c,
               pc[p] # "idle", req[p].name \in Blocks,
               lvm' = [lvm EXCEPT ![req[p].name] = IF Applies(o) /\ a THEN c ELSE @],
               Goto(p, IF BlockSucceeds(o, a) THEN "ok" ELSE "err"),
               \/ /\ req[p].op = "create" /\ c = req[p].size /\ (a <=> lvm[req[p].name] = 0)
                  /\ pc[p] = "mkvol"
               \/ req[p].op = "delete" /\ c = 0
               \/ req[p].op = "extend" /\ c = req[p].size /\ (a <=> lvm[req[p].name] \in 1..c)
        PROVE  BlockInv'
    <3> DEFINE b == req[p].name
    <3>1. b \in Blocks /\ req[p] \in Asks /\ req[p].size \in Nat \ {0} /\ lvm[b] \in Nat
      BY <1>0, <2>5, AskFacts DEF Sizes
    <3>2. \A d \in Blocks : d # b => lvm'[d] = lvm[d]
      BY <2>5
    <3>3. lvm'[b] = lvm[b] \/ (a /\ lvm'[b] = c)
      BY <2>5, <3>1
    <3>4. pc'[p] = "ok" => a /\ lvm'[b] = c
      <4>1. pc'[p] = "ok" => o = "done" /\ a
        BY <2>5 DEF BlockSucceeds, Goto
      <4> QED
        BY <2>5, <3>1, <4>1 DEF Applies
    <3>5. ASSUME NEW r \in Asks, r.name \in Blocks, r.op = "create", lvm'[r.name] # 0
          PROVE  lvm'[r.name] >= r.size
      <4>1. r.size \in Nat /\ (lvm[r.name] # 0 => lvm[r.name] >= r.size)
        BY <3>5, AskFacts DEF BlockInv
      <4>2. req[p].op = "create" /\ r.name = b => r.size = req[p].size
        BY <3>1, <3>5, VolumesAssumption DEF VolumesAssumption
      <4> QED
        BY <2>5, <3>1, <3>2, <3>3, <3>5, <4>1, <4>2
    <3>6. ASSUME NEW q \in Procs, pc'[q] = "ok", req[q].name \in Blocks
          PROVE  IF req[q].op = "delete" THEN lvm'[req[q].name] = 0
                 ELSE lvm'[req[q].name] >= req[q].size
      <4>1. CASE q = p
        BY <2>5, <3>1, <3>4, <3>6, <4>1
      <4>2. CASE q # p /\ req[q].name # b
        BY <2>1, <3>2, <3>6, <4>2 DEF BlockInv
      <4>3. CASE q # p /\ req[q].name = b
        <5>1. req[q] = req[p] /\ pc[q] = "ok"
          BY <2>1, <2>5, <3>6, <4>3 DEF FlightInv
        <5>2. IF req[p].op = "delete" THEN lvm[b] = 0 ELSE lvm[b] >= req[p].size
          BY <3>1, <5>1 DEF BlockInv
        <5> QED
          BY <2>5, <3>1, <3>3, <5>1, <5>2
      <4> QED
        BY <4>1, <4>2, <4>3
    <3> QED
      BY <2>1, <3>5, <3>6 DEF BlockInv
  <2>6. CASE CreateVolume(p)
    <3>1. pc[p] = "mkvol" /\ req[p].name \in Blocks /\ req[p].op = "create"
      BY <2>6 DEF CreateVolume, OpInv, OpOK, BlockCreate
    <3> QED
      BY <2>5, <2>6, <3>1 DEF CreateVolume, BlockCommand
  <2>7. CASE DeleteVolume(p)
    <3>1. pc[p] = "rmvol" /\ req[p].name \in Blocks /\ req[p].op = "delete"
      BY <2>7 DEF DeleteVolume, OpInv, OpOK, BlockDelete
    <3> QED
      BY <2>5, <2>7, <3>1 DEF DeleteVolume, BlockCommand
  <2>8. CASE ExtendLvm(p)
    <3>1. pc[p] = "extend" /\ req[p].name \in Blocks /\ req[p].op = "extend"
      BY <2>8 DEF ExtendLvm, OpInv, OpOK
    <3> DEFINE a == lvm[req[p].name] \in 1..req[p].size
    <3>2. PICK o \in Outcomes :
             /\ lvm' = [lvm EXCEPT ![req[p].name] = IF Applies(o) /\ a THEN req[p].size ELSE @]
             /\ Goto(p, IF BlockSucceeds(o, a) THEN "ok" ELSE "err")
      BY <2>8 DEF ExtendLvm, BlockCommand
    <3>3. a \in BOOLEAN
      OBVIOUS
    <3> HIDE DEF a
    <3>4. a <=> lvm[req[p].name] \in 1..req[p].size
      BY DEF a
    <3> QED
      BY <2>5, <3>1, <3>2, <3>3, <3>4
  <2> QED
    BY <1>4, <2>2, <2>3, <2>4, <2>6, <2>7, <2>8 DEF BlockStep
<1> QED
  BY <1>1, <1>2, <1>3, <1>4, <1>5 DEF AnyStep, CallerStep, Asked

-----------------------------------------------------------------------------
(* What a step of a creation does to its share's directory d: it only adds *)
(* to it, and a handler that goes on found or made what comes before.      *)
CreateEffect(p, d) ==
  /\ d \in dirs => d \in dirs'
  /\ export'[d] # export[d] => export[d] = "none" /\ export'[d] = "client" /\ d \in dirs
  /\ quota'[d] # quota[d] => quota'[d] = req[p].size /\ d \in dirs
  /\ pc'[p] \in {"share", "export", "quota", "quotaPut", "ip", "ok"} => d \in dirs'
  /\ pc'[p] \in {"quota", "quotaPut", "ip", "ok"} => export'[d] = "client"
  /\ pc'[p] \in {"ip", "ok"} => quota'[d] = req[p].size
  /\ pc'[p] \notin ShareDelete

(* What a step of a deletion does: it only takes from it, the share first. *)
DeleteEffect(p, d) ==
  /\ export'[d] # export[d] => export[d] # "none" /\ d \in dirs'
  /\ \/ (d \in dirs <=> d \in dirs') /\ quota'[d] = quota[d]
     \/ d \notin dirs' /\ quota'[d] = 0 /\ export[d] = "none" /\ export'[d] = "none"
  /\ pc'[p] \in {"ddir", "rmdir", "ok"} => export'[d] = "none"
  /\ pc'[p] = "ok" => d \notin dirs'
  /\ pc'[p] \notin ShareCreate

(* A handler of a share knows its directory, what it was asked, and what   *)
(* is so of both.                                                          *)
LEMMA HandlerFacts ==
  ASSUME TypeInv, NEW p \in Procs, pc[p] \in ShareCreate \cup ShareDelete
  PROVE  /\ req[p] \in Asks /\ req[p].name \in Shares /\ req[p].name \notin Blocks
         /\ Dir(p) \in Dirs /\ Dir(p) = DirName(req[p].name) /\ pc[p] # "idle"
         /\ req[p].size \in Nat \ {0}
         /\ req[p].op = IF pc[p] \in ShareCreate THEN "create" ELSE "delete"
<1>1. pc[p] # "idle" /\ pc[p] # "extend" /\ ~(pc[p] \in ShareCreate /\ pc[p] \in ShareDelete)
  BY DEF ShareCreate, ShareDelete
<1>2. /\ req[p] \in Asks /\ req[p].name \in Shares
      /\ req[p].op = IF pc[p] \in ShareCreate THEN "create" ELSE "delete"
  BY <1>1 DEF TypeInv, OpInv, OpOK
<1> QED
  BY <1>1, <1>2, AskFacts DEF Dir

LEMMA CreateEffects ==
  ASSUME TypeInv, ShareInv, NEW p \in Procs, ShareStep(p), pc[p] \in ShareCreate,
         NEW d, d = Dir(p), d \notin spoilt'
  PROVE  CreateEffect(p, d)
<1>1. /\ req[p] \in Asks /\ req[p].name \in Shares /\ req[p].op = "create"
      /\ d \in Dirs /\ d = DirName(req[p].name) /\ pc[p] # "idle" /\ req[p].size \in Nat \ {0}
  BY HandlerFacts
<1>2. d \notin spoilt => /\ export[d] # "closed"
                         /\ quota[d] # 0 => quota[d] = req[p].size
  BY <1>1 DEF ShareInv, ShareOK
<1>3. d \notin spoilt =>
        /\ pc[p] \in {"share", "export", "quota", "quotaPut", "ip"} => d \in dirs
        /\ pc[p] \in {"quota", "quotaPut", "ip"} => export[d] = "client"
        /\ pc[p] = "ip" => quota[d] = req[p].size
  BY <1>1 DEF ShareInv, HandlerOK
<1>4. export[d] \in {"none", "client", "closed"} /\ quota[d] \in Nat
  BY <1>1, AskFacts DEF TypeInv, TypeOK, Sizes
<1>5. export \in [Dirs -> {"none", "client", "closed"}] /\ quota \in [Dirs -> Sizes \cup {0}]
      /\ DOMAIN pc = Procs
  BY DEF TypeInv, TypeOK
<1> USE DEF Goto, CreateEffect, ShareDelete
<1>6. CASE GetBaseDirectory(p)
  BY <1>1, <1>5, <1>6 DEF GetBaseDirectory, ShareQuery, arrayVars
<1>7. CASE GetDirectoryDetail(p)
  BY <1>1, <1>5, <1>7 DEF GetDirectoryDetail, ShareQuery, arrayVars
<1>15. CASE GetDirectoryWithoutBase(p)
  BY <1>1, <1>5, <1>15 DEF GetDirectoryWithoutBase, arrayVars
<1>8. CASE GetPoolDetail(p)
  BY <1>1, <1>5, <1>8 DEF GetPoolDetail, arrayVars
<1>9. CASE CreateDirectoryV2(p) \/ CreateDirectory(p)
  BY <1>1, <1>5, <1>9 DEF CreateDirectoryV2, CreateDirectory, MakeDirectory, Spoil, ShareSucceeds,
                          Applies
<1>10. CASE GetNFSShareInfo(p)
  BY <1>1, <1>2, <1>3, <1>4, <1>5, <1>10 DEF GetNFSShareInfo, ShareQuery, arrayVars
<1>11. CASE CreateNFSShare(p)
  BY <1>1, <1>2, <1>3, <1>4, <1>5, <1>11 DEF CreateNFSShare, Spoil, ShareSucceeds, Applies,
                                             Outcomes
<1>12. CASE PostQuota(p)
  BY <1>1, <1>2, <1>3, <1>4, <1>5, <1>12 DEF PostQuota, QuotaCommand, Spoil, ShareSucceeds,
                                             Applies, AfterFailedPost, Outcomes
<1>13. CASE PutQuota(p)
  BY <1>1, <1>2, <1>3, <1>4, <1>5, <1>13 DEF PutQuota, QuotaCommand, Spoil, ShareSucceeds,
                                             Applies, Outcomes
<1>14. CASE GetClusterAccessIP(p)
  BY <1>1, <1>2, <1>3, <1>5, <1>14 DEF GetClusterAccessIP, Query, arrayVars
<1> QED
  BY <1>6, <1>7, <1>8, <1>9, <1>10, <1>11, <1>12, <1>13, <1>14, <1>15
     DEF ShareStep, ShareCreate, DGetNFSShareInfo, RemoveClientList, DeleteNFSShare,
         DGetDirectoryDetail, DeleteDirectory

LEMMA DeleteEffects ==
  ASSUME TypeInv, ShareInv, NEW p \in Procs, ShareStep(p), pc[p] \in ShareDelete,
         NEW d, d = Dir(p), d \notin spoilt'
  PROVE  DeleteEffect(p, d)
<1>0. pc[p] \notin ShareCreate
  BY DEF ShareCreate, ShareDelete
<1>1. /\ req[p] \in Asks /\ req[p].name \in Shares /\ req[p].op = "delete"
      /\ d \in Dirs /\ d = DirName(req[p].name) /\ pc[p] # "idle"
  BY <1>0, HandlerFacts
<1>2. d \notin spoilt => /\ export[d] # "none" => d \in dirs
                         /\ d \notin dirs => quota[d] = 0
  BY <1>1 DEF ShareInv, ShareOK
<1>3. d \notin spoilt => (pc[p] \in {"ddir", "rmdir"} => export[d] = "none")
  BY <1>1 DEF ShareInv, HandlerOK
<1>4. export \in [Dirs -> {"none", "client", "closed"}] /\ quota \in [Dirs -> Sizes \cup {0}]
      /\ DOMAIN pc = Procs
  BY DEF TypeInv, TypeOK
<1> USE DEF Goto, DeleteEffect, ShareCreate
<1>5. CASE DGetNFSShareInfo(p)
  BY <1>1, <1>4, <1>5 DEF DGetNFSShareInfo, AfterNoShare, ShareQuery, arrayVars
<1>6. CASE RemoveClientList(p)
  BY <1>1, <1>2, <1>4, <1>6 DEF RemoveClientList, ExportCommand, AfterClients, Spoil,
                                ShareSucceeds, Applies, Outcomes
<1>7. CASE DeleteNFSShare(p)
  BY <1>1, <1>2, <1>4, <1>7 DEF DeleteNFSShare, ExportCommand, Spoil, ShareSucceeds, Applies,
                                Outcomes
<1>8. CASE DGetDirectoryDetail(p)
  BY <1>1, <1>3, <1>4, <1>8 DEF DGetDirectoryDetail, ShareQuery, arrayVars
<1>9. CASE DeleteDirectory(p)
  BY <1>1, <1>3, <1>4, <1>9 DEF DeleteDirectory, Spoil, ShareSucceeds, Applies, Outcomes
<1> QED
  BY <1>0, <1>5, <1>6, <1>7, <1>8, <1>9
     DEF ShareStep, GetBaseDirectory, GetDirectoryDetail, GetDirectoryWithoutBase,
         GetPoolDetail, CreateDirectoryV2, CreateDirectory, GetNFSShareInfo, CreateNFSShare, PostQuota, PutQuota, GetClusterAccessIP

(* A step for a share touches only its own directory. *)
LEMMA ShareFrame ==
  ASSUME TypeInv, NEW p \in Procs, ShareStep(p), NEW e \in Dirs
  PROVE  /\ e \in spoilt => e \in spoilt'
         /\ e # Dir(p) => /\ export'[e] = export[e] /\ quota'[e] = quota[e]
                          /\ e \in dirs <=> e \in dirs'
                          /\ e \in spoilt <=> e \in spoilt'
         /\ pc[p] \in ShareCreate \cup ShareDelete
<1>1. export \in [Dirs -> {"none", "client", "closed"}] /\ quota \in [Dirs -> Sizes \cup {0}]
  BY DEF TypeInv, TypeOK
<1> USE DEF Query, ShareQuery, arrayVars, Spoil, ShareCreate, ShareDelete
<1>2. CASE GetBaseDirectory(p) \/ GetDirectoryDetail(p) \/ GetPoolDetail(p) \/ GetNFSShareInfo(p)
           \/ GetDirectoryWithoutBase(p) \/ GetClusterAccessIP(p) \/ DGetNFSShareInfo(p)
           \/ DGetDirectoryDetail(p)
  BY <1>2 DEF GetBaseDirectory, GetDirectoryDetail, GetPoolDetail, GetNFSShareInfo,
              GetDirectoryWithoutBase, GetClusterAccessIP, DGetNFSShareInfo, DGetDirectoryDetail
<1>3. CASE CreateDirectoryV2(p) \/ CreateDirectory(p) \/ CreateNFSShare(p) \/ DeleteDirectory(p)
  BY <1>1, <1>3 DEF CreateDirectoryV2, CreateDirectory, MakeDirectory, CreateNFSShare,
                    DeleteDirectory
<1>4. CASE PostQuota(p) \/ PutQuota(p) \/ RemoveClientList(p) \/ DeleteNFSShare(p)
  BY <1>1, <1>4 DEF PostQuota, PutQuota, QuotaCommand, RemoveClientList, DeleteNFSShare,
                    ExportCommand
<1> QED
  BY <1>2, <1>3, <1>4 DEF ShareStep

(* A step of a share's handler. *)
LEMMA ShareStepInv ==
  ASSUME TypeInv, FlightInv, ShareInv, NEW p \in Procs, ShareStep(p)
  PROVE  ShareInv'
<1> DEFINE n == req[p].name
           d == Dir(p)
<1>1. req' = req /\ pc[p] # "idle" /\ pc'[p] # "idle" /\ \A q \in Procs : q # p => pc'[q] = pc[q]
  BY StepShape DEF Asked, TypeInv, TypeOK, Labels
<1>2. pc[p] \in ShareCreate \cup ShareDelete
  BY HandlerFacts, ShareFrame DEF ShareStep, ShareCreate, ShareDelete, GetBaseDirectory,
     GetDirectoryDetail, GetDirectoryWithoutBase, GetPoolDetail, CreateDirectoryV2, CreateDirectory, GetNFSShareInfo,
     CreateNFSShare, PostQuota, PutQuota, GetClusterAccessIP, DGetNFSShareInfo,
     RemoveClientList, DeleteNFSShare, DGetDirectoryDetail, DeleteDirectory
<1>3. /\ req[p] \in Asks /\ n \in Shares /\ d \in Dirs /\ d = DirName(n) /\ req[p].size \in Nat \ {0}
      /\ req[p].op = IF pc[p] \in ShareCreate THEN "create" ELSE "delete"
  BY <1>2, HandlerFacts
<1>4. \A s \in Shares : DirName(s) \in Dirs /\ (s # n => DirName(s) # d)
  BY <1>3, VolumesAssumption DEF Dirs, VolumesAssumption
<1>5. \A q \in Procs : pc[q] # "idle" /\ req[q].name = n => req[q] = req[p]
  BY <1>1 DEF FlightInv
<1>6. d \notin spoilt' => d \notin spoilt
  BY <1>3, ShareFrame
<1>7. d \notin spoilt' => IF pc[p] \in ShareCreate THEN CreateEffect(p, d) ELSE DeleteEffect(p, d)
  BY <1>2, CreateEffects, DeleteEffects
<1>8. ASSUME NEW s \in Shares PROVE ShareOK(s)'
  <2>1. CASE s # n
    <3> DEFINE e == DirName(s)
    <3>1. /\ export'[e] = export[e] /\ quota'[e] = quota[e] /\ (e \in dirs <=> e \in dirs')
          /\ e \in spoilt <=> e \in spoilt'
      BY <1>4, <2>1, ShareFrame
    <3>2. InFlight(s)' = InFlight(s)
      BY <1>1 DEF InFlight
    <3>3. \A q \in Procs : pc'[q] # "idle" /\ req'[q].name = s => pc[q] # "idle" /\ req[q].name = s
      BY <1>1
    <3>4. ShareOK(s)
      BY DEF ShareInv
    <3> QED
      BY <1>1, <3>1, <3>2, <3>3, <3>4 DEF ShareOK, Whole, Gone
  <2>2. CASE s = n
    <3> SUFFICES ASSUME d \notin spoilt'
                 PROVE  /\ export'[d] # "none" => d \in dirs'
                        /\ d \notin dirs' => quota'[d] = 0
                        /\ quota'[d] # 0 =>
                             \A r \in Asks : r.name = s /\ r.op = "create" => quota'[d] = r.size
                        /\ export'[d] = "closed" =>
                             \A q \in Procs : pc'[q] # "idle" /\ req[q].name = s
                                => req[q].op = "delete"
                        /\ InFlight(s)' # {}
      BY <1>1, <1>3, <2>2 DEF ShareOK
    <3>1. p \in InFlight(s)'
      BY <1>1, <2>2 DEF InFlight
    <3>2. /\ export[d] # "none" => d \in dirs
          /\ d \notin dirs => quota[d] = 0
          /\ quota[d] # 0 => \A r \in Asks : r.name = s /\ r.op = "create" => quota[d] = r.size
          /\ export[d] = "closed" => req[p].op = "delete"
      BY <1>1, <1>3, <1>6, <2>2 DEF ShareInv, ShareOK
    <3>3. \A r \in Asks : r.name = s /\ r.op = "create" /\ req[p].op = "create" => r.size = req[p].size
      BY <1>3, <2>2, VolumesAssumption DEF VolumesAssumption
    <3>4. \A q \in Procs : pc'[q] # "idle" /\ req[q].name = s => req[q].op = req[p].op
      BY <1>1, <1>5, <2>2
    <3>5. CASE pc[p] \in ShareCreate
      BY <1>3, <1>7, <3>1, <3>2, <3>3, <3>4, <3>5 DEF CreateEffect
    <3>6. CASE pc[p] \notin ShareCreate
      BY <1>3, <1>7, <3>1, <3>2, <3>3, <3>4, <3>6 DEF DeleteEffect
    <3> QED
      BY <3>5, <3>6
  <2> QED
    BY <2>1, <2>2
<1>9. ASSUME NEW q \in Procs PROVE HandlerOK(q)'
  <2> SUFFICES ASSUME pc'[q] # "idle", req[q].name \in Shares, Dir(q) \notin spoilt'
               PROVE  HandlerOK(q)'
    BY <1>1 DEF HandlerOK, Dir
  <2>0. HandlerOK(q) /\ Dir(q)' = Dir(q) /\ Dir(q) = DirName(req[q].name) /\ pc[q] # "idle"
    BY <1>1 DEF ShareInv, Dir
  <2>1. CASE req[q].name # n
    <3>1. /\ export'[Dir(q)] = export[Dir(q)] /\ quota'[Dir(q)] = quota[Dir(q)]
          /\ (Dir(q) \in dirs <=> Dir(q) \in dirs') /\ Dir(q) \notin spoilt
      BY <1>4, <2>0, <2>1, ShareFrame
    <3>2. q # p
      BY <2>1
    <3> QED
      BY <1>1, <2>0, <3>1, <3>2 DEF HandlerOK, Made, Removed
  <2>2. CASE req[q].name = n
    <3>1. req[q] = req[p] /\ Dir(q) = d /\ d \notin spoilt
      BY <1>5, <1>6, <2>0, <2>2 DEF Dir
    <3>2. CASE q = p /\ pc[p] \in ShareCreate
      <4>1. CreateEffect(p, d) /\ req[p].op = "create"
        BY <1>3, <1>7, <3>1, <3>2
      <4> QED
        BY <1>1, <2>0, <3>1, <3>2, <4>1 DEF HandlerOK, Made, Removed, CreateEffect, ShareDelete
    <3>3. CASE q = p /\ pc[p] \notin ShareCreate
      <4>1. DeleteEffect(p, d) /\ req[p].op = "delete"
        BY <1>3, <1>7, <3>1, <3>3
      <4> QED
        BY <1>1, <2>0, <3>1, <3>3, <4>1 DEF HandlerOK, Made, Removed, DeleteEffect, ShareCreate
    <3>4. CASE q # p /\ pc[p] \in ShareCreate
      <4>1. CreateEffect(p, d) /\ req[p].op = "create"
        BY <1>3, <1>7, <3>1, <3>4
      <4>2. pc[q] \notin ShareDelete
        BY <3>1, <4>1 DEF TypeInv, OpInv, OpOK
      <4> QED
        BY <1>1, <2>0, <3>1, <3>4, <4>1, <4>2 DEF HandlerOK, Made, Removed, CreateEffect, ShareDelete
    <3>5. CASE q # p /\ pc[p] \notin ShareCreate
      <4>1. DeleteEffect(p, d) /\ req[p].op = "delete"
        BY <1>3, <1>7, <3>1, <3>5
      <4>2. pc[q] \notin ShareCreate
        BY <3>1, <4>1 DEF TypeInv, OpInv, OpOK
      <4> QED
        BY <1>1, <2>0, <3>1, <3>5, <4>1, <4>2 DEF HandlerOK, Made, Removed, DeleteEffect, ShareCreate
    <3> QED
      BY <3>2, <3>3, <3>4, <3>5
  <2> QED
    BY <2>1, <2>2
<1> QED
  BY <1>8, <1>9 DEF ShareInv

(* A step that leaves the shares of the array alone. *)
LEMMA CallerStepInv ==
  ASSUME TypeInv, FlightInv, ShareInv, NEW p \in Procs, CallerStep(p)
  PROVE  ShareInv'
<1>0. dirs' = dirs /\ export' = export /\ quota' = quota /\ spoilt' = spoilt
  BY EndsFacts DEF CallerStep, Call, Retry, Done, Begin, Ends, arrayVars
<1>1. /\ Kill(p) \/ Panic(p) \/ \A q \in Procs : q # p => pc'[q] = pc[q] /\ req'[q] = req[q]
      /\ \A q \in Procs : pc[q] # "idle" => req[q] \in Asks
      /\ DOMAIN pc = Procs /\ DOMAIN req = Procs
  BY DEF CallerStep, Call, Retry, Done, Begin, Goto, TypeInv, TypeOK, OpInv, OpOK
<1>2. \A s \in Shares : ShareOK(s)
  BY DEF ShareInv
<1>3. \A q \in Procs : HandlerOK(q)
  BY DEF ShareInv
<1>4. ASSUME ~Kill(p), ~Panic(p), NEW q \in Procs, q # p PROVE HandlerOK(q)'
  BY <1>0, <1>1, <1>3, <1>4 DEF HandlerOK, Made, Removed, Dir
<1>7. CASE Kill(p) \/ Panic(p)
  <2>1. /\ req' = req
        /\ \A q \in Procs : pc'[q] = pc[q] \/ (pc[q] # "idle" /\ pc'[q] = "err")
    BY <1>7, EndsFacts DEF Ends, Running
  <2>2. \A q \in Procs : HandlerOK(q)'
    BY <1>0, <1>3, <2>1 DEF HandlerOK, Made, Removed, Dir
  <2>3. \A q \in Procs : pc'[q] # "idle" <=> pc[q] # "idle"
    BY <2>1
  <2>4. ASSUME NEW s \in Shares PROVE ShareOK(s)'
    <3>1. InFlight(s)' = InFlight(s)
      BY <2>1, <2>3 DEF InFlight
    <3> QED
      BY <1>0, <1>2, <2>1, <2>3, <3>1 DEF ShareOK, Whole, Gone
  <2> QED
    BY <2>2, <2>4 DEF ShareInv
<1> SUFFICES ASSUME ~Kill(p), ~Panic(p) PROVE ShareInv'
  BY <1>7
<1>5. CASE Call(p) \/ Retry(p)
  <2>1. PICK r \in Asks : Begin(p, r) /\ (\A q \in InFlight(r.name) : req[q] = r)
    BY <1>1, <1>5 DEF Call, Retry, InFlight, FlightInv
  <2>2. pc'[p] = FirstLabel(r) /\ req'[p] = r
    BY <1>1, <2>1 DEF Begin, Goto
  <2>3. pc'[p] \in {"extend", "pooltype", "base", "dlvm", "dshare"}
    BY <2>2, AskFacts
  <2>4. HandlerOK(p)'
    BY <2>3 DEF HandlerOK, Made, Removed
  <2>5. pc[p] = "idle" \/ (pc[p] # "idle" /\ req[p] = r)
    BY <1>1, <1>5, <2>2 DEF Call, Retry, Begin
  <2>6. ASSUME NEW s \in Shares PROVE ShareOK(s)'
    <3>1. InFlight(s) \subseteq InFlight(s)'
      BY <1>1, <2>2, <2>3, <2>5 DEF InFlight
    <3>2. ASSUME DirName(s) \notin spoilt, export[DirName(s)] = "closed",
                 NEW q \in Procs, pc'[q] # "idle", req'[q].name = s
          PROVE  req'[q].op = "delete"
      <4>1. PICK w \in InFlight(s) : TRUE
        BY <1>2, <3>2 DEF ShareOK, Whole, Gone
      <4>2. w \in Procs /\ pc[w] # "idle" /\ req[w].name = s /\ req[w].op = "delete"
        BY <1>2, <3>2, <4>1 DEF ShareOK, InFlight
      <4>3. CASE q = p
        BY <2>1, <2>2, <3>2, <4>1, <4>2, <4>3
      <4>4. CASE q # p
        BY <1>1, <1>2, <3>2, <4>4 DEF ShareOK
      <4> QED
        BY <4>3, <4>4
    <3> QED
      BY <1>0, <1>2, <3>1, <3>2 DEF ShareOK, Whole, Gone
  <2> QED
    BY <1>4, <2>4, <2>6 DEF ShareInv
<1>6. CASE Done(p)
  <2>1. pc[p] = "ok" /\ pc'[p] = "idle" /\ req[p] \in Asks
    BY <1>1, <1>6 DEF Done, Goto
  <2>2. HandlerOK(p)'
    BY <2>1 DEF HandlerOK
  <2>3. ASSUME NEW s \in Shares PROVE ShareOK(s)'
    <3>1. CASE req[p].name # s
      <4>1. InFlight(s) \subseteq InFlight(s)'
        BY <1>1, <3>1 DEF InFlight
      <4>2. \A q \in Procs : pc'[q] # "idle" => pc[q] # "idle" /\ req'[q] = req[q]
        BY <1>1, <2>1
      <4> QED
        BY <1>0, <1>2, <4>1, <4>2 DEF ShareOK, Whole, Gone
    <3>2. CASE req[p].name = s
      <4>1. DirName(s) \notin spoilt => Whole(DirName(s)) \/ Gone(DirName(s))
        <5>1. req[p].op \in {"create", "delete"} /\ req[p].size # 0
          BY <2>1, <3>2, AskFacts
        <5> QED
          BY <1>2, <1>3, <2>1, <3>2, <5>1 DEF ShareOK, HandlerOK, Made, Removed, Dir, Whole, Gone
      <4>2. \A q \in Procs : pc'[q] # "idle" => pc[q] # "idle" /\ req'[q] = req[q]
        BY <1>1, <2>1
      <4> QED
        BY <1>0, <1>2, <4>1, <4>2 DEF ShareOK, Whole, Gone
    <3> QED
      BY <3>1, <3>2
  <2> QED
    BY <1>4, <2>2, <2>3 DEF ShareInv
<1> QED
  BY <1>5, <1>6 DEF CallerStep

LEMMA BlockStepInv ==
  ASSUME TypeInv, ShareInv, NEW p \in Procs, BlockStep(p)
  PROVE  ShareInv'
<1>1. dirs' = dirs /\ export' = export /\ quota' = quota /\ spoilt' = spoilt
  BY DEF BlockStep, QueryPoolTypeByName, QueryLvm, CreateVolume, DQueryLvm, DeleteVolume,
         ExtendLvm, BlockCommand, Query, arrayVars
<1>2. req' = req /\ pc[p] # "idle" /\ pc'[p] # "idle" /\ \A q \in Procs : q # p => pc'[q] = pc[q]
  BY StepShape DEF Asked, TypeInv, TypeOK, Labels
<1>3. req[p].name \notin Shares
  <2>1. pc[p] \in BlockCreate \cup BlockDelete \cup {"extend"}
    BY DEF BlockStep, QueryPoolTypeByName, QueryLvm, CreateVolume, DQueryLvm, DeleteVolume,
           ExtendLvm, BlockCreate, BlockDelete
  <2>2. req[p].name \in Blocks
    BY <2>1 DEF TypeInv, OpInv, OpOK
  <2> QED
    BY <2>2, VolumesAssumption DEF VolumesAssumption
<1>4. ASSUME NEW s \in Shares PROVE ShareOK(s)'
  <2>1. InFlight(s)' = InFlight(s)
    BY <1>2 DEF InFlight
  <2>2. \A q \in Procs : pc'[q] # "idle" <=> pc[q] # "idle"
    BY <1>2
  <2> QED
    BY <1>1, <1>2, <2>1, <2>2 DEF ShareInv, ShareOK, Whole, Gone
<1>5. ASSUME NEW q \in Procs PROVE HandlerOK(q)'
  <2>1. CASE q = p
    BY <1>2, <1>3, <2>1 DEF HandlerOK
  <2>2. CASE q # p
    BY <1>1, <1>2, <2>2 DEF ShareInv, HandlerOK, Made, Removed, Dir
  <2> QED
    BY <2>1, <2>2
<1> QED
  BY <1>4, <1>5 DEF ShareInv

LEMMA InvStep == TypeInv /\ Inv /\ [Next]_vars => Inv'
<1> SUFFICES ASSUME TypeInv, Inv, [Next]_vars PROVE Inv'
  OBVIOUS
<1>1. ASSUME NEW p \in Procs, AnyStep(p) PROVE Inv'
  BY <1>1, FlightStep, BlockInvStep, ShareStepInv, CallerStepInv, BlockStepInv
     DEF Inv, AnyStep, Asked
<1>2. CASE UNCHANGED vars
  BY <1>2, StutterInv
<1> QED
  BY <1>1, <1>2 DEF Next, Rest, AnyStep, CallerStep, Asked, Step

LEMMA Invariants == Spec => [](TypeInv /\ Inv)
  BY InitInv, TypeStep, InvStep, PTL DEF Spec

(* A success that CreateVolume, DeleteVolume or ExtendVolume answers is    *)
(* true, for any number of handlers and of requests that are lost, refused *)
(* or repeated.                                                            *)
THEOREM AnswersAreSound == Spec => []AnswerSound
<1>1. TypeInv /\ Inv => AnswerSound
  <2> SUFFICES ASSUME TypeInv, Inv, NEW p \in Procs, pc[p] = "ok" PROVE Sound(req[p])
    BY DEF AnswerSound
  <2>1. req[p] \in Asks
    BY DEF TypeInv, OpInv, OpOK
  <2>2. CASE req[p].name \in Blocks
    BY <2>1, <2>2, AskFacts DEF Inv, BlockInv, Sound
  <2>3. CASE req[p].name \in Shares
    <3>1. req[p].name \notin Blocks /\ req[p].op \in {"create", "delete"}
      BY <2>1, <2>3, AskFacts
    <3>2. Dir(p) \notin spoilt =>
            /\ req[p].op = "create" => /\ Dir(p) \in dirs /\ export[Dir(p)] = "client"
                                       /\ quota[Dir(p)] = req[p].size
            /\ req[p].op = "delete" => Dir(p) \notin dirs /\ export[Dir(p)] = "none"
      BY <2>3 DEF Inv, ShareInv, HandlerOK, Made, Removed
    <3> QED
      BY <2>3, <3>1, <3>2 DEF Sound, Dir
  <2> QED
    BY <2>1, <2>2, <2>3, AskFacts
<1> QED
  BY <1>1, Invariants, PTL

(* CreateNFSShare and DeleteNFSShare never leave a directory exported that *)
(* is not there, on any path of any handler.                               *)
THEOREM NoExportDangles == Spec => []NoDanglingExport
<1>1. TypeInv /\ Inv => NoDanglingExport
  BY DEF Inv, ShareInv, ShareOK, NoDanglingExport, Dirs
<1> QED
  BY <1>1, Invariants, PTL

(* A share for which nothing is in flight is whole or gone, however its    *)
(* creations and deletions failed on the way.                              *)
THEOREM SharesWholeOrGone == Spec => []WholeOrGone
<1>1. TypeInv /\ Inv => WholeOrGone
  BY DEF Inv, ShareInv, ShareOK, WholeOrGone, Whole, Gone
<1> QED
  BY <1>1, Invariants, PTL
-----------------------------------------------------------------------------
(* Attempts end.  The requests an attempt has still to send, at most, when *)
(* the next one is l: the longest way through CreateNFSShare looks at the  *)
(* base directory, the directory and the pools, makes the directory in     *)
(* both forms, and sets the quota in both.                                 *)
LeftAt(l) ==
  CASE l = "base" -> 10
    [] l \in {"dir", "dirNoBase"} -> 9
    [] l = "pools" -> 8
    [] l = "mkdir" -> 7
    [] l = "mkdirOld" -> 6
    [] l \in {"share", "dshare"} -> 5
    [] l \in {"export", "rmclients"} -> 4
    [] l \in {"quota", "unexport", "pooltype"} -> 3
    [] l \in {"quotaPut", "ddir", "lvm", "dlvm"} -> 2
    [] l \in {"ip", "rmdir", "mkvol", "rmvol", "extend"} -> 1
    [] l \in {"idle", "ok", "err"} -> 0
Left(p) == LeftAt(pc[p])

(* Every request of an attempt brings its answer nearer, and no step of    *)
(* another handler puts it off.                                            *)
Shrinks ==
  [][\A p \in Procs : /\ Step(p) => Left(p)' < Left(p)
                      /\ Running(p) /\ Running(p)' => Left(p)' <= Left(p)]_vars

(* The table, row by row. *)
LEMMA LeftRows ==
  ASSUME NEW l
  PROVE  /\ l = "base" => LeftAt(l) = 10
         /\ l \in {"dir", "dirNoBase"} => LeftAt(l) = 9
         /\ l = "pools" => LeftAt(l) = 8
         /\ l = "mkdir" => LeftAt(l) = 7
         /\ l = "mkdirOld" => LeftAt(l) = 6
         /\ l \in {"share", "dshare"} => LeftAt(l) = 5
         /\ l \in {"export", "rmclients"} => LeftAt(l) = 4
         /\ l \in {"quota", "unexport", "pooltype"} => LeftAt(l) = 3
         /\ l \in {"quotaPut", "ddir", "lvm", "dlvm"} => LeftAt(l) = 2
         /\ l \in {"ip", "rmdir", "mkvol", "rmvol", "extend"} => LeftAt(l) = 1
         /\ l \in {"idle", "ok", "err"} => LeftAt(l) = 0
  BY DEF LeftAt

LEMMA LeftBound ==
  ASSUME TypeInv, NEW p \in Procs
  PROVE  Left(p) \in 0..10 /\ (Running(p) => Left(p) > 0)
<1>1. pc[p] \in Labels
  BY DEF TypeInv, TypeOK
<1> QED
  BY <1>1, LeftRows DEF Left, Labels, Running

LEMMA StepShrinks ==
  ASSUME TypeInv, NEW p \in Procs, Asked(p)
  PROVE  /\ Left(p)' < Left(p) /\ Left(p)' <= Left(p)
         /\ \A q \in Procs : q # p => pc'[q] = pc[q]
<1>0. DOMAIN pc = Procs
  BY DEF TypeInv, TypeOK
<1> USE <1>0 DEF Query, ShareQuery, Goto, Left
<1>1. CASE QueryPoolTypeByName(p) \/ QueryLvm(p)
  BY <1>1, LeftRows DEF QueryPoolTypeByName, QueryLvm, AfterLvm
<1>2. CASE CreateVolume(p) \/ DeleteVolume(p) \/ ExtendLvm(p)
  BY <1>2, LeftRows DEF CreateVolume, DeleteVolume, ExtendLvm, BlockCommand
<1>3. CASE DQueryLvm(p)
  BY <1>3, LeftRows DEF DQueryLvm
<1>4. CASE GetBaseDirectory(p) \/ GetDirectoryDetail(p) \/ GetDirectoryWithoutBase(p)
  BY <1>4, LeftRows DEF GetBaseDirectory, GetDirectoryDetail, GetDirectoryWithoutBase
<1>5. CASE GetPoolDetail(p)
  BY <1>5, LeftRows DEF GetPoolDetail
<1>6. CASE CreateDirectoryV2(p)
  BY <1>6, LeftRows DEF CreateDirectoryV2, MakeDirectory
<1>7. CASE CreateDirectory(p)
  BY <1>7, LeftRows DEF CreateDirectory, MakeDirectory
<1>8. CASE GetNFSShareInfo(p) \/ GetClusterAccessIP(p)
  BY <1>8, LeftRows DEF GetNFSShareInfo, GetClusterAccessIP
<1>9. CASE CreateNFSShare(p)
  BY <1>9, LeftRows DEF CreateNFSShare
<1>10. CASE PostQuota(p)
  BY <1>10, LeftRows DEF PostQuota, QuotaCommand, AfterFailedPost
<1>11. CASE PutQuota(p)
  BY <1>11, LeftRows DEF PutQuota, QuotaCommand
<1>12. CASE DGetNFSShareInfo(p) \/ DGetDirectoryDetail(p)
  BY <1>12, LeftRows DEF DGetNFSShareInfo, AfterNoShare, DGetDirectoryDetail
<1>13. CASE RemoveClientList(p)
  BY <1>13, LeftRows DEF RemoveClientList, ExportCommand, AfterClients
<1>14. CASE DeleteNFSShare(p)
  BY <1>14, LeftRows DEF DeleteNFSShare, ExportCommand
<1>15. CASE DeleteDirectory(p)
  BY <1>15, LeftRows DEF DeleteDirectory
<1> QED
  BY <1>1, <1>2, <1>3, <1>4, <1>5, <1>6, <1>7, <1>8, <1>9, <1>10, <1>11, <1>12, <1>13, <1>14, <1>15
  DEF Asked, BlockStep, ShareStep

(* Creating, extending and deleting never loop: whatever other handlers do *)
(* and whatever fails or is refused, an attempt is over after at most ten  *)
(* requests.  (That it sends them is fairness, and that a creation or a    *)
(* deletion is answered in the end is VolumesServed, a run's.)             *)
THEOREM AttemptsEnd ==
  Spec => [](\A p \in Procs : Left(p) \in 0..10) /\ Shrinks
<1>1. TypeInv => \A p \in Procs : Left(p) \in 0..10
  BY LeftBound
<1>2. TypeInv /\ [Next]_vars =>
        [\A p \in Procs : /\ Step(p) => Left(p)' < Left(p)
                          /\ Running(p) /\ Running(p)' => Left(p)' <= Left(p)]_vars
  <2> SUFFICES ASSUME TypeInv, Next, NEW p \in Procs
               PROVE  /\ Step(p) => Left(p)' < Left(p)
                      /\ Running(p) /\ Running(p)' => Left(p)' <= Left(p)
    OBVIOUS
  <2>1. Left(p) \in Nat
    BY LeftBound
  <2>2. CASE Step(p)
    <3>1. CASE Panic(p)
      <4>1. Left(p) > 0 /\ Left(p)' = 0
        BY <3>1, EndsFacts, LeftBound, LeftRows DEF Left
      <4> QED
        BY <2>1, <4>1
    <3> QED
      BY <2>2, <3>1, StepShrinks DEF Step, Asked
  <2>3. CASE ~Step(p)
    <3>1. Running(p) /\ Running(p)' => pc'[p] = pc[p]
      <4>1. CASE \E q \in Procs : q # p /\ Asked(q)
        BY <4>1, StepShrinks
      <4>2. CASE \E q \in Procs : Call(q) \/ Retry(q) \/ Done(q)
        BY <4>2 DEF Call, Retry, Done, Begin, Goto, Running, TypeInv, TypeOK
      <4>4. CASE \E q \in Procs : Kill(q) \/ Panic(q)
        BY <4>4, EndsFacts DEF Running
      <4>3. CASE UNCHANGED vars
        BY <4>3 DEF vars
      <4> QED
        BY <2>3, <4>1, <4>2, <4>3, <4>4 DEF Next, Rest, Step, Asked
    <3> QED
      BY <2>1, <2>3, <3>1 DEF Left
  <2> QED
    BY <2>2, <2>3
<1>3. Spec => []TypeInv
  BY InitInv, TypeStep, PTL DEF Spec
<1> QED
  BY <1>1, <1>2, <1>3, PTL DEF Spec, Shrinks
=============================================================================
