--------------------------- MODULE AS13000Volumes ---------------------------
(***************************************************************************)
(* Creating, extending and deleting what an AS13000 stores, as             *)
(* Storage13000Util of pkg/storage/as13000/storage.go does it over REST:   *)
(* block volumes of a pool, and NFS shares, each a directory with a quota  *)
(* that is exported to one client.                                         *)
(*                                                                         *)
(* Every step is one request, with nothing locked.  A request may not      *)
(* arrive, its answer may be lost, and the array may refuse it, for want   *)
(* of room or since it does not apply.  A refusal is an answer with HTTP   *)
(* status 200 and a code other than 0, without data.  The calls for block  *)
(* volumes read the code and fail; those for shares go through             *)
(* RestApiClient.request, which returns no error for such an answer        *)
(* (restApi.go:199): a command takes it for success, and a query for       *)
(* nothing being there.                                                    *)
(*                                                                         *)
(* The array is outside the repository.  It refuses a second volume or     *)
(* directory of a name, and to set a quota where one is set; it changes a  *)
(* quota, whether or not one was set, of any directory that exists, and it *)
(* does not keep an exported directory from being deleted.                 *)
(***************************************************************************)
EXTENDS Naturals, FiniteSets, Sequences

CONSTANTS
  Blocks,      \* names of block volumes
  Shares,      \* names of shares: [pvc, chars]
  Length,      \* characters of a share's directory name (32 in the code)
  Asks,        \* the requests callers make: [op, name, size], size in GB
  Procs,       \* handler slots
  MaxCalls,    \* bound: requests callers make, retries not counted
  MaxFaults    \* bound: requests that fail or are refused, processes that are killed

(* generateNFSShareName: the prefix "pvc-" and the dashes go, then the     *)
(* rest is cut.                                                            *)
DirName(s) ==
  LET kept == SelectSeq(s.chars, LAMBDA c : c # "-")
  IN IF Len(kept) > Length THEN SubSeq(kept, 1, Length) ELSE kept

Dirs == {DirName(s) : s \in Shares}

(* The names Kubernetes gives are distinct in the part that is kept, and a *)
(* name stands for one claim, which is created with one size.              *)
ASSUME VolumesAssumption ==
  /\ Blocks \cap Shares = {}
  /\ \A q, r \in Asks : q.op = "create" /\ r.op = "create" /\ q.name = r.name => q.size = r.size
  /\ \A r \in Asks : /\ r.op \in {"create", "delete", "extend"}
                     /\ r.name \in Blocks \cup Shares
                     /\ r.op = "extend" => r.name \in Blocks
                     /\ r.size \in Nat \ {0}
  /\ Length \in Nat
  /\ \A s \in Shares : s.pvc \in BOOLEAN /\ s.chars \in Seq(STRING)
  /\ \A s, t \in Shares : s # t => DirName(s) # DirName(t)
  /\ MaxCalls \in Nat /\ MaxFaults \in Nat

NoRequest == [op |-> "none"]
Sizes == {r.size : r \in Asks}

VARIABLES
  lvm,       \* [Blocks -> capacity], 0 for a volume that does not exist
  dirs,      \* the directories of shares that exist
  export,    \* [Dirs -> "none", "client" or "closed"]: the NFS share, its client list
  quota,     \* [Dirs -> capacity], 0 for none
  pc,        \* the next request of each handler; "ok" and "err": its answer
  req,       \* what it serves
  spoilt,    \* history: directories for which a refused command was read as success,
             \* or of which a deletion read a refused query as not there
  calls, faults

arrayVars == <<lvm, dirs, export, quota>>
vars == <<arrayVars, pc, req, spoilt, calls, faults>>

Labels == {"idle", "pooltype", "lvm", "mkvol", "dlvm", "rmvol", "extend",
           "base", "dir", "dirNoBase", "pools", "mkdir", "mkdirOld", "share", "export",
           "quota", "quotaPut", "ip",
           "dshare", "rmclients", "unexport", "ddir", "rmdir", "ok", "err"}

TypeOK ==
  /\ lvm \in [Blocks -> Sizes \cup {0}]
  /\ dirs \subseteq Dirs
  /\ export \in [Dirs -> {"none", "client", "closed"}]
  /\ quota \in [Dirs -> Sizes \cup {0}]
  /\ pc \in [Procs -> Labels]
  /\ req \in [Procs -> Asks \cup {NoRequest}]
  /\ spoilt \subseteq Dirs
  /\ calls \in 0..MaxCalls
  /\ faults \in 0..MaxFaults

Init ==
  /\ lvm = [b \in Blocks |-> 0]
  /\ dirs = {}
  /\ export = [d \in Dirs |-> "none"]
  /\ quota = [d \in Dirs |-> 0]
  /\ pc = [p \in Procs |-> "idle"]
  /\ req = [p \in Procs |-> NoRequest]
  /\ spoilt = {}
  /\ calls = 0
  /\ faults = 0

Goto(p, label) == pc' = [pc EXCEPT ![p] = label]
Dir(p) == DirName(req[p].name)

Spend(o) ==
  /\ o # "done" => faults < MaxFaults
  /\ faults' = IF o = "done" THEN faults ELSE faults + 1
  /\ UNCHANGED calls

(* How a request that changes the array ends: the array answers, refuses   *)
(* for a reason of its own, answers in vain, or does not get it.           *)
Outcomes == {"done", "refused", "lost", "unsent"}
Applies(o) == o \in {"done", "lost"}

(* Mutant: the code in the answer is not read for block volumes either. *)
BlockAnswerIgnored(o, accepted) == o \in {"done", "refused"}

(* Calls for block volumes: isResponseOk of the code. *)
BlockSucceeds(o, accepted) == o = "done" /\ accepted

(* Calls for shares: any answer is a success. *)
ShareSucceeds(o) == o \in {"done", "refused"}
Spoil(p, o) == spoilt' = IF o = "refused" THEN spoilt \cup {Dir(p)} ELSE spoilt

Running(p) == pc[p] \notin {"idle", "ok", "err"}

(* The process of handler p ends, and with it others that it ran. *)
ProcessEnds(p) ==
  \E K \in SUBSET {q \in Procs : Running(q)} :
    /\ p \in K
    /\ pc' = [q \in Procs |-> IF q \in K THEN "err" ELSE pc[q]]

(* A query that reads the code in the answer, or fails. *)
Query(p, label) ==
  \E o \in {"done", "unsent"} :
    /\ Spend(o)
    /\ Goto(p, IF o = "done" THEN label ELSE "err")
    /\ UNCHANGED <<arrayVars, req, spoilt>>

(* A query for a directory or a share, which reads a refusal as not there. *)
(* A deletion that does so leaves behind what is there.                    *)
ShareQuery(p, there, found, absent) ==
  \E o \in {"done", "refused", "unsent"} :
    /\ Spend(o)
    /\ Goto(p, IF o = "unsent" THEN "err" ELSE IF o = "done" /\ there THEN found ELSE absent)
    /\ spoilt' = IF o = "refused" /\ there /\ req[p].op = "delete"
                   THEN spoilt \cup {Dir(p)} ELSE spoilt
    /\ UNCHANGED <<arrayVars, req>>

-----------------------------------------------------------------------------
(* Requests of the callers.  CreateVolume and DeleteVolume look at the     *)
(* kind of device.                                                         *)

FirstLabel(r) ==
  CASE r.op = "extend" -> "extend"
    [] r.op = "create" /\ r.name \in Blocks -> "pooltype"
    [] r.op = "create" /\ r.name \in Shares -> "base"
    [] r.op = "delete" /\ r.name \in Blocks -> "dlvm"
    [] r.op = "delete" /\ r.name \in Shares -> "dshare"

Begin(p, r) ==
  /\ Goto(p, FirstLabel(r))
  /\ req' = [req EXCEPT ![p] = r]
  /\ UNCHANGED <<arrayVars, spoilt, faults>>

InFlight(n) == {q \in Procs : pc[q] # "idle" /\ req[q].name = n}

(* A request may be sent again while its handler runs, after a timeout;    *)
(* another for the same name waits until it is answered.                   *)
Call(p) ==
  /\ pc[p] = "idle"
  /\ calls < MaxCalls
  /\ calls' = calls + 1
  /\ \E r \in Asks : (\A q \in InFlight(r.name) : req[q] = r) /\ Begin(p, r)

Retry(p) ==
  /\ pc[p] = "err"
  /\ Begin(p, req[p])
  /\ UNCHANGED calls

Done(p) ==
  /\ pc[p] = "ok"
  /\ Goto(p, "idle")
  /\ req' = [req EXCEPT ![p] = NoRequest]
  /\ UNCHANGED <<arrayVars, spoilt, calls, faults>>

Kill(p) ==
  /\ Running(p)
  /\ faults < MaxFaults
  /\ faults' = faults + 1
  /\ ProcessEnds(p)
  /\ UNCHANGED <<arrayVars, req, spoilt, calls>>

-----------------------------------------------------------------------------
(* Block volumes: CreateBlockVolume, DeleteBlockVolume, ExtendVolume. *)

QueryPoolTypeByName(p) == pc[p] = "pooltype" /\ Query(p, "lvm")

(* Mutant: the volume is created without a look for it. *)
CreateUnseen(p) == "mkvol"

AfterLvm(p) == IF lvm[req[p].name] = 0 THEN "mkvol" ELSE "ok"

QueryLvm(p) == pc[p] = "lvm" /\ Query(p, AfterLvm(p))

BlockCommand(p, accepted, capacity) ==
  \E o \in Outcomes :
    /\ Spend(o)
    /\ lvm' = [lvm EXCEPT ![req[p].name] = IF Applies(o) /\ accepted THEN capacity ELSE @]
    /\ Goto(p, IF BlockSucceeds(o, accepted) THEN "ok" ELSE "err")
    /\ UNCHANGED <<dirs, export, quota, req, spoilt>>

CreateVolume(p) ==
  pc[p] = "mkvol" /\ BlockCommand(p, lvm[req[p].name] = 0, req[p].size)

DQueryLvm(p) ==
  pc[p] = "dlvm" /\ Query(p, IF lvm[req[p].name] = 0 THEN "ok" ELSE "rmvol")

DeleteVolume(p) ==
  pc[p] = "rmvol" /\ BlockCommand(p, lvm[req[p].name] # 0, 0)

(* Mutant: extendLvm is given the addition. *)
ExtendByAddition(p) ==
  pc[p] = "extend" /\ BlockCommand(p, lvm[req[p].name] # 0, lvm[req[p].name] + req[p].size)

(* extendLvm is given the new capacity; the array does not shrink a volume. *)
ExtendLvm(p) ==
  pc[p] = "extend" /\ BlockCommand(p, lvm[req[p].name] \in 1..req[p].size, req[p].size)

-----------------------------------------------------------------------------
(* CreateNFSShare *)

(* getDirectoryDetail of the pool's directory, which exists. *)
GetBaseDirectory(p) == pc[p] = "base" /\ ShareQuery(p, TRUE, "dir", "dirNoBase")

GetDirectoryDetail(p) ==
  pc[p] = "dir" /\ ShareQuery(p, Dir(p) \in dirs, "share", "pools")

(* With the base directory read as not there, only a share whose directory *)
(* is found goes on: createDirectoryV2 dereferences the nil.               *)
GetDirectoryWithoutBase(p) ==
  /\ pc[p] = "dirNoBase"
  /\ \/ Dir(p) \in dirs /\ Spend("done") /\ Goto(p, "share")
     \/ Spend("unsent") /\ Goto(p, "err")
  /\ UNCHANGED <<arrayVars, req, spoilt>>

NilBaseDirectory(p) ==
  /\ pc[p] = "dirNoBase"
  /\ \/ Dir(p) \notin dirs /\ Spend("done")
     \/ Spend("refused")
  /\ ProcessEnds(p)
  /\ UNCHANGED <<arrayVars, req, spoilt>>

(* createDirectoryV2 reads the pools first, and goes on with none when     *)
(* that is refused; when any of it fails, the request is made in its older *)
(* form.                                                                   *)
GetPoolDetail(p) ==
  /\ pc[p] = "pools"
  /\ \E o \in {"done", "refused", "unsent"} :
       Spend(o) /\ Goto(p, IF o = "unsent" THEN "mkdirOld" ELSE "mkdir")
  /\ UNCHANGED <<arrayVars, req, spoilt>>

MakeDirectory(p, failed) ==
  \E o \in Outcomes :
    /\ Spend(o) /\ Spoil(p, o)
    /\ dirs' = IF Applies(o) THEN dirs \cup {Dir(p)} ELSE dirs
    /\ Goto(p, IF ShareSucceeds(o) THEN "share" ELSE failed)
    /\ UNCHANGED <<lvm, export, quota, req>>

CreateDirectoryV2(p) == pc[p] = "mkdir" /\ MakeDirectory(p, "mkdirOld")
CreateDirectory(p) == pc[p] = "mkdirOld" /\ MakeDirectory(p, "err")

GetNFSShareInfo(p) ==
  pc[p] = "share" /\ ShareQuery(p, export[Dir(p)] # "none", "quota", "export")

CreateNFSShare(p) ==
  /\ pc[p] = "export"
  /\ \E o \in Outcomes :
       LET accepted == Dir(p) \in dirs /\ export[Dir(p)] = "none"
       IN /\ Spend(o) /\ Spoil(p, o)
          /\ export' = [export EXCEPT ![Dir(p)] = IF Applies(o) /\ accepted THEN "client" ELSE @]
          /\ Goto(p, IF ShareSucceeds(o) THEN "quota" ELSE "err")
  /\ UNCHANGED <<lvm, dirs, quota, req>>

(* setDirectoryQuota: POST sets a quota, PUT, sent when the POST fails,    *)
(* changes one.                                                            *)
QuotaCommand(p, accepted, failed) ==
  \E o \in Outcomes :
    /\ Spend(o) /\ Spoil(p, o)
    /\ quota' = [quota EXCEPT ![Dir(p)] = IF Applies(o) /\ accepted THEN req[p].size ELSE @]
    /\ Goto(p, IF ShareSucceeds(o) THEN "ip" ELSE failed)
    /\ UNCHANGED <<lvm, dirs, export, req>>

(* Mutant: a POST that fails is not followed by a PUT, nor taken for one.  *)
QuotaGivenUp(p) == "ip"

AfterFailedPost(p) == "quotaPut"

PostQuota(p) ==
  pc[p] = "quota" /\ QuotaCommand(p, Dir(p) \in dirs /\ quota[Dir(p)] = 0, AfterFailedPost(p))
PutQuota(p) ==
  pc[p] = "quotaPut" /\ QuotaCommand(p, Dir(p) \in dirs, "err")

(* getClusterAccessIP: fails when neither of its queries is answered. *)
GetClusterAccessIP(p) == pc[p] = "ip" /\ Query(p, "ok")

(* getClusterVirtualIP asserts the type of a list that a refusal lacks. *)
NilAddressList(p) ==
  /\ pc[p] = "ip"
  /\ Spend("refused")
  /\ ProcessEnds(p)
  /\ UNCHANGED <<arrayVars, req, spoilt>>

-----------------------------------------------------------------------------
(* DeleteNFSShare *)

(* Mutant: a share that is gone ends the deletion. *)
DoneWithoutShare(p) == "ok"

AfterNoShare(p) == "ddir"

DGetNFSShareInfo(p) ==
  pc[p] = "dshare" /\ ShareQuery(p, export[Dir(p)] # "none", "rmclients", AfterNoShare(p))

ExportCommand(p, accepted, next, label) ==
  \E o \in Outcomes :
    /\ Spend(o) /\ Spoil(p, o)
    /\ export' = [export EXCEPT ![Dir(p)] = IF Applies(o) /\ accepted THEN next ELSE @]
    /\ Goto(p, IF ShareSucceeds(o) THEN label ELSE "err")
    /\ UNCHANGED <<lvm, dirs, quota, req>>

(* Mutant: the directory is deleted before the share. *)
DirectoryFirst(p) == "ddir"

AfterClients(p) == "unexport"

(* removeClientList, then deleteNFSShare. *)
RemoveClientList(p) ==
  pc[p] = "rmclients" /\ ExportCommand(p, export[Dir(p)] # "none", "closed", AfterClients(p))
DeleteNFSShare(p) ==
  pc[p] = "unexport" /\ ExportCommand(p, export[Dir(p)] # "none", "none", "ddir")

DGetDirectoryDetail(p) ==
  pc[p] = "ddir" /\ ShareQuery(p, Dir(p) \in dirs, "rmdir", "ok")

(* The quota goes with the directory. *)
DeleteDirectory(p) ==
  /\ pc[p] = "rmdir"
  /\ \E o \in Outcomes :
       /\ Spend(o) /\ Spoil(p, o)
       /\ dirs' = IF Applies(o) THEN dirs \ {Dir(p)} ELSE dirs
       /\ quota' = [quota EXCEPT ![Dir(p)] = IF Applies(o) THEN 0 ELSE @]
       /\ Goto(p, IF ShareSucceeds(o) THEN "ok" ELSE "err")
  /\ UNCHANGED <<lvm, export, req>>

-----------------------------------------------------------------------------
BlockStep(p) ==
  \/ QueryPoolTypeByName(p) \/ QueryLvm(p) \/ CreateVolume(p)
  \/ DQueryLvm(p) \/ DeleteVolume(p) \/ ExtendLvm(p)

ShareStep(p) ==
  \/ GetBaseDirectory(p) \/ GetDirectoryDetail(p) \/ GetDirectoryWithoutBase(p)
  \/ GetPoolDetail(p)
  \/ CreateDirectoryV2(p) \/ CreateDirectory(p) \/ GetNFSShareInfo(p)
  \/ CreateNFSShare(p) \/ PostQuota(p) \/ PutQuota(p) \/ GetClusterAccessIP(p)
  \/ DGetNFSShareInfo(p) \/ RemoveClientList(p) \/ DeleteNFSShare(p)
  \/ DGetDirectoryDetail(p) \/ DeleteDirectory(p)

Panic(p) == NilBaseDirectory(p) \/ NilAddressList(p)

Step(p) == BlockStep(p) \/ ShareStep(p) \/ Panic(p)

Rest ==
  /\ calls = MaxCalls
  /\ \A p \in Procs : pc[p] = "idle"
  /\ UNCHANGED vars

Next ==
  \/ \E p \in Procs : Call(p) \/ Retry(p) \/ Done(p) \/ Kill(p) \/ Step(p)
  \/ Rest

(* A handler runs on and its caller asks again until it is answered. *)
Fairness == \A p \in Procs : WF_vars(Step(p)) /\ WF_vars(Retry(p)) /\ WF_vars(Done(p))
Spec == Init /\ [][Next]_vars /\ Fairness

-----------------------------------------------------------------------------
(* Properties.  Those about a share leave out one for which the array      *)
(* refused a command, read as success, or a deletion read a refused query  *)
(* as not there.  What a creation reads so does no harm: it makes again    *)
(* what is there.                                                          *)

Sound(r) ==
  CASE r.name \in Blocks /\ r.op # "delete" -> lvm[r.name] >= r.size
    [] r.name \in Blocks /\ r.op = "delete" -> lvm[r.name] = 0
    [] r.name \in Shares /\ r.op = "create" ->
         LET d == DirName(r.name)
         IN d \in spoilt \/ (d \in dirs /\ export[d] = "client" /\ quota[d] = r.size)
    [] r.name \in Shares /\ r.op = "delete" ->
         LET d == DirName(r.name)
         IN d \in spoilt \/ (d \notin dirs /\ export[d] = "none")

(* A request that is answered with success left what it asked for: a       *)
(* volume of the size, a directory with its quota exported to the client,  *)
(* or nothing at all, whatever failed, was refused or repeated on the way, *)
(* and however an earlier handler of the same request overlaps             *)
(* (CreateVolume, DeleteVolume, ExtendVolume).                             *)
AnswerSound == \A p \in Procs : pc[p] = "ok" => Sound(req[p])

(* No client is ever served from a directory that is not there, nor does a *)
(* directory go while it is exported: CreateNFSShare and DeleteNFSShare    *)
(* keep the order on every path, also on a retry that starts half way.     *)
NoDanglingExport ==
  \A d \in Dirs \ spoilt : export[d] # "none" => d \in dirs

(* When no request for a share is in flight, it is whole or gone: nothing  *)
(* of a creation or a deletion that failed half way is left to be used     *)
(* without its quota, or to fill the pool (CreateNFSShare, DeleteNFSShare).*)
WholeOrGone ==
  \A s \in Shares :
    LET d == DirName(s)
    IN InFlight(s) = {} /\ d \notin spoilt
         => \/ d \in dirs /\ export[d] = "client" /\ quota[d] # 0
            \/ d \notin dirs /\ export[d] = "none" /\ quota[d] = 0

(* Once faults stop, asking again gets every creation and deletion         *)
(* through: what was made without an answer is found, not made again.      *)
VolumesServed ==
  \A p \in Procs :
    pc[p] # "idle" /\ req[p].op # "extend" ~> pc[p] = "ok"
=============================================================================
