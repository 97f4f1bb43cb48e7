# A specification of the InStorage driver for Kubernetes

The driver (`src/pkg`) makes volumes of an Inspur InStorage (AS18000) or AS13000
array available to pods. The same controller code runs in three programs: a CSI
plugin (a gRPC server on every node and in a controller pod), a flexvolume
executable (one process per call of kubelet) and an external provisioner. This
directory holds TLA+ modules for the parts of it where the order of steps
matters, instances of them for TLC, and proofs for TLAPS.

## 1. The system

| Component | State it keeps | Operations | Correct when |
|---|---|---|---|
| InStorage attach/detach (`storage/instorage/storage.go` 966-1380) | host objects with their ports and the maps of volumes, on the array; nothing in memory | AttachVolume, DetachVolume, GetVolumeAttachInfo: chains of up to a dozen CLI commands | success means mapped (unmapped); no request takes the map of another; retries get through; no host object without ports or without volumes stays |
| InStorage volumes, clones, snapshots (245-583) | vdisks and local copy maps, on the array | CreateVolume, CloneVolume, DeleteVolume, CreateSnapshot, DeleteSnapshot | what was answered as created stays until asked away; what was answered as deleted is gone; deletions get through |
| InStorage extension (679-949, `controller.go` 332-401) | sizes and relationship of an active-active volume's four vdisks, the barrier file, the frozen file system | ExtendVolume, NodeExpandVolume | success means everything grew; a half done extension is barred; file systems are thawed |
| Block volumes on the node (`controller.go` 111-330, `host/*.go`) | SCSI devices, the iSCSI session and its record, multipath, mounts | Attach, Detach, MountDevice, UnMountDevice | a mounted volume stays reachable; no volume with a file system is formatted; an unpublish removes its own map only |
| InStorage listing (364-435, 585-634) | none | ListVolume, ListSnapshots with tokens, GetCapacity | every volume on exactly one page |
| CLI wrapper, parser (`wrapper.go`, `parser.go`) | none | one function per command; answers parsed to rows | an empty answer is no object |
| SSH executor (`ssh/ssh.go`) | one client shared by all handlers | Execute: up to three chances for a session | a broken connection is replaced, a command is run at most once |
| AS13000 attach/detach (`storage/as13000/storage.go` 57-355) | iSCSI targets, LUNs on them and the initiators they are bound to, on the array | AttachVolume (GetTargetForVolume, mapVolumeToTarget), DetachVolume | like InStorage; moreover no LUN is left open to every node (but where two nodes' detaches cross), and targets come and go with their LUNs |
| AS13000 block volumes (375-576) | volumes of a pool, on the array | CreateBlockVolume, DeleteBlockVolume, ExtendVolume | an answer is true; a retry gets through |
| AS13000 NFS shares (684-830) | directories, shares with their clients, quotas, on the array | CreateNFSShare, DeleteNFSShare | nothing is exported without its directory; a share is whole or gone; a retry finishes what was begun |
| AS13000 REST client (`restApi`) | two tokens shared by all handlers | request, with a new login and a second sending when a token expired | a request is run at most once; an expired token does not fail it |
| Controller (`controller/controller.go`) | none | dispatches to storage and host | composition of the above |
| CSI servers (`csiplugin`) | none | validation, conversion, calls of the controller | sizes, idempotence |
| Flexvolume (`cmd/flexvolume`), provisioner (`cmd/provisioner`) | none; the provisioner has a lock | calls of the controller | as above |
| Utilities (`utils`) | configuration; a file lock | FIFreeze, FIThaw, cipher, exec | - |

**How they interact.** kubelet and the CSI sidecars call a program; it calls the
controller, which calls the host package (commands of the node) and a storage
driver (commands of the array over SSH, or REST). All lasting state is on the
array or in the node's kernel. Nothing is remembered between two calls.

**What is hard about it.** gRPC handlers run concurrently, several nodes and the
controller pod act on one array, and there is no lock: `utils/flock.go` has one,
and the documents name its path as a setting, but no code takes it. Each
operation is a chain of commands; each acts on what an earlier query returned.
A command may not arrive, its answer may be lost, the process may die; clean-up
is best effort. The callers send a failed request again, and one that timed out
perhaps while its handler still runs. Nothing keeps two nodes that use one volume
apart: `ControllerPublishVolume` does nothing (`csiplugin/controller.go:112`), so the
requests come from two kubelets. A query the array rejects has an empty
answer, which reads as "no such object" (`wrapper.go:59`, `ssh.go:97`), and so has a
refused one over REST for a share (`restApi.go:199`). A nil pointer or an empty list
taken for one with a first element ends the process with every handler it runs.
The `hazards` of `PROJECT.json` list where each of these bites.

## 2. Modules and code

In every module a handler `p` has a program counter `pc[p]` that names its next
command. An action is one command with everything the code does up to the next
one. The clients are actions too: `Call` (a new request), `Retry` (a failed one
again), `Done` (answered, or given up), `Kill` (the process dies; the request is
failed). `Outcomes` are those of a command that changes something: done,
refused by the array or not sent, done with its answer lost; `Replies` those of
a query. `calls` and `faults` count against `MaxCalls` and `MaxFaults`. Variables
marked "history" record what a property needs and are read by no command.

**InStorageArray** - host objects, ports, maps; for each command `XAccepted` (what
the array refuses) and `XApply`. The array is the only external part: what it
refuses is taken from how `wrapper.go` and `storage.go` handle its errors.

**InStorageAttach** extends it with the handlers: `LsFabric`, `LsHosts`, `LsHost`,
`LsHostByName` are `getHostWithHostInfo`; `MkHost`, `AddHostPort`,
`UndoCreateHost` are `createHost`; `GetLunID`, `MkVdiskHostMap`, `GetLunIDAgain`,
`BuildConnProperty` the rest of `AttachVolume`; `LsVdiskHostMap`,
`RmVdiskHostMap`, `LsHostVdiskMap`, `DeleteHost` the rest of `DetachVolume`. A
handler's copies of `hostName` and of the rows it goes through are `host`,
`todo`, `cand`.

The theorems about a module are in a module of their own, its name followed by
`_proofs` (section 5).

**InStorageCopies** - vdisks and local copy maps (status, start time) with their
commands and what the array does on its own (`Stopped`, `CopyDone`).
**InStorageVolumes** - the five operations on them. The three clean-up blocks of
`CreateSnapshot`, which differ, are one action `Undo` that works off the list of
clean-up commands the failing step left.

**InStorageExtend** - one extension from `NodeExpandVolume` to `ExtendFS`.
`AttachInfo` and `NeedFreezeFSWhenExtend` are the queries before the first command:
the one may be read as "not attached", which is answered with success, the other
decides about the freeze, by the options of flexvolume or by the number of rows of
`lsvdisk`. The nine tasks of an active-active volume are `Task`, indexed by `step`;
`MkBarrier` writes the barrier file, `Operator` is the person who follows its text.
`GetDiskFormat` may find no file system, which is answered with success too.
`ProcessEnds` is the end of a process, by a kill or by the panic of `ExtendDisk`, alone
(flexvolume) or with all handlers (CSI). What went wrong that the code cannot tell,
or ignores, is in the history `harmed`.

**NodeVolume** - `MountDevice` and `UnMountDevice` on one node. A device is known
by its LUN: `Behind(l)` is the volume the array shows under it now. What
`AttachVolume` and `DetachVolume` of the storage do is a single step here, since
InStorageAttach has their commands; a query in them that the array rejects is the
reply "blank", which ends an unpublish with success and the map left. The history
`blind` has the handlers that met one. `link` is the setting `host.link`.

**VolumeAccess** - the promise of `AttachVolume` and `DetachVolume` of
`IStorageOperater` (`storage/storage.go`), whatever array is behind them: the
pairs of a volume and a node that may use it, and requests, each of which takes
effect at one moment between its arrival and its answer. A process that ends lets
its requests start again (`Restart`). **InStorageAccess**
maps the state of InStorageAttach to it (a node has access to what is mapped to
its host object); AS13000Targets maps its own (a node has access to a LUN its
initiator is bound to). A request is "met" from the command on that saw or made
what it asks for.

**AS13000Targets** - `QueryTarget`, `QueryVolumeMapping`, `CreateTarget`,
`QueryTargetByName`, `AddHost` are `GetTargetForVolume` (its arithmetic on numbers
of targets and LUNs is `Choice`, `NewSuffix`, `Fewer`); `GetLunMappingID`,
`CreateVolumeMapping`, `GetLunMappingIDAgain` are `mapVolumeToTarget`; `BindLunIQN`
and `GetPortal` end an attach. `DQueryTarget`, `DQueryVolumeMapping` are
`getVolumeMappingByVolumeName`; `DQueryTargetByName`, `UnBindLunIQN`,
`DeleteVolumeMapping`, `QueryLeft`, `DeleteTarget` the rest of `DetachVolume`. A
handler's local variables are the record `loc[p]`. Requests name a LUN by target
and number, so an action may hit another volume than the handler means: what it
hits is `VolumeAt`. A target that is asked for by its name and is not there is a nil
pointer, of which the process dies (`ProcessEnds`). `Shared` has the volumes for
several nodes: each node may have a request of them in flight. The history keeps
those that had two at once (`paired`), those of them where one was a detach
(`crossed`), and the targets in hand of such handlers (`strays`).

**AS13000Volumes** - block volumes (`BlockStep`) and shares (`ShareStep`), one action
per request. `BlockSucceeds` and `ShareSucceeds` keep that only the calls for block
volumes read the code of an answer; `ShareQuery` reads a refusal as a directory or a
share that is not there. `NilBaseDirectory` and `NilAddressList` are the panics of
`wrapper.go` 945 and 1060; the process ends with handlers it runs beside.
`DirName` is `generateNFSShareName`.

**RemoteCall** - what a driver expects of `Execute` and of the REST methods: at most
one execution per call, exactly one if it succeeds. **SshExecutor** is `Execute`
and `getSession`, cut where handlers can meet at the shared client: `CheckClient`
(the test for nil), `Dial`, `StoreClient`, `NewSession` (with the nil dereference),
`ResetClient`, `RunCommand`. **RestClient** is `request`: `Send` reads the tokens,
`Serve` is the array's answer, `InitSystemToken` and `InitDeviceToken` the renewal.
**Transport** is `NewController`'s choice between the two, and relates both to
RemoteCall. The other modules rely on it when a command of theirs is one step
that takes effect once or not at all.

**InStorageListing** - `ListPage` is `ListVolume` or `ListSnapshots`: a page cut from the
rows of one query at the token, while `Create` and `Delete` change the rows.

The `MC*` modules only add model values and symmetry sets.

## 3. Runs

| Run | Instance | Checks |
|---|---|---|
| attach_faults | 2 nodes with 2 and 1 FC ports, an administrator's host object with the second port, 2 volumes, 2 handlers, 3 requests, 2 faults, rejected queries | `TypeOK`, `AttachSound`, `QuiescentHosts`, `Isolation` |
| attach_retry | 1 iSCSI node, 2 volumes, 2 handlers, 3 requests, 1 fault | `DetachSound`, liveness `RequestsSucceed`, refinement `KeepsPromise` |
| volume_promises | 2 volumes, 1 snapshot, 2 maps, 2 handlers, 4 requests, 1 fault | `TypeOK`, `PromiseKept`, `VolumesStayGone` |
| snapshot_deletes | 1 volume, 1 snapshot, 1 map, 2 handlers, 4 requests, 2 faults | liveness `DeletesSucceed` |
| extend | an active-active and a basic volume in the same pools, 2 handlers, 2 requests, 2 faults | `TypeOK`, `ExtendSound`, `NeverTooLarge`, `BrokenIsBarred`, `QuietDuringTasks`, `Thawed`, liveness `ExtendsServed` |
| node_publish | FC or iSCSI, 2 volumes, 2 LUNs, 2 handlers, 3 requests, 2 faults | `TypeOK`, `MountedReachable`, `NeverWiped`, `UnpublishSound`, liveness `PublishServed` |
| as_targets | 2 nodes, 3 volumes of which one is shared by both, targets of 2 LUNs, 2 handlers, 3 requests, 1 fault | `TypeOK`, `NoLunForAll`, `QuiescentTargets`, refinement `TargetsKeepPromise`, liveness `TargetRequestsSucceed` |
| as_volumes | 1 block volume, 2 shares with and without the prefix, 2 handlers, 3 requests, 2 faults | `TypeOK`, `AnswerSound`, `NoDanglingExport`, `WholeOrGone`, liveness `VolumesServed` |
| transport | either type of storage, 2 handlers, 3 calls, 2 faults | `TypeOK`, `FaultsExplainFailure`, `ConnectionsBounded`, refinement `AtMostOnce`, liveness `CallsServed` |
| listing | volumes or snapshots, 3 names, 4 numbers, pages of 1, 2 and 3, 3 changes, 1 fault | `ListedOnce`, liveness `ListingEnds` |
| delete_race, iscsi_logout | the smallest instance that shows it | one property each, which the code violates (section 6) |

**Bounds.** `MaxCalls` bounds new requests; retries are free, so chains of failure
and retry are as long as the faults allow. Three requests are enough for every
pair of operations to overlap with a third one before or after them (attach,
then detach beside a second attach); two handlers give every pairwise race, and
the theorems of section 5 cover more of them. Two faults allow a failure in the
clean-up of a failure. `MaxPolls` (20 in the code) is 2: the first poll, those
between, and the last one differ, those between do not among themselves.
`MaxTries` (scans on FC) is 2: the last and another one. Two volumes
and a snapshot with two maps are enough for a copy that has a copy, for a clone and
a snapshot of one source beside its deletion, and for the array to give the id of a
finished clone's map again while its handler still holds it.
`Asks`, `Room` (7) and `GB` (2) of the extension are chosen so that both volumes fit
alone and do not fit together, and that one request is not a whole number of gigabytes.
Sizes are small numbers; the program's are int64 and do not get near their limit. The properties also held
in larger instances that take too long to be kept: five requests and three
faults for `NodeVolume` under symmetry; three faults, and without liveness three
handlers, for `Transport`; two sizes of the active-active volume for
`InStorageExtend`; and, without liveness, four requests for `AS13000Targets`, with which
a volume is attached to two nodes and detached from both. A target has room for two
LUNs and the optimum is one target, so that the third volume finds the first target
full. `PageLimit` (64 in the code) is 2, below the number of names. `Length` of a share's name (32) is 2,
so that a name is cut. Symmetry is used in runs without
liveness only. No run turns the check for deadlock off: `Rest` is the
stuttering of a system in which every request was made and answered.

**Fairness.** Weak fairness of `Step(p)`: a goroutine runs on, commands over SSH
return or fail. The same holds of a REST request, and of the pages a caller asks
for (`ListPage`). Weak fairness of `Retry(p)` and `Done(p)`: kubelet and the sidecars
ask again until they are answered, with back-off but without giving up. Strong
fairness of `Retry(p)` where a retry waits until another request for the same
volume has ended (InStorageVolumes, InStorageExtend): each caller's queue comes to
each of its volumes in the end. Weak fairness of `Array` (copies stop and finish)
and of `Operator`. None of `Call`, `Kill` and the faults: these may stop at any
time, and do within their bound.

## 4. What the properties say

- `AttachSound`, `DetachSound`: success of a request means what it says, unless the
  opposite request for the same volume and node took effect meanwhile (`raced`).
- `Isolation`: a map goes only while its own detach executes `rmvdiskhostmap`,
  however old the host name in a handler's hands is; neither `rmhost` nor a
  clean-up does it.
- `QuiescentHosts`: without faults and at rest, a host object has all ports and a volume.
- `RequestsSucceed`, `DeletesSucceed`, `ExtendsServed`, `PublishServed`,
  `TargetRequestsSucceed`, `VolumesServed`, `CallsServed`: no half done attempt
  refuses its retries for ever. `TargetRequestsSucceed` leaves out requests for a
  `crossed` volume: an attach and a detach on two nodes can undo each other for ever.
- `KeepsPromise`, `TargetsKeepPromise`: both drivers implement `VolumeAccess`; access
  changes only as a request in flight asks, and success was true at one moment
  of the request. `TargetsKeepPromise` lets off a volume from the moment a detach of it
  has overlapped another request (`crossed`).
- `NoLunForAll`, `QuiescentTargets`: what an AS13000 attach makes in four requests, and a
  detach takes away in three, is not left half made. Left out are `crossed` volumes,
  which may be (section 6), and targets in the hands of two requests for
  one volume (`strays`): two nodes that attach it at once may create a target each.
- `SourcesStay`, `LogoutWhenEmpty`: what the code's own words promise, and the code does
  not keep (section 6).
- `AnswerSound`, `NoDanglingExport`, `WholeOrGone`: the same of volumes and shares, with
  handlers of one request overlapping and retries that start half way.
- `AtMostOnce`: both transports implement `RemoteCall`. `FaultsExplainFailure`: the three
  chances (with at most two handlers), and the one renewal of the tokens (with any
  number), suffice for what broke before the call. `ConnectionsBounded`: connections
  are never closed, yet there are no more than the handlers, and as many again for
  each reset; no reset happens without a fault.
- `ListedOnce`, `ListingEnds`: pages of a list that changes meanwhile.
- `PromiseKept`, `VolumesStayGone`: the answers of the volume
  operations stay true while other handlers work, copies of a volume are made beside its
  deletion among them. Left out (`spoilt`) are names whose own clean-up was cut short,
  and names whose map another handler has hit: with the source, when the map was made
  after the check for maps (`late`), or by a map id given again (`Hit`).
- `ExtendSound`, `NeverTooLarge`, `BrokenIsBarred`, `QuietDuringTasks`, `Thawed`: the
  non-atomic extension of an active-active volume. Success that extended nothing is let
  off for a rejected query about the attachment ("attach") and, for the file system
  alone, for a refused rescan or a `blkid` that finds none; tasks without a freeze for
  a rejected query, a failed `FIFreeze` ("freeze"), and the operator's repair between
  the query and the tasks ("repair"). Each of these counts in the attempt it happened
  in only; no other fault, and no other handler, leads there. After an attempt that was
  killed between its tasks ("tasks") nothing is said of that volume.
- `MountedReachable`, `NeverWiped`, `UnpublishSound`: handlers on a node that share the
  bus, the session and LUN numbers do not harm each other's volumes. An unpublish
  leaves its map only when a query of this attempt was rejected (`blind`).

Their exceptions are stated in the comments of the properties and are themselves
behaviours of the code (section 6).

## 5. Proofs

Each theorem holds for every set of nodes, volumes, ports, names and handlers, and
for every bound on requests and faults, under the named assumptions of the modules
and the premises given here. A proof module `X_proofs` extends module `X`.

| Module | Theorem | States | Premise |
|---|---|---|---|
| InStorageAttach_proofs | `TypeCorrect` | `[]TypeOK` | |
| | `AttachIsSound` | `[]AttachSound` | |
| | `MapsAreIsolated` | `Isolation` | |
| | `DetachIsSound` | `[]DetachSound` | `AdminHosts = {}`, no blank replies |
| | `PromiseIsKept` | `KeepsPromise` (refinement) | `AdminHosts = {}`, no blank replies |
| | `HostsComeAndGo` | `[]QuiescentHosts` | |
| | `AttemptsEnd` | attempts are finite | |
| InStorageVolumes_proofs | `TypeCorrect` | `[]TypeOK` | |
| | `PromisesAreKept` | `[]PromiseKept` | `SingleFlight`: one request per name |
| | `DeletedStaysGone` | `[]VolumesStayGone` | `SingleFlight`: one request per name |
| | `AttemptsEnd` | attempts are finite: `10 + MaxPolls` commands | |
| InStorageExtend_proofs | `TypeCorrect` | `[]TypeOK` | |
| | `ExtensionsAreSound` | `[]ExtendSound` | |
| | `VolumesStayInBounds` | `[]NeverTooLarge` | |
| | `BrokenVolumesAreBarred` | `[]BrokenIsBarred` | |
| | `TasksRunQuietly` | `[]QuietDuringTasks` | |
| | `FileSystemsAreThawed` | `[]Thawed` | |
| | `AttemptsEnd` | attempts are finite: 21 steps | |
| NodeVolume_proofs | `TypeCorrect` | `[]TypeOK` | |
| | `MountsReachTheirVolume` | `[]MountedReachable` | |
| | `NoVolumeWiped` | `[]NeverWiped` | |
| | `UnpublishIsSound` | `[]UnpublishSound` | |
| | `OneHandlerIsSafe` | `[]NothingHarmed /\ LogoutWhenEmpty` | `[]OneAtATime` |
| | `AttemptsEnd` | attempts are finite: `8 + 2 * MaxTries` steps | |
| AS13000Targets_proofs | `TypeCorrect` | `[]TypeOK` | |
| | `NoLunIsLeftOpen` | `[]NoLunForAll` | |
| | `TargetsComeAndGo` | `[]QuiescentTargets` | |
| | `TargetsPromiseIsKept` | `TargetsKeepPromise` (refinement) | |
| | `AttemptsEnd` | attempts are finite | |
| AS13000Volumes_proofs | `TypeCorrect` | `[]TypeOK` | |
| | `AnswersAreSound` | `[]AnswerSound` | |
| | `NoExportDangles` | `[]NoDanglingExport` | |
| | `SharesWholeOrGone` | `[]WholeOrGone` | |
| | `AttemptsEnd` | attempts are finite: 10 requests | |
| Transport_proofs | `TypeCorrect` | `[]TypeOK` | |
| | `RunsAtMostOnce` | `AtMostOnce` (refinement) | |
| | `FailuresExplained` | `[]FaultsExplainFailure` | |
| | `ConnectionsStayBounded` | `[]ConnectionsBounded` | |
| InStorageListing_proofs | `EveryVolumeListedOnce` | `[]ListedOnce` | |
| | `PagesAdvance` | `Advances`: a token only moves on | |

**Premises and assumptions.** `DetachIsSound` and `PromiseIsKept` need both of theirs:
a detach by name does not see a volume mapped to an administrator's host object
(section 6), and a rejected query reads as "not mapped". `SingleFlight` says that
one request per name is in flight: the provisioner and the snapshotter work off a
queue keyed by the name. Requests for different names that share a source, or where
one's source is the other's name, run side by side. The theorems about AS13000Targets
have no premise: what overlapping requests of two nodes do is in the properties'
own exceptions. `OneAtATime` is what a lock around
`MountDevice` and `UnMountDevice` would give; the code has none, and `iscsi_logout`
(section 6) is what happens without it. The ASSUMEs say what the constants
are, and beyond types: ports of different nodes differ, and a node lists no port
twice (they are WWPNs or initiator names); an iSCSI node has one initiator; an
administrator's host object has ports of one node; the sets of nodes, volumes,
names, map ids, an administrator's host objects and SSH handlers that are counted, or whose largest number is taken,
are finite; all creations of an AS13000 volume ask for one size (a claim has one);
the directory names of two shares differ; the volumes that InStorageExtend starts with
fit in their pools.

**How the proofs go.** No property is inductive as it stands. Each module first
proves its types, then an invariant `Inv` from which the properties follow. With
many handlers most of a step is that it leaves the others alone, so the larger
modules state once what a handler's step may do (`Effect`: the frame, and what it
makes of its own volume), prove one lemma per command that the command has this
effect, and one that the effect keeps the invariant of everyone else.

- *InStorageAttach.* `Inv`, in the module itself: `PortsInv` (a host object's ports are
  ports of its node, so finding a host by a port finds the right node), `MapsInv`
  (no map without a host object), `TodoInv` (a handler goes through ports of its own
  node), `HostInv` (the host object in a handler's hands stands for the node of its
  request; this makes a stale name harmless: a host object made anew under
  the same name is the same node's), `OpInv` (an attach never enters the detach's
  commands) and `AttachInv` (from the moment an attach saw or made its map, the map
  stays until a detach of the same takes it, which sets `raced`). `Isolation` follows
  from `HostInv` and `OpInv` for `rmvdiskhostmap`, and from the array's refusal to
  remove a host object with maps for `rmhost`. `DetachInv` is the counterpart for a
  detach; it needs that a node's only host object is the one with its name, and so
  does the refinement, where `AccessIsMaps` reads the access of a node off its maps.
  `QuiescentHosts` rests on `HostsInv`: while nothing failed, an attach that is
  about to make a host object has seen that no administrator's one has a port of its
  node (`ClearOK`), what it has still to add are the last ports of its node
  (`SuffixOK`), behind each port that is there and whose successor is missing is a
  handler about to add that one (`PortOK`; with the least missing port this leaves
  none missing at rest), and a host object without a volume has somebody who maps
  one to it or removes it (`UsedOK`).
- *InStorageVolumes.* The types need that a map's volumes exist (`MapEnds`), that polls
  are counted (`PollOK`) and which lists of clean-up commands there are (`UndoOK`).
  `Inv`: running requests have different names (`Flight`), nothing asked for is
  promised (`AskedOK`), a volume has one map that fills it (`MapsOK`), a snapshot's map
  that stopped, or is missing, has a reason (`StopOK`, `BareOK`), and a handler's own
  map is as it left it unless its name is spoilt (`OwnMapOK`). `MakingOK` carries the race
  with a source's deletion: from the check for maps on, only late maps are made from the
  volume, so that what `rmvdisk -force` takes along is what the history knows. The
  array's own steps, copies that end, are a lemma of their own (`ArrayStepInv`).
- *InStorageExtend.* One request per volume is at work (`OneRequest`); `TaskState` says
  for each of the nine tasks which parts have the new size and which links are cut,
  so that the tasks' order, and what the barrier protects, is in the invariant;
  `FreezeOK`, `SizeOK`, `AnswerOK` carry what was frozen and read. `FreezeOK` has that
  a query of fewer than four rows, which means no freeze, is about a volume that is
  broken (and then barred), or has been put right since. `CrashInv` and `EndsInv` are
  the end of a process with any set of its handlers. The bounds in `TypeOK`
  rest on `RoomInv`: no master, nor a device, a file system or a size that a handler has
  read, is above `Room`. An expansion is accepted when the sum of its pool leaves room
  for the addition, and that sum is at least each of its parts (`UsedBound`,
  `ExpandStays`). The sum is a fold over a set, of which nothing can be proved by the
  library's induction theorems; the lemmas `LeastMissing` to `UsedBound` go by the
  least number that is a counterexample, which `NatLessThanWellFounded` gives.
- *NodeVolume.* `LabelOK` (a step belongs to its request), `HandlerOK` (who takes a map or
  a device away works on its own volume, which is not mounted; who mounts has its
  LUN), `FcOK` (on FC a device once found stays until its own unpublish). `AloneInv` is
  what `OneHandlerIsSafe` needs instead of `FcOK`: a device that the one handler has
  found, or a pod uses, is there, and a handler that goes to log out has no device left.
- *AS13000Targets.* The type invariant has that targets' numbers are bounded, which is
  what makes `NewSuffix` defined. `Apart` says that two requests for a volume in
  flight are known to be (`paired`, and `crossed` with a detach), `HandsKnown` that so
  are the targets they have in hand. `Distinct` (no two volumes are one LUN) with
  `HandlerOK` (the target and number in hand are those of the handler's LUN) makes
  requests that name a LUN by its number safe. `HandlerOK` is kept for handlers of
  volumes that are not crossed: `Effect` says what such a step does (`CleanInv`), and a
  step of another is known to hit only volumes that are crossed from then on
  (`CrossedInv`). `TargetOK` says who is about to fill, open or remove an empty target.
  `Dies` and `EndsInv` are the nil target: the handlers that die with it keep none that
  is still there, unless something failed before. `MeetsOK` and `Serves` of `Effect`
  are what the refinement takes.
- *AS13000Volumes.* `EndsFacts` is the end of a process with any of its handlers.
  `FlightInv` (handlers in flight for one name serve the same request:
  one may be a retry of the other), `ShareOK` and `HandlerOK` (what a creation has made,
  and a deletion has removed, whoever did it), `CreateEffect` and `DeleteEffect`.
- *Transport.* `RanInv` (a command runs on a call's last step only) gives the
  refinement. `ChanceInv` bounds the chances a quiet call has lost by the dead client
  and the dead connection another handler may yet store; `TokenInv` says the tokens a
  handler renewed stay good. `ConnInv` counts those who may yet dial (`Able`).
- *InStorageListing.* `CallerInv`: what was there all the time is listed if and only if
  its number is below the token; `RowsInv`: no number is given twice.
- *`AttemptsEnd`.* A table gives each label the steps an attempt has left, counting the
  scans, polls or clean-up commands still to come; `StepShrinks` says that a step
  lowers this number and leaves it to the others. Where a loop goes through a list
  that the array answered, the number is a pair, a stage and the list (`Nearer`),
  and `FiniteInv` says that lists are finite. None of these theorems has a premise on
  what runs beside: no interleaving makes a handler go round.

**Only model-checked.** The liveness properties `RequestsSucceed`, `DeletesSucceed`,
`ExtendsServed`, `PublishServed`, `TargetRequestsSucceed`, `VolumesServed`, `CallsServed`
and `ListingEnds`: their proof needs fairness and ENABLED, which the provers do not
handle. `AttemptsEnd` and `PagesAdvance` are the part of them that is safety: an
attempt, or a listing, cannot go on for ever. That its steps are taken, and that of
its attempts one succeeds, is checked on the runs. The two runs of section 6 are
violations.

## 6. Where the code and its words disagree

Kept as runs that show the violation:

- *delete_race*: `DeleteVolume` looks for copy maps, then removes with `-force`; a
  snapshot made ready in between is destroyed.
- *iscsi_logout*: devices are counted, then the session is logged out; a volume scanned
  in between loses its device.

Met while modelling, without a run of their own:

- The controller's detach has only the node's name; a volume mapped to a host object an
  administrator made (found by its ports when attaching) is "not attached"
  (`storage.go:1358`) and stays mapped. attach_retry has no such host objects.
- No copy map means "snapshot does not exist" (`storage.go:544`); after a failure the
  vdisk of a half made or half deleted snapshot stays for ever.
- `NodeExpandVolume` rounds the bytes asked for down to gigabytes, where `CreateVolume`
  rounds up, and answers the bytes asked for as the capacity.
- `Detach` removes the device before the map ("from both host and storage",
  `controller.go:292`); a scan in between brings it back, and it stays.
- AS13000: `DetachVolume` decides by the list of initiators it read at the start. Detaches
  on two nodes that overlap both read two, both unbind their own, and neither removes
  the LUN (`storage.go:290`); both are answered with success, and the LUN stays mapped and
  open to every node, though a detach is to "also detach the device from host and
  storage" (`controller.go:256`). TLC finds it with two nodes and four requests when
  `NoLunForAll` is stated of `crossed` volumes too. Nothing prevents it: the driver offers
  volumes for several nodes (`MULTI_NODE_SINGLE_WRITER`, `csiplugin/driver.go:35`), and
  their kubelets ask independently. For the same reason a detach that read a LUN
  as unbound ("ALL"), or as bound to its node alone, removes it with force after another node's attach has bound it, and an
  attach and a detach on two nodes can undo each other for ever. Two nodes' first
  attaches of a volume may create two targets, of which one stays empty.
- AS13000: a target that is looked up by its name and was deleted meanwhile is a nil pointer
  (`storage.go` 174, 269, 636): the process ends, the CSI plugin with all its handlers.
- AS13000: a refused query for a directory or a share has HTTP status 200 and reads as
  not there (`restApi.go:199`, `wrapper.go` 864 and 1132). A deletion then answers
  success with the directory left; a creation makes again what is there. A base
  directory that is not found, and a pool without addresses, end the process
  (`wrapper.go` 945 and 1060).
- AS13000: `ControllerUnpublishVolume` has no initiator, so `DetachVolume` answers
  success and leaves a LUN that is bound (`Promised` leaves such requests out).
- AS13000: a target whose `addHost` failed stays, admits no host, and later attaches choose
  it. At `max_target_num` targets an attach fails though targets have room.
- AS13000: a refusal with HTTP status 200 is no error to the calls for shares; a share
  whose quota was refused is answered as created. `spoilt` leaves these out.
- A handler that resets the SSH client makes another one dereference nil between its
  test and its use: the plugin ends. With three handlers a command can fail
  without any fault of its own call, as every other handler can leave it a dead
  connection. Connections that are replaced or reset are not closed.
- `ListSnapshots` without a limit takes `min(64, 0)` entries: an empty page whose token is
  the first row, for ever; the interface says of the zero value "there is no
  restriction on the number of entries" (`csi.pb.go:3081`). The model's callers
  give a limit.
- `as13000` does not fit `restApi` and `IStorageOperater` at this commit (`resp.Body` of a
  `*[]byte`, other signatures); it is modelled by what its code says.
- The device a logout took away looks unformatted (`blkid` exits 2 for a device that is
  not there); when a login brings it back before `mkfs`, a volume with a file
  system is formatted. Found with 4 requests and 1 fault on iSCSI; `NeverWiped` is
  therefore stated for FC.
- On iSCSI a login while the session exists is refused, and the refusal deletes the
  record of the target; publishing may then fail for ever. `PublishServed` is
  stated for FC.
- Two attaches on an FC node with two ports and no host object can undo each other's
  `createHost` again and again; `RequestsSucceed` is checked with one port.
- Unpublish is not retryable after its `umount`: the next attempt finds no mount point
  (`controller.go:262`) and fails, with device and map left.
- An unpublish whose query for the host object or the map is rejected answers success with
  the map left: no rows read as not attached (`wrapper.go:59`, `controller.go:193-196`,
  `storage.go:1358`). Nothing asks for that map again.
- An extension answers success with nothing extended when the query about the attachment
  is rejected (`controller.go:345-348`), and with the file system as it was when the
  rescan is refused or `blkid` finds none (`host.go:84-86`). When no device is found, on
  iSCSI without multipath, the first of none is taken (`iscsi.go:260`): a panic.
- Whether an active-active volume is frozen is decided by the options of flexvolume, or
  by the number of rows of `lsvdisk` (`storage.go:32-42`): a rejected query means no freeze,
  and so does a volume that a failed extension left without its relationship. When
  the operator repairs that and removes the barrier before the attempt looks at it,
  the tasks run on a file system in use (`controller.go:352`), though "no I/O can be
  happend" (`storage.go:55`).
- A second `CreateSnapshot` of one name (a retry after a timeout) cleans up what the first
  one made, also a ready snapshot: `SingleFlight` leaves this out. A clean-up that
  stopped the map leaves its start time, which reads as ready (`spoilt`).
- The clean-up of `CloneVolume` stops a map by its id (`storage.go:316`). The clone's own
  map may have ended and its id been given to another name's, which is then stopped;
  likewise the other commands that take an id (`Hit`).
- A `CreateBlockVolume` sent again with another size answers success for the volume of
  the old size; one name is therefore created with one size in AS13000Volumes.
- Two extensions of one volume in flight both add their difference. A failing
  `FIFreeze` or rescan is only logged. A process killed within the nine tasks
  leaves no barrier.
- An `lsfabric` or `lshost` that fails is forgotten when a later one succeeds without a
  match (`storage.go:1018-1023`): the search then answers "no host object".
- The Chinese manual (line 270) describes a lock file that no code takes.

## 7. Assumptions, and what is not modelled

The array executes commands one at a time; it refuses a name or a port in use, a
second map of a volume to a host object, removing a host object with maps. After
`rmrcrelationship` the auxiliary vdisk is a volume of its own that `lsvdisk` shows
as one row without a function. Host maps of volumes that are force-deleted, the
map an active-active volume gets of its second site, and a table of copy maps
that is full are left out. Devices on the node have one path per volume and one
portal; `iscsiadm` refuses a second login. The kubelet of a node keeps one request per
volume in flight and does not publish a mounted path again; the kubelets of two
nodes know nothing of each other (`Shared`, and the nodes of InStorageAttach).

The AS13000 keeps names of targets, volumes and directories unique, and a volume on
one target (`storage.go:342`); it gives a LUN any free number, deletes no target
that has LUNs, shows an unbound LUN as "ALL", and answers for the LUNs of a
missing target with an error or with none. A refusal has an answer without data.
It sets or changes the quota of any directory that exists, and lets an exported one be deleted. Its tokens stay
good after another login. Targets of other users have no volumes of the driver. The
InStorage array lists rows in the order of their numbers and gives freed
numbers again.
`csicommon.ParseVolumeID`, `GenerateVolumeID`, `ParseCapacitySize` and
`ConvertStrToTime` are called but defined nowhere in the repository.

Not modelled: the formatting and parsing of commands, JSON and REST; arguments
validated and refused before the first command; configuration and ciphering;
statistics; `GetCapacity`; the NFS mount; the form of a PersistentVolume; the gRPC
server; functions nothing calls (`IsAttached`, `CreateTarget`,
`GetTargetNameWithHostInfo`, `removeDirectoryRecursively`, `FileLock`). These keep no state
another step could meet, or are reached by no program.

## 8. Plan

Done: the models of all parts that keep state or share it, the runs of section 3, and
proofs of every type invariant, safety invariant, action property and refinement a
passing run checks, and that attempts are finite.

What is left:

1. Weaker premises: `PromisesAreKept` with requests of one name in flight for names that
   were not asked for twice, and `DetachIsSound` with administrator's host objects on
   handlers that run on the node itself, which find them by their ports.
2. `UsedOK` and `PortOK` with faults: which host objects a fault may leave half made, so
   that an operator's clean-up can be stated; and which targets two nodes may leave empty,
   so that `strays` can be taken back from those that are used again.
