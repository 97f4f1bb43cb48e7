-------------------------- MODULE InStorageVolumes --------------------------
(***************************************************************************)
(* Creating, cloning, snapshotting and deleting volumes, as StorageUtil of *)
(* pkg/storage/instorage/storage.go does it for the CSI controller: every  *)
(* operation is a chain of CLI commands, with best-effort clean-up when    *)
(* one fails.  Handlers run concurrently without a lock; objects are named *)
(* by the caller, so commands of one handler reach what another one made.  *)
(* A command may not be sent, or its answer may be lost; the plugin may be *)
(* killed; the sidecar sends a failed request again, and, if SingleFlight  *)
(* is FALSE, also one that timed out while its handler is still running.   *)
(***************************************************************************)
EXTENDS InStorageCopies, Sequences

CONSTANTS
  Procs,        \* handler slots
  Ops,          \* the operations callers ask for
  Levels,       \* volume levels asked for, of "basic" and "aa"
  SingleFlight, \* TRUE: callers keep one request per name in flight
  MaxPolls,     \* polls of DeleteSnapshot for the map to stop (20 in the code)
  MaxCalls,     \* bound: requests callers make, retries not counted
  MaxFaults     \* bound: commands that fail, handlers that are killed

NoName == "no name"
NoId == "no id"

ASSUME VolumesAssumption ==
  /\ Ops \subseteq {"create", "clone", "snap", "delvol", "delsnap"}
  /\ Levels \subseteq {"basic", "aa"} /\ Levels # {}
  /\ SingleFlight \in BOOLEAN
  /\ MaxPolls \in Nat \ {0} /\ MaxCalls \in Nat /\ MaxFaults \in Nat
  /\ NoName \notin Names /\ NoId \notin MapIds

(* The requests.  CloneVolume takes the volume level of the new volume and *)
(* refuses "aa" before its first command.                                  *)
Request ==
  {r \in [op : Ops, name : Names, src : Names \cup {NoName}, level : Levels] :
     \/ r.op = "create"  /\ r.name \in Vols  /\ r.src = NoName
     \/ r.op = "clone"   /\ r.name \in Vols  /\ r.src \in Names \ {r.name} /\ r.level = "basic"
     \/ r.op = "snap"    /\ r.name \in Snaps /\ r.src \in Vols /\ r.level = "basic"
     \/ r.op = "delvol"  /\ r.name \in Vols  /\ r.src = NoName /\ r.level = "basic"
     \/ r.op = "delsnap" /\ r.name \in Snaps /\ r.src = NoName /\ r.level = "basic"}

NoRequest == [op |-> "none", name |-> NoName, src |-> NoName]

Labels == {"idle", "mkvol", "mklcmap", "startmap", "lsTarget", "restart", "lsSource",
           "detail", "lsCreated", "undo", "lsVol", "lsMaps", "rmvdisk", "rmvolume",
           "lsSnapSource", "stopmap", "poll", "rmmap", "ok", "err"}

VARIABLES
  pc,        \* the next command of each handler; "ok" and "err": its answer
  req,       \* the request it serves
  mapId,     \* the lcmap it made, or found in its last listing
  ready,     \* the handlers whose info has SnapshotReadyToUse = True
  undo,      \* clean-up commands left
  aaSeen,    \* the handlers of DeleteVolume that counted four rows
  polls,     \* polls done
  promised,  \* history: names answered as created (snapshots: as ready) and not yet asked away
  gone,      \* history: names answered as deleted and not asked for again
  clouded,   \* history: handlers during which the opposite of their request ran
  spoilt,    \* history: names with a clean-up that failed or was cut short, or whose map
             \*   a command of another handler hit (see Hit)
  late,      \* history: names whose map was made while its source could still go
  calls, faults

histVars == <<promised, gone, clouded, spoilt, late>>
vars == <<copyVars, pc, req, mapId, ready, undo, aaSeen, polls, histVars, calls, faults>>

UndoSteps == {"stop", "rmmap", "rmvdisk"}

TypeOK ==
  /\ CopiesTypeOK
  /\ pc \in [Procs -> Labels]
  /\ req \in [Procs -> Request \cup {NoRequest}]
  /\ \A p \in Procs : pc[p] # "idle" => req[p] \in Request
  /\ mapId \in [Procs -> MapIds \cup {NoId}]
  /\ \A p \in Procs : pc[p] \in {"startmap", "lsCreated", "restart", "stopmap", "poll", "rmmap"}
                        => mapId[p] # NoId
  /\ ready \subseteq Procs /\ aaSeen \subseteq Procs
  /\ \A p \in Procs : Len(undo[p]) \in 0..3 /\ \A i \in 1..Len(undo[p]) : undo[p][i] \in UndoSteps
  /\ polls \in [Procs -> 0..MaxPolls]
  /\ promised \subseteq Names /\ gone \subseteq Names /\ clouded \subseteq Procs
  /\ spoilt \subseteq Names /\ late \subseteq Names
  /\ calls \in 0..MaxCalls /\ faults \in 0..MaxFaults

Init ==
  /\ CopiesInit
  /\ pc = [p \in Procs |-> "idle"]
  /\ req = [p \in Procs |-> NoRequest]
  /\ mapId = [p \in Procs |-> NoId]
  /\ ready = {} /\ aaSeen = {}
  /\ undo = [p \in Procs |-> <<>>]
  /\ polls = [p \in Procs |-> 0]
  /\ promised = {} /\ gone = {} /\ clouded = {} /\ spoilt = {} /\ late = {}
  /\ calls = 0 /\ faults = 0

Creates == {"create", "clone", "snap"}
Running(p) == pc[p] \notin {"idle", "ok", "err"}

(* q serves the opposite of request r, running or about to be sent again:  *)
(* one creates what the other deletes.                                     *)
Opposite(q, r) ==
  /\ pc[q] \notin {"idle", "ok"}
  /\ req[q].name = r.name
  /\ (req[q].op \in Creates) # (r.op \in Creates)

(* The handler goes on to its next command or to its answer; what an       *)
(* answer means to the caller goes into the history variables.  A snapshot *)
(* is promised when it is reported ready to use.                           *)
Go(p, label) ==
  LET n == req[p].name
      sure == label = "ok" /\ p \notin clouded
  IN /\ pc' = [pc EXCEPT ![p] = label]
     /\ promised' = IF sure /\ (req[p].op \in {"create", "clone"} \/ p \in ready')
                      THEN promised \cup {n} ELSE promised
     /\ gone' = IF sure /\ req[p].op \notin Creates THEN gone \cup {n} ELSE gone
     /\ UNCHANGED clouded

(* How a command ends.  "lost" and "unsent" reach the handler as an error. *)
Outcomes == {"done", "lost", "unsent"}
Spend(o) ==
  /\ o # "done" => faults < MaxFaults
  /\ faults' = IF o = "done" THEN faults ELSE faults + 1
  /\ UNCHANGED calls

Replies == {"done", "error"}

(* A command sent with outcome o, that the array accepts when "accepted":  *)
(* apply is its effect.                                                    *)
Send(o, accepted, apply) ==
  /\ Spend(o)
  /\ IF o # "unsent" /\ accepted THEN apply ELSE UNCHANGED copyVars

-----------------------------------------------------------------------------
(* Callers *)

(* Mutant: the volume is removed without looking whether it is there.      *)
DeleteWithoutLook(r) ==
  CASE r.op \in {"create", "clone"}    -> "mkvol"
    [] r.op = "snap"                   -> "lsTarget"
    [] r.op \in {"delvol", "delsnap"}  -> "rmvdisk"

FirstLabel(r) ==
  CASE r.op \in {"create", "clone"}  -> "mkvol"
    [] r.op \in {"snap", "delsnap"}  -> "lsTarget"
    [] r.op = "delvol"               -> "lsVol"

Begin(p, r) ==
  /\ SingleFlight => \A q \in Procs \ {p} : Running(q) => req[q].name # r.name
  /\ pc' = [pc EXCEPT ![p] = FirstLabel(r)]
  /\ req' = [req EXCEPT ![p] = r]
  /\ mapId' = [mapId EXCEPT ![p] = NoId]
  /\ ready' = ready \ {p}
  /\ aaSeen' = aaSeen \ {p}
  /\ undo' = [undo EXCEPT ![p] = <<>>]
  /\ polls' = [polls EXCEPT ![p] = 0]
  /\ promised' = IF r.op \in Creates THEN promised ELSE promised \ {r.name}
  /\ gone' = IF r.op \in Creates THEN gone \ {r.name} ELSE gone
  /\ LET others == {q \in Procs \ {p} : Opposite(q, r)}
     IN clouded' = (clouded \ {p}) \cup others \cup (IF others # {} THEN {p} ELSE {})
  /\ UNCHANGED <<copyVars, spoilt, late, faults>>

Call(p) ==
  /\ pc[p] = "idle"
  /\ calls < MaxCalls
  /\ calls' = calls + 1
  /\ \E r \in Request : Begin(p, r)

(* The sidecar sends a failed request again. *)
Retry(p) ==
  /\ pc[p] = "err"
  /\ Begin(p, req[p])
  /\ UNCHANGED calls

(* The request is answered, or a creation is given up. *)
Done(p) ==
  /\ pc[p] = "ok" \/ (pc[p] = "err" /\ req[p].op \in Creates)
  /\ pc' = [pc EXCEPT ![p] = "idle"]
  /\ req' = [req EXCEPT ![p] = NoRequest]
  /\ mapId' = [mapId EXCEPT ![p] = NoId]
  /\ ready' = ready \ {p}
  /\ aaSeen' = aaSeen \ {p}
  /\ undo' = [undo EXCEPT ![p] = <<>>]
  /\ polls' = [polls EXCEPT ![p] = 0]
  /\ clouded' = clouded \ {p}
  /\ UNCHANGED <<copyVars, promised, gone, spoilt, late, calls, faults>>

(* The plugin dies in the middle of a request; the caller sees an error.   *)
Kill(p) ==
  /\ Running(p)
  /\ faults < MaxFaults
  /\ faults' = faults + 1
  /\ pc' = [pc EXCEPT ![p] = "err"]
  /\ spoilt' = IF pc[p] = "undo" THEN spoilt \cup {req[p].name} ELSE spoilt
  /\ UNCHANGED <<copyVars, req, mapId, ready, undo, aaSeen, polls, promised, gone, clouded, late, calls>>

-----------------------------------------------------------------------------
(* CreateVolume, CloneVolume, CreateSnapshot *)

(* mkvdisk or mkvolume.  A volume that exists already is an error.         *)
MkVol(p) ==
  /\ pc[p] = "mkvol"
  /\ \E o \in Outcomes :
       LET r == req[p]
           ok == o = "done" /\ MkVolAccepted(r.name)
       IN /\ Send(o, MkVolAccepted(r.name), MkVolApply(r.name, r.level, r.op = "create"))
          /\ UNCHANGED ready
          /\ Go(p, IF ~ok THEN "err" ELSE IF r.op = "create" THEN "ok" ELSE "mklcmap")
  /\ UNCHANGED <<req, mapId, undo, aaSeen, polls>>

(* Clean-up after a failed command: what is left of it to do.              *)
FailTo(p, steps) ==
  /\ undo' = [undo EXCEPT ![p] = steps]
  /\ Go(p, "undo")

(* mklcmap *)
MkLcmap(p) ==
  /\ pc[p] = "mklcmap"
  /\ UNCHANGED <<req, ready, aaSeen, polls>>
  /\ \E o \in Outcomes :
       LET r == req[p]
           accepted == o # "unsent" /\ MkMapAccepted(r.src, r.name) /\ Live # MapIds
       IN /\ Spend(o)
          /\ \/ /\ accepted
                /\ \E m \in MapIds \ Live :
                     /\ MkMapApply(m, r.src, r.name, r.op = "clone")
                     /\ IF o = "done"
                          THEN /\ mapId' = [mapId EXCEPT ![p] = m]
                               /\ Go(p, "startmap")
                               /\ UNCHANGED undo
                          ELSE FailTo(p, <<"rmvdisk">>) /\ UNCHANGED mapId
             \/ /\ ~accepted
                /\ FailTo(p, <<"rmvdisk">>)
                /\ UNCHANGED <<copyVars, mapId>>

(* startlcmap -prep.  A clone is answered with it; a snapshot is listed    *)
(* again for its creation time.  CloneVolume cleans up with stoplcmap,     *)
(* CreateSnapshot with rmlcmap.                                            *)
StartLcmap(p) ==
  /\ pc[p] = "startmap"
  /\ UNCHANGED <<req, mapId, ready, aaSeen, polls>>
  /\ \E o \in Outcomes :
       LET snap == req[p].op = "snap"
       IN /\ Send(o, StartAccepted(mapId[p]), StartApply(mapId[p]))
          /\ IF o = "done" /\ StartAccepted(mapId[p])
               THEN Go(p, IF snap THEN "lsCreated" ELSE "ok") /\ UNCHANGED undo
               ELSE FailTo(p, IF snap THEN <<"rmmap", "rmvdisk">> ELSE <<"stop", "rmvdisk">>)

(* One clean-up command, whose error is ignored; after the last one the    *)
(* handler answers what info and err hold.                                 *)
Undo(p) ==
  /\ pc[p] = "undo"
  /\ UNCHANGED <<req, mapId, ready, aaSeen, polls>>
  /\ \E o \in Outcomes :
       LET m == mapId[p]
           n == req[p].name
       IN CASE Head(undo[p]) = "stop"    -> Send(o, StopAccepted(m), StopApply(m))
            [] Head(undo[p]) = "rmmap"   -> Send(o, RmMapAccepted(m), RmMapApply(m))
            [] Head(undo[p]) = "rmvdisk" -> Send(o, RmVolAccepted(n), RmVolApply(n))
  /\ undo' = [undo EXCEPT ![p] = Tail(@)]
  /\ Go(p, IF Len(undo[p]) > 1 THEN "undo" ELSE IF p \in ready THEN "ok" ELSE "err")

(* lslcmapEx target_vdisk_name: at the start of CreateSnapshot and         *)
(* DeleteSnapshot.  A snapshot whose map is there is not made again: it is *)
(* ready if the map was ever started, else the map is started now.         *)
LsTarget(p) ==
  /\ pc[p] = "lsTarget"
  /\ UNCHANGED <<copyVars, req, undo, aaSeen, polls>>
  /\ \E reply \in Replies :
       LET r == req[p]
           rows == IF reply = "done" THEN MapsTo(r.name) ELSE {}
           mine == {m \in rows : lcmaps[m].src = r.src}
       IN /\ Spend(reply)
          /\ \/ /\ reply = "error"
                /\ UNCHANGED <<mapId, ready>> /\ Go(p, "err")
             \/ /\ reply = "done" /\ r.op = "snap" /\ mine = {}
                /\ UNCHANGED <<mapId, ready>> /\ Go(p, "lsSource")
             \/ /\ r.op = "snap"
                /\ \E m \in mine :
                     /\ mapId' = [mapId EXCEPT ![p] = m]
                     /\ ready' = IF lcmaps[m].status = "idle" THEN ready ELSE ready \cup {p}
                     /\ Go(p, IF lcmaps[m].status = "idle" THEN "restart" ELSE "ok")
             \/ /\ reply = "done" /\ r.op = "delsnap" /\ rows = {}
                /\ UNCHANGED <<mapId, ready>> /\ Go(p, "ok")
             \/ /\ r.op = "delsnap"
                /\ \E m \in rows : mapId' = [mapId EXCEPT ![p] = m]
                /\ UNCHANGED ready /\ Go(p, "lsSnapSource")

(* startlcmap of the map found, whose error is ignored: not ready yet.     *)
Restart(p) ==
  /\ pc[p] = "restart"
  /\ UNCHANGED <<req, mapId, ready, undo, aaSeen, polls>>
  /\ \E o \in Outcomes : Send(o, StartAccepted(mapId[p]), StartApply(mapId[p]))
  /\ Go(p, "ok")

(* lsvdisk of the source: one row, for an active-active volume four.       *)
LsSource(p) ==
  /\ pc[p] = "lsSource"
  /\ UNCHANGED <<copyVars, req, mapId, ready, undo, aaSeen, polls>>
  /\ \E reply \in Replies :
       /\ Spend(reply)
       /\ Go(p, IF reply = "done" /\ req[p].src \in vdisks \ aa THEN "detail" ELSE "err")

(* lsvdiskDetail of the source: its size, pool and I/O group. *)
LsDetail(p) ==
  /\ pc[p] = "detail"
  /\ UNCHANGED <<copyVars, req, mapId, ready, undo, aaSeen, polls>>
  /\ \E reply \in Replies :
       /\ Spend(reply)
       /\ Go(p, IF reply = "done" /\ req[p].src \in vdisks THEN "mkvol" ELSE "err")

(* lslcmapEx again, for the creation time.  A map from another source is   *)
(* cleaned up, and the snapshot reported as ready all the same.            *)
LsCreated(p) ==
  /\ pc[p] = "lsCreated"
  /\ UNCHANGED <<copyVars, req, mapId, aaSeen, polls>>
  /\ \E reply \in Replies :
       LET rows == MapsTo(req[p].name)
           other == \E m \in rows : lcmaps[m].src # req[p].src
       IN /\ Spend(reply)
          /\ ready' = IF reply = "done" THEN ready \cup {p} ELSE ready
          /\ IF reply = "error" \/ other
               THEN FailTo(p, <<"stop", "rmmap", "rmvdisk">>)
               ELSE Go(p, "ok") /\ UNCHANGED undo

-----------------------------------------------------------------------------
(* DeleteVolume *)

(* Mutant: a failed lsvdisk is read as "volume does not exist".            *)
LsVolErrorIgnored(p) ==
  /\ pc[p] = "lsVol"
  /\ UNCHANGED <<copyVars, req, mapId, ready, undo, polls>>
  /\ \E reply \in Replies :
       LET n == req[p].name
       IN /\ Spend(reply)
          /\ aaSeen' = IF n \in aa THEN aaSeen \cup {p} ELSE aaSeen
          /\ Go(p, IF reply = "done" /\ n \in vdisks THEN "lsMaps" ELSE "ok")

(* lsvdisk: no row, one, or four. *)
LsVol(p) ==
  /\ pc[p] = "lsVol"
  /\ UNCHANGED <<copyVars, req, mapId, ready, undo, polls>>
  /\ \E reply \in Replies :
       LET n == req[p].name
       IN /\ Spend(reply)
          /\ aaSeen' = IF n \in aa THEN aaSeen \cup {p} ELSE aaSeen
          /\ Go(p, IF reply = "error" THEN "err" ELSE IF n \in vdisks THEN "lsMaps" ELSE "ok")

(* Mutant: the maps the volume is the source of are not looked for.        *)
DeleteSource(p) ==
  /\ pc[p] = "lsMaps"
  /\ UNCHANGED <<copyVars, req, mapId, ready, undo, aaSeen, polls>>
  /\ \E reply \in Replies :
       /\ Spend(reply)
       /\ Go(p, IF reply = "error" THEN "err" ELSE IF p \in aaSeen THEN "rmvolume" ELSE "rmvdisk")

(* lslcmapEx source_vdisk_name: a volume others are copied from stays.     *)
(* (The one map an active-active volume has of its own is not modelled.)   *)
LsMaps(p) ==
  /\ pc[p] = "lsMaps"
  /\ UNCHANGED <<copyVars, req, mapId, ready, undo, aaSeen, polls>>
  /\ \E reply \in Replies :
       /\ Spend(reply)
       /\ Go(p, IF reply = "error" \/ MapsFrom(req[p].name) # {} THEN "err"
                ELSE IF p \in aaSeen THEN "rmvolume" ELSE "rmvdisk")

(* rmvolume, for the four vdisks of an active-active volume.               *)
RmVolume(p) ==
  /\ pc[p] = "rmvolume"
  /\ UNCHANGED <<req, mapId, ready, undo, aaSeen, polls>>
  /\ \E o \in Outcomes :
       LET n == req[p].name
           accepted == RmVolAccepted(n) /\ n \in aa
       IN /\ Send(o, accepted, RmVolApply(n))
          /\ Go(p, IF o = "done" /\ accepted THEN "ok" ELSE "err")

(* rmvdisk: the last command of DeleteVolume and of DeleteSnapshot. *)
RmVdisk(p) ==
  /\ pc[p] = "rmvdisk"
  /\ UNCHANGED <<req, mapId, ready, undo, aaSeen, polls>>
  /\ \E o \in Outcomes :
       LET n == req[p].name
           accepted == RmVolAccepted(n) /\ n \notin aa
       IN /\ Send(o, accepted, RmVolApply(n))
          /\ Go(p, IF o = "done" /\ accepted THEN "ok" ELSE "err")

-----------------------------------------------------------------------------
(* DeleteSnapshot *)

(* lslcmapEx source_vdisk_name: a snapshot clones are made from stays.     *)
LsSnapSource(p) ==
  /\ pc[p] = "lsSnapSource"
  /\ UNCHANGED <<copyVars, req, mapId, ready, undo, aaSeen, polls>>
  /\ \E reply \in Replies :
       /\ Spend(reply)
       /\ Go(p, IF reply = "error" \/ MapsFrom(req[p].name) # {} THEN "err" ELSE "stopmap")

(* stoplcmap, whose error is ignored. *)
StopLcmap(p) ==
  /\ pc[p] = "stopmap"
  /\ UNCHANGED <<req, mapId, ready, undo, aaSeen, polls>>
  /\ \E o \in Outcomes : Send(o, StopAccepted(mapId[p]), StopApply(mapId[p]))
  /\ Go(p, "poll")

(* Mutant: one poll too many. *)
PollOnceMore(p) ==
  /\ pc[p] = "poll"
  /\ UNCHANGED <<copyVars, req, mapId, ready, undo, aaSeen>>
  /\ polls' = [polls EXCEPT ![p] = @ + 1]
  /\ \E reply \in Replies :
       /\ Spend(reply)
       /\ Go(p, IF polls[p] = MaxPolls THEN "rmmap" ELSE "poll")

(* lslcmapEx every three seconds until the map has stopped or is gone, a   *)
(* query fails, or the last poll is done.                                  *)
PollLcmap(p) ==
  /\ pc[p] = "poll"
  /\ UNCHANGED <<copyVars, req, ready, undo, aaSeen>>
  /\ polls' = [polls EXCEPT ![p] = @ + 1]
  /\ \E reply \in Replies :
       LET rows == IF reply = "done" THEN MapsTo(req[p].name) ELSE {}
           last == polls[p] + 1 = MaxPolls
       IN /\ Spend(reply)
          /\ \/ /\ rows = {}
                /\ UNCHANGED mapId /\ Go(p, "rmmap")
             \/ \E m \in rows :
                  /\ mapId' = [mapId EXCEPT ![p] = m]
                  /\ Go(p, IF last \/ lcmaps[m].status \in {"idle", "stopped"} THEN "rmmap" ELSE "poll")

(* rmlcmap, whose error is ignored. *)
RmLcmap(p) ==
  /\ pc[p] = "rmmap"
  /\ UNCHANGED <<req, mapId, ready, undo, aaSeen, polls>>
  /\ \E o \in Outcomes : Send(o, RmMapAccepted(mapId[p]), RmMapApply(mapId[p]))
  /\ Go(p, "rmvdisk")

-----------------------------------------------------------------------------
Command(p) ==
  \/ MkVol(p) \/ MkLcmap(p) \/ StartLcmap(p) \/ Undo(p)
  \/ LsTarget(p) \/ Restart(p) \/ LsSource(p) \/ LsDetail(p) \/ LsCreated(p)
  \/ LsVol(p) \/ LsMaps(p) \/ RmVolume(p) \/ RmVdisk(p)
  \/ LsSnapSource(p) \/ StopLcmap(p) \/ PollLcmap(p) \/ RmLcmap(p)

(* A handler that makes s, and may clean it up, or that deletes s and has  *)
(* seen no map from it: whoever copies from s now may lose the map again.  *)
MayGo(s) ==
  \E q \in Procs :
    /\ req[q].name = s
    /\ pc[q] \in {"mklcmap", "startmap", "lsCreated", "undo",
                  "stopmap", "poll", "rmmap", "rmvdisk", "rmvolume"}

(* The names of others whose map this step changes: by an id that was that *)
(* of the handler's own map, before the array gave it again; or with the   *)
(* source, when the map was made as its removal was under way.             *)
Hit(p) ==
  {n \in Names \ {req[p].name} :
     /\ \E m \in MapsTo(n) : lcmaps'[m] # lcmaps[m]
     /\ vdisks' # vdisks => n \in late}

(* What the history notes of a command. *)
Note(p) ==
  LET n == req[p].name
  IN /\ spoilt' = spoilt \cup Hit(p)
                         \cup (IF pc[p] = "undo" /\ faults' # faults THEN {n} ELSE {})
     /\ late' = IF ~(pc[p] = "mklcmap" /\ lcmaps' # lcmaps) THEN late
                ELSE IF MayGo(req[p].src) THEN late \cup {n} ELSE late \ {n}

Step(p) == Command(p) /\ Note(p)

Array ==
  /\ \E m \in MapIds : Stopped(m) \/ CopyDone(m)
  /\ UNCHANGED <<pc, req, mapId, ready, undo, aaSeen, polls, histVars, calls, faults>>

Rest ==
  /\ calls = MaxCalls
  /\ \A p \in Procs : pc[p] = "idle"
  /\ UNCHANGED vars

Next ==
  \/ \E p \in Procs : Call(p) \/ Retry(p) \/ Done(p) \/ Kill(p) \/ Step(p)
  \/ Array
  \/ Rest

Spec == Init /\ [][Next]_vars

(* A handler runs on, the array finishes its copies, and the sidecar asks  *)
(* again until it is answered; a busy volume delays it, not for ever.      *)
Fairness ==
  /\ WF_vars(Array)
  /\ \A p \in Procs : WF_vars(Step(p)) /\ SF_vars(Retry(p)) /\ WF_vars(Done(p))
FairSpec == Spec /\ Fairness

-----------------------------------------------------------------------------
(* Properties *)

(* What was answered as created stays readable until its own deletion is   *)
(* asked for: neither the clean-up of another handler nor the deletion of  *)
(* the volume it was copied from takes it away (CreateSnapshot's           *)
(* ready_to_use, and DeleteVolume's check "volume is source vdisk of other *)
(* local maps").  Left out are names whose clean-up was cut short: a map   *)
(* it has stopped keeps its start time, which CreateSnapshot takes for     *)
(* ready (its check of the status is commented out).  So are names another *)
(* handler has hit: the one that removes a volume does so in a later       *)
(* command than the one that found no map from it, and a map made in       *)
(* between goes too (see SourcesStay); and a handler whose own map is gone *)
(* goes on with the id, which may be another map's by then.                *)
PromiseKept == \A n \in promised \ spoilt : Readable(n)

(* A volume answered as deleted is not on the array any more, unless its   *)
(* creation is asked for again (DeleteVolume), also when commands of its   *)
(* creation are still to come, or its answer was lost.  Of a snapshot this *)
(* is so until something fails or another handler hits its map:            *)
(* DeleteSnapshot takes one without a copy map for gone, and a failure     *)
(* between the commands for the map and for the vdisk leaves the vdisk.    *)
VolumesStayGone ==
  /\ gone \cap vdisks \cap Vols = {}
  /\ faults = 0 => gone \cap vdisks \subseteq spoilt

(* Nothing takes the content away from what was answered as created:       *)
(* DeleteVolume refuses when the "volume is source vdisk of other local    *)
(* maps".  It does not hold: the map may be made after that check.         *)
SourcesStay == [][\A n \in promised \cap promised' : Readable(n) => Readable(n)']_vars

(* A delete is answered with success in the end, if nothing is copied from *)
(* the volume for ever: no failed or half done attempt makes the next one  *)
(* fail.                                                                   *)
DeletesSucceed ==
  \A p \in Procs : Running(p) /\ req[p].op \notin Creates ~> pc[p] = "ok"
=============================================================================
