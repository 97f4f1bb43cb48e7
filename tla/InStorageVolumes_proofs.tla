----------------------- MODULE InStorageVolumes_proofs -----------------------
(***************************************************************************)
(* Theorems about InStorageVolumes, for all sets of names, handlers and    *)
(* map ids and every number of requests and faults.                        *)
(***************************************************************************)
EXTENDS InStorageVolumes, TLAPS

(* What a failed command leaves to clean up. *)
Plans == {<<"rmvdisk">>, <<"stop", "rmvdisk">>, <<"rmmap", "rmvdisk">>,
          <<"stop", "rmmap", "rmvdisk">>}

(* The types, with the local facts they rest on: a map has its volumes,    *)
(* polls are counted up to the last, and a clean-up ends with the vdisk.   *)
MapEnds == \A m \in Live : lcmaps[m].src \in vdisks /\ lcmaps[m].tgt \in vdisks
PollOK ==
  \A p \in Procs :
    /\ pc[p] \in {"lsTarget", "lsSnapSource", "stopmap"} => polls[p] = 0
    /\ pc[p] = "poll" => polls[p] < MaxPolls
    /\ pc[p] = "lsSnapSource" => mapId[p] # NoId
UndoOK ==
  /\ undo \in [Procs -> Plans \cup {<<>>}]
  /\ \A p \in Procs : pc[p] = "undo" => undo[p] \in Plans
TypeInv == TypeOK /\ MapEnds /\ PollOK /\ UndoOK

Name(p) == req[p].name
Creating(p) == req[p].op \in Creates

(* At work, or to be sent again. *)
Active(p) == pc[p] \notin {"idle", "ok"}

(* The running requests are for different volumes and snapshots. *)
Flight ==
  \A p, q \in Procs :
    p # q /\ Running(p) /\ Running(q) => Name(p) # Name(q)

(* Who creates what another deletes knows nothing for sure. *)
Opposed ==
  \A p, q \in Procs :
    Active(p) /\ Active(q) /\ Name(p) = Name(q) /\ Creating(p) /\ ~Creating(q)
      => p \in clouded /\ q \in clouded

(* What is asked for is not promised yet, or gone. *)
AskedOK ==
  \A p \in Procs : Active(p) => Name(p) \notin (IF Creating(p) THEN gone ELSE promised)

(* A volume has one map that fills it, and the maps that fill snapshots    *)
(* do not end by themselves.                                               *)
MapsOK ==
  /\ \A m \in Live : lcmaps[m].auto = (lcmaps[m].tgt \in Vols)
  /\ \A m, k \in Live : lcmaps[m].tgt = lcmaps[k].tgt => m = k
  /\ aa \cap Snaps = {}

(* Why the map of a snapshot does not copy any more. *)
StopOK(n) ==
  \A m \in MapsTo(n) : lcmaps[m].status \in {"stopping", "stopped"} =>
    \/ n \in spoilt
    \/ \E q \in Procs : Active(q) /\ ~Creating(q) /\ Name(q) = n
    \/ \E q \in Procs : pc[q] = "undo" /\ Name(q) = n

(* Why a snapshot has no map. *)
BareOK(n) ==
  faults = 0 /\ n \notin spoilt /\ n \in vdisks /\ MapsTo(n) = {} =>
    \E q \in Procs : pc[q] \in {"mklcmap", "undo", "rmvdisk"} /\ Name(q) = n

LabelOK(p) ==
  /\ pc[p] = "mkvol" => req[p].op \in Creates
  /\ pc[p] \in {"mklcmap", "startmap", "undo"} => req[p].op \in {"clone", "snap"}
  /\ pc[p] \in {"lsSource", "detail", "restart", "lsCreated"} => req[p].op = "snap"
  /\ pc[p] = "lsTarget" => req[p].op \in {"snap", "delsnap"}
  /\ pc[p] \in {"lsVol", "lsMaps", "rmvolume"} => req[p].op = "delvol"
  /\ pc[p] = "rmvdisk" => req[p].op \in {"delvol", "delsnap"}
  /\ pc[p] \in {"lsSnapSource", "stopmap", "poll", "rmmap"} => req[p].op = "delsnap"
  /\ pc[p] = "undo" /\ req[p].op = "clone" => Len(undo[p]) < 3 /\ Head(undo[p]) # "rmmap"
  /\ pc[p] = "undo" /\ req[p].op = "snap" => undo[p] # <<"stop", "rmvdisk">>
  /\ p \in ready => pc[p] = "ok"

(* What is copied from n was so late that it may go with n. *)
LateCopies(n) == \A m \in MapsFrom(n) : lcmaps[m].tgt \in late

(* Only late copies are made of a volume that is made or being removed,    *)
(* and one that is made is not promised.                                   *)
MakingOK(p) ==
  /\ pc[p] \in {"mklcmap", "startmap", "lsCreated", "undo", "stopmap", "poll", "rmmap",
                "rmvdisk", "rmvolume"} => LateCopies(Name(p))
  /\ pc[p] \in {"mklcmap", "startmap", "lsCreated", "undo"} => Name(p) \notin promised \ spoilt

(* The map a handler works on fills what it is asked for, if nobody has    *)
(* hit it.                                                                 *)
HasMap(p) ==
  \/ pc[p] \in {"startmap", "lsCreated", "restart", "lsSnapSource", "stopmap", "poll", "rmmap"}
  \/ pc[p] = "undo" /\ req[p].op = "snap" /\ Head(undo[p]) # "rmvdisk"
OwnMapOK(p) ==
  /\ pc[p] \in {"startmap", "lsCreated"} => \A m \in MapsTo(Name(p)) : lcmaps[m].src = req[p].src
  /\ Name(p) \notin spoilt =>
       /\ HasMap(p) => mapId[p] \in MapsTo(Name(p))
       /\ pc[p] = "startmap" => lcmaps[mapId[p]].status = "idle"
       /\ pc[p] = "lsCreated" => lcmaps[mapId[p]].status # "idle"

HandlerOK(p) == LabelOK(p) /\ MakingOK(p) /\ OwnMapOK(p)

Inv ==
  /\ Flight /\ Opposed /\ AskedOK /\ MapsOK
  /\ \A n \in Snaps : StopOK(n) /\ BareOK(n)
  /\ \A p \in Procs : HandlerOK(p)
  /\ PromiseKept /\ VolumesStayGone
-----------------------------------------------------------------------------
(* The array *)

ArrayInv == CopiesTypeOK /\ MapEnds

LEMMA LiveMaps ==
  ASSUME CopiesTypeOK, NEW m
  PROVE  m \in Live <=> m \in MapIds /\ lcmaps[m] \in Map
<1>1. \A r \in Map : r # NoMap
  <2>1. \A r \in Map : r.status \in Statuses
    BY DEF Map
  <2>2. NoMap.status \notin Statuses
    BY DEF NoMap, Statuses
  <2> QED
    BY <2>1, <2>2
<1> QED
  BY <1>1 DEF CopiesTypeOK, Live

(* The fields of a live map. *)
LEMMA MapFields ==
  ASSUME CopiesTypeOK, NEW m \in Live
  PROVE  /\ m \in MapIds /\ lcmaps[m] \in Map
         /\ lcmaps[m].src \in Names /\ lcmaps[m].tgt \in Names
         /\ lcmaps[m].status \in Statuses /\ lcmaps[m].auto \in BOOLEAN
<1>1. m \in MapIds /\ lcmaps[m] \in Map
  BY LiveMaps
<1>2. \A r \in Map : r.src \in Names /\ r.tgt \in Names /\ r.status \in Statuses
  BY DEF Map
<1>3. \A r \in Map : r.auto \in BOOLEAN
  BY Zenon DEF Map
<1> QED
  BY <1>1, <1>2, <1>3

(* A map that is as it was, but for its status. *)
Kept(m) ==
  /\ m \in Live'
  /\ lcmaps'[m].src = lcmaps[m].src /\ lcmaps'[m].tgt = lcmaps[m].tgt
  /\ lcmaps'[m].auto = lcmaps[m].auto

LEMMA SetStatusFacts ==
  ASSUME ArrayInv, NEW m \in Live, NEW s \in Statuses, SetStatus(m, s)
  PROVE  /\ ArrayInv' /\ Live' = Live
         /\ \A k \in Live : Kept(k) /\ (k # m => lcmaps'[k] = lcmaps[k])
         /\ lcmaps'[m].status = s
         /\ vdisks' = vdisks /\ aa' = aa /\ whole' = whole
<1>1. /\ lcmaps' = [lcmaps EXCEPT ![m] = [lcmaps[m] EXCEPT !.status = s]]
      /\ vdisks' = vdisks /\ aa' = aa /\ whole' = whole
  BY DEF SetStatus
<1>2. CopiesTypeOK /\ MapEnds /\ m \in MapIds /\ lcmaps[m] \in Map
  BY LiveMaps DEF ArrayInv
<1>3. PICK r : r = [lcmaps[m] EXCEPT !.status = s]
  OBVIOUS
<1>4. /\ r \in Map /\ r.src = lcmaps[m].src /\ r.tgt = lcmaps[m].tgt /\ r.status = s
  BY <1>2, <1>3 DEF Map
<1>5. r.auto = lcmaps[m].auto
  <2>1. \A x \in Map : [x EXCEPT !.status = s].auto = x.auto
    BY DEF Map
  <2> QED
    BY <1>2, <1>3, <2>1
<1>6. lcmaps' = [lcmaps EXCEPT ![m] = r] /\ lcmaps \in [MapIds -> Map \cup {NoMap}]
  BY <1>1, <1>2, <1>3 DEF CopiesTypeOK
<1>7. /\ lcmaps'[m] = r /\ \A k \in MapIds : k # m => lcmaps'[k] = lcmaps[k]
  BY <1>2, <1>6
<1>8. CopiesTypeOK'
  BY <1>1, <1>2, <1>4, <1>6 DEF CopiesTypeOK
<1>9. Live' = Live
  <2>1. \A k \in MapIds : lcmaps[k] = NoMap <=> lcmaps'[k] = NoMap
    <3>1. r # NoMap /\ lcmaps[m] # NoMap
      BY <1>4, <1>8, LiveMaps DEF Live, NoMap, Statuses
    <3> QED
      BY <1>7, <3>1
  <2> QED
    BY <2>1 DEF Live
<1>10. \A k \in Live : Kept(k) /\ (k # m => lcmaps'[k] = lcmaps[k])
  BY <1>4, <1>5, <1>7, <1>9 DEF Kept, Live
<1>11. MapEnds'
  <2> SUFFICES ASSUME NEW k \in Live PROVE (lcmaps'[k].src \in vdisks /\ lcmaps'[k].tgt \in vdisks)
    BY <1>1, <1>9 DEF MapEnds
  <2> QED
    BY <1>2, <1>10 DEF MapEnds, Kept
<1> QED
  BY <1>1, <1>4, <1>7, <1>8, <1>9, <1>10, <1>11 DEF ArrayInv

(* Maps go. *)
LEMMA DropFacts ==
  ASSUME ArrayInv, NEW K, lcmaps' = [m \in MapIds |-> IF m \in K THEN NoMap ELSE lcmaps[m]]
  PROVE  /\ lcmaps' \in [MapIds -> Map \cup {NoMap}]
         /\ Live' = Live \ K
         /\ \A k \in Live' : Kept(k) /\ lcmaps'[k] = lcmaps[k]
<1>1. lcmaps \in [MapIds -> Map \cup {NoMap}]
  BY DEF ArrayInv, CopiesTypeOK
<1>2. lcmaps' \in [MapIds -> Map \cup {NoMap}]
  BY <1>1
<1>3. Live' = Live \ K
  BY DEF Live
<1> QED
  BY <1>2, <1>3 DEF Kept, Live

LEMMA RmMapFacts ==
  ASSUME ArrayInv, NEW m, RmMapApply(m)
  PROVE  /\ ArrayInv' /\ Live' = Live \ {m}
         /\ \A k \in Live' : Kept(k) /\ lcmaps'[k] = lcmaps[k]
         /\ vdisks' = vdisks /\ aa' = aa /\ whole' = whole
<1>1. lcmaps' = [k \in MapIds |-> IF k \in {m} THEN NoMap ELSE lcmaps[k]]
      /\ vdisks' = vdisks /\ aa' = aa /\ whole' = whole
  BY DEF RmMapApply, ArrayInv, CopiesTypeOK
<1>2. /\ lcmaps' \in [MapIds -> Map \cup {NoMap}] /\ Live' = Live \ {m}
      /\ \A k \in Live' : Kept(k) /\ lcmaps'[k] = lcmaps[k]
  BY <1>1, DropFacts
<1>3. CopiesTypeOK' /\ MapEnds'
  BY <1>1, <1>2 DEF ArrayInv, CopiesTypeOK, MapEnds
<1> QED
  BY <1>1, <1>2, <1>3 DEF ArrayInv

LEMMA RmVolFacts ==
  ASSUME ArrayInv, NEW n, RmVolApply(n)
  PROVE  /\ ArrayInv' /\ Live' = Live \ (MapsFrom(n) \cup MapsTo(n))
         /\ \A k \in Live' : Kept(k) /\ lcmaps'[k] = lcmaps[k]
         /\ vdisks' = vdisks \ {n} /\ aa' = aa \ {n} /\ whole' = whole \ {n}
<1>1. /\ lcmaps' = [k \in MapIds |-> IF k \in MapsFrom(n) \cup MapsTo(n) THEN NoMap ELSE lcmaps[k]]
      /\ vdisks' = vdisks \ {n} /\ aa' = aa \ {n} /\ whole' = whole \ {n}
  BY DEF RmVolApply
<1>2. /\ lcmaps' \in [MapIds -> Map \cup {NoMap}] /\ Live' = Live \ (MapsFrom(n) \cup MapsTo(n))
      /\ \A k \in Live' : Kept(k) /\ lcmaps'[k] = lcmaps[k]
  BY <1>1, DropFacts
<1>3. CopiesTypeOK'
  BY <1>1, <1>2 DEF ArrayInv, CopiesTypeOK
<1>4. MapEnds'
  <2> SUFFICES ASSUME NEW k \in Live' PROVE (lcmaps[k].src \in vdisks' /\ lcmaps[k].tgt \in vdisks')
    BY <1>2 DEF MapEnds
  <2> QED
    BY <1>1, <1>2 DEF ArrayInv, MapEnds, MapsFrom, MapsTo
<1> QED
  BY <1>1, <1>2, <1>3, <1>4 DEF ArrayInv

LEMMA MkVolFacts ==
  ASSUME ArrayInv, NEW n \in Names, NEW level, NEW content, MkVolApply(n, level, content)
  PROVE  /\ ArrayInv' /\ Live' = Live /\ lcmaps' = lcmaps
         /\ vdisks' = vdisks \cup {n} /\ (aa' = aa \/ (level = "aa" /\ aa' = aa \cup {n}))
         /\ whole' = IF content THEN whole \cup {n} ELSE whole
<1>1. /\ vdisks' = vdisks \cup {n} /\ lcmaps' = lcmaps
      /\ aa' = aa \/ (level = "aa" /\ aa' = aa \cup {n})
  BY DEF MkVolApply
<1>2. whole' = IF content THEN whole \cup {n} ELSE whole
  BY DEF MkVolApply
<1>3. whole' = whole \/ whole' = whole \cup {n}
  BY <1>2, Zenon
<1>4. CopiesTypeOK' /\ MapEnds' /\ Live' = Live
  BY <1>1, <1>3 DEF ArrayInv, CopiesTypeOK, MapEnds, Live
<1> QED
  BY <1>1, <1>2, <1>4 DEF ArrayInv

LEMMA MkMapFacts ==
  ASSUME ArrayInv, NEW m \in MapIds \ Live, NEW s \in Names, NEW t \in Names, NEW auto \in BOOLEAN,
         MkMapAccepted(s, t), MkMapApply(m, s, t, auto)
  PROVE  /\ ArrayInv' /\ Live' = Live \cup {m}
         /\ \A k \in Live : Kept(k) /\ lcmaps'[k] = lcmaps[k]
         /\ lcmaps'[m].src = s /\ lcmaps'[m].tgt = t /\ lcmaps'[m].status = "idle"
         /\ lcmaps'[m].auto = auto
         /\ vdisks' = vdisks /\ aa' = aa /\ whole' = whole
<1>1. PICK r : r = [src |-> s, tgt |-> t, status |-> "idle", auto |-> auto]
  OBVIOUS
<1>2. r \in Map
  <2>1. "idle" \in Statuses
    BY DEF Statuses
  <2> QED
    BY <1>1, <2>1, Zenon DEF Map
<1>3. /\ lcmaps' = [lcmaps EXCEPT ![m] = r] /\ lcmaps \in [MapIds -> Map \cup {NoMap}]
      /\ vdisks' = vdisks /\ aa' = aa /\ whole' = whole
  BY <1>1 DEF MkMapApply, ArrayInv, CopiesTypeOK
<1>4. /\ lcmaps'[m] = r /\ \A k \in MapIds : k # m => lcmaps'[k] = lcmaps[k]
  BY <1>3
<1>5. CopiesTypeOK'
  BY <1>2, <1>3 DEF ArrayInv, CopiesTypeOK
<1>6. Live' = Live \cup {m}
  <2>1. r # NoMap
    BY <1>1 DEF NoMap
  <2> QED
    BY <1>4, <2>1 DEF Live
<1>7. \A k \in Live : Kept(k) /\ lcmaps'[k] = lcmaps[k]
  BY <1>4, <1>6 DEF Kept, Live
<1>8. lcmaps'[m].src = s /\ lcmaps'[m].tgt = t /\ lcmaps'[m].status = "idle" /\ lcmaps'[m].auto = auto
  BY <1>1, <1>4
<1>9. MapEnds'
  <2> SUFFICES ASSUME NEW k \in Live' PROVE (lcmaps'[k].src \in vdisks /\ lcmaps'[k].tgt \in vdisks)
    BY <1>3 DEF MapEnds
  <2> QED
    BY <1>6, <1>7, <1>8 DEF ArrayInv, MapEnds, MkMapAccepted
<1> QED
  BY <1>3, <1>5, <1>6, <1>7, <1>8, <1>9 DEF ArrayInv

(* What the array does by itself. *)
LEMMA ArrayFacts ==
  ASSUME ArrayInv, NEW m \in MapIds, Stopped(m) \/ CopyDone(m)
  PROVE  /\ ArrayInv' /\ m \in Live /\ lcmaps[m].status # "idle"
         /\ \A k \in Live' : k \in Live /\ Kept(k) /\ (k # m => lcmaps'[k] = lcmaps[k])
         /\ vdisks' = vdisks /\ aa' = aa
         /\ \/ Live' = Live /\ lcmaps[m].status = "stopping" /\ lcmaps'[m].status = "stopped" /\ whole' = whole
            \/ /\ Live' = Live \ {m} /\ lcmaps[m].auto
               /\ whole' = whole \cup {lcmaps[m].tgt}
<1>1. CASE Stopped(m)
  <2>1. m \in Live /\ lcmaps[m].status = "stopping" /\ SetStatus(m, "stopped") /\ "stopped" \in Statuses
    BY <1>1 DEF Stopped, Statuses
  <2> QED
    BY <2>1, SetStatusFacts
<1>2. CASE CopyDone(m)
  <2>1. /\ m \in Live /\ lcmaps[m].status = "copying" /\ lcmaps[m].auto
        /\ whole' = whole \cup {lcmaps[m].tgt} /\ vdisks' = vdisks /\ aa' = aa
    BY <1>2 DEF CopyDone
  <2>2. lcmaps' = [k \in MapIds |-> IF k \in {m} THEN NoMap ELSE lcmaps[k]]
    BY <1>2 DEF CopyDone, ArrayInv, CopiesTypeOK
  <2>3. /\ lcmaps' \in [MapIds -> Map \cup {NoMap}] /\ Live' = Live \ {m}
        /\ \A k \in Live' : Kept(k) /\ lcmaps'[k] = lcmaps[k]
    BY <2>2, DropFacts
  <2>4. CopiesTypeOK' /\ MapEnds'
    BY <2>1, <2>3 DEF ArrayInv, CopiesTypeOK, MapEnds
  <2> QED
    BY <2>1, <2>3, <2>4 DEF ArrayInv
<1> QED
  BY <1>1, <1>2
-----------------------------------------------------------------------------
(* The types *)

LEMMA Requests ==
  ASSUME NEW r \in Request
  PROVE  /\ r.name \in Names /\ r.src \in Names \cup {NoName} /\ r.level \in Levels
         /\ r.op \in {"create", "clone", "snap", "delvol", "delsnap"}
         /\ r.op \in {"create", "clone", "delvol"} => r.name \in Vols
         /\ r.op \in {"snap", "delsnap"} => r.name \in Snaps
         /\ r.op \in {"clone", "snap"} => r.src \in Names
         /\ r.op # "create" => r.level = "basic"
<1>1. r.name \in Names /\ r.src \in Names \cup {NoName} /\ r.level \in Levels /\ NoName \notin Names
  BY VolumesAssumption DEF VolumesAssumption, Request
<1>2. r.op \in {"create", "clone", "snap", "delvol", "delsnap"}
  BY VolumesAssumption DEF VolumesAssumption, Request
<1>3. /\ r.op \in {"create", "clone", "delvol"} => r.name \in Vols
      /\ r.op \in {"snap", "delsnap"} => r.name \in Snaps
      /\ r.op \in {"clone", "snap"} => r.src \in Names
      /\ r.op # "create" => r.level = "basic"
  BY DEF Request, Names
<1> QED
  BY <1>1, <1>2, <1>3

LEMMA PlanFacts ==
  /\ \A s \in Plans \cup {<<>>} : Len(s) \in 0..3 /\ \A i \in 1..Len(s) : s[i] \in UndoSteps
  /\ \A s \in Plans :
       /\ Head(s) \in UndoSteps
       /\ Len(s) > 1 => Tail(s) \in Plans /\ Head(s) # "rmvdisk"
       /\ ~(Len(s) > 1) => s = <<"rmvdisk">> /\ Head(s) = "rmvdisk" /\ Tail(s) = <<>>
       /\ s = <<"stop", "rmvdisk">> => Head(s) = "stop" /\ Tail(s) = <<"rmvdisk">>
       /\ s = <<"rmmap", "rmvdisk">> => Head(s) = "rmmap" /\ Tail(s) = <<"rmvdisk">>
       /\ s = <<"stop", "rmmap", "rmvdisk">> => Head(s) = "stop" /\ Tail(s) = <<"rmmap", "rmvdisk">>
<1>1. Len(<<>>) = 0 /\ Len(<<"rmvdisk">>) = 1 /\ Len(<<"stop", "rmvdisk">>) = 2
      /\ Len(<<"rmmap", "rmvdisk">>) = 2 /\ Len(<<"stop", "rmmap", "rmvdisk">>) = 3
  OBVIOUS
<1>2. ASSUME NEW s \in Plans \cup {<<>>} PROVE Len(s) \in 0..3 /\ \A i \in 1..Len(s) : s[i] \in UndoSteps
  <2>1. CASE s = <<>>
    BY <2>1
  <2>2. CASE s = <<"rmvdisk">>
    BY <2>2 DEF UndoSteps
  <2>3. CASE s = <<"stop", "rmvdisk">>
    BY <2>3 DEF UndoSteps
  <2>4. CASE s = <<"rmmap", "rmvdisk">>
    BY <2>4 DEF UndoSteps
  <2>5. CASE s = <<"stop", "rmmap", "rmvdisk">>
    BY <2>5 DEF UndoSteps
  <2> QED
    BY <2>1, <2>2, <2>3, <2>4, <2>5 DEF Plans
<1>3. Head(<<"rmvdisk">>) = "rmvdisk" /\ Tail(<<"rmvdisk">>) = <<>>
  OBVIOUS
<1>4. Head(<<"stop", "rmvdisk">>) = "stop" /\ Tail(<<"stop", "rmvdisk">>) = <<"rmvdisk">>
  OBVIOUS
<1>5. Head(<<"rmmap", "rmvdisk">>) = "rmmap" /\ Tail(<<"rmmap", "rmvdisk">>) = <<"rmvdisk">>
  OBVIOUS
<1>6. /\ Head(<<"stop", "rmmap", "rmvdisk">>) = "stop"
      /\ Tail(<<"stop", "rmmap", "rmvdisk">>) = <<"rmmap", "rmvdisk">>
  OBVIOUS
<1>7. ASSUME NEW s \in Plans
      PROVE  /\ Head(s) \in UndoSteps
             /\ Len(s) > 1 => Tail(s) \in Plans /\ Head(s) # "rmvdisk"
             /\ ~(Len(s) > 1) => s = <<"rmvdisk">> /\ Head(s) = "rmvdisk" /\ Tail(s) = <<>>
  <2>1. CASE s = <<"rmvdisk">>
    BY <1>1, <1>3, <2>1 DEF UndoSteps
  <2>2. CASE s = <<"stop", "rmvdisk">>
    BY <1>1, <1>4, <2>2 DEF UndoSteps, Plans
  <2>3. CASE s = <<"rmmap", "rmvdisk">>
    BY <1>1, <1>5, <2>3 DEF UndoSteps, Plans
  <2>4. CASE s = <<"stop", "rmmap", "rmvdisk">>
    BY <1>1, <1>6, <2>4 DEF UndoSteps, Plans
  <2> QED
    BY <2>1, <2>2, <2>3, <2>4 DEF Plans
<1> QED
  BY <1>2, <1>4, <1>5, <1>6, <1>7

LEMMA Facts ==
  ASSUME TypeInv, NEW p \in Procs, pc[p] # "idle"
  PROVE  /\ req[p] \in Request /\ Name(p) \in Names
         /\ mapId[p] \in MapIds \cup {NoId} /\ NoId \notin MapIds /\ ArrayInv
         /\ pc[p] \in {"startmap", "lsCreated", "restart", "stopmap", "poll", "rmmap"}
              => mapId[p] \in MapIds
<1>1. req[p] \in Request /\ mapId[p] \in MapIds \cup {NoId} /\ ArrayInv /\ NoId \notin MapIds
  BY VolumesAssumption DEF VolumesAssumption, TypeInv, TypeOK, ArrayInv
<1>2. pc[p] \in {"startmap", "lsCreated", "restart", "stopmap", "poll", "rmmap"} => mapId[p] # NoId
  BY DEF TypeInv, TypeOK
<1> QED
  BY <1>1, <1>2, Requests DEF Name

(* What every step of a handler has in common: it changes its own locals,  *)
(* and on success the history.                                             *)
LEMMA GoFacts ==
  ASSUME TypeInv, NEW p \in Procs, NEW l, Go(p, l)
  PROVE  /\ pc' = [pc EXCEPT ![p] = l] /\ pc'[p] = l /\ \A q \in Procs : q # p => pc'[q] = pc[q]
         /\ clouded' = clouded
         /\ promised' = promised \/ promised' = promised \cup {Name(p)}
         /\ promised' # promised =>
              l = "ok" /\ p \notin clouded /\ (req[p].op \in {"create", "clone"} \/ p \in ready')
         /\ gone' = gone \/ gone' = gone \cup {Name(p)}
         /\ gone' # gone => l = "ok" /\ p \notin clouded /\ ~Creating(p)
  BY DEF Go, Name, Creating, TypeInv, TypeOK

LEMMA HandlerType ==
  ASSUME TypeInv, ArrayInv', NEW p \in Procs, pc[p] # "idle", NEW l \in Labels \ {"idle"}, Go(p, l),
         req' = req,
         mapId' \in [Procs -> MapIds \cup {NoId}], \A q \in Procs : q # p => mapId'[q] = mapId[q],
         l \in {"startmap", "lsCreated", "restart", "lsSnapSource", "stopmap", "poll", "rmmap"}
           => mapId'[p] # NoId,
         ready' \subseteq Procs, aaSeen' \subseteq Procs,
         undo' \in [Procs -> Plans \cup {<<>>}], \A q \in Procs : q # p => undo'[q] = undo[q],
         l = "undo" => undo'[p] \in Plans,
         polls' \in [Procs -> 0..MaxPolls], \A q \in Procs : q # p => polls'[q] = polls[q],
         l \in {"lsTarget", "lsSnapSource", "stopmap"} => polls'[p] = 0,
         l = "poll" => polls'[p] < MaxPolls,
         spoilt' \subseteq Names, late' \subseteq Names, NEW o, Spend(o)
  PROVE  TypeInv'
<1>1. /\ pc' = [pc EXCEPT ![p] = l] /\ pc'[p] = l /\ \A q \in Procs : q # p => pc'[q] = pc[q]
      /\ clouded' = clouded
      /\ promised' = promised \/ promised' = promised \cup {Name(p)}
      /\ gone' = gone \/ gone' = gone \cup {Name(p)}
  BY GoFacts
<1>2. Name(p) \in Names
  BY Facts
<1>3. calls' \in 0..MaxCalls /\ faults' \in 0..MaxFaults
  BY VolumesAssumption DEF VolumesAssumption, Spend, TypeInv, TypeOK
<1>4. \A q \in Procs : /\ Len(undo'[q]) \in 0..3
                       /\ \A i \in 1..Len(undo'[q]) : undo'[q][i] \in UndoSteps
  BY PlanFacts
<1>5. /\ pc' \in [Procs -> Labels] /\ req' \in [Procs -> Request \cup {NoRequest}]
      /\ \A q \in Procs : pc'[q] # "idle" => req'[q] \in Request
      /\ promised' \subseteq Names /\ gone' \subseteq Names /\ clouded' \subseteq Procs
  BY <1>1, <1>2 DEF TypeInv, TypeOK
<1>6. \A q \in Procs : pc'[q] \in {"startmap", "lsCreated", "restart", "stopmap", "poll", "rmmap"}
                         => mapId'[q] # NoId
  BY <1>1 DEF TypeInv, TypeOK
<1>7. TypeOK'
  BY <1>3, <1>4, <1>5, <1>6 DEF TypeOK, ArrayInv
<1>8. PollOK' /\ UndoOK'
  BY <1>1 DEF TypeInv, PollOK, UndoOK
<1> QED
  BY <1>7, <1>8 DEF TypeInv, ArrayInv

(* A query leaves the array alone. *)
LEMMA SameArray ==
  ASSUME TypeInv, UNCHANGED copyVars
  PROVE  ArrayInv' /\ Live' = Live /\ lcmaps' = lcmaps /\ vdisks' = vdisks /\ aa' = aa /\ whole' = whole
<1>1. lcmaps' = lcmaps /\ vdisks' = vdisks /\ aa' = aa /\ whole' = whole
  BY DEF copyVars
<1> QED
  BY <1>1 DEF TypeInv, TypeOK, ArrayInv, CopiesTypeOK, MapEnds, Live

(* What the history notes of a command. *)
LEMMA NoteFacts ==
  ASSUME TypeInv, NEW p \in Procs, pc[p] # "idle", Note(p)
  PROVE  /\ spoilt \subseteq spoilt' /\ spoilt' \subseteq Names /\ late' \subseteq Names
         /\ pc[p] # "mklcmap" \/ UNCHANGED copyVars => late' = late
         /\ pc[p] = "mklcmap" /\ lcmaps' # lcmaps =>
              /\ MayGo(req[p].src) => Name(p) \in late'
              /\ \A n : n # Name(p) => (n \in late' <=> n \in late)
         /\ pc[p] = "undo" /\ faults' # faults => Name(p) \in spoilt'
         /\ \A m \in Live : lcmaps[m].tgt # Name(p) /\ lcmaps'[m] # lcmaps[m] =>
              lcmaps[m].tgt \in spoilt' \/ (vdisks' # vdisks /\ lcmaps[m].tgt \notin late)
<1>1. req[p].name \in Names /\ ArrayInv
  BY Facts DEF Name
<1>2. spoilt \subseteq Names /\ late \subseteq Names
  BY DEF TypeInv, TypeOK
<1>3. Hit(p) \subseteq Names
  BY DEF Hit
<1>4. \A m \in Live : lcmaps[m].tgt \in Names
  BY <1>1, MapFields DEF ArrayInv
<1>5. ASSUME NEW m \in Live, lcmaps[m].tgt # Name(p), lcmaps'[m] # lcmaps[m],
             ~(vdisks' # vdisks /\ lcmaps[m].tgt \notin late)
      PROVE  lcmaps[m].tgt \in Hit(p)
  BY <1>4, <1>5 DEF Hit, MapsTo, Name
<1>6. /\ spoilt \subseteq spoilt' /\ spoilt' \subseteq Names /\ Hit(p) \subseteq spoilt'
      /\ pc[p] = "undo" /\ faults' # faults => Name(p) \in spoilt'
  BY <1>1, <1>2, <1>3 DEF Note, Name
<1>7. /\ late' \subseteq Names
      /\ pc[p] # "mklcmap" \/ UNCHANGED copyVars => late' = late
      /\ pc[p] = "mklcmap" /\ lcmaps' # lcmaps =>
           /\ MayGo(req[p].src) => Name(p) \in late'
           /\ \A n : n # Name(p) => (n \in late' <=> n \in late)
  BY <1>1, <1>2 DEF Note, Name, copyVars
<1> QED
  BY <1>5, <1>6, <1>7

LEMMA CommandArray ==
  ASSUME TypeInv, NEW p \in Procs, Command(p)
  PROVE  ArrayInv' /\ pc[p] # "idle"
<1>1. pc[p] # "idle"
  BY DEF Command, Undo, MkVol, MkLcmap, StartLcmap, LsTarget, Restart, LsSource, LsDetail, LsCreated,
         LsVol, LsMaps, RmVolume, RmVdisk, LsSnapSource, StopLcmap, PollLcmap, RmLcmap
<1>2. /\ req[p] \in Request /\ req[p].name \in Names /\ ArrayInv
      /\ req[p].op \in {"clone", "snap"} => req[p].src \in Names
  BY <1>1, Facts, Requests DEF Name
<1>3. UNCHANGED copyVars => ArrayInv'
  BY SameArray
<1>4. ASSUME NEW m, StartAccepted(m), StartApply(m) PROVE ArrayInv'
  BY <1>2, <1>4, SetStatusFacts DEF StartAccepted, StartApply, Statuses
<1>5. ASSUME NEW m, StopAccepted(m), StopApply(m) PROVE ArrayInv'
  BY <1>2, <1>5, SetStatusFacts DEF StopAccepted, StopApply, Statuses
<1>6. ASSUME NEW m, RmMapApply(m) PROVE ArrayInv'
  BY <1>2, <1>6, RmMapFacts
<1>7. ASSUME NEW n, RmVolApply(n) PROVE ArrayInv'
  BY <1>2, <1>7, RmVolFacts
<1>8. CASE MkVol(p)
  <2>1. UNCHANGED copyVars \/ MkVolApply(req[p].name, req[p].level, req[p].op = "create")
    BY <1>8 DEF MkVol, Send
  <2> QED
    BY <1>1, <1>2, <1>3, <2>1, MkVolFacts
<1>9. CASE MkLcmap(p)
  <2>1. \/ UNCHANGED copyVars
        \/ \E m \in MapIds \ Live : /\ MkMapAccepted(req[p].src, req[p].name)
                                    /\ MkMapApply(m, req[p].src, req[p].name, req[p].op = "clone")
    BY <1>9 DEF MkLcmap
  <2>2. ASSUME NEW m \in MapIds \ Live, MkMapAccepted(req[p].src, req[p].name),
               MkMapApply(m, req[p].src, req[p].name, req[p].op = "clone")
        PROVE  ArrayInv'
    <3>1. req[p].src \in Names
      BY <2>2 DEF MkMapAccepted, TypeInv, TypeOK, CopiesTypeOK
    <3> QED
      BY <1>2, <2>2, <3>1, MkMapFacts
  <2> QED
    BY <1>1, <1>3, <2>1, <2>2
<1>10. CASE StartLcmap(p) \/ Restart(p)
  <2>1. UNCHANGED copyVars \/ (StartAccepted(mapId[p]) /\ StartApply(mapId[p]))
    BY <1>10 DEF StartLcmap, Restart, Send
  <2> QED
    BY <1>1, <1>3, <1>4, <2>1
<1>11. CASE StopLcmap(p)
  <2>1. UNCHANGED copyVars \/ (StopAccepted(mapId[p]) /\ StopApply(mapId[p]))
    BY <1>11 DEF StopLcmap, Send
  <2> QED
    BY <1>1, <1>3, <1>5, <2>1
<1>12. CASE RmLcmap(p)
  <2>1. UNCHANGED copyVars \/ RmMapApply(mapId[p])
    BY <1>12 DEF RmLcmap, Send
  <2> QED
    BY <1>1, <1>3, <1>6, <2>1
<1>13. CASE RmVolume(p) \/ RmVdisk(p)
  <2>1. UNCHANGED copyVars \/ RmVolApply(req[p].name)
    BY <1>13 DEF RmVolume, RmVdisk, Send
  <2> QED
    BY <1>1, <1>3, <1>7, <2>1
<1>14. CASE Undo(p)
  <2>1. Head(undo[p]) \in UndoSteps
    BY <1>14, PlanFacts DEF Undo, TypeInv, UndoOK
  <2>2. \/ UNCHANGED copyVars \/ (StopAccepted(mapId[p]) /\ StopApply(mapId[p]))
        \/ RmMapApply(mapId[p]) \/ RmVolApply(req[p].name)
    BY <1>14, <2>1 DEF Undo, Send, UndoSteps
  <2> QED
    BY <1>1, <1>3, <1>5, <1>6, <1>7, <2>2
<1>15. CASE LsTarget(p) \/ LsSource(p) \/ LsDetail(p) \/ LsCreated(p) \/ LsVol(p) \/ LsMaps(p)
            \/ LsSnapSource(p) \/ PollLcmap(p)
  <2>1. UNCHANGED copyVars
    BY <1>15 DEF LsTarget, LsSource, LsDetail, LsCreated, LsVol, LsMaps, LsSnapSource, PollLcmap
  <2> QED
    BY <1>1, <1>3, <2>1
<1> QED
  BY <1>8, <1>9, <1>10, <1>11, <1>12, <1>13, <1>14, <1>15 DEF Command

LEMMA CommandType ==
  ASSUME TypeInv, NEW p \in Procs, Step(p)
  PROVE  TypeInv'
<1>1. ArrayInv' /\ pc[p] # "idle"
  BY CommandArray DEF Step
<1>2. /\ mapId \in [Procs -> MapIds \cup {NoId}] /\ undo \in [Procs -> Plans \cup {<<>>}]
      /\ polls \in [Procs -> 0..MaxPolls] /\ ready \subseteq Procs /\ aaSeen \subseteq Procs
      /\ spoilt' \subseteq Names /\ late' \subseteq Names /\ NoId \notin MapIds /\ MaxPolls \in Nat \ {0}
  BY <1>1, VolumesAssumption, NoteFacts DEF VolumesAssumption, TypeInv, TypeOK, UndoOK, Step
<1>3. /\ pc[p] \in {"startmap", "lsCreated", "restart", "lsSnapSource", "stopmap", "poll", "rmmap"}
           => mapId[p] # NoId
      /\ pc[p] \in {"lsTarget", "lsSnapSource", "stopmap"} => polls[p] = 0
      /\ pc[p] = "poll" => polls[p] < MaxPolls
  BY DEF TypeInv, TypeOK, PollOK
<1>4. ASSUME NEW l \in Labels \ {"idle"}, Go(p, l), UNCHANGED <<req, mapId, undo, polls>>,
             l \in {"startmap", "lsCreated", "restart", "lsSnapSource", "stopmap", "poll", "rmmap"}
               => mapId[p] # NoId,
             ready' \subseteq Procs, aaSeen' \subseteq Procs, l # "undo",
             l \in {"lsTarget", "lsSnapSource", "stopmap"} => polls[p] = 0,
             l = "poll" => polls[p] < MaxPolls,
             NEW o, Spend(o)
      PROVE  TypeInv'
  BY <1>1, <1>2, <1>4, HandlerType
<1>5. ASSUME NEW plan \in Plans, FailTo(p, plan), UNCHANGED <<req, mapId, polls>>,
             ready' \subseteq Procs, aaSeen' \subseteq Procs, NEW o, Spend(o)
      PROVE  TypeInv'
  <2>1. Go(p, "undo") /\ undo' = [undo EXCEPT ![p] = plan] /\ "undo" \in Labels \ {"idle"}
    BY <1>5 DEF FailTo, Labels
  <2>2. undo' \in [Procs -> Plans \cup {<<>>}] /\ undo'[p] = plan /\ \A q \in Procs : q # p => undo'[q] = undo[q]
    BY <1>2, <2>1
  <2> QED
    BY <1>1, <1>2, <1>5, <2>1, <2>2, HandlerType
<1>6. ASSUME NEW m \in MapIds, mapId' = [mapId EXCEPT ![p] = m], NEW l \in Labels \ {"idle"}, Go(p, l),
             UNCHANGED <<req, undo>>, l # "undo", ready' \subseteq Procs, aaSeen' \subseteq Procs,
             polls' \in [Procs -> 0..MaxPolls], \A q \in Procs : q # p => polls'[q] = polls[q],
             l \in {"lsTarget", "lsSnapSource", "stopmap"} => polls'[p] = 0,
             l = "poll" => polls'[p] < MaxPolls, NEW o, Spend(o)
      PROVE  TypeInv'
  <2>1. mapId' \in [Procs -> MapIds \cup {NoId}] /\ mapId'[p] = m /\ \A q \in Procs : q # p => mapId'[q] = mapId[q]
    BY <1>2, <1>6
  <2> QED
    BY <1>1, <1>2, <1>6, <2>1, HandlerType
<1>7. /\ <<"rmvdisk">> \in Plans /\ <<"stop", "rmvdisk">> \in Plans
      /\ <<"rmmap", "rmvdisk">> \in Plans /\ <<"stop", "rmmap", "rmvdisk">> \in Plans
  BY DEF Plans
<1>8. CASE MkVol(p)
  <2>1. \E l \in {"err", "ok", "mklcmap"}, o \in Outcomes : Go(p, l) /\ Spend(o)
    BY <1>8 DEF MkVol, Send
  <2>2. UNCHANGED <<req, mapId, undo, polls, ready, aaSeen>>
    BY <1>8 DEF MkVol
  <2> QED
    BY <1>2, <1>4, <2>1, <2>2 DEF Labels
<1>9. CASE MkLcmap(p)
  <2>1. UNCHANGED <<req, ready, aaSeen, polls>>
    BY <1>9 DEF MkLcmap
  <2>2. PICK o \in Outcomes :
          /\ Spend(o)
          /\ \/ \E m \in MapIds : mapId' = [mapId EXCEPT ![p] = m] /\ Go(p, "startmap") /\ UNCHANGED undo
             \/ FailTo(p, <<"rmvdisk">>) /\ UNCHANGED mapId
    BY <1>9 DEF MkLcmap
  <2>3. CASE FailTo(p, <<"rmvdisk">>) /\ UNCHANGED mapId
    BY <1>2, <1>5, <1>7, <2>1, <2>2, <2>3
  <2>4. CASE \E m \in MapIds : mapId' = [mapId EXCEPT ![p] = m] /\ Go(p, "startmap") /\ UNCHANGED undo
    BY <1>2, <1>6, <2>1, <2>2, <2>4 DEF Labels
  <2> QED
    BY <2>2, <2>3, <2>4
<1>10. CASE StartLcmap(p)
  <2>1. UNCHANGED <<req, mapId, ready, aaSeen, polls>> /\ pc[p] = "startmap"
    BY <1>10 DEF StartLcmap
  <2>2. PICK o \in Outcomes :
          /\ Spend(o)
          /\ \/ \E l \in {"lsCreated", "ok"} : Go(p, l) /\ UNCHANGED undo
             \/ FailTo(p, <<"rmmap", "rmvdisk">>) \/ FailTo(p, <<"stop", "rmvdisk">>)
    BY <1>10 DEF StartLcmap, Send
  <2>3. CASE FailTo(p, <<"rmmap", "rmvdisk">>) \/ FailTo(p, <<"stop", "rmvdisk">>)
    BY <1>2, <1>5, <1>7, <2>1, <2>2, <2>3
  <2>4. CASE \E l \in {"lsCreated", "ok"} : Go(p, l) /\ UNCHANGED undo
    BY <1>2, <1>3, <1>4, <2>1, <2>2, <2>4 DEF Labels
  <2> QED
    BY <2>2, <2>3, <2>4
<1>11. CASE LsTarget(p)
  <2>1. UNCHANGED <<req, undo, aaSeen, polls>> /\ polls[p] = 0 /\ ready' \subseteq Procs
    BY <1>2, <1>3, <1>11 DEF LsTarget
  <2>2. PICK reply \in Replies :
          /\ Spend(reply)
          /\ \/ UNCHANGED mapId /\ \E l \in {"err", "lsSource", "ok"} : Go(p, l)
             \/ \E m \in MapIds : /\ mapId' = [mapId EXCEPT ![p] = m]
                                  /\ \E l \in {"restart", "ok", "lsSnapSource"} : Go(p, l)
    <3>1. \A n : MapsTo(n) \subseteq MapIds
      BY DEF MapsTo, Live
    <3> QED
      BY <1>11, <3>1 DEF LsTarget
  <2>3. CASE UNCHANGED mapId /\ \E l \in {"err", "lsSource", "ok"} : Go(p, l)
    BY <1>2, <1>4, <2>1, <2>2, <2>3 DEF Labels
  <2>4. CASE \E m \in MapIds : /\ mapId' = [mapId EXCEPT ![p] = m]
                               /\ \E l \in {"restart", "ok", "lsSnapSource"} : Go(p, l)
    BY <1>2, <1>6, <2>1, <2>2, <2>4 DEF Labels
  <2> QED
    BY <2>2, <2>3, <2>4
<1>12. CASE Restart(p) \/ LsSource(p) \/ LsDetail(p) \/ LsMaps(p) \/ RmVolume(p) \/ RmVdisk(p)
            \/ LsSnapSource(p) \/ StopLcmap(p) \/ RmLcmap(p)
  <2>1. UNCHANGED <<req, mapId, ready, undo, aaSeen, polls>>
    BY <1>12 DEF Restart, LsSource, LsDetail, LsMaps, RmVolume, RmVdisk, LsSnapSource, StopLcmap, RmLcmap
  <2>2. PICK l \in {"ok", "err", "detail", "mkvol", "rmvolume", "rmvdisk", "stopmap", "poll"},
               o \in Outcomes \cup Replies :
          /\ Go(p, l) /\ Spend(o)
          /\ l = "stopmap" => pc[p] = "lsSnapSource"
          /\ l = "poll" => pc[p] = "stopmap"
    <3>1. CASE Restart(p) \/ StopLcmap(p) \/ RmLcmap(p)
      BY <3>1 DEF Restart, StopLcmap, RmLcmap, Send
    <3>2. CASE LsSource(p) \/ LsDetail(p)
      BY <3>2 DEF LsSource, LsDetail
    <3>3. CASE LsMaps(p) \/ LsSnapSource(p)
      BY <3>3 DEF LsMaps, LsSnapSource
    <3>4. CASE RmVolume(p) \/ RmVdisk(p)
      BY <3>4 DEF RmVolume, RmVdisk, Send
    <3> QED
      BY <1>12, <3>1, <3>2, <3>3, <3>4
  <2> QED
    BY <1>2, <1>3, <1>4, <2>1, <2>2 DEF Labels
<1>13. CASE LsCreated(p)
  <2>1. UNCHANGED <<req, mapId, aaSeen, polls>> /\ ready' \subseteq Procs
    BY <1>2, <1>13 DEF LsCreated
  <2>2. PICK reply \in Replies :
          /\ Spend(reply)
          /\ FailTo(p, <<"stop", "rmmap", "rmvdisk">>) \/ (Go(p, "ok") /\ UNCHANGED undo)
    BY <1>13 DEF LsCreated
  <2>3. CASE FailTo(p, <<"stop", "rmmap", "rmvdisk">>)
    BY <1>2, <1>5, <1>7, <2>1, <2>2, <2>3
  <2>4. CASE Go(p, "ok") /\ UNCHANGED undo
    BY <1>2, <1>4, <2>1, <2>2, <2>4 DEF Labels
  <2> QED
    BY <2>2, <2>3, <2>4
<1>14. CASE LsVol(p)
  <2>1. UNCHANGED <<req, mapId, undo, ready, polls>> /\ aaSeen' \subseteq Procs
    BY <1>2, <1>14 DEF LsVol
  <2>2. \E l \in {"err", "lsMaps", "ok"}, o \in Replies : Go(p, l) /\ Spend(o)
    BY <1>14 DEF LsVol
  <2> QED
    BY <1>2, <1>4, <2>1, <2>2 DEF Labels
<1>15. CASE PollLcmap(p)
  <2>1. /\ UNCHANGED <<req, undo, ready, aaSeen>> /\ polls' = [polls EXCEPT ![p] = @ + 1]
        /\ pc[p] = "poll"
    BY <1>15 DEF PollLcmap
  <2>2. /\ polls' \in [Procs -> 0..MaxPolls] /\ polls'[p] = polls[p] + 1
        /\ \A q \in Procs : q # p => polls'[q] = polls[q]
    BY <1>2, <1>3, <2>1
  <2>3. PICK reply \in Replies :
          /\ Spend(reply)
          /\ \/ UNCHANGED mapId /\ Go(p, "rmmap")
             \/ \E m \in MapIds :
                  /\ mapId' = [mapId EXCEPT ![p] = m]
                  /\ Go(p, "rmmap") \/ (Go(p, "poll") /\ polls[p] + 1 # MaxPolls)
    <3>1. \A n : MapsTo(n) \subseteq MapIds
      BY DEF MapsTo, Live
    <3> QED
      BY <1>15, <3>1 DEF PollLcmap
  <2>4. CASE UNCHANGED mapId /\ Go(p, "rmmap")
    BY <1>1, <1>2, <1>3, <2>1, <2>2, <2>3, <2>4, HandlerType DEF Labels
  <2>5. CASE \E m \in MapIds :
                  /\ mapId' = [mapId EXCEPT ![p] = m]
                  /\ Go(p, "rmmap") \/ (Go(p, "poll") /\ polls[p] + 1 # MaxPolls)
    <3>1. polls[p] + 1 # MaxPolls => polls'[p] < MaxPolls
      BY <1>2, <1>3, <2>1, <2>2
    <3>2. \E m \in MapIds, l \in {"rmmap", "poll"} :
            mapId' = [mapId EXCEPT ![p] = m] /\ Go(p, l) /\ (l = "poll" => polls'[p] < MaxPolls)
      BY <2>5, <3>1
    <3> QED
      BY <1>2, <1>6, <2>1, <2>2, <2>3, <3>2 DEF Labels
  <2> QED
    BY <2>3, <2>4, <2>5
<1>16. CASE Undo(p)
  <2>1. /\ UNCHANGED <<req, mapId, ready, aaSeen, polls>> /\ undo[p] \in Plans
        /\ undo' = [undo EXCEPT ![p] = Tail(undo[p])]
    BY <1>16 DEF Undo, TypeInv, UndoOK
  <2>2. /\ Tail(undo[p]) \in Plans \cup {<<>>} /\ (Len(undo[p]) > 1 => Tail(undo[p]) \in Plans)
    BY <2>1, PlanFacts
  <2>3. /\ undo' \in [Procs -> Plans \cup {<<>>}] /\ undo'[p] = Tail(undo[p])
        /\ \A q \in Procs : q # p => undo'[q] = undo[q]
    BY <1>2, <2>1, <2>2
  <2>4. PICK l \in {"undo", "ok", "err"} : Go(p, l) /\ (l = "undo" => Len(undo[p]) > 1)
    BY <1>16 DEF Undo
  <2>5. PICK o \in Outcomes : Spend(o)
    <3>1. Head(undo[p]) \in UndoSteps
      BY <2>1, PlanFacts
    <3> QED
      BY <1>16, <3>1 DEF Undo, Send, UndoSteps
  <2> QED
    BY <1>1, <1>2, <2>1, <2>2, <2>3, <2>4, <2>5, HandlerType DEF Labels
<1> QED
  BY <1>8, <1>9, <1>10, <1>11, <1>12, <1>13, <1>14, <1>15, <1>16 DEF Step, Command

LEMMA CallerType ==
  ASSUME TypeInv, NEW p \in Procs, Call(p) \/ Retry(p) \/ Done(p) \/ Kill(p)
  PROVE  TypeInv'
<1>1. UNCHANGED copyVars
  BY DEF Call, Retry, Begin, Done, Kill
<1>2. ArrayInv'
  BY <1>1, SameArray
<1>3. /\ MaxCalls \in Nat /\ MaxFaults \in Nat /\ MaxPolls \in Nat /\ MaxPolls > 0
  BY VolumesAssumption DEF VolumesAssumption
<1>4. ASSUME undo' = [undo EXCEPT ![p] = <<>>] \/ undo' = undo
      PROVE  /\ undo' \in [Procs -> Plans \cup {<<>>}]
             /\ \A q \in Procs : q # p => undo'[q] = undo[q]
             /\ \A q \in Procs : /\ Len(undo'[q]) \in 0..3
                                 /\ \A i \in 1..Len(undo'[q]) : undo'[q][i] \in UndoSteps
  <2>1. undo' \in [Procs -> Plans \cup {<<>>}] /\ \A q \in Procs : q # p => undo'[q] = undo[q]
    BY <1>4 DEF TypeInv, UndoOK
  <2> QED
    BY <2>1, PlanFacts
<1>5. ASSUME NEW r \in Request, Begin(p, r), calls' \in 0..MaxCalls
      PROVE  TypeInv'
  <2>1. FirstLabel(r) \in {"mkvol", "lsTarget", "lsVol"}
    BY Requests DEF FirstLabel
  <2>2. /\ pc' \in [Procs -> Labels] /\ pc'[p] \in {"mkvol", "lsTarget", "lsVol"}
        /\ \A q \in Procs : q # p => pc'[q] = pc[q]
    BY <1>5, <2>1 DEF Begin, TypeInv, TypeOK, Labels
  <2>3. /\ req' \in [Procs -> Request \cup {NoRequest}] /\ req'[p] \in Request
        /\ \A q \in Procs : q # p => req'[q] = req[q] /\ mapId'[q] = mapId[q] /\ polls'[q] = polls[q]
        /\ mapId' \in [Procs -> MapIds \cup {NoId}] /\ polls' \in [Procs -> 0..MaxPolls] /\ polls'[p] = 0
        /\ undo' = [undo EXCEPT ![p] = <<>>] /\ faults' \in 0..MaxFaults
    BY <1>3, <1>5 DEF Begin, TypeInv, TypeOK
  <2>4. /\ ready' \subseteq Procs /\ aaSeen' \subseteq Procs /\ promised' \subseteq Names /\ gone' \subseteq Names
        /\ clouded' \subseteq Procs /\ spoilt' \subseteq Names /\ late' \subseteq Names
    <3>1. ready' \subseteq Procs /\ aaSeen' \subseteq Procs /\ spoilt' \subseteq Names /\ late' \subseteq Names
      BY <1>5 DEF Begin, TypeInv, TypeOK
    <3>2. promised' \subseteq promised /\ gone' \subseteq gone
      BY <1>5 DEF Begin
    <3>3. clouded' \subseteq Procs
      BY <1>5 DEF Begin, TypeInv, TypeOK
    <3> QED
      BY <3>1, <3>2, <3>3 DEF TypeInv, TypeOK
  <2>5. TypeOK'
    BY <1>2, <1>4, <1>5, <2>2, <2>3, <2>4 DEF TypeInv, TypeOK, ArrayInv
  <2>6. PollOK' /\ UndoOK'
    BY <1>4, <2>2, <2>3 DEF TypeInv, PollOK, UndoOK
  <2> QED
    BY <1>2, <2>5, <2>6 DEF TypeInv, ArrayInv
<1>6. CASE Call(p)
  <2>1. calls' \in 0..MaxCalls /\ \E r \in Request : Begin(p, r)
    BY <1>3, <1>6 DEF Call, TypeInv, TypeOK
  <2> QED
    BY <1>5, <2>1
<1>7. CASE Retry(p)
  <2>1. calls' \in 0..MaxCalls /\ req[p] \in Request /\ Begin(p, req[p])
    BY <1>7 DEF Retry, TypeInv, TypeOK
  <2> QED
    BY <1>5, <2>1
<1>8. CASE Done(p)
  <2>1. /\ pc' \in [Procs -> Labels] /\ pc'[p] = "idle" /\ \A q \in Procs : q # p => pc'[q] = pc[q]
    BY <1>8 DEF Done, TypeInv, TypeOK, Labels
  <2>2. /\ req' \in [Procs -> Request \cup {NoRequest}]
        /\ \A q \in Procs : q # p => req'[q] = req[q] /\ mapId'[q] = mapId[q] /\ polls'[q] = polls[q]
        /\ mapId' \in [Procs -> MapIds \cup {NoId}] /\ polls' \in [Procs -> 0..MaxPolls]
        /\ undo' = [undo EXCEPT ![p] = <<>>]
        /\ ready' \subseteq Procs /\ aaSeen' \subseteq Procs /\ clouded' \subseteq Procs
        /\ UNCHANGED <<promised, gone, spoilt, late, calls, faults>>
    BY <1>3, <1>8 DEF Done, TypeInv, TypeOK
  <2>3. TypeOK'
    BY <1>2, <1>4, <2>1, <2>2 DEF TypeInv, TypeOK, ArrayInv
  <2>4. PollOK' /\ UndoOK'
    BY <1>4, <2>1, <2>2 DEF TypeInv, PollOK, UndoOK
  <2> QED
    BY <1>2, <2>3, <2>4 DEF TypeInv, ArrayInv
<1>9. CASE Kill(p)
  <2>1. /\ pc' \in [Procs -> Labels] /\ pc'[p] = "err" /\ \A q \in Procs : q # p => pc'[q] = pc[q]
        /\ pc[p] # "idle" /\ faults' \in 0..MaxFaults
    BY <1>3, <1>9 DEF Kill, TypeInv, TypeOK, Labels, Running
  <2>2. UNCHANGED <<req, mapId, ready, undo, aaSeen, polls, promised, gone, clouded, late, calls>>
    BY <1>9 DEF Kill
  <2>3. spoilt' \subseteq Names
    <3>1. spoilt' = spoilt \/ spoilt' = spoilt \cup {Name(p)}
      BY <1>9 DEF Kill, Name
    <3> QED
      BY <2>1, <3>1, Facts DEF TypeInv, TypeOK
  <2>4. TypeOK'
    BY <1>2, <1>4, <2>1, <2>2, <2>3 DEF TypeInv, TypeOK, ArrayInv
  <2>5. PollOK' /\ UndoOK'
    BY <1>4, <2>1, <2>2 DEF TypeInv, PollOK, UndoOK
  <2> QED
    BY <1>2, <2>4, <2>5 DEF TypeInv, ArrayInv
<1> QED
  BY <1>6, <1>7, <1>8, <1>9

LEMMA TypeStep ==
  ASSUME TypeInv, [Next]_vars
  PROVE  TypeInv'
<1>1. ASSUME ArrayInv', UNCHANGED <<pc, req, mapId, ready, undo, aaSeen, polls, histVars, calls, faults>>
      PROVE  TypeInv'
  BY <1>1 DEF TypeInv, TypeOK, ArrayInv, PollOK, UndoOK, histVars
<1>2. CASE Array
  BY <1>1, <1>2, ArrayFacts DEF Array, TypeInv, TypeOK, ArrayInv
<1>3. CASE UNCHANGED vars
  BY <1>1, <1>3, SameArray DEF vars, histVars
<1> QED
  BY <1>2, <1>3, CallerType, CommandType DEF Next, Rest

LEMMA InitType == Init => TypeInv
<1> SUFFICES ASSUME Init PROVE TypeInv
  OBVIOUS
<1>1. CopiesTypeOK /\ MapEnds
  BY DEF Init, CopiesInit, CopiesTypeOK, MapEnds, Live
<1>2. /\ MaxCalls \in Nat /\ MaxFaults \in Nat /\ MaxPolls \in Nat /\ MaxPolls > 0
  BY VolumesAssumption DEF VolumesAssumption
<1>3. UndoOK /\ \A p \in Procs : undo[p] = <<>> /\ pc[p] = "idle"
  BY DEF Init, UndoOK
<1>4. PollOK
  BY <1>3 DEF PollOK
<1>5. \A p \in Procs : /\ Len(undo[p]) \in 0..3
                       /\ \A i \in 1..Len(undo[p]) : undo[p][i] \in UndoSteps
  BY <1>3, PlanFacts DEF UndoOK
<1>6. TypeOK
  BY <1>1, <1>2, <1>3, <1>5 DEF Init, TypeOK, Labels
<1> QED
  BY <1>1, <1>3, <1>4, <1>6 DEF TypeInv

(* The types: no poll after the last, no command for a map without its id, *)
(* a clean-up of at most three commands, content only in volumes that are  *)
(* there (DeleteSnapshot, CreateSnapshot, CloneVolume), whether requests   *)
(* are in flight together or not.                                          *)
THEOREM TypeCorrect == Spec => []TypeOK
<1>1. TypeInv /\ [Next]_vars => TypeInv'
  BY TypeStep
<1>2. TypeInv => TypeOK
  BY DEF TypeInv
<1> QED
  BY InitType, <1>1, <1>2, PTL DEF Spec

-----------------------------------------------------------------------------
(* What a step of a handler may change: its own locals, what is promised   *)
(* or gone of the name it serves, that volume and the maps that fill it;   *)
(* and it may hit the map of another name, which is then spoilt.           *)
LocalFrame(p) ==
  /\ req' = req /\ clouded' = clouded /\ Running(p) /\ pc'[p] # "idle"
  /\ \A q \in Procs : q # p => /\ pc'[q] = pc[q] /\ mapId'[q] = mapId[q] /\ undo'[q] = undo[q]
                               /\ q \in ready' <=> q \in ready
  /\ \/ promised' = promised
     \/ promised' = promised \cup {Name(p)} /\ p \notin clouded /\ Creating(p)
  /\ \/ gone' = gone
     \/ gone' = gone \cup {Name(p)} /\ p \notin clouded /\ ~Creating(p)
  /\ spoilt \subseteq spoilt' /\ (faults' = 0 => faults = 0)

Same(m) == Kept(m) /\ lcmaps'[m] = lcmaps[m]

ArrayFrame(p) ==
  /\ \A w : w # Name(p) => (w \in vdisks' <=> w \in vdisks) /\ (w \in whole => w \in whole')
  /\ \A m \in Live : lcmaps[m].tgt # Name(p) => Same(m) \/ lcmaps[m].tgt \in spoilt'
  /\ \A m \in Live' :
       \/ m \in Live /\ Kept(m) /\ (lcmaps[m].tgt \in late => lcmaps[m].tgt \in late')
       \/ /\ lcmaps'[m].tgt = Name(p) /\ lcmaps'[m].src = req[p].src
          /\ MayGo(req[p].src) => Name(p) \in late'
  /\ aa' \cap Snaps = {}

(* What is so of the name a handler serves. *)
OwnOK(n) ==
  /\ n \in promised \ spoilt => Readable(n)
  /\ n \in gone /\ (n \in Vols \/ (faults = 0 /\ n \notin spoilt)) => n \notin vdisks
  /\ n \in Snaps => StopOK(n) /\ BareOK(n)
  /\ \A m \in MapsTo(n) : lcmaps[m].auto = (n \in Vols)
  /\ \A m, k \in MapsTo(n) : m = k

Effect(p, n) == LocalFrame(p) /\ ArrayFrame(p) /\ OwnOK(n)' /\ HandlerOK(p)'

LEMMA OwnFacts ==
  ASSUME TypeInv, Inv, NEW p \in Procs, Running(p), NEW n, n = Name(p)
  PROVE  /\ n \in Names /\ OwnOK(n) /\ HandlerOK(p) /\ ArrayInv /\ req[p] \in Request
         /\ NoId \notin MapIds /\ mapId[p] \in MapIds \cup {NoId} /\ Active(p)
<1>1. pc[p] # "idle" /\ Active(p)
  BY DEF Running, Active
<1>2. /\ n \in Names /\ ArrayInv /\ req[p] \in Request /\ NoId \notin MapIds
      /\ mapId[p] \in MapIds \cup {NoId}
  BY <1>1, Facts
<1>3. HandlerOK(p) /\ MapsOK /\ PromiseKept /\ VolumesStayGone /\ (n \in Snaps => StopOK(n) /\ BareOK(n))
  BY DEF Inv
<1>4. /\ n \in promised \ spoilt => Readable(n)
      /\ n \in gone /\ (n \in Vols \/ (faults = 0 /\ n \notin spoilt)) => n \notin vdisks
  BY <1>3 DEF PromiseKept, VolumesStayGone
<1>5. /\ \A m \in MapsTo(n) : lcmaps[m].auto = (n \in Vols)
      /\ \A m, k \in MapsTo(n) : m = k
  BY <1>3 DEF MapsOK, MapsTo
<1> QED
  BY <1>1, <1>2, <1>3, <1>4, <1>5 DEF OwnOK

(* Other handlers at work are about other names. *)
LEMMA OtherNames ==
  ASSUME TypeInv, Inv, NEW p \in Procs, NEW q \in Procs, p # q, Running(p), Running(q)
  PROVE  Name(q) # Name(p) /\ Name(q) \in Names
BY Facts DEF Inv, Flight, Running

(* A handler whose name, map and promise others have left alone. *)
LEMMA SameHandler ==
  ASSUME TypeInv, NEW q \in Procs, HandlerOK(q), spoilt \subseteq spoilt',
         pc'[q] = pc[q], req'[q] = req[q], mapId'[q] = mapId[q], undo'[q] = undo[q],
         q \in ready' <=> q \in ready,
         Running(q) =>
           /\ MakingOK(q) => MakingOK(q)'
           /\ \A m \in Live' : lcmaps'[m].tgt = Name(q) => m \in MapsTo(Name(q)) /\ Kept(m)
           /\ HasMap(q) /\ Name(q) \notin spoilt' =>
                /\ Kept(mapId[q])
                /\ lcmaps[mapId[q]].status = "idle" <=> lcmaps'[mapId[q]].status = "idle"
  PROVE  HandlerOK(q)'
<1>1. Name(q)' = Name(q) /\ (HasMap(q)' <=> HasMap(q)) /\ (Running(q)' <=> Running(q))
  BY DEF Name, HasMap, Running
<1>2. LabelOK(q)' /\ MakingOK(q) /\ OwnMapOK(q)
  BY DEF HandlerOK, LabelOK
<1>3. CASE ~Running(q)
  <2>1. MakingOK(q)'
    BY <1>3 DEF MakingOK, Running
  <2>2. ~HasMap(q)
    BY <1>3 DEF HasMap, Running
  <2>3. OwnMapOK(q)'
    BY <1>1, <1>3, <2>2 DEF OwnMapOK, Running
  <2> QED
    BY <1>2, <2>1, <2>3 DEF HandlerOK
<1>4. CASE Running(q)
  <2>1. PICK n, m : n = Name(q) /\ m = mapId[q]
    OBVIOUS
  <2>2. MakingOK(q)'
    BY <1>2, <1>4
  <2>3. pc[q] \in {"startmap", "lsCreated"} => \A k \in MapsTo(n)' : lcmaps'[k].src = req[q].src
    BY <1>2, <1>4, <2>1 DEF OwnMapOK, MapsTo, Kept
  <2>4. HasMap(q) /\ n \notin spoilt' => /\ m \in MapsTo(n)'
                                         /\ lcmaps[m].status = "idle" <=> lcmaps'[m].status = "idle"
    BY <1>2, <1>4, <2>1 DEF OwnMapOK, Kept, MapsTo
  <2>5. pc[q] \in {"startmap", "lsCreated"} => HasMap(q)
    BY DEF HasMap
  <2>6. OwnMapOK(q)'
    BY <1>1, <1>2, <2>1, <2>3, <2>4, <2>5 DEF OwnMapOK
  <2> QED
    BY <1>2, <2>2, <2>6 DEF HandlerOK
<1> QED
  BY <1>3, <1>4

LEMMA EffectInv ==
  ASSUME TypeInv, TypeInv', Inv, NEW p \in Procs, NEW n, n = Name(p), Effect(p, n)
  PROVE  Inv'
<1>1. LocalFrame(p) /\ ArrayFrame(p) /\ OwnOK(n)' /\ HandlerOK(p)' /\ Running(p) /\ Active(p)
  BY DEF Effect, LocalFrame, Running, Active
<1>2. /\ \A q \in Procs : Name(q)' = Name(q) /\ Creating(q)' = Creating(q)
      /\ \A q \in Procs : q # p => pc'[q] = pc[q]
      /\ \A q \in Procs : Active(q)' => Active(q)
      /\ \A q \in Procs : Running(q)' => Running(q)
  BY <1>1 DEF LocalFrame, Name, Creating, Active, Running
<1>3. Flight'
  BY <1>2 DEF Inv, Flight
<1>4. Opposed' /\ AskedOK'
  <2>1. clouded' = clouded
    BY <1>1 DEF LocalFrame
  <2>2. Opposed'
    BY <1>2, <2>1 DEF Inv, Opposed
  <2>3. ASSUME NEW q \in Procs, Active(q)'
        PROVE  Name(q) \notin (IF Creating(q) THEN gone' ELSE promised')
    <3>1. Active(q) /\ Name(q) \notin (IF Creating(q) THEN gone ELSE promised)
      BY <1>2, <2>3 DEF Inv, AskedOK
    <3>2. Name(q) = Name(p) /\ (Creating(q) # Creating(p)) => p \in clouded
      BY <1>1, <3>1 DEF Inv, Opposed, Creating
    <3> QED
      BY <1>1, <3>1, <3>2 DEF LocalFrame, Creating
  <2> QED
    BY <1>2, <2>2, <2>3 DEF AskedOK
<1>5. MapsOK'
  <2>1. ASSUME NEW m \in Live', lcmaps'[m].tgt # n
        PROVE  m \in Live /\ Kept(m) /\ lcmaps[m].tgt # n
    BY <1>1, <2>1 DEF ArrayFrame, Kept
  <2>2. ASSUME NEW m \in Live' PROVE lcmaps'[m].auto = (lcmaps'[m].tgt \in Vols)
    <3>1. CASE lcmaps'[m].tgt = n
      BY <1>1, <3>1 DEF OwnOK, MapsTo
    <3>2. CASE lcmaps'[m].tgt # n
      BY <2>1, <3>2 DEF Inv, MapsOK, Kept
    <3> QED
      BY <3>1, <3>2
  <2>3. ASSUME NEW m \in Live', NEW k \in Live', lcmaps'[m].tgt = lcmaps'[k].tgt PROVE m = k
    <3>1. CASE lcmaps'[m].tgt = n
      BY <1>1, <2>3, <3>1 DEF OwnOK, MapsTo
    <3>2. CASE lcmaps'[m].tgt # n
      BY <2>1, <2>3, <3>2 DEF Inv, MapsOK, Kept
    <3> QED
      BY <3>1, <3>2
  <2> QED
    BY <1>1, <2>2, <2>3 DEF MapsOK, ArrayFrame
<1>6. ASSUME NEW w \in Snaps PROVE (StopOK(w) /\ BareOK(w))'
  <2>1. CASE w = n
    BY <1>1, <2>1 DEF OwnOK
  <2>2. CASE w # n
    <3>1. StopOK(w) /\ BareOK(w)
      BY DEF Inv
    <3>2. ASSUME NEW m \in Live', lcmaps'[m].tgt = w, w \notin spoilt'
          PROVE  m \in MapsTo(w) /\ Same(m)
      BY <1>1, <2>2, <3>2 DEF ArrayFrame, MapsTo, Kept
    <3>3. MapsTo(w)' = {} /\ w \notin spoilt' => MapsTo(w) = {}
      BY <1>1, <2>2 DEF ArrayFrame, MapsTo, Kept, Same
    <3>4. \A q \in Procs : Name(q) = w => pc'[q] = pc[q] /\ Name(q)' = w /\ Creating(q)' = Creating(q)
                                          /\ (Active(q)' <=> Active(q))
      BY <1>2, <2>2 DEF Active
    <3>5. StopOK(w)'
      <4> SUFFICES ASSUME NEW m \in Live', lcmaps'[m].tgt = w, lcmaps'[m].status \in {"stopping", "stopped"}
                   PROVE  \/ w \in spoilt'
                          \/ \E q \in Procs : Active(q)' /\ ~Creating(q)' /\ Name(q)' = w
                          \/ \E q \in Procs : pc'[q] = "undo" /\ Name(q)' = w
        BY DEF StopOK, MapsTo
      <4>1. CASE w \in spoilt'
        BY <4>1
      <4>2. CASE w \notin spoilt'
        <5>1. m \in MapsTo(w) /\ lcmaps[m].status \in {"stopping", "stopped"}
          BY <3>2, <4>2 DEF Same
        <5>2. spoilt \subseteq spoilt'
          BY <1>1 DEF LocalFrame
        <5> QED
          BY <3>1, <3>4, <4>2, <5>1, <5>2 DEF StopOK
      <4> QED
        BY <4>1, <4>2
    <3>6. BareOK(w)'
      <4>1. (faults' = 0 => faults = 0) /\ (w \in vdisks' <=> w \in vdisks) /\ spoilt \subseteq spoilt'
        BY <1>1, <2>2 DEF LocalFrame, ArrayFrame
      <4> QED
        BY <3>1, <3>3, <3>4, <4>1 DEF BareOK
    <3> QED
      BY <3>5, <3>6
  <2> QED
    BY <2>1, <2>2
<1>7. ASSUME NEW q \in Procs PROVE HandlerOK(q)'
  <2>1. CASE q # p
    <3>1. HandlerOK(q)
      BY DEF Inv
    <3>2. /\ pc'[q] = pc[q] /\ req'[q] = req[q] /\ mapId'[q] = mapId[q] /\ undo'[q] = undo[q]
          /\ q \in ready' <=> q \in ready
      BY <1>1, <2>1 DEF LocalFrame
    <3>3. spoilt \subseteq spoilt' /\ Name(q)' = Name(q)
      BY <1>1, <1>2 DEF LocalFrame
    <3>4. ASSUME Running(q)
          PROVE  /\ MakingOK(q) => MakingOK(q)'
                 /\ \A m \in Live' : lcmaps'[m].tgt = Name(q) => m \in MapsTo(Name(q)) /\ Kept(m)
                 /\ HasMap(q) /\ Name(q) \notin spoilt' =>
                      /\ Kept(mapId[q])
                      /\ lcmaps[mapId[q]].status = "idle" <=> lcmaps'[mapId[q]].status = "idle"
      <4>1. Name(q) # Name(p)
        BY <1>1, <2>1, <3>4, OtherNames
      <4>2. \A m \in Live' : lcmaps'[m].tgt = Name(q) => m \in MapsTo(Name(q)) /\ Kept(m)
        BY <1>1, <4>1 DEF ArrayFrame, MapsTo, Kept
      <4>3. HasMap(q) /\ Name(q) \notin spoilt' => Same(mapId[q])
        BY <1>1, <3>1, <3>3, <4>1 DEF ArrayFrame, HandlerOK, OwnMapOK, MapsTo
      <4>4. ASSUME pc[q] \in {"mklcmap", "startmap", "lsCreated", "undo", "stopmap", "poll", "rmmap",
                              "rmvdisk", "rmvolume"}, LateCopies(Name(q))
            PROVE  LateCopies(Name(q))'
        <5> SUFFICES ASSUME NEW m \in Live', lcmaps'[m].src = Name(q)
                     PROVE  lcmaps'[m].tgt \in late'
          BY <3>3 DEF LateCopies, MapsFrom
        <5>1. CASE m \in Live /\ Kept(m) /\ (lcmaps[m].tgt \in late => lcmaps[m].tgt \in late')
          BY <4>4, <5>1 DEF LateCopies, MapsFrom, Kept
        <5>2. CASE lcmaps'[m].tgt = Name(p) /\ lcmaps'[m].src = req[p].src /\ (MayGo(req[p].src) => Name(p) \in late')
          <6>1. MayGo(req[p].src)
            BY <4>4, <5>2 DEF MayGo, Name
          <6> QED
            BY <5>2, <6>1
        <5> QED
          BY <1>1, <5>1, <5>2 DEF ArrayFrame
      <4>5. Name(q) \in promised' \ spoilt' => Name(q) \in promised \ spoilt
        BY <1>1, <3>3, <4>1 DEF LocalFrame
      <4>6. MakingOK(q) => MakingOK(q)'
        BY <3>2, <3>3, <4>4, <4>5 DEF MakingOK
      <4> QED
        BY <4>2, <4>3, <4>6 DEF Same
    <3> QED
      BY <3>1, <3>2, <3>3, <3>4, SameHandler
  <2> QED
    BY <1>1, <2>1
<1>8. PromiseKept'
  <2> SUFFICES ASSUME NEW w \in promised' \ spoilt' PROVE Readable(w)'
    BY DEF PromiseKept
  <2>1. CASE w = n
    BY <1>1, <2>1 DEF OwnOK
  <2>2. CASE w # n
    <3>1. w \in promised \ spoilt
      BY <1>1, <2>2 DEF LocalFrame
    <3>2. Readable(w)
      BY <3>1 DEF Inv, PromiseKept
    <3>3. w \in vdisks' /\ (w \in whole => w \in whole')
      BY <1>1, <2>2, <3>2 DEF ArrayFrame, Readable
    <3>4. ASSUME NEW m \in MapsTo(w), lcmaps[m].status = "copying"
          PROVE  m \in Live' /\ lcmaps'[m].tgt = w /\ lcmaps'[m].status = "copying"
      BY <1>1, <2>2, <3>4 DEF ArrayFrame, MapsTo, Kept, Same
    <3> QED
      BY <3>2, <3>3, <3>4 DEF Readable, MapsTo
  <2> QED
    BY <2>1, <2>2
<1>9. VolumesStayGone'
  <2>1. ASSUME NEW w \in gone', w \in Vols \/ (faults' = 0 /\ w \notin spoilt') PROVE w \notin vdisks'
    <3>1. CASE w = n
      BY <1>1, <2>1, <3>1 DEF OwnOK
    <3>2. CASE w # n
      <4>1. w \in gone /\ (w \in Vols \/ (faults = 0 /\ w \notin spoilt)) /\ (w \in vdisks' <=> w \in vdisks)
        BY <1>1, <2>1, <3>2 DEF LocalFrame, ArrayFrame
      <4> QED
        BY <4>1 DEF Inv, VolumesStayGone
    <3> QED
      BY <3>1, <3>2
  <2> QED
    BY <2>1 DEF VolumesStayGone
<1> QED
  BY <1>3, <1>4, <1>5, <1>6, <1>7, <1>8, <1>9 DEF Inv
-----------------------------------------------------------------------------
(* The commands, one by one: each has the Effect of its handler.           *)

(* What the steps of a handler have in common. *)
LocalStep(p, l) ==
  /\ Running(p) /\ Go(p, l) /\ l # "idle" /\ req' = req
  /\ \A q \in Procs : q # p => /\ mapId'[q] = mapId[q] /\ undo'[q] = undo[q]
                               /\ q \in ready' <=> q \in ready
  /\ p \in ready' => Creating(p) /\ l = "ok"
  /\ spoilt \subseteq spoilt' /\ (faults' = 0 => faults = 0)

LEMMA SpendFacts ==
  ASSUME TypeInv, NEW o, Spend(o)
  PROVE  /\ faults' = 0 => faults = 0 /\ o = "done"
         /\ o = "done" => faults' = faults
  BY DEF Spend, TypeInv, TypeOK

LEMMA LocalStepFrame ==
  ASSUME TypeInv, NEW p \in Procs, NEW l, LocalStep(p, l)
  PROVE  LocalFrame(p)
<1>1. /\ pc'[p] = l /\ \A q \in Procs : q # p => pc'[q] = pc[q]
      /\ clouded' = clouded
      /\ promised' = promised \/ promised' = promised \cup {Name(p)}
      /\ promised' # promised =>
           l = "ok" /\ p \notin clouded /\ (req[p].op \in {"create", "clone"} \/ p \in ready')
      /\ gone' = gone \/ gone' = gone \cup {Name(p)}
      /\ gone' # gone => l = "ok" /\ p \notin clouded /\ ~Creating(p)
  BY GoFacts DEF LocalStep
<1>2. req[p].op \in {"create", "clone"} \/ p \in ready' => Creating(p)
  BY DEF LocalStep, Creating, Creates
<1> QED
  BY <1>1, <1>2 DEF LocalStep, LocalFrame

LEMMA SameArrayFrame ==
  ASSUME TypeInv, Inv, NEW p \in Procs, UNCHANGED copyVars, late' = late
  PROVE  /\ ArrayFrame(p)
         /\ \A n : /\ MapsTo(n)' = MapsTo(n) /\ MapsFrom(n)' = MapsFrom(n)
                   /\ (Readable(n)' <=> Readable(n)) /\ (LateCopies(n)' <=> LateCopies(n))
<1>1. Live' = Live /\ lcmaps' = lcmaps /\ vdisks' = vdisks /\ aa' = aa /\ whole' = whole
  BY SameArray
<1>2. \A n : MapsTo(n)' = MapsTo(n) /\ MapsFrom(n)' = MapsFrom(n)
  BY <1>1 DEF MapsTo, MapsFrom
<1>3. \A n : (Readable(n)' <=> Readable(n)) /\ (LateCopies(n)' <=> LateCopies(n))
  BY <1>1, <1>2 DEF Readable, LateCopies
<1>4. ArrayFrame(p)
  BY <1>1 DEF ArrayFrame, Kept, Same, Inv, MapsOK
<1> QED
  BY <1>2, <1>3, <1>4

(* A step that leaves the array alone: what it answers must be so.         *)
LEMMA QuietEffect ==
  ASSUME TypeInv, Inv, NEW p \in Procs, NEW n, n = Name(p), NEW l, LocalStep(p, l),
         UNCHANGED copyVars, late' = late, HandlerOK(p)',
         pc[p] \in {"mklcmap", "undo", "rmvdisk"} => l = "undo" \/ faults' # 0 \/ n \notin vdisks,
         pc[p] = "undo" => l = "undo",
         l = "ok" /\ p \notin clouded /\ (req[p].op \in {"create", "clone"} \/ p \in ready')
           => n \in spoilt \/ Readable(n),
         l = "ok" /\ ~Creating(p) =>
           /\ n \in Snaps => MapsTo(n) = {}
           /\ n \in Vols \/ (faults = 0 /\ n \notin spoilt) => n \notin vdisks
  PROVE  Effect(p, n)
<1>1. LocalFrame(p) /\ ArrayFrame(p)
  BY LocalStepFrame, SameArrayFrame
<1>2. OwnOK(n) /\ Active(p) /\ n \in Names
  BY OwnFacts DEF LocalStep
<1>3. /\ lcmaps' = lcmaps /\ vdisks' = vdisks /\ MapsTo(n)' = MapsTo(n) /\ (Readable(n)' <=> Readable(n))
  BY SameArray, SameArrayFrame
<1>4. /\ pc'[p] = l /\ \A q \in Procs : q # p => pc'[q] = pc[q]
      /\ promised' = promised \/ promised' = promised \cup {n}
      /\ promised' # promised =>
           l = "ok" /\ p \notin clouded /\ (req[p].op \in {"create", "clone"} \/ p \in ready')
      /\ gone' = gone \/ gone' = gone \cup {n}
      /\ gone' # gone => l = "ok" /\ p \notin clouded /\ ~Creating(p)
  BY GoFacts DEF LocalStep
<1>5. spoilt \subseteq spoilt' /\ (faults' = 0 => faults = 0) /\ req' = req
  BY DEF LocalStep
<1>6. n \in promised' \ spoilt' => Readable(n)'
  BY <1>2, <1>3, <1>4, <1>5 DEF OwnOK
<1>7. n \in gone' /\ (n \in Vols \/ (faults' = 0 /\ n \notin spoilt')) => n \notin vdisks'
  BY <1>2, <1>3, <1>4, <1>5 DEF OwnOK
<1>8. \A q \in Procs : Name(q)' = Name(q) /\ Creating(q)' = Creating(q)
  BY <1>5 DEF Name, Creating
<1>9. ASSUME n \in Snaps PROVE StopOK(n)'
  <2> SUFFICES ASSUME NEW m \in MapsTo(n), lcmaps[m].status \in {"stopping", "stopped"}
               PROVE  \/ n \in spoilt'
                      \/ \E q \in Procs : Active(q)' /\ ~Creating(q)' /\ Name(q)' = n
                      \/ \E q \in Procs : pc'[q] = "undo" /\ Name(q)' = n
    BY <1>3 DEF StopOK
  <2>1. \/ n \in spoilt
        \/ \E q \in Procs : Active(q) /\ ~Creating(q) /\ Name(q) = n
        \/ \E q \in Procs : pc[q] = "undo" /\ Name(q) = n
    BY <1>2, <1>9 DEF OwnOK, StopOK
  <2>2. CASE n \in spoilt
    BY <1>5, <2>2
  <2>3. CASE \E q \in Procs : Active(q) /\ ~Creating(q) /\ Name(q) = n
    <3>1. PICK q \in Procs : Active(q) /\ ~Creating(q) /\ Name(q) = n
      BY <2>3
    <3>2. Active(q)'
      <4>1. CASE q = p
        <5>1. l # "ok"
          BY <1>9, <3>1, <4>1
        <5> QED
          BY <1>4, <4>1, <5>1 DEF LocalStep, Active
      <4>2. CASE q # p
        BY <1>4, <3>1, <4>2 DEF Active
      <4> QED
        BY <4>1, <4>2
    <3> QED
      BY <1>8, <3>1, <3>2
  <2>4. CASE \E q \in Procs : pc[q] = "undo" /\ Name(q) = n
    BY <1>4, <1>8, <2>4
  <2> QED
    BY <2>1, <2>2, <2>3, <2>4
<1>10. ASSUME n \in Snaps PROVE BareOK(n)'
  <2> SUFFICES ASSUME faults' = 0, n \notin spoilt', n \in vdisks, MapsTo(n) = {}
               PROVE  \E q \in Procs : pc'[q] \in {"mklcmap", "undo", "rmvdisk"} /\ Name(q)' = n
    BY <1>3 DEF BareOK
  <2>1. PICK q \in Procs : pc[q] \in {"mklcmap", "undo", "rmvdisk"} /\ Name(q) = n
    BY <1>2, <1>5, <1>10 DEF OwnOK, BareOK
  <2> QED
    BY <1>4, <1>8, <2>1
<1>11. /\ \A m \in MapsTo(n)' : lcmaps'[m].auto = (n \in Vols)
       /\ \A m, k \in MapsTo(n)' : m = k
  BY <1>2, <1>3 DEF OwnOK
<1>12. OwnOK(n)'
  BY <1>6, <1>7, <1>9, <1>10, <1>11 DEF OwnOK
<1> QED
  BY <1>1, <1>12 DEF Effect

(* Why a handler that creates may rely on a map that was started. *)
LEMMA StartedReadable ==
  ASSUME TypeInv, Inv, NEW p \in Procs, Running(p), pc[p] # "undo", Creating(p), p \notin clouded,
         NEW n, n = Name(p), n \in Snaps, NEW m \in MapsTo(n), lcmaps[m].status # "idle"
  PROVE  n \in spoilt \/ Readable(n)
<1>1. n \in vdisks
  BY DEF TypeInv, MapEnds, MapsTo
<1>2. lcmaps[m].status \in {"copying", "stopping", "stopped"}
  BY MapFields DEF MapsTo, TypeInv, TypeOK, Statuses
<1>3. CASE lcmaps[m].status = "copying"
  BY <1>1, <1>3 DEF Readable
<1>4. CASE lcmaps[m].status \in {"stopping", "stopped"}
  <2>1. \/ n \in spoilt
        \/ \E q \in Procs : Active(q) /\ ~Creating(q) /\ Name(q) = n
        \/ \E q \in Procs : pc[q] = "undo" /\ Name(q) = n
    BY <1>4 DEF Inv, StopOK
  <2>2. ~ \E q \in Procs : Active(q) /\ ~Creating(q) /\ Name(q) = n
    BY DEF Inv, Opposed, Running, Active
  <2>3. ~ \E q \in Procs : pc[q] = "undo" /\ Name(q) = n
    BY OtherNames DEF Running
  <2> QED
    BY <2>1, <2>2, <2>3
<1> QED
  BY <1>2, <1>3, <1>4

(* An answer. *)
LEMMA AnswerHandler ==
  ASSUME NEW p \in Procs, pc'[p] \in {"ok", "err"}, p \in ready' => pc'[p] = "ok"
  PROVE  HandlerOK(p)'
<1>1. LabelOK(p)'
  BY DEF LabelOK
<1>2. MakingOK(p)'
  BY DEF MakingOK
<1>3. OwnMapOK(p)'
  BY DEF OwnMapOK, HasMap
<1> QED
  BY <1>1, <1>2, <1>3 DEF HandlerOK
(* What is known of the handler that takes a step. *)
LEMMA AtWork ==
  ASSUME TypeInv, Inv, NEW p \in Procs, Running(p), NEW n, n = Name(p)
  PROVE  /\ LabelOK(p) /\ MakingOK(p) /\ OwnMapOK(p) /\ p \notin ready /\ Active(p)
         /\ n \in Names /\ ArrayInv /\ OwnOK(n) /\ req[p] \in Request
         /\ req[p].op \in {"create", "clone", "snap", "delvol", "delsnap"}
         /\ Creating(p) <=> req[p].op \in {"create", "clone", "snap"}
         /\ req[p].op \in {"create", "clone", "delvol"} => n \in Vols /\ n \notin Snaps
         /\ req[p].op \in {"snap", "delsnap"} => n \in Snaps /\ n \notin Vols
         /\ Creating(p) => n \notin gone
         /\ ~Creating(p) => n \notin promised
<1>1. /\ HandlerOK(p) /\ n \in Names /\ ArrayInv /\ OwnOK(n) /\ req[p] \in Request /\ Active(p)
  BY OwnFacts
<1>2. LabelOK(p) /\ MakingOK(p) /\ OwnMapOK(p) /\ p \notin ready
  BY <1>1 DEF HandlerOK, LabelOK, Running
<1>3. /\ req[p].op \in {"create", "clone", "snap", "delvol", "delsnap"}
      /\ req[p].op \in {"create", "clone", "delvol"} => n \in Vols
      /\ req[p].op \in {"snap", "delsnap"} => n \in Snaps
  BY <1>1, Requests DEF Name
<1>4. Creating(p) <=> req[p].op \in {"create", "clone", "snap"}
  BY DEF Creating, Creates
<1>5. Creating(p) => n \notin gone
  BY <1>1 DEF Inv, AskedOK
<1>6. ~Creating(p) => n \notin promised
  BY <1>1 DEF Inv, AskedOK
<1>7. \A x : ~(x \in Vols /\ x \in Snaps)
  BY CopiesAssumption DEF CopiesAssumption
<1> QED
  BY <1>1, <1>2, <1>3, <1>4, <1>5, <1>6, <1>7

(* A step that changes neither the map nor the plan of its handler. *)
LEMMA PlainStep ==
  ASSUME TypeInv, Inv, NEW p \in Procs, Running(p), NEW l, l # "idle", Go(p, l),
         UNCHANGED <<req, mapId, ready, undo>>, spoilt \subseteq spoilt', faults' = 0 => faults = 0
  PROVE  LocalStep(p, l) /\ pc'[p] = l
<1>1. p \notin ready
  BY AtWork
<1>2. pc'[p] = l
  BY GoFacts
<1> QED
  BY <1>1, <1>2 DEF LocalStep

(* A map that is found in a listing. *)
LEMMA FoundStep ==
  ASSUME TypeInv, Inv, NEW p \in Procs, Running(p), NEW l, l # "idle", Go(p, l),
         NEW m, mapId' = [mapId EXCEPT ![p] = m],
         UNCHANGED <<req, undo>>, spoilt \subseteq spoilt', faults' = 0 => faults = 0,
         ready' = ready \/ (ready' = ready \cup {p} /\ Creating(p) /\ l = "ok")
  PROVE  LocalStep(p, l) /\ pc'[p] = l /\ mapId'[p] = m
<1>1. p \notin ready
  BY AtWork
<1>2. pc'[p] = l
  BY GoFacts
<1>3. mapId'[p] = m /\ \A q \in Procs : q # p => mapId'[q] = mapId[q]
  BY DEF TypeInv, TypeOK
<1> QED
  BY <1>1, <1>2, <1>3 DEF LocalStep

LEMMA LsTargetEffect ==
  ASSUME TypeInv, Inv, NEW p \in Procs, NEW n, n = Name(p), LsTarget(p), Note(p)
  PROVE  Effect(p, n)
<1>1. /\ pc[p] = "lsTarget" /\ Running(p) /\ UNCHANGED copyVars /\ UNCHANGED <<req, undo>>
  BY DEF LsTarget, Running
<1>0. late' = late /\ spoilt \subseteq spoilt'
  BY <1>1, NoteFacts DEF Running
<1>2. /\ LabelOK(p) /\ p \notin ready /\ OwnOK(n) /\ req[p].op \in {"snap", "delsnap"}
      /\ Creating(p) <=> req[p].op = "snap"
      /\ n \in Snaps /\ n \notin Vols
  BY <1>0, <1>1, AtWork DEF LabelOK
<1>3. PICK reply \in Replies :
        LET rows == IF reply = "done" THEN MapsTo(n) ELSE {}
            mine == {m \in rows : lcmaps[m].src = req[p].src}
        IN /\ Spend(reply)
           /\ \/ /\ reply = "error"
                 /\ UNCHANGED <<mapId, ready>> /\ Go(p, "err")
              \/ /\ reply = "done" /\ req[p].op = "snap" /\ mine = {}
                 /\ UNCHANGED <<mapId, ready>> /\ Go(p, "lsSource")
              \/ /\ req[p].op = "snap"
                 /\ \E m \in mine :
                      /\ mapId' = [mapId EXCEPT ![p] = m]
                      /\ ready' = IF lcmaps[m].status = "idle" THEN ready ELSE ready \cup {p}
                      /\ Go(p, IF lcmaps[m].status = "idle" THEN "restart" ELSE "ok")
              \/ /\ reply = "done" /\ req[p].op = "delsnap" /\ rows = {}
                 /\ UNCHANGED <<mapId, ready>> /\ Go(p, "ok")
              \/ /\ req[p].op = "delsnap"
                 /\ \E m \in rows : mapId' = [mapId EXCEPT ![p] = m]
                 /\ UNCHANGED ready /\ Go(p, "lsSnapSource")
  BY DEF LsTarget, Name
<1>4. (faults' = 0 => faults = 0) /\ req'[p] = req[p] /\ Name(p)' = n
  BY <1>0, <1>1, <1>3, SpendFacts DEF Name
<1>5. CASE reply = "error" /\ UNCHANGED <<mapId, ready>> /\ Go(p, "err")
  <2>1. LocalStep(p, "err") /\ pc'[p] = "err"
    BY <1>0, <1>1, <1>4, <1>5, PlainStep
  <2>2. HandlerOK(p)'
    BY <1>2, <1>5, <2>1, AnswerHandler
  <2> QED
    BY <1>0, <1>1, <2>1, <2>2, QuietEffect
<1>6. CASE req[p].op = "snap" /\ UNCHANGED <<mapId, ready>> /\ Go(p, "lsSource")
  <2>1. LocalStep(p, "lsSource") /\ pc'[p] = "lsSource"
    BY <1>0, <1>1, <1>4, <1>6, PlainStep
  <2>2. HandlerOK(p)'
    BY <1>2, <1>4, <1>6, <2>1 DEF HandlerOK, LabelOK, MakingOK, OwnMapOK, HasMap
  <2> QED
    BY <1>0, <1>1, <2>1, <2>2, QuietEffect
<1>7. CASE req[p].op = "snap" /\ \E m \in MapsTo(n) :
                      /\ mapId' = [mapId EXCEPT ![p] = m]
                      /\ ready' = IF lcmaps[m].status = "idle" THEN ready ELSE ready \cup {p}
                      /\ Go(p, IF lcmaps[m].status = "idle" THEN "restart" ELSE "ok")
  <2>1. PICK m \in MapsTo(n) :
                      /\ mapId' = [mapId EXCEPT ![p] = m]
                      /\ ready' = IF lcmaps[m].status = "idle" THEN ready ELSE ready \cup {p}
                      /\ Go(p, IF lcmaps[m].status = "idle" THEN "restart" ELSE "ok")
    BY <1>7
  <2>2. CASE lcmaps[m].status = "idle"
    <3>1. Go(p, "restart") /\ ready' = ready
      BY <2>1, <2>2
    <3>2. LocalStep(p, "restart") /\ pc'[p] = "restart" /\ mapId'[p] = m
      BY <1>0, <1>1, <1>4, <2>1, <3>1, FoundStep
    <3>3. m \in MapsTo(n)'
      BY <1>0, <1>1, SameArray DEF MapsTo
    <3>4. HandlerOK(p)'
      BY <1>2, <1>4, <1>7, <3>1, <3>2, <3>3 DEF HandlerOK, LabelOK, MakingOK, OwnMapOK, HasMap
    <3> QED
      BY <1>0, <1>1, <3>2, <3>4, QuietEffect
  <2>3. CASE lcmaps[m].status # "idle"
    <3>1. Go(p, "ok") /\ ready' = ready \cup {p}
      BY <2>1, <2>3
    <3>2. LocalStep(p, "ok") /\ pc'[p] = "ok"
      BY <1>0, <1>1, <1>2, <1>4, <1>7, <2>1, <3>1, FoundStep
    <3>3. HandlerOK(p)'
      BY <3>2, AnswerHandler
    <3>4. p \notin clouded => n \in spoilt \/ Readable(n)
      BY <1>0, <1>1, <1>2, <1>7, <2>1, <2>3, StartedReadable
    <3> QED
      BY <1>0, <1>1, <1>2, <1>7, <3>2, <3>3, <3>4, QuietEffect
  <2> QED
    BY <2>2, <2>3
<1>8. CASE req[p].op = "delsnap" /\ MapsTo(n) = {} /\ UNCHANGED <<mapId, ready>> /\ Go(p, "ok")
  <2>1. LocalStep(p, "ok") /\ pc'[p] = "ok"
    BY <1>0, <1>1, <1>4, <1>8, PlainStep
  <2>2. HandlerOK(p)'
    BY <2>1, AnswerHandler
  <2>3. faults = 0 /\ n \notin spoilt => n \notin vdisks
    <3>1. ~ \E q \in Procs : pc[q] \in {"mklcmap", "undo", "rmvdisk"} /\ Name(q) = n
      BY <1>0, <1>1, OtherNames DEF Running
    <3> QED
      BY <1>2, <1>8, <3>1 DEF OwnOK, BareOK
  <2>4. ~Creating(p) /\ req[p].op \notin {"create", "clone"} /\ p \notin ready'
    BY <1>2, <1>8
  <2> QED
    BY <1>0, <1>1, <1>2, <1>8, <2>1, <2>2, <2>3, <2>4, QuietEffect
<1>9. CASE req[p].op = "delsnap" /\ UNCHANGED ready /\ Go(p, "lsSnapSource")
           /\ \E m \in MapsTo(n) : mapId' = [mapId EXCEPT ![p] = m]
  <2>1. PICK m \in MapsTo(n) : mapId' = [mapId EXCEPT ![p] = m]
    BY <1>9
  <2>2. LocalStep(p, "lsSnapSource") /\ pc'[p] = "lsSnapSource" /\ mapId'[p] = m
    BY <1>0, <1>1, <1>4, <1>9, <2>1, FoundStep
  <2>3. m \in MapsTo(n)'
    BY <1>0, <1>1, SameArray DEF MapsTo
  <2>4. HandlerOK(p)'
    BY <1>2, <1>4, <1>9, <2>2, <2>3 DEF HandlerOK, LabelOK, MakingOK, OwnMapOK, HasMap
  <2> QED
    BY <1>0, <1>1, <2>2, <2>4, QuietEffect
<1> QED
  BY <1>3, <1>5, <1>6, <1>7, <1>8, <1>9

LEMMA LsSourceEffect ==
  ASSUME TypeInv, Inv, NEW p \in Procs, NEW n, n = Name(p), LsSource(p) \/ LsDetail(p), Note(p)
  PROVE  Effect(p, n)
<1>1. /\ pc[p] \in {"lsSource", "detail"} /\ Running(p) /\ UNCHANGED copyVars
      /\ UNCHANGED <<req, mapId, ready, undo>>
  BY DEF LsSource, LsDetail, Running
<1>0. late' = late /\ spoilt \subseteq spoilt'
  BY <1>1, NoteFacts DEF Running
<1>2. p \notin ready /\ req[p].op = "snap"
  BY <1>0, <1>1, AtWork DEF LabelOK
<1>3. PICK reply \in Replies, l \in {"detail", "mkvol", "err"} : Spend(reply) /\ Go(p, l)
  BY DEF LsSource, LsDetail
<1>4. LocalStep(p, l) /\ pc'[p] = l /\ req'[p] = req[p]
  BY <1>0, <1>1, <1>3, SpendFacts, PlainStep
<1>5. HandlerOK(p)'
  BY <1>0, <1>1, <1>2, <1>3, <1>4 DEF HandlerOK, LabelOK, MakingOK, OwnMapOK, HasMap, Creates
<1> QED
  BY <1>0, <1>1, <1>3, <1>4, <1>5, QuietEffect

LEMMA LsCreatedEffect ==
  ASSUME TypeInv, Inv, NEW p \in Procs, NEW n, n = Name(p), LsCreated(p), Note(p)
  PROVE  Effect(p, n)
<1>1. /\ pc[p] = "lsCreated" /\ Running(p) /\ UNCHANGED copyVars /\ UNCHANGED <<req, mapId>>
  BY DEF LsCreated, Running
<1>0. late' = late /\ spoilt \subseteq spoilt'
  BY <1>1, NoteFacts DEF Running
<1>2. /\ MakingOK(p) /\ OwnMapOK(p) /\ p \notin ready /\ OwnOK(n) /\ req[p].op = "snap"
      /\ Creating(p) /\ n \in Snaps /\ n \notin Vols
  BY <1>0, <1>1, AtWork DEF LabelOK
<1>3. PICK m : m = mapId[p]
  OBVIOUS
<1>4. n \notin spoilt => m \in MapsTo(n) /\ lcmaps[m].status # "idle"
  BY <1>1, <1>2, <1>3 DEF OwnMapOK, HasMap
<1>5. \A k \in MapsTo(n) : lcmaps[k].src = req[p].src
  BY <1>1, <1>2 DEF OwnMapOK
<1>6. PICK reply \in Replies :
        /\ Spend(reply)
        /\ ready' = IF reply = "done" THEN ready \cup {p} ELSE ready
        /\ IF reply = "error"
             THEN FailTo(p, <<"stop", "rmmap", "rmvdisk">>)
             ELSE Go(p, "ok") /\ UNCHANGED undo
  BY <1>5 DEF LsCreated, Name
<1>7. (faults' = 0 => faults = 0) /\ req'[p] = req[p] /\ Name(p)' = n
  BY <1>0, <1>1, <1>6, SpendFacts DEF Name
<1>8. CASE reply = "done"
  <2>1. Go(p, "ok") /\ UNCHANGED undo /\ ready' = ready \cup {p}
    BY <1>6, <1>8
  <2>2. pc'[p] = "ok"
    BY <2>1, GoFacts
  <2>3. LocalStep(p, "ok")
    BY <1>0, <1>1, <1>2, <1>7, <2>1 DEF LocalStep
  <2>4. HandlerOK(p)'
    BY <2>2, AnswerHandler
  <2>5. p \notin clouded => n \in spoilt \/ Readable(n)
    BY <1>0, <1>1, <1>2, <1>4, StartedReadable
  <2> QED
    BY <1>0, <1>1, <1>2, <2>3, <2>4, <2>5, QuietEffect
<1>9. CASE reply = "error"
  <2>1. /\ Go(p, "undo") /\ undo' = [undo EXCEPT ![p] = <<"stop", "rmmap", "rmvdisk">>] /\ ready' = ready
    BY <1>6, <1>9 DEF FailTo
  <2>2. /\ undo'[p] = <<"stop", "rmmap", "rmvdisk">> /\ \A q \in Procs : q # p => undo'[q] = undo[q]
        /\ Head(undo'[p]) = "stop" /\ undo'[p] # <<"stop", "rmvdisk">>
    BY <2>1 DEF TypeInv, UndoOK
  <2>3. pc'[p] = "undo" /\ promised' = promised
    BY <2>1, GoFacts
  <2>4. LocalStep(p, "undo")
    BY <1>0, <1>1, <1>2, <1>7, <2>1, <2>2 DEF LocalStep
  <2>5. /\ n \notin spoilt' => mapId'[p] \in MapsTo(n)'
        /\ LateCopies(n)' /\ n \notin promised' \ spoilt'
    BY <1>0, <1>1, <1>2, <1>3, <1>4, <2>3, SameArrayFrame DEF MakingOK
  <2>6. LabelOK(p)' /\ MakingOK(p)' /\ OwnMapOK(p)'
    BY <1>2, <1>7, <2>1, <2>2, <2>3, <2>5 DEF LabelOK, MakingOK, OwnMapOK, HasMap
  <2> QED
    BY <1>0, <1>1, <2>4, <2>6, QuietEffect DEF HandlerOK
<1> QED
  BY <1>8, <1>9 DEF Replies

LEMMA LsVolEffect ==
  ASSUME TypeInv, Inv, NEW p \in Procs, NEW n, n = Name(p), LsVol(p), Note(p)
  PROVE  Effect(p, n)
<1>1. /\ pc[p] = "lsVol" /\ Running(p) /\ UNCHANGED copyVars /\ UNCHANGED <<req, mapId, ready, undo>>
  BY DEF LsVol, Running
<1>0. late' = late /\ spoilt \subseteq spoilt'
  BY <1>1, NoteFacts DEF Running
<1>2. p \notin ready /\ req[p].op = "delvol" /\ n \notin Snaps /\ ~Creating(p)
  BY <1>0, <1>1, AtWork DEF LabelOK
<1>3. PICK reply \in Replies, l \in {"err", "lsMaps", "ok"} :
        Spend(reply) /\ Go(p, l) /\ (l = "ok" => n \notin vdisks)
  BY DEF LsVol, Name
<1>4. LocalStep(p, l) /\ pc'[p] = l /\ req'[p] = req[p]
  BY <1>0, <1>1, <1>3, SpendFacts, PlainStep
<1>5. HandlerOK(p)'
  BY <1>0, <1>1, <1>2, <1>3, <1>4 DEF HandlerOK, LabelOK, MakingOK, OwnMapOK, HasMap
<1> QED
  BY <1>0, <1>1, <1>2, <1>3, <1>4, <1>5, QuietEffect

(* The checks that nothing is copied from what is deleted. *)
LEMMA LsMapsEffect ==
  ASSUME TypeInv, Inv, NEW p \in Procs, NEW n, n = Name(p), LsMaps(p) \/ LsSnapSource(p), Note(p)
  PROVE  Effect(p, n)
<1>1. /\ pc[p] \in {"lsMaps", "lsSnapSource"} /\ Running(p) /\ UNCHANGED copyVars
      /\ UNCHANGED <<req, mapId, ready, undo>>
  BY DEF LsMaps, LsSnapSource, Running
<1>0. late' = late /\ spoilt \subseteq spoilt'
  BY <1>1, NoteFacts DEF Running
<1>2. p \notin ready /\ OwnMapOK(p) /\ LabelOK(p)
  BY <1>0, <1>1, AtWork
<1>3. PICK reply \in Replies, l \in {"err", "rmvolume", "rmvdisk", "stopmap"} :
        /\ Spend(reply) /\ Go(p, l) /\ (l # "err" => MapsFrom(n) = {})
        /\ l \in {"rmvolume", "rmvdisk"} => pc[p] = "lsMaps"
        /\ l = "stopmap" => pc[p] = "lsSnapSource"
  BY DEF LsMaps, LsSnapSource, Name
<1>4. LocalStep(p, l) /\ pc'[p] = l /\ req'[p] = req[p] /\ mapId'[p] = mapId[p] /\ Name(p)' = n
  BY <1>0, <1>1, <1>3, SpendFacts, PlainStep DEF Name
<1>5. /\ MapsFrom(n)' = MapsFrom(n) /\ MapsTo(n)' = MapsTo(n) /\ Live' = Live /\ lcmaps' = lcmaps
      /\ MapsFrom(n) = {} => LateCopies(n)'
  BY <1>0, <1>1, SameArray, SameArrayFrame DEF LateCopies
<1>6. MakingOK(p)'
  BY <1>3, <1>4, <1>5 DEF MakingOK
<1>7. LabelOK(p)'
  BY <1>0, <1>1, <1>2, <1>3, <1>4 DEF LabelOK
<1>8. OwnMapOK(p)'
  BY <1>0, <1>2, <1>3, <1>4, <1>5 DEF OwnMapOK, HasMap
<1> QED
  BY <1>0, <1>1, <1>3, <1>4, <1>6, <1>7, <1>8, QuietEffect DEF HandlerOK

LEMMA PollEffect ==
  ASSUME TypeInv, Inv, NEW p \in Procs, NEW n, n = Name(p), PollLcmap(p), Note(p)
  PROVE  Effect(p, n)
<1>1. /\ pc[p] = "poll" /\ Running(p) /\ UNCHANGED copyVars /\ UNCHANGED <<req, ready, undo>>
  BY DEF PollLcmap, Running
<1>0. late' = late /\ spoilt \subseteq spoilt'
  BY <1>1, NoteFacts DEF Running
<1>2. p \notin ready /\ MakingOK(p) /\ OwnMapOK(p) /\ req[p].op = "delsnap"
  BY <1>0, <1>1, AtWork DEF LabelOK
<1>3. PICK reply \in Replies, l \in {"rmmap", "poll"} :
        /\ Spend(reply) /\ Go(p, l)
        /\ UNCHANGED mapId \/ \E m \in MapsTo(n) : mapId' = [mapId EXCEPT ![p] = m]
  BY DEF PollLcmap, Name
<1>4. /\ LocalStep(p, l) /\ pc'[p] = l /\ req'[p] = req[p] /\ Name(p)' = n
      /\ n \notin spoilt => mapId'[p] \in MapsTo(n)
  <2>1. n \notin spoilt => mapId[p] \in MapsTo(n)
    BY <1>0, <1>1, <1>2 DEF OwnMapOK, HasMap, MapsTo
  <2>2. req'[p] = req[p] /\ Name(p)' = n /\ (faults' = 0 => faults = 0)
    BY <1>0, <1>1, <1>3, SpendFacts DEF Name
  <2>3. CASE UNCHANGED mapId
    BY <1>0, <1>1, <1>3, <2>1, <2>2, <2>3, PlainStep
  <2>4. CASE \E m \in MapsTo(n) : mapId' = [mapId EXCEPT ![p] = m]
    <3>1. PICK m \in MapsTo(n) : mapId' = [mapId EXCEPT ![p] = m]
      BY <2>4
    <3>2. LocalStep(p, l) /\ pc'[p] = l /\ mapId'[p] = m
      BY <1>0, <1>1, <1>3, <2>2, <3>1, FoundStep
    <3> QED
      BY <2>2, <3>1, <3>2
  <2> QED
    BY <1>3, <2>2, <2>3, <2>4
<1>5. (LateCopies(n)' <=> LateCopies(n)) /\ MapsTo(n)' = MapsTo(n)
  BY <1>0, <1>1, SameArray, SameArrayFrame
<1>6. HandlerOK(p)'
  BY <1>0, <1>1, <1>2, <1>3, <1>4, <1>5 DEF HandlerOK, LabelOK, MakingOK, OwnMapOK, HasMap, MapsTo
<1> QED
  BY <1>0, <1>1, <1>3, <1>4, <1>6, QuietEffect
LEMMA MkVolEffect ==
  ASSUME TypeInv, Inv, NEW p \in Procs, NEW n, n = Name(p), MkVol(p), Note(p)
  PROVE  Effect(p, n)
<1>1. /\ pc[p] = "mkvol" /\ Running(p) /\ UNCHANGED <<req, mapId, ready, undo>>
  BY DEF MkVol, Running
<1>0. late' = late /\ spoilt \subseteq spoilt'
  BY <1>1, NoteFacts DEF Running
<1>2. /\ p \notin ready /\ OwnOK(n) /\ req[p].op \in {"create", "clone", "snap"} /\ Creating(p)
      /\ n \notin gone /\ n \in Names /\ ArrayInv /\ req[p] \in Request
      /\ (req[p].op = "create" => n \in Vols /\ n \notin Snaps)
  BY <1>1, AtWork DEF LabelOK, Creates
<1>3. PICK o \in Outcomes :
        /\ Send(o, MkVolAccepted(n), MkVolApply(n, req[p].level, req[p].op = "create"))
        /\ Go(p, IF ~(o = "done" /\ MkVolAccepted(n)) THEN "err"
                 ELSE IF req[p].op = "create" THEN "ok" ELSE "mklcmap")
  BY DEF MkVol, Name
<1>4. (faults' = 0 => faults = 0 /\ o = "done") /\ req'[p] = req[p] /\ Name(p)' = n
  BY <1>1, <1>3, SpendFacts DEF Send, Name
<1>5. CASE UNCHANGED copyVars /\ Go(p, "err")
  <2>1. LocalStep(p, "err") /\ pc'[p] = "err"
    BY <1>0, <1>1, <1>4, <1>5, PlainStep
  <2>2. HandlerOK(p)'
    BY <1>1, <1>2, <2>1, AnswerHandler
  <2> QED
    BY <1>0, <1>1, <1>5, <2>1, <2>2, QuietEffect
<1>6. CASE o # "unsent" /\ MkVolAccepted(n)
  <2>1. MkVolApply(n, req[p].level, req[p].op = "create") /\ n \notin vdisks
    BY <1>3, <1>6 DEF Send, MkVolAccepted
  <2>2. /\ Live' = Live /\ lcmaps' = lcmaps /\ vdisks' = vdisks \cup {n}
        /\ aa' = aa \/ (req[p].level = "aa" /\ aa' = aa \cup {n})
        /\ whole' = IF req[p].op = "create" THEN whole \cup {n} ELSE whole
    BY <1>2, <2>1, MkVolFacts
  <2>3. PICK l \in {"err", "ok", "mklcmap"} :
          /\ Go(p, l) /\ (l = "ok" => req[p].op = "create")
          /\ l = "mklcmap" => req[p].op # "create"
          /\ o = "done" => l # "err"
    BY <1>3, <1>6
  <2>4. LocalStep(p, l) /\ pc'[p] = l
    BY <1>0, <1>1, <1>4, <2>3, PlainStep
  <2>5. MapsTo(n)' = {} /\ LateCopies(n)'
    BY <1>2, <2>1, <2>2 DEF ArrayInv, MapEnds, MapsTo, MapsFrom, LateCopies
  <2>6. n \notin promised \ spoilt
    BY <1>2, <2>1 DEF OwnOK, Readable
  <2>7. /\ promised' # promised => l = "ok"
        /\ gone' = gone
    BY <1>2, <2>3, GoFacts
  <2>8. aa' \cap Snaps = {}
    <3>1. req[p].level = "aa" => n \notin Snaps
      BY <1>2, Requests
    <3> QED
      BY <2>2, <3>1 DEF Inv, MapsOK
  <2>9. ArrayFrame(p)
    BY <1>0, <2>2, <2>8 DEF ArrayFrame, Kept, Same
  <2>10. n \in promised' \ spoilt' => Readable(n)'
    BY <1>0, <1>1, <2>2, <2>3, <2>6, <2>7 DEF Readable
  <2>11. ASSUME n \in Snaps PROVE (StopOK(n) /\ BareOK(n))'
    <3>1. StopOK(n)'
      BY <2>5 DEF StopOK
    <3>2. BareOK(n)'
      BY <1>2, <1>4, <2>3, <2>4, <2>11 DEF BareOK
    <3> QED
      BY <3>1, <3>2
  <2>12. OwnOK(n)'
    BY <1>2, <2>5, <2>7, <2>10, <2>11 DEF OwnOK
  <2>13. n \notin promised' \ spoilt' \/ l = "ok"
    BY <1>0, <1>1, <2>6, <2>7
  <2>14. HandlerOK(p)'
    BY <1>1, <1>2, <1>4, <2>3, <2>4, <2>5, <2>13 DEF HandlerOK, LabelOK, MakingOK, OwnMapOK, HasMap
  <2> QED
    BY <2>4, <2>9, <2>12, <2>14, LocalStepFrame DEF Effect
<1> QED
  BY <1>3, <1>5, <1>6 DEF Send, Outcomes

(* The handler starts its clean-up. *)
LEMMA FailStep ==
  ASSUME TypeInv, Inv, NEW p \in Procs, Running(p), NEW plan \in Plans, FailTo(p, plan),
         UNCHANGED <<req, mapId, ready>>, spoilt \subseteq spoilt', faults' = 0 => faults = 0
  PROVE  LocalStep(p, "undo") /\ pc'[p] = "undo" /\ undo'[p] = plan /\ promised' = promised /\ gone' = gone
<1>1. Go(p, "undo") /\ undo' = [undo EXCEPT ![p] = plan] /\ p \notin ready
  BY AtWork DEF FailTo
<1>2. undo'[p] = plan /\ \A q \in Procs : q # p => undo'[q] = undo[q]
  BY <1>1 DEF TypeInv, UndoOK
<1>3. pc'[p] = "undo" /\ promised' = promised /\ gone' = gone
  BY <1>1, GoFacts
<1> QED
  BY <1>1, <1>2, <1>3 DEF LocalStep

LEMMA UndoHandler ==
  ASSUME NEW p \in Procs, pc'[p] = "undo", p \notin ready', NEW n, n = Name(p)', NEW plan, undo'[p] = plan,
         LateCopies(n)', n \notin promised' \ spoilt',
         \/ req'[p].op \in {"clone", "snap"} /\ plan = <<"rmvdisk">>
         \/ req'[p].op = "clone" /\ plan = <<"stop", "rmvdisk">>
         \/ /\ req'[p].op = "snap" /\ plan \in {<<"rmmap", "rmvdisk">>, <<"stop", "rmmap", "rmvdisk">>}
            /\ n \in spoilt' \/ mapId'[p] \in MapsTo(n)'
  PROVE  HandlerOK(p)'
<1>1. /\ plan = <<"rmvdisk">> => Len(plan) < 3 /\ Head(plan) = "rmvdisk" /\ plan # <<"stop", "rmvdisk">>
      /\ plan = <<"stop", "rmvdisk">> => Len(plan) < 3 /\ Head(plan) = "stop"
      /\ plan \in {<<"rmmap", "rmvdisk">>, <<"stop", "rmmap", "rmvdisk">>} => plan # <<"stop", "rmvdisk">>
  <2>1. Len(<<"rmvdisk">>) = 1 /\ Head(<<"rmvdisk">>) = "rmvdisk"
    OBVIOUS
  <2>2. Len(<<"stop", "rmvdisk">>) = 2 /\ Head(<<"stop", "rmvdisk">>) = "stop"
    OBVIOUS
  <2>3. Head(<<"rmmap", "rmvdisk">>) = "rmmap" /\ Len(<<"stop", "rmmap", "rmvdisk">>) = 3
    OBVIOUS
  <2>4. plan = <<"rmvdisk">> => Len(plan) < 3 /\ Head(plan) = "rmvdisk" /\ plan # <<"stop", "rmvdisk">>
    <3>1. Len(<<"rmvdisk">>) # Len(<<"stop", "rmvdisk">>)
      BY <2>1, <2>2
    <3> QED
      BY <2>1, <3>1
  <2>5. plan = <<"stop", "rmvdisk">> => Len(plan) < 3 /\ Head(plan) = "stop"
    BY <2>2
  <2>6. Head(<<"rmmap", "rmvdisk">>) # Head(<<"stop", "rmvdisk">>)
    BY <2>2, <2>3
  <2>7. Len(<<"stop", "rmmap", "rmvdisk">>) # Len(<<"stop", "rmvdisk">>)
    BY <2>2, <2>3
  <2>8. plan \in {<<"rmmap", "rmvdisk">>, <<"stop", "rmmap", "rmvdisk">>} => plan # <<"stop", "rmvdisk">>
    BY <2>6, <2>7, Zenon
  <2> QED
    BY <2>4, <2>5, <2>8
<1>2. MakingOK(p)'
  BY DEF MakingOK
<1>3. LabelOK(p)'
  BY <1>1 DEF LabelOK
<1>4. OwnMapOK(p)'
  BY <1>1 DEF OwnMapOK, HasMap
<1> QED
  BY <1>2, <1>3, <1>4 DEF HandlerOK

LEMMA MkLcmapEffect ==
  ASSUME TypeInv, Inv, NEW p \in Procs, NEW n, n = Name(p), MkLcmap(p), Note(p)
  PROVE  Effect(p, n)
<1>1. /\ pc[p] = "mklcmap" /\ Running(p) /\ UNCHANGED <<req, ready>>
  BY DEF MkLcmap, Running
<1>0. /\ spoilt \subseteq spoilt' /\ (UNCHANGED copyVars => late' = late)
      /\ lcmaps' # lcmaps => /\ MayGo(req[p].src) => n \in late'
                             /\ \A w : w # n => (w \in late' <=> w \in late)
  BY <1>1, NoteFacts DEF Running
<1>2. /\ p \notin ready /\ OwnOK(n) /\ req[p].op \in {"clone", "snap"} /\ Creating(p)
      /\ n \notin gone /\ n \in Names /\ ArrayInv /\ req[p] \in Request
      /\ LateCopies(n) /\ n \notin promised \ spoilt
      /\ (req[p].op = "clone") <=> (n \in Vols)
  BY <1>1, AtWork DEF LabelOK, MakingOK
<1>3. req[p].src \in Names /\ req[p].src # n
  <2>1. req[p].src # n
    <3>1. \A x : ~(x \in Vols /\ x \in Snaps)
      BY CopiesAssumption DEF CopiesAssumption
    <3> QED
      BY <1>2, <3>1 DEF Request, Name
  <2> QED
    BY <1>2, <2>1, Requests
<1>4. PICK o \in Outcomes :
        /\ Spend(o)
        /\ \/ /\ MkMapAccepted(req[p].src, n)
              /\ \E m \in MapIds \ Live :
                   /\ MkMapApply(m, req[p].src, n, req[p].op = "clone")
                   /\ \/ mapId' = [mapId EXCEPT ![p] = m] /\ Go(p, "startmap") /\ UNCHANGED undo
                      \/ FailTo(p, <<"rmvdisk">>) /\ UNCHANGED mapId
           \/ FailTo(p, <<"rmvdisk">>) /\ UNCHANGED <<copyVars, mapId>>
  BY DEF MkLcmap, Name
<1>5. (faults' = 0 => faults = 0) /\ req'[p] = req[p] /\ Name(p)' = n /\ <<"rmvdisk">> \in Plans
  BY <1>1, <1>4, SpendFacts DEF Name, Plans
<1>6. CASE FailTo(p, <<"rmvdisk">>) /\ UNCHANGED <<copyVars, mapId>>
  <2>1. LocalStep(p, "undo") /\ pc'[p] = "undo" /\ undo'[p] = <<"rmvdisk">> /\ promised' = promised
    BY <1>0, <1>1, <1>5, <1>6, FailStep
  <2>2. LateCopies(n)' /\ late' = late
    BY <1>0, <1>2, <1>6, SameArrayFrame
  <2>3. HandlerOK(p)'
    BY <1>0, <1>1, <1>2, <1>5, <2>1, <2>2, UndoHandler
  <2> QED
    BY <1>1, <1>6, <2>1, <2>2, <2>3, QuietEffect
<1>7. ASSUME NEW m \in MapIds \ Live, MkMapAccepted(req[p].src, n),
             MkMapApply(m, req[p].src, n, req[p].op = "clone"),
             \/ mapId' = [mapId EXCEPT ![p] = m] /\ Go(p, "startmap") /\ UNCHANGED undo
             \/ FailTo(p, <<"rmvdisk">>) /\ UNCHANGED mapId
      PROVE  Effect(p, n)
  <2>1. /\ Live' = Live \cup {m} /\ \A k \in Live : Kept(k) /\ lcmaps'[k] = lcmaps[k]
        /\ lcmaps'[m].src = req[p].src /\ lcmaps'[m].tgt = n /\ lcmaps'[m].status = "idle"
        /\ lcmaps'[m].auto = (req[p].op = "clone")
        /\ vdisks' = vdisks /\ aa' = aa /\ whole' = whole
    BY <1>2, <1>3, <1>7, MkMapFacts
  <2>2. MapsTo(n) = {} /\ MapsTo(n)' = {m} /\ MapsFrom(n)' = MapsFrom(n)
    BY <1>2, <1>3, <1>7, <2>1 DEF MapsTo, MapsFrom, MkMapAccepted
  <2>8. \A k \in Live : lcmaps[k].tgt # n
    BY <2>2 DEF MapsTo
  <2>9. lcmaps' # lcmaps
    BY <2>1 DEF Live
  <2>10. LateCopies(n)'
    BY <1>0, <1>2, <2>1, <2>2, <2>8, <2>9 DEF LateCopies, MapsFrom
  <2>3. ArrayFrame(p)
    <3>1. \A k \in Live' : \/ k \in Live /\ Kept(k) /\ (lcmaps[k].tgt \in late => lcmaps[k].tgt \in late')
                          \/ /\ lcmaps'[k].tgt = n /\ lcmaps'[k].src = req[p].src
                             /\ MayGo(req[p].src) => n \in late'
      BY <1>0, <2>1, <2>8, <2>9
    <3> QED
      BY <2>1, <3>1 DEF ArrayFrame, Same, Inv, MapsOK
  <2>4. HandlerOK(p)' /\ LocalFrame(p) /\ promised' = promised /\ gone' = gone
    <3>1. CASE mapId' = [mapId EXCEPT ![p] = m] /\ Go(p, "startmap") /\ UNCHANGED undo
      <4>1. LocalStep(p, "startmap") /\ pc'[p] = "startmap" /\ mapId'[p] = m
        BY <1>0, <1>1, <1>5, <3>1, FoundStep
      <4>2. promised' = promised /\ gone' = gone
        BY <3>1, GoFacts
      <4>3. LabelOK(p)' /\ MakingOK(p)'
        BY <1>0, <1>1, <1>2, <1>5, <2>10, <4>1, <4>2 DEF LabelOK, MakingOK
      <4>4. OwnMapOK(p)'
        BY <1>5, <2>1, <2>2, <4>1 DEF OwnMapOK
      <4> QED
        BY <4>1, <4>2, <4>3, <4>4, LocalStepFrame DEF HandlerOK
    <3>2. CASE FailTo(p, <<"rmvdisk">>) /\ UNCHANGED mapId
      <4>1. LocalStep(p, "undo") /\ pc'[p] = "undo" /\ undo'[p] = <<"rmvdisk">> /\ promised' = promised /\ gone' = gone
        BY <1>0, <1>1, <1>5, <3>2, FailStep
      <4>2. HandlerOK(p)'
        BY <1>0, <1>1, <1>2, <1>5, <2>10, <4>1, UndoHandler
      <4> QED
        BY <4>1, <4>2, LocalStepFrame
    <3> QED
      BY <1>7, <3>1, <3>2
  <2>5. StopOK(n)' /\ BareOK(n)'
    <3>1. StopOK(n)'
      BY <2>1, <2>2 DEF StopOK
    <3>2. BareOK(n)'
      BY <2>2 DEF BareOK
    <3> QED
      BY <3>1, <3>2
  <2>6. \A k \in MapsTo(n)' : lcmaps'[k].auto = (n \in Vols)
    BY <1>2, <2>1, <2>2
  <2>7. OwnOK(n)'
    BY <1>0, <1>1, <1>2, <2>2, <2>4, <2>5, <2>6 DEF OwnOK
  <2> QED
    BY <2>3, <2>4, <2>7 DEF Effect
<1> QED
  BY <1>4, <1>6, <1>7

(* A command that sets the status of a map: that of its own name, or, by   *)
(* an id the array gave again, that of another, which is then spoilt.      *)
LEMMA MapStatus ==
  ASSUME TypeInv, Inv, NEW p \in Procs, NEW n, n = Name(p), NEW m \in Live, NEW s \in Statuses,
         SetStatus(m, s), Running(p), pc[p] # "mklcmap", Note(p)
  PROVE  /\ ArrayFrame(p) /\ MapsTo(n)' = MapsTo(n) /\ (LateCopies(n) => LateCopies(n)')
         /\ vdisks' = vdisks /\ whole' = whole /\ lcmaps'[m].status = s
         /\ \A k \in MapsTo(n) : Kept(k)
         /\ \A k \in MapsTo(n)' : lcmaps'[k].auto = (n \in Vols)
         /\ \A k, j \in MapsTo(n)' : k = j
         /\ n \in spoilt \/ m \in MapsTo(n) => BareOK(n)'
<1>1. ArrayInv /\ OwnOK(n)
  BY AtWork
<1>2. /\ ArrayInv' /\ Live' = Live
      /\ \A k \in Live : Kept(k) /\ (k # m => lcmaps'[k] = lcmaps[k])
      /\ lcmaps'[m].status = s
      /\ vdisks' = vdisks /\ aa' = aa /\ whole' = whole
  BY <1>1, SetStatusFacts
<1>3. /\ late' = late /\ spoilt \subseteq spoilt'
      /\ lcmaps[m].tgt # n /\ lcmaps'[m] # lcmaps[m] => lcmaps[m].tgt \in spoilt'
  BY <1>2, NoteFacts DEF Running
<1>4. MapsTo(n)' = MapsTo(n)
  BY <1>2 DEF MapsTo, Kept
<1>5. \A k \in MapsTo(n) : Kept(k)
  BY <1>2 DEF MapsTo
<1>6. LateCopies(n) => LateCopies(n)'
  BY <1>2, <1>3 DEF LateCopies, MapsFrom, Kept
<1>7. ArrayFrame(p)
  <2>1. \A k \in Live : lcmaps[k].tgt # n => Same(k) \/ lcmaps[k].tgt \in spoilt'
    BY <1>2, <1>3 DEF Same
  <2> QED
    BY <1>2, <1>3, <2>1 DEF ArrayFrame, Inv, MapsOK
<1>8. \A k \in MapsTo(n)' : lcmaps'[k].auto = (n \in Vols)
  BY <1>1, <1>4, <1>5 DEF OwnOK, Kept
<1>9. \A k, j \in MapsTo(n)' : k = j
  BY <1>1, <1>4 DEF OwnOK
<1>10. n \in spoilt \/ m \in MapsTo(n) => BareOK(n)'
  BY <1>3, <1>4 DEF BareOK
<1> QED
  BY <1>2, <1>4, <1>5, <1>6, <1>7, <1>8, <1>9, <1>10

LEMMA StartLcmapEffect ==
  ASSUME TypeInv, Inv, NEW p \in Procs, NEW n, n = Name(p), StartLcmap(p), Note(p)
  PROVE  Effect(p, n)
<1>1. /\ pc[p] = "startmap" /\ Running(p) /\ UNCHANGED <<req, mapId, ready>>
  BY DEF StartLcmap, Running
<1>0. late' = late /\ spoilt \subseteq spoilt'
  BY <1>1, NoteFacts DEF Running
<1>2. /\ p \notin ready /\ OwnOK(n) /\ req[p].op \in {"clone", "snap"} /\ Creating(p)
      /\ n \notin gone /\ LateCopies(n) /\ n \notin promised \ spoilt /\ OwnMapOK(p)
  BY <1>1, AtWork DEF LabelOK, MakingOK
<1>3. PICK m : m = mapId[p]
  OBVIOUS
<1>4. /\ n \notin spoilt => m \in MapsTo(n)
      /\ \A k \in MapsTo(n) : lcmaps[k].src = req[p].src
  BY <1>1, <1>2, <1>3 DEF OwnMapOK, HasMap
<1>5. PICK o \in Outcomes :
        /\ Spend(o)
        /\ \/ /\ m \in Live /\ SetStatus(m, "copying")
              /\ \/ Go(p, IF req[p].op = "snap" THEN "lsCreated" ELSE "ok") /\ UNCHANGED undo
                 \/ FailTo(p, IF req[p].op = "snap" THEN <<"rmmap", "rmvdisk">> ELSE <<"stop", "rmvdisk">>)
           \/ /\ UNCHANGED copyVars
              /\ FailTo(p, IF req[p].op = "snap" THEN <<"rmmap", "rmvdisk">> ELSE <<"stop", "rmvdisk">>)
  BY <1>3 DEF StartLcmap, Send, StartApply, StartAccepted
<1>6. (faults' = 0 => faults = 0) /\ req'[p] = req[p] /\ Name(p)' = n /\ mapId'[p] = m
  BY <1>1, <1>3, <1>5, SpendFacts DEF Name
<1>7. PICK plan \in {<<"rmmap", "rmvdisk">>, <<"stop", "rmvdisk">>} :
        plan = IF req[p].op = "snap" THEN <<"rmmap", "rmvdisk">> ELSE <<"stop", "rmvdisk">>
  OBVIOUS
<1>8. plan \in Plans
  BY DEF Plans
<1>9. ASSUME FailTo(p, plan), LateCopies(n)', n \in spoilt' \/ m \in MapsTo(n)'
      PROVE  LocalStep(p, "undo") /\ HandlerOK(p)' /\ promised' = promised /\ gone' = gone
  <2>1. LocalStep(p, "undo") /\ pc'[p] = "undo" /\ undo'[p] = plan /\ promised' = promised /\ gone' = gone
    BY <1>0, <1>1, <1>6, <1>8, <1>9, FailStep
  <2>2. HandlerOK(p)'
    BY <1>0, <1>1, <1>2, <1>6, <1>7, <1>9, <2>1, UndoHandler
  <2> QED
    BY <2>1, <2>2
<1>10. CASE UNCHANGED copyVars /\ FailTo(p, plan)
  <2>1. LateCopies(n)' /\ MapsTo(n)' = MapsTo(n)
    BY <1>0, <1>2, <1>10, SameArrayFrame
  <2>2. LocalStep(p, "undo") /\ HandlerOK(p)'
    BY <1>0, <1>4, <1>9, <1>10, <2>1
  <2> QED
    BY <1>0, <1>1, <1>10, <2>2, QuietEffect
<1>11. CASE /\ m \in Live /\ SetStatus(m, "copying")
            /\ \/ Go(p, IF req[p].op = "snap" THEN "lsCreated" ELSE "ok") /\ UNCHANGED undo
               \/ FailTo(p, plan)
  <2>1. "copying" \in Statuses
    BY DEF Statuses
  <2>2. /\ ArrayFrame(p) /\ MapsTo(n)' = MapsTo(n) /\ LateCopies(n)' /\ BareOK(n)'
        /\ vdisks' = vdisks /\ lcmaps'[m].status = "copying"
        /\ \A k \in MapsTo(n) : Kept(k)
        /\ \A k \in MapsTo(n)' : lcmaps'[k].auto = (n \in Vols)
        /\ \A k, j \in MapsTo(n)' : k = j
    BY <1>1, <1>2, <1>4, <1>11, <2>1, MapStatus
  <2>3. (n \notin spoilt' => Readable(n)') /\ StopOK(n)'
    <3>1. n \in spoilt' \/ (m \in MapsTo(n)' /\ n \in vdisks')
      BY <1>0, <1>4, <2>2 DEF TypeInv, MapEnds, MapsTo
    <3> QED
      BY <2>2, <3>1 DEF Readable, StopOK
  <2>4. HandlerOK(p)' /\ LocalFrame(p) /\ gone' = gone
    <3>1. CASE Go(p, "ok") /\ UNCHANGED undo
      <4>1. LocalStep(p, "ok") /\ pc'[p] = "ok" /\ gone' = gone
        BY <1>0, <1>1, <1>2, <1>6, <3>1, PlainStep, GoFacts
      <4> QED
        BY <4>1, AnswerHandler, LocalStepFrame
    <3>2. CASE req[p].op = "snap" /\ Go(p, "lsCreated") /\ UNCHANGED undo
      <4>1. /\ LocalStep(p, "lsCreated") /\ pc'[p] = "lsCreated" /\ gone' = gone /\ promised' = promised
        BY <1>0, <1>1, <1>2, <1>6, <3>2, PlainStep, GoFacts
      <4>2. LabelOK(p)' /\ MakingOK(p)'
        BY <1>0, <1>1, <1>2, <1>6, <2>2, <3>2, <4>1 DEF LabelOK, MakingOK
      <4>3. \A k \in MapsTo(n)' : lcmaps'[k].src = req'[p].src
        BY <1>4, <1>6, <2>2 DEF Kept
      <4>4. OwnMapOK(p)'
        BY <1>0, <1>4, <1>6, <2>2, <4>1, <4>3 DEF OwnMapOK
      <4> QED
        BY <4>1, <4>2, <4>4, LocalStepFrame DEF HandlerOK
    <3>3. CASE FailTo(p, plan)
      BY <1>0, <1>4, <1>9, <2>2, <3>3, LocalStepFrame
    <3> QED
      BY <1>2, <1>11, <3>1, <3>2, <3>3
  <2>5. OwnOK(n)'
    BY <1>2, <2>2, <2>3, <2>4 DEF OwnOK
  <2> QED
    BY <2>2, <2>4, <2>5 DEF Effect
<1> QED
  BY <1>5, <1>7, <1>10, <1>11

LEMMA RestartEffect ==
  ASSUME TypeInv, Inv, NEW p \in Procs, NEW n, n = Name(p), Restart(p), Note(p)
  PROVE  Effect(p, n)
<1>1. /\ pc[p] = "restart" /\ Running(p) /\ UNCHANGED <<req, mapId, ready, undo>> /\ Go(p, "ok")
  BY DEF Restart, Running
<1>0. late' = late /\ spoilt \subseteq spoilt'
  BY <1>1, NoteFacts DEF Running
<1>2. /\ p \notin ready /\ OwnOK(n) /\ req[p].op = "snap" /\ Creating(p) /\ OwnMapOK(p) /\ n \notin gone
  BY <1>1, AtWork DEF LabelOK
<1>3. PICK m : m = mapId[p]
  OBVIOUS
<1>4. n \notin spoilt => m \in MapsTo(n)
  BY <1>1, <1>2, <1>3 DEF OwnMapOK, HasMap
<1>5. PICK o \in Outcomes : Spend(o) /\ (UNCHANGED copyVars \/ (m \in Live /\ SetStatus(m, "copying")))
  BY <1>3 DEF Restart, Send, StartApply, StartAccepted
<1>6. LocalStep(p, "ok") /\ pc'[p] = "ok"
  BY <1>0, <1>1, <1>5, SpendFacts, PlainStep
<1>7. HandlerOK(p)'
  BY <1>6, AnswerHandler
<1>8. promised' = promised /\ gone' = gone
  BY <1>1, <1>2, GoFacts
<1>9. CASE UNCHANGED copyVars
  BY <1>0, <1>1, <1>2, <1>6, <1>7, <1>9, QuietEffect
<1>10. CASE m \in Live /\ SetStatus(m, "copying")
  <2>1. "copying" \in Statuses
    BY DEF Statuses
  <2>2. /\ ArrayFrame(p) /\ MapsTo(n)' = MapsTo(n) /\ BareOK(n)' /\ vdisks' = vdisks
        /\ lcmaps'[m].status = "copying"
        /\ \A k \in MapsTo(n)' : lcmaps'[k].auto = (n \in Vols)
        /\ \A k, j \in MapsTo(n)' : k = j
    BY <1>1, <1>4, <1>10, <2>1, MapStatus
  <2>3. (n \notin spoilt' => Readable(n)') /\ StopOK(n)'
    <3>1. n \in spoilt' \/ (m \in MapsTo(n)' /\ n \in vdisks')
      BY <1>0, <1>4, <2>2 DEF TypeInv, MapEnds, MapsTo
    <3> QED
      BY <2>2, <3>1 DEF Readable, StopOK
  <2>4. OwnOK(n)'
    BY <1>2, <1>8, <2>2, <2>3 DEF OwnOK
  <2> QED
    BY <1>6, <1>7, <2>2, <2>4, LocalStepFrame DEF Effect
<1> QED
  BY <1>5, <1>9, <1>10

LEMMA StopLcmapEffect ==
  ASSUME TypeInv, Inv, NEW p \in Procs, NEW n, n = Name(p), StopLcmap(p), Note(p)
  PROVE  Effect(p, n)
<1>1. /\ pc[p] = "stopmap" /\ Running(p) /\ UNCHANGED <<req, mapId, ready, undo>> /\ Go(p, "poll")
  BY DEF StopLcmap, Running
<1>0. late' = late /\ spoilt \subseteq spoilt'
  BY <1>1, NoteFacts DEF Running
<1>2. /\ p \notin ready /\ OwnOK(n) /\ req[p].op = "delsnap" /\ ~Creating(p) /\ OwnMapOK(p)
      /\ n \notin promised /\ LateCopies(n)
  BY <1>1, AtWork DEF LabelOK, MakingOK
<1>3. PICK m : m = mapId[p]
  OBVIOUS
<1>4. (n \notin spoilt => m \in MapsTo(n)) /\ mapId'[p] = m
  BY <1>1, <1>2, <1>3 DEF OwnMapOK, HasMap
<1>5. PICK o \in Outcomes : Spend(o) /\ (UNCHANGED copyVars \/ (m \in Live /\ SetStatus(m, "stopping")))
  BY <1>3 DEF StopLcmap, Send, StopApply, StopAccepted
<1>6. LocalStep(p, "poll") /\ pc'[p] = "poll" /\ req'[p] = req[p] /\ Name(p)' = n /\ Creating(p)' = Creating(p)
  BY <1>0, <1>1, <1>5, SpendFacts, PlainStep DEF Name, Creating
<1>7. promised' = promised /\ gone' = gone
  BY <1>1, GoFacts
<1>8. ASSUME LateCopies(n)', MapsTo(n)' = MapsTo(n) PROVE HandlerOK(p)'
  BY <1>0, <1>1, <1>2, <1>4, <1>6, <1>8 DEF HandlerOK, LabelOK, MakingOK, OwnMapOK, HasMap
<1>9. CASE UNCHANGED copyVars
  <2>1. LateCopies(n)' /\ MapsTo(n)' = MapsTo(n)
    BY <1>0, <1>2, <1>9, SameArrayFrame
  <2> QED
    BY <1>0, <1>1, <1>2, <1>6, <1>8, <1>9, <2>1, QuietEffect
<1>10. CASE m \in Live /\ SetStatus(m, "stopping")
  <2>1. "stopping" \in Statuses
    BY DEF Statuses
  <2>2. /\ ArrayFrame(p) /\ MapsTo(n)' = MapsTo(n) /\ LateCopies(n)' /\ vdisks' = vdisks /\ BareOK(n)'
        /\ \A k \in MapsTo(n)' : lcmaps'[k].auto = (n \in Vols)
        /\ \A k, j \in MapsTo(n)' : k = j
    BY <1>1, <1>2, <1>4, <1>10, <2>1, MapStatus
  <2>3. StopOK(n)'
    <3>1. Active(p)' /\ ~Creating(p)' /\ Name(p)' = n
      BY <1>2, <1>6 DEF Active
    <3> QED
      BY <3>1 DEF StopOK
  <2>4. faults' = 0 => faults = 0
    BY <1>6 DEF LocalStep
  <2>5. OwnOK(n)'
    BY <1>0, <1>2, <1>7, <2>2, <2>3, <2>4 DEF OwnOK
  <2> QED
    BY <1>6, <1>8, <2>2, <2>5, LocalStepFrame DEF Effect
<1> QED
  BY <1>5, <1>9, <1>10

(* rmlcmap: of the map of the own name, or by an old id of another's.      *)
LEMMA MapGone ==
  ASSUME TypeInv, Inv, NEW p \in Procs, NEW n, n = Name(p), NEW m \in Live, RmMapApply(m), Running(p),
         pc[p] # "mklcmap", Note(p), n \in spoilt \/ m \in MapsTo(n)
  PROVE  /\ ArrayFrame(p) /\ vdisks' = vdisks /\ StopOK(n)' /\ (LateCopies(n) => LateCopies(n)')
         /\ \A k \in MapsTo(n)' : lcmaps'[k].auto = (n \in Vols)
         /\ \A k, j \in MapsTo(n)' : k = j
<1>1. ArrayInv /\ OwnOK(n)
  BY AtWork
<1>2. /\ Live' = Live \ {m} /\ \A k \in Live' : Kept(k) /\ lcmaps'[k] = lcmaps[k]
      /\ vdisks' = vdisks /\ aa' = aa /\ whole' = whole
  BY <1>1, RmMapFacts
<1>3. late' = late /\ spoilt \subseteq spoilt'
  BY NoteFacts DEF Running
<1>4. lcmaps[m].tgt # n => lcmaps[m].tgt \in spoilt'
  <2>1. lcmaps'[m] # lcmaps[m]
    BY <1>2 DEF Live
  <2> QED
    BY <1>2, <2>1, NoteFacts DEF Running
<1>5. \A k \in MapsTo(n)' : k \in MapsTo(n) /\ lcmaps'[k] = lcmaps[k]
  BY <1>2 DEF MapsTo
<1>6. StopOK(n)'
  <2>1. CASE n \in spoilt
    BY <1>3, <2>1 DEF StopOK
  <2>2. CASE m \in MapsTo(n)
    <3>1. MapsTo(n)' = {}
      BY <1>1, <1>2, <2>2 DEF OwnOK, MapsTo
    <3> QED
      BY <3>1 DEF StopOK
  <2> QED
    BY <2>1, <2>2
<1>7. LateCopies(n) => LateCopies(n)'
  BY <1>2, <1>3 DEF LateCopies, MapsFrom
<1>8. ArrayFrame(p)
  <2>1. \A k \in Live : lcmaps[k].tgt # n => Same(k) \/ lcmaps[k].tgt \in spoilt'
    BY <1>2, <1>4 DEF Same
  <2> QED
    BY <1>2, <1>3, <2>1 DEF ArrayFrame, Inv, MapsOK
<1>9. /\ \A k \in MapsTo(n)' : lcmaps'[k].auto = (n \in Vols)
      /\ \A k, j \in MapsTo(n)' : k = j
  BY <1>1, <1>5 DEF OwnOK
<1> QED
  BY <1>2, <1>6, <1>7, <1>8, <1>9

LEMMA RmLcmapEffect ==
  ASSUME TypeInv, Inv, NEW p \in Procs, NEW n, n = Name(p), RmLcmap(p), Note(p)
  PROVE  Effect(p, n)
<1>1. /\ pc[p] = "rmmap" /\ Running(p) /\ UNCHANGED <<req, mapId, ready, undo>> /\ Go(p, "rmvdisk")
  BY DEF RmLcmap, Running
<1>0. late' = late /\ spoilt \subseteq spoilt'
  BY <1>1, NoteFacts DEF Running
<1>2. /\ p \notin ready /\ OwnOK(n) /\ req[p].op = "delsnap" /\ ~Creating(p) /\ OwnMapOK(p)
      /\ n \notin promised /\ LateCopies(n)
  BY <1>1, AtWork DEF LabelOK, MakingOK
<1>3. PICK m : m = mapId[p]
  OBVIOUS
<1>4. n \in spoilt \/ m \in MapsTo(n)
  BY <1>1, <1>2, <1>3 DEF OwnMapOK, HasMap
<1>5. PICK o \in Outcomes : Spend(o) /\ (UNCHANGED copyVars \/ (m \in Live /\ RmMapApply(m)))
  BY <1>3 DEF RmLcmap, Send, RmMapAccepted
<1>6. LocalStep(p, "rmvdisk") /\ pc'[p] = "rmvdisk" /\ req'[p] = req[p] /\ Name(p)' = n
  BY <1>0, <1>1, <1>5, SpendFacts, PlainStep DEF Name
<1>7. promised' = promised /\ gone' = gone
  BY <1>1, GoFacts
<1>8. ASSUME LateCopies(n)' PROVE HandlerOK(p)'
  BY <1>1, <1>2, <1>6, <1>8 DEF HandlerOK, LabelOK, MakingOK, OwnMapOK, HasMap
<1>9. CASE UNCHANGED copyVars
  <2>1. LateCopies(n)'
    BY <1>0, <1>2, <1>9, SameArrayFrame
  <2> QED
    BY <1>0, <1>1, <1>2, <1>6, <1>8, <1>9, <2>1, QuietEffect
<1>10. CASE m \in Live /\ RmMapApply(m)
  <2>1. /\ ArrayFrame(p) /\ vdisks' = vdisks /\ StopOK(n)' /\ LateCopies(n)'
        /\ \A k \in MapsTo(n)' : lcmaps'[k].auto = (n \in Vols)
        /\ \A k, j \in MapsTo(n)' : k = j
    BY <1>1, <1>2, <1>4, <1>10, MapGone
  <2>2. BareOK(n)'
    BY <1>6 DEF BareOK
  <2>3. faults' = 0 => faults = 0
    BY <1>6 DEF LocalStep
  <2>4. OwnOK(n)'
    BY <1>0, <1>2, <1>7, <2>1, <2>2, <2>3 DEF OwnOK
  <2> QED
    BY <1>6, <1>8, <2>1, <2>4, LocalStepFrame DEF Effect
<1> QED
  BY <1>5, <1>9, <1>10

(* The volume of the own name goes, with the map that fills it and the     *)
(* late copies made of it, which are then spoilt.                          *)
LEMMA VolumeGone ==
  ASSUME TypeInv, Inv, NEW p \in Procs, NEW n, n = Name(p), RmVolApply(n), Running(p),
         pc[p] # "mklcmap", Note(p), LateCopies(n)
  PROVE  /\ ArrayFrame(p) /\ MapsTo(n)' = {} /\ LateCopies(n)' /\ n \notin vdisks'
         /\ StopOK(n)' /\ BareOK(n)'
<1>1. ArrayInv
  BY AtWork
<1>2. /\ Live' = Live \ (MapsFrom(n) \cup MapsTo(n)) /\ \A k \in Live' : Kept(k) /\ lcmaps'[k] = lcmaps[k]
      /\ vdisks' = vdisks \ {n} /\ aa' = aa \ {n} /\ whole' = whole \ {n}
  BY <1>1, RmVolFacts
<1>3. MapsTo(n)' = {} /\ MapsFrom(n)' = {}
  BY <1>2 DEF MapsTo, MapsFrom
<1>4. late' = late
  BY NoteFacts DEF Running
<1>5. ASSUME NEW m \in Live, lcmaps[m].tgt # n PROVE Same(m) \/ lcmaps[m].tgt \in spoilt'
  <2>1. CASE m \in MapsFrom(n)
    <3>1. lcmaps[m].tgt \in late
      BY <2>1 DEF LateCopies
    <3>2. lcmaps'[m] # lcmaps[m]
      BY <1>2, <2>1 DEF Live
    <3> QED
      BY <1>5, <3>1, <3>2, NoteFacts DEF Running
  <2>2. CASE m \notin MapsFrom(n)
    BY <1>2, <1>5, <2>2 DEF MapsTo, Same
  <2> QED
    BY <2>1, <2>2
<1>6. ArrayFrame(p)
  BY <1>2, <1>4, <1>5 DEF ArrayFrame, Inv, MapsOK
<1>7. StopOK(n)' /\ LateCopies(n)'
  BY <1>3 DEF StopOK, LateCopies
<1>8. BareOK(n)'
  BY <1>2 DEF BareOK
<1> QED
  BY <1>2, <1>3, <1>6, <1>7, <1>8

LEMMA RemoveEffect ==
  ASSUME TypeInv, Inv, NEW p \in Procs, NEW n, n = Name(p), RmVolume(p) \/ RmVdisk(p), Note(p)
  PROVE  Effect(p, n)
<1>1. /\ pc[p] \in {"rmvolume", "rmvdisk"} /\ Running(p) /\ UNCHANGED <<req, mapId, ready, undo>>
  BY DEF RmVolume, RmVdisk, Running
<1>0. late' = late /\ spoilt \subseteq spoilt'
  BY <1>1, NoteFacts DEF Running
<1>2. /\ p \notin ready /\ OwnOK(n) /\ ~Creating(p) /\ n \notin promised /\ LateCopies(n)
      /\ req[p].op \in {"delvol", "delsnap"}
      /\ n \in Snaps => n \notin aa
  BY <1>1, AtWork DEF LabelOK, MakingOK, Inv, MapsOK
<1>3. PICK o \in Outcomes, l \in {"ok", "err"} :
        /\ Spend(o) /\ Go(p, l)
        /\ \/ RmVolApply(n)
           \/ /\ UNCHANGED copyVars /\ l = "err"
              /\ pc[p] = "rmvdisk" => o # "done" \/ n \notin vdisks \/ n \in aa
  BY DEF RmVolume, RmVdisk, Send, RmVolAccepted, Name
<1>4. LocalStep(p, l) /\ pc'[p] = l /\ (faults' = 0 => faults = 0 /\ o = "done")
  BY <1>0, <1>1, <1>3, SpendFacts, PlainStep
<1>5. HandlerOK(p)'
  BY <1>1, <1>2, <1>4, AnswerHandler
<1>6. CASE RmVolApply(n)
  <2>1. /\ ArrayFrame(p) /\ MapsTo(n)' = {} /\ n \notin vdisks' /\ StopOK(n)' /\ BareOK(n)'
    BY <1>1, <1>2, <1>6, VolumeGone
  <2>2. n \notin promised'
    BY <1>1, <1>2, <1>3, GoFacts
  <2>3. OwnOK(n)'
    BY <2>1, <2>2 DEF OwnOK
  <2> QED
    BY <1>4, <1>5, <2>1, <2>3, LocalStepFrame DEF Effect
<1>7. CASE UNCHANGED copyVars /\ l = "err" /\ (pc[p] = "rmvdisk" => o # "done" \/ n \notin vdisks \/ n \in aa)
  <2>1. CASE n \in Snaps
    BY <1>0, <1>1, <1>2, <1>4, <1>5, <1>7, <2>1, QuietEffect
  <2>2. CASE n \notin Snaps
    <3>1. ArrayFrame(p) /\ MapsTo(n)' = MapsTo(n) /\ lcmaps' = lcmaps /\ vdisks' = vdisks
      BY <1>0, <1>7, SameArray, SameArrayFrame
    <3>2. n \notin promised' /\ gone' = gone
      BY <1>1, <1>2, <1>3, <1>7, GoFacts
    <3>3. OwnOK(n)'
      BY <1>0, <1>2, <1>4, <2>2, <3>1, <3>2 DEF OwnOK
    <3> QED
      BY <1>4, <1>5, <3>1, <3>3, LocalStepFrame DEF Effect
  <2> QED
    BY <2>1, <2>2
<1> QED
  BY <1>3, <1>6, <1>7

(* The clean-up.  By an old id it may stop or remove the map of another    *)
(* name, which is then spoilt.                                             *)
LEMMA UndoEffect ==
  ASSUME TypeInv, Inv, NEW p \in Procs, NEW n, n = Name(p), Undo(p), Note(p)
  PROVE  Effect(p, n)
<1>1. /\ pc[p] = "undo" /\ Running(p) /\ UNCHANGED <<req, mapId, ready>> /\ undo[p] \in Plans
      /\ undo' = [undo EXCEPT ![p] = Tail(undo[p])]
  BY DEF Undo, Running, TypeInv, UndoOK
<1>0. late' = late /\ spoilt \subseteq spoilt' /\ (faults' # faults => n \in spoilt')
  BY <1>1, NoteFacts DEF Running
<1>2. /\ p \notin ready /\ OwnOK(n) /\ req[p].op \in {"clone", "snap"} /\ Creating(p) /\ OwnMapOK(p)
      /\ n \notin gone /\ LateCopies(n) /\ n \notin promised \ spoilt /\ LabelOK(p) /\ ArrayInv
  BY <1>1, AtWork DEF LabelOK, MakingOK
<1>3. PICK m, plan : m = mapId[p] /\ plan = undo[p]
  OBVIOUS
<1>4. /\ plan \in Plans /\ Head(plan) \in UndoSteps
      /\ Len(plan) > 1 => Tail(plan) \in Plans /\ Head(plan) # "rmvdisk"
      /\ ~(Len(plan) > 1) => plan = <<"rmvdisk">> /\ Head(plan) = "rmvdisk" /\ Tail(plan) = <<>>
      /\ plan = <<"stop", "rmvdisk">> => Head(plan) = "stop" /\ Tail(plan) = <<"rmvdisk">>
      /\ plan = <<"rmmap", "rmvdisk">> => Head(plan) = "rmmap" /\ Tail(plan) = <<"rmvdisk">>
      /\ plan = <<"stop", "rmmap", "rmvdisk">> => Head(plan) = "stop" /\ Tail(plan) = <<"rmmap", "rmvdisk">>
  BY <1>1, <1>3, PlanFacts
<1>5. PICK o \in Outcomes :
        /\ Spend(o)
        /\ \/ /\ UNCHANGED copyVars
              /\ Head(plan) = "rmvdisk" => o = "unsent" \/ n \notin vdisks
           \/ Head(plan) = "stop" /\ m \in Live /\ SetStatus(m, "stopping")
           \/ Head(plan) = "rmmap" /\ m \in Live /\ RmMapApply(m)
           \/ Head(plan) = "rmvdisk" /\ RmVolApply(n)
  <2>1. PICK o \in Outcomes :
          CASE Head(plan) = "stop"    -> Send(o, StopAccepted(m), StopApply(m))
            [] Head(plan) = "rmmap"   -> Send(o, RmMapAccepted(m), RmMapApply(m))
            [] Head(plan) = "rmvdisk" -> Send(o, RmVolAccepted(n), RmVolApply(n))
    BY <1>3 DEF Undo, Name
  <2>2. CASE Head(plan) = "stop"
    BY <2>1, <2>2 DEF Send, StopApply, StopAccepted
  <2>3. CASE Head(plan) = "rmmap"
    BY <2>1, <2>3 DEF Send, RmMapAccepted
  <2>4. CASE Head(plan) = "rmvdisk"
    BY <2>1, <2>4 DEF Send, RmVolAccepted
  <2> QED
    BY <1>4, <2>2, <2>3, <2>4 DEF UndoSteps
<1>6. PICK l \in {"undo", "err"} : Go(p, l) /\ (l = "undo" <=> Len(plan) > 1)
  BY <1>2, <1>3 DEF Undo
<1>7. /\ (faults' = 0 => faults = 0 /\ o = "done") /\ req'[p] = req[p] /\ Name(p)' = n /\ mapId'[p] = m
      /\ o = "unsent" => n \in spoilt'
  <2>1. o = "unsent" => faults' # faults
    BY <1>5 DEF Spend, TypeInv, TypeOK
  <2> QED
    BY <1>0, <1>1, <1>3, <1>5, <2>1, SpendFacts DEF Name
<1>8. /\ undo'[p] = Tail(plan) /\ \A q \in Procs : q # p => undo'[q] = undo[q]
  BY <1>1, <1>3 DEF TypeInv, UndoOK
<1>9. LocalStep(p, l) /\ pc'[p] = l /\ promised' = promised /\ gone' = gone
  <2>1. pc'[p] = l /\ promised' = promised /\ gone' = gone
    BY <1>6, GoFacts
  <2> QED
    BY <1>0, <1>1, <1>2, <1>6, <1>7, <1>8, <2>1 DEF LocalStep
<1>10. n \notin promised' \ spoilt' /\ n \notin gone' /\ p \notin ready'
  BY <1>0, <1>1, <1>2, <1>9
<1>11. \/ req[p].op \in {"clone", "snap"} /\ plan = <<"rmvdisk">>
       \/ req[p].op = "clone" /\ plan = <<"stop", "rmvdisk">>
       \/ /\ req[p].op = "snap" /\ plan \in {<<"rmmap", "rmvdisk">>, <<"stop", "rmmap", "rmvdisk">>}
          /\ n \in spoilt \/ m \in MapsTo(n)
  <2>1. Len(<<"stop", "rmmap", "rmvdisk">>) = 3
    OBVIOUS
  <2>2. req[p].op = "clone" => plan \notin {<<"rmmap", "rmvdisk">>, <<"stop", "rmmap", "rmvdisk">>}
    <3>1. req[p].op = "clone" => Len(plan) < 3 /\ Head(plan) # "rmmap"
      BY <1>1, <1>2, <1>3 DEF LabelOK
    <3>2. req[p].op = "clone" => plan # <<"rmmap", "rmvdisk">>
      BY <1>4, <3>1
    <3>3. req[p].op = "clone" => plan # <<"stop", "rmmap", "rmvdisk">>
      BY <2>1, <3>1
    <3> QED
      BY <3>2, <3>3
  <2>3. req[p].op = "snap" => plan # <<"stop", "rmvdisk">>
    BY <1>1, <1>2, <1>3 DEF LabelOK
  <2>4. /\ req[p].op = "snap" /\ plan \in {<<"rmmap", "rmvdisk">>, <<"stop", "rmmap", "rmvdisk">>}
           => n \in spoilt \/ m \in MapsTo(n)
    <3>1. plan \in {<<"rmmap", "rmvdisk">>, <<"stop", "rmmap", "rmvdisk">>} => Head(plan) # "rmvdisk"
      BY <1>4
    <3> QED
      BY <1>1, <1>2, <1>3, <3>1 DEF OwnMapOK, HasMap
  <2> QED
    BY <1>2, <1>4, <2>2, <2>3, <2>4 DEF Plans
<1>12. ASSUME LateCopies(n)',
              plan = <<"stop", "rmmap", "rmvdisk">> => n \in spoilt' \/ m \in MapsTo(n)'
       PROVE  HandlerOK(p)'
  <2>1. CASE l = "err"
    BY <1>9, <1>10, <2>1, AnswerHandler
  <2>2. CASE l = "undo"
    <3>1. Len(plan) > 1 /\ plan # <<"rmvdisk">>
      <4>1. ~(Len(<<"rmvdisk">>) > 1)
        OBVIOUS
      <4> QED
        BY <1>6, <2>2, <4>1
    <3>2. \/ req[p].op \in {"clone", "snap"} /\ Tail(plan) = <<"rmvdisk">>
          \/ /\ req[p].op = "snap" /\ Tail(plan) = <<"rmmap", "rmvdisk">>
             /\ n \in spoilt' \/ m \in MapsTo(n)'
      BY <1>4, <1>11, <1>12, <3>1
    <3> QED
      BY <1>7, <1>8, <1>9, <1>10, <1>12, <2>2, <3>2, UndoHandler
  <2> QED
    BY <1>6, <2>1, <2>2
<1>13. CASE UNCHANGED copyVars /\ (Head(plan) = "rmvdisk" => o = "unsent" \/ n \notin vdisks)
  <2>1. ArrayFrame(p) /\ MapsTo(n)' = MapsTo(n) /\ lcmaps' = lcmaps /\ vdisks' = vdisks /\ LateCopies(n)'
    BY <1>0, <1>2, <1>13, SameArray, SameArrayFrame
  <2>2. HandlerOK(p)'
    BY <1>0, <1>11, <1>12, <2>1 DEF Plans
  <2>3. CASE l = "undo"
    BY <1>0, <1>1, <1>9, <1>13, <2>2, <2>3, QuietEffect
  <2>4. CASE l = "err"
    <3>1. o = "unsent" \/ n \notin vdisks
      BY <1>4, <1>6, <1>13, <2>4
    <3>2. StopOK(n)' /\ BareOK(n)'
      <4>1. CASE o = "unsent"
        <5>1. n \in spoilt'
          BY <1>7, <4>1
        <5> QED
          BY <5>1 DEF StopOK, BareOK
      <4>2. CASE n \notin vdisks
        <5>1. MapsTo(n) = {}
          BY <1>2, <4>2 DEF ArrayInv, MapEnds, MapsTo
        <5> QED
          BY <2>1, <4>2, <5>1 DEF StopOK, BareOK
      <4> QED
        BY <3>1, <4>1, <4>2
    <3>3. OwnOK(n)'
      BY <1>2, <1>10, <2>1, <3>2 DEF OwnOK
    <3> QED
      BY <1>9, <2>1, <2>2, <3>3, LocalStepFrame DEF Effect
  <2> QED
    BY <1>6, <2>3, <2>4
<1>14. CASE Head(plan) = "stop" /\ m \in Live /\ SetStatus(m, "stopping")
  <2>1. l = "undo" /\ "stopping" \in Statuses
    BY <1>4, <1>6, <1>14 DEF Statuses
  <2>2. /\ ArrayFrame(p) /\ MapsTo(n)' = MapsTo(n) /\ LateCopies(n)'
        /\ \A k \in MapsTo(n)' : lcmaps'[k].auto = (n \in Vols)
        /\ \A k, j \in MapsTo(n)' : k = j
    BY <1>1, <1>2, <1>14, <2>1, MapStatus
  <2>3. HandlerOK(p)'
    BY <1>0, <1>11, <1>12, <2>2 DEF Plans
  <2>4. StopOK(n)' /\ BareOK(n)'
    BY <1>7, <1>9, <2>1 DEF StopOK, BareOK
  <2>5. OwnOK(n)'
    BY <1>10, <2>2, <2>4 DEF OwnOK
  <2> QED
    BY <1>9, <2>2, <2>3, <2>5, LocalStepFrame DEF Effect
<1>15. CASE Head(plan) = "rmmap" /\ m \in Live /\ RmMapApply(m)
  <2>1. plan # <<"stop", "rmmap", "rmvdisk">> /\ l = "undo" /\ (n \in spoilt \/ m \in MapsTo(n))
    BY <1>4, <1>6, <1>11, <1>15
  <2>2. /\ ArrayFrame(p) /\ LateCopies(n)'
        /\ \A k \in MapsTo(n)' : lcmaps'[k].auto = (n \in Vols)
        /\ \A k, j \in MapsTo(n)' : k = j
    BY <1>1, <1>2, <1>15, <2>1, MapGone
  <2>3. HandlerOK(p)'
    BY <1>12, <2>1, <2>2
  <2>4. StopOK(n)' /\ BareOK(n)'
    BY <1>7, <1>9, <2>1 DEF StopOK, BareOK
  <2>5. OwnOK(n)'
    BY <1>10, <2>2, <2>4 DEF OwnOK
  <2> QED
    BY <1>9, <2>2, <2>3, <2>5, LocalStepFrame DEF Effect
<1>16. CASE Head(plan) = "rmvdisk" /\ RmVolApply(n)
  <2>1. ArrayFrame(p) /\ MapsTo(n)' = {} /\ LateCopies(n)' /\ StopOK(n)' /\ BareOK(n)'
    BY <1>1, <1>2, <1>16, VolumeGone
  <2>2. HandlerOK(p)'
    BY <1>4, <1>12, <1>16, <2>1
  <2>3. OwnOK(n)'
    BY <1>10, <2>1 DEF OwnOK
  <2> QED
    BY <1>9, <2>1, <2>2, <2>3, LocalStepFrame DEF Effect
<1> QED
  BY <1>5, <1>13, <1>14, <1>15, <1>16

LEMMA StepInv ==
  ASSUME TypeInv, TypeInv', Inv, NEW p \in Procs, Step(p)
  PROVE  Inv'
<1>1. PICK n : n = Name(p)
  OBVIOUS
<1>2. Effect(p, n)
  BY <1>1, MkVolEffect, MkLcmapEffect, StartLcmapEffect, UndoEffect, LsTargetEffect, RestartEffect, LsSourceEffect,
     LsCreatedEffect, LsVolEffect, LsMapsEffect, RemoveEffect, StopLcmapEffect, PollEffect, RmLcmapEffect
     DEF Step, Command
<1> QED
  BY <1>1, <1>2, EffectInv
-----------------------------------------------------------------------------
(* The callers and the array *)

(* A step of a caller, which leaves the array alone. *)
LEMMA CallerInv ==
  ASSUME TypeInv, Inv, NEW p \in Procs, UNCHANGED copyVars, HandlerOK(p)', Flight', Opposed', AskedOK',
         \A q \in Procs : q # p => /\ pc'[q] = pc[q] /\ req'[q] = req[q] /\ mapId'[q] = mapId[q]
                                   /\ undo'[q] = undo[q] /\ (q \in ready' <=> q \in ready),
         promised' \subseteq promised, gone' \subseteq gone, spoilt \subseteq spoilt', late' = late,
         faults' = 0 => faults = 0,
         Active(p) /\ ~Creating(p) => Active(p)' /\ ~Creating(p)' /\ Name(p)' = Name(p),
         pc[p] = "undo" => Name(p) \in spoilt',
         pc[p] \in {"mklcmap", "undo", "rmvdisk"} => faults' # 0
  PROVE  Inv'
<1>1. /\ Live' = Live /\ lcmaps' = lcmaps /\ vdisks' = vdisks /\ aa' = aa
      /\ \A n : MapsTo(n)' = MapsTo(n) /\ (LateCopies(n)' <=> LateCopies(n)) /\ (Readable(n)' <=> Readable(n))
  BY SameArray, SameArrayFrame
<1>2. MapsOK'
  BY <1>1 DEF Inv, MapsOK
<1>3. \A q \in Procs : q # p => /\ Name(q)' = Name(q) /\ Creating(q)' = Creating(q) /\ (Active(q)' <=> Active(q))
  BY DEF Name, Creating, Active
<1>4. ASSUME NEW n \in Snaps PROVE (StopOK(n) /\ BareOK(n))'
  <2>1. StopOK(n) /\ BareOK(n)
    BY DEF Inv
  <2>2. StopOK(n)'
    <3> SUFFICES ASSUME NEW m \in MapsTo(n), lcmaps[m].status \in {"stopping", "stopped"}
                 PROVE  \/ n \in spoilt'
                        \/ \E q \in Procs : Active(q)' /\ ~Creating(q)' /\ Name(q)' = n
                        \/ \E q \in Procs : pc'[q] = "undo" /\ Name(q)' = n
      BY <1>1 DEF StopOK
    <3>1. \/ n \in spoilt
          \/ \E q \in Procs : Active(q) /\ ~Creating(q) /\ Name(q) = n
          \/ \E q \in Procs : pc[q] = "undo" /\ Name(q) = n
      BY <2>1 DEF StopOK
    <3>2. CASE n \in spoilt
      BY <3>2
    <3>3. CASE \E q \in Procs : Active(q) /\ ~Creating(q) /\ Name(q) = n
      BY <1>3, <3>3
    <3>4. CASE \E q \in Procs : pc[q] = "undo" /\ Name(q) = n
      BY <1>3, <3>4
    <3> QED
      BY <3>1, <3>2, <3>3, <3>4
  <2>3. BareOK(n)'
    BY <1>1, <1>3, <2>1 DEF BareOK
  <2> QED
    BY <2>2, <2>3
<1>5. ASSUME NEW q \in Procs PROVE HandlerOK(q)'
  <2>1. CASE q # p
    <3>1. HandlerOK(q)
      BY DEF Inv
    <3>2. \A m \in Live' : lcmaps'[m].tgt = Name(q) => m \in MapsTo(Name(q)) /\ Kept(m)
      BY <1>1 DEF MapsTo, Kept
    <3>3. HasMap(q) /\ Name(q) \notin spoilt' => Kept(mapId[q])
      BY <1>1, <3>1 DEF HandlerOK, OwnMapOK, Kept, MapsTo
    <3>4. MakingOK(q) => MakingOK(q)'
      <4>1. PICK n : n = Name(q) /\ n = Name(q)'
        BY <1>3, <2>1
      <4> QED
        BY <1>1, <2>1, <4>1 DEF MakingOK
    <3> QED
      BY <1>1, <2>1, <3>1, <3>2, <3>3, <3>4, SameHandler
  <2> QED
    BY <2>1
<1>6. PromiseKept'
  BY <1>1 DEF Inv, PromiseKept
<1>7. VolumesStayGone'
  BY <1>1 DEF Inv, VolumesStayGone
<1> QED
  BY <1>2, <1>4, <1>5, <1>6, <1>7 DEF Inv

LEMMA BeginInv ==
  ASSUME TypeInv, Inv, SingleFlight, NEW p \in Procs, NEW r \in Request, Begin(p, r),
         pc[p] = "idle" \/ (pc[p] = "err" /\ r = req[p])
  PROVE  Inv'
<1>1. /\ UNCHANGED copyVars /\ UNCHANGED <<spoilt, late, faults>>
      /\ promised' \subseteq promised /\ gone' \subseteq gone
      /\ r.op \in Creates => r.name \notin gone'
      /\ r.op \notin Creates => r.name \notin promised'
      /\ ready' = ready \ {p}
  BY DEF Begin
<1>2. /\ req'[p] = r /\ pc'[p] = FirstLabel(r)
      /\ \A q \in Procs : q # p => /\ pc'[q] = pc[q] /\ req'[q] = req[q] /\ mapId'[q] = mapId[q]
                                   /\ undo'[q] = undo[q] /\ (q \in ready' <=> q \in ready)
  BY DEF Begin, TypeInv, TypeOK, UndoOK
<1>3. /\ r.op \in {"create", "clone", "snap", "delvol", "delsnap"}
      /\ pc'[p] \in {"mkvol", "lsTarget", "lsVol"}
      /\ pc'[p] = "mkvol" => r.op \in Creates
      /\ pc'[p] = "lsTarget" => r.op \in {"snap", "delsnap"}
      /\ pc'[p] = "lsVol" => r.op = "delvol"
  BY <1>2, Requests DEF FirstLabel, Creates
<1>4. HandlerOK(p)'
  BY <1>1, <1>2, <1>3 DEF HandlerOK, LabelOK, MakingOK, OwnMapOK, HasMap
<1>5. Flight'
  <2>1. \A q \in Procs : q # p /\ Running(q) => req[q].name # r.name
    BY DEF Begin
  <2>2. \A q \in Procs : q # p => Running(q)' = Running(q)
    BY <1>2 DEF Running
  <2> SUFFICES ASSUME NEW a \in Procs, NEW b \in Procs, a # b, Running(a)', Running(b)'
               PROVE  req'[a].name # req'[b].name
    BY DEF Flight, Name
  <2>3. CASE a # p /\ b # p
    BY <1>2, <2>2, <2>3 DEF Inv, Flight, Name
  <2>4. CASE a = p
    BY <1>2, <2>1, <2>2, <2>4
  <2>5. CASE b = p
    BY <1>2, <2>1, <2>2, <2>5
  <2> QED
    BY <2>3, <2>4, <2>5
<1>6. \A q \in Procs : q # p => /\ Name(q)' = Name(q) /\ Creating(q)' = Creating(q) /\ (Active(q)' <=> Active(q))
  BY <1>2 DEF Name, Creating, Active
<1>7. Name(p)' = r.name /\ (Creating(p)' <=> r.op \in Creates)
  BY <1>2 DEF Name, Creating
<1>8. Opposed'
  <2>1. PICK others : others = {q \in Procs \ {p} : Opposite(q, r)}
    OBVIOUS
  <2>2. clouded' = (clouded \ {p}) \cup others \cup (IF others # {} THEN {p} ELSE {})
    BY <2>1 DEF Begin
  <2>3. ASSUME NEW q \in Procs, q # p, Active(q), Name(q) = r.name, ~(Creating(q) <=> r.op \in Creates)
        PROVE  q \in clouded' /\ p \in clouded'
    <3>1. Opposite(q, r)
      BY <2>3 DEF Opposite, Active, Name, Creating
    <3> QED
      BY <2>1, <2>2, <2>3, <3>1
  <2> SUFFICES ASSUME NEW a \in Procs, NEW b \in Procs, Active(a)', Active(b)', Name(a)' = Name(b)',
                      Creating(a)', ~Creating(b)'
               PROVE  a \in clouded' /\ b \in clouded'
    BY DEF Opposed
  <2>4. CASE a # p /\ b # p
    <3>1. a \in clouded /\ b \in clouded
      BY <1>6, <2>4 DEF Inv, Opposed
    <3> QED
      BY <2>2, <2>4, <3>1
  <2>5. CASE a = p
    BY <1>6, <1>7, <2>3, <2>5
  <2>6. CASE b = p
    BY <1>6, <1>7, <2>3, <2>6
  <2> QED
    BY <2>4, <2>5, <2>6
<1>9. AskedOK'
  <2> SUFFICES ASSUME NEW q \in Procs, Active(q)'
               PROVE  Name(q)' \notin (IF Creating(q)' THEN gone' ELSE promised')
    BY DEF AskedOK
  <2>1. CASE q = p
    BY <1>1, <1>7, <2>1
  <2>2. CASE q # p
    <3>1. Name(q) \notin (IF Creating(q) THEN gone ELSE promised)
      BY <1>6, <2>2 DEF Inv, AskedOK
    <3> QED
      BY <1>1, <1>6, <2>2, <3>1
  <2> QED
    BY <2>1, <2>2
<1>10. Active(p) /\ ~Creating(p) => Active(p)' /\ ~Creating(p)' /\ Name(p)' = Name(p)
  BY <1>2, <1>3, <1>7 DEF Active, Creating, Name
<1> QED
  BY <1>1, <1>2, <1>4, <1>5, <1>8, <1>9, <1>10, CallerInv

LEMMA DoneInv ==
  ASSUME TypeInv, Inv, NEW p \in Procs, Done(p)
  PROVE  Inv'
<1>1. /\ UNCHANGED copyVars /\ UNCHANGED <<promised, gone, spoilt, late, faults>>
      /\ ready' = ready \ {p} /\ clouded' = clouded \ {p} /\ pc[p] \in {"ok", "err"}
      /\ pc[p] = "err" => Creating(p)
  BY DEF Done, Creating
<1>2. /\ pc'[p] = "idle"
      /\ \A q \in Procs : q # p => /\ pc'[q] = pc[q] /\ req'[q] = req[q] /\ mapId'[q] = mapId[q]
                                   /\ undo'[q] = undo[q] /\ (q \in ready' <=> q \in ready)
  BY DEF Done, TypeInv, TypeOK, UndoOK
<1>3. HandlerOK(p)'
  BY <1>1, <1>2 DEF HandlerOK, LabelOK, MakingOK, OwnMapOK, HasMap
<1>4. /\ ~Active(p)' /\ ~Running(p)'
      /\ \A q \in Procs : q # p => /\ Name(q)' = Name(q) /\ Creating(q)' = Creating(q) /\ (Active(q)' <=> Active(q))
                                   /\ (Running(q)' <=> Running(q))
  BY <1>2 DEF Name, Creating, Active, Running
<1>5. Flight'
  BY <1>4 DEF Inv, Flight
<1>6. Opposed'
  BY <1>1, <1>4 DEF Inv, Opposed
<1>7. AskedOK'
  BY <1>1, <1>4 DEF Inv, AskedOK
<1>8. ~(Active(p) /\ ~Creating(p))
  BY <1>1 DEF Active
<1> QED
  BY <1>1, <1>2, <1>3, <1>5, <1>6, <1>7, <1>8, CallerInv

LEMMA KillInv ==
  ASSUME TypeInv, Inv, NEW p \in Procs, Kill(p)
  PROVE  Inv'
<1>1. /\ UNCHANGED copyVars /\ UNCHANGED <<req, mapId, ready, undo, promised, gone, clouded, late>>
      /\ Running(p) /\ spoilt \subseteq spoilt' /\ (pc[p] = "undo" => Name(p) \in spoilt')
  BY DEF Kill, Name
<1>2. faults' # 0
  BY DEF Kill, TypeInv, TypeOK
<1>3. pc'[p] = "err" /\ \A q \in Procs : q # p => pc'[q] = pc[q]
  BY DEF Kill, TypeInv, TypeOK
<1>4. HandlerOK(p)'
  BY <1>1, <1>3, AtWork, AnswerHandler
<1>5. /\ Active(p) /\ ~Running(p)'
      /\ \A q \in Procs : /\ Name(q)' = Name(q) /\ Creating(q)' = Creating(q) /\ (Active(q)' <=> Active(q))
                          /\ (Running(q)' => Running(q))
  BY <1>1, <1>3 DEF Name, Creating, Active, Running
<1>6. Flight'
  BY <1>5 DEF Inv, Flight
<1>7. Opposed'
  BY <1>1, <1>5 DEF Inv, Opposed
<1>8. AskedOK'
  BY <1>1, <1>5 DEF Inv, AskedOK
<1> QED
  BY <1>1, <1>2, <1>3, <1>4, <1>5, <1>6, <1>7, <1>8, CallerInv

LEMMA ArrayStepInv ==
  ASSUME TypeInv, Inv, Array
  PROVE  Inv'
<1>1. /\ pc' = pc /\ req' = req /\ mapId' = mapId /\ ready' = ready /\ undo' = undo
      /\ promised' = promised /\ gone' = gone /\ clouded' = clouded /\ spoilt' = spoilt /\ late' = late
      /\ faults' = faults
  BY DEF Array, histVars
<1>2. PICK m \in MapIds : Stopped(m) \/ CopyDone(m)
  BY DEF Array
<1>3. ArrayInv
  BY DEF TypeInv, TypeOK, ArrayInv
<1>4. /\ m \in Live /\ lcmaps[m].status # "idle"
      /\ \A k \in Live' : k \in Live /\ Kept(k) /\ (k # m => lcmaps'[k] = lcmaps[k])
      /\ vdisks' = vdisks /\ aa' = aa
      /\ \/ Live' = Live /\ lcmaps[m].status = "stopping" /\ lcmaps'[m].status = "stopped" /\ whole' = whole
         \/ /\ Live' = Live \ {m} /\ lcmaps[m].auto
            /\ whole' = whole \cup {lcmaps[m].tgt}
  BY <1>2, <1>3, ArrayFacts
<1>5. Live' # Live => Live' = Live \ {m} /\ lcmaps[m].tgt \in Vols /\ lcmaps[m].tgt \notin Snaps
                      /\ whole' = whole \cup {lcmaps[m].tgt}
  <2>1. \A x : ~(x \in Vols /\ x \in Snaps)
    BY CopiesAssumption DEF CopiesAssumption
  <2> QED
    BY <1>4, <2>1 DEF Inv, MapsOK
<1>6. \A q \in Procs : /\ Name(q)' = Name(q) /\ Creating(q)' = Creating(q) /\ (Active(q)' <=> Active(q))
                       /\ (Running(q)' <=> Running(q))
  BY <1>1 DEF Name, Creating, Active, Running
<1>7. Flight' /\ Opposed' /\ AskedOK'
  <2>1. Flight'
    BY <1>6 DEF Inv, Flight
  <2>2. Opposed'
    BY <1>1, <1>6 DEF Inv, Opposed
  <2>3. AskedOK'
    BY <1>1, <1>6 DEF Inv, AskedOK
  <2> QED
    BY <2>1, <2>2, <2>3
<1>8. MapsOK'
  BY <1>4 DEF Inv, MapsOK, Kept
<1>9. ASSUME NEW n \in Snaps PROVE (StopOK(n) /\ BareOK(n))'
  <2>1. StopOK(n) /\ BareOK(n)
    BY DEF Inv
  <2>2. /\ \A k \in MapsTo(n)' : /\ k \in MapsTo(n)
                                 /\ lcmaps'[k].status \in {"stopping", "stopped"}
                                      => lcmaps[k].status \in {"stopping", "stopped"}
        /\ \A k \in MapsTo(n) : k \in MapsTo(n)'
    BY <1>4, <1>5 DEF MapsTo, Kept
  <2>3. StopOK(n)'
    <3> SUFFICES ASSUME NEW k \in MapsTo(n)', lcmaps'[k].status \in {"stopping", "stopped"}
                 PROVE  \/ n \in spoilt'
                        \/ \E q \in Procs : Active(q)' /\ ~Creating(q)' /\ Name(q)' = n
                        \/ \E q \in Procs : pc'[q] = "undo" /\ Name(q)' = n
      BY DEF StopOK
    <3> QED
      BY <1>1, <1>6, <2>1, <2>2 DEF StopOK
  <2>4. BareOK(n)'
    BY <1>1, <1>4, <1>6, <2>1, <2>2 DEF BareOK
  <2> QED
    BY <2>3, <2>4
<1>10. ASSUME NEW q \in Procs PROVE HandlerOK(q)'
  <2>1. HandlerOK(q)
    BY DEF Inv
  <2>2. ASSUME Running(q)
        PROVE  /\ MakingOK(q) => MakingOK(q)'
               /\ \A k \in Live' : lcmaps'[k].tgt = Name(q) => k \in MapsTo(Name(q)) /\ Kept(k)
               /\ HasMap(q) /\ Name(q) \notin spoilt' =>
                    /\ Kept(mapId[q])
                    /\ lcmaps[mapId[q]].status = "idle" <=> lcmaps'[mapId[q]].status = "idle"
    <3>1. \A k \in Live' : lcmaps'[k].tgt = Name(q) => k \in MapsTo(Name(q)) /\ Kept(k)
      BY <1>4 DEF MapsTo, Kept
    <3>3. MakingOK(q) => MakingOK(q)'
      <4>1. PICK n : n = Name(q) /\ n = Name(q)'
        BY <1>6
      <4>2. LateCopies(n) => LateCopies(n)'
        BY <1>1, <1>4 DEF LateCopies, MapsFrom, Kept
      <4> QED
        BY <1>1, <4>1, <4>2 DEF MakingOK
    <3>2. ASSUME HasMap(q), Name(q) \notin spoilt
          PROVE  /\ Kept(mapId[q])
                 /\ lcmaps[mapId[q]].status = "idle" <=> lcmaps'[mapId[q]].status = "idle"
      <4>1. mapId[q] \in Live /\ lcmaps[mapId[q]].tgt = Name(q)
        BY <2>1, <3>2 DEF HandlerOK, OwnMapOK, MapsTo
      <4>2. mapId[q] \in Live'
        <5> SUFFICES ASSUME mapId[q] \notin Live' PROVE FALSE
          OBVIOUS
        <5>1. mapId[q] = m /\ Name(q) \notin Snaps
          BY <1>4, <1>5, <4>1
        <5>2. /\ LabelOK(q) /\ OwnMapOK(q) /\ (req[q].op \in {"snap", "delsnap"} => Name(q) \in Snaps)
          BY <2>2, AtWork
        <5>3. pc[q] = "startmap"
          BY <3>2, <5>1, <5>2 DEF LabelOK, HasMap
        <5> QED
          BY <1>4, <3>2, <5>1, <5>2, <5>3 DEF OwnMapOK
      <4> QED
        BY <1>4, <4>2
    <3> QED
      BY <1>1, <3>1, <3>2, <3>3
  <2> QED
    BY <1>1, <2>1, <2>2, SameHandler
<1>11. PromiseKept'
  <2> SUFFICES ASSUME NEW n \in promised \ spoilt PROVE Readable(n)'
    BY <1>1 DEF PromiseKept
  <2>1. Readable(n)
    BY DEF Inv, PromiseKept
  <2>2. ASSUME NEW k \in MapsTo(n), lcmaps[k].status = "copying"
        PROVE  n \in whole' \/ (k \in Live' /\ lcmaps'[k].tgt = n /\ lcmaps'[k].status = "copying")
    BY <1>4, <2>2 DEF MapsTo
  <2>3. n \in whole => n \in whole'
    BY <1>4
  <2> QED
    BY <1>4, <2>1, <2>2, <2>3 DEF Readable, MapsTo
<1>12. VolumesStayGone'
  BY <1>1, <1>4 DEF Inv, VolumesStayGone
<1> QED
  BY <1>7, <1>8, <1>9, <1>10, <1>11, <1>12 DEF Inv

LEMMA StutterInv ==
  ASSUME Inv, UNCHANGED vars
  PROVE  Inv'
<1>1. /\ pc' = pc /\ req' = req /\ mapId' = mapId /\ ready' = ready /\ undo' = undo
      /\ promised' = promised /\ gone' = gone /\ clouded' = clouded /\ spoilt' = spoilt /\ late' = late
      /\ faults' = faults
      /\ vdisks' = vdisks /\ aa' = aa /\ whole' = whole /\ lcmaps' = lcmaps
  BY DEF vars, copyVars, histVars
<1>2. /\ \A n : MapsTo(n)' = MapsTo(n) /\ MapsFrom(n)' = MapsFrom(n) /\ (Readable(n)' <=> Readable(n))
      /\ Live' = Live
  BY <1>1 DEF MapsTo, MapsFrom, Readable, Live
<1>3. Flight' /\ Opposed' /\ AskedOK'
  BY <1>1 DEF Inv, Flight, Opposed, AskedOK, Running, Active, Name, Creating
<1>4. MapsOK' /\ PromiseKept' /\ VolumesStayGone'
  BY <1>1, <1>2 DEF Inv, MapsOK, PromiseKept, VolumesStayGone
<1>5. \A n \in Snaps : StopOK(n)' /\ BareOK(n)'
  BY <1>1, <1>2 DEF Inv, StopOK, BareOK, Active, Name, Creating
<1>6. \A p \in Procs : LabelOK(p)' /\ MakingOK(p)' /\ OwnMapOK(p)'
  BY <1>1, <1>2 DEF Inv, HandlerOK, LabelOK, MakingOK, LateCopies, OwnMapOK, HasMap, Name
<1> QED
  BY <1>3, <1>4, <1>5, <1>6 DEF Inv, HandlerOK

LEMMA InitInv == Init => Inv
<1> SUFFICES ASSUME Init PROVE Inv
  OBVIOUS
<1>1. /\ Live = {} /\ vdisks = {} /\ aa = {} /\ promised = {} /\ gone = {} /\ ready = {}
      /\ \A p \in Procs : pc[p] = "idle"
  BY DEF Init, CopiesInit, Live
<1>2. Flight /\ Opposed /\ AskedOK /\ MapsOK
  BY <1>1 DEF Flight, Opposed, AskedOK, MapsOK, Running, Active
<1>3. \A n \in Snaps : StopOK(n) /\ BareOK(n)
  BY <1>1 DEF StopOK, BareOK, MapsTo
<1>4. \A p \in Procs : HandlerOK(p)
  BY <1>1 DEF HandlerOK, LabelOK, MakingOK, OwnMapOK, HasMap
<1>5. PromiseKept /\ VolumesStayGone
  BY <1>1 DEF PromiseKept, VolumesStayGone
<1> QED
  BY <1>2, <1>3, <1>4, <1>5 DEF Inv

LEMMA InvStep ==
  ASSUME SingleFlight, TypeInv, TypeInv', Inv, [Next]_vars
  PROVE  Inv'
<1>1. ASSUME NEW p \in Procs, Call(p) PROVE Inv'
  BY <1>1, BeginInv DEF Call
<1>2. ASSUME NEW p \in Procs, Retry(p) PROVE Inv'
  <2>1. req[p] \in Request
    BY <1>2 DEF Retry, TypeInv, TypeOK
  <2> QED
    BY <1>2, <2>1, BeginInv DEF Retry
<1> QED
  BY <1>1, <1>2, DoneInv, KillInv, StepInv, ArrayStepInv, StutterInv DEF Next, Rest

LEMMA Invariants ==
  ASSUME SingleFlight
  PROVE  Spec => [](TypeInv /\ Inv)
<1>1. TypeInv /\ Inv /\ [Next]_vars => (TypeInv /\ Inv)'
  BY TypeStep, InvStep
<1> QED
  BY InitType, InitInv, <1>1, PTL DEF Spec

(* While callers keep one request per name in flight, what CreateVolume,   *)
(* CloneVolume and CreateSnapshot have answered stays readable until its   *)
(* deletion is asked for, through every failure of a command, restart of   *)
(* the plugin and retry, for any number of handlers and volumes, also when *)
(* the volumes they are copied from are copied and deleted at the same     *)
(* time: what is lost is lost in one of the ways spoilt names, by a        *)
(* clean-up cut short, by a map id given again, or because the map was     *)
(* made after its source had been found free of maps.                      *)
THEOREM PromisesAreKept ==
  ASSUME SingleFlight
  PROVE  Spec => []PromiseKept
<1>1. TypeInv /\ Inv => PromiseKept
  BY DEF Inv
<1> QED
  BY Invariants, <1>1, PTL

(* Under the same condition what DeleteVolume has answered as deleted, and *)
(* what DeleteSnapshot has while nothing failed, is on the array no more.  *)
THEOREM DeletedStaysGone ==
  ASSUME SingleFlight
  PROVE  Spec => []VolumesStayGone
<1>1. TypeInv /\ Inv => VolumesStayGone
  BY DEF Inv
<1> QED
  BY Invariants, <1>1, PTL
-----------------------------------------------------------------------------
(* Attempts end.  The commands an attempt has still to send, at most, when *)
(* the next one is l, after t polls and with u clean-up commands to do.    *)
LeftAt(l, t, u) ==
  CASE l = "lsTarget" -> 10 + MaxPolls
    [] l = "lsSource" -> 9
    [] l = "detail" -> 8
    [] l = "mkvol" -> 7
    [] l = "mklcmap" -> 6
    [] l = "startmap" -> 5
    [] l = "lsCreated" -> 4
    [] l = "undo" -> u
    [] l = "lsSnapSource" -> 4 + MaxPolls
    [] l = "stopmap" -> 3 + MaxPolls
    [] l = "poll" -> 2 + (MaxPolls - t)
    [] l = "lsVol" -> 3
    [] l \in {"lsMaps", "rmmap"} -> 2
    [] l \in {"restart", "rmvdisk", "rmvolume"} -> 1
    [] l \in {"idle", "ok", "err"} -> 0
Left(p) == LeftAt(pc[p], polls[p], Len(undo[p]))

(* Every command of an attempt, a poll or a clean-up too, brings its       *)
(* answer nearer, and no step of another handler or of the array puts it   *)
(* off.                                                                    *)
Shrinks ==
  [][\A p \in Procs : /\ Step(p) => Left(p)' < Left(p)
                      /\ Running(p) /\ Running(p)' => Left(p)' <= Left(p)]_vars

(* The table, row by row. *)
LEMMA LeftRows ==
  ASSUME NEW l, NEW t, NEW u
  PROVE  /\ l = "lsTarget" => LeftAt(l, t, u) = 10 + MaxPolls
         /\ l = "lsSource" => LeftAt(l, t, u) = 9
         /\ l = "detail" => LeftAt(l, t, u) = 8
         /\ l = "mkvol" => LeftAt(l, t, u) = 7
         /\ l = "mklcmap" => LeftAt(l, t, u) = 6
         /\ l = "startmap" => LeftAt(l, t, u) = 5
         /\ l = "lsCreated" => LeftAt(l, t, u) = 4
         /\ l = "undo" => LeftAt(l, t, u) = u
         /\ l = "lsSnapSource" => LeftAt(l, t, u) = 4 + MaxPolls
         /\ l = "stopmap" => LeftAt(l, t, u) = 3 + MaxPolls
         /\ l = "poll" => LeftAt(l, t, u) = 2 + (MaxPolls - t)
         /\ l = "lsVol" => LeftAt(l, t, u) = 3
         /\ l \in {"lsMaps", "rmmap"} => LeftAt(l, t, u) = 2
         /\ l \in {"restart", "rmvdisk", "rmvolume"} => LeftAt(l, t, u) = 1
         /\ l \in {"idle", "ok", "err"} => LeftAt(l, t, u) = 0
  BY DEF LeftAt

LEMMA LeftBound ==
  ASSUME TypeInv, NEW p \in Procs
  PROVE  Left(p) \in 0..(10 + MaxPolls) /\ (Running(p) => Left(p) > 0)
<1>1. pc[p] \in Labels /\ polls[p] \in 0..MaxPolls /\ MaxPolls \in Nat \ {0}
  BY VolumesAssumption DEF VolumesAssumption, TypeInv, TypeOK
<1>2. pc[p] = "undo" => Len(undo[p]) \in 1..3
  <2>1. \A s \in Plans : Len(s) \in 0..3 /\ Len(s) # 0
    BY PlanFacts
  <2> QED
    BY <2>1 DEF TypeInv, UndoOK
<1>3. ASSUME NEW n \in Nat, Left(p) = n, n <= 10 + MaxPolls, Running(p) => n > 0
      PROVE  Left(p) \in 0..(10 + MaxPolls) /\ (Running(p) => Left(p) > 0)
  BY <1>1, <1>3
<1>4. CASE pc[p] = "undo"
  <2>1. Left(p) = Len(undo[p])
    BY <1>4, LeftRows DEF Left
  <2>2. PICK n \in 1..3 : Len(undo[p]) = n
    BY <1>2, <1>4
  <2> QED
    BY <1>1, <1>3, <2>1, <2>2
<1>5. CASE pc[p] = "poll"
  <2>1. Left(p) = 2 + (MaxPolls - polls[p])
    BY <1>5, LeftRows DEF Left
  <2>2. 2 + (MaxPolls - polls[p]) \in 2..(10 + MaxPolls)
    BY <1>1
  <2> QED
    BY <1>1, <1>3, <2>1, <2>2
<1>6. CASE pc[p] \in {"lsTarget", "lsSnapSource", "stopmap"}
  <2>1. \E k \in {3, 4, 10} : Left(p) = k + MaxPolls
    BY <1>6, LeftRows DEF Left
  <2> QED
    BY <1>1, <1>3, <2>1
<1>7. CASE pc[p] \notin {"undo", "poll", "lsTarget", "lsSnapSource", "stopmap"}
  <2>1. CASE Running(p)
    <3>1. pc[p] \in {"lsSource", "detail", "mkvol", "mklcmap", "startmap", "lsCreated", "lsVol",
                     "lsMaps", "rmmap", "restart", "rmvdisk", "rmvolume"}
      BY <1>1, <1>7, <2>1 DEF Labels, Running
    <3>2. \E k \in 1..9 : Left(p) = k
      BY <3>1, LeftRows DEF Left
    <3> QED
      BY <1>1, <1>3, <3>2
  <2>2. CASE ~Running(p)
    <3>1. Left(p) = 0
      BY <2>2, LeftRows DEF Left, Running
    <3> QED
      BY <1>1, <1>3, <2>2, <3>1
  <2> QED
    BY <2>1, <2>2
<1> QED
  BY <1>4, <1>5, <1>6, <1>7

(* One clean-up command. *)
LEMMA UndoShrinks ==
  ASSUME TypeInv, NEW p \in Procs, Undo(p)
  PROVE  /\ Left(p)' < Left(p) /\ Left(p)' <= Left(p)
         /\ \A q \in Procs : q # p => pc'[q] = pc[q] /\ polls'[q] = polls[q] /\ undo'[q] = undo[q]
<1>1. pc[p] = "undo" /\ undo[p] \in Plans /\ DOMAIN undo = Procs /\ undo' = [undo EXCEPT ![p] = Tail(@)]
      /\ polls' = polls
  BY DEF Undo, TypeInv, UndoOK
<1>2. PICK l \in {"undo", "ok", "err"} : Go(p, l) /\ (l = "undo" => Len(undo[p]) > 1)
  BY DEF Undo
<1>3. pc'[p] = l /\ \A q \in Procs : q # p => pc'[q] = pc[q]
  BY <1>2, GoFacts
<1>4. undo'[p] = Tail(undo[p]) /\ \A q \in Procs : q # p => undo'[q] = undo[q]
  BY <1>1
<1>5. Len(undo[p]) \in 1..3 /\ (Len(undo[p]) > 1 => Len(Tail(undo[p])) = Len(undo[p]) - 1)
  BY <1>1 DEF Plans
<1>6. Left(p) = Len(undo[p])
  BY <1>1, LeftRows DEF Left
<1>7. Left(p)' = IF l = "undo" THEN Len(Tail(undo[p])) ELSE 0
  BY <1>2, <1>3, <1>4, LeftRows DEF Left
<1>8. l = "undo" => Len(Tail(undo[p])) = Len(undo[p]) - 1
  BY <1>2, <1>5
<1>9. Left(p)' \in {0, Left(p) - 1} /\ Left(p) \in 1..3
  BY <1>5, <1>6, <1>7, <1>8
<1> QED
  BY <1>1, <1>3, <1>4, <1>9

(* The commands that may be followed by a clean-up. *)
LEMMA MakerShrinks ==
  ASSUME TypeInv, NEW p \in Procs, MkLcmap(p) \/ StartLcmap(p) \/ LsCreated(p)
  PROVE  /\ Left(p)' < Left(p) /\ Left(p)' <= Left(p)
         /\ \A q \in Procs : q # p => pc'[q] = pc[q] /\ polls'[q] = polls[q] /\ undo'[q] = undo[q]
<1>1. \A l : Go(p, l) => pc'[p] = l /\ \A q \in Procs : q # p => pc'[q] = pc[q]
  BY GoFacts
<1>2. \A s : FailTo(p, s) => /\ pc'[p] = "undo" /\ undo'[p] = s
                             /\ \A q \in Procs : q # p => pc'[q] = pc[q] /\ undo'[q] = undo[q]
  BY <1>1 DEF FailTo, TypeInv, UndoOK
<1>3. /\ Len(<<"rmvdisk">>) = 1 /\ Len(<<"stop", "rmvdisk">>) = 2
      /\ Len(<<"rmmap", "rmvdisk">>) = 2 /\ Len(<<"stop", "rmmap", "rmvdisk">>) = 3
  OBVIOUS
<1>4. \A s : FailTo(p, s) => Left(p)' = Len(s)
  BY <1>2, LeftRows DEF Left
<1>5. /\ FailTo(p, <<"rmvdisk">>) => Left(p)' = 1
      /\ FailTo(p, <<"rmmap", "rmvdisk">>) \/ FailTo(p, <<"stop", "rmvdisk">>) => Left(p)' = 2
      /\ FailTo(p, <<"stop", "rmmap", "rmvdisk">>) => Left(p)' = 3
  BY <1>3, <1>4
<1>6. /\ Go(p, "ok") => Left(p)' = 0
      /\ Go(p, "startmap") => Left(p)' = 5
      /\ Go(p, "lsCreated") => Left(p)' = 4
  BY <1>1, LeftRows DEF Left
<1>7. CASE MkLcmap(p)
  <2>1. FailTo(p, <<"rmvdisk">>) \/ (Go(p, "startmap") /\ UNCHANGED undo)
    BY <1>7 DEF MkLcmap
  <2>2. Left(p) = 6 /\ polls' = polls
    BY <1>7, LeftRows DEF MkLcmap, Left
  <2>3. Left(p)' \in {1, 5}
    BY <1>5, <1>6, <2>1
  <2> QED
    BY <1>1, <1>2, <2>1, <2>2, <2>3
<1>8. CASE StartLcmap(p)
  <2>1. \/ FailTo(p, <<"rmmap", "rmvdisk">>) \/ FailTo(p, <<"stop", "rmvdisk">>)
        \/ (Go(p, "lsCreated") /\ UNCHANGED undo) \/ (Go(p, "ok") /\ UNCHANGED undo)
    BY <1>8 DEF StartLcmap
  <2>2. Left(p) = 5 /\ polls' = polls
    BY <1>8, LeftRows DEF StartLcmap, Left
  <2>3. Left(p)' \in {0, 2, 4}
    BY <1>5, <1>6, <2>1
  <2> QED
    BY <1>1, <1>2, <2>1, <2>2, <2>3
<1>9. CASE LsCreated(p)
  <2>1. FailTo(p, <<"stop", "rmmap", "rmvdisk">>) \/ (Go(p, "ok") /\ UNCHANGED undo)
    BY <1>9 DEF LsCreated
  <2>2. Left(p) = 4 /\ polls' = polls
    BY <1>9, LeftRows DEF LsCreated, Left
  <2>3. Left(p)' \in {0, 3}
    BY <1>5, <1>6, <2>1
  <2> QED
    BY <1>1, <1>2, <2>1, <2>2, <2>3
<1> QED
  BY <1>7, <1>8, <1>9

LEMMA StepShrinks ==
  ASSUME TypeInv, NEW p \in Procs, Step(p)
  PROVE  /\ Left(p)' < Left(p) /\ Left(p)' <= Left(p)
         /\ \A q \in Procs : q # p => pc'[q] = pc[q] /\ polls'[q] = polls[q] /\ undo'[q] = undo[q]
<1>1. \A l : Go(p, l) => pc'[p] = l /\ \A q \in Procs : q # p => pc'[q] = pc[q]
  BY GoFacts
<1>2. /\ MaxPolls \in Nat \ {0} /\ DOMAIN polls = Procs /\ polls[p] \in 0..MaxPolls
      /\ pc[p] \in {"lsTarget", "lsSnapSource", "stopmap"} => polls[p] = 0
      /\ pc[p] = "poll" => polls[p] < MaxPolls
  BY VolumesAssumption DEF VolumesAssumption, TypeInv, TypeOK, PollOK
<1> USE DEF Left
<1>3. CASE MkVol(p)
  BY <1>1, <1>2, <1>3, LeftRows DEF MkVol
<1>4. CASE LsTarget(p)
  BY <1>1, <1>2, <1>4, LeftRows DEF LsTarget
<1>5. CASE Restart(p)
  BY <1>1, <1>2, <1>5, LeftRows DEF Restart
<1>6. CASE LsSource(p)
  BY <1>1, <1>2, <1>6, LeftRows DEF LsSource
<1>7. CASE LsDetail(p)
  BY <1>1, <1>2, <1>7, LeftRows DEF LsDetail
<1>8. CASE LsVol(p)
  BY <1>1, <1>2, <1>8, LeftRows DEF LsVol
<1>9. CASE LsMaps(p)
  BY <1>1, <1>2, <1>9, LeftRows DEF LsMaps
<1>10. CASE RmVolume(p)
  BY <1>1, <1>2, <1>10, LeftRows DEF RmVolume
<1>11. CASE RmVdisk(p)
  BY <1>1, <1>2, <1>11, LeftRows DEF RmVdisk
<1>12. CASE LsSnapSource(p)
  BY <1>1, <1>2, <1>12, LeftRows DEF LsSnapSource
<1>13. CASE StopLcmap(p)
  BY <1>1, <1>2, <1>13, LeftRows DEF StopLcmap
<1>14. CASE RmLcmap(p)
  BY <1>1, <1>2, <1>14, LeftRows DEF RmLcmap
<1>15. CASE PollLcmap(p)
  <2>1. PICK l \in {"poll", "rmmap"} : Go(p, l)
    BY <1>15 DEF PollLcmap
  <2>2. /\ pc[p] = "poll" /\ undo' = undo
        /\ polls'[p] = polls[p] + 1 /\ \A q \in Procs : q # p => polls'[q] = polls[q]
    BY <1>2, <1>15 DEF PollLcmap
  <2>3. Left(p) = 2 + (MaxPolls - polls[p])
    BY <2>2, LeftRows
  <2>4. CASE l = "rmmap"
    <3>1. Left(p)' = 2
      BY <1>1, <2>1, <2>4, LeftRows
    <3>2. 2 < Left(p) /\ 2 <= Left(p)
      BY <1>2, <2>2, <2>3
    <3> QED
      BY <1>1, <2>1, <2>2, <3>1, <3>2
  <2>5. CASE l = "poll"
    <3>1. Left(p)' = 2 + (MaxPolls - (polls[p] + 1))
      BY <1>1, <2>1, <2>2, <2>5, LeftRows
    <3> QED
      BY <1>1, <1>2, <2>1, <2>2, <2>3, <2>5, <3>1
  <2> QED
    BY <2>1, <2>4, <2>5
<1> QED
  BY <1>3, <1>4, <1>5, <1>6, <1>7, <1>8, <1>9, <1>10, <1>11, <1>12, <1>13, <1>14, <1>15, UndoShrinks, MakerShrinks
  DEF Step, Command

(* No operation loops for ever: whatever other handlers, the array and the *)
(* transport do, with requests in flight together or not, an attempt sends *)
(* at most ten commands more than DeleteSnapshot polls, clean-up included. *)
(* (That it takes them is fairness, and that a deletion is answered in the *)
(* end is DeletesSucceed, a run's.)                                        *)
THEOREM AttemptsEnd ==
  Spec => [](\A p \in Procs : Left(p) \in 0..(10 + MaxPolls)) /\ Shrinks
<1>1. TypeInv => \A p \in Procs : Left(p) \in 0..(10 + MaxPolls)
  BY LeftBound
<1>2. TypeInv /\ [Next]_vars =>
        [\A p \in Procs : /\ Step(p) => Left(p)' < Left(p)
                          /\ Running(p) /\ Running(p)' => Left(p)' <= Left(p)]_vars
  <2> SUFFICES ASSUME TypeInv, Next, NEW p \in Procs
               PROVE  /\ Step(p) => Left(p)' < Left(p)
                      /\ Running(p) /\ Running(p)' => Left(p)' <= Left(p)
    OBVIOUS
  <2>1. Left(p) \in Nat
    <3>1. MaxPolls \in Nat
      BY VolumesAssumption DEF VolumesAssumption
    <3> QED
      BY <3>1, LeftBound
  <2>2. CASE Step(p)
    BY <2>2, StepShrinks
  <2>3. CASE ~Step(p)
    <3>1. Running(p) /\ Running(p)' => pc'[p] = pc[p] /\ polls'[p] = polls[p] /\ undo'[p] = undo[p]
      <4>1. CASE \E q \in Procs : q # p /\ Step(q)
        BY <4>1, StepShrinks
      <4>2. CASE \E q \in Procs : Call(q) \/ Retry(q) \/ Done(q) \/ Kill(q)
        BY <4>2 DEF Call, Retry, Done, Kill, Begin, Running, TypeInv, TypeOK, UndoOK
      <4>3. CASE Array
        BY <4>3 DEF Array
      <4>4. CASE UNCHANGED vars
        BY <4>4 DEF vars
      <4> QED
        BY <2>3, <4>1, <4>2, <4>3, <4>4 DEF Next, Rest
    <3> QED
      BY <2>1, <2>3, <3>1 DEF Left
  <2> QED
    BY <2>2, <2>3
<1>3. Spec => []TypeInv
  <2>1. TypeInv /\ [Next]_vars => TypeInv'
    BY TypeStep
  <2> QED
    BY InitType, <2>1, PTL DEF Spec
<1> QED
  BY <1>1, <1>2, <1>3, PTL DEF Spec, Shrinks
=============================================================================
