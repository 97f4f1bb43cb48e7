--------------------------- MODULE InStorageCopies ---------------------------
(***************************************************************************)
(* The part of an AS18000 array that creating, cloning, snapshotting and   *)
(* deleting volumes reads and writes: its volumes and the local copy maps  *)
(* (lcmaps) between them.  A snapshot is a thin volume that shows, through *)
(* a map that never finishes, what its source held when the map started; a *)
(* clone is filled by a map that deletes itself when the copy is done.     *)
(* The array is outside the repository; what it accepts is taken from the  *)
(* commands of pkg/storage/instorage/wrapper.go and how they are used.     *)
(***************************************************************************)
EXTENDS Naturals, FiniteSets

CONSTANTS
  Vols,     \* names of volumes
  Snaps,    \* names of snapshots
  MapIds    \* ids the array gives its lcmaps; it gives a free one again

Names == Vols \cup Snaps
NoMap == [status |-> "none"]

(* start_time is blank exactly while a map has never been started.         *)
Statuses == {"idle", "copying", "stopping", "stopped"}
Map == [src : Names, tgt : Names, status : Statuses, auto : BOOLEAN]

ASSUME CopiesAssumption == Vols \cap Snaps = {} /\ IsFiniteSet(MapIds)

VARIABLES
  vdisks,   \* the volumes that exist
  aa,       \* those of them that are active-active
  whole,    \* those that hold their content themselves
  lcmaps    \* [MapIds -> Map or NoMap]

copyVars == <<vdisks, aa, whole, lcmaps>>

CopiesTypeOK ==
  /\ vdisks \subseteq Names
  /\ aa \subseteq vdisks /\ whole \subseteq vdisks
  /\ lcmaps \in [MapIds -> Map \cup {NoMap}]

CopiesInit ==
  /\ vdisks = {} /\ aa = {} /\ whole = {}
  /\ lcmaps = [m \in MapIds |-> NoMap]

Live == {m \in MapIds : lcmaps[m] # NoMap}
MapsFrom(n) == {m \in Live : lcmaps[m].src = n}
MapsTo(n) == {m \in Live : lcmaps[m].tgt = n}

(* The volume shows the content its caller asked for. *)
Readable(n) ==
  /\ n \in vdisks
  /\ n \in whole \/ \E m \in MapsTo(n) : lcmaps[m].status = "copying"

-----------------------------------------------------------------------------
(* Commands: accepted and applied whole, or refused without effect. *)

(* mkvdisk, mkvolume: the name must be free. *)
MkVolAccepted(n) == n \notin vdisks
MkVolApply(n, level, content) ==
  /\ vdisks' = vdisks \cup {n}
  /\ aa' = IF level = "aa" THEN aa \cup {n} ELSE aa
  /\ whole' = IF content THEN whole \cup {n} ELSE whole
  /\ UNCHANGED lcmaps

(* rmvdisk and rmvolume are sent with -force: the maps of the volume go.   *)
RmVolAccepted(n) == n \in vdisks
RmVolApply(n) ==
  /\ vdisks' = vdisks \ {n}
  /\ aa' = aa \ {n}
  /\ whole' = whole \ {n}
  /\ lcmaps' = [m \in MapIds |-> IF m \in MapsFrom(n) \cup MapsTo(n) THEN NoMap ELSE lcmaps[m]]

(* mklcmap: both volumes exist, and the target is no other map's.          *)
MkMapAccepted(s, t) == s \in vdisks /\ t \in vdisks /\ MapsTo(t) = {}
MkMapApply(m, s, t, auto) ==
  /\ lcmaps' = [lcmaps EXCEPT ![m] = [src |-> s, tgt |-> t, status |-> "idle", auto |-> auto]]
  /\ UNCHANGED <<vdisks, aa, whole>>

SetStatus(m, status) ==
  /\ lcmaps' = [lcmaps EXCEPT ![m].status = status]
  /\ UNCHANGED <<vdisks, aa, whole>>

StartAccepted(m) == m \in Live /\ lcmaps[m].status \in {"idle", "stopped"}
StartApply(m) == SetStatus(m, "copying")

(* stoplcmap returns before the map has stopped. *)
StopAccepted(m) == m \in Live /\ lcmaps[m].status = "copying"
StopApply(m) == SetStatus(m, "stopping")

RmMapAccepted(m) == m \in Live /\ lcmaps[m].status \in {"idle", "stopped"}
RmMapApply(m) ==
  /\ lcmaps' = [lcmaps EXCEPT ![m] = NoMap]
  /\ UNCHANGED <<vdisks, aa, whole>>

-----------------------------------------------------------------------------
(* What the array does by itself. *)

(* A stopping map has stopped. *)
Stopped(m) ==
  /\ m \in Live /\ lcmaps[m].status = "stopping"
  /\ SetStatus(m, "stopped")

(* The copy of a clone (mklcmap -copyrate 100 -autodelete) is complete.    *)
CopyDone(m) ==
  /\ m \in Live /\ lcmaps[m].status = "copying" /\ lcmaps[m].auto
  /\ Readable(lcmaps[m].src)
  /\ whole' = whole \cup {lcmaps[m].tgt}
  /\ lcmaps' = [lcmaps EXCEPT ![m] = NoMap]
  /\ UNCHANGED <<vdisks, aa>>
=============================================================================
