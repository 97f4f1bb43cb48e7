--------------------------- MODULE InStorageAccess ---------------------------
(***************************************************************************)
(* InStorageAttach implements VolumeAccess: a node has access to a volume  *)
(* that is mapped to its host object, and a request is met once its        *)
(* handler has seen or made the map, or has seen or made it gone.          *)
(***************************************************************************)
EXTENDS InStorageAttach

Access == {vn \in Volumes \X Nodes : MappedTo(vn[1], vn[2])}

Asked(p) ==
  IF pc[p] = "idle" THEN NoRequest
  ELSE [op |-> req[p].op, vol |-> req[p].vol, node |-> req[p].node]

Met(p) == pc[p] \in {"lunAgain", "conn", "lsvols", "rmhost"}

Promise == INSTANCE VolumeAccess WITH
  access <- Access,
  asked  <- [p \in Procs |-> Asked(p)],
  state  <- [p \in Procs |->
               CASE pc[p] = "idle" -> "idle"
                 [] pc[p] = "ok"   -> "answered"
                 [] Met(p)         -> "met"
                 [] OTHER          -> "pending"]

(* Attaching and detaching over many commands, with handlers overlapping,  *)
(* answers lost and requests repeated, looks to the controller as if each  *)
(* request took effect at one moment between its arrival and its answer,   *)
(* and no request touches another's volume or node (AttachVolume and       *)
(* DetachVolume of IStorageOperater).                                      *)
KeepsPromise == Promise!Spec
=============================================================================
