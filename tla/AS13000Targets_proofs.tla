----------------------- MODULE AS13000Targets_proofs ------------------------
(***************************************************************************)
(* Theorems about AS13000Targets, for every set of nodes, volumes and      *)
(* handlers, every limit of targets and LUNs and every number of faults.   *)
(***************************************************************************)
EXTENDS AS13000Targets, FiniteSetTheorems, WellFoundedInduction, TLAPS

Vol(p) == req[p].vol
Node(p) == req[p].node

Attaching == {"targets", "luns", "mktarget", "node", "addhost", "lunid", "mkmap", "lunidAgain",
              "bind", "portal"}
Detaching == {"dtargets", "dluns", "dnode", "unbind", "unmap", "dleft", "rmtarget"}

(* The numbers of targets have a largest one, so that a new one is free. *)
Bounded(S) == \E b \in Nat : \A t \in S : t <= b

LabelOK(p) ==
  /\ pc[p] # "idle" => req[p] \in Asks
  /\ pc[p] \in Attaching => req[p].op = "attach"
  /\ pc[p] \in Detaching => req[p].op = "detach"
  /\ pc[p] = "mktarget" => loc[p].tgt # NoTarget
  /\ pc[p] = "dnode" => loc[p].rows # {}
  /\ Bounded(loc[p].listed)

TypeInv == TypeOK /\ Bounded(targets) /\ \A p \in Procs : LabelOK(p)

(* Requests for one volume that are in flight at once are known to be. *)
Apart ==
  \A p, q \in Procs :
    p # q /\ pc[p] # "idle" /\ pc[q] # "idle" /\ Vol(p) = Vol(q) =>
      /\ Vol(p) \in paired
      /\ req[p].op = "detach" => Vol(p) \in crossed

(* What handlers of paired volumes have in hand is known. *)
HandsKnown == InHand \subseteq strays

(* No two volumes are the same LUN. *)
Distinct == \A v, w \in Volumes : lun[v] = lun[w] /\ lun[v] # Unmapped => v = w

(* A LUN is on a target that exists, and initiators are bound to a LUN. *)
VolOK(v) ==
  /\ lun[v] # Unmapped => lun[v].tgt \in targets
  /\ lun[v] = Unmapped => iqns[v] = {}
  /\ v \notin crossed /\ ~Busy(v) /\ lun[v] # Unmapped => iqns[v] # {}

RowOf(v) == [tgt |-> lun[v].tgt, id |-> lun[v].id, iqns |-> iqns[v]]

(* What a handler has found out about its volume, or done to it, is so     *)
(* while it works: the target and the number it has in hand are those of   *)
(* its own LUN.  That a LUN is not there holds of an attach that no other  *)
(* overlaps; the rest of all that no detach does.                          *)
HandlerOK(p) ==
  /\ pc[p] = "luns" /\ lun[Vol(p)] # Unmapped /\ Vol(p) \notin paired =>
       lun[Vol(p)].tgt \in loc[p].left
  /\ pc[p] \in {"mktarget", "node", "addhost", "lunid", "mkmap"} /\ Vol(p) \notin paired =>
       lun[Vol(p)] = Unmapped
  /\ pc[p] \in {"dleft", "rmtarget"} => lun[Vol(p)] = Unmapped
  /\ pc[p] \in {"lunidAgain", "bind", "portal", "unbind", "unmap"} =>
       lun[Vol(p)] # Unmapped /\ lun[Vol(p)].tgt = loc[p].tgt
  /\ pc[p] \in {"bind", "portal", "unbind", "unmap"} => lun[Vol(p)].id = loc[p].id
  /\ pc[p] = "portal" \/ (pc[p] = "ok" /\ req[p].op = "attach") => Node(p) \in iqns[Vol(p)]
  /\ pc[p] = "dluns" =>
       IF loc[p].rows = {} THEN lun[Vol(p)] = Unmapped \/ lun[Vol(p)].tgt \in loc[p].left
       ELSE loc[p].rows = {RowOf(Vol(p))} /\ lun[Vol(p)] # Unmapped
  /\ pc[p] \in {"dnode", "unbind"} =>
       loc[p].rows = {RowOf(Vol(p))} /\ lun[Vol(p)] # Unmapped
  /\ pc[p] = "unbind" => req[p].local /\ Node(p) \in iqns[Vol(p)]
  /\ pc[p] = "unmap" => iqns[Vol(p)] = {}
  /\ pc[p] = "ok" => lun[Vol(p)] = Unmapped \/ iqns[Vol(p)] # {}

(* Without faults somebody is about to fill or to remove an empty target,  *)
(* and to admit hosts to one that admits none.                             *)
Keepers == {"node", "addhost", "lunid", "mkmap", "dleft", "rmtarget"}
TargetOK(t) ==
  faults = 0 /\ t \in targets \ strays =>
    /\ LunsOf(t) = {} => \E q \in Procs : pc[q] \in Keepers /\ loc[q].tgt = t
    /\ t \notin open => \E q \in Procs : pc[q] \in {"node", "addhost"} /\ loc[q].tgt = t

Inv ==
  /\ Apart /\ HandsKnown /\ Distinct
  /\ \A v \in Volumes : VolOK(v)
  /\ \A p \in Procs : Vol(p) \notin crossed => HandlerOK(p)
-----------------------------------------------------------------------------
(* Numbers of targets, requests and local variables *)

(* A bounded set of numbers has a largest one, and Max is it. *)
LEMMA LargestNumber ==
  ASSUME NEW S \in SUBSET Nat, S # {}, Bounded(S)
  PROVE  Max(S) \in S /\ \A y \in S : Max(S) >= y
<1> DEFINE R == OpToRel(<, Nat)
<1>1. IsWellFoundedOn(R, Nat)
  BY NatLessThanWellFounded, Zenon
<1>2. \A x, y \in Nat : x < y => <<x, y>> \in R
  BY DEF OpToRel
<1> HIDE DEF R
<1>3. PICK b \in Nat : \A t \in S : t <= b
  BY DEF Bounded
<1> DEFINE D == {b - t : t \in S}
<1>4. D \in SUBSET Nat /\ D # {}
  <2>1. \A t \in S : b - t \in Nat
    BY <1>3
  <2>2. \A d \in D : d \in Nat
    BY <2>1
  <2>3. PICK t \in S : TRUE
    OBVIOUS
  <2>4. b - t \in D
    BY <2>3
  <2> QED
    BY <2>2, <2>4
<1>5. PICK d \in D : \A e \in D : ~ (<<e, d>> \in R)
  <2> HIDE DEF D
  <2> QED
    BY <1>1, <1>4, WFMin
<1>6. PICK x \in S : d = b - x
  BY <1>5
<1>7. \A y \in S : x >= y
  <2> SUFFICES ASSUME NEW y \in S PROVE x >= y
    OBVIOUS
  <2>1. b - y \in D /\ b - y \in Nat /\ d \in Nat
    BY <1>3, <1>4, <1>5
  <2>2. ~ (b - y < d)
    BY <1>2, <1>5, <2>1
  <2> QED
    BY <1>3, <1>6, <2>1, <2>2
<1> QED
  BY <1>7, Zenon DEF Max

LEMMA NewSuffixFacts ==
  ASSUME NEW S \in SUBSET Suffixes, Bounded(S)
  PROVE  NewSuffix(S) \in Suffixes
<1>1. CASE S = {}
  BY <1>1 DEF NewSuffix, Suffixes
<1>2. CASE S # {}
  <2>1. S \in SUBSET Nat
    BY DEF Suffixes
  <2>2. Max(S) \in Nat
    BY <1>2, <2>1, LargestNumber
  <2> QED
    BY <1>2, <2>2 DEF NewSuffix, Suffixes
<1> QED
  BY <1>1, <1>2

LEMMA BoundedSets ==
  ASSUME NEW S \in SUBSET Nat, Bounded(S), NEW t \in Nat
  PROVE  /\ Bounded(S \cup {t}) /\ \A T \in SUBSET S : Bounded(T)
         /\ Bounded({})
<1>1. PICK b \in Nat : \A s \in S : s <= b
  BY DEF Bounded
<1>2. Bounded(S \cup {t})
  <2>1. b + t \in Nat /\ \A s \in S \cup {t} : s <= b + t
    BY <1>1
  <2> QED
    BY <2>1 DEF Bounded
<1> QED
  BY <1>1, <1>2 DEF Bounded

LEMMA AskFacts ==
  ASSUME NEW r \in Asks
  PROVE  /\ r.op \in {"attach", "detach"} /\ r.vol \in Volumes /\ r.node \in Nodes
         /\ r.op = "attach" => r.local
         /\ r # NoRequest
  BY TargetsAssumption DEF TargetsAssumption, NoRequest

LEMMA BlankFacts ==
  /\ Blank \in Locals /\ Blank.listed = {} /\ Blank.left = {} /\ Blank.rows = {}
  /\ Blank.tgt = NoTarget /\ Blank.id = NoLun
  /\ NoBest \in Best
<1>1. MaxLuns \in 0..MaxLuns
  BY TargetsAssumption DEF TargetsAssumption
<1>2. NoBest \in Best
  BY <1>1 DEF NoBest, Best
<1> QED
  BY <1>2 DEF Blank, Locals

LEMMA LocalsFields ==
  ASSUME NEW l \in Locals
  PROVE  /\ l.listed \subseteq Suffixes /\ l.left \subseteq Suffixes /\ l.best \in Best
         /\ l.rows \subseteq Row
         /\ l.tgt \in Suffixes \cup {NoTarget} /\ l.id \in LunIds \cup {NoLun}
  BY DEF Locals

-----------------------------------------------------------------------------
(* The types *)

LEMMA InitInv == Init => TypeInv /\ Inv /\ \A t \in targets : TargetOK(t)
<1> SUFFICES ASSUME Init PROVE TypeInv /\ Inv /\ \A t \in targets : TargetOK(t)
  OBVIOUS
<1>1. Bounded({})
  BY DEF Bounded
<1>2. TypeOK
  <2>1. {} \subseteq Volumes /\ {} \subseteq Suffixes
    OBVIOUS
  <2> QED
    BY <2>1, BlankFacts, TargetsAssumption DEF TargetsAssumption, Init, TypeOK, Labels, Unmapped
<1>3. \A p \in Procs : LabelOK(p)
  BY <1>1, BlankFacts DEF Init, LabelOK, Attaching, Detaching
<1>4. Apart /\ HandsKnown /\ Distinct
  BY DEF Init, Apart, HandsKnown, InHand, Distinct
<1>5. \A v \in Volumes : VolOK(v)
  BY DEF Init, VolOK
<1>6. \A p \in Procs : HandlerOK(p)
  BY DEF Init, HandlerOK
<1> QED
  BY <1>1, <1>2, <1>3, <1>4, <1>5, <1>6 DEF Init, TypeInv, Inv

(* What is noted of volumes and targets. *)
HistoryStep ==
  crossed' \subseteq paired' /\ paired' \subseteq Volumes /\ strays' \subseteq strays \cup targets'

LEMMA HistoryFacts ==
  ASSUME TypeInv, [Next]_vars
  PROVE  HistoryStep
<1>1. /\ crossed \subseteq paired /\ paired \subseteq Volumes
      /\ \A p \in Procs : pc[p] # "idle" => req[p].vol \in Volumes
  BY AskFacts DEF TypeInv, TypeOK, LabelOK
<1>2. CASE UNCHANGED history
  BY <1>1, <1>2 DEF history, HistoryStep
<1>3. ASSUME Stray PROVE strays' \subseteq strays \cup targets'
  BY <1>3 DEF Stray, InHand
<1>4. ASSUME NEW p \in Procs, Call(p) PROVE HistoryStep
  <2>1. PICK r \in Asks :
          /\ paired' = IF Others(r) # {} THEN paired \cup {r.vol} ELSE paired
          /\ crossed' = IF \E q \in Others(r) : "detach" \in {r.op, req[q].op}
                          THEN crossed \cup {r.vol} ELSE crossed
    BY <1>4 DEF Call
  <2>2. r.vol \in Volumes /\ Stray
    BY <1>4, AskFacts DEF Call
  <2> QED
    BY <1>1, <1>3, <2>1, <2>2 DEF HistoryStep
<1>5. ASSUME NEW p \in Procs, Step(p) PROVE HistoryStep
  BY <1>1, <1>3, <1>5 DEF Step, Hit, HistoryStep
<1> QED
  BY <1>2, <1>4, <1>5 DEF Next, Rest, vars, Retry, Done, Kill, history

(* A fault is counted. *)
LEMMA SpendFacts ==
  ASSUME TypeOK, NEW o, Spend(o)
  PROVE  /\ calls' \in 0..MaxCalls /\ faults' \in 0..MaxFaults
         /\ faults' = 0 => faults = 0 /\ o = "done"
  BY TargetsAssumption DEF TargetsAssumption, TypeOK, Spend

LEMMA ReplyFacts ==
  ASSUME TypeOK, NEW r, SpendReply(r)
  PROVE  /\ calls' \in 0..MaxCalls /\ faults' \in 0..MaxFaults
         /\ faults' = 0 => faults = 0 /\ r \in {"done", "gone"}
  BY SpendFacts DEF SpendReply

(* A step leaves the other handlers alone. *)
LEMMA GotoFacts ==
  ASSUME TypeOK, NEW p \in Procs, NEW l, NEW x, GotoWith(p, l, x)
  PROVE  /\ pc' = [pc EXCEPT ![p] = l] /\ pc'[p] = l
         /\ loc' = [loc EXCEPT ![p] = loc'[p]]
         /\ loc'[p] = IF l \in {"ok", "err"} THEN Blank ELSE x
         /\ \A q \in Procs : q # p => pc'[q] = pc[q] /\ loc'[q] = loc[q]
  BY DEF GotoWith, TypeOK

(* The types of a handler that goes on with its request. *)
LEMMA LocalType ==
  ASSUME TypeInv, NEW p \in Procs, NEW l \in Labels, NEW x \in Locals, GotoWith(p, l, x),
         req' = req, pc[p] # "idle", Bounded(x.listed),
         l \in Attaching => req[p].op = "attach", l \in Detaching => req[p].op = "detach",
         l = "mktarget" => x.tgt # NoTarget, l = "dnode" => x.rows # {},
         calls' \in 0..MaxCalls /\ faults' \in 0..MaxFaults,
         targets' \subseteq Suffixes, Bounded(targets'), open' \subseteq targets',
         lun' \in [Volumes -> [tgt : Suffixes, id : LunIds] \cup {Unmapped}],
         iqns' \in [Volumes -> SUBSET Nodes], HistoryStep
  PROVE  TypeInv'
<1>1. TypeOK /\ \A q \in Procs : LabelOK(q)
  BY DEF TypeInv
<1>2. /\ pc' = [pc EXCEPT ![p] = l]
      /\ loc' = [loc EXCEPT ![p] = loc'[p]]
      /\ loc'[p] = IF l \in {"ok", "err"} THEN Blank ELSE x
      /\ \A q \in Procs : q # p => pc'[q] = pc[q] /\ loc'[q] = loc[q]
  BY <1>1, GotoFacts
<1>3. loc'[p] \in Locals /\ Bounded(loc'[p].listed)
  BY <1>2, BlankFacts DEF Bounded
<1>4. TypeOK'
  BY <1>1, <1>2, <1>3 DEF TypeOK, HistoryStep
<1>5. ASSUME NEW q \in Procs PROVE LabelOK(q)'
  <2>1. CASE q = p
    BY <1>1, <1>2, <1>3, <2>1 DEF LabelOK, TypeOK, Attaching, Detaching
  <2>2. CASE q # p
    BY <1>1, <1>2, <2>2 DEF LabelOK
  <2> QED
    BY <2>1, <2>2
<1> QED
  BY <1>4, <1>5 DEF TypeInv

(* A process ends, with handlers that were at work. *)
LEMMA EndsFacts ==
  ASSUME TypeInv, NEW p \in Procs, NEW K \in SUBSET Procs, ProcessEnds(p, K), Running(p)
  PROVE  /\ p \in K
         /\ \A q \in K : Running(q) /\ pc'[q] = "err" /\ loc'[q] = Blank
         /\ \A q \in Procs \ K : pc'[q] = pc[q] /\ loc'[q] = loc[q]
  BY DEF ProcessEnds, Mates, TypeInv, TypeOK

LEMMA EndsType ==
  ASSUME TypeInv, NEW p \in Procs, NEW K \in SUBSET Procs, ProcessEnds(p, K), Running(p),
         UNCHANGED <<targets, open, lun, iqns, req>>, HistoryStep,
         calls' \in 0..MaxCalls /\ faults' \in 0..MaxFaults
  PROVE  TypeInv'
<1>1. TypeOK /\ \A q \in Procs : LabelOK(q)
  BY DEF TypeInv
<1>2. /\ \A q \in K : pc[q] # "idle" /\ pc'[q] = "err" /\ loc'[q] = Blank
      /\ \A q \in Procs \ K : pc'[q] = pc[q] /\ loc'[q] = loc[q]
  BY EndsFacts DEF Running
<1>3. pc' \in [Procs -> Labels] /\ loc' \in [Procs -> Locals]
  BY <1>1, BlankFacts DEF ProcessEnds, TypeOK, Labels
<1>4. TypeOK'
  BY <1>1, <1>3 DEF TypeOK, HistoryStep
<1>5. ASSUME NEW q \in Procs PROVE LabelOK(q)'
  <2>1. CASE q \in K
    <3>1. Bounded(Blank.listed)
      BY BlankFacts DEF Bounded
    <3> QED
      BY <1>1, <1>2, <2>1, <3>1 DEF LabelOK, Attaching, Detaching
  <2>2. CASE q \notin K
    BY <1>1, <1>2, <2>2 DEF LabelOK
  <2> QED
    BY <2>1, <2>2
<1> QED
  BY <1>4, <1>5 DEF TypeInv, Bounded

(* A target asked for by its name is there, or the query fails, or the     *)
(* process ends.                                                           *)
LEMMA ByNameFacts ==
  ASSUME TypeInv, NEW p \in Procs, NEW t, NEW l, NEW x, TargetByName(p, t, l, x)
  PROVE  /\ calls' \in 0..MaxCalls /\ faults' \in 0..MaxFaults
         /\ faults' = 0 => faults = 0
         /\ \/ GotoWith(p, l, x)
            \/ GotoWith(p, "err", loc[p]) /\ faults' # 0
            \/ \E K \in SUBSET Procs :
                 ProcessEnds(p, K) /\ t \notin targets /\ (faults' # 0 \/ K = {p})
<1>1. TypeOK
  BY DEF TypeInv
<1>2. CASE Spend("done") /\ GotoWith(p, l, x)
  BY <1>1, <1>2, SpendFacts
<1>3. CASE Spend("error") /\ Goto(p, "err")
  BY <1>1, <1>3, SpendFacts DEF Goto
<1>4. ASSUME t \notin targets, NEW K \in SUBSET Procs, ProcessEnds(p, K),
             Spend(IF K = {p} THEN "done" ELSE "error")
      PROVE  /\ calls' \in 0..MaxCalls /\ faults' \in 0..MaxFaults
             /\ faults' = 0 => faults = 0 /\ K = {p}
  BY <1>1, <1>4, SpendFacts
<1> QED
  BY <1>2, <1>3, <1>4 DEF TargetByName

CallerStep(p) == Call(p) \/ Retry(p) \/ Done(p) \/ Kill(p)

LEMMA BeginType ==
  ASSUME TypeInv, NEW p \in Procs, NEW r \in Asks, Begin(p, r), calls' \in 0..MaxCalls,
         HistoryStep
  PROVE  TypeInv'
<1>1. TypeOK /\ \A q \in Procs : LabelOK(q)
  BY DEF TypeInv
<1> DEFINE l == IF r.op = "attach" THEN "targets" ELSE "dtargets"
<1>2. /\ GotoWith(p, l, loc[p]) /\ req' = [req EXCEPT ![p] = r] /\ faults' = faults
      /\ UNCHANGED <<targets, open, lun, iqns>>
  BY DEF Begin, Goto, arrayVars
<1>3. /\ pc' = [pc EXCEPT ![p] = l] /\ loc'[p] = loc[p]
      /\ loc' = [loc EXCEPT ![p] = loc'[p]]
      /\ \A q \in Procs : q # p => pc'[q] = pc[q] /\ loc'[q] = loc[q]
  BY <1>1, <1>2, GotoFacts
<1>4. loc' = loc
  BY <1>1, <1>3 DEF TypeOK
<1>5. TypeOK'
  BY <1>1, <1>2, <1>3, <1>4 DEF TypeOK, Labels, HistoryStep
<1>6. ASSUME NEW q \in Procs PROVE LabelOK(q)'
  <2>1. CASE q = p
    BY <1>1, <1>2, <1>3, <1>4, <2>1, AskFacts DEF LabelOK, TypeOK, Attaching, Detaching
  <2>2. CASE q # p
    BY <1>1, <1>2, <1>3, <1>4, <2>2 DEF LabelOK, TypeOK
  <2> QED
    BY <2>1, <2>2
<1> QED
  BY <1>2, <1>5, <1>6 DEF TypeInv, Bounded

LEMMA CallerType ==
  ASSUME TypeInv, NEW p \in Procs, CallerStep(p), HistoryStep
  PROVE  TypeInv'
<1>1. /\ TypeOK /\ Bounded(targets) /\ \A q \in Procs : LabelOK(q)
      /\ loc[p] \in Locals /\ Bounded(loc[p].listed)
  BY DEF TypeInv, TypeOK, LabelOK
<1>2. CASE Call(p)
  <2>1. calls' \in 0..MaxCalls /\ \E r \in Asks : Begin(p, r)
    BY <1>1, <1>2, TargetsAssumption DEF Call, TypeOK, TargetsAssumption
  <2> QED
    BY <2>1, BeginType
<1>3. CASE Retry(p)
  <2>1. calls' \in 0..MaxCalls /\ req[p] \in Asks /\ Begin(p, req[p])
    BY <1>1, <1>3 DEF Retry, TypeOK, LabelOK
  <2> QED
    BY <2>1, BeginType
<1>4. CASE Done(p)
  <2>1. /\ GotoWith(p, "idle", loc[p]) /\ req' = [req EXCEPT ![p] = NoRequest]
        /\ UNCHANGED <<targets, open, lun, iqns, calls, faults>>
    BY <1>4 DEF Done, Goto, arrayVars
  <2>2. /\ pc' = [pc EXCEPT ![p] = "idle"] /\ loc'[p] = loc[p]
        /\ loc' = [loc EXCEPT ![p] = loc'[p]]
    BY <1>1, <2>1, GotoFacts
  <2>3. loc' = loc
    BY <1>1, <2>2 DEF TypeOK
  <2>4. TypeOK'
    BY <1>1, <2>1, <2>2, <2>3 DEF TypeOK, Labels, HistoryStep
  <2>5. ASSUME NEW q \in Procs PROVE LabelOK(q)'
    BY <1>1, <2>1, <2>2, <2>3 DEF LabelOK, TypeOK, Attaching, Detaching
  <2> QED
    BY <1>1, <2>1, <2>4, <2>5 DEF TypeInv, Bounded
<1>5. CASE Kill(p)
  <2>1. /\ UNCHANGED <<targets, open, lun, iqns, req, calls>> /\ calls' \in 0..MaxCalls
        /\ Running(p) /\ faults' \in 0..MaxFaults /\ \E K \in SUBSET Procs : ProcessEnds(p, K)
    BY <1>1, <1>5, TargetsAssumption DEF Kill, arrayVars, TypeOK, TargetsAssumption
  <2> QED
    BY <2>1, EndsType
<1> QED
  BY <1>2, <1>3, <1>4, <1>5 DEF CallerStep
LEMMA LunFacts ==
  ASSUME TypeOK, NEW v \in Volumes
  PROVE  /\ lun[v].tgt \in Suffixes \cup {NoTarget} /\ lun[v].id \in LunIds \cup {NoLun}
         /\ lun[v] # Unmapped => lun[v].tgt \in Suffixes /\ lun[v].id \in LunIds
         /\ lun[v].tgt = NoTarget <=> lun[v] = Unmapped
         /\ lun[v] = [tgt |-> lun[v].tgt, id |-> lun[v].id]
         /\ NoTarget \notin Suffixes /\ NoLun \notin LunIds
<1>1. NoTarget \notin Suffixes /\ NoLun \notin LunIds
  BY TargetsAssumption DEF Suffixes, LunIds, NoTarget, NoLun, TargetsAssumption
<1>2. lun[v] \in [tgt : Suffixes, id : LunIds] \/ lun[v] = Unmapped
  BY DEF TypeOK
<1> QED
  BY <1>1, <1>2 DEF Unmapped

LEMMA FewerType ==
  ASSUME TypeOK, NEW p \in Procs, NEW t \in Suffixes
  PROVE  Fewer(p, t, Cardinality(LunsOf(t))) \in Best
<1>1. Cardinality(LunsOf(t)) \in Nat
  <2>1. LunsOf(t) \subseteq Volumes /\ IsFiniteSet(Volumes)
    BY TargetsAssumption DEF LunsOf, TargetsAssumption
  <2> QED
    BY <2>1, FS_Subset, FS_CardinalityType
<1>2. PICK n \in Nat : n = Cardinality(LunsOf(t))
  BY <1>1
<1>3. loc[p].best \in Best
  BY LocalsFields DEF TypeOK
<1>4. loc[p].best.luns \in 0..MaxLuns /\ MaxLuns \in Nat
  BY <1>3, TargetsAssumption DEF Best, TargetsAssumption
<1>5. n < loc[p].best.luns => n \in 0..MaxLuns
  BY <1>4
<1>6. n < loc[p].best.luns => [tgt |-> t, luns |-> n] \in Best
  BY <1>5 DEF Best
<1> QED
  BY <1>2, <1>3, <1>6 DEF Fewer

(* Where a search that found no LUN goes on. *)
LEMMA ChooseFacts ==
  ASSUME NEW p \in Procs, NEW S \in SUBSET Suffixes, Bounded(S), NEW b \in Best, Choose(p, S, b)
  PROVE  \E l \in {"err", "mktarget", "lunid"} : \E x \in Locals :
           /\ GotoWith(p, l, x) /\ x.listed = {}
           /\ l = "mktarget" => x.tgt # NoTarget
<1> DEFINE l == Choice(S, b)
           t == ChosenTarget(S, b)
<1>1. l \in {"err", "mktarget", "lunid"}
  BY DEF Choice
<1>2. NewSuffix(S) \in Suffixes /\ NoTarget \notin Suffixes
  BY NewSuffixFacts DEF Suffixes, NoTarget
<1>3. t \in Suffixes \cup {NoTarget} /\ (l = "mktarget" => t # NoTarget)
  BY <1>2 DEF ChosenTarget, Best
<1>4. GotoWith(p, l, [Blank EXCEPT !.tgt = t])
  BY DEF Choose
<1> HIDE DEF l, t
<1>5. /\ [Blank EXCEPT !.tgt = t] \in Locals /\ [Blank EXCEPT !.tgt = t].listed = {}
      /\ [Blank EXCEPT !.tgt = t].tgt = t
  <2>1. Blank \in Locals /\ Blank.listed = {} /\ NoLun \in LunIds \cup {NoLun}
    BY BlankFacts
  <2> QED
    BY <1>3, <2>1 DEF Locals
<1> QED
  BY <1>1, <1>3, <1>4, <1>5

LEMMA AttachType ==
  ASSUME TypeInv, NEW p \in Procs,
         \/ QueryTarget(p) \/ QueryVolumeMapping(p) \/ CreateTarget(p)
         \/ QueryTargetByName(p) \/ AddHost(p),
         HistoryStep
  PROVE  TypeInv'
<1>1. /\ TypeOK /\ Bounded(targets) /\ targets \subseteq Suffixes
      /\ loc[p] \in Locals /\ Bounded(loc[p].listed) /\ Bounded({})
      /\ loc[p].listed \subseteq Suffixes /\ loc[p].left \subseteq Suffixes
      /\ NoTarget \notin Suffixes
  BY LocalsFields DEF TypeInv, TypeOK, LabelOK, Bounded, Suffixes, NoTarget
<1>2. /\ pc[p] \in Attaching /\ pc[p] # "idle" /\ req[p].op = "attach" /\ req[p] \in Asks
      /\ req' = req /\ lun' = lun /\ iqns' = iqns
  BY DEF QueryTarget, QueryVolumeMapping, CreateTarget, QueryTargetByName, AddHost, arrayVars,
         Attaching, TypeInv, LabelOK
(* A step that goes on with the attach and leaves the array as it is. *)
<1>3. ASSUME NEW l \in {"luns", "lunid", "portal", "bind", "addhost", "mktarget", "err"},
             NEW x \in Locals, GotoWith(p, l, x), Bounded(x.listed),
             l = "mktarget" => x.tgt # NoTarget,
             calls' \in 0..MaxCalls /\ faults' \in 0..MaxFaults,
             UNCHANGED <<targets, open>>
      PROVE  TypeInv'
  <2>1. l \in Labels /\ l \notin Detaching
    BY DEF Labels, Detaching
  <2> QED
    BY <1>1, <1>2, <1>3, <2>1, LocalType DEF TypeOK
<1>4. ASSUME NEW S \in SUBSET Suffixes, Bounded(S), NEW b \in Best, Choose(p, S, b),
             calls' \in 0..MaxCalls /\ faults' \in 0..MaxFaults,
             UNCHANGED <<targets, open>>
      PROVE  TypeInv'
  <2>1. PICK l \in {"err", "mktarget", "lunid"} : \E x \in Locals :
          GotoWith(p, l, x) /\ x.listed = {} /\ (l = "mktarget" => x.tgt # NoTarget)
    BY <1>4, ChooseFacts
  <2>2. PICK x \in Locals : GotoWith(p, l, x) /\ x.listed = {} /\ (l = "mktarget" => x.tgt # NoTarget)
    BY <2>1
  <2> QED
    BY <1>1, <1>3, <1>4, <2>1, <2>2
<1>5. CASE QueryTarget(p)
  <2>1. PICK r \in Replies :
          /\ SpendReply(r)
          /\ IF r = "error" THEN Goto(p, "err")
             ELSE IF targets = {} THEN Choose(p, {}, NoBest)
             ELSE GotoWith(p, "luns", [Blank EXCEPT !.listed = targets, !.left = targets])
    BY <1>5 DEF QueryTarget
  <2>2. calls' \in 0..MaxCalls /\ faults' \in 0..MaxFaults
    BY <1>1, <2>1, ReplyFacts
  <2>3. UNCHANGED <<targets, open>>
    BY <1>5 DEF QueryTarget, arrayVars
  <2>4. CASE Goto(p, "err")
    BY <1>1, <1>3, <2>2, <2>3, <2>4 DEF Goto
  <2>5. CASE Choose(p, {}, NoBest)
    BY <1>1, <1>4, <2>2, <2>3, <2>5, BlankFacts
  <2>6. CASE GotoWith(p, "luns", [Blank EXCEPT !.listed = targets, !.left = targets])
    <3>1. /\ [Blank EXCEPT !.listed = targets, !.left = targets] \in Locals
          /\ [Blank EXCEPT !.listed = targets, !.left = targets].listed = targets
      BY <1>1, BlankFacts DEF Locals
    <3> QED
      BY <1>1, <1>3, <2>2, <2>3, <2>6, <3>1
  <2> QED
    BY <2>1, <2>4, <2>5, <2>6
<1>6. CASE QueryVolumeMapping(p)
  <2>1. PICK t \in loc[p].left : \E r \in LunReplies(t) :
          LET own == lun[req[p].vol]
              b == Fewer(p, t, Cardinality(LunsOf(t)))
          IN /\ SpendReply(r)
             /\ IF Failed(r) THEN Goto(p, "err")
                ELSE IF own.tgt = t
                  THEN GotoWith(p, IF IsLunBindIqn(p) THEN "portal" ELSE "bind",
                                [Blank EXCEPT !.tgt = t, !.id = own.id])
                ELSE IF loc[p].left = {t} THEN Choose(p, loc[p].listed, b)
                ELSE GotoWith(p, "luns", [loc[p] EXCEPT !.best = b, !.left = @ \ {t}])
    BY <1>6 DEF QueryVolumeMapping
  <2>2. PICK b \in Best : b = Fewer(p, t, Cardinality(LunsOf(t)))
    BY <1>1, FewerType
  <2>3. PICK i \in LunIds \cup {NoLun} : i = lun[req[p].vol].id
    BY <1>1, <1>2, LunFacts, AskFacts
  <2>4. calls' \in 0..MaxCalls /\ faults' \in 0..MaxFaults
    BY <1>1, <2>1, ReplyFacts
  <2>5. UNCHANGED <<targets, open>>
    BY <1>6 DEF QueryVolumeMapping, arrayVars
  <2>6. CASE Goto(p, "err")
    BY <1>1, <1>3, <2>4, <2>5, <2>6 DEF Goto
  <2>7. ASSUME NEW l \in {"portal", "bind"}, GotoWith(p, l, [Blank EXCEPT !.tgt = t, !.id = i])
        PROVE  TypeInv'
    <3>1. /\ [Blank EXCEPT !.tgt = t, !.id = i] \in Locals
          /\ [Blank EXCEPT !.tgt = t, !.id = i].listed = {}
      BY <1>1, BlankFacts DEF Locals
    <3> QED
      BY <1>1, <1>3, <2>4, <2>5, <2>7, <3>1
  <2>8. CASE Choose(p, loc[p].listed, b)
    BY <1>1, <1>4, <2>4, <2>5, <2>8
  <2>9. CASE GotoWith(p, "luns", [loc[p] EXCEPT !.best = b, !.left = @ \ {t}])
    <3>1. PICK S \in SUBSET Suffixes : S = loc[p].left \ {t}
      BY <1>1
    <3>2. GotoWith(p, "luns", [loc[p] EXCEPT !.best = b, !.left = S])
      BY <2>9, <3>1
    <3>3. /\ [loc[p] EXCEPT !.best = b, !.left = S] \in Locals
          /\ [loc[p] EXCEPT !.best = b, !.left = S].listed = loc[p].listed
      BY <1>1 DEF Locals
    <3> QED
      BY <1>1, <1>3, <2>4, <2>5, <3>2, <3>3
  <2> QED
    BY <2>1, <2>2, <2>3, <2>6, <2>7, <2>8, <2>9
<1>7. CASE CreateTarget(p)
  <2>1. PICK o \in Outcomes :
          /\ Spend(o)
          /\ targets' \in {targets, targets \cup {loc[p].tgt}}
          /\ Goto(p, "node") \/ Goto(p, "err")
    BY <1>7 DEF CreateTarget
  <2>2. open' = open /\ open \subseteq targets /\ pc[p] = "mktarget"
    BY <1>1, <1>7 DEF CreateTarget, TypeOK
  <2>3. loc[p].tgt \in Suffixes /\ loc[p].tgt \in Nat /\ targets \in SUBSET Nat
    BY <1>1, <2>2, LocalsFields DEF TypeInv, LabelOK, Suffixes
  <2>4. targets' \subseteq Suffixes /\ Bounded(targets')
    BY <1>1, <2>1, <2>3, BoundedSets
  <2>5. calls' \in 0..MaxCalls /\ faults' \in 0..MaxFaults
    BY <1>1, <2>1, SpendFacts
  <2>6. ASSUME NEW l \in {"node", "err"}, Goto(p, l)
        PROVE  TypeInv'
    <3>1. l \in Labels /\ l \notin Detaching
      BY DEF Labels, Detaching
    <3> QED
      BY <1>1, <1>2, <2>1, <2>2, <2>4, <2>5, <2>6, <3>1, LocalType DEF TypeOK, Goto
  <2> QED
    BY <2>1, <2>6
<1>8. CASE QueryTargetByName(p)
  <2>1. TargetByName(p, loc[p].tgt, "addhost", loc[p])
    BY <1>8 DEF QueryTargetByName
  <2>2. /\ calls' \in 0..MaxCalls /\ faults' \in 0..MaxFaults
        /\ \/ GotoWith(p, "addhost", loc[p]) \/ GotoWith(p, "err", loc[p])
           \/ \E K \in SUBSET Procs : ProcessEnds(p, K)
    BY <2>1, ByNameFacts
  <2>3. UNCHANGED <<targets, open, lun, iqns, req>> /\ Running(p)
    BY <1>8 DEF QueryTargetByName, arrayVars, Running
  <2> QED
    BY <1>1, <1>3, <2>2, <2>3, EndsType
<1>9. CASE AddHost(p)
  <2>1. PICK o \in Outcomes :
          /\ Spend(o)
          /\ open' = open \/ (loc[p].tgt \in targets /\ open' = open \cup {loc[p].tgt})
          /\ Goto(p, "lunid") \/ Goto(p, "err")
    BY <1>9 DEF AddHost
  <2>2. targets' = targets /\ open' \subseteq targets
    BY <1>1, <1>9, <2>1 DEF AddHost, TypeOK
  <2>3. calls' \in 0..MaxCalls /\ faults' \in 0..MaxFaults
    BY <1>1, <2>1, SpendFacts
  <2>4. ASSUME NEW l \in {"lunid", "err"}, Goto(p, l)
        PROVE  TypeInv'
    <3>1. l \in Labels /\ l \notin Detaching /\ l # "mktarget"
      BY DEF Labels, Detaching
    <3> QED
      BY <1>1, <1>2, <2>2, <2>3, <2>4, <3>1, LocalType DEF TypeOK, Goto
  <2> QED
    BY <2>1, <2>4
<1> QED
  BY <1>5, <1>6, <1>7, <1>8, <1>9
LEMMA MapType ==
  ASSUME TypeInv, NEW p \in Procs,
         \/ GetLunMappingID(p) \/ CreateVolumeMapping(p) \/ GetLunMappingIDAgain(p)
         \/ BindLunIQN(p) \/ GetPortal(p),
         HistoryStep
  PROVE  TypeInv'
<1>1. /\ TypeOK /\ Bounded(targets) /\ targets \subseteq Suffixes /\ open \subseteq targets
      /\ loc[p] \in Locals /\ Bounded(loc[p].listed)
      /\ loc[p].tgt \in Suffixes \cup {NoTarget}
  BY LocalsFields DEF TypeInv, TypeOK, LabelOK
<1>2. /\ pc[p] \in Attaching /\ pc[p] # "idle" /\ req[p].op = "attach" /\ req[p] \in Asks
      /\ req[p].vol \in Volumes /\ req[p].node \in Nodes
      /\ req' = req /\ UNCHANGED <<targets, open>>
  BY AskFacts
     DEF GetLunMappingID, CreateVolumeMapping, GetLunMappingIDAgain, BindLunIQN, GetPortal,
         arrayVars, Attaching, TypeInv, LabelOK
<1>3. ASSUME NEW l \in {"mkmap", "lunidAgain", "bind", "portal", "ok", "err"},
             NEW x \in Locals, GotoWith(p, l, x), x.listed = loc[p].listed,
             calls' \in 0..MaxCalls /\ faults' \in 0..MaxFaults,
             lun' \in [Volumes -> [tgt : Suffixes, id : LunIds] \cup {Unmapped}],
             iqns' \in [Volumes -> SUBSET Nodes]
      PROVE  TypeInv'
  <2>1. l \in Labels /\ l \notin Detaching
    BY DEF Labels, Detaching
  <2> QED
    BY <1>1, <1>2, <1>3, <2>1, LocalType
<1>4. PICK i \in LunIds \cup {NoLun} : i = LunIdOn(req[p].vol, loc[p].tgt)
  BY <1>1, <1>2, LunFacts DEF LunIdOn
<1>5. [loc[p] EXCEPT !.id = i] \in Locals /\ [loc[p] EXCEPT !.id = i].listed = loc[p].listed
  BY <1>1 DEF Locals
<1>6. CASE GetLunMappingID(p) \/ GetLunMappingIDAgain(p)
  <2>1. PICK r : SpendReply(r) /\ \E l \in {"err", "mkmap", "bind"} : GotoWith(p, l, [loc[p] EXCEPT !.id = i])
    BY <1>4, <1>6 DEF GetLunMappingID, GetLunMappingIDAgain
  <2>2. /\ calls' \in 0..MaxCalls /\ faults' \in 0..MaxFaults
        /\ lun' = lun /\ iqns' = iqns
    BY <1>1, <1>6, <2>1, ReplyFacts DEF GetLunMappingID, GetLunMappingIDAgain, arrayVars
  <2> QED
    BY <1>1, <1>3, <1>5, <2>1, <2>2 DEF TypeOK
<1>7. CASE CreateVolumeMapping(p)
  <2>1. PICK o \in Outcomes :
          LET applied == o # "unsent" /\ CreateMapAccepted(req[p].vol, loc[p].tgt)
          IN /\ Spend(o)
             /\ IF applied
                  THEN \E k \in FreeIds(loc[p].tgt) :
                         lun' = [lun EXCEPT ![req[p].vol] = [tgt |-> loc[p].tgt, id |-> k]]
                  ELSE UNCHANGED lun
             /\ Goto(p, IF applied /\ o = "done" THEN "lunidAgain" ELSE "err")
    BY <1>7 DEF CreateVolumeMapping
  <2>2. lun' \in [Volumes -> [tgt : Suffixes, id : LunIds] \cup {Unmapped}]
    <3>1. CASE lun' = lun
      BY <1>1, <3>1 DEF TypeOK
    <3>2. ASSUME NEW k \in FreeIds(loc[p].tgt), CreateMapAccepted(req[p].vol, loc[p].tgt),
                 lun' = [lun EXCEPT ![req[p].vol] = [tgt |-> loc[p].tgt, id |-> k]]
          PROVE  lun' \in [Volumes -> [tgt : Suffixes, id : LunIds] \cup {Unmapped}]
      <4>1. PICK x \in [tgt : Suffixes, id : LunIds] : x = [tgt |-> loc[p].tgt, id |-> k]
        BY <1>1, <3>2 DEF CreateMapAccepted, FreeIds
      <4> QED
        BY <1>1, <3>2, <4>1 DEF TypeOK
    <3> QED
      BY <2>1, <3>1, <3>2
  <2>3. /\ calls' \in 0..MaxCalls /\ faults' \in 0..MaxFaults /\ iqns' = iqns
        /\ Goto(p, "lunidAgain") \/ Goto(p, "err")
    BY <1>1, <1>7, <2>1, SpendFacts DEF CreateVolumeMapping
  <2> QED
    BY <1>1, <1>3, <2>2, <2>3 DEF TypeOK, Goto
<1>8. CASE BindLunIQN(p)
  <2>1. PICK o \in Outcomes :
          LET hit == {v \in VolumeAt(loc[p].tgt, loc[p].id) : req[p].node \notin iqns[v]}
              applied == o # "unsent" /\ hit # {}
          IN /\ Spend(o)
             /\ iqns' = [v \in Volumes |->
                           IF applied /\ v \in hit THEN iqns[v] \cup {req[p].node} ELSE iqns[v]]
             /\ Goto(p, IF applied /\ o = "done" THEN "portal" ELSE "err")
    BY <1>8 DEF BindLunIQN
  <2>2. iqns' \in [Volumes -> SUBSET Nodes]
    BY <1>1, <1>2, <2>1 DEF TypeOK
  <2>3. /\ calls' \in 0..MaxCalls /\ faults' \in 0..MaxFaults /\ lun' = lun
        /\ Goto(p, "portal") \/ Goto(p, "err")
    BY <1>1, <1>8, <2>1, SpendFacts DEF BindLunIQN
  <2> QED
    BY <1>1, <1>3, <2>2, <2>3 DEF TypeOK, Goto
<1>9. CASE GetPortal(p)
  <2>1. TargetByName(p, loc[p].tgt, "ok", loc[p])
    BY <1>9 DEF GetPortal
  <2>2. /\ calls' \in 0..MaxCalls /\ faults' \in 0..MaxFaults
        /\ \/ GotoWith(p, "ok", loc[p]) \/ GotoWith(p, "err", loc[p])
           \/ \E K \in SUBSET Procs : ProcessEnds(p, K)
    BY <2>1, ByNameFacts
  <2>3. UNCHANGED <<targets, open, lun, iqns, req>> /\ Running(p)
    BY <1>9 DEF GetPortal, arrayVars, Running
  <2> QED
    BY <1>1, <1>3, <2>2, <2>3, EndsType DEF TypeOK
<1> QED
  BY <1>6, <1>7, <1>8, <1>9

(* The row a detach works on. *)
LEMMA TheRowIs ==
  ASSUME NEW p \in Procs, NEW x, loc[p].rows = {x}
  PROVE  TheRow(p) = x
  BY DEF TheRow

LEMMA SearchType ==
  ASSUME TypeInv, NEW p \in Procs, DQueryTarget(p) \/ DQueryVolumeMapping(p), HistoryStep
  PROVE  TypeInv'
<1>1. /\ TypeOK /\ Bounded(targets) /\ targets \subseteq Suffixes /\ open \subseteq targets
      /\ loc[p] \in Locals /\ Bounded(loc[p].listed) /\ Bounded({})
      /\ loc[p].left \subseteq Suffixes /\ loc[p].rows \subseteq Row
  BY LocalsFields DEF TypeInv, TypeOK, LabelOK, Bounded
<1>2. /\ pc[p] \in Detaching /\ pc[p] # "idle" /\ req[p].op = "detach" /\ req[p] \in Asks
      /\ req[p].vol \in Volumes
      /\ req' = req /\ UNCHANGED <<targets, open, lun, iqns>>
  BY AskFacts DEF DQueryTarget, DQueryVolumeMapping, arrayVars, Detaching, TypeInv, LabelOK
<1>3. ASSUME NEW l \in {"dluns", "dnode", "ok", "err"},
             NEW x \in Locals, GotoWith(p, l, x), Bounded(x.listed), l = "dnode" => x.rows # {},
             calls' \in 0..MaxCalls /\ faults' \in 0..MaxFaults
      PROVE  TypeInv'
  <2>1. l \in Labels /\ l \notin Attaching /\ l # "mktarget"
    BY DEF Labels, Attaching
  <2> QED
    BY <1>1, <1>2, <1>3, <2>1, LocalType DEF TypeOK
<1>4. CASE DQueryTarget(p)
  <2>1. PICK r \in Replies :
          SpendReply(r) /\ \E l \in {"err", "ok", "dluns"} : GotoWith(p, l, [Blank EXCEPT !.left = targets])
    BY <1>4 DEF DQueryTarget
  <2>2. calls' \in 0..MaxCalls /\ faults' \in 0..MaxFaults
    BY <1>1, <2>1, ReplyFacts
  <2>3. [Blank EXCEPT !.left = targets] \in Locals /\ [Blank EXCEPT !.left = targets].listed = {}
    BY <1>1, BlankFacts DEF Locals
  <2> QED
    BY <1>1, <1>3, <2>1, <2>2, <2>3
<1>5. CASE DQueryVolumeMapping(p)
  <2>1. PICK t \in loc[p].left : \E r \in LunReplies(t) :
          LET v == req[p].vol
              here == IF lun[v].tgt = t
                        THEN {[tgt |-> t, id |-> lun[v].id, iqns |-> iqns[v]]} ELSE {}
              found == loc[p].rows \cup here
              over == loc[p].left = {t} \/ (here # {} /\ req[p].local)
          IN /\ SpendReply(r)
             /\ GotoWith(p, IF Failed(r) THEN "err"
                            ELSE IF over THEN AfterSearch(found) ELSE "dluns",
                         [loc[p] EXCEPT !.rows = found,
                                        !.left = IF over THEN {} ELSE @ \ {t}])
    BY <1>5 DEF DQueryVolumeMapping
  <2>2. PICK here \in SUBSET Row : here = IF lun[req[p].vol].tgt = t
          THEN {[tgt |-> t, id |-> lun[req[p].vol].id, iqns |-> iqns[req[p].vol]]} ELSE {}
    <3>1. CASE lun[req[p].vol].tgt = t
      <4>1. lun[req[p].vol].id \in LunIds /\ t \in Suffixes /\ iqns[req[p].vol] \in SUBSET Nodes
        BY <1>1, <1>2, <3>1, LunFacts DEF TypeOK
      <4>2. [tgt |-> t, id |-> lun[req[p].vol].id, iqns |-> iqns[req[p].vol]] \in Row
        BY <4>1 DEF Row
      <4> QED
        BY <3>1, <4>2
    <3>2. CASE lun[req[p].vol].tgt # t
      BY <3>2
    <3> QED
      BY <3>1, <3>2
  <2>3. PICK F \in SUBSET Row : F = loc[p].rows \cup here
    BY <1>1
  <2>4. PICK S \in SUBSET Suffixes :
          S = IF loc[p].left = {t} \/ (here # {} /\ req[p].local) THEN {} ELSE loc[p].left \ {t}
    BY <1>1
  <2>5. \E l \in {"err", "ok", "dnode", "dluns"} :
          (l = "dnode" => F # {}) /\ GotoWith(p, l, [loc[p] EXCEPT !.rows = F, !.left = S])
    BY <2>1, <2>2, <2>3, <2>4 DEF AfterSearch
  <2>6. calls' \in 0..MaxCalls /\ faults' \in 0..MaxFaults
    BY <1>1, <2>1, ReplyFacts
  <2>7. /\ [loc[p] EXCEPT !.rows = F, !.left = S] \in Locals
        /\ [loc[p] EXCEPT !.rows = F, !.left = S].listed = loc[p].listed
        /\ [loc[p] EXCEPT !.rows = F, !.left = S].rows = F
    BY <1>1 DEF Locals
  <2> QED
    BY <1>1, <1>3, <2>5, <2>6, <2>7
<1> QED
  BY <1>4, <1>5
LEMMA RemoveType ==
  ASSUME TypeInv, NEW p \in Procs,
         \/ DQueryTargetByName(p) \/ UnBindLunIQN(p) \/ DeleteVolumeMapping(p)
         \/ QueryLeft(p) \/ DeleteTarget(p),
         HistoryStep
  PROVE  TypeInv'
<1>1. /\ TypeOK /\ Bounded(targets) /\ targets \subseteq Suffixes /\ open \subseteq targets
      /\ loc[p] \in Locals /\ Bounded(loc[p].listed) /\ loc[p].rows \subseteq Row
  BY LocalsFields DEF TypeInv, TypeOK, LabelOK
<1>2. /\ pc[p] \in Detaching /\ pc[p] # "idle" /\ req[p].op = "detach" /\ req[p] \in Asks
      /\ req' = req
  BY DEF DQueryTargetByName, UnBindLunIQN, DeleteVolumeMapping, QueryLeft, DeleteTarget, arrayVars,
         Detaching, TypeInv, LabelOK
<1>3. ASSUME NEW l \in {"unbind", "unmap", "dleft", "rmtarget", "ok", "err"},
             NEW x \in Locals, GotoWith(p, l, x), Bounded(x.listed),
             calls' \in 0..MaxCalls /\ faults' \in 0..MaxFaults,
             targets' \subseteq targets, open' \subseteq targets',
             lun' \in [Volumes -> [tgt : Suffixes, id : LunIds] \cup {Unmapped}],
             iqns' \in [Volumes -> SUBSET Nodes]
      PROVE  TypeInv'
  <2>1. l \in Labels /\ l \notin Attaching /\ l # "mktarget"
    BY DEF Labels, Attaching
  <2>2. targets' \subseteq Suffixes /\ Bounded(targets')
    BY <1>1, <1>3 DEF Bounded
  <2> QED
    BY <1>1, <1>2, <1>3, <2>1, <2>2, LocalType
<1>4. CASE DQueryTargetByName(p)
  <2>1. PICK x \in Row : x = TheRow(p)
    BY <1>1, <1>4 DEF TheRow, DQueryTargetByName, TypeInv, LabelOK
  <2>2. x.tgt \in Suffixes /\ x.id \in LunIds
    BY DEF Row
  <2>3. PICK l \in {"unbind", "unmap", "ok"} :
          TargetByName(p, x.tgt, l, [loc[p] EXCEPT !.tgt = x.tgt, !.id = x.id])
    BY <1>4, <2>1 DEF DQueryTargetByName
  <2>4. /\ UNCHANGED <<targets, open, lun, iqns, req>> /\ Running(p)
        /\ calls' \in 0..MaxCalls /\ faults' \in 0..MaxFaults
        /\ \/ GotoWith(p, l, [loc[p] EXCEPT !.tgt = x.tgt, !.id = x.id])
           \/ GotoWith(p, "err", loc[p])
           \/ \E K \in SUBSET Procs : ProcessEnds(p, K)
    BY <1>4, <2>3, ByNameFacts DEF DQueryTargetByName, arrayVars, Running
  <2>5. /\ [loc[p] EXCEPT !.tgt = x.tgt, !.id = x.id] \in Locals
        /\ [loc[p] EXCEPT !.tgt = x.tgt, !.id = x.id].listed = loc[p].listed
    BY <1>1, <2>2 DEF Locals
  <2> QED
    BY <1>1, <1>3, <2>4, <2>5, EndsType DEF TypeOK
<1>5. CASE UnBindLunIQN(p)
  <2>1. PICK o \in Outcomes :
          LET hit == {v \in VolumeAt(loc[p].tgt, loc[p].id) : req[p].node \in iqns[v]}
              applied == o # "unsent" /\ hit # {}
          IN /\ Spend(o)
             /\ iqns' = [v \in Volumes |->
                           IF applied /\ v \in hit THEN iqns[v] \ {req[p].node} ELSE iqns[v]]
             /\ \E l \in {"unmap", "ok", "err"} : Goto(p, l)
    BY <1>5 DEF UnBindLunIQN
  <2>2. iqns' \in [Volumes -> SUBSET Nodes]
    BY <1>1, <2>1 DEF TypeOK
  <2>3. /\ calls' \in 0..MaxCalls /\ faults' \in 0..MaxFaults
        /\ UNCHANGED <<targets, open, lun>>
    BY <1>1, <1>5, <2>1, SpendFacts DEF UnBindLunIQN
  <2> QED
    BY <1>1, <1>3, <2>1, <2>2, <2>3 DEF TypeOK, Goto
<1>6. CASE DeleteVolumeMapping(p)
  <2>1. PICK o \in Outcomes :
          LET hit == VolumeAt(loc[p].tgt, loc[p].id)
              applied == o # "unsent" /\ hit # {}
          IN /\ Spend(o)
             /\ IF applied
                  THEN /\ lun' = [v \in Volumes |-> IF v \in hit THEN Unmapped ELSE lun[v]]
                       /\ iqns' = [v \in Volumes |-> IF v \in hit THEN {} ELSE iqns[v]]
                  ELSE UNCHANGED <<lun, iqns>>
             /\ \E l \in {"dleft", "err"} : Goto(p, l)
    BY <1>6 DEF DeleteVolumeMapping
  <2>2. iqns' \in [Volumes -> SUBSET Nodes]
    BY <1>1, <2>1 DEF TypeOK
  <2>3. lun' \in [Volumes -> [tgt : Suffixes, id : LunIds] \cup {Unmapped}]
    BY <1>1, <2>1 DEF TypeOK
  <2>4. /\ calls' \in 0..MaxCalls /\ faults' \in 0..MaxFaults
        /\ UNCHANGED <<targets, open>>
    BY <1>1, <1>6, <2>1, SpendFacts DEF DeleteVolumeMapping
  <2> QED
    BY <1>1, <1>3, <2>1, <2>2, <2>3, <2>4 DEF Goto
<1>7. CASE QueryLeft(p)
  <2>1. PICK r : SpendReply(r) /\ \E l \in {"ok", "rmtarget"} : Goto(p, l)
    BY <1>7 DEF QueryLeft, AfterLunRemoved
  <2>2. /\ calls' \in 0..MaxCalls /\ faults' \in 0..MaxFaults
        /\ UNCHANGED <<targets, open, lun, iqns>>
    BY <1>1, <1>7, <2>1, ReplyFacts DEF QueryLeft, arrayVars
  <2> QED
    BY <1>1, <1>3, <2>1, <2>2 DEF TypeOK, Goto
<1>8. CASE DeleteTarget(p)
  <2>1. PICK o \in Outcomes :
          /\ Spend(o) /\ \E l \in {"ok", "err"} : Goto(p, l)
          /\ \/ targets' = targets /\ open' = open
             \/ targets' = targets \ {loc[p].tgt} /\ open' = open \ {loc[p].tgt}
    BY <1>8 DEF DeleteTarget
  <2>2. /\ calls' \in 0..MaxCalls /\ faults' \in 0..MaxFaults
        /\ UNCHANGED <<lun, iqns>>
    BY <1>1, <1>8, <2>1, SpendFacts DEF DeleteTarget
  <2>3. targets' \subseteq targets /\ open' \subseteq targets'
    BY <1>1, <2>1
  <2> QED
    BY <1>1, <1>3, <2>1, <2>2, <2>3 DEF TypeOK, Goto
<1> QED
  BY <1>4, <1>5, <1>6, <1>7, <1>8

LEMMA TypeStep ==
  ASSUME TypeInv, [Next]_vars
  PROVE  TypeInv'
<1>1. CASE Rest \/ UNCHANGED vars
  BY <1>1 DEF Rest, vars, arrayVars, history, TypeInv, TypeOK, LabelOK, Bounded
<1>2. ASSUME NEW p \in Procs, CallerStep(p) \/ Step(p)
      PROVE  TypeInv'
  BY <1>2, HistoryFacts, CallerType, AttachType, MapType, SearchType, RemoveType DEF Step, Serve
<1> QED
  BY <1>1, <1>2 DEF Next, CallerStep

(* Types of the targets, LUNs and bindings and of the handlers' local      *)
(* variables: no target has the number 0, whatever targets come and go     *)
(* while a handler looks through the list it was given (AttachVolume,      *)
(* DetachVolume).                                                          *)
THEOREM TypeCorrect == Spec => []TypeOK
<1>1. TypeInv => TypeOK
  BY DEF TypeInv
<1> QED
  BY <1>1, InitInv, TypeStep, PTL DEF Spec
-----------------------------------------------------------------------------
(* What a step may do of a handler whose volume is not crossed: it changes *)
(* nothing about another volume or another handler, keeps what is so of    *)
(* its volume, and gives or takes access as its request asks.              *)

Frame(p) ==
  /\ pc[p] # "idle" /\ pc'[p] # "idle" /\ req' = req
  /\ \A q \in Procs : q # p => pc'[q] = pc[q] /\ loc'[q] = loc[q]
  /\ \A w \in Volumes : w # Vol(p) => lun'[w] = lun[w] /\ iqns'[w] = iqns[w]

MetLabels == {"portal", "unmap", "dleft", "rmtarget", "ok"}

(* The request is met when what it asks for was so, or is so now. *)
MeetsOK(p) ==
  req[p].local /\ pc'[p] \in MetLabels =>
    Met(p) \/ (req[p].op = "attach" <=> Node(p) \in iqns'[Vol(p)])

Serves(p) ==
  \/ iqns'[Vol(p)] = iqns[Vol(p)]
  \/ req[p].op = "attach" /\ iqns'[Vol(p)] = iqns[Vol(p)] \cup {Node(p)}
  \/ req[p].op = "detach" /\ req[p].local /\ iqns'[Vol(p)] = iqns[Vol(p)] \ {Node(p)}

(* An attach leaves a LUN that there is. *)
Grows(p) ==
  req[p].op = "attach" /\ lun[Vol(p)] # Unmapped => lun'[Vol(p)] = lun[Vol(p)]

Effect(p) == Frame(p) /\ HandlerOK(p)' /\ MeetsOK(p) /\ Serves(p) /\ Grows(p)

(* A target that is asked for by its name is gone, and the process ends:   *)
(* alone, unless that is a fault.                                          *)
Dies(p) ==
  /\ pc[p] \in {"node", "portal", "dnode"}
  /\ UNCHANGED <<targets, open, lun, iqns, req>>
  /\ \E K \in SUBSET Procs : ProcessEnds(p, K) /\ (faults' = 0 => K = {p})
  /\ faults' = 0 => faults = 0 /\ (pc[p] = "node" => loc[p].tgt \notin targets)

(* No detach of the volume has overlapped another request. *)
Clean(p) == Vol(p) \notin crossed /\ paired' = paired /\ crossed' = crossed

(* What a handler at work knows of its request. *)
LEMMA AtWork ==
  ASSUME TypeInv, Inv, NEW p \in Procs, pc[p] # "idle"
  PROVE  /\ TypeOK /\ req[p] \in Asks /\ Vol(p) \in Volumes /\ Node(p) \in Nodes
         /\ req[p].op \in {"attach", "detach"} /\ (req[p].op = "attach" => req[p].local)
         /\ VolOK(Vol(p)) /\ LabelOK(p) /\ (Vol(p) \notin crossed => HandlerOK(p))
         /\ loc[p] \in Locals /\ targets \subseteq Suffixes /\ loc[p].left \subseteq Suffixes
  BY AskFacts, LocalsFields DEF TypeInv, TypeOK, LabelOK, Inv, Vol, Node

LEMMA CleanWork ==
  ASSUME TypeInv, Inv, NEW p \in Procs, pc[p] # "idle", Clean(p)
  PROVE  /\ HandlerOK(p) /\ LabelOK(p) /\ paired' = paired /\ crossed' = crossed
         /\ TypeOK /\ req[p] \in Asks /\ Vol(p) \in Volumes /\ Node(p) \in Nodes
         /\ req[p].op = "attach" => req[p].local
         /\ VolOK(Vol(p)) /\ loc[p] \in Locals
         /\ targets \subseteq Suffixes /\ loc[p].left \subseteq Suffixes
  BY AtWork DEF Clean

(* The volume at the place of a LUN is the one whose LUN it is. *)
LEMMA OwnPlace ==
  ASSUME TypeInv, Inv, NEW v \in Volumes, lun[v] # Unmapped
  PROVE  VolumeAt(lun[v].tgt, lun[v].id) = {v}
<1>1. TypeOK /\ Distinct
  BY DEF TypeInv, Inv
<1>2. lun[v].tgt # NoTarget /\ lun[v] = [tgt |-> lun[v].tgt, id |-> lun[v].id]
  BY <1>1, LunFacts
<1>3. \A w \in Volumes : lun[w] = lun[v] => w = v
  BY <1>1 DEF Distinct
<1> QED
  BY <1>2, <1>3 DEF VolumeAt

(* A step that changes no LUN, binding or target. *)
LEMMA QuietEffect ==
  ASSUME TypeInv, Inv, NEW p \in Procs, NEW l, NEW x, GotoWith(p, l, x),
         pc[p] # "idle", l # "idle", req' = req, lun' = lun, iqns' = iqns, HandlerOK(p)', MeetsOK(p)
  PROVE  Effect(p)
<1>1. TypeOK
  BY AtWork
<1>2. pc'[p] = l /\ \A q \in Procs : q # p => pc'[q] = pc[q] /\ loc'[q] = loc[q]
  BY <1>1, GotoFacts
<1>3. Frame(p) /\ Serves(p) /\ Grows(p)
  BY <1>2 DEF Frame, Serves, Grows
<1> QED
  BY <1>3 DEF Effect

(* One that fails. *)
LEMMA FailEffect ==
  ASSUME TypeInv, Inv, NEW p \in Procs, NEW x, GotoWith(p, "err", x),
         pc[p] # "idle", req' = req, lun' = lun, iqns' = iqns
  PROVE  Effect(p)
<1>1. TypeOK
  BY DEF TypeInv
<1>2. pc'[p] = "err"
  BY <1>1, GotoFacts
<1>3. HandlerOK(p)' /\ MeetsOK(p)
  BY <1>2 DEF HandlerOK, MeetsOK, MetLabels
<1> QED
  BY <1>1, <1>3, QuietEffect

(* A search that found no LUN. *)
LEMMA ChooseEffect ==
  ASSUME TypeInv, Inv, NEW p \in Procs, NEW S, NEW b, Choose(p, S, b),
         pc[p] # "idle", req' = req, lun' = lun, iqns' = iqns, paired' = paired,
         Vol(p) \notin paired => lun[Vol(p)] = Unmapped
  PROVE  Effect(p)
<1>1. TypeOK
  BY DEF TypeInv
<1>2. PICK l \in {"err", "mktarget", "lunid"} : \E x : GotoWith(p, l, x)
  BY DEF Choose, Choice
<1>3. PICK x : GotoWith(p, l, x)
  BY <1>2
<1>4. pc'[p] = l
  BY <1>1, <1>3, GotoFacts
<1>5. HandlerOK(p)' /\ MeetsOK(p)
  BY <1>2, <1>4 DEF HandlerOK, MeetsOK, MetLabels, Vol
<1> QED
  BY <1>3, <1>5, QuietEffect

LEMMA QueryTargetEffect ==
  ASSUME TypeInv, Inv, NEW p \in Procs, QueryTarget(p), Clean(p)
  PROVE  Effect(p)
<1>1. /\ pc[p] = "targets" /\ req' = req /\ lun' = lun /\ iqns' = iqns /\ targets' = targets
  BY DEF QueryTarget, arrayVars
<1>2. TypeOK /\ VolOK(Vol(p)) /\ targets \subseteq Suffixes /\ paired' = paired
  BY <1>1, CleanWork
<1>3. CASE Goto(p, "err")
  BY <1>1, <1>3, FailEffect DEF Goto
<1>4. CASE targets = {} /\ Choose(p, {}, NoBest)
  <2>1. lun[Vol(p)] = Unmapped
    BY <1>2, <1>4 DEF VolOK
  <2> QED
    BY <1>1, <1>2, <1>4, <2>1, ChooseEffect
<1>5. CASE GotoWith(p, "luns", [Blank EXCEPT !.listed = targets, !.left = targets])
  <2>0. PICK x : x = [Blank EXCEPT !.listed = targets, !.left = targets]
    OBVIOUS
  <2>1. x.left = targets
    BY <2>0, BlankFacts DEF Locals
  <2>2. pc'[p] = "luns" /\ loc'[p] = x
    BY <1>2, <1>5, <2>0, GotoFacts
  <2>3. HandlerOK(p)' /\ MeetsOK(p)
    BY <1>1, <1>2, <2>1, <2>2 DEF HandlerOK, MeetsOK, MetLabels, Vol, VolOK
  <2> QED
    BY <1>1, <1>5, <2>3, QuietEffect
<1> QED
  BY <1>3, <1>4, <1>5 DEF QueryTarget

LEMMA QueryVolumeMappingEffect ==
  ASSUME TypeInv, Inv, NEW p \in Procs, QueryVolumeMapping(p), Clean(p)
  PROVE  Effect(p)
<1>1. /\ pc[p] = "luns" /\ req' = req /\ lun' = lun /\ iqns' = iqns /\ targets' = targets
  BY DEF QueryVolumeMapping, arrayVars
<1>2. /\ TypeOK /\ VolOK(Vol(p)) /\ Vol(p) \in Volumes /\ loc[p] \in Locals
      /\ loc[p].left \subseteq Suffixes
      /\ lun[Vol(p)] # Unmapped /\ Vol(p) \notin paired => lun[Vol(p)].tgt \in loc[p].left
      /\ req[p].op = "attach" /\ paired' = paired
  BY <1>1, CleanWork DEF HandlerOK, LabelOK, Attaching
<1>3. PICK t \in loc[p].left : \E b :
        \/ Goto(p, "err")
        \/ /\ lun[Vol(p)].tgt = t
           /\ GotoWith(p, IF Node(p) \in iqns[Vol(p)] THEN "portal" ELSE "bind",
                       [Blank EXCEPT !.tgt = t, !.id = lun[Vol(p)].id])
        \/ lun[Vol(p)].tgt # t /\ loc[p].left = {t} /\ Choose(p, loc[p].listed, b)
        \/ /\ lun[Vol(p)].tgt # t
           /\ GotoWith(p, "luns", [loc[p] EXCEPT !.best = b, !.left = @ \ {t}])
  BY DEF QueryVolumeMapping, IsLunBindIqn, Vol, Node
<1>4. CASE Goto(p, "err")
  BY <1>1, <1>4, FailEffect DEF Goto
<1>5. ASSUME NEW l, l = IF Node(p) \in iqns[Vol(p)] THEN "portal" ELSE "bind",
             lun[Vol(p)].tgt = t, GotoWith(p, l, [Blank EXCEPT !.tgt = t, !.id = lun[Vol(p)].id])
      PROVE  Effect(p)
  <2>1. lun[Vol(p)] # Unmapped
    BY <1>2, <1>5, LunFacts
  <2>0. PICK x : x = [Blank EXCEPT !.tgt = t, !.id = lun[Vol(p)].id]
    OBVIOUS
  <2>2. x.tgt = lun[Vol(p)].tgt /\ x.id = lun[Vol(p)].id
    BY <1>5, <2>0, BlankFacts DEF Locals
  <2>3. pc'[p] = l /\ loc'[p] = x /\ l \in {"portal", "bind"}
    BY <1>2, <1>5, <2>0, GotoFacts
  <2>4. HandlerOK(p)'
    BY <1>1, <1>2, <1>5, <2>1, <2>2, <2>3 DEF HandlerOK, Vol, Node
  <2>5. MeetsOK(p)
    BY <1>1, <1>2, <1>5, <2>3 DEF MeetsOK, MetLabels
  <2> QED
    BY <1>1, <1>5, <2>3, <2>4, <2>5, QuietEffect
<1>6. ASSUME NEW b, lun[Vol(p)].tgt # t, loc[p].left = {t}, Choose(p, loc[p].listed, b)
      PROVE  Effect(p)
  <2>1. Vol(p) \notin paired => lun[Vol(p)] = Unmapped
    BY <1>2, <1>6
  <2> QED
    BY <1>1, <1>2, <1>6, <2>1, ChooseEffect
<1>7. ASSUME NEW b, lun[Vol(p)].tgt # t,
             GotoWith(p, "luns", [loc[p] EXCEPT !.best = b, !.left = @ \ {t}])
      PROVE  Effect(p)
  <2>0. PICK x : x = [loc[p] EXCEPT !.best = b, !.left = @ \ {t}]
    OBVIOUS
  <2>1. x.left = loc[p].left \ {t}
    BY <1>2, <2>0 DEF Locals
  <2>2. pc'[p] = "luns" /\ loc'[p] = x
    BY <1>2, <1>7, <2>0, GotoFacts
  <2>3. HandlerOK(p)' /\ MeetsOK(p)
    BY <1>1, <1>2, <1>7, <2>1, <2>2 DEF HandlerOK, MeetsOK, MetLabels, Vol
  <2> QED
    BY <1>1, <1>7, <2>3, QuietEffect
<1> QED
  BY <1>3, <1>4, <1>5, <1>6, <1>7
LEMMA NewTargetEffect ==
  ASSUME TypeInv, Inv, NEW p \in Procs, CreateTarget(p) \/ QueryTargetByName(p) \/ AddHost(p),
         Clean(p)
  PROVE  Effect(p) \/ Dies(p)
<1>1. /\ pc[p] \in {"mktarget", "node", "addhost"} /\ req' = req /\ lun' = lun /\ iqns' = iqns
  BY DEF CreateTarget, QueryTargetByName, AddHost, arrayVars
<1>2. (\E l \in {"node", "addhost", "lunid", "err"} : GotoWith(p, l, loc[p])) \/ Dies(p)
  <2>1. CASE CreateTarget(p) \/ AddHost(p)
    BY <2>1 DEF CreateTarget, AddHost, Goto
  <2>2. CASE QueryTargetByName(p)
    BY <2>2, ByNameFacts DEF QueryTargetByName, Dies, arrayVars
  <2> QED
    BY <2>1, <2>2
<1>3. /\ TypeOK /\ pc[p] # "idle" /\ paired' = paired
      /\ Vol(p) \notin paired => lun[Vol(p)] = Unmapped
  BY <1>1, CleanWork DEF HandlerOK
<1>4. ASSUME NEW l \in {"node", "addhost", "lunid", "err"}, GotoWith(p, l, loc[p])
      PROVE  Effect(p)
  <2>1. pc'[p] = l
    BY <1>3, <1>4, GotoFacts
  <2>2. HandlerOK(p)' /\ MeetsOK(p)
    BY <1>1, <1>3, <2>1 DEF HandlerOK, MeetsOK, MetLabels, Vol
  <2> QED
    BY <1>1, <1>3, <1>4, <2>2, QuietEffect
<1> QED
  BY <1>2, <1>4

LEMMA GetLunEffect ==
  ASSUME TypeInv, Inv, NEW p \in Procs,
         GetLunMappingID(p) \/ GetLunMappingIDAgain(p) \/ GetPortal(p), Clean(p)
  PROVE  Effect(p) \/ Dies(p)
<1>1. /\ pc[p] \in {"lunid", "lunidAgain", "portal"} /\ req' = req
      /\ lun' = lun /\ iqns' = iqns /\ targets' = targets
  BY DEF GetLunMappingID, GetLunMappingIDAgain, GetPortal, arrayVars
<1>2. /\ TypeOK /\ Vol(p) \in Volumes /\ VolOK(Vol(p)) /\ HandlerOK(p) /\ loc[p] \in Locals
      /\ pc[p] # "idle" /\ paired' = paired
  BY <1>1, CleanWork
(* The LUN is found where it was not before only if another attach made it. *)
<1>3. CASE GetLunMappingID(p)
  <2>1. pc[p] = "lunid" /\ (Vol(p) \notin paired => lun[Vol(p)] = Unmapped)
    BY <1>2, <1>3 DEF GetLunMappingID, HandlerOK
  <2>2. PICK i : i = LunIdOn(req[p].vol, loc[p].tgt)
    OBVIOUS
  <2>3. i # NoLun =>
          lun[Vol(p)] # Unmapped /\ lun[Vol(p)].tgt = loc[p].tgt /\ lun[Vol(p)].id = i
    BY <1>2, <2>2, LunFacts DEF LunIdOn, Vol
  <2>4. PICK x : x = [loc[p] EXCEPT !.id = i]
    OBVIOUS
  <2>5. x.id = i /\ x.tgt = loc[p].tgt
    BY <1>2, <2>4 DEF Locals
  <2>6. PICK l \in {"err", "mkmap", "bind"} : GotoWith(p, l, x) /\ (l = "bind" => i # NoLun)
    BY <1>3, <2>2, <2>4 DEF GetLunMappingID
  <2>7. pc'[p] = l /\ (l = "bind" => loc'[p] = x)
    BY <1>2, <2>6, GotoFacts
  <2>8. HandlerOK(p)' /\ MeetsOK(p)
    BY <1>1, <1>2, <2>1, <2>3, <2>5, <2>6, <2>7 DEF HandlerOK, MeetsOK, MetLabels, Vol
  <2> QED
    BY <1>1, <1>2, <2>6, <2>8, QuietEffect
<1>4. CASE GetLunMappingIDAgain(p)
  <2>1. pc[p] = "lunidAgain" /\ lun[Vol(p)] # Unmapped /\ lun[Vol(p)].tgt = loc[p].tgt
    BY <1>2, <1>4 DEF GetLunMappingIDAgain, HandlerOK
  <2>2. LunIdOn(req[p].vol, loc[p].tgt) = lun[Vol(p)].id
    BY <1>2, <2>1, LunFacts DEF LunIdOn, Vol
  <2>3. PICK x : x = [loc[p] EXCEPT !.id = lun[Vol(p)].id]
    OBVIOUS
  <2>4. x.id = lun[Vol(p)].id /\ x.tgt = loc[p].tgt
    BY <1>2, <2>3 DEF Locals
  <2>5. PICK l \in {"err", "bind"} : GotoWith(p, l, x)
    BY <1>4, <2>2, <2>3 DEF GetLunMappingIDAgain
  <2>6. pc'[p] = l /\ (l = "bind" => loc'[p] = x)
    BY <1>2, <2>5, GotoFacts
  <2>7. HandlerOK(p)' /\ MeetsOK(p)
    BY <1>1, <2>1, <2>4, <2>5, <2>6 DEF HandlerOK, MeetsOK, MetLabels, Vol
  <2> QED
    BY <1>1, <1>2, <2>5, <2>7, QuietEffect
<1>5. CASE GetPortal(p)
  <2>1. pc[p] = "portal" /\ Node(p) \in iqns[Vol(p)]
    BY <1>2, <1>5 DEF GetPortal, HandlerOK
  <2>2. (\E l \in {"ok", "err"} : GotoWith(p, l, loc[p])) \/ Dies(p)
    BY <1>5, ByNameFacts DEF GetPortal, Dies, arrayVars
  <2>3. ASSUME NEW l \in {"ok", "err"}, GotoWith(p, l, loc[p])
        PROVE  Effect(p)
    <3>1. pc'[p] = l
      BY <1>2, <2>3, GotoFacts
    <3>2. HandlerOK(p)' /\ MeetsOK(p)
      BY <1>1, <2>1, <3>1 DEF HandlerOK, MeetsOK, MetLabels, Vol, Node, Met
    <3> QED
      BY <1>1, <1>2, <2>3, <3>2, QuietEffect
  <2> QED
    BY <2>2, <2>3
<1> QED
  BY <1>3, <1>4, <1>5

LEMMA CreateVolumeMappingEffect ==
  ASSUME TypeInv, Inv, NEW p \in Procs, CreateVolumeMapping(p), Clean(p)
  PROVE  Effect(p)
<1>1. /\ pc[p] = "mkmap" /\ req' = req /\ iqns' = iqns /\ targets' = targets
  BY DEF CreateVolumeMapping
<1>2. TypeOK /\ Vol(p) \in Volumes /\ targets \subseteq Suffixes
  BY <1>1, CleanWork
<1>3. CASE lun' = lun /\ Goto(p, "err")
  BY <1>1, <1>3, FailEffect DEF Goto
<1>4. ASSUME NEW k \in FreeIds(loc[p].tgt), CreateMapAccepted(req[p].vol, loc[p].tgt),
             lun' = [lun EXCEPT ![req[p].vol] = [tgt |-> loc[p].tgt, id |-> k]],
             NEW l \in {"lunidAgain", "err"}, Goto(p, l)
      PROVE  Effect(p)
  <2>1. PICK y : y = [tgt |-> loc[p].tgt, id |-> k]
    OBVIOUS
  <2>2. lun'[Vol(p)] = y /\ \A w \in Volumes : w # Vol(p) => lun'[w] = lun[w]
    BY <1>2, <1>4, <2>1 DEF Vol, TypeOK
  <2>3. y.tgt = loc[p].tgt /\ y # Unmapped /\ lun[Vol(p)] = Unmapped
    BY <1>2, <1>4, <2>1 DEF CreateMapAccepted, Unmapped, Suffixes, NoTarget, Vol
  <2>5. /\ pc'[p] = l /\ \A q \in Procs : q # p => pc'[q] = pc[q] /\ loc'[q] = loc[q]
        /\ l = "lunidAgain" => loc'[p] = loc[p]
    BY <1>2, <1>4, GotoFacts DEF Goto
  <2>6. Frame(p) /\ Serves(p) /\ Grows(p)
    BY <1>1, <1>4, <2>2, <2>3, <2>5 DEF Frame, Serves, Grows
  <2>7. HandlerOK(p)' /\ MeetsOK(p)
    BY <1>1, <1>4, <2>2, <2>3, <2>5 DEF HandlerOK, MeetsOK, MetLabels, Vol
  <2> QED
    BY <2>6, <2>7 DEF Effect
<1> QED
  BY <1>3, <1>4 DEF CreateVolumeMapping

LEMMA BindEffect ==
  ASSUME TypeInv, Inv, NEW p \in Procs, BindLunIQN(p), Clean(p)
  PROVE  Effect(p)
<1>1. /\ pc[p] = "bind" /\ req' = req /\ lun' = lun /\ targets' = targets
  BY DEF BindLunIQN
<1>2. /\ TypeOK /\ Vol(p) \in Volumes /\ VolOK(Vol(p)) /\ lun[Vol(p)] # Unmapped
      /\ lun[Vol(p)].tgt = loc[p].tgt /\ lun[Vol(p)].id = loc[p].id
      /\ req[p].op = "attach" /\ Distinct
  BY <1>1, CleanWork DEF HandlerOK, LabelOK, Attaching, Inv
<1>3. VolumeAt(loc[p].tgt, loc[p].id) = {Vol(p)}
  BY <1>2, OwnPlace
<1>4. PICK o \in Outcomes :
        LET hit == {v \in {Vol(p)} : req[p].node \notin iqns[v]}
            applied == o # "unsent" /\ hit # {}
        IN /\ iqns' = [v \in Volumes |->
                         IF applied /\ v \in hit THEN iqns[v] \cup {req[p].node} ELSE iqns[v]]
           /\ Goto(p, IF applied /\ o = "done" THEN "portal" ELSE "err")
  BY <1>3 DEF BindLunIQN
<1>5. CASE iqns' = iqns /\ Goto(p, "err")
  BY <1>1, <1>5, FailEffect DEF Goto
<1>6. ASSUME iqns' = [v \in Volumes |-> IF v = Vol(p) THEN iqns[v] \cup {Node(p)} ELSE iqns[v]],
             NEW l \in {"portal", "err"}, Goto(p, l)
      PROVE  Effect(p)
  <2>1. /\ iqns'[Vol(p)] = iqns[Vol(p)] \cup {Node(p)}
        /\ \A w \in Volumes : w # Vol(p) => iqns'[w] = iqns[w]
    BY <1>2, <1>6
  <2>2. /\ pc'[p] = l /\ \A q \in Procs : q # p => pc'[q] = pc[q] /\ loc'[q] = loc[q]
        /\ l = "portal" => loc'[p] = loc[p]
    BY <1>2, <1>6, GotoFacts DEF Goto
  <2>3. Frame(p) /\ Serves(p) /\ Grows(p)
    BY <1>1, <1>2, <1>6, <2>1, <2>2 DEF Frame, Serves, Grows
  <2>5. HandlerOK(p)' /\ MeetsOK(p)
    BY <1>1, <1>2, <1>6, <2>1, <2>2 DEF HandlerOK, MeetsOK, MetLabels, Vol, Node
  <2> QED
    BY <2>3, <2>5 DEF Effect
<1>7. CASE o # "unsent" /\ Node(p) \notin iqns[Vol(p)]
  <2>1. iqns' = [v \in Volumes |-> IF v = Vol(p) THEN iqns[v] \cup {Node(p)} ELSE iqns[v]]
    BY <1>4, <1>7 DEF Node
  <2>2. Goto(p, "portal") \/ Goto(p, "err")
    BY <1>4
  <2> QED
    BY <1>6, <2>1, <2>2
<1>8. CASE ~(o # "unsent" /\ Node(p) \notin iqns[Vol(p)])
  <2>1. iqns' = iqns
    BY <1>2, <1>4, <1>8 DEF Node, TypeOK
  <2>2. Goto(p, "err")
    BY <1>4, <1>8 DEF Node
  <2> QED
    BY <1>5, <2>1, <2>2
<1> QED
  BY <1>7, <1>8
LEMMA DQueryTargetEffect ==
  ASSUME TypeInv, Inv, NEW p \in Procs, DQueryTarget(p), Clean(p)
  PROVE  Effect(p)
<1>1. /\ pc[p] = "dtargets" /\ req' = req /\ lun' = lun /\ iqns' = iqns /\ targets' = targets
  BY DEF DQueryTarget, arrayVars
<1>2. TypeOK /\ Vol(p) \in Volumes /\ VolOK(Vol(p)) /\ req[p].op = "detach"
  BY <1>1, CleanWork DEF LabelOK, Detaching
<1>3. PICK x : x = [Blank EXCEPT !.left = targets]
  OBVIOUS
<1>4. x.left = targets /\ x.rows = {}
  BY <1>3, BlankFacts DEF Locals
<1>5. PICK l \in {"err", "ok", "dluns"} : GotoWith(p, l, x) /\ (l = "ok" => targets = {})
  BY <1>3 DEF DQueryTarget
<1>6. pc'[p] = l /\ (l = "dluns" => loc'[p] = x)
  BY <1>2, <1>5, GotoFacts
<1>7. l = "ok" => lun[Vol(p)] = Unmapped /\ iqns[Vol(p)] = {}
  BY <1>2, <1>5 DEF VolOK
<1>8. HandlerOK(p)'
  BY <1>1, <1>2, <1>4, <1>5, <1>6, <1>7 DEF HandlerOK, Vol, VolOK
<1>9. MeetsOK(p)
  BY <1>1, <1>2, <1>5, <1>6, <1>7 DEF MeetsOK, MetLabels
<1> QED
  BY <1>1, <1>5, <1>8, <1>9, QuietEffect

LEMMA DQueryVolumeMappingEffect ==
  ASSUME TypeInv, Inv, NEW p \in Procs, DQueryVolumeMapping(p), Clean(p)
  PROVE  Effect(p)
<1>1. /\ pc[p] = "dluns" /\ req' = req /\ lun' = lun /\ iqns' = iqns /\ targets' = targets
  BY DEF DQueryVolumeMapping, arrayVars
<1>2. /\ TypeOK /\ Vol(p) \in Volumes /\ VolOK(Vol(p)) /\ req[p].op = "detach"
      /\ loc[p] \in Locals /\ loc[p].left \subseteq Suffixes /\ pc[p] # "idle"
      /\ IF loc[p].rows = {} THEN lun[Vol(p)] = Unmapped \/ lun[Vol(p)].tgt \in loc[p].left
         ELSE loc[p].rows = {RowOf(Vol(p))} /\ lun[Vol(p)] # Unmapped
  BY <1>1, CleanWork DEF LabelOK, Detaching, HandlerOK
<1>3. PICK t \in loc[p].left : \E r \in LunReplies(t) :
        LET v == req[p].vol
            here == IF lun[v].tgt = t
                      THEN {[tgt |-> t, id |-> lun[v].id, iqns |-> iqns[v]]} ELSE {}
            found == loc[p].rows \cup here
            over == loc[p].left = {t} \/ (here # {} /\ req[p].local)
        IN GotoWith(p, IF Failed(r) THEN "err"
                       ELSE IF over THEN AfterSearch(found) ELSE "dluns",
                    [loc[p] EXCEPT !.rows = found,
                                   !.left = IF over THEN {} ELSE @ \ {t}])
  BY DEF DQueryVolumeMapping
<1>4. PICK here : here = IF lun[Vol(p)].tgt = t THEN {RowOf(Vol(p))} ELSE {}
  OBVIOUS
<1>5. PICK F : F = loc[p].rows \cup here
  OBVIOUS
<1>6. PICK over \in BOOLEAN : over = (loc[p].left = {t} \/ (here # {} /\ req[p].local))
  OBVIOUS
<1>7. PICK S : S = IF over THEN {} ELSE loc[p].left \ {t}
  OBVIOUS
<1>8. PICK x : x = [loc[p] EXCEPT !.rows = F, !.left = S]
  OBVIOUS
<1>9. x.rows = F /\ x.left = S
  BY <1>2, <1>8 DEF Locals
<1>10. PICK l : /\ GotoWith(p, l, x)
                /\ l = "err" \/ l = IF over THEN AfterSearch(F) ELSE "dluns"
  <2>1. here = IF lun[req[p].vol].tgt = t
                 THEN {[tgt |-> t, id |-> lun[req[p].vol].id, iqns |-> iqns[req[p].vol]]} ELSE {}
    BY <1>4 DEF RowOf, Vol
  <2> QED
    BY <1>3, <2>1, <1>5, <1>6, <1>7, <1>8
(* What was found, if anything, is the LUN; nothing found to the end is    *)
(* none.                                                                   *)
<1>11. /\ F # {} => F = {RowOf(Vol(p))} /\ lun[Vol(p)] # Unmapped
       /\ F = {} => lun[Vol(p)] = Unmapped \/ lun[Vol(p)].tgt \in loc[p].left \ {t}
       /\ F = {} => here = {}
  <2>1. lun[Vol(p)].tgt = t => lun[Vol(p)] # Unmapped
    BY <1>2, LunFacts
  <2> QED
    BY <1>2, <1>4, <1>5, <2>1
<1>12. \/ l = "err"
       \/ l = "ok" /\ lun[Vol(p)] = Unmapped
       \/ l = "dnode" /\ F = {RowOf(Vol(p))} /\ lun[Vol(p)] # Unmapped
       \/ l = "dluns" /\ S = loc[p].left \ {t}
  BY <1>6, <1>7, <1>10, <1>11 DEF AfterSearch
<1>13. pc'[p] = l /\ (l \in {"dluns", "dnode"} => loc'[p] = x)
  BY <1>2, <1>10, <1>12, GotoFacts
<1>14. RowOf(Vol(p))' = RowOf(Vol(p)) /\ Vol(p)' = Vol(p)
  BY <1>1 DEF RowOf, Vol
<1>15. HandlerOK(p)'
  <2>1. CASE l \in {"err", "ok"}
    BY <1>1, <1>2, <1>12, <1>13, <1>14, <2>1 DEF HandlerOK
  <2>2. CASE l = "dnode"
    BY <1>1, <1>9, <1>12, <1>13, <1>14, <2>2 DEF HandlerOK
  <2>3. CASE l = "dluns"
    BY <1>1, <1>9, <1>11, <1>12, <1>13, <1>14, <2>3 DEF HandlerOK
  <2> QED
    BY <1>12, <2>1, <2>2, <2>3
<1>16. MeetsOK(p)
  BY <1>1, <1>2, <1>12, <1>13 DEF MeetsOK, MetLabels, VolOK
<1> QED
  BY <1>1, <1>2, <1>10, <1>12, <1>15, <1>16, QuietEffect

LEMMA DQueryTargetByNameEffect ==
  ASSUME TypeInv, Inv, NEW p \in Procs, DQueryTargetByName(p), Clean(p)
  PROVE  Effect(p) \/ Dies(p)
<1>1. /\ pc[p] = "dnode" /\ req' = req /\ lun' = lun /\ iqns' = iqns /\ targets' = targets
  BY DEF DQueryTargetByName, arrayVars
<1>2. /\ TypeOK /\ Vol(p) \in Volumes /\ VolOK(Vol(p)) /\ req[p].op = "detach"
      /\ loc[p] \in Locals /\ pc[p] # "idle"
      /\ loc[p].rows = {RowOf(Vol(p))} /\ lun[Vol(p)] # Unmapped
  BY <1>1, CleanWork DEF LabelOK, Detaching, HandlerOK
<1>3. TheRow(p) = RowOf(Vol(p))
  BY <1>2, TheRowIs
<1>4. /\ TheRow(p).tgt = lun[Vol(p)].tgt /\ TheRow(p).id = lun[Vol(p)].id
      /\ TheRow(p).iqns = iqns[Vol(p)]
  BY <1>3 DEF RowOf
<1>5. PICK x : x = [loc[p] EXCEPT !.tgt = lun[Vol(p)].tgt, !.id = lun[Vol(p)].id]
  OBVIOUS
<1>6. x.tgt = lun[Vol(p)].tgt /\ x.id = lun[Vol(p)].id /\ x.rows = {RowOf(Vol(p))}
  BY <1>2, <1>5 DEF Locals
<1>7. PICK l : /\ TargetByName(p, TheRow(p).tgt, l, x)
               /\ \/ l = "unbind" /\ BoundToHost(p)
                  \/ l = "unmap" /\ ~BoundToHost(p) /\ RemoveLun(p)
                  \/ l = "ok" /\ ~BoundToHost(p) /\ ~RemoveLun(p)
  BY <1>4, <1>5 DEF DQueryTargetByName
<1>8. /\ BoundToHost(p) <=> req[p].local /\ Node(p) \in iqns[Vol(p)]
      /\ ~BoundToHost(p) => (RemoveLun(p) <=> iqns[Vol(p)] = {})
  BY <1>4 DEF BoundToHost, RemoveLun, Node
<1>9. GotoWith(p, l, x) \/ GotoWith(p, "err", loc[p]) \/ Dies(p)
  BY <1>1, <1>7, ByNameFacts DEF Dies, DQueryTargetByName, arrayVars
<1>10. RowOf(Vol(p))' = RowOf(Vol(p)) /\ Vol(p)' = Vol(p) /\ Node(p)' = Node(p)
  BY <1>1 DEF RowOf, Vol, Node
<1>11. ASSUME GotoWith(p, l, x) PROVE Effect(p)
  <2>1. pc'[p] = l /\ (l \in {"unbind", "unmap"} => loc'[p] = x)
    BY <1>2, <1>7, <1>11, GotoFacts
  <2>2. HandlerOK(p)'
    BY <1>1, <1>2, <1>6, <1>7, <1>8, <1>10, <2>1 DEF HandlerOK
  <2>3. MeetsOK(p)
    BY <1>1, <1>2, <1>7, <1>8, <2>1 DEF MeetsOK, MetLabels
  <2> QED
    BY <1>1, <1>2, <1>7, <1>11, <2>2, <2>3, QuietEffect
<1> QED
  BY <1>1, <1>2, <1>9, <1>11, FailEffect

(* The LUN is removed if and only if it was bound to this node alone. *)
LEMMA LastInitiator ==
  ASSUME TypeInv, NEW p \in Procs, NEW v \in Volumes, loc[p].rows = {RowOf(v)}, req[p].local,
         req[p].node \in iqns[v]
  PROVE  RemoveLun(p) <=> iqns[v] = {req[p].node}
<1>0. TheRow(p) = RowOf(v)
  BY TheRowIs
<1>1. TheRow(p).iqns = iqns[v]
  BY <1>0 DEF RowOf
<1>2. IsFiniteSet(iqns[v])
  <2>1. iqns[v] \subseteq Nodes /\ IsFiniteSet(Nodes)
    BY TargetsAssumption DEF TypeInv, TypeOK, TargetsAssumption
  <2> QED
    BY <2>1, FS_Subset
<1>3. RemoveLun(p) <=> Cardinality(iqns[v]) = 1
  BY <1>1 DEF RemoveLun, BoundToHost
<1>4. Cardinality(iqns[v]) = 1 <=> \E x : iqns[v] = {x}
  BY <1>2, FS_Singleton
<1> QED
  BY <1>3, <1>4

LEMMA UnbindEffect ==
  ASSUME TypeInv, Inv, NEW p \in Procs, UnBindLunIQN(p), Clean(p)
  PROVE  Effect(p)
<1>1. /\ pc[p] = "unbind" /\ req' = req /\ lun' = lun /\ targets' = targets
  BY DEF UnBindLunIQN
<1>2. /\ TypeOK /\ Vol(p) \in Volumes /\ VolOK(Vol(p)) /\ req[p].op = "detach" /\ req[p].local
      /\ lun[Vol(p)] # Unmapped /\ Node(p) \in iqns[Vol(p)]
      /\ lun[Vol(p)].tgt = loc[p].tgt /\ lun[Vol(p)].id = loc[p].id
      /\ loc[p].rows = {RowOf(Vol(p))} /\ Distinct
  BY <1>1, CleanWork DEF LabelOK, Detaching, HandlerOK, Inv
<1>3. VolumeAt(loc[p].tgt, loc[p].id) = {Vol(p)}
  BY <1>2, OwnPlace
<1>4. RemoveLun(p) <=> iqns[Vol(p)] = {Node(p)}
  BY <1>2, LastInitiator DEF Node
<1>5. PICK o \in Outcomes :
        LET hit == {v \in {Vol(p)} : req[p].node \in iqns[v]}
            applied == o # "unsent" /\ hit # {}
        IN /\ iqns' = [v \in Volumes |->
                         IF applied /\ v \in hit THEN iqns[v] \ {req[p].node} ELSE iqns[v]]
           /\ Goto(p, IF applied /\ o = "done"
                        THEN IF RemoveLun(p) THEN "unmap" ELSE "ok"
                        ELSE "err")
  BY <1>3 DEF UnBindLunIQN
<1>6. CASE o = "unsent"
  <2>1. iqns' = iqns /\ Goto(p, "err")
    BY <1>2, <1>5, <1>6 DEF TypeOK
  <2> QED
    BY <1>1, <2>1, FailEffect DEF Goto
<1>7. CASE o # "unsent"
  <2>1. iqns' = [v \in Volumes |-> IF v = Vol(p) THEN iqns[v] \ {Node(p)} ELSE iqns[v]]
    BY <1>2, <1>5, <1>7 DEF Node
  <2>2. /\ iqns'[Vol(p)] = iqns[Vol(p)] \ {Node(p)}
        /\ \A w \in Volumes : w # Vol(p) => iqns'[w] = iqns[w]
    BY <1>2, <2>1
  <2>3. PICK l : /\ Goto(p, l)
                 /\ \/ l = "err"
                    \/ l = "unmap" /\ iqns[Vol(p)] = {Node(p)}
                    \/ l = "ok" /\ iqns[Vol(p)] # {Node(p)}
    BY <1>4, <1>5
  <2>4. /\ pc'[p] = l /\ \A q \in Procs : q # p => pc'[q] = pc[q] /\ loc'[q] = loc[q]
        /\ l = "unmap" => loc'[p] = loc[p]
    BY <1>2, <2>3, GotoFacts DEF Goto
  <2>5. Frame(p) /\ Serves(p) /\ Grows(p)
    BY <1>1, <1>2, <2>2, <2>3, <2>4 DEF Frame, Serves, Grows
  <2>7. iqns[Vol(p)] # {Node(p)} => iqns'[Vol(p)] # {}
    BY <1>2, <2>2
  <2>8. Vol(p)' = Vol(p) /\ Node(p)' = Node(p)
    BY <1>1 DEF Vol, Node
  <2>9. HandlerOK(p)' /\ MeetsOK(p)
    BY <1>1, <1>2, <2>2, <2>3, <2>4, <2>7, <2>8 DEF HandlerOK, MeetsOK, MetLabels
  <2> QED
    BY <2>5, <2>9 DEF Effect
<1> QED
  BY <1>6, <1>7

LEMMA DeleteVolumeMappingEffect ==
  ASSUME TypeInv, Inv, NEW p \in Procs, DeleteVolumeMapping(p), Clean(p)
  PROVE  Effect(p)
<1>1. /\ pc[p] = "unmap" /\ req' = req /\ targets' = targets
  BY DEF DeleteVolumeMapping
<1>2. /\ TypeOK /\ Vol(p) \in Volumes /\ VolOK(Vol(p))
      /\ lun[Vol(p)] # Unmapped /\ iqns[Vol(p)] = {} /\ req[p].op = "detach"
      /\ lun[Vol(p)].tgt = loc[p].tgt /\ lun[Vol(p)].id = loc[p].id
  BY <1>1, CleanWork DEF HandlerOK, LabelOK, Detaching
<1>3. VolumeAt(loc[p].tgt, loc[p].id) = {Vol(p)}
  BY <1>2, OwnPlace
<1>4. PICK o \in Outcomes :
        /\ IF o # "unsent"
             THEN /\ lun' = [v \in Volumes |-> IF v \in {Vol(p)} THEN Unmapped ELSE lun[v]]
                  /\ iqns' = [v \in Volumes |-> IF v \in {Vol(p)} THEN {} ELSE iqns[v]]
             ELSE UNCHANGED <<lun, iqns>>
        /\ Goto(p, IF o = "done" THEN "dleft" ELSE "err")
  BY <1>3 DEF DeleteVolumeMapping, Outcomes
<1>5. CASE o = "unsent"
  BY <1>1, <1>4, <1>5, FailEffect DEF Goto
<1>6. CASE o # "unsent"
  <2>1. /\ lun'[Vol(p)] = Unmapped /\ iqns'[Vol(p)] = {}
        /\ \A w \in Volumes : w # Vol(p) => lun'[w] = lun[w] /\ iqns'[w] = iqns[w]
    BY <1>2, <1>4, <1>6
  <2>2. PICK l \in {"dleft", "err"} : Goto(p, l)
    BY <1>4
  <2>3. pc'[p] = l /\ \A q \in Procs : q # p => pc'[q] = pc[q] /\ loc'[q] = loc[q]
    BY <1>2, <2>2, GotoFacts DEF Goto
  <2>4. Frame(p) /\ Serves(p) /\ Grows(p)
    BY <1>1, <1>2, <2>1, <2>2, <2>3 DEF Frame, Serves, Grows
  <2>5. HandlerOK(p)' /\ MeetsOK(p)
    BY <1>1, <2>1, <2>2, <2>3 DEF HandlerOK, MeetsOK, MetLabels, Vol, Met
  <2> QED
    BY <2>4, <2>5 DEF Effect
<1> QED
  BY <1>5, <1>6

LEMMA LeaveTargetEffect ==
  ASSUME TypeInv, Inv, NEW p \in Procs, QueryLeft(p) \/ DeleteTarget(p), Clean(p)
  PROVE  Effect(p)
<1>1. /\ pc[p] \in {"dleft", "rmtarget"} /\ req' = req /\ lun' = lun /\ iqns' = iqns
      /\ \E l \in {"ok", "rmtarget", "err"} : Goto(p, l)
  BY DEF QueryLeft, AfterLunRemoved, DeleteTarget, arrayVars
<1>2. /\ TypeOK /\ Vol(p) \in Volumes /\ lun[Vol(p)] = Unmapped /\ req[p].op = "detach"
  BY <1>1, CleanWork DEF HandlerOK, LabelOK, Detaching
<1>3. PICK l \in {"ok", "rmtarget", "err"} : Goto(p, l)
  BY <1>1
<1>4. pc'[p] = l /\ \A q \in Procs : q # p => pc'[q] = pc[q] /\ loc'[q] = loc[q]
  BY <1>2, <1>3, GotoFacts DEF Goto
<1>5. Frame(p) /\ Serves(p) /\ Grows(p)
  BY <1>1, <1>3, <1>4 DEF Frame, Serves, Grows
<1>7. HandlerOK(p)' /\ MeetsOK(p)
  BY <1>1, <1>2, <1>3, <1>4 DEF HandlerOK, MeetsOK, MetLabels, Vol, Met
<1> QED
  BY <1>5, <1>7 DEF Effect

LEMMA StepEffect ==
  ASSUME TypeInv, Inv, NEW p \in Procs, Serve(p), Clean(p)
  PROVE  Effect(p) \/ Dies(p)
  BY QueryTargetEffect, QueryVolumeMappingEffect, NewTargetEffect, GetLunEffect,
     CreateVolumeMappingEffect, BindEffect, DQueryTargetEffect, DQueryVolumeMappingEffect,
     DQueryTargetByNameEffect, UnbindEffect, DeleteVolumeMappingEffect, LeaveTargetEffect DEF Serve

-----------------------------------------------------------------------------
(* The invariant is kept. *)

(* A request leaves the other handlers alone, or is the last of its process. *)
LEMMA Moves ==
  ASSUME TypeInv, NEW p \in Procs, Serve(p)
  PROVE  /\ Running(p) /\ req' = req
         /\ (\E l, x : GotoWith(p, l, x) /\ l # "idle") \/ Dies(p)
<1>1. CASE QueryTarget(p) \/ QueryVolumeMapping(p)
  <2>1. \A s, b : Choice(s, b) # "idle"
    BY DEF Choice
  <2>2. pc[p] \in {"targets", "luns"} /\ req' = req
    BY <1>1 DEF QueryTarget, QueryVolumeMapping
  <2>3. CASE QueryTarget(p)
    <3>1. \/ GotoWith(p, "err", loc[p]) \/ Choose(p, {}, NoBest)
          \/ GotoWith(p, "luns", [Blank EXCEPT !.listed = targets, !.left = targets])
      BY <2>3 DEF QueryTarget, Goto
    <3> QED
      BY <2>1, <2>2, <3>1 DEF Choose, Running
  <2>4. CASE QueryVolumeMapping(p)
    <3>1. \E l, x, s, b :
            \/ GotoWith(p, l, x) /\ l \in {"err", "portal", "bind", "luns"}
            \/ Choose(p, s, b)
      BY <2>4 DEF QueryVolumeMapping, Goto
    <3> QED
      BY <2>1, <2>2, <3>1 DEF Choose, Running
  <2> QED
    BY <1>1, <2>3, <2>4
<1>2. CASE CreateTarget(p) \/ AddHost(p) \/ CreateVolumeMapping(p) \/ BindLunIQN(p)
           \/ GetLunMappingID(p) \/ GetLunMappingIDAgain(p)
  BY <1>2 DEF CreateTarget, AddHost, CreateVolumeMapping, BindLunIQN, GetLunMappingID,
              GetLunMappingIDAgain, Running, Goto
<1>3. CASE DQueryTarget(p) \/ DQueryVolumeMapping(p)
  <2>1. \A f : AfterSearch(f) # "idle"
    BY DEF AfterSearch
  <2>2. pc[p] \in {"dtargets", "dluns"} /\ req' = req
    BY <1>3 DEF DQueryTarget, DQueryVolumeMapping
  <2>3. \E l, x, f : GotoWith(p, l, x) /\ l \in {"err", "ok", "dluns", AfterSearch(f)}
    <3>1. CASE DQueryTarget(p)
      BY <3>1 DEF DQueryTarget
    <3>2. CASE DQueryVolumeMapping(p)
      BY <3>2 DEF DQueryVolumeMapping
    <3> QED
      BY <1>3, <3>1, <3>2
  <2> QED
    BY <2>1, <2>2, <2>3 DEF Running
<1>4. CASE UnBindLunIQN(p) \/ DeleteVolumeMapping(p) \/ QueryLeft(p) \/ DeleteTarget(p)
  BY <1>4 DEF UnBindLunIQN, DeleteVolumeMapping, QueryLeft, AfterLunRemoved, DeleteTarget, Running,
              Goto
<1>5. CASE QueryTargetByName(p)
  BY <1>5, ByNameFacts DEF QueryTargetByName, Running, Dies, arrayVars
<1>6. CASE GetPortal(p)
  BY <1>6, ByNameFacts DEF GetPortal, Running, Dies, arrayVars
<1>7. CASE DQueryTargetByName(p)
  <2>1. PICK t, l, x : TargetByName(p, t, l, x) /\ l # "idle"
    BY <1>7 DEF DQueryTargetByName
  <2> QED
    BY <1>7, <2>1, ByNameFacts DEF DQueryTargetByName, Running, Dies, arrayVars
<1> QED
  BY <1>1, <1>2, <1>3, <1>4, <1>5, <1>6, <1>7 DEF Serve

LEMMA OthersStay ==
  ASSUME TypeInv, NEW p \in Procs, Serve(p), ~Dies(p)
  PROVE  /\ pc[p] # "idle" /\ pc'[p] # "idle" /\ req' = req
         /\ \A q \in Procs : q # p => pc'[q] = pc[q] /\ loc'[q] = loc[q]
  BY Moves, GotoFacts DEF TypeInv, Running

(* The array keeps its LUNs apart and on its targets, whoever asks. *)
ArrayOK ==
  /\ Distinct
  /\ \A v \in Volumes : (lun[v] # Unmapped => lun[v].tgt \in targets)
                        /\ (lun[v] = Unmapped => iqns[v] = {})

LEMMA ArrayStep ==
  ASSUME TypeInv, ArrayOK, NEW p \in Procs, Serve(p)
  PROVE  ArrayOK'
<1>1. TypeOK /\ targets \subseteq Suffixes /\ NoTarget \notin Suffixes
  BY DEF TypeInv, TypeOK, Suffixes, NoTarget
<1>2. CASE UNCHANGED <<lun, iqns>> /\ targets \subseteq targets'
  BY <1>2 DEF ArrayOK, Distinct
<1>3. CASE CreateVolumeMapping(p)
  <2>1. CASE lun' = lun
    BY <1>2, <1>3, <2>1 DEF CreateVolumeMapping
  <2>2. ASSUME NEW k \in FreeIds(loc[p].tgt), CreateMapAccepted(req[p].vol, loc[p].tgt),
               lun' = [lun EXCEPT ![req[p].vol] = [tgt |-> loc[p].tgt, id |-> k]]
        PROVE  ArrayOK'
    <3>1. PICK y : y = [tgt |-> loc[p].tgt, id |-> k]
      OBVIOUS
    <3>2. /\ loc[p].tgt \in targets /\ y # Unmapped /\ y.tgt = loc[p].tgt
          /\ \A w \in Volumes : lun[w] # y
      BY <1>1, <2>2, <3>1 DEF CreateMapAccepted, FreeIds, VolumeAt, Unmapped
    <3>3. \A w \in Volumes : lun'[w] = IF w = req[p].vol THEN y ELSE lun[w]
      BY <1>1, <2>2, <3>1 DEF TypeOK
    <3>4. targets' = targets /\ iqns' = iqns
      BY <1>3 DEF CreateVolumeMapping
    <3> QED
      BY <3>2, <3>3, <3>4 DEF ArrayOK, Distinct
  <2> QED
    BY <1>3, <2>1, <2>2 DEF CreateVolumeMapping
<1>4. CASE BindLunIQN(p) \/ UnBindLunIQN(p)
  <2>1. lun' = lun /\ targets' = targets
    BY <1>4 DEF BindLunIQN, UnBindLunIQN
  <2>2. ASSUME NEW v \in Volumes, lun[v] = Unmapped PROVE iqns'[v] = {}
    <3>1. v \notin VolumeAt(loc[p].tgt, loc[p].id) /\ iqns[v] = {}
      BY <1>1, <2>2 DEF VolumeAt, Unmapped, ArrayOK
    <3> QED
      BY <1>4, <3>1 DEF BindLunIQN, UnBindLunIQN
  <2> QED
    BY <2>1, <2>2 DEF ArrayOK, Distinct
<1>5. CASE DeleteVolumeMapping(p)
  <2>1. targets' = targets
    BY <1>5 DEF DeleteVolumeMapping
  <2>2. \A v \in Volumes : \/ lun'[v] = Unmapped /\ iqns'[v] = {}
                           \/ lun'[v] = lun[v] /\ iqns'[v] = iqns[v]
    BY <1>5 DEF DeleteVolumeMapping
  <2> QED
    BY <2>1, <2>2 DEF ArrayOK, Distinct
<1>6. CASE DeleteTarget(p)
  <2>1. /\ UNCHANGED <<lun, iqns>>
        /\ targets' = targets \/ (targets' = targets \ {loc[p].tgt} /\ LunsOf(loc[p].tgt) = {})
    BY <1>6 DEF DeleteTarget, DeleteTargetAccepted
  <2>2. \A v \in Volumes : lun[v] # Unmapped => lun[v].tgt \in targets'
    BY <2>1 DEF ArrayOK, LunsOf
  <2> QED
    BY <2>1, <2>2 DEF ArrayOK, Distinct
<1>7. CASE \/ QueryTarget(p) \/ QueryVolumeMapping(p) \/ CreateTarget(p) \/ QueryTargetByName(p)
           \/ AddHost(p) \/ GetLunMappingID(p) \/ GetLunMappingIDAgain(p) \/ GetPortal(p)
           \/ DQueryTarget(p) \/ DQueryVolumeMapping(p) \/ DQueryTargetByName(p) \/ QueryLeft(p)
  <2>1. UNCHANGED <<lun, iqns>> /\ targets \subseteq targets'
    BY <1>7 DEF QueryTarget, QueryVolumeMapping, CreateTarget, QueryTargetByName, AddHost,
       GetLunMappingID, GetLunMappingIDAgain, GetPortal, DQueryTarget, DQueryVolumeMapping,
       DQueryTargetByName, QueryLeft, arrayVars
  <2> QED
    BY <1>2, <2>1
<1> QED
  BY <1>3, <1>4, <1>5, <1>6, <1>7 DEF Serve

LEMMA InvParts ==
  Inv <=> /\ Apart /\ HandsKnown /\ ArrayOK
          /\ \A v \in Volumes :
               v \notin crossed /\ ~Busy(v) /\ lun[v] # Unmapped => iqns[v] # {}
          /\ \A p \in Procs : Vol(p) \notin crossed => HandlerOK(p)
  BY DEF Inv, ArrayOK, VolOK

(* A handler whose volume did not change, which is paired if it was. *)
LEMMA HandlerStays ==
  ASSUME NEW q \in Procs, HandlerOK(q), pc'[q] = pc[q], loc'[q] = loc[q], req'[q] = req[q],
         lun'[Vol(q)] = lun[Vol(q)], iqns'[Vol(q)] = iqns[Vol(q)], paired \subseteq paired'
  PROVE  HandlerOK(q)'
<1>1. /\ Vol(q)' = Vol(q) /\ Node(q)' = Node(q) /\ RowOf(Vol(q))' = RowOf(Vol(q))
      /\ lun'[Vol(q)'] = lun[Vol(q)] /\ iqns'[Vol(q)'] = iqns[Vol(q)]
      /\ Vol(q)' \notin paired' => Vol(q) \notin paired
  BY DEF Vol, Node, RowOf
<1> QED
  BY <1>1 DEF HandlerOK

(* A process ends. *)
LEMMA EndsInv ==
  ASSUME TypeInv, Inv, NEW p \in Procs, NEW K \in SUBSET Procs, ProcessEnds(p, K), Running(p),
         UNCHANGED <<targets, open, lun, iqns, req>>, paired' = paired, crossed' = crossed,
         HandsKnown'
  PROVE  Inv'
<1>1. /\ \A q \in K : Running(q) /\ pc'[q] = "err"
      /\ \A q \in Procs \ K : pc'[q] = pc[q] /\ loc'[q] = loc[q]
  BY EndsFacts
<1>2. \A q \in Procs : (pc'[q] # "idle" <=> pc[q] # "idle") /\ Vol(q)' = Vol(q)
  BY <1>1 DEF Running, Vol
<1>3. Apart'
  BY <1>2, InvParts DEF Apart
<1>4. ArrayOK'
  BY InvParts DEF ArrayOK, Distinct
<1>5. \A v \in Volumes : v \notin crossed' /\ ~Busy(v)' /\ lun'[v] # Unmapped => iqns'[v] # {}
  BY <1>2, InvParts DEF Busy, Vol
<1>6. ASSUME NEW q \in Procs, Vol(q)' \notin crossed' PROVE HandlerOK(q)'
  <2>1. CASE q \in K
    BY <1>1, <2>1 DEF HandlerOK
  <2>2. CASE q \notin K
    <3>1. HandlerOK(q)
      BY <1>2, <1>6, InvParts
    <3> QED
      BY <1>1, <2>2, <3>1, HandlerStays
  <2> QED
    BY <2>1, <2>2
<1> QED
  BY <1>3, <1>4, <1>5, <1>6, InvParts DEF Inv, ArrayOK, VolOK

(* What a step that ends no process keeps of requests and of volumes at    *)
(* rest, when what it changes is a volume at work or one that is crossed.  *)
LEMMA RestInv ==
  ASSUME TypeInv, Inv, NEW p \in Procs, Serve(p), ~Dies(p),
         paired \subseteq paired', crossed \subseteq crossed',
         \A v \in Volumes \ crossed' : Busy(v) \/ (lun'[v] = lun[v] /\ iqns'[v] = iqns[v])
  PROVE  /\ Apart'
         /\ \A v \in Volumes : v \notin crossed' /\ ~Busy(v)' /\ lun'[v] # Unmapped => iqns'[v] # {}
<1>1. \A q \in Procs : (pc'[q] # "idle" <=> pc[q] # "idle") /\ Vol(q)' = Vol(q) /\ req'[q] = req[q]
  BY OthersStay DEF Vol
<1>2. Apart'
  BY <1>1, InvParts DEF Apart
<1>3. \A v \in Volumes : Busy(v)' <=> Busy(v)
  BY <1>1 DEF Busy, Vol
<1> QED
  BY <1>2, <1>3, InvParts

(* The step of a handler whose volume is not crossed.  Another handler of  *)
(* the volume then attaches it too.                                        *)
LEMMA CleanInv ==
  ASSUME TypeInv, Inv, NEW p \in Procs, Serve(p), ~Dies(p), Clean(p), HandsKnown'
  PROVE  Inv'
<1>1. /\ Frame(p) /\ HandlerOK(p)' /\ Serves(p) /\ Grows(p) /\ Apart
      /\ pc[p] # "idle" /\ Vol(p) \in Volumes /\ Vol(p) \notin crossed
      /\ paired' = paired /\ crossed' = crossed /\ ArrayOK
  BY StepEffect, AtWork, InvParts DEF Effect, Frame, Clean
<1>2. Apart' /\ \A v \in Volumes :
                  v \notin crossed' /\ ~Busy(v)' /\ lun'[v] # Unmapped => iqns'[v] # {}
  <2>1. Busy(Vol(p))
    BY <1>1 DEF Busy, Vol
  <2>2. \A v \in Volumes : Busy(v) \/ (lun'[v] = lun[v] /\ iqns'[v] = iqns[v])
    BY <1>1, <2>1 DEF Frame
  <2> QED
    BY <1>1, <2>2, RestInv
<1>3. ArrayOK'
  BY <1>1, ArrayStep
<1>4. ASSUME NEW q \in Procs, Vol(q)' \notin crossed' PROVE HandlerOK(q)'
  <2>1. CASE q = p
    BY <1>1, <2>1
  <2>2. CASE pc[q] = "idle"
    <3>1. pc'[q] = "idle"
      BY <1>1, <2>2 DEF Frame
    <3> QED
      BY <3>1 DEF HandlerOK
  <2>3. CASE q # p /\ pc[q] # "idle"
    <3>1. /\ pc'[q] = pc[q] /\ loc'[q] = loc[q] /\ req'[q] = req[q] /\ Vol(q)' = Vol(q)
          /\ Node(q)' = Node(q)
      BY <1>1, <2>3 DEF Frame, Vol, Node
    <3>2. /\ HandlerOK(q) /\ Vol(q) \in Volumes /\ LabelOK(q)
          /\ req[q].op \in {"attach", "detach"} /\ req[p].op \in {"attach", "detach"}
      BY <1>1, <1>4, <2>3, <3>1, AtWork
    <3>3. CASE Vol(q) # Vol(p)
      <4>1. lun'[Vol(q)] = lun[Vol(q)] /\ iqns'[Vol(q)] = iqns[Vol(q)]
        BY <1>1, <3>2, <3>3 DEF Frame
      <4> QED
        BY <1>1, <3>1, <3>2, <4>1, HandlerStays
    <3>4. CASE Vol(q) = Vol(p)
      <4>1. req[p].op = "attach" /\ req[q].op = "attach" /\ Vol(q) \in paired
        BY <1>1, <2>3, <3>2, <3>4 DEF Apart
      <4>2. /\ iqns[Vol(q)] \subseteq iqns'[Vol(q)]
            /\ lun[Vol(q)] # Unmapped => lun'[Vol(q)] = lun[Vol(q)]
        BY <1>1, <3>4, <4>1 DEF Serves, Grows
      <4>3. pc[q] \notin Detaching /\ Vol(q)' \in paired'
        BY <1>1, <3>1, <3>2, <4>1 DEF LabelOK
      <4> QED
        BY <3>1, <3>2, <4>1, <4>2, <4>3 DEF HandlerOK, Detaching
    <3> QED
      BY <3>3, <3>4
  <2> QED
    BY <2>1, <2>2, <2>3
<1> QED
  BY <1>2, <1>3, <1>4, InvParts DEF Inv, ArrayOK, VolOK

(* That of one whose volume is crossed: what it changes is crossed from    *)
(* now on.                                                                 *)
LEMMA CrossedInv ==
  ASSUME TypeInv, Inv, NEW p \in Procs, Step(p), ~Dies(p), Vol(p) \in crossed, HandsKnown'
  PROVE  Inv'
<1>1. /\ Serve(p) /\ paired \subseteq paired' /\ crossed \subseteq crossed'
      /\ \A v \in Volumes \ crossed' : lun'[v] = lun[v] /\ iqns'[v] = iqns[v]
  BY DEF Step, Hit, Vol
<1>2. Apart' /\ \A v \in Volumes :
                  v \notin crossed' /\ ~Busy(v)' /\ lun'[v] # Unmapped => iqns'[v] # {}
  BY <1>1, RestInv
<1>3. ArrayOK'
  BY <1>1, ArrayStep, InvParts
<1>4. ASSUME NEW q \in Procs, Vol(q)' \notin crossed' PROVE HandlerOK(q)'
  <2>1. /\ q # p /\ pc'[q] = pc[q] /\ loc'[q] = loc[q] /\ req'[q] = req[q] /\ Vol(q)' = Vol(q)
        /\ Vol(q) \notin crossed
    BY <1>1, <1>4, OthersStay DEF Vol
  <2>2. CASE pc[q] = "idle"
    BY <2>1, <2>2 DEF HandlerOK
  <2>3. CASE pc[q] # "idle"
    <3>1. HandlerOK(q) /\ Vol(q) \in Volumes
      BY <2>1, <2>3, AtWork
    <3>2. lun'[Vol(q)] = lun[Vol(q)] /\ iqns'[Vol(q)] = iqns[Vol(q)]
      BY <1>1, <1>4, <2>1, <3>1
    <3> QED
      BY <1>1, <2>1, <3>1, <3>2, HandlerStays
  <2> QED
    BY <2>2, <2>3
<1> QED
  BY <1>2, <1>3, <1>4, InvParts DEF Inv, ArrayOK, VolOK

(* The callers' steps change nothing on the array. *)
LEMMA CallerFrame ==
  ASSUME TypeInv, NEW p \in Procs, CallerStep(p), ~Kill(p)
  PROVE  /\ UNCHANGED <<targets, open, lun, iqns>> /\ loc' = loc
         /\ \A q \in Procs : q # p => pc'[q] = pc[q] /\ req'[q] = req[q]
         /\ pc'[p] \in {"targets", "dtargets", "idle"}
         /\ paired \subseteq paired' /\ crossed \subseteq crossed'
<1>1. TypeOK
  BY DEF TypeInv
<1>2. PICK l \in {"targets", "dtargets", "idle"} : GotoWith(p, l, loc[p])
  BY DEF CallerStep, Call, Retry, Done, Begin, Goto
<1>3. /\ UNCHANGED <<targets, open, lun, iqns>> /\ \A q \in Procs : q # p => req'[q] = req[q]
      /\ paired \subseteq paired' /\ crossed \subseteq crossed'
  BY <1>1 DEF CallerStep, Call, Retry, Done, Begin, arrayVars, history, TypeOK
<1>4. /\ pc'[p] = l /\ loc'[p] = loc[p] /\ loc' = [loc EXCEPT ![p] = loc'[p]]
      /\ \A q \in Procs : q # p => pc'[q] = pc[q]
  BY <1>1, <1>2, GotoFacts
<1>5. loc' = loc
  BY <1>1, <1>4 DEF TypeOK
<1> QED
  BY <1>2, <1>3, <1>4, <1>5

(* The request is new, the one there was, or answered. *)
LEMMA CallerRequest ==
  ASSUME TypeInv, NEW p \in Procs, CallerStep(p), ~Kill(p)
  PROVE  \/ Call(p) /\ pc[p] = "idle" /\ pc'[p] # "idle" /\ req'[p] \in Asks
         \/ pc[p] = "err" /\ pc'[p] # "idle" /\ req' = req /\ UNCHANGED history
         \/ pc[p] = "ok" /\ pc'[p] = "idle" /\ UNCHANGED history
<1>1. TypeOK
  BY DEF TypeInv
<1>2. CASE Call(p)
  <2>1. PICK r \in Asks : Begin(p, r)
    BY <1>2 DEF Call
  <2>2. PICK l \in {"targets", "dtargets"} : GotoWith(p, l, loc[p])
    BY <2>1 DEF Begin, Goto
  <2>3. req'[p] = r /\ pc'[p] # "idle"
    BY <1>1, <2>1, <2>2, GotoFacts DEF Begin, TypeOK
  <2> QED
    BY <1>2, <2>3 DEF Call
<1>3. CASE Retry(p)
  <2>1. PICK l \in {"targets", "dtargets"} : GotoWith(p, l, loc[p])
    BY <1>3 DEF Retry, Begin, Goto
  <2> QED
    BY <1>1, <1>3, <2>1, GotoFacts DEF Retry, Begin, TypeOK
<1>4. CASE Done(p)
  BY <1>1, <1>4, GotoFacts DEF Done, Goto
<1> QED
  BY <1>2, <1>3, <1>4 DEF CallerStep

LEMMA CallerInv ==
  ASSUME TypeInv, Inv, NEW p \in Procs, CallerStep(p), ~Kill(p)
  PROVE  Inv'
<1>1. /\ UNCHANGED <<targets, open, lun, iqns>> /\ TypeOK /\ loc' = loc
      /\ \A q \in Procs : q # p => pc'[q] = pc[q] /\ req'[q] = req[q]
      /\ pc'[p] \in {"targets", "dtargets", "idle"}
      /\ paired \subseteq paired' /\ crossed \subseteq crossed'
  BY CallerFrame DEF TypeInv
<1>2. Apart'
  <2> SUFFICES ASSUME NEW q \in Procs, q # p, pc[q] # "idle", pc'[p] # "idle",
                      req'[p].vol = req[q].vol
               PROVE  /\ req[q].vol \in paired'
                      /\ "detach" \in {req'[p].op, req[q].op} => req[q].vol \in crossed'
    BY <1>1, InvParts DEF Apart, Vol
  <2>1. CASE Call(p)
    <3>1. PICK r \in Asks :
            /\ Begin(p, r)
            /\ paired' = IF Others(r) # {} THEN paired \cup {r.vol} ELSE paired
            /\ crossed' = IF \E x \in Others(r) : "detach" \in {r.op, req[x].op}
                            THEN crossed \cup {r.vol} ELSE crossed
      BY <2>1 DEF Call
    <3>2. req'[p] = r
      BY <1>1, <3>1 DEF Begin, TypeOK
    <3>3. q \in Others(r)
      BY <3>2 DEF Others
    <3> QED
      BY <3>1, <3>2, <3>3
  <2>2. CASE ~Call(p)
    <3>1. pc[p] # "idle" /\ req' = req
      BY <2>2, CallerRequest
    <3> QED
      BY <1>1, <3>1, InvParts DEF Apart, Vol
  <2> QED
    BY <2>1, <2>2
<1>3. HandsKnown'
  <2>1. CASE Call(p)
    BY <2>1 DEF Call, Stray, HandsKnown
  <2>2. CASE ~Call(p)
    <3>1. /\ paired' = paired /\ strays' = strays
          /\ pc'[p] # "idle" => pc[p] # "idle" /\ req'[p] = req[p]
      BY <2>2, CallerRequest DEF history
    <3>2. InHand' \subseteq InHand
      BY <1>1, <3>1 DEF InHand
    <3> QED
      BY <3>1, <3>2, InvParts DEF HandsKnown
  <2> QED
    BY <2>1, <2>2
<1>4. ArrayOK'
  BY <1>1, InvParts DEF ArrayOK, Distinct
<1>5. ASSUME NEW v \in Volumes, v \notin crossed', ~Busy(v)', lun'[v] # Unmapped
      PROVE  iqns'[v] # {}
  <2>1. CASE Busy(v)
    <3>1. pc[p] # "idle" /\ pc'[p] = "idle" /\ Vol(p) = v
      BY <1>1, <1>5, <2>1, CallerRequest DEF Busy, Vol
    <3>2. pc[p] = "ok" /\ HandlerOK(p)
      BY <1>1, <1>5, <3>1, CallerRequest, InvParts
    <3> QED
      BY <1>1, <1>5, <3>1, <3>2 DEF HandlerOK
  <2>2. CASE ~Busy(v)
    BY <1>1, <1>5, <2>2, InvParts
  <2> QED
    BY <2>1, <2>2
<1>6. ASSUME NEW q \in Procs, Vol(q)' \notin crossed' PROVE HandlerOK(q)'
  <2>1. CASE q = p
    BY <1>1, <2>1 DEF HandlerOK
  <2>2. CASE q # p
    <3>1. HandlerOK(q)
      BY <1>1, <1>6, <2>2, InvParts DEF Vol
    <3> QED
      BY <1>1, <2>2, <3>1, HandlerStays
  <2> QED
    BY <2>1, <2>2
<1> QED
  BY <1>2, <1>3, <1>4, <1>5, <1>6, InvParts DEF Inv, ArrayOK, VolOK

(* Killed handlers have no target in hand. *)
LEMMA KillInv ==
  ASSUME TypeInv, Inv, NEW p \in Procs, Kill(p)
  PROVE  Inv'
<1>1. PICK K \in SUBSET Procs : ProcessEnds(p, K)
  BY DEF Kill
<1>2. /\ Running(p) /\ UNCHANGED <<targets, open, lun, iqns, req>>
      /\ paired' = paired /\ crossed' = crossed /\ strays' = strays
  BY DEF Kill, arrayVars, history
<1>3. /\ \A q \in K : loc'[q] = Blank
      /\ \A q \in Procs \ K : pc'[q] = pc[q] /\ loc'[q] = loc[q]
  BY <1>1, <1>2, EndsFacts
<1>4. Blank.tgt \notin targets
  BY BlankFacts DEF TypeInv, TypeOK, Suffixes, NoTarget
<1>5. InHand' \subseteq InHand
  BY <1>2, <1>3, <1>4 DEF InHand
<1>6. HandsKnown'
  BY <1>2, <1>5, InvParts DEF HandsKnown
<1> QED
  BY <1>1, <1>2, <1>6, EndsInv

LEMMA StepInv ==
  ASSUME TypeInv, Inv, NEW p \in Procs, Step(p)
  PROVE  Inv'
<1>1. Serve(p) /\ HandsKnown'
  BY DEF Step, Stray, HandsKnown
<1>2. CASE Dies(p)
  <2>1. PICK K \in SUBSET Procs : ProcessEnds(p, K)
    BY <1>2 DEF Dies
  <2>2. Running(p) /\ UNCHANGED <<targets, open, lun, iqns, req>>
    BY <1>2 DEF Dies, Running
  <2>3. Hit(p) = {}
    BY <2>2 DEF Hit
  <2>4. paired' = paired /\ crossed' = crossed
    BY <2>3 DEF Step
  <2> QED
    BY <1>1, <2>1, <2>2, <2>4, EndsInv
<1>3. CASE ~Dies(p) /\ Vol(p) \notin crossed
  <2>1. Hit(p) = {}
    BY <1>3 DEF Hit, Vol
  <2>2. Clean(p)
    BY <1>3, <2>1 DEF Clean, Step
  <2> QED
    BY <1>1, <1>3, <2>2, CleanInv
<1>4. CASE ~Dies(p) /\ Vol(p) \in crossed
  BY <1>1, <1>4, CrossedInv
<1> QED
  BY <1>2, <1>3, <1>4

LEMMA InvStep ==
  ASSUME TypeInv, Inv, [Next]_vars
  PROVE  Inv'
<1>1. CASE Rest \/ UNCHANGED vars
  <2>1. /\ UNCHANGED <<targets, open, lun, iqns>>
        /\ UNCHANGED <<pc, req, loc, paired, crossed, strays, calls, faults>>
    BY <1>1 DEF Rest, vars, arrayVars, history
  <2>2. Apart' /\ HandsKnown' /\ Distinct'
    BY <2>1 DEF Inv, Apart, HandsKnown, InHand, Distinct, Vol
  <2>3. \A v \in Volumes : VolOK(v)'
    BY <2>1 DEF Inv, VolOK, Busy
  <2>4. \A p \in Procs : Vol(p)' \notin crossed' => HandlerOK(p)'
    <3> SUFFICES ASSUME NEW p \in Procs, Vol(p)' \notin crossed' PROVE HandlerOK(p)'
      OBVIOUS
    <3>1. Vol(p)' = Vol(p) /\ Node(p)' = Node(p) /\ RowOf(Vol(p))' = RowOf(Vol(p))
      BY <2>1 DEF Vol, Node, RowOf
    <3>2. HandlerOK(p)
      BY <2>1, <3>1 DEF Inv
    <3> QED
      BY <2>1, <3>1, <3>2 DEF HandlerOK
  <2> QED
    BY <2>2, <2>3, <2>4 DEF Inv
<1>2. ASSUME NEW p \in Procs, CallerStep(p) \/ Step(p)
      PROVE  Inv'
  BY <1>2, CallerInv, KillInv, StepInv
<1> QED
  BY <1>1, <1>2 DEF Next, CallerStep

LEMMA Invariants == Spec => [](TypeInv /\ Inv)
<1>1. TypeInv /\ Inv /\ [Next]_vars => TypeInv' /\ Inv'
  BY TypeStep, InvStep
<1> QED
  BY <1>1, InitInv, PTL DEF Spec

(* However attaches and detaches of many volumes overlap on their targets, *)
(* and attaches of one volume by many nodes, and whatever fails in         *)
(* between, no LUN is left unbound, and thus open to every node, once the  *)
(* requests for its volume are answered, unless a detach of the volume     *)
(* overlapped another of its requests (AttachVolume, DetachVolume).        *)
THEOREM NoLunIsLeftOpen == Spec => []NoLunForAll
<1>1. TypeInv /\ Inv => NoLunForAll
  BY DEF Inv, VolOK, NoLunForAll
<1> QED
  BY <1>1, Invariants, PTL
-----------------------------------------------------------------------------
(* Targets are filled or removed, and admit hosts. *)

TargetsOK == \A t \in targets : TargetOK(t)

(* The target keeps whom it had, but for the handler that takes the step. *)
LEMMA KeeperStays ==
  ASSUME NEW p \in Procs, NEW L, NEW t,
         \A q \in Procs : q # p => pc'[q] = pc[q] /\ loc'[q] = loc[q],
         \E q \in Procs : pc[q] \in L /\ loc[q].tgt = t,
         pc[p] \in L /\ loc[p].tgt = t => pc'[p] \in L /\ loc'[p].tgt = t
  PROVE  \E q \in Procs : pc'[q] \in L /\ loc'[q].tgt = t
  OBVIOUS

(* A step that changes neither targets nor LUNs, by a handler that is no   *)
(* keeper, or stays one, or whose target needs none.                       *)
LEMMA CalmTargets ==
  ASSUME TargetsOK, NEW p \in Procs,
         faults' = 0 => \A q \in Procs : q # p => pc'[q] = pc[q] /\ loc'[q] = loc[q],
         UNCHANGED <<targets, open, lun>>, strays \subseteq strays', faults' = 0 => faults = 0,
         faults' = 0 /\ loc[p].tgt \in targets /\ LunsOf(loc[p].tgt) = {} /\ pc[p] \in Keepers =>
           pc'[p] \in Keepers /\ loc'[p].tgt = loc[p].tgt,
         faults' = 0 /\ loc[p].tgt \in targets \ open /\ pc[p] \in {"node", "addhost"} =>
           pc'[p] \in {"node", "addhost"} /\ loc'[p].tgt = loc[p].tgt
  PROVE  TargetsOK'
<1> SUFFICES ASSUME NEW t \in targets, t \notin strays', faults' = 0 PROVE TargetOK(t)'
  BY DEF TargetsOK, TargetOK
<1>1. TargetOK(t) /\ faults = 0 /\ LunsOf(t)' = LunsOf(t) /\ t \notin strays
  BY DEF TargetsOK, LunsOf
<1>2. LunsOf(t) = {} => \E q \in Procs : pc'[q] \in Keepers /\ loc'[q].tgt = t
  BY <1>1, KeeperStays DEF TargetOK
<1>3. t \notin open => \E q \in Procs : pc'[q] \in {"node", "addhost"} /\ loc'[q].tgt = t
  BY <1>1, KeeperStays DEF TargetOK
<1> QED
  BY <1>1, <1>2, <1>3 DEF TargetOK

LEMMA CallerTargets ==
  ASSUME TypeInv, TargetsOK, NEW p \in Procs, CallerStep(p)
  PROVE  TargetsOK'
<1>1. CASE Kill(p)
  <2>1. faults' # 0
    BY <1>1, TargetsAssumption DEF Kill, TypeInv, TypeOK, TargetsAssumption
  <2> QED
    BY <2>1 DEF TargetsOK, TargetOK
<1>2. CASE ~Kill(p)
  <2>1. /\ UNCHANGED <<targets, open, lun, iqns>> /\ loc' = loc
        /\ \A q \in Procs : q # p => pc'[q] = pc[q]
    BY <1>2, CallerFrame
  <2>2. faults' = faults /\ pc[p] \in {"idle", "ok", "err"} /\ strays \subseteq strays'
    BY <1>2 DEF CallerStep, Call, Retry, Done, Begin, Stray, history
  <2>3. pc[p] \notin Keepers
    BY <2>2 DEF Keepers
  <2> QED
    BY <2>1, <2>2, <2>3, CalmTargets DEF Keepers
<1> QED
  BY <1>1, <1>2

(* A process that ends because a target is gone. *)
LEMMA DiesTargets ==
  ASSUME TypeInv, TargetsOK, NEW p \in Procs, Dies(p), strays \subseteq strays'
  PROVE  TargetsOK'
<1>1. PICK K \in SUBSET Procs : ProcessEnds(p, K) /\ (faults' = 0 => K = {p})
  BY DEF Dies
<1>2. /\ Running(p) /\ UNCHANGED <<targets, open, lun>>
      /\ faults' = 0 => faults = 0 /\ (pc[p] = "node" => loc[p].tgt \notin targets)
      /\ pc[p] \in Keepers => pc[p] = "node"
      /\ pc[p] # "addhost"
  BY DEF Dies, Running, Keepers
<1>3. faults' = 0 => \A q \in Procs : q # p => pc'[q] = pc[q] /\ loc'[q] = loc[q]
  BY <1>1, <1>2, EndsFacts
<1> QED
  BY <1>2, <1>3, CalmTargets

(* The searches, and what is done to a LUN that exists, keep no target. *)
LEMMA OtherTargetsStep ==
  ASSUME TypeInv, Inv, TargetsOK, NEW p \in Procs,
         \/ QueryTarget(p) \/ QueryVolumeMapping(p) \/ GetLunMappingIDAgain(p) \/ BindLunIQN(p)
         \/ GetPortal(p) \/ DQueryTarget(p) \/ DQueryVolumeMapping(p) \/ DQueryTargetByName(p)
         \/ UnBindLunIQN(p),
         Effect(p), strays \subseteq strays'
  PROVE  TargetsOK'
<1>1. /\ pc[p] \in {"targets", "luns", "lunidAgain", "bind", "portal", "dtargets", "dluns", "dnode",
                    "unbind"}
      /\ UNCHANGED <<targets, open, lun>>
  BY DEF QueryTarget, QueryVolumeMapping, GetLunMappingIDAgain, BindLunIQN, GetPortal, DQueryTarget,
         DQueryVolumeMapping, DQueryTargetByName, UnBindLunIQN, arrayVars
<1>2. TypeOK
  BY DEF TypeInv
<1>3. \A q \in Procs : q # p => pc'[q] = pc[q] /\ loc'[q] = loc[q]
  BY DEF Effect, Frame
<1>5. faults' = 0 => faults = 0
  <2>1. CASE GetPortal(p) \/ DQueryTargetByName(p)
    <3>1. \E l, x, y : TargetByName(p, y, l, x)
      BY <2>1 DEF GetPortal, DQueryTargetByName
    <3> QED
      BY <3>1, ByNameFacts
  <2>2. CASE ~(GetPortal(p) \/ DQueryTargetByName(p))
    <3>1. \E r : Spend(r)
      BY <2>2 DEF QueryTarget, QueryVolumeMapping, GetLunMappingIDAgain, BindLunIQN, DQueryTarget,
                  DQueryVolumeMapping, UnBindLunIQN, SpendReply
    <3> QED
      BY <1>2, <3>1, SpendFacts
  <2> QED
    BY <2>1, <2>2
<1>6. pc[p] \notin Keepers
  BY <1>1 DEF Keepers
<1> QED
  BY <1>1, <1>3, <1>5, <1>6, CalmTargets DEF Keepers
LEMMA NewTargetTargets ==
  ASSUME TypeInv, Inv, TargetsOK, NEW p \in Procs,
         CreateTarget(p) \/ QueryTargetByName(p) \/ AddHost(p),
         Effect(p), strays \subseteq strays'
  PROVE  TargetsOK'
<1>0. TypeOK /\ crossed \subseteq paired
  BY DEF TypeInv, TypeOK
<1>1. \A q \in Procs : q # p => pc'[q] = pc[q] /\ loc'[q] = loc[q]
  BY DEF Effect, Frame
<1>2. CASE CreateTarget(p)
  <2>1. PICK o \in Outcomes :
          LET applied == o # "unsent" /\ CreateTargetAccepted(loc[p].tgt)
          IN /\ Spend(o)
             /\ targets' = IF applied THEN targets \cup {loc[p].tgt} ELSE targets
             /\ GotoWith(p, IF applied /\ o = "done" THEN "node" ELSE "err", loc[p])
    BY <1>2 DEF CreateTarget, Goto
  <2>2. /\ pc[p] = "mktarget" /\ open' = open /\ lun' = lun
        /\ faults' = 0 => faults = 0 /\ o = "done"
    BY <1>0, <1>2, <2>1, SpendFacts DEF CreateTarget
  <2>3. pc[p] \notin Keepers /\ "node" \in Keepers
    BY <2>2 DEF Keepers
  <2>4. CASE targets' = targets
    BY <1>1, <2>2, <2>3, <2>4, CalmTargets DEF Keepers
  <2>5. CASE targets' # targets
    <3> SUFFICES ASSUME NEW t \in targets', t \notin strays', faults' = 0 PROVE TargetOK(t)'
      BY DEF TargetsOK, TargetOK
    <3>1. targets' = targets \cup {loc[p].tgt} /\ GotoWith(p, "node", loc[p]) /\ faults = 0
      BY <2>1, <2>2, <2>5
    <3>2. pc'[p] = "node" /\ loc'[p] = loc[p]
      BY <1>0, <3>1, GotoFacts
    <3>3. CASE t = loc[p].tgt
      BY <2>3, <3>2, <3>3 DEF TargetOK
    <3>4. CASE t \in targets
      <4>1. TargetOK(t) /\ LunsOf(t)' = LunsOf(t)
        BY <2>2, <3>4 DEF TargetsOK, LunsOf
      <4>2. LunsOf(t) = {} => \E q \in Procs : pc'[q] \in Keepers /\ loc'[q].tgt = t
        BY <1>1, <2>3, <3>1, <3>4, <4>1, KeeperStays DEF TargetOK
      <4>3. t \notin open => \E q \in Procs : pc'[q] \in {"node", "addhost"} /\ loc'[q].tgt = t
        BY <1>1, <2>2, <3>1, <3>4, <4>1, KeeperStays DEF TargetOK
      <4> QED
        BY <2>2, <4>1, <4>2, <4>3 DEF TargetOK
    <3> QED
      BY <3>1, <3>3, <3>4
  <2> QED
    BY <2>4, <2>5
<1>3. CASE QueryTargetByName(p)
  <2>1. TargetByName(p, loc[p].tgt, "addhost", loc[p])
    BY <1>3 DEF QueryTargetByName
  <2>2. /\ pc[p] = "node" /\ UNCHANGED <<targets, open, lun>> /\ (faults' = 0 => faults = 0)
    BY <1>3, <2>1, ByNameFacts DEF QueryTargetByName, arrayVars
  <2>3. faults' = 0 /\ loc[p].tgt \in targets => pc'[p] = "addhost" /\ loc'[p] = loc[p]
    <3>1. faults' = 0 /\ loc[p].tgt \in targets => GotoWith(p, "addhost", loc[p])
      BY <2>1, ByNameFacts
    <3> QED
      BY <1>0, <3>1, GotoFacts
  <2> QED
    BY <1>1, <2>2, <2>3, CalmTargets DEF Keepers
<1>4. CASE AddHost(p)
  <2>1. PICK o \in Outcomes :
          LET applied == o # "unsent" /\ loc[p].tgt \in targets
          IN /\ Spend(o)
             /\ open' = IF applied THEN open \cup {loc[p].tgt} ELSE open
             /\ GotoWith(p, IF applied /\ o = "done" THEN "lunid" ELSE "err", loc[p])
    BY <1>4 DEF AddHost, Goto
  <2>2. /\ pc[p] = "addhost" /\ targets' = targets /\ lun' = lun
        /\ faults' = 0 => faults = 0 /\ o = "done"
    BY <1>0, <1>4, <2>1, SpendFacts DEF AddHost
  <2> SUFFICES ASSUME NEW t \in targets, t \notin strays', faults' = 0 PROVE TargetOK(t)'
    BY <2>2 DEF TargetsOK, TargetOK
  <2>3. TargetOK(t) /\ LunsOf(t)' = LunsOf(t) /\ faults = 0
    BY <2>2 DEF TargetsOK, LunsOf
  <2>4. t = loc[p].tgt => pc'[p] = "lunid" /\ loc'[p] = loc[p] /\ t \in open'
    BY <1>0, <2>1, <2>2, GotoFacts
  <2>5. LunsOf(t) = {} => \E q \in Procs : pc'[q] \in Keepers /\ loc'[q].tgt = t
    BY <1>1, <2>3, <2>4, KeeperStays DEF TargetOK, Keepers
  <2>6. t \notin open' => t \notin open /\ t # loc[p].tgt
    BY <2>1, <2>4
  <2>7. t \notin open' => \E q \in Procs : pc'[q] \in {"node", "addhost"} /\ loc'[q].tgt = t
    BY <1>1, <2>3, <2>6, KeeperStays DEF TargetOK
  <2> QED
    BY <2>3, <2>5, <2>7 DEF TargetOK
<1> QED
  BY <1>2, <1>3, <1>4

LEMMA FillTargets ==
  ASSUME TypeInv, Inv, TargetsOK, NEW p \in Procs, GetLunMappingID(p) \/ CreateVolumeMapping(p),
         Effect(p), strays \subseteq strays', Vol(p) \notin paired
  PROVE  TargetsOK'
<1>0. TypeOK /\ crossed \subseteq paired
  BY DEF TypeInv, TypeOK
<1>1. \A q \in Procs : q # p => pc'[q] = pc[q] /\ loc'[q] = loc[q]
  BY DEF Effect, Frame
<1>2. /\ pc[p] \in {"lunid", "mkmap"} /\ UNCHANGED <<targets, open>>
      /\ Vol(p) \in Volumes /\ lun[Vol(p)] = Unmapped /\ loc[p] \in Locals
  <2>1. pc[p] \in {"lunid", "mkmap"} /\ UNCHANGED <<targets, open>>
    BY DEF GetLunMappingID, CreateVolumeMapping, arrayVars
  <2> QED
    BY <1>0, <2>1, AtWork DEF HandlerOK
<1>3. CASE GetLunMappingID(p)
  <2>1. LunIdOn(req[p].vol, loc[p].tgt) = NoLun
    BY <1>0, <1>2, LunFacts DEF LunIdOn, Vol
  <2>2. PICK x : x = [loc[p] EXCEPT !.id = NoLun]
    OBVIOUS
  <2>3. x.tgt = loc[p].tgt
    BY <1>2, <2>2 DEF Locals
  <2>4. PICK r \in LunReplies(loc[p].tgt) :
          SpendReply(r) /\ GotoWith(p, IF Failed(r) THEN "err" ELSE "mkmap", x)
    BY <1>3, <2>1, <2>2 DEF GetLunMappingID
  <2>5. /\ pc[p] = "lunid" /\ lun' = lun
        /\ faults' = 0 => faults = 0 /\ (loc[p].tgt \in targets => r = "done")
    BY <1>0, <1>3, <2>4, ReplyFacts DEF GetLunMappingID, arrayVars, LunReplies, Replies
  <2>6. faults' = 0 /\ loc[p].tgt \in targets => pc'[p] = "mkmap" /\ loc'[p].tgt = loc[p].tgt
    BY <1>0, <2>3, <2>4, <2>5, GotoFacts DEF Failed
  <2> QED
    BY <1>1, <1>2, <2>5, <2>6, CalmTargets DEF Keepers
<1>4. CASE CreateVolumeMapping(p)
  <2>1. PICK o \in Outcomes :
          LET applied == o # "unsent" /\ CreateMapAccepted(req[p].vol, loc[p].tgt)
          IN /\ Spend(o)
             /\ IF applied
                  THEN \E i \in FreeIds(loc[p].tgt) :
                         lun' = [lun EXCEPT ![req[p].vol] = [tgt |-> loc[p].tgt, id |-> i]]
                  ELSE UNCHANGED lun
    BY <1>4 DEF CreateVolumeMapping
  <2>2. pc[p] = "mkmap" /\ (faults' = 0 => faults = 0 /\ o = "done")
    BY <1>0, <1>4, <2>1, SpendFacts DEF CreateVolumeMapping
  <2> SUFFICES ASSUME NEW t \in targets, t \notin strays', faults' = 0 PROVE TargetOK(t)'
    BY <1>2 DEF TargetsOK, TargetOK
  <2>3. TargetOK(t) /\ faults = 0 /\ t \in Suffixes /\ NoTarget \notin Suffixes
    BY <1>0, <2>2 DEF TargetsOK, TypeOK, Suffixes, NoTarget
  <2>4. LunsOf(t) \subseteq LunsOf(t)'
    <3>1. \A v \in Volumes : lun[v].tgt = t => lun'[v].tgt = t
      <4>1. \A v \in Volumes : v # Vol(p) => lun'[v] = lun[v]
        BY DEF Effect, Frame
      <4>2. lun[Vol(p)].tgt # t
        BY <1>2, <2>3 DEF Unmapped
      <4> QED
        BY <4>1, <4>2
    <3> QED
      BY <3>1 DEF LunsOf
  <2>5. t = loc[p].tgt => LunsOf(t)' # {}
    <3> SUFFICES ASSUME t = loc[p].tgt, LunsOf(t) = {} PROVE LunsOf(t)' # {}
      BY <2>4
    <3>1. FreeIds(t) # {}
      <4>1. 1 \in LunIds
        BY TargetsAssumption DEF TargetsAssumption, LunIds
      <4>2. VolumeAt(t, 1) = {}
        BY DEF VolumeAt, LunsOf
      <4> QED
        BY <4>1, <4>2 DEF FreeIds
    <3>2. CreateMapAccepted(req[p].vol, loc[p].tgt)
      BY <1>2, <3>1 DEF CreateMapAccepted, Vol
    <3>3. PICK i : lun' = [lun EXCEPT ![req[p].vol] = [tgt |-> loc[p].tgt, id |-> i]]
      BY <2>1, <2>2, <3>2
    <3>4. lun'[Vol(p)].tgt = t
      BY <1>0, <1>2, <3>3 DEF TypeOK, Vol
    <3> QED
      BY <1>2, <3>4 DEF LunsOf
  <2>6. LunsOf(t)' = {} => \E q \in Procs : pc'[q] \in Keepers /\ loc'[q].tgt = t
    BY <1>1, <2>3, <2>4, <2>5, KeeperStays DEF TargetOK
  <2>7. t \notin open => \E q \in Procs : pc'[q] \in {"node", "addhost"} /\ loc'[q].tgt = t
    BY <1>1, <2>2, <2>3, KeeperStays DEF TargetOK
  <2> QED
    BY <1>2, <2>6, <2>7 DEF TargetOK
<1> QED
  BY <1>3, <1>4

LEMMA LeaveTargets ==
  ASSUME TypeInv, Inv, TargetsOK, NEW p \in Procs,
         DeleteVolumeMapping(p) \/ QueryLeft(p) \/ DeleteTarget(p),
         Effect(p), strays \subseteq strays', Vol(p) \notin paired
  PROVE  TargetsOK'
<1>0. TypeOK /\ crossed \subseteq paired
  BY DEF TypeInv, TypeOK
<1>1. \A q \in Procs : q # p => pc'[q] = pc[q] /\ loc'[q] = loc[q]
  BY DEF Effect, Frame
<1>2. CASE DeleteVolumeMapping(p)
  <2>1. pc[p] = "unmap" /\ UNCHANGED <<targets, open>>
    BY <1>2 DEF DeleteVolumeMapping
  <2>2. /\ Vol(p) \in Volumes /\ lun[Vol(p)] # Unmapped
        /\ lun[Vol(p)].tgt = loc[p].tgt /\ lun[Vol(p)].id = loc[p].id
    BY <1>0, <2>1, AtWork DEF HandlerOK
  <2>3. VolumeAt(loc[p].tgt, loc[p].id) = {Vol(p)}
    BY <2>2, OwnPlace
  <2>4. PICK o \in Outcomes : Spend(o) /\ GotoWith(p, IF o = "done" THEN "dleft" ELSE "err", loc[p])
    BY <1>2, <2>3 DEF DeleteVolumeMapping, Goto, Outcomes
  <2>5. faults' = 0 => faults = 0 /\ pc'[p] = "dleft" /\ loc'[p] = loc[p]
    BY <1>0, <2>4, SpendFacts, GotoFacts
  <2> SUFFICES ASSUME NEW t \in targets, t \notin strays', faults' = 0 PROVE TargetOK(t)'
    BY <2>1 DEF TargetsOK, TargetOK
  <2>6. TargetOK(t) /\ faults = 0
    BY <2>5 DEF TargetsOK
  <2>7. CASE t = loc[p].tgt
    <3>1. \E q \in Procs : pc'[q] \in Keepers /\ loc'[q].tgt = t
      BY <2>5, <2>7 DEF Keepers
    <3>2. t \notin open => \E q \in Procs : pc'[q] \in {"node", "addhost"} /\ loc'[q].tgt = t
      BY <1>1, <2>1, <2>6, KeeperStays DEF TargetOK
    <3> QED
      BY <2>1, <3>1, <3>2 DEF TargetOK
  <2>8. CASE t # loc[p].tgt
    <3>1. LunsOf(t) \subseteq LunsOf(t)'
      BY <2>2, <2>8 DEF LunsOf, Effect, Frame
    <3>2. LunsOf(t) = {} => \E q \in Procs : pc'[q] \in Keepers /\ loc'[q].tgt = t
      BY <1>1, <2>6, <2>8, KeeperStays DEF TargetOK
    <3>3. t \notin open => \E q \in Procs : pc'[q] \in {"node", "addhost"} /\ loc'[q].tgt = t
      BY <1>1, <2>6, <2>8, KeeperStays DEF TargetOK
    <3>4. LunsOf(t)' = {} => LunsOf(t) = {}
      BY <3>1
    <3> QED
      BY <2>1, <3>2, <3>3, <3>4 DEF TargetOK
  <2> QED
    BY <2>7, <2>8
<1>3. CASE QueryLeft(p)
  <2>1. PICK r \in LunReplies(loc[p].tgt) :
          SpendReply(r) /\ GotoWith(p, IF Failed(r) THEN "ok" ELSE AfterLunRemoved(p), loc[p])
    BY <1>3 DEF QueryLeft, Goto
  <2>2. /\ pc[p] = "dleft" /\ UNCHANGED <<targets, open, lun>>
        /\ faults' = 0 => faults = 0 /\ (loc[p].tgt \in targets => r = "done")
    BY <1>0, <1>3, <2>1, ReplyFacts DEF QueryLeft, arrayVars, LunReplies, Replies
  <2>3. faults' = 0 /\ loc[p].tgt \in targets /\ LunsOf(loc[p].tgt) = {} =>
          pc'[p] = "rmtarget" /\ loc'[p] = loc[p]
    BY <1>0, <2>1, <2>2, GotoFacts DEF Failed, AfterLunRemoved
  <2> QED
    BY <1>1, <2>2, <2>3, CalmTargets DEF Keepers
<1>4. CASE DeleteTarget(p)
  <2>1. PICK o \in Outcomes :
          LET applied == o # "unsent" /\ DeleteTargetAccepted(loc[p].tgt)
          IN /\ Spend(o)
             /\ targets' = IF applied THEN targets \ {loc[p].tgt} ELSE targets
             /\ open' = IF applied THEN open \ {loc[p].tgt} ELSE open
    BY <1>4 DEF DeleteTarget
  <2>2. pc[p] = "rmtarget" /\ lun' = lun /\ (faults' = 0 => faults = 0 /\ o = "done")
    BY <1>0, <1>4, <2>1, SpendFacts DEF DeleteTarget
  <2> SUFFICES ASSUME NEW t \in targets', t \notin strays', faults' = 0 PROVE TargetOK(t)'
    BY DEF TargetsOK, TargetOK
  <2>3. /\ t \in targets /\ TargetOK(t) /\ faults = 0 /\ LunsOf(t)' = LunsOf(t)
        /\ t \notin open' => t \notin open
        /\ t = loc[p].tgt => LunsOf(t) # {}
    BY <2>1, <2>2 DEF TargetsOK, LunsOf, DeleteTargetAccepted
  <2>4. LunsOf(t) = {} => \E q \in Procs : pc'[q] \in Keepers /\ loc'[q].tgt = t
    BY <1>1, <2>3, KeeperStays DEF TargetOK
  <2>5. t \notin open' => \E q \in Procs : pc'[q] \in {"node", "addhost"} /\ loc'[q].tgt = t
    BY <1>1, <2>2, <2>3, KeeperStays DEF TargetOK
  <2> QED
    BY <2>3, <2>4, <2>5 DEF TargetOK
<1> QED
  BY <1>2, <1>3, <1>4

(* The step of a handler whose volume is paired: the target it has in hand *)
(* is a stray, and it touches no other.                                    *)
LEMMA PairedTargets ==
  ASSUME TypeInv, Inv, TargetsOK, NEW p \in Procs, Serve(p), ~Dies(p), Vol(p) \in paired,
         paired \subseteq paired', Stray
  PROVE  TargetsOK'
<1>0. TypeOK /\ targets \subseteq Suffixes /\ NoTarget \notin Suffixes
  BY DEF TypeInv, TypeOK, Suffixes, NoTarget
<1>1. /\ pc[p] # "idle" /\ pc'[p] # "idle" /\ req' = req
      /\ \A q \in Procs : q # p => pc'[q] = pc[q] /\ loc'[q] = loc[q]
  BY OthersStay
<1> SUFFICES ASSUME NEW t \in targets', t \notin strays', faults' = 0 PROVE TargetOK(t)'
  BY DEF TargetsOK, TargetOK
<1>2. faults = 0
  <2>1. CASE QueryTargetByName(p) \/ GetPortal(p) \/ DQueryTargetByName(p)
    <3>1. \E l, x, y : TargetByName(p, y, l, x)
      BY <2>1 DEF QueryTargetByName, GetPortal, DQueryTargetByName
    <3> QED
      BY <3>1, ByNameFacts
  <2>2. CASE ~(QueryTargetByName(p) \/ GetPortal(p) \/ DQueryTargetByName(p))
    <3>1. \E r : Spend(r)
      BY <2>2 DEF Serve, QueryTarget, QueryVolumeMapping, CreateTarget, AddHost, GetLunMappingID,
         CreateVolumeMapping, GetLunMappingIDAgain, BindLunIQN, DQueryTarget, DQueryVolumeMapping,
         UnBindLunIQN, DeleteVolumeMapping, QueryLeft, DeleteTarget, SpendReply
    <3> QED
      BY <1>0, <3>1, SpendFacts
  <2> QED
    BY <2>1, <2>2
<1>3. t \notin strays /\ (loc'[p].tgt = t => FALSE)
  BY <1>1 DEF Stray, InHand, Vol
<1>4. t \in targets
  <2>1. CASE CreateTarget(p)
    <3>1. PICK o \in Outcomes :
            LET applied == o # "unsent" /\ CreateTargetAccepted(loc[p].tgt)
            IN /\ Spend(o)
               /\ targets' = IF applied THEN targets \cup {loc[p].tgt} ELSE targets
               /\ GotoWith(p, IF applied /\ o = "done" THEN "node" ELSE "err", loc[p])
      BY <2>1 DEF CreateTarget, Goto
    <3>2. o = "done"
      BY <1>0, <3>1, SpendFacts
    <3>3. targets' # targets => GotoWith(p, "node", loc[p])
      BY <3>1, <3>2
    <3>4. targets' # targets => loc'[p].tgt = loc[p].tgt
      BY <1>0, <3>3, GotoFacts
    <3> QED
      BY <1>3, <3>1, <3>4
  <2>2. CASE ~CreateTarget(p)
    BY <2>2 DEF Serve, QueryTarget, QueryVolumeMapping, QueryTargetByName, AddHost,
       GetLunMappingID, CreateVolumeMapping, GetLunMappingIDAgain, BindLunIQN, GetPortal,
       DQueryTarget, DQueryVolumeMapping, DQueryTargetByName, UnBindLunIQN, DeleteVolumeMapping,
       QueryLeft, DeleteTarget, arrayVars
  <2> QED
    BY <2>1, <2>2
<1>5. loc[p].tgt # t
  BY <1>1, <1>3, <1>4 DEF Inv, HandsKnown, InHand, Vol
<1>6. LunsOf(t) \subseteq LunsOf(t)'
  <2> SUFFICES ASSUME NEW v \in Volumes, lun[v].tgt = t PROVE lun'[v].tgt = t
    BY DEF LunsOf
  <2>1. lun[v] # Unmapped
    BY <1>0, <1>4, LunFacts
  <2>2. v \notin VolumeAt(loc[p].tgt, loc[p].id)
    BY <1>5 DEF VolumeAt
  <2>3. CASE CreateVolumeMapping(p)
    <3>1. \/ lun' = lun
          \/ lun[req[p].vol] = Unmapped /\ \E y : lun' = [lun EXCEPT ![req[p].vol] = y]
      BY <2>3 DEF CreateVolumeMapping, CreateMapAccepted
    <3> QED
      BY <1>0, <2>1, <3>1 DEF TypeOK
  <2>4. CASE DeleteVolumeMapping(p)
    <3>1. lun' = lun \/ lun' = [w \in Volumes |->
                                  IF w \in VolumeAt(loc[p].tgt, loc[p].id) THEN Unmapped ELSE lun[w]]
      BY <2>4 DEF DeleteVolumeMapping
    <3> QED
      BY <2>2, <3>1
  <2>5. CASE ~(CreateVolumeMapping(p) \/ DeleteVolumeMapping(p))
    <3>1. lun' = lun
      BY <2>5 DEF Serve, QueryTarget, QueryVolumeMapping, CreateTarget, QueryTargetByName, AddHost,
         GetLunMappingID, GetLunMappingIDAgain, BindLunIQN, GetPortal, DQueryTarget,
         DQueryVolumeMapping, DQueryTargetByName, UnBindLunIQN, QueryLeft, DeleteTarget, arrayVars
    <3> QED
      BY <3>1
  <2> QED
    BY <2>3, <2>4, <2>5
<1>7. t \in open => t \in open'
  <2>1. CASE AddHost(p)
    BY <2>1 DEF AddHost
  <2>2. CASE DeleteTarget(p)
    BY <1>5, <2>2 DEF DeleteTarget
  <2>3. CASE ~(AddHost(p) \/ DeleteTarget(p))
    <3>1. open' = open
      BY <2>3 DEF Serve, QueryTarget, QueryVolumeMapping, CreateTarget, QueryTargetByName,
         GetLunMappingID, CreateVolumeMapping, GetLunMappingIDAgain, BindLunIQN, GetPortal,
         DQueryTarget, DQueryVolumeMapping, DQueryTargetByName, UnBindLunIQN, DeleteVolumeMapping,
         QueryLeft, arrayVars
    <3> QED
      BY <3>1
  <2> QED
    BY <2>1, <2>2, <2>3
<1>8. TargetOK(t)
  BY <1>4 DEF TargetsOK
<1>9. LunsOf(t)' = {} => \E q \in Procs : pc'[q] \in Keepers /\ loc'[q].tgt = t
  BY <1>1, <1>2, <1>3, <1>4, <1>5, <1>6, <1>8, KeeperStays DEF TargetOK
<1>10. t \notin open' => \E q \in Procs : pc'[q] \in {"node", "addhost"} /\ loc'[q].tgt = t
  BY <1>1, <1>2, <1>3, <1>4, <1>5, <1>7, <1>8, KeeperStays DEF TargetOK
<1> QED
  BY <1>9, <1>10 DEF TargetOK

LEMMA TargetsStep ==
  ASSUME TypeInv, Inv, TargetsOK, [Next]_vars
  PROVE  TargetsOK'
<1>1. CASE Rest \/ UNCHANGED vars
  BY <1>1 DEF Rest, vars, arrayVars, history, TargetsOK, TargetOK, LunsOf
<1>2. ASSUME NEW p \in Procs, CallerStep(p)
      PROVE  TargetsOK'
  BY <1>2, CallerTargets
<1>3. ASSUME NEW p \in Procs, Step(p)
      PROVE  TargetsOK'
  <2>1. Serve(p) /\ Stray /\ strays \subseteq strays' /\ paired \subseteq paired'
    BY <1>3 DEF Step, Stray
  <2>2. CASE Dies(p)
    BY <2>1, <2>2, DiesTargets
  <2>3. CASE ~Dies(p) /\ Vol(p) \in paired
    BY <2>1, <2>3, PairedTargets
  <2>4. CASE ~Dies(p) /\ Vol(p) \notin paired
    <3>1. Vol(p) \notin crossed
      BY <2>4 DEF TypeInv, TypeOK
    <3>2. Hit(p) = {}
      BY <3>1 DEF Hit, Vol
    <3>3. Clean(p)
      BY <1>3, <3>1, <3>2 DEF Clean, Step
    <3>4. Effect(p)
      BY <2>1, <2>4, <3>3, StepEffect
    <3> QED
      BY <2>1, <2>4, <3>4, OtherTargetsStep, NewTargetTargets, FillTargets, LeaveTargets DEF Serve
  <2> QED
    BY <2>2, <2>3, <2>4
<1> QED
  BY <1>1, <1>2, <1>3 DEF Next, CallerStep

(* As long as nothing fails, handlers at rest leave no target without      *)
(* volumes and none that admits no hosts, for any number of handlers that  *)
(* create, fill, empty and remove targets of the same numbers, but for the *)
(* targets that a handler had in hand whose volume had two requests in     *)
(* flight (GetTargetForVolume, DetachVolume).                              *)
THEOREM TargetsComeAndGo == Spec => []QuiescentTargets
<1>1. TargetsOK => QuiescentTargets
  BY DEF TargetsOK, TargetOK, QuiescentTargets, Keepers
<1>2. Init => TargetsOK
  BY InitInv DEF TargetsOK
<1>3. TypeInv /\ Inv /\ TargetsOK /\ [Next]_vars => TargetsOK'
  BY TargetsStep
<1> QED
  BY <1>1, <1>2, <1>3, Invariants, PTL DEF Spec
-----------------------------------------------------------------------------
(* AS13000Targets implements VolumeAccess. *)

AskedOf ==
  [p \in Procs |->
     IF Promised(p) THEN [op |-> req[p].op, vol |-> req[p].vol, node |-> req[p].node]
     ELSE NoRequest]

State ==
  [p \in Procs |->
     CASE ~Promised(p) -> "idle"
       [] Promised(p) /\ pc[p] = "ok" -> "answered"
       [] Promised(p) /\ Met(p) -> "met"
       [] OTHER -> "pending"]

PromiseStep == [Promise!Next \/ TouchesCrossed]_(Promise!vars)

(* Whatever changes of the promise with a step of one handler is its own. *)
LEMMA PromiseFrame ==
  ASSUME NEW p \in Procs, \A q \in Procs : q # p => pc'[q] = pc[q] /\ req'[q] = req[q]
  PROVE  /\ AskedOf' = [AskedOf EXCEPT ![p] = AskedOf'[p]]
         /\ State' = [State EXCEPT ![p] = State'[p]]
         /\ AskedOf'[p] = AskedOf[p] => AskedOf' = AskedOf
         /\ State'[p] = State[p] => State' = State
<1>1. \A q \in Procs : q # p => AskedOf'[q] = AskedOf[q] /\ State'[q] = State[q]
  BY DEF AskedOf, State, Promised, Met
<1>2. /\ AskedOf = [q \in Procs |-> AskedOf[q]] /\ AskedOf' = [q \in Procs |-> AskedOf'[q]]
      /\ State = [q \in Procs |-> State[q]] /\ State' = [q \in Procs |-> State'[q]]
  BY DEF AskedOf, State
<1>3. ASSUME NEW F, NEW G, F = [q \in Procs |-> F[q]], G = [q \in Procs |-> G[q]],
             \A q \in Procs : q # p => G[q] = F[q]
      PROVE  G = [F EXCEPT ![p] = G[p]] /\ (G[p] = F[p] => G = F)
  BY <1>3
<1>4. /\ AskedOf' = [AskedOf EXCEPT ![p] = AskedOf'[p]]
      /\ AskedOf'[p] = AskedOf[p] => AskedOf' = AskedOf
  BY <1>1, <1>2, <1>3
<1>5. State' = [State EXCEPT ![p] = State'[p]] /\ (State'[p] = State[p] => State' = State)
  BY <1>1, <1>2, <1>3
<1> QED
  BY <1>4, <1>5

LEMMA PromiseState ==
  ASSUME NEW p \in Procs
  PROVE  /\ Promised(p) =>
              /\ AskedOf[p] = [op |-> req[p].op, vol |-> req[p].vol, node |-> req[p].node]
              /\ State[p] = IF pc[p] = "ok" THEN "answered" ELSE IF Met(p) THEN "met" ELSE "pending"
         /\ ~Promised(p) => AskedOf[p] = NoRequest /\ State[p] = "idle"
         /\ Promised(p)' =>
              /\ AskedOf'[p] = [op |-> req'[p].op, vol |-> req'[p].vol, node |-> req'[p].node]
              /\ State'[p] = IF pc'[p] = "ok" THEN "answered"
                             ELSE IF Met(p)' THEN "met" ELSE "pending"
         /\ ~Promised(p)' => AskedOf'[p] = NoRequest /\ State'[p] = "idle"
  BY DEF AskedOf, State, Met

(* A node's access to a volume comes and goes with its initiator. *)
LEMMA AccessFacts ==
  ASSUME NEW v \in Volumes, NEW n \in Nodes,
         \A w \in Volumes : w # v => iqns'[w] = iqns[w]
  PROVE  /\ iqns'[v] = iqns[v] => Access' = Access
         /\ iqns'[v] = iqns[v] \cup {n} => Access' = Access \cup {<<v, n>>}
         /\ iqns'[v] = iqns[v] \ {n} => Access' = Access \ {<<v, n>>}
         /\ <<v, n>> \in Access' <=> n \in iqns'[v]
<1>1. \A w \in Volumes, m \in Nodes : /\ <<w, m>> \in Access <=> m \in iqns[w]
                                      /\ <<w, m>> \in Access' <=> m \in iqns'[w]
  BY DEF Access
<1>2. Access \subseteq Volumes \X Nodes /\ Access' \subseteq Volumes \X Nodes
  BY DEF Access
<1>3. \A w \in Volumes, m \in Nodes : <<w, m>> = <<v, n>> <=> w = v /\ m = n
  OBVIOUS
<1>4. \A x \in Volumes \X Nodes : x[1] \in Volumes /\ x[2] \in Nodes /\ x = <<x[1], x[2]>>
  OBVIOUS
<1>5. ASSUME iqns'[v] = iqns[v] PROVE Access' = Access
  <2>1. \A w \in Volumes, m \in Nodes : <<w, m>> \in Access' <=> <<w, m>> \in Access
    BY <1>1, <1>5
  <2> QED
    BY <1>2, <1>4, <2>1
<1>6. ASSUME iqns'[v] = iqns[v] \cup {n} PROVE Access' = Access \cup {<<v, n>>}
  <2>1. \A w \in Volumes, m \in Nodes :
          <<w, m>> \in Access' <=> <<w, m>> \in Access \cup {<<v, n>>}
    BY <1>1, <1>3, <1>6
  <2>2. Access \cup {<<v, n>>} \subseteq Volumes \X Nodes
    BY <1>2
  <2> QED
    BY <1>2, <1>4, <2>1, <2>2
<1>7. ASSUME iqns'[v] = iqns[v] \ {n} PROVE Access' = Access \ {<<v, n>>}
  <2>1. \A w \in Volumes, m \in Nodes :
          <<w, m>> \in Access' <=> <<w, m>> \in Access \ {<<v, n>>}
    BY <1>1, <1>3, <1>7
  <2> QED
    BY <1>2, <1>4, <2>1
<1> QED
  BY <1>1, <1>5, <1>6, <1>7

LEMMA InitPromise == Init => Promise!Init
<1> SUFFICES ASSUME Init PROVE Promise!Init
  OBVIOUS
<1>1. Access = {}
  BY DEF Init, Access
<1>2. Promise!NoRequest = NoRequest
  BY DEF Promise!NoRequest, NoRequest
<1>3. \A p \in Procs : ~Promised(p)
  BY DEF Init, Promised
<1>4. AskedOf = [p \in Procs |-> Promise!NoRequest] /\ State = [p \in Procs |-> "idle"]
  BY <1>2, <1>3 DEF AskedOf, State
<1> QED
  BY <1>1, <1>4 DEF Promise!Init, AskedOf, State

(* A step of work for a request: the initiator comes or goes as the        *)
(* request asks, and the request is met when it was or is so now.          *)
LEMMA ServeStep ==
  ASSUME NEW p \in Procs, req' = req, req[p] \in Asks, pc[p] \notin {"idle", "ok"},
         pc'[p] # "idle",
         \A q \in Procs : q # p => pc'[q] = pc[q],
         \A w \in Volumes : w # Vol(p) => iqns'[w] = iqns[w],
         Serves(p), MeetsOK(p)
  PROVE  PromiseStep
<1>1. /\ Vol(p) \in Volumes /\ Node(p) \in Nodes /\ req[p].op \in {"attach", "detach"}
      /\ req[p].op = "attach" => req[p].local
  BY AskFacts DEF Vol, Node
<1>2. /\ AskedOf' = [AskedOf EXCEPT ![p] = AskedOf'[p]]
      /\ State' = [State EXCEPT ![p] = State'[p]]
      /\ AskedOf'[p] = AskedOf[p] => AskedOf' = AskedOf
      /\ State'[p] = State[p] => State' = State
  BY PromiseFrame
<1>3. CASE ~req[p].local
  <2>1. ~Promised(p) /\ ~Promised(p)'
    BY <1>3 DEF Promised
  <2>2. AskedOf'[p] = AskedOf[p] /\ State'[p] = State[p]
    BY <2>1, PromiseState
  <2>3. AskedOf' = AskedOf /\ State' = State
    BY <1>2, <2>2
  <2>4. Access' = Access
    BY <1>1, <1>3, AccessFacts DEF Serves
  <2> QED
    BY <2>3, <2>4 DEF PromiseStep, Promise!vars, AskedOf, State
<1>4. CASE req[p].local
  <2>1. Promised(p) /\ Promised(p)'
    BY <1>4 DEF Promised
  <2>2. /\ AskedOf[p] = [op |-> req[p].op, vol |-> Vol(p), node |-> Node(p)]
        /\ AskedOf'[p] = AskedOf[p]
        /\ State[p] = IF Met(p) THEN "met" ELSE "pending"
        /\ State'[p] = IF pc'[p] = "ok" THEN "answered" ELSE IF Met(p)' THEN "met" ELSE "pending"
    BY <2>1, PromiseState DEF Vol, Node
  <2>3. AskedOf' = AskedOf
    BY <1>2, <2>2
  <2>4. Access' \in {Access, Promise!Effect(AskedOf[p])}
    <3>1. \/ Access' = Access
          \/ req[p].op = "attach" /\ Access' = Access \cup {<<Vol(p), Node(p)>>}
          \/ req[p].op = "detach" /\ Access' = Access \ {<<Vol(p), Node(p)>>}
      BY <1>1, AccessFacts DEF Serves
    <3>2. PICK a : a = AskedOf[p]
      OBVIOUS
    <3>3. a.op = req[p].op /\ a.vol = Vol(p) /\ a.node = Node(p)
      BY <2>2, <3>2
    <3>4. Promise!Effect(a) = IF req[p].op = "attach" THEN Access \cup {<<Vol(p), Node(p)>>}
                              ELSE Access \ {<<Vol(p), Node(p)>>}
      BY <3>3 DEF Promise!Effect, Promise!Pair
    <3> QED
      BY <3>1, <3>2, <3>4
  <2>5. /\ State'[p] \in {"pending", "met", "answered"}
        /\ State'[p] # "pending" => pc'[p] \in MetLabels
    BY <2>2 DEF Met, MetLabels
  <2>6. State'[p] # "pending" => State[p] = "met" \/ Promise!Holds(AskedOf[p], Access')
    <3>1. State'[p] # "pending" => Met(p) \/ (req[p].op = "attach" <=> Node(p) \in iqns'[Vol(p)])
      BY <1>4, <2>5 DEF MeetsOK
    <3>2. <<Vol(p), Node(p)>> \in Access' <=> Node(p) \in iqns'[Vol(p)]
      BY <1>1, AccessFacts
    <3> QED
      BY <2>2, <3>1, <3>2 DEF Promise!Holds, Promise!Pair
  <2>7. Promise!Serve(p)
    BY <1>2, <2>2, <2>3, <2>4, <2>5, <2>6 DEF Promise!Serve, State, AskedOf
  <2> QED
    BY <2>7 DEF PromiseStep, Promise!Next
<1> QED
  BY <1>3, <1>4

(* A request arrives, is sent again or is answered. *)
LEMMA CallerPromise ==
  ASSUME TypeInv, Inv, NEW p \in Procs, CallerStep(p), ~Kill(p)
  PROVE  PromiseStep
<1>1. /\ UNCHANGED <<lun, iqns>> /\ TypeOK /\ Access' = Access
      /\ \A q \in Procs : q # p => pc'[q] = pc[q] /\ req'[q] = req[q]
  BY CallerFrame DEF TypeInv, Access
<1>2. /\ AskedOf' = [AskedOf EXCEPT ![p] = AskedOf'[p]]
      /\ State' = [State EXCEPT ![p] = State'[p]]
      /\ AskedOf'[p] = AskedOf[p] => AskedOf' = AskedOf
      /\ State'[p] = State[p] => State' = State
  BY <1>1, PromiseFrame
<1>3. CASE Call(p)
  <2>1. PICK r \in Asks : pc[p] = "idle" /\ Begin(p, r)
    BY <1>3 DEF Call
  <2>2. req'[p] = r /\ pc'[p] \in {"targets", "dtargets"}
    <3>1. PICK l \in {"targets", "dtargets"} : GotoWith(p, l, loc[p])
      BY <2>1 DEF Begin, Goto
    <3> QED
      BY <1>1, <2>1, <3>1, GotoFacts DEF Begin, TypeOK
  <2>3. ~Promised(p) /\ (Promised(p)' <=> r.local)
    BY <2>1, <2>2 DEF Promised
  <2>4. CASE ~r.local
    <3>1. AskedOf' = AskedOf /\ State' = State
      BY <1>2, <2>3, <2>4, PromiseState
    <3> QED
      BY <1>1, <3>1 DEF PromiseStep, Promise!vars, AskedOf, State
  <2>5. CASE r.local
    <3>1. PICK a : a = [op |-> r.op, vol |-> r.vol, node |-> r.node]
      OBVIOUS
    <3>2. a \in Promise!Request
      BY <3>1, AskFacts DEF Promise!Request
    <3>3. AskedOf'[p] = a /\ State[p] = "idle" /\ State'[p] = "pending"
      BY <2>2, <2>3, <2>5, <3>1, PromiseState DEF Met
    <3>4. Promise!Ask(p, a)
      BY <1>1, <1>2, <3>3 DEF Promise!Ask, State, AskedOf
    <3> QED
      BY <3>2, <3>4 DEF PromiseStep, Promise!Next
  <2> QED
    BY <2>4, <2>5
<1>4. CASE Done(p)
  <2>1. pc[p] = "ok" /\ pc'[p] = "idle"
    <3>1. GotoWith(p, "idle", loc[p]) /\ pc[p] = "ok"
      BY <1>4 DEF Done, Goto
    <3> QED
      BY <1>1, <3>1, GotoFacts
  <2>2. ~Promised(p)' /\ Promise!NoRequest = NoRequest
    BY <2>1 DEF Promised, Promise!NoRequest, NoRequest
  <2>3. CASE Promised(p)
    <3>1. State[p] = "answered" /\ AskedOf'[p] = Promise!NoRequest /\ State'[p] = "idle"
      BY <2>1, <2>2, <2>3, PromiseState
    <3>2. Promise!Forget(p)
      BY <1>1, <1>2, <3>1 DEF Promise!Forget, State, AskedOf
    <3> QED
      BY <3>2 DEF PromiseStep, Promise!Next
  <2>4. CASE ~Promised(p)
    <3>1. AskedOf' = AskedOf /\ State' = State
      BY <1>2, <2>2, <2>4, PromiseState
    <3> QED
      BY <1>1, <3>1 DEF PromiseStep, Promise!vars, AskedOf, State
  <2> QED
    BY <2>3, <2>4
<1>5. CASE Retry(p)
  <2>1. /\ pc[p] \notin {"idle", "ok"} /\ pc'[p] \in {"targets", "dtargets"} /\ req' = req
    <3>1. PICK l \in {"targets", "dtargets"} : GotoWith(p, l, loc[p])
      BY <1>5 DEF Retry, Begin, Goto
    <3> QED
      BY <1>1, <1>5, <3>1, GotoFacts DEF Retry, Begin, TypeOK
  <2>2. Serves(p) /\ MeetsOK(p) /\ req[p] \in Asks
    BY <1>1, <2>1, AtWork DEF Serves, MeetsOK, MetLabels
  <2> QED
    BY <1>1, <2>1, <2>2, ServeStep
<1> QED
  BY <1>3, <1>4, <1>5 DEF CallerStep

(* A process ends: its requests start again. *)
LEMMA EndsPromise ==
  ASSUME TypeInv, NEW p \in Procs, NEW K \in SUBSET Procs, ProcessEnds(p, K), Running(p),
         UNCHANGED <<iqns, req>>
  PROVE  PromiseStep
<1>1. /\ \A q \in K : Running(q) /\ pc'[q] = "err"
      /\ \A q \in Procs \ K : pc'[q] = pc[q]
  BY EndsFacts
<1> DEFINE Q == {q \in K : req[q].local}
<1>2. Access' = Access
  BY DEF Access
<1>3. \A q \in Procs : Promised(q)' <=> Promised(q)
  BY <1>1 DEF Promised, Running
<1>4. AskedOf' = AskedOf
  BY <1>3 DEF AskedOf
<1>5. \A q \in Q : State[q] \in {"pending", "met"} /\ State'[q] = "pending"
  <2> SUFFICES ASSUME NEW q \in Q PROVE State[q] \in {"pending", "met"} /\ State'[q] = "pending"
    OBVIOUS
  <2>1. Promised(q) /\ Promised(q)' /\ pc[q] # "ok" /\ pc'[q] = "err"
    BY <1>1, <1>3 DEF Promised, Running
  <2> QED
    BY <2>1, PromiseState DEF Met
<1>6. \A q \in Procs \ Q : State'[q] = State[q]
  <2> SUFFICES ASSUME NEW q \in Procs \ Q PROVE State'[q] = State[q]
    OBVIOUS
  <2>1. CASE q \in K
    <3>1. ~Promised(q) /\ ~Promised(q)'
      BY <1>3, <2>1 DEF Promised
    <3> QED
      BY <3>1, PromiseState
  <2>2. CASE q \notin K
    BY <1>1, <1>3, <2>2, PromiseState DEF Met
  <2> QED
    BY <2>1, <2>2
<1>7. State' = [q \in Procs |-> IF q \in Q THEN "pending" ELSE State[q]]
  <2>1. State' = [q \in Procs |-> State'[q]]
    BY DEF State
  <2> QED
    BY <1>5, <1>6, <2>1
<1>8. Q \in SUBSET Procs
  OBVIOUS
<1> HIDE DEF Q
<1>9. \E S \in SUBSET Procs : Promise!Restart(S)
  BY <1>2, <1>4, <1>5, <1>7, <1>8 DEF Promise!Restart, AskedOf, State
<1>10. Promise!Next
  BY <1>9 DEF Promise!Next
<1> QED
  BY <1>10 DEF PromiseStep

(* The step of a handler whose volume is crossed. *)
LEMMA CrossedPromise ==
  ASSUME TypeInv, Inv, NEW p \in Procs, Step(p), ~Dies(p), Vol(p) \in crossed
  PROVE  PromiseStep
<1>1. /\ pc[p] # "idle" /\ pc'[p] # "idle" /\ req' = req
      /\ \A q \in Procs : q # p => pc'[q] = pc[q]
  BY OthersStay DEF Step
<1>2. /\ Vol(p) \in crossed' /\ TypeOK
      /\ \A v \in Volumes : iqns'[v] # iqns[v] => v \in crossed'
  BY DEF Step, Hit, Vol, TypeInv
<1>3. CASE pc'[p] # pc[p] \/ \E v \in Volumes : iqns'[v] # iqns[v]
  BY <1>1, <1>2, <1>3 DEF PromiseStep, TouchesCrossed, Concerns, Vol
<1>4. CASE pc'[p] = pc[p] /\ \A v \in Volumes : iqns'[v] = iqns[v]
  <2>1. Access' = Access
    BY <1>4 DEF Access
  <2>2. \A q \in Procs : pc'[q] = pc[q]
    BY <1>1, <1>4
  <2>3. AskedOf' = AskedOf /\ State' = State
    BY <1>1, <2>2 DEF AskedOf, State, Promised, Met
  <2> QED
    BY <2>1, <2>3 DEF PromiseStep, Promise!vars, AskedOf, State
<1> QED
  BY <1>3, <1>4

(* Attaching and detaching implement VolumeAccess for any number of nodes, *)
(* volumes and handlers, whatever fails and however targets and LUNs are   *)
(* shared and their numbers given again, except for steps about volumes    *)
(* crossed by then: those a detach of which overlapped another request,    *)
(* and those whose LUN was taken for one of them (AttachVolume,            *)
(* DetachVolume).                                                          *)
THEOREM TargetsPromiseIsKept == Spec => TargetsKeepPromise
<1>1. TypeInv /\ Inv /\ [Next]_vars => [Promise!Next \/ TouchesCrossed]_(Promise!vars)
  <2> SUFFICES ASSUME TypeInv, Inv, [Next]_vars PROVE PromiseStep
    BY DEF PromiseStep
  <2>1. CASE Rest \/ UNCHANGED vars
    BY <2>1 DEF Rest, vars, arrayVars, PromiseStep, Promise!vars, Access, Promised, Met
  <2>2. ASSUME NEW p \in Procs, CallerStep(p)
        PROVE  PromiseStep
    <3>1. CASE Kill(p)
      BY <3>1, EndsPromise DEF Kill, arrayVars
    <3> QED
      BY <2>2, <3>1, CallerPromise
  <2>3. ASSUME NEW p \in Procs, Step(p)
        PROVE  PromiseStep
    <3>1. Serve(p) /\ pc[p] \notin {"idle", "ok"}
      BY <2>3, Moves DEF Step, Running
    <3>2. CASE Dies(p)
      BY <3>2, EndsPromise DEF Dies, Running
    <3>3. CASE ~Dies(p) /\ Vol(p) \in crossed
      BY <2>3, <3>3, CrossedPromise
    <3>4. CASE ~Dies(p) /\ Vol(p) \notin crossed
      <4>1. Hit(p) = {}
        BY <3>4 DEF Hit, Vol
      <4>2. Clean(p)
        BY <2>3, <3>4, <4>1 DEF Clean, Step
      <4>3. Effect(p) /\ req[p] \in Asks
        BY <3>1, <3>4, <4>2, StepEffect, AtWork
      <4> QED
        BY <3>1, <4>3, ServeStep DEF Effect, Frame
    <3> QED
      BY <3>2, <3>3, <3>4
  <2> QED
    BY <2>1, <2>2, <2>3 DEF Next, CallerStep
<1> QED
  BY <1>1, InitPromise, Invariants, PTL DEF Spec, TargetsKeepPromise

-----------------------------------------------------------------------------
(* Attempts end.  The requests of an attempt come in stages; the one for   *)
(* the LUNs of a target is repeated, once for each target listed before.   *)
Stage(l) ==
  CASE l = "targets" -> 10
    [] l = "luns" -> 9
    [] l = "mktarget" -> 8
    [] l \in {"node", "dtargets"} -> 7
    [] l \in {"addhost", "dluns"} -> 6
    [] l \in {"lunid", "dnode"} -> 5
    [] l \in {"mkmap", "unbind"} -> 4
    [] l \in {"lunidAgain", "unmap"} -> 3
    [] l \in {"bind", "dleft"} -> 2
    [] l \in {"portal", "rmtarget"} -> 1
    [] l \in {"idle", "ok", "err"} -> 0

(* A later stage, or the same with fewer targets to look at. *)
Nearer(p) ==
  \/ Stage(pc'[p]) < Stage(pc[p])
  \/ /\ pc'[p] = pc[p] /\ pc[p] \in {"luns", "dluns"}
     /\ loc'[p].left \subseteq loc[p].left /\ loc'[p].left # loc[p].left

(* Every request of an attempt brings its answer nearer, and no step of    *)
(* another handler puts it off or adds a target to its list.               *)
Shrinks ==
  [][\A p \in Procs :
       /\ Step(p) => Nearer(p)
       /\ ~Step(p) /\ Running(p) /\ Running(p)' => UNCHANGED <<pc[p], loc[p]>>]_vars

(* The lists are finite. *)
FiniteInv == IsFiniteSet(targets) /\ \A p \in Procs : IsFiniteSet(loc[p].left)

(* The table, row by row. *)
LEMMA StageRows ==
  ASSUME NEW l
  PROVE  /\ l = "targets" => Stage(l) = 10
         /\ l = "luns" => Stage(l) = 9
         /\ l = "mktarget" => Stage(l) = 8
         /\ l \in {"node", "dtargets"} => Stage(l) = 7
         /\ l \in {"addhost", "dluns"} => Stage(l) = 6
         /\ l \in {"lunid", "dnode"} => Stage(l) = 5
         /\ l \in {"mkmap", "unbind"} => Stage(l) = 4
         /\ l \in {"lunidAgain", "unmap"} => Stage(l) = 3
         /\ l \in {"bind", "dleft"} => Stage(l) = 2
         /\ l \in {"portal", "rmtarget"} => Stage(l) = 1
         /\ l \in {"idle", "ok", "err"} => Stage(l) = 0
  BY DEF Stage

(* Where a step of a handler goes. *)
LEMMA Going ==
  ASSUME TypeInv, NEW p \in Procs, NEW l, NEW x, GotoWith(p, l, x)
  PROVE  /\ pc'[p] = l /\ loc'[p] = IF l \in {"ok", "err"} THEN Blank ELSE x
         /\ \A q \in Procs : q # p => pc'[q] = pc[q] /\ loc'[q] = loc[q]
  BY DEF GotoWith, TypeInv, TypeOK

(* The searches through the targets. *)
LEMMA SearchNearer ==
  ASSUME TypeInv, NEW p \in Procs, QueryVolumeMapping(p) \/ DQueryVolumeMapping(p)
  PROVE  Nearer(p)
<1>0. loc[p] \in Locals
  BY DEF TypeInv, TypeOK
<1>1. CASE QueryVolumeMapping(p)
  <2>1. pc[p] = "luns"
    BY <1>1 DEF QueryVolumeMapping
  <2>2. \/ \E l \in {"err", "portal", "bind", "mktarget", "lunid"} : \E x : GotoWith(p, l, x)
        \/ \E t \in loc[p].left : \E b :
             GotoWith(p, "luns", [loc[p] EXCEPT !.best = b, !.left = @ \ {t}])
    BY <1>1 DEF QueryVolumeMapping, Goto, Choose, Choice
  <2>3. CASE \E l \in {"err", "portal", "bind", "mktarget", "lunid"} : \E x : GotoWith(p, l, x)
    BY <2>1, <2>3, Going, StageRows DEF Nearer
  <2>4. ASSUME NEW t \in loc[p].left, NEW b,
               GotoWith(p, "luns", [loc[p] EXCEPT !.best = b, !.left = @ \ {t}])
        PROVE  Nearer(p)
    <3>1. PICK x : x = [loc[p] EXCEPT !.best = b, !.left = @ \ {t}]
      OBVIOUS
    <3>2. x.left = loc[p].left \ {t}
      BY <1>0, <3>1 DEF Locals
    <3>3. GotoWith(p, "luns", x)
      BY <2>4, <3>1
    <3> QED
      BY <2>1, <3>2, <3>3, Going DEF Nearer
  <2> QED
    BY <2>2, <2>3, <2>4
<1>2. CASE DQueryVolumeMapping(p)
  <2>1. pc[p] = "dluns"
    BY <1>2 DEF DQueryVolumeMapping
  <2>2. \/ \E l \in {"err", "ok", "dnode"} : \E x : GotoWith(p, l, x)
        \/ \E t \in loc[p].left : \E f :
             GotoWith(p, "dluns", [loc[p] EXCEPT !.rows = f, !.left = @ \ {t}])
    <3>1. PICK t \in loc[p].left, failed \in BOOLEAN, over \in BOOLEAN : \E f :
            GotoWith(p, IF failed THEN "err" ELSE IF over THEN AfterSearch(f) ELSE "dluns",
                     [loc[p] EXCEPT !.rows = f, !.left = IF over THEN {} ELSE @ \ {t}])
      BY <1>2 DEF DQueryVolumeMapping, Failed
    <3>2. \A f : AfterSearch(f) \in {"err", "ok", "dnode"}
      BY DEF AfterSearch
    <3> QED
      BY <3>1, <3>2
  <2>3. CASE \E l \in {"err", "ok", "dnode"} : \E x : GotoWith(p, l, x)
    BY <2>1, <2>3, Going, StageRows DEF Nearer
  <2>4. ASSUME NEW t \in loc[p].left, NEW f,
               GotoWith(p, "dluns", [loc[p] EXCEPT !.rows = f, !.left = @ \ {t}])
        PROVE  Nearer(p)
    <3>1. PICK x : x = [loc[p] EXCEPT !.rows = f, !.left = @ \ {t}]
      OBVIOUS
    <3>2. x.left = loc[p].left \ {t}
      BY <1>0, <3>1 DEF Locals
    <3>3. GotoWith(p, "dluns", x)
      BY <2>4, <3>1
    <3> QED
      BY <2>1, <3>2, <3>3, Going DEF Nearer
  <2> QED
    BY <2>2, <2>3, <2>4
<1> QED
  BY <1>1, <1>2

LEMMA StepNearer ==
  ASSUME TypeInv, NEW p \in Procs, Serve(p)
  PROVE  Nearer(p)
<1>1. ASSUME NEW l, NEW x, GotoWith(p, l, x), Stage(l) < Stage(pc[p])
      PROVE  Nearer(p)
  BY <1>1, Going DEF Nearer
<1>0. ASSUME NEW K \in SUBSET Procs, ProcessEnds(p, K), Running(p), 0 < Stage(pc[p])
      PROVE  Nearer(p)
  <2>1. pc'[p] = "err"
    BY <1>0, EndsFacts
  <2> QED
    BY <1>0, <2>1, StageRows DEF Nearer
<1> USE DEF Goto
<1>2. CASE QueryTarget(p)
  BY <1>1, <1>2, StageRows DEF QueryTarget, Choose, Choice
<1>3. CASE CreateTarget(p)
  BY <1>1, <1>3, StageRows DEF CreateTarget
<1>4. CASE QueryTargetByName(p)
  BY <1>0, <1>1, <1>4, ByNameFacts, StageRows DEF QueryTargetByName, Running
<1>5. CASE AddHost(p)
  BY <1>1, <1>5, StageRows DEF AddHost
<1>6. CASE GetLunMappingID(p)
  BY <1>1, <1>6, StageRows DEF GetLunMappingID
<1>7. CASE CreateVolumeMapping(p)
  BY <1>1, <1>7, StageRows DEF CreateVolumeMapping
<1>8. CASE GetLunMappingIDAgain(p)
  BY <1>1, <1>8, StageRows DEF GetLunMappingIDAgain
<1>9. CASE BindLunIQN(p)
  BY <1>1, <1>9, StageRows DEF BindLunIQN
<1>10. CASE GetPortal(p)
  BY <1>0, <1>1, <1>10, ByNameFacts, StageRows DEF GetPortal, Running
<1>11. CASE DQueryTarget(p)
  BY <1>1, <1>11, StageRows DEF DQueryTarget
<1>12. CASE DQueryTargetByName(p)
  <2>1. \E t, x, l : l \in {"unbind", "unmap", "ok"} /\ TargetByName(p, t, l, x)
    BY <1>12 DEF DQueryTargetByName
  <2>2. PICK t, x, l : l \in {"unbind", "unmap", "ok"} /\ TargetByName(p, t, l, x)
    BY <2>1
  <2> QED
    BY <1>0, <1>1, <1>12, <2>2, ByNameFacts, StageRows DEF DQueryTargetByName, Running
<1>13. CASE UnBindLunIQN(p)
  BY <1>1, <1>13, StageRows DEF UnBindLunIQN
<1>14. CASE DeleteVolumeMapping(p)
  BY <1>1, <1>14, StageRows DEF DeleteVolumeMapping
<1>15. CASE QueryLeft(p)
  BY <1>1, <1>15, StageRows DEF QueryLeft, AfterLunRemoved
<1>16. CASE DeleteTarget(p)
  BY <1>1, <1>16, StageRows DEF DeleteTarget
<1> QED
  BY <1>2, <1>3, <1>4, <1>5, <1>6, <1>7, <1>8, <1>9, <1>10, <1>11, <1>12, <1>13, <1>14, <1>15,
     <1>16, SearchNearer DEF Serve
(* What a list of targets that is set may be: empty, what the array        *)
(* answers, or the list before with one target less.                       *)
ListOK(p, left) ==
  left \in {{}, loc[p].left, targets} \/ \E t : left = loc[p].left \ {t}

LEMMA LocalLists ==
  ASSUME TypeInv, NEW p \in Procs, NEW i, NEW j, NEW x
  PROVE  /\ x = loc[p] => ListOK(p, x.left)
         /\ x = [loc[p] EXCEPT !.id = i] => ListOK(p, x.left)
         /\ x = [loc[p] EXCEPT !.tgt = j, !.id = i] => ListOK(p, x.left)
         /\ x = [loc[p] EXCEPT !.best = j, !.left = @ \ {i}] => ListOK(p, x.left)
         /\ x = [loc[p] EXCEPT !.rows = j, !.left = @ \ {i}] => ListOK(p, x.left)
         /\ x = [loc[p] EXCEPT !.rows = j, !.left = {}] => ListOK(p, x.left)
<1>1. loc[p] \in Locals
  BY DEF TypeInv, TypeOK
<1> QED
  BY <1>1 DEF Locals, ListOK

LEMMA BlankLists ==
  ASSUME NEW p \in Procs, NEW i, NEW j, NEW x
  PROVE  /\ x = Blank => ListOK(p, x.left)
         /\ x = [Blank EXCEPT !.tgt = j] => ListOK(p, x.left)
         /\ x = [Blank EXCEPT !.tgt = j, !.id = i] => ListOK(p, x.left)
         /\ x = [Blank EXCEPT !.left = targets] => ListOK(p, x.left)
         /\ x = [Blank EXCEPT !.listed = i, !.left = targets] => ListOK(p, x.left)
<1>1. \A y : y = [Blank EXCEPT !.left = targets] => y.left = targets
  BY DEF Blank
<1>2. x = [Blank EXCEPT !.listed = i, !.left = targets] => x.left = targets
  BY DEF Blank
<1>3. x = Blank => x.left = {}
  BY DEF Blank
<1>4. x = [Blank EXCEPT !.tgt = j] => x.left = {}
  BY DEF Blank
<1>5. x = [Blank EXCEPT !.tgt = j, !.id = i] => x.left = {}
  BY DEF Blank
<1> QED
  BY <1>1, <1>2, <1>3, <1>4, <1>5 DEF ListOK

(* Every step of a handler sets such a list, and its own only. *)
LEMMA LeftLists ==
  ASSUME TypeInv, NEW p \in Procs, CallerStep(p) \/ Step(p), NEW q \in Procs
  PROVE  ListOK(q, loc'[q].left)
<1>1. ASSUME NEW l, NEW x, GotoWith(p, l, x), ListOK(p, x.left)
      PROVE  ListOK(q, loc'[q].left)
  <2>1. ListOK(p, Blank.left)
    BY BlankLists
  <2>2. ListOK(q, loc[q].left)
    BY DEF ListOK
  <2> QED
    BY <1>1, <2>1, <2>2, Going
<1>0. ASSUME NEW K \in SUBSET Procs, ProcessEnds(p, K)
      PROVE  ListOK(q, loc'[q].left)
  <2>1. loc'[q] = Blank \/ loc'[q] = loc[q]
    BY <1>0 DEF ProcessEnds
  <2>2. ListOK(q, Blank.left)
    BY BlankLists
  <2> QED
    BY <2>1, <2>2 DEF ListOK
<1>2. CASE CallerStep(p)
  <2>1. CASE Kill(p)
    BY <1>0, <2>1 DEF Kill
  <2>2. CASE ~Kill(p)
    BY <1>2, <2>2, CallerFrame DEF ListOK
  <2> QED
    BY <2>1, <2>2
<1>3. CASE CreateTarget(p) \/ AddHost(p) \/ CreateVolumeMapping(p)
           \/ BindLunIQN(p) \/ UnBindLunIQN(p) \/ DeleteVolumeMapping(p)
           \/ QueryLeft(p) \/ DeleteTarget(p)
  <2>1. \E l : GotoWith(p, l, loc[p])
    BY <1>3 DEF CreateTarget, AddHost, CreateVolumeMapping, BindLunIQN,
          UnBindLunIQN, DeleteVolumeMapping, QueryLeft, DeleteTarget, Goto
  <2> QED
    BY <1>1, <2>1, LocalLists
<1>11. CASE QueryTargetByName(p) \/ GetPortal(p)
  <2>1. PICK l : TargetByName(p, loc[p].tgt, l, loc[p])
    BY <1>11 DEF QueryTargetByName, GetPortal
  <2>2. (\E m : GotoWith(p, m, loc[p])) \/ \E K \in SUBSET Procs : ProcessEnds(p, K)
    BY <2>1, ByNameFacts
  <2> QED
    BY <1>0, <1>1, <2>2, LocalLists
<1>4. CASE GetLunMappingID(p) \/ GetLunMappingIDAgain(p)
  <2>1. PICK l, i : GotoWith(p, l, [loc[p] EXCEPT !.id = i])
    BY <1>4 DEF GetLunMappingID, GetLunMappingIDAgain
  <2>2. PICK x : x = [loc[p] EXCEPT !.id = i]
    OBVIOUS
  <2> QED
    BY <1>1, <2>1, <2>2, LocalLists
<1>5. CASE DQueryTargetByName(p)
  <2>1. PICK t, l, i, j : TargetByName(p, t, l, [loc[p] EXCEPT !.tgt = j, !.id = i])
    BY <1>5 DEF DQueryTargetByName
  <2>2. PICK x : x = [loc[p] EXCEPT !.tgt = j, !.id = i]
    OBVIOUS
  <2>3. \/ GotoWith(p, l, x) \/ GotoWith(p, "err", loc[p])
        \/ \E K \in SUBSET Procs : ProcessEnds(p, K)
    BY <2>1, <2>2, ByNameFacts
  <2> QED
    BY <1>0, <1>1, <2>2, <2>3, LocalLists
<1>6. ASSUME NEW l, NEW j, GotoWith(p, l, [Blank EXCEPT !.tgt = j])
      PROVE  ListOK(q, loc'[q].left)
  <2>1. PICK x : x = [Blank EXCEPT !.tgt = j]
    OBVIOUS
  <2> QED
    BY <1>1, <1>6, <2>1, BlankLists
<1>7. CASE QueryTarget(p)
  <2>1. \/ \E l : GotoWith(p, l, loc[p])
        \/ \E l, j : GotoWith(p, l, [Blank EXCEPT !.tgt = j])
        \/ \E l : GotoWith(p, l, [Blank EXCEPT !.listed = targets, !.left = targets])
    BY <1>7 DEF QueryTarget, Goto, Choose
  <2>2. CASE \E l : GotoWith(p, l, loc[p])
    BY <1>1, <2>2, LocalLists
  <2>3. ASSUME NEW l, GotoWith(p, l, [Blank EXCEPT !.listed = targets, !.left = targets])
        PROVE  ListOK(q, loc'[q].left)
    <3>1. PICK x : x = [Blank EXCEPT !.listed = targets, !.left = targets]
      OBVIOUS
    <3> QED
      BY <1>1, <2>3, <3>1, BlankLists
  <2> QED
    BY <1>6, <2>1, <2>2, <2>3
<1>8. CASE DQueryTarget(p)
  <2>1. PICK l : GotoWith(p, l, [Blank EXCEPT !.left = targets])
    BY <1>8 DEF DQueryTarget
  <2>2. PICK x : x = [Blank EXCEPT !.left = targets]
    OBVIOUS
  <2> QED
    BY <1>1, <2>1, <2>2, BlankLists
<1>9. CASE QueryVolumeMapping(p)
  <2>1. \/ \E l : GotoWith(p, l, loc[p])
        \/ \E l, i, j : GotoWith(p, l, [Blank EXCEPT !.tgt = j, !.id = i])
        \/ \E l, j : GotoWith(p, l, [Blank EXCEPT !.tgt = j])
        \/ \E l, t, b : GotoWith(p, l, [loc[p] EXCEPT !.best = b, !.left = @ \ {t}])
    BY <1>9 DEF QueryVolumeMapping, Goto, Choose
  <2>2. CASE \E l : GotoWith(p, l, loc[p])
    BY <1>1, <2>2, LocalLists
  <2>3. ASSUME NEW l, NEW i, NEW j, GotoWith(p, l, [Blank EXCEPT !.tgt = j, !.id = i])
        PROVE  ListOK(q, loc'[q].left)
    <3>1. PICK x : x = [Blank EXCEPT !.tgt = j, !.id = i]
      OBVIOUS
    <3> QED
      BY <1>1, <2>3, <3>1, BlankLists
  <2>4. ASSUME NEW l, NEW t, NEW b, GotoWith(p, l, [loc[p] EXCEPT !.best = b, !.left = @ \ {t}])
        PROVE  ListOK(q, loc'[q].left)
    <3>1. PICK x : x = [loc[p] EXCEPT !.best = b, !.left = @ \ {t}]
      OBVIOUS
    <3> QED
      BY <1>1, <2>4, <3>1, LocalLists
  <2> QED
    BY <1>6, <2>1, <2>2, <2>3, <2>4
<1>10. CASE DQueryVolumeMapping(p)
  <2>1. \/ \E l, b : GotoWith(p, l, [loc[p] EXCEPT !.rows = b, !.left = {}])
        \/ \E l, t, b : GotoWith(p, l, [loc[p] EXCEPT !.rows = b, !.left = @ \ {t}])
    BY <1>10 DEF DQueryVolumeMapping
  <2>2. ASSUME NEW l, NEW b, GotoWith(p, l, [loc[p] EXCEPT !.rows = b, !.left = {}])
        PROVE  ListOK(q, loc'[q].left)
    <3>1. PICK x : x = [loc[p] EXCEPT !.rows = b, !.left = {}]
      OBVIOUS
    <3> QED
      BY <1>1, <2>2, <3>1, LocalLists
  <2>3. ASSUME NEW l, NEW t, NEW b, GotoWith(p, l, [loc[p] EXCEPT !.rows = b, !.left = @ \ {t}])
        PROVE  ListOK(q, loc'[q].left)
    <3>1. PICK x : x = [loc[p] EXCEPT !.rows = b, !.left = @ \ {t}]
      OBVIOUS
    <3> QED
      BY <1>1, <2>3, <3>1, LocalLists
  <2> QED
    BY <2>1, <2>2, <2>3
<1> QED
  BY <1>2, <1>3, <1>4, <1>5, <1>7, <1>8, <1>9, <1>10, <1>11 DEF Step, Serve

LEMMA FiniteStep ==
  ASSUME TypeInv, FiniteInv, NEW p \in Procs, CallerStep(p) \/ Step(p)
  PROVE  FiniteInv'
<1>1. IsFiniteSet(targets')
  <2>1. targets' = targets \/ (\E t : targets' = targets \cup {t}) \/ (\E t : targets' = targets \ {t})
    BY DEF CallerStep, Call, Retry, Done, Kill, Begin, Step, Serve, arrayVars, QueryTarget,
       QueryVolumeMapping, CreateTarget, QueryTargetByName, AddHost, GetLunMappingID,
       CreateVolumeMapping, GetLunMappingIDAgain, BindLunIQN, GetPortal, DQueryTarget,
       DQueryVolumeMapping, DQueryTargetByName, UnBindLunIQN, DeleteVolumeMapping, QueryLeft,
       DeleteTarget
  <2> QED
    BY <2>1, FS_AddElement, FS_RemoveElement DEF FiniteInv
<1>2. ASSUME NEW q \in Procs PROVE IsFiniteSet(loc'[q].left)
  <2>1. IsFiniteSet(loc[q].left) /\ IsFiniteSet(targets) /\ IsFiniteSet({})
    BY FS_EmptySet DEF FiniteInv
  <2>2. \A t : IsFiniteSet(loc[q].left \ {t})
    BY <2>1, FS_RemoveElement
  <2> QED
    BY <2>1, <2>2, LeftLists DEF ListOK
<1> QED
  BY <1>1, <1>2 DEF FiniteInv

(* Neither AttachVolume nor DetachVolume loops for ever: whatever targets  *)
(* other handlers create and delete, every request of an attempt is one    *)
(* nearer to its answer, and the list of targets it goes through is finite *)
(* and never grows.  (That it takes its steps is fairness, and that a      *)
(* request is answered in the end is TargetRequestsSucceed, a run's.)      *)
THEOREM AttemptsEnd == Spec => []FiniteInv /\ Shrinks
<1>1. Init => FiniteInv
  <2> SUFFICES ASSUME Init PROVE FiniteInv
    OBVIOUS
  <2>1. targets = {} /\ \A p \in Procs : loc[p].left = {}
    BY DEF Init, Blank
  <2> QED
    BY <2>1, FS_EmptySet DEF FiniteInv
<1>2. TypeInv /\ FiniteInv /\ [Next]_vars => FiniteInv'
  BY FiniteStep DEF Next, Rest, CallerStep, vars, arrayVars, FiniteInv
<1>3. TypeInv /\ [Next]_vars =>
        [\A p \in Procs :
           /\ Step(p) => Nearer(p)
           /\ ~Step(p) /\ Running(p) /\ Running(p)' => UNCHANGED <<pc[p], loc[p]>>]_vars
  <2> SUFFICES ASSUME TypeInv, Next, NEW p \in Procs
               PROVE  /\ Step(p) => Nearer(p)
                      /\ ~Step(p) /\ Running(p) /\ Running(p)' => UNCHANGED <<pc[p], loc[p]>>
    OBVIOUS
  <2>1. Step(p) => Nearer(p)
    BY StepNearer DEF Step
  <2>2. ASSUME ~Step(p), Running(p), Running(p)' PROVE UNCHANGED <<pc[p], loc[p]>>
    <3>0. ASSUME NEW q \in Procs, NEW K \in SUBSET Procs, ProcessEnds(q, K), Running(q)
          PROVE  UNCHANGED <<pc[p], loc[p]>>
      BY <2>2, <3>0, EndsFacts DEF Running
    <3>1. ASSUME NEW q \in Procs, q # p, Step(q)
          PROVE  UNCHANGED <<pc[p], loc[p]>>
      <4>1. CASE Dies(q)
        BY <3>0, <4>1 DEF Dies, Running
      <4>2. CASE ~Dies(q)
        BY <3>1, <4>2, OthersStay DEF Step
      <4> QED
        BY <4>1, <4>2
    <3>2. ASSUME NEW q \in Procs, CallerStep(q)
          PROVE  UNCHANGED <<pc[p], loc[p]>>
      <4>1. CASE Kill(q)
        BY <3>0, <4>1 DEF Kill
      <4>2. CASE ~Kill(q)
        <5>1. ~Running(q)
          BY <3>2, <4>2 DEF CallerStep, Call, Retry, Done, Running
        <5> QED
          BY <2>2, <3>2, <4>2, <5>1, CallerFrame
      <4> QED
        BY <4>1, <4>2
    <3>3. CASE UNCHANGED vars
      BY <3>3 DEF vars
    <3> QED
      BY <2>2, <3>1, <3>2, <3>3 DEF Next, Rest, CallerStep
  <2> QED
    BY <2>1, <2>2
<1>4. Spec => []TypeInv
  <2>1. TypeInv /\ [Next]_vars => TypeInv'
    BY TypeStep
  <2> QED
    BY <2>1, InitInv, PTL DEF Spec
<1> QED
  BY <1>1, <1>2, <1>3, <1>4, PTL DEF Spec, Shrinks
=============================================================================
