----------------------------- MODULE RemoteCall -----------------------------
(***************************************************************************)
(* What a storage driver expects of a call to its array: Execute of        *)
(* IExecutor (pkg/ssh/ssh.go), Get, Post, Put and Delete of HttpMethod     *)
(* (pkg/restApi/restApi.go).  A call runs its command on the array at most *)
(* once, and says that it is done only if it ran.  A call that fails may   *)
(* have run or not.                                                        *)
(***************************************************************************)
EXTENDS Naturals

CONSTANTS Procs

VARIABLES
  phase,   \* [Procs -> "idle", "asked", "done" or "failed"]
  ran      \* [Procs -> Nat]: how often the array ran the call's command

vars == <<phase, ran>>

Init ==
  /\ phase = [p \in Procs |-> "idle"]
  /\ ran = [p \in Procs |-> 0]

(* A caller asks, for the first time or after a failure. *)
Ask(p) ==
  /\ phase[p] \in {"idle", "failed"}
  /\ phase' = [phase EXCEPT ![p] = "asked"]
  /\ ran' = [ran EXCEPT ![p] = 0]

Run(p) ==
  /\ phase[p] = "asked" /\ ran[p] = 0
  /\ ran' = [ran EXCEPT ![p] = 1]
  /\ UNCHANGED phase

(* The command runs, or ran, and the call is done. *)
Answer(p) ==
  /\ phase[p] = "asked"
  /\ ran' = [ran EXCEPT ![p] = 1]
  /\ phase' = [phase EXCEPT ![p] = "done"]

Return(p) ==
  /\ phase[p] = "done"
  /\ phase' = [phase EXCEPT ![p] = "idle"]
  /\ ran' = [ran EXCEPT ![p] = 0]

(* Calls fail, one or, when the plugin dies, several together; the command *)
(* of each may have run.                                                   *)
Fail(Q) ==
  /\ Q # {} /\ \A p \in Q : phase[p] = "asked"
  /\ phase' = [p \in Procs |-> IF p \in Q THEN "failed" ELSE phase[p]]
  /\ \E R \in SUBSET Q :
       ran' = [p \in Procs |-> IF p \in R THEN 1 ELSE ran[p]]

Next ==
  \/ \E p \in Procs : Ask(p) \/ Run(p) \/ Answer(p) \/ Return(p)
  \/ \E Q \in SUBSET Procs : Fail(Q)

Spec == Init /\ [][Next]_vars
=============================================================================
