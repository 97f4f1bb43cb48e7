----------------------------- MODULE Transport ------------------------------
(***************************************************************************)
(* How the storage drivers reach their arrays.  NewController looks at the *)
(* type of the storage once: commands for an InStorage (AS18000) go        *)
(* through the SSH executor, requests for an AS13000 through the REST      *)
(* client.  Both are shared by all handlers of the plugin and both are     *)
(* checked against RemoteCall.                                             *)
(***************************************************************************)
EXTENDS Naturals, FiniteSets

CONSTANTS Procs, MaxCalls, MaxFaults

ASSUME TransportAssumption ==
  IsFiniteSet(Procs) /\ MaxCalls \in Nat /\ MaxFaults \in Nat

VARIABLES
  strType,                                     \* cfg.Storage[0].StrType
  client, epoch, open, resets, chance, conn,   \* the SSH executor
  system, device, valid, token, again,         \* the REST client
  pc, ran, since,                              \* of each handler: where it is, how often its
                                               \* command ran, faults before its call
  calls, faults

sshVars == <<client, epoch, open, resets, chance, conn>>
restVars == <<system, device, valid, token, again>>
vars == <<strType, sshVars, restVars, pc, ran, since, calls, faults>>

Ssh == INSTANCE SshExecutor
Rest == INSTANCE RestClient

TypeOK ==
  /\ strType \in {"AS18000", "AS13000"}
  /\ IF strType = "AS18000" THEN Ssh!TypeOK ELSE Rest!TypeOK
  /\ ran \in [Procs -> 0..1]
  /\ since \in [Procs -> 0..MaxFaults]
  /\ calls \in 0..MaxCalls
  /\ faults \in 0..MaxFaults

(* NewController *)
Init ==
  /\ strType \in {"AS18000", "AS13000"}
  /\ Ssh!Init
  /\ Rest!OwnInit

SshNext == strType = "AS18000" /\ Ssh!Next /\ UNCHANGED <<strType, restVars>>
RestNext == strType = "AS13000" /\ Rest!Next /\ UNCHANGED <<strType, sshVars>>

(* Everything asked for is served. *)
Rests ==
  /\ calls = MaxCalls
  /\ \A p \in Procs : pc[p] = "idle"
  /\ UNCHANGED vars

Next == SshNext \/ RestNext \/ Rests

SshStep(p) ==
  /\ strType = "AS18000"
  /\ Ssh!Step(p) \/ Ssh!Retry(p) \/ Ssh!Return(p)
  /\ UNCHANGED <<strType, restVars>>

RestStep(p) ==
  /\ strType = "AS13000"
  /\ Rest!Step(p) \/ Rest!Retry(p) \/ Rest!Return(p)
  /\ UNCHANGED <<strType, sshVars>>

(* A handler runs on, and a caller whose call failed asks again. *)
Fairness == \A p \in Procs : WF_vars(SshStep(p)) /\ WF_vars(RestStep(p))

Spec == Init /\ [][Next]_vars /\ Fairness

-----------------------------------------------------------------------------
Failed == {"failed", "crashed", "expired"}

Calls == INSTANCE RemoteCall WITH
  phase <- [p \in Procs |->
              CASE pc[p] \in {"idle", "done"} -> pc[p]
                [] pc[p] \in Failed -> "failed"
                [] OTHER -> "asked"]

(* Whatever is dropped, lost, expired or refused on the way, and whoever   *)
(* else uses the client meanwhile, a call runs its command at most once,   *)
(* and is done only if it ran: Execute does not run a command again whose  *)
(* answer is lost, and a request is only sent again when the array did not *)
(* run it (Execute, request).                                              *)
AtMostOnce == Calls!Spec

(* With at most two handlers a command that was not run failed for a fault *)
(* during its own call: of the three chances of getSession one may be lost *)
(* to a connection that was dead before, and one to another handler that   *)
(* stores such a connection late.  A request is given up as expired only   *)
(* for an expiry or a failed login during the call, whatever the number of *)
(* handlers: however their renewals of the two tokens interleave, one that *)
(* finds them expired at the start gets through (getSession, request).     *)
FaultsExplainFailure ==
  \A p \in Procs :
    IF strType = "AS18000"
    THEN Cardinality(Procs) <= 2 /\ pc[p] = "failed" /\ ran[p] = 0 => faults > since[p]
    ELSE pc[p] = "expired" => faults > since[p]

(* Connections that are replaced are not closed, and handlers that find no *)
(* client at the same time dial one each; yet the plugin has at most one   *)
(* connection open for each handler, and as many again for each time a     *)
(* handler reset the client, which none does before a fault (getSession).  *)
ConnectionsBounded ==
  /\ open <= Cardinality(Procs) * (1 + resets)
  /\ faults = 0 => resets = 0

(* Once faults end, every call is done after finitely many retries: no     *)
(* dead client, no empty token and no panic stays (Execute, request).      *)
CallsServed == \A p \in Procs : pc[p] # "idle" ~> pc[p] = "done"
=============================================================================
