----------------------------- MODULE RestClient -----------------------------
(***************************************************************************)
(* RestApiClient of pkg/restApi/restApi.go, which carries the requests of  *)
(* AS13000Targets and AS13000Volumes.  All handlers of a plugin share one  *)
(* client and its two tokens: a request is sent with both, and when the    *)
(* array answers that either has expired the handler logs in anew, one     *)
(* token after the other and with nothing locked, and sends the request    *)
(* once more.  Whatever it is answered then is returned.                   *)
(*                                                                         *)
(* The array is outside the repository.  A token is the epoch in which it  *)
(* was issued, 0 when the login was refused and answered none; it is good  *)
(* until tokens of its kind expire, also after another login.              *)
(***************************************************************************)
EXTENDS Naturals

CONSTANTS
  Procs,       \* handlers of the plugin
  MaxCalls,    \* bound: requests callers make, retries not counted
  MaxFaults    \* bound: expiries, refusals, requests and answers that are lost

VARIABLES
  system,    \* SystemLoginInfo.tokenSystem
  device,    \* DeviceLoginInfo.tokenDevice
  valid,     \* [sys, dev]: the epoch whose tokens the array accepts
  token,     \* [sys, dev]: the tokens of each handler's request
  again,     \* whether it is the second time it is sent
  pc, ran, since, calls, faults

ownVars == <<system, device, valid, token, again>>
vars == <<ownVars, pc, ran, since, calls, faults>>

Labels == {"idle", "send", "serve", "login", "device", "done", "failed", "expired"}

TypeOK ==
  /\ system \in 0..valid.sys
  /\ device \in 0..valid.dev
  /\ valid \in [sys : 1..MaxFaults + 1, dev : 1..MaxFaults + 1]
  /\ token \in [Procs -> [sys : 0..valid.sys, dev : 0..valid.dev]]
  /\ again \in [Procs -> BOOLEAN]
  /\ pc \in [Procs -> Labels]

(* NewRestApiClient logs in. *)
OwnInit ==
  /\ system = 1
  /\ device = 1
  /\ valid = [sys |-> 1, dev |-> 1]
  /\ token = [p \in Procs |-> [sys |-> 0, dev |-> 0]]
  /\ again = [p \in Procs |-> FALSE]

Init ==
  /\ OwnInit
  /\ pc = [p \in Procs |-> "idle"]
  /\ ran = [p \in Procs |-> 0]
  /\ since = [p \in Procs |-> 0]
  /\ calls = 0
  /\ faults = 0

Goto(p, label) == pc' = [pc EXCEPT ![p] = label]
Fault == faults < MaxFaults /\ faults' = faults + 1

-----------------------------------------------------------------------------
Begin(p) ==
  /\ Goto(p, "send")
  /\ again' = [again EXCEPT ![p] = FALSE]
  /\ ran' = [ran EXCEPT ![p] = 0]
  /\ since' = [since EXCEPT ![p] = faults]
  /\ UNCHANGED <<system, device, valid, token, faults>>

Call(p) == pc[p] = "idle" /\ calls < MaxCalls /\ calls' = calls + 1 /\ Begin(p)
Retry(p) == pc[p] \in {"failed", "expired"} /\ UNCHANGED calls /\ Begin(p)

Return(p) ==
  /\ pc[p] = "done"
  /\ Goto(p, "idle")
  /\ ran' = [ran EXCEPT ![p] = 0]
  /\ UNCHANGED <<ownVars, since, calls, faults>>

(* The array's tokens of one kind expire. *)
Expire ==
  /\ Fault
  /\ \E k \in {"sys", "dev"} : valid' = [valid EXCEPT ![k] = @ + 1]
  /\ UNCHANGED <<system, device, token, again, pc, ran, since, calls>>

-----------------------------------------------------------------------------
(* requestImpl, and getImpl to deleteImpl, which do the same: the request  *)
(* is made with the tokens of this moment.                                 *)
Send(p) ==
  /\ pc[p] = "send"
  /\ token' = [token EXCEPT ![p] = [sys |-> system, dev |-> device]]
  /\ Goto(p, "serve")
  /\ UNCHANGED <<system, device, valid, again, ran, since, calls, faults>>

Accepted(p) == token[p] = valid

(* checkExpired *)
Expired(p) == ~Accepted(p)

(* Mutant: a request is sent again for any other answer, too. *)
AgainForLost(p) == "login"

AfterLost(p) == "failed"

(* The array runs the request, or does not, and request, or Get to Delete, *)
(* reads the answer: done; failed, which a refusal is by its code; or      *)
(* expired, after which it logs in unless it was here before.              *)
Serve(p) ==
  /\ pc[p] = "serve"
  /\ \/ /\ Accepted(p)
        /\ ran' = [ran EXCEPT ![p] = @ + 1]
        /\ \/ Goto(p, "done") /\ UNCHANGED faults
           \/ Fault /\ Goto(p, AfterLost(p))
     \/ Fault /\ Goto(p, "failed") /\ UNCHANGED ran
     \/ /\ Expired(p)
        /\ Goto(p, IF again[p] THEN "expired" ELSE "login")
        /\ UNCHANGED <<ran, faults>>
  /\ UNCHANGED <<ownVars, since, calls>>

-----------------------------------------------------------------------------
(* init *)

(* A login that fails leaves the token as it is, and the request is given  *)
(* up with the answer it had; one the array refuses with HTTP status 200   *)
(* sets it to "", and the handler goes on.                                 *)
LoginFails(p) == Fault /\ Goto(p, "expired") /\ UNCHANGED <<system, device, again>>

InitSystemToken(p) ==
  /\ pc[p] = "login"
  /\ \/ system' = valid.sys /\ Goto(p, "device") /\ UNCHANGED <<device, again, faults>>
     \/ Fault /\ system' = 0 /\ Goto(p, "device") /\ UNCHANGED <<device, again>>
     \/ LoginFails(p)
  /\ UNCHANGED <<valid, token, ran, since, calls>>

(* Mutant: the device token is not renewed with the system token. *)
DeviceTokenKept == device

(* The login for the device uses the system token of this moment. *)
NewDeviceToken == IF system = valid.sys THEN valid.dev ELSE 0

InitDeviceToken(p) ==
  /\ pc[p] = "device"
  /\ \/ /\ device' = NewDeviceToken
        /\ again' = [again EXCEPT ![p] = TRUE]
        /\ Goto(p, "send")
        /\ UNCHANGED <<system, faults>>
     \/ LoginFails(p)
  /\ UNCHANGED <<valid, token, ran, since, calls>>

-----------------------------------------------------------------------------
Step(p) == Send(p) \/ Serve(p) \/ InitSystemToken(p) \/ InitDeviceToken(p)

Next == Expire \/ \E p \in Procs : Call(p) \/ Retry(p) \/ Return(p) \/ Step(p)

=============================================================================
