---------------------------- MODULE SshExecutor -----------------------------
(***************************************************************************)
(* Executor of pkg/ssh/ssh.go, which runs the commands of InStorageAttach, *)
(* InStorageVolumes and InStorageExtend.  All handlers of a plugin share   *)
(* one Executor and its SSH client: each tests it for nil, dials, stores   *)
(* it, uses it and forgets it in steps of its own, with nothing locked.    *)
(* A client forgotten by one handler after another tested it is a nil      *)
(* pointer when that other one uses it: the plugin panics, its calls are   *)
(* lost and it is started again.                                           *)
(*                                                                         *)
(* A connection is the epoch in which it was dialled: when connections     *)
(* drop, all that are open do, and an epoch ends.                          *)
(***************************************************************************)
EXTENDS Naturals, FiniteSets

CONSTANTS
  Procs,       \* handlers of the plugin
  MaxCalls,    \* bound: commands callers ask for, retries not counted
  MaxFaults    \* bound: drops, dials, sessions and answers that fail

VARIABLES
  client,    \* exe.client: the epoch of its connection, 0 for nil
  epoch,     \* the present epoch
  open,      \* connections the plugin has open
  resets,    \* history: how often exe.client was reset since connections last went
  chance,    \* the round of getSession's loop each handler is in
  conn,      \* the connection each handler uses
  pc, ran, since, calls, faults

ownVars == <<client, epoch, open, resets, chance, conn>>
vars == <<ownVars, pc, ran, since, calls, faults>>

Answers == {"idle", "done", "failed", "crashed"}
Labels == Answers \cup {"check", "dial", "store", "session", "reset", "run"}

(* Mutant: getSession tries only twice. *)
TwoChances == 2

Chances == 3

TypeOK ==
  /\ client \in 0..epoch
  /\ epoch \in 1..MaxFaults + 1
  /\ open \in Nat /\ resets \in Nat
  /\ chance \in [Procs -> 1..3]
  /\ conn \in [Procs -> 0..epoch]
  /\ pc \in [Procs -> Labels]

OwnInit ==
  /\ client = 0
  /\ epoch = 1
  /\ open = 0 /\ resets = 0
  /\ chance = [p \in Procs |-> 1]
  /\ conn = [p \in Procs |-> 0]

Init ==
  /\ OwnInit
  /\ pc = [p \in Procs |-> "idle"]
  /\ ran = [p \in Procs |-> 0]
  /\ since = [p \in Procs |-> 0]
  /\ calls = 0
  /\ faults = 0

Goto(p, label) == pc' = [pc EXCEPT ![p] = label]
Fault == faults < MaxFaults /\ faults' = faults + 1

-----------------------------------------------------------------------------
Begin(p) ==
  /\ Goto(p, "check")
  /\ chance' = [chance EXCEPT ![p] = 1]
  /\ ran' = [ran EXCEPT ![p] = 0]
  /\ since' = [since EXCEPT ![p] = faults]
  /\ UNCHANGED <<client, epoch, open, resets, conn, faults>>

Call(p) == pc[p] = "idle" /\ calls < MaxCalls /\ calls' = calls + 1 /\ Begin(p)
Retry(p) == pc[p] \in {"failed", "crashed"} /\ UNCHANGED calls /\ Begin(p)

Return(p) ==
  /\ pc[p] = "done"
  /\ Goto(p, "idle")
  /\ ran' = [ran EXCEPT ![p] = 0]
  /\ UNCHANGED <<ownVars, since, calls, faults>>

(* The array's node restarts, or the network fails: connections are gone.  *)
Drop ==
  /\ Fault
  /\ epoch' = epoch + 1
  /\ open' = 0 /\ resets' = 0
  /\ UNCHANGED <<client, chance, conn, pc, ran, since, calls>>

-----------------------------------------------------------------------------
(* getSession *)

(* Mutant: every session gets a connection of its own. *)
DialAlways == "dial"

AfterCheck == IF client = 0 THEN "dial" ELSE "session"

CheckClient(p) ==
  /\ pc[p] = "check"
  /\ Goto(p, AfterCheck)
  /\ UNCHANGED <<ownVars, ran, since, calls, faults>>

(* Mutant: a round too many. *)
OneMoreChance(p) ==
  /\ Goto(p, IF chance[p] <= Chances THEN "check" ELSE "failed")
  /\ chance' = [chance EXCEPT ![p] = IF @ <= Chances THEN @ + 1 ELSE @]

NextChance(p) ==
  /\ Goto(p, IF chance[p] < Chances THEN "check" ELSE "failed")
  /\ chance' = [chance EXCEPT ![p] = IF @ < Chances THEN @ + 1 ELSE @]

Dial(p) ==
  /\ pc[p] = "dial"
  /\ \/ /\ Goto(p, "store")
        /\ conn' = [conn EXCEPT ![p] = epoch]
        /\ open' = open + 1
        /\ UNCHANGED <<chance, faults>>
     \/ Fault /\ NextChance(p) /\ UNCHANGED <<conn, open>>
  /\ UNCHANGED <<client, epoch, resets, ran, since, calls>>

StoreClient(p) ==
  /\ pc[p] = "store"
  /\ client' = conn[p]
  /\ Goto(p, "session")
  /\ UNCHANGED <<epoch, open, resets, chance, conn, ran, since, calls, faults>>

(* Whatever client is stored by now is used.  The array may refuse a       *)
(* session on a connection that is up.                                     *)
NewSession(p) ==
  /\ pc[p] = "session" /\ client # 0
  /\ conn' = [conn EXCEPT ![p] = client]
  /\ \/ client = epoch /\ Goto(p, "run") /\ UNCHANGED faults
     \/ client = epoch /\ Fault /\ Goto(p, "reset")
     \/ client # epoch /\ Goto(p, "reset") /\ UNCHANGED faults
  /\ UNCHANGED <<client, epoch, open, resets, chance, ran, since, calls>>

Panic(p) ==
  /\ pc[p] = "session" /\ client = 0
  /\ pc' = [q \in Procs |-> IF pc[q] \in Answers THEN pc[q] ELSE "crashed"]
  /\ open' = 0 /\ resets' = 0
  /\ UNCHANGED <<client, epoch, chance, conn, ran, since, calls, faults>>

(* The connection is not closed; the client may be another by now. *)
ForgetClient == 0

ResetClient(p) ==
  /\ pc[p] = "reset"
  /\ client' = ForgetClient
  /\ resets' = resets + 1
  /\ NextChance(p)
  /\ UNCHANGED <<epoch, open, conn, ran, since, calls, faults>>

-----------------------------------------------------------------------------
(* The rest of Execute: session.Run. *)

(* Mutant: a command whose answer is lost is run once more. *)
RunAgain(p) == "run"

AfterLost(p) == "failed"

RunCommand(p) ==
  /\ pc[p] = "run"
  /\ \/ /\ conn[p] = epoch
        /\ ran' = [ran EXCEPT ![p] = @ + 1]
        /\ \/ Goto(p, "done") /\ UNCHANGED faults
           \/ Fault /\ Goto(p, AfterLost(p))
     \/ conn[p] # epoch /\ Goto(p, "failed") /\ UNCHANGED <<ran, faults>>
  /\ UNCHANGED <<ownVars, since, calls>>

-----------------------------------------------------------------------------
Step(p) ==
  \/ CheckClient(p) \/ Dial(p) \/ StoreClient(p) \/ NewSession(p)
  \/ Panic(p) \/ ResetClient(p) \/ RunCommand(p)

Next == Drop \/ \E p \in Procs : Call(p) \/ Retry(p) \/ Return(p) \/ Step(p)

=============================================================================
