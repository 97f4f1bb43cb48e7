-------------------------- MODULE Transport_proofs --------------------------
(***************************************************************************)
(* Theorems about Transport, and with it about SshExecutor and RestClient, *)
(* for every number of handlers, calls and faults.                         *)
(***************************************************************************)
EXTENDS Transport, FiniteSetTheorems, TLAPS

Waiting(p) == pc[p] \notin {"idle", "done"} \cup Failed

(* A call runs its command on its last step only. *)
RanInv ==
  \A p \in Procs : /\ pc[p] = "idle" \/ Waiting(p) => ran[p] = 0
                   /\ pc[p] = "done" => ran[p] = 1

(* Every epoch after the first began with a fault. *)
EpochInv ==
  /\ strType = "AS18000" => epoch <= faults + 1
  /\ strType = "AS13000" => valid.sys <= faults + 1 /\ valid.dev <= faults + 1
  /\ \A p \in Procs : since[p] <= faults

TypeInv == TypeOK /\ EpochInv /\ RanInv

LEMMA InitType == Init => TypeInv
<1> SUFFICES ASSUME Init PROVE TypeInv
  OBVIOUS
<1> USE TransportAssumption DEF TransportAssumption
<1>1. CASE strType = "AS18000"
  BY <1>1 DEF Init, Ssh!Init, Ssh!OwnInit, Rest!OwnInit, TypeInv, TypeOK, Ssh!TypeOK, EpochInv, RanInv,
       Waiting, Ssh!Labels, Ssh!Answers, Failed
<1>2. CASE strType = "AS13000"
  BY <1>2 DEF Init, Ssh!Init, Ssh!OwnInit, Rest!OwnInit, TypeInv, TypeOK, Rest!TypeOK, EpochInv, RanInv,
       Waiting, Rest!Labels, Failed
<1> QED
  BY <1>1, <1>2 DEF Init

(* The steps of the SSH executor keep types and counts. *)
LEMMA SshStepType ==
  ASSUME TypeInv, SshNext
  PROVE  TypeInv'
<1> USE TransportAssumption DEF TransportAssumption
<1>0. /\ strType = "AS18000" /\ strType' = strType
      /\ Ssh!TypeOK /\ EpochInv /\ RanInv /\ Ssh!Next
      /\ ran \in [Procs -> 0..1] /\ since \in [Procs -> 0..MaxFaults]
      /\ calls \in 0..MaxCalls /\ faults \in 0..MaxFaults
  BY DEF TypeInv, TypeOK, SshNext
<1> DEFINE Goal == /\ Ssh!TypeOK' /\ EpochInv' /\ RanInv'
                   /\ ran' \in [Procs -> 0..1] /\ since' \in [Procs -> 0..MaxFaults]
                   /\ calls' \in 0..MaxCalls /\ faults' \in 0..MaxFaults
<1> SUFFICES Goal
  BY <1>0 DEF TypeInv, TypeOK
<1> USE <1>0 DEF Ssh!TypeOK, EpochInv, RanInv, Waiting, Failed, Ssh!Labels, Ssh!Answers,
                 Ssh!Goto, Ssh!Fault, Ssh!ownVars, Ssh!Chances
<1>1. CASE Ssh!Drop
  BY <1>1 DEF Ssh!Drop
<1>2. ASSUME NEW p \in Procs, Ssh!Call(p) \/ Ssh!Retry(p)
      PROVE  Goal
  BY <1>2 DEF Ssh!Call, Ssh!Retry, Ssh!Begin
<1>3. ASSUME NEW p \in Procs, Ssh!Return(p) \/ Ssh!CheckClient(p)
      PROVE  Goal
  BY <1>3 DEF Ssh!Return, Ssh!CheckClient, Ssh!AfterCheck
<1>4. ASSUME NEW p \in Procs, Ssh!Dial(p)
      PROVE  Goal
  BY <1>4 DEF Ssh!Dial, Ssh!NextChance
<1>5. ASSUME NEW p \in Procs, Ssh!StoreClient(p) \/ Ssh!NewSession(p)
      PROVE  Goal
  BY <1>5 DEF Ssh!StoreClient, Ssh!NewSession
<1>6. ASSUME NEW p \in Procs, Ssh!Panic(p)
      PROVE  Goal
  BY <1>6 DEF Ssh!Panic
<1>7. ASSUME NEW p \in Procs, Ssh!ResetClient(p)
      PROVE  Goal
  BY <1>7 DEF Ssh!ResetClient, Ssh!NextChance, Ssh!ForgetClient
<1>8. ASSUME NEW p \in Procs, Ssh!RunCommand(p)
      PROVE  Goal
  BY <1>8 DEF Ssh!RunCommand, Ssh!AfterLost
<1> HIDE DEF Goal
<1> QED
  BY <1>0, <1>1, <1>2, <1>3, <1>4, <1>5, <1>6, <1>7, <1>8 DEF Ssh!Next, Ssh!Step

(* The steps of the REST client do, too. *)
LEMMA RestStepType ==
  ASSUME TypeInv, RestNext
  PROVE  TypeInv'
<1> USE TransportAssumption DEF TransportAssumption
<1>0. /\ strType = "AS13000" /\ strType' = strType
      /\ Rest!TypeOK /\ EpochInv /\ RanInv /\ Rest!Next
      /\ ran \in [Procs -> 0..1] /\ since \in [Procs -> 0..MaxFaults]
      /\ calls \in 0..MaxCalls /\ faults \in 0..MaxFaults
  BY DEF TypeInv, TypeOK, RestNext
<1> DEFINE Goal == /\ Rest!TypeOK' /\ EpochInv' /\ RanInv'
                   /\ ran' \in [Procs -> 0..1] /\ since' \in [Procs -> 0..MaxFaults]
                   /\ calls' \in 0..MaxCalls /\ faults' \in 0..MaxFaults
<1> SUFFICES Goal
  BY <1>0 DEF TypeInv, TypeOK
<1> USE <1>0 DEF Rest!TypeOK, EpochInv, RanInv, Waiting, Failed, Rest!Labels,
                 Rest!Goto, Rest!Fault, Rest!ownVars
<1>1. CASE Rest!Expire
  BY <1>1 DEF Rest!Expire
<1>2. ASSUME NEW p \in Procs, Rest!Call(p) \/ Rest!Retry(p)
      PROVE  Goal
  <2>1. again' \in [Procs -> BOOLEAN]
    BY <1>2, Zenon DEF Rest!Call, Rest!Retry, Rest!Begin
  <2>2. /\ ran' = [ran EXCEPT ![p] = 0] /\ since' = [since EXCEPT ![p] = faults]
        /\ pc' = [pc EXCEPT ![p] = "send"] /\ calls' \in 0..MaxCalls
        /\ UNCHANGED <<system, device, valid, token, faults>>
    BY <1>2 DEF Rest!Call, Rest!Retry, Rest!Begin
  <2>3. Rest!TypeOK'
    BY <2>1, <2>2
  <2> QED
    BY <2>2, <2>3
<1>3. ASSUME NEW p \in Procs, Rest!Return(p)
      PROVE  Goal
  BY <1>3 DEF Rest!Return
<1>4. ASSUME NEW p \in Procs, Rest!Send(p)
      PROVE  Goal
  BY <1>4 DEF Rest!Send
<1>5. ASSUME NEW p \in Procs, Rest!Serve(p)
      PROVE  Goal
  BY <1>5 DEF Rest!Serve, Rest!AfterLost
<1>6. ASSUME NEW p \in Procs, Rest!InitSystemToken(p)
      PROVE  Goal
  BY <1>6 DEF Rest!InitSystemToken, Rest!LoginFails
<1>7. ASSUME NEW p \in Procs, Rest!InitDeviceToken(p)
      PROVE  Goal
  <2>1. again' \in [Procs -> BOOLEAN]
    BY <1>7, Zenon DEF Rest!InitDeviceToken, Rest!LoginFails
  <2> QED
    BY <1>7, <2>1 DEF Rest!InitDeviceToken, Rest!LoginFails, Rest!NewDeviceToken
<1> HIDE DEF Goal
<1> QED
  BY <1>0, <1>1, <1>2, <1>3, <1>4, <1>5, <1>6, <1>7 DEF Rest!Next, Rest!Step

(* Types and counts hold in every step. *)
LEMMA StepType == TypeInv /\ [Next]_vars => TypeInv'
<1> SUFFICES ASSUME TypeInv, [Next]_vars PROVE TypeInv'
  OBVIOUS
<1>1. CASE SshNext
  BY <1>1, SshStepType
<1>2. CASE RestNext
  BY <1>2, RestStepType
<1>3. CASE UNCHANGED vars
  BY <1>3 DEF vars, sshVars, restVars, TypeInv, TypeOK, EpochInv, RanInv, Waiting,
              Ssh!TypeOK, Rest!TypeOK
<1> QED
  BY <1>1, <1>2, <1>3 DEF Next, Rests

(* Every state of the transport has its type, a command runs on the last   *)
(* step of its call only, and an epoch ends by a fault only.               *)
THEOREM TypeCorrect == Spec => []TypeOK
<1>1. TypeInv => TypeOK
  BY DEF TypeInv
<1> QED
  BY <1>1, InitType, StepType, PTL DEF Spec
-----------------------------------------------------------------------------
(* What RemoteCall sees of a handler. *)
Phase ==
  [p \in Procs |-> CASE pc[p] \in {"idle", "done"} -> pc[p]
                     [] pc[p] \in Failed -> "failed"
                     [] OTHER -> "asked"]

(* A handler that waits for its answer has asked. *)
LEMMA PhaseFacts ==
  ASSUME NEW p \in Procs
  PROVE  /\ Phase[p] = "asked" <=> Waiting(p)
         /\ pc[p] = "idle" => Phase[p] = "idle"
         /\ pc[p] = "done" => Phase[p] = "done"
         /\ pc[p] \in Failed => Phase[p] = "failed"
         /\ (Phase[p] = "asked")' <=> Waiting(p)'
         /\ pc'[p] = "idle" => Phase'[p] = "idle"
         /\ pc'[p] = "done" => Phase'[p] = "done"
         /\ pc'[p] \in Failed => Phase'[p] = "failed"
         /\ pc'[p] = pc[p] => Phase'[p] = Phase[p]
  BY DEF Phase, Waiting, Failed

(* One handler goes on. *)
LEMMA OnePhase ==
  ASSUME NEW p \in Procs, NEW l, DOMAIN pc = Procs, pc' = [pc EXCEPT ![p] = l]
  PROVE  /\ Waiting(p)' => Phase' = [Phase EXCEPT ![p] = "asked"]
         /\ l \in {"idle", "done"} => Phase' = [Phase EXCEPT ![p] = l]
         /\ l \in Failed => Phase' = [Phase EXCEPT ![p] = "failed"]
         /\ Waiting(p) /\ Waiting(p)' => Phase' = Phase
  BY DEF Phase, Waiting, Failed

LEMMA InitCalls == Init => Calls!Init
  BY DEF Init, Ssh!Init, Calls!Init, Failed

(* A step of RemoteCall. *)
CallStep == [Calls!Next]_(Calls!vars)

(* The step in which one handler moves on without an answer, gets its      *)
(* answer with its command run, or fails with its command run or not.      *)
LEMMA OneCallStep ==
  ASSUME NEW p \in Procs, NEW l, TypeInv, DOMAIN pc = Procs,
         pc' = [pc EXCEPT ![p] = l], Waiting(p),
         \/ Waiting(p)' /\ ran' = ran
         \/ l = "done" /\ ran' = [ran EXCEPT ![p] = @ + 1]
         \/ l \in Failed /\ (ran' = ran \/ ran' = [ran EXCEPT ![p] = @ + 1])
  PROVE  CallStep
<1>0. ran[p] = 0 /\ ran \in [Procs -> 0..1]
  BY DEF TypeInv, TypeOK, RanInv
<1>1. CASE Waiting(p)' /\ ran' = ran
  BY <1>1, OnePhase DEF CallStep, Calls!vars, Phase
<1>2. CASE l = "done" /\ ran' = [ran EXCEPT ![p] = @ + 1]
  <2>1. Phase[p] = "asked" /\ Phase' = [Phase EXCEPT ![p] = "done"]
    BY <1>2, OnePhase, PhaseFacts
  <2>2. ran' = [ran EXCEPT ![p] = 1]
    BY <1>0, <1>2
  <2>3. Calls!Answer(p)
    BY <2>1, <2>2 DEF Calls!Answer, Phase
  <2> QED
    BY <2>3 DEF CallStep, Calls!Next
<1>3. CASE l \in Failed /\ (ran' = ran \/ ran' = [ran EXCEPT ![p] = @ + 1])
  <2>1. Phase[p] = "asked" /\ Phase' = [Phase EXCEPT ![p] = "failed"]
    BY <1>3, OnePhase, PhaseFacts
  <2>2. Phase' = [q \in Procs |-> IF q \in {p} THEN "failed" ELSE Phase[q]]
    BY <2>1 DEF Phase
  <2>3. \E R \in SUBSET {p} : ran' = [q \in Procs |-> IF q \in R THEN 1 ELSE ran[q]]
    <3>1. CASE ran' = ran
      <4>1. ran' = [q \in Procs |-> IF q \in {} THEN 1 ELSE ran[q]]
        BY <1>0, <3>1
      <4>2. {} \in SUBSET {p}
        OBVIOUS
      <4> QED
        BY <4>1, <4>2, Zenon
    <3>2. CASE ran' = [ran EXCEPT ![p] = @ + 1]
      <4>1. ran' = [ran EXCEPT ![p] = 1]
        BY <1>0, <3>2
      <4>2. ran' = [q \in Procs |-> IF q \in {p} THEN 1 ELSE ran[q]]
        BY <1>0, <4>1
      <4> QED
        BY <4>2, Zenon
    <3> QED
      BY <1>3, <3>1, <3>2
  <2>4. Calls!Fail({p})
    BY <2>1, <2>2, <2>3 DEF Calls!Fail, Phase
  <2> QED
    BY <2>4 DEF CallStep, Calls!Next
<1> QED
  BY <1>1, <1>2, <1>3

(* A handler that asks, for the first time or again. *)
LEMMA AskStep ==
  ASSUME NEW p \in Procs, NEW l, DOMAIN pc = Procs,
         pc' = [pc EXCEPT ![p] = l], Waiting(p)', pc[p] \in {"idle"} \cup Failed,
         ran' = [ran EXCEPT ![p] = 0]
  PROVE  CallStep
<1>1. Phase[p] \in {"idle", "failed"} /\ Phase' = [Phase EXCEPT ![p] = "asked"]
  BY OnePhase, PhaseFacts
<1>2. Calls!Ask(p)
  BY <1>1 DEF Calls!Ask, Phase
<1> QED
  BY <1>2 DEF CallStep, Calls!Next

(* A handler that returns to its caller. *)
LEMMA ReturnStep ==
  ASSUME NEW p \in Procs, DOMAIN pc = Procs, pc[p] = "done",
         pc' = [pc EXCEPT ![p] = "idle"], ran' = [ran EXCEPT ![p] = 0]
  PROVE  CallStep
<1>1. Phase[p] = "done" /\ Phase' = [Phase EXCEPT ![p] = "idle"]
  BY OnePhase, PhaseFacts
<1>2. Calls!Return(p)
  BY <1>1 DEF Calls!Return, Phase
<1> QED
  BY <1>2 DEF CallStep, Calls!Next

(* A panic fails every call that waits. *)
LEMMA PanicStep ==
  ASSUME NEW p \in Procs, TypeInv, Ssh!TypeOK, Ssh!Panic(p)
  PROVE  CallStep
<1> DEFINE Q == {q \in Procs : Waiting(q)}
<1>1. Q \in SUBSET Procs /\ Q # {} /\ \A q \in Q : Phase[q] = "asked"
  BY PhaseFacts DEF Ssh!Panic, Waiting, Failed
<1>2. \A q \in Procs : pc'[q] = IF q \in Q THEN "crashed" ELSE pc[q]
  BY DEF Ssh!Panic, Waiting, Failed, Ssh!TypeOK, Ssh!Labels, Ssh!Answers
<1>3. Phase' = [q \in Procs |-> IF q \in Q THEN "failed" ELSE Phase[q]]
  BY <1>2 DEF Phase, Failed
<1>4. ran' = [q \in Procs |-> IF q \in {} THEN 1 ELSE ran[q]]
  BY DEF Ssh!Panic, TypeInv, TypeOK
<1>5. \E R \in SUBSET Q : ran' = [q \in Procs |-> IF q \in R THEN 1 ELSE ran[q]]
  <2>1. {} \in SUBSET Q
    OBVIOUS
  <2> QED
    BY <1>4, <2>1, Zenon
<1>6. PICK Z \in SUBSET Procs : Z = Q
  BY <1>1, Zenon
<1> HIDE DEF Q
<1>7. Calls!Fail(Z)
  BY <1>1, <1>3, <1>5, <1>6 DEF Calls!Fail, Phase
<1> QED
  BY <1>7 DEF CallStep, Calls!Next

LEMMA SshCallStep ==
  ASSUME TypeInv, SshNext
  PROVE  CallStep
<1>0. Ssh!TypeOK /\ Ssh!Next /\ DOMAIN pc = Procs
  BY DEF TypeInv, TypeOK, SshNext, Ssh!TypeOK
<1>1. CASE Ssh!Drop
  BY <1>1 DEF Ssh!Drop, CallStep, Calls!vars, Failed
<1>2. ASSUME NEW p \in Procs, Ssh!Call(p) \/ Ssh!Retry(p)
      PROVE  CallStep
  <2>1. pc' = [pc EXCEPT ![p] = "check"] /\ Waiting(p)'
    BY <1>0, <1>2 DEF Ssh!Call, Ssh!Retry, Ssh!Begin, Ssh!Goto, Waiting, Failed
  <2> QED
    BY <1>0, <1>2, <2>1, AskStep DEF Ssh!Call, Ssh!Retry, Ssh!Begin, Failed
<1>3. ASSUME NEW p \in Procs, Ssh!Return(p)
      PROVE  CallStep
  BY <1>0, <1>3, ReturnStep DEF Ssh!Return, Ssh!Goto
<1>4. ASSUME NEW p \in Procs, Ssh!Panic(p)
      PROVE  CallStep
  BY <1>0, <1>4, PanicStep
<1>5. ASSUME NEW p \in Procs,
             \/ Ssh!CheckClient(p) \/ Ssh!Dial(p) \/ Ssh!StoreClient(p)
             \/ Ssh!NewSession(p) \/ Ssh!ResetClient(p)
      PROVE  CallStep
  <2>1. Waiting(p) /\ ran' = ran
    BY <1>5 DEF Ssh!CheckClient, Ssh!Dial, Ssh!StoreClient, Ssh!NewSession, Ssh!ResetClient,
                Waiting, Failed
  <2>2. PICK l \in Ssh!Labels : pc' = [pc EXCEPT ![p] = l] /\ (l \in Failed \/ Waiting(p)')
    BY <1>0, <1>5 DEF Ssh!CheckClient, Ssh!Dial, Ssh!StoreClient, Ssh!NewSession,
                Ssh!ResetClient, Ssh!NextChance, Ssh!AfterCheck, Ssh!Goto, Ssh!Labels,
                Ssh!Answers, Waiting, Failed
  <2> QED
    BY <1>0, <2>1, <2>2, OneCallStep
<1>6. ASSUME NEW p \in Procs, Ssh!RunCommand(p)
      PROVE  CallStep
  <2>1. Waiting(p)
    BY <1>6 DEF Ssh!RunCommand, Waiting, Failed
  <2>2. \/ Ssh!Goto(p, "done") /\ ran' = [ran EXCEPT ![p] = @ + 1]
        \/ Ssh!Goto(p, "failed") /\ (ran' = ran \/ ran' = [ran EXCEPT ![p] = @ + 1])
    BY <1>6 DEF Ssh!RunCommand, Ssh!AfterLost
  <2> QED
    BY <1>0, <2>1, <2>2, OneCallStep DEF Ssh!Goto, Failed
<1> QED
  BY <1>0, <1>1, <1>2, <1>3, <1>4, <1>5, <1>6 DEF Ssh!Next, Ssh!Step

LEMMA RestCallStep ==
  ASSUME TypeInv, RestNext
  PROVE  CallStep
<1>0. Rest!TypeOK /\ Rest!Next /\ DOMAIN pc = Procs
  BY DEF TypeInv, TypeOK, RestNext, Rest!TypeOK
<1>1. CASE Rest!Expire
  BY <1>1 DEF Rest!Expire, CallStep, Calls!vars, Failed
<1>2. ASSUME NEW p \in Procs, Rest!Call(p) \/ Rest!Retry(p)
      PROVE  CallStep
  <2>1. pc' = [pc EXCEPT ![p] = "send"] /\ Waiting(p)'
    BY <1>0, <1>2 DEF Rest!Call, Rest!Retry, Rest!Begin, Rest!Goto, Waiting, Failed
  <2> QED
    BY <1>0, <1>2, <2>1, AskStep DEF Rest!Call, Rest!Retry, Rest!Begin, Failed
<1>3. ASSUME NEW p \in Procs, Rest!Return(p)
      PROVE  CallStep
  BY <1>0, <1>3, ReturnStep DEF Rest!Return, Rest!Goto
<1>4. ASSUME NEW p \in Procs,
             Rest!Send(p) \/ Rest!InitSystemToken(p) \/ Rest!InitDeviceToken(p)
      PROVE  CallStep
  <2>1. Waiting(p) /\ ran' = ran
    BY <1>4 DEF Rest!Send, Rest!InitSystemToken, Rest!InitDeviceToken, Waiting, Failed
  <2>2. PICK l \in Rest!Labels : pc' = [pc EXCEPT ![p] = l] /\ (l \in Failed \/ Waiting(p)')
    BY <1>0, <1>4 DEF Rest!Send, Rest!InitSystemToken, Rest!InitDeviceToken, Rest!LoginFails,
                Rest!Goto, Rest!Labels, Waiting, Failed
  <2> QED
    BY <1>0, <2>1, <2>2, OneCallStep
<1>5. ASSUME NEW p \in Procs, Rest!Serve(p)
      PROVE  CallStep
  <2>1. Waiting(p)
    BY <1>5 DEF Rest!Serve, Waiting, Failed
  <2>2. \/ Rest!Goto(p, "done") /\ ran' = [ran EXCEPT ![p] = @ + 1]
        \/ Rest!Goto(p, "failed") /\ (ran' = ran \/ ran' = [ran EXCEPT ![p] = @ + 1])
        \/ (Rest!Goto(p, "expired") \/ Rest!Goto(p, "login")) /\ ran' = ran
    BY <1>5 DEF Rest!Serve, Rest!AfterLost
  <2>3. CASE Rest!Goto(p, "login") /\ ran' = ran
    <3>1. pc' = [pc EXCEPT ![p] = "login"] /\ Waiting(p)'
      BY <1>0, <2>3 DEF Rest!Goto, Waiting, Failed
    <3> QED
      BY <1>0, <2>1, <2>3, <3>1, OneCallStep
  <2> QED
    BY <1>0, <2>1, <2>2, <2>3, OneCallStep DEF Rest!Goto, Failed
<1> QED
  BY <1>0, <1>1, <1>2, <1>3, <1>4, <1>5 DEF Rest!Next, Rest!Step

(* For every number of handlers, calls and faults: both clients run a      *)
(* command at most once for each call, and only a command that ran is      *)
(* answered as done (Execute, request).                                    *)
THEOREM RunsAtMostOnce == Spec => AtMostOnce
<1>1. TypeInv /\ [Next]_vars => [Calls!Next]_(Calls!vars)
  <2> SUFFICES ASSUME TypeInv, [Next]_vars PROVE CallStep
    BY DEF CallStep
  <2>1. CASE SshNext
    BY <2>1, SshCallStep
  <2>2. CASE RestNext
    BY <2>2, RestCallStep
  <2>3. CASE UNCHANGED vars
    BY <2>3 DEF CallStep, vars, Calls!vars, Failed
  <2> QED
    BY <2>1, <2>2, <2>3 DEF Next, Rests
<1> QED
  BY <1>1, InitType, StepType, InitCalls, PTL DEF Spec, AtMostOnce, Calls!Spec
-----------------------------------------------------------------------------
(* No fault yet since the call began. *)
Quiet(p) == Waiting(p) /\ faults = since[p]

(* The client in use is dead; another handler is about to store a dead one. *)
Dead == IF client \in {0, epoch} THEN 0 ELSE 1
Late(p) == IF \E q \in Procs \ {p} : pc[q] = "store" /\ conn[q] # epoch THEN 1 ELSE 0

(* A dead client and a late one may take a chance each; the third remains. *)
ChanceInv(p) ==
  /\ Quiet(p) =>
       /\ pc[p] \in {"store", "run"} => conn[p] = epoch
       /\ chance[p] + (IF pc[p] = "reset" THEN 1 ELSE Dead) + Late(p) <= 3
  /\ pc[p] = "failed" /\ ran[p] = 0 => faults > since[p]

(* Without a fault, the tokens a handler got stay good until it has sent   *)
(* its request with them, whoever renews them meanwhile.                   *)
TokenInv(p) ==
  /\ Quiet(p) =>
       /\ pc[p] = "device" => system = valid.sys
       /\ again[p] /\ pc[p] = "send" => system = valid.sys /\ device = valid.dev
       /\ again[p] /\ pc[p] = "serve" => token[p] = valid
  /\ pc[p] = "expired" => faults > since[p]

FaultInv ==
  \A p \in Procs :
    /\ strType = "AS18000" /\ Cardinality(Procs) <= 2 => ChanceInv(p)
    /\ strType = "AS13000" => TokenInv(p)

(* Among at most two handlers there is only one other. *)
LEMMA OneOther ==
  ASSUME Cardinality(Procs) <= 2, NEW p \in Procs, NEW q \in Procs, NEW r \in Procs,
         q # p, r # p
  PROVE  q = r
<1> SUFFICES ASSUME q # r PROVE FALSE
  OBVIOUS
<1>1. IsFiniteSet({p}) /\ Cardinality({p}) = 1
  BY FS_Singleton
<1>2. IsFiniteSet({p} \cup {q}) /\ Cardinality({p} \cup {q}) = 2
  BY <1>1, FS_AddElement
<1>3. IsFiniteSet({p} \cup {q} \cup {r}) /\ Cardinality({p} \cup {q} \cup {r}) = 3
  <2>1. r \notin {p} \cup {q}
    OBVIOUS
  <2> QED
    BY <1>2, <2>1, FS_AddElement
<1>4. Cardinality({p} \cup {q} \cup {r}) <= Cardinality(Procs)
  BY <1>3, FS_Subset, TransportAssumption DEF TransportAssumption
<1>5. Cardinality(Procs) \in Nat
  BY FS_CardinalityType, TransportAssumption DEF TransportAssumption
<1> QED
  BY <1>3, <1>4, <1>5

(* A fault leaves the calls that wait as they are. *)
LEMMA FaultStep ==
  ASSUME TypeInv, SshNext \/ RestNext, faults' # faults
  PROVE  faults' = faults + 1 /\ since' = since
<1>1. CASE SshNext
  BY <1>1 DEF SshNext, Ssh!Next, Ssh!Step, Ssh!Fault, Ssh!Drop, Ssh!Call, Ssh!Retry, Ssh!Begin,
       Ssh!Return, Ssh!CheckClient, Ssh!Dial, Ssh!StoreClient, Ssh!NewSession, Ssh!Panic,
       Ssh!ResetClient, Ssh!RunCommand
<1>2. CASE RestNext
  BY <1>2 DEF RestNext, Rest!Next, Rest!Step, Rest!Fault, Rest!Expire, Rest!Call, Rest!Retry,
       Rest!Begin, Rest!Return, Rest!Send, Rest!Serve, Rest!InitSystemToken, Rest!LoginFails,
       Rest!InitDeviceToken
<1> QED
  BY <1>1, <1>2

(* Chances last when there are at most two handlers. *)
LEMMA SshFaultStep ==
  ASSUME TypeInv, SshNext, Cardinality(Procs) <= 2, NEW p \in Procs, ChanceInv(p)
  PROVE  ChanceInv(p)'
<1>0. /\ Ssh!TypeOK /\ Ssh!Next /\ EpochInv /\ RanInv
      /\ ran \in [Procs -> 0..1] /\ since \in [Procs -> 0..MaxFaults]
      /\ faults \in 0..MaxFaults /\ MaxFaults \in Nat
  BY TransportAssumption DEF TypeInv, TypeOK, SshNext, TransportAssumption
<1>1. CASE faults' # faults
  BY <1>0, <1>1, FaultStep DEF ChanceInv, Quiet, EpochInv
<1>2. CASE faults' = faults
  <2> USE <1>0, <1>2 DEF ChanceInv, Quiet, Waiting, Failed, Dead, Late, Ssh!TypeOK, Ssh!Goto, Ssh!Fault,
                         Ssh!ownVars
  <2>1. CASE Ssh!Drop
    BY <2>1 DEF Ssh!Drop
  <2>2. ASSUME NEW q \in Procs, Ssh!Call(q) \/ Ssh!Retry(q)
        PROVE  ChanceInv(p)'
    BY <2>2 DEF Ssh!Call, Ssh!Retry, Ssh!Begin
  <2>3. ASSUME NEW q \in Procs, Ssh!Return(q) \/ Ssh!CheckClient(q)
        PROVE  ChanceInv(p)'
    BY <2>3 DEF Ssh!Return, Ssh!CheckClient, Ssh!AfterCheck
  <2>4. ASSUME NEW q \in Procs, Ssh!Dial(q)
        PROVE  ChanceInv(p)'
    BY <2>4 DEF Ssh!Dial
  <2>5. ASSUME NEW q \in Procs, Ssh!StoreClient(q)
        PROVE  ChanceInv(p)'
    BY <2>5, OneOther DEF Ssh!StoreClient
  <2>6. ASSUME NEW q \in Procs, Ssh!NewSession(q)
        PROVE  ChanceInv(p)'
    BY <2>6 DEF Ssh!NewSession
  <2>7. ASSUME NEW q \in Procs, Ssh!Panic(q)
        PROVE  ChanceInv(p)'
    BY <2>7 DEF Ssh!Panic, Ssh!Answers
  <2>8. ASSUME NEW q \in Procs, Ssh!ResetClient(q)
        PROVE  ChanceInv(p)'
    <3>1. /\ client' = 0 /\ epoch' = epoch /\ conn' = conn /\ since' = since /\ ran' = ran
          /\ Late(p)' = Late(p)
      BY <2>8 DEF Ssh!ResetClient, Ssh!NextChance, Ssh!ForgetClient
    <3>2. CASE q = p
      <4>1. pc[p] = "reset" /\ since[p] <= faults
        BY <2>8, <3>2 DEF Ssh!ResetClient, EpochInv
      <4>2. CASE since[p] = faults
        <5>1. chance[p] + 1 + Late(p) <= 3 /\ Late(p) \in 0..1 /\ chance[p] \in 1..3
          BY <4>1, <4>2
        <5> HIDE DEF Late
        <5>2. pc'[p] = "check" /\ chance'[p] = chance[p] + 1
          BY <2>8, <3>2, <5>1 DEF Ssh!ResetClient, Ssh!NextChance, Ssh!Chances
        <5> QED
          BY <3>1, <5>1, <5>2
      <4>3. CASE since[p] < faults
        BY <3>1, <4>1, <4>3
      <4> QED
        BY <4>1, <4>2, <4>3
    <3>3. CASE q # p
      <4>1. pc'[p] = pc[p] /\ chance'[p] = chance[p]
        BY <2>8, <3>3 DEF Ssh!ResetClient, Ssh!NextChance
      <4> QED
        BY <3>1, <4>1
    <3> QED
      BY <3>2, <3>3
  <2>9. ASSUME NEW q \in Procs, Ssh!RunCommand(q)
        PROVE  ChanceInv(p)'
    <3>1. UNCHANGED <<client, epoch, conn, chance, since>> /\ Late(p)' = Late(p)
      BY <2>9 DEF Ssh!RunCommand, Ssh!AfterLost
    <3>2. CASE q = p
      <4>1. pc[p] = "run" /\ since[p] <= faults
        BY <2>9, <3>2 DEF Ssh!RunCommand, EpochInv
      <4>2. CASE since[p] = faults
        <5>1. conn[p] = epoch
          BY <4>1, <4>2
        <5>2. pc'[p] = "done"
          BY <2>9, <3>2, <5>1 DEF Ssh!RunCommand
        <5> QED
          BY <3>1, <5>2
      <4>3. CASE since[p] < faults
        BY <3>1, <4>3
      <4> QED
        BY <4>1, <4>2, <4>3
    <3>3. CASE q # p
      <4>1. pc'[p] = pc[p] /\ ran'[p] = ran[p]
        BY <2>9, <3>3 DEF Ssh!RunCommand
      <4> QED
        BY <3>1, <4>1
    <3> QED
      BY <3>2, <3>3
  <2> QED
    BY <1>0, <2>1, <2>2, <2>3, <2>4, <2>5, <2>6, <2>7, <2>8, <2>9 DEF Ssh!Next, Ssh!Step
<1> QED
  BY <1>1, <1>2

(* Good tokens last, however many handlers renew them. *)
LEMMA RestFaultStep ==
  ASSUME TypeInv, RestNext, NEW p \in Procs, TokenInv(p)
  PROVE  TokenInv(p)'
<1>0. /\ Rest!TypeOK /\ Rest!Next /\ EpochInv
      /\ since \in [Procs -> 0..MaxFaults] /\ faults \in 0..MaxFaults /\ MaxFaults \in Nat
  BY TransportAssumption DEF TypeInv, TypeOK, RestNext, TransportAssumption
<1>1. CASE faults' # faults
  BY <1>0, <1>1, FaultStep DEF TokenInv, Quiet, EpochInv
<1>2. CASE faults' = faults
  <2> USE <1>0, <1>2 DEF TokenInv, Quiet, Waiting, Failed, Rest!TypeOK, Rest!Goto, Rest!Fault, Rest!ownVars
  <2>1. CASE Rest!Expire
    BY <2>1 DEF Rest!Expire
  <2>2. ASSUME NEW q \in Procs, Rest!Call(q) \/ Rest!Retry(q)
        PROVE  TokenInv(p)'
    BY <2>2 DEF Rest!Call, Rest!Retry, Rest!Begin
  <2>3. ASSUME NEW q \in Procs, Rest!Return(q)
        PROVE  TokenInv(p)'
    BY <2>3 DEF Rest!Return
  <2>4. ASSUME NEW q \in Procs, Rest!Send(q)
        PROVE  TokenInv(p)'
    BY <2>4 DEF Rest!Send
  <2>5. ASSUME NEW q \in Procs, Rest!Serve(q)
        PROVE  TokenInv(p)'
    BY <2>5 DEF Rest!Serve, Rest!AfterLost, Rest!Accepted, Rest!Expired, EpochInv
  <2>6. ASSUME NEW q \in Procs, Rest!InitSystemToken(q)
        PROVE  TokenInv(p)'
    BY <2>6 DEF Rest!InitSystemToken, Rest!LoginFails
  <2>7. ASSUME NEW q \in Procs, Rest!InitDeviceToken(q)
        PROVE  TokenInv(p)'
    BY <2>7 DEF Rest!InitDeviceToken, Rest!LoginFails, Rest!NewDeviceToken
  <2> QED
    BY <1>0, <2>1, <2>2, <2>3, <2>4, <2>5, <2>6, <2>7 DEF Rest!Next, Rest!Step
<1> QED
  BY <1>1, <1>2

(* For every number of requests and faults: a request is given up as       *)
(* expired only for a fault during its own call, with any number of        *)
(* handlers, and a command that did not run fails only for one, with at    *)
(* most two (getSession, request).                                         *)
THEOREM FailuresExplained == Spec => []FaultsExplainFailure
<1>1. Init => FaultInv
  BY DEF Init, Ssh!Init, FaultInv, ChanceInv, TokenInv, Quiet, Waiting
<1>2. TypeInv /\ FaultInv /\ [Next]_vars => FaultInv'
  <2> SUFFICES ASSUME TypeInv, FaultInv, [Next]_vars PROVE FaultInv'
    OBVIOUS
  <2>1. CASE SshNext
    BY <2>1, SshFaultStep DEF FaultInv, SshNext
  <2>2. CASE RestNext
    BY <2>2, RestFaultStep DEF FaultInv, RestNext
  <2>3. CASE UNCHANGED vars
    BY <2>3 DEF vars, sshVars, restVars, FaultInv, ChanceInv, TokenInv, Quiet, Waiting, Dead, Late
  <2> QED
    BY <2>1, <2>2, <2>3 DEF Next, Rests
<1>3. TypeInv /\ FaultInv => FaultsExplainFailure
  BY DEF TypeInv, TypeOK, FaultInv, ChanceInv, TokenInv, FaultsExplainFailure
<1> QED
  BY <1>1, <1>2, <1>3, InitType, StepType, PTL DEF Spec

-----------------------------------------------------------------------------
(* Who may yet dial before the client is reset again. *)
Able == {p \in Procs : pc[p] = "dial" \/ (client = 0 /\ pc[p] # "store")}

ConnInv ==
  IF strType = "AS18000"
  THEN /\ open + Cardinality(Able) <= Cardinality(Procs) * (1 + resets)
       /\ \A p \in Procs : pc[p] = "store" => conn[p] # 0
       /\ faults = 0 => resets = 0 /\ \A p \in Procs : pc[p] # "reset"
  ELSE open = 0 /\ resets = 0

(* Sets of handlers are counted. *)
LEMMA CountHandlers ==
  /\ Cardinality(Procs) \in Nat
  /\ \A S, T : S \subseteq T /\ T \subseteq Procs =>
       Cardinality(S) \in Nat /\ Cardinality(T) \in Nat /\ Cardinality(S) <= Cardinality(T)
  /\ \A S, p : S \subseteq Procs /\ p \in S => Cardinality(S \ {p}) + 1 = Cardinality(S)
<1>1. IsFiniteSet(Procs)
  BY TransportAssumption DEF TransportAssumption
<1>2. \A S : S \subseteq Procs => IsFiniteSet(S) /\ Cardinality(S) \in Nat
  BY <1>1, FS_Subset, FS_CardinalityType
<1>3. ASSUME NEW S, NEW p \in S, S \subseteq Procs
      PROVE  Cardinality(S \ {p}) + 1 = Cardinality(S)
  BY <1>2, <1>3, FS_RemoveElement
<1> QED
  BY <1>1, <1>2, <1>3, FS_Subset, FS_CardinalityType

(* The bound for a reset more. *)
LEMMA OneMoreReset ==
  ASSUME NEW n \in Nat, NEW r \in Nat
  PROVE  n * (1 + (r + 1)) = n * (1 + r) + n /\ n * (1 + 0) = n /\ n * (1 + r) \in Nat
  OBVIOUS

(* A step keeps the bound when it opens no connection and lets nobody dial *)
(* who could not, when it opens one and uses up a handler, when it resets  *)
(* the client, or when it closes everything.                               *)
LEMMA BoundStep ==
  ASSUME open \in Nat, resets \in Nat,
         open + Cardinality(Able) <= Cardinality(Procs) * (1 + resets),
         \/ UNCHANGED <<open, resets>> /\ Able' \subseteq Able
         \/ UNCHANGED resets /\ open' = open + 1 /\ \E p \in Able : Able' \subseteq Able \ {p}
         \/ UNCHANGED open /\ resets' = resets + 1
         \/ open' = 0 /\ resets' = 0
  PROVE  (open + Cardinality(Able) <= Cardinality(Procs) * (1 + resets))'
<1> DEFINE N == Cardinality(Procs)
           A == Cardinality(Able)
           A2 == Cardinality(Able')
<1>0. Able \subseteq Procs /\ Able' \subseteq Procs
  BY DEF Able
<1>1. N \in Nat /\ A \in Nat /\ A2 \in Nat /\ A2 <= N
  BY <1>0, CountHandlers
<1>2. N * (1 + resets) \in Nat /\ N * (1 + (resets + 1)) = N * (1 + resets) + N /\ N * (1 + 0) = N
  BY <1>1, OneMoreReset
<1>3. CASE UNCHANGED <<open, resets>> /\ Able' \subseteq Able
  <2>1. A2 <= A
    BY <1>0, <1>3, CountHandlers
  <2> QED
    BY <1>1, <1>2, <1>3, <2>1
<1>4. CASE UNCHANGED resets /\ open' = open + 1 /\ \E p \in Able : Able' \subseteq Able \ {p}
  <2>1. PICK p \in Able : Able' \subseteq Able \ {p}
    BY <1>4
  <2>2. Cardinality(Able \ {p}) + 1 = A /\ Cardinality(Able \ {p}) \in Nat
    BY <1>0, CountHandlers
  <2>3. A2 <= Cardinality(Able \ {p})
    BY <1>0, <2>1, CountHandlers
  <2> QED
    BY <1>1, <1>2, <1>4, <2>2, <2>3
<1>5. CASE UNCHANGED open /\ resets' = resets + 1
  BY <1>1, <1>2, <1>5
<1>6. CASE open' = 0 /\ resets' = 0
  BY <1>1, <1>2, <1>6
<1> QED
  BY <1>3, <1>4, <1>5, <1>6

LEMMA SshConnStep ==
  ASSUME TypeInv, SshNext, ConnInv
  PROVE  ConnInv'
<1>0. /\ strType = "AS18000" /\ strType' = strType /\ Ssh!TypeOK /\ Ssh!Next /\ EpochInv
      /\ faults \in Nat /\ open \in Nat /\ resets \in Nat
  BY TransportAssumption DEF TypeInv, TypeOK, SshNext, TransportAssumption, Ssh!TypeOK
<1>1. /\ open + Cardinality(Able) <= Cardinality(Procs) * (1 + resets)
      /\ \A p \in Procs : pc[p] = "store" => conn[p] # 0
      /\ faults = 0 => resets = 0 /\ \A p \in Procs : pc[p] # "reset"
  BY <1>0 DEF ConnInv
<1> DEFINE Moves ==
             \/ UNCHANGED <<open, resets>> /\ Able' \subseteq Able
             \/ UNCHANGED resets /\ open' = open + 1 /\ \E p \in Able : Able' \subseteq Able \ {p}
             \/ UNCHANGED open /\ resets' = resets + 1
             \/ open' = 0 /\ resets' = 0
           Stores == \A p \in Procs : pc'[p] = "store" => conn'[p] # 0
           Faults == faults' = 0 => resets' = 0 /\ \A p \in Procs : pc'[p] # "reset"
<1> SUFFICES Moves /\ Stores /\ Faults
  BY <1>0, <1>1, BoundStep DEF ConnInv
<1> USE <1>0, <1>1 DEF Able, Ssh!TypeOK, Ssh!Goto, Ssh!Fault, Ssh!ownVars
<1>2. CASE Ssh!Drop
  BY <1>2 DEF Ssh!Drop
<1>3. ASSUME NEW p \in Procs, Ssh!Call(p) \/ Ssh!Retry(p) \/ Ssh!Return(p) \/ Ssh!CheckClient(p)
      PROVE  Moves /\ Stores /\ Faults
  BY <1>3 DEF Ssh!Call, Ssh!Retry, Ssh!Begin, Ssh!Return, Ssh!CheckClient, Ssh!AfterCheck
<1>4. ASSUME NEW p \in Procs, Ssh!Dial(p)
      PROVE  Moves /\ Stores /\ Faults
  <2>1. CASE open' = open + 1 /\ Ssh!Goto(p, "store")
    <3>1. p \in Able /\ Able' \subseteq Able \ {p} /\ resets' = resets
      BY <1>4, <2>1 DEF Ssh!Dial
    <3>2. Stores /\ Faults
      BY <1>4, <2>1 DEF Ssh!Dial
    <3> QED
      BY <2>1, <3>1, <3>2
  <2>2. CASE Ssh!Fault /\ Ssh!NextChance(p) /\ UNCHANGED <<conn, open>>
    BY <1>4, <2>2 DEF Ssh!Dial, Ssh!NextChance
  <2> QED
    BY <1>4, <2>1, <2>2 DEF Ssh!Dial
<1>5. ASSUME NEW p \in Procs, Ssh!StoreClient(p)
      PROVE  Moves /\ Stores /\ Faults
  BY <1>5 DEF Ssh!StoreClient
<1>6. ASSUME NEW p \in Procs, Ssh!NewSession(p)
      PROVE  Moves /\ Stores /\ Faults
  BY <1>6 DEF Ssh!NewSession, EpochInv
<1>7. ASSUME NEW p \in Procs, Ssh!Panic(p)
      PROVE  Moves /\ Stores /\ Faults
  BY <1>7 DEF Ssh!Panic
<1>8. ASSUME NEW p \in Procs, Ssh!ResetClient(p)
      PROVE  Moves /\ Stores /\ Faults
  BY <1>8 DEF Ssh!ResetClient, Ssh!NextChance
<1>9. ASSUME NEW p \in Procs, Ssh!RunCommand(p)
      PROVE  Moves /\ Stores /\ Faults
  BY <1>9 DEF Ssh!RunCommand, Ssh!AfterLost
<1> HIDE DEF Moves, Stores, Faults
<1> QED
  BY <1>0, <1>2, <1>3, <1>4, <1>5, <1>6, <1>7, <1>8, <1>9 DEF Ssh!Next, Ssh!Step

(* For every number of handlers, calls and faults: the plugin has at most  *)
(* one connection open for each handler and each time the client was       *)
(* reset, and nobody resets it before a fault (getSession).                *)
THEOREM ConnectionsStayBounded == Spec => []ConnectionsBounded
<1>1. Init => ConnInv
  <2> SUFFICES ASSUME Init PROVE ConnInv
    OBVIOUS
  <2>1. Able \subseteq Procs /\ open = 0 /\ resets = 0 /\ \A p \in Procs : pc[p] = "idle"
    BY DEF Init, Ssh!Init, Ssh!OwnInit, Able
  <2>2. Cardinality(Able) <= Cardinality(Procs) /\ Cardinality(Procs) \in Nat
        /\ Cardinality(Able) \in Nat
    BY <2>1, CountHandlers
  <2> QED
    BY <2>1, <2>2 DEF ConnInv
<1>2. TypeInv /\ ConnInv /\ [Next]_vars => ConnInv'
  <2> SUFFICES ASSUME TypeInv, ConnInv, [Next]_vars PROVE ConnInv'
    OBVIOUS
  <2>1. CASE SshNext
    BY <2>1, SshConnStep
  <2>2. CASE RestNext
    BY <2>2 DEF RestNext, sshVars, ConnInv
  <2>3. CASE UNCHANGED vars
    BY <2>3 DEF vars, sshVars, restVars, ConnInv, Able
  <2> QED
    BY <2>1, <2>2, <2>3 DEF Next, Rests
<1>3. TypeInv /\ ConnInv => ConnectionsBounded
  <2> SUFFICES ASSUME TypeInv, ConnInv PROVE ConnectionsBounded
    OBVIOUS
  <2>1. Able \subseteq Procs
    BY DEF Able
  <2>2. Cardinality(Able) \in Nat /\ Cardinality(Procs) \in Nat
    BY <2>1, CountHandlers
  <2>3. CASE strType = "AS18000"
    <3>1. open \in Nat /\ resets \in Nat /\ Cardinality(Procs) * (1 + resets) \in Nat
      BY <2>2, <2>3, OneMoreReset DEF TypeInv, TypeOK, Ssh!TypeOK
    <3> QED
      BY <2>2, <2>3, <3>1 DEF ConnInv, ConnectionsBounded
  <2>4. CASE strType # "AS18000"
    BY <2>2, <2>4 DEF ConnInv, ConnectionsBounded
  <2> QED
    BY <2>3, <2>4
<1> QED
  BY <1>1, <1>2, <1>3, InitType, StepType, PTL DEF Spec
=============================================================================
