----------------------- MODULE DestroyGovernance_proofs -----------------------
(***************************************************************************)
(* Proofs about DestroyGovernance for every number of keys, applications,  *)
(* requests, requesters, deciders and workers, and every bound.            *)
(***************************************************************************)
EXTENDS DestroyGovernance, TLAPS

USE DEF NoRequest, NoPin, Decided

(***************************************************************************)
(* What the types leave out and every other argument needs: the processes  *)
(* only ever hold keys and rows that exist.                                *)
(***************************************************************************)
WellFormed ==
  /\ \A r \in Request : Filed(r) => approvals[r].key \in Key
  /\ \A r \in Request : ~Filed(r) => approvals[r] = NoRow
  /\ \A q \in Requester : requester[q].pc # "idle" => requester[q].key \in Key
  /\ \A d \in Decider : decider[d].pc # "idle" =>
       decider[d].req \in Request /\ Filed(decider[d].req)
  /\ \A w \in Worker : worker[w].pc # "claim" =>
       worker[w].req \in Request /\ Filed(worker[w].req)

Typed == TypeOK /\ WellFormed

(***************************************************************************)
(* A worker owns the row it holds: what the row lock is for.               *)
(***************************************************************************)
Locking == ClaimedRowFrozen /\ SingleExecutor

(***************************************************************************)
(* Between the gate and the UPDATE the Control Group cannot be taken back. *)
(***************************************************************************)
GateHeld ==
  /\ \A d \in Decider :
       decider[d].pc = "approve" => approvals[decider[d].req].cg # "requested"
  /\ ApprovalHasControlGroup

(***************************************************************************)
(* A pin and the incarnation it was read from come together, and no pin is *)
(* ahead of Vault.                                                         *)
(***************************************************************************)
Read(k, pin, reviewed) ==
  /\ reviewed <= vault[k].gen
  /\ pin = NoPin <=> reviewed = 0

PinsKnown ==
  /\ \A k \in Key : vault[k].gen >= 1
  /\ \A q \in Requester : requester[q].pc # "idle" =>
       Read(requester[q].key, requester[q].pin, requester[q].reviewed)
  /\ \A r \in Request : Filed(r) =>
       Read(approvals[r].key, approvals[r].pin, approvals[r].reviewed)
  /\ \A w \in Worker : worker[w].pc \in {"protect", "delete", "restore"} =>
       approvals[worker[w].req].pin # NoPin

(***************************************************************************)
(* A worker about to commit has seen the reviewed material gone, and an    *)
(* incarnation that is gone never returns.                                 *)
(***************************************************************************)
Gone(r) ==
  ~ (Live(approvals[r].key) /\ vault[approvals[r].key].gen = approvals[r].reviewed)

MaterialGone ==
  /\ \A w \in Worker : worker[w].pc = "commit" => Gone(worker[w].req)
  /\ \A r \in Request : approvals[r].executed => Filed(r) /\ Gone(r)

-----------------------------------------------------------------------------
(***************************************************************************)
(* The two ways a worker moves on, seen from its own state.                *)
(***************************************************************************)
LEMMA StepToEffect ==
  ASSUME TypeOK, NEW w \in Worker,
         NEW pc \in {"read", "protect", "delete", "restore", "commit"},
         StepTo(w, pc)
  PROVE  /\ worker' = [worker EXCEPT ![w] = worker'[w]]
         /\ worker'[w].flipped = worker[w].flipped
         /\ worker'[w] \in WorkerState
         /\ worker'[w].pc = pc
         /\ worker'[w].req = worker[w].req
         /\ tried' \in [Worker -> SUBSET Request]
  BY DEF StepTo, TypeOK, WorkerState

(* Releasing ends in the idle state.                                       *)
LEMMA ReleaseEffect ==
  ASSUME TypeOK, NEW w \in Worker, worker[w].req \in Request, Release(w)
  PROVE  /\ worker' = [worker EXCEPT ![w] = worker'[w]]
         /\ worker'[w] = WorkerIdle
         /\ worker'[w].pc = "claim"
         /\ worker'[w] \in WorkerState
         /\ tried' \in [Worker -> SUBSET Request]
  BY DEF Release, TypeOK, WorkerIdle, WorkerState

(***************************************************************************)
(* Every write to a key and every write to a filed row.                    *)
(***************************************************************************)
FlagWrite(k) ==
  \/ vault' = [vault EXCEPT ![k].deletable = TRUE]
  \/ vault' = [vault EXCEPT ![k].deletable = FALSE]

KeyWrite(k) ==
  FlagWrite(k) \/ vault' = [vault EXCEPT ![k] = GoneKey(@.gen)]

MarkExecuted(r) == approvals' = [approvals EXCEPT ![r].executed = TRUE]

(* Writing to a key keeps the type of vault.                               *)
LEMMA KeyWriteTypes ==
  ASSUME TypeOK, NEW k \in Key, KeyWrite(k)
  PROVE  vault' \in [Key -> VaultKey]
<1>1. CASE vault' = [vault EXCEPT ![k].deletable = TRUE]
  BY <1>1 DEF TypeOK, VaultKey
<1>2. CASE vault' = [vault EXCEPT ![k].deletable = FALSE]
  BY <1>2 DEF TypeOK, VaultKey
<1>3. CASE vault' = [vault EXCEPT ![k] = GoneKey(@.gen)]
  BY <1>3 DEF TypeOK, VaultKey, GoneKey
<1> QED
  BY <1>1, <1>2, <1>3 DEF KeyWrite, FlagWrite

(* Setting executed_at keeps the type of approvals.                        *)
LEMMA MarkExecutedTypes ==
  ASSUME TypeOK, NEW r \in Request, MarkExecuted(r)
  PROVE  approvals' \in [Request -> Row]
<1>1. ASSUME NEW row \in Row PROVE [row EXCEPT !.executed = TRUE] \in Row
  BY DEF Row
<1> QED
  BY <1>1 DEF MarkExecuted, TypeOK

(***************************************************************************)
(* What a worker step can do to the rows, the workers and the vault: it    *)
(* claims a claimable row, keeps the row it holds, or lets go of it; it    *)
(* writes a row only when it commits, and only the key of the row it holds.*)
(***************************************************************************)
WorkerEffect(w) ==
  /\ UNCHANGED <<triggers, requester, decider>>
  /\ UNCHANGED faults \/ Fault
  /\ worker' = [worker EXCEPT ![w] = worker'[w]]
  /\ worker'[w] \in WorkerState
  /\ tried' \in [Worker -> SUBSET Request]
  /\ worker'[w].pc \in {"protect", "delete", "restore"} =>
       worker[w].pc \in {"protect", "delete"} \/ ReadKey(w)
  /\ worker'[w].pc = "commit" => DeleteKey(w) \/ ReadKey(w)
  /\ worker[w].pc = "claim" =>
       /\ UNCHANGED <<approvals, vault, stripped>>
       /\ \/ worker' = worker
          \/ \E r \in Request :
               /\ Claimable(w, r)
               /\ worker'[w] = [pc |-> "intent", req |-> r, flipped |-> FALSE]
  /\ worker[w].pc # "claim" =>
       /\ worker'[w] = WorkerIdle \/ worker'[w].req = worker[w].req
       /\ \/ UNCHANGED approvals
          \/ /\ worker[w].pc = "commit"
             /\ worker'[w] = WorkerIdle
             /\ UNCHANGED vault
             /\ MarkExecuted(worker[w].req)
       /\ \/ UNCHANGED vault
          \/ FlagWrite(approvals[worker[w].req].key)
          \/ worker[w].pc = "delete" /\ KeyWrite(approvals[worker[w].req].key)
       /\ stripped' \in {stripped, stripped \cup {approvals[worker[w].req].key}}

(* Every worker action has the effect above.                               *)
LEMMA WorkerStepEffect ==
  ASSUME Typed, NEW w \in Worker, WorkerStep(w)
  PROVE  WorkerEffect(w)
<1> USE StepToEffect, ReleaseEffect DEF triggers, ghosts
<1>0. TypeOK /\ (worker[w].pc # "claim" => worker[w].req \in Request)
  BY DEF Typed, WellFormed
<1>1. ASSUME NEW r \in Request, Claim(w, r) PROVE WorkerEffect(w)
  <2>1. /\ worker[w].pc = "claim"
        /\ worker'[w] = [pc |-> "intent", req |-> r, flipped |-> FALSE]
        /\ worker' = [worker EXCEPT ![w] = worker'[w]]
        /\ worker'[w] \in WorkerState
    BY <1>0, <1>1 DEF Claim, TypeOK, WorkerState
  <2> QED
    BY <1>0, <1>1, <2>1 DEF WorkerEffect, Claim, TypeOK
<1>2. CASE EndTick(w)
  BY <1>0, <1>2 DEF WorkerEffect, EndTick, TypeOK
<1>3. CASE Commit(w)
  BY <1>0, <1>3 DEF WorkerEffect, Commit, MarkExecuted
<1>4. CASE CheckIntent(w)
  BY <1>0, <1>4 DEF WorkerEffect, CheckIntent
<1>5. CASE ReadKey(w)
  BY <1>0, <1>5 DEF WorkerEffect, ReadKey
<1>6. CASE ClearProtection(w)
  <2>1. CASE Release(w)
    BY <1>0, <1>6, <2>1 DEF WorkerEffect, ClearProtection, KeyWrite, FlagWrite
  <2>2. CASE /\ worker' = [worker EXCEPT ![w] =
                  [pc |-> "delete", req |-> @.req, flipped |-> TRUE]]
             /\ UNCHANGED tried
    <3>1. /\ worker' = [worker EXCEPT ![w] = worker'[w]]
          /\ worker'[w].req = worker[w].req
          /\ worker'[w] \in WorkerState
      BY <1>0, <2>2 DEF TypeOK, WorkerState
    <3> QED
      BY <1>0, <1>6, <2>2, <3>1 DEF WorkerEffect, ClearProtection, TypeOK, KeyWrite, FlagWrite
  <2> QED
    BY <1>6, <2>1, <2>2 DEF ClearProtection
<1>7. CASE ClearProtectionFails(w)
  BY <1>0, <1>7 DEF WorkerEffect, ClearProtectionFails, KeyWrite, FlagWrite
<1>8. CASE DeleteKey(w)
  BY <1>0, <1>8 DEF WorkerEffect, DeleteKey, AfterFailedDelete, KeyWrite, FlagWrite
<1>9. CASE DeleteFails(w)
  BY <1>0, <1>9 DEF WorkerEffect, DeleteFails, AfterFailedDelete, KeyWrite, FlagWrite
<1>10. CASE RestoreProtection(w)
  BY <1>0, <1>10 DEF WorkerEffect, RestoreProtection, KeyWrite, FlagWrite
<1>11. CASE ExecutionFails(w)
  BY <1>0, <1>11 DEF WorkerEffect, ExecutionFails
<1>12. CASE Crash(w)
  BY <1>0, <1>12 DEF WorkerEffect, Crash, TypeOK, WorkerIdle, WorkerState
<1> QED
  BY <1>1, <1>2, <1>3, <1>4, <1>5, <1>6, <1>7, <1>8, <1>9, <1>10, <1>11, <1>12
  DEF WorkerStep

-----------------------------------------------------------------------------
(* The initial state has the declared types.                               *)
LEMMA TypeInit == Init => TypeOK
  BY ConstantsAssumption
  DEF Init, TypeOK, NewKey, VaultKey, NoRow, Row, NoAction, Action,
      RequesterIdle, DeciderIdle, WorkerIdle, ObservationStatus,
      RequesterState, DeciderState, WorkerState

(* Every step keeps the types, given that processes hold existing rows.    *)
LEMMA TypeStep == Typed /\ [Next]_vars => TypeOK'
<1> SUFFICES ASSUME Typed, [Next]_vars PROVE TypeOK'
  OBVIOUS
<1>0. TypeOK
  BY DEF Typed
<1> USE DEF triggers, workers, processes, ghosts
<1> USE <1>0
<1>1. ASSUME NEW k \in Key, KeyStep(k) PROVE TypeOK'
  <2>1. CASE CreateKey(k)
    BY <2>1 DEF TypeOK, CreateKey, NewKey, VaultKey
  <2>2. CASE RotateKey(k)
    <3>1. vault' \in [Key -> VaultKey]
      BY <2>2 DEF TypeOK, RotateKey, VaultKey
    <3> QED
      BY <2>2, <3>1 DEF TypeOK, RotateKey
  <2>3. ASSUME NEW status \in ObservationStatus, RecordRun(k, status)
        PROVE TypeOK'
    BY <2>3 DEF TypeOK, RecordRun
  <2>4. CASE AcceptException(k)
    <3>1. action' \in [Key -> Action]
      BY <2>4 DEF TypeOK, AcceptException, Exception, Action
    <3> QED
      BY <2>4, <3>1 DEF TypeOK, AcceptException
  <2>5. CASE ExceptionExpires(k)
    <3>1. action' \in [Key -> Action]
      BY <2>5 DEF TypeOK, ExceptionExpires, Action
    <3> QED
      BY <2>5, <3>1 DEF TypeOK, ExceptionExpires
  <2>6. CASE ArchivePolicy(k)
    BY <2>6 DEF TypeOK, ArchivePolicy
  <2> QED
    BY <1>1, <2>1, <2>2, <2>3, <2>4, <2>5, <2>6 DEF KeyStep
<1>2. ASSUME NEW a \in App, AppStep(a) PROVE TypeOK'
  BY <1>2 DEF TypeOK, AppStep, InitiateOffboarding, CompleteOffboarding,
               DeleteApplication
<1>3. ASSUME NEW r \in Request, RequestStep(r) PROVE TypeOK'
  <2>1. CASE AuthorizeControlGroup(r)
    <3>1. approvals' \in [Request -> Row]
      BY <2>1 DEF TypeOK, AuthorizeControlGroup, Row
    <3> QED
      BY <2>1, <3>1 DEF TypeOK, AuthorizeControlGroup
  <2>2. ASSUME NEW k \in Key, NEW cg \in {"none", "requested"},
               RegisterRequest(r, k, cg)
        PROVE TypeOK'
    <3>1. approvals' \in [Request -> Row]
      BY <2>2 DEF TypeOK, RegisterRequest, Row, NoRow
    <3> QED
      BY <2>2, <3>1 DEF TypeOK, RegisterRequest
  <2> QED
    BY <1>3, <2>1, <2>2 DEF RequestStep
<1>4. ASSUME NEW q \in Requester, RequesterStep(q) PROVE TypeOK'
  <2> USE ConstantsAssumption
  <2>1. ASSUME NEW k \in Key, NEW origin \in {"direct", "reconcile"},
               PinVersion(q, k, origin)
        PROVE TypeOK'
    <3>1. vault[k].version \in Nat /\ vault[k].gen \in Nat
      BY DEF TypeOK, VaultKey
    <3>2. requester' \in [Requester -> RequesterState]
      BY <2>1, <3>1 DEF TypeOK, PinVersion, RequesterState
    <3> QED
      BY <2>1, <3>2 DEF TypeOK, PinVersion, Fault
  <2>2. ASSUME NEW r \in Request, InsertRequest(q, r) PROVE TypeOK'
    <3>1. approvals' \in [Request -> Row]
      BY <2>2 DEF TypeOK, InsertRequest, RequesterState, Row
    <3>2. requester' \in [Requester -> RequesterState]
      BY <2>2 DEF TypeOK, InsertRequest, RequesterState, RequesterIdle
    <3> QED
      BY <2>2, <3>1, <3>2 DEF TypeOK, InsertRequest
  <2>3. RequesterIdle \in RequesterState /\ Reconcile("applied") \in Action
        /\ Reconcile("failed") \in Action
    BY DEF RequesterIdle, RequesterState, Reconcile, Action
  <2>4. CASE RecordReconcile(q)
    BY <2>3, <2>4 DEF TypeOK, RecordReconcile
  <2>5. CASE RequestFails(q)
    <3>1. action' \in [Key -> Action]
      BY <2>3, <2>5 DEF TypeOK, RequestFails
    <3> QED
      BY <2>3, <2>5, <3>1 DEF TypeOK, RequestFails, Fault
  <2> QED
    BY <1>4, <2>1, <2>2, <2>4, <2>5 DEF RequesterStep
<1>5. ASSUME NEW d \in Decider, DeciderStep(d) PROVE TypeOK'
  <2>1. decider' \in [Decider -> DeciderState]
    BY <1>5 DEF TypeOK, DeciderStep, BeginApprove, BeginDeny, ReadPending,
        verifyApprovalGate, WriteApproved, WriteRejected, WriteDecision,
        DecisionFails, DeciderState, DeciderIdle
  <2>2. approvals' \in [Request -> Row]
    BY <1>5 DEF TypeOK, DeciderStep, BeginApprove, BeginDeny, ReadPending,
        verifyApprovalGate, WriteApproved, WriteRejected, WriteDecision,
        DecisionFails, Row
  <2>3. /\ UNCHANGED <<vault, triggers, requester, workers, stripped>>
        /\ faults' \in 0..MaxFaults
    BY <1>5, ConstantsAssumption
    DEF TypeOK, DeciderStep, BeginApprove, BeginDeny, ReadPending,
        verifyApprovalGate, WriteApproved, WriteRejected, WriteDecision,
        DecisionFails, Fault
  <2> QED
    BY <2>1, <2>2, <2>3 DEF TypeOK
<1>6. ASSUME NEW w \in Worker, WorkerStep(w) PROVE TypeOK'
  <2>1. WorkerEffect(w)
    BY <1>6, WorkerStepEffect
  <2>2. worker[w].pc # "claim" =>
          worker[w].req \in Request /\ approvals[worker[w].req].key \in Key
    BY DEF Typed, WellFormed
  <2>3. vault' \in [Key -> VaultKey]
    BY <2>1, <2>2, KeyWriteTypes DEF WorkerEffect, TypeOK, KeyWrite
  <2>4. approvals' \in [Request -> Row]
    BY <2>1, <2>2, MarkExecutedTypes DEF WorkerEffect, TypeOK
  <2>5. worker' \in [Worker -> WorkerState]
    BY <2>1 DEF WorkerEffect, TypeOK
  <2>6. stripped' \subseteq Key
    BY <2>1, <2>2 DEF WorkerEffect, TypeOK
  <2>7. faults' \in 0..MaxFaults
    BY <2>1, ConstantsAssumption DEF WorkerEffect, TypeOK, Fault
  <2> QED
    BY <2>1, <2>3, <2>4, <2>5, <2>6, <2>7 DEF WorkerEffect, TypeOK
<1>7. CASE UNCHANGED vars
  BY <1>7 DEF TypeOK, vars
<1> QED
  BY <1>1, <1>2, <1>3, <1>4, <1>5, <1>6, <1>7 DEF Next

-----------------------------------------------------------------------------
(***************************************************************************)
(* Every process step, seen from one row: it is filed, authorized, decided *)
(* while no worker holds it, marked executed by the worker that holds it,  *)
(* or left alone.                                                          *)
(***************************************************************************)
RowFiled(r) ==
  /\ ~Filed(r)
  /\ approvals'[r].status = "pending"
  /\ approvals'[r].key \in Key
  /\ ~approvals'[r].executed
  /\ \/ approvals'[r].pin = NoPin /\ approvals'[r].reviewed = 0
     \/ \E q \in Requester :
          /\ requester[q].pc = "insert"
          /\ approvals'[r].key = requester[q].key
          /\ approvals'[r].pin = requester[q].pin
          /\ approvals'[r].reviewed = requester[q].reviewed

RowAuthorized(r) ==
  /\ approvals[r].cg = "requested"
  /\ approvals'[r] = [approvals[r] EXCEPT !.cg = "authorized"]

RowDecided(r) ==
  /\ Filed(r)
  /\ ~Locked(r)
  /\ \E d \in Decider :
       /\ decider[d].req = r
       /\ \/ /\ decider[d].pc = "approve"
             /\ approvals'[r] = [approvals[r] EXCEPT !.status = "approved"]
          \/ /\ decider[d].pc = "deny"
             /\ approvals'[r] = [approvals[r] EXCEPT !.status = "rejected"]

RowExecuted(r) ==
  \E w \in Worker :
    /\ worker[w].pc = "commit"
    /\ worker[w].req = r
    /\ worker' = [worker EXCEPT ![w] = WorkerIdle]
    /\ approvals'[r] = [approvals[r] EXCEPT !.executed = TRUE]

RowStep(r) ==
  \/ approvals'[r] = approvals[r]
  \/ UNCHANGED <<vault, worker>> /\ RowFiled(r)
  \/ UNCHANGED <<vault, worker>> /\ RowAuthorized(r)
  \/ UNCHANGED <<vault, worker>> /\ RowDecided(r)
  \/ UNCHANGED vault /\ RowExecuted(r)

(* Every step has one of the effects above on every row.                   *)
LEMMA RowSteps ==
  ASSUME Typed, [Next]_vars, NEW r \in Request
  PROVE  RowStep(r)
<1> USE DEF triggers, workers, processes, ghosts, RowStep
<1>0. TypeOK
  BY DEF Typed
<1>1. ASSUME NEW k \in Key, KeyStep(k) PROVE UNCHANGED approvals
  BY <1>1 DEF KeyStep, CreateKey, RotateKey, RecordRun, AcceptException,
              ExceptionExpires, ArchivePolicy
<1>2. ASSUME NEW a \in App, AppStep(a) PROVE UNCHANGED approvals
  BY <1>2 DEF AppStep, InitiateOffboarding, CompleteOffboarding, DeleteApplication
<1>3. ASSUME NEW s \in Request, RequestStep(s) PROVE RowStep(r)
  <2>1. CASE AuthorizeControlGroup(s)
    BY <1>0, <2>1 DEF AuthorizeControlGroup, RowAuthorized, TypeOK
  <2>2. ASSUME NEW k \in Key, NEW cg \in {"none", "requested"},
               RegisterRequest(s, k, cg)
        PROVE  RowStep(r)
    <3>1. CASE s = r
      BY <1>0, <2>2, <3>1 DEF RegisterRequest, RowFiled, NextRow, NoRow, TypeOK
    <3>2. CASE s # r
      BY <1>0, <2>2, <3>2 DEF RegisterRequest, TypeOK
    <3> QED
      BY <3>1, <3>2
  <2> QED
    BY <1>3, <2>1, <2>2 DEF RequestStep
<1>4. ASSUME NEW q \in Requester, RequesterStep(q) PROVE RowStep(r)
  <2>1. ASSUME NEW s \in Request, InsertRequest(q, s) PROVE RowStep(r)
    <3>1. CASE s = r
      BY <1>0, <2>1, <3>1, ConstantsAssumption
      DEF InsertRequest, RowFiled, NextRow, TypeOK, Typed, WellFormed
    <3>2. CASE s # r
      BY <1>0, <2>1, <3>2 DEF InsertRequest, TypeOK
    <3> QED
      BY <3>1, <3>2
  <2> QED
    BY <1>4, <2>1 DEF RequesterStep, PinVersion, RecordReconcile, RequestFails
<1>5. ASSUME NEW d \in Decider, DeciderStep(d) PROVE RowStep(r)
  <2>1. CASE WriteApproved(d)
    BY <1>0, <2>1 DEF WriteApproved, WriteDecision, RowDecided, TypeOK, Typed, WellFormed
  <2>2. CASE WriteRejected(d)
    BY <1>0, <2>2 DEF WriteRejected, WriteDecision, RowDecided, TypeOK, Typed, WellFormed
  <2> QED
    BY <1>5, <2>1, <2>2 DEF DeciderStep, BeginApprove, BeginDeny, ReadPending,
       verifyApprovalGate, DecisionFails
<1>6. ASSUME NEW w \in Worker, WorkerStep(w) PROVE RowStep(r)
  <2>1. WorkerEffect(w)
    BY <1>6, WorkerStepEffect
  <2>2. CASE UNCHANGED approvals
    BY <2>2
  <2>3. CASE /\ worker[w].pc = "commit"
             /\ worker'[w] = WorkerIdle
             /\ UNCHANGED vault
             /\ MarkExecuted(worker[w].req)
    <3>1. CASE worker[w].req = r
      BY <1>0, <2>1, <2>3, <3>1 DEF WorkerEffect, MarkExecuted, RowExecuted, TypeOK
    <3>2. CASE worker[w].req # r
      BY <1>0, <2>3, <3>2 DEF MarkExecuted, TypeOK
    <3> QED
      BY <3>1, <3>2
  <2> QED
    BY <2>1, <2>2, <2>3 DEF WorkerEffect
<1> QED
  BY <1>1, <1>2, <1>3, <1>4, <1>5, <1>6 DEF Next, vars

(***************************************************************************)
(* Who took a step, and whose memory it left alone.                        *)
(***************************************************************************)
LEMMA Actors ==
  ASSUME Typed, [Next]_vars
  PROVE  \/ UNCHANGED <<requester, decider, worker, stripped>>
         \/ \E q \in Requester :
              RequesterStep(q) /\ UNCHANGED <<vault, decider, worker, stripped>>
         \/ \E d \in Decider :
              DeciderStep(d) /\ UNCHANGED <<vault, requester, worker, stripped>>
         \/ \E w \in Worker :
              WorkerStep(w) /\ UNCHANGED <<requester, decider>>
<1> USE DEF triggers, workers, processes, ghosts
<1>1. ASSUME NEW k \in Key, KeyStep(k)
      PROVE  UNCHANGED <<requester, decider, worker, stripped>>
  BY <1>1 DEF KeyStep, CreateKey, RotateKey, RecordRun, AcceptException,
              ExceptionExpires, ArchivePolicy
<1>2. ASSUME NEW a \in App, AppStep(a)
      PROVE  UNCHANGED <<requester, decider, worker, stripped>>
  BY <1>2 DEF AppStep, InitiateOffboarding, CompleteOffboarding, DeleteApplication
<1>3. ASSUME NEW r \in Request, RequestStep(r)
      PROVE  UNCHANGED <<requester, decider, worker, stripped>>
  <2>1. CASE AuthorizeControlGroup(r)
    BY <2>1 DEF AuthorizeControlGroup
  <2>2. ASSUME NEW k \in Key, NEW cg \in {"none", "requested"},
               RegisterRequest(r, k, cg)
        PROVE  UNCHANGED <<requester, decider, worker, stripped>>
    BY <2>2 DEF RegisterRequest
  <2> QED
    BY <1>3, <2>1, <2>2 DEF RequestStep
<1>4. ASSUME NEW q \in Requester, RequesterStep(q)
      PROVE  UNCHANGED <<vault, decider, worker, stripped>>
  BY <1>4 DEF RequesterStep, PinVersion, InsertRequest, RecordReconcile, RequestFails
<1>5. ASSUME NEW d \in Decider, DeciderStep(d)
      PROVE  UNCHANGED <<vault, requester, worker, stripped>>
  BY <1>5 DEF DeciderStep, BeginApprove, BeginDeny, ReadPending,
     verifyApprovalGate, WriteApproved, WriteRejected, WriteDecision, DecisionFails
<1>6. ASSUME NEW w \in Worker, WorkerStep(w)
      PROVE  UNCHANGED <<requester, decider>>
  BY <1>6, WorkerStepEffect DEF WorkerEffect
<1> QED
  BY <1>1, <1>2, <1>3, <1>4, <1>5, <1>6 DEF Next, vars

(***************************************************************************)
(* A filed row stays filed, for the same key, version and incarnation.     *)
(***************************************************************************)
LEMMA FiledStays ==
  ASSUME Typed, [Next]_vars, NEW r \in Request, Filed(r)
  PROVE  /\ Filed(r)'
         /\ approvals'[r].key = approvals[r].key
         /\ approvals'[r].pin = approvals[r].pin
         /\ approvals'[r].reviewed = approvals[r].reviewed
         /\ approvals[r].cg # "requested" => approvals'[r].cg # "requested"
<1>1. approvals[r] \in Row /\ RowStep(r)
  BY RowSteps DEF Typed, TypeOK
<1> QED
  BY <1>1 DEF RowStep, RowFiled, RowAuthorized, RowDecided, RowExecuted, Filed, Row

(* Initially no process holds anything.                                    *)
LEMMA WellFormedInit == Init => WellFormed
  BY DEF Init, WellFormed, Filed, NoRow, RequesterIdle, DeciderIdle, WorkerIdle

(* No step gives a process a key or a row that does not exist.             *)
LEMMA WellFormedStep == Typed /\ [Next]_vars => WellFormed'
<1> SUFFICES ASSUME Typed, [Next]_vars PROVE WellFormed'
  OBVIOUS
<1> USE DEF triggers, workers, processes, ghosts
<1>0. TypeOK /\ WellFormed
  BY DEF Typed
<1>1. ASSUME NEW r \in Request
      PROVE  /\ Filed(r)' => approvals'[r].key \in Key
             /\ ~Filed(r)' => approvals'[r] = NoRow
  <2>1. CASE Filed(r)
    BY <1>0, <2>1, FiledStays DEF WellFormed
  <2>2. CASE ~Filed(r)
    <3>1. approvals[r] = NoRow /\ RowStep(r)
      BY <1>0, <2>2, RowSteps DEF WellFormed
    <3>2. CASE RowExecuted(r)
      BY <1>0, <2>2, <3>2 DEF RowExecuted, WellFormed
    <3> QED
      BY <2>2, <3>1, <3>2 DEF RowStep, RowFiled, RowAuthorized, RowDecided, Filed, NoRow
  <2> QED
    BY <2>1, <2>2
<1>2. ASSUME NEW q \in Requester, requester'[q].pc # "idle"
      PROVE  requester'[q].key \in Key
  <2>1. CASE UNCHANGED requester
    BY <1>0, <1>2, <2>1 DEF WellFormed
  <2>2. ASSUME NEW p \in Requester, RequesterStep(p)
        PROVE  requester'[q].key \in Key
    BY <1>0, <1>2, <2>2 DEF RequesterStep, PinVersion, InsertRequest, RecordReconcile,
       RequestFails, TypeOK, WellFormed, RequesterState, RequesterIdle
  <2> QED
    BY <2>1, <2>2, Actors
<1>3. ASSUME NEW d \in Decider, decider'[d].pc # "idle"
      PROVE  decider'[d].req \in Request /\ Filed(decider[d].req)'
  <2>1. CASE UNCHANGED decider
    BY <1>0, <1>3, <2>1, FiledStays DEF WellFormed
  <2>2. ASSUME NEW e \in Decider, DeciderStep(e)
        PROVE  decider'[d].req \in Request /\ Filed(decider'[d].req)
    BY <1>0, <1>3, <2>2 DEF DeciderStep, BeginApprove, BeginDeny, ReadPending,
       verifyApprovalGate, WriteApproved, WriteRejected, WriteDecision,
       DecisionFails, TypeOK, WellFormed, DeciderState, DeciderIdle, Filed
  <2> QED
    BY <2>1, <2>2, Actors, FiledStays
<1>4. ASSUME NEW w \in Worker, worker'[w].pc # "claim"
      PROVE  worker'[w].req \in Request /\ Filed(worker[w].req)'
  <2>1. CASE UNCHANGED worker
    BY <1>0, <1>4, <2>1, FiledStays DEF WellFormed
  <2>2. ASSUME NEW v \in Worker, WorkerStep(v)
        PROVE  worker'[w].req \in Request /\ Filed(worker'[w].req)
    <3>1. WorkerEffect(v)
      BY <2>2, WorkerStepEffect
    <3> QED
      BY <1>0, <1>4, <3>1 DEF WorkerEffect, TypeOK, WellFormed, WorkerState,
         WorkerIdle, Claimable, Filed
  <2> QED
    BY <2>1, <2>2, Actors, FiledStays
<1> QED
  BY <1>1, <1>2, <1>3, <1>4 DEF WellFormed

(* Types and well-formedness, the base of every other invariant.           *)
LEMMA AlwaysTyped == Spec => []Typed
<1>1. Init => Typed
  BY TypeInit, WellFormedInit DEF Typed
<1>2. Typed /\ [Next]_vars => Typed'
  BY TypeStep, WellFormedStep DEF Typed
<1> QED
  BY <1>1, <1>2, PTL DEF Spec

(***************************************************************************)
(* Every variable keeps its type, whatever the processes do.               *)
(***************************************************************************)
THEOREM TypeCorrect == Spec => []TypeOK
  BY AlwaysTyped, PTL DEF Typed

-----------------------------------------------------------------------------
(* The row lock                                                            *)

(* The row lock keeps a claimed row frozen and its worker alone with it.   *)
LEMMA LockingStep == Typed /\ Locking /\ [Next]_vars => Locking'
<1> SUFFICES ASSUME Typed, Locking, [Next]_vars PROVE Locking'
  OBVIOUS
<1>0. TypeOK /\ WellFormed /\ ClaimedRowFrozen /\ SingleExecutor
  BY DEF Typed, Locking
<1>1. CASE UNCHANGED worker
  <2>1. ASSUME NEW w \in Worker, worker[w].pc # "claim"
        PROVE  approvals'[worker[w].req].status = "approved"
               /\ ~approvals'[worker[w].req].executed
    <3> DEFINE r == worker[w].req
    <3>1. r \in Request /\ Filed(r) /\ Locked(r)
      BY <1>0, <2>1 DEF WellFormed, Locked
    <3>2. approvals[r].status = "approved" /\ ~approvals[r].executed
      BY <1>0, <2>1 DEF ClaimedRowFrozen
    <3>3. approvals[r] \in Row /\ RowStep(r)
      BY <1>0, <3>1, RowSteps DEF TypeOK
    <3>4. ~RowExecuted(r)
      BY <1>0, <1>1 DEF RowExecuted, TypeOK, WorkerIdle, WorkerState
    <3> QED
      BY <3>1, <3>2, <3>3, <3>4 DEF RowStep, RowFiled, RowAuthorized, RowDecided, Row
  <2> QED
    BY <1>0, <1>1, <2>1 DEF Locking, ClaimedRowFrozen, SingleExecutor
<1>2. ASSUME NEW w \in Worker, WorkerStep(w) PROVE Locking'
  <2>1. WorkerEffect(w)
    BY <1>2, WorkerStepEffect
  <2>2. CASE worker[w].pc = "claim"
    <3>1. CASE UNCHANGED worker
      BY <1>1, <3>1
    <3>2. ASSUME NEW r \in Request, Claimable(w, r),
                 worker'[w] = [pc |-> "intent", req |-> r, flipped |-> FALSE]
          PROVE  Locking'
      BY <1>0, <2>1, <2>2, <3>2
      DEF Locking, ClaimedRowFrozen, SingleExecutor, Claimable, Locked, WorkerEffect, TypeOK
    <3> QED
      BY <2>1, <2>2, <3>1, <3>2 DEF WorkerEffect
  <2>3. CASE worker[w].pc # "claim"
    <3>1. \A v \in Worker : v # w => worker'[v] = worker[v]
      BY <1>0, <2>1 DEF WorkerEffect, TypeOK
    <3>2. worker'[w] = WorkerIdle \/ worker'[w].req = worker[w].req
      BY <2>1, <2>3 DEF WorkerEffect
    <3>3. SingleExecutor'
      BY <1>0, <2>3, <3>1, <3>2 DEF SingleExecutor, WorkerIdle
    <3>4. ASSUME NEW v \in Worker, worker'[v].pc # "claim"
          PROVE  UNCHANGED approvals
                 \/ /\ v # w
                    /\ worker[v].req # worker[w].req
                    /\ MarkExecuted(worker[w].req)
      BY <1>0, <2>1, <2>3, <3>1, <3>4 DEF WorkerEffect, SingleExecutor, WorkerIdle
    <3>5. ASSUME NEW v \in Worker, worker'[v].pc # "claim"
          PROVE  worker[v].pc # "claim" /\ worker'[v].req = worker[v].req
      BY <2>3, <3>1, <3>2, <3>5 DEF WorkerIdle
    <3>6. ClaimedRowFrozen'
      BY <1>0, <3>4, <3>5 DEF ClaimedRowFrozen, WellFormed, MarkExecuted, TypeOK
    <3> QED
      BY <3>3, <3>6 DEF Locking
  <2> QED
    BY <2>2, <2>3
<1> QED
  BY <1>1, <1>2, Actors

(* The row lock as an invariant.                                           *)
LEMMA AlwaysLocking == Spec => []Locking
<1>1. Init => Locking
  BY DEF Init, Locking, ClaimedRowFrozen, SingleExecutor, WorkerIdle
<1> QED
  BY <1>1, LockingStep, AlwaysTyped, PTL DEF Spec

(***************************************************************************)
(* While a worker works on a request the row stays approved and            *)
(* unexecuted, for any number of deciders and workers.                     *)
(***************************************************************************)
THEOREM RowFrozen == Spec => []ClaimedRowFrozen
  BY AlwaysLocking, PTL DEF Locking

(***************************************************************************)
(* No two workers process the same request at the same time.               *)
(***************************************************************************)
THEOREM OneExecutor == Spec => []SingleExecutor
  BY AlwaysLocking, PTL DEF Locking

-----------------------------------------------------------------------------
(* The Control Group                                                       *)

(* No step revokes what the gate has seen.                                 *)
LEMMA GateStep == Typed /\ GateHeld /\ [Next]_vars => GateHeld'
<1> SUFFICES ASSUME Typed, GateHeld, [Next]_vars PROVE GateHeld'
  OBVIOUS
<1>0. TypeOK /\ WellFormed
  BY DEF Typed
<1>1. ASSUME NEW d \in Decider, decider'[d].pc = "approve"
      PROVE  approvals[decider'[d].req].cg # "requested"
             /\ decider'[d].req \in Request /\ Filed(decider[d].req)
             /\ decider'[d].req = decider[d].req
  <2>1. CASE UNCHANGED decider
    BY <1>0, <1>1, <2>1 DEF GateHeld, WellFormed
  <2>2. ASSUME NEW e \in Decider, DeciderStep(e)
        PROVE  /\ approvals[decider'[d].req].cg # "requested"
               /\ decider'[d].req = decider[d].req
               /\ decider[d].pc # "idle"
    BY <1>0, <1>1, <2>2 DEF DeciderStep, BeginApprove, BeginDeny, ReadPending,
       verifyApprovalGate, GatePasses, WriteApproved, WriteRejected, WriteDecision,
       DecisionFails, TypeOK, GateHeld, DeciderState, DeciderIdle
  <2> QED
    BY <1>0, <2>1, <2>2, Actors DEF WellFormed
<1>2. ASSUME NEW r \in Request, approvals'[r].status = "approved"
      PROVE  approvals'[r].cg # "requested"
  <2>1. approvals[r] \in Row /\ RowStep(r)
    BY <1>0, RowSteps DEF TypeOK
  <2> QED
    BY <1>2, <2>1 DEF GateHeld, ApprovalHasControlGroup, RowStep, RowFiled,
       RowAuthorized, RowDecided, RowExecuted, Row
<1>3. ASSUME NEW d \in Decider, decider'[d].pc = "approve"
      PROVE  approvals'[decider'[d].req].cg # "requested"
  BY <1>1, <1>3, FiledStays
<1> QED
  BY <1>2, <1>3 DEF GateHeld, ApprovalHasControlGroup

(***************************************************************************)
(* A request behind a Control Group is approved only once Vault has        *)
(* authorized that group.                                                  *)
(***************************************************************************)
THEOREM ControlGroupGate == Spec => []ApprovalHasControlGroup
<1>1. Init => GateHeld
  BY DEF Init, GateHeld, ApprovalHasControlGroup, DeciderIdle, NoRow
<1>2. GateHeld => ApprovalHasControlGroup
  BY DEF GateHeld
<1> QED
  BY <1>1, <1>2, GateStep, AlwaysTyped, PTL DEF Spec

-----------------------------------------------------------------------------
(* Pins, incarnations and what executed_at promises                        *)

(***************************************************************************)
(* Only key operators and workers write to Vault.                          *)
(***************************************************************************)
LEMMA VaultWriters ==
  ASSUME Typed, [Next]_vars
  PROVE  \/ UNCHANGED vault
         \/ \E k \in Key : UNCHANGED workers /\ (CreateKey(k) \/ RotateKey(k))
         \/ \E w \in Worker : WorkerStep(w)
<1> USE DEF triggers, workers, processes, ghosts
<1>1. ASSUME NEW k \in Key, KeyStep(k)
      PROVE  \/ UNCHANGED vault
             \/ UNCHANGED workers /\ (CreateKey(k) \/ RotateKey(k))
  BY <1>1 DEF KeyStep, CreateKey, RotateKey, RecordRun, AcceptException,
              ExceptionExpires, ArchivePolicy
<1>2. ASSUME NEW a \in App, AppStep(a) PROVE UNCHANGED vault
  BY <1>2 DEF AppStep, InitiateOffboarding, CompleteOffboarding, DeleteApplication
<1>3. ASSUME NEW r \in Request, RequestStep(r) PROVE UNCHANGED vault
  <2>1. CASE AuthorizeControlGroup(r)
    BY <2>1 DEF AuthorizeControlGroup
  <2>2. ASSUME NEW k \in Key, NEW cg \in {"none", "requested"},
               RegisterRequest(r, k, cg)
        PROVE  UNCHANGED vault
    BY <2>2 DEF RegisterRequest
  <2> QED
    BY <1>3, <2>1, <2>2 DEF RequestStep
<1>4. ASSUME NEW q \in Requester, RequesterStep(q) PROVE UNCHANGED vault
  BY <1>4 DEF RequesterStep, PinVersion, InsertRequest, RecordReconcile, RequestFails
<1>5. ASSUME NEW d \in Decider, DeciderStep(d) PROVE UNCHANGED vault
  BY <1>5 DEF DeciderStep, BeginApprove, BeginDeny, ReadPending,
     verifyApprovalGate, WriteApproved, WriteRejected, WriteDecision, DecisionFails
<1> QED
  BY <1>1, <1>2, <1>3, <1>4, <1>5 DEF Next, vars

(***************************************************************************)
(* An incarnation is never followed by an earlier one, and one that is     *)
(* gone stays gone: creating the name again starts the next one.           *)
(***************************************************************************)
KeyStays(k) ==
  \/ vault'[k].gen = vault[k].gen /\ (vault'[k].version # 0 => Live(k))
  \/ vault'[k].gen = vault[k].gen + 1

(* Every step keeps every key in order.                                    *)
LEMMA KeySteps ==
  ASSUME Typed, [Next]_vars, NEW k \in Key
  PROVE  KeyStays(k)
<1>0. TypeOK /\ WellFormed
  BY DEF Typed
<1>1. CASE UNCHANGED vault
  BY <1>0, <1>1 DEF KeyStays, Live
<1>2. ASSUME NEW j \in Key, CreateKey(j) PROVE KeyStays(k)
  BY <1>0, <1>2 DEF CreateKey, NewKey, KeyStays, Live, TypeOK, VaultKey
<1>3. ASSUME NEW j \in Key, RotateKey(j) PROVE KeyStays(k)
  BY <1>0, <1>3 DEF RotateKey, KeyStays, Live, TypeOK, VaultKey
<1>4. ASSUME NEW j \in Key, KeyWrite(j) PROVE KeyStays(k)
  BY <1>0, <1>4 DEF KeyWrite, FlagWrite, GoneKey, KeyStays, Live, TypeOK, VaultKey
<1>5. ASSUME NEW w \in Worker, WorkerStep(w)
      PROVE  UNCHANGED vault \/ \E j \in Key : KeyWrite(j)
  BY <1>0, <1>5, WorkerStepEffect DEF WorkerEffect, WellFormed, KeyWrite
<1> QED
  BY <1>1, <1>2, <1>3, <1>4, <1>5, VaultWriters

(* Incarnations are counted upwards.                                       *)
LEMMA GenGrows ==
  ASSUME Typed, [Next]_vars, NEW k \in Key
  PROVE  /\ vault[k].gen \in Nat
         /\ vault'[k].gen \in Nat
         /\ vault'[k].gen >= vault[k].gen
<1>1. vault[k].gen \in Nat
  BY DEF Typed, TypeOK, VaultKey
<1> QED
  BY <1>1, KeySteps DEF KeyStays

(***************************************************************************)
(* Reading a key that is alive gives a pin; what was read stays behind     *)
(* Vault.                                                                  *)
(***************************************************************************)
LEMMA ReadStays ==
  ASSUME Typed, [Next]_vars, NEW k \in Key, NEW pin, NEW reviewed \in Nat,
         Read(k, pin, reviewed)
  PROVE  reviewed <= vault'[k].gen /\ (pin = NoPin <=> reviewed = 0)
  BY GenGrows DEF Read

(* No step breaks the pairing of pins and incarnations.                    *)
LEMMA PinsStep == Typed /\ PinsKnown /\ [Next]_vars => PinsKnown'
<1> SUFFICES ASSUME Typed, PinsKnown, [Next]_vars PROVE PinsKnown'
  OBVIOUS
<1>0. TypeOK /\ WellFormed
  BY DEF Typed
<1>1. ASSUME NEW k \in Key PROVE vault'[k].gen >= 1
  BY GenGrows DEF PinsKnown
<1>2. ASSUME NEW q \in Requester, requester[q].pc # "idle"
      PROVE  /\ requester[q].key \in Key
             /\ requester[q].reviewed <= vault'[requester[q].key].gen
             /\ requester[q].pin = NoPin <=> requester[q].reviewed = 0
  <2>1. requester[q].key \in Key /\ requester[q].reviewed \in Nat
    BY <1>0, <1>2 DEF WellFormed, TypeOK, RequesterState
  <2> QED
    BY <1>2, <2>1, ReadStays DEF PinsKnown
<1>3. ASSUME NEW q \in Requester, requester'[q].pc # "idle"
      PROVE  /\ requester'[q].reviewed <= vault'[requester'[q].key].gen
             /\ requester'[q].pin = NoPin <=> requester'[q].reviewed = 0
  <2>1. CASE UNCHANGED requester
    BY <1>2, <1>3, <2>1
  <2>2. ASSUME NEW p \in Requester, RequesterStep(p), UNCHANGED vault
        PROVE  \/ requester[q].pc # "idle"
                  /\ requester'[q].key = requester[q].key
                  /\ requester'[q].pin = requester[q].pin
                  /\ requester'[q].reviewed = requester[q].reviewed
               \/ \E k \in Key :
                    /\ requester'[q].key = k
                    /\ \/ requester'[q].pin = vault[k].version
                          /\ requester'[q].reviewed = (IF Live(k) THEN vault[k].gen ELSE 0)
                       \/ requester'[q].pin = NoPin /\ requester'[q].reviewed = 0
    <3>1. ASSUME NEW k \in Key, NEW origin \in {"direct", "reconcile"},
                 PinVersion(p, k, origin), p = q
          PROVE  /\ requester'[q].key = k
                 /\ \/ requester'[q].pin = vault[k].version
                       /\ requester'[q].reviewed = (IF Live(k) THEN vault[k].gen ELSE 0)
                    \/ requester'[q].pin = NoPin /\ requester'[q].reviewed = 0
      BY <1>0, <3>1 DEF PinVersion, TypeOK
    <3>2. CASE p # q
      BY <1>0, <1>3, <2>2, <3>2 DEF RequesterStep, PinVersion, InsertRequest,
         RecordReconcile, RequestFails, TypeOK
    <3>3. ASSUME NEW r \in Request, InsertRequest(q, r)
          PROVE  /\ requester[q].pc # "idle"
                 /\ requester'[q].key = requester[q].key
                 /\ requester'[q].pin = requester[q].pin
                 /\ requester'[q].reviewed = requester[q].reviewed
      BY <1>0, <1>3, <3>3 DEF InsertRequest, TypeOK, RequesterState, RequesterIdle
    <3>4. ~RecordReconcile(q) /\ ~RequestFails(q)
      BY <1>0, <1>3 DEF RecordReconcile, RequestFails, TypeOK, RequesterIdle
    <3> QED
      BY <2>2, <3>1, <3>2, <3>3, <3>4 DEF RequesterStep
  <2>3. \A k \in Key : vault[k].gen \in Nat /\ vault[k].gen >= 1
    BY <1>0, GenGrows DEF PinsKnown
  <2> QED
    BY <1>2, <1>3, <2>1, <2>2, <2>3, Actors DEF Live
<1>4. ASSUME NEW r \in Request, Filed(r)'
      PROVE  /\ approvals'[r].reviewed <= vault'[approvals'[r].key].gen
             /\ approvals'[r].pin = NoPin <=> approvals'[r].reviewed = 0
  <2>1. CASE Filed(r)
    <3>1. approvals[r].key \in Key /\ approvals[r].reviewed \in Nat
      BY <1>0, <2>1 DEF WellFormed, TypeOK, Row
    <3> QED
      BY <2>1, <3>1, FiledStays, ReadStays DEF PinsKnown
  <2>2. CASE ~Filed(r)
    <3>1. approvals[r] = NoRow /\ RowStep(r)
      BY <1>0, <2>2, RowSteps DEF WellFormed
    <3>2. ~RowExecuted(r)
      BY <1>0, <2>2 DEF RowExecuted, WellFormed
    <3>3. RowFiled(r)
      BY <1>4, <2>2, <3>1, <3>2 DEF RowStep, RowAuthorized, RowDecided, Filed, NoRow
    <3> QED
      BY <1>1, <1>2, <3>3, GenGrows DEF RowFiled
  <2> QED
    BY <2>1, <2>2
<1>5. ASSUME NEW w \in Worker, worker'[w].pc \in {"protect", "delete", "restore"}
      PROVE  /\ approvals[worker'[w].req].pin # NoPin
             /\ worker'[w].req = worker[w].req
             /\ worker[w].pc # "claim"
  <2>1. CASE UNCHANGED worker
    BY <1>5, <2>1 DEF PinsKnown
  <2>2. ASSUME NEW v \in Worker, WorkerStep(v)
        PROVE  /\ approvals[worker'[w].req].pin # NoPin
               /\ worker'[w].req = worker[w].req
               /\ worker[w].pc # "claim"
    <3>1. WorkerEffect(v)
      BY <2>2, WorkerStepEffect
    <3>2. CASE v # w
      BY <1>0, <1>5, <3>1, <3>2 DEF WorkerEffect, PinsKnown, TypeOK
    <3>3. CASE v = w
      <4>1. worker[w].pc # "claim" /\ worker'[w].req = worker[w].req
        BY <1>0, <1>5, <3>1, <3>3 DEF WorkerEffect, WorkerIdle, TypeOK
      <4>2. CASE worker[w].pc \in {"protect", "delete", "restore"}
        BY <4>1, <4>2 DEF PinsKnown
      <4>3. CASE worker[w].pc \notin {"protect", "delete", "restore"}
        <5>1. ReadKey(w)
          BY <1>5, <3>1, <3>3, <4>3 DEF WorkerEffect
        <5>2. approvals[worker[w].req].key \in Key /\ worker[w].req \in Request
          BY <1>0, <4>1 DEF WellFormed
        <5>3. \/ ~Live(approvals[worker[w].req].key)
              \/ vault[approvals[worker[w].req].key].version
                   = approvals[worker[w].req].pin
              \/ worker'[w].pc = "claim"
          BY <1>0, <5>1, <5>2, ReleaseEffect DEF ReadKey, WorkerIdle
        <5>4. Live(approvals[worker[w].req].key)
          BY <1>0, <1>5, <5>1, <5>2, StepToEffect DEF ReadKey
        <5> QED
          BY <1>5, <4>1, <5>3, <5>4 DEF Live
      <4> QED
        BY <4>2, <4>3
    <3> QED
      BY <3>2, <3>3
  <2> QED
    BY <2>1, <2>2, Actors
<1>6. ASSUME NEW w \in Worker, worker'[w].pc \in {"protect", "delete", "restore"}
      PROVE  approvals'[worker'[w].req].pin # NoPin
  BY <1>0, <1>5, <1>6, FiledStays DEF WellFormed
<1> QED
  BY <1>1, <1>3, <1>4, <1>6 DEF PinsKnown, Read

(* The pairing as an invariant.                                            *)
LEMMA AlwaysPinned == Spec => []PinsKnown
<1>1. Init => PinsKnown
  BY DEF Init, PinsKnown, NewKey, RequesterIdle, WorkerIdle, NoRow, Filed
<1> QED
  BY <1>1, PinsStep, AlwaysTyped, PTL DEF Spec

(* No step brings back material whose destruction is on record.            *)
LEMMA GoneStep == Typed /\ Locking /\ PinsKnown /\ MaterialGone /\ [Next]_vars => MaterialGone'
<1> SUFFICES ASSUME Typed, Locking, PinsKnown, MaterialGone, [Next]_vars
             PROVE  MaterialGone'
  OBVIOUS
<1>0. TypeOK /\ WellFormed
  BY DEF Typed
<1>1. ASSUME NEW r \in Request, Filed(r), Gone(r) PROVE Gone(r)'
  <2> DEFINE k == approvals[r].key
  <2>1. k \in Key /\ approvals[r].reviewed \in Nat /\ approvals[r].reviewed <= vault[k].gen
    BY <1>0, <1>1 DEF WellFormed, TypeOK, Row, PinsKnown, Read
  <2>2. KeyStays(k) /\ vault[k].gen \in Nat
    BY <2>1, KeySteps, GenGrows
  <2>3. approvals'[r].key = k /\ approvals'[r].reviewed = approvals[r].reviewed
    BY <1>1, FiledStays
  <2> HIDE DEF k
  <2>4. ~ (vault'[k].version # 0 /\ vault'[k].gen = approvals[r].reviewed)
    BY <1>1, <2>1, <2>2 DEF KeyStays, Gone, Live, k
  <2> QED
    BY <2>3, <2>4 DEF Gone, Live
<1>2. ASSUME NEW w \in Worker, worker'[w].pc = "commit"
      PROVE  /\ worker'[w].req = worker[w].req
             /\ worker[w].req \in Request
             /\ Filed(worker[w].req)
             /\ Gone(worker[w].req) \/ Gone(worker[w].req)'
  <2>1. CASE UNCHANGED worker
    BY <1>0, <1>2, <2>1 DEF MaterialGone, WellFormed
  <2>2. ASSUME NEW v \in Worker, WorkerStep(v), v # w
        PROVE  worker'[w] = worker[w]
    BY <1>0, <2>2, WorkerStepEffect DEF WorkerEffect, TypeOK
  <2>3. ASSUME WorkerStep(w)
        PROVE  /\ worker'[w].req = worker[w].req
               /\ worker[w].pc # "claim"
               /\ Gone(worker[w].req) \/ Gone(worker[w].req)'
    <3>1. WorkerEffect(w)
      BY <2>3, WorkerStepEffect
    <3>2. worker[w].pc # "claim" /\ worker'[w].req = worker[w].req
      BY <1>0, <1>2, <3>1 DEF WorkerEffect, WorkerIdle, TypeOK
    <3>3. worker[w].req \in Request /\ approvals[worker[w].req].key \in Key
      BY <1>0, <3>2 DEF WellFormed
    <3>4. CASE ReadKey(w)
      <4>1. ~Live(approvals[worker[w].req].key)
        BY <1>0, <1>2, <3>3, <3>4, StepToEffect, ReleaseEffect DEF ReadKey
      <4> QED
        BY <3>2, <4>1 DEF Gone
    <3>5. CASE DeleteKey(w)
      <4>1. /\ vault' = [vault EXCEPT ![approvals[worker[w].req].key] = GoneKey(@.gen)]
            /\ UNCHANGED approvals
        BY <1>0, <1>2, <3>3, <3>5, StepToEffect, ReleaseEffect
        DEF DeleteKey, AfterFailedDelete
      <4> QED
        BY <1>0, <3>2, <3>3, <4>1 DEF Gone, Live, GoneKey, TypeOK
    <3> QED
      BY <1>2, <3>1, <3>2, <3>4, <3>5 DEF WorkerEffect
  <2> QED
    BY <1>0, <1>2, <2>1, <2>2, <2>3, Actors DEF MaterialGone, WellFormed
<1>3. ASSUME NEW w \in Worker, worker'[w].pc = "commit"
      PROVE  Gone(worker[w].req)' /\ worker'[w].req = worker[w].req
  BY <1>1, <1>2, <1>3
<1>4. ASSUME NEW r \in Request, approvals'[r].executed
      PROVE  Filed(r)' /\ Gone(r)'
  <2>1. approvals[r] \in Row /\ RowStep(r)
    BY <1>0, RowSteps DEF TypeOK
  <2>2. CASE approvals[r].executed
    BY <1>1, <2>2, FiledStays DEF MaterialGone
  <2>3. CASE ~approvals[r].executed
    <3>1. RowExecuted(r)
      BY <1>4, <2>1, <2>3 DEF RowStep, RowFiled, RowAuthorized, RowDecided, Row
    <3> QED
      BY <1>0, <1>1, <3>1, FiledStays DEF RowExecuted, MaterialGone, WellFormed
  <2> QED
    BY <2>2, <2>3
<1>5. ASSUME NEW w \in Worker, worker'[w].pc = "commit"
      PROVE  ~ (Live(approvals[worker[w].req].key)
                /\ vault[approvals[worker[w].req].key].gen
                     = approvals[worker[w].req].reviewed)'
  BY <1>3, <1>5 DEF Gone
<1> QED
  BY <1>4, <1>5 DEF MaterialGone, Gone

(* Recorded destruction as an invariant.                                   *)
LEMMA AlwaysGone == Spec => []MaterialGone
<1>1. Init => MaterialGone
  BY DEF Init, MaterialGone, WorkerIdle, NoRow
<1> QED
  BY <1>1, GoneStep, AlwaysTyped, AlwaysLocking, AlwaysPinned, PTL DEF Spec

(***************************************************************************)
(* executed_at tells the truth: the material an executed request was filed *)
(* against is gone, for any number of workers, crashes and re-creations.   *)
(***************************************************************************)
THEOREM ExecutionIsTruthful == Spec => []ExecutedMeansGone
<1>1. MaterialGone => ExecutedMeansGone
  BY DEF MaterialGone, ExecutedMeansGone, Gone
<1> QED
  BY <1>1, AlwaysGone, PTL

-----------------------------------------------------------------------------
(* Who destroys a key                                                      *)

(***************************************************************************)
(* Past the intent check, the application of a worker's key is registered: *)
(* the check saw it, and its DELETE waits for the worker's row lock.       *)
(***************************************************************************)
StillRegistered ==
  \A w \in Worker : worker[w].pc \notin {"claim", "intent"} =>
    Registered(approvals[worker[w].req].key)

(* An application with a claimed request is not deleted.                   *)
LEMMA DeletionWaits ==
  ASSUME Typed, [Next]_vars, NEW k \in Key, Registered(k),
         NEW w \in Worker, worker[w].pc # "claim",
         approvals[worker[w].req].key = k
  PROVE  Registered(k)'
<1> USE DEF triggers, workers, processes, ghosts, Registered
<1>0. TypeOK /\ AppOf[k] \in App
  BY ConstantsAssumption DEF Typed
<1>1. ASSUME NEW j \in Key, KeyStep(j) PROVE UNCHANGED stage
  BY <1>1 DEF KeyStep, CreateKey, RotateKey, RecordRun, AcceptException,
              ExceptionExpires, ArchivePolicy
<1>2. ASSUME NEW a \in App, AppStep(a) PROVE Registered(k)'
  <2>1. CASE InitiateOffboarding(a)
    BY <1>0, <2>1 DEF InitiateOffboarding, TypeOK
  <2>2. CASE CompleteOffboarding(a)
    BY <1>0, <2>2 DEF CompleteOffboarding, TypeOK
  <2>3. CASE DeleteApplication(a)
    BY <1>0, <2>3 DEF DeleteApplication, TypeOK
  <2> QED
    BY <1>2, <2>1, <2>2, <2>3 DEF AppStep
<1>3. ASSUME NEW r \in Request, RequestStep(r) PROVE UNCHANGED stage
  BY <1>3 DEF RequestStep, AuthorizeControlGroup, RegisterRequest
<1>4. ASSUME NEW q \in Requester, RequesterStep(q) PROVE UNCHANGED stage
  BY <1>4 DEF RequesterStep, PinVersion, InsertRequest, RecordReconcile, RequestFails
<1>5. ASSUME NEW d \in Decider, DeciderStep(d) PROVE UNCHANGED stage
  BY <1>5 DEF DeciderStep, BeginApprove, BeginDeny, ReadPending,
     verifyApprovalGate, WriteApproved, WriteRejected, WriteDecision, DecisionFails
<1>6. ASSUME NEW v \in Worker, WorkerStep(v) PROVE UNCHANGED stage
  BY <1>6 DEF WorkerStep, Claim, EndTick, CheckIntent, ReadKey, ClearProtection,
     ClearProtectionFails, DeleteKey, DeleteFails, RestoreProtection, Commit,
     ExecutionFails, Crash
<1> QED
  BY <1>1, <1>2, <1>3, <1>4, <1>5, <1>6 DEF Next, vars

(* A worker gets past the intent check only when the check says so.        *)
LEMMA PastIntent ==
  ASSUME Typed, NEW w \in Worker, WorkerStep(w),
         worker'[w].pc \notin {"claim", "intent"}
  PROVE  /\ worker[w].pc # "claim"
         /\ worker'[w].req = worker[w].req
         /\ worker[w].pc = "intent" =>
              hasLiveDestroyIntent(approvals[worker[w].req].key)
<1>1. worker[w] \in WorkerState /\ worker \in [Worker -> WorkerState]
  BY DEF Typed, TypeOK
<1>2. WorkerEffect(w)
  BY WorkerStepEffect
<1>3. worker[w].pc # "claim" /\ worker'[w].req = worker[w].req
  BY <1>1, <1>2 DEF WorkerEffect, WorkerIdle, WorkerState
<1>4. ASSUME worker[w].pc = "intent", ~CheckIntent(w) PROVE FALSE
  BY <1>1, <1>3, <1>4 DEF WorkerStep, Claim, EndTick, ReadKey, ClearProtection,
     ClearProtectionFails, DeleteKey, DeleteFails, RestoreProtection, Commit,
     ExecutionFails, Crash, Release, WorkerIdle
<1>5. ASSUME CheckIntent(w) PROVE hasLiveDestroyIntent(approvals[worker[w].req].key)
  BY <1>1, <1>5 DEF CheckIntent, Release, WorkerIdle
<1> QED
  BY <1>3, <1>4, <1>5

(* Every step keeps the applications of the workers' keys registered.      *)
LEMMA RegisteredStep ==
  Typed /\ StillRegistered /\ [Next]_vars => StillRegistered'
<1> SUFFICES ASSUME Typed, StillRegistered, [Next]_vars,
                    NEW w \in Worker, worker'[w].pc \notin {"claim", "intent"}
             PROVE  Registered(approvals[worker[w].req].key)'
  BY DEF StillRegistered
<1>1. /\ worker[w].pc # "claim"
      /\ worker'[w].req = worker[w].req
      /\ worker[w].pc = "intent" =>
           hasLiveDestroyIntent(approvals[worker[w].req].key)
  <2>1. CASE worker'[w] = worker[w]
    BY <2>1
  <2>2. CASE WorkerStep(w)
    BY <2>2, PastIntent
  <2>3. ASSUME NEW v \in Worker, WorkerStep(v), v # w PROVE worker'[w] = worker[w]
    BY <2>3, WorkerStepEffect DEF WorkerEffect, Typed, TypeOK
  <2> QED
    BY <2>1, <2>2, <2>3, Actors
<1> DEFINE k == approvals[worker[w].req].key
<1>2. worker[w].req \in Request /\ Filed(worker[w].req) /\ k \in Key
  BY <1>1 DEF Typed, WellFormed
<1>3. Registered(k)
  BY <1>1 DEF StillRegistered, hasLiveDestroyIntent, Registered
<1>4. k' = k
  BY <1>1, <1>2, FiledStays
<1>5. Registered(k)'
  <2> HIDE DEF k
  <2>1. approvals[worker[w].req].key = k
    BY DEF k
  <2>2. ASSUME NEW j \in Key, j = k PROVE stage'[AppOf[j]] # "deleted"
    BY <1>1, <1>3, <2>1, <2>2, DeletionWaits DEF Registered
  <2> QED
    BY <1>2, <1>4, <2>2 DEF Registered
<1> QED
  BY <1>5

(* The application of a key being destroyed, as an invariant.              *)
LEMMA AlwaysRegistered == Spec => []StillRegistered
<1>1. Init => StillRegistered
  BY DEF Init, StillRegistered, WorkerIdle
<1> QED
  BY <1>1, RegisteredStep, AlwaysTyped, PTL DEF Spec

(* The step form of DestroyAuthorized.                                     *)
LEMMA DestroyStep ==
  ASSUME Typed, Locking, PinsKnown, StillRegistered, [Next]_vars,
         NEW k \in Key, Destroyed(k)
  PROVE  \E w \in Worker :
           /\ worker[w].pc = "delete"
           /\ approvals[worker[w].req].status = "approved"
           /\ ~approvals[worker[w].req].executed
           /\ approvals[worker[w].req].key = k
           /\ approvals[worker[w].req].pin # NoPin
           /\ Registered(k)
<1>0. TypeOK /\ WellFormed
  BY DEF Typed
<1>1. ~UNCHANGED vault
  BY DEF Destroyed, Live
<1>2. ASSUME NEW j \in Key PROVE ~CreateKey(j) /\ ~RotateKey(j) /\ ~FlagWrite(j)
  <2>1. /\ vault[k].version # 0 /\ vault'[k].version = 0
        /\ vault \in [Key -> VaultKey] /\ vault[j].version \in Nat
    BY <1>0 DEF Destroyed, Live, TypeOK, VaultKey
  <2>2. ~CreateKey(j)
    BY <2>1 DEF CreateKey, NewKey
  <2>3. ~RotateKey(j)
    BY <2>1 DEF RotateKey, VaultKey
  <2>4. ~FlagWrite(j)
    BY <2>1 DEF FlagWrite, VaultKey
  <2> QED
    BY <2>2, <2>3, <2>4
<1>3. PICK w \in Worker : WorkerStep(w)
  BY <1>1, <1>2, VaultWriters
<1>4. worker[w].pc = "delete" /\ KeyWrite(approvals[worker[w].req].key)
  BY <1>0, <1>1, <1>2, <1>3, WorkerStepEffect DEF WorkerEffect, WellFormed
<1>5. worker[w].req \in Request /\ approvals[worker[w].req].key \in Key
  BY <1>0, <1>4 DEF WellFormed
<1>6. approvals[worker[w].req].key = k
  BY <1>0, <1>2, <1>4, <1>5 DEF KeyWrite, Destroyed, Live, TypeOK
<1> QED
  BY <1>4, <1>6 DEF Locking, ClaimedRowFrozen, PinsKnown, StillRegistered

(***************************************************************************)
(* Every destruction of a key is done for a pinned request that is         *)
(* approved and unexecuted at that moment, and whose application is still  *)
(* registered, for any number of processes.                                *)
(***************************************************************************)
THEOREM DestroyAuthorized == Spec => DestroyedOnlyWhileApproved
<1>1. Typed /\ Locking /\ PinsKnown /\ StillRegistered /\ [Next]_vars =>
        [\A k \in Key : Destroyed(k) =>
           \E w \in Worker :
             LET row == approvals[worker[w].req]
             IN  /\ worker[w].pc = "delete"
                 /\ row.status = "approved"
                 /\ ~row.executed
                 /\ row.key = k
                 /\ row.pin # NoPin
                 /\ Registered(k)]_vars
  BY DestroyStep
<1> QED
  BY <1>1, AlwaysTyped, AlwaysLocking, AlwaysPinned, AlwaysRegistered, PTL
  DEF Spec, DestroyedOnlyWhileApproved

-----------------------------------------------------------------------------
(* Deletion protection                                                     *)

InFlight(w) == worker[w].pc \in {"delete", "restore"} /\ worker[w].flipped

(***************************************************************************)
(* If the key a worker works on ends up unprotected, the worker is still   *)
(* responsible for it, has given up on it, or never was the one.           *)
(***************************************************************************)
ProtectionEffect(w, k) ==
  /\ stripped \subseteq stripped'
  /\ vault'[k].version # 0 /\ vault'[k].deletable =>
       \/ k \in stripped'
       \/ InFlight(w)' /\ worker'[w].req = worker[w].req
       \/ Live(k) /\ vault[k].deletable /\ ~InFlight(w)

(* Every worker action has the effect above on the key of its request.     *)
LEMMA ProtectionSteps ==
  ASSUME Typed, NEW w \in Worker, WorkerStep(w), worker[w].pc # "claim",
         NEW k \in Key, k = approvals[worker[w].req].key
  PROVE  ProtectionEffect(w, k)
<1> USE StepToEffect, ReleaseEffect DEF ghosts
<1>0. TypeOK /\ worker[w].req \in Request
  BY DEF Typed, WellFormed
<1>1. CASE Commit(w)
  BY <1>0, <1>1 DEF ProtectionEffect, Commit, InFlight, Live
<1>2. CASE CheckIntent(w)
  BY <1>0, <1>2 DEF ProtectionEffect, CheckIntent, InFlight, Live
<1>3. CASE ReadKey(w)
  BY <1>0, <1>3 DEF ProtectionEffect, ReadKey, InFlight, Live
<1>4. CASE ClearProtection(w)
  BY <1>0, <1>4 DEF ProtectionEffect, ClearProtection, InFlight, Live, TypeOK
<1>5. CASE ClearProtectionFails(w)
  BY <1>0, <1>5 DEF ProtectionEffect, ClearProtectionFails, InFlight, Live
<1>6. CASE DeleteKey(w)
  BY <1>0, <1>6
  DEF ProtectionEffect, DeleteKey, AfterFailedDelete, InFlight, Live, GoneKey, TypeOK
<1>7. CASE DeleteFails(w)
  BY <1>0, <1>7
  DEF ProtectionEffect, DeleteFails, AfterFailedDelete, InFlight, Live, GoneKey, TypeOK
<1>8. CASE RestoreProtection(w)
  <2>1. CASE vault' = [vault EXCEPT ![k].deletable = FALSE] /\ UNCHANGED ghosts
    <3>1. ~vault'[k].deletable
      BY <1>0, <2>1 DEF TypeOK, VaultKey
    <3> QED
      BY <2>1, <3>1 DEF ProtectionEffect
  <2>2. CASE stripped' = stripped \cup {k}
    BY <2>2 DEF ProtectionEffect
  <2> QED
    BY <1>8, <2>1, <2>2 DEF RestoreProtection
<1>9. CASE ExecutionFails(w)
  BY <1>0, <1>9 DEF ProtectionEffect, ExecutionFails, InFlight, Live
<1>10. CASE Crash(w)
  BY <1>0, <1>10 DEF ProtectionEffect, Crash, InFlight, Live
<1>11. ~EndTick(w) /\ \A r \in Request : ~Claim(w, r)
  BY DEF EndTick, Claim
<1> QED
  BY <1>1, <1>2, <1>3, <1>4, <1>5, <1>6, <1>7, <1>8, <1>9, <1>10, <1>11
  DEF WorkerStep

(* No step leaves a live key unprotected with nobody responsible.          *)
LEMMA ProtectionStep ==
  Typed /\ UnprotectedOnlyInFlight /\ [Next]_vars => UnprotectedOnlyInFlight'
<1> SUFFICES ASSUME Typed, UnprotectedOnlyInFlight, [Next]_vars, NEW k \in Key,
                    vault'[k].version # 0, vault'[k].deletable
             PROVE  \/ k \in stripped'
                    \/ \E w \in Worker :
                         InFlight(w)' /\ approvals'[worker'[w].req].key = k
  BY DEF UnprotectedOnlyInFlight, Live, InFlight
<1>0. TypeOK /\ WellFormed
  BY DEF Typed
<1>1. ASSUME NEW w \in Worker, InFlight(w)
      PROVE  /\ worker[w].req \in Request
             /\ approvals'[worker[w].req].key = approvals[worker[w].req].key
             /\ approvals[worker[w].req].key \in Key
  BY <1>0, <1>1, FiledStays DEF WellFormed, InFlight
<1>2. CASE Live(k) /\ vault[k].deletable /\ UNCHANGED <<worker, stripped>>
  BY <1>1, <1>2 DEF UnprotectedOnlyInFlight, InFlight
<1>3. ASSUME NEW w \in Worker, WorkerStep(w)
      PROVE  \/ k \in stripped'
             \/ \E v \in Worker : InFlight(v)' /\ approvals'[worker'[v].req].key = k
  <2>1. WorkerEffect(w)
    BY <1>3, WorkerStepEffect
  <2>2. \A v \in Worker : v # w => worker'[v] = worker[v]
    BY <1>0, <2>1 DEF WorkerEffect, TypeOK
  <2>3. ASSUME Live(k), vault[k].deletable, stripped \subseteq stripped',
               InFlight(w) => approvals[worker[w].req].key # k
        PROVE  \/ k \in stripped'
               \/ \E v \in Worker : InFlight(v)' /\ approvals'[worker'[v].req].key = k
    BY <1>1, <2>2, <2>3 DEF UnprotectedOnlyInFlight, InFlight
  <2>4. CASE worker[w].pc = "claim"
    BY <2>1, <2>3, <2>4 DEF WorkerEffect, InFlight, Live
  <2>5. CASE worker[w].pc # "claim"
    <3> DEFINE j == approvals[worker[w].req].key
    <3>1. /\ worker[w].req \in Request /\ j \in Key
          /\ approvals'[worker[w].req].key = j
      BY <1>0, <2>5, FiledStays DEF WellFormed
    <3>2. ProtectionEffect(w, j)
      BY <1>3, <2>5, <3>1, ProtectionSteps
    <3>3. CASE j = k
      BY <2>3, <3>1, <3>2, <3>3 DEF ProtectionEffect
    <3>4. CASE j # k
      <4>1. vault'[k] = vault[k]
        BY <1>0, <2>1, <2>5, <3>1, <3>4 DEF WorkerEffect, KeyWrite, FlagWrite, TypeOK
      <4> QED
        BY <2>3, <3>2, <3>4, <4>1 DEF ProtectionEffect, Live
    <3> QED
      BY <3>3, <3>4
  <2> QED
    BY <2>4, <2>5
<1>4. ASSUME NEW j \in Key, CreateKey(j) \/ RotateKey(j)
      PROVE  Live(k) /\ vault[k].deletable
  BY <1>0, <1>4 DEF CreateKey, RotateKey, NewKey, Live, TypeOK, VaultKey
<1>5. UNCHANGED vault => Live(k) /\ vault[k].deletable
  BY DEF Live
<1> QED
  BY <1>2, <1>3, <1>4, <1>5, Actors, VaultWriters DEF workers

(***************************************************************************)
(* A live key without deletion protection is one a worker is deleting or   *)
(* restoring right now, or one a fault is on record for.                   *)
(***************************************************************************)
THEOREM ProtectionKept == Spec => []UnprotectedOnlyInFlight
<1>1. Init => UnprotectedOnlyInFlight
  BY DEF Init, UnprotectedOnlyInFlight, NewKey
<1> QED
  BY <1>1, ProtectionStep, AlwaysTyped, PTL DEF Spec

-----------------------------------------------------------------------------
(* Refinement                                                              *)

(* Initial states map to initial states.                                   *)
LEMMA InitImplements == Init => Abstract!Init
<1> SUFFICES ASSUME Init PROVE Abstract!Init
  OBVIOUS
<1>1. incarnation = [k \in Key |-> 1] /\ existing = Key
  BY DEF Init, incarnation, existing, NewKey, Live
<1>2. request = [r \in Request |-> Abstract!Unfiled] /\ executed = {}
  BY DEF Init, request, executed, NoRow, Abstract!Unfiled
<1> QED
  BY <1>1, <1>2 DEF Abstract!Init

(***************************************************************************)
(* Filing a row is the abstract File.                                      *)
(***************************************************************************)
LEMMA FilingImplements ==
  ASSUME Typed, NEW r \in Request, NEW k \in Key, NEW reviewed \in Nat,
         approvals[r] = NoRow, reviewed <= vault[k].gen, UNCHANGED vault,
         NEW row, approvals' = [approvals EXCEPT ![r] = row],
         row.status = "pending", row.key = k, row.reviewed = reviewed,
         ~row.executed
  PROVE  Abstract!Next
<1>0. TypeOK
  BY DEF Typed
<1>1. request[r] = Abstract!Unfiled
  BY DEF request, NoRow, Abstract!Unfiled
<1>2. incarnation[k] = vault[k].gen /\ vault[k].gen \in Nat
  BY <1>0 DEF incarnation, TypeOK, VaultKey
<1>3. request' = [request EXCEPT ![r] =
        [verdict |-> "pending", key |-> k, target |-> reviewed]]
  BY <1>0 DEF request, TypeOK
<1>4. UNCHANGED executed
  BY <1>0 DEF executed, NoRow, TypeOK
<1>5. UNCHANGED <<incarnation, existing>>
  BY DEF incarnation, existing, Live
<1>6. Abstract!File(r, k, reviewed) /\ reviewed \in 0..incarnation[k]
  BY <1>1, <1>2, <1>3, <1>4, <1>5 DEF Abstract!File
<1> QED
  BY <1>6 DEF Abstract!Next

(* Every step maps to an abstract step or to a stutter.                    *)
LEMMA StepImplements ==
  Typed /\ Locking /\ PinsKnown /\ MaterialGone /\ [Next]_vars
    => [Abstract!Next]_Abstract!vars
<1> SUFFICES ASSUME Typed, Locking, PinsKnown, MaterialGone, [Next]_vars
             PROVE  Abstract!Next \/ UNCHANGED Abstract!vars
  OBVIOUS
<1>0. TypeOK /\ WellFormed
  BY DEF Typed
<1> USE DEF triggers, workers, processes, ghosts
<1>m. UNCHANGED vault => UNCHANGED <<incarnation, existing>>
  BY DEF incarnation, existing, Live
<1>r. UNCHANGED approvals => UNCHANGED <<request, executed>>
  BY DEF request, executed
<1>1. ASSUME NEW k \in Key, KeyStep(k)
      PROVE  Abstract!Next \/ UNCHANGED Abstract!vars
  <2>1. CASE CreateKey(k)
    <3>1. /\ vault' = [vault EXCEPT ![k] = NewKey(@.gen + 1)]
          /\ k \notin existing
          /\ UNCHANGED approvals
      BY <2>1 DEF CreateKey, existing
    <3>2. incarnation' = [incarnation EXCEPT ![k] = @ + 1]
      BY <1>0, <3>1 DEF incarnation, NewKey, TypeOK, VaultKey
    <3>3. existing' = existing \cup {k}
      BY <1>0, <3>1 DEF existing, Live, NewKey, TypeOK
    <3>4. Abstract!Create(k)
      BY <1>r, <3>1, <3>2, <3>3 DEF Abstract!Create
    <3> QED
      BY <3>4 DEF Abstract!Next
  <2>2. CASE RotateKey(k)
    <3>1. UNCHANGED <<incarnation, existing>>
      BY <1>0, <2>2 DEF RotateKey, incarnation, existing, Live, TypeOK, VaultKey
    <3> QED
      BY <1>r, <2>2, <3>1 DEF RotateKey, Abstract!vars
  <2>3. ASSUME ~CreateKey(k), ~RotateKey(k) PROVE UNCHANGED <<vault, approvals>>
    BY <1>1, <2>3 DEF KeyStep, RecordRun, AcceptException, ExceptionExpires, ArchivePolicy
  <2> QED
    BY <1>m, <1>r, <2>1, <2>2, <2>3 DEF Abstract!vars
<1>2. ASSUME NEW a \in App, AppStep(a) PROVE UNCHANGED Abstract!vars
  BY <1>2, <1>m, <1>r
  DEF AppStep, InitiateOffboarding, CompleteOffboarding, DeleteApplication,
      Abstract!vars
<1>3. ASSUME NEW r \in Request, RequestStep(r)
      PROVE  Abstract!Next \/ UNCHANGED Abstract!vars
  <2>1. CASE AuthorizeControlGroup(r)
    <3>1. UNCHANGED request
      BY <1>0, <2>1 DEF AuthorizeControlGroup, request, TypeOK, Row
    <3>2. UNCHANGED executed
      BY <1>0, <2>1 DEF AuthorizeControlGroup, executed, TypeOK, Row
    <3> QED
      BY <1>m, <2>1, <3>1, <3>2 DEF AuthorizeControlGroup, Abstract!vars
  <2>2. ASSUME NEW k \in Key, NEW cg \in {"none", "requested"},
               RegisterRequest(r, k, cg)
        PROVE  Abstract!Next
    <3> DEFINE row == [NoRow EXCEPT !.status = "pending", !.key = k, !.cg = cg]
    <3>1. /\ row.status = "pending" /\ row.key = k /\ ~row.executed
          /\ row.reviewed \in Nat /\ row.reviewed = 0
      BY DEF NoRow
    <3>2. approvals[r] = NoRow
      BY <1>0, <2>2 DEF RegisterRequest, NextRow, WellFormed
    <3>3. approvals' = [approvals EXCEPT ![r] = row] /\ UNCHANGED vault
      BY <2>2 DEF RegisterRequest
    <3>4. row.reviewed <= vault[k].gen
      BY <1>0, <3>1 DEF TypeOK, VaultKey
    <3> HIDE DEF row
    <3> QED
      BY <3>1, <3>2, <3>3, <3>4, FilingImplements
  <2> QED
    BY <1>3, <2>1, <2>2 DEF RequestStep
<1>4. ASSUME NEW q \in Requester, RequesterStep(q)
      PROVE  Abstract!Next \/ UNCHANGED Abstract!vars
  <2>1. ASSUME NEW r \in Request, InsertRequest(q, r) PROVE Abstract!Next
    <3> DEFINE k   == requester[q].key
               row == [status |-> "pending", key |-> k,
                       pin |-> requester[q].pin, reviewed |-> requester[q].reviewed,
                       executed |-> FALSE, cg |-> "none"]
    <3>1. /\ row.status = "pending" /\ row.key = k /\ ~row.executed
          /\ row.reviewed = requester[q].reviewed
      OBVIOUS
    <3>2. approvals[r] = NoRow
      BY <1>0, <2>1 DEF InsertRequest, NextRow, WellFormed
    <3>3. approvals' = [approvals EXCEPT ![r] = row] /\ UNCHANGED vault
      BY <2>1 DEF InsertRequest
    <3>4. k \in Key /\ requester[q].reviewed \in Nat /\ requester[q].reviewed <= vault[k].gen
      BY <1>0, <2>1 DEF InsertRequest, WellFormed, PinsKnown, Read, TypeOK, RequesterState
    <3> HIDE DEF row, k
    <3> QED
      BY <3>1, <3>2, <3>3, <3>4, FilingImplements
  <2>2. (\A r \in Request : ~InsertRequest(q, r)) => UNCHANGED <<vault, approvals>>
    BY <1>4 DEF RequesterStep, PinVersion, RecordReconcile, RequestFails
  <2> QED
    BY <1>m, <1>r, <2>1, <2>2 DEF Abstract!vars
<1>5. ASSUME NEW d \in Decider, DeciderStep(d)
      PROVE  Abstract!Next \/ UNCHANGED Abstract!vars
  <2>1. ASSUME NEW pc \in {"approve", "deny"}, NEW verdict \in Decided,
               WriteDecision(d, pc, verdict)
        PROVE  Abstract!Next
    <3> DEFINE r == decider[d].req
    <3>1. r \in Request /\ Filed(r)
      BY <1>0, <2>1 DEF WriteDecision, WellFormed
    <3>2. approvals' = [approvals EXCEPT ![r].status = verdict] /\ UNCHANGED vault
      BY <2>1 DEF WriteDecision
    <3> HIDE DEF r
    <3>3. request[r].verdict # "none"
      BY <3>1 DEF request, Filed
    <3>4. request' = [request EXCEPT ![r].verdict = verdict]
      BY <1>0, <3>1, <3>2 DEF request, TypeOK, Row
    <3>5. UNCHANGED executed
      BY <1>0, <3>1, <3>2 DEF executed, TypeOK, Row
    <3>6. Abstract!Decide(r, verdict)
      BY <1>m, <3>2, <3>3, <3>4, <3>5 DEF Abstract!Decide
    <3> QED
      BY <3>1, <3>6 DEF Abstract!Next, Abstract!Verdict, Decided
  <2>2. (~WriteApproved(d) /\ ~WriteRejected(d)) => UNCHANGED <<vault, approvals>>
    BY <1>5 DEF DeciderStep, BeginApprove, BeginDeny, ReadPending,
       verifyApprovalGate, DecisionFails
  <2> QED
    BY <1>m, <1>r, <2>1, <2>2 DEF WriteApproved, WriteRejected, Decided, Abstract!vars
<1>6. ASSUME NEW w \in Worker, WorkerStep(w)
      PROVE  Abstract!Next \/ UNCHANGED Abstract!vars
  <2> DEFINE r == worker[w].req
             k == approvals[r].key
  <2>1. WorkerEffect(w)
    BY <1>6, WorkerStepEffect
  <2>2. CASE worker[w].pc = "claim"
    BY <1>m, <1>r, <2>1, <2>2 DEF WorkerEffect, Abstract!vars
  <2>3. CASE worker[w].pc # "claim"
    <3>1. /\ r \in Request /\ k \in Key
          /\ approvals[r].status = "approved" /\ ~approvals[r].executed
      BY <1>0, <2>3 DEF WellFormed, Locking, ClaimedRowFrozen
    <3>2. UNCHANGED approvals \/ (worker[w].pc = "commit" /\ UNCHANGED vault /\ MarkExecuted(r))
      BY <2>1, <2>3 DEF WorkerEffect
    <3>3. UNCHANGED vault \/ FlagWrite(k)
          \/ (worker[w].pc = "delete" /\ vault' = [vault EXCEPT ![k] = GoneKey(@.gen)])
      BY <2>1, <2>3 DEF WorkerEffect, KeyWrite
    <3>4. request[r].key = k /\ request[r].target = approvals[r].reviewed
          /\ Abstract!InForce(r)
      BY <3>1 DEF request, executed, Abstract!InForce
    <3>5. worker[w].pc = "commit" => Gone(r)
      BY DEF MaterialGone
    <3>6. worker[w].pc = "delete" => approvals[r].reviewed # 0
      BY <1>0, <3>1 DEF PinsKnown, Read, Filed
    <3> HIDE DEF r
    <3>7. CASE MarkExecuted(r) /\ worker[w].pc = "commit" /\ UNCHANGED vault
      <4>1. UNCHANGED request
        BY <1>0, <3>1, <3>7 DEF request, MarkExecuted, TypeOK, Row
      <4>2. executed' = executed \cup {r}
        BY <1>0, <3>1, <3>7 DEF executed, MarkExecuted, TypeOK, Row
      <4>3. ~Abstract!Exists(k, approvals[r].reviewed)
        BY <3>1, <3>5, <3>7 DEF Abstract!Exists, existing, incarnation, Gone, Live
      <4>4. Abstract!Execute(r)
        BY <1>m, <3>4, <3>7, <4>1, <4>2, <4>3 DEF Abstract!Execute
      <4> QED
        BY <3>1, <4>4 DEF Abstract!Next
    <3> HIDE DEF k
    <3>8. CASE UNCHANGED approvals /\ FlagWrite(k)
      <4>1. \A j \in Key : vault'[j].gen = vault[j].gen
                            /\ vault'[j].version = vault[j].version
        <5>1. CASE vault' = [vault EXCEPT ![k].deletable = TRUE]
          BY <1>0, <3>1, <5>1 DEF TypeOK, VaultKey
        <5>2. CASE vault' = [vault EXCEPT ![k].deletable = FALSE]
          BY <1>0, <3>1, <5>2 DEF TypeOK, VaultKey
        <5> QED
          BY <3>8, <5>1, <5>2 DEF FlagWrite
      <4>2. UNCHANGED <<incarnation, existing>>
        BY <4>1 DEF incarnation, existing, Live
      <4> QED
        BY <1>r, <3>8, <4>2 DEF Abstract!vars
    <3>9. CASE /\ UNCHANGED approvals
               /\ worker[w].pc = "delete"
               /\ vault' = [vault EXCEPT ![k] = GoneKey(@.gen)]
      <4>1. UNCHANGED incarnation
        BY <1>0, <3>1, <3>9 DEF GoneKey, incarnation, TypeOK, VaultKey
      <4>2. existing' = existing \ {k}
        BY <1>0, <3>1, <3>9 DEF GoneKey, existing, Live, TypeOK, VaultKey
      <4>3. CASE k \in existing
        <5>1. Abstract!Destroy(r)
          BY <1>r, <3>4, <3>6, <3>9, <4>1, <4>2, <4>3 DEF Abstract!Destroy
        <5> QED
          BY <3>1, <5>1 DEF Abstract!Next
      <4>4. CASE k \notin existing
        <5>1. UNCHANGED existing
          BY <4>2, <4>4
        <5> QED
          BY <1>r, <3>9, <4>1, <5>1 DEF Abstract!vars
      <4> QED
        BY <4>3, <4>4
    <3> QED
      BY <1>m, <1>r, <3>2, <3>3, <3>7, <3>8, <3>9 DEF Abstract!vars
  <2> QED
    BY <2>2, <2>3
<1>7. CASE UNCHANGED vars
  BY <1>7, <1>m, <1>r DEF vars, Abstract!vars
<1> QED
  BY <1>1, <1>2, <1>3, <1>4, <1>5, <1>6, <1>7 DEF Next

(***************************************************************************)
(* Every execution of the requesters, deciders and workers is one that     *)
(* KeyDestruction allows.                                                  *)
(***************************************************************************)
THEOREM Implementation == Spec => ImplementsKeyDestruction
  BY InitImplements, StepImplements, AlwaysTyped, AlwaysLocking, AlwaysPinned,
     AlwaysGone, PTL
  DEF Spec, ImplementsKeyDestruction, Abstract!Spec
=============================================================================
