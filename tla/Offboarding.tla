---------------------------- MODULE Offboarding ----------------------------
(***************************************************************************)
(* Offboarding one application (offboarding.js): POST /:id/offboard marks  *)
(* it and files a destroy request for the live key of every desired_state  *)
(* row; the worker's sweep tombstones the rows whose request is resolved   *)
(* and completes the offboarding when none is left.                        *)
(*                                                                         *)
(* Requests are decided and executed elsewhere, as KeyDestruction says     *)
(* (and DestroyGovernance implements): its actions are the environment     *)
(* here.  No step below is in a transaction; any two calls and the         *)
(* environment interleave at every query.                                  *)
(***************************************************************************)
EXTENDS Naturals

CONSTANTS
  Key, NoKey,
  Policy,        \* desired_state rows of the application
  LatePolicy,    \* those declared only after the start
  NoPolicy,
  KeyOf,         \* the key each row is about
  Unrecorded,    \* keys without a crypto_profiles row
  Caller,        \* concurrent POST /:id/offboard calls
  Sweeper,       \* workers
  Other,         \* whoever else files destroy requests for these keys
  MaxRequests,   \* bound: destroy requests
  MaxGen,        \* bound: times one key name is created
  MaxDecisions,  \* bound: decisions taken
  MaxFaults      \* bound: failed reads, failed queries and crashes

ASSUME ConstantsAssumption ==
  /\ NoKey \notin Key
  /\ NoPolicy \notin Policy
  /\ LatePolicy \subseteq Policy
  /\ Unrecorded \subseteq Key
  /\ KeyOf \in [Policy -> Key]
  /\ {MaxRequests, MaxGen, MaxDecisions, MaxFaults} \subseteq Nat

Request == 1..MaxRequests
Process == Caller \cup Sweeper

VARIABLES
  incarnation, existing,  \* Vault's keys, as in KeyDestruction
  request, executed,      \* approval_requests, as in KeyDestruction
  ds,         \* desired_state rows: absent, live or archived
  stage,      \* offboarding_initiated_at and offboarded_at
  process,    \* in-memory state of each call
  denied,     \* history: requests that have been rejected
  decisions, faults

destruction == <<incarnation, existing, request, executed>>
ghosts      == <<denied, decisions, faults>>
vars        == <<destruction, ds, stage, process, ghosts>>

Governed == INSTANCE KeyDestruction

(***************************************************************************)
(* pc is the query a call is about to issue, row the desired_state row it  *)
(* is about, todo the rows of the current loop, all its allResolved.       *)
(***************************************************************************)
ProcessState ==
  [pc : {"idle", "list", "look", "file", "archive", "begin", "rows", "check",
         "tombstone"},
   row : Policy \cup {NoPolicy}, todo : SUBSET Policy, all : BOOLEAN]

Idle == [pc |-> "idle", row |-> NoPolicy, todo |-> {}, all |-> TRUE]

At(x, pc)   == process[x].pc = pc
Become(x, s) == process' = [process EXCEPT ![x] = s]
GoTo(x, pc) == process' = [process EXCEPT ![x].pc = pc]
Unarchived  == {p \in Policy : ds[p] = "live"}
Fault       == faults < MaxFaults /\ faults' = faults + 1

(* The rest of the loop over todo once row p is dealt with.                *)
Onward(x, p, pc) ==
  Become(x, [process[x] EXCEPT !.pc = pc, !.row = NoPolicy, !.todo = @ \ {p}])

-----------------------------------------------------------------------------
(* The environment: Vault, approvers and the executing worker              *)

CreateKey(k) ==
  /\ incarnation[k] < MaxGen
  /\ Governed!Create(k)
  /\ UNCHANGED <<ds, stage, process, ghosts>>

Decide(r, verdict) ==
  /\ decisions < MaxDecisions
  /\ decisions' = decisions + 1
  /\ Governed!Decide(r, verdict)
  /\ denied' = IF verdict = "rejected" THEN denied \cup {r} ELSE denied
  /\ UNCHANGED <<ds, stage, process, faults>>

DestroyKey(r) ==
  /\ Governed!Destroy(r)
  /\ UNCHANGED <<ds, stage, process, ghosts>>

(* A request that never saw a key is executed only when the key is gone.   *)
Execute(r) ==
  /\ request[r].target = 0 => request[r].key \notin existing
  /\ Governed!Execute(r)
  /\ UNCHANGED <<ds, stage, process, ghosts>>

NextRow(r) ==
  /\ request[r] = Governed!Unfiled
  /\ \A s \in 1..(r - 1) : request[s] # Governed!Unfiled

(* requestKeyDestroy; target 0 when the version could not be read.         *)
requestKeyDestroy(r, k) ==
  /\ NextRow(r)
  /\ \E target \in {0, incarnation[k]} : Governed!File(r, k, target)

(* A destroy request that is not this workflow's.                          *)
FileOther(o, r, k) ==
  /\ requestKeyDestroy(r, k)
  /\ UNCHANGED <<ds, stage, process, ghosts>>

(* upsertDesiredState does not ask whether the application is leaving.     *)
DeclarePolicy(p) ==
  /\ ds[p] = "absent"
  /\ ds' = [ds EXCEPT ![p] = "live"]
  /\ UNCHANGED <<destruction, stage, process, ghosts>>

-----------------------------------------------------------------------------
(* initiateOffboarding                                                     *)

(* May be called again while the offboarding is in progress.               *)
Initiate(c) ==
  /\ At(c, "idle")
  /\ stage # "offboarded"
  /\ stage' = "initiated"
  /\ Become(c, [Idle EXCEPT !.pc = "list"])
  /\ UNCHANGED <<destruction, ds, ghosts>>

ListLive(c) ==
  /\ At(c, "list")
  /\ Become(c, [Idle EXCEPT !.pc = "look", !.todo = Unarchived])
  /\ UNCHANGED <<destruction, ds, stage, ghosts>>

(* keyIsActive: without a crypto profile there is nothing to destroy.      *)
Look(c, p) ==
  LET active == KeyOf[p] \in existing \ Unrecorded
  IN  /\ At(c, "look")
      /\ p \in process[c].todo
      /\ Become(c, [process[c] EXCEPT !.pc = IF active THEN "file" ELSE "archive",
                                      !.row = p])
      /\ UNCHANGED <<destruction, ds, stage, ghosts>>

(* UNKNOWN counts as active.                                               *)
LookFails(c, p) ==
  /\ At(c, "look")
  /\ p \in process[c].todo
  /\ KeyOf[p] \notin Unrecorded
  /\ Fault
  /\ Become(c, [process[c] EXCEPT !.pc = "file", !.row = p])
  /\ UNCHANGED <<destruction, ds, stage, denied, decisions>>

File(c, r) ==
  LET p == process[c].row
  IN  /\ At(c, "file")
      /\ requestKeyDestroy(r, KeyOf[p])
      /\ Onward(c, p, "look")
      /\ UNCHANGED <<ds, stage, ghosts>>

Archive(c) ==
  LET p == process[c].row
  IN  /\ At(c, "archive")
      /\ ds' = [ds EXCEPT ![p] = "archived"]
      /\ Onward(c, p, "look")
      /\ UNCHANGED <<destruction, stage, ghosts>>

(* initiateOffboarding ends with a completion check of its own.            *)
DoneFiling(c) ==
  /\ At(c, "look")
  /\ process[c].todo = {}
  /\ Become(c, [Idle EXCEPT !.pc = "begin"])
  /\ UNCHANGED <<destruction, ds, stage, ghosts>>

-----------------------------------------------------------------------------
(* checkOffboardingCompletion                                              *)

Sweep(s) ==
  /\ At(s, "idle")
  /\ stage = "initiated"
  /\ Become(s, [Idle EXCEPT !.pc = "begin"])
  /\ UNCHANGED <<destruction, ds, stage, ghosts>>

BeginCheck(x) ==
  /\ At(x, "begin")
  /\ Become(x, IF stage = "initiated" THEN [Idle EXCEPT !.pc = "rows"] ELSE Idle)
  /\ UNCHANGED <<destruction, ds, stage, ghosts>>

ListAllRows(x) ==                                \* mutant: archived ones too
  /\ At(x, "rows")
  /\ Become(x, [Idle EXCEPT !.pc = "check",
                            !.todo = {p \in Policy : ds[p] # "absent"}])
  /\ UNCHANGED <<destruction, ds, stage, ghosts>>

ListRows(x) ==
  /\ At(x, "rows")
  /\ Become(x, [Idle EXCEPT !.pc = "check", !.todo = Unarchived])
  /\ UNCHANGED <<destruction, ds, stage, ghosts>>

(* ORDER BY created_at DESC LIMIT 1: none, or one.                         *)
LatestRequest(k) ==
  {r \in Request : request[r].key = k /\
     \A s \in Request : request[s].key = k => s <= r}

ResolvedOnceApproved(r) ==                       \* mutant: before executed_at
  request[r].verdict \in {"rejected", "approved"}

Resolved(r) ==
  \/ request[r].verdict = "rejected"
  \/ request[r].verdict = "approved" /\ r \in executed

ResolvedFor(p) == \E r \in LatestRequest(KeyOf[p]) : Resolved(r)

ReadRequestForgets(x, p) ==                      \* mutant: allResolved stays true
  /\ At(x, "check")
  /\ p \in process[x].todo
  /\ IF ResolvedFor(p)
     THEN Become(x, [process[x] EXCEPT !.pc = "tombstone", !.row = p])
     ELSE Become(x, [process[x] EXCEPT !.todo = @ \ {p}])
  /\ UNCHANGED <<destruction, ds, stage, ghosts>>

ReadRequest(x, p) ==
  /\ At(x, "check")
  /\ p \in process[x].todo
  /\ IF ResolvedFor(p)
     THEN Become(x, [process[x] EXCEPT !.pc = "tombstone", !.row = p])
     ELSE Become(x, [process[x] EXCEPT !.todo = @ \ {p}, !.all = FALSE])
  /\ UNCHANGED <<destruction, ds, stage, ghosts>>

Tombstone(x) ==
  LET p == process[x].row
  IN  /\ At(x, "tombstone")
      /\ ds' = [ds EXCEPT ![p] = "archived"]
      /\ Onward(x, p, "check")
      /\ UNCHANGED <<destruction, stage, ghosts>>

Complete(x) ==
  /\ At(x, "check")
  /\ process[x].todo = {}
  /\ stage' = IF process[x].all THEN "offboarded" ELSE stage
  /\ Become(x, Idle)
  /\ UNCHANGED <<destruction, ds, ghosts>>

(* A query fails or the process dies: what was written stays.              *)
CallFails(x) ==
  /\ ~At(x, "idle")
  /\ Fault
  /\ Become(x, Idle)
  /\ UNCHANGED <<destruction, ds, stage, denied, decisions>>

-----------------------------------------------------------------------------
Init ==
  /\ Governed!Init
  /\ ds = [p \in Policy |-> IF p \in LatePolicy THEN "absent" ELSE "live"]
  /\ stage = "active"
  /\ process = [x \in Process |-> Idle]
  /\ denied = {}
  /\ decisions = 0
  /\ faults = 0

Environment ==
  \/ \E k \in Key : CreateKey(k)
  \/ \E r \in Request, verdict \in {"approved", "rejected"} : Decide(r, verdict)
  \/ \E r \in Request : DestroyKey(r) \/ Execute(r)
  \/ \E o \in Other, r \in Request, k \in Key : FileOther(o, r, k)
  \/ \E p \in Policy : DeclarePolicy(p)

InitiateStep(c) ==
  \/ Initiate(c)
  \/ ListLive(c)
  \/ \E p \in Policy : Look(c, p) \/ LookFails(c, p)
  \/ \E r \in Request : File(c, r)
  \/ Archive(c)
  \/ DoneFiling(c)

Check(x) ==
  \/ BeginCheck(x)
  \/ ListRows(x)
  \/ \E p \in Policy : ReadRequest(x, p)
  \/ Tombstone(x)
  \/ Complete(x)

Next ==
  \/ Environment
  \/ \E c \in Caller : InitiateStep(c)
  \/ \E s \in Sweeper : Sweep(s)
  \/ \E x \in Process : Check(x) \/ CallFails(x)

Spec == Init /\ [][Next]_vars

-----------------------------------------------------------------------------
(* Type correctness.                                                       *)
TypeOK ==
  /\ ds \in [Policy -> {"absent", "live", "archived"}]
  /\ stage \in {"active", "initiated", "offboarded"}
  /\ process \in [Process -> ProcessState]
  /\ denied \subseteq Request
  /\ decisions \in 0..MaxDecisions
  /\ faults \in 0..MaxFaults

OnceGone(k) == incarnation[k] > 1 \/ k \notin existing

(***************************************************************************)
(* A row is tombstoned only for a key that has been seen gone, that has no *)
(* crypto profile, or whose destruction somebody refused: approval alone   *)
(* is not enough (checkOffboardingCompletion, Prompt 29), whatever is      *)
(* decided, executed or filed between its query and its UPDATE.            *)
(***************************************************************************)
TombstoneJustified ==
  \A p \in Policy : ds[p] = "archived" =>
    \/ OnceGone(KeyOf[p])
    \/ KeyOf[p] \in Unrecorded
    \/ \E r \in denied : request[r].key = KeyOf[p]

(***************************************************************************)
(* An offboarded application leaves no row behind that was there when it   *)
(* started to leave, however calls and sweeps overlap and fail.            *)
(***************************************************************************)
OffboardedLeavesNoRow ==
  stage = "offboarded" =>
    \A p \in Policy \ LatePolicy : ds[p] = "archived"

-----------------------------------------------------------------------------
(* Liveness                                                                *)

(* The worker sweeps for ever and its queries return.                      *)
Fairness ==
  \A s \in Sweeper : WF_vars(Sweep(s) \/ Check(s))

LiveSpec == Spec /\ Fairness

AllResolved ==
  \A p \in Unarchived : ResolvedFor(p)

(***************************************************************************)
(* Requests resolved at any later time complete the offboarding without    *)
(* another call: the sweep picks them up (worker.js), whatever calls have  *)
(* failed before.                                                          *)
(***************************************************************************)
OffboardingCompletes ==
  stage = "initiated" /\ AllResolved ~> stage = "offboarded" \/ ~AllResolved
=============================================================================
