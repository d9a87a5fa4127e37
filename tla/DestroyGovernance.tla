------------------------- MODULE DestroyGovernance -------------------------
(***************************************************************************)
(* Governed key destruction: from the destroy request a person or the      *)
(* reconciliation engine files, through the four-eyes decision, to the     *)
(* worker that deletes the Transit key in Vault.                           *)
(*                                                                         *)
(* Four kinds of process interleave at every await of the code:            *)
(*   Requester  requestKeyDestroy and its callers (provisioner/key.js,     *)
(*              reconciliation/engine.js)                                  *)
(*   Decider    one HTTP approve or deny call (routes/approvals.js)        *)
(*   Worker     executeApprovedDestroys (approval-execution.js)            *)
(*   the rest   key operators, sweeps, exceptions, offboarding             *)
(*                                                                         *)
(* A worker processes a request inside one database transaction that holds *)
(* the row lock (FOR UPDATE SKIP LOCKED); everything else it reads comes   *)
(* over other connections and is not locked.                               *)
(***************************************************************************)
EXTENDS Naturals, Disposition

CONSTANTS
  Key,          \* Transit keys
  App,          \* applications
  AppOf,        \* the application owning each key
  NoKey,        \* the key of a request that was never filed
  Requester,    \* concurrent requestKeyDestroy calls
  Decider,      \* concurrent approve / deny calls
  Worker,       \* worker processes
  MaxRequests,  \* bound: rows of approval_requests
  MaxVersion,   \* bound: versions of one key
  MaxGen,       \* bound: times one key name is created
  MaxFaults     \* bound: Vault errors, database errors and crashes

ASSUME ConstantsAssumption ==
  /\ AppOf \in [Key -> App]
  /\ NoKey \notin Key
  /\ MaxRequests \in Nat \ {0}
  /\ MaxVersion \in Nat \ {0}
  /\ MaxGen \in Nat \ {0}
  /\ MaxFaults \in Nat

VARIABLES
  vault,      \* Vault: the live state of each Transit key
  approvals,  \* approval_requests, in creation order
  run,        \* status of the newest expiry_date run of each key
  drifted,    \* keys with at least one DRIFTED run on record
  action,     \* newest reconciliation_actions row of each key's policy
  archived,   \* keys whose desired_state row is archived
  stage,      \* offboarding stage of each application, or "deleted"
  requester,  \* in-memory state of each requestKeyDestroy call
  decider,    \* in-memory state of each approve / deny call
  worker,     \* in-memory state and open transaction of each worker
  tried,      \* excludeIds of each worker's current tick
  stripped,   \* history: keys a fault may have left deletable
  faults      \* faults so far

vars == <<vault, approvals, run, drifted, action, archived, stage,
          requester, decider, worker, tried, stripped, faults>>

triggers  == <<run, drifted, action, archived, stage>>
workers   == <<worker, tried>>
processes == <<requester, decider, workers>>
ghosts    == <<stripped, faults>>

-----------------------------------------------------------------------------
(* Values                                                                  *)

Request   == 1..MaxRequests
NoRequest == 0
NoPin     == 0          \* pinned_key_version IS NULL: versions start at 1

(***************************************************************************)
(* version is latest_version, 0 for a key that does not exist.  gen counts *)
(* how often the name was created: Vault does not report it and no action  *)
(* reads it, the properties use it to tell one key's material from that of *)
(* its successor under the same name.                                      *)
(***************************************************************************)
VaultKey == [gen : Nat, version : Nat, deletable : BOOLEAN]

NewKey(gen)  == [gen |-> gen, version |-> 1, deletable |-> FALSE]
GoneKey(gen) == [gen |-> gen, version |-> 0, deletable |-> FALSE]

Live(k) == vault[k].version # 0

Decided == {"approved", "rejected"}

(***************************************************************************)
(* reviewed is the gen the pin was read from, 0 for a row without a pin.   *)
(* cg is the Vault Control Group behind the row's accessor, if it has one. *)
(***************************************************************************)
Row ==
  [status : {"none", "pending"} \cup Decided,
   key : Key \cup {NoKey},
   pin : Nat,
   reviewed : Nat,
   executed : BOOLEAN,
   cg : {"none", "requested", "authorized"}]

NoRow ==
  [status |-> "none", key |-> NoKey, pin |-> NoPin, reviewed |-> 0,
   executed |-> FALSE, cg |-> "none"]

Filed(r) == approvals[r].status # "none"

(* The row the next INSERT creates.                                        *)
NextRow(r) == ~Filed(r) /\ \A s \in 1..(r - 1) : Filed(s)

(***************************************************************************)
(* In-memory state.  pc names the await a process is about to issue; idle  *)
(* and claim hold nothing.  flipped: this worker set deletion_allowed.     *)
(***************************************************************************)
RequesterState ==
  [pc : {"idle", "insert", "record"}, key : Key \cup {NoKey}, pin : Nat,
   reviewed : Nat, origin : {"none", "direct", "reconcile"}]

DeciderState ==
  [pc : {"idle", "gate", "approve", "deny"}, req : Request \cup {NoRequest}]

WorkerState ==
  [pc : {"claim", "intent", "read", "protect", "delete", "restore", "commit"},
   req : Request \cup {NoRequest}, flipped : BOOLEAN]

RequesterIdle == [pc |-> "idle", key |-> NoKey, pin |-> NoPin,
                  reviewed |-> 0, origin |-> "none"]
DeciderIdle   == [pc |-> "idle", req |-> NoRequest]
WorkerIdle    == [pc |-> "claim", req |-> NoRequest, flipped |-> FALSE]

Fault == faults < MaxFaults /\ faults' = faults + 1

-----------------------------------------------------------------------------
(* Vault: what operators and auto-rotation do to a key                     *)

CreateKey(k) ==
  /\ ~Live(k)
  /\ vault[k].gen < MaxGen
  /\ vault' = [vault EXCEPT ![k] = NewKey(@.gen + 1)]
  /\ UNCHANGED <<approvals, triggers, processes, ghosts>>

RotateKey(k) ==
  /\ Live(k)
  /\ vault[k].version < MaxVersion
  /\ vault' = [vault EXCEPT ![k].version = @ + 1]
  /\ UNCHANGED <<approvals, triggers, processes, ghosts>>

(* A crypto-approvers member authorizes the row's Control Group in Vault.  *)
AuthorizeControlGroup(r) ==
  /\ approvals[r].cg = "requested"
  /\ approvals' = [approvals EXCEPT ![r].cg = "authorized"]
  /\ UNCHANGED <<vault, triggers, processes, ghosts>>

-----------------------------------------------------------------------------
(* Governance triggers                                                     *)

(***************************************************************************)
(* recordRun inserts whatever the sweep observed; another sweep, a request *)
(* to Vault or a rotation may have happened since that observation, so any *)
(* status can arrive, also after the application was deleted meanwhile.    *)
(***************************************************************************)
RecordRun(k, status) ==
  /\ run[k] # status
  /\ run' = [run EXCEPT ![k] = status]
  /\ drifted' = IF status = "DRIFTED" THEN drifted \cup {k} ELSE drifted
  /\ UNCHANGED <<vault, approvals, action, archived, stage,
                 processes, ghosts>>

(***************************************************************************)
(* acceptException checks the run it was called with, which need not be    *)
(* the newest one, and the disposition at that run's own status.           *)
(***************************************************************************)
AcceptException(k) ==
  /\ k \in drifted
  /\ LET current == computeDisposition(action[k], "DRIFTED")
     IN  \/ current = "EXCEPTION_ACCEPTED"
         \/ LegalTransition(DISPOSITION_STATES, current, "EXCEPTION_ACCEPTED")
  /\ action' = [action EXCEPT ![k] = Exception]
  /\ UNCHANGED <<vault, approvals, run, drifted, archived, stage,
                 processes, ghosts>>

ExceptionExpires(k) ==
  /\ ExceptionInForce(action[k])
  /\ action' = [action EXCEPT ![k].unexpired = FALSE]
  /\ UNCHANGED <<vault, approvals, run, drifted, archived, stage,
                 processes, ghosts>>

(***************************************************************************)
(* initiateOffboarding's UPDATE; the destroy requests it files afterwards, *)
(* one at a time, are Requester calls of origin "direct".                  *)
(***************************************************************************)
InitiateOffboarding(a) ==
  /\ stage[a] = "active"
  /\ stage' = [stage EXCEPT ![a] = "initiated"]
  /\ UNCHANGED <<vault, approvals, run, drifted, action, archived,
                 processes, ghosts>>

LatestRequest(k) ==
  LET mine == {r \in Request : approvals[r].key = k}
  IN  IF mine = {} THEN NoRequest
                   ELSE CHOOSE r \in mine : \A s \in mine : s <= r

Resolved(r) ==
  /\ r # NoRequest
  /\ \/ approvals[r].status = "rejected"
     \/ approvals[r].status = "approved" /\ approvals[r].executed

(* A row of the policy is tombstoned once its request is resolved, or when *)
(* (another) initiateOffboarding finds its key already gone.               *)
ArchivePolicy(k) ==
  /\ stage[AppOf[k]] = "initiated"
  /\ k \notin archived
  /\ ~Live(k) \/ Resolved(LatestRequest(k))
  /\ archived' = archived \cup {k}
  /\ UNCHANGED <<vault, approvals, run, drifted, action, stage,
                 processes, ghosts>>

CompleteOffboarding(a) ==
  /\ stage[a] = "initiated"
  /\ \A k \in Key : AppOf[k] = a => k \in archived
  /\ stage' = [stage EXCEPT ![a] = "offboarded"]
  /\ UNCHANGED <<vault, approvals, run, drifted, action, archived,
                 processes, ghosts>>

(* The application row is there: a request or policy can still name it.    *)
Registered(k) == stage[AppOf[k]] # "deleted"

DeleteApplicationUnlocked(a) ==              \* mutant: waits for no one
  /\ stage[a] # "deleted"
  /\ stage' = [stage EXCEPT ![a] = "deleted"]
  /\ UNCHANGED <<vault, approvals, run, drifted, action, archived,
                 processes, ghosts>>

(***************************************************************************)
(* DELETE /applications/:id, at any stage.  ON DELETE SET NULL clears      *)
(* app_id in its requests and policies, so it waits for a worker that has  *)
(* one of the requests locked; the key stays in Vault.                     *)
(***************************************************************************)
DeleteApplication(a) ==
  /\ stage[a] # "deleted"
  /\ \A w \in Worker :
       worker[w].pc # "claim" => AppOf[approvals[worker[w].req].key] # a
  /\ stage' = [stage EXCEPT ![a] = "deleted"]
  /\ UNCHANGED <<vault, approvals, run, drifted, action, archived,
                 processes, ghosts>>

(* hasLiveDestroyIntent, by application: a row without one has none.       *)
hasLiveDestroyIntent(k) ==
  \/ /\ Registered(k)
     /\ k \notin archived
     /\ run[k] = "DRIFTED"
     /\ computeDisposition(action[k], run[k]) = "OPEN"
  \/ stage[AppOf[k]] = "initiated"

-----------------------------------------------------------------------------
(* Requesters: requestKeyDestroy and the actions row its caller adds       *)

(***************************************************************************)
(* The live version is read before the row is inserted.  A key that is     *)
(* gone, or a failed read, leaves the pin NULL.  Reconciling an            *)
(* expiry_date run needs some DRIFTED run of the key.                      *)
(***************************************************************************)
PinVersion(q, k, origin) ==
  /\ requester[q].pc = "idle"
  /\ origin = "reconcile" => k \in drifted
  /\ \/ /\ requester' = [requester EXCEPT ![q] =
              [pc |-> "insert", key |-> k, origin |-> origin,
               pin |-> vault[k].version,
               reviewed |-> IF Live(k) THEN vault[k].gen ELSE 0]]
        /\ UNCHANGED faults
     \/ /\ Fault
        /\ requester' = [requester EXCEPT ![q] =
              [pc |-> "insert", key |-> k, origin |-> origin,
               pin |-> NoPin, reviewed |-> 0]]
  /\ UNCHANGED <<vault, approvals, triggers, decider, workers, stripped>>

InsertRequest(q, r) ==
  /\ requester[q].pc = "insert"
  /\ Registered(requester[q].key)
  /\ NextRow(r)
  /\ approvals' = [approvals EXCEPT ![r] =
        [status |-> "pending", key |-> requester[q].key,
         pin |-> requester[q].pin, reviewed |-> requester[q].reviewed,
         executed |-> FALSE, cg |-> "none"]]
  /\ requester' = [requester EXCEPT ![q] =
        IF @.origin = "reconcile" THEN [@ EXCEPT !.pc = "record"]
                                  ELSE RequesterIdle]
  /\ UNCHANGED <<vault, triggers, decider, workers, ghosts>>

(* reconcileExpiryDate's own INSERT, after the request exists.             *)
RecordReconcile(q) ==
  /\ requester[q].pc = "record"
  /\ action' = [action EXCEPT ![requester[q].key] = Reconcile("applied")]
  /\ requester' = [requester EXCEPT ![q] = RequesterIdle]
  /\ UNCHANGED <<vault, approvals, run, drifted, archived, stage,
                 decider, workers, ghosts>>

(* The INSERT fails, or no application owns the key any more: a reconcile  *)
(* still records its own failure.                                          *)
RequestFails(q) ==
  /\ requester[q].pc = "insert"
  /\ IF Registered(requester[q].key) THEN Fault ELSE UNCHANGED faults
  /\ action' = IF requester[q].origin = "reconcile"
               THEN [action EXCEPT ![requester[q].key] = Reconcile("failed")]
               ELSE action
  /\ requester' = [requester EXCEPT ![q] = RequesterIdle]
  /\ UNCHANGED <<vault, approvals, run, drifted, archived, stage,
                 decider, workers, stripped>>

(* POST /approvals: the caller's own revoke row, never pinned.             *)
RegisterRequest(r, k, cg) ==
  /\ NextRow(r)
  /\ Registered(k)
  /\ approvals' = [approvals EXCEPT ![r] =
        [NoRow EXCEPT !.status = "pending", !.key = k, !.cg = cg]]
  /\ UNCHANGED <<vault, triggers, processes, ghosts>>

-----------------------------------------------------------------------------
(* Deciders: POST /:id/approve, its accessor alias, and POST /:id/deny     *)

Locked(r) == \E w \in Worker : worker[w].pc # "claim" /\ worker[w].req = r

(* Both handlers read the status once, before their first other await.     *)
ReadPending(d, r, next) ==
  /\ decider[d].pc = "idle"
  /\ approvals[r].status = "pending"
  /\ decider' = [decider EXCEPT ![d] = [pc |-> next, req |-> r]]
  /\ UNCHANGED <<vault, approvals, triggers, requester, workers, ghosts>>

BeginApprove(d, r) == ReadPending(d, r, "gate")
BeginDeny(d, r)    == ReadPending(d, r, "deny")

(***************************************************************************)
(* verifyApprovalGate passes when Vault has authorized the Control Group   *)
(* and the pin, where there is one, still names the live version.  It does *)
(* not look at the key of an application that is gone.                     *)
(***************************************************************************)
GatePassesWithoutControlGroup(r) ==          \* mutant
  LET row == approvals[r]
  IN  Live(row.key) /\ row.pin # NoPin => vault[row.key].version = row.pin

GatePasses(r) ==
  LET row == approvals[r]
  IN  /\ row.cg \in {"none", "authorized"}
      /\ Registered(row.key) /\ Live(row.key) /\ row.pin # NoPin =>
           vault[row.key].version = row.pin

verifyApprovalGate(d) ==
  /\ decider[d].pc = "gate"
  /\ decider' = [decider EXCEPT ![d] =
        IF GatePasses(@.req) THEN [@ EXCEPT !.pc = "approve"] ELSE DeciderIdle]
  /\ UNCHANGED <<vault, approvals, triggers, requester, workers, ghosts>>

(***************************************************************************)
(* The UPDATE names only the id, so it overwrites whatever the row has     *)
(* become; it waits for a worker's row lock.                               *)
(***************************************************************************)
WriteDecisionUnlocked(d, pc, verdict) ==     \* mutant: no row lock
  /\ decider[d].pc = pc
  /\ approvals' = [approvals EXCEPT ![decider[d].req].status = verdict]
  /\ decider' = [decider EXCEPT ![d] = DeciderIdle]
  /\ UNCHANGED <<vault, triggers, requester, workers, ghosts>>

WriteDecision(d, pc, verdict) ==
  /\ decider[d].pc = pc
  /\ ~Locked(decider[d].req)
  /\ approvals' = [approvals EXCEPT ![decider[d].req].status = verdict]
  /\ decider' = [decider EXCEPT ![d] = DeciderIdle]
  /\ UNCHANGED <<vault, triggers, requester, workers, ghosts>>

WriteApproved(d) == WriteDecision(d, "approve", "approved")

WriteRejected(d) == WriteDecision(d, "deny", "rejected")

(* An unreachable Vault or a failed UPDATE answers 500.                    *)
DecisionFails(d) ==
  /\ decider[d].pc # "idle"
  /\ Fault
  /\ decider' = [decider EXCEPT ![d] = DeciderIdle]
  /\ UNCHANGED <<vault, approvals, triggers, requester, workers, stripped>>

-----------------------------------------------------------------------------
(* Workers: executeApprovedDestroys                                        *)

ClaimableUndecided(w, r) ==                  \* mutant: status not in the WHERE
  /\ Filed(r)
  /\ ~approvals[r].executed
  /\ r \notin tried[w]
  /\ ~Locked(r)

Claimable(w, r) ==
  /\ approvals[r].status = "approved"
  /\ ~approvals[r].executed
  /\ r \notin tried[w]
  /\ ~Locked(r)

(* Ends the transaction and keeps the id out of this tick.                 *)
Release(w) ==
  /\ worker' = [worker EXCEPT ![w] = WorkerIdle]
  /\ tried'  = [tried EXCEPT ![w] = @ \cup {worker[w].req}]

StepTo(w, pc) ==
  /\ worker' = [worker EXCEPT ![w].pc = pc]
  /\ UNCHANGED tried

(* The order (oldest updated_at first) is left open.                       *)
Claim(w, r) ==
  /\ worker[w].pc = "claim"
  /\ Claimable(w, r)
  /\ worker' = [worker EXCEPT ![w] =
                  [pc |-> "intent", req |-> r, flipped |-> FALSE]]
  /\ UNCHANGED <<vault, approvals, triggers, requester, decider, tried, ghosts>>

EndTickKeepsExcluded(w) ==                   \* mutant: excludeIds outlives a tick
  /\ worker[w].pc = "claim"
  /\ ~ \E r \in Request : Claimable(w, r)
  /\ UNCHANGED vars

(* Nothing left to claim: the next tick starts from an empty excludeIds.   *)
EndTick(w) ==
  /\ worker[w].pc = "claim"
  /\ tried[w] # {}
  /\ ~ \E r \in Request : Claimable(w, r)
  /\ tried' = [tried EXCEPT ![w] = {}]
  /\ UNCHANGED <<vault, approvals, triggers, requester, decider, worker, ghosts>>

CheckIntentWaits(w) ==                       \* mutant: waits inside its transaction
  /\ worker[w].pc = "intent"
  /\ hasLiveDestroyIntent(approvals[worker[w].req].key)
  /\ StepTo(w, "read")
  /\ UNCHANGED <<vault, approvals, triggers, requester, decider, ghosts>>

CheckIntent(w) ==
  /\ worker[w].pc = "intent"
  /\ IF hasLiveDestroyIntent(approvals[worker[w].req].key)
     THEN StepTo(w, "read")
     ELSE Release(w)
  /\ UNCHANGED <<vault, approvals, triggers, requester, decider, ghosts>>

(* readLiveKeyMeta and the pin check after it: NoPin is no live version.   *)
ReadKey(w) ==
  LET row == approvals[worker[w].req]
      k   == vault[row.key]
  IN  /\ worker[w].pc = "read"
      /\ CASE ~Live(row.key) -> StepTo(w, "commit")
           [] Live(row.key) /\ k.version # row.pin -> Release(w)
           [] OTHER -> StepTo(w, IF k.deletable THEN "delete" ELSE "protect")
      /\ UNCHANGED <<vault, approvals, triggers, requester, decider, ghosts>>

(* destroyTransitKey: deletion_allowed = true, outside its try block.      *)
ClearProtection(w) ==
  LET k == approvals[worker[w].req].key
  IN  /\ worker[w].pc = "protect"
      /\ IF Live(k)
         THEN /\ vault' = [vault EXCEPT ![k].deletable = TRUE]
              /\ worker' = [worker EXCEPT ![w] =
                  [pc |-> "delete", req |-> @.req, flipped |-> TRUE]]
              /\ UNCHANGED tried
         ELSE Release(w) /\ UNCHANGED vault
      /\ UNCHANGED <<approvals, triggers, requester, decider, ghosts>>

(***************************************************************************)
(* That write fails, or it works and its answer is lost: the throw skips   *)
(* the restore.                                                            *)
(***************************************************************************)
ClearProtectionFails(w) ==
  LET k == approvals[worker[w].req].key
  IN  /\ worker[w].pc = "protect"
      /\ Fault
      /\ Release(w)
      /\ \/ UNCHANGED <<vault, stripped>>
         \/ /\ Live(k)
            /\ vault' = [vault EXCEPT ![k].deletable = TRUE]
            /\ stripped' = stripped \cup {k}
      /\ UNCHANGED <<approvals, triggers, requester, decider>>

AfterFailedDeleteCommits(w) == StepTo(w, "commit")   \* mutant: attempt = success
AfterFailedDeleteForgets(w) == Release(w)            \* mutant: no restore

(* Where a failed DELETE leads: restore only what this worker changed.     *)
AfterFailedDelete(w) ==
  IF worker[w].flipped THEN StepTo(w, "restore") ELSE Release(w)

(* DELETE; a 404 counts as success, Vault refuses a protected key.         *)
DeleteKey(w) ==
  LET k == approvals[worker[w].req].key
  IN  /\ worker[w].pc = "delete"
      /\ IF Live(k) /\ ~vault[k].deletable
         THEN AfterFailedDelete(w) /\ UNCHANGED vault
         ELSE /\ StepTo(w, "commit")
              /\ vault' = [vault EXCEPT ![k] = GoneKey(@.gen)]
      /\ UNCHANGED <<approvals, triggers, requester, decider, ghosts>>

(* The DELETE fails, or it works and its answer is lost (request timeout). *)
DeleteFails(w) ==
  LET k == approvals[worker[w].req].key
  IN  /\ worker[w].pc = "delete"
      /\ Fault
      /\ AfterFailedDelete(w)
      /\ \/ UNCHANGED vault
         \/ /\ Live(k) /\ vault[k].deletable
            /\ vault' = [vault EXCEPT ![k] = GoneKey(@.gen)]
      /\ UNCHANGED <<approvals, triggers, requester, decider, stripped>>

(* The restore is best effort: its failure is logged and otherwise ignored.*)
RestoreProtection(w) ==
  LET k == approvals[worker[w].req].key
  IN  /\ worker[w].pc = "restore"
      /\ Release(w)
      /\ \/ /\ vault' = [vault EXCEPT ![k].deletable = FALSE]
            /\ UNCHANGED ghosts
         \/ /\ Fault
            /\ stripped' = stripped \cup {k}
            /\ UNCHANGED vault
      /\ UNCHANGED <<approvals, triggers, requester, decider>>

Commit(w) ==
  /\ worker[w].pc = "commit"
  /\ approvals' = [approvals EXCEPT ![worker[w].req].executed = TRUE]
  /\ Release(w)
  /\ UNCHANGED <<vault, triggers, requester, decider, ghosts>>

(***************************************************************************)
(* Any other error of a claimed request rolls its transaction back: a      *)
(* failed read or UPDATE, a lost connection, or a failed INSERT into       *)
(* lifecycle_events, whose .catch hides that Postgres has aborted the      *)
(* transaction and turns the COMMIT into a ROLLBACK.                       *)
(***************************************************************************)
ExecutionFails(w) ==
  /\ worker[w].pc \in {"intent", "read", "commit"}
  /\ Fault
  /\ Release(w)
  /\ UNCHANGED <<vault, approvals, triggers, requester, decider, stripped>>

(* The process dies: Postgres rolls back, Vault keeps what was done.       *)
Crash(w) ==
  /\ worker[w].pc # "claim"
  /\ Fault
  /\ worker' = [worker EXCEPT ![w] = WorkerIdle]
  /\ tried'  = [tried EXCEPT ![w] = {}]
  /\ stripped' = IF worker[w].flipped /\ worker[w].pc \in {"delete", "restore"}
                 THEN stripped \cup {approvals[worker[w].req].key}
                 ELSE stripped
  /\ UNCHANGED <<vault, approvals, triggers, requester, decider>>

-----------------------------------------------------------------------------
Init ==
  /\ vault     = [k \in Key |-> NewKey(1)]
  /\ approvals = [r \in Request |-> NoRow]
  /\ run       = [k \in Key |-> "none"]
  /\ drifted   = {}
  /\ action    = [k \in Key |-> NoAction]
  /\ archived  = {}
  /\ stage     = [a \in App |-> "active"]
  /\ requester = [q \in Requester |-> RequesterIdle]
  /\ decider   = [d \in Decider |-> DeciderIdle]
  /\ worker    = [w \in Worker |-> WorkerIdle]
  /\ tried     = [w \in Worker |-> {}]
  /\ stripped  = {}
  /\ faults    = 0

KeyStep(k) ==
  \/ CreateKey(k)
  \/ RotateKey(k)
  \/ \E status \in ObservationStatus : RecordRun(k, status)
  \/ AcceptException(k)
  \/ ExceptionExpires(k)
  \/ ArchivePolicy(k)

AppStep(a) ==
  \/ InitiateOffboarding(a)
  \/ CompleteOffboarding(a)
  \/ DeleteApplication(a)

RequestStep(r) ==
  \/ AuthorizeControlGroup(r)
  \/ \E k \in Key, cg \in {"none", "requested"} : RegisterRequest(r, k, cg)

RequesterStep(q) ==
  \/ \E k \in Key, origin \in {"direct", "reconcile"} : PinVersion(q, k, origin)
  \/ \E r \in Request : InsertRequest(q, r)
  \/ RecordReconcile(q)
  \/ RequestFails(q)

DeciderStep(d) ==
  \/ \E r \in Request : BeginApprove(d, r) \/ BeginDeny(d, r)
  \/ verifyApprovalGate(d)
  \/ WriteApproved(d)
  \/ WriteRejected(d)
  \/ DecisionFails(d)

WorkerStep(w) ==
  \/ \E r \in Request : Claim(w, r)
  \/ EndTick(w)
  \/ CheckIntent(w)
  \/ ReadKey(w)
  \/ ClearProtection(w)
  \/ ClearProtectionFails(w)
  \/ DeleteKey(w)
  \/ DeleteFails(w)
  \/ RestoreProtection(w)
  \/ Commit(w)
  \/ ExecutionFails(w)
  \/ Crash(w)

Next ==
  \/ \E k \in Key : KeyStep(k)
  \/ \E a \in App : AppStep(a)
  \/ \E r \in Request : RequestStep(r)
  \/ \E q \in Requester : RequesterStep(q)
  \/ \E d \in Decider : DeciderStep(d)
  \/ \E w \in Worker : WorkerStep(w)

Spec == Init /\ [][Next]_vars

-----------------------------------------------------------------------------
(* Type correctness.                                                       *)
TypeOK ==
  /\ vault \in [Key -> VaultKey]
  /\ approvals \in [Request -> Row]
  /\ run \in [Key -> {"none"} \cup ObservationStatus]
  /\ drifted \subseteq Key
  /\ action \in [Key -> Action]
  /\ archived \subseteq Key
  /\ stage \in [App -> {"active", "initiated", "offboarded", "deleted"}]
  /\ requester \in [Requester -> RequesterState]
  /\ decider \in [Decider -> DeciderState]
  /\ worker \in [Worker -> WorkerState]
  /\ tried \in [Worker -> SUBSET Request]
  /\ stripped \subseteq Key
  /\ faults \in 0..MaxFaults

-----------------------------------------------------------------------------
(* Safety                                                                  *)

(***************************************************************************)
(* While a worker works on a request the row stays approved and            *)
(* unexecuted: no decision in flight and no second worker slips in between *)
(* the claim and the commit (claimAndProcessOne's one transaction).        *)
(***************************************************************************)
ClaimedRowFrozen ==
  \A w \in Worker : worker[w].pc # "claim" =>
    /\ approvals[worker[w].req].status = "approved"
    /\ ~approvals[worker[w].req].executed

(***************************************************************************)
(* Two workers never process the same request at the same time.            *)
(***************************************************************************)
SingleExecutor ==
  \A v, w \in Worker :
    /\ v # w
    /\ worker[v].pc # "claim"
    /\ worker[w].pc # "claim"
    => worker[v].req # worker[w].req

(***************************************************************************)
(* executed_at tells the truth: once it is set, the key material the       *)
(* request was filed against is gone from Vault, whatever failed, crashed  *)
(* or was re-created meanwhile.                                            *)
(***************************************************************************)
ExecutedMeansGone ==
  \A r \in Request : approvals[r].executed =>
    LET k == approvals[r].key
    IN  ~ (Live(k) /\ vault[k].gen = approvals[r].reviewed)

(***************************************************************************)
(* A live key is delete-unprotected only while the worker that cleared     *)
(* deletion_allowed is still between that write and its DELETE or restore, *)
(* or after a crash, a failed restore or a lost answer to that write, the  *)
(* three cases the code gives up on.                                       *)
(***************************************************************************)
UnprotectedOnlyInFlight ==
  \A k \in Key : Live(k) /\ vault[k].deletable =>
    \/ k \in stripped
    \/ \E w \in Worker :
         /\ worker[w].pc \in {"delete", "restore"}
         /\ worker[w].flipped
         /\ approvals[worker[w].req].key = k

(***************************************************************************)
(* A request tied to a Control Group is approved only after Vault has      *)
(* authorized that group (verifyApprovalGate).                             *)
(***************************************************************************)
ApprovalHasControlGroup ==
  \A r \in Request :
    approvals[r].status = "approved" => approvals[r].cg # "requested"

Destroyed(k) == Live(k) /\ vault'[k].version = 0

(***************************************************************************)
(* A key disappears only by the hand of a worker that holds a request      *)
(* which, at that very moment, is approved, unexecuted, filed for that key *)
(* and pinned, and whose application is still registered: neither a denial *)
(* or a DELETE of the application racing the execution, nor a NULL pin,    *)
(* ever leads to a destruction nobody answers for.                         *)
(***************************************************************************)
DestroyedOnlyWhileApproved ==
  [][\A k \in Key : Destroyed(k) =>
       \E w \in Worker :
         LET row == approvals[worker[w].req]
         IN  /\ worker[w].pc = "delete"
             /\ row.status = "approved"
             /\ ~row.executed
             /\ row.key = k
             /\ row.pin # NoPin
             /\ Registered(k)]_vars

-----------------------------------------------------------------------------
(* Refinement                                                              *)

incarnation == [k \in Key |-> vault[k].gen]
existing    == {k \in Key : Live(k)}
executed    == {r \in Request : approvals[r].executed}

request ==
  [r \in Request |-> [verdict |-> approvals[r].status,
                      key     |-> approvals[r].key,
                      target  |-> approvals[r].reviewed]]

Abstract == INSTANCE KeyDestruction

(***************************************************************************)
(* The processes, with all their interleavings, failures and crashes,      *)
(* implement KeyDestruction: every step is one abstract step or a stutter. *)
(***************************************************************************)
ImplementsKeyDestruction == Abstract!Spec

-----------------------------------------------------------------------------
(* What the repository says of the program and the code does not deliver   *)

(***************************************************************************)
(* The key destroyed is the key that was reviewed, not one re-created      *)
(* under the same name (migrations/024_destroy_safety.sql).                *)
(***************************************************************************)
ReviewedKeyOnly ==
  [][\A k \in Key : Destroyed(k) =>
       \E w \in Worker :
         /\ worker[w].pc = "delete"
         /\ approvals[worker[w].req].key = k
         /\ approvals[worker[w].req].reviewed = vault[k].gen]_vars

(***************************************************************************)
(* executed_at is never set for rejected or pending requests               *)
(* (migrations/023_approval_execution.sql).                                *)
(***************************************************************************)
ExecutedIsApproved ==
  \A r \in Request : approvals[r].executed => approvals[r].status = "approved"

-----------------------------------------------------------------------------
(* Liveness                                                                *)

(***************************************************************************)
(* The worker loop keeps running: a step of it that is neither a fault nor *)
(* a crash is eventually taken.  An UPDATE waiting for a row lock is       *)
(* queued by Postgres ahead of later lockers, and SKIP LOCKED passes over  *)
(* the row while it waits, so it gets in: strong fairness.                 *)
(***************************************************************************)
WorkerProgress(w) ==
  \/ \E r \in Request : Claim(w, r)
  \/ EndTick(w)
  \/ CheckIntent(w)
  \/ ReadKey(w)
  \/ ClearProtection(w)
  \/ DeleteKey(w)
  \/ RestoreProtection(w)
  \/ Commit(w)

Fairness ==
  /\ \A w \in Worker : WF_vars(WorkerProgress(w))
  /\ \A d \in Decider : SF_vars(WriteApproved(d)) /\ SF_vars(WriteRejected(d))

LiveSpec == Spec /\ Fairness

(***************************************************************************)
(* An approved request whose trigger stays live and whose pin stays        *)
(* current is executed, through every bounded run of failures and crashes: *)
(* otherwise one of those three stops holding.                             *)
(***************************************************************************)
ApprovedGetsExecuted ==
  \A r \in Request :
    approvals[r].status = "approved" ~>
      LET row == approvals[r]
      IN  \/ row.executed
          \/ row.status # "approved"
          \/ ~hasLiveDestroyIntent(row.key)
          \/ Live(row.key) /\ vault[row.key].version # row.pin

(***************************************************************************)
(* A decision that waits for a worker's row lock is eventually recorded or *)
(* answered with an error: the tick loop cannot starve it.                 *)
(***************************************************************************)
DecisionLands ==
  \A d \in Decider :
    decider[d].pc \in {"approve", "deny"} ~> decider[d].pc = "idle"
=============================================================================
