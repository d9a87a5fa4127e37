# A TLA+ verification project for Arcanium

Arcanium is a governance layer over a HashiCorp Vault estate: an Express API and
a background worker (`src/arcanium/api/src`) that keep their records in Postgres
and act on Vault over HTTP. This directory holds TLA+ models of its core, the TLC
configurations that check them on small instances, and TLAPS proofs of the safety
properties for instances of any size.

All source paths below are relative to `src/arcanium/api/src/` unless they say
otherwise.

## 1. Inventory

| Component | State | Operations | What is hard | What makes it correct |
|---|---|---|---|---|
| Governed destruction: `approval-execution.js`, `routes/approvals.js`, `provisioner/key.js` | `approval_requests` (status, key_version, executed_at), the Transit key in Vault (versions, deletion_allowed), `excludeIds` of a tick | file, approve, deny, authorize an accessor, execute | approve, deny and workers race; one DB transaction around several Vault calls; lost answers; crashes between Vault and the COMMIT | only an approved, pinned, unexecuted request destroys; executed_at is truthful; protection is not left off; an approved request gets done |
| Reconciliation: `reconciliation/*.js`, `routes/reconciliation.js` | `desired_state`, `reconciliation_runs`, `reconciliation_actions`, `lifecycle_events` | sweep, run, reconcile, accept exception, edit desired state | runs are append-only and the disposition is derived from the newest run and the newest action, each read separately | an exception holds until it expires or the key is compliant again; only legal transitions |
| Offboarding: `offboarding.js`, `routes/applications.js` | `applications.offboarding_initiated_at / offboarded_at`, `desired_state.archived_at` | initiate, sweep, delete the application | a background sweep decides from the latest request per key; initiation can be repeated, and interleaves with sweep and execution | an offboarded application has no live key nobody denied to destroy; offboarding ends |
| Provisioning jobs: `worker.js`, `provisioner/dispatch.js`, `provisioner/steps.js`, `provisioner/application.js` | `provisioning_jobs` (status, step log), the resources in Vault, `applications` rows | create a job, claim it, run its steps, undo them, fail it | the API runs jobs inline while a worker polls the same table; a step fails half way; a status write is applied but not answered; the process dies | a job has one worker; after a failure only what was there before remains; a verdict stands |
| Suppliers: `routes/suppliers.js`, `supplier-validation.js`, `provisioner/supplier.js` | `suppliers` rows, the namespaces with transit mount and keys, the quotas in Vault, jobs | register (dry or not), move (PATCH), provision, deprovision, unregister | a deprovision runs inline while its row is claimable, and in sync mode a provision too; provision jobs outlive their row; a rollback deletes a whole namespace; PATCH moves a row and leaves Vault alone; a quota is named by the last part of its namespace | registry and Vault agree; a tenant's keys go only with a deprovision that may take them |
| Credentials: `vault.js`, `db.js`, `routes/health.js` | the Vault token, the database credential on record, the pool, the lease cache | re-read both files (watch, timer), swap the pool, verify the token, look up the lease | rotations overlap while the old pool drains; verdicts arrive late; a cached TTL | the record never runs ahead of the pool; the pool never goes back; both catch up with the files |
| Webhooks: `events/emit.js`, `events/deliver.js`, `routes/webhooks.js` | `webhook_endpoints`, `webhook_deliveries` (attempt_count, delivered_at, failed_at) | register, delete, emit, attempt, retry | deliveries run unawaited in the process that emitted; answers and UPDATEs are lost; the process dies | the row accounts for what the endpoint got; a delivery reaches a verdict; a closed one stays closed |
| Audit evidence: `evidence/ingest.js` | `ingest_cursor`, `evidence`, the supplier cache of a worker | read from the cursor, insert, save the cursor | two workers tail one file; it is rotated or half written; a supplier is deleted while cached | the cursor passes no unread line; one row per entry; none dropped without a reason |
| Sessions and service accounts: `auth/index.js`, `auth/oidc.js`, `routes/service-accounts.js` | `sessions`, `service_accounts`, their tokens | log in, log out, issue, revoke | - (single statements, see section 8) | a revoked account has no usable token |
| Authorization, teams, tenant scope: `auth/authorize.js`, `auth/scope.js`, `suppliers/isolation.js` | none | decide | - | not modelled |
| Views, maturity, telemetry, UI, CLI, Terraform, workloads | none, or reports | reads | - | not modelled |

How they interact. The API and the worker share nothing but Postgres and Vault.
The API files requests, decisions, desired state and jobs; the worker loop
(`worker.js`) claims one job per turn, and every twentieth turn
(`RECONCILE_EVERY_TICKS`, 60 s over 3 s by default) runs the reconciliation
sweep, the offboarding sweep and the execution of approved destroys, in that
order. The worker also tails Vault's audit file. Reconciliation and offboarding do not destroy anything: they file a
request (`requestKeyDestroy`) and are also the *trigger* the executor looks for
(`hasLiveDestroyIntent`) before it acts on an approval. A run that changes a
policy's status emits a webhook event; the delivery goes on in the process that
emitted it. Every process keeps its own copy of the token and the database
credential that Vault Agent renders.

What is hard to test in this code, with the line where it bites and the
properties that watch it, is listed under "hazards" in `PROJECT.json`. Almost all
of it has one cause: the code holds no lock across its awaits except in two
transactions (`claimAndProcessOne` and `upsertDesiredState`), and Vault takes part
in neither.

## 2. Plan

| Order | Module | Composes / refines | State |
|---|---|---|---|
| 1 | `StateMachines`, `Disposition` | tables and derivation every other module uses | done |
| 2 | `KeyDestruction` | abstract specification of governed destruction | done |
| 3 | `DestroyGovernance` | implements `KeyDestruction` | checked and proved |
| 4 | `IntentLog`, `DesiredState` | `DesiredState` implements `IntentLog` | checked and proved |
| 5 | `Reconciliation` | uses `IntentLog` for intent, `Disposition` for the verdict | checked and proved |
| 6 | `Offboarding` | uses the actions of `KeyDestruction` as its environment | checked and proved |
| 7 | `ProvisioningJobs` | step runner, claim, rollback | checked and proved |
| 8 | `DeliveryLedger`, `WebhookDelivery` | `WebhookDelivery` implements `DeliveryLedger`; starts where `told` of `Reconciliation` ends | checked and proved |
| 9 | `EvidenceIngest` | cursor, rotation, workers side by side | checked and proved |
| 10 | `CredentialRotation` | token and database credential, watch, timer, pool swap, lease cache | checked and proved |
| 11 | `SupplierLifecycle` | the jobs of `ProvisioningJobs`, over rows that come and go | checked and proved |

Every property the passing runs check is also proved, but for those about liveness.
Sessions and authorization were planned and dropped; section 8 says why.

## 3. The modules

In every module a process is one call, request handler or worker; its `pc` names
the await it is about to issue, so an action is the code from one await to the
next. A failed call, a lost answer and a crash are actions of their own, each
counted in `faults`. Definitions commented `mutant` are wrong variants of the
definition that follows them, the way a plausible bug would have it; no `Next`
uses them. They document what each property is sensitive to: with the variant in
place of the original, the property named for it in `PROJECT.json` is violated.

**StateMachines** (`domain/state-machines.js`). `JOB_STATES`,
`OBSERVATION_STATUS_STATES` and `DISPOSITION_STATES` as functions from a state to
its successors; `LegalTransition` is `assertTransition` not throwing.

**Disposition** (`reconciliation/engine.js`). `computeDisposition` from the newest
action row and the newest run. Of the clock it keeps one fact: whether the
exception's `expires_at` is still ahead.

**DestroyGovernance**. Governed destruction.

| In the module | In the code |
|---|---|
| `vault[k]`: `gen`, `version`, `deletable` | the Transit key; `latest_version`, `deletion_allowed`. `gen` counts creations of the name; Vault does not report it and no action reads it |
| `approvals[r]` | a row of `approval_requests`; `pin` is `key_version`, `executed` is `executed_at IS NOT NULL`, `cg` the Control Group behind its accessor |
| `run`, `drifted`, `action`, `archived`, `stage` | what `hasLiveDestroyIntent` reads: newest run, action row, `archived_at`, offboarding stage |
| `PinVersion`, `InsertRequest`, `RecordReconcile`, `RequestFails` | `requestKeyDestroy` and the action row of `reconcileExpiryDate` |
| `RegisterRequest` | `POST /approvals` |
| `DeleteApplication`, `Registered` | `DELETE /applications/:id`; ON DELETE SET NULL on `approval_requests` makes it wait for a worker's row lock |
| `BeginApprove`, `verifyApprovalGate`, `WriteApproved`; `BeginDeny`, `WriteRejected`; `DecisionFails` | the approve and deny handlers; the UPDATE names only the id |
| `Claim`, `CheckIntent`, `ReadKey`, `ClearProtection`, `DeleteKey`, `RestoreProtection`, `Commit`, `EndTick` | `claimAndProcessOne` and `destroyTransitKey`; `tried` is `excludeIds` |
| `ClearProtectionFails`, `DeleteFails`, `ExecutionFails`, `Crash` | the same calls failing, failing after they took effect, and the death of the process |

**KeyDestruction**. What the above promises without processes: material is
destroyed only for a request in force, and a request is marked executed only when
the material it was filed against is gone.

**DesiredState** (`reconciliation/desiredState.js`, `provisioner/application.js`).
One `desired_state` row and its history: `upsertDesiredState` as a transaction
(`SelectForUpdate`, then `CreateRow` or `WriteRow`), called by operators and by a
provisioning step whose undo (`UndoUpsert`) bypasses it. FOR UPDATE locks nothing
while the row is absent; the UNIQUE constraint decides between two first writers.
**IntentLog** is what the pair promises: a log in which no superseded value is
rewritten.

**Reconciliation** (`engine.js`, `observe.js`, `diff.js`). One policy, of either
kind: `requirement` is chosen in `Init`. `BeginSweep`/`BeginReconcile` read the
policy, `Apply` writes Vault for a `rotation_period`, `File` files the destroy
request of an `expiry_date`, `Observe` reads the key and compares
(`compareRotationPeriod`, `compareExpiryDate`), `ReadPrior` and `InsertRun` are
`recordRun` with the event it emits (`told`), `InsertAction` is the action row of a
reconcile. `log` is an `IntentLog`; `OutsideStep` is everybody else: intent edits,
drift, rotation, the calendar (`DaysPass`), exceptions and their expiry.

**Offboarding** (`offboarding.js`). `Initiate` to `DoneFiling` are
`initiateOffboarding` with its `keyIsActive` (`Look`, `LookFails`), `BeginCheck` to
`Complete` are `checkOffboardingCompletion`, `Sweep` is the worker's turn.
`ResolvedFor` is the verdict on one row, from the newest request of its key.
Requests are filed, decided and executed by the actions of `KeyDestruction`.

**ProvisioningJobs** (`provisioner/steps.js`, `dispatch.js`, `application.js`,
`worker.js`). `CreateJob` is `createJob` and `runOrQueue`; `Claim`, `Dispatch`,
`CatchError` the worker loop; `Start`, `MarkStep`, `LookUp`, `RunStep`, `SaveStep`,
`Undo`, `CloseFailed`, `CloseSucceeded` are `runSteps`; `NextUndo` picks the step its
rollback loop comes to next. The steps of `provisionApplication` are reduced to the
four kinds that differ in what their undo may delete. A job object in memory (`mem`)
and its row (`status`) are two things, as in the code: `PersistFails` and `SaveFails`
are an UPDATE that throws, applied or not, so that a row may hold a verdict
(`NextStatus`) its worker believes lost when `CatchError` writes over it. `shared` is a
history, the jobs that two runners have had at once.

**SupplierLifecycle** (`routes/suppliers.js`, `provisioner/supplier.js`, `steps.js`,
`dispatch.js`, `worker.js`). Tenants and their namespaces, in either mode.

| In the module | In the code |
|---|---|
| `supplier[r]` | the namespace a `suppliers` row names; `Unnamed` is the UNIQUE constraint |
| `vault[n]`, `quota` | a namespace, its transit mount and the tenant's keys; the rate-limit quotas. `Leaf[n]` names the quota of `n`, so all of `Sharing(n)` have one between them |
| `Register` | `POST /suppliers`: the INSERT, and the job unless `?dry=true` |
| `Patch` | `PATCH /suppliers/:id` as far as it sets `vault_namespace`: one UPDATE, of the registry only |
| `BeginDelete`, `CreateJob`, `Start`, `Unregister` | `DELETE /suppliers/:id`, which runs its job inline in both modes, and the same calls of `POST` in sync mode, which deletes the row when its job did not succeed |
| `Claim`, `Dispatch`, `Catch` | the worker, which takes the oldest pending row whoever else may be at it |
| `StepSucceeds`, `StepFails`, `SaveFails`, `Undo`, `CloseFailed`, `CloseSucceeded` | `runSteps`; the UPDATE after a step is inside its `try`, so its failure undoes the step as well, the quota being the last |
| `Abort`, `Throw`, `Unheard` | the process dies or an API call answers 500; a database call of a worker throws; in both cases the statement under way may have been applied |

What Vault answers about a namespace that is already there, or is not, is left open:
`Refusable` and `Acceptable` overlap. History variables: `handed`, the namespace a row was
provisioned in; `moved`, the namespaces a PATCH took from a row or gave to one;
`crowded` and `rivalled`, those that two runs, or two provision runs, were bound for at
once; `met`, the keys a run found when it checked. All are kept per namespace, so that an
exception made for one namespace excuses nothing in another.

**WebhookDelivery** (`events/emit.js`, `events/deliver.js`, `routes/webhooks.js`).

| In the module | In the code |
|---|---|
| `row[<<v, e>>]` | a row of `webhook_deliveries`: `attempts` is `attempt_count`, `outcome` which of `delivered_at`, `failed_at` is set |
| `Emit`, `SelectEndpoints`, `InsertDelivery`, `InsertFails` | `emitEvent`: the SELECT, and per endpoint the INSERT and the unawaited start of `attemptDelivery` |
| `Accepted`, `AnswerLost`, `NotAccepted` | the POST of one attempt, by what becomes of it |
| `RecordDelivered`, `CountAttempt`, `Retry`, `RecordFailed` and their `...Fails` | the UPDATEs and the back-off; a failure of the first is inside the `try`, of the second outside |
| `Register`, `Delete` | the routes; the foreign key refuses to delete an endpoint with deliveries |
| `Crash` | a process dies with its emissions and deliveries; nobody takes them up |

**DeliveryLedger** is what that promises: on record before it is sent, called
delivered only when the endpoint has it, closed once.

**EvidenceIngest** (`evidence/ingest.js`). `Stat`, `ReadCursor`, `ReadFile`, `LookUp`,
`InsertEvidence`, `SaveCursor` are the awaits of `ingestAuditLog`; `World` is Vault
writing lines (an odd `Size` is half a line), the rotation of the file, and suppliers
that come and go. A cursor carries, as a history, the number of the file it counts;
the code saves the offset only.

**CredentialRotation** (`vault.js`, `db.js`, `routes/health.js`). `Watch` and `Tick` are
the directory watch and the timer, both over `reconcileTokenFile` and
`reconcileDbCredsFile`; a call that has swapped the pool waits in `old.end()` until
`Record`. `Verified` and `VerifyFails` are `verifyTokenLive`, `Probe` and `LeaseAnswer`
`checkDbLeaseTtl`. Credentials and tokens are numbered as issued.

## 4. The runs

Every bound is a CONSTANT with a name and stands in a guard.

| Run | Question | Instance |
|---|---|---|
| `destroy_races` | do deciders, workers, rotation, re-creation and the deletion of the application respect the row lock, the Control Group and the verdict; is `executed_at` truthful, protection accounted for, `KeyDestruction` implemented? | 1 request, 2 deciders, 2 workers, 2 versions, 2 incarnations, 1 fault, symmetric deciders and workers |
| `destroy_live` | does an approved request get done, does a decision land? | 1 request, 2 deciders, 1 worker, 2 incarnations, 1 fault, fairness |
| `desired_state` | are the lock and the UNIQUE constraint enough; is `IntentLog` implemented? | 2 writers of one row and a provisioning job with undo; 2 values, 4 versions, failures unbounded |
| `reconcile` | are runs honest, exceptions kept, subscribers told, RECONCILED true, the truth reached? | both kinds of policy, a sweeping worker and one API call, 2 values, 2 versions, grace 1, ages 0, 2, 3, 1 drift, 1 fault, fairness |
| `offboarding` | are tombstones justified and complete, does it end? | 2 policies of one key, one of them declared late, 1 caller, 1 sweeper, somebody else filing requests too, 2 requests, 2 decisions, 2 incarnations, 1 fault, fairness |
| `jobs` | who runs a job, are rollbacks complete, do verdicts stand, is the queue drained? | 2 jobs, one step of each kind, 1 API call, fairness; in queue mode 2 workers and 3 faults, in sync mode 1 worker and 1 fault |
| `suppliers` | do registry and Vault agree, whose keys does a rollback or a deprovision take, are jobs closed? | 1 API call at a time, 1 worker, 2 rows, 1 key, fairness; three deployments, below |
| `webhooks` | do rows account for receipts, are deliveries settled, is `DeliveryLedger` implemented? | 2 events, 2 endpoints (one wants both events), 2 processes, 2 attempts, 1 fault, fairness |
| `evidence` | is a line skipped, recorded twice or dropped without a reason; is every entry ingested? | 2 workers, 2 entries of which 1 is a tenant's, 1 rotation, 1 supplier row, 1 fault, fairness |
| `credentials` | do overlapping rotations keep pool and record in order; does everything catch up? | 2 queries, 2 overlapping rotations, 3 credentials, 2 tokens, 1 fault, fairness |
| `recreated_key`, `late_deny` | the quoted sentences of section 7 | violations; each the smallest instance with the actors and incarnations it takes |

Two runs cover several deployments. `MCProvisioningJobs` and `MCSupplierLifecycle`
instantiate their module again with the other constants, and a variable that never
changes says which instance a behaviour belongs to; the properties are the same for all.
`MCProvisioningJobs` has queue mode, as the cfg says, and sync mode (`Sync`, bounded by
`SyncFaults`), the one that is shipped, in which a call and a worker may have one job.
`MCSupplierLifecycle` has

- `queue`: one namespace, which two rows name one after the other, 2 deletions, 1 fault;
- `sync`: the same with `SyncDeletes` = 1, where call and worker may both run a provision;
- `moved`: queue mode with 3 namespaces, of which 2 share a leaf, PATCHes that move rows
  from and to 2 of them, no deletion and `MovedFaults` = 0.

Why the bounds are enough. A race over one row needs two writers and one row; a
second incarnation is enough for a key to be mistaken for its successor, and a
second version for a pin to be overtaken. A second request for one key, which could
be mistaken for the first, is in `offboarding` and `recreated_key`, and in the proofs.
One fault at any point covers every single failure; `jobs` needs three, since a step,
an undo and the closing write may fail in one run. More faults in `suppliers`, as a
failing undo, and deletions of rows that were moved are left to the proofs of
`KeysGuarded` and `RegistryAndVaultAgree`, which bound neither. Three namespaces are one
a row is moved from, one it is moved to, and one that must not notice; whichever two are
moved between, two of the three share a quota. The ages 0, 2 and 3 lie below, at and beyond
`period + grace` of the values 1 and 2. Two attempts have a first, a last and a back-off between them; the code makes
three. Three credentials are needed for two rotations to overlap and end in the
other order. Two entries and a rotation let a cursor be saved late, behind and beyond
the end of the file. What is proved does not depend on these bounds at all.

`CHECK_DEADLOCK FALSE` stands where the instance really stops: when requests, jobs,
events, rows or an offboarding are used up, everybody is idle. The other runs
(`reconcile`, `desired_state`, `evidence`, `credentials`) never stop and are checked
for deadlock.

## 5. Fairness

The worker's loop (`for (;;)` around a `try`, `worker.js`) survives every error, so
each of its steps that is neither a fault nor a crash is weakly fair. A decision's
UPDATE waiting for the row lock of a worker is strongly fair: Postgres queues the
waiter, and the worker's `SKIP LOCKED` passes over the row while it waits. API
callers owe nothing, but where the list below says otherwise: a reconcile, an offboarding
call or a decision may stop half way for ever, and no liveness property assumes
otherwise. Faults are bounded in number, never in place. In `Offboarding` and `Reconciliation` only the sweep is fair.

- `WebhookDelivery`: promises and timers of a live process are served; a crash takes
  them away, and endpoints may refuse for ever.
- `EvidenceIngest`: the worker comes round to `ingestAuditLog` and its calls return.
- `CredentialRotation`: the timer fires, verifications and lease look-ups are answered
  or time out, queries end, and time passes. Nothing is assumed of the file watch.
- `SupplierLifecycle`: a call that has begun goes on, since its awaits return; that one
  begins is nobody's duty. The worker polls.
- `ProvisioningJobs`: the worker's loop and the step runner under it; likewise the step
  runner under an API call that has begun (sync mode), since its awaits return.

## 6. What is proved

Each theorem holds for every value of the constants that satisfies the module's
`ConstantsAssumption`, which says little more than that bounds are numbers and that
names do not collide; no theorem has another hypothesis. `Database_proofs` extends two
modules whose states are disjoint; `RotationSpec` is that of `CredentialRotation`.

| Module | Theorems | Say |
|---|---|---|
| `DestroyGovernance_proofs` | `TypeCorrect` | `TypeOK` |
| | `RowFrozen`, `OneExecutor` | a claimed row stays approved and unexecuted, and has one worker |
| | `ControlGroupGate` | `ApprovalHasControlGroup` |
| | `ExecutionIsTruthful` | `ExecutedMeansGone` |
| | `DestroyAuthorized` | `DestroyedOnlyWhileApproved`, an action property |
| | `ProtectionKept` | `UnprotectedOnlyInFlight` |
| | `Implementation` | `Spec` implements `KeyDestruction` |
| `Database_proofs` (`DesiredState`) | `TypeCorrect`, `LockSuffices`, `HistoryKept` | types, `NoLostUpdate`, `HistoryIsComplete` |
| | `IntentLogKept` | `Spec` implements `IntentLog` |
| `Database_proofs` (`CredentialRotation`) | `RotationTyped`, `RecordTrails`, `PoolAdvances` | types, `RecordNotAheadOfPool`, `PoolNeverStepsBack` |
| `Reconciliation_proofs` | `TypeCorrect`, `RunsAreHonest`, `EventsFollowRuns`, `ReconciledOnlyGone` | types, `RunIsHonest`, `SubscribersInformed`, `ReconciledMeansGone` |
| | `AxesStayIndependent` | `AxesIndependent`, an action property |
| `Offboarding_proofs` | `TypeCorrect`, `TombstonesAreJustified`, `NothingLeftBehind` | types, `TombstoneJustified`, `OffboardedLeavesNoRow` |
| `ProvisioningJobs_proofs` | `TypeCorrect`, `VerdictsAreKept` | types, and `VerdictsStand`, an action property |
| | `ClaimedOnce` | `JobRunsOnce`, in either mode |
| | `RollbackIsComplete`, `RecordsAreKept`, `SuccessStaysComplete` | `RollbackMissesNothing`, `RecordsSurvive`, `SuccessIsComplete`, in either mode |
| `SupplierLifecycle_proofs` | `TypeCorrect`, `RegistryAgrees` | `TypeOK`, `RegistryAndVaultAgree` |
| | `KeysAreGuarded` | `KeysGuarded`, an action property, with any number of workers |
| `WebhookDelivery_proofs` | `TypeCorrect`, `AttemptsAreEvidence`, `OnlyLossRepeats`, `EndpointsStay` | types, `AttemptsAccountForReceipts`, `TwiceOnlyWhenLost`, `DeliveriesKeepTheirEndpoint` |
| | `LedgerKept` | `Spec` implements `DeliveryLedger` |
| `EvidenceIngest_proofs` | `TypeCorrect`, `CursorNeverPasses`, `OneRowEach`, `DropsHaveReasons` | types, `CursorPassesNothing`, `OneRowPerEntry`, `DroppedForAReason` |

Since `TypeOK` is proved of these nine modules, the runs need not check it; `suppliers`
does, because there it says something of Vault: no mount or key without a namespace.
None of the other invariants is
inductive by itself; what each argument adds:

**DestroyGovernance.** A chain of invariants, each resting on the ones before it.

1. `Typed` adds to `TypeOK` that processes hold only keys and rows that exist;
   without it `approvals[worker[w].req]` means nothing.
2. `Locking`: `ClaimedRowFrozen` and `SingleExecutor` need each other, since a
   second holder could execute the row of the first.
3. `GateHeld`: between `verifyApprovalGate` and the UPDATE nobody locks the row, so
   the gate's answer must be shown to last; a Control Group is never taken back.
4. `PinsKnown`: a pin and the incarnation it was read from come together and are
   never ahead of Vault; a worker past the pin check holds a pinned row.
5. `MaterialGone`: a worker about to commit has seen the reviewed material gone,
   and an incarnation that is gone does not come back, because `gen` only grows.
6. `StillRegistered`: the intent check has seen the application (`PastIntent`), and its
   deletion waits for the row the worker has locked (`DeletionWaits`).

A step is examined once per effect rather than once per action and property: the
lemmas `WorkerStepEffect`, `RowSteps` and `Actors` say what any step can do to a row, a
key or a process, and each invariant's proof is a case split over those effects.

**DesiredState.** `Prepared` says what a writer holds when it comes to write and
`OneWriter` that FOR UPDATE admits one at a time, so the prior value it holds is the
row's. For the refinement, `LogIsSequence` shows that the history with the live row on
top is a sequence, `UpsertDeclares` and `UndoAmends` map the two ways of writing.

**Reconciliation.** `RowKnown`, `Compared` and `AboutDrift` say what a call holds: a row
that was the policy, and the comparison of that row with what it observed. As long as
calls have not overlapped, `Single` adds that nothing was recorded behind its back, and
`DatePassed` that a date once passed stays passed; `OnRecord` says the same of the
newest run.

**Offboarding.** Each request says what it was filed for (`RequestHonest`), reasons to
archive a row stay reasons (`HasReason`), and a call that has gone through the rows has
skipped none that was there when it began (`NothingSkipped`, `EarlyRowsStay`).

**ProvisioningJobs.** In every deployment, `Held` says what the object of a busy runner
may be, and `Agrees` that the row says the same, or still "running" when the last write
was not applied - unless two runners have had the job (`OwnedOnce`). From this
`VerdictsStand` follows for every step, with the two ways out it names. `InTurn`: the row
of a busy runner is in the table, and a worker's is not pending. Hence a call never
inserts, and a worker never claims, what one of its own kind has (`JobRunsOnce`), although
in sync mode a worker may claim what a call has. `GivenUp` covers the worker that did not
hear of its own success: what it built counts as abandoned.

Once two runners have had one job nothing holds of the resources in general: a step may
follow the job's failure. So `ResourceInv` is an invariant as long as no job was shared
(`Unshared`), in sync mode too. Two runners of one job overlap (`SharingOverlaps`), so
what is said of runs that do not overlap (`RecordsSurvive`) needs no such condition.

What a run makes and takes away is `ResourceInv`. Its core is `Accounted`: a resource
that is present has a run that would delete it on failure (`Attending`), or an excuse: a
failing call or an interrupted run has left it, a job has succeeded, or two runs have
overlapped over a row. `Reached` and `LookedUp` say what a run has behind it and what it
knew of its step, `Alone` that two are only busy at once where an overlap is on record;
`RowsKept` and `NothingMissing` are the two other properties in a form that is
inductive. The many ways to step are sorted by effect (`GoesOn`, `Runs`,
`TurnsBack`, `Undoes`, `Leaves`, `Succeeds`; `RunnerEffect` and `WhoMoves` prove the
sorting complete), and each part is shown to survive each effect. Two facts carry over
time: a verdict lasts (`VerdictsLast`), and a rollback disturbs the application for good
(`DisturbedForGood`, `RollbackDisturbs`).

**SupplierLifecycle.** All
actions of a run are summed up by one formula, `On`: the run ends or goes on with its
task (`Goes`), its job is written (`Saves`), perhaps its row goes. Each part of the
invariant is shown once for `On`, for `Begin`, for `Patch` and for `CreateKey`.

- *Keys.* `Placed` and `Trim` say where a run may be, that it and its job are of one row,
  that only provisions have steps to undo, and that an unforced deprovision past its check
  met no key. `Rows` numbers the rows, `OneJob` gives each one provision job at most, and
  not one that waits once it has been handed over. `Alone` says that two runs at one
  namespace are on record as `crowded`, or `rivalled` when both provision. The core is
  `Spared`: apart from moved and rivalled namespaces, no provision run is left at the
  namespace of a tenant, so no rollback can take it. `Own`: a run that is alone at a
  namespace works for the row that names it. Neither exception can be dropped:
  section 7 has a behaviour for a moved row, for two provision runs at one namespace, and
  for a deprovision of another row.
- *Agreement.* As long as nothing has failed (`Unfailing`), `Progress` says for every
  stage of a run how far it has brought its namespace, and `Matched` that every namespace
  neither moved nor crowded is settled, or is at the stage of the one run at it.
  `Waiting` says that a deprovision job that is pending has the call that is about to
  start it, hence a worker that claims it crowds the namespace (`ByCalls`). It is an
  invariant of each namespace by itself, whatever happens to the others; only the quota
  is promised on the condition that its leaf is not shared.

**WebhookDelivery.** `RowKept` and `SenderKept` relate the row, what its sender has
counted and what has arrived; `LossKnown` that a receipt the process does not know of is
on record as a loss; `ToInsert` that an event is inserted once per endpoint.

**EvidenceIngest.** `Covers`: what a worker's cursor has behind it is settled or still in
its own queue (`Queued`). With it, whichever worker saves last saves a cursor that
passes nothing. It rests on `FileWithinBounds`, on cursors being even and of a known
file, and on cached supplier ids being ids that were given out.

**CredentialRotation.** `Ordered`: record <= pool <= file, and a call waiting for the old
pool to end has already put its own credential, or someone a newer one, in the pool.

Only model-checked: every liveness property (`ApprovedGetsExecuted`, `DecisionLands`,
`Converges`, `OffboardingCompletes`, `PendingIsDrained`, `JobsAreClosed`,
`EveryDeliveryIsSettled`, `EntriesAreIngested`, `Settles`), which rests on fairness and
ENABLED and is out of this prover's reach.

## 7. Where the code does not do what the repository says

Each of these two is a run whose property states the quoted line, and which is violated.

| Run | Said | Done |
|---|---|---|
| `recreated_key` | a mismatch of the pin "means the key has changed (rotated, or destroyed+recreated ...) - refuse" (`approval-execution.js:230`) | a re-created key starts at version 1 again, so a pin of 1 matches it and it is destroyed |
| `late_deny` | `executed_at` is "never set for rejected or pending requests" (`023_approval_execution.sql:18`) | deny reads `pending`, then updates by id alone, also over an approved, executed row |

Met while modelling, without a run of their own; the models contain each of them
and state their properties around it.

Destruction and reconciliation:

- An exception accepted between the intent check and the DELETE does not stop the
  execution (`approval-execution.js:178`): the intent is read over another connection.
- `acceptException` may be called on a DRIFTED run that is no longer the newest, so
  RECONCILED to EXCEPTION_ACCEPTED happens although `DISPOSITION_STATES` lacks it
  (`engine.js:456`).
- A reconcile that fails still inserts an action row, and thereby ends an accepted
  exception (`engine.js:234`). `AxesIndependent` is therefore about observations.
- The action row of an `expiry_date` reconcile says `applied` although only a request
  was filed. "Disposition deliberately does NOT move to RECONCILED here"
  (`engine.js:371`) is true as long as the newest run is DRIFTED; once the date has been
  moved, or a slow call records a stale COMPLIANT run, the policy is RECONCILED with its
  key in place. `ReconciledMeansGone` excludes these two cases.
- `key.expiry_approaching` is emitted only when the prior status is not COMPLIANT
  (`engine.js:162`), so a policy that was COMPLIANT before the last fourteen days
  enters them unannounced.
- "Nothing is finalized until every one of them is actually resolved"
  (`offboarding.js:6`): only the newest request of a key counts (`offboarding.js:67`), so
  with two policies of one key the older request may be unresolved.
- An offboarding call that dies before its last request leaves rows no sweep can ever
  resolve; a second `POST /:id/offboard` is needed.
- A policy declared while the application is leaving may stay live after it has left.
- The undo of a provisioning step rewrites a desired value without a version or a
  history row (`provisioner/application.js:303`; the abstract `Amend`).

Jobs and suppliers:

- "This job was just claimed into 'running' above, so no other prior state is reachable"
  (`worker.js:126`): when the UPDATE of the verdict is applied but not answered, the catch
  writes `failed` over `succeeded` or `rolled_back` (`worker.js:128`). It is the second
  exception of `VerdictsStand`.
- The worker is "harmless (idle) in the default sync mode"
  (`src/compose/arcanium/compose.yaml:181`, from the root): it claims the pending row an
  API call is executing (`worker.js:43`), and when one of the two fails, its rollback takes
  what the other reports as succeeded. `VerdictsStand`, `RollbackMissesNothing` and
  `SuccessIsComplete` except jobs that are `shared`; for suppliers see `rivalled`.
- "Re-running a completed provision is a no-op update in Vault"
  (`src/docs/orchestration.md:66`): the provision job of a row that registers a namespace
  which a PATCH has taken from its tenant fails on what is there and deletes it, keys
  included (`provisioner/supplier.js:36`), with one worker and without a fault. `moved`.
- "Running more than one `arcanium-worker` today would be safe for provisioning jobs"
  (`src/docs/scale.md:89`): no job is claimed twice (`JobRunsOnce`), but the rollback of a
  deleted supplier's slow job can delete its successor's namespace. `rivalled`.
- "Deprovision + row cleanup are coupled - always synchronous" (`routes/suppliers.js:285`):
  the row of the job is pending, and a worker that claimed it may delete the namespace
  after another supplier was provisioned there. `crowded`.
- A quota "per supplier", which "protects Vault from a single tenant's workload traffic"
  (`src/docs/scale.md:132`), is named by the last part of the namespace
  (`provisioner/supplier.js:91`), so `suppliers/acme` and `partners/acme` have one between
  them. `Sharing`.

- A rollback never deletes "something that predates this attempt"
  (`provisioner/application.js:70`), but the undo of key, policy and AppRole deletes the
  object whoever created it.
- A `persist` that fails outside the step's `try` skips the rollback (`steps.js:100`).
- Two overlapping upserts of one `crypto_profiles` row can both take it for the
  other's, and neither undo deletes it (`application.js:221`).
- `dispatchJob` marks a job without a target failed in memory only; its row stays
  `running` (`dispatch.js:19`, `dispatch.js:41`).
- A worker that claims the job of a DELETE and comes after its row is gone writes `failed`
  over `succeeded` (`dispatch.js:28`: the job has no namespace to go by).
- PATCH may move a provisioned row (`routes/suppliers.js:224`), after which registry and
  Vault differ. The repository says so: "supplier namespace metadata edits do not
  automatically migrate resources or reconcile quota configuration"
  (`src/docs/capabilities.md:32`). What happens to the next tenant of the namespace it does
  not say.
- A status write that fails after the last step undoes a finished provision, quota
  included, or reports a namespace that has gone as kept (`steps.js:110`).
- A DELETE that races a provision job leaves a namespace without a row.
- A queued rotation of a tenant key is dispatched without its namespace
  (`dispatch.js:49`).

Webhooks, evidence, credentials:

- A delivery is "never left in a permanently-ambiguous in flight state"
  (`deliver.js:55`), but a crash, or a failing UPDATE of the attempt count, leaves its row
  open for ever: nobody takes up rows of an earlier process.
- `DELETE /webhooks/:id` is "a hard delete" (`routes/webhooks.js:137`), which the foreign
  key (`migrations/020_webhooks.sql:28`) refuses once anything was delivered.
- A rotated audit file is recognised only while it is shorter than the cursor; if it has
  grown beyond, its first entries are skipped (`ingest.js:94`).
- Evidence of a tenant deleted within the last minute is refused by the foreign key and
  dropped, since the cached id is still used (`ingest.js:69`).
- `lastDbRotationError` is not cleared by a re-read that finds nothing to do
  (`vault.js:207`), so one failed read keeps readiness at 503 until the next rotation
  (`routes/health.js:56`).
- A late 403 for a token that has been replaced meanwhile marks the new one
  unauthenticated until the next verification (`vault.js:252`).
- The cached TTL is not keyed by its lease (`vault.js:370`): for up to thirty seconds
  readiness judges a new credential by the old one's lease.

## 8. Not modelled, and why

Abstractions inside the modules:

- A lost answer to a COMMIT of Postgres: a transaction here commits or does not, and
  its owner knows which. The same goes for the single UPDATEs of `WebhookDelivery`, where
  the one that sets `delivered_at` may in truth be applied and an attempt still follow.
  `ProvisioningJobs` and `SupplierLifecycle` do model status UPDATEs, and the INSERT of a
  job, that are applied although their answer is lost.
- `DestroyGovernance`: `rotateKey` and `rewrapCiphertext` appear only as a version that
  grows; `KeyDestruction` has no versions at all. The order in which rows are claimed
  is left open, as is the order of pending jobs in `ProvisioningJobs`: both are more
  behaviours than the code has. `RecordRun` lets any status arrive, even after the
  deletion of the application, whose policies the sweeps no longer select;
  `Reconciliation` models how a status comes about. A deleted application stays deleted: registering one of
  that name again gives a new id, which no old row names. `Offboarding` has no deletion.
- `Reconciliation` leaves out `key.expiry_approaching`, which reads no state the other
  event does not, and treats policies one at a time: a sweep handles its rows in turn.
- `Offboarding` has `Unrecorded` keys (no `crypto_profiles` row) as a constant; its run
  leaves it empty, so the branch of `Look` for them is taken only through a key that is
  gone. The proofs cover any value.
- `ProvisioningJobs` has one step of each kind; rotation jobs run through the same step
  runner. `SupplierLifecycle` takes a step as one action, since the runner's own writes
  are in `ProvisioningJobs`, and lets transit stand for the steps that configure the
  inside of a namespace. Its namespaces are not nested, deleting one is done when Vault
  answers, and leaves the quota. Names and tiers of suppliers are left out, the UNIQUE
  name included. No application is linked to its suppliers: with one, DELETE is refused.
- `EvidenceIngest` leaves out `classify`, `actorFrom` and `sourceFrom`, which choose the
  columns of a row, and entries that get none.
- `CredentialRotation` begins with both files rendered: the bounded wait of `vaultInit`
  for them, and the `/health` report, are left out.
- Time: expiry of an exception, ageing of a key, of a cache or of a lease are events,
  not clocks.

Parts without a module:

- Sessions and service accounts (`auth/*.js`, `routes/service-accounts.js`): every change
  is one SQL statement and every request is judged by one SELECT that joins token and
  account, so no step acts on what an earlier one read. A token issued just after its
  account was revoked is refused by that join. A model would have one action per
  statement and nothing to interleave.
- Authorization, tenant scope, teams and sign-on: pure decisions and look-ups about who
  may call a route. The models begin where a permitted call begins.
- Listings, exports, approval-intent aggregation, the editing of descriptive fields,
  cluster, PKI, KMIP and integration views, maturity scoring and telemetry: reads, or
  single writes nothing else depends on.
- The browser UI, the CLI, Terraform, compose files and sample workloads: presentation,
  clients and deployment. They make up most of the repository's lines, and are why the
  modelled share of it is small.
