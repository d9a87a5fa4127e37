------------------------- MODULE SupplierLifecycle -------------------------
(***************************************************************************)
(* Tenants: their suppliers rows, their Vault namespaces, and the jobs     *)
(* that make the one follow the other (routes/suppliers.js,                *)
(* supplier-validation.js, provisioner/supplier.js, steps.js, dispatch.js, *)
(* worker.js), in sync or in queue mode, with any number of workers.       *)
(*                                                                         *)
(* How the step runner records its steps is in ProvisioningJobs; here a    *)
(* step and the status UPDATE after it are one action.  Of the steps that  *)
(* configure the inside of a namespace, transit stands for all: each fails *)
(* when its path is in use.                                                *)
(***************************************************************************)
EXTENDS SequencesExt, StateMachines

CONSTANTS
  Caller,        \* API calls under way
  Worker,        \* worker processes
  Key,           \* keys the tenants may make
  Namespace,     \* namespaces a row may name, none inside another
  NoNamespace,   \* of a row that is not there
  Leaf,          \* the last part of a namespace's path, which names its quota
  QueueMode,     \* PROVISION_MODE=queue
  MaxSuppliers,  \* bound: rows registered
  MaxDeletes,    \* bound: deprovision jobs
  MaxMoved,      \* bound: namespaces that rows are moved from or to
  MaxFaults      \* bound: failed or lost Vault and database calls, crashes

ASSUME ConstantsAssumption ==
  /\ Caller \cap Worker = {}
  /\ NoNamespace \notin Namespace
  /\ QueueMode \in BOOLEAN
  /\ {MaxSuppliers, MaxDeletes, MaxMoved, MaxFaults} \subseteq Nat

Runner == Caller \cup Worker
Row    == 1..MaxSuppliers

VARIABLES
  supplier,  \* the namespace each row names
  ids,       \* rows inserted so far
  jobs,      \* provisioning_jobs, in the order of created_at
  vault,     \* each namespace, its transit mount and keys
  quota,     \* the namespaces that a rate-limit quota is set for
  run,       \* what each API call or worker is doing
  faults,
  \* histories, which no action reads
  handed,    \* the namespace each row's provision job succeeded for
  moved,     \* namespaces a PATCH took from a row or gave to one
  crowded,   \* namespaces that two runs were bound for at once
  rivalled   \* namespaces that two provision runs were bound for at once

vars == <<supplier, ids, jobs, vault, quota, run, faults, handed, moved, crowded, rivalled>>
history == <<moved, crowded, rivalled>>

ProvisionSteps   == <<"namespace", "transit", "quota">>
DeprovisionSteps == <<"check", "unquota", "delete">>
StepsOf(kind)    == IF kind = "provision" THEN ProvisionSteps ELSE DeprovisionSteps
ProvisionStep    == {"namespace", "transit", "quota"}
StepName         == ProvisionStep \cup {"check", "unquota", "delete"}
UndoOf           == [namespace |-> "delete", transit |-> "unmount", quota |-> "unquota"]

JobRow == [kind : {"provision", "deprovision"}, row : Row, force : BOOLEAN,
           status : JobStatus]

(***************************************************************************)
(* pc is the await about to be issued; job the index of the job, 0 before  *)
(* it is created; at the namespace that the steps were built from; done    *)
(* the steps to undo should one fail; met, a history, the keys that the    *)
(* namespace held when the run checked it.                                 *)
(***************************************************************************)
RunState ==
  [pc : {"idle", "create", "start", "dispatch", "step", "undo", "close", "catch",
         "unregister"},
   kind : {"provision", "deprovision"}, row : 0..MaxSuppliers, force : BOOLEAN,
   job : Nat, at : Namespace \cup {NoNamespace},
   todo : Seq(StepName), done : Seq(StepName), met : SUBSET Key]

Idle == [pc |-> "idle", kind |-> "provision", row |-> 0, force |-> FALSE, job |-> 0,
         at |-> NoNamespace, todo |-> << >>, done |-> << >>, met |-> {}]

NoTenant == [ns |-> FALSE, transit |-> FALSE, keys |-> {}]

Present(r) == supplier[r] # NoNamespace
Busy(p)    == run[p].pc # "idle"
Fault      == faults < MaxFaults /\ faults' = faults + 1
Quit(p)    == run' = [run EXCEPT ![p] = Idle]
To(p, pc)  == run' = [run EXCEPT ![p].pc = pc]

(* The namespace a run works on; from claim to dispatch, the one it would  *)
(* read from its row.                                                      *)
Bound(p, n) ==
  \/ run[p].at = n
  \/ run[p].pc = "dispatch" /\ supplier[run[p].row] = n

(* A provision run that has its Vault calls before it.                     *)
Provisions(p, state) ==
  /\ state.kind = "provision"
  /\ state.pc \in {"create", "start", "dispatch", "step", "undo"}
  /\ QueueMode => p \in Worker

(* A call or worker takes up a run that is bound for namespace n.          *)
Begin(p, state, n) ==
  /\ ~Busy(p)
  /\ run' = [run EXCEPT ![p] = state]
  /\ crowded' = crowded \cup
       {m \in Namespace \cap {n} : \E q \in Runner : Bound(q, m)}
  /\ rivalled' = rivalled \cup
       {m \in Namespace \cap {n} :
          Provisions(p, state) /\ \E q \in Runner : Bound(q, m) /\ Provisions(q, run[q])}
  /\ UNCHANGED moved

(* The UPDATE of a run's job.                                              *)
Write(p, s) ==
  /\ jobs' = [jobs EXCEPT ![run[p].job].status = s]
  /\ handed' = IF s = "succeeded" /\ run[p].kind = "provision"
               THEN [handed EXCEPT ![run[p].row] = run[p].at] ELSE handed

Created(p) == Append(jobs, [kind |-> run[p].kind, row |-> run[p].row,
                            force |-> run[p].force, status |-> "pending"])

-----------------------------------------------------------------------------
(* Whoever has a token for a namespace makes keys in it.                   *)
CreateKey(n, k) ==
  /\ vault[n].transit
  /\ k \notin vault[n].keys
  /\ vault' = [vault EXCEPT ![n].keys = @ \cup {k}]
  /\ UNCHANGED <<supplier, ids, jobs, quota, run, faults, handed, history>>

-----------------------------------------------------------------------------
(* The API                                                                 *)

Unnamed(n) == \A r \in Row : supplier[r] # n    \* the column is UNIQUE

(* POST /suppliers inserts the row, and goes on to the job unless ?dry.    *)
Register(c, n) ==
  /\ ids < MaxSuppliers
  /\ Unnamed(n)
  /\ ids' = ids + 1
  /\ supplier' = [supplier EXCEPT ![ids + 1] = n]
  /\ \/ Begin(c, [Idle EXCEPT !.pc = "create", !.row = ids + 1, !.at = n], n)
     \/ UNCHANGED <<run, history>>
  /\ UNCHANGED <<jobs, vault, quota, faults, handed>>

(* PATCH /suppliers/:id is one UPDATE, of the registry only.               *)
Patch(r, n) ==
  /\ Present(r)
  /\ Unnamed(n)
  /\ supplier' = [supplier EXCEPT ![r] = n]
  /\ moved' = moved \cup {supplier[r], n}
  /\ Cardinality(moved') <= MaxMoved
  /\ UNCHANGED <<ids, jobs, vault, quota, run, faults, handed, crowded, rivalled>>

(* DELETE /suppliers/:id reads the row; no application is linked to it.    *)
BeginDelete(c, r, force) ==
  /\ Present(r)
  /\ Cardinality({j \in DOMAIN jobs : jobs[j].kind = "deprovision"}) < MaxDeletes
  /\ Begin(c, [Idle EXCEPT !.pc = "create", !.kind = "deprovision", !.row = r,
                           !.at = supplier[r], !.force = force], supplier[r])
  /\ UNCHANGED <<supplier, ids, jobs, vault, quota, faults, handed>>

(* In queue mode a provision job is left to a worker.  A deprovision job   *)
(* is run at once, although its row is pending like the others.            *)
CreateJob(c) ==
  LET r == run[c] IN
  /\ r.pc = "create"
  /\ jobs' = Created(c)
  /\ run' = [run EXCEPT ![c] =
       IF QueueMode /\ r.kind = "provision" THEN Idle
       ELSE [r EXCEPT !.pc = "start", !.job = Len(jobs) + 1]]
  /\ UNCHANGED <<supplier, ids, vault, quota, faults, handed, history>>

(* runSteps persists "running" whatever the row says by now.               *)
Start(c) ==
  /\ run[c].pc = "start"
  /\ Write(c, "running")
  /\ run' = [run EXCEPT ![c].pc = "step", ![c].todo = StepsOf(run[c].kind)]
  /\ UNCHANGED <<supplier, ids, vault, quota, faults, history>>

(* After a deprovision that succeeded, or a provision that did not.        *)
Unregister(c) ==
  /\ run[c].pc = "unregister"
  /\ supplier' = [supplier EXCEPT ![run[c].row] = NoNamespace]
  /\ Quit(c)
  /\ UNCHANGED <<ids, jobs, vault, quota, faults, handed, history>>

-----------------------------------------------------------------------------
(* The worker                                                              *)

Claim(w) ==
  LET pending == {j \in DOMAIN jobs : jobs[j].status = "pending"}
      j       == Min(pending) IN
  /\ pending # {}
  /\ jobs' = [jobs EXCEPT ![j].status = "running"]
  /\ Begin(w, [Idle EXCEPT !.pc = "dispatch", !.kind = jobs[j].kind,
                           !.row = jobs[j].row, !.force = jobs[j].force, !.job = j],
           supplier[jobs[j].row])
  /\ UNCHANGED <<supplier, ids, vault, quota, faults, handed>>

DispatchAnyway(w) ==                             \* mutant: the params will do
  /\ run[w].pc = "dispatch"
  /\ \E n \in Namespace :
       run' = [run EXCEPT ![w].pc = "step", ![w].at = n, ![w].todo = StepsOf(run[w].kind)]
  /\ UNCHANGED <<supplier, ids, jobs, vault, quota, faults, handed, history>>

(* dispatchJob reads the row.  Without it a provision job is given up, in  *)
(* memory only, and a deprovision job has no namespace to go by, so that   *)
(* the worker catches a TypeError.                                         *)
Dispatch(w) ==
  LET r == run[w] IN
  /\ r.pc = "dispatch"
  /\ \/ /\ Present(r.row)
        /\ run' = [run EXCEPT ![w].pc = "step", ![w].at = supplier[r.row],
                              ![w].todo = StepsOf(r.kind)]
     \/ ~Present(r.row) /\ r.kind = "provision" /\ Quit(w)
     \/ ~Present(r.row) /\ r.kind = "deprovision" /\ To(w, "catch")
  /\ UNCHANGED <<supplier, ids, jobs, vault, quota, faults, handed, history>>

(* The catch writes "failed" over whatever the row says.                   *)
Catch(w) ==
  /\ run[w].pc = "catch"
  /\ Write(w, "failed")
  /\ Quit(w)
  /\ UNCHANGED <<supplier, ids, vault, quota, faults, history>>

-----------------------------------------------------------------------------
(* The steps.  What Vault answers about a namespace that is there already, *)
(* or is not there, is left open.                                          *)

Sharing(n) == {m \in Namespace : Leaf[m] = Leaf[n]}   \* one quota for them all

Apply(s, n) ==
  /\ vault' = [vault EXCEPT ![n] =
       CASE s = "namespace" -> [@ EXCEPT !.ns = TRUE]
         [] s = "transit"   -> [@ EXCEPT !.transit = TRUE]
         [] s = "unmount"   -> [@ EXCEPT !.transit = FALSE, !.keys = {}]
         [] s = "delete"    -> NoTenant
         [] OTHER           -> @]
  /\ quota' = CASE s = "quota"   -> (quota \ Sharing(n)) \cup {n}
                [] s = "unquota" -> quota \ Sharing(n)
                [] OTHER         -> quota

Refusable(s, n) ==
  CASE s = "namespace" -> vault[n].ns
    [] s = "transit"   -> ~vault[n].ns \/ vault[n].transit
    [] s \in {"quota", "delete"} -> ~vault[n].ns
    [] OTHER -> FALSE

Acceptable(s, n) == s = "transit" => vault[n].ns /\ ~vault[n].transit

AcceptsUnasked(p, s) ==                          \* mutant: an error means empty
  s # "check" => Acceptable(s, run[p].at)

(* The check asks for the keys; without a mount there is nothing to ask.   *)
Accepts(p, s) ==
  IF s = "check" THEN run[p].force \/ vault[run[p].at].keys = {}
  ELSE Acceptable(s, run[p].at)
Refuses(p, s) ==
  IF s = "check" THEN ~run[p].force /\ vault[run[p].at].keys # {}
  ELSE Refusable(s, run[p].at)

(* Where the run is once step s is over; a provision step may be undone.   *)
Past(p, s) ==
  [run[p] EXCEPT !.todo = Tail(@),
                 !.done = IF s \in ProvisionStep THEN Append(@, s) ELSE @,
                 !.met  = IF s = "check" THEN vault[run[p].at].keys ELSE @]

AtStep(p, s) ==
  /\ run[p].pc = "step"
  /\ run[p].todo # << >>
  /\ s = Head(run[p].todo)

(* Removing the quota is best effort: an error is swallowed.               *)
StepSucceeds(p) ==
  \E s \in StepName :
    /\ AtStep(p, s)
    /\ Accepts(p, s)
    /\ \/ Apply(s, run[p].at) /\ UNCHANGED faults
       \/ s = "unquota" /\ Fault /\ UNCHANGED <<vault, quota>>
    /\ Write(p, "running")
    /\ run' = [run EXCEPT ![p] = Past(p, s)]
    /\ UNCHANGED <<supplier, ids, history>>

(* Refused by Vault; or the call, or its answer, is lost.                  *)
StepFails(p) ==
  \E s \in StepName :
    /\ AtStep(p, s)
    /\ \/ Refuses(p, s) /\ UNCHANGED <<vault, quota, faults>>
       \/ /\ s # "unquota"
          /\ Fault
          /\ \/ UNCHANGED <<vault, quota>>
             \/ Accepts(p, s) /\ Apply(s, run[p].at)
    /\ To(p, "undo")
    /\ UNCHANGED <<supplier, ids, jobs, handed, history>>

(* The UPDATE after a step that succeeded fails, or its answer is lost:    *)
(* it is inside the try, so the step is undone with the others.            *)
SaveFails(p) ==
  \E s \in StepName :
    /\ AtStep(p, s)
    /\ Accepts(p, s)
    /\ Apply(s, run[p].at)
    /\ Fault
    /\ Write(p, "running") \/ UNCHANGED <<jobs, handed>>
    /\ run' = [run EXCEPT ![p] = [Past(p, s) EXCEPT !.pc = "undo"]]
    /\ UNCHANGED <<supplier, ids, history>>

(* The steps that succeeded, newest first; an error is swallowed.          *)
Undo(p) ==
  LET r == run[p] IN
  /\ r.pc = "undo"
  /\ IF r.done = << >>
     THEN To(p, "close") /\ UNCHANGED <<vault, quota, faults>>
     ELSE /\ run' = [run EXCEPT ![p].done = Front(@)]
          /\ \/ Apply(UndoOf[Last(r.done)], r.at) /\ UNCHANGED faults
             \/ Fault /\ UNCHANGED <<vault, quota>>
  /\ UNCHANGED <<supplier, ids, jobs, handed, history>>

(* "rolled_back" when a step had an undo, else "failed".                   *)
Defeats(kind) ==
  IF kind = "provision" THEN {"failed", "rolled_back"} ELSE {"failed"}

CloseInMemory(p) ==                              \* mutant: not persisted
  /\ run[p].pc = "close"
  /\ Quit(p)
  /\ UNCHANGED <<supplier, ids, jobs, vault, quota, faults, handed, history>>

CloseCancelled(p) ==                             \* mutant: a status of its own
  /\ run[p].pc = "close"
  /\ Write(p, "cancelled")
  /\ Quit(p)
  /\ UNCHANGED <<supplier, ids, vault, quota, faults, history>>

(* The API call that ran a provision job goes on to delete the row.        *)
CloseFailed(p) ==
  /\ run[p].pc = "close"
  /\ \E s \in Defeats(run[p].kind) : Write(p, s)
  /\ IF p \in Caller /\ run[p].kind = "provision" THEN To(p, "unregister") ELSE Quit(p)
  /\ UNCHANGED <<supplier, ids, vault, quota, faults, history>>

(* The API call that ran a deprovision job goes on to delete the row.      *)
CloseSucceeded(p) ==
  /\ run[p].pc = "step"
  /\ run[p].todo = << >>
  /\ Write(p, "succeeded")
  /\ IF p \in Caller /\ run[p].kind = "deprovision" THEN To(p, "unregister") ELSE Quit(p)
  /\ UNCHANGED <<supplier, ids, vault, quota, faults, history>>

(* The statement a run is at, applied although nobody hears of it.         *)
Unheard(p) ==
  \/ UNCHANGED <<jobs, handed>>
  \/ run[p].pc = "create" /\ jobs' = Created(p) /\ UNCHANGED handed
  \/ run[p].pc \in {"start", "step"} /\ Write(p, "running")
  \/ run[p].pc = "step" /\ run[p].todo = << >> /\ Write(p, "succeeded")
  \/ run[p].pc = "close" /\ \E s \in Defeats(run[p].kind) : Write(p, s)
  \/ run[p].pc = "catch" /\ Write(p, "failed")

(* The process dies, or a database call of the API fails: a 500.           *)
Abort(p) ==
  /\ Busy(p)
  /\ Fault
  /\ Unheard(p)
  /\ Quit(p)
  /\ UNCHANGED <<supplier, ids, vault, quota, history>>

(* A database call of a worker fails.                                      *)
Throw(w) ==
  /\ run[w].pc \in {"dispatch", "step", "close"}
  /\ Fault
  /\ Unheard(w)
  /\ To(w, "catch")
  /\ UNCHANGED <<supplier, ids, vault, quota, history>>

-----------------------------------------------------------------------------
Init ==
  /\ supplier = [r \in Row |-> NoNamespace]
  /\ ids = 0
  /\ jobs = << >>
  /\ vault = [n \in Namespace |-> NoTenant]
  /\ quota = {}
  /\ run = [p \in Runner |-> Idle]
  /\ faults = 0
  /\ handed = [r \in Row |-> NoNamespace]
  /\ moved = {}
  /\ crowded = {}
  /\ rivalled = {}

RunStep(p) ==
  \/ StepSucceeds(p)
  \/ StepFails(p)
  \/ SaveFails(p)
  \/ Undo(p)
  \/ CloseFailed(p)
  \/ CloseSucceeded(p)

Api(c) ==
  \/ CreateJob(c)
  \/ Start(c)
  \/ Unregister(c)
  \/ RunStep(c)

Work(w) ==
  \/ Claim(w)
  \/ Dispatch(w)
  \/ Catch(w)
  \/ RunStep(w)

Next ==
  \/ \E n \in Namespace, k \in Key : CreateKey(n, k)
  \/ \E r \in Row, n \in Namespace : Patch(r, n)
  \/ \E c \in Caller, n \in Namespace : Register(c, n)
  \/ \E c \in Caller, r \in Row, force \in BOOLEAN : BeginDelete(c, r, force)
  \/ \E c \in Caller : Api(c)
  \/ \E w \in Worker : Work(w) \/ Throw(w)
  \/ \E p \in Runner : Abort(p)

Spec == Init /\ [][Next]_vars

(* Awaited calls return, and the worker polls.                             *)
Fairness ==
  /\ \A c \in Caller : WF_vars(Api(c))
  /\ \A w \in Worker : WF_vars(Work(w))

LiveSpec == Spec /\ Fairness

-----------------------------------------------------------------------------
(* Type correctness.                                                       *)
TypeOK ==
  /\ supplier \in [Row -> Namespace \cup {NoNamespace}]
  /\ ids \in 0..MaxSuppliers
  /\ jobs \in Seq(JobRow)
  /\ vault \in [Namespace -> [ns : BOOLEAN, transit : BOOLEAN, keys : SUBSET Key]]
  /\ \A n \in Namespace : /\ vault[n].keys # {} => vault[n].transit
                          /\ vault[n].transit => vault[n].ns
  /\ quota \subseteq Namespace
  /\ run \in [Runner -> RunState]
  /\ faults \in 0..MaxFaults
  /\ handed \in [Row -> Namespace \cup {NoNamespace}]
  /\ moved \cup crowded \cup rivalled \subseteq Namespace

Tenant(r, n) == supplier[r] = n /\ handed[r] = n

(***************************************************************************)
(* Registry and Vault agree about a namespace whenever all is quiet: it is *)
(* complete when the row that names it was provisioned, and otherwise      *)
(* there is nothing of it.  That is so if nothing failed, no row was moved *)
(* from it or to it, and no two runs were at it at once, whatever was done *)
(* to the others; but its quota is its own only if its leaf is.            *)
(***************************************************************************)
RegistryAndVaultAgree ==
  faults = 0 /\ (\A p \in Runner : ~Busy(p)) =>
    \A n \in Namespace \ (moved \cup crowded) :
      IF \E r \in Row : Tenant(r, n)
      THEN vault[n].ns /\ vault[n].transit /\ (Sharing(n) = {n} => n \in quota)
      ELSE vault[n] = NoTenant /\ n \notin quota

(***************************************************************************)
(* The keys of a tenant whose row was not moved are destroyed by a         *)
(* deprovision of its own row, and by one that was not forced only when    *)
(* they were made after it had looked.  Whatever fails, dies or is         *)
(* repeated, two things alone can break this: two provision runs for the   *)
(* namespace at once, of which one rolls back what the other has handed    *)
(* over, and a deprovision of an earlier row that was under way with       *)
(* another run.                                                            *)
(***************************************************************************)
KeysGuarded ==
  [][\A r \in Row, n \in Namespace \ moved : Tenant(r, n) =>
       \A k \in vault[n].keys :
         \/ k \in vault'[n].keys
         \/ n \in rivalled
         \/ \E p \in Runner :
              /\ AtStep(p, "delete") /\ run[p].at = n /\ run'[p] # run[p]
              /\ run[p].force \/ k \notin run[p].met
              /\ run[p].row = r \/ n \in crowded]_vars

Open(j) ==
  /\ j \in DOMAIN jobs
  /\ jobs[j].status \in {"pending", "running"}
  /\ Present(jobs[j].row)
  /\ faults = 0

(***************************************************************************)
(* Without faults every job reaches a verdict, unless the supplier it was  *)
(* for is deleted before a worker has come to it.                          *)
(***************************************************************************)
JobsAreClosed ==
  \A j \in 1..(MaxSuppliers + MaxDeletes) : Open(j) ~> ~Open(j)
=============================================================================
