-------------------------- MODULE ProvisioningJobs --------------------------
(***************************************************************************)
(* provisioning_jobs: rows the API inserts, executed either inline by the  *)
(* API call that inserted them or by a worker that claims pending rows,    *)
(* and the step runner both use (provisioner/steps.js, dispatch.js,        *)
(* worker.js).  All jobs here provision the same application, so their     *)
(* steps act on the same resources.                                        *)
(*                                                                         *)
(* Between any two awaits another runner may move.  Every write of a job   *)
(* row is a bare UPDATE by id; only a worker's claim has a condition.      *)
(***************************************************************************)
EXTENDS Naturals, Sequences, StateMachines

CONSTANTS
  Job,         \* rows of provisioning_jobs
  NoJob,
  Caller,      \* concurrent API calls
  Worker,      \* worker processes
  QueueMode,   \* PROVISION_MODE = "queue"
  Kind,        \* what each step is, in order: see below
  MaxFaults    \* bound: failed Vault or database calls and crashes

(***************************************************************************)
(* The steps of provisionApplication are of four kinds:                    *)
(*   "vault"   writes a Vault object; its undo deletes that object         *)
(*   "record"  inserts a database row unless it exists (PKI profile); its  *)
(*             undo deletes the row only when this run inserted it         *)
(*   "upsert"  the same, but whether the row exists is a SELECT of its own *)
(*             before the INSERT ... DO UPDATE (crypto profile)            *)
(*   "read"    changes nothing and has no undo (issue role_id)             *)
(***************************************************************************)
ASSUME ConstantsAssumption ==
  /\ NoJob \notin Job
  /\ Caller \cap Worker = {}
  /\ QueueMode \in BOOLEAN
  /\ Kind \in Seq({"vault", "record", "upsert", "read"})
  /\ MaxFaults \in Nat

Runner   == Caller \cup Worker
Step     == DOMAIN Kind
Undoable == {i \in Step : Kind[i] # "read"}
Rows     == {i \in Step : Kind[i] \in {"record", "upsert"}}

VARIABLES
  status,      \* provisioning_jobs.status, "none" for a row not inserted yet
  registered,  \* the application row exists
  present,     \* steps whose resource exists
  runner,      \* in-memory state of each API call and worker
  orphans,     \* resources a failed or lost Vault call left behind
  abandoned,   \* resources of a run that ended before its rollback
  overlapped,  \* history: two runs have been under way at once
  shared,      \* history: jobs that two runners have had at once
  faults

ghosts == <<orphans, abandoned, overlapped, shared, faults>>
vars   == <<status, registered, present, runner, ghosts>>

(***************************************************************************)
(* pc is the await the runner is about to issue and at its step.  mem is   *)
(* the status of the job object in memory, done the steps that succeeded,  *)
(* todo those of them still to undo, fresh the rows this run inserted.     *)
(***************************************************************************)
RunnerState ==
  [pc : {"idle", "dispatch", "start", "mark", "look", "run", "save", "undo", "close", "catch"},
   job : Job \cup {NoJob}, mem : {"none"} \cup JobStatus, at : Nat,
   done : SUBSET Step, todo : SUBSET Undoable, fresh : SUBSET Step]

Idle == [pc |-> "idle", job |-> NoJob, mem |-> "none", at |-> 0,
         done |-> {}, todo |-> {}, fresh |-> {}]

Busy(x)  == runner[x].pc # "idle"
Fault    == faults < MaxFaults /\ faults' = faults + 1 /\ UNCHANGED <<overlapped, shared>>
Quit(x)  == runner' = [runner EXCEPT ![x] = Idle]
GoTo(x, pc) == runner' = [runner EXCEPT ![x].pc = pc]

Begin(x, j, pc, mem) ==
  /\ ~Busy(x)
  /\ runner' = [runner EXCEPT ![x] =
                  [Idle EXCEPT !.pc = pc, !.job = j, !.mem = mem]]
  /\ overlapped' = (overlapped \/ \E y \in Runner : Busy(y))
  /\ shared' = shared \cup {k \in {j} : \E y \in Runner : Busy(y) /\ runner[y].job = k}
  /\ UNCHANGED <<registered, present, orphans, abandoned, faults>>

-----------------------------------------------------------------------------
(* The API: createJob, then runOrQueue                                     *)
CreateJob(c, j) ==
  /\ ~Busy(c)
  /\ registered
  /\ status[j] = "none"
  /\ status' = [status EXCEPT ![j] = "pending"]
  /\ IF QueueMode
     THEN UNCHANGED <<registered, present, runner, ghosts>>
     ELSE Begin(c, j, "start", "pending")

(* DELETE /applications/:id; its crypto_profiles rows go with it.          *)
DeleteApplication ==
  /\ registered
  /\ registered' = FALSE
  /\ present' = present \ Rows
  /\ UNCHANGED <<status, runner, ghosts>>

-----------------------------------------------------------------------------
(* The worker loop                                                         *)

ClaimUnfinished(w, j) ==                         \* mutant: retries running jobs
  /\ status[j] \in {"pending", "running"}
  /\ status' = [status EXCEPT ![j] = "running"]
  /\ Begin(w, j, "dispatch", "running")

ClaimAny(w, j) ==                                \* mutant: whatever its status
  /\ status[j] # "none"
  /\ status' = [status EXCEPT ![j] = "running"]
  /\ Begin(w, j, "dispatch", "running")

ClaimInTurn(w, j) ==                             \* mutant: one job at a time
  /\ status[j] = "pending"
  /\ \A k \in Job : status[k] # "running"
  /\ status' = [status EXCEPT ![j] = "running"]
  /\ Begin(w, j, "dispatch", "running")

(***************************************************************************)
(* UPDATE ... WHERE status = 'pending' ... FOR UPDATE SKIP LOCKED.  The    *)
(* order among pending rows is left open.  The ticks the loop runs before  *)
(* it dispatches the job touch nothing here.                               *)
(***************************************************************************)
Claim(w, j) ==
  /\ status[j] = "pending"
  /\ status' = [status EXCEPT ![j] = "running"]
  /\ Begin(w, j, "dispatch", "running")

(* dispatchJob: without a target it marks the object failed, not the row.  *)
Dispatch(w) ==
  /\ runner[w].pc = "dispatch"
  /\ IF registered THEN GoTo(w, "start") ELSE Quit(w)
  /\ UNCHANGED <<status, registered, present, ghosts>>

(* The catch around dispatchJob; its own failure is swallowed.             *)
CatchError(w) ==
  /\ runner[w].pc = "catch"
  /\ Quit(w)
  /\ \/ /\ status' = [status EXCEPT ![runner[w].job] = "failed"]
        /\ UNCHANGED <<overlapped, shared, faults>>
     \/ Fault /\ UNCHANGED status
  /\ UNCHANGED <<registered, present, orphans, abandoned>>

-----------------------------------------------------------------------------
(* runSteps                                                                *)

(* setStatus and persist: the row takes the status of the object.          *)
Persist(x, s) ==
  status' = [status EXCEPT ![runner[x].job] = s]

Start(x) ==
  /\ runner[x].pc = "start"
  /\ \/ runner[x].mem = "running"
     \/ LegalTransition(JOB_STATES, runner[x].mem, "running")
  /\ Persist(x, "running")
  /\ runner' = [runner EXCEPT ![x] =
                  [@ EXCEPT !.pc = "mark", !.mem = "running", !.at = 1]]
  /\ UNCHANGED <<registered, present, ghosts>>

(* The step is recorded as running before it runs.                         *)
MarkStep(x) ==
  /\ runner[x].pc = "mark"
  /\ runner[x].at \in Step
  /\ Persist(x, runner[x].mem)
  /\ GoTo(x, IF Kind[runner[x].at] = "upsert" THEN "look" ELSE "run")
  /\ UNCHANGED <<registered, present, ghosts>>

(* i counts as inserted by this run when it is absent now.                 *)
FreshAfter(x, i) == runner[x].fresh \cup ({i} \ present)

(* The SELECT of the prior row.                                            *)
LookUp(x) ==
  /\ runner[x].pc = "look"
  /\ runner' = [runner EXCEPT ![x].pc = "run",
                              ![x].fresh = FreshAfter(x, runner[x].at)]
  /\ UNCHANGED <<status, registered, present, ghosts>>

(* A row references the application.                                       *)
RunStep(x) ==
  LET i == runner[x].at
  IN  /\ runner[x].pc = "run"
      /\ i \in Rows => registered
      /\ present' = present \cup ({i} \cap Undoable)
      /\ runner' = [runner EXCEPT ![x].pc = "save",
           ![x].done = @ \cup {i},
           ![x].fresh = IF Kind[i] = "upsert" THEN @ ELSE FreshAfter(x, i)]
      /\ UNCHANGED <<status, registered, ghosts>>

SaveStep(x) ==
  /\ runner[x].pc = "save"
  /\ Persist(x, runner[x].mem)
  /\ runner' = [runner EXCEPT ![x] = [runner[x] EXCEPT !.pc = "mark", !.at = @ + 1]]
  /\ UNCHANGED <<registered, present, ghosts>>

RollBackNothing(x) ==                            \* mutant: only the job row
  runner' = [runner EXCEPT ![x].pc = "close"]

(* A step's failure undoes the steps that succeeded, newest first.         *)
RollBack(x) ==
  LET todo == runner[x].done \cap Undoable
  IN  runner' = [runner EXCEPT ![x] =
                   [@ EXCEPT !.pc = IF todo = {} THEN "close" ELSE "undo",
                             !.todo = todo]]

StepGoesOn(x) ==                                 \* mutant: a failed step is skipped
  /\ runner[x].pc = "run"
  /\ Fault
  /\ GoTo(x, "save")
  /\ UNCHANGED <<status, registered, present, orphans, abandoned>>

(***************************************************************************)
(* The step throws.  A Vault step may have taken effect: the answer was    *)
(* lost, or its second call failed after the first (create the key, then   *)
(* configure it).                                                          *)
(***************************************************************************)
StepFails(x) ==
  LET i == runner[x].at
  IN  /\ runner[x].pc \in {"look", "run"}
      /\ Fault
      /\ RollBack(x)
      /\ \/ UNCHANGED <<present, orphans>>
         \/ /\ runner[x].pc = "run" /\ Kind[i] = "vault"
            /\ present' = present \cup {i}
            /\ orphans' = orphans \cup {i}
      /\ UNCHANGED <<status, registered, abandoned>>

(* A row cannot be inserted for an application that is gone.               *)
StepRejected(x) ==
  /\ runner[x].pc = "run"
  /\ runner[x].at \in Rows
  /\ ~registered
  /\ RollBack(x)
  /\ UNCHANGED <<status, registered, present, ghosts>>

(* persist inside the try: a step that succeeded fails after all.          *)
SaveFails(x) ==
  /\ runner[x].pc = "save"
  /\ Fault
  /\ RollBack(x)
  /\ Persist(x, runner[x].mem) \/ UNCHANGED status
  /\ UNCHANGED <<registered, present, orphans, abandoned>>

(* The newest step still to undo is dealt with.                            *)
NextUndo(x, i) ==
  LET todo == runner[x].todo \ {i}
  IN  /\ runner[x].pc = "undo"
      /\ i \in runner[x].todo
      /\ \A j \in runner[x].todo : j <= i
      /\ runner' = [runner EXCEPT ![x].pc = IF todo = {} THEN "close" ELSE "undo",
                                  ![x].todo = todo]

UndoEverything(x) ==                             \* mutant: also older rows
  \E i \in Undoable :
    /\ NextUndo(x, i)
    /\ present' = present \ {i}
    /\ UNCHANGED <<status, registered, ghosts>>

(* A row is deleted only when this run inserted it.                        *)
Undo(x) ==
  \E i \in Undoable :
    /\ NextUndo(x, i)
    /\ present' = IF Kind[i] = "vault" \/ i \in runner[x].fresh
                  THEN present \ {i} ELSE present
    /\ UNCHANGED <<status, registered, ghosts>>

(* An undo that fails is logged, or swallowed, and the next one follows.   *)
UndoFails(x) ==
  \E i \in Undoable :
    /\ NextUndo(x, i)
    /\ Fault
    /\ orphans' = orphans \cup {i}
    /\ UNCHANGED <<status, registered, present, abandoned>>

(* rolled_back as soon as one finished step had an undo.                   *)
Verdict(x) == IF runner[x].done \cap Undoable = {} THEN "failed" ELSE "rolled_back"

CloseFailed(x) ==
  /\ runner[x].pc = "close"
  /\ Persist(x, Verdict(x))
  /\ Quit(x)
  /\ UNCHANGED <<registered, present, ghosts>>

CloseSucceeded(x) ==
  /\ runner[x].pc = "mark"
  /\ runner[x].at \notin Step
  /\ Persist(x, "succeeded")
  /\ Quit(x)
  /\ UNCHANGED <<registered, present, ghosts>>

(* What a run that ends here leaves without an attempt to undo it.         *)
Unattended(x) ==
  CASE runner[x].pc = "undo"  -> runner[x].todo
    [] runner[x].pc \in {"close", "catch"} -> {}
    [] OTHER -> runner[x].done \cap Undoable

(* What the UPDATE outside the try writes.                                 *)
NextStatus(x) ==
  CASE runner[x].pc = "close"      -> Verdict(x)
    [] runner[x].pc = "start"      -> "running"
    [] runner[x].pc = "mark"       -> IF runner[x].at \in Step THEN runner[x].mem
                                      ELSE "succeeded"

(***************************************************************************)
(* A persist outside the try throws out of runSteps: nothing is rolled     *)
(* back.  The worker's catch fails the job, an API call answers 500.  The  *)
(* UPDATE may have been applied and only its answer lost.                  *)
(***************************************************************************)
PersistFails(x) ==
  /\ runner[x].pc \in {"start", "mark", "close"}
  /\ Fault
  /\ Persist(x, NextStatus(x)) \/ UNCHANGED status
  /\ abandoned' = abandoned \cup Unattended(x)
  /\ IF x \in Worker
     THEN runner' = [runner EXCEPT ![x] = [@ EXCEPT !.pc = "catch", !.mem = NextStatus(x)]]
     ELSE Quit(x)
  /\ UNCHANGED <<registered, present, orphans>>

(* The process dies; nobody ever picks the row up again.                   *)
Crash(x) ==
  /\ Busy(x)
  /\ Fault
  /\ abandoned' = abandoned \cup Unattended(x)
  /\ Quit(x)
  /\ UNCHANGED <<status, registered, present, orphans>>

-----------------------------------------------------------------------------
Init ==
  /\ status = [j \in Job |-> "none"]
  /\ registered = TRUE
  /\ present = {}
  /\ runner = [x \in Runner |-> Idle]
  /\ orphans = {}
  /\ abandoned = {}
  /\ overlapped = FALSE
  /\ shared = {}
  /\ faults = 0

StepRunner(x) ==
  \/ Start(x)
  \/ MarkStep(x)
  \/ LookUp(x)
  \/ RunStep(x)
  \/ StepRejected(x)
  \/ SaveStep(x)
  \/ Undo(x)
  \/ CloseFailed(x)
  \/ CloseSucceeded(x)

Failure(x) ==
  \/ StepFails(x)
  \/ SaveFails(x)
  \/ UndoFails(x)
  \/ PersistFails(x)
  \/ Crash(x)

WorkerLoop(w) ==
  \/ \E j \in Job : Claim(w, j)
  \/ Dispatch(w)
  \/ CatchError(w)

Next ==
  \/ \E c \in Caller, j \in Job : CreateJob(c, j)
  \/ DeleteApplication
  \/ \E w \in Worker : WorkerLoop(w)
  \/ \E x \in Runner : StepRunner(x) \/ Failure(x)

Spec == Init /\ [][Next]_vars

-----------------------------------------------------------------------------
(* Type correctness.                                                       *)
TypeOK ==
  /\ status \in [Job -> {"none"} \cup JobStatus]
  /\ registered \in BOOLEAN
  /\ present \subseteq Undoable
  /\ runner \in [Runner -> RunnerState]
  /\ orphans \subseteq Undoable
  /\ abandoned \subseteq Undoable
  /\ overlapped \in BOOLEAN
  /\ shared \subseteq Job
  /\ faults \in 0..MaxFaults

LegalMove(j) ==
  status[j] \in JobStatus /\ status'[j] # status[j] =>
    LegalTransition(JOB_STATES, status[j], status'[j])

(* Worker w is about to call a job failed whose verdict it has written.    *)
NotHeard(w, j) ==
  runner[w].pc = "catch" /\ runner[w].job = j /\ runner[w].mem = status[j]

(***************************************************************************)
(* A job row leaves the paths of JOB_STATES in two ways only, in whatever  *)
(* mode and beside whatever API call: two runners have had the job at once *)
(* (in sync mode, a call and a worker), or a worker did not hear that its  *)
(* verdict was stored, and its catch, which bypasses setStatus, writes     *)
(* "failed" over it.                                                       *)
(***************************************************************************)
VerdictsStand ==
  [][\A j \in Job :
       \/ LegalMove(j)
       \/ j \in shared
       \/ status'[j] = "failed" /\ \E w \in Worker : NotHeard(w, j)]_vars

(***************************************************************************)
(* No job is executed by two workers, nor by two API calls.  Where calls   *)
(* run the jobs they insert, a worker may find one of these pending: then  *)
(* that call and that worker have it, and nobody else.                     *)
(***************************************************************************)
JobRunsOnce ==
  \A x, y \in Runner :
    x # y /\ Busy(x) /\ Busy(y) /\ runner[x].job = runner[y].job =>
      (x \in Worker <=> y \in Caller)

(* Jobs have failed, none succeeded and none is under way.                 *)
AllFailed ==
  /\ \A x \in Runner : ~Busy(x)
  /\ \E j \in Job : status[j] \in {"failed", "rolled_back"}
  /\ \A j \in Job : status[j] \in {"none", "failed", "rolled_back"}

(***************************************************************************)
(* What failed runs leave in Vault and the registry is what a failing call *)
(* or an interrupted run left: a rollback misses nothing it knew of.  Runs *)
(* that overlapped may also leave a row whose existence they looked up     *)
(* before writing it: each may take it for the other's.  This is so until  *)
(* two runners have had one job: a step may then follow the job's failure. *)
(***************************************************************************)
RollbackMissesNothing ==
  AllFailed /\ shared = {} => present \subseteq
    orphans \cup abandoned
      \cup (IF overlapped THEN {i \in Step : Kind[i] = "upsert"} ELSE {})

(* Job k has not failed, nor begun to roll back, nor been given up.        *)
Undisturbed(k) ==
  \/ status[k] \in {"none", "pending", "succeeded"}
  \/ \E x \in Runner :
       runner[x].job = k /\ runner[x].pc \notin {"idle", "undo", "close", "catch"}

(***************************************************************************)
(* Success means that every resource of a registered application is there, *)
(* and stays there beside other jobs of it, under way or finished, as long *)
(* as none of them fails and no job has had two runners.                   *)
(***************************************************************************)
SuccessIsComplete ==
  \A j \in Job :
    /\ registered
    /\ shared = {}
    /\ status[j] = "succeeded"
    /\ \A k \in Job \ {j} : Undisturbed(k)
    => Undoable \subseteq present

(***************************************************************************)
(* Rows recorded by a run that succeeded survive the failure of a later    *)
(* one ("only ever deletes the row THIS run inserted"), as long as runs do *)
(* not overlap.                                                            *)
(***************************************************************************)
RecordsSurvive ==
  ~overlapped /\ registered /\ (\E j \in Job : status[j] = "succeeded") => Rows \subseteq present

-----------------------------------------------------------------------------
(* Liveness                                                                *)

(* The worker loop, and the calls it and an API call make, go on unless    *)
(* the process dies.                                                       *)
Fairness ==
  /\ \A w \in Worker : WF_vars(WorkerLoop(w) \/ StepRunner(w))
  /\ \A c \in Caller : WF_vars(StepRunner(c))

LiveSpec == Spec /\ Fairness

Owned(j) == \E x \in Runner : Busy(x) /\ runner[x].job = j

(***************************************************************************)
(* A pending job is eventually finished, or left running by a runner that  *)
(* died or never wrote: no job waits for ever behind another.              *)
(***************************************************************************)
PendingIsDrained ==
  \A j \in Job :
    status[j] = "pending" ~>
      \/ status[j] \in {"succeeded", "failed", "rolled_back"}
      \/ status[j] = "running" /\ ~Owned(j)
=============================================================================
