--------------------------- MODULE Reconciliation ---------------------------
(***************************************************************************)
(* Reconciliation of one policy, a rotation_period or an expiry_date: its  *)
(* declared intent, the Transit key in Vault, the runs that compare the    *)
(* two, and the actions people take on a run (reconciliation/engine.js,    *)
(* observe.js, diff.js).                                                   *)
(*                                                                         *)
(* A process is one call of runSweep or reconcileRun; its steps are the    *)
(* awaits of the code: read the policy, write Vault, observe Vault, read   *)
(* the prior run, insert the run, insert the action.  Nothing is locked    *)
(* between them, so processes overlap freely.                              *)
(*                                                                         *)
(* Intent is the log that DesiredState implements (IntentLog): the version *)
(* of a run names a position of it.                                        *)
(***************************************************************************)
EXTENDS Naturals, Sequences, Disposition

CONSTANTS
  Value,       \* rotation periods, or not_after dates, in days
  Sweeper,     \* workers: their periodic sweep comes round for ever
  Caller,      \* concurrent API calls: POST /run and POST /:run_id/reconcile
  Grace,       \* ROTATION_GRACE_DAYS
  Age,         \* bound: the ages of a key version, or dates, that occur
  MaxVersion,  \* bound: versions of the intent
  MaxDrift,    \* bound: changes to the key made outside Arcanium
  MaxFaults    \* bound: failed calls

ASSUME ConstantsAssumption ==
  /\ Value \subseteq Nat
  /\ Age \subseteq Nat /\ 0 \in Age
  /\ {Grace, MaxVersion, MaxDrift, MaxFaults} \subseteq Nat

VARIABLES
  requirement, \* what the policy is about: never changes
  log,      \* the declared intent, version by version
  vault,    \* the key: its configured period and the age of its newest version
  latest,   \* the newest reconciliation_runs row
  drifted,  \* some DRIFTED run is on record
  action,   \* the newest reconciliation_actions row
  told,     \* the last status announced to webhook subscribers
  process,  \* in-memory state of each call
  overlapped, \* history: two calls have been under way at once
  drifts,   \* changes made outside Arcanium so far
  faults    \* failed calls so far

declared == <<requirement, log>>
records  == <<latest, drifted, action, told>>
bounds   == <<overlapped, drifts, faults>>
vars     == <<declared, vault, records, process, bounds>>

Process == Sweeper \cup Caller
Intent  == INSTANCE IntentLog

Expires == requirement = "expiry_date"

(***************************************************************************)
(* What observeRotationPeriod and observeExpiryDate read of the key.  For  *)
(* an expiry_date, days is of no account and age is the date.              *)
(***************************************************************************)
Key       == [active : BOOLEAN, days : Value \cup {0}, age : Age]
Destroyed == [active |-> FALSE, days |-> 0, age |-> 0]
Unread    == Destroyed

Policy   == [version : 0..MaxVersion, days : Value \cup {0}]
NoPolicy == [version |-> 0, days |-> 0]

(* The row desiredStateRowsFor and reconcileRun read in one SELECT.        *)
Current == [version |-> Len(log), days |-> log[Len(log)]]

Run   == [version : 1..MaxVersion, observed : Key, status : ObservationStatus]
NoRun == [version |-> 0, observed |-> Unread, status |-> "none"]

(***************************************************************************)
(* pc is the await a call is about to issue; reconcile tells reconcileRun  *)
(* from runSweep.                                                          *)
(***************************************************************************)
ProcessState ==
  [pc : {"idle", "apply", "file", "observe", "prior", "insert", "conclude"},
   reconcile : BOOLEAN,
   row : Policy,
   observed : Key,
   status : ObservationStatus \cup {"none", "filed"},
   prior : ObservationStatus \cup {"none"}]

Idle == [pc |-> "idle", reconcile |-> FALSE, row |-> NoPolicy,
         observed |-> Unread, status |-> "none", prior |-> "none"]

Fault == faults < MaxFaults /\ faults' = faults + 1 /\ UNCHANGED <<drifts, overlapped>>

-----------------------------------------------------------------------------
(* diff.js: a destroyed key owes no rotation; a key configured as intended *)
(* has drifted once its newest version outlives period and grace.          *)
compareRotationPeriod(days, key) ==
  IF key.active /\ (key.days # days \/ key.age > days + Grace)
  THEN "DRIFTED"
  ELSE "COMPLIANT"

(* A key that is gone cannot outlive its date; the date itself is allowed. *)
compareExpiryDate(notAfter, key) ==
  IF key.active /\ key.age > notAfter THEN "DRIFTED" ELSE "COMPLIANT"

compareFor(value, key) ==
  IF Expires THEN compareExpiryDate(value, key) ELSE compareRotationPeriod(value, key)

disposition == computeDisposition(action, latest.status)

-----------------------------------------------------------------------------
(* The world outside Arcanium                                              *)

EditIntent(v) ==
  /\ Len(log) < MaxVersion
  /\ Intent!Declare(v)
  /\ UNCHANGED <<requirement, vault, records, process, bounds>>

Drift(key) ==
  /\ drifts < MaxDrift
  /\ vault' = key
  /\ drifts' = drifts + 1
  /\ UNCHANGED <<declared, records, process, overlapped, faults>>

ChangePeriod(days) == ~Expires /\ vault.active /\ Drift([vault EXCEPT !.days = days])
Grow(age)          == ~Expires /\ vault.active /\ vault.age < age
                        /\ Drift([vault EXCEPT !.age = age])
DestroyKey         == vault.active /\ Drift(Destroyed)

(* The calendar, for an expiry_date.                                       *)
DaysPass(age) ==
  /\ Expires
  /\ vault.active
  /\ vault.age < age
  /\ vault' = [vault EXCEPT !.age = age]
  /\ UNCHANGED <<declared, records, process, bounds>>

(* Vault's own auto-rotation, or an operator.                              *)
Rotate ==
  /\ ~Expires
  /\ vault.active
  /\ vault.age > 0
  /\ vault' = [vault EXCEPT !.age = 0]
  /\ UNCHANGED <<declared, records, process, bounds>>

ExceptionExpires ==
  /\ ExceptionInForce(action)
  /\ action' = [action EXCEPT !.unexpired = FALSE]
  /\ UNCHANGED <<declared, vault, latest, drifted, told, process, bounds>>

-----------------------------------------------------------------------------
(* acceptException: the run it names is DRIFTED, the newest may not be.    *)
AcceptException ==
  /\ drifted
  /\ LET current == computeDisposition(action, "DRIFTED")
     IN  \/ current = "EXCEPTION_ACCEPTED"
         \/ LegalTransition(DISPOSITION_STATES, current, "EXCEPTION_ACCEPTED")
  /\ action' = Exception
  /\ UNCHANGED <<declared, vault, latest, drifted, told, process, bounds>>

Begin(p, state) ==
  /\ process[p].pc = "idle"
  /\ process' = [process EXCEPT ![p] = state]
  /\ overlapped' = (overlapped \/ \E q \in Process : process[q].pc # "idle")
  /\ UNCHANGED <<declared, vault, records, drifts, faults>>

BeginSweepOfOpen(p) ==                           \* mutant: skips exceptions
  /\ log # <<>>
  /\ disposition # "EXCEPTION_ACCEPTED"
  /\ Begin(p, [Idle EXCEPT !.pc = "observe", !.row = Current])

(* runSweep, for its row of this policy.                                   *)
BeginSweep(p) ==
  /\ log # <<>>
  /\ Begin(p, [Idle EXCEPT !.pc = "observe", !.row = Current])

(* reconcileRun on any DRIFTED run: it takes the policy as it now is, not  *)
(* as it was when the run compared it.                                     *)
BeginReconcile(p) ==
  /\ drifted
  /\ Begin(p, [Idle EXCEPT !.pc = IF Expires THEN "file" ELSE "apply",
                           !.reconcile = TRUE, !.row = Current])

(***************************************************************************)
(* reconcileExpiryDate writes nothing to Vault: it files a destroy request *)
(* (requestKeyDestroy), without a look at the disposition.                 *)
(***************************************************************************)
File(p) ==
  /\ process[p].pc = "file"
  /\ process' = [process EXCEPT ![p].pc = "conclude", ![p].status = "filed"]
  /\ UNCHANGED <<declared, vault, records, bounds>>

FileFails(p) ==
  /\ process[p].pc = "file"
  /\ Fault
  /\ process' = [process EXCEPT ![p].pc = "conclude"]
  /\ UNCHANGED <<declared, vault, records>>

(***************************************************************************)
(* The disposition check, then applyRotationPeriod: POST keys/:name/config *)
(* sets the period and leaves the age alone; a destroyed key makes it fail.*)
(***************************************************************************)
Apply(p) ==
  LET current == computeDisposition(action, "DRIFTED")
      may     == \/ current = "RECONCILED"
                 \/ LegalTransition(DISPOSITION_STATES, current, "RECONCILED")
  IN  /\ process[p].pc = "apply"
      /\ IF may /\ vault.active
         THEN /\ vault' = [vault EXCEPT !.days = process[p].row.days]
              /\ process' = [process EXCEPT ![p].pc = "observe"]
         ELSE /\ process' = [process EXCEPT ![p].pc = "conclude"]
              /\ UNCHANGED vault
      /\ UNCHANGED <<declared, records, bounds>>

(* The write fails, or it works and its answer is lost.                    *)
ApplyFails(p) ==
  /\ process[p].pc = "apply"
  /\ Fault
  /\ process' = [process EXCEPT ![p].pc = "conclude"]
  /\ \/ UNCHANGED vault
     \/ vault.active /\ vault' = [vault EXCEPT !.days = process[p].row.days]
  /\ UNCHANGED <<declared, records>>

Observe(p) ==
  /\ process[p].pc = "observe"
  /\ process' = [process EXCEPT ![p] =
       [@ EXCEPT !.pc = "prior", !.observed = vault,
                 !.status = compareFor(process[p].row.days, vault)]]
  /\ UNCHANGED <<declared, vault, records, bounds>>

ObserveFailsAsGone(p) ==                         \* mutant: any error is a 404
  /\ process[p].pc = "observe"
  /\ Fault
  /\ process' = [process EXCEPT ![p] =
       [@ EXCEPT !.pc = "prior", !.observed = Destroyed, !.status = "COMPLIANT"]]
  /\ UNCHANGED <<declared, vault, records>>

(* Whatever goes wrong while reading the key, the outcome is UNKNOWN.      *)
ObserveFails(p) ==
  /\ process[p].pc = "observe"
  /\ Fault
  /\ process' = [process EXCEPT ![p] =
       [@ EXCEPT !.pc = "prior", !.observed = Unread, !.status = "UNKNOWN"]]
  /\ UNCHANGED <<declared, vault, records>>

ReadPriorKnown(p) ==                             \* mutant: forgets UNKNOWN runs
  /\ process[p].pc = "prior"
  /\ process' = [process EXCEPT ![p] =
       [@ EXCEPT !.pc = "insert",
                 !.prior = IF latest.status = "UNKNOWN" THEN process[p].status
                                                        ELSE latest.status]]
  /\ UNCHANGED <<declared, vault, records, bounds>>

(* recordRun: the prior status; every change of status is a legal one.     *)
ReadPrior(p) ==
  /\ process[p].pc = "prior"
  /\ process' = [process EXCEPT ![p] =
       [@ EXCEPT !.pc = "insert", !.prior = latest.status]]
  /\ UNCHANGED <<declared, vault, records, bounds>>

InsertRunAtNewVersion(p) ==                      \* mutant: re-reads the version
  LET me == process[p]
  IN  /\ me.pc = "insert"
      /\ latest' = [version |-> Len(log), observed |-> me.observed,
                    status |-> me.status]
      /\ drifted' = (drifted \/ me.status = "DRIFTED")
      /\ told' = IF me.status # me.prior /\ me.status # "UNKNOWN"
                 THEN me.status ELSE told
      /\ process' = [process EXCEPT ![p] =
           IF me.reconcile THEN [me EXCEPT !.pc = "conclude"] ELSE Idle]
      /\ UNCHANGED <<declared, vault, action, bounds>>

(***************************************************************************)
(* recordRun: the INSERT, and the event it emits without waiting when the  *)
(* status differs from the prior one it read.                              *)
(***************************************************************************)
InsertRun(p) ==
  LET me == process[p]
  IN  /\ me.pc = "insert"
      /\ latest' = [version |-> me.row.version, observed |-> me.observed,
                    status |-> me.status]
      /\ drifted' = (drifted \/ me.status = "DRIFTED")
      /\ told' = IF me.status # me.prior /\ me.status # "UNKNOWN"
                 THEN me.status ELSE told
      /\ process' = [process EXCEPT ![p] =
           IF me.reconcile THEN [me EXCEPT !.pc = "conclude"] ELSE Idle]
      /\ UNCHANGED <<declared, vault, action, bounds>>

(* The process dies between the INSERT and the event: nobody emits it.     *)
InsertRunUnannounced(p) ==
  LET me == process[p]
  IN  /\ me.pc = "insert"
      /\ Fault
      /\ latest' = [version |-> me.row.version, observed |-> me.observed,
                    status |-> me.status]
      /\ drifted' = (drifted \/ me.status = "DRIFTED")
      /\ told' = IF me.status # me.prior /\ me.status # "UNKNOWN"
                 THEN "missed" ELSE told
      /\ process' = [process EXCEPT ![p] = Idle]
      /\ UNCHANGED <<declared, vault, action>>

(* A query fails: a sweep is aborted, a reconcile goes on as failed.       *)
RecordFails(p) ==
  /\ process[p].pc \in {"prior", "insert"}
  /\ Fault
  /\ process' = [process EXCEPT ![p] =
       IF @.reconcile THEN [@ EXCEPT !.pc = "conclude", !.status = "none"]
                      ELSE Idle]
  /\ UNCHANGED <<declared, vault, records>>

(* The action row: applied only when the re-observation agrees, or the     *)
(* destroy request is filed.                                               *)
InsertAction(p) ==
  /\ process[p].pc = "conclude"
  /\ action' = Reconcile(IF process[p].status \in {"COMPLIANT", "filed"} THEN "applied"
                                                                         ELSE "failed")
  /\ process' = [process EXCEPT ![p] = Idle]
  /\ UNCHANGED <<declared, vault, latest, drifted, told, bounds>>

(* That INSERT fails, or the process dies: whatever was done stays.        *)
CallDies(p) ==
  /\ process[p].pc # "idle"
  /\ Fault
  /\ process' = [process EXCEPT ![p] = Idle]
  /\ UNCHANGED <<declared, vault, records>>

-----------------------------------------------------------------------------
Init ==
  /\ requirement \in {"rotation_period", "expiry_date"}
  /\ Intent!Init
  /\ vault = [active |-> TRUE, days |-> 0, age |-> 0]
  /\ latest = NoRun
  /\ drifted = FALSE
  /\ action = NoAction
  /\ told = "none"
  /\ process = [p \in Process |-> Idle]
  /\ overlapped = FALSE
  /\ drifts = 0
  /\ faults = 0

OutsideStep ==
  \/ \E v \in Value : EditIntent(v)
  \/ \E days \in Value \cup {0} : ChangePeriod(days)
  \/ \E age \in Age : Grow(age) \/ DaysPass(age)
  \/ DestroyKey
  \/ Rotate
  \/ ExceptionExpires
  \/ AcceptException

Progress(p) ==
  \/ Apply(p)
  \/ File(p)
  \/ Observe(p)
  \/ ReadPrior(p)
  \/ InsertRun(p)
  \/ InsertAction(p)

ProcessStep(p) ==
  \/ BeginSweep(p)
  \/ p \in Caller /\ BeginReconcile(p)
  \/ Progress(p)
  \/ ApplyFails(p)
  \/ FileFails(p)
  \/ ObserveFails(p)
  \/ InsertRunUnannounced(p)
  \/ RecordFails(p)
  \/ CallDies(p)

Next == OutsideStep \/ \E p \in Process : ProcessStep(p)

Spec == Init /\ [][Next]_vars

-----------------------------------------------------------------------------
(* Type correctness.                                                       *)
TypeOK ==
  /\ requirement \in {"rotation_period", "expiry_date"}
  /\ log \in Seq(Value)
  /\ vault \in Key
  /\ latest \in Run \cup {NoRun}
  /\ drifted \in BOOLEAN
  /\ action \in Action
  /\ told \in {"none", "missed", "COMPLIANT", "DRIFTED"}
  /\ process \in [Process -> ProcessState]
  /\ overlapped \in BOOLEAN
  /\ drifts \in 0..MaxDrift
  /\ faults \in 0..MaxFaults

(***************************************************************************)
(* The newest run is the comparison of the version of intent it names with *)
(* the value it says it observed, however long ago its process read either *)
(* (desired_state_version, migrations/012_desired_state.sql).              *)
(***************************************************************************)
RunIsHonest ==
  latest.status \in {"COMPLIANT", "DRIFTED"} =>
    latest.status = compareFor(log[latest.version], latest.observed)

(***************************************************************************)
(* The two axes are independent: no observation ever ends an accepted      *)
(* exception, only an action or its expiry does (computeDisposition).      *)
(***************************************************************************)
AxesIndependent ==
  [][disposition = "EXCEPTION_ACCEPTED" /\ latest' # latest
       => disposition' = "EXCEPTION_ACCEPTED"]_vars

(***************************************************************************)
(* A reconcile of an expired key only files a request, yet counts as       *)
(* applied.  Unless the date is moved or two calls overlap, the policy is  *)
(* RECONCILED only once the key is really gone (reconcileExpiryDate).      *)
(***************************************************************************)
ReconciledMeansGone ==
  Expires /\ disposition = "RECONCILED" /\ Len(log) = 1 /\ ~overlapped => ~vault.active

(***************************************************************************)
(* Until two calls overlap, the last event webhook subscribers were sent   *)
(* is the newest known status, unless a crash swallowed it: recordRun      *)
(* announces a change even across UNKNOWN runs in between.                 *)
(***************************************************************************)
SubscribersInformed ==
  ~overlapped /\ latest.status \in {"COMPLIANT", "DRIFTED"} => told \in {latest.status, "missed"}

-----------------------------------------------------------------------------
(* Liveness                                                                *)

(* The worker sweeps for ever and its calls return; API callers owe nothing. *)
Fairness ==
  \A s \in Sweeper : WF_vars(BeginSweep(s)) /\ WF_vars(Progress(s))

LiveSpec == Spec /\ Fairness

(***************************************************************************)
(* Once people and the world leave a policy alone, its newest run settles  *)
(* on the truth, whatever stale observation a slow call records late.      *)
(***************************************************************************)
Converges ==
  <>[](log = <<>> \/ latest.status = compareFor(Current.days, vault))
=============================================================================
