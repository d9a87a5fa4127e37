---------------------- MODULE SupplierLifecycle_proofs ----------------------
(***************************************************************************)
(* Proofs about SupplierLifecycle, in either mode and for any number of    *)
(* calls, workers, rows, namespaces, jobs, keys and faults.                *)
(*                                                                         *)
(* A step either takes up a run (Begin), or lets one go on or end (On), or *)
(* is a PATCH, or a key being made.  What On says holds of every action of *)
(* a run, so that each part of the invariant is shown once for all of them *)
(* and not action by action.                                               *)
(***************************************************************************)
EXTENDS SupplierLifecycle, SequenceTheorems, WellFoundedInduction, TLAPS

-----------------------------------------------------------------------------
(* The row still names n, or is gone, or was moved from n or to it.        *)
Faithful(r, n) == supplier[r] \in {NoNamespace, n} \/ {supplier[r], n} \subseteq moved

(***************************************************************************)
(* Where a run may be, and that it and its job are of one row.             *)
(***************************************************************************)
Placed(p) ==
  LET s == run[p]
  IN  /\ s.pc \in {"create", "start", "unregister"} => p \in Caller
      /\ s.pc \in {"dispatch", "catch"} => p \in Worker
      /\ QueueMode /\ s.kind = "provision" /\ s.pc \notin {"idle", "create"} => p \in Worker
      /\ s.pc # "idle" => s.row \in 1..ids
      /\ s.pc \notin {"idle", "create"} =>
           /\ s.job \in DOMAIN jobs
           /\ jobs[s.job].row = s.row
           /\ jobs[s.job].kind = s.kind
      /\ s.pc \in {"idle", "dispatch"} => s.at = NoNamespace
      /\ s.pc \notin {"idle", "dispatch", "catch"} => s.at \in Namespace
      /\ s.at \in Namespace => Faithful(s.row, s.at)

(***************************************************************************)
(* Only a provision has steps to undo, and they are its own.  A            *)
(* deprovision that was not forced is past its check with no key met.      *)
(***************************************************************************)
Trim(s) ==
  IF s.kind = "provision"
  THEN s.todo \in Seq(ProvisionStep) /\ s.done \in Seq(ProvisionStep)
  ELSE /\ s.done = << >>
       /\ s.todo \in {<< >>, <<"delete">>, <<"unquota", "delete">>,
                      <<"check", "unquota", "delete">>}
       /\ s.todo # <<"check", "unquota", "delete">> /\ ~s.force => s.met = {}

Runs == \A p \in Runner : Placed(p) /\ Trim(run[p])

(* The rows are numbered as they come; no two name one namespace.          *)
Rows ==
  /\ \A r \in Row : r > ids => ~Present(r) /\ handed[r] = NoNamespace
  /\ \A r, s \in Row : Present(r) /\ supplier[r] = supplier[s] => r = s
  /\ \A r \in Row : handed[r] \in Namespace => Faithful(r, handed[r])

-----------------------------------------------------------------------------
Creating(p) == run[p].pc = "create" /\ run[p].kind = "provision"

ProvisionJob(j, r) == j \in DOMAIN jobs /\ jobs[j].kind = "provision" /\ jobs[j].row = r

(* A row has one provision job, and is not handed over while that waits.   *)
OneJob ==
  /\ \A j \in DOMAIN jobs : jobs[j].row \in 1..ids
  /\ \A r \in Row : \A i, j \in DOMAIN jobs :
       ProvisionJob(i, r) /\ ProvisionJob(j, r) => i = j
  /\ \A p \in Runner : Creating(p) =>
       /\ \A j \in DOMAIN jobs : ~ProvisionJob(j, run[p].row)
       /\ \A q \in Runner : Creating(q) /\ run[q].row = run[p].row => p = q
       /\ handed[run[p].row] = NoNamespace
  /\ \A r \in Row : \A j \in DOMAIN jobs :
       ProvisionJob(j, r) /\ jobs[j].status = "pending" => handed[r] = NoNamespace

-----------------------------------------------------------------------------
(* Two runs at one namespace are told apart from one by the histories.     *)
Alone ==
  /\ \A n \in Namespace \ moved : \A p, q \in Runner :
       p # q /\ Bound(p, n) /\ Bound(q, n) =>
         /\ n \in crowded
         /\ Provisions(p, run[p]) /\ Provisions(q, run[q]) => n \in rivalled
  /\ rivalled \subseteq crowded

(* No provision run is left at the namespace of a tenant.                  *)
Spared ==
  \A n \in Namespace \ (moved \cup rivalled) : \A r \in Row : \A p \in Runner :
    Tenant(r, n) => ~(Bound(p, n) /\ Provisions(p, run[p]))

(* A run that is alone at a namespace works for the row that names it.     *)
Own ==
  \A n \in Namespace \ (moved \cup crowded) : \A p \in Runner :
    run[p].at = n => supplier[run[p].row] = n

Inv == TypeOK /\ Runs /\ Rows /\ OneJob /\ Alone /\ Spared /\ Own

-----------------------------------------------------------------------------
(* Runs and jobs before and after a step.                                  *)

Others(p) == \A q \in Runner \ {p} : run'[q] = run[q]

(* The status of job j becomes s.                                          *)
Written(j, s) ==
  /\ DOMAIN jobs' = DOMAIN jobs
  /\ \A i \in DOMAIN jobs :
       /\ jobs'[i].kind = jobs[i].kind /\ jobs'[i].row = jobs[i].row
       /\ jobs'[i].status = IF i = j THEN s ELSE jobs[i].status

(* A pending job is added.                                                 *)
Added(kind, row) ==
  LET n == Len(jobs) + 1
  IN  /\ n \notin DOMAIN jobs
      /\ DOMAIN jobs' = DOMAIN jobs \cup {n}
      /\ \A i \in DOMAIN jobs : jobs'[i] = jobs[i]
      /\ jobs'[n].kind = kind /\ jobs'[n].row = row /\ jobs'[n].status = "pending"

(* The run of p ends, or goes on with the task it has.                     *)
Goes(p) ==
  LET s == run[p]  t == run'[p]
  IN  \/ t = Idle
      \/ /\ t.kind = s.kind /\ t.row = s.row
         /\ t.pc \in {"start", "step", "undo", "close", "catch", "unregister"}
         /\ t.pc = "start" => s.pc = "create" /\ ~(QueueMode /\ s.kind = "provision")
         /\ t.pc = "unregister" => p \in Caller
         /\ t.pc = "catch" => p \in Worker
         /\ t.pc \in {"step", "undo"} => s.pc \in {"start", "dispatch", "step", "undo"}
         /\ s.pc = "create" => t.pc = "start" /\ t.job = Len(jobs) + 1
         /\ s.pc # "create" => t.job = s.job
         /\ s.pc = "dispatch" => t.pc \in {"step", "catch"}
         /\ s.pc = "catch" => t.pc = "catch"
         /\ IF s.pc = "dispatch" /\ t.pc = "step"
            THEN t.at = supplier[s.row] /\ Present(s.row)
            ELSE t.at = s.at
         /\ Trim(t)

(* Its job is created, or its status written; success hands over the row.  *)
Saves(p) ==
  LET s == run[p]
  IN  /\ jobs' \in Seq(JobRow)
      /\ \/ jobs' = jobs /\ handed' = handed /\ run'[p].pc # "start"
         \/ s.pc = "create" /\ Added(s.kind, s.row) /\ handed' = handed
         \/ /\ s.pc # "create"
            /\ \E v \in JobStatus \ {"pending"} :
                 /\ Written(s.job, v)
                 /\ \/ handed' = handed
                    \/ /\ v = "succeeded" /\ s.kind = "provision" /\ s.pc = "step"
                       /\ handed' = [handed EXCEPT ![s.row] = s.at]
                       /\ run'[p].pc \in {"idle", "catch"}

On(p) ==
  /\ Busy(p)
  /\ run' \in [Runner -> RunState]
  /\ Others(p)
  /\ ids' = ids
  /\ UNCHANGED history
  /\ Goes(p)
  /\ Saves(p)
  /\ \/ supplier' = supplier
     \/ /\ run[p].pc = "unregister" /\ run'[p] = Idle
        /\ supplier' = [supplier EXCEPT ![run[p].row] = NoNamespace]

-----------------------------------------------------------------------------
LEMMA StepNames ==
  /\ StepName = {"namespace", "transit", "quota", "check", "unquota", "delete"}
  /\ ProvisionStep \subseteq StepName
  BY DEF StepName, ProvisionStep

LEMMA Lefts ==
  /\ Head(<<"check", "unquota", "delete">>) = "check"
  /\ Tail(<<"check", "unquota", "delete">>) = <<"unquota", "delete">>
  /\ Head(<<"unquota", "delete">>) = "unquota" /\ Tail(<<"unquota", "delete">>) = <<"delete">>
  /\ Head(<<"delete">>) = "delete" /\ Tail(<<"delete">>) = << >>
  OBVIOUS

LEMMA Unequal ==
  /\ \A a : <<a>> # << >>
  /\ \A a, b : <<a, b>> # << >> /\ \A c : <<a, b>> # <<c>>
  /\ \A a, b, c : <<a, b, c>> # << >> /\ \A d : <<a, b, c>> # <<d>>
  /\ \A a, b, c, d, e : <<a, b, c>> # <<d, e>>
  OBVIOUS

LEMMA StepsAreTyped ==
  /\ << >> \in Seq(ProvisionStep) /\ << >> \in Seq(StepName)
  /\ StepsOf("provision") \in Seq(ProvisionStep)
  /\ StepsOf("deprovision") = <<"check", "unquota", "delete">>
  /\ \A k \in {"provision", "deprovision"} : StepsOf(k) \in Seq(StepName)
  BY StepNames DEF StepsOf, ProvisionSteps, DeprovisionSteps, ProvisionStep

(* The oldest pending job is one.                                          *)
LEMMA MinIsMember ==
  ASSUME NEW T, T \subseteq Nat, T # {}
  PROVE  Min(T) \in T
<1>1. IsWellFoundedOn(OpToRel(<, Nat), Nat)
  BY NatLessThanWellFounded
<1>2. PICK x \in T : \A y \in T : ~(<<y, x>> \in OpToRel(<, Nat))
  BY <1>1, WFMin
<1>3. \A y \in T : ~(y < x)
  BY <1>2 DEF OpToRel
<1>4. \A y \in T : x <= y
  BY <1>3
<1> QED
  BY <1>4 DEF Min

LEMMA RunFacts ==
  ASSUME TypeOK, NEW p \in Runner
  PROVE  /\ run[p] \in RunState
         /\ run[p].kind \in {"provision", "deprovision"}
         /\ run[p].at \in Namespace \cup {NoNamespace}
         /\ run[p].row \in 0..MaxSuppliers
         /\ run[p].todo \in Seq(StepName) /\ run[p].done \in Seq(StepName)
         /\ run[p].met \subseteq Key
  BY DEF TypeOK, RunState

LEMMA IdleFacts ==
  /\ Idle \in RunState
  /\ Idle.pc = "idle" /\ Idle.at = NoNamespace /\ Idle.kind = "provision"
  /\ Idle.todo = << >> /\ Idle.done = << >> /\ Idle.met = {}
  /\ Trim(Idle)
  BY StepsAreTyped, ConstantsAssumption DEF Idle, RunState, Trim

LEMMA RunMoves ==
  ASSUME TypeOK, NEW p \in Runner, NEW s \in RunState, run' = [run EXCEPT ![p] = s]
  PROVE  run' \in [Runner -> RunState] /\ run'[p] = s /\ Others(p)
  BY DEF TypeOK, Others

LEMMA QuitFacts ==
  ASSUME TypeOK, NEW p \in Runner, Quit(p)
  PROVE  run' \in [Runner -> RunState] /\ run'[p] = Idle /\ Others(p)
  BY RunMoves, IdleFacts DEF Quit

(* What To leaves of a run.                                                *)
Turned(p, pc) ==
  LET s == run[p]  t == run'[p]
  IN  /\ t.pc = pc /\ t.kind = s.kind /\ t.row = s.row /\ t.force = s.force
      /\ t.job = s.job /\ t.at = s.at /\ t.todo = s.todo /\ t.done = s.done
      /\ t.met = s.met

LEMMA ToFacts ==
  ASSUME TypeOK, NEW p \in Runner,
         NEW pc \in {"undo", "close", "catch", "unregister"}, To(p, pc)
  PROVE  /\ run' \in [Runner -> RunState] /\ Others(p)
         /\ Turned(p, pc)
         /\ Trim(run[p]) => Trim(run'[p])
<1> DEFINE s == [run[p] EXCEPT !.pc = pc]
<1>1. /\ s \in RunState /\ s.pc = pc
      /\ s.kind = run[p].kind /\ s.row = run[p].row /\ s.force = run[p].force
      /\ s.job = run[p].job /\ s.at = run[p].at /\ s.todo = run[p].todo
      /\ s.done = run[p].done /\ s.met = run[p].met
  BY RunFacts DEF RunState
<1>2. run' = [run EXCEPT ![p] = s]
  BY DEF To
<1> HIDE DEF s
<1>3. run' \in [Runner -> RunState] /\ run'[p] = s /\ Others(p)
  BY <1>1, <1>2, RunMoves
<1>4. Turned(p, pc)
  BY <1>1, <1>3 DEF Turned
<1>5. Trim(run[p]) => Trim(run'[p])
  BY <1>4 DEF Trim, Turned
<1> QED
  BY <1>3, <1>4, <1>5

LEMMA StatusWritten ==
  ASSUME TypeOK, NEW j, NEW v \in JobStatus, jobs' = [jobs EXCEPT ![j].status = v]
  PROVE  jobs' \in Seq(JobRow) /\ Written(j, v)
<1>1. jobs \in Seq(JobRow)
  BY DEF TypeOK
<1>2. /\ DOMAIN jobs = 1..Len(jobs) /\ Len(jobs) \in Nat
      /\ jobs \in [1..Len(jobs) -> JobRow]
  BY <1>1, LenProperties
<1>3. jobs' = [i \in 1..Len(jobs) |->
                 IF i = j THEN [jobs[i] EXCEPT !.status = v] ELSE jobs[i]]
  BY <1>1, <1>2
<1>4. \A i \in 1..Len(jobs) : /\ jobs'[i] \in JobRow
                              /\ jobs'[i].kind = jobs[i].kind /\ jobs'[i].row = jobs[i].row
                              /\ jobs'[i].status = IF i = j THEN v ELSE jobs[i].status
  BY <1>2, <1>3 DEF JobRow
<1>5. DOMAIN jobs' = 1..Len(jobs)
  BY <1>3
<1>6. jobs' \in [1..Len(jobs) -> JobRow]
  BY <1>3, <1>4
<1>7. jobs' \in Seq(JobRow)
  BY <1>2, <1>6, SeqDef
<1> QED
  BY <1>2, <1>4, <1>5, <1>7 DEF Written

LEMMA AppendAdds ==
  ASSUME TypeOK, NEW job \in JobRow, jobs' = Append(jobs, job), job.status = "pending"
  PROVE  jobs' \in Seq(JobRow) /\ Added(job.kind, job.row)
<1>1. jobs \in Seq(JobRow)
  BY DEF TypeOK
<1>2. DOMAIN jobs = 1..Len(jobs) /\ Len(jobs) \in Nat
  BY <1>1, LenProperties
<1>3. /\ jobs' \in Seq(JobRow)
      /\ Len(jobs') = Len(jobs) + 1
      /\ \A i \in 1..Len(jobs) : jobs'[i] = jobs[i]
      /\ jobs'[Len(jobs) + 1] = job
  BY <1>1, AppendProperties
<1>4. DOMAIN jobs' = 1..(Len(jobs) + 1)
  BY <1>3, LenProperties
<1> QED
  BY <1>2, <1>3, <1>4 DEF Added

LEMMA JobFacts ==
  ASSUME TypeOK, NEW j \in DOMAIN jobs
  PROVE  jobs[j] \in JobRow /\ j \in Nat
<1>1. jobs \in Seq(JobRow)
  BY DEF TypeOK
<1> QED
  BY <1>1, LenProperties, ElementOfSeq

(* The rows that runs and jobs name are rows.                              *)
LEMMA RowFacts ==
  ASSUME TypeOK
  PROVE  /\ ids \in 0..MaxSuppliers /\ MaxSuppliers \in Nat
         /\ 1..ids \subseteq Row
         /\ Row = 1..MaxSuppliers
         /\ NoNamespace \notin Namespace
  BY ConstantsAssumption DEF TypeOK, Row

-----------------------------------------------------------------------------
(* Vault before and after a step.                                          *)

TenantOK(v) ==
  /\ v \in [ns : BOOLEAN, transit : BOOLEAN, keys : SUBSET Key]
  /\ v.keys # {} => v.transit
  /\ v.transit => v.ns

VaultOK ==
  /\ vault \in [Namespace -> [ns : BOOLEAN, transit : BOOLEAN, keys : SUBSET Key]]
  /\ \A n \in Namespace : TenantOK(vault[n])
  /\ quota \subseteq Namespace
  /\ faults \in 0..MaxFaults

LEMMA VaultFacts == TypeOK => VaultOK
  BY DEF TypeOK, VaultOK, TenantOK

(* A namespace after call s, and the quotas.                               *)
Result(s, v) ==
  CASE s = "namespace" -> [v EXCEPT !.ns = TRUE]
    [] s = "transit"   -> [v EXCEPT !.transit = TRUE]
    [] s = "unmount"   -> [v EXCEPT !.transit = FALSE, !.keys = {}]
    [] s = "delete"    -> NoTenant
    [] OTHER           -> v

LEMMA ResultIsTyped ==
  ASSUME NEW v, TenantOK(v), NEW s, s = "transit" => v.ns
  PROVE  TenantOK(Result(s, v))
<1>1. CASE s = "namespace"
  BY <1>1 DEF TenantOK, Result
<1>2. CASE s = "transit"
  BY <1>2 DEF TenantOK, Result
<1>3. CASE s = "unmount"
  BY <1>3 DEF TenantOK, Result
<1>4. CASE s = "delete"
  BY <1>4 DEF TenantOK, Result, NoTenant
<1>5. CASE s \notin {"namespace", "transit", "unmount", "delete"}
  BY <1>5 DEF Result
<1> QED
  BY <1>1, <1>2, <1>3, <1>4, <1>5

LEMMA ApplyFacts ==
  ASSUME TypeOK, NEW n \in Namespace, NEW s, Apply(s, n), s = "transit" => vault[n].ns,
         faults' \in 0..MaxFaults
  PROVE  /\ VaultOK'
         /\ vault'[n] = Result(s, vault[n])
         /\ \A m \in Namespace \ {n} : vault'[m] = vault[m]
         /\ s = "quota" => n \in quota'
         /\ s = "unquota" => n \notin quota'
         /\ s # "quota" => quota' \subseteq quota
         /\ s # "unquota" => quota \ Sharing(n) \subseteq quota'
         /\ quota \ Sharing(n) \subseteq quota' /\ quota' \ {n} \subseteq quota
         /\ s \notin {"quota", "unquota"} => quota' = quota
<1>1. VaultOK
  BY VaultFacts
<1>2. vault' = [vault EXCEPT ![n] = Result(s, vault[n])]
  BY <1>1 DEF Apply, Result, VaultOK
<1>3. TenantOK(Result(s, vault[n]))
  BY <1>1, ResultIsTyped DEF VaultOK
<1>4. /\ vault' \in [Namespace -> [ns : BOOLEAN, transit : BOOLEAN, keys : SUBSET Key]]
      /\ vault'[n] = Result(s, vault[n])
      /\ \A m \in Namespace \ {n} : vault'[m] = vault[m]
  BY <1>1, <1>2, <1>3 DEF VaultOK, TenantOK
<1>5. \A m \in Namespace : TenantOK(vault'[m])
  BY <1>1, <1>3, <1>4 DEF VaultOK
<1>6. n \in Sharing(n) /\ Sharing(n) \subseteq Namespace
  BY DEF Sharing
<1>7. quota' = CASE s = "quota"   -> (quota \ Sharing(n)) \cup {n}
                 [] s = "unquota" -> quota \ Sharing(n)
                 [] OTHER         -> quota
  BY DEF Apply
<1>8. /\ quota' \subseteq Namespace
      /\ s = "quota" => n \in quota'
      /\ s = "unquota" => n \notin quota'
      /\ s # "quota" => quota' \subseteq quota
      /\ quota \ Sharing(n) \subseteq quota' /\ quota' \ {n} \subseteq quota
      /\ s \notin {"quota", "unquota"} => quota' = quota
  <2>1. CASE s = "quota"
    BY <1>1, <1>6, <1>7, <2>1 DEF VaultOK
  <2>2. CASE s = "unquota"
    BY <1>1, <1>6, <1>7, <2>2 DEF VaultOK
  <2>3. CASE s \notin {"quota", "unquota"}
    BY <1>1, <1>6, <1>7, <2>3 DEF VaultOK
  <2> QED
    BY <2>1, <2>2, <2>3
<1> QED
  BY <1>4, <1>5, <1>8 DEF VaultOK

LEMMA Keeps ==
  ASSUME TypeOK, UNCHANGED <<vault, quota>>, faults' = faults \/ Fault
  PROVE  VaultOK'
<1>1. VaultOK
  BY VaultFacts
<1>2. faults' \in 0..MaxFaults
  BY ConstantsAssumption DEF Fault, TypeOK
<1> QED
  BY <1>1, <1>2 DEF VaultOK

LEMMA FaultFacts ==
  ASSUME TypeOK, faults' = faults \/ Fault
  PROVE  faults' \in 0..MaxFaults
  BY ConstantsAssumption DEF Fault, TypeOK

-----------------------------------------------------------------------------
(* What the actions of a run say of it: On, and that Vault stays typed.    *)

LEMMA WriteFacts ==
  ASSUME TypeOK, NEW p \in Runner, NEW v \in JobStatus, Write(p, v)
  PROVE  /\ jobs' \in Seq(JobRow) /\ Written(run[p].job, v)
         /\ handed' = handed \/
              (v = "succeeded" /\ run[p].kind = "provision" /\
               handed' = [handed EXCEPT ![run[p].row] = run[p].at])
         /\ v # "succeeded" \/ run[p].kind # "provision" => handed' = handed
  BY StatusWritten DEF Write

LEMMA CreatedFacts ==
  ASSUME TypeOK, NEW p \in Runner, Placed(p), run[p].pc # "idle", jobs' = Created(p)
  PROVE  jobs' \in Seq(JobRow) /\ Added(run[p].kind, run[p].row)
<1> DEFINE job == [kind |-> run[p].kind, row |-> run[p].row, force |-> run[p].force,
                   status |-> "pending"]
<1>1. job \in JobRow
  <2>1. run[p].row \in Row
    BY RowFacts DEF Placed
  <2>2. run[p].kind \in {"provision", "deprovision"} /\ run[p].force \in BOOLEAN
    BY RunFacts DEF RunState
  <2>3. "pending" \in JobStatus
    BY DEF JobStatus
  <2> QED
    BY <2>1, <2>2, <2>3 DEF JobRow
<1>2. job.status = "pending" /\ job.kind = run[p].kind /\ job.row = run[p].row
  OBVIOUS
<1>3. jobs' = Append(jobs, job)
  BY DEF Created
<1> HIDE DEF job
<1> QED
  BY <1>1, <1>2, <1>3, AppendAdds

LEMMA Statuses ==
  /\ JobStatus = {"pending", "running", "succeeded", "failed", "rolled_back"}
  /\ \A k : Defeats(k) \subseteq JobStatus \ {"pending", "succeeded"}
  BY DEF JobStatus, Defeats

(* A run that says it is not idle has a row, and Vault calls a namespace.  *)
LEMMA PlacedFacts ==
  ASSUME TypeOK, NEW p \in Runner, Placed(p), Busy(p)
  PROVE  /\ run[p].row \in Row
         /\ run[p].pc \in {"step", "undo"} => run[p].at \in Namespace
  BY RowFacts DEF Placed, Busy

LEMMA SavesNothing ==
  ASSUME TypeOK, NEW p \in Runner, UNCHANGED <<jobs, handed>>, run'[p].pc # "start"
  PROVE  Saves(p)
  BY DEF Saves, TypeOK

LEMMA SavesStatus ==
  ASSUME TypeOK, NEW p \in Runner, run[p].pc # "create",
         NEW v \in JobStatus \ {"pending"}, Write(p, v),
         v = "succeeded" => run[p].pc = "step" /\ run'[p].pc \in {"idle", "catch", "unregister"},
         v = "succeeded" /\ run[p].kind = "provision" => run'[p].pc # "unregister"
  PROVE  Saves(p)
  BY WriteFacts DEF Saves

LEMMA UnheardSaves ==
  ASSUME TypeOK, NEW p \in Runner, Placed(p), Busy(p), Unheard(p),
         run'[p].pc \in {"idle", "catch"}
  PROVE  Saves(p)
<1>1. CASE UNCHANGED <<jobs, handed>>
  BY <1>1, SavesNothing
<1>2. CASE run[p].pc = "create" /\ jobs' = Created(p) /\ UNCHANGED handed
  BY <1>2, CreatedFacts DEF Saves, Busy
<1>3. CASE run[p].pc \in {"start", "step"} /\ Write(p, "running")
  BY <1>3, SavesStatus, Statuses
<1>4. CASE run[p].pc = "step" /\ run[p].todo = << >> /\ Write(p, "succeeded")
  BY <1>4, SavesStatus, Statuses
<1>5. CASE run[p].pc = "close" /\ \E s \in Defeats(run[p].kind) : Write(p, s)
  <2>1. PICK s \in Defeats(run[p].kind) : Write(p, s)
    BY <1>5
  <2> QED
    BY <1>5, <2>1, SavesStatus, Statuses
<1>6. CASE run[p].pc = "catch" /\ Write(p, "failed")
  BY <1>6, SavesStatus, Statuses
<1> QED
  BY <1>1, <1>2, <1>3, <1>4, <1>5, <1>6 DEF Unheard

LEMMA CreateJobOn ==
  ASSUME Inv, NEW c \in Caller, CreateJob(c)
  PROVE  On(c) /\ VaultOK'
<1>1. TypeOK /\ Placed(c) /\ Trim(run[c]) /\ c \in Runner /\ run[c].pc = "create"
  BY DEF Inv, Runs, Runner, CreateJob
<1>2. jobs' \in Seq(JobRow) /\ Added(run[c].kind, run[c].row) /\ handed' = handed
  BY <1>1, CreatedFacts DEF CreateJob
<1>3. CASE QueueMode /\ run[c].kind = "provision"
  <2>1. Quit(c)
    BY <1>3 DEF CreateJob, Quit
  <2> QED
    BY <1>1, <1>2, <2>1, QuitFacts, Keeps DEF On, Goes, Saves, CreateJob, Busy
<1>4. CASE ~(QueueMode /\ run[c].kind = "provision")
  <2> DEFINE s == [run[c] EXCEPT !.pc = "start", !.job = Len(jobs) + 1]
  <2>1. Len(jobs) + 1 \in Nat
    BY <1>1, LenProperties DEF TypeOK
  <2>2. /\ s \in RunState /\ s.pc = "start" /\ s.job = Len(jobs) + 1
        /\ s.kind = run[c].kind /\ s.row = run[c].row /\ s.force = run[c].force
        /\ s.at = run[c].at /\ s.todo = run[c].todo /\ s.done = run[c].done
        /\ s.met = run[c].met
    BY <1>1, <2>1, RunFacts DEF RunState
  <2>3. run' = [run EXCEPT ![c] = s]
    BY <1>4 DEF CreateJob
  <2> HIDE DEF s
  <2>4. run' \in [Runner -> RunState] /\ run'[c] = s /\ Others(c)
    BY <1>1, <2>2, <2>3, RunMoves
  <2>5. Trim(s)
    BY <1>1, <2>2 DEF Trim
  <2>6. Goes(c)
    BY <1>1, <1>4, <2>2, <2>4, <2>5 DEF Goes
  <2>7. Saves(c)
    BY <1>1, <1>2 DEF Saves
  <2> QED
    BY <1>1, <2>4, <2>6, <2>7, Keeps DEF On, CreateJob, Busy
<1> QED
  BY <1>3, <1>4

(* The steps a run sets out with.                                          *)
LEMMA SetsOut ==
  ASSUME TypeOK, NEW p \in Runner, Trim(run[p]), NEW n \in Namespace \cup {NoNamespace},
         run' = [run EXCEPT ![p] = [run[p] EXCEPT !.pc = "step", !.at = n,
                                                  !.todo = StepsOf(run[p].kind)]]
  PROVE  /\ run' \in [Runner -> RunState] /\ Others(p)
         /\ run'[p].pc = "step" /\ run'[p].kind = run[p].kind
         /\ run'[p].row = run[p].row /\ run'[p].job = run[p].job
         /\ run'[p].at = n /\ run'[p].todo = StepsOf(run[p].kind)
         /\ Trim(run'[p])
<1> DEFINE s == [run[p] EXCEPT !.pc = "step", !.at = n, !.todo = StepsOf(run[p].kind)]
<1>1. StepsOf(run[p].kind) \in Seq(StepName)
  BY RunFacts, StepsAreTyped
<1>2. /\ s \in RunState /\ s.pc = "step" /\ s.kind = run[p].kind /\ s.row = run[p].row
      /\ s.force = run[p].force /\ s.job = run[p].job /\ s.at = n
      /\ s.todo = StepsOf(run[p].kind) /\ s.done = run[p].done /\ s.met = run[p].met
  BY <1>1, RunFacts DEF RunState
<1> HIDE DEF s
<1>3. run' \in [Runner -> RunState] /\ run'[p] = s /\ Others(p)
  BY <1>2, RunMoves DEF s
<1>4. Trim(s)
  BY <1>2, RunFacts, StepsAreTyped DEF Trim
<1> QED
  BY <1>2, <1>3, <1>4

LEMMA StartOn ==
  ASSUME Inv, NEW c \in Caller, Start(c)
  PROVE  On(c) /\ VaultOK'
<1>1. TypeOK /\ Placed(c) /\ Trim(run[c]) /\ c \in Runner /\ run[c].pc = "start"
  BY DEF Inv, Runs, Runner, Start
<1>2. run' = [run EXCEPT ![c] = [run[c] EXCEPT !.pc = "step", !.at = run[c].at,
                                              !.todo = StepsOf(run[c].kind)]]
  <2>1. [run[c] EXCEPT !.pc = "step", !.todo = StepsOf(run[c].kind)]
        = [run[c] EXCEPT !.pc = "step", !.at = run[c].at, !.todo = StepsOf(run[c].kind)]
    BY <1>1, RunFacts DEF RunState
  <2>2. run' = [run EXCEPT ![c] =
                  [run[c] EXCEPT !.pc = "step", !.todo = StepsOf(run[c].kind)]]
    BY <1>1 DEF Start, TypeOK
  <2> QED
    BY <2>1, <2>2
<1>3. /\ run' \in [Runner -> RunState] /\ Others(c)
      /\ run'[c].pc = "step" /\ run'[c].kind = run[c].kind
      /\ run'[c].row = run[c].row /\ run'[c].job = run[c].job
      /\ run'[c].at = run[c].at
      /\ Trim(run'[c])
  BY <1>1, <1>2, RunFacts, SetsOut
<1>4. Saves(c)
  BY <1>1, SavesStatus, Statuses DEF Start
<1>5. Goes(c)
  BY <1>1, <1>3 DEF Goes
<1> QED
  BY <1>1, <1>3, <1>4, <1>5, Keeps DEF On, Start, Busy

LEMMA UnregisterOn ==
  ASSUME Inv, NEW c \in Caller, Unregister(c)
  PROVE  On(c) /\ VaultOK'
<1>1. TypeOK /\ c \in Runner /\ run[c].pc = "unregister"
  BY DEF Inv, Runner, Unregister
<1>2. run' \in [Runner -> RunState] /\ run'[c] = Idle /\ Others(c)
  BY <1>1, QuitFacts DEF Unregister
<1>3. Saves(c)
  BY <1>1, <1>2, IdleFacts, SavesNothing DEF Unregister
<1> QED
  BY <1>1, <1>2, <1>3, Keeps DEF On, Goes, Unregister, Busy

LEMMA DispatchOn ==
  ASSUME Inv, NEW w \in Worker, Dispatch(w)
  PROVE  On(w) /\ VaultOK'
<1>1. TypeOK /\ Placed(w) /\ Trim(run[w]) /\ w \in Runner /\ run[w].pc = "dispatch"
      /\ run[w].row \in Row
  BY PlacedFacts DEF Inv, Runs, Runner, Dispatch, Busy
<1>2. VaultOK' /\ supplier' = supplier /\ Busy(w) /\ ids' = ids /\ UNCHANGED history
  BY <1>1, Keeps DEF Dispatch, Busy
<1>3. CASE Present(run[w].row) /\ run' = [run EXCEPT ![w].pc = "step",
             ![w].at = supplier[run[w].row], ![w].todo = StepsOf(run[w].kind)]
  <2> DEFINE n == supplier[run[w].row]
  <2>1. n \in Namespace \cup {NoNamespace}
    BY <1>1 DEF TypeOK
  <2>2. run' = [run EXCEPT ![w] = [run[w] EXCEPT !.pc = "step", !.at = n,
                                                !.todo = StepsOf(run[w].kind)]]
    BY <1>1, <1>3 DEF TypeOK
  <2>3. /\ run' \in [Runner -> RunState] /\ Others(w)
        /\ run'[w].pc = "step" /\ run'[w].kind = run[w].kind
        /\ run'[w].row = run[w].row /\ run'[w].job = run[w].job
        /\ run'[w].at = n
        /\ Trim(run'[w])
    BY <1>1, <2>1, <2>2, SetsOut
  <2>4. Saves(w)
    BY <1>1, <2>3, SavesNothing DEF Dispatch
  <2>5. Goes(w)
    BY <1>1, <1>3, <2>3 DEF Goes
  <2> QED
    BY <1>2, <2>3, <2>4, <2>5 DEF On
<1>4. CASE Quit(w)
  <2>1. run' \in [Runner -> RunState] /\ run'[w] = Idle /\ Others(w)
    BY <1>1, <1>4, QuitFacts
  <2>2. Saves(w)
    BY <1>1, <2>1, IdleFacts, SavesNothing DEF Dispatch
  <2> QED
    BY <1>2, <2>1, <2>2 DEF On, Goes
<1>5. CASE To(w, "catch")
  <2>1. /\ run' \in [Runner -> RunState] /\ Others(w)
        /\ Turned(w, "catch") /\ Trim(run'[w])
    BY <1>1, <1>5, ToFacts
  <2>2. Saves(w)
    BY <1>1, <2>1, SavesNothing DEF Dispatch, Turned
  <2>3. Goes(w)
    BY <1>1, <2>1 DEF Goes, Turned
  <2> QED
    BY <1>2, <2>1, <2>2, <2>3 DEF On
<1> QED
  BY <1>3, <1>4, <1>5 DEF Dispatch

(* A run that ends after what it has to save.                              *)
LEMMA EndsOn ==
  ASSUME TypeOK, NEW p \in Runner, Busy(p), Quit(p), Saves(p),
         supplier' = supplier, ids' = ids, UNCHANGED history
  PROVE  On(p)
  BY QuitFacts DEF On, Goes

LEMMA CatchOn ==
  ASSUME Inv, NEW w \in Worker, Catch(w)
  PROVE  On(w) /\ VaultOK'
<1>1. TypeOK /\ w \in Runner /\ run[w].pc = "catch" /\ Busy(w)
  BY DEF Inv, Runner, Catch, Busy
<1>2. Saves(w)
  BY <1>1, SavesStatus, Statuses DEF Catch
<1> QED
  BY <1>1, <1>2, EndsOn, Keeps DEF Catch

LEMMA AbortOn ==
  ASSUME Inv, NEW p \in Runner, Abort(p)
  PROVE  On(p) /\ VaultOK'
<1>1. TypeOK /\ Placed(p) /\ Busy(p) /\ Quit(p) /\ Unheard(p)
  BY DEF Inv, Runs, Abort
<1>2. run'[p].pc = "idle"
  BY <1>1, QuitFacts, IdleFacts
<1>3. Saves(p)
  BY <1>1, <1>2, UnheardSaves
<1> QED
  BY <1>1, <1>3, EndsOn, Keeps DEF Abort

LEMMA ThrowOn ==
  ASSUME Inv, NEW w \in Worker, Throw(w)
  PROVE  On(w) /\ VaultOK'
<1>1. TypeOK /\ Placed(w) /\ Trim(run[w]) /\ w \in Runner /\ To(w, "catch") /\ Unheard(w)
      /\ run[w].pc \in {"dispatch", "step", "close"} /\ Busy(w)
  BY DEF Inv, Runs, Runner, Throw, Busy
<1>2. /\ run' \in [Runner -> RunState] /\ Others(w)
      /\ Turned(w, "catch") /\ Trim(run'[w])
  BY <1>1, ToFacts
<1>3. Saves(w)
  BY <1>1, <1>2, UnheardSaves DEF Turned
<1>4. Goes(w)
  BY <1>1, <1>2 DEF Goes, Turned
<1> QED
  BY <1>1, <1>2, <1>3, <1>4, Keeps DEF On, Throw

-----------------------------------------------------------------------------
(* A provision is at a provision step, a deprovision at one of its three.  *)
LEMMA StepFacts ==
  ASSUME TypeOK, NEW p \in Runner, Trim(run[p]), NEW s, AtStep(p, s)
  PROVE  /\ s \in StepName
         /\ run[p].kind = "provision" =>
              s \in ProvisionStep /\ Tail(run[p].todo) \in Seq(ProvisionStep)
         /\ run[p].kind # "provision" =>
              \/ /\ run[p].todo = <<"check", "unquota", "delete">> /\ s = "check"
                 /\ Tail(run[p].todo) = <<"unquota", "delete">>
              \/ /\ run[p].todo = <<"unquota", "delete">> /\ s = "unquota"
                 /\ Tail(run[p].todo) = <<"delete">>
              \/ /\ run[p].todo = <<"delete">> /\ s = "delete"
                 /\ Tail(run[p].todo) = << >>
<1>1. run[p].todo # << >> /\ s = Head(run[p].todo)
  BY DEF AtStep
<1>2. CASE run[p].kind = "provision"
  <2>1. run[p].todo \in Seq(ProvisionStep)
    BY <1>2 DEF Trim
  <2>2. Head(run[p].todo) \in ProvisionStep /\ Tail(run[p].todo) \in Seq(ProvisionStep)
    BY <1>1, <2>1, HeadTailProperties
  <2> QED
    BY <1>1, <1>2, <2>2, StepNames
<1>3. CASE run[p].kind # "provision"
  <2>1. run[p].todo \in {<<"delete">>, <<"unquota", "delete">>,
                         <<"check", "unquota", "delete">>}
    BY <1>1, <1>3 DEF Trim
  <2> QED
    BY <1>1, <1>3, <2>1, Lefts, StepNames
<1> QED
  BY <1>2, <1>3

LEMMA PastFacts ==
  ASSUME TypeOK, VaultOK, NEW p \in Runner, Trim(run[p]), run[p].at \in Namespace,
         NEW s, AtStep(p, s), Accepts(p, s)
  PROVE  LET t == Past(p, s)
         IN  /\ t \in RunState /\ t.pc = "step"
             /\ t.kind = run[p].kind /\ t.row = run[p].row /\ t.force = run[p].force
             /\ t.job = run[p].job /\ t.at = run[p].at /\ t.todo = Tail(run[p].todo)
             /\ Trim(t)
<1> DEFINE d == IF s \in ProvisionStep THEN Append(run[p].done, s) ELSE run[p].done
           m == IF s = "check" THEN vault[run[p].at].keys ELSE run[p].met
           t == Past(p, s)
<1>1. Tail(run[p].todo) \in Seq(StepName)
  <2>1. run[p].todo \in Seq(StepName) /\ run[p].todo # << >>
    BY RunFacts DEF AtStep
  <2> QED
    BY <2>1, HeadTailProperties
<1>2. d \in Seq(StepName)
  BY RunFacts, StepNames, AppendProperties
<1>3. m \subseteq Key
  BY RunFacts DEF VaultOK, TenantOK
<1>4. /\ t \in RunState /\ t.pc = "step"
      /\ t.kind = run[p].kind /\ t.row = run[p].row /\ t.force = run[p].force
      /\ t.job = run[p].job /\ t.at = run[p].at /\ t.todo = Tail(run[p].todo)
      /\ t.done = d /\ t.met = m
  <2>1. t = [run[p] EXCEPT !.todo = Tail(run[p].todo), !.done = d, !.met = m]
    BY RunFacts DEF Past, RunState
  <2>2. run[p].pc = "step"
    BY DEF AtStep
  <2> HIDE DEF t, d, m
  <2> QED
    BY <1>1, <1>2, <1>3, <2>1, <2>2, RunFacts DEF RunState
<1>5. CASE run[p].kind = "provision"
  <2>1. s \in ProvisionStep /\ Tail(run[p].todo) \in Seq(ProvisionStep)
    BY <1>5, StepFacts
  <2>2. d \in Seq(ProvisionStep)
    BY <1>5, <2>1, AppendProperties DEF Trim
  <2> HIDE DEF t, d, m
  <2> QED
    BY <1>4, <1>5, <2>1, <2>2 DEF Trim, t
<1>6. CASE run[p].kind # "provision"
  <2>1. \/ /\ s = "check" /\ Tail(run[p].todo) = <<"unquota", "delete">>
        \/ /\ s = "unquota" /\ Tail(run[p].todo) = <<"delete">>
           /\ run[p].todo = <<"unquota", "delete">>
        \/ /\ s = "delete" /\ Tail(run[p].todo) = << >>
           /\ run[p].todo = <<"delete">>
    BY <1>6, StepFacts
  <2>2. d = << >>
    BY <1>6, <2>1 DEF Trim, ProvisionStep
  <2>3. ~run[p].force => m = {}
    <3>1. CASE s = "check"
      BY <3>1 DEF Accepts
    <3>2. CASE s # "check"
      BY <1>6, <2>1, <3>2, Unequal DEF Trim
    <3> QED
      BY <3>1, <3>2
  <2> HIDE DEF t, d, m
  <2> QED
    BY <1>4, <1>6, <2>1, <2>2, <2>3 DEF Trim, t
<1> QED
  BY <1>4, <1>5, <1>6

LEMMA AcceptedTransit ==
  ASSUME NEW p, NEW s, Accepts(p, s)
  PROVE  s = "transit" => vault[run[p].at].ns
  BY DEF Accepts, Acceptable

LEMMA StepSucceedsOn ==
  ASSUME Inv, NEW p \in Runner, StepSucceeds(p)
  PROVE  On(p) /\ VaultOK'
<1>1. PICK s \in StepName :
        /\ AtStep(p, s)
        /\ Accepts(p, s)
        /\ \/ Apply(s, run[p].at) /\ UNCHANGED faults
           \/ s = "unquota" /\ Fault /\ UNCHANGED <<vault, quota>>
        /\ Write(p, "running")
        /\ run' = [run EXCEPT ![p] = Past(p, s)]
        /\ UNCHANGED <<supplier, ids, history>>
  BY DEF StepSucceeds
<1>2. TypeOK /\ VaultOK /\ Placed(p) /\ Trim(run[p]) /\ run[p].pc = "step" /\ Busy(p)
      /\ run[p].at \in Namespace
  BY <1>1, VaultFacts, PlacedFacts DEF Inv, Runs, AtStep, Busy
<1> DEFINE t == Past(p, s)
<1>3. /\ t \in RunState /\ t.pc = "step"
      /\ t.kind = run[p].kind /\ t.row = run[p].row
      /\ t.job = run[p].job /\ t.at = run[p].at /\ Trim(t)
  BY <1>1, <1>2, PastFacts
<1> HIDE DEF t
<1>4. run' \in [Runner -> RunState] /\ run'[p] = t /\ Others(p)
  BY <1>1, <1>2, <1>3, RunMoves DEF t
<1>5. Saves(p)
  BY <1>1, <1>2, SavesStatus, Statuses
<1>6. Goes(p)
  BY <1>2, <1>3, <1>4 DEF Goes
<1>7. VaultOK'
  BY <1>1, <1>2, ApplyFacts, AcceptedTransit, FaultFacts, Keeps
<1> QED
  BY <1>1, <1>2, <1>4, <1>5, <1>6, <1>7 DEF On

LEMMA StepFailsOn ==
  ASSUME Inv, NEW p \in Runner, StepFails(p)
  PROVE  On(p) /\ VaultOK'
<1>1. PICK s \in StepName :
        /\ AtStep(p, s)
        /\ \/ Refuses(p, s) /\ UNCHANGED <<vault, quota, faults>>
           \/ /\ s # "unquota"
              /\ Fault
              /\ \/ UNCHANGED <<vault, quota>>
                 \/ Accepts(p, s) /\ Apply(s, run[p].at)
        /\ To(p, "undo")
        /\ UNCHANGED <<supplier, ids, jobs, handed, history>>
  BY DEF StepFails
<1>2. TypeOK /\ VaultOK /\ Placed(p) /\ Trim(run[p]) /\ run[p].pc = "step" /\ Busy(p)
      /\ run[p].at \in Namespace
  BY <1>1, VaultFacts, PlacedFacts DEF Inv, Runs, AtStep, Busy
<1>3. /\ run' \in [Runner -> RunState] /\ Others(p)
      /\ Turned(p, "undo") /\ Trim(run'[p])
  BY <1>1, <1>2, ToFacts
<1>4. Saves(p)
  BY <1>1, <1>2, <1>3, SavesNothing DEF Turned
<1>5. Goes(p)
  BY <1>2, <1>3 DEF Goes, Turned
<1>6. VaultOK'
  BY <1>1, <1>2, ApplyFacts, AcceptedTransit, FaultFacts, Keeps
<1> QED
  BY <1>1, <1>2, <1>3, <1>4, <1>5, <1>6 DEF On

LEMMA SaveFailsOn ==
  ASSUME Inv, NEW p \in Runner, SaveFails(p)
  PROVE  On(p) /\ VaultOK'
<1>1. PICK s \in StepName :
        /\ AtStep(p, s)
        /\ Accepts(p, s)
        /\ Apply(s, run[p].at)
        /\ Fault
        /\ Write(p, "running") \/ UNCHANGED <<jobs, handed>>
        /\ run' = [run EXCEPT ![p] = [Past(p, s) EXCEPT !.pc = "undo"]]
        /\ UNCHANGED <<supplier, ids, history>>
  BY DEF SaveFails
<1>2. TypeOK /\ VaultOK /\ Placed(p) /\ Trim(run[p]) /\ run[p].pc = "step" /\ Busy(p)
      /\ run[p].at \in Namespace
  BY <1>1, VaultFacts, PlacedFacts DEF Inv, Runs, AtStep, Busy
<1> DEFINE t == Past(p, s)
           u == [t EXCEPT !.pc = "undo"]
<1>3. /\ t \in RunState
      /\ t.kind = run[p].kind /\ t.row = run[p].row
      /\ t.job = run[p].job /\ t.at = run[p].at /\ Trim(t)
  BY <1>1, <1>2, PastFacts
<1> HIDE DEF t
<1>4. /\ u \in RunState /\ u.pc = "undo"
      /\ u.kind = t.kind /\ u.row = t.row /\ u.force = t.force /\ u.job = t.job
      /\ u.at = t.at /\ u.todo = t.todo /\ u.done = t.done /\ u.met = t.met
  BY <1>3 DEF RunState
<1>5. run' = [run EXCEPT ![p] = u]
  BY <1>1 DEF t
<1> HIDE DEF u
<1>6. run' \in [Runner -> RunState] /\ run'[p] = u /\ Others(p)
  BY <1>2, <1>4, <1>5, RunMoves
<1>7. Trim(u)
  BY <1>3, <1>4 DEF Trim
<1>8. Saves(p)
  BY <1>1, <1>2, <1>4, <1>6, SavesStatus, SavesNothing, Statuses
<1>9. Goes(p)
  BY <1>2, <1>3, <1>4, <1>6, <1>7 DEF Goes
<1>10. VaultOK'
  BY <1>1, <1>2, ApplyFacts, AcceptedTransit, FaultFacts, Keeps
<1> QED
  BY <1>1, <1>2, <1>6, <1>8, <1>9, <1>10 DEF On

LEMMA FrontLast ==
  ASSUME NEW S, NEW s \in Seq(S), s # << >>
  PROVE  Front(s) \in Seq(S) /\ Last(s) \in S
<1>1. Len(s) \in Nat \ {0} /\ \A i \in 1..Len(s) : s[i] \in S
  BY EmptySeq, ElementOfSeq
<1>2. SubSeq(s, 1, Len(s) - 1) \in Seq(S)
  BY <1>1, SubSeqProperties
<1> QED
  BY <1>1, <1>2 DEF Front, Last

LEMMA UndoOfFacts ==
  \A s \in ProvisionStep : UndoOf[s] \in {"delete", "unmount", "unquota"}
  BY DEF ProvisionStep, UndoOf

(* Only a provision undoes a step.                                         *)
LEMMA UndoFacts ==
  ASSUME TypeOK, NEW p \in Runner, Trim(run[p]), run[p].done # << >>
  PROVE  /\ run[p].kind = "provision"
         /\ UndoOf[Last(run[p].done)] \in {"delete", "unmount", "unquota"}
         /\ Front(run[p].done) \in Seq(ProvisionStep)
<1>1. run[p].kind = "provision" /\ run[p].done \in Seq(ProvisionStep)
  BY DEF Trim
<1> QED
  BY <1>1, FrontLast, UndoOfFacts

LEMMA UndoOn ==
  ASSUME Inv, NEW p \in Runner, Undo(p)
  PROVE  On(p) /\ VaultOK'
<1>1. TypeOK /\ VaultOK /\ Placed(p) /\ Trim(run[p]) /\ run[p].pc = "undo" /\ Busy(p)
      /\ run[p].at \in Namespace
  BY VaultFacts, PlacedFacts DEF Inv, Runs, Undo, Busy
<1>2. CASE run[p].done = << >>
  <2>1. To(p, "close") /\ UNCHANGED <<vault, quota, faults>>
    BY <1>2 DEF Undo
  <2>2. /\ run' \in [Runner -> RunState] /\ Others(p)
        /\ Turned(p, "close") /\ Trim(run'[p])
    BY <1>1, <2>1, ToFacts
  <2>3. Saves(p)
    BY <1>1, <2>2, SavesNothing DEF Turned, Undo
  <2>4. Goes(p)
    BY <1>1, <2>2 DEF Goes, Turned
  <2> QED
    BY <1>1, <2>1, <2>2, <2>3, <2>4, Keeps DEF On, Undo
<1>3. CASE run[p].done # << >>
  <2> DEFINE f == Front(run[p].done)
             t == [run[p] EXCEPT !.done = f]
  <2>1. /\ run' = [run EXCEPT ![p] = t]
        /\ \/ Apply(UndoOf[Last(run[p].done)], run[p].at) /\ UNCHANGED faults
           \/ Fault /\ UNCHANGED <<vault, quota>>
    BY <1>1, <1>3 DEF Undo, TypeOK
  <2>2. /\ run[p].kind = "provision" /\ f \in Seq(ProvisionStep)
        /\ UndoOf[Last(run[p].done)] \in {"delete", "unmount", "unquota"}
    BY <1>1, <1>3, UndoFacts
  <2>3. f \in Seq(StepName)
    BY <1>1, <1>3, RunFacts, FrontLast
  <2> HIDE DEF f
  <2>4. /\ t \in RunState /\ t.pc = "undo" /\ t.kind = run[p].kind /\ t.row = run[p].row
        /\ t.job = run[p].job /\ t.at = run[p].at /\ t.todo = run[p].todo /\ t.done = f
    BY <1>1, <2>3, RunFacts DEF RunState
  <2> HIDE DEF t
  <2>5. run' \in [Runner -> RunState] /\ run'[p] = t /\ Others(p)
    BY <1>1, <2>1, <2>4, RunMoves
  <2>6. Trim(t)
    BY <1>1, <2>2, <2>4 DEF Trim
  <2>7. Saves(p)
    BY <1>1, <2>4, <2>5, SavesNothing DEF Undo
  <2>8. Goes(p)
    BY <1>1, <2>4, <2>5, <2>6 DEF Goes
  <2>9. VaultOK'
    BY <1>1, <2>1, <2>2, ApplyFacts, FaultFacts, Keeps
  <2> QED
    BY <1>1, <2>5, <2>7, <2>8, <2>9 DEF On, Undo
<1> QED
  BY <1>2, <1>3

(* A run that goes on to delete its row, or ends.                          *)
LEMMA ClosesOn ==
  ASSUME TypeOK, NEW p \in Runner, Trim(run[p]), Busy(p),
         run[p].pc \in {"step", "close"},
         NEW v \in JobStatus \ {"pending"}, Write(p, v),
         v = "succeeded" => run[p].pc = "step",
         Quit(p) \/ (To(p, "unregister") /\ p \in Caller /\
                     ~(v = "succeeded" /\ run[p].kind = "provision")),
         supplier' = supplier, ids' = ids, UNCHANGED history
  PROVE  On(p)
<1>1. CASE Quit(p)
  <2>1. run'[p].pc = "idle"
    BY <1>1, QuitFacts, IdleFacts
  <2>2. Saves(p)
    BY <2>1, SavesStatus
  <2> QED
    BY <1>1, <2>2, EndsOn
<1>2. CASE /\ To(p, "unregister") /\ p \in Caller
           /\ ~(v = "succeeded" /\ run[p].kind = "provision")
  <2>1. /\ run' \in [Runner -> RunState] /\ Others(p)
        /\ Turned(p, "unregister") /\ Trim(run'[p])
    BY <1>2, ToFacts
  <2>2. Saves(p)
    BY <1>2, <2>1, SavesStatus DEF Turned
  <2>3. Goes(p)
    BY <1>2, <2>1 DEF Goes, Turned
  <2> QED
    BY <2>1, <2>2, <2>3 DEF On
<1> QED
  BY <1>1, <1>2

LEMMA CloseFailedOn ==
  ASSUME Inv, NEW p \in Runner, CloseFailed(p)
  PROVE  On(p) /\ VaultOK'
<1>1. TypeOK /\ Trim(run[p]) /\ run[p].pc = "close" /\ Busy(p)
  BY DEF Inv, Runs, CloseFailed, Busy
<1>2. PICK v \in Defeats(run[p].kind) : Write(p, v)
  BY DEF CloseFailed
<1>3. v \in JobStatus \ {"pending"} /\ v # "succeeded"
  BY <1>2, Statuses
<1>4. Quit(p) \/ (To(p, "unregister") /\ p \in Caller)
  BY DEF CloseFailed
<1> QED
  BY <1>1, <1>2, <1>3, <1>4, ClosesOn, Keeps DEF CloseFailed

LEMMA CloseSucceededOn ==
  ASSUME Inv, NEW p \in Runner, CloseSucceeded(p)
  PROVE  On(p) /\ VaultOK'
<1>1. TypeOK /\ Trim(run[p]) /\ run[p].pc = "step" /\ Busy(p) /\ Write(p, "succeeded")
  BY DEF Inv, Runs, CloseSucceeded, Busy
<1>2. "succeeded" \in JobStatus \ {"pending"}
  BY Statuses
<1>3. Quit(p) \/ (To(p, "unregister") /\ p \in Caller /\ run[p].kind = "deprovision")
  BY DEF CloseSucceeded
<1> QED
  BY <1>1, <1>2, <1>3, ClosesOn, Keeps DEF CloseSucceeded

-----------------------------------------------------------------------------
(* Each part of the invariant is kept when a run goes on or ends.          *)

LEMMA OnTyped ==
  ASSUME Inv, NEW p \in Runner, On(p), VaultOK'
  PROVE  TypeOK'
<1>1. TypeOK /\ Placed(p) /\ Busy(p)
  BY DEF Inv, Runs, On
<1>2. run[p].row \in Row /\ run[p].at \in Namespace \cup {NoNamespace}
  BY <1>1, PlacedFacts, RunFacts
<1>3. supplier' \in [Row -> Namespace \cup {NoNamespace}]
  BY <1>1, <1>2 DEF On, TypeOK
<1>4. handed' \in [Row -> Namespace \cup {NoNamespace}]
  BY <1>1, <1>2 DEF On, Saves, TypeOK
<1>5. jobs' \in Seq(JobRow)
  BY DEF On, Saves
<1>6. /\ run' \in [Runner -> RunState] /\ ids' = ids
      /\ moved' = moved /\ crowded' = crowded /\ rivalled' = rivalled
  BY DEF On, history
<1>7. /\ vault' \in [Namespace -> [ns : BOOLEAN, transit : BOOLEAN, keys : SUBSET Key]]
      /\ \A n \in Namespace : /\ vault'[n].keys # {} => vault'[n].transit
                              /\ vault'[n].transit => vault'[n].ns
      /\ quota' \subseteq Namespace
      /\ faults' \in 0..MaxFaults
  BY DEF VaultOK, TenantOK
<1> QED
  BY <1>1, <1>3, <1>4, <1>5, <1>6, <1>7 DEF TypeOK

(* A row that is there is there as it was, or gone.                        *)
LEMMA OnSupplier ==
  ASSUME Inv, NEW p \in Runner, On(p)
  PROVE  \A r \in Row : supplier'[r] \in {supplier[r], NoNamespace}
<1>1. TypeOK
  BY DEF Inv
<1> QED
  BY <1>1 DEF On, TypeOK

StaysFaithful(r, n) == supplier'[r] \in {NoNamespace, n} \/ {supplier'[r], n} \subseteq moved'

LEMMA OnFaithful ==
  ASSUME Inv, NEW p \in Runner, On(p), NEW r \in Row, NEW n \in Namespace, Faithful(r, n)
  PROVE  StaysFaithful(r, n)
<1>1. moved' = moved
  BY DEF On, history
<1> QED
  BY <1>1, OnSupplier DEF Faithful, StaysFaithful

(* Nobody comes to be bound for a namespace.                               *)
LEMMA OnBound ==
  ASSUME Inv, NEW p \in Runner, On(p), NEW q \in Runner, NEW n \in Namespace
  PROVE  /\ Bound(q, n)' => Bound(q, n)
         /\ run'[q].at = n => Bound(q, n)
         /\ Provisions(q, run'[q]) => Provisions(q, run[q])
<1>1. TypeOK /\ Placed(p) /\ Placed(q) /\ Busy(p)
  BY DEF Inv, Runs, On
<1>2. NoNamespace # n
  BY RowFacts, <1>1
<1>3. CASE q # p
  <2>1. run'[q] = run[q]
    BY <1>3 DEF On, Others
  <2>2. run[q].pc = "dispatch" => run[q].row \in Row
    BY <1>1, PlacedFacts DEF Busy
  <2> QED
    BY <1>2, <2>1, <2>2, OnSupplier DEF Bound
<1>4. CASE q = p /\ run'[p] = Idle
  BY <1>2, <1>4, IdleFacts DEF Bound, Provisions
<1>5. CASE q = p /\ run'[p] # Idle
  <2>1. /\ run'[p].kind = run[p].kind
        /\ run'[p].pc \in {"start", "step", "undo", "close", "catch", "unregister"}
        /\ run'[p].pc = "start" => run[p].pc = "create" /\ ~(QueueMode /\ run[p].kind = "provision")
        /\ run'[p].pc \in {"step", "undo"} => run[p].pc \in {"start", "dispatch", "step", "undo"}
        /\ run'[p].at = run[p].at \/
             (run[p].pc = "dispatch" /\ run'[p].at = supplier[run[p].row])
    BY <1>5 DEF On, Goes
  <2>2. run'[p].at = n => Bound(p, n)
    BY <2>1 DEF Bound
  <2>3. Bound(p, n)' => run'[p].at = n
    BY <2>1 DEF Bound
  <2>4. Provisions(p, run'[p]) => Provisions(p, run[p])
    BY <1>1, <2>1 DEF Provisions, Placed
  <2> QED
    BY <1>5, <2>2, <2>3, <2>4
<1> QED
  BY <1>3, <1>4, <1>5

(* The jobs that are there keep their rows, and the kinds they are of.     *)
LEMMA OnJobs ==
  ASSUME Inv, NEW p \in Runner, On(p)
  PROVE  /\ DOMAIN jobs \subseteq DOMAIN jobs'
         /\ \A j \in DOMAIN jobs : jobs'[j].row = jobs[j].row /\ jobs'[j].kind = jobs[j].kind
         /\ \A j \in DOMAIN jobs : jobs'[j].status = "pending" => jobs[j].status = "pending"
         /\ \A j \in DOMAIN jobs' \ DOMAIN jobs :
              /\ run[p].pc = "create"
              /\ jobs'[j].kind = run[p].kind /\ jobs'[j].row = run[p].row
              /\ \A i \in DOMAIN jobs' \ DOMAIN jobs : i = j
         /\ run'[p].pc = "start" => Len(jobs) + 1 \in DOMAIN jobs' \ DOMAIN jobs
<1>1. CASE jobs' = jobs /\ run'[p].pc # "start"
  BY <1>1
<1>2. CASE run[p].pc = "create" /\ Added(run[p].kind, run[p].row)
  BY <1>2 DEF Added
<1>3. CASE run[p].pc # "create" /\ \E v \in JobStatus \ {"pending"} : Written(run[p].job, v)
  <2>1. PICK v \in JobStatus \ {"pending"} : Written(run[p].job, v)
    BY <1>3
  <2>2. run'[p].pc # "start"
    BY <1>3, IdleFacts DEF On, Goes
  <2> QED
    BY <1>3, <2>1, <2>2 DEF Written
<1> QED
  BY <1>1, <1>2, <1>3 DEF On, Saves

LEMMA OnRuns ==
  ASSUME Inv, NEW p \in Runner, On(p)
  PROVE  Runs'
<1> SUFFICES ASSUME NEW q \in Runner
             PROVE  Placed(q)' /\ Trim(run[q])'
  BY DEF Runs
<1>1. TypeOK /\ Placed(p) /\ Placed(q) /\ Trim(run[q]) /\ Busy(p) /\ ids' = ids
  BY DEF Inv, Runs, On
<1>2. CASE q # p
  <2>1. run'[q] = run[q]
    BY <1>2 DEF On, Others
  <2>2. run[q].at \in Namespace => Busy(q)
    BY <1>1, RowFacts DEF Placed, Busy
  <2>3. run[q].at \in Namespace => StaysFaithful(run[q].row, run[q].at)
    BY <1>1, <2>1, <2>2, OnFaithful, PlacedFacts DEF Placed
  <2>4. run[q].pc \notin {"idle", "create"} =>
           /\ run[q].job \in DOMAIN jobs'
           /\ jobs'[run[q].job].row = run[q].row
           /\ jobs'[run[q].job].kind = run[q].kind
    BY <1>1, OnJobs DEF Placed
  <2>5. Placed(q)'
    BY <1>1, <2>1, <2>3, <2>4 DEF Placed, Faithful, StaysFaithful
  <2> QED
    BY <1>1, <2>1, <2>5
<1>3. CASE q = p /\ run'[p] = Idle
  BY <1>3, IdleFacts, RowFacts, <1>1 DEF Placed
<1>4. CASE q = p /\ run'[p] # Idle
  <2> DEFINE s == run[p]  t == run'[p]
  <2>1. /\ t.kind = s.kind /\ t.row = s.row
        /\ t.pc \in {"start", "step", "undo", "close", "catch", "unregister"}
        /\ t.pc = "start" => s.pc = "create" /\ ~(QueueMode /\ s.kind = "provision")
        /\ t.pc = "unregister" => p \in Caller
        /\ t.pc = "catch" => p \in Worker
        /\ s.pc = "create" => t.pc = "start" /\ t.job = Len(jobs) + 1
        /\ s.pc # "create" => t.job = s.job
        /\ s.pc = "dispatch" => t.pc \in {"step", "catch"}
        /\ s.pc = "catch" => t.pc = "catch"
        /\ IF s.pc = "dispatch" /\ t.pc = "step"
           THEN t.at = supplier[s.row] /\ Present(s.row)
           ELSE t.at = s.at
        /\ Trim(t)
    BY <1>4 DEF On, Goes
  <2>2. s.pc # "idle" /\ s.row \in Row /\ s.row \in 1..ids
    BY <1>1, PlacedFacts DEF Busy, Placed
  <2>3. t.job \in DOMAIN jobs' /\ jobs'[t.job].row = t.row /\ jobs'[t.job].kind = t.kind
    <3>1. CASE s.pc = "create"
      BY <2>1, <3>1, OnJobs
    <3>2. CASE s.pc # "create"
      <4>1. s.job \in DOMAIN jobs /\ jobs[s.job].row = s.row /\ jobs[s.job].kind = s.kind
        BY <1>1, <2>2, <3>2 DEF Placed
      <4> QED
        BY <2>1, <3>2, <4>1, OnJobs
    <3> QED
      BY <3>1, <3>2
  <2>4. t.at \in Namespace => StaysFaithful(t.row, t.at)
    <3>1. ASSUME t.at \in Namespace PROVE Faithful(s.row, t.at)
      BY <1>1, <2>1, <3>1 DEF Placed, Faithful
    <3> QED
      BY <2>1, <2>2, <3>1, OnFaithful
  <2>5. t.pc # "catch" => t.at \in Namespace
    <3>1. CASE s.pc = "dispatch" /\ t.pc = "step"
      BY <1>1, <2>1, <2>2, <3>1 DEF Present, TypeOK
    <3>2. CASE ~(s.pc = "dispatch" /\ t.pc = "step")
      BY <1>1, <2>1, <2>2, <3>2 DEF Placed
    <3> QED
      BY <3>1, <3>2
  <2>6. t.pc = "start" => p \in Caller
    BY <1>1, <2>1 DEF Placed
  <2>7. QueueMode /\ t.kind = "provision" => p \in Worker
    BY <1>1, <2>1, <2>2 DEF Placed
  <2> HIDE DEF s, t
  <2>8. Placed(p)'
    BY <1>1, <2>1, <2>2, <2>3, <2>4, <2>5, <2>6, <2>7 DEF Placed, s, t, Faithful, StaysFaithful
  <2> QED
    BY <1>4, <2>1, <2>8 DEF s, t
<1> QED
  BY <1>2, <1>3, <1>4

LEMMA OnRows ==
  ASSUME Inv, NEW p \in Runner, On(p)
  PROVE  Rows'
<1>1. TypeOK /\ Placed(p) /\ Busy(p) /\ Rows /\ ids' = ids /\ moved' = moved
  BY DEF Inv, Runs, On, history
<1>2. run[p].row \in 1..ids /\ run[p].row \in Row
  BY <1>1, PlacedFacts DEF Placed, Busy
<1>3. handed' = handed \/
        (handed' = [handed EXCEPT ![run[p].row] = run[p].at] /\ run[p].pc = "step")
  BY DEF On, Saves
<1>4. \A r \in Row : r > ids => ~Present(r)' /\ handed'[r] = NoNamespace
  BY <1>1, <1>2, <1>3, OnSupplier, RowFacts DEF Rows, Present, TypeOK
<1>5. \A r, s \in Row : Present(r)' /\ supplier'[r] = supplier'[s] => r = s
  BY <1>1, OnSupplier DEF Rows, Present
<1>6. \A r \in Row : handed'[r] \in Namespace => Faithful(r, handed'[r])
  BY <1>1, <1>2, <1>3 DEF Rows, Placed, TypeOK
<1>7. \A r \in Row : handed'[r] \in Namespace => Faithful(r, handed[r])'
  BY <1>1, <1>6, OnSupplier DEF Faithful
<1> QED
  BY <1>1, <1>4, <1>5, <1>7 DEF Rows

LEMMA OnOneJob ==
  ASSUME Inv, NEW p \in Runner, On(p)
  PROVE  OneJob'
<1>1. TypeOK /\ Placed(p) /\ Busy(p) /\ OneJob /\ ids' = ids
  BY DEF Inv, Runs, On
<1>2. run[p].row \in 1..ids /\ run[p].row \in Row
  BY <1>1, PlacedFacts DEF Placed, Busy
<1>3. \A q \in Runner : Creating(q)' => q # p /\ Creating(q) /\ run'[q] = run[q]
  <2>1. ~Creating(p)'
    BY IdleFacts DEF Creating, On, Goes
  <2> QED
    BY <2>1 DEF Creating, On, Others
<1>4. \A j \in DOMAIN jobs' : jobs'[j].row \in 1..ids
  BY <1>1, <1>2, OnJobs DEF OneJob
<1>5. \A r \in Row : \A j \in DOMAIN jobs' :
        ProvisionJob(j, r)' => ProvisionJob(j, r) \/
          (j \notin DOMAIN jobs /\ Creating(p) /\ r = run[p].row)
  BY OnJobs DEF ProvisionJob, Creating
<1>6. \A r \in Row : \A i, j \in DOMAIN jobs' :
        ProvisionJob(i, r)' /\ ProvisionJob(j, r)' => i = j
  <2> SUFFICES ASSUME NEW r \in Row, NEW i \in DOMAIN jobs', NEW j \in DOMAIN jobs',
                      ProvisionJob(i, r)', ProvisionJob(j, r)'
               PROVE  i = j
    OBVIOUS
  <2>1. CASE i \in DOMAIN jobs /\ j \in DOMAIN jobs
    BY <1>1, <1>5, <2>1 DEF OneJob
  <2>2. CASE i \notin DOMAIN jobs /\ j \notin DOMAIN jobs
    BY <2>2, OnJobs
  <2>3. CASE i \in DOMAIN jobs /\ j \notin DOMAIN jobs
    BY <1>1, <1>5, <2>3 DEF OneJob, ProvisionJob
  <2>4. CASE i \notin DOMAIN jobs /\ j \in DOMAIN jobs
    BY <1>1, <1>5, <2>4 DEF OneJob, ProvisionJob
  <2> QED
    BY <2>1, <2>2, <2>3, <2>4
<1>7. \A r \in Row : handed'[r] = handed[r] \/
        (/\ r = run[p].row /\ run[p].pc = "step" /\ run[p].kind = "provision"
         /\ Written(run[p].job, "succeeded"))
  BY <1>1, <1>2 DEF On, Saves, TypeOK
<1>8. run[p].pc = "step" /\ run[p].kind = "provision" =>
        ProvisionJob(run[p].job, run[p].row)
  BY <1>1 DEF Placed, ProvisionJob
<1>9. ASSUME NEW q \in Runner, Creating(q)'
      PROVE  /\ \A j \in DOMAIN jobs' : ~ProvisionJob(j, run[q].row)'
             /\ \A o \in Runner : Creating(o)' /\ run'[o].row = run'[q].row => q = o
             /\ handed'[run'[q].row] = NoNamespace
  <2>1. q # p /\ Creating(q) /\ run'[q] = run[q]
    BY <1>3, <1>9
  <2>2. run[q].row \in Row
    BY <1>1, <2>1, PlacedFacts DEF Inv, Runs, Creating, Busy
  <2>3. /\ \A j \in DOMAIN jobs : ~ProvisionJob(j, run[q].row)
        /\ \A o \in Runner : Creating(o) /\ run[o].row = run[q].row => q = o
        /\ handed[run[q].row] = NoNamespace
    BY <1>1, <2>1 DEF OneJob
  <2>4. \A j \in DOMAIN jobs' : ~ProvisionJob(j, run[q].row)'
    <3> SUFFICES ASSUME NEW j \in DOMAIN jobs', ProvisionJob(j, run[q].row)' PROVE FALSE
      OBVIOUS
    <3>1. jobs'[j].kind = "provision" /\ jobs'[j].row = run[q].row
      BY <2>1 DEF ProvisionJob
    <3>2. CASE j \in DOMAIN jobs
      BY <2>3, <3>1, <3>2, OnJobs DEF ProvisionJob
    <3>3. CASE j \notin DOMAIN jobs
      BY <2>1, <2>3, <3>1, <3>3, OnJobs DEF Creating
    <3> QED
      BY <3>2, <3>3
  <2>5. \A o \in Runner : Creating(o)' /\ run'[o].row = run'[q].row => q = o
    BY <1>3, <2>1, <2>3
  <2>6. handed'[run[q].row] = NoNamespace
    BY <1>7, <1>8, <2>2, <2>3 DEF ProvisionJob
  <2> QED
    BY <2>1, <2>4, <2>5, <2>6
<1>10. ASSUME NEW r \in Row, NEW j \in DOMAIN jobs', ProvisionJob(j, r)',
              jobs'[j].status = "pending"
       PROVE  handed'[r] = NoNamespace
  <2>1. CASE j \in DOMAIN jobs
    <3>1. ProvisionJob(j, r) /\ jobs[j].status = "pending"
      BY <1>5, <1>10, <2>1, OnJobs
    <3>2. handed[r] = NoNamespace
      BY <1>1, <3>1, <2>1 DEF OneJob
    <3>3. CASE handed'[r] = handed[r]
      BY <3>2, <3>3
    <3>4. CASE handed'[r] # handed[r]
      <4>1. /\ r = run[p].row /\ Written(run[p].job, "succeeded")
            /\ ProvisionJob(run[p].job, r)
        BY <1>7, <1>8, <3>4
      <4>2. j = run[p].job
        BY <1>1, <2>1, <3>1, <4>1 DEF OneJob, ProvisionJob
      <4> QED
        BY <1>10, <2>1, <4>1, <4>2 DEF Written
    <3> QED
      BY <3>3, <3>4
  <2>2. CASE j \notin DOMAIN jobs
    <3>1. Creating(p) /\ r = run[p].row
      BY <1>5, <1>10, <2>2 DEF ProvisionJob
    <3>2. handed[r] = NoNamespace
      BY <1>1, <3>1 DEF OneJob
    <3> QED
      BY <1>7, <3>1, <3>2 DEF Creating
  <2> QED
    BY <2>1, <2>2
<1> QED
  BY <1>1, <1>4, <1>6, <1>9, <1>10 DEF OneJob

LEMMA OnAlone ==
  ASSUME Inv, NEW p \in Runner, On(p)
  PROVE  Alone'
<1>1. Alone /\ moved' = moved /\ crowded' = crowded /\ rivalled' = rivalled
  BY DEF Inv, On, history
<1> QED
  BY <1>1, OnBound DEF Alone

LEMMA OnSpared ==
  ASSUME Inv, NEW p \in Runner, On(p)
  PROVE  Spared'
<1>1. TypeOK /\ Placed(p) /\ Alone /\ Spared /\ moved' = moved /\ rivalled' = rivalled
  BY DEF Inv, Runs, On, history
<1> SUFFICES ASSUME NEW n \in Namespace \ (moved \cup rivalled), NEW r \in Row,
                    NEW q \in Runner, Tenant(r, n)', Bound(q, n)', Provisions(q, run'[q])
             PROVE  FALSE
  BY <1>1 DEF Spared
<1>2. Bound(q, n) /\ Provisions(q, run[q])
  BY OnBound
<1>3. supplier[r] = n
  BY OnSupplier, <1>1, RowFacts DEF Tenant
<1>4. CASE handed[r] = n
  BY <1>1, <1>2, <1>3, <1>4 DEF Spared, Tenant
<1>5. CASE handed[r] # n
  <2>1. /\ run[p].kind = "provision" /\ run[p].pc = "step" /\ run[p].at = n
        /\ run'[p].pc \in {"idle", "catch"}
    BY <1>1, <1>5 DEF On, Saves, Tenant, TypeOK
  <2>2. Bound(p, n) /\ Provisions(p, run[p])
    BY <1>1, <2>1 DEF Bound, Provisions, Placed
  <2>3. q # p
    BY <2>1 DEF Provisions
  <2> QED
    BY <1>1, <1>2, <2>2, <2>3 DEF Alone
<1> QED
  BY <1>4, <1>5

LEMMA OnOwn ==
  ASSUME Inv, NEW p \in Runner, On(p)
  PROVE  Own'
<1>1. TypeOK /\ Placed(p) /\ Alone /\ Own /\ moved' = moved /\ crowded' = crowded
  BY DEF Inv, Runs, On, history
<1> SUFFICES ASSUME NEW n \in Namespace \ (moved \cup crowded), NEW q \in Runner,
                    run'[q].at = n
             PROVE  supplier'[run'[q].row] = n
  BY <1>1 DEF Own
<1>2. n # NoNamespace /\ Bound(q, n)
  BY <1>1, RowFacts, OnBound
<1>3. CASE q = p
  <2>1. run'[p] # Idle
    BY <1>2, <1>3, IdleFacts
  <2>2. supplier' = supplier /\ run'[p].row = run[p].row
    BY <2>1 DEF On, Goes
  <2>3. run[p].at = n \/ supplier[run[p].row] = n
    BY <1>3, <2>1 DEF On, Goes
  <2> QED
    BY <1>1, <1>3, <2>2, <2>3 DEF Own
<1>4. CASE q # p
  <2>1. run'[q] = run[q]
    BY <1>4 DEF On, Others
  <2>2. supplier[run[q].row] = n
    BY <1>1, <2>1 DEF Own
  <2>3. CASE supplier' = supplier
    BY <2>1, <2>2, <2>3
  <2>4. CASE supplier' # supplier
    <3>1. /\ run[p].pc = "unregister"
          /\ supplier' = [supplier EXCEPT ![run[p].row] = NoNamespace]
      BY <2>4 DEF On
    <3>2. run[p].at \in Namespace /\ Faithful(run[p].row, run[p].at)
      BY <1>1, <3>1 DEF Placed
    <3>3. CASE run[p].row = run[q].row
      <4>1. run[p].at = n
        BY <1>2, <2>2, <3>2, <3>3 DEF Faithful
      <4> QED
        BY <1>1, <1>2, <1>4, <4>1 DEF Alone, Bound
    <3>4. CASE run[p].row # run[q].row
      <4>1. run[q].row \in Row
        <5>1. Placed(q) /\ Busy(q)
          BY <1>1, <1>2, <2>1, RowFacts DEF Inv, Runs, Placed, Busy
        <5> QED
          BY <1>1, <5>1, PlacedFacts
      <4> QED
        BY <1>1, <2>1, <2>2, <3>1, <3>4, <4>1 DEF TypeOK
    <3> QED
      BY <3>3, <3>4
  <2> QED
    BY <2>3, <2>4
<1> QED
  BY <1>3, <1>4

LEMMA OnKeepsInv ==
  ASSUME Inv, NEW p \in Runner, On(p), VaultOK'
  PROVE  Inv'
  BY OnTyped, OnRuns, OnRows, OnOneJob, OnAlone, OnSpared, OnOwn DEF Inv

-----------------------------------------------------------------------------
(* The steps that take up a run, a PATCH, and a key that is made.          *)

LEMMA BeginFacts ==
  ASSUME TypeOK, NEW p \in Runner, NEW s \in RunState,
         NEW n \in Namespace \cup {NoNamespace}, Begin(p, s, n)
  PROVE  /\ run' \in [Runner -> RunState] /\ run'[p] = s /\ Others(p)
         /\ ~Busy(p) /\ moved' = moved
         /\ crowded \subseteq crowded' /\ crowded' \subseteq Namespace
         /\ rivalled \subseteq rivalled' /\ rivalled' \subseteq Namespace
         /\ rivalled \subseteq crowded => rivalled' \subseteq crowded'
         /\ \A q \in Runner : n \in Namespace /\ Bound(q, n) =>
              /\ n \in crowded'
              /\ Provisions(p, s) /\ Provisions(q, run[q]) => n \in rivalled'
<1>1. run' \in [Runner -> RunState] /\ run'[p] = s /\ Others(p) /\ ~Busy(p)
  BY RunMoves DEF Begin
<1>2. moved' = moved /\ moved \cup crowded \cup rivalled \subseteq Namespace
  BY DEF Begin, TypeOK
<1>3. crowded' = crowded \cup {m \in Namespace \cap {n} : \E q \in Runner : Bound(q, m)}
  BY DEF Begin
<1>4. rivalled' = rivalled \cup
       {m \in Namespace \cap {n} :
          Provisions(p, s) /\ \E q \in Runner : Bound(q, m) /\ Provisions(q, run[q])}
  BY DEF Begin
<1> QED
  BY <1>1, <1>2, <1>3, <1>4

(* A run that begins is bound for one namespace at most, and the rest of   *)
(* the registry, with its runs, is as it was.                              *)
LEMMA BeginAlone ==
  ASSUME TypeOK, Alone, NEW p \in Runner, NEW s \in RunState,
         NEW n \in Namespace \cup {NoNamespace}, Begin(p, s, n),
         \A m \in Namespace : Bound(p, m)' => m = n,
         \A m \in Namespace : \A q \in Runner \ {p} : Bound(q, m)' => Bound(q, m)
  PROVE  Alone'
<1>1. /\ run'[p] = s /\ Others(p) /\ moved' = moved
      /\ crowded \subseteq crowded' /\ rivalled \subseteq rivalled'
      /\ rivalled \subseteq crowded => rivalled' \subseteq crowded'
      /\ \A q \in Runner : n \in Namespace /\ Bound(q, n) =>
           /\ n \in crowded'
           /\ Provisions(p, s) /\ Provisions(q, run[q]) => n \in rivalled'
  BY BeginFacts
<1>2. rivalled' \subseteq crowded'
  BY <1>1 DEF Alone
<1>3. ASSUME NEW m \in Namespace \ moved, NEW q \in Runner, NEW o \in Runner, q # o,
             Bound(q, m)', Bound(o, m)'
      PROVE  /\ m \in crowded'
             /\ Provisions(q, run'[q]) /\ Provisions(o, run'[o]) => m \in rivalled'
  <2>1. CASE q # p /\ o # p
    <3>1. Bound(q, m) /\ Bound(o, m) /\ run'[q] = run[q] /\ run'[o] = run[o]
      BY <1>1, <1>3, <2>1 DEF Others
    <3>2. m \in crowded /\ (Provisions(q, run[q]) /\ Provisions(o, run[o]) => m \in rivalled)
      BY <1>3, <3>1 DEF Alone
    <3> QED
      BY <1>1, <3>1, <3>2
  <2>2. CASE q = p
    <3>1. m = n /\ Bound(o, m) /\ run'[o] = run[o]
      BY <1>1, <1>3, <2>2 DEF Others
    <3> QED
      BY <1>1, <2>2, <3>1
  <2>3. CASE o = p
    <3>1. m = n /\ Bound(q, m) /\ run'[q] = run[q]
      BY <1>1, <1>3, <2>3 DEF Others
    <3> QED
      BY <1>1, <2>3, <3>1
  <2> QED
    BY <2>1, <2>2, <2>3
<1> QED
  BY <1>1, <1>2, <1>3 DEF Alone

(* Rows and runs that a step leaves alone stay well placed.                *)
LEMMA StaysPlaced ==
  ASSUME Inv, NEW q \in Runner, run'[q] = run[q], ids <= ids', ids' \in Nat,
         DOMAIN jobs' = DOMAIN jobs,
         \A j \in DOMAIN jobs : jobs'[j].row = jobs[j].row /\ jobs'[j].kind = jobs[j].kind,
         \A r \in Row : \A n \in Namespace :
           r <= ids /\ Faithful(r, n) => StaysFaithful(r, n)
  PROVE  Placed(q)' /\ Trim(run[q])'
<1>1. TypeOK /\ Placed(q) /\ Trim(run[q])
  BY DEF Inv, Runs
<1>2. ids \in Nat
  BY <1>1, RowFacts
<1>3. run[q].at \in Namespace => StaysFaithful(run[q].row, run[q].at)
  <2>1. ASSUME run[q].at \in Namespace PROVE StaysFaithful(run[q].row, run[q].at)
    <3>1. Busy(q)
      BY <1>1, <2>1, RowFacts DEF Placed, Busy
    <3>2. run[q].row \in Row /\ run[q].row <= ids
      BY <1>1, <1>2, <3>1, PlacedFacts DEF Placed, Busy
    <3>3. Faithful(run[q].row, run[q].at)
      BY <1>1, <2>1 DEF Placed
    <3> QED
      BY <2>1, <3>2, <3>3
  <2> QED
    BY <2>1
<1>4. run[q].pc # "idle" => run[q].row \in 1..ids'
  BY <1>1, <1>2 DEF Placed
<1>5. Placed(q)'
  BY <1>1, <1>3, <1>4 DEF Placed, Faithful, StaysFaithful
<1> QED
  BY <1>1, <1>5

LEMMA IdlePlaced ==
  ASSUME Inv, NEW q \in Runner, run[q].pc = "idle", NEW n
  PROVE  ~Bound(q, n) \/ n = NoNamespace
  BY DEF Inv, Runs, Placed, Bound

(* POST /suppliers.                                                        *)
LEMMA RegisterKeepsInv ==
  ASSUME Inv, NEW c \in Caller, NEW n \in Namespace, Register(c, n)
  PROVE  Inv'
<1> DEFINE i == ids + 1
           s == [Idle EXCEPT !.pc = "create", !.row = i, !.at = n]
<1>1. /\ TypeOK /\ Runs /\ Rows /\ OneJob /\ Alone /\ Spared /\ Own /\ c \in Runner
      /\ ids < MaxSuppliers /\ Unnamed(n) /\ ids' = i
      /\ supplier' = [supplier EXCEPT ![i] = n]
      /\ UNCHANGED <<jobs, vault, quota, faults, handed>>
      /\ Begin(c, s, n) \/ UNCHANGED <<run, history>>
  BY DEF Inv, Register, Runner
<1>2. i \in Row /\ i \in 1..MaxSuppliers /\ i > ids /\ ids \in Nat /\ i \in Nat
  BY <1>1, RowFacts
<1>3. /\ supplier' \in [Row -> Namespace \cup {NoNamespace}]
      /\ supplier'[i] = n
      /\ \A r \in Row : r # i => supplier'[r] = supplier[r]
      /\ ~Present(i) /\ handed[i] = NoNamespace /\ n # NoNamespace
  BY <1>1, <1>2, RowFacts DEF TypeOK, Rows
<1>4. s \in RunState /\ s.pc = "create" /\ s.row = i /\ s.at = n /\ s.kind = "provision"
      /\ s.todo = << >> /\ s.done = << >>
  <2>1. i \in 0..MaxSuppliers /\ n \in Namespace \cup {NoNamespace}
    BY <1>2, RowFacts, <1>1
  <2> HIDE DEF i
  <2> QED
    BY <2>1, IdleFacts DEF RunState
<1> HIDE DEF s
<1>5. /\ run' \in [Runner -> RunState] /\ Others(c) /\ moved' = moved
      /\ crowded \subseteq crowded' /\ rivalled \subseteq rivalled'
      /\ crowded' \cup rivalled' \subseteq Namespace
      /\ run' = run \/ (run'[c] = s /\ ~Busy(c))
  <2>1. CASE Begin(c, s, n)
    BY <1>1, <1>4, <2>1, BeginFacts
  <2>2. CASE UNCHANGED <<run, history>>
    BY <1>1, <2>2 DEF history, TypeOK, Others
  <2> QED
    BY <1>1, <2>1, <2>2
<1>6. TypeOK'
  BY <1>1, <1>2, <1>3, <1>5 DEF TypeOK, i
<1> HIDE DEF i
<1>7. \A q \in Runner : run[q].pc # "idle" => run[q].row # i
  BY <1>1, <1>2 DEF Runs, Placed
<1>8. \A q \in Runner \ {c} : \A m \in Namespace : Bound(q, m)' => Bound(q, m)
  <2> SUFFICES ASSUME NEW q \in Runner \ {c}, NEW m \in Namespace, Bound(q, m)'
               PROVE  Bound(q, m)
    OBVIOUS
  <2>1. run'[q] = run[q]
    BY <1>5 DEF Others
  <2>2. run[q].pc = "dispatch" => run[q].row \in Row /\ run[q].row # i
    BY <1>1, <1>7, PlacedFacts DEF Runs, Busy
  <2> QED
    BY <1>3, <2>1, <2>2 DEF Bound
<1>9. run' = run => \A m \in Namespace : Bound(c, m)' => Bound(c, m)
  <2>1. run[c].pc # "dispatch"
    BY <1>1, ConstantsAssumption DEF Runs, Placed
  <2> QED
    BY <2>1 DEF Bound
<1>10. run'[c] = s => \A m \in Namespace : Bound(c, m)' => m = n
  BY <1>4 DEF Bound
<1>11. \A q \in Runner : run'[q] = run[q] \/ (q = c /\ run'[q] = s)
  BY <1>5 DEF Others
<1>12. Runs'
  <2> SUFFICES ASSUME NEW q \in Runner PROVE Placed(q)' /\ Trim(run[q])'
    BY DEF Runs
  <2>1. CASE run'[q] = run[q]
    <3>1. ids <= ids' /\ ids' \in Nat
      BY <1>1, <1>2
    <3>2. \A r \in Row : \A m \in Namespace :
            r <= ids /\ Faithful(r, m) => StaysFaithful(r, m)
      BY <1>2, <1>3, <1>5 DEF Faithful, StaysFaithful
    <3> QED
      BY <1>1, <2>1, <3>1, <3>2, StaysPlaced
  <2>2. CASE q = c /\ run'[q] = s
    <3>1. Trim(s)
      BY <1>4, StepsAreTyped DEF Trim
    <3>2. s.row \in 1..ids'
      BY <1>1, <1>2, <1>4
    <3>3. Placed(c)'
      BY <1>1, <1>3, <1>4, <2>2, <3>2 DEF Placed, Faithful
    <3> QED
      BY <2>2, <3>1, <3>3
  <2> QED
    BY <1>11, <2>1, <2>2
<1>13. Rows'
  <2>1. \A r \in Row : r > i => ~Present(r)' /\ handed'[r] = NoNamespace
    BY <1>1, <1>2, <1>3 DEF Rows, Present
  <2>2. \A r, t \in Row : Present(r)' /\ supplier'[r] = supplier'[t] => r = t
    BY <1>1, <1>3 DEF Rows, Present, Unnamed
  <2>3. \A r \in Row : handed'[r] \in Namespace => Faithful(r, handed[r])'
    <3> SUFFICES ASSUME NEW r \in Row, handed[r] \in Namespace PROVE Faithful(r, handed[r])'
      BY <1>1
    <3>1. r # i /\ Faithful(r, handed[r])
      BY <1>1, <1>3, RowFacts DEF Rows
    <3> QED
      BY <1>1, <1>3, <1>5, <3>1 DEF Faithful
  <2> QED
    BY <1>1, <2>1, <2>2, <2>3 DEF Rows
<1>14. OneJob'
  <2>1. \A j \in DOMAIN jobs : jobs[j].row \in 1..ids /\ jobs[j].row \in 1..i /\ jobs[j].row # i
    BY <1>1, <1>2 DEF OneJob
  <2>2. ASSUME NEW q \in Runner, Creating(q)'
        PROVE  /\ \A j \in DOMAIN jobs' : ~ProvisionJob(j, run[q].row)'
               /\ \A o \in Runner : Creating(o)' /\ run'[o].row = run'[q].row => q = o
               /\ handed'[run'[q].row] = NoNamespace
    <3>1. \A o \in Runner : Creating(o)' /\ run'[o] = run[o] =>
            Creating(o) /\ run[o].row # i
      BY <1>7 DEF Creating
    <3>2. CASE q = c /\ run'[q] = s
      BY <1>1, <1>3, <1>4, <1>11, <2>1, <3>1, <3>2 DEF ProvisionJob
    <3>3. CASE run'[q] = run[q]
      <4>1. Creating(q) /\ run[q].row # i
        BY <2>2, <3>1, <3>3
      <4>2. /\ \A j \in DOMAIN jobs : ~ProvisionJob(j, run[q].row)
            /\ \A o \in Runner : Creating(o) /\ run[o].row = run[q].row => q = o
            /\ handed[run[q].row] = NoNamespace
        BY <1>1, <4>1 DEF OneJob
      <4>3. \A o \in Runner : Creating(o)' /\ run'[o].row = run[q].row => q = o
        BY <1>4, <1>11, <3>1, <4>1, <4>2
      <4> QED
        BY <1>1, <3>3, <4>2, <4>3 DEF ProvisionJob
    <3> QED
      BY <1>11, <3>2, <3>3
  <2> QED
    BY <1>1, <2>1, <2>2 DEF OneJob, ProvisionJob
<1>15. Alone'
  <2>1. CASE Begin(c, s, n)
    <3>1. run'[c] = s
      BY <1>1, <1>4, <2>1, BeginFacts
    <3> QED
      BY <1>1, <1>4, <1>8, <1>10, <2>1, <3>1, BeginAlone
  <2>2. CASE UNCHANGED <<run, history>>
    <3>1. run' = run /\ moved' = moved /\ crowded' = crowded /\ rivalled' = rivalled
      BY <2>2 DEF history
    <3>2. \A q \in Runner : \A m \in Namespace : Bound(q, m)' => Bound(q, m)
      BY <1>8, <1>9, <3>1
    <3> QED
      BY <1>1, <3>1, <3>2 DEF Alone
  <2> QED
    BY <1>1, <2>1, <2>2
<1>16. Spared'
  <2> SUFFICES ASSUME NEW m \in Namespace \ (moved \cup rivalled), NEW r \in Row,
                      NEW q \in Runner, Tenant(r, m)', Bound(q, m)', Provisions(q, run'[q])
               PROVE  FALSE
    BY <1>5 DEF Spared
  <2>1. r # i /\ Tenant(r, m)
    BY <1>1, <1>3, RowFacts DEF Tenant
  <2>2. CASE run'[q] = run[q]
    <3>1. CASE q # c
      BY <1>1, <1>8, <2>1, <2>2, <3>1 DEF Spared
    <3>2. CASE q = c
      <4>1. CASE run' = run
        BY <1>1, <1>9, <2>1, <3>2, <4>1 DEF Spared
      <4>2. CASE run'[c] = s
        BY <1>1, <1>10, <2>1, <3>2, <4>2 DEF Unnamed, Tenant
      <4> QED
        BY <1>5, <4>1, <4>2
    <3> QED
      BY <3>1, <3>2
  <2>3. CASE q = c /\ run'[q] = s
    BY <1>1, <1>10, <2>1, <2>3 DEF Unnamed, Tenant
  <2> QED
    BY <1>11, <2>2, <2>3
<1>17. Own'
  <2> SUFFICES ASSUME NEW m \in Namespace \ (moved \cup crowded), NEW q \in Runner,
                      run'[q].at = m
               PROVE  supplier'[run'[q].row] = m
    BY <1>5 DEF Own
  <2>1. CASE run'[q] = run[q]
    <3>1. supplier[run[q].row] = m
      BY <1>1, <2>1 DEF Own
    <3>2. Placed(q) /\ Busy(q)
      BY <1>1, <2>1, RowFacts DEF Runs, Placed, Busy
    <3>3. run[q].row \in Row /\ run[q].row # i
      BY <1>1, <1>7, <3>2, PlacedFacts DEF Busy
    <3> QED
      BY <1>3, <2>1, <3>1, <3>3
  <2>2. CASE q = c /\ run'[q] = s
    BY <1>3, <1>4, <2>2
  <2> QED
    BY <1>11, <2>1, <2>2
<1> QED
  BY <1>6, <1>12, <1>13, <1>14, <1>15, <1>16, <1>17 DEF Inv

(* DELETE /suppliers/:id.                                                  *)
LEMMA BeginDeleteKeepsInv ==
  ASSUME Inv, NEW c \in Caller, NEW r \in Row, NEW force \in BOOLEAN,
         BeginDelete(c, r, force)
  PROVE  Inv'
<1> DEFINE n == supplier[r]
           s == [Idle EXCEPT !.pc = "create", !.kind = "deprovision", !.row = r,
                             !.at = n, !.force = force]
<1>1. /\ TypeOK /\ Runs /\ Rows /\ OneJob /\ Alone /\ Spared /\ Own /\ c \in Runner
      /\ n \in Namespace /\ n # NoNamespace
      /\ UNCHANGED <<supplier, ids, jobs, vault, quota, faults, handed>>
      /\ Begin(c, s, n)
  BY RowFacts DEF Inv, BeginDelete, Runner, Present, TypeOK
<1>2. r \in 1..ids /\ ids \in Nat
  BY <1>1, RowFacts DEF Rows, BeginDelete
<1>3. s \in RunState /\ s.pc = "create" /\ s.kind = "deprovision" /\ s.row = r /\ s.at = n
      /\ s.todo = << >> /\ s.done = << >> /\ s.met = {}
  <2>1. r \in 0..MaxSuppliers /\ n \in Namespace \cup {NoNamespace}
    BY <1>1, RowFacts
  <2> HIDE DEF n
  <2> QED
    BY <2>1, IdleFacts DEF RunState
<1> HIDE DEF s
<1>4. /\ run' \in [Runner -> RunState] /\ run'[c] = s /\ Others(c) /\ moved' = moved
      /\ ~Busy(c)
      /\ crowded \subseteq crowded' /\ rivalled \subseteq rivalled'
      /\ crowded' \cup rivalled' \subseteq Namespace
  BY <1>1, <1>3, BeginFacts
<1>5. TypeOK'
  BY <1>1, <1>4 DEF TypeOK
<1>6. \A q \in Runner \ {c} : run'[q] = run[q] /\ \A m : Bound(q, m)' => Bound(q, m)
  BY <1>1, <1>4 DEF Bound, Others
<1>7. \A m : Bound(c, m)' => m = n
  BY <1>3, <1>4 DEF Bound
<1>8. ~Provisions(c, run'[c]) /\ ~Creating(c)'
  BY <1>3, <1>4 DEF Provisions, Creating
<1>9. Runs'
  <2> SUFFICES ASSUME NEW q \in Runner PROVE Placed(q)' /\ Trim(run[q])'
    BY DEF Runs
  <2>1. CASE q # c
    <3>1. \A t \in Row : \A m \in Namespace :
            t <= ids /\ Faithful(t, m) => StaysFaithful(t, m)
      BY <1>1, <1>4 DEF Faithful, StaysFaithful
    <3> QED
      BY <1>1, <1>2, <1>6, <2>1, <3>1, StaysPlaced
  <2>2. CASE q = c
    <3>1. Trim(s)
      BY <1>3, Unequal DEF Trim
    <3>2. Placed(c)'
      BY <1>1, <1>2, <1>3, <1>4 DEF Placed, Faithful
    <3> QED
      BY <1>4, <2>2, <3>1, <3>2
  <2> QED
    BY <2>1, <2>2
<1>10. Rows'
  BY <1>1, <1>4 DEF Rows, Present, Faithful
<1>11. OneJob'
  BY <1>1, <1>6, <1>8 DEF OneJob, ProvisionJob, Creating
<1>12. Alone'
  BY <1>1, <1>3, <1>4, <1>6, <1>7, BeginAlone
<1>13. Spared'
  BY <1>1, <1>4, <1>6, <1>8 DEF Spared, Tenant
<1>14. Own'
  BY <1>1, <1>3, <1>4, <1>6 DEF Own
<1> QED
  BY <1>5, <1>9, <1>10, <1>11, <1>12, <1>13, <1>14 DEF Inv

(* The worker's UPDATE that claims the oldest pending job.                 *)
LEMMA ClaimKeepsInv ==
  ASSUME Inv, NEW w \in Worker, Claim(w)
  PROVE  Inv'
<1> DEFINE pending == {i \in DOMAIN jobs : jobs[i].status = "pending"}
           j == Min(pending)
           r == jobs[j].row
           n == supplier[r]
           s == [Idle EXCEPT !.pc = "dispatch", !.kind = jobs[j].kind, !.row = r,
                             !.force = jobs[j].force, !.job = j]
<1>1. /\ TypeOK /\ Runs /\ Rows /\ OneJob /\ Alone /\ Spared /\ Own /\ w \in Runner
      /\ UNCHANGED <<supplier, ids, vault, quota, faults, handed>>
      /\ pending # {}
      /\ jobs' = [jobs EXCEPT ![j].status = "running"]
      /\ Begin(w, s, n)
  BY DEF Inv, Claim, Runner
<1>2. j \in DOMAIN jobs /\ jobs[j].status = "pending"
  <2>1. pending \subseteq Nat
    BY <1>1, JobFacts
  <2>2. j \in pending
    BY <1>1, <2>1, MinIsMember
  <2> QED
    BY <2>2
<1> HIDE DEF pending, j
<1>3. /\ jobs[j] \in JobRow /\ j \in Nat /\ r \in Row /\ r \in 1..ids
      /\ jobs[j].kind \in {"provision", "deprovision"} /\ jobs[j].force \in BOOLEAN
      /\ n \in Namespace \cup {NoNamespace}
  <2>1. jobs[j] \in JobRow /\ j \in Nat
    BY <1>1, <1>2, JobFacts
  <2>2. r \in 1..ids
    BY <1>1, <1>2 DEF OneJob
  <2> QED
    BY <1>1, <2>1, <2>2 DEF JobRow, TypeOK
<1> HIDE DEF r, n
<1>4. s \in RunState /\ s.pc = "dispatch" /\ s.kind = jobs[j].kind /\ s.row = r
      /\ s.at = NoNamespace /\ s.job = j
      /\ s.todo = << >> /\ s.done = << >> /\ s.met = {}
  <2>1. r \in 0..MaxSuppliers
    BY <1>3, RowFacts, <1>1
  <2> QED
    BY <1>3, <2>1, IdleFacts DEF RunState
<1> HIDE DEF s
<1>5. /\ run' \in [Runner -> RunState] /\ run'[w] = s /\ Others(w) /\ moved' = moved
      /\ ~Busy(w)
      /\ crowded \subseteq crowded' /\ rivalled \subseteq rivalled'
      /\ crowded' \cup rivalled' \subseteq Namespace
  BY <1>1, <1>3, <1>4, BeginFacts
<1>6. jobs' \in Seq(JobRow) /\ Written(j, "running")
  BY <1>1, StatusWritten, Statuses
<1>7. TypeOK'
  BY <1>1, <1>5, <1>6 DEF TypeOK
<1>8. \A q \in Runner \ {w} : run'[q] = run[q] /\ \A m : Bound(q, m)' => Bound(q, m)
  BY <1>1, <1>5 DEF Bound, Others
<1>9. \A m \in Namespace : Bound(w, m)' => m = n
  BY <1>1, <1>4, <1>5, RowFacts DEF Bound, n
<1>10. Runs'
  <2> SUFFICES ASSUME NEW q \in Runner PROVE Placed(q)' /\ Trim(run[q])'
    BY DEF Runs
  <2>1. CASE q # w
    <3>1. \A t \in Row : \A m \in Namespace :
            t <= ids /\ Faithful(t, m) => StaysFaithful(t, m)
      BY <1>1, <1>5 DEF Faithful, StaysFaithful
    <3>2. ids \in Nat /\ ids <= ids'
      BY <1>1, RowFacts
    <3> QED
      BY <1>1, <1>6, <1>8, <2>1, <3>1, <3>2, StaysPlaced DEF Written
  <2>2. CASE q = w
    <3>1. Trim(s)
      BY <1>3, <1>4, Unequal, StepsAreTyped DEF Trim
    <3>2. jobs'[j].row = r /\ jobs'[j].kind = jobs[j].kind /\ j \in DOMAIN jobs'
      BY <1>2, <1>6 DEF Written, r
    <3>3. Placed(w)'
      BY <1>1, <1>3, <1>4, <1>5, <3>2, RowFacts DEF Placed
    <3> QED
      BY <1>5, <2>2, <3>1, <3>3
  <2> QED
    BY <2>1, <2>2
<1>11. Rows'
  BY <1>1, <1>5 DEF Rows, Present, Faithful
<1>12. OneJob'
  <2>1. \A q \in Runner : Creating(q)' => Creating(q) /\ run'[q] = run[q]
    BY <1>4, <1>5, <1>8 DEF Creating
  <2>2. \A i, t : ProvisionJob(i, t)' => ProvisionJob(i, t)
    BY <1>6 DEF ProvisionJob, Written
  <2>3. \A i \in DOMAIN jobs : jobs'[i].status = "pending" => jobs[i].status = "pending"
    BY <1>6 DEF Written
  <2> QED
    BY <1>1, <1>6, <2>1, <2>2, <2>3 DEF OneJob, Written
<1>13. Alone'
  BY <1>1, <1>3, <1>4, <1>5, <1>8, <1>9, BeginAlone
<1>14. Spared'
  <2> SUFFICES ASSUME NEW m \in Namespace \ (moved \cup rivalled), NEW t \in Row,
                      NEW q \in Runner, Tenant(t, m)', Bound(q, m)', Provisions(q, run'[q])
               PROVE  FALSE
    BY <1>5 DEF Spared
  <2>1. Tenant(t, m)
    BY <1>1 DEF Tenant
  <2>2. q = w
    BY <1>1, <1>8, <2>1 DEF Spared
  <2>3. m = n /\ jobs[j].kind = "provision"
    BY <1>4, <1>5, <1>9, <2>2 DEF Provisions
  <2>4. t = r
    BY <1>1, <1>3, <2>1, <2>3, RowFacts DEF Rows, Tenant, n, Present
  <2>5. handed[r] = NoNamespace
    BY <1>1, <1>2, <1>3, <2>3 DEF OneJob, ProvisionJob, r
  <2> QED
    BY <1>1, <2>1, <2>4, <2>5, RowFacts DEF Tenant
<1>15. Own'
  BY <1>1, <1>4, <1>5, <1>8, RowFacts DEF Own
<1> QED
  BY <1>7, <1>10, <1>11, <1>12, <1>13, <1>14, <1>15 DEF Inv

(* PATCH /suppliers/:id.                                                   *)
LEMMA PatchKeepsInv ==
  ASSUME Inv, NEW r \in Row, NEW n \in Namespace, Patch(r, n)
  PROVE  Inv'
<1>1. /\ TypeOK /\ Runs /\ Rows /\ OneJob /\ Alone /\ Spared /\ Own
      /\ UNCHANGED <<ids, jobs, vault, quota, run, faults, handed, crowded, rivalled>>
      /\ Unnamed(n) /\ n # NoNamespace
      /\ supplier[r] \in Namespace /\ supplier[r] # NoNamespace
      /\ supplier' = [supplier EXCEPT ![r] = n]
      /\ moved' = moved \cup {supplier[r], n}
  BY RowFacts DEF Inv, Patch, Present, TypeOK
<1>2. /\ supplier' \in [Row -> Namespace \cup {NoNamespace}]
      /\ supplier'[r] = n
      /\ \A t \in Row : t # r => supplier'[t] = supplier[t]
      /\ moved \subseteq moved' /\ moved' \subseteq Namespace
  BY <1>1 DEF TypeOK
<1>3. TypeOK'
  BY <1>1, <1>2 DEF TypeOK
<1>4. ASSUME NEW t \in Row, NEW m \in Namespace, Faithful(t, m)
      PROVE  StaysFaithful(t, m)
  BY <1>1, <1>2, <1>4 DEF Faithful, StaysFaithful
<1>5. \A q \in Runner : run[q].pc # "idle" => run[q].row \in Row
  BY <1>1, PlacedFacts DEF Runs, Busy
<1>6. ASSUME NEW q \in Runner, NEW m \in Namespace \ moved', Bound(q, m)'
      PROVE  Bound(q, m)
  <2>1. CASE run[q].at = m
    BY <2>1 DEF Bound
  <2>2. CASE run[q].pc = "dispatch" /\ supplier'[run[q].row] = m
    <3>1. run[q].row \in Row /\ run[q].row # r
      BY <1>1, <1>2, <1>5, <2>2
    <3> QED
      BY <1>2, <2>2, <3>1 DEF Bound
  <2> QED
    BY <1>1, <1>6, <2>1, <2>2 DEF Bound
<1>7. Runs'
  <2> SUFFICES ASSUME NEW q \in Runner PROVE Placed(q)' /\ Trim(run[q])'
    BY DEF Runs
  <2>1. ids <= ids' /\ ids' \in Nat
    BY <1>1, RowFacts
  <2> QED
    BY <1>1, <1>4, <2>1, StaysPlaced
<1>8. Rows'
  <2>1. r \in 1..ids /\ ids \in Nat
    BY <1>1, RowFacts DEF Rows, Present
  <2>2. \A t \in Row : t > ids => ~Present(t)' /\ handed'[t] = NoNamespace
    BY <1>1, <1>2, <2>1 DEF Rows, Present
  <2>3. \A t, u \in Row : Present(t)' /\ supplier'[t] = supplier'[u] => t = u
    BY <1>1, <1>2 DEF Rows, Present, Unnamed
  <2>4. \A t \in Row : handed'[t] \in Namespace => StaysFaithful(t, handed'[t])
    BY <1>1, <1>4 DEF Rows
  <2> QED
    BY <1>1, <2>2, <2>3, <2>4 DEF Rows, Faithful, StaysFaithful
<1>9. OneJob'
  BY <1>1 DEF OneJob, ProvisionJob, Creating
<1>10. Alone'
  <2> SUFFICES ASSUME NEW m \in Namespace \ moved', NEW p \in Runner, NEW q \in Runner,
                      p # q, Bound(p, m)', Bound(q, m)'
               PROVE  /\ m \in crowded
                      /\ Provisions(p, run[p]) /\ Provisions(q, run[q]) => m \in rivalled
    BY <1>1 DEF Alone
  <2> QED
    BY <1>1, <1>2, <1>6 DEF Alone
<1>11. Spared'
  <2> SUFFICES ASSUME NEW m \in Namespace \ (moved' \cup rivalled), NEW t \in Row,
                      NEW q \in Runner, Tenant(t, m)', Bound(q, m)', Provisions(q, run[q])
               PROVE  FALSE
    BY <1>1 DEF Spared
  <2>1. t # r
    BY <1>1, <1>2 DEF Tenant
  <2>2. Tenant(t, m)
    BY <1>1, <1>2, <2>1 DEF Tenant
  <2> QED
    BY <1>1, <1>2, <1>6, <2>2 DEF Spared
<1>12. Own'
  <2> SUFFICES ASSUME NEW m \in Namespace \ (moved' \cup crowded), NEW q \in Runner,
                      run[q].at = m
               PROVE  supplier'[run[q].row] = m
    BY <1>1 DEF Own
  <2>1. supplier[run[q].row] = m
    BY <1>1, <1>2 DEF Own
  <2>2. run[q].row \in Row
    BY <1>1, <1>5, RowFacts DEF Runs, Placed
  <2> QED
    BY <1>1, <1>2, <2>1, <2>2
<1> QED
  BY <1>3, <1>7, <1>8, <1>9, <1>10, <1>11, <1>12 DEF Inv

(* A step that leaves the registry and the runs alone.                     *)
LEMMA QuietKeepsInv ==
  ASSUME Inv, VaultOK', UNCHANGED <<supplier, ids, jobs, run, handed, history>>
  PROVE  Inv'
<1>1. /\ TypeOK /\ Runs /\ Rows /\ OneJob /\ Alone /\ Spared /\ Own
      /\ UNCHANGED <<supplier, ids, jobs, run, handed, moved, crowded, rivalled>>
  BY DEF Inv, history
<1>2. /\ vault' \in [Namespace -> [ns : BOOLEAN, transit : BOOLEAN, keys : SUBSET Key]]
      /\ \A n \in Namespace : /\ vault'[n].keys # {} => vault'[n].transit
                              /\ vault'[n].transit => vault'[n].ns
      /\ quota' \subseteq Namespace
      /\ faults' \in 0..MaxFaults
  BY DEF VaultOK, TenantOK
<1>3. TypeOK'
  BY <1>1, <1>2 DEF TypeOK
<1>4. Runs'
  BY <1>1 DEF Runs, Placed, Trim, Faithful
<1>5. Rows'
  BY <1>1 DEF Rows, Present, Faithful
<1>6. OneJob'
  BY <1>1 DEF OneJob, ProvisionJob, Creating
<1>7. Alone'
  BY <1>1 DEF Alone, Bound, Provisions
<1>8. Spared'
  BY <1>1 DEF Spared, Bound, Provisions, Tenant
<1>9. Own'
  BY <1>1 DEF Own
<1> QED
  BY <1>3, <1>4, <1>5, <1>6, <1>7, <1>8, <1>9 DEF Inv

LEMMA CreateKeyKeepsInv ==
  ASSUME Inv, NEW n \in Namespace, NEW k \in Key, CreateKey(n, k)
  PROVE  Inv'
<1>1. TypeOK /\ VaultOK
  BY VaultFacts DEF Inv
<1>2. /\ vault[n].transit /\ vault' = [vault EXCEPT ![n].keys = @ \cup {k}]
      /\ UNCHANGED <<supplier, ids, jobs, quota, run, faults, handed, history>>
  BY DEF CreateKey
<1>3. VaultOK'
  BY <1>1, <1>2 DEF VaultOK, TenantOK
<1> QED
  BY <1>2, <1>3, QuietKeepsInv

-----------------------------------------------------------------------------
(* The invariant holds throughout.                                         *)

LEMMA InitInv == Init => Inv
<1> SUFFICES ASSUME Init PROVE Inv
  OBVIOUS
<1>1. /\ \A r \in Row : supplier[r] = NoNamespace /\ handed[r] = NoNamespace
      /\ \A p \in Runner : run[p] = Idle
      /\ jobs = << >> /\ DOMAIN jobs = {} /\ ids = 0
      /\ moved = {} /\ crowded = {} /\ rivalled = {}
  BY DEF Init
<1>2. TypeOK
  <2>1. << >> \in Seq(JobRow)
    OBVIOUS
  <2>2. NoTenant \in [ns : BOOLEAN, transit : BOOLEAN, keys : SUBSET Key]
        /\ NoTenant.keys = {} /\ ~NoTenant.transit
    BY DEF NoTenant
  <2> QED
    BY <2>1, <2>2, IdleFacts, ConstantsAssumption DEF Init, TypeOK
<1>3. Runs
  BY <1>1, IdleFacts, ConstantsAssumption DEF Runs, Placed
<1>4. Rows
  BY <1>1, ConstantsAssumption DEF Rows, Present
<1>5. OneJob
  BY <1>1, IdleFacts DEF OneJob, ProvisionJob, Creating
<1>6. Alone /\ Spared /\ Own
  BY <1>1, IdleFacts, ConstantsAssumption DEF Alone, Spared, Own, Bound, Provisions
<1> QED
  BY <1>2, <1>3, <1>4, <1>5, <1>6 DEF Inv

(* A run's own steps.                                                      *)
LEMMA RunStepOn ==
  ASSUME Inv, NEW p \in Runner, RunStep(p)
  PROVE  On(p) /\ VaultOK'
  BY StepSucceedsOn, StepFailsOn, SaveFailsOn, UndoOn, CloseFailedOn, CloseSucceededOn
     DEF RunStep

LEMMA StepKeepsInv ==
  ASSUME Inv, [Next]_vars
  PROVE  Inv'
<1>1. CASE UNCHANGED vars
  <2>1. VaultOK'
    BY <1>1, Keeps DEF Inv, vars
  <2> QED
    BY <1>1, <2>1, QuietKeepsInv DEF vars, history
<1>2. ASSUME NEW n \in Namespace, NEW k \in Key, CreateKey(n, k) PROVE Inv'
  BY <1>2, CreateKeyKeepsInv
<1>3. ASSUME NEW r \in Row, NEW n \in Namespace, Patch(r, n) PROVE Inv'
  BY <1>3, PatchKeepsInv
<1>4. ASSUME NEW c \in Caller, NEW n \in Namespace, Register(c, n) PROVE Inv'
  BY <1>4, RegisterKeepsInv
<1>5. ASSUME NEW c \in Caller, NEW r \in Row, NEW force \in BOOLEAN,
             BeginDelete(c, r, force)
      PROVE  Inv'
  BY <1>5, BeginDeleteKeepsInv
<1>6. ASSUME NEW c \in Caller, Api(c) PROVE Inv'
  <2>1. c \in Runner
    BY DEF Runner
  <2>2. On(c) /\ VaultOK'
    BY <1>6, <2>1, CreateJobOn, StartOn, UnregisterOn, RunStepOn DEF Api
  <2> QED
    BY <2>1, <2>2, OnKeepsInv
<1>7. ASSUME NEW w \in Worker, Work(w) \/ Throw(w) PROVE Inv'
  <2>1. w \in Runner
    BY DEF Runner
  <2>2. CASE Claim(w)
    BY <2>2, ClaimKeepsInv
  <2>3. CASE ~Claim(w)
    <3>1. On(w) /\ VaultOK'
      BY <1>7, <2>1, <2>3, DispatchOn, CatchOn, ThrowOn, RunStepOn DEF Work
    <3> QED
      BY <2>1, <3>1, OnKeepsInv
  <2> QED
    BY <2>2, <2>3
<1>8. ASSUME NEW p \in Runner, Abort(p) PROVE Inv'
  BY <1>8, AbortOn, OnKeepsInv
<1> QED
  BY <1>1, <1>2, <1>3, <1>4, <1>5, <1>6, <1>7, <1>8 DEF Next

LEMMA AlwaysInv == Spec => []Inv
  BY InitInv, StepKeepsInv, PTL DEF Spec

(***************************************************************************)
(* Type correctness, for every mode, and any number of calls and workers.  *)
(***************************************************************************)
THEOREM TypeCorrect == Spec => []TypeOK
<1>1. Inv => TypeOK
  BY DEF Inv
<1> QED
  BY <1>1, AlwaysInv, PTL

-----------------------------------------------------------------------------
(* What becomes of a key.                                                  *)

LEMMA ApplyTakesKeys ==
  ASSUME VaultOK, NEW n \in Namespace, NEW m \in Namespace, NEW s, Apply(s, m),
         NEW k \in vault[n].keys, k \notin vault'[n].keys
  PROVE  n = m /\ s \in {"unmount", "delete"}
<1>1. vault' = [vault EXCEPT ![m] = Result(s, vault[m])]
  BY DEF Apply, Result, VaultOK
<1>2. m = n
  BY <1>1 DEF VaultOK
<1>3. k \notin Result(s, vault[n]).keys
  BY <1>1, <1>2 DEF VaultOK
<1>4. CASE s = "namespace"
  BY <1>3, <1>4 DEF Result, VaultOK
<1>5. CASE s = "transit"
  BY <1>3, <1>5 DEF Result, VaultOK
<1>6. CASE s \notin {"namespace", "transit", "unmount", "delete"}
  BY <1>3, <1>6 DEF Result
<1> QED
  BY <1>2, <1>4, <1>5, <1>6

(* A deprovision that is at its last step.                                 *)
LEMMA DeletingOwn ==
  ASSUME Inv, NEW p \in Runner, NEW r \in Row, NEW n \in Namespace \ moved, Tenant(r, n),
         AtStep(p, "delete"), run[p].at = n, NEW k
  PROVE  /\ run[p].force \/ k \notin run[p].met
         /\ run[p].row = r \/ n \in crowded
<1>1. TypeOK /\ Placed(p) /\ Trim(run[p]) /\ Rows /\ Own /\ run[p].pc = "step"
  BY DEF Inv, Runs, AtStep
<1>2. run[p].kind # "provision" /\ run[p].todo = <<"delete">>
  BY <1>1, StepFacts DEF ProvisionStep
<1>3. run[p].force \/ run[p].met = {}
  BY <1>1, <1>2, Unequal DEF Trim
<1>4. n \notin crowded => supplier[run[p].row] = n
  BY <1>1 DEF Own
<1>5. run[p].row \in Row
  BY <1>1, PlacedFacts DEF Busy
<1>6. n \notin crowded => run[p].row = r
  BY <1>1, <1>4, <1>5, RowFacts DEF Rows, Tenant, Present
<1> QED
  BY <1>3, <1>6

LEMMA KeyGuarded ==
  ASSUME Inv, Next, NEW r \in Row, NEW n \in Namespace \ moved, Tenant(r, n),
         NEW k \in vault[n].keys, k \notin vault'[n].keys, n \notin rivalled
  PROVE  \E p \in Runner :
           /\ AtStep(p, "delete") /\ run[p].at = n /\ run'[p] # run[p]
           /\ run[p].force \/ k \notin run[p].met
           /\ run[p].row = r \/ n \in crowded
<1>1. TypeOK /\ VaultOK
  BY VaultFacts DEF Inv
<1>2. vault' # vault
  OBVIOUS
<1>3. PICK p \in Runner : StepSucceeds(p) \/ StepFails(p) \/ SaveFails(p) \/ Undo(p)
  <2>1. ASSUME NEW m \in Namespace, NEW l \in Key, CreateKey(m, l) PROVE FALSE
    BY <1>1, <2>1 DEF CreateKey, VaultOK
  <2>2. ~(\E t \in Row, m \in Namespace : Patch(t, m))
    BY <1>2 DEF Patch
  <2>3. ~(\E c \in Caller, m \in Namespace : Register(c, m))
    BY <1>2 DEF Register
  <2>4. ~(\E c \in Caller, t \in Row, force \in BOOLEAN : BeginDelete(c, t, force))
    BY <1>2 DEF BeginDelete
  <2>5. \A c \in Caller : Api(c) => RunStep(c)
    BY <1>2 DEF Api, CreateJob, Start, Unregister
  <2>6. \A w \in Worker : Work(w) \/ Throw(w) => RunStep(w)
    BY <1>2 DEF Work, Throw, Claim, Dispatch, Catch
  <2>7. ~(\E p \in Runner : Abort(p))
    BY <1>2 DEF Abort
  <2>8. PICK p \in Runner : RunStep(p)
    BY <2>1, <2>2, <2>3, <2>4, <2>5, <2>6, <2>7 DEF Next, Runner
  <2> QED
    BY <1>2, <2>8 DEF RunStep, CloseFailed, CloseSucceeded
<1>4. Placed(p) /\ Trim(run[p]) /\ run[p].pc \in {"step", "undo"} /\ run[p].at \in Namespace
  <2>1. Placed(p) /\ Trim(run[p]) /\ run[p].pc \in {"step", "undo"}
    BY <1>3 DEF Inv, Runs, StepSucceeds, StepFails, SaveFails, Undo, AtStep
  <2> QED
    BY <1>1, <2>1, PlacedFacts DEF Busy
<1>5. CASE StepSucceeds(p)
  <2>1. PICK s \in StepName : /\ AtStep(p, s) /\ Accepts(p, s)
                              /\ Apply(s, run[p].at) \/ UNCHANGED <<vault, quota>>
                              /\ run' = [run EXCEPT ![p] = Past(p, s)]
    BY <1>5 DEF StepSucceeds
  <2>2. Apply(s, run[p].at)
    BY <1>2, <2>1
  <2>3. run[p].at = n /\ s = "delete"
    BY <1>1, <1>4, <2>1, <2>2, ApplyTakesKeys, StepNames
  <2>4. run'[p] # run[p]
    <3>1. Past(p, s).todo = << >>
      <4>1. Tail(run[p].todo) = << >>
        BY <1>1, <1>4, <2>1, <2>3, StepFacts DEF ProvisionStep
      <4> QED
        BY <1>1, <1>4, <2>1, <4>1, PastFacts
    <3>2. run[p].todo # << >>
      BY <2>1 DEF AtStep
    <3>3. run'[p] = Past(p, s)
      BY <1>1, <2>1 DEF TypeOK
    <3> QED
      BY <3>1, <3>2, <3>3
  <2> QED
    BY <2>1, <2>3, <2>4, DeletingOwn
<1>6. CASE StepFails(p)
  <2>1. PICK s \in StepName : /\ AtStep(p, s) /\ To(p, "undo")
                              /\ Apply(s, run[p].at) \/ UNCHANGED <<vault, quota>>
    BY <1>6 DEF StepFails
  <2>2. run[p].at = n /\ s = "delete"
    BY <1>1, <1>2, <1>4, <2>1, ApplyTakesKeys, StepNames
  <2>3. run'[p] # run[p]
    BY <1>1, <2>1, ToFacts DEF AtStep, Turned
  <2> QED
    BY <2>1, <2>2, <2>3, DeletingOwn
<1>7. CASE SaveFails(p)
  <2>1. PICK s \in StepName : /\ AtStep(p, s) /\ Accepts(p, s) /\ Apply(s, run[p].at)
                              /\ run' = [run EXCEPT ![p] = [Past(p, s) EXCEPT !.pc = "undo"]]
    BY <1>7 DEF SaveFails
  <2>2. run[p].at = n /\ s = "delete"
    BY <1>1, <1>4, <2>1, ApplyTakesKeys, StepNames
  <2>3. run'[p] # run[p]
    <3>1. Past(p, s) \in RunState
      BY <1>1, <1>4, <2>1, PastFacts
    <3>2. run'[p] = [Past(p, s) EXCEPT !.pc = "undo"]
      BY <1>1, <2>1 DEF TypeOK
    <3>3. run'[p].pc = "undo"
      BY <3>1, <3>2 DEF RunState
    <3> QED
      BY <2>1, <3>3 DEF AtStep
  <2> QED
    BY <2>1, <2>2, <2>3, DeletingOwn
<1>8. CASE Undo(p)
  <2>1. run[p].pc = "undo" /\ run[p].done # << >>
        /\ Apply(UndoOf[Last(run[p].done)], run[p].at)
    BY <1>2, <1>8 DEF Undo
  <2>2. run[p].kind = "provision"
    BY <1>1, <1>4, <2>1, UndoFacts
  <2>3. run[p].at = n
    BY <1>1, <1>4, <2>1, ApplyTakesKeys
  <2>4. Bound(p, n) /\ Provisions(p, run[p])
    BY <1>4, <2>1, <2>2, <2>3 DEF Bound, Provisions, Placed
  <2> QED
    BY <2>4 DEF Inv, Spared
<1> QED
  BY <1>3, <1>5, <1>6, <1>7, <1>8

(***************************************************************************)
(* The keys of a tenant whose row was not moved are destroyed by a         *)
(* deprovision of its own alone, and only those made behind its back       *)
(* unless it was forced -- except by the second of two provision runs, and *)
(* by a deprovision that shared the namespace with another run.            *)
(***************************************************************************)
THEOREM KeysAreGuarded == Spec => KeysGuarded
<1> DEFINE Guarded(r, n, k) ==
      \/ k \in vault'[n].keys
      \/ n \in rivalled
      \/ \E p \in Runner :
           /\ AtStep(p, "delete") /\ run[p].at = n /\ run'[p] # run[p]
           /\ run[p].force \/ k \notin run[p].met
           /\ run[p].row = r \/ n \in crowded
           Step == \A r \in Row, n \in Namespace \ moved :
                     Tenant(r, n) => \A k \in vault[n].keys : Guarded(r, n, k)
<1>1. Inv /\ [Next]_vars => [Step]_vars
  BY KeyGuarded
<1>2. Spec => [][Step]_vars
  BY <1>1, AlwaysInv, PTL DEF Spec
<1> QED
  BY <1>2 DEF KeysGuarded

-----------------------------------------------------------------------------
(* What registry and Vault say of a namespace that one run at most is at.  *)

Tenanted(n) == \E r \in Row : Tenant(r, n)

Whole(n)   == vault[n].ns /\ vault[n].transit /\ (Sharing(n) = {n} => n \in quota)
Nothing(n) == vault[n] = NoTenant /\ n \notin quota
Settled(n) == IF Tenanted(n) THEN Whole(n) ELSE Nothing(n)

(* While run s is at it, with nothing failing.                             *)
Progress(n, s) ==
  IF s.kind = "provision"
  THEN /\ ~Tenanted(n)
       /\ \/ s.pc \in {"create", "start"} /\ Nothing(n)
          \/ /\ s.pc = "step"
             /\ \/ s.todo = <<"namespace", "transit", "quota">> /\ Nothing(n)
                \/ /\ s.todo = <<"transit", "quota">>
                   /\ vault[n].ns /\ ~vault[n].transit /\ n \notin quota
                \/ /\ s.todo = <<"quota">>
                   /\ vault[n].ns /\ vault[n].transit /\ n \notin quota
                \/ s.todo = << >> /\ Whole(n)
  ELSE IF Tenanted(n)
  THEN \/ s.pc \in {"create", "start", "undo", "close"} /\ Whole(n)
       \/ /\ s.pc = "step" /\ Whole(n)
          /\ s.todo \in {<<"check", "unquota", "delete">>, <<"unquota", "delete">>}
       \/ s.pc = "step" /\ s.todo = <<"delete">> /\ vault[n].ns /\ n \notin quota
       \/ s.pc = "step" /\ s.todo = << >> /\ Nothing(n)
       \/ s.pc = "unregister" /\ Nothing(n)
  ELSE Nothing(n)

Agreed(n) ==
  /\ (\A p \in Runner : run[p].at # n) => Settled(n)
  /\ \A p \in Runner : run[p].at = n => Progress(n, run[p])

(* A deprovision job that is pending is about to be run by the call that   *)
(* created it, so that a worker which claims it is not alone.              *)
Waiting ==
  \A j \in DOMAIN jobs : jobs[j].kind = "deprovision" /\ jobs[j].status = "pending" =>
    \E c \in Caller : run[c].pc = "start" /\ run[c].job = j

ByCalls ==
  \A n \in Namespace \ (moved \cup crowded) : \A w \in Worker :
    run[w].kind = "deprovision" => ~Bound(w, n)

Matched == \A n \in Namespace \ (moved \cup crowded) : Agreed(n)

Unfailing == faults = 0 => Waiting /\ ByCalls /\ Matched

-----------------------------------------------------------------------------
LEMMA ProvisionLefts ==
  /\ Head(<<"namespace", "transit", "quota">>) = "namespace"
  /\ Tail(<<"namespace", "transit", "quota">>) = <<"transit", "quota">>
  /\ Head(<<"transit", "quota">>) = "transit" /\ Tail(<<"transit", "quota">>) = <<"quota">>
  /\ Head(<<"quota">>) = "quota" /\ Tail(<<"quota">>) = << >>
  OBVIOUS

(* n is as it was; but keys may be made in it.                             *)
Kept(n) ==
  /\ vault'[n] = vault[n] \/ (vault[n].transit /\ vault'[n].ns /\ vault'[n].transit)
  /\ n \in quota' => n \in quota
  /\ Sharing(n) = {n} /\ n \in quota => n \in quota'

LEMMA KeptIs ==
  ASSUME VaultOK, NEW n \in Namespace, Kept(n)
  PROVE  /\ Whole(n) => Whole(n)'
         /\ Nothing(n) => Nothing(n)'
         /\ vault[n].ns => vault'[n].ns
         /\ vault[n].transit => vault'[n].transit
         /\ ~vault[n].transit => ~vault'[n].transit
         /\ n \notin quota => n \notin quota'
<1>1. ~NoTenant.transit
  BY DEF NoTenant
<1>2. Sharing(n)' = Sharing(n)
  BY DEF Sharing
<1> QED
  BY <1>1, <1>2 DEF Kept, Whole, Nothing, VaultOK, TenantOK

(* Nobody comes to n or leaves it, and it is as it was.                    *)
LEMMA StaysAgreed ==
  ASSUME VaultOK, NEW n \in Namespace, Agreed(n), Kept(n), Tenanted(n)' = Tenanted(n),
         \A q \in Runner : run'[q] = run[q] \/ (run[q].at # n /\ run'[q].at # n)
  PROVE  Agreed(n)'
<1>1. /\ Whole(n) => Whole(n)'
      /\ Nothing(n) => Nothing(n)'
      /\ vault[n].ns => vault'[n].ns
      /\ vault[n].transit => vault'[n].transit
      /\ ~vault[n].transit => ~vault'[n].transit
      /\ n \notin quota => n \notin quota'
  BY KeptIs
<1>2. Settled(n) => Settled(n)'
  BY <1>1 DEF Settled
<1>3. ASSUME NEW q \in Runner, run'[q].at = n PROVE Progress(n, run[q])'
  <2>1. run'[q] = run[q] /\ Progress(n, run[q])
    BY <1>3 DEF Agreed
  <2>2. CASE run[q].kind = "provision"
    BY <1>1, <2>1, <2>2 DEF Progress
  <2>3. CASE run[q].kind # "provision" /\ Tenanted(n)
    BY <1>1, <2>1, <2>3 DEF Progress
  <2>4. CASE run[q].kind # "provision" /\ ~Tenanted(n)
    BY <1>1, <2>1, <2>4 DEF Progress
  <2> QED
    BY <2>2, <2>3, <2>4
<1> QED
  BY <1>2, <1>3 DEF Agreed

(* A run that is at a namespace of its own is the only one there.          *)
LEMMA OnlyRun ==
  ASSUME Inv, NEW p \in Runner, NEW n \in Namespace \ (moved \cup crowded), Bound(p, n)
  PROVE  \A q \in Runner \ {p} : run[q].at # n /\ ~Bound(q, n)
  BY DEF Inv, Alone, Bound

LEMMA AgreedBy ==
  ASSUME Inv, NEW p \in Runner, NEW n \in Namespace \ (moved \cup crowded),
         Bound(p, n), Others(p),
         run'[p].at = n => Progress(n, run[p])',
         run'[p].at # n => Settled(n)'
  PROVE  Agreed(n)'
<1>1. \A q \in Runner \ {p} : run'[q].at # n
  BY OnlyRun DEF Others
<1> QED
  BY <1>1 DEF Agreed

(* The steps of a run that are no faults, and what they do elsewhere.      *)
LEMMA ApplyElsewhere ==
  ASSUME VaultOK, NEW m \in Namespace, NEW s, Apply(s, m), NEW n \in Namespace, n # m
  PROVE  Kept(n)
<1>1. vault'[n] = vault[n]
  BY DEF Apply, VaultOK
<1>2. quota' = CASE s = "quota"   -> (quota \ Sharing(m)) \cup {m}
                 [] s = "unquota" -> quota \ Sharing(m)
                 [] OTHER         -> quota
  BY DEF Apply
<1>3. Sharing(n) = {n} => n \notin Sharing(m)
  BY DEF Sharing
<1>4. CASE s = "quota"
  BY <1>1, <1>2, <1>3, <1>4 DEF Kept
<1>5. CASE s = "unquota"
  BY <1>1, <1>2, <1>3, <1>5 DEF Kept
<1>6. CASE s \notin {"quota", "unquota"}
  BY <1>1, <1>2, <1>6 DEF Kept
<1> QED
  BY <1>4, <1>5, <1>6

LEMMA SameVault ==
  ASSUME UNCHANGED <<vault, quota>>, NEW n \in Namespace
  PROVE  Kept(n)
  BY DEF Kept

LEMMA TenantedSame ==
  ASSUME Inv, NEW p \in Runner, On(p), NEW n \in Namespace \ (moved \cup crowded),
         run[p].at # n
  PROVE  Tenanted(n)' = Tenanted(n)
<1>1. TypeOK /\ Placed(p) /\ Busy(p) /\ NoNamespace # n
  BY RowFacts DEF Inv, Runs, On
<1>2. run[p].row \in Row
  BY <1>1, PlacedFacts
<1>3. /\ \A r \in Row : handed'[r] = handed[r] \/ (r = run[p].row /\ handed'[r] = run[p].at
                                                   /\ run[p].pc = "step")
      /\ \A r \in Row : supplier'[r] = supplier[r] \/ (r = run[p].row /\
                                        supplier'[r] = NoNamespace /\ run[p].pc = "unregister")
  BY <1>1, <1>2 DEF On, Saves, TypeOK
<1>4. run[p].pc \in {"step", "unregister"} => supplier[run[p].row] # n
  BY <1>1 DEF Placed, Faithful
<1>5. \A r \in Row : Tenant(r, n)' <=> Tenant(r, n)
  BY <1>1, <1>3, <1>4 DEF Tenant
<1> QED
  BY <1>5 DEF Tenanted

-----------------------------------------------------------------------------
(* The steps of the run that is at n.                                      *)

(* What they start from.                                                   *)
LEMMA AtFacts ==
  ASSUME Inv, ByCalls, Matched, NEW p \in Runner,
         NEW n \in Namespace \ (moved \cup crowded), run[p].at = n
  PROVE  /\ TypeOK /\ VaultOK /\ Placed(p) /\ Trim(run[p]) /\ Busy(p)
         /\ run[p].row \in Row /\ supplier[run[p].row] = n /\ n # NoNamespace
         /\ Bound(p, n) /\ Progress(n, run[p])
         /\ run[p].kind # "provision" => p \in Caller /\ p \notin Worker
         /\ run[p].kind \in {"provision", "deprovision"}
<1>1. TypeOK /\ VaultOK /\ Placed(p) /\ Trim(run[p]) /\ n # NoNamespace
      /\ run[p].kind \in {"provision", "deprovision"}
  BY VaultFacts, RowFacts, RunFacts DEF Inv, Runs
<1>2. Busy(p)
  BY <1>1 DEF Placed, Busy
<1>3. run[p].row \in Row /\ supplier[run[p].row] = n
  BY <1>1, <1>2, PlacedFacts DEF Inv, Own
<1>4. Bound(p, n) /\ Progress(n, run[p])
  BY DEF Bound, Matched, Agreed
<1>5. run[p].kind # "provision" => p \in Caller /\ p \notin Worker
  BY <1>1, <1>4 DEF ByCalls, Runner
<1> QED
  BY <1>1, <1>2, <1>3, <1>4, <1>5

LEMMA SameTenants ==
  ASSUME NEW n, UNCHANGED <<supplier, handed>>
  PROVE  Tenanted(n)' = Tenanted(n)
  BY DEF Tenanted, Tenant

(* Nothing of n changes, but for the run that is at it.                    *)
LEMMA SameAtN ==
  ASSUME NEW n, UNCHANGED <<vault, quota>>
  PROVE  /\ Whole(n)' = Whole(n) /\ Nothing(n)' = Nothing(n)
         /\ vault'[n] = vault[n] /\ (n \in quota' <=> n \in quota)
  BY DEF Whole, Nothing, Sharing

LEMMA CreateJobAgrees ==
  ASSUME Inv, ByCalls, Matched, NEW c \in Caller, CreateJob(c),
         NEW n \in Namespace \ (moved \cup crowded), run[c].at = n
  PROVE  Agreed(n)'
<1>1. /\ c \in Runner /\ TypeOK /\ Bound(c, n) /\ Progress(n, run[c]) /\ n # NoNamespace
      /\ run[c].kind \in {"provision", "deprovision"}
  BY AtFacts DEF Runner
<1>2. On(c) /\ run[c].pc = "create" /\ UNCHANGED <<supplier, handed, vault, quota>>
  BY CreateJobOn DEF CreateJob
<1>3. /\ Tenanted(n)' = Tenanted(n) /\ Whole(n)' = Whole(n) /\ Nothing(n)' = Nothing(n)
      /\ vault'[n] = vault[n] /\ (n \in quota' <=> n \in quota)
  BY <1>2, SameTenants, SameAtN
<1>4. Nothing(n) \/ (Tenanted(n) /\ Whole(n))
  BY <1>1, <1>2 DEF Progress
<1>5. run[c].kind = "provision" \/ ~Tenanted(n) => ~Tenanted(n) /\ Nothing(n)
  BY <1>1, <1>2 DEF Progress
<1>6. run[c].kind # "provision" /\ Tenanted(n) => Whole(n)
  BY <1>1, <1>2 DEF Progress
<1>7. CASE run'[c] = Idle
  <2>1. run[c].kind = "provision"
    <3>1. SUFFICES ASSUME run[c].kind # "provision" PROVE FALSE
      OBVIOUS
    <3>2. run'[c] = [run[c] EXCEPT !.pc = "start", !.job = Len(jobs) + 1]
      BY <1>1, <3>1 DEF CreateJob, TypeOK
    <3>3. run'[c].pc = "start"
      BY <1>1, <3>2, RunFacts DEF RunState
    <3> QED
      BY <1>7, <3>3, IdleFacts
  <2>2. Settled(n)'
    BY <1>3, <1>5, <2>1 DEF Settled
  <2> QED
    BY <1>1, <1>2, <1>7, <2>2, IdleFacts, AgreedBy DEF On
<1>8. CASE run'[c] # Idle
  <2>1. run'[c].pc = "start" /\ run'[c].kind = run[c].kind /\ run'[c].at = n
    BY <1>2, <1>8 DEF On, Goes
  <2>2. Progress(n, run[c])'
    BY <1>3, <1>5, <1>6, <2>1 DEF Progress
  <2> QED
    BY <1>1, <1>2, <2>1, <2>2, AgreedBy DEF On
<1> QED
  BY <1>7, <1>8

LEMMA StartAgrees ==
  ASSUME Inv, ByCalls, Matched, NEW c \in Caller, Start(c),
         NEW n \in Namespace \ (moved \cup crowded), run[c].at = n
  PROVE  Agreed(n)'
<1>1. /\ c \in Runner /\ TypeOK /\ Bound(c, n) /\ Progress(n, run[c])
      /\ Trim(run[c]) /\ run[c].kind \in {"provision", "deprovision"}
  BY AtFacts DEF Runner
<1>2. On(c) /\ run[c].pc = "start" /\ UNCHANGED <<supplier, vault, quota>>
  BY StartOn DEF Start
<1>3. handed' = handed
  BY DEF Start, Write
<1>4. /\ Tenanted(n)' = Tenanted(n) /\ Whole(n)' = Whole(n) /\ Nothing(n)' = Nothing(n)
      /\ vault'[n] = vault[n] /\ (n \in quota' <=> n \in quota)
  BY <1>2, <1>3, SameTenants, SameAtN
<1>5. run'[c].pc = "step" /\ run'[c].kind = run[c].kind /\ run'[c].at = n
      /\ run'[c].todo = StepsOf(run[c].kind)
  <2>1. run'[c] = [run[c] EXCEPT !.pc = "step", !.todo = StepsOf(run[c].kind)]
    BY <1>1 DEF Start, TypeOK
  <2> QED
    BY <1>1, <2>1, RunFacts DEF RunState
<1>6. CASE run[c].kind = "provision"
  <2>1. ~Tenanted(n) /\ Nothing(n)
    BY <1>1, <1>2, <1>6 DEF Progress
  <2>2. run'[c].todo = <<"namespace", "transit", "quota">>
    BY <1>5, <1>6 DEF StepsOf, ProvisionSteps
  <2>3. Progress(n, run[c])'
    BY <1>4, <1>5, <1>6, <2>1, <2>2 DEF Progress
  <2> QED
    BY <1>1, <1>2, <1>5, <2>3, AgreedBy DEF On
<1>7. CASE run[c].kind # "provision"
  <2>1. run'[c].todo = <<"check", "unquota", "delete">>
    BY <1>5, <1>7 DEF StepsOf, DeprovisionSteps
  <2>2. IF Tenanted(n) THEN Whole(n) ELSE Nothing(n)
    BY <1>1, <1>2, <1>7 DEF Progress
  <2>3. Progress(n, run[c])'
    BY <1>4, <1>5, <1>7, <2>1, <2>2 DEF Progress
  <2> QED
    BY <1>1, <1>2, <1>5, <2>3, AgreedBy DEF On
<1> QED
  BY <1>6, <1>7

LEMMA UnregisterAgrees ==
  ASSUME Inv, ByCalls, Matched, NEW c \in Caller, Unregister(c),
         NEW n \in Namespace \ (moved \cup crowded), run[c].at = n
  PROVE  Agreed(n)'
<1>1. /\ c \in Runner /\ TypeOK /\ Bound(c, n) /\ Progress(n, run[c]) /\ n # NoNamespace
      /\ run[c].row \in Row /\ supplier[run[c].row] = n
  BY AtFacts DEF Runner
<1>2. On(c) /\ run[c].pc = "unregister" /\ UNCHANGED <<handed, vault, quota>>
      /\ supplier' = [supplier EXCEPT ![run[c].row] = NoNamespace]
  BY UnregisterOn DEF Unregister
<1>3. run'[c] = Idle
  BY <1>1, QuitFacts DEF Unregister
<1>4. Nothing(n)
  BY <1>1, <1>2 DEF Progress
<1>5. \A r \in Row : supplier'[r] # n
  BY <1>1, <1>2 DEF Inv, Rows, Present, TypeOK
<1>6. Settled(n)'
  BY <1>2, <1>4, <1>5 DEF Settled, Tenanted, Tenant, Nothing
<1> QED
  BY <1>1, <1>2, <1>3, <1>6, IdleFacts, AgreedBy DEF On

LEMMA UndoAgrees ==
  ASSUME Inv, ByCalls, Matched, NEW p \in Runner, Undo(p),
         NEW n \in Namespace \ (moved \cup crowded), run[p].at = n
  PROVE  Agreed(n)'
<1>1. /\ TypeOK /\ Trim(run[p]) /\ Bound(p, n) /\ Progress(n, run[p]) /\ run[p].pc = "undo"
  BY AtFacts DEF Undo
<1>2. run[p].kind # "provision" /\ run[p].done = << >>
  BY <1>1 DEF Progress, Trim
<1>3. To(p, "close") /\ UNCHANGED <<supplier, handed, vault, quota>>
  BY <1>2 DEF Undo
<1>4. Turned(p, "close") /\ Others(p)
  BY <1>1, <1>3, ToFacts
<1>5. /\ Tenanted(n)' = Tenanted(n) /\ Whole(n)' = Whole(n) /\ Nothing(n)' = Nothing(n)
  BY <1>3, SameTenants, SameAtN
<1>6. Progress(n, run[p])'
  BY <1>1, <1>2, <1>4, <1>5 DEF Progress, Turned
<1> QED
  BY <1>1, <1>4, <1>6, AgreedBy DEF Turned

LEMMA CloseFailedAgrees ==
  ASSUME Inv, ByCalls, Matched, NEW p \in Runner, CloseFailed(p),
         NEW n \in Namespace \ (moved \cup crowded), run[p].at = n
  PROVE  Agreed(n)'
<1>1. /\ TypeOK /\ Bound(p, n) /\ Progress(n, run[p]) /\ run[p].pc = "close" /\ n # NoNamespace
  BY AtFacts DEF CloseFailed
<1>2. run[p].kind # "provision"
  BY <1>1 DEF Progress
<1>3. Quit(p) /\ UNCHANGED <<supplier, vault, quota>> /\ handed' = handed
  BY <1>2 DEF CloseFailed, Write
<1>4. run'[p] = Idle /\ Others(p)
  BY <1>1, <1>3, QuitFacts
<1>5. /\ Tenanted(n)' = Tenanted(n) /\ Whole(n)' = Whole(n) /\ Nothing(n)' = Nothing(n)
  BY <1>3, SameTenants, SameAtN
<1>6. IF Tenanted(n) THEN Whole(n) ELSE Nothing(n)
  BY <1>1, <1>2 DEF Progress
<1>7. Settled(n)'
  BY <1>5, <1>6 DEF Settled
<1> QED
  BY <1>1, <1>4, <1>7, IdleFacts, AgreedBy

LEMMA CloseSucceededAgrees ==
  ASSUME Inv, ByCalls, Matched, NEW p \in Runner, CloseSucceeded(p),
         NEW n \in Namespace \ (moved \cup crowded), run[p].at = n
  PROVE  Agreed(n)'
<1>1. /\ TypeOK /\ Bound(p, n) /\ Progress(n, run[p]) /\ n # NoNamespace
      /\ run[p].row \in Row /\ supplier[run[p].row] = n
      /\ run[p].kind # "provision" => p \in Caller
      /\ run[p].kind \in {"provision", "deprovision"}
      /\ run[p].pc = "step" /\ run[p].todo = << >>
      /\ UNCHANGED <<supplier, vault, quota>>
  BY AtFacts DEF CloseSucceeded
<1>2. Whole(n)' = Whole(n) /\ Nothing(n)' = Nothing(n)
  BY <1>1, SameAtN
<1>3. CASE run[p].kind = "provision"
  <2>1. Whole(n)
    BY <1>1, <1>3, Unequal DEF Progress
  <2>2. handed' = [handed EXCEPT ![run[p].row] = n] /\ Quit(p)
    BY <1>3 DEF CloseSucceeded, Write
  <2>3. Tenanted(n)'
    BY <1>1, <2>2 DEF Tenanted, Tenant, TypeOK
  <2>4. Settled(n)'
    BY <1>2, <2>1, <2>3 DEF Settled
  <2>5. run'[p] = Idle /\ Others(p)
    BY <1>1, <2>2, QuitFacts
  <2> QED
    BY <1>1, <2>4, <2>5, IdleFacts, AgreedBy
<1>4. CASE run[p].kind # "provision"
  <2>1. Nothing(n)
    BY <1>1, <1>4, Unequal DEF Progress
  <2>2. To(p, "unregister") /\ handed' = handed
    BY <1>1, <1>4 DEF CloseSucceeded, Write
  <2>3. Turned(p, "unregister") /\ Others(p)
    BY <1>1, <2>2, ToFacts
  <2>4. Progress(n, run[p])'
    BY <1>2, <1>4, <2>1, <2>3 DEF Progress, Turned
  <2> QED
    BY <1>1, <2>3, <2>4, AgreedBy DEF Turned
<1> QED
  BY <1>3, <1>4

LEMMA DeprovisionAt ==
  ASSUME TypeOK, NEW p \in Runner, Trim(run[p]), run[p].kind # "provision",
         NEW s, AtStep(p, s)
  PROVE  /\ s \in {"check", "unquota", "delete"}
         /\ s = "check" => /\ run[p].todo = <<"check", "unquota", "delete">>
                           /\ Tail(run[p].todo) = <<"unquota", "delete">>
         /\ s = "unquota" => /\ run[p].todo = <<"unquota", "delete">>
                             /\ Tail(run[p].todo) = <<"delete">>
         /\ s = "delete" => run[p].todo = <<"delete">> /\ Tail(run[p].todo) = << >>
<1>1. \/ /\ run[p].todo = <<"check", "unquota", "delete">> /\ s = "check"
         /\ Tail(run[p].todo) = <<"unquota", "delete">>
      \/ /\ run[p].todo = <<"unquota", "delete">> /\ s = "unquota"
         /\ Tail(run[p].todo) = <<"delete">>
      \/ /\ run[p].todo = <<"delete">> /\ s = "delete"
         /\ Tail(run[p].todo) = << >>
  BY StepFacts
<1>2. CASE s = "check"
  BY <1>1, <1>2
<1>3. CASE s = "unquota"
  BY <1>1, <1>3
<1>4. CASE s = "delete"
  BY <1>1, <1>4
<1> QED
  BY <1>1, <1>2, <1>3, <1>4

LEMMA StepSucceedsAgrees ==
  ASSUME Inv, ByCalls, Matched, NEW p \in Runner, StepSucceeds(p), UNCHANGED faults,
         NEW n \in Namespace \ (moved \cup crowded), run[p].at = n
  PROVE  Agreed(n)'
<1>1. /\ TypeOK /\ VaultOK /\ Trim(run[p]) /\ Bound(p, n) /\ Progress(n, run[p])
      /\ n # NoNamespace
  BY AtFacts
<1>2. PICK s \in StepName :
        /\ AtStep(p, s)
        /\ Accepts(p, s)
        /\ \/ Apply(s, run[p].at) /\ UNCHANGED faults
           \/ s = "unquota" /\ Fault /\ UNCHANGED <<vault, quota>>
        /\ Write(p, "running")
        /\ run' = [run EXCEPT ![p] = Past(p, s)]
        /\ UNCHANGED <<supplier, ids, history>>
  BY DEF StepSucceeds
<1>3. Apply(s, n)
  <2>1. ~Fault
    BY <1>1 DEF Fault, TypeOK
  <2> QED
    BY <1>2, <2>1
<1>4. /\ run'[p].pc = "step" /\ run'[p].kind = run[p].kind /\ run'[p].at = n
      /\ run'[p].todo = Tail(run[p].todo) /\ Others(p)
  BY <1>1, <1>2, PastFacts, RunMoves
<1>5. handed' = handed /\ Tenanted(n)' = Tenanted(n)
  BY <1>2, SameTenants DEF Write
<1>6. /\ vault'[n] = Result(s, vault[n])
      /\ s = "quota" => n \in quota'
      /\ s = "unquota" => n \notin quota'
      /\ s \notin {"quota", "unquota"} => quota' = quota
  <2>1. s = "transit" => vault[n].ns
    BY <1>2, AcceptedTransit
  <2> QED
    BY <1>1, <1>3, <2>1, ApplyFacts, FaultFacts
<1>7. s = Head(run[p].todo) /\ run[p].todo # << >> /\ run[p].pc = "step"
  BY <1>2 DEF AtStep
<1>8. Sharing(n)' = Sharing(n)
  BY DEF Sharing
<1>9. CASE run[p].kind = "provision"
  <2>1. ASSUME run[p].todo = <<"namespace", "transit", "quota">>, Nothing(n)
        PROVE  Progress(n, run[p])'
    <3>1. s = "namespace" /\ run'[p].todo = <<"transit", "quota">>
      BY <1>4, <1>7, <2>1, ProvisionLefts
    <3>2. vault'[n].ns /\ ~vault'[n].transit /\ n \notin quota'
      BY <1>1, <1>6, <2>1, <3>1 DEF Result, Nothing, NoTenant
    <3> QED
      BY <1>1, <1>4, <1>5, <1>9, <3>1, <3>2 DEF Progress
  <2>2. ASSUME run[p].todo = <<"transit", "quota">>,
               vault[n].ns, ~vault[n].transit, n \notin quota
        PROVE  Progress(n, run[p])'
    <3>1. s = "transit" /\ run'[p].todo = <<"quota">>
      BY <1>4, <1>7, <2>2, ProvisionLefts
    <3>2. vault'[n].ns /\ vault'[n].transit /\ n \notin quota'
      BY <1>1, <1>6, <2>2, <3>1 DEF Result, VaultOK, TenantOK
    <3> QED
      BY <1>1, <1>4, <1>5, <1>9, <3>1, <3>2 DEF Progress
  <2>3. ASSUME run[p].todo = <<"quota">>, vault[n].ns, vault[n].transit, n \notin quota
        PROVE  Progress(n, run[p])'
    <3>1. s = "quota" /\ run'[p].todo = << >>
      BY <1>4, <1>7, <2>3, ProvisionLefts
    <3>2. vault'[n].ns /\ vault'[n].transit /\ n \in quota'
      BY <1>6, <2>3, <3>1 DEF Result
    <3> QED
      BY <1>1, <1>4, <1>5, <1>9, <3>1, <3>2 DEF Progress, Whole
  <2>4. Progress(n, run[p])'
    BY <1>1, <1>7, <1>9, <2>1, <2>2, <2>3 DEF Progress
  <2> QED
    BY <1>1, <1>4, <2>4, AgreedBy
<1>10. CASE run[p].kind # "provision"
  <2>1. ASSUME s = "check" PROVE Progress(n, run[p])'
    <3>1. run[p].todo = <<"check", "unquota", "delete">>
          /\ run'[p].todo = <<"unquota", "delete">>
      BY <1>1, <1>2, <1>4, <1>10, <2>1, DeprovisionAt
    <3>2. IF Tenanted(n) THEN Whole(n) ELSE Nothing(n)
      <4>1. run[p].todo # <<"delete">> /\ run[p].todo # << >>
        BY <3>1, Unequal
      <4> QED
        BY <1>1, <1>7, <1>10, <4>1 DEF Progress
    <3>3. vault'[n] = vault[n] /\ quota' = quota
      BY <1>6, <2>1 DEF Result
    <3> QED
      BY <1>4, <1>5, <1>8, <1>10, <3>1, <3>2, <3>3 DEF Progress, Whole, Nothing
  <2>2. ASSUME s = "unquota" PROVE Progress(n, run[p])'
    <3>1. run[p].todo = <<"unquota", "delete">> /\ run'[p].todo = <<"delete">>
      BY <1>1, <1>2, <1>4, <1>10, <2>2, DeprovisionAt
    <3>2. IF Tenanted(n) THEN Whole(n) ELSE Nothing(n)
      BY <1>1, <1>7, <1>10, <3>1, Unequal DEF Progress
    <3>3. vault'[n] = vault[n] /\ n \notin quota'
      BY <1>6, <2>2 DEF Result
    <3> QED
      BY <1>4, <1>5, <1>10, <3>1, <3>2, <3>3 DEF Progress, Whole, Nothing
  <2>3. ASSUME s = "delete" PROVE Progress(n, run[p])'
    <3>1. run[p].todo = <<"delete">> /\ run'[p].todo = << >>
      BY <1>1, <1>2, <1>4, <1>10, <2>3, DeprovisionAt
    <3>2. n \notin quota
      <4>1. run[p].todo \notin {<<"check", "unquota", "delete">>, <<"unquota", "delete">>}
        BY <3>1, Unequal
      <4> QED
        BY <1>1, <1>7, <1>10, <4>1 DEF Progress, Nothing
    <3>3. vault'[n] = NoTenant /\ n \notin quota'
      BY <1>6, <2>3, <3>2 DEF Result
    <3> QED
      BY <1>4, <1>5, <1>10, <3>1, <3>3 DEF Progress, Nothing
  <2>4. Progress(n, run[p])'
    BY <1>1, <1>2, <1>10, <2>1, <2>2, <2>3, DeprovisionAt
  <2> QED
    BY <1>1, <1>4, <2>4, AgreedBy
<1> QED
  BY <1>9, <1>10

LEMMA StepFailsAgrees ==
  ASSUME Inv, ByCalls, Matched, NEW p \in Runner, StepFails(p), UNCHANGED faults,
         NEW n \in Namespace \ (moved \cup crowded), run[p].at = n
  PROVE  Agreed(n)'
<1>1. /\ TypeOK /\ VaultOK /\ Trim(run[p]) /\ Bound(p, n) /\ Progress(n, run[p])
      /\ n # NoNamespace
  BY AtFacts
<1>2. PICK s \in StepName :
        /\ AtStep(p, s) /\ Refuses(p, s) /\ To(p, "undo")
        /\ UNCHANGED <<vault, quota, supplier, handed>>
  <2>1. ~Fault
    BY <1>1 DEF Fault, TypeOK
  <2> QED
    BY <2>1 DEF StepFails
<1>3. Turned(p, "undo") /\ Others(p)
  BY <1>1, <1>2, ToFacts
<1>4. /\ Tenanted(n)' = Tenanted(n) /\ Whole(n)' = Whole(n) /\ Nothing(n)' = Nothing(n)
  BY <1>2, SameTenants, SameAtN
<1>5. s = Head(run[p].todo) /\ run[p].todo # << >> /\ run[p].pc = "step"
  BY <1>2 DEF AtStep
<1>6. s # "check" => Refusable(s, n)
  BY <1>2 DEF Refuses
<1>7. run[p].kind # "provision"
  <2> SUFFICES ASSUME run[p].kind = "provision" PROVE FALSE
    OBVIOUS
  <2>1. CASE run[p].todo = <<"namespace", "transit", "quota">> /\ Nothing(n)
    <3>1. s = "namespace" /\ ~vault[n].ns
      BY <1>5, <2>1, ProvisionLefts DEF Nothing, NoTenant
    <3> QED
      BY <1>6, <3>1 DEF Refusable
  <2>2. CASE /\ run[p].todo = <<"transit", "quota">>
             /\ vault[n].ns /\ ~vault[n].transit /\ n \notin quota
    <3>1. s = "transit"
      BY <1>5, <2>2, ProvisionLefts
    <3> QED
      BY <1>6, <2>2, <3>1 DEF Refusable
  <2>3. CASE /\ run[p].todo = <<"quota">>
             /\ vault[n].ns /\ vault[n].transit /\ n \notin quota
    <3>1. s = "quota"
      BY <1>5, <2>3, ProvisionLefts
    <3> QED
      BY <1>6, <2>3, <3>1 DEF Refusable
  <2> QED
    BY <1>1, <1>5, <2>1, <2>2, <2>3 DEF Progress
<1>8. Tenanted(n) => Whole(n)
  <2> SUFFICES ASSUME Tenanted(n) PROVE Whole(n)
    OBVIOUS
  <2>1. CASE s = "delete"
    <3>1. run[p].todo = <<"delete">>
      BY <1>1, <1>2, <1>7, <2>1, DeprovisionAt
    <3>2. vault[n].ns
      BY <1>1, <1>5, <1>7, <3>1, Unequal DEF Progress, Whole
    <3> QED
      BY <1>6, <2>1, <3>2 DEF Refusable
  <2>2. CASE s # "delete"
    <3>1. run[p].todo # <<"delete">> /\ run[p].todo # << >>
      BY <1>5, <2>2, Lefts
    <3> QED
      BY <1>1, <1>5, <1>7, <3>1 DEF Progress
  <2> QED
    BY <2>1, <2>2
<1>9. ~Tenanted(n) => Nothing(n)
  BY <1>1, <1>7 DEF Progress
<1>10. Progress(n, run[p])'
  BY <1>3, <1>4, <1>7, <1>8, <1>9 DEF Progress, Turned
<1> QED
  BY <1>1, <1>3, <1>10, AgreedBy DEF Turned

(* A worker comes to the namespace that the row of its job names.          *)
LEMMA DispatchAgrees ==
  ASSUME Inv, ByCalls, Matched, NEW w \in Worker, Dispatch(w),
         NEW n \in Namespace \ (moved \cup crowded), run'[w].at = n
  PROVE  Agreed(n)'
<1>1. /\ w \in Runner /\ TypeOK /\ Placed(w) /\ run[w].pc = "dispatch"
      /\ run[w].at = NoNamespace /\ n # NoNamespace
      /\ UNCHANGED <<supplier, handed, vault, quota>>
      /\ run[w].row \in Row
  BY RowFacts, PlacedFacts DEF Inv, Runs, Dispatch, Runner, Placed, Busy
<1>2. /\ run'[w] = [run[w] EXCEPT !.pc = "step", !.at = supplier[run[w].row],
                                  !.todo = StepsOf(run[w].kind)]
      /\ Others(w)
  <2>1. ~Quit(w)
    BY <1>1, QuitFacts, IdleFacts
  <2>2. ~To(w, "catch")
    BY <1>1, ToFacts DEF Turned
  <2> QED
    BY <1>1, <2>1, <2>2 DEF Dispatch, TypeOK, Others
<1>3. /\ run'[w].pc = "step" /\ run'[w].kind = run[w].kind
      /\ run'[w].todo = StepsOf(run[w].kind) /\ supplier[run[w].row] = n
  BY <1>1, <1>2, RunFacts DEF RunState
<1>4. Bound(w, n)
  BY <1>1, <1>3 DEF Bound
<1>5. run[w].kind = "provision"
  BY <1>1, <1>4, RunFacts DEF ByCalls
<1>6. ~Tenanted(n)
  <2>1. Provisions(w, run[w])
    BY <1>1, <1>5 DEF Provisions
  <2>2. n \notin rivalled
    BY DEF Inv, Alone
  <2> QED
    BY <1>1, <1>4, <2>1, <2>2 DEF Inv, Spared, Tenanted
<1>7. Nothing(n)
  <2>1. \A q \in Runner : run[q].at # n
    BY <1>1, <1>4, OnlyRun
  <2> QED
    BY <1>6, <2>1 DEF Matched, Agreed, Settled
<1>8. ~Tenanted(n)' /\ Nothing(n)'
  BY <1>1, <1>6, <1>7, SameTenants, SameAtN
<1>9. run'[w].todo = <<"namespace", "transit", "quota">>
  BY <1>3, <1>5 DEF StepsOf, ProvisionSteps
<1>10. Progress(n, run[w])'
  BY <1>3, <1>5, <1>8, <1>9 DEF Progress
<1> QED
  BY <1>1, <1>2, <1>4, <1>10, AgreedBy

-----------------------------------------------------------------------------
(* Every step keeps them.                                                  *)

LEMMA OnMatched ==
  ASSUME Inv, ByCalls, Matched, NEW p \in Runner, On(p),
         \A n \in Namespace : run[p].at # n => Kept(n),
         \A n \in Namespace \ (moved \cup crowded) :
           run[p].at = n \/ run'[p].at = n => Agreed(n)'
  PROVE  Matched'
<1>1. moved' = moved /\ crowded' = crowded /\ Others(p)
  BY DEF On, history
<1> SUFFICES ASSUME NEW n \in Namespace \ (moved \cup crowded),
                    run[p].at # n, run'[p].at # n
             PROVE  Agreed(n)'
  BY <1>1 DEF Matched
<1>2. Tenanted(n)' = Tenanted(n)
  BY TenantedSame
<1>3. Kept(n) /\ Agreed(n) /\ VaultOK
  BY VaultFacts DEF Matched, Inv
<1>4. \A q \in Runner : run'[q] = run[q] \/ (run[q].at # n /\ run'[q].at # n)
  BY <1>1 DEF Others
<1> QED
  BY <1>2, <1>3, <1>4, StaysAgreed

LEMMA OnByCalls ==
  ASSUME Inv, ByCalls, NEW p \in Runner, On(p)
  PROVE  ByCalls'
<1> SUFFICES ASSUME NEW n \in Namespace \ (moved \cup crowded), NEW w \in Worker,
                    run'[w].kind = "deprovision", Bound(w, n)'
             PROVE  FALSE
  BY DEF ByCalls, On, history
<1>1. w \in Runner
  BY DEF Runner
<1>2. Bound(w, n)
  BY <1>1, OnBound
<1>3. run[w].kind = "deprovision"
  BY <1>1, IdleFacts DEF On, Goes, Others
<1> QED
  BY <1>2, <1>3 DEF ByCalls

LEMMA OnWaiting ==
  ASSUME Inv, Waiting, NEW p \in Runner, On(p),
         run[p].pc = "create" /\ run[p].kind = "deprovision" => run'[p].pc = "start",
         run[p].pc = "start" => Written(run[p].job, "running")
  PROVE  Waiting'
<1> SUFFICES ASSUME NEW j \in DOMAIN jobs', jobs'[j].kind = "deprovision",
                    jobs'[j].status = "pending"
             PROVE  \E c \in Caller : run'[c].pc = "start" /\ run'[c].job = j
  BY DEF Waiting
<1>1. CASE j \in DOMAIN jobs
  <2>1. jobs[j].kind = "deprovision" /\ jobs[j].status = "pending"
    BY <1>1, OnJobs
  <2>2. PICK c \in Caller : run[c].pc = "start" /\ run[c].job = j
    BY <1>1, <2>1 DEF Waiting
  <2>3. c # p
    BY <1>1, <2>2 DEF Written
  <2>4. run'[c] = run[c]
    BY <2>3 DEF On, Others, Runner
  <2> QED
    BY <2>2, <2>4
<1>2. CASE j \notin DOMAIN jobs
  <2>1. /\ run[p].pc = "create" /\ run[p].kind = "deprovision"
        /\ \A i \in DOMAIN jobs' \ DOMAIN jobs : i = j
    BY <1>2, OnJobs
  <2>2. p \in Caller
    BY <2>1 DEF Inv, Runs, Placed
  <2>3. run'[p].pc = "start" /\ run'[p].job = Len(jobs) + 1
    BY <2>1, IdleFacts DEF On, Goes
  <2>4. j = Len(jobs) + 1
    BY <2>1, <2>3, OnJobs
  <2> QED
    BY <2>2, <2>3, <2>4
<1> QED
  BY <1>1, <1>2

LEMMA OnUnfailing ==
  ASSUME Inv, Unfailing, faults' = 0 => faults = 0, NEW p \in Runner, On(p),
         faults' = 0 =>
           /\ \A n \in Namespace : run[p].at # n => Kept(n)
           /\ ByCalls /\ Matched => \A n \in Namespace \ (moved \cup crowded) :
                run[p].at = n \/ run'[p].at = n => Agreed(n)'
           /\ run[p].pc = "create" /\ run[p].kind = "deprovision" => run'[p].pc = "start"
           /\ run[p].pc = "start" => Written(run[p].job, "running")
  PROVE  Unfailing'
  BY OnMatched, OnByCalls, OnWaiting DEF Unfailing

(* A run that stays at its namespace, or leaves it, and was not under way  *)
(* to one.                                                                 *)
LEMMA GoesAt ==
  ASSUME Inv, NEW p \in Runner, On(p), run[p].pc # "dispatch", NEW n \in Namespace,
         run'[p].at = n
  PROVE  run[p].at = n
<1>1. n # NoNamespace
  BY RowFacts DEF Inv
<1> QED
  BY <1>1, IdleFacts DEF On, Goes

LEMMA FailingUnfailing ==
  ASSUME Inv, Fault
  PROVE  Unfailing'
<1>1. faults' # 0
  BY ConstantsAssumption DEF Inv, TypeOK, Fault
<1> QED
  BY <1>1 DEF Unfailing

LEMMA ApiUnfailing ==
  ASSUME Inv, Unfailing, NEW c \in Caller, CreateJob(c) \/ Start(c) \/ Unregister(c)
  PROVE  Unfailing'
<1>1. c \in Runner /\ TypeOK
  BY DEF Runner, Inv
<1>2. CASE CreateJob(c)
  <2>1. On(c) /\ UNCHANGED <<vault, quota, faults>> /\ run[c].pc = "create"
    BY <1>2, CreateJobOn DEF CreateJob
  <2>2. run[c].kind = "deprovision" => run'[c].pc = "start"
    <3>1. ASSUME run[c].kind = "deprovision"
          PROVE  run'[c] = [run[c] EXCEPT !.pc = "start", !.job = Len(jobs) + 1]
      BY <1>1, <1>2, <3>1 DEF CreateJob, TypeOK
    <3> QED
      BY <1>1, <3>1, RunFacts DEF RunState
  <2>3. ByCalls /\ Matched => \A n \in Namespace \ (moved \cup crowded) :
          run[c].at = n \/ run'[c].at = n => Agreed(n)'
    BY <1>1, <1>2, <2>1, GoesAt, CreateJobAgrees
  <2> QED
    BY <1>1, <2>1, <2>2, <2>3, SameVault, OnUnfailing
<1>3. CASE Start(c)
  <2>1. On(c) /\ UNCHANGED <<vault, quota, faults>> /\ run[c].pc = "start"
        /\ Written(run[c].job, "running")
    BY <1>1, <1>3, StartOn, WriteFacts, Statuses DEF Start
  <2>2. ByCalls /\ Matched => \A n \in Namespace \ (moved \cup crowded) :
          run[c].at = n \/ run'[c].at = n => Agreed(n)'
    BY <1>1, <1>3, <2>1, GoesAt, StartAgrees
  <2> QED
    BY <1>1, <2>1, <2>2, SameVault, OnUnfailing
<1>4. CASE Unregister(c)
  <2>1. On(c) /\ UNCHANGED <<vault, quota, faults>> /\ run[c].pc = "unregister"
    BY <1>4, UnregisterOn DEF Unregister
  <2>2. ByCalls /\ Matched => \A n \in Namespace \ (moved \cup crowded) :
          run[c].at = n \/ run'[c].at = n => Agreed(n)'
    BY <1>1, <1>4, <2>1, GoesAt, UnregisterAgrees
  <2> QED
    BY <1>1, <2>1, <2>2, SameVault, OnUnfailing
<1> QED
  BY <1>2, <1>3, <1>4

LEMMA WorkerUnfailing ==
  ASSUME Inv, Unfailing, NEW w \in Worker, Dispatch(w) \/ Catch(w)
  PROVE  Unfailing'
<1>1. w \in Runner /\ Placed(w) /\ NoNamespace \notin Namespace
  BY ConstantsAssumption DEF Runner, Inv, Runs
<1>2. CASE Dispatch(w)
  <2>1. On(w) /\ UNCHANGED <<vault, quota, faults>> /\ run[w].pc = "dispatch"
    BY <1>2, DispatchOn DEF Dispatch
  <2>2. ByCalls /\ Matched => \A n \in Namespace \ (moved \cup crowded) :
          run[w].at = n \/ run'[w].at = n => Agreed(n)'
    BY <1>1, <1>2, <2>1, DispatchAgrees DEF Placed
  <2> QED
    BY <1>1, <2>1, <2>2, SameVault, OnUnfailing
<1>3. CASE Catch(w)
  <2>1. On(w) /\ UNCHANGED <<vault, quota, faults>> /\ run[w].pc = "catch"
    BY <1>3, CatchOn DEF Catch
  <2>2. ByCalls /\ Matched => \A n \in Namespace \ (moved \cup crowded) : run[w].at # n
    BY <1>1, <2>1, AtFacts DEF Progress
  <2>3. \A n \in Namespace : run'[w].at = n => run[w].at = n
    BY <1>1, <2>1, GoesAt
  <2> QED
    BY <1>1, <2>1, <2>2, <2>3, SameVault, OnUnfailing
<1> QED
  BY <1>2, <1>3

LEMMA RunStepUnfailing ==
  ASSUME Inv, Unfailing, NEW p \in Runner, RunStep(p)
  PROVE  Unfailing'
<1>1. On(p) /\ TypeOK /\ VaultOK
  BY RunStepOn, VaultFacts DEF Inv
<1>2. CASE Fault
  BY <1>2, FailingUnfailing
<1>3. CASE ~Fault
  <2>1. UNCHANGED faults
    BY <1>3 DEF RunStep, StepSucceeds, StepFails, SaveFails, Undo, CloseFailed, CloseSucceeded
  <2>2. run[p].pc \in {"step", "undo", "close"}
    BY DEF RunStep, StepSucceeds, StepFails, SaveFails, Undo, CloseFailed, CloseSucceeded,
           AtStep
  <2>3. run[p].at \in Namespace
    BY <2>2 DEF Inv, Runs, Placed
  <2>4. UNCHANGED <<vault, quota>> \/ \E s : Apply(s, run[p].at)
    BY <1>3 DEF RunStep, StepSucceeds, StepFails, SaveFails, Undo, CloseFailed, CloseSucceeded
  <2>5. \A n \in Namespace : run[p].at # n => Kept(n)
    BY <1>1, <2>3, <2>4, SameVault, ApplyElsewhere
  <2>6. \A n \in Namespace : run'[p].at = n => run[p].at = n
    BY <1>1, <2>2, GoesAt
  <2>7. ~SaveFails(p)
    BY <1>3 DEF SaveFails
  <2>8. ByCalls /\ Matched => \A n \in Namespace \ (moved \cup crowded) :
          run[p].at = n => Agreed(n)'
    BY <2>1, <2>7, StepSucceedsAgrees, StepFailsAgrees, UndoAgrees, CloseFailedAgrees,
       CloseSucceededAgrees DEF RunStep
  <2> QED
    BY <1>1, <2>1, <2>2, <2>5, <2>6, <2>8, OnUnfailing
<1> QED
  BY <1>2, <1>3

(* A run s taken up for n, which is at n from the start, or not yet.       *)
LEMMA BeginMatched ==
  ASSUME Inv, Matched, NEW p \in Runner, NEW s \in RunState,
         NEW n \in Namespace \cup {NoNamespace}, Begin(p, s, n),
         UNCHANGED <<vault, quota>>,
         \A m \in Namespace \ (moved \cup crowded) : Tenanted(m)' = Tenanted(m),
         s.at # NoNamespace =>
           s.at = n /\ (n \notin moved \cup crowded' /\ Settled(n) => Progress(n, run[p])')
  PROVE  Matched'
<1>1. /\ run'[p] = s /\ Others(p) /\ ~Busy(p) /\ moved' = moved /\ crowded \subseteq crowded'
      /\ \A q \in Runner : n \in Namespace /\ Bound(q, n) => n \in crowded'
  BY BeginFacts DEF Inv
<1>2. VaultOK /\ run[p].at = NoNamespace
  BY <1>1, VaultFacts DEF Inv, Runs, Placed, Busy
<1> SUFFICES ASSUME NEW m \in Namespace \ (moved \cup crowded')
             PROVE  Agreed(m)'
  BY <1>1 DEF Matched
<1>3. m \notin crowded /\ Agreed(m) /\ m # NoNamespace
  BY <1>1, RowFacts DEF Matched, Inv
<1>4. CASE s.at # m
  <2>1. \A q \in Runner : run'[q] = run[q] \/ (run[q].at # m /\ run'[q].at # m)
    BY <1>1, <1>2, <1>3, <1>4 DEF Others
  <2> QED
    BY <1>2, <1>3, <2>1, SameVault, StaysAgreed
<1>5. CASE s.at = m
  <2>1. m = n
    BY <1>3, <1>5
  <2>2. \A q \in Runner : run[q].at # n
    BY <1>1, <2>1 DEF Bound
  <2>3. Settled(n)
    BY <1>3, <2>1, <2>2 DEF Agreed
  <2>4. Progress(n, run[p])'
    BY <1>3, <1>5, <2>1, <2>3
  <2>5. \A q \in Runner \ {p} : run'[q].at # n
    BY <1>1, <2>2 DEF Others
  <2> QED
    BY <1>1, <1>5, <2>1, <2>4, <2>5 DEF Agreed
<1> QED
  BY <1>4, <1>5

LEMMA RegisterUnfailing ==
  ASSUME Inv, Unfailing, NEW c \in Caller, NEW n \in Namespace, Register(c, n)
  PROVE  Unfailing'
<1> DEFINE i == ids + 1
           s == [Idle EXCEPT !.pc = "create", !.row = i, !.at = n]
<1>1. /\ TypeOK /\ VaultOK /\ Runs /\ Rows /\ c \in Runner
      /\ ids < MaxSuppliers /\ Unnamed(n)
      /\ supplier' = [supplier EXCEPT ![i] = n]
      /\ UNCHANGED <<jobs, vault, quota, faults, handed>>
      /\ Begin(c, s, n) \/ UNCHANGED <<run, history>>
  BY VaultFacts DEF Inv, Register, Runner
<1>2. i \in Row /\ i > ids /\ ids \in Nat /\ i \in 0..MaxSuppliers
  BY <1>1, RowFacts
<1>3. /\ supplier'[i] = n
      /\ \A r \in Row : r # i => supplier'[r] = supplier[r]
      /\ ~Present(i) /\ handed[i] = NoNamespace /\ n # NoNamespace
  BY <1>1, <1>2, RowFacts DEF TypeOK, Rows
<1>4. s \in RunState /\ s.pc = "create" /\ s.row = i /\ s.at = n /\ s.kind = "provision"
  <2> HIDE DEF i
  <2> QED
    BY <1>2, IdleFacts DEF RunState
<1> HIDE DEF s
<1>5. \A q \in Runner : run[q].pc # "idle" => run[q].row # i /\ run[q].row \in Row
  BY <1>1, <1>2, PlacedFacts DEF Runs, Placed, Busy
<1> HIDE DEF i
<1>6. /\ Others(c) /\ moved' = moved /\ crowded \subseteq crowded'
      /\ run' = run \/ (run'[c] = s /\ ~Busy(c))
  <2>1. CASE Begin(c, s, n)
    BY <1>1, <1>4, <2>1, BeginFacts
  <2>2. CASE UNCHANGED <<run, history>>
    BY <2>2 DEF history, Others
  <2> QED
    BY <1>1, <2>1, <2>2
<1>7. \A m \in Namespace : Tenanted(m)' = Tenanted(m)
  <2> SUFFICES ASSUME NEW m \in Namespace, NEW r \in Row
               PROVE  Tenant(r, m)' <=> Tenant(r, m)
    BY DEF Tenanted
  <2> QED
    BY <1>1, <1>3, RowFacts DEF Tenant
<1>8. ByCalls => ByCalls'
  <2> SUFFICES ASSUME ByCalls, NEW m \in Namespace \ (moved \cup crowded), NEW w \in Worker,
                      run'[w].kind = "deprovision", Bound(w, m)'
               PROVE  FALSE
    BY <1>6 DEF ByCalls
  <2>1. run'[w] = run[w] /\ w \in Runner
    BY <1>6, ConstantsAssumption DEF Others, Runner
  <2>2. Bound(w, m)
    BY <1>3, <1>5, <2>1 DEF Bound
  <2> QED
    BY <2>1, <2>2 DEF ByCalls
<1>9. Waiting => Waiting'
  <2>1. \A d \in Caller : run[d].pc = "start" => run'[d] = run[d]
    BY <1>6 DEF Others, Runner, Busy
  <2> QED
    BY <1>1, <2>1 DEF Waiting
<1>10. Matched => Matched'
  <2>1. CASE Begin(c, s, n)
    <3>1. ~Tenanted(n) /\ ~Tenanted(n)'
      BY <1>1, <1>7 DEF Unnamed, Tenanted, Tenant
    <3>2. run'[c] = s
      BY <1>1, <1>4, <2>1, BeginFacts
    <3>3. Settled(n) => Progress(n, run[c])'
      BY <1>1, <1>4, <3>1, <3>2, SameAtN DEF Settled, Progress
    <3> QED
      BY <1>1, <1>4, <1>7, <2>1, <3>3, BeginMatched
  <2>2. CASE UNCHANGED <<run, history>>
    <3>1. run' = run /\ moved' = moved /\ crowded' = crowded
      BY <2>2 DEF history
    <3> QED
      BY <1>1, <1>7, <3>1, SameVault, StaysAgreed DEF Matched
  <2> QED
    BY <1>1, <2>1, <2>2
<1> QED
  BY <1>1, <1>8, <1>9, <1>10 DEF Unfailing

LEMMA BeginDeleteUnfailing ==
  ASSUME Inv, Unfailing, NEW c \in Caller, NEW r \in Row, NEW force \in BOOLEAN,
         BeginDelete(c, r, force)
  PROVE  Unfailing'
<1>0. PICK n \in Namespace : n = supplier[r]
  BY DEF Inv, BeginDelete, Present, TypeOK
<1> DEFINE s == [Idle EXCEPT !.pc = "create", !.kind = "deprovision", !.row = r,
                             !.at = n, !.force = force]
<1>1. /\ TypeOK /\ VaultOK /\ Runs /\ c \in Runner /\ n # NoNamespace
      /\ UNCHANGED <<supplier, ids, jobs, vault, quota, faults, handed>>
      /\ Begin(c, s, n)
  BY <1>0, RowFacts, VaultFacts DEF Inv, BeginDelete, Runner
<1>2. s \in RunState /\ s.pc = "create" /\ s.kind = "deprovision" /\ s.at = n
  <2>1. r \in 0..MaxSuppliers /\ n \in Namespace \cup {NoNamespace}
    BY <1>1, RowFacts
  <2> QED
    BY <2>1, IdleFacts DEF RunState
<1> HIDE DEF s
<1>3. /\ run'[c] = s /\ Others(c) /\ moved' = moved /\ crowded \subseteq crowded' /\ ~Busy(c)
  BY <1>1, <1>2, BeginFacts
<1>4. \A m : Tenanted(m)' = Tenanted(m)
  BY <1>1, SameTenants
<1>5. ByCalls => ByCalls'
  <2>1. \A w \in Worker : run'[w] = run[w]
    BY <1>3, ConstantsAssumption DEF Others, Runner
  <2> QED
    BY <1>1, <1>3, <2>1 DEF ByCalls, Bound
<1>6. Waiting => Waiting'
  <2>1. \A d \in Caller : run[d].pc = "start" => run'[d] = run[d]
    BY <1>3 DEF Others, Runner, Busy
  <2> QED
    BY <1>1, <2>1 DEF Waiting
<1>7. Settled(n) => Progress(n, run[c])'
  BY <1>1, <1>2, <1>3, <1>4, SameAtN DEF Settled, Progress
<1>8. Matched => Matched'
  BY <1>1, <1>2, <1>4, <1>7, BeginMatched
<1> QED
  BY <1>1, <1>5, <1>6, <1>8 DEF Unfailing

LEMMA ClaimUnfailing ==
  ASSUME Inv, Unfailing, NEW w \in Worker, Claim(w)
  PROVE  Unfailing'
<1> DEFINE pending == {i \in DOMAIN jobs : jobs[i].status = "pending"}
           j == Min(pending)
           r == jobs[j].row
           n == supplier[r]
           s == [Idle EXCEPT !.pc = "dispatch", !.kind = jobs[j].kind, !.row = r,
                             !.force = jobs[j].force, !.job = j]
<1>1. /\ TypeOK /\ VaultOK /\ Runs /\ OneJob /\ w \in Runner
      /\ UNCHANGED <<supplier, ids, vault, quota, faults, handed>>
      /\ pending # {}
      /\ jobs' = [jobs EXCEPT ![j].status = "running"]
      /\ Begin(w, s, n)
  BY VaultFacts DEF Inv, Claim, Runner
<1>2. j \in DOMAIN jobs /\ jobs[j].status = "pending"
  <2>1. pending \subseteq Nat
    BY <1>1, JobFacts
  <2>2. j \in pending
    BY <1>1, <2>1, MinIsMember
  <2> QED
    BY <2>2
<1> HIDE DEF pending, j
<1>3. /\ jobs[j] \in JobRow /\ j \in Nat /\ r \in Row
      /\ jobs[j].kind \in {"provision", "deprovision"} /\ jobs[j].force \in BOOLEAN
      /\ n \in Namespace \cup {NoNamespace}
  BY <1>1, <1>2, JobFacts DEF JobRow, TypeOK
<1> HIDE DEF r, n
<1>4. s \in RunState /\ s.pc = "dispatch" /\ s.kind = jobs[j].kind /\ s.row = r
      /\ s.at = NoNamespace
  <2>1. r \in 0..MaxSuppliers
    BY <1>3, RowFacts, <1>1
  <2> QED
    BY <1>3, <2>1, IdleFacts DEF RunState
<1> HIDE DEF s
<1>5. /\ run'[w] = s /\ Others(w) /\ moved' = moved /\ ~Busy(w) /\ crowded \subseteq crowded'
      /\ \A q \in Runner : n \in Namespace /\ Bound(q, n) => n \in crowded'
  BY <1>1, <1>3, <1>4, BeginFacts
<1>6. Written(j, "running")
  BY <1>1, StatusWritten, Statuses
<1>7. Waiting => Waiting'
  <2>1. \A d \in Caller : run[d].pc = "start" => run'[d] = run[d]
    BY <1>5 DEF Others, Runner, Busy
  <2> QED
    BY <1>6, <2>1 DEF Waiting, Written
<1>8. Waiting /\ ByCalls => ByCalls'
  <2> SUFFICES ASSUME Waiting, ByCalls, NEW m \in Namespace \ (moved \cup crowded'),
                      NEW o \in Worker, run'[o].kind = "deprovision", Bound(o, m)'
               PROVE  FALSE
    BY <1>5 DEF ByCalls
  <2>1. m \notin crowded /\ o \in Runner
    BY <1>5 DEF Runner
  <2>2. CASE o # w
    BY <1>1, <1>5, <2>1, <2>2 DEF Others, ByCalls, Bound
  <2>3. CASE o = w
    <3>1. jobs[j].kind = "deprovision" /\ m = n /\ n # NoNamespace
      BY <1>1, <1>4, <1>5, <2>3, RowFacts DEF Bound, n
    <3>2. PICK c \in Caller : run[c].pc = "start" /\ run[c].job = j
      BY <1>2, <3>1 DEF Waiting
    <3>3. /\ c \in Runner /\ Placed(c)
          /\ run[c].row = r /\ run[c].at \in Namespace /\ Faithful(r, run[c].at)
      BY <1>1, <3>2 DEF Runs, Runner, Placed, r
    <3>4. run[c].at = m
      BY <3>1, <3>3 DEF Faithful, n
    <3> QED
      BY <1>5, <3>1, <3>3, <3>4 DEF Bound
  <2> QED
    BY <2>2, <2>3
<1>9. Matched => Matched'
  <2>1. \A m : Tenanted(m)' = Tenanted(m)
    BY <1>1, SameTenants
  <2> QED
    BY <1>1, <1>3, <1>4, <2>1, BeginMatched
<1> QED
  BY <1>1, <1>7, <1>8, <1>9 DEF Unfailing

LEMMA PatchUnfailing ==
  ASSUME Inv, Unfailing, NEW r \in Row, NEW n \in Namespace, Patch(r, n)
  PROVE  Unfailing'
<1>1. /\ TypeOK /\ VaultOK /\ Runs
      /\ UNCHANGED <<ids, jobs, vault, quota, run, faults, handed, crowded, rivalled>>
      /\ supplier' = [supplier EXCEPT ![r] = n]
      /\ moved' = moved \cup {supplier[r], n}
  BY VaultFacts DEF Inv, Patch
<1>2. supplier'[r] = n /\ \A t \in Row : t # r => supplier'[t] = supplier[t]
  BY <1>1 DEF TypeOK
<1>3. \A m \in Namespace \ moved' : Tenanted(m)' = Tenanted(m)
  <2> SUFFICES ASSUME NEW m \in Namespace \ moved', NEW t \in Row
               PROVE  Tenant(t, m)' <=> Tenant(t, m)
    BY DEF Tenanted
  <2> QED
    BY <1>1, <1>2 DEF Tenant
<1>4. \A q \in Runner : run[q].pc # "idle" => run[q].row \in Row
  BY <1>1, PlacedFacts DEF Runs, Busy
<1>5. ByCalls => ByCalls'
  <2> SUFFICES ASSUME ByCalls, NEW m \in Namespace \ (moved' \cup crowded), NEW w \in Worker,
                      run[w].kind = "deprovision", Bound(w, m)'
               PROVE  FALSE
    BY <1>1 DEF ByCalls
  <2>1. m \notin moved /\ m # n /\ w \in Runner
    BY <1>1 DEF Runner
  <2>2. Bound(w, m)
    BY <1>1, <1>2, <1>4, <2>1 DEF Bound
  <2> QED
    BY <2>1, <2>2 DEF ByCalls
<1>6. Waiting => Waiting'
  BY <1>1 DEF Waiting
<1>7. Matched => Matched'
  BY <1>1, <1>3, SameVault, StaysAgreed DEF Matched
<1> QED
  BY <1>1, <1>5, <1>6, <1>7 DEF Unfailing

(* A key made, or nothing done.                                            *)
LEMMA QuietUnfailing ==
  ASSUME Inv, Unfailing, UNCHANGED <<supplier, ids, jobs, run, faults, handed, history>>,
         \A n \in Namespace : Kept(n)
  PROVE  Unfailing'
<1>1. UNCHANGED <<supplier, jobs, run, faults, handed, moved, crowded>> /\ VaultOK
  BY VaultFacts DEF history, Inv
<1>2. \A n : Tenanted(n)' = Tenanted(n)
  BY <1>1, SameTenants
<1>3. Matched => Matched'
  BY <1>1, <1>2, StaysAgreed DEF Matched
<1>4. (Waiting => Waiting') /\ (ByCalls => ByCalls')
  BY <1>1 DEF Waiting, ByCalls, Bound
<1> QED
  BY <1>1, <1>3, <1>4 DEF Unfailing

LEMMA InitUnfailing == Init => Unfailing
<1> SUFFICES ASSUME Init PROVE Unfailing
  OBVIOUS
<1>1. /\ \A r \in Row : supplier[r] = NoNamespace
      /\ \A p \in Runner : run[p] = Idle
      /\ jobs = << >> /\ DOMAIN jobs = {} /\ quota = {}
      /\ \A n \in Namespace : vault[n] = NoTenant /\ n # NoNamespace
  BY ConstantsAssumption DEF Init
<1>2. \A n \in Namespace : ~Tenanted(n) /\ Nothing(n)
  BY <1>1 DEF Tenanted, Tenant, Nothing
<1>3. Matched
  BY <1>1, <1>2, IdleFacts DEF Matched, Agreed, Settled
<1>4. Waiting /\ ByCalls
  BY <1>1, IdleFacts DEF Waiting, ByCalls, Runner
<1> QED
  BY <1>3, <1>4 DEF Unfailing

LEMMA StepKeepsUnfailing ==
  ASSUME Inv, Unfailing, [Next]_vars
  PROVE  Unfailing'
<1>1. CASE UNCHANGED vars
  BY <1>1, SameVault, QuietUnfailing DEF vars, history
<1>2. ASSUME NEW n \in Namespace, NEW k \in Key, CreateKey(n, k) PROVE Unfailing'
  <2>1. VaultOK
    BY VaultFacts DEF Inv
  <2>2. \A m \in Namespace : Kept(m)
    BY <1>2, <2>1 DEF CreateKey, Kept, VaultOK, TenantOK
  <2> QED
    BY <1>2, <2>2, QuietUnfailing DEF CreateKey
<1>3. ASSUME NEW r \in Row, NEW n \in Namespace, Patch(r, n) PROVE Unfailing'
  BY <1>3, PatchUnfailing
<1>4. ASSUME NEW c \in Caller, NEW n \in Namespace, Register(c, n) PROVE Unfailing'
  BY <1>4, RegisterUnfailing
<1>5. ASSUME NEW c \in Caller, NEW r \in Row, NEW force \in BOOLEAN,
             BeginDelete(c, r, force)
      PROVE  Unfailing'
  BY <1>5, BeginDeleteUnfailing
<1>6. ASSUME NEW c \in Caller, Api(c) PROVE Unfailing'
  BY <1>6, ApiUnfailing, RunStepUnfailing DEF Api, Runner
<1>7. ASSUME NEW w \in Worker, Work(w) \/ Throw(w) PROVE Unfailing'
  BY <1>7, ClaimUnfailing, WorkerUnfailing, RunStepUnfailing, FailingUnfailing
     DEF Work, Throw, Runner
<1>8. ASSUME NEW p \in Runner, Abort(p) PROVE Unfailing'
  BY <1>8, FailingUnfailing DEF Abort
<1> QED
  BY <1>1, <1>2, <1>3, <1>4, <1>5, <1>6, <1>7, <1>8 DEF Next

(***************************************************************************)
(* Whenever all is quiet and nothing has failed, registry and Vault agree  *)
(* about every namespace that no row was moved from or to, and that no two *)
(* runs were at together -- whatever was done to the others.               *)
(***************************************************************************)
THEOREM RegistryAgrees == Spec => []RegistryAndVaultAgree
<1>1. Inv /\ Unfailing => RegistryAndVaultAgree
  <2> SUFFICES ASSUME Inv, Unfailing, faults = 0, \A p \in Runner : ~Busy(p),
                      NEW n \in Namespace \ (moved \cup crowded)
               PROVE  IF \E r \in Row : Tenant(r, n)
                      THEN vault[n].ns /\ vault[n].transit
                             /\ (Sharing(n) = {n} => n \in quota)
                      ELSE vault[n] = NoTenant /\ n \notin quota
    BY DEF RegistryAndVaultAgree
  <2>1. \A p \in Runner : run[p].at # n
    BY RowFacts DEF Inv, Runs, Placed, Busy
  <2>2. Settled(n)
    BY <2>1 DEF Unfailing, Matched, Agreed
  <2> QED
    BY <2>2 DEF Settled, Tenanted, Whole, Nothing
<1>2. Init => Inv /\ Unfailing
  BY InitInv, InitUnfailing
<1>3. Inv /\ Unfailing /\ [Next]_vars => Inv' /\ Unfailing'
  BY StepKeepsInv, StepKeepsUnfailing
<1> QED
  BY <1>1, <1>2, <1>3, PTL DEF Spec
=============================================================================
