------------------------ MODULE ProvisioningJobs_proofs ------------------------
(***************************************************************************)
(* Proofs about ProvisioningJobs, for any number of jobs, API calls,       *)
(* workers and steps, in queue mode and in sync mode.  In sync mode a      *)
(* worker may find pending the job a call is running, and from then on     *)
(* nothing is said of that job's status nor of the resources; what is said *)
(* of rows of earlier runs, and of how many runners have a job, remains.   *)
(***************************************************************************)
EXTENDS ProvisioningJobs, TLAPS

(* A step being executed is a step.                                        *)
AtStep(x) == runner[x].pc \in {"look", "run", "save"} => runner[x].at \in Step

(* The object of a busy runner says that its job is under way, unless the  *)
(* runner is about to catch an error.                                      *)
Held(x, s) ==
  /\ s.job \in Job
  /\ IF s.pc = "catch" THEN s.mem \in JobStatus \ {"pending"}
     ELSE \/ s.mem = "running"
          \/ s.mem = "pending" /\ s.pc = "start" /\ ~QueueMode /\ x \notin Worker

(* The row says what the object says, or its last write was not applied.   *)
Agrees(s, v) == v = s.mem \/ (s.pc = "catch" /\ v = "running")

Holding(x) ==
  Busy(x) =>
    /\ Held(x, runner[x])
    /\ runner[x].job \notin shared => Agrees(runner[x], status[runner[x].job])

OwnedOnce ==
  \A x, y \in Runner :
    x # y /\ Busy(x) /\ Busy(y) /\ runner[x].job = runner[y].job =>
      runner[x].job \in shared

Inv ==
  /\ TypeOK
  /\ \A x \in Runner : AtStep(x) /\ Holding(x)
  /\ OwnedOnce

-----------------------------------------------------------------------------
LEMMA IdleIsIdle == Idle \in RunnerState /\ Idle.pc = "idle"
  BY DEF Idle, RunnerState

LEMMA InitInv == Init => Inv /\ shared = {}
<1> SUFFICES ASSUME Init PROVE Inv /\ shared = {}
  OBVIOUS
<1>1. runner \in [Runner -> RunnerState] /\ \A x \in Runner : runner[x].pc = "idle"
  BY IdleIsIdle DEF Init
<1>2. status \in [Job -> {"none"} \cup JobStatus] /\ faults \in 0..MaxFaults
  BY ConstantsAssumption DEF Init
<1>3. TypeOK
  BY <1>1, <1>2 DEF Init, TypeOK
<1> QED
  BY <1>1, <1>3 DEF Init, Inv, AtStep, Holding, OwnedOnce, Busy

(***************************************************************************)
(* One runner moves on with its own job.  A step of x is described by its  *)
(* new memory s and the new status v of the job it holds.                  *)
(***************************************************************************)
Moves(x, s, v) ==
  /\ Busy(x)
  /\ runner' = [runner EXCEPT ![x] = s]
  /\ status' = [status EXCEPT ![runner[x].job] = v]
  /\ UNCHANGED shared

LEMMA MoveKeepsOwnership ==
  ASSUME Inv, NEW x \in Runner, NEW s \in RunnerState, NEW v \in JobStatus, Moves(x, s, v),
         TypeOK',
         s.pc \in {"look", "run", "save"} => s.at \in Step,
         s.pc # "idle" => s.job = runner[x].job /\ Held(x, s) /\ Agrees(s, v)
  PROVE  Inv'
<1> USE DEF Inv, Busy
<1>1. /\ runner \in [Runner -> RunnerState]
      /\ status \in [Job -> {"none"} \cup JobStatus]
      /\ runner[x].job \in Job /\ runner[x].pc # "idle" /\ shared' = shared
  BY DEF TypeOK, Holding, Held, Moves
<1>2. runner'[x] = s /\ \A y \in Runner \ {x} : runner'[y] = runner[y]
  BY <1>1 DEF Moves
<1>3. /\ status'[runner[x].job] = v
      /\ \A j \in Job \ {runner[x].job} : status'[j] = status[j]
  BY <1>1 DEF Moves
<1>4. \A y \in Runner \ {x} :
        runner[y].pc # "idle" /\ runner[y].job = runner[x].job => runner[y].job \in shared
  BY <1>1 DEF OwnedOnce
<1>5. OwnedOnce'
  BY <1>1, <1>2, <1>4 DEF OwnedOnce
<1>6. ASSUME NEW y \in Runner PROVE AtStep(y)' /\ Holding(y)'
  <2>1. CASE y = x
    BY <1>1, <1>2, <1>3, <2>1 DEF AtStep, Holding, Held, Agrees
  <2>2. CASE y # x
    BY <1>1, <1>2, <1>3, <1>4, <2>2 DEF AtStep, Holding, Held, Agrees
  <2> QED
    BY <2>1, <2>2
<1> QED
  BY <1>5, <1>6

(* A runner that moves without a write of the row.                         *)
LEMMA RowUntouched ==
  ASSUME Inv, NEW x \in Runner, NEW s \in RunnerState, Busy(x),
         runner' = [runner EXCEPT ![x] = s], UNCHANGED <<status, shared>>, TypeOK',
         s.pc \in {"look", "run", "save"} => s.at \in Step,
         s.pc # "idle" =>
           /\ s.job = runner[x].job /\ Held(x, s)
           /\ s.job \notin shared => Agrees(s, status[s.job])
  PROVE  Inv'
<1> USE DEF Inv, Busy
<1>1. runner \in [Runner -> RunnerState]
  BY DEF TypeOK
<1>2. runner'[x] = s /\ \A y \in Runner \ {x} : runner'[y] = runner[y]
  BY <1>1
<1>3. OwnedOnce'
  BY <1>2 DEF OwnedOnce
<1>4. ASSUME NEW y \in Runner PROVE AtStep(y)' /\ Holding(y)'
  <2>1. CASE y = x
    BY <1>2, <2>1 DEF AtStep, Holding, Held, Agrees
  <2>2. CASE y # x
    BY <1>2, <2>2 DEF AtStep, Holding, Held, Agrees
  <2> QED
    BY <2>1, <2>2
<1> QED
  BY <1>3, <1>4

(* A runner takes up a job, and the row says so.                           *)
LEMMA TakingKeepsInv ==
  ASSUME Inv, TypeOK', NEW x \in Runner, NEW j \in Job, NEW pc \in {"start", "dispatch"},
         NEW v \in {"pending", "running"},
         Begin(x, j, pc, v), status' = [status EXCEPT ![j] = v],
         v = "pending" => pc = "start" /\ ~QueueMode /\ x \notin Worker
  PROVE  Inv'
<1> DEFINE s == [Idle EXCEPT !.pc = pc, !.job = j, !.mem = v]
<1> USE DEF Inv, Busy
<1>1. /\ runner \in [Runner -> RunnerState]
      /\ status \in [Job -> {"none"} \cup JobStatus]
      /\ runner' = [runner EXCEPT ![x] = s]
      /\ shared' = shared \cup {k \in {j} : \E y \in Runner : Busy(y) /\ runner[y].job = k}
  BY DEF TypeOK, Begin
<1>2. s.pc = pc /\ s.job = j /\ s.mem = v
  BY DEF Idle
<1> HIDE DEF s
<1>3. runner'[x] = s /\ \A y \in Runner \ {x} : runner'[y] = runner[y]
  BY <1>1
<1>4. status'[j] = v /\ \A k \in Job \ {j} : status'[k] = status[k]
  BY <1>1
<1>5. /\ shared \subseteq shared'
      /\ \A y \in Runner : Busy(y) /\ runner[y].job = j => j \in shared'
  BY <1>1
<1>6. OwnedOnce'
  BY <1>2, <1>3, <1>5 DEF OwnedOnce
<1>7. ASSUME NEW y \in Runner PROVE AtStep(y)' /\ Holding(y)'
  <2>1. CASE y = x
    BY <1>2, <1>3, <1>4, <2>1 DEF AtStep, Holding, Held, Agrees
  <2>2. CASE y # x
    <3>1. runner'[y] = runner[y]
      BY <1>3, <2>2
    <3>2. Busy(y) /\ runner[y].job = j => j \in shared'
      BY <1>5
    <3>3. runner[y].job # j /\ runner[y].job \in Job =>
            status'[runner[y].job] = status[runner[y].job]
      BY <1>4
    <3> QED
      BY <1>5, <3>1, <3>2, <3>3 DEF AtStep, Holding, Held, Agrees
  <2> QED
    BY <2>1, <2>2
<1> QED
  BY <1>6, <1>7

-----------------------------------------------------------------------------
(***************************************************************************)
(* Types.  Every action leaves every runner in a state of its type; what   *)
(* the steps it handles are follows from AtStep.                           *)
(***************************************************************************)
LEMMA RunnerFacts ==
  ASSUME Inv, NEW x \in Runner
  PROVE  /\ runner[x] \in RunnerState
         /\ \A pc \in {"idle", "dispatch", "start", "mark", "look", "run", "save", "undo",
                       "close", "catch"} : [runner[x] EXCEPT !.pc = pc] \in RunnerState
         /\ runner \in [Runner -> RunnerState]
  BY DEF Inv, TypeOK, RunnerState

LEMMA FaultCounts ==
  ASSUME Inv, Fault
  PROVE  faults' \in 0..MaxFaults /\ overlapped' \in BOOLEAN /\ shared' = shared
  BY ConstantsAssumption DEF Inv, TypeOK, Fault

(* The frame of TypeOK for an action that moves x to state s.              *)
LEMMA TypeFrame ==
  ASSUME Inv, NEW x \in Runner, NEW s \in RunnerState,
         runner' = [runner EXCEPT ![x] = s],
         status' \in [Job -> {"none"} \cup JobStatus],
         registered' \in BOOLEAN, present' \subseteq Undoable, orphans' \subseteq Undoable,
         abandoned' \subseteq Undoable, overlapped' \in BOOLEAN, shared' \subseteq Job,
         faults' \in 0..MaxFaults
  PROVE  TypeOK'
  BY DEF Inv, TypeOK

(* Persist leaves the statuses typed.                                      *)
LEMMA PersistIsTyped ==
  ASSUME Inv, NEW x \in Runner, NEW v \in JobStatus, Persist(x, v)
  PROVE  status' \in [Job -> {"none"} \cup JobStatus]
  BY DEF Inv, TypeOK, Persist

(* What a run leaves unattended is what it has done, or was to undo.       *)
LEMMA UnattendedIsUndoable ==
  ASSUME Inv, NEW x \in Runner
  PROVE  Unattended(x) \subseteq Undoable
<1>1. runner[x].todo \subseteq Undoable
  BY DEF Inv, TypeOK, RunnerState
<1> QED
  BY <1>1 DEF Unattended

(* Moving on with nothing but pc changed.                                  *)
LEMMA GoToMoves ==
  ASSUME Inv, NEW x \in Runner,
         NEW pc \in {"idle", "dispatch", "start", "mark", "look", "run", "save", "undo",
                     "close", "catch"},
         GoTo(x, pc)
  PROVE  \E s \in RunnerState :
           /\ runner' = [runner EXCEPT ![x] = s]
           /\ s.pc = pc
           /\ s.job = runner[x].job /\ s.mem = runner[x].mem /\ s.at = runner[x].at
<1> DEFINE s == [runner[x] EXCEPT !.pc = pc]
<1>1. s \in RunnerState
  BY RunnerFacts
<1>2. s.pc = pc /\ s.job = runner[x].job /\ s.mem = runner[x].mem /\ s.at = runner[x].at
  BY RunnerFacts DEF RunnerState
<1>3. runner' = [runner EXCEPT ![x] = s]
  BY DEF GoTo
<1> QED
  BY <1>1, <1>2, <1>3

(***************************************************************************)
(* An action of x that writes no row and keeps x's job, and one that       *)
(* writes v: what is left to show is the type of the other variables.      *)
(***************************************************************************)
Rest ==
  /\ registered' \in BOOLEAN
  /\ present' \subseteq Undoable
  /\ orphans' \subseteq Undoable
  /\ abandoned' \subseteq Undoable
  /\ overlapped' \in BOOLEAN
  /\ shared' = shared
  /\ faults' \in 0..MaxFaults

LEMMA RestStays ==
  ASSUME Inv
  PROVE  /\ UNCHANGED <<registered, present, orphans, abandoned, overlapped, shared,
                        faults>> => Rest
         /\ UNCHANGED ghosts => UNCHANGED <<orphans, abandoned, overlapped, shared, faults>>
  BY DEF Inv, TypeOK, Rest, ghosts

LEMMA Untouched ==
  ASSUME Inv, NEW x \in Runner, NEW s \in RunnerState, Busy(x),
         runner' = [runner EXCEPT ![x] = s], UNCHANGED status, Rest,
         s.pc \in {"look", "run", "save"} => s.at \in Step,
         s.pc # "idle" => /\ s.pc # "catch" /\ runner[x].pc # "catch"
                          /\ s.job = runner[x].job
                          /\ s.mem = runner[x].mem
                          /\ s.mem = "pending" => s.pc = "start"
  PROVE  Inv'
<1>1. TypeOK'
  BY TypeFrame DEF Rest, Inv, TypeOK
<1>2. s.pc # "idle" =>
        /\ s.job = runner[x].job /\ Held(x, s)
        /\ s.job \notin shared => Agrees(s, status[s.job])
  BY DEF Inv, Holding, Held, Agrees
<1> QED
  BY <1>1, <1>2, RowUntouched DEF Rest

LEMMA Written ==
  ASSUME Inv, NEW x \in Runner, NEW s \in RunnerState, NEW v \in JobStatus, Busy(x),
         runner' = [runner EXCEPT ![x] = s], Persist(x, v), Rest,
         s.pc \in {"look", "run", "save"} => s.at \in Step,
         s.pc # "idle" => s.job = runner[x].job /\ v = "running" /\ s.mem = "running"
  PROVE  Inv'
<1>1. TypeOK'
  BY TypeFrame, PersistIsTyped DEF Rest, Inv, TypeOK
<1>2. runner[x].job \in Job
  BY DEF Inv, Holding, Held
<1>3. s.pc # "idle" => s.job = runner[x].job /\ Held(x, s) /\ Agrees(s, v)
  BY <1>2 DEF Held, Agrees, JobStatus
<1> QED
  BY <1>1, <1>3, MoveKeepsOwnership DEF Moves, Persist, Rest

-----------------------------------------------------------------------------
(* The API and the worker loop                                             *)
LEMMA ApiKeepsInv ==
  ASSUME Inv, NEW c \in Caller, NEW j \in Job, CreateJob(c, j)
  PROVE  Inv'
<1>1. /\ status[j] = "none" /\ status' = [status EXCEPT ![j] = "pending"]
      /\ c \in Runner /\ c \notin Worker
  BY ConstantsAssumption DEF CreateJob, Runner
<1>2. status' \in [Job -> {"none"} \cup JobStatus]
  BY <1>1 DEF Inv, TypeOK, JobStatus
<1>3. CASE QueueMode
  <2>1. UNCHANGED <<registered, present, runner, orphans, abandoned, overlapped, shared,
                    faults>>
    BY <1>3 DEF CreateJob, ghosts
  <2>2. TypeOK'
    BY <1>2, <2>1 DEF Inv, TypeOK
  <2>3. \A y \in Runner : Busy(y) /\ runner[y].job \notin shared => runner[y].job # j
    BY <1>1 DEF Inv, Holding, Held, Agrees, JobStatus
  <2>4. \A k \in Job \ {j} : status'[k] = status[k]
    BY <1>1 DEF Inv, TypeOK
  <2>5. \A y \in Runner : AtStep(y)' /\ Holding(y)'
    BY <2>1, <2>3, <2>4 DEF Inv, AtStep, Holding, Held, Agrees, Busy
  <2> QED
    BY <2>1, <2>2, <2>5 DEF Inv, OwnedOnce, Busy
<1>4. CASE ~QueueMode
  <2>1. Begin(c, j, "start", "pending")
    BY <1>4 DEF CreateJob
  <2>2. [Idle EXCEPT !.pc = "start", !.job = j, !.mem = "pending"] \in RunnerState
    BY IdleIsIdle DEF RunnerState, JobStatus
  <2>3. /\ registered' \in BOOLEAN /\ present' \subseteq Undoable
        /\ orphans' \subseteq Undoable /\ abandoned' \subseteq Undoable
        /\ overlapped' \in BOOLEAN /\ shared' \subseteq Job /\ faults' \in 0..MaxFaults
    BY <2>1 DEF Begin, Inv, TypeOK
  <2>4. TypeOK'
    BY <1>1, <1>2, <2>1, <2>2, <2>3, TypeFrame DEF Begin
  <2> QED
    BY <1>1, <1>4, <2>1, <2>4, TakingKeepsInv
<1> QED
  BY <1>3, <1>4

LEMMA WorkerLoopKeepsInv ==
  ASSUME Inv, NEW w \in Worker, WorkerLoop(w)
  PROVE  Inv'
<1>w. w \in Runner
  BY DEF Runner
<1>1. CASE \E j \in Job : Claim(w, j)
  <2>1. PICK j \in Job : Claim(w, j)
    BY <1>1
  <2>2. /\ status[j] = "pending" /\ status' = [status EXCEPT ![j] = "running"]
        /\ Begin(w, j, "dispatch", "running")
    BY <2>1 DEF Claim
  <2>3. [Idle EXCEPT !.pc = "dispatch", !.job = j, !.mem = "running"] \in RunnerState
    BY IdleIsIdle DEF RunnerState, JobStatus
  <2>4. /\ registered' \in BOOLEAN /\ present' \subseteq Undoable
        /\ orphans' \subseteq Undoable /\ abandoned' \subseteq Undoable
        /\ overlapped' \in BOOLEAN /\ shared' \subseteq Job /\ faults' \in 0..MaxFaults
        /\ status' \in [Job -> {"none"} \cup JobStatus]
    BY <2>2 DEF Begin, Inv, TypeOK, JobStatus
  <2>5. TypeOK'
    BY <1>w, <2>2, <2>3, <2>4, TypeFrame DEF Begin
  <2> QED
    BY <1>w, <2>2, <2>5, TakingKeepsInv
<1>2. CASE Dispatch(w)
  <2>1. runner[w].pc = "dispatch" /\ UNCHANGED status /\ Rest
    BY <1>2, RestStays DEF Dispatch
  <2>2. CASE GoTo(w, "start")
    <3>1. PICK s \in RunnerState :
            /\ runner' = [runner EXCEPT ![w] = s]
            /\ s.pc = "start" /\ s.job = runner[w].job /\ s.mem = runner[w].mem
      BY <1>w, <2>2, GoToMoves
    <3> QED
      BY <1>w, <2>1, <3>1, Untouched DEF Busy
  <2>3. CASE Quit(w)
    BY <1>w, <2>1, <2>3, IdleIsIdle, Untouched DEF Busy, Quit
  <2> QED
    BY <1>2, <2>2, <2>3 DEF Dispatch
<1>3. CASE CatchError(w)
  <2>1. /\ runner[w].pc = "catch" /\ runner' = [runner EXCEPT ![w] = Idle]
    BY <1>3 DEF CatchError, Quit
  <2>2. Rest
    BY <1>3, FaultCounts DEF CatchError, Rest, Inv, TypeOK
  <2>3. CASE status' = [status EXCEPT ![runner[w].job] = "failed"]
    BY <1>w, <2>1, <2>2, <2>3, IdleIsIdle, Written DEF Busy, Persist, JobStatus
  <2>4. CASE UNCHANGED status
    BY <1>w, <2>1, <2>2, <2>4, IdleIsIdle, Untouched DEF Busy
  <2> QED
    BY <1>3, <2>3, <2>4 DEF CatchError
<1> QED
  BY <1>1, <1>2, <1>3 DEF WorkerLoop

-----------------------------------------------------------------------------
(* The step runner                                                         *)

(* A rollback keeps the job and the object's status.                       *)
LEMMA RollBackMoves ==
  ASSUME Inv, NEW x \in Runner, RollBack(x)
  PROVE  \E s \in RunnerState :
           /\ runner' = [runner EXCEPT ![x] = s]
           /\ s.pc \in {"close", "undo"}
           /\ s.job = runner[x].job /\ s.mem = runner[x].mem
<1> DEFINE todo == runner[x].done \cap Undoable
           s == [runner[x] EXCEPT !.pc = IF todo = {} THEN "close" ELSE "undo", !.todo = todo]
<1>1. s \in RunnerState /\ s.pc \in {"close", "undo"}
      /\ s.job = runner[x].job /\ s.mem = runner[x].mem
  BY DEF Inv, TypeOK, RunnerState
<1>2. runner' = [runner EXCEPT ![x] = s]
  BY DEF RollBack
<1> QED
  BY <1>1, <1>2

LEMMA NextUndoMoves ==
  ASSUME Inv, NEW x \in Runner, NEW i \in Undoable, NextUndo(x, i)
  PROVE  \E s \in RunnerState :
           /\ runner' = [runner EXCEPT ![x] = s]
           /\ s.pc \in {"close", "undo"}
           /\ s.job = runner[x].job /\ s.mem = runner[x].mem
<1> DEFINE todo == runner[x].todo \ {i}
           s == [runner[x] EXCEPT !.pc = IF todo = {} THEN "close" ELSE "undo", !.todo = todo]
<1>1. s \in RunnerState /\ s.pc \in {"close", "undo"}
      /\ s.job = runner[x].job /\ s.mem = runner[x].mem
  BY DEF Inv, TypeOK, RunnerState
<1>2. runner' = [runner EXCEPT ![x] = s]
  BY DEF NextUndo
<1> QED
  BY <1>1, <1>2

(* Past its start a busy runner's object says "running", until an error.   *)
LEMMA RunningFacts ==
  ASSUME Inv, NEW x \in Runner, Busy(x), runner[x].pc \notin {"start", "catch"}
  PROVE  runner[x].mem = "running" /\ runner[x].job \in Job
  BY DEF Inv, Holding, Held

LEMMA StepRunnerKeepsInv ==
  ASSUME Inv, NEW x \in Runner, StepRunner(x)
  PROVE  Inv'
<1>t. runner[x] \in RunnerState /\ present \subseteq Undoable /\ "running" \in JobStatus
  BY DEF Inv, TypeOK, JobStatus
<1>1. CASE Start(x)
  <2> DEFINE s == [runner[x] EXCEPT !.pc = "mark", !.mem = "running", !.at = 1]
  <2>1. s \in RunnerState /\ s.pc = "mark" /\ s.job = runner[x].job /\ s.mem = "running"
    BY <1>t DEF RunnerState
  <2>2. /\ Busy(x) /\ runner' = [runner EXCEPT ![x] = s] /\ Persist(x, "running") /\ Rest
    BY <1>1, RestStays DEF Start, Busy
  <2> HIDE DEF s
  <2> QED
    BY <1>t, <2>1, <2>2, Written
<1>2. CASE MarkStep(x)
  <2>1. /\ Busy(x) /\ runner[x].pc = "mark" /\ runner[x].at \in Step
        /\ Persist(x, runner[x].mem) /\ Rest
    BY <1>2, RestStays DEF MarkStep, Busy
  <2>2. PICK pc \in {"look", "run"} : GoTo(x, pc)
    BY <1>2 DEF MarkStep
  <2>3. PICK s \in RunnerState :
          /\ runner' = [runner EXCEPT ![x] = s]
          /\ s.pc = pc
          /\ s.job = runner[x].job /\ s.mem = runner[x].mem /\ s.at = runner[x].at
    BY <2>2, GoToMoves
  <2> QED
    BY <1>t, <2>1, <2>3, Written, RunningFacts
<1>3. CASE LookUp(x)
  <2> DEFINE s == [runner[x] EXCEPT !.pc = "run", !.fresh = FreshAfter(x, runner[x].at)]
  <2>1. runner[x].at \in Step /\ Busy(x)
    BY <1>3 DEF LookUp, Inv, AtStep, Busy
  <2>2. FreshAfter(x, runner[x].at) \in SUBSET Step
    BY <1>t, <2>1 DEF FreshAfter, RunnerState
  <2>3. /\ s \in RunnerState /\ s.pc = "run" /\ s.at = runner[x].at
        /\ s.job = runner[x].job /\ s.mem = runner[x].mem
    BY <1>t, <2>2 DEF RunnerState
  <2>4. runner' = [runner EXCEPT ![x] = s] /\ UNCHANGED status /\ Rest
        /\ runner[x].pc \notin {"start", "catch"}
    BY <1>3, RestStays DEF LookUp
  <2> HIDE DEF s
  <2> QED
    BY <2>1, <2>3, <2>4, Untouched, RunningFacts
<1>4. CASE RunStep(x)
  <2> DEFINE i == runner[x].at
             fresh == IF Kind[i] = "upsert" THEN runner[x].fresh ELSE FreshAfter(x, i)
             s == [runner[x] EXCEPT !.pc = "save", !.done = @ \cup {i}, !.fresh = fresh]
  <2>1. i \in Step /\ Busy(x) /\ runner[x].pc \notin {"start", "catch"}
    BY <1>4 DEF RunStep, Inv, AtStep, Busy
  <2>2. fresh \in SUBSET Step /\ runner[x].done \cup {i} \in SUBSET Step
    BY <1>t, <2>1 DEF FreshAfter, RunnerState
  <2>3. /\ s \in RunnerState /\ s.pc = "save" /\ s.at = runner[x].at
        /\ s.job = runner[x].job /\ s.mem = runner[x].mem
    <3> HIDE DEF fresh, i
    <3> QED
      BY <1>t, <2>2 DEF RunnerState
  <2>4. runner' = [runner EXCEPT ![x] = s]
    BY <1>4, <1>t DEF RunStep, RunnerState
  <2>5. UNCHANGED status /\ Rest
    BY <1>4, <1>t, RestStays DEF RunStep, Rest, Inv, TypeOK
  <2> HIDE DEF s
  <2> QED
    BY <2>1, <2>3, <2>4, <2>5, Untouched, RunningFacts
<1>5. CASE StepRejected(x)
  <2>1. PICK s \in RunnerState :
          /\ runner' = [runner EXCEPT ![x] = s]
          /\ s.pc \in {"close", "undo"}
          /\ s.job = runner[x].job /\ s.mem = runner[x].mem
    BY <1>5, RollBackMoves DEF StepRejected
  <2>2. Busy(x) /\ UNCHANGED status /\ Rest /\ runner[x].pc \notin {"start", "catch"}
    BY <1>5, RestStays DEF StepRejected, Busy
  <2> QED
    BY <2>1, <2>2, Untouched, RunningFacts
<1>6. CASE SaveStep(x)
  <2> DEFINE s == [runner[x] EXCEPT !.pc = "mark", !.at = runner[x].at + 1]
  <2>1. s \in RunnerState /\ s.pc = "mark" /\ s.job = runner[x].job /\ s.mem = runner[x].mem
    <3>1. runner[x].at + 1 \in Nat
      BY <1>t DEF RunnerState
    <3> QED
      BY <1>t, <3>1 DEF RunnerState
  <2>2. /\ Busy(x) /\ runner[x].pc \notin {"start", "catch"} /\ runner' = [runner EXCEPT ![x] = s]
        /\ Persist(x, runner[x].mem) /\ Rest
    BY <1>6, RestStays DEF SaveStep, Busy
  <2> HIDE DEF s
  <2> QED
    BY <1>t, <2>1, <2>2, Written, RunningFacts
<1>7. CASE Undo(x)
  <2>1. PICK i \in Undoable :
          /\ NextUndo(x, i)
          /\ present' \subseteq present
          /\ UNCHANGED <<status, registered, ghosts>>
    BY <1>7 DEF Undo
  <2>2. PICK s \in RunnerState :
          /\ runner' = [runner EXCEPT ![x] = s]
          /\ s.pc \in {"close", "undo"}
          /\ s.job = runner[x].job /\ s.mem = runner[x].mem
    BY <2>1, NextUndoMoves
  <2>3. Busy(x) /\ UNCHANGED status /\ Rest /\ runner[x].pc \notin {"start", "catch"}
    BY <2>1, <1>t, RestStays DEF NextUndo, Busy, Rest, Inv, TypeOK
  <2> QED
    BY <2>2, <2>3, Untouched, RunningFacts
<1>8. CASE CloseFailed(x) \/ CloseSucceeded(x)
  <2>1. PICK v \in JobStatus : Persist(x, v)
    BY <1>8 DEF CloseFailed, CloseSucceeded, Verdict, JobStatus
  <2>2. Busy(x) /\ runner' = [runner EXCEPT ![x] = Idle] /\ Rest
    BY <1>8, RestStays DEF CloseFailed, CloseSucceeded, Busy, Quit
  <2> QED
    BY <2>1, <2>2, IdleIsIdle, Written
<1> QED
  BY <1>1, <1>2, <1>3, <1>4, <1>5, <1>6, <1>7, <1>8 DEF StepRunner

(* What a failing UPDATE was to write is under way or a verdict.           *)
LEMMA NextStatusFacts ==
  ASSUME Inv, NEW x \in Runner, runner[x].pc \in {"start", "mark", "close"}
  PROVE  /\ NextStatus(x) \in JobStatus \ {"pending"}
         /\ NextStatus(x) # "running" => runner[x].mem = "running"
         /\ NextStatus(x) = "succeeded" =>
              runner[x].pc = "mark" /\ runner[x].at \notin Step
<1>1. runner[x].pc # "start" => runner[x].mem = "running"
  BY RunningFacts DEF Busy
<1> QED
  BY <1>1 DEF NextStatus, Verdict, JobStatus

(* The worker goes to its catch, the call ends.                            *)
LEMMA PersistFailsMoves ==
  ASSUME Inv, NEW x \in Runner, PersistFails(x)
  PROVE  \E s \in RunnerState :
           /\ runner' = [runner EXCEPT ![x] = s]
           /\ s.pc \in {"idle", "catch"}
           /\ s.pc = "catch" =>
                x \in Worker /\ s.job = runner[x].job /\ s.mem = NextStatus(x)
<1> DEFINE v == NextStatus(x)
           s == [runner[x] EXCEPT !.pc = "catch", !.mem = v]
<1>1. runner[x] \in RunnerState /\ runner \in [Runner -> RunnerState]
  BY RunnerFacts
<1>2. v \in JobStatus
  BY NextStatusFacts DEF PersistFails
<1>3. CASE x \in Worker
  <2>1. runner' = [runner EXCEPT ![x] = s]
    BY <1>3 DEF PersistFails
  <2>2. s \in RunnerState /\ s.pc = "catch" /\ s.job = runner[x].job /\ s.mem = v
    <3> HIDE DEF v
    <3> QED
      BY <1>1, <1>2 DEF RunnerState
  <2> QED
    BY <1>3, <2>1, <2>2
<1>4. CASE x \notin Worker
  BY <1>4, IdleIsIdle DEF PersistFails, Quit
<1> QED
  BY <1>3, <1>4

LEMMA FailureKeepsInv ==
  ASSUME Inv, NEW x \in Runner, Failure(x)
  PROVE  Inv'
<1>t. runner[x] \in RunnerState /\ present \subseteq Undoable /\ orphans \subseteq Undoable
      /\ abandoned \subseteq Undoable /\ registered \in BOOLEAN
  BY DEF Inv, TypeOK
<1>1. CASE StepFails(x)
  <2>1. PICK s \in RunnerState :
          /\ runner' = [runner EXCEPT ![x] = s]
          /\ s.pc \in {"close", "undo"}
          /\ s.job = runner[x].job /\ s.mem = runner[x].mem
    BY <1>1, RollBackMoves DEF StepFails
  <2>2. Busy(x) /\ UNCHANGED status /\ runner[x].pc \notin {"start", "catch"}
    BY <1>1 DEF StepFails, Busy
  <2>3. runner[x].pc = "run" /\ Kind[runner[x].at] = "vault" => runner[x].at \in Undoable
    BY DEF Inv, AtStep, Undoable
  <2>4. Rest
    BY <1>t, <1>1, <2>3, FaultCounts DEF StepFails, Rest
  <2> QED
    BY <2>1, <2>2, <2>4, Untouched, RunningFacts
<1>2. CASE SaveFails(x)
  <2>1. PICK s \in RunnerState :
          /\ runner' = [runner EXCEPT ![x] = s]
          /\ s.pc \in {"close", "undo"}
          /\ s.job = runner[x].job /\ s.mem = runner[x].mem
    BY <1>2, RollBackMoves DEF SaveFails
  <2>2. /\ Busy(x) /\ Rest /\ runner[x].mem = "running"
        /\ runner[x].pc \notin {"start", "catch"}
    BY <1>2, <1>t, FaultCounts, RunningFacts DEF SaveFails, Busy, Rest
  <2>3. CASE UNCHANGED status
    BY <2>1, <2>2, <2>3, Untouched
  <2>4. CASE Persist(x, "running")
    BY <2>1, <2>2, <2>4, Written DEF JobStatus
  <2> QED
    BY <1>2, <2>2, <2>3, <2>4 DEF SaveFails
<1>3. CASE UndoFails(x)
  <2>1. PICK i \in Undoable :
          /\ NextUndo(x, i) /\ Fault
          /\ orphans' = orphans \cup {i}
          /\ UNCHANGED <<status, registered, present, abandoned>>
    BY <1>3 DEF UndoFails
  <2>2. PICK s \in RunnerState :
          /\ runner' = [runner EXCEPT ![x] = s]
          /\ s.pc \in {"close", "undo"}
          /\ s.job = runner[x].job /\ s.mem = runner[x].mem
    BY <2>1, NextUndoMoves
  <2>3. Busy(x) /\ UNCHANGED status /\ Rest /\ runner[x].pc \notin {"start", "catch"}
    BY <2>1, <1>t, FaultCounts DEF NextUndo, Busy, Rest
  <2> QED
    BY <2>2, <2>3, Untouched, RunningFacts
<1>4. CASE PersistFails(x)
  <2> DEFINE v == NextStatus(x)
  <2>1. Busy(x) /\ Rest /\ v \in JobStatus \ {"pending"}
    BY <1>4, <1>t, FaultCounts, UnattendedIsUndoable, NextStatusFacts
    DEF PersistFails, Busy, Rest
  <2>2. PICK s \in RunnerState :
          /\ runner' = [runner EXCEPT ![x] = s]
          /\ s.pc \in {"idle", "catch"}
          /\ s.pc = "catch" => x \in Worker /\ s.job = runner[x].job /\ s.mem = v
    BY <1>4, PersistFailsMoves
  <2>3. TypeOK'
    <3>1. status' \in [Job -> {"none"} \cup JobStatus]
      BY <1>4, <2>1, PersistIsTyped DEF PersistFails, Inv, TypeOK
    <3> QED
      BY <2>1, <2>2, <3>1, TypeFrame DEF Rest, Inv, TypeOK
  <2>4. Holding(x) /\ runner[x].pc \in {"start", "mark", "close"}
    BY <1>4 DEF PersistFails, Inv
  <2>5. s.pc # "idle" => s.job = runner[x].job /\ Held(x, s) /\ Agrees(s, v)
    BY <2>1, <2>2, <2>4 DEF Holding, Held, Agrees
  <2>6. CASE Persist(x, v)
    BY <2>1, <2>2, <2>3, <2>5, <2>6, MoveKeepsOwnership DEF Moves, Persist, Rest
  <2>7. CASE UNCHANGED status
    <3>1. ASSUME s.pc = "catch", s.job \notin shared PROVE Agrees(s, status[s.job])
      <4>1. s.job = runner[x].job /\ s.mem = v /\ status[s.job] = runner[x].mem
        BY <2>1, <2>2, <2>4, <3>1 DEF Holding, Agrees
      <4>2. runner[x].mem = "running"
        BY <2>1, <2>2, <2>4, <3>1 DEF Holding, Held
      <4> QED
        BY <3>1, <4>1, <4>2 DEF Agrees
    <3> QED
      BY <2>1, <2>2, <2>3, <2>5, <2>7, <3>1, RowUntouched DEF Rest
  <2> QED
    BY <1>4, <2>6, <2>7 DEF PersistFails
<1>5. CASE Crash(x)
  <2>1. Busy(x) /\ UNCHANGED status /\ Rest /\ runner' = [runner EXCEPT ![x] = Idle]
    BY <1>5, <1>t, FaultCounts, UnattendedIsUndoable DEF Crash, Rest, Quit
  <2> QED
    BY <2>1, IdleIsIdle, Untouched
<1> QED
  BY <1>1, <1>2, <1>3, <1>4, <1>5 DEF Failure

LEMMA DeleteKeepsInv ==
  ASSUME Inv, DeleteApplication
  PROVE  Inv'
<1>1. UNCHANGED <<status, runner, orphans, abandoned, overlapped, shared, faults>>
      /\ registered' = FALSE /\ present' = present \ Rows
  BY DEF DeleteApplication, ghosts
<1>2. TypeOK'
  BY <1>1 DEF Inv, TypeOK
<1> QED
  BY <1>1, <1>2 DEF Inv, AtStep, Holding, OwnedOnce, Busy

LEMMA StepKeepsInv ==
  ASSUME Inv, [Next]_vars
  PROVE  Inv'
<1>1. CASE Next
  BY <1>1, ApiKeepsInv, DeleteKeepsInv, WorkerLoopKeepsInv, StepRunnerKeepsInv, FailureKeepsInv
  DEF Next
<1>2. CASE UNCHANGED vars
  BY <1>2 DEF vars, ghosts, Inv, TypeOK, AtStep, Holding, OwnedOnce, Busy
<1> QED
  BY <1>1, <1>2

LEMMA AlwaysInv == Spec => []Inv
<1>1. Inv /\ [Next]_vars => Inv'
  BY StepKeepsInv
<1> QED
  BY <1>1, InitInv, PTL DEF Spec

-----------------------------------------------------------------------------
(***************************************************************************)
(* Type correctness of jobs, runners and resources.                        *)
(***************************************************************************)
THEOREM TypeCorrect == Spec => []TypeOK
  BY AlwaysInv, PTL DEF Inv

-----------------------------------------------------------------------------
(* JOB_STATES, at the two states from which there is a way out.            *)
LEMMA JobTransitions ==
  /\ LegalTransition(JOB_STATES, "pending", "running")
  /\ \A v \in {"succeeded", "failed", "rolled_back"} :
       LegalTransition(JOB_STATES, "running", v)
<1>1. JOB_STATES["pending"] = {"running"}
  BY DEF JOB_STATES, JobStatus
<1>2. JOB_STATES["running"] = {"succeeded", "failed", "rolled_back"}
  BY DEF JOB_STATES, JobStatus
<1> QED
  BY <1>1, <1>2 DEF LegalTransition

Stands(j) ==
  \/ LegalMove(j)
  \/ j \in shared
  \/ status'[j] = "failed" /\ \E w \in Worker : NotHeard(w, j)

(* Only an insertion makes a row pending.                                  *)
Advances(j) ==
  \/ status'[j] = status[j]
  \/ status'[j] \in JobStatus \ {"pending"}
  \/ status[j] = "none" /\ status'[j] = "pending"

(* A runner's write of its own row, from what its object says.             *)
LEMMA PersistMovesLegally ==
  ASSUME Inv, NEW x \in Runner, Busy(x), runner[x].pc # "catch",
         NEW v \in JobStatus \ {"pending"}, Persist(x, v),
         v # "running" => runner[x].mem = "running"
  PROVE  \A j \in Job : Stands(j) /\ Advances(j)
<1>1. /\ runner[x].job \notin shared => status[runner[x].job] = runner[x].mem
      /\ runner[x].mem \in {"pending", "running"}
      /\ runner[x].job \in Job
  BY DEF Inv, Holding, Held, Agrees
<1>2. \A j \in Job : status'[j] = IF j = runner[x].job THEN v ELSE status[j]
  BY <1>1 DEF Inv, TypeOK, Persist
<1> QED
  BY <1>1, <1>2, JobTransitions DEF Stands, Advances, LegalMove, JobStatus

LEMMA StepMovesLegally ==
  ASSUME Inv, Next
  PROVE  \A j \in Job : Stands(j) /\ Advances(j)
<1>1. CASE UNCHANGED status
  BY <1>1 DEF Stands, Advances, LegalMove
<1>2. CASE \E c \in Caller, k \in Job : CreateJob(c, k)
  <2>1. PICK k \in Job : status[k] = "none" /\ status' = [status EXCEPT ![k] = "pending"]
    BY <1>2 DEF CreateJob
  <2> QED
    BY <2>1 DEF Stands, Advances, LegalMove, Inv, TypeOK, JobStatus
<1>3. CASE \E w \in Worker, k \in Job : Claim(w, k)
  <2>1. PICK k \in Job : status[k] = "pending" /\ status' = [status EXCEPT ![k] = "running"]
    BY <1>3 DEF Claim
  <2>2. \A j \in Job : status'[j] = IF j = k THEN "running" ELSE status[j]
    BY <2>1 DEF Inv, TypeOK
  <2> QED
    BY <2>1, <2>2, JobTransitions DEF Stands, Advances, LegalMove, JobStatus
<1>4. CASE \E w \in Worker : CatchError(w) /\ ~UNCHANGED status
  <2>1. PICK w \in Worker : CatchError(w) /\ ~UNCHANGED status
    BY <1>4
  <2>2. /\ w \in Runner /\ Busy(w) /\ runner[w].pc = "catch"
        /\ status' = [status EXCEPT ![runner[w].job] = "failed"]
    BY <2>1 DEF CatchError, Runner, Busy
  <2>3. /\ runner[w].job \in Job
        /\ runner[w].job \notin shared =>
             status[runner[w].job] = runner[w].mem \/ status[runner[w].job] = "running"
    BY <2>2 DEF Inv, Holding, Held, Agrees
  <2>4. \A j \in Job : status'[j] = IF j = runner[w].job THEN "failed" ELSE status[j]
    BY <2>2, <2>3 DEF Inv, TypeOK
  <2> QED
    BY <2>2, <2>3, <2>4, JobTransitions DEF Stands, Advances, LegalMove, NotHeard, JobStatus
<1>5. CASE \E x \in Runner : Start(x) \/ MarkStep(x) \/ SaveStep(x)
  <2>1. PICK x \in Runner : Start(x) \/ MarkStep(x) \/ SaveStep(x)
    BY <1>5
  <2>2. Busy(x) /\ runner[x].pc # "catch"
    BY <2>1 DEF Start, MarkStep, SaveStep, Busy
  <2>3. Persist(x, "running")
    BY <2>1, <2>2, RunningFacts DEF Start, MarkStep, SaveStep
  <2> QED
    BY <2>2, <2>3, PersistMovesLegally DEF JobStatus
<1>6. CASE \E x \in Runner : CloseFailed(x) \/ CloseSucceeded(x)
  <2>1. PICK x \in Runner : CloseFailed(x) \/ CloseSucceeded(x)
    BY <1>6
  <2>2. Busy(x) /\ runner[x].mem = "running" /\ runner[x].pc # "catch"
    BY <2>1, RunningFacts DEF CloseFailed, CloseSucceeded, Busy
  <2>3. PICK v \in {"succeeded", "failed", "rolled_back"} : Persist(x, v)
    BY <2>1 DEF CloseFailed, CloseSucceeded, Verdict
  <2> QED
    BY <2>2, <2>3, PersistMovesLegally DEF JobStatus
<1>7. CASE \E x \in Runner : (SaveFails(x) \/ PersistFails(x)) /\ ~UNCHANGED status
  <2>1. PICK x \in Runner : (SaveFails(x) \/ PersistFails(x)) /\ ~UNCHANGED status
    BY <1>7
  <2>2. Busy(x) /\ runner[x].pc # "catch"
    BY <2>1 DEF SaveFails, PersistFails, Busy
  <2>3. CASE SaveFails(x)
    <3>1. Persist(x, "running")
      BY <2>1, <2>2, <2>3, RunningFacts DEF SaveFails
    <3> QED
      BY <2>2, <3>1, PersistMovesLegally DEF JobStatus
  <2>4. CASE PersistFails(x)
    <3>1. Persist(x, NextStatus(x)) /\ runner[x].pc \in {"start", "mark", "close"}
      BY <2>1, <2>4 DEF PersistFails
    <3> QED
      BY <2>2, <3>1, NextStatusFacts, PersistMovesLegally
  <2> QED
    BY <2>1, <2>3, <2>4
<1> QED
  BY <1>1, <1>2, <1>3, <1>4, <1>5, <1>6, <1>7
  DEF Next, DeleteApplication, WorkerLoop, Dispatch, StepRunner, LookUp, RunStep,
      StepRejected, Undo, Failure, StepFails, UndoFails, Crash

(***************************************************************************)
(* In every deployment, queue mode or not, a job row leaves the paths of   *)
(* JOB_STATES only when two runners have had the job at once, or in the    *)
(* catch of a worker that did not hear that its verdict was stored.        *)
(***************************************************************************)
THEOREM VerdictsAreKept == Spec => VerdictsStand
<1>1. Inv /\ [Next]_vars =>
        [\A j \in Job :
           \/ LegalMove(j)
           \/ j \in shared
           \/ status'[j] = "failed" /\ \E w \in Worker : NotHeard(w, j)]_vars
  BY StepMovesLegally DEF Stands
<1> QED
  BY <1>1, AlwaysInv, PTL DEF Spec, VerdictsStand

-----------------------------------------------------------------------------
(* No two runners have had one job.                                        *)
Unshared == shared = {}

LEMMA UnsharedFacts ==
  ASSUME Inv, Unshared, NEW x \in Runner, Busy(x)
  PROVE  /\ runner[x].job \in Job
         /\ runner[x].pc # "catch" => status[runner[x].job] = runner[x].mem
         /\ status[runner[x].job] \in {"running", runner[x].mem}
  BY DEF Unshared, Inv, Holding, Held, Agrees, JobStatus

LEMMA UnsharedRunsOnce ==
  ASSUME Inv, Unshared, NEW x \in Runner, NEW y \in Runner, x # y, Busy(x), Busy(y)
  PROVE  runner[x].job # runner[y].job
  BY DEF Unshared, Inv, OwnedOnce

-----------------------------------------------------------------------------
(***************************************************************************)
(* What a run knows and what it leaves.  The invariants below are about    *)
(* resources, so the steps of a runner are sorted by what they do to them, *)
(* and each invariant is then a case split over six effects.               *)
(***************************************************************************)
Active == {"mark", "look", "run", "save"}

(* What x will still delete should it, or did it, fail.                    *)
Attending(x) ==
  LET mine == {i \in Undoable : Kind[i] = "vault" \/ i \in runner[x].fresh}
  IN  CASE runner[x].pc \in Active -> runner[x].done \cap mine
        [] runner[x].pc = "undo"   -> runner[x].todo \cap mine
        [] OTHER -> {}

Succeeded == \E j \in Job : status[j] = "succeeded"

(* Only one runner is busy unless two have been.                           *)
Alone == ~overlapped => \A x, y \in Runner : Busy(x) /\ Busy(y) => x = y

(* Every step before the one a run is at has been done.                    *)
Reached(x) ==
  /\ runner[x].pc \in {"dispatch", "start"} => runner[x].done = {} /\ runner[x].fresh = {}
  /\ runner[x].pc \in Active =>
       runner[x].at >= 1 /\ \A i \in Step : i < runner[x].at => i \in runner[x].done
  /\ runner[x].pc = "save" => runner[x].at \in runner[x].done

(* A run that does not overlap finds what it looked up still as it was.    *)
LookedUp(x) ==
  ~overlapped /\ registered /\ runner[x].pc = "run" /\ Kind[runner[x].at] = "upsert" =>
    runner[x].at \in runner[x].fresh \cup present

(* A resource that is there has someone to delete it, or an excuse.        *)
Accounted(i) ==
  \/ i \in orphans \cup abandoned
  \/ overlapped /\ Kind[i] = "upsert"
  \/ Succeeded
  \/ \E x \in Runner : i \in Attending(x)

RowsKept ==
  ~overlapped /\ registered =>
    /\ Succeeded => /\ Rows \subseteq present
                    /\ \A x \in Runner : runner[x].pc \in Active \cup {"undo"} =>
                         runner[x].fresh \cap Rows = {}
    /\ \A x \in Runner :
         runner[x].pc \in Active => runner[x].done \cap Rows \subseteq present

NothingMissing ==
  registered /\ (\A k \in Job : Undisturbed(k)) =>
    /\ Succeeded => Undoable \subseteq present
    /\ \A x \in Runner :
         runner[x].pc \in Active => runner[x].done \cap Undoable \subseteq present

(* A worker about to overrule its own success has left everything behind.  *)
GivenUp(x) ==
  runner[x].pc = "catch" /\ runner[x].mem = "succeeded" => Undoable \subseteq abandoned

ResourceInv ==
  /\ Unshared
  /\ Alone
  /\ \A x \in Runner : Reached(x) /\ LookedUp(x) /\ GivenUp(x)
  /\ \A i \in present : Accounted(i)
  /\ RowsKept
  /\ NothingMissing

-----------------------------------------------------------------------------
(* The six effects of a step of runner x, which ends in the state s.       *)

GoesOn(x, s) ==
  /\ runner[x].pc \in {"dispatch", "start", "mark", "look", "save"}
  /\ UNCHANGED <<present, orphans, abandoned>>
  /\ s.done = runner[x].done /\ s.job = runner[x].job
  /\ s.fresh = IF runner[x].pc = "look"
               THEN FreshAfter(x, runner[x].at) ELSE runner[x].fresh
  /\ \/ runner[x].pc = "dispatch" /\ s.pc = "start"
     \/ runner[x].pc = "start" /\ s.pc = "mark" /\ s.at = 1
     \/ /\ runner[x].pc = "mark" /\ s.pc \in {"look", "run"}
        /\ s.at = runner[x].at
        /\ s.pc = "run" => Kind[s.at] # "upsert"
     \/ runner[x].pc = "look" /\ s.pc = "run" /\ s.at = runner[x].at
     \/ runner[x].pc = "save" /\ s.pc = "mark" /\ s.at = runner[x].at + 1

Runs(x, s) ==
  LET i == runner[x].at
  IN  /\ runner[x].pc = "run" /\ s.pc = "save"
      /\ UNCHANGED <<orphans, abandoned>>
      /\ s.at = i /\ s.job = runner[x].job
      /\ s.done = runner[x].done \cup {i}
      /\ s.fresh = IF Kind[i] = "upsert" THEN runner[x].fresh ELSE FreshAfter(x, i)
      /\ i \in Rows => registered
      /\ present' = present \cup ({i} \cap Undoable)

TurnsBack(x, s) ==
  /\ runner[x].pc \in Active
  /\ s.todo = runner[x].done \cap Undoable
  /\ s.fresh = runner[x].fresh /\ s.job = runner[x].job
  /\ s.pc = IF s.todo = {} THEN "close" ELSE "undo"
  /\ present \subseteq present' /\ present' \subseteq present \cup orphans'
  /\ orphans \subseteq orphans'
  /\ UNCHANGED abandoned

Undoes(x, s) ==
  \E i \in Undoable :
    /\ runner[x].pc = "undo"
    /\ s.todo = runner[x].todo \ {i}
    /\ s.fresh = runner[x].fresh /\ s.job = runner[x].job
    /\ s.pc = IF s.todo = {} THEN "close" ELSE "undo"
    /\ orphans \subseteq orphans'
    /\ \/ i \in orphans' /\ UNCHANGED present
       \/ present' = IF Kind[i] = "vault" \/ i \in runner[x].fresh
                     THEN present \ {i} ELSE present
    /\ UNCHANGED abandoned

Leaves(x, s) ==
  /\ s.pc = "idle" \/ (s.pc = "catch" /\ PersistFails(x))
  /\ UNCHANGED <<present, orphans>>
  /\ abandoned \cup Attending(x) \subseteq abandoned'

Succeeds(x, s) ==
  /\ runner[x].pc = "mark" /\ runner[x].at \notin Step
  /\ s.pc = "idle"
  /\ status' = [status EXCEPT ![runner[x].job] = "succeeded"]
  /\ UNCHANGED <<present, orphans, abandoned>>

RunnerEffect(x) ==
  \E s \in RunnerState :
    /\ Busy(x)
    /\ runner' = [runner EXCEPT ![x] = s]
    /\ UNCHANGED <<registered, overlapped>>
    /\ \/ GoesOn(x, s) \/ Runs(x, s) \/ TurnsBack(x, s)
       \/ Undoes(x, s) \/ Leaves(x, s) \/ Succeeds(x, s)

(* What a run will delete is among what it leaves unattended if it ends.   *)
LEMMA AttendingIsUnattended ==
  ASSUME NEW x \in Runner
  PROVE  Attending(x) \subseteq Unattended(x)
  BY DEF Attending, Unattended, Active

(* A rollback turns back.                                                  *)
LEMMA RollBackTurns ==
  ASSUME Inv, NEW x \in Runner, RollBack(x), runner[x].pc \in Active,
         present \subseteq present', present' \subseteq present \cup orphans',
         orphans \subseteq orphans', UNCHANGED <<registered, overlapped, abandoned>>
  PROVE  RunnerEffect(x)
<1> DEFINE todo == runner[x].done \cap Undoable
           s == [runner[x] EXCEPT !.pc = IF todo = {} THEN "close" ELSE "undo", !.todo = todo]
<1>1. runner[x] \in RunnerState
  BY RunnerFacts
<1>2. /\ s \in RunnerState
      /\ s.pc = IF todo = {} THEN "close" ELSE "undo"
      /\ s.todo = todo /\ s.fresh = runner[x].fresh /\ s.job = runner[x].job
  BY <1>1 DEF RunnerState
<1>3. runner' = [runner EXCEPT ![x] = s] /\ Busy(x)
  BY DEF RollBack, Busy, Active
<1> HIDE DEF s
<1>4. TurnsBack(x, s)
  BY <1>2 DEF TurnsBack
<1> QED
  BY <1>2, <1>3, <1>4 DEF RunnerEffect

(* One undo, attempted.                                                    *)
LEMMA NextUndoUndoes ==
  ASSUME Inv, NEW x \in Runner, NEW i \in Undoable, NextUndo(x, i),
         orphans \subseteq orphans', UNCHANGED <<registered, overlapped, abandoned>>,
         \/ i \in orphans' /\ UNCHANGED present
         \/ present' = IF Kind[i] = "vault" \/ i \in runner[x].fresh
                       THEN present \ {i} ELSE present
  PROVE  RunnerEffect(x)
<1> DEFINE todo == runner[x].todo \ {i}
           s == [runner[x] EXCEPT !.pc = IF todo = {} THEN "close" ELSE "undo", !.todo = todo]
<1>1. runner[x] \in RunnerState
  BY RunnerFacts
<1>2. /\ s \in RunnerState
      /\ s.pc = IF todo = {} THEN "close" ELSE "undo"
      /\ s.todo = todo /\ s.fresh = runner[x].fresh /\ s.job = runner[x].job
  BY <1>1 DEF RunnerState
<1>3. runner' = [runner EXCEPT ![x] = s] /\ Busy(x) /\ runner[x].pc = "undo"
  BY DEF NextUndo, Busy
<1> HIDE DEF s
<1>4. Undoes(x, s)
  BY <1>2, <1>3 DEF Undoes
<1> QED
  BY <1>2, <1>3, <1>4 DEF RunnerEffect

(* Leaving, to be idle.                                                    *)
LEMMA QuitLeaves ==
  ASSUME Inv, NEW x \in Runner, Busy(x), Quit(x),
         UNCHANGED <<registered, overlapped, present, orphans>>,
         abandoned \cup Attending(x) \subseteq abandoned'
  PROVE  RunnerEffect(x)
<1>1. Leaves(x, Idle)
  BY IdleIsIdle DEF Leaves
<1> QED
  BY <1>1, IdleIsIdle DEF RunnerEffect, Quit

(* Every step of a runner that holds a job has one of the six effects.     *)
LEMMA StepRunnerEffects ==
  ASSUME Inv, NEW x \in Runner, StepRunner(x)
  PROVE  RunnerEffect(x)
<1> USE DEF ghosts, Active
<1>t. runner[x] \in RunnerState /\ present \subseteq Undoable /\ "running" \in JobStatus
  BY DEF Inv, TypeOK, JobStatus
<1>1. CASE Start(x)
  <2> DEFINE s == [runner[x] EXCEPT !.pc = "mark", !.mem = "running", !.at = 1]
  <2>1. /\ s \in RunnerState /\ s.pc = "mark" /\ s.at = 1 /\ s.job = runner[x].job
        /\ s.done = runner[x].done /\ s.fresh = runner[x].fresh
    BY <1>t DEF RunnerState
  <2>2. runner' = [runner EXCEPT ![x] = s] /\ Busy(x)
    BY <1>1 DEF Start, Busy
  <2> HIDE DEF s
  <2>3. GoesOn(x, s)
    BY <1>1, <2>1 DEF GoesOn, Start
  <2> QED
    BY <1>1, <2>1, <2>2, <2>3 DEF RunnerEffect, Start
<1>2. CASE MarkStep(x)
  <2> DEFINE pc == IF Kind[runner[x].at] = "upsert" THEN "look" ELSE "run"
             s == [runner[x] EXCEPT !.pc = pc]
  <2>1. /\ s \in RunnerState /\ s.pc = pc /\ s.at = runner[x].at /\ s.job = runner[x].job
        /\ s.done = runner[x].done /\ s.fresh = runner[x].fresh
    BY <1>t DEF RunnerState
  <2>2. runner' = [runner EXCEPT ![x] = s] /\ Busy(x)
    BY <1>2 DEF MarkStep, GoTo, Busy
  <2> HIDE DEF s
  <2>3. GoesOn(x, s)
    BY <1>2, <2>1 DEF GoesOn, MarkStep
  <2> QED
    BY <1>2, <2>1, <2>2, <2>3 DEF RunnerEffect, MarkStep
<1>3. CASE LookUp(x)
  <2> DEFINE fresh == FreshAfter(x, runner[x].at)
             s == [runner[x] EXCEPT !.pc = "run", !.fresh = fresh]
  <2>1. runner[x].at \in Step
    BY <1>3 DEF LookUp, Inv, AtStep
  <2>2. fresh \in SUBSET Step
    BY <1>t, <2>1 DEF FreshAfter, RunnerState
  <2>3. /\ s \in RunnerState /\ s.pc = "run" /\ s.at = runner[x].at
        /\ s.job = runner[x].job /\ s.done = runner[x].done /\ s.fresh = fresh
    <3> HIDE DEF fresh
    <3> QED
      BY <1>t, <2>2 DEF RunnerState
  <2>4. runner' = [runner EXCEPT ![x] = s] /\ Busy(x)
    BY <1>3, <1>t DEF LookUp, Busy, RunnerState
  <2> HIDE DEF s
  <2>5. GoesOn(x, s)
    BY <1>3, <2>3 DEF GoesOn, LookUp
  <2> QED
    BY <1>3, <2>3, <2>4, <2>5 DEF RunnerEffect, LookUp
<1>4. CASE RunStep(x)
  <2> DEFINE i == runner[x].at
             fresh == IF Kind[i] = "upsert" THEN runner[x].fresh ELSE FreshAfter(x, i)
             done == runner[x].done \cup {i}
             s == [runner[x] EXCEPT !.pc = "save", !.done = done, !.fresh = fresh]
  <2>1. i \in Step
    BY <1>4 DEF RunStep, Inv, AtStep
  <2>2. fresh \in SUBSET Step /\ done \in SUBSET Step
    BY <1>t, <2>1 DEF FreshAfter, RunnerState
  <2>3. /\ s \in RunnerState /\ s.pc = "save" /\ s.at = runner[x].at
        /\ s.job = runner[x].job /\ s.done = done /\ s.fresh = fresh
    <3> HIDE DEF fresh, done
    <3> QED
      BY <1>t, <2>2 DEF RunnerState
  <2>4. runner' = [runner EXCEPT ![x] = s] /\ Busy(x)
    BY <1>4, <1>t DEF RunStep, Busy, RunnerState
  <2> HIDE DEF s
  <2>5. Runs(x, s)
    BY <1>4, <2>3 DEF Runs, RunStep
  <2> QED
    BY <1>4, <2>3, <2>4, <2>5 DEF RunnerEffect, RunStep
<1>5. CASE StepRejected(x)
  BY <1>5, RollBackTurns DEF StepRejected
<1>6. CASE SaveStep(x)
  <2> DEFINE s == [runner[x] EXCEPT !.pc = "mark", !.at = runner[x].at + 1]
  <2>1. /\ s \in RunnerState /\ s.pc = "mark" /\ s.at = runner[x].at + 1
        /\ s.job = runner[x].job
        /\ s.done = runner[x].done /\ s.fresh = runner[x].fresh
    <3>1. runner[x].at + 1 \in Nat
      BY <1>t DEF RunnerState
    <3> QED
      BY <1>t, <3>1 DEF RunnerState
  <2>2. runner' = [runner EXCEPT ![x] = s] /\ Busy(x)
    BY <1>6 DEF SaveStep, Busy
  <2> HIDE DEF s
  <2>3. GoesOn(x, s)
    BY <1>6, <2>1 DEF GoesOn, SaveStep
  <2> QED
    BY <1>6, <2>1, <2>2, <2>3 DEF RunnerEffect, SaveStep
<1>7. CASE Undo(x)
  BY <1>7, NextUndoUndoes DEF Undo
<1>8. CASE CloseFailed(x)
  <2>1. Busy(x) /\ Attending(x) = {}
    BY <1>8 DEF CloseFailed, Busy, Attending
  <2> QED
    BY <1>8, <2>1, QuitLeaves DEF CloseFailed
<1>9. CASE CloseSucceeded(x)
  <2>1. /\ runner' = [runner EXCEPT ![x] = Idle] /\ Idle \in RunnerState /\ Busy(x)
        /\ UNCHANGED <<registered, overlapped>>
    BY <1>9, IdleIsIdle DEF CloseSucceeded, Quit, Busy
  <2>2. Succeeds(x, Idle)
    BY <1>9, IdleIsIdle DEF CloseSucceeded, Succeeds, Persist
  <2> QED
    BY <2>1, <2>2 DEF RunnerEffect
<1> QED
  BY <1>1, <1>2, <1>3, <1>4, <1>5, <1>6, <1>7, <1>8, <1>9 DEF StepRunner

LEMMA FailureEffects ==
  ASSUME Inv, NEW x \in Runner, Failure(x)
  PROVE  RunnerEffect(x)
<1> USE DEF Fault
<1>1. CASE StepFails(x)
  BY <1>1, RollBackTurns DEF StepFails, Active
<1>2. CASE SaveFails(x)
  BY <1>2, RollBackTurns DEF SaveFails, Active
<1>3. CASE UndoFails(x)
  BY <1>3, NextUndoUndoes DEF UndoFails
<1>4. CASE PersistFails(x)
  <2>1. /\ Busy(x) /\ UNCHANGED <<registered, overlapped, present, orphans>>
        /\ abandoned \cup Attending(x) \subseteq abandoned'
    BY <1>4, AttendingIsUnattended DEF PersistFails, Busy
  <2>2. PICK s \in RunnerState :
          runner' = [runner EXCEPT ![x] = s] /\ s.pc \in {"idle", "catch"}
    BY <1>4, PersistFailsMoves
  <2>3. Leaves(x, s)
    BY <1>4, <2>1, <2>2 DEF Leaves
  <2> QED
    BY <2>1, <2>2, <2>3 DEF RunnerEffect
<1>5. CASE Crash(x)
  BY <1>5, QuitLeaves, AttendingIsUnattended DEF Crash
<1> QED
  BY <1>1, <1>2, <1>3, <1>4, <1>5 DEF Failure

LEMMA LoopEffects ==
  ASSUME Inv, NEW w \in Worker, Dispatch(w) \/ CatchError(w)
  PROVE  RunnerEffect(w)
<1> USE DEF ghosts
<1>0. w \in Runner /\ Busy(w) /\ Attending(w) = {} /\ runner[w] \in RunnerState
  BY RunnerFacts DEF Runner, Dispatch, CatchError, Busy, Attending, Active
<1>1. CASE Dispatch(w) /\ registered
  <2> DEFINE s == [runner[w] EXCEPT !.pc = "start"]
  <2>1. /\ s \in RunnerState /\ s.pc = "start" /\ s.job = runner[w].job
        /\ s.done = runner[w].done /\ s.fresh = runner[w].fresh
    BY <1>0 DEF RunnerState
  <2>2. runner' = [runner EXCEPT ![w] = s]
    BY <1>1 DEF Dispatch, GoTo
  <2> HIDE DEF s
  <2>3. GoesOn(w, s)
    BY <1>1, <2>1 DEF GoesOn, Dispatch
  <2> QED
    BY <1>0, <1>1, <2>1, <2>2, <2>3 DEF RunnerEffect, Dispatch
<1>2. CASE Dispatch(w) /\ ~registered
  BY <1>0, <1>2, QuitLeaves DEF Dispatch
<1>3. CASE CatchError(w)
  BY <1>0, <1>3, QuitLeaves DEF CatchError, Fault
<1> QED
  BY <1>1, <1>2, <1>3

-----------------------------------------------------------------------------
(* Verdicts and disturbance                                                *)

(* A worker takes up pending jobs, a call the one it inserts.              *)
TakesUp(x, u, v) ==
  IF x \in Worker THEN u = "pending" /\ v = "running" ELSE u = "none" /\ v = "pending"

(* Who moves, and what the steps that move no run leave alone.             *)
LEMMA WhoMoves ==
  ASSUME Inv, [Next]_vars
  PROVE  \/ UNCHANGED <<status, registered, present, runner, ghosts>>
         \/ \E j \in Job :
              /\ status[j] = "none"
              /\ status' = [status EXCEPT ![j] = "pending"]
              /\ UNCHANGED <<registered, present, runner, ghosts>>
         \/ \E x \in Runner, j \in Job, pc \in {"start", "dispatch"},
               v \in {"pending", "running"} :
              /\ Begin(x, j, pc, v)
              /\ status[j] \in {"none", "pending"}
              /\ TakesUp(x, status[j], v)
              /\ status' = [status EXCEPT ![j] = v]
         \/ DeleteApplication
         \/ \E x \in Runner : RunnerEffect(x)
<1>1. ASSUME NEW c \in Caller, NEW j \in Job, CreateJob(c, j), ~QueueMode
      PROVE  /\ c \in Runner \ Worker
             /\ Begin(c, j, "start", "pending")
             /\ status[j] = "none" /\ TakesUp(c, "none", "pending")
             /\ status' = [status EXCEPT ![j] = "pending"]
  BY <1>1, ConstantsAssumption DEF CreateJob, Runner, TakesUp
<1>2. ASSUME NEW c \in Caller, NEW j \in Job, CreateJob(c, j), QueueMode
      PROVE  /\ status[j] = "none"
             /\ status' = [status EXCEPT ![j] = "pending"]
             /\ UNCHANGED <<registered, present, runner, ghosts>>
  BY <1>2 DEF CreateJob
<1>3. ASSUME NEW w \in Worker, NEW j \in Job, Claim(w, j)
      PROVE  /\ w \in Runner
             /\ Begin(w, j, "dispatch", "running")
             /\ status[j] = "pending" /\ TakesUp(w, "pending", "running")
             /\ status' = [status EXCEPT ![j] = "running"]
  BY <1>3 DEF Claim, Runner, TakesUp
<1>4. ASSUME NEW w \in Worker, Dispatch(w) \/ CatchError(w)
      PROVE  w \in Runner /\ RunnerEffect(w)
  BY <1>4, LoopEffects DEF Runner
<1>5. ASSUME NEW x \in Runner, StepRunner(x) \/ Failure(x) PROVE RunnerEffect(x)
  BY <1>5, StepRunnerEffects, FailureEffects
<1>6. CASE UNCHANGED vars
  BY <1>6 DEF vars
<1>7. CASE \E c \in Caller, j \in Job : CreateJob(c, j)
  BY <1>1, <1>2, <1>7
<1>8. CASE \E w \in Worker : WorkerLoop(w)
  BY <1>3, <1>4, <1>8 DEF WorkerLoop
<1> QED
  BY <1>5, <1>6, <1>7, <1>8 DEF Next

(* A run that has done every step ends, its success written or not.        *)
Finishes(x) ==
  /\ runner[x].pc = "mark" /\ runner[x].at \notin Step
  /\ runner'[x].pc \in {"idle", "catch"}
  /\ UNCHANGED <<registered, present, overlapped>>

LEMMA EndFinishes ==
  ASSUME Inv, NEW x \in Runner,
         CloseSucceeded(x) \/ (PersistFails(x) /\ NextStatus(x) = "succeeded")
  PROVE  Finishes(x)
<1>1. runner[x] \in RunnerState /\ runner \in [Runner -> RunnerState]
  BY RunnerFacts
<1>2. CASE CloseSucceeded(x)
  BY <1>1, <1>2, IdleIsIdle DEF CloseSucceeded, Quit, Finishes, ghosts
<1>3. CASE PersistFails(x) /\ NextStatus(x) = "succeeded"
  <2>1. runner'[x].pc \in {"idle", "catch"}
    BY <1>1, <1>3, PersistFailsMoves
  <2> QED
    BY <1>3, <2>1, NextStatusFacts DEF PersistFails, Fault, Finishes
<1> QED
  BY <1>2, <1>3

(* Success is written by a run that is done, and overruled by its worker.  *)
LEMMA VerdictsLast ==
  ASSUME Inv, Unshared, [Next]_vars, NEW j \in Job
  PROVE  /\ status[j] = "succeeded" =>
              \/ status'[j] = "succeeded"
              \/ \E w \in Runner : runner[w].pc = "catch" /\ runner[w].mem = "succeeded"
         /\ status[j] \in {"running", "failed", "rolled_back"} =>
              \/ status'[j] \in {"running", "failed", "rolled_back"}
              \/ /\ status'[j] = "succeeded"
                 /\ \E x \in Runner : Finishes(x) /\ runner[x].job = j
         /\ status[j] = "pending" => status'[j] # "succeeded"
         /\ status[j] = "none" => status'[j] # "succeeded"
<1>1. CASE UNCHANGED status
  BY <1>1
<1>2. ASSUME NEW k \in Job, status[k] \in {"none", "pending"},
             NEW v \in {"pending", "running"}, status' = [status EXCEPT ![k] = v]
      PROVE  /\ status[j] \notin {"none", "pending"} => status'[j] = status[j]
             /\ status[j] \in {"none", "pending"} => status'[j] # "succeeded"
  BY <1>2 DEF Inv, TypeOK
<1>3. ASSUME NEW x \in Runner, Busy(x), runner[x].pc # "catch", NEW v \in JobStatus,
             Persist(x, v)
      PROVE  /\ j # runner[x].job => status'[j] = status[j]
             /\ j = runner[x].job => status'[j] = v /\ status[j] = runner[x].mem
                                     /\ status[j] \in {"pending", "running"}
  <2>1. /\ runner[x].job \in Job /\ status[runner[x].job] = runner[x].mem
        /\ runner[x].mem \in {"pending", "running"}
    BY <1>3, UnsharedFacts DEF Inv, Holding, Held
  <2> QED
    BY <1>3, <2>1 DEF Inv, TypeOK, Persist
<1>4. ASSUME NEW x \in Runner, Start(x) \/ MarkStep(x) \/ SaveStep(x) \/ SaveFails(x),
             ~UNCHANGED status
      PROVE  Busy(x) /\ runner[x].pc # "catch" /\ Persist(x, "running")
  BY <1>4, RunningFacts DEF Start, MarkStep, SaveStep, SaveFails, Busy
<1>5. ASSUME NEW x \in Runner, CloseFailed(x)
      PROVE  /\ Busy(x) /\ runner[x].pc # "catch"
             /\ \E v \in {"failed", "rolled_back"} : Persist(x, v)
  BY <1>5 DEF CloseFailed, Verdict, Busy
<1>6. ASSUME NEW x \in Runner,
             \/ CloseSucceeded(x)
             \/ PersistFails(x) /\ NextStatus(x) = "succeeded" /\ ~UNCHANGED status
      PROVE  /\ Busy(x) /\ runner[x].pc # "catch" /\ Persist(x, "succeeded")
             /\ Finishes(x) /\ runner[x].mem = "running"
  <2>1. Busy(x) /\ runner[x].pc = "mark" /\ Persist(x, "succeeded")
    BY <1>6, NextStatusFacts DEF CloseSucceeded, PersistFails, Busy
  <2> QED
    BY <1>6, <2>1, RunningFacts, EndFinishes
<1>7. ASSUME NEW x \in Runner, PersistFails(x), NextStatus(x) # "succeeded", ~UNCHANGED status
      PROVE  /\ Busy(x) /\ runner[x].pc # "catch"
             /\ \E v \in {"running", "failed", "rolled_back"} : Persist(x, v)
  <2>1. NextStatus(x) \in {"running", "failed", "rolled_back"}
    BY <1>7, NextStatusFacts DEF PersistFails, JobStatus
  <2> QED
    BY <1>7, <2>1 DEF PersistFails, Busy
<1>8. CASE \E c \in Caller, k \in Job : CreateJob(c, k)
  BY <1>2, <1>8 DEF CreateJob
<1>9. CASE \E w \in Worker, k \in Job : Claim(w, k)
  BY <1>2, <1>9 DEF Claim
<1>10. CASE \E x \in Runner :
              \/ CloseSucceeded(x)
              \/ PersistFails(x) /\ NextStatus(x) = "succeeded" /\ ~UNCHANGED status
  BY <1>3, <1>6, <1>10 DEF JobStatus
<1>11. CASE \E x \in Runner :
              \/ Start(x) \/ MarkStep(x) \/ SaveStep(x) \/ SaveFails(x) \/ CloseFailed(x)
              \/ PersistFails(x) /\ NextStatus(x) # "succeeded"
  BY <1>1, <1>3, <1>4, <1>5, <1>7, <1>11 DEF JobStatus
<1>12. CASE \E w \in Worker : CatchError(w) /\ ~UNCHANGED status
  <2>1. PICK w \in Worker : CatchError(w) /\ ~UNCHANGED status
    BY <1>12
  <2>2. /\ w \in Runner /\ Busy(w) /\ runner[w].pc = "catch"
        /\ status' = [status EXCEPT ![runner[w].job] = "failed"]
    BY <2>1 DEF CatchError, Runner, Busy
  <2>3. /\ runner[w].job \in Job
        /\ status[runner[w].job] \in {"running", runner[w].mem}
        /\ runner[w].mem \in JobStatus
    BY <2>2, UnsharedFacts DEF Inv, Holding, Held
  <2>4. status'[j] = IF j = runner[w].job THEN "failed" ELSE status[j]
    BY <2>2, <2>3 DEF Inv, TypeOK
  <2> QED
    BY <2>2, <2>3, <2>4
<1> QED
  BY <1>1, <1>8, <1>9, <1>10, <1>11, <1>12
  DEF Next, vars, DeleteApplication, WorkerLoop, Dispatch, StepRunner, LookUp, RunStep,
      StepRejected, Undo, Failure, StepFails, UndoFails, Crash

(* Success comes only from a run that is done.                             *)
LEMMA NewSuccess ==
  ASSUME Inv, Unshared, [Next]_vars
  PROVE  /\ Succeeded =>
              \/ Succeeded'
              \/ \E w \in Runner : runner[w].pc = "catch" /\ runner[w].mem = "succeeded"
         /\ Succeeded' => Succeeded \/ \E x \in Runner : Finishes(x)
<1>1. \A j \in Job : status[j] \in {"none"} \cup JobStatus
  BY DEF Inv, TypeOK
<1> QED
  BY <1>1, VerdictsLast DEF Succeeded, JobStatus

(* A job that has been disturbed stays so.                                 *)
LEMMA DisturbedForGood ==
  ASSUME Inv, Unshared, [Next]_vars, NEW k \in Job, Undisturbed(k)'
  PROVE  Undisturbed(k)
<1> DEFINE Under(x) == runner[x].pc \notin {"idle", "undo", "close", "catch"}
<1>1. CASE status[k] \notin {"running", "failed", "rolled_back"}
  BY <1>1 DEF Undisturbed, Inv, TypeOK, JobStatus
<1>2. CASE /\ status[k] \in {"running", "failed", "rolled_back"}
           /\ status'[k] \in {"none", "pending", "succeeded"}
  BY <1>2, VerdictsLast DEF Undisturbed, Finishes
<1>3. CASE /\ status[k] \in {"running", "failed", "rolled_back"}
           /\ \E y \in Runner : runner'[y].job = k /\ Under(y)'
  <2>1. PICK y \in Runner : runner'[y].job = k /\ Under(y)'
    BY <1>3
  <2>2. CASE runner'[y] = runner[y]
    BY <2>1, <2>2 DEF Undisturbed
  <2>3. ASSUME NEW x \in Runner, NEW j \in Job, NEW pc \in {"start", "dispatch"},
               NEW v \in {"pending", "running"}, Begin(x, j, pc, v),
               status[j] \in {"none", "pending"}
        PROVE  runner'[y] = runner[y]
    <3>1. runner' = [runner EXCEPT ![x] = [Idle EXCEPT !.pc = pc, !.job = j, !.mem = v]]
      BY <2>3 DEF Begin
    <3>2. [Idle EXCEPT !.pc = pc, !.job = j, !.mem = v].job = j
      BY DEF Idle
    <3>3. runner \in [Runner -> RunnerState]
      BY RunnerFacts DEF Inv, TypeOK
    <3>4. x # y
      <4> SUFFICES ASSUME x = y PROVE FALSE
        OBVIOUS
      <4>1. runner'[y].job = j
        BY <3>1, <3>2, <3>3
      <4> QED
        BY <1>3, <2>1, <2>3, <4>1
    <3> QED
      BY <3>1, <3>3, <3>4
  <2>4. ASSUME NEW x \in Runner, RunnerEffect(x), x # y PROVE runner'[y] = runner[y]
    BY <2>4 DEF RunnerEffect, Inv, TypeOK
  <2>5. CASE RunnerEffect(y)
    <3>1. PICK s \in RunnerState :
            /\ runner'[y] = s
            /\ \/ GoesOn(y, s) \/ Runs(y, s) \/ TurnsBack(y, s)
               \/ Undoes(y, s) \/ Leaves(y, s) \/ Succeeds(y, s)
      BY <2>5 DEF RunnerEffect, Inv, TypeOK
    <3>2. GoesOn(y, s) \/ Runs(y, s)
      BY <2>1, <3>1 DEF TurnsBack, Undoes, Leaves, Succeeds
    <3>3. runner[y].job = k /\ Under(y)
      BY <2>1, <3>1, <3>2 DEF GoesOn, Runs
    <3> QED
      BY <3>3 DEF Undisturbed
  <2> QED
    BY <2>2, <2>3, <2>4, <2>5, WhoMoves DEF DeleteApplication
<1> QED
  BY <1>1, <1>2, <1>3 DEF Undisturbed

(* The job of a run that is rolling back is disturbed.                     *)
RollingBackDisturbs ==
  \A x \in Runner : runner[x].pc \in {"undo", "close"} =>
    runner[x].job \in Job /\ ~Undisturbed(runner[x].job)

LEMMA RollbackDisturbs == Inv /\ Unshared => RollingBackDisturbs
<1> SUFFICES ASSUME Inv, Unshared, NEW x \in Runner, runner[x].pc \in {"undo", "close"}
             PROVE  runner[x].job \in Job /\ ~Undisturbed(runner[x].job)
  BY DEF RollingBackDisturbs
<1>1. Busy(x) /\ runner[x].job \in Job /\ status[runner[x].job] = "running"
  BY RunningFacts, UnsharedFacts DEF Busy
<1>2. ASSUME NEW y \in Runner, runner[y].job = runner[x].job,
             runner[y].pc \notin {"idle", "undo", "close", "catch"}
      PROVE  FALSE
  BY <1>1, <1>2, UnsharedRunsOnce DEF Busy
<1> QED
  BY <1>1, <1>2 DEF Undisturbed

-----------------------------------------------------------------------------
(* Resources                                                               *)

(* The steps are numbered from 1 and are of the four kinds.                *)
LEMMA StepFacts ==
  /\ Step \subseteq Nat
  /\ \A n \in Nat : n >= 1 /\ n \notin Step => \A i \in Step : i < n
  /\ Rows \subseteq Undoable
  /\ Undoable \subseteq Step
  /\ \A i \in Undoable : Kind[i] \in {"vault", "record", "upsert"}
  /\ \A i \in Step : i >= 1
<1>1. Kind \in Seq({"vault", "record", "upsert", "read"})
  BY ConstantsAssumption
<1>2. Step = 1..Len(Kind) /\ Len(Kind) \in Nat
  BY <1>1 DEF Step
<1>3. \A i \in Step : Kind[i] \in {"vault", "record", "upsert", "read"}
  BY <1>1 DEF Step
<1> QED
  BY <1>2, <1>3 DEF Rows, Undoable

(* A run that is done has done every step.                                 *)
LEMMA DoneEverything ==
  ASSUME Inv, NEW x \in Runner, Reached(x), runner[x].pc = "mark",
         runner[x].at \notin Step
  PROVE  Step \subseteq runner[x].done
<1>1. runner[x] \in RunnerState
  BY RunnerFacts
<1>2. runner[x].at \in Nat /\ runner[x].at >= 1
  BY <1>1 DEF RunnerState, Reached, Active
<1>3. \A i \in Step : i < runner[x].at
  BY <1>2, StepFacts
<1> QED
  BY <1>3 DEF Reached, Active

(* A run that begins holds nothing.                                        *)
LEMMA BeginEffect ==
  ASSUME Inv, NEW x \in Runner, NEW j \in Job, NEW pc \in {"start", "dispatch"},
         NEW v \in {"pending", "running"}, Begin(x, j, pc, v)
  PROVE  /\ runner[x].pc = "idle"
         /\ runner'[x].pc = pc /\ runner'[x].done = {} /\ runner'[x].fresh = {}
         /\ \A y \in Runner \ {x} : runner'[y] = runner[y]
         /\ overlapped' = (overlapped \/ \E y \in Runner : Busy(y))
         /\ UNCHANGED <<registered, present, orphans, abandoned>>
<1> DEFINE s == [Idle EXCEPT !.pc = pc, !.job = j, !.mem = v]
<1>1. s.pc = pc /\ s.done = {} /\ s.fresh = {}
  BY DEF Idle
<1>2. runner' = [runner EXCEPT ![x] = s]
  BY DEF Begin
<1> HIDE DEF s
<1>3. runner'[x] = s /\ \A y \in Runner \ {x} : runner'[y] = runner[y]
  BY <1>2, RunnerFacts
<1> QED
  BY <1>1, <1>3 DEF Begin, Busy

(* The effects, seen from the runner before and after.                     *)
LEMMA EffectFacts ==
  ASSUME Inv, NEW x \in Runner, RunnerEffect(x)
  PROVE  /\ Busy(x)
         /\ runner'[x] \in RunnerState
         /\ \A y \in Runner \ {x} : runner'[y] = runner[y]
         /\ UNCHANGED <<registered, overlapped>>
         /\ \/ GoesOn(x, runner'[x]) \/ Runs(x, runner'[x]) \/ TurnsBack(x, runner'[x])
            \/ Undoes(x, runner'[x]) \/ Leaves(x, runner'[x]) \/ Succeeds(x, runner'[x])
<1>1. PICK s \in RunnerState :
        /\ Busy(x)
        /\ runner' = [runner EXCEPT ![x] = s]
        /\ UNCHANGED <<registered, overlapped>>
        /\ \/ GoesOn(x, s) \/ Runs(x, s) \/ TurnsBack(x, s)
           \/ Undoes(x, s) \/ Leaves(x, s) \/ Succeeds(x, s)
  BY DEF RunnerEffect
<1>2. runner'[x] = s /\ \A y \in Runner \ {x} : runner'[y] = runner[y]
  BY <1>1, RunnerFacts
<1> QED
  BY <1>1, <1>2

(* No second runner becomes busy unnoticed.                                *)
LEMMA AloneStep ==
  ASSUME Inv, Alone, [Next]_vars
  PROVE  Alone'
<1> USE DEF Alone, Busy
<1>1. CASE UNCHANGED <<runner, overlapped>>
  BY <1>1
<1>2. ASSUME NEW x \in Runner, NEW j \in Job, NEW pc \in {"start", "dispatch"},
             NEW v \in {"pending", "running"}, Begin(x, j, pc, v)
      PROVE  Alone'
  <2>1. /\ \A y \in Runner \ {x} : runner'[y] = runner[y]
        /\ overlapped' = (overlapped \/ \E y \in Runner : Busy(y))
    BY <1>2, BeginEffect
  <2> QED
    BY <2>1
<1>3. ASSUME NEW x \in Runner, RunnerEffect(x) PROVE Alone'
  BY <1>3, EffectFacts
<1> QED
  BY <1>1, <1>2, <1>3, WhoMoves DEF DeleteApplication, ghosts

(* A run does its steps in order, and a look stays true.                   *)
LEMMA ReachedStep ==
  ASSUME Inv, Alone, [Next]_vars, \A y \in Runner : Reached(y) /\ LookedUp(y),
         NEW x \in Runner
  PROVE  Reached(x)' /\ LookedUp(x)'
<1>1. ASSUME runner'[x] = runner[x] PROVE Reached(x)'
  BY <1>1 DEF Reached
<1>2. CASE UNCHANGED <<registered, present, runner, ghosts>>
  BY <1>2 DEF Reached, LookedUp, ghosts
<1>3. ASSUME NEW y \in Runner, NEW j \in Job, NEW pc \in {"start", "dispatch"},
             NEW v \in {"pending", "running"}, Begin(y, j, pc, v)
      PROVE  Reached(x)' /\ LookedUp(x)'
  <2>1. CASE x = y
    BY <1>3, <2>1, BeginEffect DEF Reached, LookedUp, Active
  <2>2. CASE x # y
    BY <1>1, <1>3, <2>2, BeginEffect DEF LookedUp, Busy
  <2> QED
    BY <2>1, <2>2
<1>4. CASE DeleteApplication
  BY <1>1, <1>4 DEF DeleteApplication, LookedUp
<1>5. ASSUME NEW y \in Runner, RunnerEffect(y), y # x PROVE Reached(x)' /\ LookedUp(x)'
  <2>1. runner'[x] = runner[x] /\ Busy(y) /\ UNCHANGED overlapped
    BY <1>5, EffectFacts
  <2>2. runner[x].pc = "run" => overlapped
    BY <1>5, <2>1 DEF Alone, Busy
  <2> QED
    BY <1>1, <2>1, <2>2 DEF LookedUp
<1>6. CASE RunnerEffect(x)
  <2> DEFINE s == runner'[x]
  <2>t. /\ runner[x] \in RunnerState /\ Reached(x)
        /\ runner[x].at \in Nat /\ Step \subseteq Nat
        /\ runner[x].pc \in {"look", "run", "save"} => runner[x].at \in Step
    <3>1. runner[x] \in RunnerState
      BY RunnerFacts
    <3>2. runner[x].at \in Nat
      BY <3>1 DEF RunnerState
    <3> QED
      BY <3>1, <3>2, StepFacts DEF Inv, AtStep
  <2>1. CASE GoesOn(x, s)
    <3>1. Reached(x)'
      <4>1. CASE runner[x].pc = "dispatch"
        BY <2>t, <2>1, <4>1 DEF GoesOn, Reached, Active
      <4>2. CASE runner[x].pc = "start"
        <5>1. s.pc = "mark" /\ s.at = 1
          BY <2>1, <4>2 DEF GoesOn
        <5>2. \A i \in Step : ~(i < 1)
          BY StepFacts
        <5> QED
          BY <5>1, <5>2 DEF Reached, Active
      <4>3. CASE runner[x].pc \in {"mark", "look"}
        BY <2>t, <2>1, <4>3 DEF GoesOn, Reached, Active
      <4>4. CASE runner[x].pc = "save"
        <5>1. s.pc = "mark" /\ s.at = runner[x].at + 1 /\ s.done = runner[x].done
          BY <2>1, <4>4 DEF GoesOn
        <5>2. \A i, a \in Nat : i < a + 1 => i < a \/ i = a
          OBVIOUS
        <5>3. \A i \in Step : i < s.at => i < runner[x].at \/ i = runner[x].at
          <6>1. runner[x].at \in Nat /\ Step \subseteq Nat
            BY <2>t
          <6>2. s.at = runner[x].at + 1
            BY <5>1
          <6> HIDE DEF s
          <6> QED
            BY <5>2, <6>1, <6>2
        <5> QED
          BY <2>t, <4>4, <5>1, <5>3 DEF Reached, Active
      <4> QED
        BY <2>1, <4>1, <4>2, <4>3, <4>4 DEF GoesOn
    <3>2. LookedUp(x)'
      BY <2>1 DEF GoesOn, LookedUp, FreshAfter
    <3> QED
      BY <3>1, <3>2
  <2>2. CASE Runs(x, s)
    BY <2>t, <2>2 DEF Runs, Reached, LookedUp, Active
  <2>3. CASE TurnsBack(x, s)
    BY <2>3 DEF TurnsBack, Reached, LookedUp, Active
  <2>4. CASE Undoes(x, s)
    BY <2>4 DEF Undoes, Reached, LookedUp, Active
  <2>5. CASE Leaves(x, s) \/ Succeeds(x, s)
    BY <2>5 DEF Leaves, Succeeds, Reached, LookedUp, Active
  <2> QED
    BY <1>6, <2>1, <2>2, <2>3, <2>4, <2>5, EffectFacts
<1> QED
  BY <1>2, <1>3, <1>4, <1>5, <1>6, WhoMoves

(* What is abandoned remains so, and all is by a success not heard of.     *)
LEMMA GivenUpStep ==
  ASSUME Inv, ResourceInv, [Next]_vars, NEW x \in Runner
  PROVE  abandoned \subseteq abandoned' /\ GivenUp(x)'
<1>1. ASSUME NEW y \in Runner, RunnerEffect(y) PROVE abandoned \subseteq abandoned'
  BY <1>1, EffectFacts DEF GoesOn, Runs, TurnsBack, Undoes, Leaves, Succeeds
<1>2. ASSUME NEW y \in Runner, NEW j \in Job, NEW pc \in {"start", "dispatch"},
             NEW v \in {"pending", "running"}, Begin(y, j, pc, v)
      PROVE  /\ abandoned' = abandoned
             /\ runner'[x].pc = "catch" => runner'[x] = runner[x]
  BY <1>2, BeginEffect
<1>3. abandoned \subseteq abandoned'
  BY <1>1, <1>2, WhoMoves DEF DeleteApplication, ghosts
<1>4. CASE runner'[x] = runner[x]
  BY <1>3, <1>4 DEF ResourceInv, GivenUp
<1>5. CASE RunnerEffect(x) /\ runner'[x].pc = "catch" /\ runner'[x].mem = "succeeded"
  <2>1. PersistFails(x)
    BY <1>5, EffectFacts DEF GoesOn, Runs, TurnsBack, Undoes, Leaves, Succeeds
  <2>3. NextStatus(x) = "succeeded"
    BY <1>5, <2>1, PersistFailsMoves, RunnerFacts
  <2>4. runner[x].pc = "mark" /\ runner[x].at \notin Step
    BY <2>1, <2>3, NextStatusFacts DEF PersistFails
  <2>5. Step \subseteq runner[x].done
    BY <2>4, DoneEverything DEF ResourceInv
  <2> QED
    BY <2>1, <2>4, <2>5, StepFacts DEF PersistFails, Unattended, GivenUp
<1>6. ASSUME NEW y \in Runner, RunnerEffect(y), y # x PROVE runner'[x] = runner[x]
  BY <1>6, EffectFacts
<1>7. CASE runner'[x].pc # "catch" \/ runner'[x].mem # "succeeded"
  BY <1>3, <1>7 DEF GivenUp
<1> QED
  BY <1>2, <1>3, <1>4, <1>5, <1>6, <1>7, WhoMoves DEF DeleteApplication

(* Every resource that is there remains accounted for.                     *)
LEMMA AccountedStep ==
  ASSUME Inv, ResourceInv, [Next]_vars, NEW i \in present'
  PROVE  Accounted(i)'
<1>s. Succeeded => Succeeded' \/ Undoable \subseteq abandoned'
  BY NewSuccess, GivenUpStep DEF ResourceInv, GivenUp
<1>a. ASSUME i \in present, orphans \cup abandoned \subseteq orphans' \cup abandoned',
             overlapped => overlapped',
             \A y \in Runner : i \in Attending(y) => i \in Attending(y)' \cup abandoned'
      PROVE  Accounted(i)'
  <2>1. Accounted(i)
    BY <1>a DEF ResourceInv
  <2>2. i \in Undoable
    BY <1>a DEF Inv, TypeOK
  <2> QED
    BY <1>s, <1>a, <2>1, <2>2 DEF Accounted
<1>y. ASSUME NEW y \in Runner, runner'[y] = runner[y]
      PROVE  Attending(y)' = Attending(y)
  BY <1>y DEF Attending
<1>1. CASE UNCHANGED <<present, runner, orphans, abandoned, overlapped>>
  BY <1>1, <1>a, <1>y
<1>2. ASSUME NEW x \in Runner, NEW j \in Job, NEW pc \in {"start", "dispatch"},
             NEW v \in {"pending", "running"}, Begin(x, j, pc, v)
      PROVE  Accounted(i)'
  <2>1. /\ runner[x].pc = "idle" /\ \A y \in Runner \ {x} : runner'[y] = runner[y]
        /\ UNCHANGED <<present, orphans, abandoned>>
        /\ overlapped => overlapped'
    BY <1>2, BeginEffect
  <2>2. Attending(x) = {}
    BY <2>1 DEF Attending, Active
  <2>3. \A y \in Runner \ {x} : Attending(y)' = Attending(y)
    BY <1>y, <2>1
  <2> QED
    BY <1>a, <2>1, <2>2, <2>3
<1>3. CASE DeleteApplication
  BY <1>3, <1>a, <1>y DEF DeleteApplication, ghosts
<1>4. ASSUME NEW x \in Runner, RunnerEffect(x) PROVE Accounted(i)'
  <2> DEFINE s == runner'[x]
             mine == {k \in Undoable : Kind[k] = "vault" \/ k \in runner[x].fresh}
  <2>1. /\ \A y \in Runner \ {x} : Attending(y)' = Attending(y)
        /\ UNCHANGED <<registered, overlapped>>
    BY <1>4, <1>y, EffectFacts
  <2>2. CASE GoesOn(x, s)
    <3>1. Attending(x) \subseteq Attending(x)'
      BY <2>2 DEF GoesOn, Attending, Active, FreshAfter
    <3> QED
      BY <1>a, <2>1, <2>2, <3>1 DEF GoesOn
  <2>3. CASE Runs(x, s)
    <3>1. runner[x].fresh \subseteq s.fresh
      BY <2>3 DEF Runs, FreshAfter
    <3>2. Attending(x) \subseteq Attending(x)'
      BY <2>3, <3>1 DEF Runs, Attending, Active
    <3>3. CASE i \in present
      BY <1>a, <2>1, <2>3, <3>2, <3>3 DEF Runs
    <3>4. CASE i \notin present
      <4>1. i = runner[x].at /\ i \in Undoable /\ i \in s.done /\ s.pc = "save"
        BY <2>3, <3>4 DEF Runs
      <4>2. CASE Kind[i] = "vault"
        BY <4>1, <4>2 DEF Accounted, Attending, Active
      <4>3. CASE Kind[i] = "record"
        <5>1. i \in s.fresh
          BY <2>3, <3>4, <4>1, <4>3 DEF Runs, FreshAfter
        <5> QED
          BY <4>1, <5>1 DEF Accounted, Attending, Active
      <4>4. CASE Kind[i] = "upsert" /\ ~overlapped
        <5>1. registered /\ runner[x].pc = "run" /\ LookedUp(x)
          BY <2>3, <4>1, <4>4, StepFacts DEF Runs, Rows, ResourceInv
        <5>2. i \in s.fresh
          BY <3>1, <3>4, <4>1, <4>4, <5>1 DEF LookedUp
        <5> QED
          BY <4>1, <5>2 DEF Accounted, Attending, Active
      <4>5. CASE Kind[i] = "upsert" /\ overlapped
        BY <2>1, <4>5 DEF Accounted
      <4> QED
        BY <4>1, <4>2, <4>3, <4>4, <4>5, StepFacts
    <3> QED
      BY <3>3, <3>4
  <2>4. CASE TurnsBack(x, s)
    <3>1. CASE i \in orphans'
      BY <3>1 DEF Accounted
    <3>2. CASE i \notin orphans'
      <4>1. i \in present /\ orphans \subseteq orphans' /\ abandoned' = abandoned
        BY <2>4, <3>2 DEF TurnsBack
      <4>2. i \in Attending(x) => i \in Attending(x)'
        BY <2>4 DEF TurnsBack, Attending, Active
      <4> QED
        BY <1>a, <2>1, <4>1, <4>2
    <3> QED
      BY <3>1, <3>2
  <2>5. CASE Undoes(x, s)
    <3>1. PICK k \in Undoable :
            /\ runner[x].pc = "undo"
            /\ s.todo = runner[x].todo \ {k}
            /\ s.fresh = runner[x].fresh
            /\ s.pc = IF s.todo = {} THEN "close" ELSE "undo"
            /\ orphans \subseteq orphans'
            /\ \/ k \in orphans' /\ UNCHANGED present
               \/ present' = IF Kind[k] = "vault" \/ k \in runner[x].fresh
                             THEN present \ {k} ELSE present
            /\ UNCHANGED abandoned
      BY <2>5 DEF Undoes
    <3>2. CASE i = k /\ i \in orphans'
      BY <3>2 DEF Accounted
    <3>3. CASE ~(i = k /\ i \in orphans')
      <4>1. i \in present
        BY <3>1
      <4>2. i \in Attending(x) => i # k
        BY <3>1, <3>3 DEF Attending, Active
      <4>3. i \in Attending(x) => i \in Attending(x)'
        BY <3>1, <4>2 DEF Attending, Active
      <4> QED
        BY <1>a, <2>1, <3>1, <4>1, <4>3
    <3> QED
      BY <3>2, <3>3
  <2>6. CASE Leaves(x, s)
    BY <1>a, <2>1, <2>6 DEF Leaves
  <2>7. CASE Succeeds(x, s)
    <3>1. runner[x].job \in Job /\ status \in [Job -> {"none"} \cup JobStatus]
      BY <1>4, EffectFacts DEF Inv, TypeOK, Holding, Held
    <3>2. status'[runner[x].job] = "succeeded"
      BY <2>7, <3>1 DEF Succeeds
    <3> QED
      BY <3>1, <3>2 DEF Accounted, Succeeded
  <2> QED
    BY <1>4, <2>2, <2>3, <2>4, <2>5, <2>6, <2>7, EffectFacts
<1> QED
  BY <1>1, <1>2, <1>3, <1>4, WhoMoves DEF ghosts

(* A success that is new is of a run that did every step.                  *)
LEMMA NewSuccessIsDone ==
  ASSUME Inv, ResourceInv, [Next]_vars, Succeeded', ~Succeeded
  PROVE  \E z \in Runner :
           /\ Busy(z) /\ runner[z].pc = "mark" /\ Step \subseteq runner[z].done
           /\ runner'[z].pc \in {"idle", "catch"} /\ UNCHANGED <<present, overlapped>>
<1>1. PICK z \in Runner : Finishes(z)
  BY NewSuccess DEF ResourceInv
<1>2. Step \subseteq runner[z].done
  BY <1>1, DoneEverything DEF Finishes, ResourceInv
<1> QED
  BY <1>1, <1>2 DEF Finishes, Busy

(* As long as runs do not overlap, rows of a success are not touched.      *)
LEMMA RowsKeptStep ==
  ASSUME Inv, ResourceInv, [Next]_vars
  PROVE  RowsKept'
<1> SUFFICES ASSUME ~overlapped', registered'
             PROVE  /\ Succeeded' =>
                         /\ Rows \subseteq present'
                         /\ \A y \in Runner : runner'[y].pc \in Active \cup {"undo"} =>
                              runner'[y].fresh \cap Rows = {}
                    /\ \A y \in Runner : runner'[y].pc \in Active =>
                         runner'[y].done \cap Rows \subseteq present'
  BY DEF RowsKept
<1> DEFINE Kept(y) ==
      /\ Succeeded' /\ runner'[y].pc \in Active \cup {"undo"} =>
           runner'[y].fresh \cap Rows = {}
      /\ runner'[y].pc \in Active => runner'[y].done \cap Rows \subseteq present'
<1>1. CASE UNCHANGED <<registered, present, runner, ghosts>>
  <2>1. Succeeded' => Succeeded
    BY <1>1, NewSuccessIsDone
  <2> QED
    BY <1>1, <2>1 DEF ResourceInv, RowsKept, ghosts
<1>2. ASSUME NEW x \in Runner, NEW j \in Job, NEW pc \in {"start", "dispatch"},
             NEW v \in {"pending", "running"}, Begin(x, j, pc, v)
      PROVE  (Succeeded' => Rows \subseteq present') /\ \A y \in Runner : Kept(y)
  <2>1. /\ \A y \in Runner : ~Busy(y)
        /\ runner'[x].pc = pc /\ \A y \in Runner \ {x} : runner'[y] = runner[y]
        /\ UNCHANGED <<registered, present>> /\ ~overlapped
    BY <1>2, BeginEffect
  <2>2. Succeeded' => Succeeded
    BY <2>1, NewSuccessIsDone
  <2>3. \A y \in Runner : runner'[y].pc \in {"idle", "start", "dispatch"}
    BY <2>1 DEF Busy
  <2> QED
    BY <2>1, <2>2, <2>3 DEF ResourceInv, RowsKept, Active
<1>3. ASSUME NEW x \in Runner, RunnerEffect(x)
      PROVE  (Succeeded' => Rows \subseteq present') /\ \A y \in Runner : Kept(y)
  <2> DEFINE s == runner'[x]
  <2>1. /\ ~overlapped /\ registered /\ Busy(x)
        /\ \A y \in Runner \ {x} : runner'[y] = runner[y]
    BY <1>3, EffectFacts
  <2>2. \A y \in Runner \ {x} : ~Busy(y) /\ Kept(y)
    BY <2>1 DEF ResourceInv, Alone, Busy, Active
  <2>3. /\ Succeeded => Rows \subseteq present
        /\ Succeeded /\ runner[x].pc \in Active \cup {"undo"} => runner[x].fresh \cap Rows = {}
        /\ runner[x].pc \in Active => runner[x].done \cap Rows \subseteq present
        /\ runner[x].pc \in {"dispatch", "start"} =>
             runner[x].done = {} /\ runner[x].fresh = {}
    BY <2>1 DEF ResourceInv, RowsKept, Reached
  <2>4. CASE Succeeded' /\ ~Succeeded
    <3>1. PICK z \in Runner :
            /\ Busy(z) /\ runner[z].pc = "mark" /\ Step \subseteq runner[z].done
            /\ runner'[z].pc \in {"idle", "catch"} /\ UNCHANGED present
      BY <2>4, NewSuccessIsDone
    <3>2. z = x
      BY <2>2, <3>1
    <3>3. Rows \subseteq present' /\ Kept(x)
      BY <2>3, <3>1, <3>2, StepFacts DEF Active
    <3> QED
      BY <2>2, <3>3
  <2>5. CASE Succeeded' => Succeeded
    <3>1. CASE GoesOn(x, s)
      <4>1. Succeeded => FreshAfter(x, runner[x].at) \cap Rows \subseteq runner[x].fresh
        BY <2>3 DEF FreshAfter
      <4>2. Rows \subseteq present' \/ ~Succeeded'
        BY <2>3, <2>5, <3>1 DEF GoesOn
      <4>3. Kept(x)
        BY <2>3, <2>5, <3>1, <4>1 DEF GoesOn, Active
      <4> QED
        BY <2>2, <4>2, <4>3
    <3>2. CASE Runs(x, s)
      <4>1. Succeeded => FreshAfter(x, runner[x].at) \cap Rows \subseteq runner[x].fresh
        BY <2>3 DEF FreshAfter
      <4>2. Rows \subseteq present' \/ ~Succeeded'
        BY <2>3, <2>5, <3>2 DEF Runs
      <4>3. Kept(x)
        BY <2>3, <2>5, <3>2, <4>1, StepFacts DEF Runs, Active
      <4> QED
        BY <2>2, <4>2, <4>3
    <3>3. CASE TurnsBack(x, s)
      BY <2>2, <2>3, <2>5, <3>3 DEF TurnsBack, Active
    <3>4. CASE Undoes(x, s)
      <4>1. runner[x].pc = "undo" /\ s.pc \in {"undo", "close"} /\ s.fresh = runner[x].fresh
        BY <3>4 DEF Undoes
      <4>2. Succeeded => Rows \subseteq present'
        BY <2>3, <3>4, <4>1 DEF Undoes, Rows
      <4> QED
        BY <2>2, <2>3, <2>5, <4>1, <4>2 DEF Active
    <3>5. CASE Leaves(x, s) \/ Succeeds(x, s)
      BY <2>2, <2>3, <2>5, <3>5 DEF Leaves, Succeeds, Active
    <3> QED
      BY <1>3, <3>1, <3>2, <3>3, <3>4, <3>5, EffectFacts
  <2> QED
    BY <2>4, <2>5
<1> QED
  BY <1>1, <1>2, <1>3, WhoMoves DEF DeleteApplication

(* What is there stays while nobody is disturbed.                          *)
LEMMA NothingMissingStep ==
  ASSUME Inv, Inv', ResourceInv, Unshared', [Next]_vars
  PROVE  NothingMissing'
<1> DEFINE Complete(y) ==
      runner'[y].pc \in Active => runner'[y].done \cap Undoable \subseteq present'
<1> SUFFICES ASSUME registered', \A k \in Job : Undisturbed(k)'
             PROVE  /\ Succeeded' => Undoable \subseteq present'
                    /\ \A y \in Runner : Complete(y)
  BY DEF NothingMissing
<1>r. RollingBackDisturbs'
  BY RollbackDisturbs, PTL
<1>1. \A y \in Runner : runner'[y].pc \notin {"undo", "close"}
  BY <1>r DEF RollingBackDisturbs
<1>2. \A k \in Job : Undisturbed(k)
  BY DisturbedForGood DEF ResourceInv
<1>3. registered => /\ Succeeded => Undoable \subseteq present
                    /\ \A y \in Runner : runner[y].pc \in Active =>
                         runner[y].done \cap Undoable \subseteq present
  BY <1>2 DEF ResourceInv, NothingMissing
<1>4. CASE UNCHANGED <<registered, present, runner, ghosts>>
  <2>1. Succeeded' => Succeeded
    BY <1>4, NewSuccessIsDone
  <2> QED
    BY <1>3, <1>4, <2>1
<1>5. ASSUME NEW x \in Runner, NEW j \in Job, NEW pc \in {"start", "dispatch"},
             NEW v \in {"pending", "running"}, Begin(x, j, pc, v)
      PROVE  registered /\ present \subseteq present' /\ \A y \in Runner : Complete(y)
  BY <1>3, <1>5, BeginEffect DEF Active
<1>6. ASSUME NEW x \in Runner, RunnerEffect(x)
      PROVE  registered /\ present \subseteq present' /\ \A y \in Runner : Complete(y)
  <2> DEFINE s == runner'[x]
  <2>1. /\ registered
        /\ \A y \in Runner \ {x} : runner'[y] = runner[y]
    BY <1>6, EffectFacts
  <2>2. /\ runner[x].pc \in Active => runner[x].done \cap Undoable \subseteq present
        /\ runner[x].pc \in {"dispatch", "start"} => runner[x].done = {}
    BY <1>3, <2>1 DEF ResourceInv, Reached
  <2>3. CASE GoesOn(x, s)
    BY <1>3, <2>1, <2>2, <2>3 DEF GoesOn, Active
  <2>4. CASE Runs(x, s)
    BY <1>3, <2>1, <2>2, <2>4 DEF Runs, Active
  <2>5. CASE Leaves(x, s) \/ Succeeds(x, s)
    BY <1>3, <2>1, <2>5 DEF Leaves, Succeeds, Active
  <2>6. CASE TurnsBack(x, s) \/ Undoes(x, s)
    BY <1>1, <2>6 DEF TurnsBack, Undoes
  <2> QED
    BY <1>6, <2>3, <2>4, <2>5, <2>6, EffectFacts
<1>7. CASE registered /\ present \subseteq present' /\ \A y \in Runner : Complete(y)
  <2>1. CASE Succeeded' /\ ~Succeeded
    <3>1. PICK z \in Runner :
            runner[z].pc = "mark" /\ Step \subseteq runner[z].done /\ UNCHANGED present
      BY <2>1, NewSuccessIsDone
    <3> QED
      BY <1>3, <1>7, <3>1, StepFacts DEF Active
  <2>2. CASE Succeeded' => Succeeded
    BY <1>3, <1>7, <2>2
  <2> QED
    BY <2>1, <2>2
<1> QED
  BY <1>4, <1>5, <1>6, <1>7, WhoMoves DEF DeleteApplication

-----------------------------------------------------------------------------
(* Who runs what                                                           *)

(* A runner with a job goes on with it or leaves it.                       *)
LEMMA KeepsJob ==
  ASSUME Inv, NEW x \in Runner, RunnerEffect(x), Busy(x)'
  PROVE  runner'[x].job = runner[x].job
<1>1. \/ runner'[x].job = runner[x].job \/ runner'[x].pc = "idle"
      \/ runner'[x].pc = "catch" /\ PersistFails(x)
  BY EffectFacts DEF GoesOn, Runs, TurnsBack, Undoes, Leaves, Succeeds
<1>2. CASE PersistFails(x)
  <2>1. PICK s \in RunnerState :
          /\ runner' = [runner EXCEPT ![x] = s]
          /\ s.pc \in {"idle", "catch"}
          /\ s.pc = "catch" => s.job = runner[x].job
    BY <1>2, PersistFailsMoves
  <2> QED
    BY <2>1, RunnerFacts DEF Busy
<1> QED
  BY <1>1, <1>2 DEF Busy

(* The job of a runner is in the table, and a worker's is not pending.     *)
InTurn(x) ==
  Busy(x) =>
    /\ status[runner[x].job] # "none"
    /\ x \in Worker => status[runner[x].job] # "pending"

LEMMA OthersKeepTheirJobs ==
  ASSUME Inv, NEW x \in Runner, RunnerEffect(x), NEW y \in Runner, Busy(y)'
  PROVE  Busy(y) /\ runner'[y].job = runner[y].job
<1>1. CASE y = x
  BY <1>1, KeepsJob, EffectFacts
<1>2. CASE y # x
  BY <1>2, EffectFacts DEF Busy
<1> QED
  BY <1>1, <1>2

(* A runner that has a job had it, or takes it up from the state it finds. *)
LEMMA WhoseJob ==
  ASSUME Inv, [Next]_vars
  PROVE  \/ \A y \in Runner : Busy(y)' => Busy(y) /\ runner'[y].job = runner[y].job
         \/ \E x \in Runner, j \in Job :
              /\ ~Busy(x) /\ runner'[x].job = j
              /\ TakesUp(x, status[j], status'[j])
              /\ \A y \in Runner \ {x} : runner'[y] = runner[y]
<1> USE DEF Busy
<1>1. CASE UNCHANGED runner
  BY <1>1
<1>2. ASSUME NEW x \in Runner, NEW j \in Job, NEW pc \in {"start", "dispatch"},
             NEW v \in {"pending", "running"}, Begin(x, j, pc, v),
             TakesUp(x, status[j], v), status' = [status EXCEPT ![j] = v]
      PROVE  \E y \in Runner, k \in Job :
              /\ ~Busy(y) /\ runner'[y].job = k
              /\ TakesUp(y, status[k], status'[k])
              /\ \A z \in Runner \ {y} : runner'[z] = runner[z]
  <2>1. runner[x].pc = "idle" /\ \A y \in Runner \ {x} : runner'[y] = runner[y]
    BY <1>2, BeginEffect
  <2>2. runner'[x].job = j
    BY <1>2, RunnerFacts DEF Begin, Idle
  <2>3. status'[j] = v
    BY <1>2 DEF Inv, TypeOK
  <2> QED
    BY <1>2, <2>1, <2>2, <2>3
<1>3. CASE \E x \in Runner : RunnerEffect(x)
  BY <1>3, OthersKeepTheirJobs
<1> QED
  BY <1>1, <1>2, <1>3, WhoMoves DEF DeleteApplication, ghosts

(* A job is taken up when nobody, or no worker, has it.                    *)
LEMMA InTurnStep ==
  ASSUME Inv, Inv', [Next]_vars, \A x \in Runner : InTurn(x), JobRunsOnce
  PROVE  (\A x \in Runner : InTurn(x)') /\ JobRunsOnce'
<1>1. \A j \in Job : Advances(j)
  BY StepMovesLegally DEF Advances, vars
<1>2. \A y \in Runner : Busy(y) => runner[y].job \in Job
  BY DEF Inv, Holding, Held
<1>3. ASSUME NEW y \in Runner, Busy(y), runner'[y].job = runner[y].job
      PROVE  InTurn(y)'
  BY <1>1, <1>2, <1>3 DEF InTurn, Advances, JobStatus
<1>4. CASE \A y \in Runner : Busy(y)' => Busy(y) /\ runner'[y].job = runner[y].job
  <2>1. \A y \in Runner : InTurn(y)'
    BY <1>3, <1>4 DEF InTurn
  <2>2. JobRunsOnce'
    BY <1>4 DEF JobRunsOnce
  <2> QED
    BY <2>1, <2>2
<1>5. ASSUME NEW x \in Runner, NEW j \in Job, ~Busy(x), runner'[x].job = j,
             TakesUp(x, status[j], status'[j]),
             \A y \in Runner \ {x} : runner'[y] = runner[y]
      PROVE  (\A y \in Runner : InTurn(y)') /\ JobRunsOnce'
  <2>1. InTurn(x)'
    BY <1>5 DEF InTurn, TakesUp
  <2>2. \A y \in Runner \ {x} : InTurn(y)'
    BY <1>3, <1>5 DEF InTurn, Busy
  <2>3. ASSUME NEW y \in Runner \ {x}, Busy(y), runner[y].job = j
        PROVE  x \in Worker /\ x \notin Caller /\ y \in Caller /\ y \notin Worker
    BY <1>5, <2>3, ConstantsAssumption DEF InTurn, Runner, TakesUp
  <2>4. JobRunsOnce'
    BY <1>5, <2>3 DEF JobRunsOnce, Busy
  <2> QED
    BY <2>1, <2>2, <2>4
<1> QED
  BY <1>4, <1>5, WhoseJob

(* Two runners of one job run at once.                                     *)
LEMMA SharingOverlaps ==
  ASSUME [Next]_vars
  PROVE  /\ Unshared' => Unshared
         /\ overlapped \/ Unshared => overlapped' \/ Unshared'
<1>1. ASSUME NEW x \in Runner, NEW j \in Job, NEW pc \in {"start", "dispatch"},
             NEW v \in {"pending", "running"}, Begin(x, j, pc, v)
      PROVE  /\ shared \subseteq shared'
             /\ overlapped => overlapped'
             /\ overlapped' \/ shared' = shared
  BY <1>1 DEF Begin
<1>2. CASE UNCHANGED <<shared, overlapped>>
  BY <1>2 DEF Unshared
<1>3. CASE \E c \in Caller, j \in Job : CreateJob(c, j)
  BY <1>1, <1>2, <1>3 DEF CreateJob, Runner, ghosts, Unshared
<1>4. CASE \E w \in Worker, j \in Job : Claim(w, j)
  BY <1>1, <1>4 DEF Claim, Runner, Unshared
<1> QED
  BY <1>2, <1>3, <1>4
  DEF Next, vars, ghosts, DeleteApplication, WorkerLoop, Dispatch, CatchError, StepRunner,
      Start, MarkStep, LookUp, RunStep, StepRejected, SaveStep, Undo, CloseFailed,
      CloseSucceeded, Failure, StepFails, SaveFails, UndoFails, PersistFails, Crash, Fault

SharedInv ==
  /\ \A x \in Runner : InTurn(x)
  /\ JobRunsOnce
  /\ overlapped \/ Unshared

LEMMA AlwaysShared == Spec => [](Inv /\ SharedInv)
<1>1. Init => SharedInv
  <2> SUFFICES ASSUME Init PROVE SharedInv
    OBVIOUS
  <2>1. \A x \in Runner : ~Busy(x)
    BY IdleIsIdle DEF Init, Busy
  <2> QED
    BY <2>1 DEF SharedInv, InTurn, JobRunsOnce, Unshared, Init
<1>2. Inv /\ Inv' /\ SharedInv /\ [Next]_vars => SharedInv'
  BY InTurnStep, SharingOverlaps DEF SharedInv
<1> QED
  BY <1>1, <1>2, AlwaysInv, PTL DEF Spec

(***************************************************************************)
(* Whatever fails, in queue mode and in sync mode: no job is executed by   *)
(* two workers nor by two API calls.  The claim of worker.js suffices for  *)
(* the former, the insertion for the latter.                               *)
(***************************************************************************)
THEOREM ClaimedOnce == Spec => []JobRunsOnce
<1>1. SharedInv => JobRunsOnce
  BY DEF SharedInv
<1> QED
  BY <1>1, AlwaysShared, PTL

-----------------------------------------------------------------------------
LEMMA InitResources == Init => ResourceInv
<1> SUFFICES ASSUME Init PROVE ResourceInv
  OBVIOUS
<1>1. \A x \in Runner : runner[x] = Idle
  BY DEF Init
<1>2. \A x \in Runner : runner[x].pc = "idle"
  BY <1>1, IdleIsIdle
<1>3. present = {} /\ ~Succeeded /\ Unshared
  BY DEF Init, Succeeded, Unshared
<1> QED
  BY <1>2, <1>3 DEF ResourceInv, Alone, Busy, Reached, LookedUp, GivenUp, RowsKept,
                    NothingMissing, Active

LEMMA AlwaysResources == Spec => [](Inv /\ SharedInv /\ (Unshared => ResourceInv))
<1>1. ASSUME Inv, Inv', Unshared => ResourceInv, [Next]_vars, Unshared'
      PROVE  ResourceInv'
  <2>0. ResourceInv
    BY <1>1, SharingOverlaps
  <2>1. Alone'
    BY <1>1, <2>0, AloneStep DEF ResourceInv
  <2>2. \A x \in Runner : Reached(x)' /\ LookedUp(x)' /\ GivenUp(x)'
    BY <1>1, <2>0, ReachedStep, GivenUpStep DEF ResourceInv
  <2>3. \A i \in present' : Accounted(i)'
    BY <1>1, <2>0, AccountedStep
  <2> QED
    BY <1>1, <2>0, <2>1, <2>2, <2>3, RowsKeptStep, NothingMissingStep DEF ResourceInv
<1> QED
  BY <1>1, AlwaysShared, InitResources, PTL DEF Spec

(***************************************************************************)
(* When jobs have failed and none succeeded or is under way, all that is   *)
(* left is what a failing call or an interrupted run left: the rollback of *)
(* steps.js misses nothing it knew of.                                     *)
(***************************************************************************)
THEOREM RollbackIsComplete == Spec => []RollbackMissesNothing
<1>1. ASSUME Inv, Unshared => ResourceInv PROVE RollbackMissesNothing
  <2> SUFFICES ASSUME AllFailed, ResourceInv, NEW i \in present
               PROVE  \/ i \in orphans \cup abandoned
                      \/ overlapped /\ i \in Step /\ Kind[i] = "upsert"
    BY <1>1 DEF RollbackMissesNothing, Unshared
  <2>1. Accounted(i)
    BY DEF ResourceInv
  <2>2. ~Succeeded /\ \A x \in Runner : Attending(x) = {}
    BY DEF AllFailed, Succeeded, Attending, Busy, Active
  <2>3. i \in Step
    BY <1>1, StepFacts DEF Inv, TypeOK
  <2> QED
    BY <2>1, <2>2, <2>3 DEF Accounted
<1> QED
  BY <1>1, AlwaysResources, PTL

(***************************************************************************)
(* Rows recorded by a run that succeeded survive the failure of a later    *)
(* one, as long as runs do not overlap: the run deletes only rows that     *)
(* were absent when it looked.                                             *)
(***************************************************************************)
THEOREM RecordsAreKept == Spec => []RecordsSurvive
<1>1. SharedInv /\ (Unshared => ResourceInv) => RecordsSurvive
  BY DEF SharedInv, ResourceInv, RowsKept, RecordsSurvive, Succeeded
<1> QED
  BY <1>1, AlwaysResources, PTL

(***************************************************************************)
(* Success means that every resource of a registered application is there, *)
(* and stays there beside other jobs of it as long as none of them fails.  *)
(***************************************************************************)
THEOREM SuccessStaysComplete == Spec => []SuccessIsComplete
<1>1. ASSUME Unshared => ResourceInv PROVE SuccessIsComplete
  <2> SUFFICES ASSUME NEW j \in Job, registered, status[j] = "succeeded", ResourceInv,
                      \A k \in Job \ {j} : Undisturbed(k)
               PROVE  Undoable \subseteq present
    BY <1>1 DEF SuccessIsComplete, Unshared
  <2>1. Undisturbed(j)
    BY DEF Undisturbed
  <2> QED
    BY <2>1 DEF ResourceInv, NothingMissing, Succeeded
<1> QED
  BY <1>1, AlwaysResources, PTL
=============================================================================
