---------------------------- MODULE DesiredState ----------------------------
(***************************************************************************)
(* The desired_state row of one policy and its history table, written by   *)
(* upsertDesiredState (reconciliation/desiredState.js) on behalf of        *)
(*   Operator     PATCH and POST /reconciliation/desired-state             *)
(*   Provisioner  the "record desired state" step of an application's      *)
(*                provisioning, and its undo (provisioner/application.js)  *)
(*                                                                         *)
(* upsertDesiredState is one transaction: SELECT ... FOR UPDATE locks the  *)
(* row when there is one, an absent row is protected by the UNIQUE         *)
(* constraint alone.  What it writes is visible when it commits.           *)
(***************************************************************************)
EXTENDS Naturals, Sequences

CONSTANTS
  Value,        \* desired values, such as a rotation period in days
  NoValue,      \* the desired value of an absent row
  Operator,     \* concurrent desired-state requests
  Provisioner,  \* concurrent provisioning jobs of the application
  MaxVersion    \* bound: versions of the row

ASSUME ConstantsAssumption ==
  /\ NoValue \notin Value
  /\ MaxVersion \in Nat \ {0}

VARIABLES
  row,      \* desired_state: its value and version, version 0 when absent
  history,  \* desired_state_history, in insertion order
  editor    \* in-memory state and open transaction of each writer

vars == <<row, history, editor>>

Editor == Operator \cup Provisioner

LiveRow == [value : Value, version : 1..MaxVersion]
NoRow   == [value |-> NoValue, version |-> 0]
Exists  == row # NoRow

(***************************************************************************)
(* want is the value to record, prior the row read under the lock, saved   *)
(* the value a provisioning step read for its undo.                        *)
(***************************************************************************)
EditorState ==
  [pc : {"idle", "select", "create", "write", "later", "undo"},
   want : Value \cup {NoValue}, prior : LiveRow \cup {NoRow}, saved : Value \cup {NoValue}]

EditorIdle == [pc |-> "idle", want |-> NoValue, prior |-> NoRow,
               saved |-> NoValue]

Locked(e) == \E f \in Editor \ {e} : editor[f].pc = "write"

(* Where a provisioning job is after its upsert: its later steps.          *)
Finish(e) ==
  editor' = [editor EXCEPT ![e] =
    IF e \in Provisioner
    THEN [EditorIdle EXCEPT !.pc = "later", !.saved = editor[e].saved]
    ELSE EditorIdle]

Abort(e) == editor' = [editor EXCEPT ![e] = EditorIdle]

-----------------------------------------------------------------------------
(***************************************************************************)
(* A request arrives.  The provisioning step first reads the value its     *)
(* undo would restore, outside the transaction.                            *)
(***************************************************************************)
Request(e, v) ==
  /\ editor[e].pc = "idle"
  /\ editor' = [editor EXCEPT ![e] =
       [EditorIdle EXCEPT !.pc = "select", !.want = v,
                          !.saved = IF e \in Provisioner THEN row.value ELSE NoValue]]
  /\ UNCHANGED <<row, history>>

SelectUnlocked(e) ==                             \* mutant: no FOR UPDATE
  /\ editor[e].pc = "select"
  /\ IF Exists /\ row.value = editor[e].want
     THEN Finish(e)
     ELSE editor' = [editor EXCEPT ![e] =
            [@ EXCEPT !.pc = IF Exists THEN "write" ELSE "create", !.prior = row]]
  /\ UNCHANGED <<row, history>>

(* SELECT ... FOR UPDATE; an unchanged value ends the transaction.         *)
SelectForUpdate(e) ==
  /\ editor[e].pc = "select"
  /\ ~Locked(e)
  /\ IF Exists /\ row.value = editor[e].want
     THEN Finish(e)
     ELSE editor' = [editor EXCEPT ![e] =
            [@ EXCEPT !.pc = IF Exists THEN "write" ELSE "create", !.prior = row]]
  /\ UNCHANGED <<row, history>>

CreateRowTwice(e) ==                             \* mutant: ON CONFLICT DO UPDATE
  /\ editor[e].pc = "create"
  /\ row' = [value |-> editor[e].want, version |-> 1]
  /\ Finish(e)
  /\ UNCHANGED history

(* INSERT of the first version; 23505 when somebody else was first.        *)
CreateRow(e) ==
  /\ editor[e].pc = "create"
  /\ IF Exists
     THEN Abort(e) /\ UNCHANGED row
     ELSE Finish(e) /\ row' = [value |-> editor[e].want, version |-> 1]
  /\ UNCHANGED history

(* History INSERT, UPDATE and COMMIT.                                      *)
WriteRow(e) ==
  /\ editor[e].pc = "write"
  /\ row.version < MaxVersion
  /\ history' = Append(history, editor[e].prior)
  /\ row' = [value |-> editor[e].want, version |-> row.version + 1]
  /\ Finish(e)

UpsertFailsHalfway(e) ==                         \* mutant: no transaction
  /\ editor[e].pc = "write"
  /\ Abort(e)
  /\ history' = Append(history, editor[e].prior)
  /\ UNCHANGED row

(* Any error or a lost connection rolls the transaction back.              *)
UpsertFails(e) ==
  /\ editor[e].pc \in {"select", "create", "write"}
  /\ Abort(e)
  /\ UNCHANGED <<row, history>>

(* The provisioning job's remaining steps.                                 *)
LaterStepsSucceed(e) ==
  /\ editor[e].pc = "later"
  /\ Abort(e)
  /\ UNCHANGED <<row, history>>

LaterStepFails(e) ==
  /\ editor[e].pc = "later"
  /\ editor' = [editor EXCEPT ![e].pc = "undo"]
  /\ UNCHANGED <<row, history>>

(***************************************************************************)
(* The undo: an UPDATE of the value alone, or a DELETE that history rows   *)
(* and reconciliation runs forbid through their foreign keys.  Its errors  *)
(* are swallowed.                                                          *)
(***************************************************************************)
UndoUpsert(e) ==
  /\ editor[e].pc = "undo"
  /\ ~Locked(e)
  /\ \/ /\ editor[e].saved # NoValue
        /\ Exists
        /\ row' = [row EXCEPT !.value = editor[e].saved]
     \/ /\ editor[e].saved = NoValue
        /\ history = <<>>
        /\ row' = NoRow
     \/ UNCHANGED row
  /\ Abort(e)
  /\ UNCHANGED history

-----------------------------------------------------------------------------
Init ==
  /\ row = NoRow
  /\ history = <<>>
  /\ editor = [e \in Editor |-> EditorIdle]

EditorStep(e) ==
  \/ \E v \in Value : Request(e, v)
  \/ SelectForUpdate(e)
  \/ CreateRow(e)
  \/ WriteRow(e)
  \/ UpsertFails(e)
  \/ LaterStepsSucceed(e)
  \/ LaterStepFails(e)
  \/ UndoUpsert(e)

Next == \E e \in Editor : EditorStep(e)
Spec == Init /\ [][Next]_vars

-----------------------------------------------------------------------------
(* Type correctness.                                                       *)
TypeOK ==
  /\ row \in LiveRow \cup {NoRow}
  /\ history \in Seq(LiveRow)
  /\ editor \in [Editor -> EditorState]

(***************************************************************************)
(* The history holds every superseded version exactly once, in order,      *)
(* however requests, failed provisioning jobs and their undos interleave.  *)
(***************************************************************************)
HistoryIsComplete ==
  /\ \A i \in 1..Len(history) : history[i].version = i
  /\ Len(history) = IF Exists THEN row.version - 1 ELSE 0

(***************************************************************************)
(* The lock works: the row a transaction read under FOR UPDATE is still    *)
(* the row when it writes, so no edit is lost.                             *)
(***************************************************************************)
NoLostUpdate == \A e \in Editor : editor[e].pc = "write" => editor[e].prior = row

-----------------------------------------------------------------------------
(* Refinement: the row and its history are the log of intent.              *)
log == [v \in 1..row.version |->
          IF v = row.version THEN row.value ELSE history[v].value]

Abstract == INSTANCE IntentLog WITH Value <- Value, log <- log

(***************************************************************************)
(* Concurrent upserts, failed provisioning jobs and their undos implement  *)
(* the log of intent: what was superseded is never rewritten or lost.      *)
(***************************************************************************)
ImplementsIntentLog == Abstract!Spec
=============================================================================
