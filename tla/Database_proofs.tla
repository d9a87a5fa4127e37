--------------------------- MODULE Database_proofs ---------------------------
(***************************************************************************)
(* Proofs about what the API keeps in its database and how it gets there:  *)
(* about DesiredState, for every number of writers and versions, and about *)
(* CredentialRotation, for any number of queries, overlapping calls,       *)
(* credentials and tokens.                                                 *)
(***************************************************************************)
EXTENDS DesiredState, CredentialRotation, SequenceTheorems, TLAPS

-----------------------------------------------------------------------------
(* The rows of desired_state                                               *)

(* What a writer holds when it comes to write.                             *)
Prepared(e) ==
  /\ editor[e].pc \in {"select", "create", "write"} => editor[e].want \in Value
  /\ editor[e].pc = "write" =>
       editor[e].prior \in LiveRow /\ editor[e].prior.value # editor[e].want

(* FOR UPDATE: one writer at a time has an existing row.                   *)
OneWriter ==
  \A e, f \in Editor : editor[e].pc = "write" /\ editor[f].pc = "write" => e = f

Inv ==
  /\ TypeOK
  /\ \A e \in Editor : Prepared(e)
  /\ OneWriter
  /\ NoLostUpdate
  /\ HistoryIsComplete

-----------------------------------------------------------------------------
LEMMA InitInv == Init => Inv
  BY DEF Init, Inv, TypeOK, EditorIdle, EditorState, NoRow, LiveRow, Exists, Prepared,
     OneWriter, NoLostUpdate, HistoryIsComplete

(* An absent row has no version and a live one has; the two never meet.    *)
LEMMA RowFacts ==
  ASSUME TypeOK
  PROVE  /\ NoRow \notin LiveRow
         /\ Exists <=> row \in LiveRow
         /\ ~Exists => row = NoRow /\ row.version = 0
         /\ Exists => row.value \in Value /\ row.version \in 1..MaxVersion
  BY DEF TypeOK, Exists, NoRow, LiveRow

(***************************************************************************)
(* A step of e that does not write the row, and does not start to write.   *)
(***************************************************************************)
Quiet(e) ==
  /\ UNCHANGED <<row, history>>
  /\ \E s \in EditorState :
       /\ editor' = [editor EXCEPT ![e] = s]
       /\ s.pc \in {"select", "create"} => s.want \in Value
       /\ s.pc # "write"

LEMMA QuietKeepsInv ==
  ASSUME Inv, NEW e \in Editor, Quiet(e)
  PROVE  Inv'
<1> USE DEF Inv, Quiet
<1>1. TypeOK'
  BY DEF TypeOK
<1>2. PICK s \in EditorState :
        /\ editor' = [editor EXCEPT ![e] = s]
        /\ s.pc \in {"select", "create"} => s.want \in Value
        /\ s.pc # "write"
  OBVIOUS
<1>3. editor'[e] = s /\ \A f \in Editor \ {e} : editor'[f] = editor[f]
  BY <1>2 DEF TypeOK
<1>4. \A f \in Editor : Prepared(f)'
  BY <1>2, <1>3 DEF Prepared
<1>5. OneWriter'
  BY <1>2, <1>3 DEF OneWriter
<1>6. NoLostUpdate'
  BY <1>2, <1>3 DEF NoLostUpdate
<1>7. HistoryIsComplete'
  BY DEF HistoryIsComplete, Exists
<1> QED
  BY <1>1, <1>4, <1>5, <1>6, <1>7

(* Ending a transaction, whether it is committed or rolled back, is quiet. *)
LEMMA EndsAreQuiet ==
  ASSUME Inv, NEW e \in Editor, Abort(e) \/ Finish(e)
  PROVE  \E s \in EditorState :
           editor' = [editor EXCEPT ![e] = s] /\ s.pc \in {"idle", "later"}
<1>1. EditorIdle \in EditorState /\ EditorIdle.pc = "idle"
  BY DEF EditorIdle, EditorState
<1>2. CASE Abort(e)
  BY <1>1, <1>2 DEF Abort
<1>3. CASE Finish(e)
  <2>1. [EditorIdle EXCEPT !.pc = "later", !.saved = editor[e].saved] \in EditorState
    BY DEF Inv, TypeOK, EditorIdle, EditorState
  <2>2. [EditorIdle EXCEPT !.pc = "later", !.saved = editor[e].saved].pc = "later"
    BY DEF EditorIdle
  <2> QED
    BY <1>1, <1>3, <2>1, <2>2 DEF Finish
<1> QED
  BY <1>2, <1>3

LEMMA StepKeepsInv ==
  ASSUME Inv, NEW e \in Editor, EditorStep(e)
  PROVE  Inv'
<1> USE ConstantsAssumption
<1>t. editor \in [Editor -> EditorState] /\ TypeOK
  BY DEF Inv, TypeOK
<1>1. ASSUME NEW v \in Value, Request(e, v) PROVE Inv'
  <2> DEFINE s == [EditorIdle EXCEPT !.pc = "select", !.want = v,
                     !.saved = IF e \in Provisioner THEN row.value ELSE NoValue]
  <2>1. row.value \in Value \cup {NoValue}
    BY <1>t DEF TypeOK, LiveRow, NoRow
  <2>2. s \in EditorState /\ s.pc = "select" /\ s.want = v
    BY <2>1 DEF EditorIdle, EditorState
  <2>3. editor' = [editor EXCEPT ![e] = s] /\ UNCHANGED <<row, history>>
    BY <1>1 DEF Request
  <2> HIDE DEF s
  <2> QED
    BY <2>2, <2>3, QuietKeepsInv DEF Quiet
<1>2. CASE SelectForUpdate(e)
  <2>1. CASE Exists /\ row.value = editor[e].want
    <3>1. Finish(e) /\ UNCHANGED <<row, history>>
      BY <1>2, <2>1 DEF SelectForUpdate
    <3>2. Quiet(e)
      BY <3>1, EndsAreQuiet DEF Quiet
    <3> QED
      BY <3>2, QuietKeepsInv
  <2>2. CASE ~Exists
    <3> DEFINE s == [editor[e] EXCEPT !.pc = "create", !.prior = row]
    <3>1. editor' = [editor EXCEPT ![e] = s] /\ UNCHANGED <<row, history>>
      BY <1>2, <2>2, <1>t DEF SelectForUpdate
    <3>2. s \in EditorState /\ s.pc = "create" /\ s.want = editor[e].want
      BY <1>t DEF EditorState, TypeOK
    <3>3. s.want \in Value
      BY <1>2, <3>2 DEF Inv, Prepared, SelectForUpdate
    <3> HIDE DEF s
    <3> QED
      BY <3>1, <3>2, <3>3, QuietKeepsInv DEF Quiet
  <2>3. CASE Exists /\ row.value # editor[e].want
    <3> DEFINE s == [editor[e] EXCEPT !.pc = "write", !.prior = row]
    <3>1. editor' = [editor EXCEPT ![e] = s] /\ UNCHANGED <<row, history>>
      BY <1>2, <2>3, <1>t DEF SelectForUpdate
    <3>2. s \in EditorState /\ s.pc = "write" /\ s.want = editor[e].want /\ s.prior = row
      BY <1>t DEF EditorState, TypeOK
    <3>3. s.want \in Value
      BY <1>2, <3>2 DEF Inv, Prepared, SelectForUpdate
    <3>4. \A f \in Editor \ {e} : editor[f].pc # "write"
      BY <1>2 DEF SelectForUpdate, Locked
    <3> HIDE DEF s
    <3>5. editor'[e] = s /\ \A f \in Editor \ {e} : editor'[f] = editor[f]
      BY <1>t, <3>1
    <3>6. TypeOK'
      BY <1>t, <3>1, <3>2 DEF TypeOK
    <3>7. \A f \in Editor : Prepared(f)'
      BY <2>3, <1>t, <3>2, <3>3, <3>5, RowFacts DEF Inv, Prepared
    <3>8. OneWriter' /\ NoLostUpdate'
      BY <3>1, <3>2, <3>4, <3>5 DEF OneWriter, NoLostUpdate
    <3>9. HistoryIsComplete'
      BY <3>1 DEF Inv, HistoryIsComplete, Exists
    <3> QED
      BY <3>6, <3>7, <3>8, <3>9 DEF Inv
  <2> QED
    BY <2>1, <2>2, <2>3
<1>3. CASE CreateRow(e)
  <2>1. CASE Exists
    <3>1. Abort(e) /\ UNCHANGED <<row, history>>
      BY <1>3, <2>1 DEF CreateRow
    <3>2. Quiet(e)
      BY <3>1, EndsAreQuiet DEF Quiet
    <3> QED
      BY <3>2, QuietKeepsInv
  <2>2. CASE ~Exists
    <3>1. /\ Finish(e) /\ history' = history
          /\ row' = [value |-> editor[e].want, version |-> 1]
          /\ editor[e].pc = "create"
      BY <1>3, <2>2 DEF CreateRow
    <3>2. row' \in LiveRow /\ row'.version = 1
      BY <3>1 DEF Inv, Prepared, LiveRow
    <3>3. \A f \in Editor : editor[f].pc # "write"
      BY <2>2, <1>t, RowFacts DEF Inv, NoLostUpdate, Prepared
    <3>4. PICK s \in EditorState :
            editor' = [editor EXCEPT ![e] = s] /\ s.pc \in {"idle", "later"}
      BY <3>1, EndsAreQuiet
    <3>5. editor'[e] = s /\ \A f \in Editor \ {e} : editor'[f] = editor[f]
      BY <1>t, <3>4
    <3>6. TypeOK'
      BY <1>t, <3>1, <3>2, <3>4 DEF TypeOK
    <3>7. (\A f \in Editor : Prepared(f)') /\ OneWriter' /\ NoLostUpdate'
      BY <3>3, <3>4, <3>5 DEF Inv, Prepared, OneWriter, NoLostUpdate
    <3>8. HistoryIsComplete'
      BY <2>2, <3>1, <3>2, <3>6, <1>t, RowFacts DEF Inv, HistoryIsComplete, Exists, NoRow
    <3> QED
      BY <3>6, <3>7, <3>8 DEF Inv
  <2> QED
    BY <2>1, <2>2
<1>4. CASE WriteRow(e)
  <2>1. /\ editor[e].pc = "write" /\ row.version < MaxVersion
        /\ history' = Append(history, editor[e].prior)
        /\ row' = [value |-> editor[e].want, version |-> row.version + 1]
        /\ Finish(e)
    BY <1>4 DEF WriteRow
  <2>2. editor[e].prior = row /\ row \in LiveRow /\ Exists /\ editor[e].want \in Value
    BY <2>1, <1>t, RowFacts DEF Inv, NoLostUpdate, Prepared
  <2>3. row' \in LiveRow /\ row'.version = row.version + 1
    BY <2>1, <2>2 DEF LiveRow
  <2>4. PICK s \in EditorState :
          editor' = [editor EXCEPT ![e] = s] /\ s.pc \in {"idle", "later"}
    BY <2>1, EndsAreQuiet
  <2>5. editor'[e] = s /\ \A f \in Editor \ {e} : editor'[f] = editor[f]
    BY <1>t, <2>4
  <2>6. history' \in Seq(LiveRow)
    BY <2>1, <2>2, <1>t DEF TypeOK
  <2>7. TypeOK'
    BY <1>t, <2>3, <2>4, <2>6 DEF TypeOK
  <2>8. \A f \in Editor : editor'[f].pc # "write"
    BY <2>1, <2>4, <2>5 DEF Inv, OneWriter
  <2>9. (\A f \in Editor : Prepared(f)') /\ OneWriter' /\ NoLostUpdate'
    BY <2>4, <2>5, <2>8 DEF Inv, Prepared, OneWriter, NoLostUpdate
  <2>10. HistoryIsComplete'
    <3>1. Len(history) = row.version - 1 /\ \A i \in 1..Len(history) : history[i].version = i
      BY <2>2 DEF Inv, HistoryIsComplete
    <3>2. /\ Len(history') = row.version
          /\ \A i \in 1..Len(history) : history'[i] = history[i]
          /\ history'[row.version] = row
      BY <2>1, <2>2, <3>1, <1>t DEF TypeOK, LiveRow
    <3>3. row'.version \in Nat /\ row.version \in Nat /\ row'.version > 0
      BY <2>2, <2>3 DEF LiveRow
    <3>4. Exists'
      BY <2>3, <3>3 DEF Exists, NoRow
    <3> QED
      BY <2>3, <3>1, <3>2, <3>3, <3>4 DEF HistoryIsComplete
  <2> QED
    BY <2>7, <2>9, <2>10 DEF Inv
<1>5. CASE UpsertFails(e) \/ LaterStepsSucceed(e)
  <2>1. Abort(e) /\ UNCHANGED <<row, history>>
    BY <1>5 DEF UpsertFails, LaterStepsSucceed
  <2>2. Quiet(e)
    BY <2>1, EndsAreQuiet DEF Quiet
  <2> QED
    BY <2>2, QuietKeepsInv
<1>6. CASE LaterStepFails(e)
  <2> DEFINE s == [editor[e] EXCEPT !.pc = "undo"]
  <2>1. editor' = [editor EXCEPT ![e] = s] /\ UNCHANGED <<row, history>>
    BY <1>6 DEF LaterStepFails
  <2>2. s \in EditorState /\ s.pc = "undo"
    BY <1>t DEF EditorState
  <2> HIDE DEF s
  <2> QED
    BY <2>1, <2>2, QuietKeepsInv DEF Quiet
<1>7. CASE UndoUpsert(e)
  <2>1. Abort(e) /\ history' = history /\ editor[e].pc = "undo"
    BY <1>7 DEF UndoUpsert
  <2>2. CASE row' = row
    <3>1. Quiet(e)
      BY <2>1, <2>2, EndsAreQuiet DEF Quiet
    <3> QED
      BY <3>1, QuietKeepsInv
  <2>3. CASE row' # row
    <3>1. \A f \in Editor \ {e} : editor[f].pc # "write"
      BY <1>7 DEF UndoUpsert, Locked
    <3>2. \A f \in Editor : editor[f].pc # "write"
      BY <2>1, <3>1
    <3>3. PICK s \in EditorState :
            editor' = [editor EXCEPT ![e] = s] /\ s.pc \in {"idle", "later"}
      BY <2>1, EndsAreQuiet
    <3>4. editor'[e] = s /\ \A f \in Editor \ {e} : editor'[f] = editor[f]
      BY <1>t, <3>3
    <3>5. (\A f \in Editor : Prepared(f)') /\ OneWriter' /\ NoLostUpdate'
      BY <3>2, <3>3, <3>4 DEF Inv, Prepared, OneWriter, NoLostUpdate
    <3>6. CASE editor[e].saved # NoValue /\ Exists
                 /\ row' = [row EXCEPT !.value = editor[e].saved]
      <4>1. editor[e].saved \in Value
        BY <1>t, <3>6 DEF EditorState
      <4>2. row' \in LiveRow /\ row'.version = row.version
        BY <1>t, <3>6, <4>1, RowFacts DEF LiveRow
      <4>3. TypeOK'
        BY <1>t, <2>1, <3>3, <4>2 DEF TypeOK
      <4>4. HistoryIsComplete'
        BY <2>1, <3>6, <4>2, <4>3, <1>t, RowFacts DEF Inv, HistoryIsComplete, Exists, NoRow
      <4> QED
        BY <3>5, <4>3, <4>4 DEF Inv
    <3>7. CASE history = <<>> /\ row' = NoRow
      <4>1. TypeOK'
        BY <1>t, <2>1, <3>3, <3>7 DEF TypeOK
      <4>2. HistoryIsComplete'
        BY <2>1, <3>7 DEF HistoryIsComplete, Exists
      <4> QED
        BY <3>5, <4>1, <4>2 DEF Inv
    <3> QED
      BY <1>7, <2>3, <3>6, <3>7 DEF UndoUpsert
  <2> QED
    BY <2>2, <2>3
<1> QED
  BY <1>1, <1>2, <1>3, <1>4, <1>5, <1>6, <1>7 DEF EditorStep

LEMMA AlwaysInv == Spec => []Inv
<1>1. Inv /\ UNCHANGED vars => Inv'
  BY DEF Inv, TypeOK, Prepared, OneWriter, NoLostUpdate, HistoryIsComplete, Exists, vars
<1>2. Inv /\ [Next]_vars => Inv'
  BY <1>1, StepKeepsInv DEF Next
<1> QED
  BY InitInv, <1>2, PTL DEF Spec

-----------------------------------------------------------------------------
(***************************************************************************)
(* Type correctness of the row, its history and its writers.               *)
(***************************************************************************)
THEOREM TypeCorrect == Spec => []TypeOK
  BY AlwaysInv, PTL DEF Inv

(***************************************************************************)
(* upsertDesiredState's row lock: no edit is lost, for any number of       *)
(* concurrent requests and provisioning jobs.                              *)
(***************************************************************************)
THEOREM LockSuffices == Spec => []NoLostUpdate
  BY AlwaysInv, PTL DEF Inv

(***************************************************************************)
(* desired_state_history holds every superseded version once, in order.    *)
(***************************************************************************)
THEOREM HistoryKept == Spec => []HistoryIsComplete
  BY AlwaysInv, PTL DEF Inv

-----------------------------------------------------------------------------
(***************************************************************************)
(* Refinement.  The log of a row at version n is a sequence of length n,   *)
(* so its steps can be compared with those of IntentLog element by         *)
(* element.                                                                *)
(***************************************************************************)
LEMMA SameInterval ==
  ASSUME NEW m \in Nat, NEW n \in Nat, 1..m = 1..n
  PROVE  m = n
<1>1. CASE m < n
  <2>1. n \in 1..n /\ n \notin 1..m
    BY <1>1
  <2> QED
    BY <2>1
<1>2. CASE n < m
  <2>1. m \in 1..m /\ m \notin 1..n
    BY <1>2
  <2> QED
    BY <2>1
<1> QED
  BY <1>1, <1>2

LogFacts ==
  /\ log \in Seq(Value)
  /\ Len(log) = row.version
  /\ row.version \in Nat
  /\ \A v \in 1..row.version :
       log[v] = IF v = row.version THEN row.value ELSE history[v].value

LEMMA LogIsSequence == Inv => LogFacts
<1> SUFFICES ASSUME Inv PROVE LogFacts
  OBVIOUS
<1>1. row.version \in Nat
  BY RowFacts DEF Inv, NoRow, LiveRow
<1>2. log \in [1..row.version -> Value]
  <2>1. CASE Exists
    <3>1. row.value \in Value /\ Len(history) = row.version - 1
      BY <2>1, RowFacts DEF Inv, HistoryIsComplete
    <3>2. ASSUME NEW v \in 1..row.version
          PROVE  (IF v = row.version THEN row.value ELSE history[v].value) \in Value
      <4>1. CASE v = row.version
        BY <3>1, <4>1
      <4>2. CASE v # row.version
        <5>1. v \in 1..Len(history)
          BY <1>1, <3>1, <4>2
        <5>2. history[v] \in LiveRow
          BY <5>1, ElementOfSeq DEF Inv, TypeOK
        <5> QED
          BY <4>2, <5>2 DEF LiveRow
      <4> QED
        BY <4>1, <4>2
    <3> QED
      BY <3>2 DEF log
  <2>2. CASE ~Exists
    <3>1. row.version = 0
      BY <2>2, RowFacts DEF Inv
    <3> QED
      BY <3>1 DEF log
  <2> QED
    BY <2>1, <2>2
<1>3. log \in Seq(Value)
  BY <1>1, <1>2, SeqDef
<1>4. Len(log) = row.version
  <2>1. Len(log) \in Nat /\ DOMAIN log = 1..Len(log)
    BY <1>3, LenProperties
  <2>2. DOMAIN log = 1..row.version
    BY <1>2
  <2> QED
    BY <1>1, <2>1, <2>2, SameInterval
<1> QED
  BY <1>1, <1>3, <1>4 DEF log, LogFacts

-----------------------------------------------------------------------------
(* upsertDesiredState's INSERT and UPDATE both declare the new value.      *)
LEMMA UpsertDeclares ==
  ASSUME Inv, Inv', NEW want \in Value,
         row' = [value |-> want, version |-> row.version + 1],
         history' = IF Exists THEN Append(history, row) ELSE history,
         row.value # want
  PROVE  Abstract!Declare(want)
<1>1. log \in Seq(Value) /\ Len(log) = row.version /\ row.version \in Nat
  BY LogIsSequence DEF LogFacts
<1>2. log' \in Seq(Value) /\ Len(log') = row.version + 1
  <2>1. LogFacts'
    BY LogIsSequence, PTL
  <2> QED
    BY <1>1, <2>1 DEF LogFacts
<1>3. \A v \in 1..row.version : log[v] = IF v = row.version THEN row.value ELSE history[v].value
  BY LogIsSequence DEF LogFacts
<1>4. \A v \in 1..(row.version + 1) :
        log'[v] = IF v = row.version + 1 THEN want ELSE history'[v].value
  BY <1>1 DEF log
<1>5. \A v \in 1..row.version : history'[v].value = log[v]
  <2>1. CASE Exists
    <3>1. Len(history) = row.version - 1 /\ history \in Seq(LiveRow) /\ row \in LiveRow
      BY <2>1, RowFacts DEF Inv, HistoryIsComplete, TypeOK
    <3>2. /\ \A v \in 1..Len(history) : history'[v] = history[v]
          /\ history'[row.version] = row
      BY <1>1, <2>1, <3>1, AppendProperties
    <3> QED
      BY <1>1, <1>3, <3>1, <3>2
  <2>2. CASE ~Exists
    BY <2>2, RowFacts DEF Inv
  <2> QED
    BY <2>1, <2>2
<1>6. log' = Append(log, want)
  <2> DEFINE longer == Append(log, want)
  <2>1. /\ longer \in Seq(Value)
        /\ Len(longer) = row.version + 1
        /\ \A v \in 1..row.version : longer[v] = log[v]
        /\ longer[row.version + 1] = want
    BY <1>1, AppendProperties
  <2> HIDE DEF longer
  <2>2. ASSUME NEW v \in 1..(row.version + 1) PROVE log'[v] = longer[v]
    <3>1. CASE v = row.version + 1
      BY <1>4, <2>1, <3>1
    <3>2. CASE v # row.version + 1
      <4>1. v \in 1..row.version
        BY <1>1, <3>2
      <4> QED
        BY <1>4, <1>5, <2>1, <3>2, <4>1
    <3> QED
      BY <3>1, <3>2
  <2>3. log' = longer
    BY <1>2, <2>1, <2>2, SeqEqual
  <2> QED
    BY <2>3 DEF longer
<1>7. log # <<>> => log[Len(log)] # want
  <2>1. log # <<>> => row.version \in 1..row.version
    BY <1>1, EmptySeq
  <2> QED
    BY <1>1, <1>3, <2>1
<1> QED
  BY <1>6, <1>7 DEF Abstract!Declare

(* The undo of a failed provisioning job amends the value in force.        *)
LEMMA UndoAmends ==
  ASSUME Inv, Inv', Exists, NEW saved \in Value, row' = [row EXCEPT !.value = saved],
         UNCHANGED history
  PROVE  Abstract!Amend(saved)
<1>1. /\ log \in Seq(Value) /\ Len(log) = row.version
      /\ row.version \in Nat /\ row.version >= 1
      /\ \A v \in 1..row.version : log[v] = IF v = row.version THEN row.value ELSE history[v].value
  BY LogIsSequence, RowFacts DEF LogFacts, Inv
<1>2. row'.version = row.version /\ row'.value = saved
  BY RowFacts DEF Inv, LiveRow
<1>3. LogFacts'
  BY LogIsSequence, PTL
<1>4. /\ log' \in Seq(Value) /\ Len(log') = row.version
      /\ \A v \in 1..row.version : log'[v] = IF v = row.version THEN saved ELSE history[v].value
  BY <1>2, <1>3 DEF LogFacts
<1> DEFINE amended == [log EXCEPT ![row.version] = saved]
<1>5. /\ amended \in Seq(Value) /\ Len(amended) = row.version
      /\ \A v \in 1..row.version : amended[v] = IF v = row.version THEN saved ELSE log[v]
  <2>1. row.version \in 1..Len(log)
    BY <1>1
  <2> QED
    BY <1>1, <2>1, ExceptSeq
<1> HIDE DEF amended
<1>6. \A v \in 1..row.version : log'[v] = amended[v]
  BY <1>1, <1>4, <1>5
<1>7. log' = amended
  BY <1>4, <1>5, <1>6, SeqEqual
<1>8. log # <<>>
  BY <1>1, EmptySeq
<1> QED
  BY <1>1, <1>7, <1>8 DEF amended, Abstract!Amend

(* What leaves the row and its history alone leaves the log alone.         *)
LEMMA LogStays ==
  ASSUME UNCHANGED <<row, history>>
  PROVE  UNCHANGED log
  BY DEF log

LEMMA StepRefines ==
  ASSUME Inv, Inv', NEW e \in Editor, EditorStep(e)
  PROVE  [Abstract!Next]_log
<1>1. CASE UNCHANGED <<row, history>>
  BY <1>1, LogStays
<1>2. CASE CreateRow(e) /\ ~Exists
  <2>1. /\ row' = [value |-> editor[e].want, version |-> row.version + 1]
        /\ row.value = NoValue /\ UNCHANGED history
    BY <1>2, RowFacts DEF CreateRow, Inv, NoRow
  <2>2. editor[e].want \in Value
    BY <1>2 DEF CreateRow, Inv, Prepared
  <2>3. Abstract!Declare(editor[e].want)
    BY <1>2, <2>1, <2>2, UpsertDeclares, ConstantsAssumption
  <2> QED
    BY <2>2, <2>3 DEF Abstract!Next
<1>3. CASE WriteRow(e)
  <2>1. /\ editor[e].prior = row /\ editor[e].want \in Value
        /\ row \in LiveRow /\ row.value # editor[e].want
    BY <1>3 DEF WriteRow, Inv, Prepared, NoLostUpdate
  <2>2. Exists
    BY <2>1, RowFacts DEF Inv
  <2>3. Abstract!Declare(editor[e].want)
    BY <1>3, <2>1, <2>2, UpsertDeclares DEF WriteRow
  <2> QED
    BY <2>1, <2>3 DEF Abstract!Next
<1>4. CASE UndoUpsert(e) /\ ~UNCHANGED row
  <2>1. CASE editor[e].saved # NoValue /\ Exists
               /\ row' = [row EXCEPT !.value = editor[e].saved]
    <3>1. editor[e].saved \in Value
      BY <2>1 DEF Inv, TypeOK, EditorState
    <3>2. Abstract!Amend(editor[e].saved)
      BY <1>4, <2>1, <3>1, UndoAmends DEF UndoUpsert
    <3> QED
      BY <3>1, <3>2 DEF Abstract!Next
  <2>2. CASE history = <<>> /\ row' = NoRow
    <3>1. Exists
      BY <1>4, <2>2 DEF Exists
    <3>2. row.version = 1
      BY <2>2, <3>1, RowFacts DEF Inv, HistoryIsComplete
    <3>3. Len(log) = 1
      BY <3>2, LogIsSequence DEF LogFacts
    <3>4. log' = <<>>
      <4>1. LogFacts'
        BY LogIsSequence, PTL
      <4> QED
        BY <2>2, <4>1, EmptySeq DEF LogFacts, NoRow
    <3> QED
      BY <3>3, <3>4 DEF Abstract!Next, Abstract!Withdraw
  <2> QED
    BY <1>4, <2>1, <2>2 DEF UndoUpsert
<1> QED
  BY <1>1, <1>2, <1>3, <1>4
  DEF EditorStep, Request, SelectForUpdate, CreateRow, WriteRow, UpsertFails,
      LaterStepsSucceed, LaterStepFails, UndoUpsert

(***************************************************************************)
(* Concurrent upserts, failed provisioning jobs and their undos implement  *)
(* the log of intent, for any number of them.                              *)
(***************************************************************************)
THEOREM IntentLogKept == Spec => ImplementsIntentLog
<1>1. Init => Abstract!Init
  BY DEF Init, NoRow, log, Abstract!Init
<1>2. Inv /\ Inv' /\ [Next]_vars => [Abstract!Next]_log
  BY StepRefines, LogStays DEF Next, vars
<1> QED
  BY <1>1, <1>2, AlwaysInv, PTL DEF Spec, ImplementsIntentLog, Abstract!Spec

-----------------------------------------------------------------------------
(***************************************************************************)
(* The credentials of the connection pool, which share no state with the   *)
(* rows above.                                                             *)
(***************************************************************************)

(* The order of what is on record, in the pool and in the file; a call     *)
(* that waits for the old pool's end has already put its own in the pool.  *)
Ordered ==
  /\ dbCreds <= pool
  /\ pool <= credsFile
  /\ \A c \in Call : reconcile[c].pc = "drain" => reconcile[c].next <= pool

RotationInv == RotationTypeOK /\ Ordered

-----------------------------------------------------------------------------
LEMMA InitRotation == RotationInit => RotationInv
<1> SUFFICES ASSUME RotationInit PROVE RotationInv
  OBVIOUS
<1> USE RotationConstants
<1>1. 1 \in Cred /\ 1 \in Token
  BY DEF Cred, Token
<1>2. IdleCall \in CallState /\ IdleCall.pc = "idle"
  BY <1>1 DEF IdleCall, CallState
<1>3. RotationTypeOK
  <2>1. reconcile \in [Call -> CallState] /\ lease \in [of : Cred, fresh : BOOLEAN]
    BY <1>1, <1>2 DEF RotationInit
  <2>2. valid \subseteq Token /\ verify \in 0..MaxTokens /\ lookup \in 0..MaxCreds
    BY <1>1 DEF RotationInit
  <2>3. credsFile \in Cred /\ pool \in Cred /\ dbCreds \in Cred
    BY <1>1 DEF RotationInit
  <2>4. tokenFile \in Token /\ token \in Token /\ faults \in 0..MaxFaults
    BY <1>1 DEF RotationInit
  <2>5. rotationError \in BOOLEAN /\ authenticated \in BOOLEAN /\ using \subseteq Query
    BY DEF RotationInit
  <2> QED
    BY <2>1, <2>2, <2>3, <2>4, <2>5 DEF RotationTypeOK
<1>4. Ordered
  BY <1>2 DEF RotationInit, Ordered
<1> QED
  BY <1>3, <1>4 DEF RotationInv

(***************************************************************************)
(* reconcileDbCredsFile up to the swap: the pool only moves forward, to    *)
(* what the file holds, and the record stays behind it.                    *)
(***************************************************************************)
LEMMA RereadMovesForward ==
  ASSUME RotationInv, NEW c \in Call, RereadCreds(c)
  PROVE  /\ Ordered'
         /\ pool' \in Cred /\ pool' >= pool
         /\ using' \subseteq Query
         /\ reconcile' \in [Call -> CallState]
         /\ UNCHANGED <<credsFile, dbCreds, rotationError>>
<1>t. /\ {credsFile, pool, dbCreds} \subseteq Cred /\ using \subseteq Query
      /\ reconcile \in [Call -> CallState]
      /\ UNCHANGED <<credsFile, dbCreds, rotationError>>
  BY DEF RotationInv, RotationTypeOK, RereadCreds
<1>1. CASE credsFile = dbCreds
  BY <1>1, <1>t DEF RereadCreds, RotationInv, Ordered, Cred
<1>2. CASE credsFile # dbCreds
  <2> DEFINE draining == [pc |-> "drain", next |-> credsFile, waits |-> using]
  <2>1. /\ pool' = credsFile /\ using' = {}
        /\ reconcile' = [reconcile EXCEPT ![c] = draining]
    BY <1>2 DEF RereadCreds
  <2>2. draining \in CallState /\ draining.next = credsFile
    BY <1>t DEF CallState
  <2>3. reconcile' \in [Call -> CallState]
    BY <1>t, <2>1, <2>2
  <2>4. pool' >= pool /\ dbCreds' <= pool' /\ pool' <= credsFile'
    BY <1>t, <2>1 DEF RotationInv, Ordered, Cred
  <2>5. \A d \in Call : reconcile'[d].pc = "drain" => reconcile'[d].next <= pool'
    <3>1. SUFFICES ASSUME NEW d \in Call, reconcile'[d].pc = "drain"
                   PROVE  reconcile'[d].next <= pool'
      OBVIOUS
    <3>2. CASE d = c
      BY <1>t, <2>1, <2>2, <3>2 DEF Cred
    <3>3. CASE d # c
      <4>1. reconcile[d].next <= pool /\ reconcile[d].next \in Cred
        BY <1>t, <2>1, <3>1, <3>3 DEF RotationInv, Ordered, CallState
      <4> QED
        BY <1>t, <2>1, <2>4, <3>3, <4>1 DEF Cred
    <3> QED
      BY <3>2, <3>3
  <2> QED
    BY <1>t, <2>1, <2>3, <2>4, <2>5 DEF Ordered
<1> QED
  BY <1>1, <1>2

(* reconcileTokenFile touches nothing but the token and the flag.          *)
LEMMA RereadTokenIsTyped ==
  ASSUME RotationInv, RereadToken
  PROVE  /\ token' \in Token /\ authenticated' \in BOOLEAN
         /\ UNCHANGED <<tokenFile, valid>>
  BY DEF RotationInv, RotationTypeOK, RereadToken

(* A step that leaves the credentials alone leaves their order alone.      *)
LEMMA OrderStays ==
  ASSUME RotationInv, UNCHANGED <<credsFile, pool, reconcile, dbCreds>>
  PROVE  Ordered'
  BY DEF RotationInv, Ordered

-----------------------------------------------------------------------------
LEMMA CallsKeepRotation ==
  ASSUME RotationInv, NEW c \in Call, Watch(c) \/ Tick(c) \/ TokenReadFails(c) \/ Record(c)
  PROVE  RotationInv' /\ pool' >= pool
<1> USE DEF RotationInv
<1>t. RotationTypeOK /\ pool >= pool
  BY DEF RotationTypeOK, Cred
<1>1. CASE Watch(c)
  <2>1. UNCHANGED <<verify, lease, lookup, faults>>
    BY <1>1 DEF Watch, probing
  <2>2. CASE RereadToken /\ UNCHANGED db
    <3>1. UNCHANGED <<credsFile, pool, using, reconcile, dbCreds, rotationError>>
      BY <2>2 DEF db
    <3> QED
      BY <1>t, <2>1, <2>2, <3>1, OrderStays, RereadTokenIsTyped DEF RotationTypeOK
  <2>3. CASE RereadCreds(c) /\ UNCHANGED <<tokenFile, token, authenticated, valid>>
    BY <1>t, <2>1, <2>3, RereadMovesForward DEF RotationTypeOK
  <2>4. CASE RereadToken /\ RereadCreds(c)
    BY <1>t, <2>1, <2>4, RereadMovesForward, RereadTokenIsTyped DEF RotationTypeOK
  <2> QED
    BY <1>1, <2>2, <2>3, <2>4 DEF Watch
<1>2. CASE Tick(c)
  <2>1. /\ RereadToken /\ RereadCreds(c) /\ verify' = tokenFile
        /\ UNCHANGED <<lease, lookup, faults>>
    BY <1>2 DEF Tick, probing
  <2>2. verify' \in 0..MaxTokens
    BY <1>t, <2>1 DEF RotationTypeOK, Token
  <2> QED
    BY <1>t, <2>1, <2>2, RereadMovesForward, RereadTokenIsTyped DEF RotationTypeOK
<1>3. CASE TokenReadFails(c)
  <2>1. /\ RereadCreds(c) /\ verify' = token /\ faults' \in 0..MaxFaults
        /\ UNCHANGED <<tokenFile, token, authenticated, valid, lease, lookup>>
    BY <1>t, <1>3, RotationConstants DEF TokenReadFails, Fault, RotationTypeOK, probing
  <2>2. verify' \in 0..MaxTokens
    BY <1>t, <2>1 DEF RotationTypeOK, Token
  <2> QED
    BY <1>t, <2>1, <2>2, RereadMovesForward DEF RotationTypeOK
<1>4. CASE Record(c)
  <2>1. /\ reconcile[c].pc = "drain" /\ dbCreds' = reconcile[c].next
        /\ rotationError' = FALSE
        /\ reconcile' = [reconcile EXCEPT ![c] = IdleCall]
        /\ UNCHANGED <<credsFile, pool, using, tokenFile, token, authenticated, valid,
                       verify, lease, lookup, faults>>
    BY <1>4 DEF Record, auth, probing
  <2>2. IdleCall \in CallState /\ IdleCall.pc = "idle"
    BY RotationConstants DEF IdleCall, CallState, Cred
  <2>3. dbCreds' \in Cred
    BY <1>t, <2>1 DEF RotationTypeOK, CallState
  <2>4. RotationTypeOK'
    BY <1>t, <2>1, <2>2, <2>3 DEF RotationTypeOK
  <2>5. Ordered'
    BY <1>t, <2>1, <2>2 DEF Ordered, RotationTypeOK
  <2> QED
    BY <1>t, <2>1, <2>4, <2>5
<1> QED
  BY <1>1, <1>2, <1>3, <1>4

LEMMA StepKeepsRotation ==
  ASSUME RotationInv, RotationNext
  PROVE  RotationInv' /\ pool' >= pool
<1> USE DEF RotationInv
<1>t. RotationTypeOK /\ pool >= pool
  BY DEF RotationTypeOK, Cred
<1>1. CASE RenderCreds
  BY <1>t, <1>1, RotationConstants
  DEF RenderCreds, RotationTypeOK, Ordered, Cred, auth, probing
<1>2. CASE RenderToken
  <2>1. tokenFile' \in Token /\ valid' \subseteq Token
    BY <1>t, <1>2, RotationConstants DEF RenderToken, RotationTypeOK, Token
  <2> QED
    BY <1>t, <1>2, <2>1, OrderStays DEF RenderToken, RotationTypeOK, db, probing
<1>3. CASE \E t \in Token : TokenExpires(t)
  BY <1>t, <1>3, OrderStays DEF TokenExpires, RotationTypeOK, db, probing
<1>4. CASE \E q \in Query : BeginQuery(q)
  BY <1>t, <1>4, OrderStays DEF BeginQuery, RotationTypeOK, auth, probing
<1>5. CASE \E q \in Query : EndQuery(q)
  <2>1. PICK q \in Query : EndQuery(q)
    BY <1>5
  <2>2. /\ using' = using \ {q}
        /\ reconcile' = [c \in Call |-> [reconcile[c] EXCEPT !.waits = @ \ {q}]]
        /\ UNCHANGED <<credsFile, pool, dbCreds, rotationError, tokenFile, token,
                       authenticated, valid, verify, lease, lookup, faults>>
    BY <2>1 DEF EndQuery, auth, probing
  <2>3. \A c \in Call : /\ reconcile'[c] \in CallState
                        /\ reconcile'[c].pc = reconcile[c].pc
                        /\ reconcile'[c].next = reconcile[c].next
    BY <1>t, <2>2 DEF RotationTypeOK, CallState
  <2>4. reconcile' \in [Call -> CallState]
    BY <2>2, <2>3
  <2>5. RotationTypeOK'
    BY <1>t, <2>2, <2>4 DEF RotationTypeOK
  <2>6. Ordered'
    BY <2>2, <2>3 DEF Ordered
  <2> QED
    BY <1>t, <2>2, <2>5, <2>6
<1>6. CASE \E c \in Call : Watch(c) \/ Tick(c) \/ TokenReadFails(c) \/ Record(c)
  BY <1>6, CallsKeepRotation
<1>7. CASE ReadFails
  <2>1. /\ faults' \in 0..MaxFaults /\ rotationError' = TRUE
        /\ UNCHANGED <<credsFile, pool, using, reconcile, dbCreds, lease, lookup>>
    BY <1>t, <1>7, RotationConstants DEF ReadFails, Fault, RotationTypeOK, probing
  <2>2. CASE UNCHANGED auth
    BY <1>t, <2>1, <2>2, OrderStays DEF RotationTypeOK, auth
  <2>3. CASE RereadToken /\ verify' = tokenFile
    <3>1. verify' \in 0..MaxTokens
      BY <1>t, <2>3 DEF RotationTypeOK, Token
    <3> QED
      BY <1>t, <2>1, <2>3, <3>1, OrderStays, RereadTokenIsTyped DEF RotationTypeOK
  <2> QED
    BY <1>7, <2>2, <2>3 DEF ReadFails
<1>8. CASE Verified
  BY <1>t, <1>8, OrderStays, RotationConstants DEF Verified, RotationTypeOK, db, probing
<1>9. CASE VerifyFails
  BY <1>t, <1>9, OrderStays, RotationConstants
  DEF VerifyFails, Fault, RotationTypeOK, db, probing
<1>10. CASE Probe
  BY <1>t, <1>10, OrderStays DEF Probe, RotationTypeOK, Cred, db, auth
<1>11. CASE LeaseAnswer
  BY <1>t, <1>11, OrderStays, RotationConstants DEF LeaseAnswer, RotationTypeOK, Cred, db, auth
<1>12. CASE CacheAges
  BY <1>t, <1>12, OrderStays DEF CacheAges, RotationTypeOK, db, auth
<1> QED
  BY <1>1, <1>2, <1>3, <1>4, <1>5, <1>6, <1>7, <1>8, <1>9, <1>10, <1>11, <1>12 DEF RotationNext

LEMMA StutterKeepsRotation ==
  ASSUME RotationInv, UNCHANGED rotationVars
  PROVE  RotationInv'
  BY DEF RotationInv, RotationTypeOK, Ordered, rotationVars, db, auth, probing

LEMMA AlwaysRotation == RotationSpec => []RotationInv
  BY InitRotation, StepKeepsRotation, StutterKeepsRotation, PTL DEF RotationSpec

-----------------------------------------------------------------------------
(***************************************************************************)
(* Type correctness of the process's view of its credentials.              *)
(***************************************************************************)
THEOREM RotationTyped == RotationSpec => []RotationTypeOK
  BY AlwaysRotation, PTL DEF RotationInv

(***************************************************************************)
(* However many calls of reconcileDbCredsFile overlap, and in whatever     *)
(* order the pools they replace come to their end, the record stays behind *)
(* the pool: "the file holds what is on record" means there is nothing to  *)
(* do.                                                                     *)
(***************************************************************************)
THEOREM RecordTrails == RotationSpec => []RecordNotAheadOfPool
<1>1. RotationInv => RecordNotAheadOfPool
  BY DEF RotationInv, RotationTypeOK, Ordered, RecordNotAheadOfPool, Cred
<1> QED
  BY <1>1, AlwaysRotation, PTL

(***************************************************************************)
(* Overlapping rotations never put an older credential back.               *)
(***************************************************************************)
THEOREM PoolAdvances == RotationSpec => PoolNeverStepsBack
<1>1. RotationInv /\ [RotationNext]_rotationVars => [pool' >= pool]_rotationVars
  BY StepKeepsRotation
<1> QED
  BY <1>1, AlwaysRotation, PTL DEF RotationSpec, PoolNeverStepsBack
=============================================================================
