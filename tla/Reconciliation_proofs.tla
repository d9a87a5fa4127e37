------------------------ MODULE Reconciliation_proofs ------------------------
(***************************************************************************)
(* Proofs about Reconciliation, for any number of sweeping workers and API *)
(* calls, any intent and any key.  They rest on what each call holds: the  *)
(* row it has read, the comparison it has made of it and, while no two     *)
(* calls have overlapped, that nothing was recorded behind its back.       *)
(***************************************************************************)
EXTENDS Reconciliation, SequenceTheorems, TLAPS

(* The row of a call is a version of the intent.                           *)
RowKnown(s) ==
  s.pc # "idle" => s.row.version \in 1..Len(log) /\ s.row.days = log[s.row.version]

(* Its status is the comparison of that row with what it has observed.     *)
Compared(s) ==
  s.pc \in {"prior", "insert"} =>
    /\ s.status \in ObservationStatus
    /\ s.status # "UNKNOWN" => s.status = compareFor(s.row.days, s.observed)

(* Only a reconcile of a drifted run comes to these steps.                 *)
AboutDrift(s) ==
  s.reconcile \/ s.pc \in {"apply", "file", "conclude"} => drifted

Single ==
  /\ \A p, q \in Process : process[p].pc # "idle" /\ process[q].pc # "idle" => p = q
  /\ \A p \in Process : process[p].pc = "insert" => process[p].prior = latest.status

(***************************************************************************)
(* A date once passed stays passed, so a call that finds the policy        *)
(* COMPLIANT after a drift has found the key gone.                         *)
(***************************************************************************)
Seen(s) ==
  s.pc \in {"prior", "insert"} =>
    /\ s.observed.active /\ vault.active => s.observed.age <= vault.age
    /\ drifted /\ s.status = "COMPLIANT" => ~vault.active

DatePassed ==
  /\ drifted /\ vault.active => vault.age > log[1]
  /\ drifted /\ latest.status = "COMPLIANT" => ~vault.active
  /\ \A p \in Process : Seen(process[p])

OnRecord ==
  /\ Len(log) <= MaxVersion
  /\ drifted => log # << >>
  /\ action.kind = "reconcile" => drifted
  /\ latest.status # "none" => latest.version \in 1..Len(log)

Calls == \A p \in Process :
  RowKnown(process[p]) /\ Compared(process[p]) /\ AboutDrift(process[p])

Inv ==
  /\ TypeOK
  /\ OnRecord
  /\ RunIsHonest
  /\ Calls
  /\ ~overlapped => Single
  /\ SubscribersInformed
  /\ Expires /\ Len(log) = 1 /\ ~overlapped => DatePassed

-----------------------------------------------------------------------------
LEMMA IdleIsIdle ==
  /\ Idle \in ProcessState /\ Idle.pc = "idle" /\ ~Idle.reconcile
  /\ Unread \in Key /\ NoPolicy \in Policy
<1>1. Unread \in Key /\ ~Unread.active
  BY ConstantsAssumption DEF Unread, Destroyed, Key
<1>2. NoPolicy \in Policy
  BY ConstantsAssumption DEF NoPolicy, Policy
<1> HIDE DEF Unread
<1> QED
  BY <1>1, <1>2 DEF Idle, ProcessState

LEMMA IntentInit == Intent!Init <=> log = << >>
  BY DEF Intent!Init

LEMMA InitInv == Init => Inv
<1> SUFFICES ASSUME Init PROVE Inv
  OBVIOUS
<1>1. log = << >> /\ Len(log) = 0 /\ log \in Seq(Value)
  BY EmptySeq, IntentInit DEF Init
<1>2. /\ latest = NoRun /\ latest.status = "none" /\ ~drifted /\ action.kind = "none"
      /\ told = "none"
  BY DEF Init, NoRun, NoAction
<1>3. \A p \in Process : process[p] = Idle
  BY DEF Init
<1>4. TypeOK
  <2>1. vault \in Key /\ action \in Action
    BY ConstantsAssumption DEF Init, Key, NoAction, Action
  <2>2. process \in [Process -> ProcessState]
    BY IdleIsIdle DEF Init
  <2>3. drifts \in 0..MaxDrift /\ faults \in 0..MaxFaults
    BY ConstantsAssumption DEF Init
  <2> QED
    BY <1>1, <1>2, <2>1, <2>2, <2>3 DEF Init, TypeOK
<1>5. OnRecord
  BY <1>1, <1>2, ConstantsAssumption DEF OnRecord
<1>6. RunIsHonest /\ SubscribersInformed
  BY <1>2 DEF RunIsHonest, SubscribersInformed
<1>7. Calls /\ Single
  BY <1>3, IdleIsIdle DEF Calls, Single, RowKnown, Compared, AboutDrift
<1> QED
  BY <1>1, <1>4, <1>5, <1>6, <1>7 DEF Inv

LEMMA ComparisonIsFixed ==
  ASSUME requirement' = requirement
  PROVE  /\ \A v, k : compareFor(v, k)' = compareFor(v, k)
         /\ Expires' = Expires
  BY DEF compareFor, Expires, compareRotationPeriod, compareExpiryDate

LEMMA ComparisonIsKnown ==
  ASSUME NEW v, NEW k
  PROVE  /\ compareFor(v, k) \in {"COMPLIANT", "DRIFTED"}
         /\ Expires => (compareFor(v, k) = "DRIFTED" <=> k.active /\ k.age > v)
  BY DEF compareFor, Expires, compareRotationPeriod, compareExpiryDate

(* The parts of the type invariant the steps use.                          *)
LEMMA Types ==
  ASSUME Inv
  PROVE  /\ process \in [Process -> ProcessState]
         /\ Len(log) \in Nat /\ log \in Seq(Value) /\ MaxVersion \in Nat
         /\ vault \in Key /\ vault.age \in Nat
         /\ \A p \in Process :
              /\ process[p] \in ProcessState
              /\ process[p].observed \in Key /\ process[p].observed.age \in Nat
              /\ process[p].row \in Policy /\ process[p].row.version \in Nat
         /\ \A v \in 1..Len(log) : log[v] \in Nat /\ log[v] \in Value
         /\ UNCHANGED bounds => drifts' \in 0..MaxDrift /\ faults' \in 0..MaxFaults
         /\ Fault => drifts' \in 0..MaxDrift /\ faults' \in 0..MaxFaults /\ overlapped' = overlapped
<1>1. process \in [Process -> ProcessState] /\ vault \in Key /\ log \in Seq(Value)
  BY DEF Inv, TypeOK
<1>2. Len(log) \in Nat /\ MaxVersion \in Nat /\ \A v \in 1..Len(log) : log[v] \in Value
  BY <1>1, ConstantsAssumption
<1>3. \A k \in Key : k.age \in Nat
  BY ConstantsAssumption DEF Key
<1>4. \A p \in Process : process[p].observed \in Key /\ process[p].row \in Policy
  BY <1>1 DEF ProcessState
<1>5. \A p \in Process : process[p].row.version \in Nat
  BY <1>4 DEF Policy
<1>6. /\ UNCHANGED bounds => drifts' \in 0..MaxDrift /\ faults' \in 0..MaxFaults
      /\ Fault => drifts' \in 0..MaxDrift /\ faults' \in 0..MaxFaults /\ overlapped' = overlapped
  BY ConstantsAssumption DEF Inv, TypeOK, bounds, Fault
<1> QED
  BY <1>1, <1>2, <1>3, <1>4, <1>5, <1>6, ConstantsAssumption

-----------------------------------------------------------------------------
(***************************************************************************)
(* A step of one call that records nothing.  It may set the key's period;  *)
(* whether the key is there, and its age, are not in its power.            *)
(***************************************************************************)
LEMMA CallMoves ==
  ASSUME Inv, NEW p \in Process, NEW s \in ProcessState,
         process' = [process EXCEPT ![p] = s],
         UNCHANGED <<declared, records, overlapped>>,
         vault' \in Key, vault'.active = vault.active, vault'.age = vault.age,
         drifts' \in 0..MaxDrift, faults' \in 0..MaxFaults,
         s.pc # "idle" => process[p].pc # "idle",
         RowKnown(s), Compared(s), AboutDrift(s),
         s.pc = "insert" /\ ~overlapped => s.prior = latest.status,
         Expires /\ Len(log) = 1 /\ DatePassed => Seen(s)
  PROVE  Inv'
<1> USE DEF Inv
<1>1. /\ UNCHANGED <<requirement, log, latest, drifted, action, told, overlapped>>
      /\ \A v, k : compareFor(v, k)' = compareFor(v, k)
      /\ Expires' = Expires
  BY ComparisonIsFixed DEF declared, records
<1>2. process'[p] = s /\ \A q \in Process \ {p} : process'[q] = process[q]
  BY Types
<1>3. TypeOK'
  BY <1>1 DEF TypeOK
<1>4. OnRecord' /\ RunIsHonest' /\ SubscribersInformed'
  BY <1>1 DEF OnRecord, RunIsHonest, SubscribersInformed
<1>5. Calls'
  <2> SUFFICES ASSUME NEW q \in Process
               PROVE  (RowKnown(process[q]) /\ Compared(process[q]) /\ AboutDrift(process[q]))'
    BY DEF Calls
  <2>1. CASE q = p
    BY <1>1, <1>2, <2>1 DEF RowKnown, Compared, AboutDrift
  <2>2. CASE q # p
    BY <1>1, <1>2, <2>2 DEF Calls, RowKnown, Compared, AboutDrift
  <2> QED
    BY <2>1, <2>2
<1>6. (~overlapped => Single)'
  BY <1>1, <1>2 DEF Single
<1>7. (Expires /\ Len(log) = 1 /\ ~overlapped => DatePassed)'
  <2> SUFFICES ASSUME Expires, Len(log) = 1, ~overlapped, DatePassed
               PROVE  DatePassed'
    BY <1>1
  <2>1. \A q \in Process : Seen(process[q])'
    <3> TAKE q \in Process
    <3>1. Seen(s)
      OBVIOUS
    <3>2. CASE q = p
      BY <1>1, <1>2, <3>1, <3>2 DEF Seen
    <3>3. CASE q # p
      BY <1>1, <1>2, <3>3 DEF DatePassed, Seen
    <3> QED
      BY <3>2, <3>3
  <2> QED
    BY <1>1, <2>1 DEF DatePassed
<1> QED
  BY <1>3, <1>4, <1>5, <1>6, <1>7

(* The same without a write to Vault.                                      *)
LEMMA CallLooks ==
  ASSUME Inv, NEW p \in Process, NEW s \in ProcessState,
         process' = [process EXCEPT ![p] = s],
         UNCHANGED <<declared, vault, records>>,
         UNCHANGED bounds \/ Fault,
         s.pc # "idle" => process[p].pc # "idle",
         RowKnown(s), Compared(s), AboutDrift(s),
         s.pc = "insert" /\ ~overlapped => s.prior = latest.status,
         Expires /\ Len(log) = 1 /\ DatePassed => Seen(s)
  PROVE  Inv'
<1>1. vault' \in Key /\ vault'.active = vault.active /\ vault'.age = vault.age
  BY Types
<1>2. drifts' \in 0..MaxDrift /\ faults' \in 0..MaxFaults /\ overlapped' = overlapped
  BY Types DEF bounds
<1> QED
  BY <1>1, <1>2, CallMoves

(* A call that ends, or goes on to its action row.                         *)
LEMMA CallEnds ==
  ASSUME Inv, NEW p \in Process, NEW s \in ProcessState,
         process' = [process EXCEPT ![p] = s],
         UNCHANGED <<declared, vault, records>>,
         UNCHANGED bounds \/ Fault,
         process[p].pc # "idle",
         \/ s.pc = "idle" /\ ~s.reconcile
         \/ /\ s.pc = "conclude" /\ s.row = process[p].row
            /\ s.reconcile = process[p].reconcile
            /\ process[p].reconcile \/ process[p].pc \in {"apply", "file"}
  PROVE  Inv'
<1>1. RowKnown(process[p]) /\ AboutDrift(process[p])
  BY DEF Inv, Calls
<1>2. /\ RowKnown(s) /\ Compared(s) /\ AboutDrift(s)
      /\ s.pc = "insert" /\ ~overlapped => s.prior = latest.status
      /\ Expires /\ Len(log) = 1 /\ DatePassed => Seen(s)
  BY <1>1 DEF RowKnown, Compared, AboutDrift, Seen
<1> QED
  BY <1>2, CallLooks

-----------------------------------------------------------------------------
(* A call starts from the policy as it now is.                             *)
LEMMA CurrentIsKnown ==
  ASSUME Inv, log # << >>
  PROVE  /\ Current \in Policy
         /\ Current.version \in 1..Len(log) /\ Current.days = log[Current.version]
<1>1. Len(log) \in 1..Len(log) /\ Len(log) \in 0..MaxVersion
  BY Types, EmptySeq DEF Inv, OnRecord
<1> QED
  BY <1>1, Types DEF Current, Policy

LEMMA BeginKeepsInv ==
  ASSUME Inv, NEW p \in Process, BeginSweep(p) \/ BeginReconcile(p)
  PROVE  Inv'
<1> USE DEF Inv
<1>1. PICK s :
        /\ Begin(p, s) /\ log # << >> /\ s \in ProcessState
        /\ s.row = Current /\ s.pc \in {"observe", "apply", "file"}
        /\ s.reconcile \/ s.pc # "observe" => drifted
  <2>1. CASE BeginSweep(p)
    <3> DEFINE s == [Idle EXCEPT !.pc = "observe", !.row = Current]
    <3>1. s \in ProcessState /\ s.row = Current /\ s.pc = "observe" /\ ~s.reconcile
      BY <2>1, IdleIsIdle, CurrentIsKnown DEF ProcessState, BeginSweep
    <3>2. Begin(p, s) /\ log # << >>
      BY <2>1 DEF BeginSweep
    <3> HIDE DEF s
    <3> QED
      BY <3>1, <3>2
  <2>2. CASE BeginReconcile(p)
    <3> DEFINE s == [Idle EXCEPT !.pc = IF Expires THEN "file" ELSE "apply",
                                 !.reconcile = TRUE, !.row = Current]
    <3>1. drifted /\ log # << >> /\ Begin(p, s)
      BY <2>2 DEF BeginReconcile, OnRecord
    <3>2. s \in ProcessState /\ s.row = Current /\ s.pc \in {"apply", "file"}
      BY <3>1, IdleIsIdle, CurrentIsKnown DEF ProcessState
    <3> HIDE DEF s
    <3> QED
      BY <3>1, <3>2
  <2> QED
    BY <2>1, <2>2
<1>2. /\ process[p].pc = "idle" /\ process' = [process EXCEPT ![p] = s]
      /\ overlapped' = (overlapped \/ \E q \in Process : process[q].pc # "idle")
      /\ UNCHANGED <<declared, vault, records, drifts, faults>>
      /\ UNCHANGED <<requirement, log, latest, drifted, action, told>>
  BY <1>1 DEF Begin, declared, records
<1>3. /\ \A v, k : compareFor(v, k)' = compareFor(v, k)
      /\ Expires' = Expires
  BY <1>2, ComparisonIsFixed
<1>4. /\ process'[p] = s /\ \A q \in Process \ {p} : process'[q] = process[q]
      /\ process' \in [Process -> ProcessState]
  BY <1>1, <1>2, Types
<1>5. TypeOK'
  BY <1>2, <1>4 DEF TypeOK
<1>6. OnRecord' /\ RunIsHonest' /\ SubscribersInformed'
  BY <1>2, <1>3 DEF OnRecord, RunIsHonest, SubscribersInformed
<1>7. RowKnown(s) /\ Compared(s) /\ AboutDrift(s) /\ Seen(s)
  BY <1>1, CurrentIsKnown DEF RowKnown, Compared, AboutDrift, Seen
<1>8. Calls'
  BY <1>2, <1>3, <1>4, <1>7 DEF Calls, RowKnown, Compared, AboutDrift
<1>9. (~overlapped => Single)'
  BY <1>1, <1>2, <1>4 DEF Single
<1>10. (Expires /\ Len(log) = 1 /\ ~overlapped => DatePassed)'
  BY <1>2, <1>3, <1>4, <1>7 DEF DatePassed, Seen
<1> QED
  BY <1>5, <1>6, <1>8, <1>9, <1>10

-----------------------------------------------------------------------------
(* The steps that read, compare and write to Vault.                        *)
LEMMA FileKeepsInv ==
  ASSUME Inv, NEW p \in Process, File(p) \/ FileFails(p)
  PROVE  Inv'
<1> DEFINE me == process[p]
<1>1. me \in ProcessState /\ me.pc = "file"
  BY Types DEF File, FileFails
<1>2. CASE File(p)
  <2> DEFINE s == [me EXCEPT !.pc = "conclude", !.status = "filed"]
  <2>1. process' = [process EXCEPT ![p] = s] /\ UNCHANGED <<declared, vault, records, bounds>>
    BY <1>2 DEF File
  <2>2. /\ s \in ProcessState /\ s.pc = "conclude" /\ s.row = me.row
        /\ s.reconcile = me.reconcile
    BY <1>1 DEF ProcessState
  <2> HIDE DEF s
  <2> QED
    BY <1>1, <2>1, <2>2, CallEnds
<1>3. CASE FileFails(p)
  <2> DEFINE s == [me EXCEPT !.pc = "conclude"]
  <2>1. process' = [process EXCEPT ![p] = s] /\ UNCHANGED <<declared, vault, records>> /\ Fault
    BY <1>3 DEF FileFails
  <2>2. /\ s \in ProcessState /\ s.pc = "conclude" /\ s.row = me.row
        /\ s.reconcile = me.reconcile
    BY <1>1 DEF ProcessState
  <2> HIDE DEF s
  <2> QED
    BY <1>1, <2>1, <2>2, CallEnds
<1> QED
  BY <1>2, <1>3

LEMMA ApplyKeepsInv ==
  ASSUME Inv, NEW p \in Process, Apply(p) \/ ApplyFails(p)
  PROVE  Inv'
<1> DEFINE me == process[p]
           set == [vault EXCEPT !.days = me.row.days]
<1>1. me \in ProcessState /\ me.pc = "apply" /\ RowKnown(me) /\ AboutDrift(me)
  BY Types DEF Apply, ApplyFails, Inv, Calls
<1>2. UNCHANGED <<declared, records>> /\ UNCHANGED <<log, drifted, latest>>
  BY DEF Apply, ApplyFails, declared, records
<1>3. /\ drifts' \in 0..MaxDrift /\ faults' \in 0..MaxFaults /\ overlapped' = overlapped
  BY Types DEF Apply, ApplyFails, bounds
<1>4. set \in Key /\ set.active = vault.active /\ set.age = vault.age
  <2>1. me.row.days \in Value
    BY <1>1, Types DEF RowKnown
  <2> QED
    BY <2>1, Types DEF Key
<1>5. vault' \in Key /\ vault'.active = vault.active /\ vault'.age = vault.age
  <2>1. vault' = set \/ vault' = vault
    BY DEF Apply, ApplyFails
  <2> HIDE DEF set
  <2> QED
    BY <1>4, <2>1, Types
<1>6. PICK s \in ProcessState :
        /\ process' = [process EXCEPT ![p] = s]
        /\ s.pc \in {"observe", "conclude"} /\ s.row = me.row /\ s.reconcile = me.reconcile
  <2> DEFINE s1 == [me EXCEPT !.pc = "observe"]
             s2 == [me EXCEPT !.pc = "conclude"]
  <2>1. \/ process' = [process EXCEPT ![p] = s1]
        \/ process' = [process EXCEPT ![p] = s2]
    BY DEF Apply, ApplyFails
  <2>2. /\ s1 \in ProcessState /\ s1.pc = "observe" /\ s1.row = me.row
        /\ s1.reconcile = me.reconcile
    BY <1>1 DEF ProcessState
  <2>3. /\ s2 \in ProcessState /\ s2.pc = "conclude" /\ s2.row = me.row
        /\ s2.reconcile = me.reconcile
    BY <1>1 DEF ProcessState
  <2> HIDE DEF s1, s2
  <2> QED
    BY <2>1, <2>2, <2>3
<1>7. /\ RowKnown(s) /\ Compared(s) /\ AboutDrift(s)
      /\ s.pc = "insert" /\ ~overlapped => s.prior = latest.status
      /\ Expires /\ Len(log) = 1 /\ DatePassed => Seen(s)
      /\ s.pc # "idle" => process[p].pc # "idle"
  BY <1>1, <1>6 DEF RowKnown, Compared, AboutDrift, Seen
<1> QED
  BY <1>2, <1>3, <1>5, <1>6, <1>7, CallMoves

(* The comparison is made with the key as it is; one that failed is none.  *)
LEMMA ObserveKeepsInv ==
  ASSUME Inv, NEW p \in Process, Observe(p) \/ ObserveFails(p)
  PROVE  Inv'
<1> DEFINE me == process[p]
<1>1. me \in ProcessState /\ me.pc = "observe" /\ RowKnown(me) /\ AboutDrift(me)
  BY Types DEF Observe, ObserveFails, Inv, Calls
<1>2. UNCHANGED <<declared, vault, records>> /\ (UNCHANGED bounds \/ Fault)
  BY DEF Observe, ObserveFails
<1>3. PICK s \in ProcessState :
        /\ process' = [process EXCEPT ![p] = s]
        /\ s.pc = "prior" /\ s.row = me.row /\ s.reconcile = me.reconcile
        /\ \/ s.observed = vault /\ s.status = compareFor(me.row.days, vault)
           \/ ~s.observed.active /\ s.status = "UNKNOWN"
  <2>1. CASE Observe(p)
    <3> DEFINE c == compareFor(me.row.days, vault)
               s == [me EXCEPT !.pc = "prior", !.observed = vault, !.status = c]
    <3>1. process' = [process EXCEPT ![p] = s]
      BY <2>1 DEF Observe
    <3>2. c \in {"COMPLIANT", "DRIFTED"}
      BY ComparisonIsKnown
    <3> HIDE DEF c
    <3>3. /\ s \in ProcessState /\ s.pc = "prior" /\ s.row = me.row
          /\ s.reconcile = me.reconcile /\ s.observed = vault /\ s.status = c
      BY <1>1, <3>2, Types DEF ProcessState, ObservationStatus
    <3> HIDE DEF s
    <3> QED
      BY <3>1, <3>3 DEF c
  <2>2. CASE ObserveFails(p)
    <3> DEFINE s == [me EXCEPT !.pc = "prior", !.observed = Unread, !.status = "UNKNOWN"]
    <3>1. process' = [process EXCEPT ![p] = s]
      BY <2>2 DEF ObserveFails
    <3>2. Unread \in Key /\ ~Unread.active
      BY IdleIsIdle DEF Unread, Destroyed
    <3>3. /\ s \in ProcessState /\ s.pc = "prior" /\ s.row = me.row
          /\ s.reconcile = me.reconcile /\ s.observed = Unread /\ s.status = "UNKNOWN"
      BY <1>1, <3>2 DEF ProcessState, ObservationStatus
    <3> HIDE DEF s, Unread
    <3> QED
      BY <3>1, <3>2, <3>3
  <2> QED
    BY <2>1, <2>2
<1>4. RowKnown(s) /\ AboutDrift(s) /\ s.pc # "insert" /\ process[p].pc # "idle"
  BY <1>1, <1>3 DEF RowKnown, AboutDrift
<1>5. Compared(s)
  BY <1>3, ComparisonIsKnown DEF Compared, ObservationStatus
<1>6. Expires /\ Len(log) = 1 /\ DatePassed => Seen(s)
  <2> SUFFICES ASSUME Expires, Len(log) = 1, DatePassed PROVE Seen(s)
    OBVIOUS
  <2>1. me.row.days = log[1]
    BY <1>1, Types DEF RowKnown
  <2>2. vault.age <= vault.age
    BY Types
  <2> QED
    BY <1>3, <2>1, <2>2, ComparisonIsKnown DEF Seen, DatePassed
<1> QED
  BY <1>2, <1>3, <1>4, <1>5, <1>6, CallLooks

LEMMA PriorKeepsInv ==
  ASSUME Inv, NEW p \in Process, ReadPrior(p)
  PROVE  Inv'
<1> DEFINE me == process[p]
           s  == [me EXCEPT !.pc = "insert", !.prior = latest.status]
<1>1. me \in ProcessState /\ me.pc = "prior"
  BY Types DEF ReadPrior
<1>2. RowKnown(me) /\ Compared(me) /\ AboutDrift(me)
  BY DEF Inv, Calls
<1>3. process' = [process EXCEPT ![p] = s] /\ UNCHANGED <<declared, vault, records, bounds>>
  BY DEF ReadPrior
<1>4. latest.status \in ObservationStatus \cup {"none"}
  BY DEF Inv, TypeOK, Run, NoRun
<1>5. /\ s \in ProcessState /\ s.pc = "insert" /\ s.prior = latest.status /\ s.row = me.row
      /\ s.reconcile = me.reconcile /\ s.observed = me.observed /\ s.status = me.status
  BY <1>1, <1>4 DEF ProcessState
<1> HIDE DEF s
<1>6. RowKnown(s) /\ Compared(s) /\ AboutDrift(s)
  BY <1>1, <1>2, <1>5 DEF RowKnown, Compared, AboutDrift
<1>7. DatePassed => Seen(s)
  BY <1>1, <1>5 DEF DatePassed, Seen
<1> QED
  BY <1>1, <1>3, <1>5, <1>6, <1>7, CallLooks

LEMMA FailKeepsInv ==
  ASSUME Inv, NEW p \in Process, RecordFails(p) \/ CallDies(p)
  PROVE  Inv'
<1> DEFINE me == process[p]
           s  == [me EXCEPT !.pc = "conclude", !.status = "none"]
<1>1. /\ me \in ProcessState /\ me.pc # "idle"
      /\ UNCHANGED <<declared, vault, records>> /\ Fault
  BY Types DEF RecordFails, CallDies
<1>2. \/ process' = [process EXCEPT ![p] = Idle]
      \/ me.reconcile /\ process' = [process EXCEPT ![p] = s]
  BY DEF RecordFails, CallDies
<1>3. s \in ProcessState /\ s.pc = "conclude" /\ s.row = me.row /\ s.reconcile = me.reconcile
  BY <1>1 DEF ProcessState
<1> HIDE DEF s
<1> QED
  BY <1>1, <1>2, <1>3, IdleIsIdle, CallEnds

-----------------------------------------------------------------------------
(***************************************************************************)
(* recordRun.  What is recorded is what the call has compared; while no    *)
(* two calls have overlapped, nobody has recorded anything since it read   *)
(* the prior status.                                                       *)
(***************************************************************************)
Recorded(p, s) ==
  LET me == process[p] IN
  /\ me.pc = "insert"
  /\ process' = [process EXCEPT ![p] = s]
  /\ latest' = [version |-> me.row.version, observed |-> me.observed, status |-> me.status]
  /\ drifted' = (drifted \/ me.status = "DRIFTED")
  /\ told' \in IF me.status # me.prior /\ me.status # "UNKNOWN" THEN {me.status, "missed"}
                                                               ELSE {told}
  /\ UNCHANGED <<requirement, log, vault, action, overlapped>>
  /\ drifts' \in 0..MaxDrift /\ faults' \in 0..MaxFaults
  /\ \/ s.pc = "idle" /\ ~s.reconcile
     \/ s.pc = "conclude" /\ s.row = me.row /\ s.reconcile /\ me.reconcile

LEMMA InsertRecords ==
  ASSUME Inv, NEW p \in Process, InsertRun(p) \/ InsertRunUnannounced(p)
  PROVE  \E s \in ProcessState : Recorded(p, s)
<1> DEFINE me == process[p]
           s1 == [me EXCEPT !.pc = "conclude"]
<1>1. me \in ProcessState /\ me.pc = "insert"
  BY Types DEF InsertRun, InsertRunUnannounced
<1>2. /\ UNCHANGED <<requirement, log, vault, action>>
      /\ drifts' \in 0..MaxDrift /\ faults' \in 0..MaxFaults /\ overlapped' = overlapped
  BY Types DEF InsertRun, InsertRunUnannounced, declared, bounds
<1>3. \/ process' = [process EXCEPT ![p] = Idle]
      \/ me.reconcile /\ process' = [process EXCEPT ![p] = s1]
  BY DEF InsertRun, InsertRunUnannounced
<1>4. s1 \in ProcessState /\ s1.pc = "conclude" /\ s1.row = me.row /\ s1.reconcile = me.reconcile
  BY <1>1 DEF ProcessState
<1>5. /\ latest' = [version |-> me.row.version, observed |-> me.observed, status |-> me.status]
      /\ drifted' = (drifted \/ me.status = "DRIFTED")
      /\ told' \in IF me.status # me.prior /\ me.status # "UNKNOWN" THEN {me.status, "missed"}
                                                                   ELSE {told}
  BY DEF InsertRun, InsertRunUnannounced
<1> HIDE DEF s1
<1> QED
  BY <1>1, <1>2, <1>3, <1>4, <1>5, IdleIsIdle DEF Recorded

LEMMA InsertKeepsInv ==
  ASSUME Inv, NEW p \in Process, NEW s \in ProcessState, Recorded(p, s)
  PROVE  Inv'
<1> DEFINE me == process[p]
<1>1. /\ me.pc = "insert" /\ process' = [process EXCEPT ![p] = s]
      /\ drifted' = (drifted \/ me.status = "DRIFTED")
      /\ UNCHANGED <<requirement, log, vault, action, overlapped>>
      /\ drifts' \in 0..MaxDrift /\ faults' \in 0..MaxFaults
      /\ \/ s.pc = "idle" /\ ~s.reconcile
         \/ s.pc = "conclude" /\ s.row = me.row /\ s.reconcile /\ me.reconcile
  BY DEF Recorded
<1>2. /\ latest' = [version |-> me.row.version, observed |-> me.observed, status |-> me.status]
      /\ latest'.version = me.row.version /\ latest'.observed = me.observed
      /\ latest'.status = me.status
  BY DEF Recorded
<1>3. told' \in IF me.status # me.prior /\ me.status # "UNKNOWN" THEN {me.status, "missed"}
                                                                ELSE {told}
  BY DEF Recorded
<1>4. /\ me \in ProcessState /\ me.observed \in Key /\ me.observed.age \in Nat
      /\ RowKnown(me) /\ Compared(me) /\ AboutDrift(me)
      /\ me.row.version \in 1..Len(log) /\ me.row.days = log[me.row.version]
      /\ me.status \in ObservationStatus
  BY <1>1, Types DEF Inv, Calls, RowKnown, Compared
<1>5. /\ \A v, k : compareFor(v, k)' = compareFor(v, k)
      /\ Expires' = Expires
  BY <1>1, ComparisonIsFixed
<1>6. /\ process'[p] = s /\ \A q \in Process \ {p} : process'[q] = process[q]
      /\ process' \in [Process -> ProcessState]
  BY <1>1, Types
<1>7. TypeOK'
  <2>1. latest' \in Run
    <3>1. me.row.version \in 1..MaxVersion
      BY <1>4, Types DEF Inv, OnRecord
    <3> QED
      BY <1>2, <1>4, <3>1 DEF Run
  <2>2. drifted' \in BOOLEAN /\ told' \in {"none", "missed", "COMPLIANT", "DRIFTED"}
    BY <1>1, <1>3, <1>4 DEF Inv, TypeOK, ObservationStatus
  <2> QED
    BY <1>1, <1>6, <2>1, <2>2 DEF Inv, TypeOK
<1>8. OnRecord'
  <2>1. log # << >>
    BY <1>4, EmptySeq
  <2> QED
    BY <1>1, <1>2, <1>4, <2>1 DEF Inv, OnRecord
<1>9. RunIsHonest'
  BY <1>1, <1>2, <1>4, <1>5 DEF RunIsHonest, Compared
<1>10. Calls'
  <2> SUFFICES ASSUME NEW q \in Process
               PROVE  (RowKnown(process[q]) /\ Compared(process[q]) /\ AboutDrift(process[q]))'
    BY DEF Calls
  <2>1. CASE q = p
    BY <1>1, <1>4, <1>6, <2>1 DEF RowKnown, Compared, AboutDrift
  <2>2. CASE q # p
    BY <1>1, <1>5, <1>6, <2>2 DEF Inv, Calls, RowKnown, Compared, AboutDrift
  <2> QED
    BY <2>1, <2>2
<1>11. (~overlapped => Single)'
  BY <1>1, <1>6 DEF Inv, Single
<1>12. SubscribersInformed'
  <2> SUFFICES ASSUME ~overlapped, me.status \in {"COMPLIANT", "DRIFTED"}
               PROVE  told' \in {me.status, "missed"}
    BY <1>1, <1>2 DEF SubscribersInformed
  <2>1. me.prior = latest.status
    BY <1>1 DEF Inv, Single
  <2> QED
    BY <1>3, <2>1 DEF Inv, SubscribersInformed
<1>13. (Expires /\ Len(log) = 1 /\ ~overlapped => DatePassed)'
  <2> SUFFICES ASSUME Expires, Len(log) = 1, ~overlapped
               PROVE  DatePassed'
    BY <1>1, <1>5
  <2>1. DatePassed /\ Single /\ Seen(me)
    BY DEF Inv, DatePassed
  <2>2. me.row.days = log[1] /\ log[1] \in Nat /\ vault.age \in Nat
    BY <1>4, Types
  <2>3. me.status = "DRIFTED" /\ vault.active => vault.age > log[1]
    <3>1. me.status = "DRIFTED" => me.observed.active /\ me.observed.age > log[1]
      BY <1>1, <1>4, <2>2, ComparisonIsKnown DEF Compared
    <3> QED
      BY <1>1, <1>4, <2>1, <2>2, <3>1 DEF Seen
  <2>4. /\ (drifted /\ vault.active => vault.age > log[1])'
        /\ (drifted /\ latest.status = "COMPLIANT" => ~vault.active)'
    BY <1>1, <1>2, <2>1, <2>3 DEF DatePassed, Seen
  <2>5. \A q \in Process : Seen(process[q])'
    BY <1>1, <1>6, <2>1 DEF Single, Seen
  <2> QED
    BY <2>4, <2>5 DEF DatePassed
<1> QED
  BY <1>7, <1>8, <1>9, <1>10, <1>11, <1>12, <1>13 DEF Inv

(***************************************************************************)
(* The newest action, or its expiry.  A reconcile action is about a drift. *)
(***************************************************************************)
LEMMA ActionKeepsInv ==
  ASSUME Inv, ExceptionExpires \/ AcceptException
  PROVE  Inv'
<1> USE DEF Inv
<1>1. /\ UNCHANGED <<requirement, log, vault, latest, drifted, told, process>>
      /\ UNCHANGED <<overlapped, drifts, faults>>
  BY DEF ExceptionExpires, AcceptException, declared, bounds
<1>2. action' \in Action /\ (action'.kind = "reconcile" => drifted)
  <2>1. CASE ExceptionExpires
    BY <2>1 DEF ExceptionExpires, TypeOK, Action, OnRecord
  <2>2. CASE AcceptException
    BY <2>2 DEF AcceptException, Action, Exception
  <2> QED
    BY <2>1, <2>2
<1>3. /\ \A v, k : compareFor(v, k)' = compareFor(v, k)
      /\ Expires' = Expires
  BY <1>1, ComparisonIsFixed
<1>4. TypeOK' /\ OnRecord' /\ RunIsHonest' /\ SubscribersInformed'
  BY <1>1, <1>2, <1>3 DEF TypeOK, OnRecord, RunIsHonest, SubscribersInformed
<1>5. Calls' /\ (~overlapped => Single)'
  BY <1>1, <1>3 DEF Calls, RowKnown, Compared, AboutDrift, Single
<1>6. (Expires /\ Len(log) = 1 /\ ~overlapped => DatePassed)'
  BY <1>1, <1>3 DEF DatePassed, Seen
<1> QED
  BY <1>4, <1>5, <1>6

LEMMA ConcludeKeepsInv ==
  ASSUME Inv, NEW p \in Process, InsertAction(p)
  PROVE  Inv'
<1> USE DEF Inv
<1>1. /\ UNCHANGED <<requirement, log, vault, latest, drifted, told>>
      /\ UNCHANGED <<overlapped, drifts, faults>>
      /\ process' = [process EXCEPT ![p] = Idle] /\ process[p].pc = "conclude"
  BY DEF InsertAction, declared, bounds
<1>2. drifted
  BY <1>1 DEF Calls, AboutDrift
<1>3. action' \in Action
  BY DEF InsertAction, Reconcile, Action
<1>4. /\ process'[p] = Idle /\ \A q \in Process \ {p} : process'[q] = process[q]
      /\ process' \in [Process -> ProcessState]
  BY <1>1, Types, IdleIsIdle
<1>5. /\ \A v, k : compareFor(v, k)' = compareFor(v, k)
      /\ Expires' = Expires
  BY <1>1, ComparisonIsFixed
<1>6. TypeOK'
  BY <1>1, <1>3, <1>4 DEF TypeOK
<1>7. OnRecord' /\ RunIsHonest' /\ SubscribersInformed'
  BY <1>1, <1>2, <1>5 DEF OnRecord, RunIsHonest, SubscribersInformed
<1>8. Calls'
  BY <1>1, <1>4, <1>5, IdleIsIdle DEF Calls, RowKnown, Compared, AboutDrift
<1>9. (~overlapped => Single)'
  BY <1>1, <1>4, IdleIsIdle DEF Single
<1>10. (Expires /\ Len(log) = 1 /\ ~overlapped => DatePassed)'
  BY <1>1, <1>4, <1>5, IdleIsIdle DEF DatePassed, Seen
<1> QED
  BY <1>6, <1>7, <1>8, <1>9, <1>10

-----------------------------------------------------------------------------
(***************************************************************************)
(* The key.  A key that is gone does not come back, and of an expiring key *)
(* only the date moves on.                                                 *)
(***************************************************************************)
LEMMA KeyKeepsInv ==
  ASSUME Inv,
         \/ \E days \in Value \cup {0} : ChangePeriod(days)
         \/ \E age \in Age : Grow(age) \/ DaysPass(age)
         \/ DestroyKey
         \/ Rotate
  PROVE  Inv'
<1> USE DEF Inv
<1>1. /\ UNCHANGED <<requirement, log, latest, drifted, action, told, process, overlapped>>
      /\ drifts' \in 0..MaxDrift /\ faults' \in 0..MaxFaults
  BY ConstantsAssumption
     DEF ChangePeriod, Grow, DaysPass, DestroyKey, Rotate, Drift, declared, records, bounds, TypeOK
<1>2. vault' \in Key
  <2>1. ASSUME NEW days \in Value \cup {0}, ChangePeriod(days) PROVE vault' \in Key
    BY <2>1, Types DEF ChangePeriod, Drift, Key
  <2>2. ASSUME NEW age \in Age, Grow(age) \/ DaysPass(age) PROVE vault' \in Key
    BY <2>2, Types DEF Grow, DaysPass, Drift, Key
  <2>3. ASSUME DestroyKey PROVE vault' \in Key
    BY <2>3, IdleIsIdle DEF DestroyKey, Drift, Unread
  <2>4. ASSUME Rotate PROVE vault' \in Key
    BY <2>4, Types, ConstantsAssumption DEF Rotate, Key
  <2> QED
    BY <2>1, <2>2, <2>3, <2>4
<1>3. Expires /\ vault'.active => vault.active /\ vault.age <= vault'.age
  <2> SUFFICES ASSUME Expires, vault'.active
               PROVE  vault.active /\ vault.age <= vault'.age
    OBVIOUS
  <2>1. ~DestroyKey
    BY DEF DestroyKey, Drift, Destroyed
  <2>2. PICK age \in Age : DaysPass(age)
    BY <2>1 DEF ChangePeriod, Grow, Rotate
  <2>3. vault.active /\ vault.age < age /\ vault'.age = age /\ age \in Nat
    BY <2>2, Types, ConstantsAssumption DEF DaysPass, Key
  <2> QED
    BY <2>3, Types
<1>4. /\ \A v, k : compareFor(v, k)' = compareFor(v, k)
      /\ Expires' = Expires
  BY <1>1, ComparisonIsFixed
<1>5. TypeOK' /\ OnRecord' /\ RunIsHonest' /\ SubscribersInformed'
  BY <1>1, <1>2, <1>4 DEF TypeOK, OnRecord, RunIsHonest, SubscribersInformed
<1>6. Calls' /\ (~overlapped => Single)'
  BY <1>1, <1>4 DEF Calls, RowKnown, Compared, AboutDrift, Single
<1>7. (Expires /\ Len(log) = 1 /\ ~overlapped => DatePassed)'
  <2> SUFFICES ASSUME Expires, Len(log) = 1, DatePassed
               PROVE  DatePassed'
    BY <1>1, <1>4
  <2>1. vault'.age \in Nat
    BY <1>2, ConstantsAssumption DEF Key
  <2>2. /\ vault.age \in Nat /\ log[1] \in Nat
        /\ \A p \in Process : process[p].observed.age \in Nat
    BY Types
  <2> QED
    BY <1>1, <1>3, <2>1, <2>2 DEF DatePassed, Seen
<1> QED
  BY <1>5, <1>6, <1>7

(* A new version leaves the ones that runs and calls name where they were. *)
LEMMA EditKeepsInv ==
  ASSUME Inv, NEW v \in Value, EditIntent(v)
  PROVE  Inv'
<1> USE DEF Inv
<1>1. /\ UNCHANGED <<requirement, vault, latest, drifted, action, told, process>>
      /\ UNCHANGED <<overlapped, drifts, faults>>
      /\ Len(log) < MaxVersion /\ log' = Append(log, v)
  BY DEF EditIntent, Intent!Declare, records, bounds
<1>2. /\ log' \in Seq(Value) /\ Len(log') = Len(log) + 1 /\ log' # << >>
      /\ \A i \in 1..Len(log) : log'[i] = log[i] /\ i \in 1..Len(log')
  BY <1>1, Types
<1>3. /\ \A x, k : compareFor(x, k)' = compareFor(x, k)
      /\ Expires' = Expires
  BY <1>1, ComparisonIsFixed
<1>4. TypeOK'
  BY <1>1, <1>2 DEF TypeOK
<1>5. OnRecord'
  BY <1>1, <1>2, Types DEF OnRecord
<1>6. RunIsHonest' /\ SubscribersInformed'
  BY <1>1, <1>2, <1>3 DEF RunIsHonest, OnRecord, SubscribersInformed
<1>7. Calls'
  BY <1>1, <1>2, <1>3 DEF Calls, RowKnown, Compared, AboutDrift
<1>8. (~overlapped => Single)'
  BY <1>1 DEF Single
<1>9. (Expires /\ Len(log) = 1 /\ ~overlapped => DatePassed)'
  <2> SUFFICES ASSUME Len(log') = 1 PROVE DatePassed'
    OBVIOUS
  <2>1. Len(log) = 0 /\ log = << >>
    BY <1>2, Types, EmptySeq
  <2>2. ~drifted
    BY <2>1 DEF OnRecord
  <2>3. \A p \in Process : process[p].pc = "idle"
    BY <2>1 DEF Calls, RowKnown
  <2> QED
    BY <1>1, <2>2, <2>3 DEF DatePassed, Seen
<1> QED
  BY <1>4, <1>5, <1>6, <1>7, <1>8, <1>9

-----------------------------------------------------------------------------
LEMMA StepKeepsInv == Inv /\ [Next]_vars => Inv'
<1> SUFFICES ASSUME Inv, [Next]_vars PROVE Inv'
  OBVIOUS
<1>1. CASE OutsideStep
  BY <1>1, EditKeepsInv, KeyKeepsInv, ActionKeepsInv DEF OutsideStep
<1>2. ASSUME NEW p \in Process, ProcessStep(p) PROVE Inv'
  <2>1. CASE InsertRun(p) \/ InsertRunUnannounced(p)
    BY <2>1, InsertRecords, InsertKeepsInv
  <2>2. CASE ~(InsertRun(p) \/ InsertRunUnannounced(p))
    BY <1>2, <2>2, BeginKeepsInv, FileKeepsInv, ApplyKeepsInv, ObserveKeepsInv, PriorKeepsInv,
       FailKeepsInv, ConcludeKeepsInv DEF ProcessStep, Progress
  <2> QED
    BY <2>1, <2>2
<1>3. CASE UNCHANGED vars
  <2>1. /\ UNCHANGED <<requirement, log, vault, latest, drifted, action, told, process>>
        /\ UNCHANGED <<overlapped, drifts, faults>>
    BY <1>3 DEF vars, declared, records, bounds
  <2>2. /\ \A v, k : compareFor(v, k)' = compareFor(v, k)
        /\ Expires' = Expires
    BY <2>1, ComparisonIsFixed
  <2> QED
    BY <2>1, <2>2 DEF Inv, TypeOK, OnRecord, RunIsHonest, Calls, RowKnown, Compared,
       AboutDrift, Single, SubscribersInformed, DatePassed, Seen
<1> QED
  BY <1>1, <1>2, <1>3 DEF Next

LEMMA Invariance == Spec => []Inv
  BY InitInv, StepKeepsInv, PTL DEF Spec

(* Type correctness.                                                       *)
THEOREM TypeCorrect == Spec => []TypeOK
<1>1. Inv => TypeOK
  BY DEF Inv
<1> QED
  BY <1>1, Invariance, PTL

(***************************************************************************)
(* A recorded run is the comparison of the version it names with the value *)
(* it names, however many calls and edits went on around it.               *)
(***************************************************************************)
THEOREM RunsAreHonest == Spec => []RunIsHonest
<1>1. Inv => RunIsHonest
  BY DEF Inv
<1> QED
  BY <1>1, Invariance, PTL

(***************************************************************************)
(* Before the first overlap, the last event emitted for a policy is its    *)
(* newest known status, unless a crash came between INSERT and event.      *)
(***************************************************************************)
THEOREM EventsFollowRuns == Spec => []SubscribersInformed
<1>1. Inv => SubscribersInformed
  BY DEF Inv
<1> QED
  BY <1>1, Invariance, PTL

(***************************************************************************)
(* Before the first overlap and the first change of the date, an expired   *)
(* key counts as RECONCILED only when it is gone.                          *)
(***************************************************************************)
THEOREM ReconciledOnlyGone == Spec => []ReconciledMeansGone
<1>1. Inv => ReconciledMeansGone
  <2> SUFFICES ASSUME Inv, Expires, disposition = "RECONCILED", Len(log) = 1, ~overlapped
               PROVE  ~vault.active
    BY DEF ReconciledMeansGone
  <2>1. action.kind = "reconcile" /\ latest.status = "COMPLIANT"
    BY DEF disposition, computeDisposition
  <2> QED
    BY <2>1 DEF Inv, OnRecord, DatePassed
<1> QED
  BY <1>1, Invariance, PTL

(***************************************************************************)
(* A step that records a run leaves the newest action alone, so that an    *)
(* exception in force stays in force whatever the run says.                *)
(***************************************************************************)
THEOREM AxesStayIndependent == Spec => AxesIndependent
<1>1. ASSUME [Next]_vars, latest' # latest PROVE action' = action
  BY <1>1 DEF Next, OutsideStep, ProcessStep, Progress, EditIntent, ChangePeriod, Grow, DaysPass,
     DestroyKey, Rotate, Drift, ExceptionExpires, AcceptException, BeginSweep, BeginReconcile,
     Begin, Apply, File, Observe, ReadPrior, InsertRun, InsertAction, ApplyFails, FileFails,
     ObserveFails, InsertRunUnannounced, RecordFails, CallDies, records, vars
<1>2. disposition = "EXCEPTION_ACCEPTED" => ExceptionInForce(action)
  BY DEF disposition, computeDisposition
<1>3. ASSUME ExceptionInForce(action), action' = action
      PROVE  disposition' = "EXCEPTION_ACCEPTED"
  BY <1>3 DEF disposition, computeDisposition, ExceptionInForce
<1>4. [Next]_vars => [disposition = "EXCEPTION_ACCEPTED" /\ latest' # latest
                        => disposition' = "EXCEPTION_ACCEPTED"]_vars
  BY <1>1, <1>2, <1>3
<1> QED
  BY <1>4, PTL DEF Spec, AxesIndependent
=============================================================================
