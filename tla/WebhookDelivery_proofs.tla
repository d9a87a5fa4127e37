------------------------ MODULE WebhookDelivery_proofs ------------------------
(***************************************************************************)
(* Proofs about WebhookDelivery for every number of events, endpoints,     *)
(* processes, attempts and faults.                                         *)
(***************************************************************************)
EXTENDS WebhookDelivery, TLAPS

(***************************************************************************)
(* How a row, its sender and the endpoint stand to one another.            *)
(***************************************************************************)
RowKept(i) ==
  /\ row[i].outcome = "absent" => ~Active(i) /\ received[i] = 0 /\ row[i].attempts = 0
  /\ row[i].outcome = "open" => received[i] <= row[i].attempts + 1
  /\ row[i].outcome \in {"delivered", "failed"} =>
       ~Active(i) /\ received[i] <= row[i].attempts
  /\ row[i].outcome = "failed" => row[i].attempts = MaxAttempts

(* While a sender is at work: what it has counted and what has arrived.    *)
SenderKept(i) ==
  Active(i) =>
    /\ sender[i].attempt >= 1
    /\ sender[i].pc \in {"post", "record", "count"} =>
         row[i].attempts = sender[i].attempt - 1
    /\ sender[i].pc \in {"sleep", "fail"} => row[i].attempts = sender[i].attempt
    /\ sender[i].pc \in {"post", "sleep", "fail"} => received[i] <= row[i].attempts
    /\ sender[i].pc = "sleep" => sender[i].attempt < MaxAttempts
    /\ sender[i].pc = "fail" => sender[i].attempt = MaxAttempts
    /\ sender[i].pc = "record" => received[i] >= 1

(* A receipt the process does not know of is a loss.                       *)
LossKnown(i) ==
  /\ received[i] > 1 => i \in lossy
  /\ Active(i) /\ sender[i].pc # "record" /\ received[i] >= 1 => i \in lossy

(* What an emission has still to insert is not there yet.                  *)
ToInsert(v) ==
  /\ emission[v].pc \in {"new", "select"} =>
       \A e \in Endpoint : row[<<v, e>>].outcome = "absent"
  /\ emission[v].pc = "insert" =>
       \A e \in emission[v].todo : row[<<v, e>>].outcome = "absent"

Inv ==
  /\ TypeOK
  /\ \A i \in Item : RowKept(i) /\ SenderKept(i) /\ LossKnown(i)
  /\ \A v \in Event : ToInsert(v)
  /\ DeliveriesKeepTheirEndpoint

-----------------------------------------------------------------------------
LEMMA InitInv == Init => Inv
  BY ConstantsAssumption DEF Init, Inv, TypeOK, Item, Outcome, EmissionState, SenderState,
     NoRow, NoSender, Active, RowKept, SenderKept, LossKnown, ToInsert,
     DeliveriesKeepTheirEndpoint

(* The two ways a call moves on keep their types.                          *)
LEMMA SenderToTypes ==
  ASSUME TypeOK, NEW i \in Item, NEW pc \in {"post", "record", "count", "sleep", "fail"},
         SenderTo(i, pc)
  PROVE  sender' \in [Item -> SenderState]
  BY DEF TypeOK, SenderTo, SenderState

LEMMA ProceedTypes ==
  ASSUME TypeOK, NEW v \in Event, NEW todo \in SUBSET Endpoint, Proceed(v, todo)
  PROVE  emission' \in [Event -> EmissionState]
  BY DEF TypeOK, Proceed, EmissionState

(***************************************************************************)
(* A step of a delivery touches its own row, sender and receipts only.     *)
(***************************************************************************)
Local(i) ==
  /\ \A j \in Item \ {i} :
       row'[j] = row[j] /\ sender'[j] = sender[j] /\ received'[j] = received[j]
         /\ (j \in lossy' <=> j \in lossy)
  /\ UNCHANGED <<endpoint, emission>>
  /\ row'[i].outcome # "absent" <=> row[i].outcome # "absent"

LEMMA DeliveryStep ==
  ASSUME Inv, NEW i \in Item, Delivery(i)
  PROVE  /\ TypeOK'
         /\ Local(i)
         /\ (RowKept(i) /\ SenderKept(i) /\ LossKnown(i))'
<1> USE ConstantsAssumption DEF Inv, TypeOK, Outcome, SenderState, Local, RowKept, SenderKept,
        LossKnown, Active, SenderTo, Finish, NoSender, outside, Fault
<1>1. CASE Accepted(i)
  <2>1. TypeOK'
    <3>1. sender' \in [Item -> SenderState]
      BY <1>1, SenderToTypes DEF Accepted
    <3>2. received' \in [Item -> Nat]
      BY <1>1 DEF Accepted
    <3> QED
      BY <1>1, <3>1, <3>2 DEF Accepted
  <2>2. Local(i)
    BY <1>1 DEF Accepted
  <2>3. RowKept(i)'
    BY <1>1 DEF Accepted
  <2>4. (SenderKept(i) /\ LossKnown(i))'
    BY <1>1 DEF Accepted
  <2> QED
    BY <2>1, <2>2, <2>3, <2>4
<1>2. CASE AnswerLost(i)
  BY <1>2 DEF AnswerLost
<1>3. CASE NotAccepted(i)
  BY <1>3 DEF NotAccepted
<1>4. CASE RecordDelivered(i)
  BY <1>4 DEF RecordDelivered
<1>5. CASE RecordFails(i)
  BY <1>5 DEF RecordFails
<1>6. CASE CountAttempt(i)
  <2>1. TypeOK'
    <3>1. sender' \in [Item -> SenderState]
      BY <1>6, SenderToTypes DEF CountAttempt
    <3>2. row' \in [Item -> [outcome : Outcome, attempts : 0..MaxAttempts]]
      BY <1>6 DEF CountAttempt
    <3> QED
      BY <1>6, <3>1, <3>2 DEF CountAttempt
  <2>2. Local(i)
    BY <1>6 DEF CountAttempt
  <2>3. RowKept(i)'
    BY <1>6 DEF CountAttempt
  <2>4. (SenderKept(i) /\ LossKnown(i))'
    BY <1>6 DEF CountAttempt
  <2> QED
    BY <2>1, <2>2, <2>3, <2>4
<1>7. CASE CountFails(i)
  BY <1>7 DEF CountFails
<1>8. CASE Retry(i)
  BY <1>8 DEF Retry
<1>9. CASE RecordFailed(i)
  BY <1>9 DEF RecordFailed
<1>10. CASE RecordFailedFails(i)
  BY <1>10 DEF RecordFailedFails
<1> QED
  BY <1>1, <1>2, <1>3, <1>4, <1>5, <1>6, <1>7, <1>8, <1>9, <1>10 DEF Delivery

(***************************************************************************)
(* The step of one delivery leaves every other one as it was.              *)
(***************************************************************************)
LEMMA DeliveryKeepsInv ==
  ASSUME Inv, NEW i \in Item, Delivery(i)
  PROVE  Inv'
<1>1. TypeOK' /\ Local(i) /\ (RowKept(i) /\ SenderKept(i) /\ LossKnown(i))'
  BY DeliveryStep
<1>2. ASSUME NEW j \in Item PROVE (RowKept(j) /\ SenderKept(j) /\ LossKnown(j))'
  <2>1. CASE j = i
    BY <1>1, <2>1
  <2>2. CASE j # i
    BY <1>1, <2>2 DEF Inv, Local, RowKept, SenderKept, LossKnown, Active
  <2> QED
    BY <2>1, <2>2
<1>3. \A j \in Item : row'[j].outcome = "absent" <=> row[j].outcome = "absent"
  BY <1>1 DEF Local
<1>4. ASSUME NEW v \in Event PROVE ToInsert(v)'
  BY <1>1, <1>3 DEF Inv, TypeOK, EmissionState, ToInsert, Local, Item
<1>5. DeliveriesKeepTheirEndpoint'
  <2>1. \A j \in Item : Active(j)' => row'[j].outcome # "absent"
    BY <1>2 DEF RowKept
  <2> QED
    BY <1>1, <1>3, <2>1 DEF Inv, DeliveriesKeepTheirEndpoint, Local, Item
<1> QED
  BY <1>1, <1>2, <1>4, <1>5 DEF Inv

(***************************************************************************)
(* The step of an emission touches rows that are not there yet.            *)
(***************************************************************************)
LEMMA EmissionKeepsInv ==
  ASSUME Inv, NEW v \in Event, Emission(v)
  PROVE  Inv'
<1> USE ConstantsAssumption DEF Inv, TypeOK
<1>1. CASE SelectEndpoints(v) \/ SelectFails(v)
  <2>1. UNCHANGED <<endpoint, row, sender, outside>> /\ (faults' = faults \/ Fault)
    BY <1>1 DEF SelectEndpoints, SelectFails
  <2>2. PICK todo \in SUBSET Endpoint : Proceed(v, todo)
    BY <1>1 DEF SelectEndpoints, SelectFails
  <2>3. emission[v].pc = "select"
    BY <1>1 DEF SelectEndpoints, SelectFails
  <2>4. TypeOK'
    <3>1. emission' \in [Event -> EmissionState]
      BY <2>2, ProceedTypes
    <3> QED
      BY <2>1, <3>1 DEF outside, Fault
  <2>5. \A i \in Item : (RowKept(i) /\ SenderKept(i) /\ LossKnown(i))'
    BY <2>1 DEF RowKept, SenderKept, LossKnown, Active, outside
  <2>6. \A w \in Event : ToInsert(w)'
    BY <2>1, <2>2, <2>3 DEF Proceed, ToInsert, EmissionState
  <2>7. DeliveriesKeepTheirEndpoint'
    BY <2>1 DEF DeliveriesKeepTheirEndpoint, Active
  <2> QED
    BY <2>4, <2>5, <2>6, <2>7
<1>2. ASSUME NEW e \in Endpoint, InsertFails(v, e) PROVE Inv'
  <2>1. UNCHANGED <<endpoint, row, sender, outside>> /\ (faults' = faults \/ Fault)
    BY <1>2 DEF InsertFails
  <2>2. Proceed(v, emission[v].todo \ {e}) /\ emission[v].pc = "insert"
    BY <1>2 DEF InsertFails
  <2>4. TypeOK'
    <3>1. emission' \in [Event -> EmissionState]
      <4>1. emission[v].todo \ {e} \in SUBSET Endpoint
        BY DEF EmissionState
      <4> QED
        BY <2>2, <4>1, ProceedTypes
    <3> QED
      BY <2>1, <3>1 DEF outside, Fault
  <2>5. \A i \in Item : (RowKept(i) /\ SenderKept(i) /\ LossKnown(i))'
    BY <2>1 DEF RowKept, SenderKept, LossKnown, Active, outside
  <2>6. \A w \in Event : ToInsert(w)'
    BY <2>1, <2>2 DEF Proceed, ToInsert, EmissionState
  <2>7. DeliveriesKeepTheirEndpoint'
    BY <2>1 DEF DeliveriesKeepTheirEndpoint, Active
  <2> QED
    BY <2>4, <2>5, <2>6, <2>7
<1>3. ASSUME NEW e \in Endpoint, InsertDelivery(v, e) PROVE Inv'
  <2> DEFINE i == <<v, e>>
  <2>1. i \in Item
    BY DEF Item
  <2>2. row[i].outcome = "absent" /\ endpoint[e] = "registered"
    BY <1>3 DEF InsertDelivery, ToInsert
  <2>3. ~Active(i) /\ received[i] = 0 /\ row[i].attempts = 0
    BY <2>1, <2>2 DEF RowKept
  <2>4. Proceed(v, emission[v].todo \ {e}) /\ emission[v].pc = "insert"
    BY <1>3 DEF InsertDelivery
  <2>5. /\ row' = [row EXCEPT ![i].outcome = "open"]
        /\ sender' = [sender EXCEPT ![i] =
             [pc |-> "post", by |-> emission[v].by, attempt |-> 1]]
        /\ UNCHANGED <<endpoint, outside, faults>>
    BY <1>3 DEF InsertDelivery
  <2> HIDE DEF i
  <2>6. TypeOK'
    <3>1. emission' \in [Event -> EmissionState]
      <4>1. emission[v].todo \ {e} \in SUBSET Endpoint
        BY DEF EmissionState
      <4> QED
        BY <2>4, <4>1, ProceedTypes
    <3>2. row' \in [Item -> [outcome : Outcome, attempts : 0..MaxAttempts]]
      BY <2>1, <2>5 DEF Outcome
    <3>3. sender' \in [Item -> SenderState]
      BY <2>1, <2>5 DEF SenderState, EmissionState
    <3> QED
      BY <2>5, <3>1, <3>2, <3>3 DEF outside
  <2>7. ASSUME NEW j \in Item PROVE (RowKept(j) /\ SenderKept(j) /\ LossKnown(j))'
    <3>1. CASE j = i
      BY <2>1, <2>3, <2>5, <3>1 DEF RowKept, SenderKept, LossKnown, Active, outside
    <3>2. CASE j # i
      BY <2>1, <2>5, <3>2 DEF RowKept, SenderKept, LossKnown, Active, outside
    <3> QED
      BY <3>1, <3>2
  <2>8. ASSUME NEW w \in Event PROVE ToInsert(w)'
    <3>1. CASE w = v
      <4>1. emission'[v].pc # "new" /\ emission'[v].pc # "select"
        BY <2>4 DEF Proceed
      <4>2. \A f \in emission'[v].todo : f \in emission[v].todo \ {e}
        BY <2>4 DEF Proceed, EmissionState
      <4>3. \A f \in Endpoint \ {e} : row'[<<v, f>>] = row[<<v, f>>]
        BY <2>5 DEF i, Item
      <4> QED
        BY <2>4, <3>1, <4>1, <4>2, <4>3 DEF ToInsert, EmissionState
    <3>2. CASE w # v
      <4>1. emission'[w] = emission[w]
        BY <2>4, <3>2 DEF Proceed
      <4>2. \A f \in Endpoint : row'[<<w, f>>] = row[<<w, f>>]
        BY <2>5, <3>2 DEF i, Item
      <4> QED
        BY <4>1, <4>2 DEF ToInsert, EmissionState
    <3> QED
      BY <3>1, <3>2
  <2>9. DeliveriesKeepTheirEndpoint'
    <3> SUFFICES ASSUME NEW w \in Event, NEW f \in Endpoint,
                        (row[<<w, f>>].outcome # "absent" \/ Active(<<w, f>>))'
                 PROVE  endpoint'[f] = "registered"
      BY DEF DeliveriesKeepTheirEndpoint
    <3>1. CASE <<w, f>> = i
      BY <2>2, <2>5, <3>1 DEF i
    <3>2. CASE <<w, f>> # i
      BY <2>5, <3>2 DEF DeliveriesKeepTheirEndpoint, Active, Item
    <3> QED
      BY <3>1, <3>2
  <2> QED
    BY <2>6, <2>7, <2>8, <2>9
<1> QED
  BY <1>1, <1>2, <1>3 DEF Emission

(***************************************************************************)
(* A crash ends senders and emissions, and nothing else.                   *)
(***************************************************************************)
LEMMA CrashKeepsInv ==
  ASSUME Inv, NEW p \in Process, Crash(p)
  PROVE  Inv'
<1> USE ConstantsAssumption DEF Inv
<1>1. UNCHANGED <<endpoint, row, outside>>
  BY DEF Crash
<1>2. ASSUME NEW i \in Item PROVE sender'[i] = sender[i] \/ sender'[i] = NoSender
  BY DEF Crash
<1>3. ASSUME NEW v \in Event
      PROVE  \/ emission'[v] = emission[v]
             \/ emission'[v] = [emission[v] EXCEPT !.pc = "done", !.todo = {}]
  BY DEF Crash
<1>4. TypeOK'
  <2>1. sender' \in [Item -> SenderState]
    <3>1. NoSender \in SenderState
      BY DEF NoSender, SenderState
    <3> QED
      BY <1>2, <3>1 DEF Crash, TypeOK
  <2>2. emission' \in [Event -> EmissionState]
    <3>1. ASSUME NEW s \in EmissionState
          PROVE  [s EXCEPT !.pc = "done", !.todo = {}] \in EmissionState
      BY DEF EmissionState
    <3> QED
      BY <1>3, <3>1 DEF Crash, TypeOK
  <2>3. faults' \in 0..MaxFaults
    <3>1. faults < MaxFaults /\ faults' = faults + 1
      BY DEF Crash, Fault
    <3> QED
      BY <3>1 DEF TypeOK
  <2> QED
    BY <1>1, <2>1, <2>2, <2>3 DEF TypeOK, outside
<1>5. ASSUME NEW i \in Item PROVE (RowKept(i) /\ SenderKept(i) /\ LossKnown(i))'
  <2>1. CASE sender'[i] = sender[i]
    BY <1>1, <2>1 DEF RowKept, SenderKept, LossKnown, Active, outside
  <2>2. CASE sender'[i] = NoSender
    BY <1>1, <2>2 DEF RowKept, SenderKept, LossKnown, Active, outside, NoSender
  <2> QED
    BY <1>2, <2>1, <2>2
<1>6. ASSUME NEW v \in Event PROVE ToInsert(v)'
  <2>1. emission[v] \in EmissionState
    BY DEF TypeOK
  <2>2. emission'[v] = emission[v] \/ emission'[v].pc = "done"
    BY <1>3, <2>1 DEF EmissionState
  <2> QED
    BY <1>1, <2>2 DEF ToInsert
<1>7. DeliveriesKeepTheirEndpoint'
  BY <1>1, <1>2 DEF DeliveriesKeepTheirEndpoint, Active, NoSender, Item
<1> QED
  BY <1>4, <1>5, <1>6, <1>7

(***************************************************************************)
(* Registering, deleting and emitting do not concern a row on record.      *)
(***************************************************************************)
LEMMA OutsideKeepsInv ==
  ASSUME Inv,
         \/ \E e \in Endpoint : Register(e) \/ Delete(e)
         \/ \E p \in Process, v \in Event : Emit(p, v)
  PROVE  Inv'
<1> USE DEF Inv
<1>1. UNCHANGED <<row, sender, outside, faults>>
  BY DEF Register, Delete, Emit
<1>2. endpoint' \in [Endpoint -> {"new", "registered", "deleted"}]
  BY DEF Register, Delete, Emit, TypeOK
<1>3. emission' \in [Event -> EmissionState]
  <2>1. CASE UNCHANGED emission
    BY <2>1 DEF TypeOK
  <2>2. ASSUME NEW p \in Process, NEW v \in Event, Emit(p, v)
        PROVE  emission' \in [Event -> EmissionState]
    BY <2>2 DEF Emit, TypeOK, EmissionState
  <2> QED
    BY <2>1, <2>2 DEF Register, Delete
<1>4. TypeOK'
  BY <1>1, <1>2, <1>3 DEF TypeOK, outside
<1>5. \A i \in Item : (RowKept(i) /\ SenderKept(i) /\ LossKnown(i))'
  BY <1>1 DEF RowKept, SenderKept, LossKnown, Active, outside
<1>6. ASSUME NEW v \in Event PROVE ToInsert(v)'
  BY <1>1 DEF Register, Delete, Emit, ToInsert, TypeOK, EmissionState
<1>7. DeliveriesKeepTheirEndpoint'
  <2> SUFFICES ASSUME NEW v \in Event, NEW e \in Endpoint,
                      row[<<v, e>>].outcome # "absent" \/ Active(<<v, e>>)
               PROVE  endpoint'[e] = "registered"
    BY <1>1 DEF DeliveriesKeepTheirEndpoint, Active
  <2>1. row[<<v, e>>].outcome # "absent"
    BY DEF RowKept, Item
  <2>2. endpoint[e] = "registered"
    BY DEF DeliveriesKeepTheirEndpoint
  <2> QED
    BY <2>1, <2>2 DEF Register, Delete, Emit, TypeOK
<1> QED
  BY <1>4, <1>5, <1>6, <1>7

LEMMA NextKeepsInv == Inv /\ [Next]_vars => Inv'
<1> SUFFICES ASSUME Inv, [Next]_vars PROVE Inv'
  OBVIOUS
<1>1. CASE UNCHANGED vars
  BY <1>1 DEF Inv, TypeOK, RowKept, SenderKept, LossKnown, ToInsert, Active,
     DeliveriesKeepTheirEndpoint, vars, outside
<1> QED
  BY <1>1, DeliveryKeepsInv, EmissionKeepsInv, CrashKeepsInv, OutsideKeepsInv DEF Next

LEMMA AlwaysInv == Spec => []Inv
  BY InitInv, NextKeepsInv, PTL DEF Spec

-----------------------------------------------------------------------------
(***************************************************************************)
(* Type correctness of the delivery, whatever fails.                       *)
(***************************************************************************)
THEOREM TypeCorrect == Spec => []TypeOK
  BY AlwaysInv, PTL DEF Inv

(***************************************************************************)
(* attempt_count bounds what the endpoint has got, through lost answers,   *)
(* failed updates and crashes.                                             *)
(***************************************************************************)
THEOREM AttemptsAreEvidence == Spec => []AttemptsAccountForReceipts
<1>1. Inv => AttemptsAccountForReceipts
  <2> SUFFICES ASSUME Inv, NEW i \in Item
               PROVE  /\ received[i] <= row[i].attempts
                           + (IF row[i].outcome = "open" THEN 1 ELSE 0)
                      /\ Active(i) => sender[i].attempt <= row[i].attempts + 1
                      /\ row[i].outcome = "failed" => row[i].attempts = MaxAttempts
    BY DEF AttemptsAccountForReceipts
  <2>1. row[i].outcome \in Outcome /\ row[i].attempts \in Nat /\ received[i] \in Nat
    BY ConstantsAssumption DEF Inv, TypeOK
  <2>2. RowKept(i) /\ SenderKept(i)
    BY DEF Inv
  <2>3. sender[i].pc \in {"none", "post", "record", "count", "sleep", "fail"}
        /\ sender[i].attempt \in Nat
    BY ConstantsAssumption DEF Inv, TypeOK, SenderState
  <2> QED
    BY <2>1, <2>2, <2>3 DEF RowKept, SenderKept, Active, Outcome
<1> QED
  BY <1>1, AlwaysInv, PTL

(***************************************************************************)
(* No event arrives twice but for a lost answer or a lost update.          *)
(***************************************************************************)
THEOREM OnlyLossRepeats == Spec => []TwiceOnlyWhenLost
<1>1. Inv => TwiceOnlyWhenLost
  BY DEF Inv, LossKnown, TwiceOnlyWhenLost
<1> QED
  BY <1>1, AlwaysInv, PTL

(***************************************************************************)
(* A recorded delivery has a registered endpoint: what the foreign key of  *)
(* webhook_deliveries is for.                                              *)
(***************************************************************************)
THEOREM EndpointsStay == Spec => []DeliveriesKeepTheirEndpoint
  BY AlwaysInv, PTL DEF Inv

-----------------------------------------------------------------------------
(***************************************************************************)
(* Every step is one of the ledger, or leaves the ledger alone.            *)
(***************************************************************************)
Entry == [i \in Item |-> row[i].outcome]
Got   == {i \in Item : received[i] > 0}

LEMMA StepIsLedgerStep ==
  ASSUME Inv, Inv', [Next]_vars
  PROVE  Ledger!Next \/ UNCHANGED <<Entry, Got>>
<1> USE DEF Ledger!Next, Ledger!Open, Ledger!Send, Ledger!CloseDelivered, Ledger!CloseFailed,
            Entry, Got
<1>1. CASE UNCHANGED <<row, received>>
  BY <1>1
<1>2. ASSUME NEW v \in Event, NEW e \in Endpoint, InsertDelivery(v, e)
      PROVE  Ledger!Open(<<v, e>>)
  <2>1. <<v, e>> \in Item /\ row[<<v, e>>].outcome = "absent"
    BY <1>2 DEF Inv, ToInsert, InsertDelivery, Item
  <2>2. row' = [row EXCEPT ![<<v, e>>].outcome = "open"] /\ received' = received
    BY <1>2 DEF InsertDelivery, outside
  <2> QED
    BY <2>1, <2>2 DEF Inv, TypeOK
<1>3. ASSUME NEW i \in Item, Accepted(i) \/ AnswerLost(i)
      PROVE  Ledger!Send(i)
  <2>1. row[i].outcome = "open"
    BY <1>3 DEF Accepted, AnswerLost, Inv, TypeOK, Outcome, RowKept, Active
  <2>2. row' = row /\ received' = [received EXCEPT ![i] = @ + 1]
    BY <1>3 DEF Accepted, AnswerLost
  <2> QED
    BY <2>1, <2>2 DEF Inv, TypeOK
<1>4. ASSUME NEW i \in Item, RecordDelivered(i)
      PROVE  Ledger!CloseDelivered(i)
  <2>1. row[i].outcome = "open" /\ received[i] > 0
    BY <1>4 DEF RecordDelivered, Inv, TypeOK, Outcome, RowKept, SenderKept, Active
  <2>2. /\ row' = [row EXCEPT ![i] = [outcome |-> "delivered", attempts |-> sender[i].attempt]]
        /\ received' = received
    BY <1>4 DEF RecordDelivered, outside
  <2> QED
    BY <2>1, <2>2 DEF Inv, TypeOK
<1>5. ASSUME NEW i \in Item, RecordFailed(i)
      PROVE  Ledger!CloseFailed(i)
  <2>1. row[i].outcome = "open"
    BY <1>5 DEF RecordFailed, Inv, TypeOK, Outcome, RowKept, Active
  <2>2. row' = [row EXCEPT ![i].outcome = "failed"] /\ received' = received
    BY <1>5 DEF RecordFailed, outside
  <2> QED
    BY <2>1, <2>2 DEF Inv, TypeOK
<1>6. ASSUME NEW i \in Item, CountAttempt(i)
      PROVE  UNCHANGED <<Entry, Got>>
  <2>1. row' = [row EXCEPT ![i].attempts = sender[i].attempt] /\ received' = received
    BY <1>6 DEF CountAttempt, outside
  <2>2. \A j \in Item : row'[j].outcome = row[j].outcome
    BY <2>1 DEF Inv, TypeOK
  <2> QED
    BY <2>1, <2>2
<1>7. ASSUME NEW i \in Item, Delivery(i)
      PROVE  Ledger!Next \/ UNCHANGED <<Entry, Got>>
  <2>1. CASE NotAccepted(i) \/ RecordFails(i) \/ CountFails(i) \/ Retry(i) \/ RecordFailedFails(i)
    <3>1. UNCHANGED <<row, received>>
      BY <2>1 DEF NotAccepted, RecordFails, CountFails, Retry, RecordFailedFails, outside
    <3> QED
      BY <3>1, <1>1
  <2> QED
    BY <1>3, <1>4, <1>5, <1>6, <1>7, <2>1 DEF Delivery
<1>8. ASSUME NEW v \in Event, Emission(v)
      PROVE  Ledger!Next \/ UNCHANGED <<Entry, Got>>
  <2>1. CASE SelectEndpoints(v) \/ SelectFails(v) \/ \E e \in Endpoint : InsertFails(v, e)
    <3>1. UNCHANGED <<row, received>>
      BY <2>1 DEF SelectEndpoints, SelectFails, InsertFails, outside
    <3> QED
      BY <3>1, <1>1
  <2>2. ASSUME NEW e \in Endpoint, InsertDelivery(v, e) PROVE Ledger!Next
    BY <1>2, <2>2 DEF Item
  <2> QED
    BY <1>8, <2>1, <2>2 DEF Emission
<1>9. CASE \/ \E e \in Endpoint : Register(e) \/ Delete(e)
           \/ \E p \in Process, v \in Event : Emit(p, v)
           \/ \E p \in Process : Crash(p)
           \/ UNCHANGED vars
  <2>1. UNCHANGED <<row, received>>
    BY <1>9 DEF Register, Delete, Emit, Crash, vars, outside
  <2> QED
    BY <2>1, <1>1
<1> QED
  BY <1>7, <1>8, <1>9 DEF Next

(***************************************************************************)
(* emitEvent and attemptDelivery implement the ledger.                     *)
(***************************************************************************)
THEOREM LedgerKept == Spec => ImplementsDeliveryLedger
<1>1. Init => Ledger!Init
  BY DEF Init, Ledger!Init, NoRow
<1>2. Inv /\ Inv' /\ [Next]_vars => [Ledger!Next]_(Ledger!vars)
  BY StepIsLedgerStep DEF Ledger!vars, Entry, Got
<1> QED
  BY <1>1, <1>2, AlwaysInv, PTL DEF Spec, ImplementsDeliveryLedger, Ledger!Spec
=============================================================================
