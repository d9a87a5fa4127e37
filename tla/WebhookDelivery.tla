-------------------------- MODULE WebhookDelivery --------------------------
(***************************************************************************)
(* Webhooks: emitEvent records one webhook_deliveries row per subscribed   *)
(* endpoint and starts attemptDelivery without awaiting it, so the rows of *)
(* one event, and of several, are delivered concurrently in the process    *)
(* that emitted them (events/emit.js, events/deliver.js).  No other code   *)
(* ever takes up a row.                                                    *)
(***************************************************************************)
EXTENDS Naturals

CONSTANTS
  Event,        \* status changes, each emitted at most once
  Endpoint,     \* ids of webhook_endpoints rows
  Subscribed,   \* <<event, endpoint>>: the event's name is in endpoint.events
  Process,      \* the API process and the worker
  NoProcess,
  MaxAttempts,  \* RETRY_DELAYS_MS.length
  MaxFaults     \* bound: database errors and crashes

ASSUME ConstantsAssumption ==
  /\ NoProcess \notin Process
  /\ Subscribed \subseteq Event \X Endpoint
  /\ MaxAttempts \in Nat \ {0}
  /\ MaxFaults \in Nat

Item == Event \X Endpoint      \* a row of webhook_deliveries, once inserted

VARIABLES
  endpoint,  \* "new" (no row yet), "registered" or "deleted"
  row,       \* row[i]: attempt_count and which of delivered_at, failed_at is set
  emission,  \* emitEvent, one call per event
  sender,    \* attemptDelivery, one call per row
  received,  \* how often the endpoint has accepted the event
  lossy,     \* rows for which an answer or the UPDATE after it was lost
  faults

outside == <<received, lossy>>
vars    == <<endpoint, row, emission, sender, outside, faults>>

Outcome == {"absent", "open", "delivered", "failed"}

(***************************************************************************)
(* pc is the await the call is about to issue.  A sender's "post" stands   *)
(* for decrypting the secret and for the POST: neither writes anything.    *)
(***************************************************************************)
EmissionState ==
  [pc : {"new", "select", "insert", "done"}, by : Process \cup {NoProcess},
   todo : SUBSET Endpoint]
SenderState ==
  [pc : {"none", "post", "record", "count", "sleep", "fail"},
   by : Process \cup {NoProcess}, attempt : 0..MaxAttempts]

NoRow    == [outcome |-> "absent", attempts |-> 0]
NoSender == [pc |-> "none", by |-> NoProcess, attempt |-> 0]

Active(i) == sender[i].pc # "none"
Fault     == faults < MaxFaults /\ faults' = faults + 1

-----------------------------------------------------------------------------
(* POST and DELETE /webhooks                                               *)

Register(e) ==
  /\ endpoint[e] = "new"
  /\ endpoint' = [endpoint EXCEPT ![e] = "registered"]
  /\ UNCHANGED <<row, emission, sender, outside, faults>>

(* The rows of an endpoint refer to it: with one of them, DELETE fails.    *)
Delete(e) ==
  /\ endpoint[e] = "registered"
  /\ \A v \in Event : row[<<v, e>>].outcome = "absent"
  /\ endpoint' = [endpoint EXCEPT ![e] = "deleted"]
  /\ UNCHANGED <<row, emission, sender, outside, faults>>

-----------------------------------------------------------------------------
(* emitEvent                                                               *)

Emit(p, v) ==
  /\ emission[v].pc = "new"
  /\ emission' = [emission EXCEPT ![v] = [pc |-> "select", by |-> p, todo |-> {}]]
  /\ UNCHANGED <<endpoint, row, sender, outside, faults>>

(* The loop goes on to the next endpoint, or ends.                         *)
Proceed(v, todo) ==
  emission' = [emission EXCEPT ![v].todo = todo,
                               ![v].pc = IF todo = {} THEN "done" ELSE "insert"]

SelectEndpoints(v) ==
  /\ emission[v].pc = "select"
  /\ Proceed(v, {e \in Endpoint : endpoint[e] = "registered" /\ <<v, e>> \in Subscribed})
  /\ UNCHANGED <<endpoint, row, sender, outside, faults>>

SelectFails(v) ==
  /\ emission[v].pc = "select"
  /\ Fault
  /\ Proceed(v, {})
  /\ UNCHANGED <<endpoint, row, sender, outside>>

SendWithoutRow(v, e) ==                          \* mutant: the row comes later
  /\ emission[v].pc = "insert"
  /\ e \in emission[v].todo
  /\ endpoint[e] = "registered"
  /\ sender' = [sender EXCEPT ![<<v, e>>] = [pc |-> "post", by |-> emission[v].by, attempt |-> 1]]
  /\ Proceed(v, emission[v].todo \ {e})
  /\ UNCHANGED <<endpoint, row, outside, faults>>

(* The row is on record before attemptDelivery starts.                     *)
InsertDelivery(v, e) ==
  /\ emission[v].pc = "insert"
  /\ e \in emission[v].todo
  /\ endpoint[e] = "registered"
  /\ row' = [row EXCEPT ![<<v, e>>].outcome = "open"]
  /\ sender' = [sender EXCEPT ![<<v, e>>] = [pc |-> "post", by |-> emission[v].by, attempt |-> 1]]
  /\ Proceed(v, emission[v].todo \ {e})
  /\ UNCHANGED <<endpoint, outside, faults>>

(* The INSERT fails, or the endpoint was deleted after the SELECT.         *)
InsertFails(v, e) ==
  /\ emission[v].pc = "insert"
  /\ e \in emission[v].todo
  /\ IF endpoint[e] = "registered" THEN Fault ELSE UNCHANGED faults
  /\ Proceed(v, emission[v].todo \ {e})
  /\ UNCHANGED <<endpoint, row, sender, outside>>

-----------------------------------------------------------------------------
(* attemptDelivery                                                         *)

SenderTo(i, pc) == sender' = [sender EXCEPT ![i].pc = pc]
Finish(i)       == sender' = [sender EXCEPT ![i] = NoSender]

(* The endpoint takes the event and answers 2xx in time.                   *)
Accepted(i) ==
  /\ sender[i].pc = "post"
  /\ received' = [received EXCEPT ![i] = @ + 1]
  /\ SenderTo(i, "record")
  /\ UNCHANGED <<endpoint, row, emission, lossy, faults>>

(* It takes the event; the answer is late, lost or not a 2xx.              *)
AnswerLost(i) ==
  /\ sender[i].pc = "post"
  /\ received' = [received EXCEPT ![i] = @ + 1]
  /\ lossy' = lossy \cup {i}
  /\ SenderTo(i, "count")
  /\ UNCHANGED <<endpoint, row, emission, faults>>

(* It never sees the event: unreachable, refused, or Vault did not decrypt *)
(* the signing secret.                                                     *)
NotAccepted(i) ==
  /\ sender[i].pc = "post"
  /\ SenderTo(i, "count")
  /\ UNCHANGED <<endpoint, row, emission, outside, faults>>

RecordAndGoOn(i) ==                              \* mutant: no return
  /\ sender[i].pc = "record"
  /\ row' = [row EXCEPT ![i] = [outcome |-> "delivered", attempts |-> sender[i].attempt]]
  /\ SenderTo(i, "count")
  /\ UNCHANGED <<endpoint, emission, outside, faults>>

RecordDelivered(i) ==
  /\ sender[i].pc = "record"
  /\ row' = [row EXCEPT ![i] = [outcome |-> "delivered", attempts |-> sender[i].attempt]]
  /\ Finish(i)
  /\ UNCHANGED <<endpoint, emission, outside, faults>>

(* That UPDATE is inside the try: its failure counts as a failed attempt.  *)
RecordFails(i) ==
  /\ sender[i].pc = "record"
  /\ Fault
  /\ lossy' = lossy \cup {i}
  /\ SenderTo(i, "count")
  /\ UNCHANGED <<endpoint, row, emission, received>>

CountOnlyTheLast(i) ==                           \* mutant: written once, at the end
  /\ sender[i].pc = "count"
  /\ row' = [row EXCEPT ![i].attempts =
               IF sender[i].attempt = MaxAttempts THEN MaxAttempts ELSE @]
  /\ SenderTo(i, IF sender[i].attempt < MaxAttempts THEN "sleep" ELSE "fail")
  /\ UNCHANGED <<endpoint, emission, outside, faults>>

CountAttempt(i) ==
  /\ sender[i].pc = "count"
  /\ row' = [row EXCEPT ![i].attempts = sender[i].attempt]
  /\ SenderTo(i, IF sender[i].attempt < MaxAttempts THEN "sleep" ELSE "fail")
  /\ UNCHANGED <<endpoint, emission, outside, faults>>

(* This UPDATE is outside it: attemptDelivery throws, emitEvent logs.      *)
CountFails(i) ==
  /\ sender[i].pc = "count"
  /\ Fault
  /\ Finish(i)
  /\ UNCHANGED <<endpoint, row, emission, outside>>

RetryForEver(i) ==                               \* mutant: no limit
  /\ sender[i].pc = "sleep"
  /\ SenderTo(i, "post")
  /\ UNCHANGED <<endpoint, row, emission, outside, faults>>

Retry(i) ==
  /\ sender[i].pc = "sleep"
  /\ sender' = [sender EXCEPT ![i].pc = "post", ![i].attempt = @ + 1]
  /\ UNCHANGED <<endpoint, row, emission, outside, faults>>

RecordFailed(i) ==
  /\ sender[i].pc = "fail"
  /\ row' = [row EXCEPT ![i].outcome = "failed"]
  /\ Finish(i)
  /\ UNCHANGED <<endpoint, emission, outside, faults>>

(* .catch(() => {})                                                        *)
RecordFailedFails(i) ==
  /\ sender[i].pc = "fail"
  /\ Fault
  /\ Finish(i)
  /\ UNCHANGED <<endpoint, row, emission, outside>>

-----------------------------------------------------------------------------
(* A process dies with every emission and every delivery it was busy with; *)
(* its successor starts none of them again.                                *)
Crash(p) ==
  /\ Fault
  /\ \/ \E v \in Event : emission[v].by = p /\ emission[v].pc # "done"
     \/ \E i \in Item : sender[i].by = p
  /\ emission' = [v \in Event |->
       IF emission[v].by = p
       THEN [emission[v] EXCEPT !.pc = "done", !.todo = {}] ELSE emission[v]]
  /\ sender' = [i \in Item |-> IF sender[i].by = p THEN NoSender ELSE sender[i]]
  /\ UNCHANGED <<endpoint, row, outside>>

-----------------------------------------------------------------------------
Init ==
  /\ endpoint = [e \in Endpoint |-> "new"]
  /\ row = [i \in Item |-> NoRow]
  /\ emission = [v \in Event |-> [pc |-> "new", by |-> NoProcess, todo |-> {}]]
  /\ sender = [i \in Item |-> NoSender]
  /\ received = [i \in Item |-> 0]
  /\ lossy = {}
  /\ faults = 0

Emission(v) ==
  \/ SelectEndpoints(v)
  \/ SelectFails(v)
  \/ \E e \in Endpoint : InsertDelivery(v, e) \/ InsertFails(v, e)

Delivery(i) ==
  \/ Accepted(i)
  \/ AnswerLost(i)
  \/ NotAccepted(i)
  \/ RecordDelivered(i)
  \/ RecordFails(i)
  \/ CountAttempt(i)
  \/ CountFails(i)
  \/ Retry(i)
  \/ RecordFailed(i)
  \/ RecordFailedFails(i)

Next ==
  \/ \E e \in Endpoint : Register(e) \/ Delete(e)
  \/ \E p \in Process, v \in Event : Emit(p, v)
  \/ \E v \in Event : Emission(v)
  \/ \E i \in Item : Delivery(i)
  \/ \E p \in Process : Crash(p)

Spec == Init /\ [][Next]_vars

(* Promises and timers of a live process are served.                       *)
Fairness ==
  /\ \A v \in Event : WF_vars(Emission(v))
  /\ \A i \in Item : WF_vars(Delivery(i))

LiveSpec == Spec /\ Fairness

-----------------------------------------------------------------------------
(* Type correctness.                                                       *)
TypeOK ==
  /\ endpoint \in [Endpoint -> {"new", "registered", "deleted"}]
  /\ row \in [Item -> [outcome : Outcome, attempts : 0..MaxAttempts]]
  /\ emission \in [Event -> EmissionState]
  /\ sender \in [Item -> SenderState]
  /\ received \in [Item -> Nat]
  /\ lossy \subseteq Item
  /\ faults \in 0..MaxFaults

(***************************************************************************)
(* attempt_count is evidence: an endpoint has not accepted an event more   *)
(* often than the row says, but for the one attempt that may be under way  *)
(* or whose count was lost; once the row is closed the count is exact.     *)
(***************************************************************************)
AttemptsAccountForReceipts ==
  \A i \in Item :
    LET r == row[i] IN
    /\ received[i] <= r.attempts + (IF r.outcome = "open" THEN 1 ELSE 0)
    /\ Active(i) => sender[i].attempt <= r.attempts + 1
    /\ r.outcome = "failed" => r.attempts = MaxAttempts

(***************************************************************************)
(* An endpoint gets an event twice only when an answer, or the UPDATE that *)
(* would have recorded it, was lost: not because another delivery, event   *)
(* or process was at work.                                                 *)
(***************************************************************************)
TwiceOnlyWhenLost ==
  \A i \in Item : received[i] > 1 => i \in lossy

(***************************************************************************)
(* An endpoint with deliveries on record stays registered, so no delivery  *)
(* under way loses its endpoint or its row.                                *)
(***************************************************************************)
DeliveriesKeepTheirEndpoint ==
  \A v \in Event, e \in Endpoint :
    row[<<v, e>>].outcome # "absent" \/ Active(<<v, e>>) => endpoint[e] = "registered"

(***************************************************************************)
(* Without a crash or a database error every recorded delivery reaches a   *)
(* verdict, however the endpoints behave.                                  *)
(***************************************************************************)
EveryDeliveryIsSettled ==
  \A i \in Item :
    row[i].outcome = "open" ~> (row[i].outcome \in {"delivered", "failed"} \/ faults > 0)

(***************************************************************************)
(* emitEvent and attemptDelivery together keep the ledger.                 *)
(***************************************************************************)
Ledger == INSTANCE DeliveryLedger
            WITH entry <- [i \in Item |-> row[i].outcome],
                 got   <- {i \in Item : received[i] > 0}

ImplementsDeliveryLedger == Ledger!Spec
=============================================================================
