--------------------------- MODULE DeliveryLedger ---------------------------
(***************************************************************************)
(* What webhook delivery promises, one entry per event and endpoint:       *)
(* nothing is sent before it is on record, a delivery is only called       *)
(* delivered when the endpoint has got the event, an entry that is closed  *)
(* stays closed and nothing is sent for it any more.                       *)
(***************************************************************************)
CONSTANT Item

VARIABLES
  entry,   \* entry[i]: "absent", "open", "delivered" or "failed"
  got      \* the items the endpoint has got at least once

vars == <<entry, got>>

Init ==
  /\ entry = [i \in Item |-> "absent"]
  /\ got = {}

Open(i) ==
  /\ entry[i] = "absent"
  /\ entry' = [entry EXCEPT ![i] = "open"]
  /\ UNCHANGED got

Send(i) ==
  /\ entry[i] = "open"
  /\ got' = got \cup {i}
  /\ UNCHANGED entry

CloseDelivered(i) ==
  /\ entry[i] = "open"
  /\ i \in got
  /\ entry' = [entry EXCEPT ![i] = "delivered"]
  /\ UNCHANGED got

CloseFailed(i) ==
  /\ entry[i] = "open"
  /\ entry' = [entry EXCEPT ![i] = "failed"]
  /\ UNCHANGED got

Next == \E i \in Item :
  \/ Open(i)
  \/ Send(i)
  \/ CloseDelivered(i)
  \/ CloseFailed(i)

Spec == Init /\ [][Next]_vars
=============================================================================
