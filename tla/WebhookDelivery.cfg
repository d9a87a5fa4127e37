SPECIFICATION LiveSpec
CONSTANTS
  v1 = v1
  v2 = v2
  e1 = e1
  e2 = e2
  p1 = p1
  p2 = p2
  NoProcess = NoProcess
  Event = {v1, v2}
  Endpoint = {e1, e2}
  Subscribed <- OneWantsAll
  Process = {p1, p2}
  MaxAttempts = 2
  MaxFaults = 1
INVARIANTS AttemptsAccountForReceipts TwiceOnlyWhenLost
PROPERTIES EveryDeliveryIsSettled ImplementsDeliveryLedger
CHECK_DEADLOCK FALSE
