SPECIFICATION LiveSpec
CONSTANTS
  k1 = k1
  a1 = a1
  q1 = q1
  d1 = d1
  d2 = d2
  w1 = w1
  w2 = w2
  NoKey = NoKey
  Key = {k1}
  App = {a1}
  AppOf <- OneKeyOneApp
  Requester = {q1}
  Decider = {d1, d2}
  Worker = {w1}
  MaxRequests = 1
  MaxVersion = 1
  MaxGen = 2
  MaxFaults = 1
PROPERTIES ApprovedGetsExecuted DecisionLands
CHECK_DEADLOCK FALSE
