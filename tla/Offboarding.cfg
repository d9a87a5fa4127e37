SPECIFICATION LiveSpec
CONSTANTS
  k1 = k1  p1 = p1  p2 = p2  c1 = c1  s1 = s1  o1 = o1
  NoKey = NoKey  NoPolicy = NoPolicy
  Key = {k1}
  Policy = {p1, p2}
  LatePolicy = {p2}
  KeyOf <- OneKey
  Unrecorded = {}
  Caller = {c1}
  Sweeper = {s1}
  Other = {o1}
  MaxRequests = 2
  MaxGen = 2
  MaxDecisions = 2
  MaxFaults = 1
INVARIANTS TombstoneJustified OffboardedLeavesNoRow
PROPERTIES OffboardingCompletes
CHECK_DEADLOCK FALSE
