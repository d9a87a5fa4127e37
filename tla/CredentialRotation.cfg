SPECIFICATION LiveSpec
CONSTANTS
  q1 = q1
  q2 = q2
  c1 = c1
  c2 = c2
  Query = {q1, q2}
  Call = {c1, c2}
  MaxCreds = 3
  MaxTokens = 2
  MaxFaults = 1
INVARIANTS RecordNotAheadOfPool
PROPERTIES PoolNeverStepsBack Settles
