SPECIFICATION LiveSpec
CONSTANTS
  s1 = s1
  c1 = c1
  Value = {1, 2}
  Sweeper = {s1}
  Caller = {c1}
  Grace = 1
  Age = {0, 2, 3}
  MaxVersion = 2
  MaxDrift = 1
  MaxFaults = 1
INVARIANTS RunIsHonest ReconciledMeansGone SubscribersInformed
PROPERTIES AxesIndependent Converges
