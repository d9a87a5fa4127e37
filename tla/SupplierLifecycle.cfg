SPECIFICATION MCSpec
CONSTANTS
  c1 = c1
  w1 = w1
  k1 = k1
  n1 = n1
  n2 = n2
  n3 = n3
  none = none
  Caller = {c1}
  Worker = {w1}
  Key = {k1}
  Namespace = {n1, n2, n3}
  NoNamespace = none
  Leaf <- Leaves
  QueueMode = TRUE
  MaxSuppliers = 2
  MaxDeletes = 2
  SyncDeletes = 1
  MovedFaults = 0
  MaxMoved = 0
  MaxFaults = 1
INVARIANTS TypeOK RegistryAndVaultAgree
PROPERTIES KeysGuarded JobsAreClosed
CHECK_DEADLOCK FALSE
