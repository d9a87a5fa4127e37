SPECIFICATION LiveSpec
CONSTANTS
  w1 = w1
  w2 = w2
  Worker = {w1, w2}
  Tenant = {2}
  MaxEntries = 2
  MaxRotations = 1
  MaxSuppliers = 1
  MaxFaults = 1
INVARIANTS CursorPassesNothing OneRowPerEntry DroppedForAReason
PROPERTIES EntriesAreIngested
