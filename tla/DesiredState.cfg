SPECIFICATION Spec
CONSTANTS
  o1 = o1
  o2 = o2
  p1 = p1
  NoValue = NoValue
  Value = {30, 90}
  Operator = {o1, o2}
  Provisioner = {p1}
  MaxVersion = 4
INVARIANTS HistoryIsComplete NoLostUpdate
PROPERTIES ImplementsIntentLog
