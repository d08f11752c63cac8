SPECIFICATION Spec
CONSTANTS
  n1 = n1
  n2 = n2
  n3 = n3
  Network = {n1, n2, n3}
  Empty = Empty
  Absent = Absent
  ErrorBound = 2
SYMMETRY NetworkSymmetry
INVARIANTS
  TypeOK
  LockHeldInSave
PROPERTIES
  SaveStoresConfig
  KeepsConfigStore
CHECK_DEADLOCK FALSE
