SPECIFICATION Spec
CONSTANTS
  a1 = a1
  a2 = a2
  b1 = b1
  b2 = b2
  b3 = b3
  f1 = f1
  Accounts = {a1, a2}
  Buckets = {b1, b2, b3}
  Owner <- MCOwner
  Records <- ForeignRecords
  NoHTTP = FALSE
  AccountLimit = 1
  BucketLimit = 1
INVARIANTS
  GapDowngrades
CHECK_DEADLOCK FALSE
