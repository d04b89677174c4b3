CONSTANTS
  Bad = Bad
  NoValue = NoValue
  Values = {v1, v2, v3}
  Faults = FALSE
SPECIFICATION Spec
INVARIANTS CheckedReplicasAgree
PROPERTIES ImplementsDurable
