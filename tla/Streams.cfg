CONSTANTS
  PoolSize = 3
  RollMod = 4
  NULL = NULL
  Buffers = {b1, b2}
  Installers = {i1, i2}
  DataLen = 2
  MaxOpens = 5
SPECIFICATION Spec
INVARIANTS StaleHandleRejected
 
