SPECIFICATION Spec
CONSTANTS
  MAX_VM_NUM = 2
  BITMAP_BITS = 3
  OsVcpus = {0, 2}
  MAX_VCPU = 2
  RT_DEBUG = TRUE
  HCR_TWI = TRUE
  Failures = TRUE
  PtrBytes = {0, 8}
  Shell = Shell
  Idle = Idle
  NULL = NULL
CHECK_DEADLOCK FALSE
INVARIANTS TypeOK SlotsMarked LinkedNotFreed StatusMatchesThread RunnableIsLinked OneConsole
PROPERTY DeadStaysDead
