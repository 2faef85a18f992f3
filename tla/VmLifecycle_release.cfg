SPECIFICATION Spec
CONSTANTS
  MAX_VM_NUM = 2
  BITMAP_BITS = 2
  OsVcpus = {1}
  MAX_VCPU = 1
  RT_DEBUG = FALSE
  HCR_TWI = TRUE
  Failures = FALSE
  PtrBytes = {0, 8}
  Shell = Shell
  Idle = Idle
  NULL = NULL
CHECK_DEADLOCK FALSE
INVARIANT LinkedNotFreed
