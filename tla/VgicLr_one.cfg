SPECIFICATION Spec
CONSTANTS
  Vcpus = {v1}
  Host = Host
  Idle = Idle
  None = None
  NR_LR = 2
  GIC_LR_LIST_NUM = 2
  HwVirqs = {2, 3}
  PtimerVirq = 1
  Prios = {0, 1}
  GIC_LOWEST_PRIO = 1
  TailInits = {0, 1, 3}
  MAX_CUTS = 2
INVARIANTS LrsDistinct NotInBoth
PROPERTY PendingKept
CHECK_DEADLOCK FALSE
