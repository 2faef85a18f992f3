SPECIFICATION Spec
CONSTANTS
  Vcpus = {v1, v2}
  Host = Host
  Idle = Idle
  None = None
  NR_LR = 1
  GIC_LR_LIST_NUM = 2
  HwVirqs = {2}
  PtimerVirq = 1
  Prios = {0}
  GIC_LOWEST_PRIO = 0
  TailInits = {0, 3}
  MAX_CUTS = 1
INVARIANTS TypeOK TailIsFirstIdle ListedOnce
SYMMETRY VcpuSymmetry
CHECK_DEADLOCK FALSE
