SPECIFICATION Spec
CONSTANTS
  a = a
  b = b
  c = c
  NVM = 2
  Vcpus = {a, b, c}
  VmOf <- MCVmOf
  WORD = 2
  SGIS = 1
  FIELDS = 1
  VIRQ_NUM = 3
  VIRQS = 2
  SPACE = 6
  Junk <- MCJunk
  UART = 2
  Prios = {0, 1}
  LOWEST = 1
  MAX_STORES = 3
SYMMETRY Siblings
INVARIANT HwWasMounted
PROPERTIES OnlyNamed PhysOnlyMounted
CHECK_DEADLOCK FALSE
