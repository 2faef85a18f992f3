SPECIFICATION Spec
CONSTANTS
  b1 = b1  b2 = b2  b3 = b3  b4 = b4  b5 = b5  b6 = b6
  MAX_VM_NUM = 2
  Blocks = {b1, b2, b3, b4, b5, b6}
  Pages = {0, 1}
  PUD_NUM = 3
  PMD_NUM = 2
  Oses <- MCOses
  None = None
SYMMETRY Heap
INVARIANTS PagesOnce SlotsApart OwnBlocks OnlineMapped
CHECK_DEADLOCK FALSE
PROPERTY ImplementsMemory
