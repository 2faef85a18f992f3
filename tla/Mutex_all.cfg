SPECIFICATION Spec
CONSTANTS
  high = high
  mid = mid
  low = low
  idle = idle
  m1 = m1
  m2 = m2
  Threads = {high, mid, low, idle}
  Base <- MCBase
  Idle = idle
  Asleep = Asleep
  Mutexes = {m1, m2}
  HOLD_MAX = 2
  Takes <- MCTakes
  None = None
INVARIANTS TypeOK MutualExclusion NoInversion PriorityRestored TimeoutFindsSuspended
PROPERTY TopGetsMutex
