SPECIFICATION Spec
CONSTANTS
  Timers = {v1, v2, o1}
  Periodic = {v1, v2}
  Vcpus = {v1, v2}
  TICKS = 7
  Times = {1, 2}
  LAG = 1
  None = None
  Ctls <- MCCtls
  TVals = {0, 2, 5, 7, 8}
  FREQ = 2
CHECK_DEADLOCK FALSE
INVARIANTS TypeOK EarliestFirst Timely DetachedIsOff CtlMatchesTimer
PROPERTIES NotEarly GuestInterrupted GivesWay
