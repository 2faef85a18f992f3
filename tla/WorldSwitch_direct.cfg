SPECIFICATION Spec
CONSTANTS
  a1 = a1  a2 = a2  b1 = b1  A = A  B = B  zero = zero  one = one
  Vcpus = {a1, b1}
  Vms = {A, B}
  VmOf <- MCVmOf
  IdOf <- MCIdOf
  Hosts = {host}
  Idle = idle
  None = None
  GuestRegs = {"el1"}
  GuestVals = {x}
INVARIANT OwnRegs
