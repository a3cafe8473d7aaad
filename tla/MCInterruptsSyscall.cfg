CONSTANTS
  MAX_PROCS = 2
  TickWrap = 2
  Length = 3
  SyscallAt = {1}
  KernelProcs = {}
  Masters = {TRUE}
SPECIFICATION Spec
INVARIANT ResumesWhereStopped
