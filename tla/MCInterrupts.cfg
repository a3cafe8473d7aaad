CONSTANTS
  MAX_PROCS = 3
  TickWrap = 2
  Length = 2
  SyscallAt = {1}
  KernelProcs = {2}
  Masters = {TRUE, FALSE}
SPECIFICATION Spec
INVARIANTS RingExact BoundedWait OthersResume AloneNeverSetBack
  InServiceExact StopsOnlyForSlave
PROPERTIES RefinesQueue RoundRobin KeysNoticed
