CONSTANTS
  Frame <- MCFrame
  Requests = {}
  Fanout = 6
  Wrap = 50
  MaxFrame = 53
  KernelRoot = 1
  BootTables <- MCBootTables
  Leftovers <- MCLeftovers
  Regions <- MCRegions
  HHDM = 864
  PageSize = 4
  Image <- MCImage
  TempPage = 1083
  HeapPage = 1084
  Pid = {0, 1}
  MaxClient = 3
  MaxMaps = 2
  VmapPages <- MCVmapPages
  VmapFlags <- MCVmapFlags
  Watched <- MCWatched
SPECIFICATION Spec
INVARIANTS MapExact TablesExact LookupExact TlbFresh KernelShared
