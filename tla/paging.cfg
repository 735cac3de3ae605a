SPECIFICATION PagingSpec
CONSTANTS
  MAX_ORDER = 4
  Blocks <- MCBlocks
  CPUs = {c1, c2}
  MaxPid = 3
  MaxThreads = 1
  c1 = c1
  c2 = c2
  v1 = v1
  v2 = v2
  stack = stack
  data = data
  more = more
  Image <- MCImage
  Stack = stack
  Heap <- MCHeap
  Values = {v1, v2}
  PROC_MAX_PAGE_NUM = 0
  Program = v1
  None = None
SYMMETRY Symmetry
INVARIANTS
  ZoneExact
  SharedIsForked
  KernelStackApart
  
  
