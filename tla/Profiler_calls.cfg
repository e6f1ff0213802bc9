SPECIFICATION Spec
CONSTANTS
  Functions = {"f"}
  Callers = {"g", "h"}
  Record = 4
  Slab = 8
  Histogram = 2
  HeapLimit = 40
  Requests = {5}
  MaxCalls <- MCMaxCalls
  MaxGrowths = 1
INVARIANTS
  SearchSafe
  BlocksApart
  CountsAddUp
  FewCopies
  SamplerSettles
CHECK_DEADLOCK FALSE
