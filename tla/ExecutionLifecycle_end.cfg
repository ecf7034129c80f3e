\* Two processes that are launched and end, one of which may meet a fatal error.
SPECIFICATION Spec
CONSTANTS
  Order <- Two
  EarlyEnds = {TRUE, FALSE}
  Cancelled = {}
  Fatal = {"p1"}
  MaxInterrupts = 1
INVARIANTS RecordsOutliveProcesses ExecutionCompletesOnce
