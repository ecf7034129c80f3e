SPECIFICATION Spec
CONSTANTS
  Order <- Two
  EarlyEnds = {TRUE}
  Cancelled = {}
  Fatal = {}
  MaxInterrupts = 0
INVARIANTS RemovedWhenSatisfied
