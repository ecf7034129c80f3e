SPECIFICATION Spec
CONSTANTS
  Type <- MCType
  Outbound <- MCOutbound
  Conditional <- MCConditional
  Default <- MCDefault
  Reciprocal <- MCReciprocal
  Called <- MCCalled
  Starts = {"simple", "parallel", "choice", "caller"}
  MaxHandlers = 3
  MaxInterrupts = 0
INVARIANTS CompletesOnce CallWaitsForProcess
PROPERTIES ProcessEnds
