SPECIFICATION Spec
CONSTANTS
  Type <- MCType
  Outbound <- MCOutbound
  Conditional <- MCConditional
  Default <- MCDefault
  Reciprocal <- MCReciprocal
  Called <- MCCalled
  Starts = {"caller"}
  MaxHandlers = 2
  MaxInterrupts = 0
INVARIANTS CallCompletesOnce
