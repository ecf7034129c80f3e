SPECIFICATION Spec
CONSTANTS
  Type <- MCType
  Outbound <- MCOutbound
  Conditional <- MCConditional
  Default <- MCDefault
  Reciprocal <- MCReciprocal
  Called <- MCCalled
  Starts = {"simple", "parallel", "choice", "caller"}
  MaxHandlers = 1
  MaxInterrupts = 1
INVARIANTS TokensCarriedOn JobsCanComplete
