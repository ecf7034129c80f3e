SPECIFICATION Spec
CONSTANTS
  Senders = {"s1"}
  Receivers = {"r1", "r2"}
  None = "none"
  MaxInterrupts = 1
  CountCap = 1
INVARIANTS NeverPanics
