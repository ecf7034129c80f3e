SPECIFICATION Spec
CONSTANTS
  Senders = {"s1"}
  Receivers = {"r1", "r2"}
  None = "none"
  MaxInterrupts = 0
  CountCap = 1
PROPERTIES PartiesKept
