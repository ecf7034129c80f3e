SPECIFICATION Spec
CONSTANTS
  Senders = {"s1", "s2"}
  Receivers = {"r1"}
  None = "none"
  MaxInterrupts = 1
  CountCap = 1
PROPERTIES  EveryMessageSettles
