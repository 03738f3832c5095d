SPECIFICATION Spec
CONSTANTS
  c1 = c1
  c2 = c2
  c3 = c3
  p1 = p1
  Conn = {c1, c2}
  PC = {p1}
  ResetPulse = 1
  PowerPulse = 2
  ForcePulse = 5
  I2CErrors = FALSE
PROPERTY
  ForceOffHolds
