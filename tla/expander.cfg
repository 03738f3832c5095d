SPECIFICATION Spec
CONSTANTS
  p1 = p1
  p2 = p2
  p3 = p3
  PC <- ThreePCs
  BankOf <- Wiring
  I2CErrors = TRUE
INVARIANTS
  TypeOK
  OnlyFailuresLinger
PROPERTY
  RestartReleases
