SPECIFICATION Spec
CONSTANTS
  PCS <- Ports
  Wiring <- Wires
  LabelOf <- Labels
  BlobMax = 1
  PskMax = 1
  Request <- Requests
  DefaultUser <- Dflt
  DefaultPass <- Dflt
  Joinable <- Near
  Missing = Missing
  NoConn = NoConn
  I2CErrors = TRUE
  NvsErrors = TRUE
  SocketErrors = TRUE
  PowerCuts = TRUE
  MaxSaves = 2
INVARIANTS
  TypeOK
  CredentialsWereAsked
  LabelsAreSaved
  OnlyFailuresLinger
PROPERTIES
  AcceptsAgain
