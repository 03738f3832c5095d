SPECIFICATION Spec
CONSTANTS
  PCS <- Ports
  Wiring <- Wires
  LabelOf <- Labels
  BlobMax = 1
  PskMax = 1
  Request <- FarRequests
  DefaultUser <- Dflt
  DefaultPass <- Dflt
  Joinable <- Near
  Missing = Missing
  NoConn = NoConn
  I2CErrors = FALSE
  NvsErrors = FALSE
  SocketErrors = FALSE
  PowerCuts = FALSE
  MaxSaves = 3
INVARIANT NeverStranded
