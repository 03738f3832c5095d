SPECIFICATION Spec
CONSTANTS
  PC = {1, 2}
  PcName <- Names
  Action <- Actions
  Request <- Requests
  Numeral <- Numbers
  Symbol <- Symbols
  Utf8 <- Accented
  Chr <- Escapes
  NotUtf8 <- Bad
  NameMax = 2
  HTTP_MAX_REQUEST_BYTES = 14
  Chunk = 6
  Torn = Torn
  NoConn = NoConn
  Nothing = Nothing
INVARIANTS
  TypeOK
  PartsNeverAct
  DecodedAsEncoded
  AnsweredAsDone
  FileIsServed
PROPERTIES
  RestartKeepsLabels
  AcceptsAgain
