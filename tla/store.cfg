SPECIFICATION Spec
CONSTANTS
  c1 = c1
  c2 = c2
  p1 = p1
  a = a
  b = b
  nul = nul
  dflt = dflt
  Conn = {c1, c2}
  PC = {p1}
  Text = {a, b, nul, dflt}
  Kept <- ReadBack
  Credentials <- Pairs
  PcName <- Names
  DefaultUser = dflt
  DefaultPass = dflt
  Nothing = Nothing
  Blank = Blank
  NoOne = NoOne
  NoJob = NoJob
  PowerCuts = TRUE
  FlashFaults = TRUE
SYMMETRY Symmetry
INVARIANTS
  TypeOK
  NoTornCredentials
  QuiescentIsSaved
PROPERTY
  CutsSpareCredentials
