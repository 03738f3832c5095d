SPECIFICATION Spec
CONSTANTS
  s1 = s1
  s2 = s2
  None = None
  Server = {s1, s2}
  AckHasMask = {s1}
  Reserved = {s2}
INVARIANTS
  TypeOK
  AddressIsOurs
PROPERTY
  EventuallyBound
