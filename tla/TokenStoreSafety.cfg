SPECIFICATION Spec
CONSTANTS
  Callers = {a, b}
  Skew = 1
  MaxTime = 2
  MaxMints = 2
  None = None
  Error = Error
  Missing = Missing
  Empty = Empty
  Garbled = Garbled
SYMMETRY CallerSymmetry
INVARIANTS
  TypeOK
  StoreKeepsNewest
  NothingInvalid
