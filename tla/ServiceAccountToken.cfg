SPECIFICATION FairSpec
CONSTANTS
  Callers = {a, b}
  Skew = 1
  MaxTime = 2
  MaxMints = 3
  None = None
  Error = Error
INVARIANTS
  TypeOK
  CacheIsNewest
  NothingStale
  ForcedIsNew
PROPERTIES
  NoNeedlessMint
  Atomic
  EveryCallAnswered
