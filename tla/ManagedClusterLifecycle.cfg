SPECIFICATION LiveSpec
CONSTANTS
  Places = {"p1", "P1", "p2"}
  LowerCase <- MCLowerCase
  Names = {"n1", "n2"}
  Levels = {"off", "user"}
  Instances = {"f1", "m8"}
  Perfs = {"low", "high"}
  Versions = {"v1", "v2"}
  Tags = {"v1a", "v2a", "v2b"}
  VersionOf <- MCVersionOf
  DefaultTag <- MCDefaultTag
  Configs <- LifecycleConfigs
  Absent = Absent
  None = None
  MaxClusters = 2
  Grace = 0
INVARIANTS
  TypeOK
  NothingForgotten
PROPERTIES
  OnlyUnwantedDestroyed
  Converges
