SPECIFICATION LiveSpec
CONSTANTS
  Places = {"vpc", "VPC", "project", "tenant"}
  ProviderOf <- MCProviderOf
  AsCreated <- MCAsCreated
  Names = {"n1", "n2"}
  Configs <- MCConfigs
  Absent = Absent
  None = None
  MaxPeerings = 2
  Grace = 0
INVARIANTS
  TypeOK
  NothingForgotten
  MetadataKnown
PROPERTIES
  OnlyUnwantedDestroyed
  Converges
