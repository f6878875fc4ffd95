SPECIFICATION Spec
CONSTANTS
  Places = {"vpc", "VPC", "project", "tenant"}
  ProviderOf <- MCProviderOf
  AsCreated <- MCAsCreated
  Names = {"n1", "n2"}
  Configs <- MCConfigs
  Absent = Absent
  None = None
  MaxPeerings = 1
  Grace = 0
INVARIANTS
  DefunctFails
