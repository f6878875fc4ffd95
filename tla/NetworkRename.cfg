SPECIFICATION LiveSpec
CONSTANTS
  Cidrs = {"c1", "c2"}
  Unset = Unset
  Names = {"n1", "n2"}
  Configs <- MCConfigs
  Absent = Absent
  None = None
  MaxNetworks = 1
  Grace = 0
PROPERTIES
  NameChanges
