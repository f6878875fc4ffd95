SPECIFICATION LiveSpec
CONSTANTS
  Kinds = {"project", "acl", "backup", "integration", "cloudwatch"}
  Configs <- MCConfigs
  v1 = v1
  v2 = v2
  Values = {v1, v2}
  Empty = Empty
  Foreign = Foreign
  Blank = Blank
  Bare = Bare
  Padded = Padded
  Masked = Masked
  Absent = Absent
  None = None
  MaxItems = 2
INVARIANTS
  TypeOK
  NothingForgotten
  ReadsBack
  SecretInForce
PROPERTIES
  Converges
  Polls
