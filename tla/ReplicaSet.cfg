SPECIFICATION LiveSpec
CONSTANTS
  Clusters = {"k1", "k2"}
  Counts = {1, 2}
  Absent = Absent
  None = None
  Lingering = {"defunct", "install failed"}
  Grace = 0
INVARIANTS
  TypeOK
  NothingForgotten
  SuccessMeansDone
PROPERTIES
  Converges
  Polls
