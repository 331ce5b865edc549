SPECIFICATION Spec
CONSTANTS
  Workers = {w1, w2}
  Snapshots = {monday, tuesday}
  Torn = Torn
  Empty = Empty
  NoFile = NoFile
  Exts = {"sqlite"}
  MaxUuids = 3
  MaxJobs = 3
  MaxSecond = 2
PROPERTIES SyncRepairs RestoresKeepWhole
SYMMETRY Symmetry
CHECK_DEADLOCK FALSE
