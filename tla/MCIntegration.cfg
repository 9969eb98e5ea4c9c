CONSTANTS
  Uid = {u1, u2, u3, u4, u5}
  Name = {nA, nB, nC}
  NoName = NoName
  BlankName = BlankName
  Absent = Absent
  Platform = {switch, sensor}
  Hazards = {}
  MaxRenumberings = 2
  Answers = {}
  UpdateInterval = 1
  RetryAfter = 1
  MinIntervalFactor = 2
  MaxWindowFactor = 2
  StablePolls = 2
  OrphanConfirmPolls = 3
SPECIFICATION ISpec
SYMMETRY Symmetry
INVARIANTS
  NoDuplicateRows
  ListedEntityAvailable
  EntityShowsOwnVpn
PROPERTIES
  RowsLostOnlyIfNoneSeen
