CONSTANTS
  Uid = {u1, u2, u3, u4}
  Name = {nA, nB}
  NoName = NoName
  BlankName = BlankName
  Absent = Absent
  Platform = {switch}
  Hazards = {"partial"}
  MaxRenumberings = 2
  Answers = {}
  UpdateInterval = 1
  RetryAfter = 1
  MinIntervalFactor = 1
  MaxWindowFactor = 2
  StablePolls = 2
  OrphanConfirmPolls = 2
SPECIFICATION ISpec
SYMMETRY Symmetry
INVARIANT NoDuplicateRows
