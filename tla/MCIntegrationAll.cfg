CONSTANTS
  Uid = {u1, u2, u3}
  Name = {nA, nB}
  NoName = NoName
  BlankName = BlankName
  Absent = Absent
  Platform = {switch}
  Hazards = {"partial", "empty", "again", "deleted", "reuse", "unseen"}
  MaxRenumberings = 2
  Answers = {}
  UpdateInterval = 1
  RetryAfter = 1
  MinIntervalFactor = 1
  MaxWindowFactor = 1
  StablePolls = 1
  OrphanConfirmPolls = 2
SPECIFICATION ISpec
SYMMETRY Symmetry
INVARIANTS
  RegistryConsistent
  KnownUidsAreLive
