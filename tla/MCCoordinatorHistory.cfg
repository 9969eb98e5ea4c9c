CONSTANTS
  u1 = u1
  u2 = u2
  u3 = u3
  nA = nA
  nB = nB
  NoName = NoName
  BlankName = BlankName
  Absent = Absent
  Uid = {u1, u2, u3}
  Name = {nA, nB}
  Answers <- RenumberingAnswers
  UpdateInterval = 1
  RetryAfter = 1
  MinIntervalFactor = 2
  MaxWindowFactor = 2
  StablePolls = 2
  OrphanConfirmPolls = 3
SPECIFICATION HSpec
INVARIANTS
  HTypeOK
  WindowFollowsOutage
  OneReauthPerCycle
PROPERTIES
  RecoveryConfirmsNothing
  RemapKeepsName
  SeenUntilRemapped
  OrphansHaveEvidence
  RecoveryEndsOnEvidence
