CONSTANTS
  Uid = {u1, u2, u3, u4}
  Name = {}
  NoName = NoName
  BlankName = BlankName
  Absent = Absent
  Platform = {switch, sensor}
SPECIFICATION Spec
INVARIANTS
  TypeOK
  NeverRefused
  NothingLost
  AllOrNothing
  LoopMatchesOperators
CHECK_DEADLOCK FALSE
