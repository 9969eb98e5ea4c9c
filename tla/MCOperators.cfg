CONSTANTS
  Uid = {u1, u2, u3, u4}
  Name = {nA, nB, nC}
  NoName = NoName
  BlankName = BlankName
  Absent = Absent
  ListedUid = {v1, v2, v3}
  NoUid = NoUid
  Missing = Missing
SPECIFICATION Spec
INVARIANTS
  RemapIffUnambiguous
  ListingIsTheBoxs
CHECK_DEADLOCK FALSE
