CONSTANTS
  Uid = {u1, u2, u3}
  Name <- PlainNames
  NoName = NoName
  BlankName = BlankName
  Absent = Absent
  NoDevice = NoDevice
  Word <- Words
  Platform = {"switch"}
  Foreign <- OfficeTaken
  MaxChanges = 3
SPECIFICATION Spec
SYMMETRY Symmetry
INVARIANTS
  TypeOK
  RepairsEnd
PROPERTIES
  ListedRowsKept
  SetupKeepsIds
  RepairMerges
