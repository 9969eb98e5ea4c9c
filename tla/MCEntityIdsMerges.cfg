CONSTANTS
  Uid = {u1, u2}
  Name <- PlainNames
  NoName = NoName
  BlankName = BlankName
  Absent = Absent
  NoDevice = NoDevice
  Word <- Words
  Platform = {"switch", "connected"}
  Foreign <- OfficeTaken
  MaxChanges = 2
SPECIFICATION Spec
PROPERTY SetupMerges
