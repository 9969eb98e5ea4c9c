CONSTANTS
  Poll = poll
  Toggles = {t1}
  Wants = {"on"}
  MaxEvents = 1
SPECIFICATION FairSpec
INVARIANT TypeOK
PROPERTIES
  KeepsClientContract
  WorkingCallsSucceed
  CallsEnd
