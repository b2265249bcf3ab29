SPECIFICATION FairSpec
CONSTANTS
  Interfaces = {"ims", "call", "sms"}
  Callbacks = {"ims"}
  MaxGen = 2
  MaxSerial = 2
  MaxDials = 1
  MaxTaken = 2
  MaxMail = 1
CHECK_DEADLOCK FALSE
INVARIANTS
  TypeOK
  RefsAccounted
  RequestsHaveTarget
  CallbacksHaveTarget
  AnswersStayInTheirSlot
  StrandedOnlyByTakeover
PROPERTIES
  GivenUpImsFreed
