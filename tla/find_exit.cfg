\* main in sherry_exit and one actor, which may block on a descriptor
CONSTANTS
  Actor = {m1, a1}
  Mains = {m1}
  Null = Null
  MsgType = {ping}
  InitSize = 1
  MaxMail = 1
SPECIFICATION FairSpec
PROPERTIES ExitPollsEvents
CHECK_DEADLOCK FALSE
