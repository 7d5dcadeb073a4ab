\* main and two actors, a server and one connection of three bytes, in buffers of two
CONSTANTS
  Actor = {m1, a1, a2}
  Mains = {m1}
  Null = Null
  MsgType = {}
  InitSize = 3
  MaxMail = 0
  Fd = {f1, f2}
  BufSize = 2
  MaxBytes = 3
  MaxCount = 2
SPECIFICATION NetSpec
SYMMETRY NetSymmetry
INVARIANTS
  NetTypeOK
  WaitersLinkedOnce
  RequestsOfBlocked
  NoUseAfterFree
  ReadNotMissed
  BytesInOrder
CHECK_DEADLOCK FALSE
