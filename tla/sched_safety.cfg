\* main and three actors, over an array of one slot, so that it grows twice
CONSTANTS
  Actor = {m1, a1, a2, a3}
  Mains = {m1}
  Null = Null
  MsgType = {ping}
  InitSize = 1
  MaxMail = 1
SPECIFICATION Spec
SYMMETRY Symmetry
INVARIANTS
  TypeOK
  OneQueuePerNode
  NobodyStranded
  RecvFindsMessage
  DeadStayDead
  TableSound
  ExitLeavesNobody
CHECK_DEADLOCK FALSE
