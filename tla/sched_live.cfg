\* two mains and one actor, each a round of init and exit, with two types of messages; liveness, so no symmetry
CONSTANTS
  Actor = {m1, m2, a1}
  Mains = {m1, m2}
  Null = Null
  MsgType = {ping, pong}
  InitSize = 1
  MaxMail = 2
SPECIFICATION FairSpec
PROPERTIES ImplementsActorModel WaitersServed ReadyRuns ExitReturns
CHECK_DEADLOCK FALSE
