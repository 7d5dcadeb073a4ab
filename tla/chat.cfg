\* three connections, at most two at a time, and two lines
CONSTANTS
  MaxConn = 3
  MaxFd = 2
  MaxLines = 2
SPECIFICATION FairSpec
INVARIANTS FdInOnePlace WritersRegistered BroadcastInOrder NoEcho
PROPERTIES ClientsLeave
CHECK_DEADLOCK FALSE
