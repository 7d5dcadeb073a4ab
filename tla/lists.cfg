\* four nodes moved between two lists
CONSTANTS
  List = {readyq, waitq}
  Node = {n1, n2, n3, n4}
  Null = Null
SPECIFICATION Spec
INVARIANTS LinksAgree
PROPERTIES ImplementsFifoLists
CHECK_DEADLOCK FALSE
