SPECIFICATION Spec
CONSTANTS
  Elems <- MCElems
  RawSize <- MCRawSize
  Messages <- MCMessages
  InitialLen = 8
  VecLen = 2
  MaxSent = 2
INVARIANTS
  InOrderDelivery
PROPERTIES
  ReadsLastMessage
CHECK_DEADLOCK FALSE
