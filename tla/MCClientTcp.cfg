SPECIFICATION Spec
CHECK_DEADLOCK FALSE
CONSTANTS
  LengthSize = 1
  HeaderSize = 2
  ReadLength = 3
  Capacity = 5
  Sizes = {2, 3, 5}
  MaxPackets = 3
  MaxSent = 8
INVARIANTS
  TypeOK
  FramesInOrder
  OneReadOutstanding
  NothingTruncated
  AloneIntact
  LobbyKeepsUp
PROPERTIES
  Delivered
