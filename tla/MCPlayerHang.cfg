SPECIFICATION Spec
CONSTANTS
  a = a
  b = b
  c = c
  Packets <- MCFewPackets
  BSize = 4
  Missing = Missing
  NoPacket = NoPacket
  Channels = {a, b}
  Port <- MCPort
  NoChannel = NoChannel
  MaxChanges = 2
PROPERTIES
  LoopComesBack
CHECK_DEADLOCK FALSE
