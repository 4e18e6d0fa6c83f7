SPECIFICATION Spec
CONSTANTS
  a = a
  b = b
  c = c
  Packets <- MCPackets
  BSize = 4
  Missing = Missing
  NoPacket = NoPacket
  Channels = {a, b, c}
  Port <- MCPort
  NoChannel = NoChannel
  MaxChanges = 2
INVARIANTS
  InitiatedMatchesBuffer
  BufferOfOneSession
  OneStalePacket
PROPERTIES
  UsesBuffer
  
CHECK_DEADLOCK FALSE
