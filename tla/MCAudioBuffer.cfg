SPECIFICATION Spec
CONSTANTS
  Packets <- MCPackets
  BSize = 6
  Missing = Missing
  NoPacket = NoPacket
INVARIANTS
  TypeOK
  SlotsInOrder
  MissingMapExact
  RequestsAreSound
  WithinSize
  BackIsPacket
PROPERTIES
  PlayedInOrder
CHECK_DEADLOCK FALSE
