SPECIFICATION TransmissionSpec
CONSTANTS
  Byte = 2
  Radix = 2
  MAX_DATAGRAM_SIZE = 10
  RequestHeader = 6
  Stations <- MCStations
  Settings <- MCSettings
  Host <- MCHost
  Receiver = "receiver"
  Size = 2
  BSize = 6
  Missing = Missing
  NoPacket = NoPacket
  MaxSecond = 2
  MaxRequests = 1
INVARIANTS
  HeardIsTuned
  RequestsAreMet
  NoBlankSent
CHECK_DEADLOCK FALSE
