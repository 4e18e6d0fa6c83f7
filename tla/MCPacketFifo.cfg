SPECIFICATION ReaderSpec
CONSTANTS
  Size = 3
  PSize = 3
  MaxBytes <- MCMaxBytes
  Asked <- MCAsked
  Blank = Blank
  NoPacket = NoPacket
INVARIANTS
  TypeOK
  WindowIsServed
  InputInPackets
PROPERTIES
  ImplementsWindow
