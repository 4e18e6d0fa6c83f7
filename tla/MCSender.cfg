SPECIFICATION Spec
CONSTANTS
  Size = 2
  PSize = 2
  MaxBytes = 6
  Asked <- MCAsked
  Blank = Blank
  NoPacket = NoPacket
  Receivers = {r1}
  Lists <- MCLists
  MaxOrders = 3
INVARIANTS
  BroadcastIsServed
  OrdersAnsweredRight
  OrderInOnePlace
PROPERTIES
  NoOrderLost
  UsesFifo
  Stops
  OrdersResolved
