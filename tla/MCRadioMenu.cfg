SPECIFICATION Spec
CONSTANTS
  a = a
  b = b
  Replies <- MCReplies
  NoChannel = NoChannel
  Starting = Starting
  Preferred = 3
  MAX_LOOKUPS = 2
  MaxRounds = 4
  MaxKeys = 1
INVARIANTS
  MenuHasStations
  SentIsCurrent
  MarkedIsPlayed
PROPERTIES
  StationsAreShown
CHECK_DEADLOCK FALSE
