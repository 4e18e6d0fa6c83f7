SPECIFICATION Spec
CONSTANTS
  a = a
  b = b
  Replies <- MCReplies
  NoChannel = NoChannel
  Starting = Starting
  Preferred = 0
  MAX_LOOKUPS = 2
  MaxRounds = 3
  MaxKeys = 0
INVARIANTS
  ReadsNoFreedListing
CHECK_DEADLOCK FALSE
