SPECIFICATION Spec
CONSTANTS
  Writers = {w1}
  Readers = {r1}
  Many = 2
  Nobody = Nobody
PROPERTIES
  BlocksOnlyWhileEmpty
