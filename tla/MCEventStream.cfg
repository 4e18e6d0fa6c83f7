SPECIFICATION Spec
CONSTANTS
  Writers = {w1, w2}
  Readers = {r1, r2}
  Many = 3
  Nobody = Nobody
INVARIANTS
  NeverTakesFromEmpty
PROPERTIES
  WritesAreRead
