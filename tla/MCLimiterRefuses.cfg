\* Two calls after an exhausted day.
SPECIFICATION Spec
CONSTANTS
  Calls = {a, b}
  Limit = 1
  Modulus = 8
  MaxDay = 1
SYMMETRY Symmetry
INVARIANTS
  RefusesOnlyAtLimit
