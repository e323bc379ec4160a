\* One operation at a time.
SPECIFICATION SkillsSpec
CONSTANTS
  Procedures = {p1, p2, p3}
  Operations = {a}
  Deleted = Deleted
  ForeignKeys = TRUE
  MaxSkills = 1
  MaxRows = 4
  MaxUses = 0
SYMMETRY SkillsSymmetry
INVARIANTS
  RollbackCanBeUndone
