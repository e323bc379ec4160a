\* Two operations on one skill.
SPECIFICATION SkillsSpec
CONSTANTS
  Procedures = {p1, p2, p3}
  Operations = {a, b}
  Deleted = Deleted
  ForeignKeys = TRUE
  MaxSkills = 1
  MaxRows = 2
  MaxUses = 0
SYMMETRY SkillsSymmetry
INVARIANTS
  OldVersionIsSnapshotted
