--------------------------- MODULE MCSkillVersions ---------------------------
(* Symmetry for the model checking of SkillVersions. *)
EXTENDS SkillVersions, TLC

SkillsSymmetry == Permutations(Procedures) \cup Permutations(Operations)
=============================================================================
