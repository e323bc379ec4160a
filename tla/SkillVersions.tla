---------------------------- MODULE SkillVersions ----------------------------
(***************************************************************************)
(* The skill store of lumina-core with its version history                 *)
(* (crates/lumina-core/src/skills/mod.rs, skills/skill_store.rs).          *)
(*                                                                         *)
(* Its users run side by side: the refinement that a turn leaves behind    *)
(* on a blocking thread (agent_loop.rs, try_refine_skill), and the         *)
(* commands `train skills edit`, `rollback` and `delete` of another        *)
(* process on the same database.  A SQL statement outside a transaction    *)
(* and a committed transaction are one step each; what a user read before  *)
(* its transaction is kept in its operation and may be stale in it.        *)
(***************************************************************************)
EXTENDS Integers, Sequences

CONSTANTS
  Procedures,      \* Texts a procedure can be
  Operations,      \* Identities of the operations in flight
  Deleted,         \* A row of skills that was removed; its id is never reused
  ForeignKeys,     \* Whether the SQLite build enforces REFERENCES skills(id)
  MaxSkills,       \* Bound: skills ever inserted
  MaxRows,         \* Bound: rows of skill_versions
  MaxUses          \* Bound: recorded successes of a skill

Skill   == [version : Nat, procedure : Procedures, success_count : Nat]
Version == [skill_id : Nat, version : Nat, procedure : Procedures]

ASSUME SkillsAssumption ==
  /\ Deleted \notin Skill
  /\ ForeignKeys \in BOOLEAN
  /\ MaxSkills \in Nat
  /\ MaxRows \in Nat
  /\ MaxUses \in Nat

VARIABLES
  skills,      \* The table skills: the row of id i, or Deleted
  versions,    \* The table skill_versions, in rowid order
  op,          \* op[o]: what operation o has read and does next
  (* history: what the properties compare the state with *)
  lived,       \* every [skill_id, version, procedure] that was ever live
  outpaced     \* skills updated by a transaction whose snapshot was stale

skillsPast == <<lived, outpaced>>
skillVars == <<skills, versions, op, skillsPast>>

-----------------------------------------------------------------------------
SkillIds == 1..Len(skills)

Exists(id) == id \in SkillIds /\ skills[id] # Deleted

\* What the table skills says of an existing skill.
LiveVersion(id) == [skill_id |-> id, version |-> skills[id].version,
             procedure |-> skills[id].procedure]

RowsOf(id, v) ==
  {i \in 1..Len(versions) : versions[i].skill_id = id /\ versions[i].version = v}

\* query_row returns the first row of the scan over idx_skill_versions_skill_id.
Saved(id, v) ==
  LET first == CHOOSE i \in RowsOf(id, v) : \A j \in RowsOf(id, v) : i <= j
  IN  versions[first].procedure

NoWork == [at |-> "idle"]

\* A refinement waits for the model; it keeps the procedure its prompt shows.
Asked(id, p) == [at |-> "asked", skill_id |-> id, shown |-> p]

\* update_skill before and after its read.
Update(id, p)    == [at |-> "update", skill_id |-> id, new |-> p]
Save(id, old, p) == [at |-> "save", skill_id |-> id, new |-> p, old |-> old]

\* rollback between its two reads, and before its transaction.
Current(id, v, p)      == [at |-> "current", skill_id |-> id, target |-> v, new |-> p]
Restore(id, v, p, old) == [at |-> "restore", skill_id |-> id, target |-> v, new |-> p,
                           old |-> old]

SkillsInit ==
  /\ skills = <<>>
  /\ versions = <<>>
  /\ op = [o \in Operations |-> NoWork]
  /\ lived = {}
  /\ outpaced = {}

-----------------------------------------------------------------------------
(* Single statements.                                                      *)

\* store_skill of a generated skill.
InsertSkill(p) ==
  /\ Len(skills) < MaxSkills
  /\ skills' = Append(skills, [version |-> 1, procedure |-> p, success_count |-> 0])
  /\ lived' = lived \cup {[skill_id |-> Len(skills) + 1, version |-> 1, procedure |-> p]}
  /\ UNCHANGED <<versions, op, outpaced>>

\* UPDATE ... SET success_count = success_count + 1: the other columns stay.
RecordSuccess(id) ==
  /\ Exists(id)
  /\ skills[id].success_count < MaxUses
  /\ skills' = [skills EXCEPT ![id].success_count = @ + 1]
  /\ UNCHANGED <<versions, op, skillsPast>>

\* Wrong: the DELETE does not look at skill_versions.
DeleteUnchecked(id) ==
  /\ Exists(id)
  /\ skills' = [skills EXCEPT ![id] = Deleted]
  /\ UNCHANGED <<versions, op, skillsPast>>

\* DELETE FROM skills: refused while rows of skill_versions refer to the skill.
Delete(id) ==
  /\ Exists(id)
  /\ ForeignKeys => \A i \in 1..Len(versions) : versions[i].skill_id # id
  /\ skills' = [skills EXCEPT ![id] = Deleted]
  /\ UNCHANGED <<versions, op, skillsPast>>

-----------------------------------------------------------------------------
(* Operations of several steps.                                            *)

Advance(o, next) == op' = [op EXCEPT ![o] = next]

\* try_refine_skill loads the skill and asks the model.
StartRefine(o, id) ==
  /\ op[o] = NoWork
  /\ Exists(id)
  /\ Advance(o, Asked(id, skills[id].procedure))
  /\ UNCHANGED <<skills, versions, skillsPast>>

\* The model's procedure is stored unless it is the one the prompt showed.
RefinementArrives(o, p) ==
  /\ op[o].at = "asked"
  /\ Advance(o, IF p = op[o].shown THEN NoWork ELSE Update(op[o].skill_id, p))
  /\ UNCHANGED <<skills, versions, skillsPast>>

\* train skills edit
StartEdit(o, id, p) ==
  /\ op[o] = NoWork
  /\ Advance(o, Update(id, p))
  /\ UNCHANGED <<skills, versions, skillsPast>>

\* update_skill reads the current procedure and version.
ReadCurrent(o) ==
  /\ op[o].at = "update"
  /\ Advance(o, IF Exists(op[o].skill_id)
               THEN Save(op[o].skill_id, LiveVersion(op[o].skill_id), op[o].new)
               ELSE NoWork)
  /\ UNCHANGED <<skills, versions, skillsPast>>

\* train skills rollback: the target must be in the history.
StartRollback(o, id, v) ==
  /\ op[o] = NoWork
  /\ RowsOf(id, v) # {}
  /\ Advance(o, Current(id, v, Saved(id, v)))
  /\ UNCHANGED <<skills, versions, skillsPast>>

ReadBeforeRollback(o) ==
  /\ op[o].at = "current"
  /\ Advance(o, IF Exists(op[o].skill_id)
               THEN Restore(op[o].skill_id, op[o].target, op[o].new, LiveVersion(op[o].skill_id))
               ELSE NoWork)
  /\ UNCHANGED <<skills, versions, skillsPast>>

\* Wrong: the snapshot takes the version that is written.
CommitNewVersion(o, id, old, v, p) ==
  /\ Advance(o, NoWork)
  /\ versions' = Append(versions, [old EXCEPT !.version = v])
  /\ skills' = [skills EXCEPT ![id].version = v, ![id].procedure = p]
  /\ lived' = lived \cup {[skill_id |-> id, version |-> v, procedure |-> p]}
  /\ outpaced' = IF LiveVersion(id) = old THEN outpaced ELSE outpaced \cup {id}

\* Wrong: a rollback or an update overwrites without the snapshot.
CommitUnsaved(o, id, old, v, p) ==
  /\ Advance(o, NoWork)
  /\ skills' = [skills EXCEPT ![id].version = v, ![id].procedure = p]
  /\ lived' = lived \cup {[skill_id |-> id, version |-> v, procedure |-> p]}
  /\ outpaced' = IF LiveVersion(id) = old THEN outpaced ELSE outpaced \cup {id}
  /\ UNCHANGED versions

\* The transaction that saves old and makes procedure p live as version v.
Commit(o, id, old, v, p) ==
  /\ Advance(o, NoWork)
  /\ versions' = Append(versions, old)
  /\ skills' = [skills EXCEPT ![id].version = v, ![id].procedure = p]
  /\ lived' = lived \cup {[skill_id |-> id, version |-> v, procedure |-> p]}
  /\ outpaced' = IF LiveVersion(id) = old THEN outpaced ELSE outpaced \cup {id}

\* The same transaction after the skill was deleted: the INSERT fails, or leaves
\* a row behind and the UPDATE finds nothing.
CommitDeleted(o, old) ==
  /\ Advance(o, NoWork)
  /\ versions' = IF ForeignKeys THEN versions ELSE Append(versions, old)
  /\ UNCHANGED <<skills, skillsPast>>

\* save_version_and_update
SaveVersionAndUpdate(o) ==
  LET me == op[o] IN
  /\ me.at = "save"
  /\ Len(versions) < MaxRows
  /\ IF Exists(me.skill_id)
       THEN Commit(o, me.skill_id, me.old, me.old.version + 1, me.new)
       ELSE CommitDeleted(o, me.old)

\* rollback_to_version_safe
RestoreTarget(o) ==
  LET me == op[o] IN
  /\ me.at = "restore"
  /\ Len(versions) < MaxRows
  /\ IF Exists(me.skill_id)
       THEN Commit(o, me.skill_id, me.old, me.target, me.new)
       ELSE CommitDeleted(o, me.old)

\* A request, a statement or the process fails; a transaction is rolled back.
Fails(o) ==
  /\ op[o] # NoWork
  /\ Advance(o, NoWork)
  /\ UNCHANGED <<skills, versions, skillsPast>>

Step(o) ==
  \/ \E id \in SkillIds : StartRefine(o, id)
  \/ \E p \in Procedures : RefinementArrives(o, p)
  \/ \E id \in SkillIds, p \in Procedures : StartEdit(o, id, p)
  \/ ReadCurrent(o)
  \/ SaveVersionAndUpdate(o)
  \/ \E i \in 1..Len(versions) : StartRollback(o, versions[i].skill_id, versions[i].version)
  \/ ReadBeforeRollback(o)
  \/ RestoreTarget(o)
  \/ Fails(o)

SkillsNext ==
  \/ \E p \in Procedures : InsertSkill(p)
  \/ \E id \in SkillIds : RecordSuccess(id) \/ Delete(id)
  \/ \E o \in Operations : Step(o)

SkillsSpec == SkillsInit /\ [][SkillsNext]_skillVars

-----------------------------------------------------------------------------
(* What the store promises.                                                *)

OpType(me) ==
  \/ me = NoWork
  \/ me \in [at : {"asked"}, skill_id : Nat, shown : Procedures]
  \/ me \in [at : {"update"}, skill_id : Nat, new : Procedures]
  \/ me \in [at : {"save"}, skill_id : Nat, new : Procedures, old : Version]
  \/ me \in [at : {"current"}, skill_id : Nat, target : Nat, new : Procedures]
  \/ me \in [at : {"restore"}, skill_id : Nat, target : Nat, new : Procedures, old : Version]

\* The type invariant: both tables, and what an operation may hold at each point.
SkillsTypeOK ==
  /\ skills \in Seq(Skill \cup {Deleted})
  /\ versions \in Seq(Version)
  /\ DOMAIN op = Operations
  /\ \A o \in Operations : OpType(op[o])
  /\ lived \subseteq Version
  /\ outpaced \subseteq Nat

\* Whatever the users interleave, the history tells no lie: each of its rows,
\* and the live row, was live with exactly that version and that procedure
\* (skill_store.rs, save_version_and_update and rollback_to_version_safe).
HistoryIsGenuine ==
  /\ \A i \in 1..Len(versions) : versions[i] \in lived
  /\ \A id \in SkillIds : skills[id] # Deleted => LiveVersion(id) \in lived

\* A procedure that was live is live or in the history as long as no transaction
\* committed a stale snapshot: skills/mod.rs:161 "the old version is always
\* snapshotted into `skill_versions` before the procedure is overwritten".
LostOnlyByARace ==
  \A was \in lived :
    Exists(was.skill_id) /\ was.skill_id \notin outpaced =>
      \/ LiveVersion(was.skill_id) = was
      \/ \E i \in 1..Len(versions) : versions[i] = was

\* With foreign keys enforced no version refers to a missing skill, although a
\* delete can come between the reads and the transaction of an operation.
NoOrphanVersions ==
  ForeignKeys => \A i \in 1..Len(versions) : Exists(versions[i].skill_id)

-----------------------------------------------------------------------------
(* What the comments say and the code does not do.                         *)

\* skills/mod.rs:161 "the old version is always snapshotted into
\* `skill_versions` before the procedure is overwritten", races included.
OldVersionIsSnapshotted ==
  \A was \in lived :
    Exists(was.skill_id) =>
      \/ LiveVersion(was.skill_id) = was
      \/ \E i \in 1..Len(versions) : versions[i] = was

\* skill_store.rs:351 "the current procedure is saved to `skill_versions` so the
\* user can always return to it if the rollback was a mistake": for a procedure
\* that was live, some rollback brings it back.
RollbackCanBeUndone ==
  \A was \in lived :
    Exists(was.skill_id) =>
      \/ skills[was.skill_id].procedure = was.procedure
      \/ \E i \in 1..Len(versions) :
           /\ versions[i].skill_id = was.skill_id
           /\ Saved(was.skill_id, versions[i].version) = was.procedure
=============================================================================
