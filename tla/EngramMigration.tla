--------------------------- MODULE EngramMigration ---------------------------
(***************************************************************************)
(* The opening of a long-term memory written by version 1                  *)
(* (crates/lumina-core/src/engram/migration.rs, EngramStore::open): the    *)
(* rows of the table facts are copied to memories_v2 in batches, and facts *)
(* is renamed.                                                             *)
(*                                                                         *)
(* Turns, ingestions and commands each open the store anew, at once if it  *)
(* so happens, and nothing here is a transaction: every statement commits  *)
(* by itself, and an opening can stop after any of them.                   *)
(***************************************************************************)
EXTENDS Integers, Sequences, FiniteSets

CONSTANTS
  Openers,     \* openings of the store that run at once
  FactIds,     \* ids of the rows of facts; a deleted fact leaves a gap
  Unreadable,  \* facts whose row a SELECT may fail to read
  BatchSize,   \* facts read at a time, 500 in the code
  MaxNew       \* Bound: memories recorded after the migration

ASSUME MigrationAssumption ==
  /\ IsFiniteSet(FactIds)
  /\ FactIds \subseteq Nat \ {0}
  /\ Unreadable \subseteq FactIds
  /\ BatchSize \in Nat \ {0}
  /\ MaxNew \in Nat

VARIABLES
  renamed,     \* whether facts is facts_v1_backup by now
  rows,        \* memories_v2 by rowid: the fact a row was copied from, or NewMemory
  indexMade,   \* whether memory_fts_v2 exists
  inIndex,     \* rowids with a text in memory_fts_v2
  opening,     \* opening[o]: what o does next, and the batch of facts it copies
  (* history *)
  unread,      \* facts that a SELECT of their batch could not read
  cut,         \* whether facts was left behind: see Cut
  recopied     \* whether facts was copied to a table that had rows, or twice at once

migrationPast == <<unread, cut, recopied>>
migrationVars == <<renamed, rows, indexMade, inIndex, opening, migrationPast>>

-----------------------------------------------------------------------------
NewMemory == 0

FactCount == Cardinality(FactIds)

\* Where a fact stands: SELECT without an order reads by id.
Position(f) == Cardinality({g \in FactIds : g <= f})
BatchAt(offset) == {f \in FactIds : Position(f) \in (offset + 1)..(offset + BatchSize)}

Closed == [at |-> "closed", offset |-> 0, last |-> FALSE, todo |-> {}, row |-> 0]
LoopLeft == [Closed EXCEPT !.at = "rename"]

MoveOn(o, where) == opening' = [opening EXCEPT ![o].at = where]
Reached(o, where) == opening[o].at = where

\* o copies, and has facts before it.
Copying(o) == opening[o].at \in {"select", "insert", "sync"}
Unfinished(o) == Copying(o) /\ (opening[o].todo # {} \/ opening[o].offset < FactCount)

\* A step after which the facts that are not copied yet may stay so.
Cut(lost) == cut' = (cut \/ lost)

\* Bound: a filled memories_v2 is counted as empty once.
MayMiscount == ~recopied

MigrationInit ==
  /\ renamed = FALSE
  /\ rows = <<>>
  /\ indexMade = FALSE
  /\ inIndex = {}
  /\ opening = [o \in Openers |-> Closed]
  /\ unread = {}
  /\ cut = FALSE
  /\ recopied = FALSE

-----------------------------------------------------------------------------
(* migrate_v1_to_v2.  A query that fails counts 0.                         *)

\* Is there a table facts?
LookForFacts(o) ==
  /\ Reached(o, "closed")
  /\ \/ ~renamed /\ MoveOn(o, "count") /\ UNCHANGED cut
     \/ MoveOn(o, "create") /\ Cut(~renamed)
  /\ UNCHANGED <<renamed, rows, indexMade, inIndex, unread, recopied>>

\* Its rows; a table that is gone cannot be counted.
CountFacts(o) ==
  /\ Reached(o, "count")
  /\ LET some == ~renamed /\ FactIds # {}
     IN \/ some /\ MoveOn(o, "guard") /\ UNCHANGED cut
        \/ MoveOn(o, "rename") /\ Cut(some)
  /\ UNCHANGED <<renamed, rows, indexMade, inIndex, unread, recopied>>

\* The guard: nothing is copied when memories_v2 has rows.
CountMemories(o) ==
  /\ Reached(o, "guard")
  /\ \/ rows # <<>> /\ MoveOn(o, "rename") /\ UNCHANGED recopied
     \/ /\ rows = <<>> \/ MayMiscount
        /\ MoveOn(o, "select")
        /\ recopied' = (recopied \/ rows # <<>> \/ \E other \in Openers : Copying(other))
  /\ UNCHANGED <<renamed, rows, indexMade, inIndex, unread, cut>>

\* The next batch, without the rows that cannot be read: a batch they make short is
\* the last one.  The offset grows by the length of the batch, which is BatchSize
\* wherever the loop goes on.
ReadBatch(o) ==
  \E failed \in SUBSET (BatchAt(opening[o].offset) \cap Unreadable) :
    LET read == BatchAt(opening[o].offset) \ failed
        end == opening[o].offset + BatchSize
        short == Cardinality(read) < BatchSize
    IN /\ opening' = [opening EXCEPT ![o] =
            IF read = {} THEN LoopLeft
            ELSE [at |-> "insert", offset |-> end, last |-> short, todo |-> read, row |-> 0]]
       /\ unread' = unread \cup failed
       /\ Cut(short /\ end < FactCount)

\* Without a table facts the SELECT fails, and so does the opening.
SelectBatch(o) ==
  /\ Reached(o, "select")
  /\ \/ ~renamed /\ ReadBatch(o)
     \/ /\ renamed
        /\ opening' = [opening EXCEPT ![o] = Closed]
        /\ Cut(Unfinished(o))
        /\ UNCHANGED unread
  /\ UNCHANGED <<renamed, rows, indexMade, inIndex, recopied>>

\* The INSERT of one fact, under an id of its own ...
InsertFact(o) ==
  /\ Reached(o, "insert")
  /\ LET f == CHOOSE g \in opening[o].todo : \A h \in opening[o].todo : g <= h
     IN /\ rows' = Append(rows, f)
        /\ opening' = [opening EXCEPT ![o].at = "sync", ![o].todo = @ \ {f},
                                      ![o].row = Len(rows) + 1]
  /\ UNCHANGED <<renamed, indexMade, inIndex, migrationPast>>

\* Wrong: a full batch is taken for the last one.
AfterRowOnce(o) == IF opening[o].todo # {} THEN "insert" ELSE "rename"

\* After the last row of a full batch the next one is read.
AfterRow(o) ==
  IF opening[o].todo # {} THEN "insert"
  ELSE IF opening[o].last THEN "rename"
  ELSE "select"

\* ... and of its text, whose failure is ignored, as where there is no index.
SyncFact(o) ==
  /\ Reached(o, "sync")
  /\ inIndex' \in {inIndex} \cup (IF indexMade THEN {inIndex \cup {opening[o].row}} ELSE {})
  /\ opening' = [opening EXCEPT ![o] =
       IF AfterRow(o) = "rename" THEN LoopLeft ELSE [@ EXCEPT !.at = AfterRow(o), !.row = 0]]
  /\ UNCHANGED <<renamed, rows, indexMade, migrationPast>>

\* ALTER TABLE; when another opening has renamed facts, this one fails.
RenameFacts(o) ==
  /\ Reached(o, "rename")
  /\ renamed' = TRUE
  /\ opening' = [opening EXCEPT ![o] = IF renamed THEN Closed ELSE [Closed EXCEPT !.at = "create"]]
  /\ Cut(\E other \in Openers : Unfinished(other))
  /\ UNCHANGED <<rows, indexMade, inIndex, unread, recopied>>

-----------------------------------------------------------------------------
(* The rest of the opening, and the store.                                 *)

\* create_fts_v2_table
CreateIndex(o) ==
  /\ Reached(o, "create")
  /\ indexMade' = TRUE
  /\ MoveOn(o, "open")
  /\ UNCHANGED <<renamed, rows, inIndex, migrationPast>>

\* insert_memory through an open store, its text, whose failure is ignored,
\* included (EngramStore has the two statements).
Remember(o) ==
  /\ Reached(o, "open")
  /\ Cardinality({r \in 1..Len(rows) : rows[r] = NewMemory}) < MaxNew
  /\ rows' = Append(rows, NewMemory)
  /\ inIndex' \in {inIndex, inIndex \cup {Len(rows) + 1}}
  /\ UNCHANGED <<renamed, indexMade, opening, migrationPast>>

\* The store is closed, a statement of the opening fails, or the process ends.
CloseStore(o) ==
  /\ ~Reached(o, "closed")
  /\ opening' = [opening EXCEPT ![o] = Closed]
  /\ Cut(Unfinished(o))
  /\ UNCHANGED <<renamed, rows, indexMade, inIndex, unread, recopied>>

MigrationNext ==
  \E o \in Openers :
    \/ LookForFacts(o)
    \/ CountFacts(o)
    \/ CountMemories(o)
    \/ SelectBatch(o)
    \/ InsertFact(o)
    \/ SyncFact(o)
    \/ RenameFacts(o)
    \/ CreateIndex(o)
    \/ Remember(o)
    \/ CloseStore(o)

MigrationSpec == MigrationInit /\ [][MigrationNext]_migrationVars

-----------------------------------------------------------------------------
(* Full-text search.                                                       *)

\* The rows found by words that the texts of the given facts, and of the new
\* memories if new, have: those of memory_fts_v2, or when there are none those of
\* the index of version 1, whose rowids are the ids of facts.
FullTextHits(facts, new) ==
  LET hits == {r \in inIndex : rows[r] \in facts \/ (new /\ rows[r] = NewMemory)}
  IN  IF hits # {} THEN hits ELSE facts \cap (1..Len(rows))

-----------------------------------------------------------------------------
(* What the migration promises.                                            *)

\* The type invariant.
MigrationTypeOK ==
  /\ {renamed, indexMade, cut, recopied} \subseteq BOOLEAN
  /\ rows \in Seq(FactIds \cup {NewMemory})
  /\ inIndex \subseteq 1..Len(rows)
  /\ opening \in [Openers -> [at : {"closed", "count", "guard", "select", "insert", "sync",
                                    "rename", "create", "open"},
                              offset : Nat, last : BOOLEAN, todo : SUBSET FactIds, row : Nat]]
  /\ unread \subseteq FactIds

\* The rows copied so far: the facts in their order, each once, and none passed over
\* but one that could not be read.
CopiedInOrder ==
  \A s \in 1..Len(rows) :
    rows[s] # NewMemory =>
      /\ \A r \in 1..(s - 1) : rows[r] < rows[s]
      /\ \A f \in FactIds \ unread : f < rows[s] => \E r \in 1..(s - 1) : rows[r] = f

\* migration.rs:3 "Migration is idempotent and runs on every EngramStore open": at any
\* time, wherever openings stopped, memories_v2 holds the first facts, once and in
\* order, unless they were copied to a table that had rows (a failed count of them
\* reads 0) or by two openings at once; and as soon as facts is out of the way, it
\* holds every fact that could be read, unless the facts were cut off: a copying
\* stopped, or another opening renamed facts, before its end; a batch made short by
\* unreadable rows was not the last one; the look for the table, or the count of its
\* rows, failed.
MigrationKeepsFacts ==
  /\ ~recopied => CopiedInOrder
  /\ renamed /\ ~cut =>
       \A f \in FactIds \ unread : \E r \in 1..Len(rows) : rows[r] = f

-----------------------------------------------------------------------------
(* What the comments say and the code does not do.                         *)

\* migration.rs:121 "Sync to FTS index so migrated memories are full-text
\* searchable": after a migration that nothing cut short, words of a fact find its
\* row through an open store, whether a newer memory has the same words or not.
MigratedAreSearchable ==
  \A o \in Openers, r \in 1..Len(rows), new \in BOOLEAN :
    ~cut /\ Reached(o, "open") /\ rows[r] # NewMemory => r \in FullTextHits({rows[r]}, new)
=============================================================================
