----------------------------- MODULE EngramStore -----------------------------
(***************************************************************************)
(* The long-term memory of a user (crates/lumina-core/src/engram): the     *)
(* table memories_v2, whose rows supersede and absorb each other, and the  *)
(* full-text index memory_fts_v2 beside it, keyed by rowid.                *)
(*                                                                         *)
(* Ingestion tasks of the server and the commands `memories delete` and    *)
(* `memories reflect` work on the file at once, each statement by itself;  *)
(* only a merge is a transaction.  Memory i is recorded with the fact i; a *)
(* merged one tells several facts.  Which memories are similar, and which  *)
(* of two contradicts the other, is the embeddings' and the language       *)
(* model's choice.  Types, tags, sharing and access counts are left out.   *)
(***************************************************************************)
EXTENDS Integers, FiniteSets

CONSTANTS
  EngramTasks,  \* ingestions and commands that run at once
  MaxMemories   \* Bound: memories ever made

ASSUME EngramAssumption == MaxMemories \in Nat

VARIABLES
  memory,      \* memory[i]: the row of id i; row 0 when there is none
  indexed,     \* indexed[r]: the text under rowid r in the index, as facts
  made,        \* ids given out
  work,        \* work[t]: what t does next, and on what
  (* history *)
  recorded,    \* facts whose memory was stored
  forgotten,   \* facts of memories a command deleted
  strayed,     \* facts indexed or merged while another task deleted their row
  leftover,    \* facts whose text in the index could not be deleted
  unmerged,    \* facts of a memory merged away whose text could not be read
  crossed      \* whether two reflections ran at once

engramPast == <<recorded, forgotten, strayed, leftover, unmerged, crossed>>
engramVars == <<memory, indexed, made, work, engramPast>>

-----------------------------------------------------------------------------
Ids == 1..MaxMemories
NoMemory == [row |-> 0, tells |-> {}, by |-> 0]
AtEase == [at |-> "rest", id |-> 0, row |-> 0, set |-> {}]

Stored(i) == memory[i].row # 0
Live == {i \in Ids : Stored(i) /\ memory[i].by = 0}

\* SQLite gives a new row the highest rowid and one; a free one comes back.
NextRow == CHOOSE r \in 1..(MaxMemories + 1) :
             /\ \A i \in Ids : memory[i].row < r
             /\ r = 1 \/ \E i \in Ids : memory[i].row = r - 1

Task(t, next) == work' = [work EXCEPT ![t] = next]
Working(t, where) == work[t].at = where
Deleting(i) == \E t \in EngramTasks : work[t].at \in {"unindex", "overwrite", "delete"} /\ work[t].id = i
Reflecting == {t \in EngramTasks : work[t].at \in {"reflect", "merge"}}

EngramInit ==
  /\ memory = [i \in Ids |-> NoMemory]
  /\ indexed = [r \in Ids |-> {}]
  /\ made = 0
  /\ work = [t \in EngramTasks |-> AtEase]
  /\ recorded = {}
  /\ forgotten = {}
  /\ strayed = {}
  /\ leftover = {}
  /\ unmerged = {}
  /\ crossed = FALSE

-----------------------------------------------------------------------------
(* Ingestion of a turn.                                                    *)

\* apply_contradiction_check: loads all rows, superseded ones too, and takes
\* the rowids of the similar ones.
Compare(t) ==
  /\ Working(t, "rest")
  /\ made < MaxMemories
  /\ made' = made + 1
  /\ \E similar \in SUBSET {memory[i].row : i \in {j \in Ids : Stored(j)}} :
       Task(t, [at |-> "supersede", id |-> made + 1, row |-> 0, set |-> similar])
  /\ UNCHANGED <<memory, indexed, engramPast>>

\* conn_execute_supersede, one row at a time; a failed one is passed over.
SupersedeRow(t) ==
  /\ Working(t, "supersede")
  /\ \E r \in work[t].set :
       /\ memory' \in {memory, [i \in Ids |-> IF memory[i].row = r THEN [memory[i] EXCEPT !.by = work[t].id]
                                                                   ELSE memory[i]]}
       /\ Task(t, [work[t] EXCEPT !.set = @ \ {r}])
  /\ UNCHANGED <<indexed, made, engramPast>>

\* insert_memory: the row ...
InsertMemory(t) ==
  /\ Working(t, "supersede")
  /\ work[t].set = {}
  /\ LET i == work[t].id
     IN /\ memory' = [memory EXCEPT ![i] = [row |-> NextRow, tells |-> {i}, by |-> 0]]
        /\ recorded' = recorded \cup {i}
        /\ Task(t, [AtEase EXCEPT !.at = "index", !.id = i, !.row = NextRow])
  /\ UNCHANGED <<indexed, made, forgotten, strayed, leftover, unmerged, crossed>>

\* ... and its text; an error, as when the rowid is taken, is ignored.
InsertText(t) ==
  /\ Working(t, "index")
  /\ LET i == work[t].id
         r == work[t].row
     IN /\ indexed' \in {indexed, [indexed EXCEPT ![r] = IF @ = {} THEN {i} ELSE @]}
        /\ strayed' = IF i \in memory[i].tells /\ ~Deleting(i) THEN strayed ELSE strayed \cup {i}
  /\ Task(t, AtEase)
  /\ UNCHANGED <<memory, made, recorded, forgotten, leftover, unmerged, crossed>>

-----------------------------------------------------------------------------
(* memories delete.                                                        *)

FindMemory(t, i) ==
  /\ Working(t, "rest")
  /\ Stored(i)
  /\ Task(t, [at |-> "unindex", id |-> i, row |-> memory[i].row, set |-> memory[i].tells])
  /\ UNCHANGED <<memory, indexed, made, engramPast>>

\* Wrong: the index is left alone, as bulk_delete does.
DeleteNoText(t) ==
  /\ Working(t, "unindex")
  /\ Task(t, [work[t] EXCEPT !.at = "overwrite"])
  /\ UNCHANGED <<memory, indexed, made, engramPast>>

\* fts_sync_delete_v2, whose failure both callers ignore: the text stays.
TextDeleted(r) ==
  \/ /\ indexed' = [indexed EXCEPT ![r] = {}]
     /\ UNCHANGED leftover
  \/ /\ leftover' = leftover \cup indexed[r]
     /\ UNCHANGED indexed

\* The text first ...
DeleteText(t) ==
  /\ Working(t, "unindex")
  /\ TextDeleted(work[t].row)
  /\ Task(t, [work[t] EXCEPT !.at = "overwrite"])
  /\ UNCHANGED <<memory, made, recorded, forgotten, strayed, unmerged, crossed>>

\* ... then delete_memory: random bytes over the memory ...
Overwrite(t) ==
  /\ Working(t, "overwrite")
  /\ memory' = [memory EXCEPT ![work[t].id].tells = {}]
  /\ forgotten' = forgotten \cup work[t].set
  /\ Task(t, [work[t] EXCEPT !.at = "delete"])
  /\ UNCHANGED <<indexed, made, recorded, strayed, leftover, unmerged, crossed>>

\* ... and the end of its row.
DeleteRow(t) ==
  /\ Working(t, "delete")
  /\ memory' = [memory EXCEPT ![work[t].id] = NoMemory]
  /\ Task(t, AtEase)
  /\ UNCHANGED <<indexed, made, engramPast>>

-----------------------------------------------------------------------------
(* memories reflect.                                                       *)

\* run_reflection: the memories that nothing supersedes, as they are now.
LoadLive(t) ==
  /\ Working(t, "rest")
  /\ Task(t, [AtEase EXCEPT !.at = "reflect", !.set = Live])
  /\ crossed' = (crossed \/ Reflecting # {})
  /\ UNCHANGED <<memory, indexed, made, recorded, forgotten, strayed, leftover, unmerged>>

\* Wrong: a memory found stale goes on superseding others.
SupersedeStaleToo(t) ==
  /\ Working(t, "reflect")
  /\ \E stale, newer \in work[t].set :
       /\ stale # newer
       /\ memory' = [memory EXCEPT ![stale].by = IF Stored(stale) THEN newer ELSE 0]
  /\ UNCHANGED <<indexed, made, work, engramPast>>

\* detect_contradictions: after each answer of the language model one memory of a
\* pair is superseded by the other, and leaves the loop.
SupersedeStale(t) ==
  /\ Working(t, "reflect")
  /\ \E stale, newer \in work[t].set :
       /\ stale # newer
       /\ memory' = [memory EXCEPT ![stale].by = IF Stored(stale) THEN newer ELSE 0]
       /\ Task(t, [work[t] EXCEPT !.set = @ \ {stale}])
  /\ UNCHANGED <<indexed, made, engramPast>>

\* merge_related_memories: the similar pairs, here one, of what is live by now ...
FindPair(t) ==
  /\ Working(t, "reflect")
  /\ \E older, newer \in Live :
       /\ older # newer
       /\ Task(t, [AtEase EXCEPT !.at = "merge", !.id = older, !.row = newer])
  /\ UNCHANGED <<memory, indexed, made, engramPast>>

\* The text of the older memory goes to the newer one, wherever that is by now, or
\* cannot be read and is skipped; the older one's row goes in any case.
RowMerged(older, newer) ==
  \E text \in {memory[older].tells, {}} :
    /\ memory' = [i \in Ids |->
         IF i = older THEN NoMemory
         ELSE IF i = newer /\ Stored(i) THEN [memory[i] EXCEPT !.tells = @ \cup text]
         ELSE memory[i]]
    /\ unmerged' = unmerged \cup (memory[older].tells \ text)

\* ... and the transaction, which passes over an older memory that is gone.  The index
\* entry stays too where its rowid cannot be read.
Merge(t) ==
  /\ Working(t, "merge")
  /\ LET older == work[t].id
         newer == work[t].row
     IN \/ /\ Stored(older)
           /\ RowMerged(older, newer)
           /\ TextDeleted(memory[older].row)
           /\ strayed' = IF Deleting(older) \/ Deleting(newer) \/ ~Stored(newer)
                           THEN strayed \cup memory[older].tells
                           ELSE strayed
        \/ /\ ~Stored(older)
           /\ UNCHANGED <<memory, indexed, strayed, leftover, unmerged>>
  /\ Task(t, AtEase)
  /\ UNCHANGED <<made, recorded, forgotten, crossed>>

\* A statement fails where that ends the work, or the process is killed; a
\* reflection may also have no more to do.
Stop(t) ==
  /\ ~Working(t, "rest")
  /\ Task(t, AtEase)
  /\ UNCHANGED <<memory, indexed, made, engramPast>>

EngramStep(t) ==
  \/ Compare(t)
  \/ SupersedeRow(t)
  \/ InsertMemory(t)
  \/ InsertText(t)
  \/ \E i \in Ids : FindMemory(t, i)
  \/ DeleteText(t)
  \/ Overwrite(t)
  \/ DeleteRow(t)
  \/ LoadLive(t)
  \/ SupersedeStale(t)
  \/ FindPair(t)
  \/ Merge(t)
  \/ Stop(t)

EngramNext == \E t \in EngramTasks : EngramStep(t)

EngramSpec == EngramInit /\ [][EngramNext]_engramVars

-----------------------------------------------------------------------------
(* What the memory promises.                                               *)

\* The type invariant: two rows never share a rowid.
EngramTypeOK ==
  /\ made \in 0..MaxMemories
  /\ memory \in [Ids -> [row : 0..MaxMemories, tells : SUBSET Ids, by : 0..MaxMemories]]
  /\ \A i, j \in Ids : Stored(i) /\ memory[i].row = memory[j].row => i = j
  /\ indexed \in [Ids -> SUBSET Ids]
  /\ \A t \in EngramTasks :
       /\ work[t].at \in {"rest", "supersede", "index", "unindex", "overwrite", "delete",
                          "reflect", "merge"}
       /\ work[t].id \in 0..MaxMemories
       /\ work[t].row \in 0..MaxMemories
       /\ work[t].set \subseteq Ids
  /\ UNION {recorded, forgotten, strayed, leftover, unmerged} \subseteq Ids
  /\ crossed \in BOOLEAN

\* fts.rs:175 "rowid matches memories_v2 rowid": a text the search finds under a
\* rowid is told by the memory in that row, however rowids are reused, unless the
\* row was deleted by one task while another indexed or merged it, or the deletion of
\* the text failed, which the code ignores: that text stays under a rowid that the
\* next memory may get.
IndexTellsItsMemory ==
  \A r \in Ids : \A f \in indexed[r] \ (strayed \cup leftover) :
    \E i \in Ids : memory[i].row = r /\ f \in memory[i].tells

\* Fact f is told by a live memory, or by one that a fact of D superseded.
Settled(f, D) == \E i \in Ids : f \in memory[i].tells /\ memory[i].by \in {0} \cup D

\* contradiction.rs:5 "superseded_by is set to the newer memory's ID": a fact that
\* was stored is still told, or the chain of memories that superseded it ends in
\* a live one.  So memories never supersede each other in a circle, and merging
\* loses nothing, unless reflections cross, a row is deleted while it is merged,
\* the merge cannot read the text, or a memory that superseded others could not be
\* stored.
FactsAreSettled ==
  ~crossed =>
    \A D \in SUBSET (recorded \ (forgotten \cup strayed \cup unmerged)) :
      D # {} => \E f \in D : Settled(f, Ids \ D)
=============================================================================
