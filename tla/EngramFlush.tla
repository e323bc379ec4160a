----------------------------- MODULE EngramFlush -----------------------------
(***************************************************************************)
(* What a closed session becomes on its way from working memory to the     *)
(* episodic store (crates/lumina-core/src/conversation/engram_flush.rs).   *)
(* No variables: ConversationMemory holds the pending queue and the store. *)
(*                                                                         *)
(* The rendered transcript is abstracted to the turns it shows: those of   *)
(* the summary blocks and those of the verbatim entries.                   *)
(***************************************************************************)
EXTENDS ConversationBuffer

CONSTANT MaxPendingFlushes   \* MAX_PENDING_FLUSHES, 100 in the code

ASSUME PendingAssumption == MaxPendingFlushes \in Nat \ {0}

\* A session taken out of the buffer, with the key it was found under.
Closed(u, s) == [user_id |-> u, session |-> s]

NothingToFlush(s) == s.entries = <<>> /\ s.summaries = <<>>

\* Wrong: turns already summarised are neither counted nor rendered.
EpisodeFromVerbatim(c) ==
  [user_id    |-> c.user_id,
   session_id |-> c.session.session_id,
   turn_count |-> Len(c.session.entries),
   content    |-> VerbatimIds(c.session)]

EpisodeFrom(c) ==
  [user_id    |-> c.user_id,
   session_id |-> c.session.session_id,
   turn_count |-> Len(c.session.entries) + TurnsCovered(c.session),
   content    |-> TurnsIn(c.session)]

QueueFull(q) == Len(q) >= MaxPendingFlushes

\* PendingFlushes::enqueue
Enqueued(q, ep) == Append(IF QueueFull(q) THEN Tail(q) ELSE q, ep)

DroppedBy(q) == IF QueueFull(q) THEN Head(q).content ELSE {}
=============================================================================
