------------------------- MODULE ConversationBuffer -------------------------
(***************************************************************************)
(* The per-user working memory of lumina-core                              *)
(* (crates/lumina-core/src/conversation/buffer.rs).                        *)
(*                                                                         *)
(* This module has no variables: it defines the values SessionState,       *)
(* BufferEntry, SummaryBlock and SummarizationJob and what the methods of  *)
(* ConversationBuffer compute on them.  ConversationMemory holds the map   *)
(* from users to sessions and calls these operators from its actions.      *)
(*                                                                         *)
(* A turn-pair's two strings are one member of Contents.  The field id of  *)
(* an entry, and the fields ids and source of a block, exist only for the  *)
(* properties: id is the position of the turn in the history of the whole  *)
(* process, ids the turns a block replaced, source the turns its text was  *)
(* computed from.  No guard reads them.  A job's trigger is the turn whose *)
(* recording spawned its task; it tells two tasks apart.                   *)
(***************************************************************************)
EXTENDS Integers, Sequences, Arithmetic

CONSTANTS
  Contents,        \* What a turn-pair can say
  TokensIn,        \* approx_tokens of a turn-pair, by its content
  MaxTurns,        \* LUMINA_CONV_BUFFER_SIZE, clamped by new()
  MaxTokens,       \* LUMINA_CONV_TOKEN_BUDGET, clamped by new()
  SessionTimeout   \* LUMINA_SESSION_TIMEOUT_SECS, clamped by new()

ASSUME TokensAssumption  == TokensIn \in [Contents -> Nat]
ASSUME LimitsAssumption  == /\ MaxTurns \in Nat \ {0}
                            /\ MaxTokens \in Nat \ {0}
                            /\ SessionTimeout \in Nat

-----------------------------------------------------------------------------
(* Values *)

BufferEntry == [id : Nat \ {0}, content : Contents, timestamp : Nat]

SummaryBlock == [turns_covered : Nat, approx_tokens : Nat,
                 ids : Seq(Nat), source : Seq(BufferEntry)]

SessionState == [entries : Seq(BufferEntry), summaries : Seq(SummaryBlock),
                 last_activity : Nat, total_tokens : Nat, session_id : Nat]

NewSession(sid, t) ==
  [entries |-> <<>>, summaries |-> <<>>, last_activity |-> t,
   total_tokens |-> 0, session_id |-> sid]

-----------------------------------------------------------------------------
(* Tokens *)

\* Tokens of the first n entries.
TokensTo(entries, n) ==
  SumTo([i \in 1..Len(entries) |-> TokensIn[entries[i].content]], n)

-----------------------------------------------------------------------------
(* push *)

IsExpired(s, t) == t - s.last_activity >= SessionTimeout

\* The condition of the eviction loop once n entries have been popped.
OverLimits(s, n) ==
  LET left == Len(s.entries) - n
  IN  \/ left > MaxTurns
      \/ left > 1 /\ SaturatingSub(s.total_tokens, TokensTo(s.entries, n)) > MaxTokens

\* How many entries the loop pops: it stops the first time its condition fails.
EvictionCount(s) ==
  CHOOSE n \in 0..Len(s.entries) :
    /\ ~OverLimits(s, n)
    /\ \A m \in 0..(n - 1) : OverLimits(s, m)

\* Wrong: the counter keeps the tokens of the popped turns.
WithoutOldestKeepingTokens(s, n) == [s EXCEPT !.entries = SubSeq(@, n + 1, Len(@))]

WithoutOldest(s, n) ==
  [s EXCEPT !.entries = SubSeq(@, n + 1, Len(@)),
            !.total_tokens = SaturatingSub(@, TokensTo(s.entries, n))]

\* The session after push_back and before the eviction loop.
Extended(s, e) ==
  [s EXCEPT !.entries = Append(@, e),
            !.total_tokens = @ + TokensIn[e.content],
            !.last_activity = e.timestamp]

Evicted(s, e) ==
  LET full == Extended(s, e) IN SubSeq(full.entries, 1, EvictionCount(full))

Pushed(s, e) ==
  LET full == Extended(s, e) IN WithoutOldest(full, EvictionCount(full))

-----------------------------------------------------------------------------
(* Progressive summarization *)

SummarizationDue(s, t, threshold) ==
  /\ ~IsExpired(s, t)
  /\ threshold >= 2
  /\ Len(s.entries) >= threshold

\* Wrong: n is rounded up, the snapshot is not.
JobForMismatched(user, s, trigger) ==
  LET half == Len(s.entries) \div 2
  IN  [user_id |-> user, session_id |-> s.session_id,
       turns |-> SubSeq(s.entries, 1, half), n |-> half + 1, trigger |-> trigger]

\* The oldest half of the turns, snapshot when the job is made.
JobFor(user, s, trigger) ==
  LET half == Len(s.entries) \div 2
      n    == IF half >= 1 THEN half ELSE 1
  IN  [user_id |-> user, session_id |-> s.session_id,
       turns |-> SubSeq(s.entries, 1, n), n |-> n, trigger |-> trigger]

\* BufferEntry's PartialEq: everything but the history field.
SameTurn(e, f) == e.content = f.content /\ e.timestamp = f.timestamp

\* Wrong: the fence on the front entries is missing.
CanInstallUnfenced(s, job) ==
  /\ s.session_id = job.session_id
  /\ job.n # 0
  /\ Len(s.entries) >= job.n

\* The three staleness tests of install_summary.
CanInstall(s, job) ==
  /\ s.session_id = job.session_id
  /\ job.n # 0
  /\ Len(s.entries) >= job.n
  /\ \A i \in 1..job.n : SameTurn(s.entries[i], job.turns[i])

\* Wrong: the new block is put before the existing ones.
InstalledInFront(s, job, size) ==
  LET block == [turns_covered |-> job.n, approx_tokens |-> size,
                ids |-> [i \in 1..job.n |-> s.entries[i].id],
                source |-> job.turns]
  IN  [WithoutOldest(s, job.n) EXCEPT !.summaries = <<block>> \o @]

Installed(s, job, size) ==
  LET block == [turns_covered |-> job.n, approx_tokens |-> size,
                ids |-> [i \in 1..job.n |-> s.entries[i].id],
                source |-> job.turns]
  IN  [WithoutOldest(s, job.n) EXCEPT !.summaries = Append(@, block)]

-----------------------------------------------------------------------------
(* What a session holds *)

SummarizedIds(s) ==
  UNION {{b.ids[i] : i \in 1..Len(b.ids)} :
           b \in {s.summaries[j] : j \in 1..Len(s.summaries)}}

VerbatimIds(s) == {s.entries[i].id : i \in 1..Len(s.entries)}

TurnsIn(s) == SummarizedIds(s) \cup VerbatimIds(s)

TurnsCovered(s) ==
  SumTo([j \in 1..Len(s.summaries) |-> s.summaries[j].turns_covered], Len(s.summaries))
=============================================================================
