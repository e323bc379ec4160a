-------------------------- MODULE ConversationMemory --------------------------
(***************************************************************************)
(* Tier-1 conversation memory of lumina-core: the process-global buffer,   *)
(* the turns that push into it, the background summarizer, the sweep task  *)
(* of main.rs, explicit resets, and the flush of closed sessions to the    *)
(* episodic store with its retry queue.                                    *)
(*                                                                         *)
(* Actors: turns (Matrix turns hold the bot's processing lock, the turns   *)
(* of the shared user, which come from the HTTP server, do not), one       *)
(* summarizer task per job, the sweep timer, and one blocking task per     *)
(* reset or sweep.  A lock section of the code is one step here; what      *)
(* happens between two lock sections is interleaved.                       *)
(***************************************************************************)
EXTENDS EngramFlush, FiniteSets

CONSTANTS
  Users,           \* Storage ids of the callers
  SharedUser,      \* "system": turns with no user, never serialised, never reset
  NoSession,       \* A user without an entry in the session map
  SummarizeThreshold,   \* LUMINA_CONV_SUMMARIZE_THRESHOLD
  SummarySizes,    \* Token counts the model's answer can have
  MinSummaryTokens, MaxSummaryTokens,   \* validate_summary's bounds
  MaxHistory,      \* Bound: turns recorded in a behaviour
  MaxNow,          \* Bound: the clock
  MaxInFlight,     \* Bound: turns and summarizer tasks not yet finished
  MaxTasks         \* Bound: blocking tasks alive at once

ASSUME MemoryAssumption ==
  /\ NoSession \notin SessionState
  /\ SummarizeThreshold \in Nat
  /\ SummarySizes \subseteq Nat
  /\ MinSummaryTokens \in Nat
  /\ MaxSummaryTokens \in Nat
  /\ MaxHistory \in Nat
  /\ MaxNow \in Nat
  /\ MaxInFlight \in Nat
  /\ MaxTasks \in Nat

Episode == [user_id : Users, session_id : Nat, turn_count : Nat,
            content : SUBSET Nat]

VARIABLES
  now,         \* unix_now()
  sessions,    \* ConversationBuffer.sessions
  recording,   \* turns that have pushed and not yet asked summarization_due
  jobs,        \* summarizer tasks waiting for the model
  tasks,       \* spawn_blocking closures: what they still have to flush
  pending,     \* PENDING.queue
  retrying,    \* retry_all: whether it holds PENDING, and its still_pending
  archive,     \* the episodes in the Engram store, in insertion order
  (* history: what the properties compare the state with *)
  history,     \* history[i]: the i-th recorded turn, with its user and session
  evicted,     \* turns popped by the eviction loop
  replaced,    \* turns of expired sessions overwritten by push
  dropped,     \* turns of episodes dropped by a full pending queue
  crashed      \* turns in memory when the process died

memory == <<sessions, recording, jobs, tasks, pending, retrying>>
past   == <<history, evicted, replaced, dropped, crashed>>
vars   == <<now, sessions, recording, jobs, tasks, pending, retrying, archive,
            history, evicted, replaced, dropped, crashed>>

-----------------------------------------------------------------------------
Active == {u \in Users : sessions[u] # NoSession}

TurnsOf(u) == IF sessions[u] = NoSession THEN {} ELSE TurnsIn(sessions[u])

Expired(u) == sessions[u] # NoSession /\ IsExpired(sessions[u], now)

\* A Matrix turn is inside the bot's processing lock until its recording ends.
MatrixTurnRunning == \E r \in recording : r.user_id # SharedUser

Idle == [active |-> FALSE, still |-> <<>>]

\* A blocking task; retry: it ends with retry_pending, as the sweep's does.
Task(closed, retry) == [todo |-> closed, failed |-> <<>>, retry |-> retry]

Finished(t) == t.todo = {} /\ t.failed = <<>> /\ ~t.retry

Becomes(t, t2) == tasks' = (tasks \ {t}) \cup (IF Finished(t2) THEN {} ELSE {t2})

Init ==
  /\ now = 0
  /\ sessions = [u \in Users |-> NoSession]
  /\ recording = {}
  /\ jobs = {}
  /\ tasks = {}
  /\ pending = <<>>
  /\ retrying = Idle
  /\ archive = <<>>
  /\ history = <<>>
  /\ evicted = {}
  /\ replaced = {}
  /\ dropped = {}
  /\ crashed = {}

-----------------------------------------------------------------------------
(* A turn: the push under the write lock, then the summarization check.    *)

\* Wrong: push extends an expired session.
SessionForPushNeverExpired(u, sid) ==
  IF sessions[u] = NoSession THEN NewSession(sid, now) ELSE sessions[u]

\* Wrong: an expired session gets a new id and keeps its turns.
SessionForPushRenamed(u, sid) ==
  IF sessions[u] = NoSession THEN NewSession(sid, now)
  ELSE IF Expired(u) THEN [sessions[u] EXCEPT !.session_id = sid]
  ELSE sessions[u]

\* The session a push goes to: the live one, or a new one in its place.
SessionForPush(u, sid) ==
  IF sessions[u] = NoSession \/ Expired(u) THEN NewSession(sid, now)
                                           ELSE sessions[u]

\* record_turn_in_buffer up to the release of the write lock.
RecordTurn(u, c) ==
  LET id == Len(history) + 1
      s  == SessionForPush(u, id)
      e  == [id |-> id, content |-> c, timestamp |-> now]
      ev == Evicted(s, e)
  IN  /\ id <= MaxHistory
      /\ Cardinality(recording) + Cardinality(jobs) < MaxInFlight
      /\ u # SharedUser => ~MatrixTurnRunning
      /\ sessions' = [sessions EXCEPT ![u] = Pushed(s, e)]
      /\ recording' = recording \cup {[user_id |-> u, at |-> now, turn |-> id]}
      /\ history' = Append(history, [user_id |-> u, session_id |-> s.session_id,
                                     content |-> c, timestamp |-> now])
      /\ evicted' = evicted \cup {ev[i].id : i \in 1..Len(ev)}
      /\ replaced' = replaced \cup (IF Expired(u) THEN TurnsOf(u) ELSE {})
      /\ UNCHANGED <<now, jobs, tasks, pending, retrying, archive, dropped, crashed>>

\* The rest of record_turn_in_buffer: it keeps the time of its push.
CheckSummarization(r) ==
  LET s == sessions[r.user_id] IN
  /\ recording' = recording \ {r}
  /\ jobs' = IF s # NoSession /\ SummarizationDue(s, r.at, SummarizeThreshold)
               THEN jobs \cup {JobFor(r.user_id, s, r.turn)}
               ELSE jobs
  /\ UNCHANGED <<now, sessions, tasks, pending, retrying, archive, past>>

-----------------------------------------------------------------------------
(* The summarizer task: the model answers, or the request fails.           *)

ValidSummary(size) == size >= MinSummaryTokens /\ size <= MaxSummaryTokens

SummaryArrives(job, size) ==
  LET s == sessions[job.user_id] IN
  /\ jobs' = jobs \ {job}
  /\ sessions' = IF ValidSummary(size) /\ s # NoSession /\ CanInstall(s, job)
                   THEN [sessions EXCEPT ![job.user_id] = Installed(s, job, size)]
                   ELSE sessions
  /\ UNCHANGED <<now, recording, tasks, pending, retrying, archive, past>>

SummaryFails(job) ==
  /\ jobs' = jobs \ {job}
  /\ UNCHANGED <<now, sessions, recording, tasks, pending, retrying, archive, past>>

-----------------------------------------------------------------------------
(* Closing sessions.                                                       *)

\* "/new": close_session under the lock, the flush on a blocking thread.
ResetConversation(u) ==
  /\ u # SharedUser
  /\ ~MatrixTurnRunning
  /\ sessions[u] # NoSession
  /\ Cardinality(tasks) < MaxTasks
  /\ tasks' = tasks \cup {Task({Closed(u, sessions[u])}, FALSE)}
  /\ sessions' = [sessions EXCEPT ![u] = NoSession]
  /\ UNCHANGED <<now, recording, jobs, pending, retrying, archive, past>>

\* Wrong: a session exactly at the timeout is not swept.
SweepTooLate ==
  LET gone == {u \in Users : Expired(u) /\ now - sessions[u].last_activity > SessionTimeout} IN
  /\ Cardinality(tasks) < MaxTasks
  /\ tasks' = tasks \cup {Task({Closed(u, sessions[u]) : u \in gone}, TRUE)}
  /\ sessions' = [u \in Users |-> IF u \in gone THEN NoSession ELSE sessions[u]]
  /\ UNCHANGED <<now, recording, jobs, pending, retrying, archive, past>>

\* Wrong: the sweep's task does not retry the pending queue.
SweepWithoutRetry ==
  LET gone == {u \in Users : Expired(u)} IN
  /\ Cardinality(tasks) < MaxTasks
  /\ gone # {}
  /\ tasks' = tasks \cup {Task({Closed(u, sessions[u]) : u \in gone}, FALSE)}
  /\ sessions' = [u \in Users |-> IF u \in gone THEN NoSession ELSE sessions[u]]
  /\ UNCHANGED <<now, recording, jobs, pending, retrying, archive, past>>

\* One tick of main.rs's sweep: cleanup_expired, then a task that flushes and
\* retries, in the map's order, which is arbitrary.
Sweep ==
  LET gone == {u \in Users : Expired(u)} IN
  /\ Cardinality(tasks) < MaxTasks
  /\ tasks' = tasks \cup {Task({Closed(u, sessions[u]) : u \in gone}, TRUE)}
  /\ sessions' = [u \in Users |-> IF u \in gone THEN NoSession ELSE sessions[u]]
  /\ UNCHANGED <<now, recording, jobs, pending, retrying, archive, past>>

-----------------------------------------------------------------------------
(* The blocking tasks: flush_session for each closed session, retry_pending. *)

SkipEmpty(t, c) ==
  /\ c \in t.todo
  /\ t.failed = <<>>
  /\ NothingToFlush(c.session)
  /\ Becomes(t, [t EXCEPT !.todo = @ \ {c}])
  /\ UNCHANGED <<now, sessions, recording, jobs, pending, retrying, archive, past>>

FlushPersists(t, c) ==
  /\ c \in t.todo
  /\ t.failed = <<>>
  /\ ~NothingToFlush(c.session)
  /\ archive' = Append(archive, EpisodeFrom(c))
  /\ Becomes(t, [t EXCEPT !.todo = @ \ {c}])
  /\ UNCHANGED <<now, sessions, recording, jobs, pending, retrying, past>>

\* Wrong: a failed flush is logged and forgotten.
FlushFailsForgotten(t, c) ==
  /\ c \in t.todo
  /\ t.failed = <<>>
  /\ ~NothingToFlush(c.session)
  /\ Becomes(t, [t EXCEPT !.todo = @ \ {c}])
  /\ UNCHANGED <<now, sessions, recording, jobs, pending, retrying, archive, past>>

FlushFails(t, c) ==
  /\ c \in t.todo
  /\ t.failed = <<>>
  /\ ~NothingToFlush(c.session)
  /\ Becomes(t, [t EXCEPT !.todo = @ \ {c}, !.failed = <<EpisodeFrom(c)>>])
  /\ UNCHANGED <<now, sessions, recording, jobs, pending, retrying, archive, past>>

\* The failed flush takes the queue's mutex, which a retry holds to its end.
QueueFailed(t) ==
  /\ t.failed # <<>>
  /\ ~retrying.active
  /\ pending' = Enqueued(pending, t.failed[1])
  /\ dropped' = dropped \cup DroppedBy(pending)
  /\ Becomes(t, [t EXCEPT !.failed = <<>>])
  /\ UNCHANGED <<now, sessions, recording, jobs, retrying, archive,
                 history, evicted, replaced, crashed>>

BeginRetry(t) ==
  /\ t.retry
  /\ t.todo = {}
  /\ t.failed = <<>>
  /\ ~retrying.active
  /\ tasks' = tasks \ {t}
  /\ retrying' = [active |-> pending # <<>>, still |-> <<>>]
  /\ UNCHANGED <<now, sessions, recording, jobs, pending, archive, past>>

RetryPersists ==
  /\ retrying.active
  /\ pending # <<>>
  /\ archive' = Append(archive, Head(pending))
  /\ pending' = Tail(pending)
  /\ UNCHANGED <<now, sessions, recording, jobs, tasks, retrying, past>>

\* Wrong: what fails again goes to the front.
RetryFailsInFront ==
  /\ retrying.active
  /\ pending # <<>>
  /\ retrying' = [retrying EXCEPT !.still = <<Head(pending)>> \o @]
  /\ pending' = Tail(pending)
  /\ UNCHANGED <<now, sessions, recording, jobs, tasks, archive, past>>

RetryFails ==
  /\ retrying.active
  /\ pending # <<>>
  /\ retrying' = [retrying EXCEPT !.still = Append(@, Head(pending))]
  /\ pending' = Tail(pending)
  /\ UNCHANGED <<now, sessions, recording, jobs, tasks, archive, past>>

EndRetry ==
  /\ retrying.active
  /\ pending = <<>>
  /\ pending' = retrying.still
  /\ retrying' = Idle
  /\ UNCHANGED <<now, sessions, recording, jobs, tasks, archive, past>>

-----------------------------------------------------------------------------
Tick ==
  /\ now < MaxNow
  /\ now' = now + 1
  /\ UNCHANGED <<memory, archive, past>>

EpisodeTurns(eps) == UNION {eps[i].content : i \in 1..Len(eps)}

BufferedTurns == UNION {TurnsOf(u) : u \in Users}
ClosedTurns   == UNION {TurnsIn(c.session) : c \in UNION {t.todo : t \in tasks}}
FailedTurns   == UNION {EpisodeTurns(t.failed) : t \in tasks}
QueuedTurns   == EpisodeTurns(pending) \cup EpisodeTurns(retrying.still)
ArchivedTurns == EpisodeTurns(archive)

\* The process dies and is started again: only the store survives.
Crash ==
  /\ crashed' = crashed \cup BufferedTurns \cup ClosedTurns \cup FailedTurns
                        \cup QueuedTurns
  /\ sessions' = [u \in Users |-> NoSession]
  /\ recording' = {}
  /\ jobs' = {}
  /\ tasks' = {}
  /\ pending' = <<>>
  /\ retrying' = Idle
  /\ UNCHANGED <<now, archive, history, evicted, replaced, dropped>>

TaskStep(t) ==
  \/ \E c \in t.todo : SkipEmpty(t, c) \/ FlushPersists(t, c) \/ FlushFails(t, c)
  \/ QueueFailed(t)
  \/ BeginRetry(t)

RetryStep == RetryPersists \/ RetryFails \/ EndRetry

SummaryStep(job) ==
  \/ \E size \in SummarySizes : SummaryArrives(job, size)
  \/ SummaryFails(job)

Next ==
  \/ \E u \in Users, c \in Contents : RecordTurn(u, c)
  \/ \E r \in recording : CheckSummarization(r)
  \/ \E job \in jobs : SummaryStep(job)
  \/ \E u \in Users : ResetConversation(u)
  \/ Sweep
  \/ \E t \in tasks : TaskStep(t)
  \/ RetryStep
  \/ Tick
  \/ Crash

Spec == Init /\ [][Next]_vars

-----------------------------------------------------------------------------
(* What the memory promises.                                               *)

RecordedTurns == 1..Len(history)

LostTurns == evicted \cup replaced \cup dropped \cup crashed

\* The queue while a retry runs: what failed again, then what was not tried yet.
Queue == retrying.still \o pending

ClosedSessions == UNION {t.todo : t \in tasks}

LiveSessions == {[user_id |-> u, session |-> sessions[u]] : u \in Active}

RecordingType ==
  recording \subseteq [user_id : Users, at : Nat, turn : Nat]

JobType(job) ==
  /\ job \in [user_id : Users, session_id : Nat, turns : Seq(BufferEntry),
             n : Nat, trigger : Nat]
  /\ job.n <= Len(job.turns)

TaskType(t) ==
  t \in [todo : SUBSET [user_id : Users, session : SessionState],
        failed : Seq(Episode), retry : BOOLEAN]

HistoryType ==
  history \in Seq([user_id : Users, session_id : Nat, content : Contents, timestamp : Nat])

\* The type invariant: the state has the shape of the code's structures.
TypeOK ==
  /\ now \in Nat
  /\ sessions \in [Users -> SessionState \cup {NoSession}]
  /\ RecordingType
  /\ \A job \in jobs : JobType(job)
  /\ \A t \in tasks : TaskType(t)
  /\ pending \in Seq(Episode)
  /\ retrying \in [active : BOOLEAN, still : Seq(Episode)]
  /\ archive \in Seq(Episode)
  /\ HistoryType

\* Every turn that was ever pushed is in exactly one place: the buffer, a task
\* that flushes it, the retry queue, the store, or one of the four ways the
\* code loses turns.  Nothing vanishes unaccounted for and nothing is kept twice
\* (buffer.rs push and install_summary, main.rs sweep, engram_flush.rs).
EveryTurnInOnePlace ==
  LET places == <<BufferedTurns, ClosedTurns, FailedTurns, QueuedTurns,
                  ArchivedTurns, evicted, replaced, dropped, crashed>>
  IN  /\ UNION {places[i] : i \in DOMAIN places} = RecordedTurns
      /\ \A i, j \in DOMAIN places : i # j => places[i] \cap places[j] = {}

\* buffer.rs:62 "Always a logical prefix of the conversation (every summarised
\* turn predates every verbatim entry), so summaries never interleave with
\* entries", although jobs finish in any order, after evictions and resets.
SummariesPrecedeTurns ==
  \A c \in LiveSessions \cup ClosedSessions :
    LET s == c.session IN
    /\ \A i, j \in 1..Len(s.entries) : i < j => s.entries[i].id < s.entries[j].id
    /\ \A id \in SummarizedIds(s), i \in 1..Len(s.entries) : id < s.entries[i].id
    /\ \A j, k \in 1..Len(s.summaries) : j < k =>
         \A a \in 1..Len(s.summaries[j].ids), b \in 1..Len(s.summaries[k].ids) :
           s.summaries[j].ids[a] < s.summaries[k].ids[b]

\* buffer.rs:289 "This identity fence guarantees the summary text always matches
\* the turns it replaces", whatever was evicted or installed since the snapshot.
SummariesTellTheirTurns ==
  \A c \in LiveSessions \cup ClosedSessions :
    \A j \in 1..Len(c.session.summaries) :
      LET b == c.session.summaries[j] IN
      /\ Len(b.ids) = b.turns_covered
      /\ \A i \in 1..Len(b.ids) :
           /\ b.source[i].content = history[b.ids[i]].content
           /\ b.source[i].timestamp = history[b.ids[i]].timestamp

\* After every push the verbatim turns respect both limits, the newest turn
\* excepted, and total_tokens, which saturating_sub would let drift silently,
\* is the exact sum of the entries (buffer.rs:181, 208-216, 307).
BufferWithinLimits ==
  \A u \in Active :
    LET s == sessions[u] IN
    /\ Len(s.entries) <= MaxTurns
    /\ s.total_tokens = TokensTo(s.entries, Len(s.entries))
    /\ s.total_tokens <= MaxTokens \/ Len(s.entries) = 1

\* Whatever the order of pushes, expiries, resets and late summaries, a session
\* holds turns of its own user and of its own lifetime only.
SessionsNeverMix ==
  \A c \in LiveSessions \cup ClosedSessions :
    \A id \in TurnsIn(c.session) :
      /\ history[id].user_id = c.user_id
      /\ history[id].session_id = c.session.session_id

\* A session never spans a silence of SessionTimeout or more: the check of push
\* closes it even when the sweep is late (buffer.rs:192-200).
NoSilenceInsideASession ==
  \A i, j \in RecordedTurns :
    /\ i < j
    /\ history[i].session_id = history[j].session_id
    => \E k \in i..(j - 1) :
         /\ history[k].session_id = history[j].session_id
         /\ history[j].timestamp - history[k].timestamp < SessionTimeout
         /\ \A m \in (k + 1)..(j - 1) : history[m].session_id # history[j].session_id

\* engram_flush.rs:54 "turn_count includes turns already compressed into
\* summaries": every turn of the session but those the eviction loop dropped.
EpisodesCountTheirTurns ==
  LET eps == Queue \o archive IN
  \A i \in 1..Len(eps) :
    LET mine == {id \in RecordedTurns : history[id].session_id = eps[i].session_id}
    IN  eps[i].turn_count = Cardinality(mine \ evicted)

\* The retry queue stays within MAX_PENDING_FLUSHES, a retry in progress
\* included (engram_flush.rs:137-162).
QueueBounded == Len(Queue) <= MaxPendingFlushes

Before(q, a, b) ==
  \E i, j \in 1..Len(q) : i < j /\ q[i].session_id = a /\ q[j].session_id = b

\* engram_flush.rs:150 "Episodes that fail again are retained (re-queued) in
\* their original order": no step ever swaps two queued episodes.
QueueOrderKept ==
  [][\A a, b \in 1..Len(history) : Before(Queue, a, b) => ~Before(Queue', b, a)]_vars
-----------------------------------------------------------------------------
(* Refinement: the memory implements TurnLedger.                           *)

WhereIs(i) ==
  CASE i \in BufferedTurns -> "live"
    [] i \in ArchivedTurns -> "archived"
    [] i \in LostTurns     -> "lost"
    [] OTHER               -> "closed"

Ledger == INSTANCE TurnLedger WITH
            where   <- [i \in RecordedTurns |-> WhereIs(i)],
            session <- [i \in RecordedTurns |-> history[i].session_id]

\* A session closes whole, is archived whole and at most once, and what is
\* archived or lost stays so: every step of the memory is a step of the ledger.
ImplementsLedger == Ledger!Spec

-----------------------------------------------------------------------------
(* Liveness.                                                               *)
(* Tasks are scheduled, the model's answer or its 60 s timeout comes, the  *)
(* sweep's interval ticks for ever (strong where MaxTasks can disable it), *)
(* a mutex released again and again is acquired in the end, and a store    *)
(* tried again and again accepts an episode in the end.                    *)

FlushStep(sid) ==
  \E t \in tasks : \E c \in t.todo :
    /\ c.session.session_id = sid
    /\ SkipEmpty(t, c) \/ FlushPersists(t, c) \/ FlushFails(t, c)

QueueStep(sid) ==
  \E t \in tasks : /\ QueueFailed(t)
                   /\ t.failed[1].session_id = sid

Fairness ==
  /\ WF_vars(\E r \in recording : CheckSummarization(r))
  /\ WF_vars(\E job \in jobs : SummaryStep(job))
  /\ SF_vars(Sweep)
  /\ \A sid \in 1..MaxHistory : SF_vars(FlushStep(sid)) /\ SF_vars(QueueStep(sid))
  /\ SF_vars(\E t \in tasks : BeginRetry(t))
  /\ WF_vars(RetryStep)
  /\ SF_vars(RetryPersists)

FairSpec == Spec /\ Fairness

\* An expired session leaves the buffer although nobody speaks to it again
\* (main.rs:236 "a periodic sweep that closes inactive sessions").
ExpiredSessionsAreClosed ==
  \A sid \in 1..MaxHistory :
    (\E u \in Active : Expired(u) /\ sessions[u].session_id = sid)
      ~> (\A u \in Active : sessions[u].session_id # sid)

\* engram_flush.rs:11 "Persistence failures are retained in a bounded retry
\* queue and re-attempted on the next cleanup cycle": a turn of a closed session
\* does not stay in a task or in the queue for ever.
ClosedTurnsSettle ==
  \A i \in 1..MaxHistory :
    (i \in ClosedTurns) ~> (i \in ArchivedTurns \cup dropped \cup crashed)

-----------------------------------------------------------------------------
(* What the comments and docs say and the code does not do.                *)

\* buffer.rs:192 "Expired session -> start fresh (drops stale turns; CONV-04
\* flushes them)": the turns push drops are flushed.
StaleTurnsAreFlushed == replaced = {}

\* docs/architecture.md:73 "When the working-memory token budget is exceeded,
\* older turns are summarized rather than dropped": a session of at most
\* MaxTurns turns, which only the token budget can evict from, loses none.
TokenBudgetLosesNoTurn ==
  \A id \in evicted :
    Cardinality({i \in RecordedTurns : history[i].session_id = history[id].session_id})
      > MaxTurns
=============================================================================
