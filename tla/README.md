# Formal models of lumina-core

TLA+ modules, TLC configurations and TLAPS proofs for the Rust crate
`src/crates/lumina-core` (paths below are relative to its `src/` unless they
start with `src/`). The modules model the parts of the assistant whose
correctness depends on the order in which turns, background tasks, timers,
processes and failures meet; text handling, I/O and cryptography are abstracted
or left out.

- [Inventory](#inventory)
- [Modules](#modules)
- [Runs](#runs)
- [Bounds](#bounds), [fairness](#fairness), [deadlock](#deadlock)
- [Proofs](#proofs)
- [What the code does otherwise than it says](#what-the-code-does-otherwise-than-it-says)
- [Not modelled](#not-modelled)
- [Plan](#plan)

To reproduce: `tlc -config <cfg> <MC module>` for each pair of the table of
runs, `tlapm <module>` for each of the eight `*Proofs.tla` modules.

## Inventory

The process is one tokio runtime (`main.rs`). Front ends hand a message to
`agent_loop.rs`, whose *turn* classifies it, builds a prompt from several
memories, asks the external Chord proxy (an agentic endpoint first, then the
local tool loop or a plain chat), and leaves background work behind. Timers run
a sweep of idle conversations and a routine scheduler. The command line tools
(`train_cli.rs`, `users/cli.rs`, ...) are other processes on the same SQLite
files.

| Component | State | Operations | Meets | Hard behaviour | Correct when |
|---|---|---|---|---|---|
| Conversation memory (`conversation/*`) | map user -> session (entries, summaries, token count); bounded retry queue; both in memory | push, summarization check, install summary, reset, sweep, flush, retry | turns, the summarizer's task, the sweep timer, the Engram | late, stale and duplicate summaries; expiry found by push or by sweep; flush failure; crash | no turn twice or unaccounted for; order kept; budgets kept; idle sessions reach the store |
| Skill documents (`skills/*`) | tables `skills`, `skill_versions` | insert, refine, edit, rollback, count success, delete | turns' deferred refinement, `train skills` in another process | reads before a transaction that go stale | a version history that tells the truth and loses nothing |
| News limiter (`feeds/news.rs`) | two atomics | `try_acquire` | spawned fetches of the aggregator | day change seen by several calls at once; wrap below zero | one reset a day; exact count |
| Chat turn (`agent_loop.rs`, `router.rs`) | failure counter, event bus, per-turn locals | agentic call, tool loop, chat, approvals, events | everything | concurrent turns and a shared counter | circuit opens after a streak only |
| Agentic stream (`chord.rs`) | bytes and steps of one turn | push_chunk, handle_frame, finish | Chord's event stream, the bot's interim reply | frames cut anywhere; calls of 0 ms; a stream that breaks | the log tells each call's own outcome |
| Model router (`router.rs`, `chord_lifecycle.rs`) | the model loaded on the GPU (in Chord) | route, swap, call, escalate, restore | overlapping turns, calls around the router | failed and late swaps, dropped requests | the fast model comes back |
| Routine scheduler (`scheduler/*`) | routines' `next_run`, debouncer, executor mutex, broadcast channel | cron scan, event reaction | turns' events, the clock | a long routine holds up both loops; channel overrun | one routine at a time; due routines and outages handled; no occurrence twice |
| Matrix bot (`matrix_bot.rs`) | seen set, processing lock, sync token | on_message, dedup, approval, acknowledgement, chunks, reconnect | homeserver, turns, Chord's approvals | lost and repeated syncs, restarts, failed sends | whole replies, far-apart repeats, one tool run per approval |
| Users, roles (`users/*`) | `users.db` | add, set_role, set_enabled, delete, link, grant | CLI processes, bot commands | check, then act, without a transaction | never without an admin; no orphan channel; grants kept |
| Vault (`vault/*`, the key of `users/mod.rs`) | one encrypted file | load, set, remove, save | server tasks and CLI processes | one temporary file for all | never torn; the database key stays |
| Engram (`engram/*`) | memories, full-text index | ingest, supersede, delete, reflect, merge | ingestion tasks, CLI | two statements without a transaction; reused rowids | index and rows agree; no fact superseded into nothing |
| Migration (`engram/migration.rs`) | table `facts` of version 1 | copy in batches, rename | every opening of the store | interrupted and overlapping openings; index created after the copy | every fact once, and searchable |
| Reflexa queue (`prompt/retrieval_reflexa.rs`) | action queue file | queue_action, process_queue | turns, nightly run | load, long work, save whole | no action lost |
| Sleep-time work (`prompt/sleep_time.rs`) | busy guard, deep model | nightly, weekly, immediate runs in steps | user turns, other runs, Chord | deep model released while in use | rebuilt with the model; every run ends |
| Session manager (`conversation.rs`) | sessions, cached Engram key | resolve | turns | none: the program passes no manager, each legacy turn resolves a session of its own | |
| Cost caps (`users/cost_caps.rs`) | token counts per day | check_budget, record_turn | turns | none: no caller names a role | |
| Personality, prompt assembly | traits, layers | tune, render | nightly run | the tuner is made anew each night | |
| Tools, security services, vigil, connectors, skill hub, sentinel, onboarding | caches, limits, files | | | code that the program does not start, or text and I/O | |
| Chord, Terminus (external), diffusion daemon (C++) | | | | answers that fail or never come | seen here as nondeterministic answers |

`PROJECT.json` lists every component with its files and its status, and every
hazard found so far at its line.

## Modules

| Module | Models | Notes |
|---|---|---|
| `Arithmetic` | `saturating_sub`, sums | recursive function, so that it can be proved about |
| `ConversationBuffer` | `conversation/buffer.rs` as operators on a session | push with its eviction loop, summary fence and installation, expiry |
| `EngramFlush` | `conversation/engram_flush.rs` as operators | the episode made of a session, the bounded queue |
| `ConversationMemory` | both with the turn's recording, the summarizer task, reset, sweep, blocking flush tasks, retry, crash | the state machine |
| `TurnLedger` | what the memory promises of a turn | abstract specification; `ConversationMemory` refines it |
| `SkillVersions` | `skills/*` and the operations of turns and CLI on it | one step per statement or transaction |
| `DailyRateLimiter` | `RateLimiter` of `feeds/news.rs` | one step per atomic operation; the counter wraps |
| `EventBus` | `scheduler/events.rs`, the broadcast channel | newest `Capacity` events, a lag flag |
| `CircuitBreaker` | the failure counter in `agent_loop.rs` | one step per atomic operation or emitted event |
| `RoutineScheduler` | `scheduler/mod.rs`, `start_with_events` | cron loop and event loop, executor mutex, debouncer |
| `EventRoutines` | the three together with the clock | the composition checked and proved |
| `VaultFile` | `vault/mod.rs`, `get_or_create_users_key` | one step per file operation; inodes, crashes |
| `UserAccounts` | `users/mod.rs`, `cli.rs`, `identity.rs` | one step per statement |
| `ToolGrants` | `users grant-tool`, `/admin grant` | read, then write whole |
| `ModelRouting` | `router.rs`, `chord_lifecycle.rs` | turns at one GPU |
| `SleepTime` | `prompt/sleep_time.rs`, queue of `prompt/retrieval_reflexa.rs` | runs in steps, one guard, one deep model |
| `MatrixDelivery` | `matrix_bot.rs`, `try_handle_approval` | syncs, handlers, lock, restarts |
| `EngramStore` | `engram/ingest.rs`, `mod.rs`, `secure_delete.rs`, `reflexa/*` | rows and index, one step per statement |
| `EngramMigration` | `engram/migration.rs`, `ensure_schema` | openings of a version-1 store |
| `AgenticStream` | `AgenticSseState`, `agentic_execute` of `chord.rs` | a stream of events cut into chunks |
| `MCSharedState` | eleven of these, one in focus at a time | see [runs](#runs) |
| `MCBackground` | what must come to an end: event routines, consolidation, Matrix handlers | the same form, with fairness |
| `MC*` | values for TLC | contents' token counts, schedules, symmetry sets |
| `*Proofs` | theorems | see [Proofs](#proofs) |

### Conversation memory

`sessions` is the map behind the `RwLock`, one record per user (`entries`,
`summaries`, `total_tokens`, `last_activity`, `session_id`). A turn is its
number, a content is a model value with a token count (`TokensIn`), and a
summary keeps the ids of the turns it replaced, which the code does not keep and
only the properties read. A lock section is one step:

- `RecordTurn` is `push` under the write lock, with the fresh session of an
  expired one and the whole eviction loop; `CheckSummarization` is the second
  lock section of `record_turn_in_buffer`, which other turns may precede.
- `SummaryArrives` and `SummaryFails` are the spawned task after the model's
  answer: validation, then the identity fence and the installation.
- `ResetConversation` and `Sweep` take sessions out of the map and leave a
  blocking task; `FlushPersists`, `FlushFails`, `QueueFailed`, `BeginRetry`,
  `RetryPersists`, `RetryFails`, `EndRetry` are that task, with the retry
  queue's mutex (`retrying.active`) held during a retry and not between a failed
  flush and its enqueue.
- `Crash` empties what is in memory only.

Matrix turns hold the bot's processing lock, so two of them never record at
once (`MatrixTurnRunning`); turns of the shared user come from HTTP and are not
serialised.

The history variables `history`, `evicted`, `replaced`, `dropped` and `crashed`
record each recorded turn and the four ways the code loses one.

### Skill documents

`skills` and `versions` are the two tables, `op[o]` is what an operation has read
and does next. `update_skill` reads (`ReadCurrent`) and then saves in a
transaction (`SaveVersionAndUpdate`); a rollback reads twice (`StartRollback`,
`ReadBeforeRollback`) and then saves (`RestoreTarget`). A refinement waits for
the model between its read and its update. `ForeignKeys` says whether the SQLite
build enforces `REFERENCES`: the bundled libsqlite3-sys compiles
`SQLITE_DEFAULT_FOREIGN_KEYS=1`, so the runs take `TRUE`, and the theorems hold
for both values. `lived` and `outpaced` are history.

### News limiter

`call[c]` is where a call of `try_acquire` is; `Load`, `Swap`, `Store`, `Add` and
`Sub` are the atomic operations, in the code's order, and a call keeps the day it
read at entry. `Modulus` stands for 2^64: `fetch_sub` below zero wraps. A
briefing has one aggregator, which spawns the fetches, so several calls run at
once on different workers. `disturbed` records that a call counted across a
reset: between the move of the day and the store of 0, or with an increment to
take back.

### Event routines

`failures` is `CHORD_FAILURE_COUNT`. A turn goes `idle -> agentic`, on an error
to `route` (the legacy path), then to the tool loop or to a chat. `ChordFails` is
`fetch_add` with its comparison, `OpenCircuit` the event, `ResetCount` the store
of 0: three steps that other turns come between. The tool loop and the chat
store 0 on success (`Answered`); the agentic branch does not. `streak` counts
failures since the last answer that resets the counter.

The scheduler's loops each own their routines and share the mutex `executor`.
Between two awaits a loop is one step: `CronWakes` and `CronRan` end with the scan
for the next due routine, `Receives` and `ListenerRan` with the search for the
next routine that reacts to the event and is not debounced. Schedules are sets of
times, `NextAfter` is `CronExpr::next_after` (`Never` stands for its fallback of
a year). `main.rs` keeps the scheduler's handle for the life of the process and
calls neither `stop` nor `abort`, so they are left out.

### Vault

A process loads `vault.enc`, changes its copy (`Change`, or `LookUpKey` and
`InsertKey` for the database key), and saves: `OpenTemp` and `WriteTemp` are
`fs::write` to `vault.enc.tmp`, `RenameTemp` the rename. Files are inodes, so a
process goes on writing the file it opened after another one has renamed it; a
write over a longer text leaves the tail, which decryption refuses (`Torn`).
`VaultCrash` and `SaveFails` come anywhere. The history variables `overlapped`,
`stale` and `raced` say whether two saves shared the temporary file or one went
over another's change, which nothing in the code prevents.

### Users and grants

`command[c]` is a CLI process between two statements: a guard that counted the
admins (`CheckAdmins`), a count of users (`CountUsers`), a user or a channel that
was found; then its write. A command that another one's write has overtaken is
`outdated`. Deletion takes two statements (`DeleteChannels`, `DeleteUser`).
`ToolGrants` is the same of one setting, which a grant reads, extends and writes
whole.

### Model routing

`request[r].at` is where `process_with_messages` of a turn is: swap, first call,
answer, second swap, deep call, restore. Chord may load the model an asked swap
or a call names, may not, or may do so after its client has gone (`late`). The
agentic path and the tool loop call the routed model without the router
(`UnwrappedCall`). `stranded` marks a deep model left by a dropped turn, a failed
restore or such a call.

### Sleep-time consolidation

`run[r]` walks through the steps of `run_nightly`, `run_weekly` or `run_immediate`
for each user. `lease` is the guard's busy flag, `resident` the deep model that
`EnsureModel` loads outside the guard and `Rebuild` releases for everybody.
`process_queue` (`LoadQueue`, `SaveQueue`, `QueueSaved`) and `queue_action` in a turn
(`LoadToQueue`, `SaveToQueue`, `ActionQueued`) work on copies of the same file.
`saves[s]` is the copy a saver has taken and how far its save is: `save_queue` is
`std::fs::write`, so `EmptyFile` truncates the file, which `load_queue` then reads
as an empty queue, and `FillFile` writes the text, a part of it (`unreadable`: what
no longer parses) or nothing. `ProcessKilled` ends all runs and turns wherever they
are, between these two steps as well. History: `owed` are actions queued and not
resolved, `overtaken` the savers whose copy is stale, `spoiled` the users whose last
save was made from a stale copy or did not come to its end.

### Matrix bot

`timeline` is the room, `position` the sync token, `handler` the tasks of
`on_message` that passed the checks and the seen set, in order. `Deliver` is a
sync with its events, `Redeliver` an event the homeserver delivers again,
`SyncLost` and `BotStops` what ends a sync or the process. A handler waits for
`processing_lock` (`Lock`), settles an approval (`Deny`, `Grant`, `Dispatch`) or
runs a turn (`BeginTurn`, `Ack`, `EndTurn`), and sends its chunks one await at a
time (`Send`); a failed send ends it. `said` is the last thing the bot said.

### Long-term memory

A task is an ingestion (`Compare`, `SupersedeRow`, `InsertMemory`, `InsertText`),
a deletion (`FindMemory`, `DeleteText`, `Overwrite`, `DeleteRow`) or a reflection
(`LoadLive`, `SupersedeStale`, `FindPair`, `Merge`): one step per statement,
except the merge, which is a transaction. `memory[i]` keeps its rowid, the facts
its text tells and the memory that supersedes it; SQLite gives a free rowid
again (`NextRow`). Which memories are similar or contradict each other is
nondeterministic. The code ignores two errors, and so do the steps: the deletion of
a text from the index, in `DeleteText` and in `Merge`, may fail while the row is
deleted all the same (`TextDeleted`, `leftover`), and a merge that cannot read the
older memory's text skips the append and deletes its row (`RowMerged`, `unmerged`).

`EngramMigration` is `migrate_v1_to_v2` and the rest of `ensure_schema`, by
several openings: look for `facts`, count, guard, batches, rename, index. `rows`
is `memories_v2` by rowid. The look and both counts take an error for 0, as the code
does: `LookForFacts` may find no table, `CountFacts` no facts (and go on to the
rename), `CountMemories` a filled table empty. `ReadBatch` leaves out any of the rows
of `Unreadable`, and a batch made short by them ends the loop. The full-text insert
of a row may fail unnoticed (`SyncFact`). Facts are inserted in the order of their
ids. History: `unread` are the facts that could not be read; `cut` says that facts
were left behind (a copying that stopped or lost `facts` before its end, a short batch
that was not the last one, a failed look or count); `recopied`, that facts were
copied into a table that had rows, or by two openings at once.

### Agentic stream

`Emit` is Chord (external): events in an order its agent can produce, each a frame
on the `wire` of one or two data lines. `PushChunk` delivers any prefix of the
bytes, so that a chunk ends inside an event, inside the delimiter or after
several frames; `HandleFrame` takes the first complete frame out of the buffer
and folds its event into the log (`FoldEvent`). `EndOfStream` and `StreamBreaks`
end the turn, in the legacy loop if there is no answer or the stream broke.

### Composition in the runs

The components of `MCSharedState` share no variable. A behaviour has one of them
in `focus`, which alone takes steps, so that the run explores the sum of their
state spaces and the properties of each keep the meaning they have alone. That
they do is proved: `SharedStateProofs!SharedImplementsAll`.
`MCBackground` does so for the liveness of three components, with the fairness of
the one in focus. Components that do interact are composed for real:
`ConversationMemory` of buffer, summarizer, flush and retry queue;
`EventRoutines` of breaker, bus and scheduler; `MatrixDelivery` of bot and
approvals; `SleepTime` of runs and queue.

## Runs

| Run | Config | Shows |
|---|---|---|
| `buffer_window` | `MCBufferWindow` | Two concurrent turns of the shared user with up to two summarizer jobs: summaries precede and tell their turns, both budgets are kept, `total_tokens` never drifts, no session spans a silence. |
| `session_flush` | `MCSessionFlush` | Two users, resets, sweeps, two blocking tasks, failing flushes, a queue of two, crashes: every turn is in exactly one place, sessions never mix, episodes count their turns, the queue keeps its order, and the memory implements `TurnLedger`. |
| `memory_liveness` | `MCMemoryLiveness` | Expired sessions leave the buffer, closed turns leave tasks and queue. |
| `shared_state` | `MCSharedState` | Eleven components, one in focus at a time. Limiter: exact count unless disturbed. Vault: never torn, the database key kept, unless saves overlap or overtake. Users: an admin remains, no orphan channel, grants kept, but for overtaken commands. Router: the fast model comes back. Consolidation: layers rebuilt with the model, queued actions kept. Matrix: repeats far apart, whole replies, one tool run per approval. Memory: the index tells its rows, facts are settled, the migration keeps them. Skills: a genuine history, losses only to stale commits, no orphan versions. Agentic stream: the log tells each call's outcome. |
| `background` | `MCBackground` | Event routines: threshold, exclusion, occurrences once, due routines run, outages handled. Consolidation runs end. Matrix handlers end. |
| `stale_turns` | `MCStaleTurns` | violation, see [below](#what-the-code-does-otherwise-than-it-says) |
| `token_budget` | `MCTokenBudget` | violation |
| `skill_lost_update` | `MCSkillLostUpdate` | violation |
| `skill_rollback` | `MCSkillRollback` | violation |
| `limiter_refuses` | `MCLimiterRefuses` | violation |
| `breaker_agentic` | `MCBreakerAgentic` | violation |
| `migrated_search` | `MCMigratedSearch` | violation |

Definitions whose name extends that of an action or operator of the code (for
instance `FlushFailsForgotten` beside `FlushFails`) and whose comment starts with
*Wrong:* are plausible mistakes in that code. They are in no specification; each
property is known to fail when one of them takes the place of the right
definition.

Several properties make an exception for a race that the code does not exclude
(`~overlapped`, `~raced`, `~lateRole`, `lateLinks`, `~lateGrant`, `stranded`,
`evicted`, `strayed`, `crossed`, `outpaced`, `disturbed`), or for an error that the
code ignores or that leaves a file half written (`spoiled`, `leftover`, `unmerged`,
`unread`, `cut`, `recopied`). The exception is a history variable that is set by
exactly that race or error, so the property says both what holds otherwise and what
alone breaks it. In particular:

- `QueuedActionsAreKept`: a queue file tells the actions queued and not resolved
  through loads, deferrals, saves that cannot open the file and kills outside a save;
  a save from a stale copy, and a save that fails or is killed after the truncation,
  lose actions until the next save that goes well (`spoiled`).
- `IndexTellsItsMemory`: what the search finds under a rowid is told by that row,
  although rowids are reused; texts whose deletion failed (`leftover`) or that were
  indexed or merged while their row was deleted (`strayed`) are the only exceptions.
- `MigrationKeepsFacts`: `memories_v2` holds the facts copied so far once and in order
  unless they were copied again (`recopied`), and all that could be read once `facts`
  is renamed, unless they were cut off (`cut`).

These say that nothing else breaks the promise; they do not say that the excepted
races and errors are excluded, which they are not.

### Bounds

- `buffer_window`: five turns with a window of three, a token budget of four,
  two sizes of contents and a threshold of two: sessions evict by count and by
  tokens, are summarised twice, and expire. Two turns or jobs in flight are
  enough for a job to be overtaken by a push, an eviction, another job and a
  fresh session.
- `session_flush`: three turns of two users, two blocking tasks, a queue of two.
  Two tasks are enough for a flush, a retry and an enqueue to meet; queue overflow
  needs three closed sessions, which three turns give.
- `memory_liveness`: one user and a queue of one; starvation needs one session
  and one failing episode, and the strong fairness is per session.
- `shared_state`:
  - limiter: three calls, because the store, an add and a sub must be
    interleaved; two midnights, because the day of a slow call must be two
    behind; `Modulus = 8` is larger than `Limit` plus the calls, as 2^64 is;
  - vault: two processes, four inodes (vault, temporary file, and one that each
    still has open), two generated values, so that a key and another secret race;
  - users and grants: two commands and two users, one of them the last admin;
    two tools, so that one grant can lose the other's;
  - router: three turns, since a restore of one can come between the swap and
    the call of another while a third still owes; two late loads;
  - consolidation: two runs over one user, one contradiction (which can be
    deferred) and one other action, a turn that queues between them; saves of the
    three meet at the one file;
  - Matrix: a seen set of two trimmed to one, three messages, one repeat, one
    stop or lost sync, replies of two chunks;
  - memory: two tasks and two memories, which supersede, merge and reuse rowids;
  - migration: four facts with a gap in batches of two, so that there are two full
    batches, one unreadable fact in each, which makes the batch a short one; two
    openings, one newer memory; a filled table is counted as empty once
    (`MayMiscount`). The constraint `MigrationIsClaimed` ends the exploration at
    states with `cut` and `recopied` both set: they stay set, and
    `MigrationKeepsFacts` says nothing of such a state or of any after it. No other
    run has a constraint;
  - skills: one skill, two operations, three rows (a save after a rollback after
    a save); the deletion race is on that skill;
  - stream: four events, two tools, two calls, five bytes on the wire: two calls
    of a tool, the first of 0 ms, and a chunk that ends anywhere in a frame.
- `background`: a threshold of two with two turns, each of which can fail
  twice: counts, events and resets of both interleave. The channel has one place,
  so that it overruns; two ticks and a window of two debounce; two schedules
  with a common time make one routine wait for the other. Two consolidation runs
  over two users, two messages, a repeat and a stop.
- `skill_lost_update`, `skill_rollback`, `limiter_refuses`, `migrated_search`:
  the least that shows the disagreement.
- Clocks (`MaxNow`, `MaxDay`), histories (`MaxHistory`, `MaxTurns` of
  `CircuitBreaker`, `MaxUses`, `MaxEvents`, `MaxStops`, `MaxSent`, `MaxWrites`,
  `MaxLate`) and tables (`MaxSkills`, `MaxRows`, `MaxMemories`, `MaxNew`) end the
  runs and stand for nothing in the code. At the last tick of `EventRoutines`
  every sleep of the cron loop ends at once, so that the bounded clock does not
  keep the loop asleep for ever.

### Fairness

`ConversationMemory`: tokio schedules the spawned tasks and the blocking pool
its closures (weak fairness); the sweep's interval ticks for ever and a mutex
that is released again and again is acquired in the end (strong fairness where
another action can disable the step); a store tried again and again accepts an
episode in the end (strong fairness of `RetryPersists`): without that the code
promises nothing, it retries for ever.

`EventRoutines`: loops and turns that can run do (weak), tokio's mutex is first
come first served (strong fairness of the two lock steps), time passes. The
callback of `main.rs` returns, so a routine that runs ends. Nothing obliges a
user to speak or Chord to answer.

`SleepTime`: the runtime goes on with each run that can go on (weak, per run).
The guard is polled; weak fairness is enough as two runs each hold it a bounded
number of times. Nothing obliges a run to start.

`MatrixDelivery`: the service manager restarts the process, the loop connects and
syncs again after its wait, a sync delivers what the room has, and the runtime
goes on with the handlers (weak). A turn is taken to end, with an answer or an
error: the clients of Chord have timeouts.

`MCBackground` states the same conditions, each with its component in focus. The
other specifications have no liveness property: callers come when they want.

### Deadlock

Deadlock is checked in the runs of conversation memory, skills and the limiter by
themselves. It is not in `background` and `breaker_agentic`, whose last tick, with
no turn left to start and nothing to read, ends in a cron loop that only wakes and
sleeps again, a state without change; nor in `shared_state`, whose consolidation
runs, memories, generated values and messages come to an end; nor in
`migrated_search`, for the same reason. That nothing waits for ever there is what
`RunsFinish`, `HandlersFinish` and `DueRoutinesRun` say.

## Proofs

TLAPS proves, for every value of the constants that satisfies the modules'
assumptions:

| Theorem | Statement |
|---|---|
| `ConversationMemoryProofs!TypeCorrect` | `Spec => []TypeOK` |
| `ConversationMemoryProofs!BufferStaysWithinLimits` | `Spec => []BufferWithinLimits` |
| `ConversationMemoryProofs!QueueStaysBounded` | `Spec => []QueueBounded` |
| `ConversationMemoryProofs!TurnsAreInOnePlace` | `Spec => []EveryTurnInOnePlace` |
| `ConversationMemoryProofs!SessionsStayApart` | `Spec => []SessionsNeverMix` |
| `ConversationMemoryProofs!SummariesComeFirst` | `Spec => []SummariesPrecedeTurns` |
| `ConversationMemoryProofs!SummariesAreTrue` | `Spec => []SummariesTellTheirTurns` |
| `ConversationMemoryProofs!EpisodesCountTurns` | `Spec => []EpisodesCountTheirTurns` |
| `ConversationMemoryProofs!SessionsHaveNoSilence` | `Spec => []NoSilenceInsideASession` |
| `ConversationMemoryProofs!QueueKeepsItsOrder` | `Spec => QueueOrderKept` |
| `ConversationMemoryProofs!MemoryImplementsLedger` | `Spec => ImplementsLedger` |
| `StoresProofs!SkillsTypeCorrect` | `SkillsSpec => []SkillsTypeOK` |
| `StoresProofs!HistoryAlwaysGenuine` | `SkillsSpec => []HistoryIsGenuine` |
| `StoresProofs!OnlyRacesLoseVersions` | `SkillsSpec => []LostOnlyByARace` |
| `StoresProofs!NoVersionOrphaned` | `SkillsSpec => []NoOrphanVersions` |
| `DailyRateLimiterProofs!LimiterTypeCorrect` | `Spec => []TypeOK` |
| `DailyRateLimiterProofs!OneResetPerDay` | `Spec => []ResetOncePerDay` |
| `DailyRateLimiterProofs!CountStaysExact` | `Spec => []CountIsExact` |
| `EventRoutinesProofs!EventTypesCorrect` | `Spec => []TypeOK` |
| `EventRoutinesProofs!RoutinesExclude` | `Spec => []OneRoutineAtATime` |
| `EventRoutinesProofs!OccurrencesAreRunOnce` | `Spec => []OccurrencesRunOnce` |
| `EventRoutinesProofs!ThresholdIsReached` | `Spec => OpensAfterThreshold` |
| `StoresProofs!VaultTypeCorrect` | `VaultSpec => []VaultTypeOK` |
| `StoresProofs!VaultAlwaysWhole` | `VaultSpec => []VaultIsWhole` |
| `StoresProofs!DatabaseKeyAlwaysKept` | `VaultSpec => []DatabaseKeyKept` |
| `StoresProofs!EngramTypeCorrect` | `EngramSpec => []EngramTypeOK` |
| `StoresProofs!IndexedTextsAreTold` | `EngramSpec => []IndexTellsItsMemory` |
| `StoresProofs!ChainsOfMemoriesEnd` | `EngramSpec => []FactsAreSettled` |
| `StoresProofs!MigrationTypeCorrect` | `MigrationSpec => []MigrationTypeOK` |
| `StoresProofs!FactsAreKept` | `MigrationSpec => []MigrationKeepsFacts` |
| `AccessProofs!UsersTypeCorrect` | `UsersSpec => []UsersTypeOK` |
| `AccessProofs!GrantsTypeCorrect` | `GrantsSpec => []GrantsTypeOK` |
| `AccessProofs!NoChannelOrphaned` | `UsersSpec => []NoOrphanChannels` |
| `AccessProofs!AnAdminAlwaysRemains` | `UsersSpec => []AnAdminRemains` |
| `AccessProofs!GrantsAlwaysKept` | `GrantsSpec => GrantsAreKept` |
| `AccessProofs!MatrixTypeCorrect` | `MatrixSpec => []MatrixTypeOK` |
| `AccessProofs!RepeatedRepliesAreFarApart` | `MatrixSpec => []RepeatsAreFarApart` |
| `AccessProofs!ApprovedToolRunsOnce` | `MatrixSpec => []ToolRunsOncePerApproval` |
| `AccessProofs!RepliesStayWhole` | `MatrixSpec => RepliesAreWhole` |
| `ChordProofs!RoutingTypeCorrect` | `RoutingSpec => []RoutingTypeOK` |
| `ChordProofs!FastModelAlwaysReturns` | `RoutingSpec => []FastModelReturns` |
| `ChordProofs!SleepTypeCorrect` | `SleepSpec => []SleepTypeOK` |
| `ChordProofs!LayersAreRebuiltWithTheModel` | `SleepSpec => []RebuildsWithTheModel` |
| `ChordProofs!ActionsStayQueued` | `SleepSpec => []QueuedActionsAreKept` |
| `ChordProofs!AgenticTypeCorrect` | `AgenticSpec => []AgenticTypeOK` |
| `ChordProofs!StreamIsReadAsSent` | `AgenticSpec => []LogTellsTheCalls` |
| `SharedStateProofs!SharedImplementsAll` | `SharedSpec` implies the specification of each of its eleven components |
| `SharedStateProofs!SharedTypesCorrect` | `SharedSpec => []SharedTypesOK` |
| `SharedStateProofs!SharedStateIsSafe` | `SharedSpec` implies every other property that `shared_state` checks |

**Conversation memory.** `BufferWithinLimits` is inductive with `TypeOK`, since
only `RecordTurn` and `SummaryArrives` change a session that stays: `PushedFacts`
shows that the eviction loop stops within both limits or at one entry, with
`total_tokens` exact, and `InstalledFacts` that removing a prefix of the entries
subtracts exactly its tokens, so `saturating_sub` never saturates. Both rest on
`EvictionCountFacts` (the least number of entries whose removal satisfies the
limits exists) and on the lemmas of `ArithmeticProofs` about sums: extension,
shift, agreement. As the provers cannot instantiate the library's induction
rules, `ArithmeticProofs` states induction on sets of naturals and derives it
from the well-foundedness of `<`. `QueueBounded` counts what a retry has set
aside; `QueueInv` adds that nothing is set aside between retries, so that the
room an enqueue sees is the room there is.

*Turns and sessions.* What the other properties say of a session follows from one
invariant, `MemoryInv`, and none of them is inductive by itself. `SessionsHold`
says that a session, live or to be flushed, holds of the history exactly the turns
with its id that were not evicted, in order, its entries and summary blocks
telling them; `EpisodesTell` says the same of an episode in a task, the queue or
the archive. Without them nothing is known of what a summary replaces or a flush
hands on. `HeldOnce` says that a closed session is in one task or one element of
the queue, so that what leaves one place leaves it whole; `SessionsAreNamed`, that
a session's id is that of its first turn, so that a new session's id is fresh; and
`QueueInv`, that a retry that runs has all that it took. `EveryTurnInOnePlace`
is inductive with these: every action moves one set of turns from one of the nine
places to another (`MovedOnePlace`). A summary that arrives is installed only if
the entries it was made from are still the oldest ones (`install_summary`'s fence
on ids), which is what keeps `SessionsHold`. `NoSilenceInsideASession` needs in
addition that `last_activity` is the time of the session's latest turn
(`LatestTurnsAreTimed`), and with them forms `SilenceInv`.

*Queue and ledger.* `QueueKeepsItsOrder` goes by the shape of each change to the
queue: appending, dropping the first, or leaving elements out (`IsWithout`).
`MemoryImplementsLedger` maps a turn to *live*, *closed*, *archived* or *lost* by its
place (`LedgerTables`); since a closing session holds all its turns
(`WholeSession`), a step of the memory either moves the turns of whole sessions
(`SettlesLedger`) or leaves the ledger as it is.

**Skill documents.** The strengthening `SkillsInv` adds to the two properties
that what an operation holds for its transaction was live when it read it, and
that a procedure to restore comes from a row of the history for that number. A
commit over what it read keeps every `lived` version; another one marks the skill
in `outpaced`. `NoVersionOrphaned` adds that no version refers to a deleted or
future id, and needs `ForeignKeys`.

**News limiter.** `ResetInv` says why one call resets: the compare-exchange moves
the day before the store, so a pending store is for a day already taken, not yet
reset and taken by nobody else, and days ahead have no reset. `CountIsExact` is
inductive with `TypeOK` once `disturbed` is part of the state; the counting of
the calls about to take an increment back is by `Cardinality`, one call entering
or leaving a finite set.

**Event routines.** `IInv` has the types, the exclusion (whose last two conjuncts,
that a running loop owns the executor, make it inductive), `CountIsEarned`
(`failures <= streak`: a reset by another turn only lowers the counter),
`LoopsAtRoutines` (a cron loop at the executor is at a routine that is due, which
time and other routines do not undo) and `OccurrencesRunOnce`. The last needs
that `NextAfter` is later than the clock and the occurrence not later
(`NextIsLater`).

**Vault.** `WholeInv` says that until two saves overlap at most one process saves;
the file it fills is not the vault, is torn until the write and then holds its
copy, so that the rename brings a whole file (`SaverInv`). `KeptInv` adds what
each process knows of the saved key (`KeyKnown`): an up-to-date copy has it, and
a process that generated a key is up to date only while none is saved. From
`~raced` it follows that no save goes over a newer file.

**Users and grants.** `ChannelsInv`: a user about to be dropped has no channel left
but one linked meanwhile. `AdminsInv`: a demotion that is not outdated leaves an
admin other than its user (from the guard's `Cardinality(Admins) > 1`), and a
command that would insert a member has seen an admin. `GrantsInv`: the list of a
grant that is not out of date contains all that the user has.

**Router.** `FastModelReturns` is inductive once it is known that only a deep
route is at its first swap and a turn that rests has none (`Shaped`): each step
that loads the deep model is of a turn that owes the restore afterwards, or
strands it.

**Consolidation.** `SleepInv` joins to the queue's promise what a run knows between
its steps: a run in its deep step, which holds the guard, finds the model loaded
unless another run's release is recorded in `evicted` (`ModelHeld`); and of the queue
(`QueueInv`), that a copy no save has overtaken is the queue and no save of that file
is under way (`CopiesFresh`), that a text to be written is what its saver leaves
unresolved and adds (`TextsRight`), that a file that is not spoiled is emptied by one
save at a time (`OneEmpties`), and that what is owed is in the file or in the hands of
that save (`DebtsAreKept`). The types add that the guard is held exactly by the run
that is inside its deep step.

**Matrix bot.** `SeenIsTheTail` says that the list of seen ids is the tail of the
events handled, all of them or more than `SeenKeep`, and that the set has the same
members; a repeat is then preceded by more than `SeenKeep` others.
`GrantIsUnspent` says that a handler about to run the approved tool is the first
(the approval is taken in one step), and needs `LockHolderRuns`: the lock of the
bot is held by the one handler that has begun. `SaidTellsTheReply` relates how far
that handler's reply has got to what the bot said last, which is what
`RepliesAreWhole` says of a step.

**Long-term memory.** `IndexTellsItsMemory` is inductive with `RowsAreMemories`
(rowids, which SQLite reuses, are of one memory each) and `WorksAreCurrent`: the
row a task has read is that memory's or the memory is gone, and what it is about to
write is told by it or recorded in `strayed`. A text whose deletion failed goes to
`leftover` in that step. `FactsAreSettled` is a statement about
every set of facts, and a step of a reflection changes chains far from the two
memories it names. While reflections do not cross, `OneReflects` says that what
the one reflection has still to supersede leads to nothing that would lead back
(`ReflectionIsSafe`, by a set closed under supersession, `LeadsInto`), so that
no cycle closes. A merge keeps chains apart (`MergedApart`), the facts of an older
memory whose text it could not read being left out (`unmerged`).

**Migration.** `CopyingsAreSound` says that the facts a copying has passed and could
read are in the new table (`Copied`), with `BatchIsRead` for where it stands in its
batch and why a last batch is followed by no fact unless the facts are cut off;
`CopyingGoesOn`, that before the rename a table which is not empty is complete or
being filled, unless the facts were cut off, so that the opening that finds it filled
renames only a table that somebody completes; `OneCopies`, that unless facts were
recopied only one opening fills the table, and with later facts than it has
(`CopiedBefore`, by `PositionsInOrder`: positions are ordered as ids are).
`OpenAfterRename` says that a store is not opened, and nothing newer recorded, before
`facts` is out of the way or was not found.

**Agentic stream.** `AgenticInv` says that there is an event such that the log
tells exactly what came before it (`FoldedUpTo`) and the bytes not yet worked
through, those in the buffer and on the wire, are the frames of the rest, whole
and in order (`FramesFrom`, with where each frame begins). So the first empty line
in the buffer, wherever a chunk was cut, ends the frame of the next event and of
no other: `Delimiters` inside a frame there are none, and one that straddles two
frames neither. That the last step of a tool without a time is the step of the
call that is answered, a call of 0 ms before it notwithstanding, needs
`CallsAlternate`: Chord runs a tool one call at a time. This is an assumption on
Chord, which `Emit` makes.

**Composition.** A step of `SharedSpec` is a step of the component in focus and
leaves the others alone, hence one of each (`StepOfEach`); so `SharedSpec` implies
each component's specification, and what is proved of the components holds of
what the run explores.

Assumptions are the named `ASSUME`s of the modules: bounds are naturals, sets of
calls, commands' users and facts are finite, `Modulus` exceeds `Limit` plus the
calls, the capacity of the channel and the window are positive, values that stand
for nobody or nothing (`NoUser`, the tool `"none"` of an event about no call) are
none of the set. TLC evaluates all of them.

**Model-checked only.** The liveness properties (`ExpiredSessionsAreClosed`,
`ClosedTurnsSettle`, `DueRoutinesRun`, `OutagesAreHandled`, `RunsFinish`,
`HandlersFinish`), since the prover does not handle fairness. Of the safety
properties of the passing runs none is left.

## What the code does otherwise than it says

- `stale_turns`: `push` overwrites an expired session that the sweep has not
  closed yet; its turns are never flushed, though `conversation/buffer.rs:192`
  says that they are.
- `token_budget`: a session over its token budget loses its oldest turns to the
  eviction loop, since only the number of turns makes a summary due;
  `src/docs/architecture.md:73` says that turns are summarised rather than
  dropped.
- `skill_lost_update`: `update_skill` reads before its transaction; two updates
  that read the same version snapshot it twice, and the procedure of the first is
  in no row (`skills/mod.rs:161` says it always is).
- `skill_rollback`: an update after a rollback reuses a version number; a
  rollback by number finds the older row, so a live procedure may be out of reach
  (`skills/skill_store.rs:351` says the user can always return to it).
- `limiter_refuses`: a refused call takes its increment back after the store of
  0; the counter wraps and the rest of the day is refused (`feeds/news.rs:135`).
- `breaker_agentic`: a successful agentic answer, the default path, does not
  reset the failure counter (`agent_loop.rs:46`).
- `migrated_search`: the migration inserts the texts into a full-text index that
  `ensure_schema` creates only afterwards, and ignores the error; the search falls
  back to the index of version 1 only while the new one has no hit, so a newer
  memory with the same words hides the migrated one (`engram/migration.rs:121`).

Seen while reading and not checked by a run of its own:

- summary blocks are in no budget (`conversation/buffer.rs:309`, against
  `agent_loop.rs:531`);
- the debouncer compares handling times, so after a routine of a minute or more
  two events of one outage both run it (`scheduler/events.rs:7`);
- a failed tool call emits `ToolFailure` twice (`agent_loop.rs:1024`, `1037`);
- the start-up check against replayed Matrix events has an empty body
  (`matrix_bot.rs:231`); the initial sync before the handlers is what discards
  them, together with what was posted while the bot was down;
- a deep call is made although its swap failed (`router.rs:370`), and the agentic
  path and the tool loop call the routed deep model with no restore after it
  (`stranded`);
- the removal of the last admin is refused nowhere (`removedAdmin`), against
  demotion and disabling, which are;
- `get_or_create_matrix_user` makes a new guest for a disabled user, and two at
  once for a new one, as `matrix_user_id` is not unique (`users/mod.rs:425`);
- two saves of the vault share the temporary file (`overlapped`), and a save from
  a stale copy drops what another process stored (`raced`);
- a migration that stopped between its first row and its last is never resumed:
  the next opening finds `memories_v2` filled, copies nothing and renames `facts`
  (`engram/migration.rs:78`, `cut`);
- a look for `facts` or a count of it that fails reads 0, and the second one leads to
  the rename of a table that was not copied; a count of `memories_v2` that fails
  copies into a filled table (`engram/migration.rs:57`, `68`, `76`);
- a fact whose row cannot be read is skipped, and makes its batch shorter, which ends
  the copying before the batches that follow (`engram/migration.rs:99`, `129`);
- a merge and a deletion ignore that the text was not deleted from the index, where it
  stays under a rowid that SQLite may give to another memory, and a merge that cannot
  read the older text deletes its memory without appending it
  (`engram/reflexa/consolidation.rs:129`, `106`);
- the reflexa queue is saved with `std::fs::write`: a failure or a kill after the
  truncation loses the queue, and one in the middle leaves a text that no later load
  can read (`prompt/retrieval_reflexa.rs:556`);
- the search's fallback takes ids of `facts` for rowids of `memories_v2`
  (`engram/hybrid_search.rs:154`), which differ as soon as a fact was deleted;
- a stream that breaks after its `complete` event loses the answer, and the legacy
  loop runs the tools again (`chord.rs:768`);
- `run_nightly` makes a new `TraitTuner`, whose empty buffer makes it skip
  (`prompt/sleep_time.rs:344`, `prompt/trait_tuner.rs:198`);
- cost caps are never applied: every caller passes no role
  (`agent_loop.rs:165`, `316`); the web client with its limit and cache is made
  anew per call (`agent_loop.rs:1480`); no session manager is passed, so every
  legacy turn resolves a session of its own (`agent_loop.rs:375`).

## Not modelled

- Text and ranking (prompts, hybrid ranking, routing rules, filters, HTML): TLC
  says nothing of interest about strings.
- Cryptography and timing defences; request plumbing of connectors and channels;
  the C++ diffusion daemon; Chord and Terminus, which are external and appear as
  answers that may fail.
- Code that is in the crate but that no command, task or route of the program
  reaches, so that nothing interleaves with it: the skill hub's installer,
  `sentinel`, onboarding, the connectors, vigil and email as services,
  `tool_builder`'s approval, `security/audit_logger` and `auth_manager`, the
  channel adapters that are not registered, `multi_personality`,
  `engram/retroactive`, `engram/shared`, the pruning of `engram/lifecycle`, the
  import of `secure_export`, `SharedResourceStore`, `soma`'s routes. Modelling it
  would invent its callers. The consolidation of `prompt/sleep_time.rs` and the
  queue of `prompt/retrieval_reflexa.rs` are not started by `main.rs` either; they
  are modelled because the files say themselves who runs them and when (the
  nightly, weekly and immediate runs, the run guard that keeps them apart).
- Code that is reached and keeps no state from one call to the next, or changes
  it in one statement: cost caps, the web client, the session manager (see
  above), the training store, settings.
- Inside modelled parts: the cache and the deduplication of the news feed; the
  parsing of cron expressions; `Scheduler::start` without events and the handle's
  `stop` and `abort`, which the program does not call; skill search and prompts;
  invites and formatting of the Matrix bot; last_seen and the verified flag of
  users; contents of digests, layers and opinions; quality flags and principles of
  a reflection; types, tags and sharing of memories.

## Plan

Done: conversation memory with its abstract ledger; skill documents; the news
limiter; event routines; vault; users and grants; router; sleep-time
consolidation with the reflexa queue; the Matrix bot; long-term memory and its
migration; the agentic stream.

Nothing of the plan is left. What could be added: the emission time of events in
`EventBus`, to say what debouncing by handling times does to two events of one
outage.
