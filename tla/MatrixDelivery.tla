--------------------------- MODULE MatrixDelivery ---------------------------
(***************************************************************************)
(* The Matrix bot (crates/lumina-core/src/matrix_bot.rs): how messages of  *)
(* the room reach a turn and how its reply reaches the room, over lost     *)
(* syncs, repeated deliveries, failed sends and restarts; and the approval *)
(* of guarded tools (try_handle_approval in agent_loop.rs), which the bot  *)
(* settles itself before any turn.                                         *)
(*                                                                         *)
(* matrix-sdk, the homeserver and Chord are external.  The SDK calls       *)
(* on_message for each event of a sync; its calls are taken to run at      *)
(* once, which is what processing_lock is for, and tokio grants the lock   *)
(* in the order of the requests.  The room is a timeline; Chord keeps one  *)
(* approval code, which it grants or denies once.                          *)
(***************************************************************************)
EXTENDS Integers, Sequences

CONSTANTS
  SeenCap,          \* 200: ids in the seen set that cause it to be trimmed
  SeenKeep,         \* 100: ids that are left then
  MaxChunks,        \* Bound: messages one reply is cut into
  MaxEvents,        \* Bound: messages posted to the room
  MaxRedeliveries,  \* Bound: deliveries of an event that was delivered before
  MaxStops          \* Bound: crashes and lost syncs

ASSUME MatrixAssumption ==
  /\ SeenKeep \in Nat
  /\ SeenCap \in Nat
  /\ SeenKeep < SeenCap
  /\ MaxChunks \in Nat \ {0}

VARIABLES
  timeline,    \* the room: timeline[e] says what event e is to the bot
  bot,         \* where run_matrix is
  position,    \* the last event the sync token covers
  seen,        \* SeenEvents.order
  seenIds,     \* SeenEvents.ids
  handler,     \* on_message tasks of events that passed the checks, in order
  lock,        \* the holder of processing_lock, 0 when free
  approval,    \* the approval code at Chord
  (* history *)
  said,        \* the last message of the bot in the room
  ran,         \* times the guarded tool ran
  denyLost,    \* whether Chord missed a denial
  redelivered, stops

chord == <<approval, ran, denyLost>>
counters == <<redelivered, stops>>
matrixVars == <<timeline, bot, position, seen, seenIds, handler, lock, said, chord, counters>>

-----------------------------------------------------------------------------
Nothing == [run |-> 0, part |-> 0]
Handler(e, where) == [event |-> e, at |-> where, acked |-> FALSE, chunks |-> 0, sent |-> 0]

Posted == 1..Len(timeline)
Runs == 1..Len(handler)

MatrixInit ==
  /\ timeline = <<>>
  /\ bot = "down"
  /\ position = 0
  /\ seen = <<>>
  /\ seenIds = {}
  /\ handler = <<>>
  /\ lock = 0
  /\ approval = "none"
  /\ said = Nothing
  /\ ran = 0
  /\ denyLost = FALSE
  /\ redelivered = 0
  /\ stops = 0

-----------------------------------------------------------------------------
(* The room and the connection.                                            *)

\* An ignored event is the bot's own, empty, no text or not from an allowed user.
Post(what) ==
  /\ Len(timeline) < MaxEvents
  /\ timeline' = Append(timeline, what)
  /\ UNCHANGED <<bot, position, seen, seenIds, handler, lock, said, chord, counters>>

\* connect, login, join_room: a new device without a sync token.
Connect ==
  /\ bot = "down"
  /\ bot' = "connected"
  /\ UNCHANGED <<timeline, position, seen, seenIds, handler, lock, said, chord, counters>>

\* sync_once before the handlers are registered: what it brings is discarded.
InitialSync ==
  /\ bot = "connected"
  /\ bot' = "running"
  /\ position' = Len(timeline)
  /\ UNCHANGED <<timeline, seen, seenIds, handler, lock, said, chord, counters>>

\* client.sync returns an error: the loop waits, then syncs again.
SyncLost ==
  /\ bot = "running"
  /\ stops < MaxStops
  /\ stops' = stops + 1
  /\ bot' = "backoff"
  /\ UNCHANGED <<timeline, position, seen, seenIds, handler, lock, said, chord, redelivered>>

Reconnect ==
  /\ bot = "backoff"
  /\ bot' = "running"
  /\ UNCHANGED <<timeline, position, seen, seenIds, handler, lock, said, chord, counters>>

\* An error before run, a sync that ends, a signal or a crash: the process ends
\* and with it the handlers and the seen set; the service starts it again.
BotStops ==
  /\ bot # "down"
  /\ stops < MaxStops
  /\ stops' = stops + 1
  /\ bot' = "down"
  /\ position' = 0
  /\ seen' = <<>>
  /\ seenIds' = {}
  /\ handler' = <<>>
  /\ lock' = 0
  /\ said' = Nothing
  /\ UNCHANGED <<timeline, chord, redelivered>>

\* Wrong: a full set is cleared.
InsertClearing(e) ==
  LET kept == IF Len(seen) >= SeenCap THEN <<>> ELSE seen
  IN /\ seen' = Append(kept, e)
     /\ seenIds' = (seenIds \ {seen[k] : k \in 1..(Len(seen) - Len(kept))}) \cup {e}

\* SeenEvents::insert
Insert(e) ==
  LET kept == IF Len(seen) >= SeenCap THEN SubSeq(seen, Len(seen) - SeenKeep + 1, Len(seen)) ELSE seen
  IN /\ seen' = Append(kept, e)
     /\ seenIds' = (seenIds \ {seen[k] : k \in 1..(Len(seen) - Len(kept))}) \cup {e}

\* on_message up to the lock: the checks and the dedup, under one lock.
Receive(e) ==
  IF timeline[e] = "ignored" \/ e \in seenIds
    THEN UNCHANGED <<seen, seenIds, handler>>
    ELSE /\ Insert(e)
         /\ handler' = Append(handler, Handler(e, "waiting"))

Deliver ==
  /\ bot = "running"
  /\ position < Len(timeline)
  /\ position' = position + 1
  /\ Receive(position + 1)
  /\ UNCHANGED <<timeline, bot, lock, said, chord, counters>>

Redeliver(e) ==
  /\ bot = "running"
  /\ e <= position
  /\ \E i \in Runs : handler[i].event = e
  /\ redelivered < MaxRedeliveries
  /\ redelivered' = redelivered + 1
  /\ Receive(e)
  /\ UNCHANGED <<timeline, bot, position, lock, said, chord, stops>>

-----------------------------------------------------------------------------
(* The handler of an event.                                                *)

HandlerAt(i, where) == handler[i].at = where
Kind(i) == timeline[handler[i].event]
Move(i, where) == handler' = [handler EXCEPT ![i].at = where]
Reply(i, n) == handler' = [handler EXCEPT ![i].at = "reply", ![i].chunks = n]
HandlerUnchanged == UNCHANGED <<timeline, bot, position, seen, seenIds, counters>>

\* Wrong: the guard is dropped as soon as it is taken, as `let _ = lock` does.
LockDropped(i) ==
  /\ HandlerAt(i, "waiting")
  /\ \A j \in 1..(i - 1) : ~HandlerAt(j, "waiting")
  /\ Move(i, "started")
  /\ HandlerUnchanged
  /\ UNCHANGED <<lock, said, chord>>

\* processing_lock.lock().await
Lock(i) ==
  /\ HandlerAt(i, "waiting")
  /\ lock = 0
  /\ \A j \in 1..(i - 1) : ~HandlerAt(j, "waiting")
  /\ lock' = i
  /\ Move(i, "started")
  /\ HandlerUnchanged
  /\ UNCHANGED <<said, chord>>

\* approval_deny, whose result is not looked at.
Deny(i) ==
  /\ HandlerAt(i, "started")
  /\ Kind(i) = "deny"
  /\ \/ /\ approval' = IF approval = "pending" THEN "denied" ELSE approval
        /\ UNCHANGED denyLost
     \/ /\ denyLost' = (denyLost \/ approval = "pending")
        /\ UNCHANGED approval
  /\ Reply(i, 1)
  /\ HandlerUnchanged
  /\ UNCHANGED <<lock, said, ran>>

\* Wrong: the call goes out whatever approval_grant answered.
GrantUnchecked(i) ==
  /\ HandlerAt(i, "started")
  /\ Kind(i) = "approve"
  /\ approval' = IF approval = "pending" THEN "granted" ELSE approval
  /\ Move(i, "granted")
  /\ HandlerUnchanged
  /\ UNCHANGED <<lock, said, ran, denyLost>>

\* approval_grant: an answer that is lost may have been a grant.
Grant(i) ==
  /\ HandlerAt(i, "started")
  /\ Kind(i) = "approve"
  /\ \/ /\ approval = "pending"
        /\ approval' = "granted"
        /\ Move(i, "granted") \/ Reply(i, 1)
     \/ Reply(i, 1) /\ UNCHANGED approval
  /\ HandlerUnchanged
  /\ UNCHANGED <<lock, said, ran, denyLost>>

\* The stored call, with its code; it may fail before or after it ran.
Dispatch(i) ==
  /\ HandlerAt(i, "granted")
  /\ ran' \in {ran, ran + 1}
  /\ Reply(i, 1)
  /\ HandlerUnchanged
  /\ UNCHANGED <<lock, said, approval, denyLost>>

BeginTurn(i) ==
  /\ HandlerAt(i, "started")
  /\ Kind(i) = "chat"
  /\ Move(i, "turn")
  /\ HandlerUnchanged
  /\ UNCHANGED <<lock, said, chord>>

\* The interim acknowledgement, after the grace or at a tool's signal; a send
\* that fails is not repeated.
Ack(i) ==
  /\ HandlerAt(i, "turn")
  /\ ~handler[i].acked
  /\ handler' = [handler EXCEPT ![i].acked = TRUE]
  /\ said' \in {said, [run |-> i, part |-> 0]}
  /\ HandlerUnchanged
  /\ UNCHANGED <<lock, chord>>

\* The turn's answer, or one of the two error texts; it may have asked for a
\* guarded tool.
EndTurn(i) ==
  /\ HandlerAt(i, "turn")
  /\ \E n \in 1..MaxChunks : Reply(i, n)
  /\ approval' \in {approval, IF approval = "none" THEN "pending" ELSE approval}
  /\ HandlerUnchanged
  /\ UNCHANGED <<lock, said, ran, denyLost>>

\* Wrong: a failed send keeps the lock.
SendKeepingLock(i) ==
  /\ HandlerAt(i, "reply")
  /\ \E sent \in BOOLEAN :
       /\ said' = IF sent THEN [run |-> i, part |-> handler[i].sent + 1] ELSE said
       /\ IF sent /\ handler[i].sent + 1 < handler[i].chunks
            THEN /\ handler' = [handler EXCEPT ![i].sent = @ + 1]
                 /\ UNCHANGED lock
            ELSE /\ handler' = [handler EXCEPT ![i] = Handler(@.event, "done")]
                 /\ lock' = IF sent THEN 0 ELSE lock
  /\ HandlerUnchanged
  /\ UNCHANGED chord

\* room.send of the next chunk; a failed one ends the reply.  The end of the
\* handler releases the lock.
Send(i) ==
  /\ HandlerAt(i, "reply")
  /\ \E sent \in BOOLEAN :
       /\ said' = IF sent THEN [run |-> i, part |-> handler[i].sent + 1] ELSE said
       /\ IF sent /\ handler[i].sent + 1 < handler[i].chunks
            THEN /\ handler' = [handler EXCEPT ![i].sent = @ + 1]
                 /\ UNCHANGED lock
            ELSE /\ handler' = [handler EXCEPT ![i] = Handler(@.event, "done")]
                 /\ lock' = IF lock = i THEN 0 ELSE lock
  /\ HandlerUnchanged
  /\ UNCHANGED chord

HandlerStep(i) ==
  \/ Lock(i)
  \/ Deny(i)
  \/ Grant(i)
  \/ Dispatch(i)
  \/ BeginTurn(i)
  \/ EndTurn(i)
  \/ Send(i)

Handle == \E i \in Runs : HandlerStep(i)

MatrixNext ==
  \/ \E what \in {"ignored", "chat", "approve", "deny"} : Post(what)
  \/ Connect
  \/ InitialSync
  \/ SyncLost
  \/ Reconnect
  \/ BotStops
  \/ Deliver
  \/ \E e \in Posted : Redeliver(e)
  \/ Handle
  \/ \E i \in Runs : Ack(i)

MatrixSpec == MatrixInit /\ [][MatrixNext]_matrixVars

\* The service manager restarts the process, the loop syncs again after its
\* wait, and the runtime goes on with every handler that can go on.
MatrixFairness ==
  /\ WF_matrixVars(Connect)
  /\ WF_matrixVars(InitialSync)
  /\ WF_matrixVars(Reconnect)
  /\ WF_matrixVars(Deliver)
  /\ WF_matrixVars(Handle)

-----------------------------------------------------------------------------
(* What the bot promises.                                                  *)

\* The type invariant: the two halves of the seen set hold the same ids, once
\* each, and no more than the cap.
MatrixTypeOK ==
  /\ timeline \in Seq({"ignored", "chat", "approve", "deny"})
  /\ bot \in {"down", "connected", "running", "backoff"}
  /\ position \in 0..Len(timeline)
  /\ Len(seen) <= SeenCap
  /\ seenIds = {seen[k] : k \in 1..Len(seen)}
  /\ \A k, m \in 1..Len(seen) : seen[k] = seen[m] => k = m
  /\ \A i \in Runs :
       /\ handler[i].event \in Posted
       /\ handler[i].at \in {"waiting", "started", "granted", "turn", "reply", "done"}
       /\ handler[i].chunks \in 0..MaxChunks
       /\ handler[i].sent \in 0..MaxChunks
  /\ lock \in {0} \cup Runs
  /\ approval \in {"none", "pending", "granted", "denied"}

\* matrix_bot.rs:46 "Bounded deduplication set": an event that is delivered again
\* gets a second reply only when more than SeenKeep others were answered since.
RepeatsAreFarApart ==
  \A i, j \in Runs : i < j /\ handler[i].event = handler[j].event => j - i > SeenKeep + 1

\* matrix_bot.rs:275 "Serialization lock - one message at a time": the chunks of
\* a reply stand in the room in order with nothing between them, its one
\* acknowledgement before the first of them and nothing in between.
RepliesAreWhole ==
  [][said' \notin {said, Nothing} =>
       IF said'.run = said.run
         THEN said'.part = said.part + 1
         ELSE /\ said'.part \in {0, 1}
              /\ said.run # 0 => HandlerAt(said.run, "done")]_matrixVars

\* A code that was approved once and then not again, or that was denied, runs
\* its tool no further time, whatever is repeated, lost or restarted.
ToolRunsOncePerApproval == ran <= 1 /\ (ran = 1 => approval = "granted")

\* No handler waits for ever: when no more messages come, all have finished; the
\* lock is released on every path.
HandlersFinish ==
  (\E i \in Runs : ~HandlerAt(i, "done")) ~> (\A i \in Runs : HandlerAt(i, "done"))
=============================================================================
