--------------------------- MODULE RoutineScheduler ---------------------------
(***************************************************************************)
(* The routine scheduler (crates/lumina-core/src/scheduler/mod.rs,         *)
(* Scheduler::start_with_events): a cron loop and an event loop, each over *)
(* its own copy of the enabled routines, sharing one executor behind a     *)
(* mutex.  What a loop does between two awaits is one step.  The program   *)
(* keeps the scheduler's handle and never calls its stop or abort.         *)
(*                                                                         *)
(* A debounce key is routine:variant; a routine reacts to one variant, so  *)
(* the key is the routine.                                                 *)
(***************************************************************************)
EXTENDS EventBus

CONSTANTS
  Cron,            \* Sequence of cron routines: the set of times each matches
  Triggers,        \* Sequence of event routines: the variant each reacts to
  Window,          \* The debouncer's 60 seconds, also the cron loop's sleep
  MaxNow           \* Bound: the clock

ASSUME SchedulerAssumption ==
  /\ Cron \in Seq(SUBSET Nat)
  /\ Triggers \in Seq(Variants)
  /\ Window \in Nat \ {0}
  /\ MaxNow \in Nat

VARIABLES
  now,             \* The clock
  executor,        \* who holds the executor's mutex
  cron,            \* where the cron loop is
  listener,        \* where the event loop is
  next_run,        \* next_run[r] of cron routine r
  last,            \* Debouncer.last[r] of event routine r
  (* history *)
  fired,           \* fired[r]: due times at which cron routine r has run
  reacted          \* reacted[r]: when the last run of event routine r was let through

cronLoop  == <<cron, next_run, fired>>
eventLoop == <<listener, last, reacted>>
scheduler == <<executor, cron, listener, next_run, last, fired, reacted>>

-----------------------------------------------------------------------------
First(S) == CHOOSE x \in S : \A y \in S : x <= y

Never == MaxNow + 1

\* Wrong: the minute of t itself is searched too.
NextAfterInclusive(r, t) ==
  LET later == {d \in Cron[r] : d >= t}
  IN  IF later = {} THEN Never ELSE First(later)

\* CronExpr::next_after: the first match after t; without one, in a year.
NextAfter(r, t) ==
  LET later == {d \in Cron[r] : d > t}
  IN  IF later = {} THEN Never ELSE First(later)

IsDue(r) == next_run[r] <= now

\* The sleep after a scan; the last tick of the bounded clock ends every sleep.
Asleep == [at |-> "sleep", i |-> 0,
           until |-> IF now + Window <= MaxNow THEN now + Window ELSE MaxNow]

CronAt(pc, r) == [at |-> pc, i |-> r, until |-> 0]

\* Wrong: the scan ends at the first routine that is not due.
ScanStopping(i) ==
  IF i <= Len(Cron) /\ IsDue(i) THEN CronAt("lock", i) ELSE Asleep

\* The scan from routine i on: the first due one goes to the executor.
Scan(i) ==
  LET due == {r \in i..Len(Cron) : IsDue(r)}
  IN  IF due = {} THEN Asleep ELSE CronAt("lock", First(due))

ListenerAt(pc, r, e) == [at |-> pc, i |-> r, event |-> e]

LoopTop == ListenerAt("recv", 0, "none")

ShouldTrigger(r) == now - last[r] >= Window

\* The routines from i on against event e: the first that reacts to it and is
\* not debounced is recorded and goes to the executor.
Reacts(i, e) ==
  LET hits == {r \in i..Len(Triggers) : Triggers[r] = e /\ ShouldTrigger(r)}
  IN  IF hits = {}
      THEN listener' = LoopTop /\ UNCHANGED last
      ELSE /\ listener' = ListenerAt("lock", First(hits), e)
           /\ last' = [last EXCEPT ![First(hits)] = now]

SchedulerInit ==
  /\ executor = "free"
  /\ cron = [at |-> "sleep", i |-> 0, until |-> 0]
  /\ listener = LoopTop
  /\ next_run = [r \in 1..Len(Cron) |-> NextAfter(r, 0)]
  /\ last = [r \in 1..Len(Triggers) |-> -Window]
  /\ fired = [r \in 1..Len(Cron) |-> {}]
  /\ reacted = [r \in 1..Len(Triggers) |-> -Window]

-----------------------------------------------------------------------------
(* The cron loop.                                                          *)

CronWakes ==
  /\ cron.at = "sleep"
  /\ now >= cron.until
  /\ cron' = Scan(1)
  /\ UNCHANGED <<executor, next_run, fired, eventLoop, bus>>

CronLocks ==
  /\ cron.at = "lock"
  /\ executor = "free"
  /\ executor' = "cron"
  /\ cron' = [cron EXCEPT !.at = "exec"]
  /\ UNCHANGED <<next_run, fired, eventLoop, bus>>

\* The routine returns: the mutex is released, next_run counts from now.
CronRan ==
  /\ cron.at = "exec"
  /\ executor' = "free"
  /\ fired' = [fired EXCEPT ![cron.i] = @ \cup {next_run[cron.i]}]
  /\ next_run' = [next_run EXCEPT ![cron.i] = NextAfter(cron.i, now)]
  /\ cron' = Scan(cron.i + 1)
  /\ UNCHANGED <<eventLoop, bus>>

-----------------------------------------------------------------------------
(* The event loop.                                                         *)

Receives ==
  /\ listener.at = "recv"
  /\ ~lagged
  /\ unread # <<>>
  /\ unread' = Tail(unread)
  /\ Reacts(1, Head(unread))
  /\ UNCHANGED <<lagged, executor, cronLoop, reacted>>

\* recv returns Lagged: the loop logs it and goes on with the oldest event kept.
ReceivesLagged ==
  /\ listener.at = "recv"
  /\ lagged
  /\ lagged' = FALSE
  /\ listener' = LoopTop
  /\ UNCHANGED <<unread, executor, cronLoop, last, reacted>>

\* Wrong: the event loop runs its routine without the mutex.
ListenerLocksNothing ==
  /\ listener.at = "lock"
  /\ listener' = [listener EXCEPT !.at = "exec"]
  /\ UNCHANGED <<executor, cronLoop, last, reacted, bus>>

ListenerLocks ==
  /\ listener.at = "lock"
  /\ executor = "free"
  /\ executor' = "event"
  /\ listener' = [listener EXCEPT !.at = "exec"]
  /\ UNCHANGED <<cronLoop, last, reacted, bus>>

\* The routine returns: the mutex is released, the next routines are tried.
ListenerRan ==
  /\ listener.at = "exec"
  /\ executor' = "free"
  /\ reacted' = [reacted EXCEPT ![listener.i] = last[listener.i]]
  /\ Reacts(listener.i + 1, listener.event)
  /\ UNCHANGED <<cronLoop, bus>>

SchedulerStep ==
  \/ CronWakes \/ CronLocks \/ CronRan
  \/ Receives \/ ReceivesLagged \/ ListenerLocks \/ ListenerRan

-----------------------------------------------------------------------------
CronType == [at : {"sleep", "lock", "exec"}, i : 0..Len(Cron), until : 0..MaxNow]

ListenerType == [at : {"recv", "lock", "exec"}, i : 0..Len(Triggers),
                 event : Variants \cup {"none"}]

SchedulerTypeOK ==
  /\ now \in 0..MaxNow
  /\ executor \in {"free", "cron", "event"}
  /\ cron \in CronType
  /\ listener \in ListenerType
  /\ next_run \in [1..Len(Cron) -> Nat]
  /\ last \in [1..Len(Triggers) -> Int]
  /\ fired \in [1..Len(Cron) -> SUBSET Nat]
  /\ reacted \in [1..Len(Triggers) -> Int]
=============================================================================
