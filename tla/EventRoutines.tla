---------------------------- MODULE EventRoutines ----------------------------
(***************************************************************************)
(* Chat turns, event bus and scheduler together: a turn that sees Chord    *)
(* fail emits CircuitOpen, and the scheduler runs the routines that wait   *)
(* for it.                                                                 *)
(***************************************************************************)
EXTENDS CircuitBreaker, RoutineScheduler

vars == <<now, bus, breaker, scheduler>>

Init == now = 0 /\ BusInit /\ BreakerInit /\ SchedulerInit

Tick ==
  /\ now < MaxNow
  /\ now' = now + 1
  /\ UNCHANGED <<bus, breaker, scheduler>>

TurnNext(step) == step /\ UNCHANGED <<now, scheduler>>

LoopNext(step) == step /\ UNCHANGED <<now, breaker>>

Next ==
  \/ \E t \in Turns : TurnNext(TurnStep(t))
  \/ LoopNext(SchedulerStep)
  \/ Tick

Spec == Init /\ [][Next]_vars

\* The runtime runs every task that can run, tokio's mutex is first come first
\* served, and time passes.  Nothing obliges Chord to answer.
Fairness ==
  /\ \A t \in Turns : WF_vars(TurnNext(OpenCircuit(t) \/ ResetCount(t)))
  /\ WF_vars(LoopNext(CronWakes \/ CronRan))
  /\ SF_vars(LoopNext(CronLocks))
  /\ WF_vars(LoopNext(Receives \/ ReceivesLagged \/ ListenerRan))
  /\ SF_vars(LoopNext(ListenerLocks))
  /\ WF_vars(Tick)

FairSpec == Spec /\ Fairness

-----------------------------------------------------------------------------
(* What turns and scheduler promise.                                       *)

\* The type invariant of the three parts.
TypeOK == BusTypeOK /\ BreakerTypeOK /\ SchedulerTypeOK

\* agent_loop.rs:44 "only emitted when CHORD_FAIL_THRESHOLD consecutive failures
\* have occurred": whatever turns count and reset at once, a turn opens the
\* circuit only after that many failures in a row on the paths that reset it.
OpensAfterThreshold ==
  [][\A t \in Turns : turn[t].at # "open" /\ turn'[t].at = "open" => streak' >= Threshold]_vars

\* scheduler/mod.rs:10 "Only one routine runs at a time to avoid VRAM
\* contention": the loops' routines exclude each other.
OneRoutineAtATime ==
  /\ ~(cron.at = "exec" /\ listener.at = "exec")
  /\ cron.at = "exec" => executor = "cron"
  /\ listener.at = "exec" => executor = "event"

\* An occurrence is not run twice, and none comes back: the next run of a
\* routine is later than every occurrence it has run, however late it ran.
OccurrencesRunOnce ==
  \A r \in 1..Len(Cron) : \A d \in fired[r] : d < next_run[r]

\* A cron routine that is due runs, whatever the event loop does with the
\* executor and the other routines with the scan.
DueRoutinesRun ==
  \A r \in 1..Len(Cron) : \A d \in Cron[r] :
    (next_run[r] = d /\ d <= now) ~> (next_run[r] # d)

\* An outage reaches its routine: once a turn opens the circuit, every routine
\* that reacts to it is run, let through after that time or less than Window
\* before it, unless the channel overruns.
OutagesAreHandled ==
  \A r \in 1..Len(Triggers) : \A n \in 0..MaxNow :
    (Triggers[r] = "CircuitOpen" /\ now = n /\ \E t \in Turns : turn[t].at = "open")
      ~> (reacted[r] > n - Window \/ lagged)

-----------------------------------------------------------------------------
(* What a comment says and the code does not do.                           *)

\* agent_loop.rs:46 "The counter is reset to zero on every successful Chord
\* response": a turn that goes on after an answer (no failure of its own was
\* counted) leaves the counter at zero, the agentic endpoint's answers included.
SuccessResetsCount ==
  [][\A t \in Turns :
       turn[t].at \in {"agentic", "tools", "chat"} /\ turn'[t].at \in {"idle", "calling"}
         /\ failures' <= failures
       => failures' = 0]_vars
=============================================================================
