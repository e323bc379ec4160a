------------------------- MODULE EventRoutinesProofs -------------------------
(***************************************************************************)
(* For any number of turns and routines, any threshold, channel and clock: *)
(* the types, the threshold before an outage is announced, the executor's  *)
(* exclusion, and no occurrence run twice.                                 *)
(***************************************************************************)
EXTENDS EventRoutines, ArithmeticProofs

\* A loop before the executor, or in it, is at one of its routines; the cron
\* loop's is due.
LoopsAtRoutines ==
  /\ cron.at \in {"lock", "exec"} => cron.i \in 1..Len(Cron) /\ IsDue(cron.i)
  /\ listener.at \in {"lock", "exec"} => listener.i \in 1..Len(Triggers)

\* The counter counts failures of the streak only: resets by other turns lower
\* it, nothing else raises it.
CountIsEarned == failures <= streak

\* Tools run only while rounds are left.
RoundsAreLeft == \A t \in Turns : turn[t].at = "calling" => turn[t].calls < MaxCalls

IInv ==
  /\ TypeOK
  /\ LoopsAtRoutines
  /\ RoundsAreLeft
  /\ CountIsEarned
  /\ OneRoutineAtATime
  /\ OccurrencesRunOnce

-----------------------------------------------------------------------------
(* What the helpers return.                                                *)

\* First is the least member.
LEMMA FirstIsLeast ==
  ASSUME NEW S \in SUBSET Nat, S # {}
  PROVE  First(S) \in S /\ \A y \in S : First(S) <= y
  BY LeastNat DEF First

\* The next run is after t, and later than any time of the clock if there is none.
LEMMA NextIsLater ==
  ASSUME NEW r \in 1..Len(Cron), NEW t \in 0..MaxNow
  PROVE  NextAfter(r, t) \in Nat /\ NextAfter(r, t) > t
<1> DEFINE later == {d \in Cron[r] : d > t}
<1>1. Cron[r] \in SUBSET Nat
  BY SchedulerAssumption
<1>2. CASE later = {}
  BY <1>2, SchedulerAssumption DEF NextAfter, Never
<1>3. CASE later # {}
  <2>1. later \in SUBSET Nat
    BY <1>1
  <2>2. First(later) \in later
    BY <1>3, <2>1, FirstIsLeast
  <2> QED
    BY <1>1, <1>3, <2>2 DEF NextAfter
<1> QED
  BY <1>2, <1>3

\* A scan ends asleep or before the executor, at a routine that is due.
LEMMA ScanEnds ==
  ASSUME NEW i \in Nat \ {0}, now \in 0..MaxNow
  PROVE  /\ Scan(i) \in CronType
         /\ Scan(i).at \in {"sleep", "lock"}
         /\ Scan(i).at = "lock" => Scan(i).i \in i..Len(Cron) /\ IsDue(Scan(i).i)
<1> DEFINE due == {r \in i..Len(Cron) : IsDue(r)}
<1>1. Len(Cron) \in Nat /\ MaxNow \in Nat /\ Window \in Nat
  BY SchedulerAssumption
<1>2. CASE due = {}
  <2>1. Scan(i) = Asleep
    BY <1>2 DEF Scan
  <2> QED
    BY <1>1, <2>1 DEF Asleep, CronType
<1>3. CASE due # {}
  <2>1. due \in SUBSET Nat
    BY <1>1
  <2>2. First(due) \in due
    BY <1>3, <2>1, FirstIsLeast
  <2>3. Scan(i) = CronAt("lock", First(due))
    BY <1>3 DEF Scan
  <2>4. First(due) \in i..Len(Cron) /\ IsDue(First(due))
    BY <1>1, <2>2
  <2> QED
    BY <1>1, <2>3, <2>4 DEF CronAt, CronType
<1> QED
  BY <1>2, <1>3

\* The routines tried against an event: the loop waits again, or for the executor.
LEMMA ReactsEnds ==
  ASSUME NEW i \in Nat \ {0}, NEW e \in Variants \cup {"none"}, Reacts(i, e),
         now \in 0..MaxNow, last \in [1..Len(Triggers) -> Int]
  PROVE  /\ listener' \in ListenerType
         /\ listener'.at \in {"recv", "lock"}
         /\ listener'.at = "lock" => listener'.i \in 1..Len(Triggers)
         /\ last' \in [1..Len(Triggers) -> Int]
<1> DEFINE hits == {r \in i..Len(Triggers) : Triggers[r] = e /\ ShouldTrigger(r)}
<1>1. Len(Triggers) \in Nat /\ MaxNow \in Nat
  BY SchedulerAssumption
<1>2. CASE hits = {}
  <2>1. listener' = LoopTop /\ last' = last
    BY <1>2 DEF Reacts
  <2> QED
    BY <1>1, <2>1 DEF LoopTop, ListenerAt, ListenerType
<1>3. CASE hits # {}
  <2>1. hits \in SUBSET Nat
    BY <1>1
  <2>2. PICK r \in hits : r = First(hits)
    BY <1>3, <2>1, FirstIsLeast
  <2>3. listener' = ListenerAt("lock", r, e) /\ last' = [last EXCEPT ![r] = now]
    BY <1>3, <2>2 DEF Reacts
  <2>4. r \in 1..Len(Triggers)
    BY <1>1, <2>2
  <2>5. /\ listener' \in ListenerType
        /\ listener'.at = "lock"
        /\ listener'.i = r
    BY <1>1, <2>3, <2>4 DEF ListenerAt, ListenerType
  <2>6. last' \in [1..Len(Triggers) -> Int]
    BY <2>3, <2>4
  <2> QED
    BY <2>4, <2>5, <2>6
<1> QED
  BY <1>2, <1>3

\* The channel keeps at most its capacity.
LEMMA EmitsKeepsCapacity ==
  ASSUME unread \in Seq(Variants), lagged \in BOOLEAN,
         NEW vs \in Seq(Variants), Emits(vs)
  PROVE  unread' \in Seq(Variants) /\ Len(unread') <= Capacity /\ lagged' \in BOOLEAN
<1> DEFINE q == unread \o vs
<1>1. q \in Seq(Variants) /\ Len(q) \in Nat
  OBVIOUS
<1>2. Capacity \in Nat \ {0}
  BY BusAssumption
<1>3. Newest(q) \in Seq(Variants) /\ Len(Newest(q)) <= Capacity
  <2>1. CASE Len(q) <= Capacity
    BY <1>1, <2>1 DEF Newest
  <2>2. CASE Len(q) > Capacity
    <3>1. Newest(q) = SubSeq(q, Len(q) - Capacity + 1, Len(q))
      BY <1>1, <1>2, <2>2 DEF Newest
    <3> QED
      BY <1>1, <1>2, <2>2, <3>1
  <2> QED
    BY <1>1, <1>2, <2>1, <2>2
<1>4. unread' = Newest(q) /\ lagged' = (lagged \/ Len(q) > Capacity)
  BY DEF Emits
<1> QED
  BY <1>3, <1>4

-----------------------------------------------------------------------------
(* Types.                                                                  *)

LEMMA TypeInit == Init => TypeOK /\ LoopsAtRoutines
<1> SUFFICES ASSUME Init PROVE TypeOK /\ LoopsAtRoutines
  OBVIOUS
<1>1. Len(Cron) \in Nat /\ Len(Triggers) \in Nat /\ MaxNow \in Nat /\ Window \in Nat
  BY SchedulerAssumption
<1>2. BusTypeOK
  <2>1. unread = <<>> /\ lagged = FALSE
    BY DEF Init, BusInit
  <2>2. <<>> \in Seq(Variants) /\ Len(<<>>) = 0
    OBVIOUS
  <2>3. Len(unread) <= Capacity
    BY <2>1, <2>2, BusAssumption
  <2> QED
    BY <2>1, <2>2, <2>3 DEF BusTypeOK
<1>3. BreakerTypeOK
  BY BreakerAssumption DEF Init, BreakerInit, BreakerTypeOK, TurnType, Turn
<1>4. next_run \in [1..Len(Cron) -> Nat]
  BY <1>1, NextIsLater DEF Init, SchedulerInit
<1>5. cron \in CronType /\ listener \in ListenerType
  BY <1>1 DEF Init, SchedulerInit, CronType, ListenerType, LoopTop, ListenerAt
<1>6. SchedulerTypeOK
  BY <1>1, <1>4, <1>5 DEF Init, SchedulerInit, SchedulerTypeOK
<1>7. LoopsAtRoutines
  BY DEF Init, SchedulerInit, LoopsAtRoutines, LoopTop, ListenerAt
<1> QED
  BY <1>2, <1>3, <1>6, <1>7 DEF TypeOK

\* What a turn's steps do to the channel.
LEMMA TurnKeepsBus ==
  ASSUME BusTypeOK, NEW t \in Turns, TurnStep(t)
  PROVE  BusTypeOK'
<1>1. <<"RateLimitHit">> \in Seq(Variants) /\ <<"ToolFailure">> \in Seq(Variants)
      /\ <<"CircuitOpen">> \in Seq(Variants)
  BY BreakerAssumption
<1>2. \A n \in 0..2 : [i \in 1..n |-> "ToolFailure"] \in Seq(Variants)
  BY BreakerAssumption
<1>3. \A vs \in Seq(Variants) : Emits(vs) => BusTypeOK'
  BY EmitsKeepsCapacity DEF BusTypeOK
<1>4. UNCHANGED bus => BusTypeOK'
  BY DEF bus, BusTypeOK
<1>5. UNCHANGED bus \/ \E vs \in Seq(Variants) : Emits(vs)
  BY <1>1, <1>2 DEF TurnStep, StartTurn, RateLimited, AgenticAnswers, AgenticFails, Route,
     ToolsAnswer, ToolsRun, ChatAnswers, LegacyFails, OpenCircuit, ResetCount, ChordFails
<1> QED
  BY <1>3, <1>4, <1>5

LEMMA TurnKeepsType ==
  ASSUME BreakerTypeOK, CountIsEarned, RoundsAreLeft, NEW t \in Turns, TurnStep(t)
  PROVE  BreakerTypeOK' /\ CountIsEarned' /\ RoundsAreLeft'
<1> USE DEF BreakerTypeOK, CountIsEarned, RoundsAreLeft, TurnType, Turn, Opening, Goto, Answered
<1>1. MaxTurns \in Nat /\ MaxCalls \in Nat /\ Agentic \in BOOLEAN
  BY BreakerAssumption
<1>2. CASE StartTurn(t)
  BY <1>1, <1>2 DEF StartTurn
<1>3. CASE RateLimited(t)
  BY <1>1, <1>3 DEF RateLimited
<1>4. CASE AgenticAnswers(t)
  BY <1>1, <1>4 DEF AgenticAnswers
<1>5. CASE AgenticFails(t)
  BY <1>1, <1>5 DEF AgenticFails, ChordFails
<1>6. CASE Route(t)
  BY <1>1, <1>6 DEF Route
<1>7. CASE ToolsAnswer(t)
  BY <1>1, <1>7 DEF ToolsAnswer
<1>8. CASE ToolsRun(t)
  <2>1. /\ turn[t].at = "calling"
        /\ turn' = [turn EXCEPT ![t] = [turn[t] EXCEPT !.at = "tools", !.calls = @ + 1]]
        /\ UNCHANGED <<failures, started, streak>>
    BY <1>8 DEF ToolsRun
  <2>2. turn[t] \in TurnType /\ turn[t].calls \in 0..MaxCalls /\ turn[t].calls < MaxCalls
    BY <2>1
  <2>3. turn[t].calls + 1 \in 0..MaxCalls
    BY <1>1, <2>2
  <2>4. [turn[t] EXCEPT !.at = "tools", !.calls = @ + 1] \in TurnType
    BY <2>2, <2>3
  <2> QED
    BY <2>1, <2>4
<1>9. CASE ChatAnswers(t)
  BY <1>1, <1>9 DEF ChatAnswers
<1>10. CASE LegacyFails(t)
  BY <1>1, <1>10 DEF LegacyFails, ChordFails
<1>11. CASE OpenCircuit(t)
  BY <1>1, <1>11 DEF OpenCircuit
<1>12. CASE ResetCount(t)
  BY <1>1, <1>12 DEF ResetCount
<1> QED
  BY <1>2, <1>3, <1>4, <1>5, <1>6, <1>7, <1>8, <1>9, <1>10, <1>11, <1>12 DEF TurnStep

LEMMA SchedulerKeepsType ==
  ASSUME BusTypeOK, SchedulerTypeOK, LoopsAtRoutines, SchedulerStep, now' = now
  PROVE  BusTypeOK' /\ SchedulerTypeOK' /\ LoopsAtRoutines'
<1> USE DEF BusTypeOK, SchedulerTypeOK, LoopsAtRoutines
<1>1. MaxNow \in Nat /\ Len(Cron) \in Nat /\ Len(Triggers) \in Nat
  BY SchedulerAssumption
<1>2. CASE CronWakes
  <2>1. cron' = Scan(1) /\ UNCHANGED <<executor, next_run, fired, eventLoop, bus>>
    BY <1>2 DEF CronWakes
  <2>2. /\ Scan(1) \in CronType
        /\ Scan(1).at \in {"lock", "exec"} => Scan(1).i \in 1..Len(Cron) /\ IsDue(Scan(1).i)
    BY ScanEnds
  <2>3. cron' \in CronType
    BY <2>1, <2>2
  <2>4. cron'.at \in {"lock", "exec"} => cron'.i \in 1..Len(Cron) /\ IsDue(cron.i)'
    BY <2>1, <2>2 DEF IsDue
  <2> QED
    BY <2>1, <2>3, <2>4 DEF eventLoop, bus
<1>3. CASE CronLocks
  <2>1. /\ cron.at = "lock"
        /\ cron' = [cron EXCEPT !.at = "exec"]
        /\ executor' = "cron"
        /\ UNCHANGED <<next_run, fired, eventLoop, bus>>
    BY <1>3 DEF CronLocks
  <2>2. cron' \in CronType /\ cron'.i = cron.i
    BY <2>1 DEF CronType
  <2> QED
    BY <2>1, <2>2 DEF eventLoop, bus, IsDue
<1>4. CASE CronRan
  <2>1. /\ cron.at = "exec"
        /\ executor' = "free"
        /\ fired' = [fired EXCEPT ![cron.i] = @ \cup {next_run[cron.i]}]
        /\ next_run' = [next_run EXCEPT ![cron.i] = NextAfter(cron.i, now)]
        /\ cron' = Scan(cron.i + 1)
        /\ UNCHANGED <<eventLoop, bus>>
    BY <1>4 DEF CronRan
  <2>2. PICK r \in 1..Len(Cron) : r = cron.i
    BY <2>1
  <2>3. NextAfter(r, now) \in Nat
    BY NextIsLater
  <2>4. PICK s \in CronType :
          /\ s = Scan(r + 1)
          /\ s.at \in {"sleep", "lock"}
          /\ s.at = "lock" => s.i \in (r + 1)..Len(Cron) /\ IsDue(s.i)
    <3>1. r + 1 \in Nat \ {0}
      BY <1>1
    <3>2. /\ Scan(r + 1) \in CronType
          /\ Scan(r + 1).at \in {"sleep", "lock"}
          /\ Scan(r + 1).at = "lock" =>
               Scan(r + 1).i \in (r + 1)..Len(Cron) /\ IsDue(Scan(r + 1).i)
      BY <3>1, ScanEnds
    <3> QED
      BY <3>2
  <2>5. next_run' \in [1..Len(Cron) -> Nat] /\ fired' \in [1..Len(Cron) -> SUBSET Nat]
    BY <2>1, <2>2, <2>3
  <2>6. s.at = "lock" => IsDue(s.i)'
    <3>1. s.at = "lock" => s.i \in 1..Len(Cron) /\ s.i # r /\ IsDue(s.i)
      BY <1>1, <2>4
    <3> QED
      BY <2>1, <2>2, <3>1 DEF IsDue
  <2>7. cron' = s
    BY <2>1, <2>2, <2>4
  <2>8. cron'.at \in {"lock", "exec"} => cron'.i \in 1..Len(Cron) /\ IsDue(cron.i)'
    BY <1>1, <2>4, <2>6, <2>7 DEF IsDue
  <2> QED
    BY <2>1, <2>5, <2>7, <2>8 DEF eventLoop, bus
<1>5. CASE Receives
  <2>1. /\ unread # <<>>
        /\ unread' = Tail(unread)
        /\ Reacts(1, Head(unread))
        /\ UNCHANGED <<lagged, executor, cronLoop, reacted>>
    BY <1>5 DEF Receives
  <2>2. Head(unread) \in Variants /\ Tail(unread) \in Seq(Variants)
        /\ Len(Tail(unread)) <= Capacity
    BY <2>1, BusAssumption
  <2>3. /\ listener' \in ListenerType
        /\ listener'.at \in {"recv", "lock"}
        /\ listener'.at = "lock" => listener'.i \in 1..Len(Triggers)
        /\ last' \in [1..Len(Triggers) -> Int]
    BY <2>1, <2>2, ReactsEnds
  <2> QED
    BY <2>1, <2>2, <2>3 DEF cronLoop, IsDue
<1>6. CASE ReceivesLagged
  <2>1. /\ lagged' = FALSE
        /\ listener' = LoopTop
        /\ UNCHANGED <<unread, executor, cronLoop, last, reacted>>
    BY <1>6 DEF ReceivesLagged
  <2>2. LoopTop \in ListenerType /\ LoopTop.at = "recv"
    BY <1>1 DEF LoopTop, ListenerAt, ListenerType
  <2>3. listener' \in ListenerType /\ listener'.at = "recv"
    BY <2>1, <2>2
  <2> QED
    BY <2>1, <2>3 DEF cronLoop, IsDue
<1>7. CASE ListenerLocks
  <2>1. /\ listener.at = "lock"
        /\ listener' = [listener EXCEPT !.at = "exec"]
        /\ executor' = "event"
        /\ UNCHANGED <<cronLoop, last, reacted, bus>>
    BY <1>7 DEF ListenerLocks
  <2>2. listener' \in ListenerType /\ listener'.i = listener.i
    BY <2>1 DEF ListenerType
  <2> QED
    BY <2>1, <2>2 DEF cronLoop, bus, IsDue
<1>8. CASE ListenerRan
  <2>1. /\ listener.at = "exec"
        /\ executor' = "free"
        /\ reacted' = [reacted EXCEPT ![listener.i] = last[listener.i]]
        /\ Reacts(listener.i + 1, listener.event)
        /\ UNCHANGED <<cronLoop, bus>>
    BY <1>8 DEF ListenerRan
  <2>2. listener.i + 1 \in Nat \ {0} /\ listener.event \in Variants \cup {"none"}
    BY <1>1, <2>1 DEF ListenerType
  <2>3. /\ listener' \in ListenerType
        /\ listener'.at \in {"recv", "lock"}
        /\ listener'.at = "lock" => listener'.i \in 1..Len(Triggers)
        /\ last' \in [1..Len(Triggers) -> Int]
    BY <2>1, <2>2, ReactsEnds
  <2>4. reacted' \in [1..Len(Triggers) -> Int]
    BY <2>1
  <2> QED
    BY <2>1, <2>3, <2>4 DEF cronLoop, bus, IsDue
<1> QED
  BY <1>2, <1>3, <1>4, <1>5, <1>6, <1>7, <1>8 DEF SchedulerStep

-----------------------------------------------------------------------------
(* Exclusion and occurrences.                                              *)

\* A loop takes the executor only when it is free, and a loop that ends its
\* routine leaves the executor before it frees it.
LEMMA SchedulerExcludes ==
  ASSUME SchedulerTypeOK, OneRoutineAtATime, SchedulerStep
  PROVE  OneRoutineAtATime'
<1> USE DEF OneRoutineAtATime
<1>1. CASE CronWakes
  <2>1. cron'.at \in {"sleep", "lock"}
    BY <1>1, ScanEnds DEF CronWakes, SchedulerTypeOK
  <2> QED
    BY <1>1, <2>1 DEF CronWakes, eventLoop
<1>2. CASE CronLocks
  BY <1>2 DEF CronLocks, eventLoop
<1>3. CASE CronRan
  <2>1. cron.i + 1 \in Nat \ {0}
    BY SchedulerAssumption DEF SchedulerTypeOK, CronType
  <2>2. cron'.at \in {"sleep", "lock"}
    BY <1>3, <2>1, ScanEnds DEF CronRan, SchedulerTypeOK
  <2> QED
    BY <1>3, <2>2 DEF CronRan, eventLoop
<1>4. CASE Receives \/ ListenerRan
  <2>1. listener'.at \in {"recv", "lock"}
    BY <1>4 DEF Receives, ListenerRan, Reacts, LoopTop, ListenerAt
  <2> QED
    BY <1>4, <2>1 DEF Receives, ListenerRan, cronLoop
<1>5. CASE ReceivesLagged
  BY <1>5 DEF ReceivesLagged, LoopTop, ListenerAt, cronLoop
<1>6. CASE ListenerLocks
  BY <1>6 DEF ListenerLocks, cronLoop
<1> QED
  BY <1>1, <1>2, <1>3, <1>4, <1>5, <1>6 DEF SchedulerStep

\* A run's occurrence is due, and the next one is later than the run.
LEMMA SchedulerRunsOnce ==
  ASSUME SchedulerTypeOK, LoopsAtRoutines, OccurrencesRunOnce, SchedulerStep
  PROVE  OccurrencesRunOnce'
<1>1. CASE UNCHANGED <<next_run, fired>>
  BY <1>1 DEF OccurrencesRunOnce
<1>2. CASE CronRan
  <2>1. PICK r \in 1..Len(Cron) :
          /\ next_run[r] <= now
          /\ fired' = [fired EXCEPT ![r] = @ \cup {next_run[r]}]
          /\ next_run' = [next_run EXCEPT ![r] = NextAfter(r, now)]
    BY <1>2 DEF CronRan, LoopsAtRoutines, IsDue
  <2>2. NextAfter(r, now) \in Nat /\ NextAfter(r, now) > now
    BY NextIsLater DEF SchedulerTypeOK
  <2>3. \A d \in fired[r] : d \in Nat /\ d < next_run[r]
    BY DEF OccurrencesRunOnce, SchedulerTypeOK
  <2>4. next_run[r] \in Nat /\ now \in Nat
    BY DEF SchedulerTypeOK
  <2>5. \A d \in fired'[r] : d < next_run'[r]
    <3>1. fired'[r] = fired[r] \cup {next_run[r]} /\ next_run'[r] = NextAfter(r, now)
      BY <2>1 DEF SchedulerTypeOK
    <3> QED
      BY <2>1, <2>2, <2>3, <2>4, <3>1
  <2>6. \A s \in 1..Len(Cron) : s # r => fired'[s] = fired[s] /\ next_run'[s] = next_run[s]
    BY <2>1 DEF SchedulerTypeOK
  <2> QED
    BY <2>5, <2>6 DEF OccurrencesRunOnce
<1> QED
  BY <1>1, <1>2 DEF SchedulerStep, CronWakes, CronLocks, Receives, ReceivesLagged,
     ListenerLocks, ListenerRan, cronLoop

-----------------------------------------------------------------------------
(* The composition.                                                        *)

LEMMA IInvInit == Init => IInv
<1> SUFFICES ASSUME Init PROVE IInv
  OBVIOUS
<1>1. TypeOK /\ LoopsAtRoutines
  BY TypeInit
<1>2. CountIsEarned
  BY DEF Init, BreakerInit, CountIsEarned
<1>3. RoundsAreLeft
  BY DEF Init, BreakerInit, RoundsAreLeft, Turn
<1>4. OneRoutineAtATime
  BY DEF Init, SchedulerInit, OneRoutineAtATime, LoopTop, ListenerAt
<1>5. OccurrencesRunOnce
  BY DEF Init, SchedulerInit, OccurrencesRunOnce
<1> QED
  BY <1>1, <1>2, <1>3, <1>4, <1>5 DEF IInv

LEMMA IInvStep == IInv /\ [Next]_vars => IInv'
<1> SUFFICES ASSUME IInv, [Next]_vars PROVE IInv'
  OBVIOUS
<1> USE DEF IInv, TypeOK
<1>1. ASSUME NEW t \in Turns, TurnNext(TurnStep(t)) PROVE IInv'
  <2>1. TurnStep(t) /\ UNCHANGED <<now, scheduler>>
    BY <1>1 DEF TurnNext
  <2>2. BusTypeOK'
    BY <2>1, TurnKeepsBus
  <2>3. BreakerTypeOK' /\ CountIsEarned' /\ RoundsAreLeft'
    BY <2>1, TurnKeepsType
  <2>4. SchedulerTypeOK' /\ LoopsAtRoutines' /\ OneRoutineAtATime' /\ OccurrencesRunOnce'
    BY <2>1 DEF scheduler, SchedulerTypeOK, LoopsAtRoutines, OneRoutineAtATime,
       OccurrencesRunOnce, IsDue
  <2> QED
    BY <2>2, <2>3, <2>4
<1>2. CASE LoopNext(SchedulerStep)
  <2>1. SchedulerStep /\ UNCHANGED <<now, breaker>>
    BY <1>2 DEF LoopNext
  <2>2. BusTypeOK' /\ SchedulerTypeOK' /\ LoopsAtRoutines'
    BY <2>1, SchedulerKeepsType
  <2>3. BreakerTypeOK' /\ CountIsEarned' /\ RoundsAreLeft'
    BY <2>1 DEF breaker, BreakerTypeOK, CountIsEarned, RoundsAreLeft
  <2>4. OneRoutineAtATime' /\ OccurrencesRunOnce'
    BY <2>1, SchedulerExcludes, SchedulerRunsOnce
  <2> QED
    BY <2>2, <2>3, <2>4
<1>3. CASE Tick
  <2>1. /\ now < MaxNow
        /\ now' = now + 1
        /\ UNCHANGED <<bus, breaker, scheduler>>
    BY <1>3 DEF Tick
  <2>2. BusTypeOK' /\ BreakerTypeOK' /\ CountIsEarned' /\ RoundsAreLeft'
    BY <2>1 DEF bus, breaker, BusTypeOK, BreakerTypeOK, CountIsEarned, RoundsAreLeft
  <2>3. now' \in 0..MaxNow
    BY <2>1, SchedulerAssumption DEF SchedulerTypeOK
  <2>4. SchedulerTypeOK'
    BY <2>1, <2>3 DEF scheduler, SchedulerTypeOK
  <2>5. LoopsAtRoutines'
    <3>1. \A r \in 1..Len(Cron) : next_run[r] <= now => next_run[r] <= now + 1
      BY DEF SchedulerTypeOK
    <3> QED
      BY <2>1, <3>1 DEF scheduler, LoopsAtRoutines, IsDue
  <2>6. OneRoutineAtATime' /\ OccurrencesRunOnce'
    BY <2>1 DEF scheduler, OneRoutineAtATime, OccurrencesRunOnce
  <2> QED
    BY <2>2, <2>4, <2>5, <2>6
<1>4. CASE UNCHANGED vars
  BY <1>4 DEF vars, bus, breaker, scheduler, BusTypeOK, BreakerTypeOK, SchedulerTypeOK,
     LoopsAtRoutines, RoundsAreLeft, CountIsEarned, OneRoutineAtATime, OccurrencesRunOnce, IsDue
<1> QED
  BY <1>1, <1>2, <1>3, <1>4 DEF Next

\* Whatever the interleaving of turns and loops, counters, channel and loops
\* keep their types and the channel its capacity.
THEOREM EventTypesCorrect == Spec => []TypeOK
<1>1. IInv => TypeOK
  BY DEF IInv
<1> QED
  BY <1>1, IInvInit, IInvStep, PTL DEF Spec

\* The mutex of start_with_events: a cron routine and an event routine never
\* run at once.
THEOREM RoutinesExclude == Spec => []OneRoutineAtATime
<1>1. IInv => OneRoutineAtATime
  BY DEF IInv
<1> QED
  BY <1>1, IInvInit, IInvStep, PTL DEF Spec

\* update_next_run: an occurrence of a schedule is run at most once.
THEOREM OccurrencesAreRunOnce == Spec => []OccurrencesRunOnce
<1>1. IInv => OccurrencesRunOnce
  BY DEF IInv
<1> QED
  BY <1>1, IInvInit, IInvStep, PTL DEF Spec

\* CHORD_FAILURE_COUNT: however turns interleave their counts and resets, the
\* circuit opens only after Threshold failures without a counted success.
THEOREM ThresholdIsReached == Spec => OpensAfterThreshold
<1>1. IInv /\ [Next]_vars =>
        [\A t \in Turns : turn[t].at # "open" /\ turn'[t].at = "open" => streak' >= Threshold]_vars
  <2> SUFFICES ASSUME IInv, Next, NEW t \in Turns, turn[t].at # "open", turn'[t].at = "open"
               PROVE  streak' >= Threshold
    OBVIOUS
  <2>1. ASSUME NEW u \in Turns, TurnStep(u) PROVE streak' >= Threshold
    <3>1. /\ turn \in [Turns -> TurnType]
          /\ failures \in Nat /\ streak \in Nat /\ failures <= streak
          /\ Threshold \in Nat
      BY BreakerAssumption DEF IInv, TypeOK, BreakerTypeOK, CountIsEarned
    <3>2. turn[u] \in TurnType /\ turn[u].next \in {"idle", "route"}
      BY <3>1 DEF TurnType
    <3>3. ~UNCHANGED turn
      OBVIOUS
    <3>4. \A to : turn' = [turn EXCEPT ![u] = to] => to.at = "open" /\ turn[u].at # "open"
      BY <3>1
    <3>5. \A pc : Turn(pc).at = pc
      BY DEF Turn
    <3>6. ASSUME NEW next \in {"idle", "route"}, ChordFails(u, next) PROVE streak' >= Threshold
      <4>1. CASE failures + 1 >= Threshold
        BY <3>1, <3>6, <4>1 DEF ChordFails
      <4>2. CASE ~(failures + 1 >= Threshold)
        <5>1. turn' = [turn EXCEPT ![u] = Turn(next)]
          BY <3>6, <4>2 DEF ChordFails, Goto
        <5>2. Turn(next).at = next
          BY <3>5
        <5> QED
          BY <3>4, <5>1, <5>2
      <4> QED
        BY <4>1, <4>2
    <3>7. ~StartTurn(u) /\ ~AgenticAnswers(u) /\ ~ChatAnswers(u)
      BY <3>4, <3>5 DEF StartTurn, AgenticAnswers, ChatAnswers, Goto
    <3>8. ~Route(u)
      BY <3>4, <3>5 DEF Route, Goto
    <3>9. ~ResetCount(u)
      BY <3>2, <3>4, <3>5 DEF ResetCount, Goto
    <3>10. ~RateLimited(u)
      BY <3>3 DEF RateLimited
    <3>11. ~ToolsAnswer(u)
      <4>1. [turn[u] EXCEPT !.at = "calling"].at = "calling"
        BY <3>2 DEF TurnType
      <4>2. SUFFICES ASSUME ToolsAnswer(u) PROVE FALSE
        OBVIOUS
      <4>3. CASE Goto(u, Turn("idle"))
        BY <3>4, <3>5, <4>3 DEF Goto
      <4>4. CASE Goto(u, [turn[u] EXCEPT !.at = "calling"])
        BY <3>4, <4>1, <4>4 DEF Goto
      <4> QED
        BY <4>2, <4>3, <4>4 DEF ToolsAnswer
    <3>12. ~ToolsRun(u)
      <4>1. [turn[u] EXCEPT !.at = "tools", !.calls = @ + 1].at = "tools"
        BY <3>2 DEF TurnType
      <4> QED
        BY <3>4, <4>1 DEF ToolsRun, Goto
    <3>13. ~OpenCircuit(u)
      BY <3>4 DEF OpenCircuit, Goto
    <3> QED
      BY <2>1, <3>6, <3>7, <3>8, <3>9, <3>10, <3>11, <3>12, <3>13
         DEF TurnStep, AgenticFails, LegacyFails
  <2>2. CASE UNCHANGED breaker
    BY <2>2 DEF breaker
  <2> QED
    BY <2>1, <2>2 DEF Next, TurnNext, LoopNext, Tick
<1> QED
  BY <1>1, IInvInit, IInvStep, PTL DEF Spec, OpensAfterThreshold
=============================================================================
