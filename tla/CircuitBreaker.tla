---------------------------- MODULE CircuitBreaker ----------------------------
(***************************************************************************)
(* The consecutive-failure counter of the chat turns                       *)
(* (crates/lumina-core/src/agent_loop.rs, CHORD_FAILURE_COUNT): concurrent *)
(* turns ask Chord, first its agentic endpoint, then the legacy tool loop  *)
(* or the router; every atomic operation on the counter is one step, and   *)
(* every answer of Chord counts when the counter hears of it.              *)
(***************************************************************************)
EXTENDS EventBus

CONSTANTS
  Turns,           \* Turns that can run at once
  Agentic,         \* CHORD_AGENTIC_MODE
  Threshold,       \* CHORD_FAIL_THRESHOLD
  MaxCalls,        \* mcp_max_tool_calls: rounds of the tool loop
  MaxTurns         \* Bound: turns started

ASSUME BreakerAssumption ==
  /\ {"CircuitOpen", "ToolFailure", "RateLimitHit"} \subseteq Variants
  /\ Agentic \in BOOLEAN
  /\ Threshold \in Nat
  /\ MaxCalls \in Nat
  /\ MaxTurns \in Nat

VARIABLES
  failures,        \* CHORD_FAILURE_COUNT
  turn,            \* turn[t]: where turn t is
  started,         \* turns started
  (* history: what the properties compare the count with *)
  streak           \* failures since the last answer that resets the count

breaker == <<failures, turn, started, streak>>

-----------------------------------------------------------------------------
\* next: where a turn goes on after it opened the circuit; calls: its rounds.
Turn(pc) == [at |-> pc, next |-> "idle", calls |-> 0]

Opening(next) == [at |-> "open", next |-> next, calls |-> 0]

Goto(t, to) == turn' = [turn EXCEPT ![t] = to]

BreakerInit ==
  /\ failures = 0
  /\ turn = [t \in Turns |-> Turn("idle")]
  /\ started = 0
  /\ streak = 0

StartTurn(t) ==
  /\ turn[t].at = "idle"
  /\ started < MaxTurns
  /\ started' = started + 1
  /\ Goto(t, Turn(IF Agentic THEN "agentic" ELSE "route"))
  /\ UNCHANGED <<failures, streak, bus>>

\* check_global_rate_limit refuses the turn.
RateLimited(t) ==
  /\ turn[t].at = "idle"
  /\ started < MaxTurns
  /\ started' = started + 1
  /\ Emits(<<"RateLimitHit">>)
  /\ UNCHANGED <<failures, turn, streak>>

\* The agentic answer ends the turn, with an event if Chord blocked a tool.
AgenticAnswers(t) ==
  /\ turn[t].at = "agentic"
  /\ Goto(t, Turn("idle"))
  /\ UNCHANGED bus \/ Emits(<<"ToolFailure">>)
  /\ UNCHANGED <<failures, started, streak>>

\* fetch_add, and its result compared with the threshold.
ChordFails(t, next) ==
  /\ failures' = failures + 1
  /\ Goto(t, IF failures + 1 >= Threshold THEN Opening(next) ELSE Turn(next))
  /\ streak' = streak + 1
  /\ UNCHANGED <<started, bus>>

\* The agentic endpoint fails: the turn falls through to the legacy path.
AgenticFails(t) == turn[t].at = "agentic" /\ ChordFails(t, "route")

\* classify: a tool request, a chat, or a template answer without Chord.
Route(t) ==
  /\ turn[t].at = "route"
  /\ \E path \in {"tools", "chat", "idle"} : Goto(t, Turn(path))
  /\ UNCHANGED <<failures, started, streak, bus>>

\* The legacy endpoints fail: the turn ends with the error.
LegacyFails(t) == turn[t].at \in {"tools", "chat"} /\ ChordFails(t, "idle")

\* An answer that resets the count.
Answered == failures' = 0 /\ streak' = 0

\* Wrong: the tool loop does not reset the count.
ToolsAnswerUncounted(t) ==
  /\ turn[t].at = "tools"
  /\ \/ Goto(t, Turn("idle"))
     \/ /\ turn[t].calls < MaxCalls
        /\ Goto(t, [turn[t] EXCEPT !.at = "calling"])
  /\ streak' = 0
  /\ UNCHANGED <<failures, started, bus>>

\* The final text, or tool calls while rounds are left.
ToolsAnswer(t) ==
  /\ turn[t].at = "tools"
  /\ Answered
  /\ \/ Goto(t, Turn("idle"))
     \/ /\ turn[t].calls < MaxCalls
        /\ Goto(t, [turn[t] EXCEPT !.at = "calling"])
  /\ UNCHANGED <<started, bus>>

\* The tools of a round run; one that fails is reported, once or twice.
ToolsRun(t) ==
  /\ turn[t].at = "calling"
  /\ Goto(t, [turn[t] EXCEPT !.at = "tools", !.calls = @ + 1])
  /\ \E n \in 0..2 : Emits([i \in 1..n |-> "ToolFailure"])
  /\ UNCHANGED <<failures, started, streak>>

ChatAnswers(t) ==
  /\ turn[t].at = "chat"
  /\ Answered
  /\ Goto(t, Turn("idle"))
  /\ UNCHANGED <<started, bus>>

\* Wrong: the event goes out only when no other turn has failed meanwhile.
OpenCircuitAlone(t) ==
  /\ turn[t].at = "open"
  /\ IF failures = Threshold THEN Emits(<<"CircuitOpen">>) ELSE UNCHANGED bus
  /\ Goto(t, [turn[t] EXCEPT !.at = "reset"])
  /\ UNCHANGED <<failures, started, streak>>

\* emit_event(CircuitOpen)
OpenCircuit(t) ==
  /\ turn[t].at = "open"
  /\ Emits(<<"CircuitOpen">>)
  /\ Goto(t, [turn[t] EXCEPT !.at = "reset"])
  /\ UNCHANGED <<failures, started, streak>>

\* store(0), after whatever other turns have counted since.
ResetCount(t) ==
  /\ turn[t].at = "reset"
  /\ failures' = 0
  /\ Goto(t, Turn(turn[t].next))
  /\ UNCHANGED <<started, streak, bus>>

TurnStep(t) ==
  \/ StartTurn(t) \/ RateLimited(t)
  \/ AgenticAnswers(t) \/ AgenticFails(t)
  \/ Route(t)
  \/ ToolsAnswer(t) \/ ToolsRun(t) \/ ChatAnswers(t) \/ LegacyFails(t)
  \/ OpenCircuit(t) \/ ResetCount(t)

-----------------------------------------------------------------------------
TurnType == [at : {"idle", "agentic", "route", "tools", "calling", "chat", "open", "reset"},
             next : {"idle", "route"}, calls : 0..MaxCalls]

BreakerTypeOK ==
  /\ failures \in Nat
  /\ turn \in [Turns -> TurnType]
  /\ started \in 0..MaxTurns
  /\ streak \in Nat
=============================================================================
