---------------------------- MODULE AgenticStream ----------------------------
(***************************************************************************)
(* The answer to an agentic turn: the events that Chord streams while it   *)
(* works, and AgenticSseState of crates/lumina-core/src/chord.rs, which    *)
(* puts the turn together from the bytes as they come in.                  *)
(*                                                                         *)
(* An event is a frame that an empty line ends.  The network delivers the  *)
(* bytes of the frames in chunks cut anywhere: of the bytes of an event    *)
(* the model keeps two parts, on one line or on two.  Chord is outside     *)
(* this repository: here it runs a tool one call at a time, and different  *)
(* tools at once.                                                          *)
(***************************************************************************)
EXTENDS Integers, Sequences, FiniteSets

CONSTANTS
  ChordTools,    \* tools that Chord may call
  MaxToolCalls,  \* calls of a turn, 5 in the request
  MaxSent,       \* Bound: events of a turn
  MaxInFlight    \* Bound: bytes on the wire

ASSUME AgenticAssumption == "none" \notin ChordTools /\ MaxSent \in Nat

VARIABLES
  sent,      \* events that Chord has sent
  wire,      \* bytes not yet delivered
  buf,       \* bytes of frames not yet complete
  exec_log,  \* the steps, as the bot records them
  alerts,    \* security events
  response,  \* whether the answer is there
  signaled,  \* tools that on_tool was called with: the bot's interim reply
  turn       \* "running", "answered", or "legacy" once the stream is given up

agenticVars == <<sent, wire, buf, exec_log, alerts, response, signaled, turn>>

-----------------------------------------------------------------------------
(* What Chord sends.                                                       *)

Started(t) == [type |-> "tool_call_started", tool |-> t, ms |-> 0, status |-> "ok"]
Finished(t, ms, status) == [type |-> "tool_call_complete", tool |-> t, ms |-> ms, status |-> status]
Plain(type) == [type |-> type, tool |-> "none", ms |-> 0, status |-> "ok"]

\* Where the calls of t start, among the first n events.
Starts(t, n) == {i \in 1..n : sent[i].type = "tool_call_started" /\ sent[i].tool = t}
Running(t) == \E i \in Starts(t, Len(sent)) : \A j \in (i + 1)..Len(sent) : sent[j].tool # t

Events ==
  {Started(t) : t \in {x \in ChordTools : ~Running(x)}}
  \cup {Finished(t, ms, status) : t \in {x \in ChordTools : Running(x)}, ms \in {0, 1},
                                  status \in {"ok", "error"}}
  \cup {Plain("security_event_occurred"), Plain("unknown"), Plain("complete")}

NewLine == [of |-> 0, part |-> 0]
Part(i, p) == [of |-> i, part |-> p]

\* A frame: its two parts, on one line or on lines of their own, and an empty line.
Frame(i, lines) ==
  IF lines = 1 THEN <<Part(i, 1), Part(i, 2), NewLine, NewLine>>
               ELSE <<Part(i, 1), NewLine, Part(i, 2), NewLine, NewLine>>

AgenticInit ==
  /\ sent = <<>>
  /\ wire = <<>>
  /\ buf = <<>>
  /\ exec_log = <<>>
  /\ alerts = 0
  /\ response = FALSE
  /\ signaled = <<>>
  /\ turn = "running"

Emit(e, lines) ==
  /\ turn = "running"
  /\ Len(sent) < MaxSent
  /\ \A i \in 1..Len(sent) : sent[i].type # "complete"
  /\ e.type = "tool_call_started" =>
       Cardinality(UNION {Starts(t, Len(sent)) : t \in ChordTools}) < MaxToolCalls
  /\ sent' = Append(sent, e)
  /\ wire' = wire \o Frame(Len(sent) + 1, lines)
  /\ Len(wire') <= MaxInFlight
  /\ UNCHANGED <<buf, exec_log, alerts, response, signaled, turn>>

-----------------------------------------------------------------------------
(* push_chunk.                                                             *)

\* Positions of the delimiter.
Delimiters == {i \in 1..(Len(buf) - 1) : buf[i] = NewLine /\ buf[i + 1] = NewLine}

\* A chunk arrives when every complete frame has been worked through.
PushChunk(k) ==
  /\ turn = "running"
  /\ Delimiters = {}
  /\ k \in 1..Len(wire)
  /\ buf' = buf \o SubSeq(wire, 1, k)
  /\ wire' = SubSeq(wire, k + 1, Len(wire))
  /\ UNCHANGED <<sent, exec_log, alerts, response, signaled, turn>>

\* Wrong: the first step of the tool that has no time yet.
FirstUntimedStep(t) ==
  {i \in 1..Len(exec_log) :
     /\ exec_log[i].tool = t /\ exec_log[i].ms = 0
     /\ \A j \in 1..(i - 1) : exec_log[j].tool = t => exec_log[j].ms # 0}

\* The last step of the tool that has no time yet, if there is one.
UntimedStep(t) ==
  {i \in 1..Len(exec_log) :
     /\ exec_log[i].tool = t /\ exec_log[i].ms = 0
     /\ \A j \in (i + 1)..Len(exec_log) : exec_log[j].tool = t => exec_log[j].ms # 0}

\* handle_frame
FoldEvent(e) ==
  /\ exec_log' = IF e.type = "tool_call_started"
                   THEN Append(exec_log, [tool |-> e.tool, ms |-> 0, status |-> "ok"])
                   ELSE [i \in 1..Len(exec_log) |->
                           IF e.type = "tool_call_complete" /\ i \in UntimedStep(e.tool)
                             THEN [tool |-> e.tool, ms |-> e.ms, status |-> e.status]
                             ELSE exec_log[i]]
  /\ signaled' = IF e.type = "tool_call_started" /\ signaled = <<>> THEN <<e.tool>> ELSE signaled
  /\ alerts' = IF e.type = "security_event_occurred" THEN alerts + 1 ELSE alerts
  /\ response' = (response \/ e.type = "complete")

\* The lines of a frame, joined, are event i.
Joins(frame, i) ==
  LET data == {k \in 1..Len(frame) : frame[k] # NewLine}
  IN  \E a, b \in data : a < b /\ data = {a, b} /\ frame[a] = Part(i, 1) /\ frame[b] = Part(i, 2)

\* The first complete frame leaves the buffer; its lines joined are an event, or
\* it is passed over.
HandleFrame ==
  /\ turn = "running"
  /\ \E d \in Delimiters :
       /\ \A other \in Delimiters : d <= other
       /\ LET frame == SubSeq(buf, 1, d - 1)
          IN  IF \E i \in 1..Len(sent) : Joins(frame, i)
                THEN \E i \in 1..Len(sent) : Joins(frame, i) /\ FoldEvent(sent[i])
                ELSE UNCHANGED <<exec_log, alerts, response, signaled>>
       /\ buf' = SubSeq(buf, d + 2, Len(buf))
  /\ UNCHANGED <<sent, wire, turn>>

\* The stream ends, and finish succeeds if the answer was seen ...
EndOfStream ==
  /\ turn = "running"
  /\ wire = <<>>
  /\ Delimiters = {}
  /\ turn' = IF response THEN "answered" ELSE "legacy"
  /\ UNCHANGED <<sent, wire, buf, exec_log, alerts, response, signaled>>

\* ... or it breaks, and the turn starts over in the legacy loop, whatever was seen.
StreamBreaks ==
  /\ turn = "running"
  /\ Delimiters = {}
  /\ turn' = "legacy"
  /\ UNCHANGED <<sent, wire, buf, exec_log, alerts, response, signaled>>

AgenticNext ==
  \/ \E e \in Events, lines \in {1, 2} : Emit(e, lines)
  \/ \E k \in 1..Len(wire) : PushChunk(k)
  \/ HandleFrame
  \/ EndOfStream
  \/ StreamBreaks

AgenticSpec == AgenticInit /\ [][AgenticNext]_agenticVars

-----------------------------------------------------------------------------
(* What the parser promises.                                               *)

\* The type invariant.
AgenticTypeOK ==
  /\ sent \in Seq([type : {"tool_call_started", "tool_call_complete", "security_event_occurred",
                           "unknown", "complete"},
                   tool : ChordTools \cup {"none"}, ms : Nat, status : {"ok", "error"}])
  /\ exec_log \in Seq([tool : ChordTools, ms : Nat, status : {"ok", "error"}])
  /\ alerts \in 0..MaxSent
  /\ response \in BOOLEAN
  /\ signaled \in Seq(ChordTools)
  /\ turn \in {"running", "answered", "legacy"}

\* Events none of whose bytes is on the wire or in the buffer.
Handled ==
  {i \in 1..Len(sent) : /\ \A j \in 1..Len(wire) : wire[j].of # i
                        /\ \A j \in 1..Len(buf) : buf[j].of # i}

\* What became of the call that event i of n starts: the first answer of its tool.
Outcome(i, n) ==
  LET answers == {j \in (i + 1)..n : sent[j].type = "tool_call_complete" /\ sent[j].tool = sent[i].tool}
      first == CHOOSE j \in answers : \A k \in answers : j <= k
  IN  [tool |-> sent[i].tool,
       ms |-> IF answers = {} THEN 0 ELSE sent[first].ms,
       status |-> IF answers = {} THEN "ok" ELSE sent[first].status]

\* The log, the alerts, the answer and the interim reply after the first n events:
\* the steps are the calls started, in their order, each with its outcome.
FoldedUpTo(n) ==
  LET calls == {i \in 1..n : sent[i].type = "tool_call_started"}
  IN  /\ \E call \in [1..Len(exec_log) -> calls] :
           /\ \A i \in calls : \E c \in 1..Len(exec_log) : call[c] = i
           /\ \A c, d \in 1..Len(exec_log) : c < d => call[c] < call[d]
           /\ \A c \in 1..Len(exec_log) : exec_log[c] = Outcome(call[c], n)
           /\ signaled = IF calls = {} THEN <<>> ELSE <<sent[call[1]].tool>>
      /\ alerts = Cardinality({i \in 1..n : sent[i].type = "security_event_occurred"})
      /\ response <=> \E i \in 1..n : sent[i].type = "complete"

\* chord.rs:589 "Bytes that don't yet form a complete frame stay buffered": however
\* the stream is cut, the parser has seen exactly the events whose frames are
\* complete, in order; its log holds, call by call, what Chord said of that call,
\* a call of 0 ms among others of its tool too; and on_tool fired for the first
\* tool started, and for no other.
LogTellsTheCalls == Handled = 1..Cardinality(Handled) /\ FoldedUpTo(Cardinality(Handled))
=============================================================================
