------------------------------- MODULE EventBus -------------------------------
(***************************************************************************)
(* The event bus (crates/lumina-core/src/scheduler/events.rs): a tokio     *)
(* broadcast channel with one subscriber, the scheduler's event loop.      *)
(* A receiver that is more than Capacity events behind loses the oldest    *)
(* and is told so by its next recv.                                        *)
(***************************************************************************)
EXTENDS Integers, Sequences

CONSTANTS
  Variants,        \* EventType, payloads left out
  Capacity         \* 256 in the code

ASSUME BusAssumption == Capacity \in Nat \ {0}

VARIABLES
  unread,          \* Events the event loop has not received
  lagged           \* Whether recv returns Lagged next

bus == <<unread, lagged>>

BusInit == unread = <<>> /\ lagged = FALSE

\* Wrong: the slot being written counts as free.
NewestAndOne(q) == IF Len(q) <= Capacity + 1 THEN q
                   ELSE SubSeq(q, Len(q) - Capacity, Len(q))

\* What the ring keeps of a queue.
Newest(q) == IF Len(q) <= Capacity THEN q
                                   ELSE SubSeq(q, Len(q) - Capacity + 1, Len(q))

\* emit, once per event of the sequence vs.
Emits(vs) ==
  /\ unread' = Newest(unread \o vs)
  /\ lagged' = (lagged \/ Len(unread \o vs) > Capacity)

\* A channel never over its capacity.
BusTypeOK ==
  /\ unread \in Seq(Variants)
  /\ Len(unread) <= Capacity
  /\ lagged \in BOOLEAN
=============================================================================
