-------------------------- MODULE DailyRateLimiter --------------------------
(***************************************************************************)
(* The lock-free request limiter of a news adapter                         *)
(* (crates/lumina-core/src/feeds/news.rs, RateLimiter): two atomics, a     *)
(* count and the day of its last reset, used by any number of fetches at   *)
(* once.  Every atomic operation of try_acquire is one step.               *)
(*                                                                         *)
(* A relaxed load may return an older day; the compare-exchange that       *)
(* follows then fails, as it does here when another call came first.       *)
(***************************************************************************)
EXTENDS Integers, FiniteSets

CONSTANTS
  Calls,           \* Fetches that can be inside try_acquire at once
  Limit,           \* Requests per day, 100 in the adapters
  Modulus,         \* 2^64: the values of an AtomicU64
  MaxDay           \* Bound: the clock

ASSUME LimiterAssumption ==
  /\ IsFiniteSet(Calls)
  /\ Limit \in Nat
  /\ Modulus \in Nat
  /\ Limit + Cardinality(Calls) < Modulus
  /\ MaxDay \in Nat

VARIABLES
  day,             \* unix_day()
  count,           \* RateLimiter.count
  last_reset_day,  \* RateLimiter.last_reset_day
  call,            \* call[c]: where c is in try_acquire, and its locals
  (* history: what the properties compare the state with *)
  granted,         \* requests allowed since the count was last stored
  resets,          \* resets[d]: stores of 0 for day d
  disturbed        \* whether a call counted across another call's reset

past == <<granted, resets, disturbed>>
vars == <<day, count, last_reset_day, call, granted, resets, disturbed>>

-----------------------------------------------------------------------------
Outside == [at |-> "outside"]

At(pc) == {c \in Calls : call[c].at = pc}

Goto(c, next) == call' = [call EXCEPT ![c] = next]

Init ==
  /\ day = 0
  /\ count = 0
  /\ last_reset_day = 0
  /\ call = [c \in Calls |-> Outside]
  /\ granted = 0
  /\ resets = [d \in 0..MaxDay |-> 0]
  /\ disturbed = FALSE

\* let today = unix_day();
Enter(c) ==
  /\ call[c] = Outside
  /\ Goto(c, [at |-> "load", today |-> day])
  /\ UNCHANGED <<day, count, last_reset_day, past>>

Load(c) ==
  /\ call[c].at = "load"
  /\ Goto(c, IF call[c].today > last_reset_day
               THEN [at |-> "swap", today |-> call[c].today, prev_day |-> last_reset_day]
               ELSE [at |-> "add", today |-> call[c].today])
  /\ UNCHANGED <<day, count, last_reset_day, past>>

\* compare_exchange: only the call that moves the day resets the count.
Swap(c) ==
  /\ call[c].at = "swap"
  /\ IF last_reset_day = call[c].prev_day
       THEN /\ last_reset_day' = call[c].today
            /\ Goto(c, [at |-> "store", today |-> call[c].today])
       ELSE /\ Goto(c, [at |-> "add", today |-> call[c].today])
            /\ UNCHANGED last_reset_day
  /\ UNCHANGED <<day, count, past>>

\* count.store(0): the increments and decrements it runs across are forgotten.
Store(c) ==
  /\ call[c].at = "store"
  /\ count' = 0
  /\ Goto(c, [at |-> "add", today |-> call[c].today])
  /\ granted' = 0
  /\ resets' = [resets EXCEPT ![call[c].today] = @ + 1]
  /\ disturbed' = (disturbed \/ At("sub") # {})
  /\ UNCHANGED <<day, last_reset_day>>

\* fetch_add: below the limit the request is allowed.
Add(c) ==
  /\ call[c].at = "add"
  /\ count' = (count + 1) % Modulus
  /\ IF count < Limit
       THEN /\ Goto(c, Outside)
            /\ granted' = granted + 1
       ELSE /\ Goto(c, [at |-> "sub", today |-> call[c].today])
            /\ UNCHANGED granted
  /\ disturbed' = (disturbed \/ At("store") # {})
  /\ UNCHANGED <<day, last_reset_day, resets>>

\* Wrong: a refused call leaves its increment behind.
SubForgotten(c) ==
  /\ call[c].at = "sub"
  /\ Goto(c, Outside)
  /\ UNCHANGED <<day, count, last_reset_day, past>>

\* Wrong: the counter is a signed integer.
SubSigned(c) ==
  /\ call[c].at = "sub"
  /\ count' = count - 1
  /\ Goto(c, Outside)
  /\ disturbed' = (disturbed \/ At("store") # {})
  /\ UNCHANGED <<day, last_reset_day, granted, resets>>

\* fetch_sub: the refused call takes its increment back.
Sub(c) ==
  /\ call[c].at = "sub"
  /\ count' = (count - 1) % Modulus
  /\ Goto(c, Outside)
  /\ disturbed' = (disturbed \/ At("store") # {})
  /\ UNCHANGED <<day, last_reset_day, granted, resets>>

Midnight ==
  /\ day < MaxDay
  /\ day' = day + 1
  /\ UNCHANGED <<count, last_reset_day, call, past>>

TryAcquire(c) == Enter(c) \/ Load(c) \/ Swap(c) \/ Store(c) \/ Add(c) \/ Sub(c)

Next == Midnight \/ \E c \in Calls : TryAcquire(c)

Spec == Init /\ [][Next]_vars

-----------------------------------------------------------------------------
(* What the limiter promises.                                              *)

CallType(me) ==
  \/ me = Outside
  \/ me \in [at : {"load", "store", "add", "sub"}, today : 0..MaxDay]
  \/ me \in [at : {"swap"}, today : 0..MaxDay, prev_day : 0..MaxDay]

\* The type invariant: atomics hold 64-bit values, calls their locals.
TypeOK ==
  /\ day \in 0..MaxDay
  /\ count \in 0..(Modulus - 1)
  /\ last_reset_day \in 0..MaxDay
  /\ DOMAIN call = Calls
  /\ \A c \in Calls : CallType(call[c])
  /\ granted \in Nat
  /\ resets \in [0..MaxDay -> Nat]
  /\ disturbed \in BOOLEAN

\* news.rs:141 "CAS to avoid double-reset in concurrent calls": whatever the
\* calls that see a new day do, its count is stored once.
ResetOncePerDay ==
  \A d \in 0..MaxDay :
    resets[d] + Cardinality({c \in At("store") : call[c].today = d}) <= 1

\* Unless a call counted across a reset, the count is exact: the requests
\* allowed since the reset and the increments that are still to be taken back;
\* so any number of callers get Limit requests between them and no more.
CountIsExact ==
  ~disturbed =>
    /\ granted <= Limit
    /\ At("store") = {} => count = granted + Cardinality(At("sub"))

-----------------------------------------------------------------------------
(* What a comment says and the code does not do.                           *)

\* news.rs:135 "Returns `false` when the daily limit is already reached": when
\* no call is under way and today's reset is done, the next call is refused only
\* if today's requests are used up.
RefusesOnlyAtLimit ==
  /\ \A c \in Calls : call[c] = Outside
  /\ last_reset_day = day
  /\ count >= Limit
  => granted >= Limit
=============================================================================
