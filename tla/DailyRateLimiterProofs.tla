----------------------- MODULE DailyRateLimiterProofs -----------------------
(***************************************************************************)
(* For any number of concurrent fetches, any limit and any number of days: *)
(* the limiter's types, its one reset a day, and its exact count while no  *)
(* call counts across a reset.                                             *)
(***************************************************************************)
EXTENDS DailyRateLimiter, FiniteSetTheorems, TLAPS

\* What a store of 0 for day d rests on: the day is taken once, by the
\* compare-exchange that moves last_reset_day to it.
StoresAreNew ==
  \A c \in At("store") :
    /\ call[c].today <= last_reset_day
    /\ resets[call[c].today] = 0
    /\ \A other \in At("store") : call[other].today = call[c].today => other = c

DaysAhead == \A d \in 0..MaxDay : d > last_reset_day => resets[d] = 0

SwapsMoveForward == \A c \in At("swap") : call[c].prev_day < call[c].today

ResetInv ==
  /\ StoresAreNew
  /\ DaysAhead
  /\ SwapsMoveForward
  /\ \A d \in 0..MaxDay : resets[d] <= 1

-----------------------------------------------------------------------------
(* Counters and sets of calls.                                             *)

\* The counter can hold 0.
LEMMA ModulusPositive == Modulus \in Nat \ {0}
<1>1. Cardinality(Calls) \in Nat
  BY FS_CardinalityType, LimiterAssumption
<1> QED
  BY <1>1, LimiterAssumption

\* What the AtomicU64 operations return stays in range.
LEMMA ModulusRange ==
  ASSUME NEW x \in Int
  PROVE  /\ x % Modulus \in 0..(Modulus - 1)
         /\ x \in 0..(Modulus - 1) => x % Modulus = x
  BY ModulusPositive

\* A call's locals: a day, and the day it found for a compare-exchange.
LEMMA CallFields ==
  ASSUME NEW me, CallType(me)
  PROVE  /\ me # Outside => me.today \in 0..MaxDay
         /\ me.at = "swap" => me.prev_day \in 0..MaxDay
         /\ me.at \in {"outside", "load", "swap", "store", "add", "sub"}
         /\ me.at # "outside" => me # Outside
  BY DEF CallType, Outside

\* The calls at one place are finitely many, at most all.
LEMMA AtFinite ==
  ASSUME NEW pc
  PROVE  /\ IsFiniteSet(At(pc))
         /\ Cardinality(At(pc)) \in Nat
         /\ Cardinality(At(pc)) <= Cardinality(Calls)
<1>1. At(pc) \subseteq Calls
  BY DEF At
<1>2. /\ IsFiniteSet(At(pc))
      /\ Cardinality(At(pc)) <= Cardinality(Calls)
  BY <1>1, FS_Subset, LimiterAssumption
<1> QED
  BY <1>2, FS_CardinalityType

-----------------------------------------------------------------------------
(* The type invariant.                                                     *)

LEMMA TypeInit == Init => TypeOK
<1> SUFFICES ASSUME Init PROVE TypeOK
  OBVIOUS
<1>1. \A c \in Calls : CallType(call[c])
  BY DEF Init, CallType
<1>2. count \in 0..(Modulus - 1)
  BY ModulusPositive DEF Init
<1>3. DOMAIN call = Calls /\ disturbed \in BOOLEAN
  BY DEF Init
<1>4. day \in 0..MaxDay /\ last_reset_day \in 0..MaxDay /\ granted \in Nat
  BY LimiterAssumption DEF Init
<1>5. resets \in [0..MaxDay -> Nat]
  BY DEF Init
<1> QED
  BY <1>1, <1>2, <1>3, <1>4, <1>5 DEF TypeOK

\* A call that moves on with locals of the right type keeps all calls typed.
LEMMA GotoTyped ==
  ASSUME TypeOK, NEW c \in Calls, NEW next, CallType(next), Goto(c, next)
  PROVE  DOMAIN call' = Calls /\ \A x \in Calls : CallType(call'[x])
  BY DEF TypeOK, Goto

LEMMA TypeStep == TypeOK /\ [Next]_vars => TypeOK'
<1> SUFFICES ASSUME TypeOK, [Next]_vars PROVE TypeOK'
  OBVIOUS
<1> DEFINE CallsTyped == DOMAIN call' = Calls /\ \A x \in Calls : CallType(call'[x])
<1>1. ASSUME NEW c \in Calls, Enter(c) PROVE TypeOK'
  <2>1. CallType([at |-> "load", today |-> day])
    BY DEF TypeOK, CallType
  <2>2. CallsTyped
    BY <1>1, <2>1, GotoTyped DEF Enter
  <2> QED
    BY <1>1, <2>2 DEF Enter, past, TypeOK
<1>2. ASSUME NEW c \in Calls, Load(c) PROVE TypeOK'
  <2>1. call[c].today \in 0..MaxDay
    BY <1>2, CallFields DEF Load, TypeOK, Outside
  <2>2. /\ CallType([at |-> "swap", today |-> call[c].today, prev_day |-> last_reset_day])
        /\ CallType([at |-> "add", today |-> call[c].today])
    BY <2>1 DEF TypeOK, CallType
  <2>3. CallsTyped
    BY <1>2, <2>2, GotoTyped DEF Load
  <2> QED
    BY <1>2, <2>3 DEF Load, past, TypeOK
<1>3. ASSUME NEW c \in Calls, Swap(c) PROVE TypeOK'
  <2>1. call[c].today \in 0..MaxDay
    BY <1>3, CallFields DEF Swap, TypeOK, Outside
  <2>2. /\ CallType([at |-> "store", today |-> call[c].today])
        /\ CallType([at |-> "add", today |-> call[c].today])
    BY <2>1 DEF CallType
  <2>3. CallsTyped
    BY <1>3, <2>2, GotoTyped DEF Swap
  <2>4. last_reset_day' \in 0..MaxDay
    BY <1>3, <2>1 DEF Swap, TypeOK
  <2> QED
    BY <1>3, <2>3, <2>4 DEF Swap, past, TypeOK
<1>4. ASSUME NEW c \in Calls, Store(c) PROVE TypeOK'
  <2>1. call[c].today \in 0..MaxDay
    BY <1>4, CallFields DEF Store, TypeOK, Outside
  <2>2. CallType([at |-> "add", today |-> call[c].today])
    BY <2>1 DEF CallType
  <2>3. CallsTyped
    BY <1>4, <2>2, GotoTyped DEF Store
  <2>4. count' \in 0..(Modulus - 1)
    BY <1>4, ModulusPositive DEF Store
  <2>5. resets' \in [0..MaxDay -> Nat]
    BY <1>4, <2>1 DEF Store, TypeOK
  <2>6. disturbed' \in BOOLEAN
    BY <1>4 DEF Store, TypeOK
  <2> QED
    BY <1>4, <2>3, <2>4, <2>5, <2>6 DEF Store, TypeOK
<1>5. ASSUME NEW c \in Calls, Add(c) PROVE TypeOK'
  <2>1. call[c].today \in 0..MaxDay
    BY <1>5, CallFields DEF Add, TypeOK, Outside
  <2>2. CallType([at |-> "sub", today |-> call[c].today]) /\ CallType(Outside)
    BY <2>1 DEF CallType
  <2>3. CallsTyped
    BY <1>5, <2>2, GotoTyped DEF Add
  <2>4. count' \in 0..(Modulus - 1)
    BY <1>5, ModulusRange DEF Add, TypeOK
  <2>5. granted' \in Nat
    BY <1>5 DEF Add, TypeOK
  <2>6. disturbed' \in BOOLEAN
    BY <1>5 DEF Add, TypeOK
  <2> QED
    BY <1>5, <2>3, <2>4, <2>5, <2>6 DEF Add, TypeOK
<1>6. ASSUME NEW c \in Calls, Sub(c) PROVE TypeOK'
  <2>1. CallType(Outside)
    BY DEF CallType
  <2>2. CallsTyped
    BY <1>6, <2>1, GotoTyped DEF Sub
  <2>3. count' \in 0..(Modulus - 1)
    BY <1>6, ModulusRange DEF Sub, TypeOK
  <2>4. disturbed' \in BOOLEAN
    BY <1>6 DEF Sub, TypeOK
  <2> QED
    BY <1>6, <2>2, <2>3, <2>4 DEF Sub, TypeOK
<1>7. CASE Midnight
  BY <1>7, LimiterAssumption DEF Midnight, past, TypeOK
<1>8. CASE UNCHANGED vars
  BY <1>8 DEF vars, TypeOK
<1> QED
  BY <1>1, <1>2, <1>3, <1>4, <1>5, <1>6, <1>7, <1>8 DEF Next, TryAcquire

-----------------------------------------------------------------------------
(* One reset a day.                                                        *)

\* Where a call that moves on leaves the others.
LEMMA GotoMoves ==
  ASSUME TypeOK, NEW c \in Calls, NEW next, Goto(c, next)
  PROVE  /\ call'[c] = next
         /\ \A x \in Calls : x # c => call'[x] = call[x]
         /\ \A pc : At(pc)' = IF next.at = pc THEN At(pc) \cup {c} ELSE At(pc) \ {c}
  BY DEF TypeOK, Goto, At

\* A step that starts no store and stores nothing.
LEMMA ResetsUntouched ==
  ASSUME TypeOK, ResetInv, NEW c \in Calls, NEW next,
         call[c].at # "store", next.at # "store",
         next.at = "swap" => next.prev_day < next.today,
         Goto(c, next), UNCHANGED <<last_reset_day, resets>>
  PROVE  ResetInv'
<1>1. At("store")' = At("store") /\ c \notin At("store")
  BY GotoMoves DEF At
<1>2. \A x \in At("store") : call'[x] = call[x]
  BY <1>1, GotoMoves DEF At
<1>3. StoresAreNew'
  BY <1>1, <1>2 DEF ResetInv, StoresAreNew
<1>4. SwapsMoveForward'
  BY GotoMoves DEF ResetInv, SwapsMoveForward, At
<1>5. DaysAhead'
  BY DEF ResetInv, DaysAhead
<1> QED
  BY <1>3, <1>4, <1>5 DEF ResetInv

LEMMA ResetStep == TypeOK /\ ResetInv /\ [Next]_vars => ResetInv'
<1> SUFFICES ASSUME TypeOK, ResetInv, [Next]_vars PROVE ResetInv'
  OBVIOUS
<1>1. ASSUME NEW c \in Calls, Enter(c) PROVE ResetInv'
  BY <1>1, ResetsUntouched DEF Enter, Outside, past
<1>2. ASSUME NEW c \in Calls, Load(c) PROVE ResetInv'
  <2>1. CASE call[c].today > last_reset_day
    <3> DEFINE next == [at |-> "swap", today |-> call[c].today, prev_day |-> last_reset_day]
    <3>1. Goto(c, next) /\ call[c].at # "store" /\ UNCHANGED <<last_reset_day, resets>>
      BY <1>2, <2>1 DEF Load, past
    <3>2. next.at # "store" /\ (next.at = "swap" => next.prev_day < next.today)
      <4>1. call[c].today \in 0..MaxDay /\ last_reset_day \in 0..MaxDay
        BY <1>2, CallFields DEF Load, TypeOK, Outside
      <4> QED
        BY <2>1, <4>1
    <3> QED
      BY <3>1, <3>2, ResetsUntouched
  <2>2. CASE ~(call[c].today > last_reset_day)
    BY <1>2, <2>2, ResetsUntouched DEF Load, past
  <2> QED
    BY <2>1, <2>2
<1>3. ASSUME NEW c \in Calls, Swap(c) PROVE ResetInv'
  <2>1. CASE last_reset_day = call[c].prev_day
    <3> DEFINE next == [at |-> "store", today |-> call[c].today]
    <3>1. /\ Goto(c, next)
          /\ last_reset_day' = call[c].today
          /\ resets' = resets
          /\ c \in At("swap")
          /\ c \notin At("store")
      BY <1>3, <2>1 DEF Swap, At, past
    <3>2. /\ call[c].today \in 0..MaxDay
          /\ last_reset_day \in 0..MaxDay
          /\ last_reset_day < call[c].today
      BY <1>3, <2>1, <3>1, CallFields DEF Swap, TypeOK, Outside, ResetInv, SwapsMoveForward
    <3>3. resets[call[c].today] = 0
      BY <3>2 DEF ResetInv, DaysAhead
    <3>4. /\ call'[c] = next
          /\ At("store")' = At("store") \cup {c}
          /\ At("swap")' = At("swap") \ {c}
          /\ \A x \in Calls : x # c => call'[x] = call[x]
      BY <3>1, GotoMoves
    <3>5. \A x \in At("store") : /\ call'[x] = call[x]
                                 /\ call[x].today \in 0..MaxDay
                                 /\ call[x].today <= last_reset_day
      BY <3>1, <3>4, CallFields DEF At, TypeOK, Outside, ResetInv, StoresAreNew
    <3>6. StoresAreNew'
      <4> SUFFICES ASSUME NEW x \in At("store")'
                   PROVE  /\ call'[x].today <= last_reset_day'
                          /\ resets'[call'[x].today] = 0
                          /\ \A other \in At("store")' :
                               call'[other].today = call'[x].today => other = x
        BY DEF StoresAreNew
      <4>1. CASE x = c
        BY <3>1, <3>2, <3>3, <3>4, <3>5, <4>1
      <4>2. CASE x \in At("store")
        BY <3>1, <3>2, <3>4, <3>5, <4>2 DEF ResetInv, StoresAreNew
      <4> QED
        BY <3>4, <4>1, <4>2
    <3>7. DaysAhead'
      BY <3>1, <3>2 DEF ResetInv, DaysAhead
    <3>8. SwapsMoveForward'
      BY <3>4 DEF ResetInv, SwapsMoveForward, At
    <3> QED
      BY <3>1, <3>6, <3>7, <3>8 DEF ResetInv
  <2>2. CASE last_reset_day # call[c].prev_day
    BY <1>3, <2>2, ResetsUntouched DEF Swap, past
  <2> QED
    BY <2>1, <2>2
<1>4. ASSUME NEW c \in Calls, Store(c) PROVE ResetInv'
  <2> DEFINE next == [at |-> "add", today |-> call[c].today]
  <2>1. /\ Goto(c, next)
        /\ c \in At("store")
        /\ last_reset_day' = last_reset_day
        /\ resets' = [resets EXCEPT ![call[c].today] = @ + 1]
    BY <1>4 DEF Store, At
  <2>2. /\ call[c].today \in 0..MaxDay
        /\ call[c].today <= last_reset_day
        /\ resets[call[c].today] = 0
    BY <1>4, <2>1, CallFields DEF Store, TypeOK, Outside, ResetInv, StoresAreNew
  <2>3. \A d \in 0..MaxDay : resets'[d] = IF d = call[c].today THEN 1 ELSE resets[d]
    BY <2>1, <2>2 DEF TypeOK
  <2>4. /\ At("store")' = At("store") \ {c}
        /\ At("swap")' = At("swap") \ {c}
        /\ \A x \in Calls : x # c => call'[x] = call[x]
    BY <2>1, GotoMoves
  <2>5. \A x \in At("store")' : /\ call'[x] = call[x]
                                /\ call[x].today \in 0..MaxDay
                                /\ call[x].today # call[c].today
    BY <2>1, <2>4, CallFields DEF At, TypeOK, Outside, ResetInv, StoresAreNew
  <2>6. StoresAreNew'
    BY <2>1, <2>3, <2>4, <2>5 DEF ResetInv, StoresAreNew
  <2>7. DaysAhead'
    BY <2>1, <2>2, <2>3 DEF ResetInv, DaysAhead, TypeOK
  <2>8. SwapsMoveForward'
    BY <2>4 DEF ResetInv, SwapsMoveForward, At
  <2>9. \A d \in 0..MaxDay : resets'[d] <= 1
    BY <2>3 DEF ResetInv
  <2> QED
    BY <2>6, <2>7, <2>8, <2>9 DEF ResetInv
<1>5. ASSUME NEW c \in Calls, Add(c) PROVE ResetInv'
  BY <1>5, ResetsUntouched DEF Add, Outside
<1>6. ASSUME NEW c \in Calls, Sub(c) PROVE ResetInv'
  BY <1>6, ResetsUntouched DEF Sub, Outside
<1>7. CASE UNCHANGED <<last_reset_day, call, resets>>
  BY <1>7 DEF ResetInv, StoresAreNew, DaysAhead, SwapsMoveForward, At
<1> QED
  BY <1>1, <1>2, <1>3, <1>4, <1>5, <1>6, <1>7
  DEF Next, TryAcquire, Midnight, vars, past

\* The days on which a call is about to store 0, and those it was stored for.
LEMMA ResetInvImplies == TypeOK /\ ResetInv => ResetOncePerDay
<1> SUFFICES ASSUME TypeOK, ResetInv, NEW d \in 0..MaxDay
             PROVE  resets[d] + Cardinality({c \in At("store") : call[c].today = d}) <= 1
  BY DEF ResetOncePerDay
<1> DEFINE Storing == {c \in At("store") : call[c].today = d}
<1>1. resets[d] \in {0, 1}
  BY DEF TypeOK, ResetInv
<1>2. CASE Storing = {}
  BY <1>1, <1>2, FS_EmptySet
<1>3. CASE Storing # {}
  <2>1. PICK c \in Storing : TRUE
    BY <1>3
  <2>2. Storing = {c} /\ resets[d] = 0
    BY <2>1 DEF ResetInv, StoresAreNew
  <2>3. Cardinality(Storing) = 1
    BY <2>2, FS_Singleton
  <2> QED
    BY <2>2, <2>3
<1> QED
  BY <1>2, <1>3

-----------------------------------------------------------------------------
(* The exact count.                                                        *)

\* A refused call waits in "sub": there is one more of them than before.
LEMMA OneMore ==
  ASSUME NEW pc, NEW c \in Calls, c \notin At(pc)
  PROVE  /\ Cardinality(At(pc) \cup {c}) = Cardinality(At(pc)) + 1
         /\ Cardinality(At(pc)) + 1 <= Cardinality(Calls)
<1>1. IsFiniteSet(At(pc)) /\ At(pc) \cup {c} \subseteq Calls
  BY AtFinite DEF At
<1>2. Cardinality(At(pc) \cup {c}) = Cardinality(At(pc)) + 1
  BY <1>1, FS_AddElement
<1>3. Cardinality(At(pc) \cup {c}) <= Cardinality(Calls)
  BY <1>1, FS_Subset, LimiterAssumption
<1> QED
  BY <1>2, <1>3

LEMMA OneLess ==
  ASSUME NEW pc, NEW c \in At(pc)
  PROVE  /\ Cardinality(At(pc) \ {c}) = Cardinality(At(pc)) - 1
         /\ Cardinality(At(pc)) >= 1
<1>1. IsFiniteSet(At(pc)) /\ Cardinality(At(pc)) \in Nat
  BY AtFinite
<1>2. Cardinality(At(pc) \ {c}) = Cardinality(At(pc)) - 1
  BY <1>1, FS_RemoveElement
<1>3. Cardinality(At(pc)) # 0
  BY <1>1, FS_EmptySet
<1> QED
  BY <1>1, <1>2, <1>3

LEMMA CountStep == TypeOK /\ CountIsExact /\ [Next]_vars => CountIsExact'
<1> SUFFICES ASSUME TypeOK, CountIsExact, [Next]_vars, ~disturbed'
             PROVE  /\ granted' <= Limit
                    /\ At("store")' = {} => count' = granted' + Cardinality(At("sub"))'
  BY DEF CountIsExact
<1> DEFINE Goal == /\ granted' <= Limit
                   /\ At("store")' = {} => count' = granted' + Cardinality(At("sub"))'
<1>0. /\ Cardinality(At("sub")) \in Nat
      /\ Cardinality(At("sub")) <= Cardinality(Calls)
      /\ Cardinality(Calls) \in Nat
      /\ granted \in Nat
      /\ count \in 0..(Modulus - 1)
  BY AtFinite, FS_CardinalityType, LimiterAssumption DEF TypeOK
<1>1. ASSUME NEW c \in Calls, NEW next, Goto(c, next),
             call[c].at \notin {"store", "sub"}, next.at # "sub",
             UNCHANGED <<count, granted, disturbed>>
      PROVE  Goal
  <2>1. At("sub")' = At("sub") /\ (At("store")' = {} => At("store") = {})
    BY <1>1, GotoMoves DEF At
  <2> QED
    BY <1>1, <2>1 DEF CountIsExact
<1>2. ASSUME NEW c \in Calls, Enter(c) PROVE Goal
  BY <1>1, <1>2 DEF Enter, Outside, past
<1>3. ASSUME NEW c \in Calls, Load(c) PROVE Goal
  BY <1>1, <1>3 DEF Load, past
<1>4. ASSUME NEW c \in Calls, Swap(c) PROVE Goal
  BY <1>1, <1>4 DEF Swap, past
<1>5. ASSUME NEW c \in Calls, Store(c) PROVE Goal
  <2>1. At("sub") = {} /\ count' = 0 /\ granted' = 0
    BY <1>5 DEF Store
  <2>2. At("sub")' = {}
    BY <1>5, <2>1, GotoMoves DEF Store
  <2> QED
    BY <2>1, <2>2, FS_EmptySet, LimiterAssumption
<1>6. ASSUME NEW c \in Calls, Add(c) PROVE Goal
  <2>1. At("store") = {} /\ ~disturbed /\ call[c].at = "add"
    BY <1>6 DEF Add
  <2>2. granted <= Limit /\ count = granted + Cardinality(At("sub"))
    BY <2>1 DEF CountIsExact
  <2>3. c \notin At("sub")
    BY <2>1 DEF At
  <2>4. Cardinality(At("sub")) + 1 <= Cardinality(Calls)
    BY <2>3, OneMore
  <2>5. count' = count + 1
    <3>1. count + 1 \in 0..(Modulus - 1)
      BY <1>0, <2>2, <2>4, LimiterAssumption
    <3> QED
      BY <1>6, <3>1, ModulusRange DEF Add
  <2>6. CASE count < Limit
    <3>1. Goto(c, Outside) /\ granted' = granted + 1
      BY <1>6, <2>6 DEF Add
    <3>2. At("sub")' = At("sub")
      BY <2>3, <3>1, GotoMoves DEF Outside
    <3> QED
      BY <1>0, <2>2, <2>5, <2>6, <3>1, <3>2, LimiterAssumption
  <2>7. CASE ~(count < Limit)
    <3>1. Goto(c, [at |-> "sub", today |-> call[c].today]) /\ granted' = granted
      BY <1>6, <2>7 DEF Add
    <3>2. At("sub")' = At("sub") \cup {c}
      BY <3>1, GotoMoves
    <3>3. Cardinality(At("sub"))' = Cardinality(At("sub")) + 1
      BY <2>3, <3>2, OneMore
    <3> QED
      BY <1>0, <2>2, <2>5, <3>1, <3>3
  <2> QED
    BY <2>6, <2>7
<1>7. ASSUME NEW c \in Calls, Sub(c) PROVE Goal
  <2>1. /\ At("store") = {} /\ ~disturbed /\ c \in At("sub")
        /\ Goto(c, Outside)
        /\ granted' = granted
    BY <1>7 DEF Sub, At
  <2>2. granted <= Limit /\ count = granted + Cardinality(At("sub"))
    BY <2>1 DEF CountIsExact
  <2>3. At("sub")' = At("sub") \ {c}
    BY <2>1, GotoMoves DEF Outside
  <2>4. /\ Cardinality(At("sub"))' = Cardinality(At("sub")) - 1
        /\ Cardinality(At("sub")) >= 1
    BY <2>1, <2>3, OneLess
  <2>5. count' = count - 1
    <3>1. count - 1 \in 0..(Modulus - 1)
      BY <1>0, <2>2, <2>4, ModulusPositive
    <3> QED
      BY <1>7, <3>1, ModulusRange DEF Sub
  <2> QED
    BY <1>0, <2>1, <2>2, <2>4, <2>5
<1>8. CASE UNCHANGED <<count, call, granted, disturbed>>
  BY <1>8 DEF CountIsExact, At
<1> QED
  BY <1>2, <1>3, <1>4, <1>5, <1>6, <1>7, <1>8
  DEF Next, TryAcquire, Midnight, vars, past

-----------------------------------------------------------------------------
(* The theorems.                                                           *)

\* try_acquire keeps the atomics in 64 bits and each call's locals typed.
THEOREM LimiterTypeCorrect == Spec => []TypeOK
  BY TypeInit, TypeStep, PTL DEF Spec

\* The compare-exchange of try_acquire resets the count at most once a day.
THEOREM OneResetPerDay == Spec => []ResetOncePerDay
<1>1. Init => ResetInv
  BY LimiterAssumption
  DEF Init, ResetInv, StoresAreNew, DaysAhead, SwapsMoveForward, At, Outside
<1> QED
  BY <1>1, LimiterTypeCorrect, ResetStep, ResetInvImplies, PTL DEF Spec

\* While no call counts across a reset, any number of calls are granted Limit
\* requests between two resets, and the count is their number.
THEOREM CountStaysExact == Spec => []CountIsExact
<1>1. Init => CountIsExact
  <2> SUFFICES ASSUME Init PROVE CountIsExact
    OBVIOUS
  <2>1. At("sub") = {}
    BY DEF Init, At, Outside
  <2> QED
    BY <2>1, FS_EmptySet, LimiterAssumption DEF Init, CountIsExact
<1> QED
  BY <1>1, LimiterTypeCorrect, CountStep, PTL DEF Spec
=============================================================================
