---------------------------- MODULE ChordProofs ----------------------------
(***************************************************************************)
(* What goes to Chord and comes from it: a turn's routing and the          *)
(* consolidation of a sleeping user's memory, which share the deep model,  *)
(* and the stream that an agentic turn is read from; for any number of     *)
(* turns, runs, events and bytes at once.                                  *)
(***************************************************************************)
EXTENDS ModelRouting, SleepTime, AgenticStream, ArithmeticProofs, FiniteSetTheorems, TLAPS

-----------------------------------------------------------------------------
(***************************************************************************)
(* The fast model returns: the deep model is never loaded without a turn   *)
(* that will restore the fast one, whatever Chord answers and however      *)
(* turns overlap.                                                          *)
(***************************************************************************)

RequestState ==
  [at : {"rest", "swap", "call", "answered", "second swap", "deep call", "restore"},
   deepFirst : BOOLEAN,
   mayEscalate : BOOLEAN]

\* The first swap is made by turns that go to the deep model first, and a turn that
\* is over owes nothing; this makes FastModelReturns inductive.
Shaped(s) ==
  /\ s.at = "swap" => s.deepFirst
  /\ s.at = "rest" => ~s.deepFirst
Owing(s) == s.deepFirst \/ s.at \in {"deep call", "restore"}

RoutingInv ==
  /\ RoutingTypeOK
  /\ \A r \in Requests : Shaped(request[r])
  /\ FastModelReturns

LEMMA RestingForms == Resting \in RequestState /\ ~Owing(Resting) /\ Shaped(Resting)
  BY DEF Resting, RequestState, Owing, Shaped

LEMMA InitRouting == RoutingInit => RoutingInv
<1> SUFFICES ASSUME RoutingInit PROVE RoutingInv
  OBVIOUS
<1>1. request \in [Requests -> RequestState] /\ \A r \in Requests : Shaped(request[r])
  BY RestingForms DEF RoutingInit
<1>2. late \in 0..MaxLate
  BY RoutingAssumption DEF RoutingInit
<1>. QED BY <1>1, <1>2 DEF RoutingInit, RoutingInv, RoutingTypeOK, RequestState, FastModelReturns

\* The argument for a step of r: the deep model is loaded afterwards only if it
\* is stranded, or r will restore the fast one, or it was loaded before and r did
\* not owe anything.
LEMMA Debt ==
  ASSUME RoutingInv, NEW r \in Requests, NEW next \in RequestState, Shaped(next),
         request' = [request EXCEPT ![r] = next],
         gpu' \in {"fast", "deep"}, late' \in 0..MaxLate, stranded' \in BOOLEAN,
         gpu' = "deep" =>
           \/ stranded'
           \/ Owing(next)
           \/ gpu = "deep" /\ (stranded => stranded') /\ ~Owing(request[r])
  PROVE  RoutingInv'
<1>1. request \in [Requests -> RequestState]
  BY DEF RoutingInv, RoutingTypeOK, RequestState
<1>2. request' \in [Requests -> RequestState] /\ request'[r] = next
      /\ \A q \in Requests \ {r} : request'[q] = request[q]
  BY <1>1
<1>3. \A q \in Requests : Shaped(request'[q])
  BY <1>2 DEF RoutingInv
<1>4. RoutingTypeOK'
  BY <1>2 DEF RoutingTypeOK, RequestState
<1>5. ASSUME gpu' = "deep", ~stranded' PROVE \E q \in Requests : Owing(request'[q])
  <2>1. CASE Owing(next)
    BY <1>2, <2>1
  <2>2. CASE ~Owing(next)
    <3>1. gpu = "deep" /\ ~stranded /\ ~Owing(request[r])
      BY <1>5, <2>2
    <3>2. PICK q \in Requests : Owing(request[q])
      BY <3>1 DEF RoutingInv, FastModelReturns, Owes, Owing
    <3>. QED BY <1>2, <3>1, <3>2
  <2>. QED BY <2>1, <2>2
<1>6. FastModelReturns'
  BY <1>5 DEF FastModelReturns, Owes, Owing
<1>. QED BY <1>3, <1>4, <1>6 DEF RoutingInv

LEMMA OverdueForms ==
  ASSUME late \in 0..MaxLate, Overdue
  PROVE  late' \in 0..MaxLate
  BY RoutingAssumption DEF Overdue

\* What Chord is asked for leaves the model loaded or not, and a load to come.
LEMMA AskedForms ==
  ASSUME RoutingInv, AskForDeep
  PROVE  gpu' \in {"fast", "deep"} /\ late' \in 0..MaxLate /\ stranded' \in BOOLEAN
         /\ (stranded => stranded')
<1>0. late \in 0..MaxLate /\ stranded \in BOOLEAN /\ gpu \in {"fast", "deep"}
  BY DEF RoutingInv, RoutingTypeOK
<1>1. CASE LoadModel("deep", FALSE) /\ UNCHANGED late
  BY <1>0, <1>1 DEF LoadModel
<1>2. CASE UNCHANGED <<gpu, late, stranded>>
  BY <1>0, <1>2
<1>3. CASE Overdue /\ UNCHANGED <<gpu, stranded>>
  <2>1. late' \in 0..MaxLate
    BY <1>0, <1>3, OverdueForms
  <2>. QED BY <1>0, <1>3, <2>1
<1>. QED BY <1>1, <1>2, <1>3 DEF AskForDeep

\* Where a step of r that only moves on leaves it.
LEMMA MovedForms ==
  ASSUME RoutingInv, NEW r \in Requests, NEW where, Proceed(r, where),
         where \in {"call", "answered", "second swap", "deep call", "restore"}
  PROVE  \E next \in RequestState :
           /\ request' = [request EXCEPT ![r] = next]
           /\ Shaped(next)
           /\ next.at = where
           /\ next.deepFirst = request[r].deepFirst
<1> DEFINE next == [request[r] EXCEPT !.at = where]
<1>1. request[r] \in RequestState
  BY DEF RoutingInv, RoutingTypeOK, RequestState
<1>2. next \in RequestState /\ next.at = where /\ next.deepFirst = request[r].deepFirst
  BY <1>1 DEF RequestState
<1>3. Shaped(next)
  BY <1>2 DEF Shaped
<1>4. request' = [request EXCEPT ![r] = next]
  BY DEF Proceed
<1>. QED BY <1>2, <1>3, <1>4

LEMMA StepRouting ==
  ASSUME RoutingInv, NEW r \in Requests, RouterStep(r)
  PROVE  RoutingInv'
<1>0. /\ request[r] \in RequestState /\ Shaped(request[r])
      /\ gpu \in {"fast", "deep"} /\ late \in 0..MaxLate /\ stranded \in BOOLEAN
  BY DEF RoutingInv, RoutingTypeOK, RequestState
<1>1. CASE Route(r)
  <2>1. PICK deepFirst \in BOOLEAN, mayEscalate \in BOOLEAN :
          request' = [request EXCEPT ![r] = [at |-> IF deepFirst THEN "swap" ELSE "call",
                                             deepFirst |-> deepFirst,
                                             mayEscalate |-> mayEscalate]]
    BY <1>1 DEF Route
  <2> DEFINE next == [at |-> IF deepFirst THEN "swap" ELSE "call",
                      deepFirst |-> deepFirst, mayEscalate |-> mayEscalate]
  <2>2. next \in RequestState /\ Shaped(next)
    BY DEF RequestState, Shaped
  <2>3. ~Owing(request[r]) /\ UNCHANGED <<gpu, late, stranded>>
    BY <1>0, <1>1 DEF Route, InRouter, Shaped, Owing
  <2> HIDE DEF next
  <2>. QED BY <1>0, <2>1, <2>2, <2>3, Debt DEF next
<1>2. CASE SwapForDeep(r, "swap", "call")
  <2>1. PICK next \in RequestState :
          /\ request' = [request EXCEPT ![r] = next]
          /\ Shaped(next) /\ next.deepFirst = request[r].deepFirst
    BY <1>2, MovedForms DEF SwapForDeep
  <2>2. Owing(next)
    BY <1>0, <1>2, <2>1 DEF SwapForDeep, InRouter, Shaped, Owing
  <2>. QED BY <1>2, <2>1, <2>2, AskedForms, Debt DEF SwapForDeep
<1>3. CASE FirstCall(r)
  <2>1. PICK next \in RequestState :
          /\ request' = [request EXCEPT ![r] = next]
          /\ Shaped(next) /\ next.deepFirst = request[r].deepFirst
    BY <1>3, MovedForms DEF FirstCall
  <2>2. CASE request[r].deepFirst
    BY <1>3, <2>1, <2>2, AskedForms, Debt DEF FirstCall, Owing
  <2>3. CASE ~request[r].deepFirst
    <3>1. ~Owing(request[r])
      BY <1>3, <2>3 DEF FirstCall, InRouter, Owing
    <3>2. CASE LoadModel("fast", FALSE)
      BY <1>0, <1>3, <2>1, <2>3, <3>1, <3>2, Debt DEF FirstCall, LoadModel
    <3>3. CASE UNCHANGED <<gpu, stranded>>
      BY <1>0, <1>3, <2>1, <2>3, <3>1, <3>3, Debt DEF FirstCall
    <3>. QED BY <1>3, <2>3, <3>2, <3>3 DEF FirstCall
  <2>. QED BY <2>2, <2>3
<1>4. CASE FirstCallFails(r) \/ Confident(r)
  <2>0. InRouter(r, "answered") /\ UNCHANGED <<gpu, late, stranded>>
    BY <1>4 DEF FirstCallFails, Confident
  <2>1. CASE request[r].deepFirst
    <3>1. Proceed(r, "restore")
      BY <1>4, <2>1 DEF FirstCallFails, Confident
    <3>2. PICK next \in RequestState :
            request' = [request EXCEPT ![r] = next] /\ Shaped(next) /\ next.at = "restore"
      BY <3>1, MovedForms
    <3>. QED BY <1>0, <2>0, <3>2, Debt DEF Owing
  <2>2. CASE ~request[r].deepFirst
    <3>1. Finish(r) /\ ~Owing(request[r])
      BY <1>4, <2>0, <2>2 DEF FirstCallFails, Confident, InRouter, Owing
    <3>. QED BY <1>0, <2>0, <3>1, RestingForms, Debt DEF Finish
  <2>. QED BY <2>1, <2>2
<1>5. CASE Escalate(r)
  <2>0. InRouter(r, "answered") /\ UNCHANGED <<gpu, late, stranded>>
    BY <1>5 DEF Escalate
  <2>1. PICK next \in RequestState :
          /\ request' = [request EXCEPT ![r] = next]
          /\ Shaped(next) /\ next.deepFirst = request[r].deepFirst
    <3>1. Proceed(r, "deep call") \/ Proceed(r, "second swap")
      BY <1>5 DEF Escalate
    <3>. QED BY <3>1, MovedForms
  <2>2. Owing(request[r]) => Owing(next)
    BY <2>0, <2>1 DEF InRouter, Owing
  <2>. QED BY <1>0, <2>0, <2>1, <2>2, Debt
<1>6. CASE SwapForDeep(r, "second swap", "deep call") \/ DeepCall(r)
  <2>0. PICK where \in {"deep call", "restore"} : Proceed(r, where)
    BY <1>6 DEF SwapForDeep, DeepCall
  <2>1. PICK next \in RequestState :
          /\ request' = [request EXCEPT ![r] = next]
          /\ Shaped(next)
          /\ next.at = where
    <3>1. where \in {"call", "answered", "second swap", "deep call", "restore"}
      OBVIOUS
    <3>2. \E next \in RequestState :
            /\ request' = [request EXCEPT ![r] = next]
            /\ Shaped(next)
            /\ next.at = where
            /\ next.deepFirst = request[r].deepFirst
      BY <2>0, <3>1, MovedForms
    <3>. QED BY <3>2
  <2>2. AskForDeep
    BY <1>6 DEF SwapForDeep, DeepCall
  <2>3. Owing(next)
    BY <2>1 DEF Owing
  <2>. QED BY <2>1, <2>2, <2>3, AskedForms, Debt
<1>7. CASE RestoreFast(r)
  <2>1. CASE LoadModel("fast", FALSE)
    BY <1>0, <1>7, <2>1, RestingForms, Debt DEF RestoreFast, Finish, LoadModel
  <2>2. CASE stranded' = (gpu = "deep") /\ UNCHANGED gpu
    BY <1>0, <1>7, <2>2, RestingForms, Debt DEF RestoreFast, Finish
  <2>. QED BY <1>7, <2>1, <2>2 DEF RestoreFast
<1>8. CASE DropRequest(r)
  <2>1. late' \in 0..MaxLate
    BY <1>0, <1>8, OverdueForms DEF DropRequest
  <2>2. stranded' = (gpu = "deep" /\ (stranded \/ Owing(request[r]))) /\ UNCHANGED gpu
    BY <1>8 DEF DropRequest, Owes, Owing
  <2>3. stranded' \in BOOLEAN
    BY <2>2
  <2>. QED BY <1>0, <1>8, <2>1, <2>2, <2>3, RestingForms, Debt DEF DropRequest, Finish
<1>. QED BY <1>1, <1>2, <1>3, <1>4, <1>5, <1>6, <1>7, <1>8 DEF RouterStep

LEMMA NextRouting == RoutingInv /\ [RoutingNext]_routingVars => RoutingInv'
<1> SUFFICES ASSUME RoutingInv, [RoutingNext]_routingVars PROVE RoutingInv'
  OBVIOUS
<1>1. ASSUME UNCHANGED request, gpu' \in {"fast", "deep"}, late' \in 0..MaxLate,
             stranded' \in BOOLEAN, gpu' = "deep" => stranded'
      PROVE  RoutingInv'
  BY <1>1 DEF RoutingInv, RoutingTypeOK, Shaped, FastModelReturns
<1>2. CASE LateSwap
  <2>1. late \in 0..MaxLate
    BY DEF RoutingInv, RoutingTypeOK
  <2>2. late' \in 0..MaxLate
    BY <1>2, <2>1, RoutingAssumption DEF LateSwap
  <2>3. gpu' = "deep" /\ stranded' = TRUE /\ UNCHANGED request
    BY <1>2 DEF LateSwap, LoadModel
  <2>. QED BY <1>1, <2>2, <2>3
<1>3. CASE UnwrappedCall
  <2>1. late' \in 0..MaxLate
    BY <1>3 DEF UnwrappedCall, RoutingInv, RoutingTypeOK
  <2>. QED BY <1>1, <1>3, <2>1 DEF UnwrappedCall, LoadModel
<1>4. CASE \E r \in Requests : RouterStep(r)
  BY <1>4, StepRouting
<1>5. CASE UNCHANGED routingVars
  BY <1>5 DEF routingVars, RoutingInv, RoutingTypeOK, Shaped, FastModelReturns, Owes
<1>. QED BY <1>2, <1>3, <1>4, <1>5 DEF RoutingNext

\* Turns, late answers and the loaded model keep their types, for any number of turns.
THEOREM RoutingTypeCorrect == RoutingSpec => []RoutingTypeOK
<1>1. RoutingInv => RoutingTypeOK
  BY DEF RoutingInv
<1>. QED BY <1>1, InitRouting, NextRouting, PTL DEF RoutingSpec

\* For any number of turns at once the deep model does not stay loaded without a
\* turn that will restore the fast one, unless it was left behind knowingly.
THEOREM FastModelAlwaysReturns == RoutingSpec => []FastModelReturns
<1>1. RoutingInv => FastModelReturns
  BY DEF RoutingInv
<1>. QED BY <1>1, InitRouting, NextRouting, PTL DEF RoutingSpec

-----------------------------------------------------------------------------
(***************************************************************************)
(* Consolidation: layers are rebuilt with the deep model loaded, where no  *)
(* run released the other's model; and the file of a user's queue holds    *)
(* what is queued and not resolved, where no save went over a newer one or *)
(* was cut short.                                                          *)
(***************************************************************************)

SleepRun ==
  [kind : {"none", "nightly", "weekly", "immediate"},
   at : {"not started", "traits", "tuning", "ensure", "deep step", "rebuilding",
         "opinions", "reflexa", "resolving", "log", "done"},
   user : SleepUsers]
QueueSave ==
  [at : {"none", "loaded", "emptied"}, user : SleepUsers,
   loaded : SUBSET Actions, text : SUBSET Actions, resolved : SUBSET Actions]

\* A run that was told the model is there finds it there until it has rebuilt.
ModelHeld ==
  \A r \in ConsolidationRuns :
    RunAt(r, "deep step") \/ RunAt(r, "rebuilding") => resident \/ r \in evicted

\* The types of the queues and the copies of them.
QueueTypes ==
  /\ queue \in [SleepUsers -> SUBSET Actions]
  /\ saves \in [Savers -> QueueSave]
  /\ owed \in [SleepUsers -> SUBSET Actions]
  /\ overtaken \subseteq Savers
  /\ unreadable \subseteq SleepUsers
  /\ spoiled \subseteq SleepUsers

SameFile(s, q) == saves[s].user = saves[q].user

\* A copy of a queue that no save has overtaken is the queue, and no save is under way.
CopiesFresh ==
  \A s \in Savers \ overtaken :
    saves[s].at = "loaded" =>
      /\ saves[s].loaded = queue[saves[s].user]
      /\ saves[s].user \notin unreadable
      /\ \A q \in Savers : SameFile(s, q) => saves[q].at # "emptied"

\* What a save will write is what it leaves unresolved, and what it adds.
TextsRight ==
  \A s \in Savers :
    /\ saves[s].at = "loaded" /\ s = QueueingTurn => saves[s].loaded \subseteq saves[s].text
    /\ saves[s].at = "emptied" =>
         saves[s].text \cap saves[s].loaded = saves[s].loaded \ saves[s].resolved

\* A file that is not spoiled is emptied by one save at a time.
OneEmpties ==
  \A s \in Savers :
    saves[s].at = "emptied" /\ saves[s].user \notin spoiled =>
      /\ queue[saves[s].user] = {}
      /\ \A q \in Savers : saves[q].at = "emptied" /\ SameFile(s, q) => q = s

\* What is owed to the user is in the file, or in the hands of the save that emptied it.
DebtsAreKept ==
  \A u \in SleepUsers \ spoiled : \A a \in Actions :
    a \in owed[u] <=> \/ a \in queue[u]
                     \/ \E s \in Savers : /\ saves[s].at = "emptied"
                                          /\ saves[s].user = u
                                          /\ a \in saves[s].loaded

QueueInv ==
  QueueTypes /\ CopiesFresh /\ TextsRight /\ OneEmpties /\ DebtsAreKept /\ unreadable \subseteq spoiled

SleepInv == SleepTypeOK /\ ModelHeld /\ QueueInv

-----------------------------------------------------------------------------
LEMMA SleepConstants ==
  /\ 1 \in SleepUsers
  /\ NotYet \in SleepRun
  /\ NoSave \in QueueSave
  /\ QueueingTurn \in Savers /\ QueueingTurn \notin ConsolidationRuns
  /\ ConsolidationRuns \subseteq Savers
  /\ \A u \in SleepUsers : u < LastUser => u + 1 \in SleepUsers
BY SleepAssumption DEF SleepUsers, NotYet, SleepRun, NoSave, QueueSave, Savers, QueueingTurn

SleepParts ==
  /\ QueueTypes
  /\ run \in [ConsolidationRuns -> SleepRun]
  /\ lease \in ConsolidationRuns \cup {NoRun}
  /\ resident \in BOOLEAN
  /\ evicted \subseteq ConsolidationRuns
  /\ \A r \in ConsolidationRuns :
       /\ run[r].at \in {"tuning", "rebuilding"} <=> lease = r
       /\ run[r].at = "resolving" <=> saves[r].at # "none"

LEMMA SleepTypes == SleepTypeOK <=> SleepParts
<1>1. unreadable \cup spoiled \subseteq SleepUsers
        <=> unreadable \subseteq SleepUsers /\ spoiled \subseteq SleepUsers
  OBVIOUS
<1>. QED BY <1>1 DEF SleepTypeOK, SleepParts, QueueTypes, QueueSave, SleepRun, RunAt, SavesAt

LEMMA SleepTypesNext == SleepParts' => SleepTypeOK'
BY DEF SleepTypeOK, SleepParts, QueueTypes, QueueSave, SleepRun, RunAt, SavesAt

LEMMA DebtsAreQueued == QueueInv => QueuedActionsAreKept
<1> SUFFICES ASSUME QueueTypes, DebtsAreKept, unreadable \subseteq spoiled, NEW u \in SleepUsers \ spoiled
             PROVE  /\ u \notin unreadable
                    /\ owed[u] = queue[u] \cup UNION {saves[s].loaded : s \in SavesOn(u, "emptied")}
  BY DEF QueuedActionsAreKept, QueueInv
<1>1. owed[u] \subseteq Actions /\ queue[u] \subseteq Actions
  BY DEF QueueTypes
<1>2. \A s \in Savers : saves[s].loaded \subseteq Actions
  BY DEF QueueTypes, QueueSave
<1>3. \A s : s \in SavesOn(u, "emptied") <=> s \in Savers /\ saves[s].at = "emptied" /\ saves[s].user = u
  BY DEF SavesOn, SavesAt
<1>4. \A a : a \in UNION {saves[s].loaded : s \in SavesOn(u, "emptied")} <=>
              \E s \in Savers : saves[s].at = "emptied" /\ saves[s].user = u /\ a \in saves[s].loaded
  BY <1>3
<1>. QED BY <1>1, <1>2, <1>4 DEF DebtsAreKept

LEMMA InitSleep == SleepInit => SleepInv
<1> SUFFICES ASSUME SleepInit PROVE SleepInv
  OBVIOUS
<1> USE SleepConstants DEF SleepInit
<1>1. /\ run \in [ConsolidationRuns -> SleepRun] /\ \A r \in ConsolidationRuns : run[r] = NotYet
      /\ saves \in [Savers -> QueueSave] /\ \A s \in Savers : saves[s] = NoSave
  OBVIOUS
<1>2. lease = NoRun /\ \A r \in ConsolidationRuns : lease # r
  BY SleepAssumption
<1>3. QueueTypes
  BY <1>1 DEF QueueTypes
<1>4. SleepTypeOK
  BY <1>1, <1>2, <1>3, SleepTypes DEF SleepParts, NotYet, NoSave
<1>5. ModelHeld /\ CopiesFresh /\ TextsRight /\ OneEmpties
  BY <1>1 DEF ModelHeld, CopiesFresh, TextsRight, OneEmpties, RunAt, NotYet, NoSave
<1>6. DebtsAreKept
  BY <1>1 DEF DebtsAreKept, NoSave
<1>. QED BY <1>3, <1>4, <1>5, <1>6 DEF SleepInv, QueueInv

LEMMA QueueStays == QueueInv /\ UNCHANGED queueVars => QueueInv'
BY DEF QueueInv, queueVars, QueueTypes, CopiesFresh, TextsRight, OneEmpties, DebtsAreKept, SameFile

\* How a step of r that leaves the queues alone keeps the invariant: next is r's
\* new record.
LEMMA RunMoves ==
  ASSUME SleepInv, NEW r \in ConsolidationRuns, NEW next \in SleepRun,
         run' = [run EXCEPT ![r] = next], UNCHANGED queueVars,
         run[r].at # "resolving", next.at # "resolving",
         resident' \in BOOLEAN, evicted' \subseteq ConsolidationRuns,
         lease' = (IF next.at \in {"tuning", "rebuilding"} THEN r
                   ELSE IF lease = r THEN NoRun ELSE lease),
         next.at \in {"tuning", "rebuilding"} => lease \in {r, NoRun},
         \A q \in ConsolidationRuns :
           run'[q].at \in {"deep step", "rebuilding"} => resident' \/ q \in evicted'
  PROVE  SleepInv'
<1>0. /\ QueueTypes
      /\ run \in [ConsolidationRuns -> SleepRun]
      /\ lease \in ConsolidationRuns \cup {NoRun}
      /\ \A q \in ConsolidationRuns :
           /\ run[q].at \in {"tuning", "rebuilding"} <=> lease = q
           /\ run[q].at = "resolving" <=> saves[q].at # "none"
  BY SleepTypes DEF SleepInv, SleepParts
<1>1. /\ run' \in [ConsolidationRuns -> SleepRun]
      /\ run'[r] = next
      /\ \A q \in ConsolidationRuns \ {r} : run'[q] = run[q]
  BY <1>0
<1>2. QueueInv' /\ saves' = saves
  BY QueueStays DEF queueVars, SleepInv
<1>3. /\ lease' \in ConsolidationRuns \cup {NoRun}
      /\ \A q \in ConsolidationRuns : run'[q].at \in {"tuning", "rebuilding"} <=> lease' = q
  BY <1>0, <1>1, SleepAssumption
<1>4. \A q \in ConsolidationRuns : run'[q].at = "resolving" <=> saves'[q].at # "none"
  BY <1>0, <1>1, <1>2
<1>5. SleepTypeOK'
  BY <1>0, <1>1, <1>2, <1>3, <1>4, SleepTypesNext DEF SleepParts, QueueInv
<1>6. ModelHeld'
  BY DEF ModelHeld, RunAt
<1>. QED BY <1>2, <1>5, <1>6 DEF SleepInv

\* The steps of a run outside the reflexa queue.
LEMMA ModelSteps ==
  ASSUME SleepInv, NEW r \in ConsolidationRuns,
         \/ StartRun(r)
         \/ BeginStep(r, "traits", "tuning")
         \/ TuneTraits(r)
         \/ EnsureModel(r)
         \/ BeginStep(r, "deep step", "rebuilding")
         \/ Rebuild(r)
         \/ FormOpinions(r)
         \/ AppendLog(r)
  PROVE  SleepInv'
<1>0. /\ run \in [ConsolidationRuns -> SleepRun] /\ run[r] \in SleepRun
      /\ SleepTypeOK /\ ModelHeld
  BY SleepTypes DEF SleepInv, SleepParts
<1>1. /\ resident \in BOOLEAN /\ evicted \subseteq ConsolidationRuns /\ run[r].at # "resolving"
      /\ \A q \in ConsolidationRuns : run[q].at \in {"tuning", "rebuilding"} <=> lease = q
      /\ \A q \in ConsolidationRuns :
           run[q].at \in {"deep step", "rebuilding"} => resident \/ q \in evicted
      /\ r # NoRun
  BY <1>0, SleepTypes, SleepAssumption
     DEF SleepParts, ModelHeld, RunAt, StartRun, BeginStep, TuneTraits, EnsureModel, Rebuild, FormOpinions,
         AppendLog
<1>2. ASSUME NEW where \in {"tuning", "ensure", "deep step", "rebuilding", "opinions",
                            "reflexa", "log", "done"},
             MoveRun(r, where)
      PROVE  \E next \in SleepRun : next.at = where /\ run' = [run EXCEPT ![r] = next]
  <2>1. [run[r] EXCEPT !.at = where] \in SleepRun
    BY <1>0 DEF SleepRun
  <2>. QED BY <1>0, <1>2, <2>1 DEF MoveRun, SleepRun
<1>3. CASE StartRun(r)
  <2>1. PICK kind \in {"nightly", "weekly", "immediate"} :
          run' = [run EXCEPT ![r] = [NotYet EXCEPT !.kind = kind, !.at = FirstStep(kind)]]
    BY <1>3 DEF StartRun
  <2> DEFINE next == [NotYet EXCEPT !.kind = kind, !.at = FirstStep(kind)]
  <2>2. next \in SleepRun /\ next.at \in {"traits", "ensure"}
    BY SleepConstants DEF SleepRun, FirstStep, NotYet
  <2>3. lease # r /\ UNCHANGED <<lease, resident, queueVars, evicted>>
    BY <1>1, <1>3 DEF StartRun, RunAt, guarded
  <2>. HIDE DEF next
  <2>. QED BY <1>0, <1>1, <2>1, <2>2, <2>3, RunMoves DEF next
<1>4. CASE BeginStep(r, "traits", "tuning")
  <2>1. PICK next \in SleepRun : next.at = "tuning" /\ run' = [run EXCEPT ![r] = next]
    BY <1>2, <1>4 DEF BeginStep
  <2>. QED BY <1>0, <1>1, <1>4, <2>1, RunMoves DEF BeginStep
<1>5. CASE TuneTraits(r)
  <2>1. PICK next \in SleepRun : next.at = "ensure" /\ run' = [run EXCEPT ![r] = next]
    BY <1>2, <1>5 DEF TuneTraits
  <2>2. lease = r
    BY <1>1, <1>5 DEF TuneTraits, RunAt
  <2>. QED BY <1>0, <1>1, <1>5, <2>1, <2>2, RunMoves DEF TuneTraits
<1>6. CASE EnsureModel(r)
  <2>1. PICK ok \in BOOLEAN : /\ resident' = (resident \/ ok)
                              /\ MoveRun(r, IF ok THEN "deep step" ELSE AfterDeepStep(r))
    BY <1>6 DEF EnsureModel
  <2>2. AfterDeepStep(r) \in {"reflexa", "opinions", "log"}
    BY DEF AfterDeepStep
  <2>3. PICK next \in SleepRun : /\ next.at = IF ok THEN "deep step" ELSE AfterDeepStep(r)
                                 /\ run' = [run EXCEPT ![r] = next]
    BY <1>2, <2>1, <2>2
  <2>4. lease # r /\ UNCHANGED <<lease, queueVars>> /\ evicted' = evicted \ {r}
    BY <1>1, <1>6 DEF EnsureModel, RunAt
  <2>5. \A q \in ConsolidationRuns :
          run'[q].at \in {"deep step", "rebuilding"} => resident' \/ q \in evicted'
    BY <1>0, <1>1, <2>1, <2>2, <2>3, <2>4
  <2>. QED BY <1>1, <2>1, <2>2, <2>3, <2>4, <2>5, RunMoves
<1>7. CASE BeginStep(r, "deep step", "rebuilding")
  <2>1. PICK next \in SleepRun : next.at = "rebuilding" /\ run' = [run EXCEPT ![r] = next]
    BY <1>2, <1>7 DEF BeginStep
  <2>. QED BY <1>0, <1>1, <1>7, <2>1, RunMoves DEF BeginStep, RunAt
<1>8. CASE Rebuild(r)
  <2>1. AfterDeepStep(r) \in {"reflexa", "opinions", "log"}
    BY DEF AfterDeepStep
  <2>2. PICK next \in SleepRun : next.at = AfterDeepStep(r) /\ run' = [run EXCEPT ![r] = next]
    BY <1>2, <1>8, <2>1 DEF Rebuild
  <2>3. lease = r /\ lease' = NoRun /\ UNCHANGED queueVars
    BY <1>1, <1>8 DEF Rebuild, RunAt
  <2>4. resident' = FALSE /\ evicted' = {q \in ConsolidationRuns \ {r} : run[q].at = "deep step"}
    BY <1>8 DEF Rebuild, RunAt
  <2>5. \A q \in ConsolidationRuns :
          run'[q].at \in {"deep step", "rebuilding"} => q \in evicted'
    BY <1>0, <1>1, <2>1, <2>2, <2>3, <2>4
  <2>. QED BY <1>1, <2>1, <2>2, <2>3, <2>4, <2>5, RunMoves
<1>9. CASE FormOpinions(r)
  <2>1. PICK next \in SleepRun : next.at = "log" /\ run' = [run EXCEPT ![r] = next]
    BY <1>2, <1>9 DEF FormOpinions
  <2>2. lease # r /\ UNCHANGED <<lease, resident, queueVars, evicted>>
    BY <1>1, <1>9 DEF FormOpinions, RunAt, guarded
  <2>. QED BY <1>0, <1>1, <2>1, <2>2, RunMoves
<1>10. CASE AppendLog(r)
  <2>1. \E next \in SleepRun : /\ next.at \in {"traits", "ensure", "done"}
                               /\ run' = [run EXCEPT ![r] = next]
    <3>1. CASE /\ run[r].user < LastUser
               /\ run' = [run EXCEPT ![r] = [NotYet EXCEPT !.kind = run[r].kind,
                                                           !.user = run[r].user + 1,
                                                           !.at = FirstStep(run[r].kind)]]
      <4>1. run[r].user \in SleepUsers /\ run[r].kind \in {"none", "nightly", "weekly", "immediate"}
        BY <1>0 DEF SleepRun
      <4>2. run[r].user + 1 \in SleepUsers
        BY <3>1, <4>1, SleepConstants
      <4> DEFINE next == [NotYet EXCEPT !.kind = run[r].kind, !.user = run[r].user + 1,
                                        !.at = FirstStep(run[r].kind)]
      <4>3. FirstStep(run[r].kind) \in {"traits", "ensure"}
        BY DEF FirstStep
      <4>4. next \in SleepRun /\ next.at \in {"traits", "ensure"}
        BY <4>1, <4>2, <4>3 DEF SleepRun, NotYet
      <4>. QED BY <3>1, <4>4
    <3>2. CASE run' = [run EXCEPT ![r] = [NotYet EXCEPT !.kind = run[r].kind, !.at = "done"]]
      BY <1>0, <3>2, SleepConstants DEF SleepRun, NotYet
    <3>. QED BY <1>10, <3>1, <3>2 DEF AppendLog
  <2>2. PICK next \in SleepRun : /\ next.at \in {"traits", "ensure", "done"}
                                 /\ run' = [run EXCEPT ![r] = next]
    BY <2>1
  <2>3. lease # r /\ UNCHANGED <<lease, resident, queueVars, evicted>>
    BY <1>1, <1>10 DEF AppendLog, RunAt, guarded
  <2>. QED BY <1>0, <1>1, <2>2, <2>3, RunMoves
<1>. QED BY <1>3, <1>4, <1>5, <1>6, <1>7, <1>8, <1>9, <1>10

-----------------------------------------------------------------------------
(* The reflexa queue.                                                      *)

\* A copy is taken: what the file holds, and stale if a save is under way.
LEMMA LoadKeeps ==
  ASSUME QueueInv, NEW s \in Savers, NEW u \in SleepUsers, NEW text \in SUBSET Actions,
         s = QueueingTurn => queue[u] \subseteq text,
         saves[s].at = "none", LoadCopy(s, u, text), UNCHANGED <<queue, unreadable, owed, spoiled>>
  PROVE  QueueInv' /\ saves'[s].at = "loaded" /\ \A q \in Savers \ {s} : saves'[q] = saves[q]
<1> DEFINE copy == [NoSave EXCEPT !.at = "loaded", !.user = u, !.loaded = queue[u], !.text = text]
<1>0. QueueTypes /\ CopiesFresh /\ TextsRight /\ OneEmpties /\ DebtsAreKept
  BY DEF QueueInv
<1>1. /\ copy \in QueueSave /\ copy.at = "loaded" /\ copy.user = u /\ copy.loaded = queue[u]
      /\ copy.text = text
  BY <1>0, SleepConstants DEF QueueTypes, QueueSave, NoSave
<1>2. saves' = [saves EXCEPT ![s] = copy] /\ u \notin unreadable
  BY DEF LoadCopy
<1>. HIDE DEF copy
<1>3. /\ saves' \in [Savers -> QueueSave] /\ saves'[s] = copy
      /\ \A q \in Savers \ {s} : saves'[q] = saves[q]
  BY <1>0, <1>1, <1>2 DEF QueueTypes
<1>4. /\ overtaken \subseteq overtaken' /\ overtaken' \subseteq Savers
      /\ s \notin overtaken' => \A q \in Savers : saves[q].at = "emptied" => saves[q].user # u
  BY <1>0 DEF LoadCopy, SavesOn, SavesAt, QueueTypes
<1>5. QueueTypes'
  BY <1>0, <1>3, <1>4 DEF QueueTypes
<1>6. CopiesFresh'
  <2> SUFFICES ASSUME NEW c \in Savers \ overtaken', saves'[c].at = "loaded"
               PROVE  /\ saves'[c].loaded = queue[saves'[c].user]
                      /\ saves'[c].user \notin unreadable
                      /\ \A q \in Savers : saves'[c].user = saves'[q].user => saves'[q].at # "emptied"
    BY DEF CopiesFresh, SameFile
  <2>1. CASE c = s
    BY <1>1, <1>2, <1>3, <1>4, <2>1
  <2>2. CASE c # s
    BY <1>0, <1>1, <1>3, <1>4, <2>2 DEF CopiesFresh, SameFile
  <2>. QED BY <2>1, <2>2
<1>7. TextsRight'
  BY <1>0, <1>1, <1>3 DEF TextsRight
<1>8. OneEmpties'
  BY <1>0, <1>1, <1>3 DEF OneEmpties, SameFile
<1>9. DebtsAreKept'
  <2>1. \A q \in Savers : saves'[q].at = "emptied" => q # s /\ saves'[q] = saves[q]
    BY <1>1, <1>3
  <2>2. \A q \in Savers : saves[q].at = "emptied" => q # s /\ saves'[q] = saves[q]
    BY <1>3
  <2>. QED BY <1>0, <2>1, <2>2 DEF DebtsAreKept
<1>. QED BY <1>1, <1>3, <1>5, <1>6, <1>7, <1>8, <1>9 DEF QueueInv

\* A copy is given up.
LEMMA DropKeeps ==
  ASSUME QueueInv, NEW s \in Savers, saves[s].at = "loaded", DropCopy(s)
  PROVE  QueueInv' /\ saves'[s].at = "none" /\ \A q \in Savers \ {s} : saves'[q] = saves[q]
<1>0. QueueTypes /\ CopiesFresh /\ TextsRight /\ OneEmpties /\ DebtsAreKept
  BY DEF QueueInv
<1>1. /\ saves' \in [Savers -> QueueSave] /\ saves'[s].at = "none"
      /\ \A q \in Savers \ {s} : saves'[q] = saves[q]
  BY <1>0, SleepConstants DEF DropCopy, QueueTypes, NoSave
<1>2. overtaken' = overtaken \ {s} /\ UNCHANGED <<queue, unreadable, owed, spoiled>>
  BY DEF DropCopy
<1>3. QueueTypes'
  BY <1>0, <1>1, <1>2 DEF QueueTypes
<1>4. CopiesFresh'
  BY <1>0, <1>1, <1>2 DEF CopiesFresh, SameFile
<1>5. TextsRight' /\ OneEmpties'
  BY <1>0, <1>1, <1>2 DEF TextsRight, OneEmpties, SameFile
<1>6. DebtsAreKept'
  <2>1. \A q \in Savers : saves'[q].at = "emptied" => q # s /\ saves'[q] = saves[q]
    BY <1>1
  <2>2. \A q \in Savers : saves[q].at = "emptied" => q # s /\ saves'[q] = saves[q]
    BY <1>1
  <2>. QED BY <1>0, <1>2, <2>1, <2>2 DEF DebtsAreKept
<1>. QED BY <1>1, <1>2, <1>3, <1>4, <1>5, <1>6 DEF QueueInv

\* A file is emptied: if the copy was the file, nobody else is saving, and what
\* the file held is in this save's hands.
LEMMA EmptyKeeps ==
  ASSUME QueueInv, NEW s \in Savers, NEW text \in SUBSET Actions, NEW resolved \in SUBSET Actions,
         saves[s].at = "loaded",
         text \cap saves[s].loaded = saves[s].loaded \ resolved,
         EmptyFile(s, text, resolved)
  PROVE  QueueInv' /\ saves'[s].at = "emptied" /\ \A q \in Savers \ {s} : saves'[q] = saves[q]
<1> DEFINE u == saves[s].user
           save == [saves[s] EXCEPT !.at = "emptied", !.text = text, !.resolved = resolved]
<1>0. /\ QueueTypes /\ CopiesFresh /\ TextsRight /\ OneEmpties /\ DebtsAreKept /\ unreadable \subseteq spoiled
      /\ saves \in [Savers -> QueueSave] /\ saves[s] \in QueueSave /\ u \in SleepUsers
      /\ queue \in [SleepUsers -> SUBSET Actions] /\ owed \in [SleepUsers -> SUBSET Actions]
  BY DEF QueueInv, QueueTypes, QueueSave
<1>1. /\ save \in QueueSave /\ save.at = "emptied" /\ save.user = u /\ save.loaded = saves[s].loaded
      /\ save.text = text /\ save.resolved = resolved
  BY <1>0 DEF QueueSave
<1>2. /\ saves' = [saves EXCEPT ![s] = save]
      /\ queue' = [queue EXCEPT ![u] = {}]
      /\ unreadable' = unreadable \ {u}
      /\ overtaken' = (overtaken \cup SavesOn(u, "loaded")) \ {s}
      /\ s \in overtaken => spoiled' = spoiled \cup {u} /\ owed' = owed
      /\ s \notin overtaken =>
           /\ spoiled' = spoiled \ {u}
           /\ owed' = [owed EXCEPT ![u] = IF u \in spoiled THEN saves[s].loaded ELSE owed[u]]
  BY <1>0 DEF EmptyFile, QueueSave
<1>. HIDE DEF save
<1>3. /\ saves' \in [Savers -> QueueSave] /\ saves'[s] = save
      /\ \A q \in Savers \ {s} : saves'[q] = saves[q]
  BY <1>0, <1>1, <1>2
<1>4. /\ \A v \in SleepUsers : queue'[v] = IF v = u THEN {} ELSE queue[v]
      /\ \A v \in SleepUsers \ {u} : owed'[v] = owed[v]
      /\ \A v \in SleepUsers \ {u} : v \in spoiled' <=> v \in spoiled
      /\ \A v \in SleepUsers \ {u} : v \in unreadable' <=> v \in unreadable
      /\ u \notin unreadable'
      /\ u \in spoiled' <=> s \in overtaken
  BY <1>0, <1>2
<1>5. saves[s].loaded \in SUBSET Actions
  BY <1>0 DEF QueueSave
<1>6. QueueTypes'
  <2>1. owed' \in [SleepUsers -> SUBSET Actions]
    BY <1>0, <1>2, <1>5
  <2>2. overtaken' \subseteq Savers
    BY <1>0, <1>2 DEF SavesOn, QueueTypes
  <2>. QED BY <1>0, <1>2, <1>3, <2>1, <2>2 DEF QueueTypes
<1>7. ASSUME NEW c \in Savers \ overtaken', saves'[c].at = "loaded"
      PROVE  /\ saves'[c].loaded = queue'[saves'[c].user]
             /\ saves'[c].user \notin unreadable'
             /\ \A q \in Savers : saves'[c].user = saves'[q].user => saves'[q].at # "emptied"
  <2>1. c # s /\ saves'[c] = saves[c]
    BY <1>1, <1>3, <1>7
  <2>2. c \notin overtaken /\ saves[c].user # u /\ saves[c].user \in SleepUsers
    BY <1>0, <1>2, <1>7, <2>1 DEF SavesOn, SavesAt, QueueSave
  <2>3. \A q \in Savers : saves'[q].user = saves[q].user
    BY <1>1, <1>3
  <2>. QED BY <1>0, <1>1, <1>3, <1>4, <1>7, <2>1, <2>2, <2>3 DEF CopiesFresh, SameFile
<1>8. CopiesFresh'
  BY <1>7 DEF CopiesFresh, SameFile
<1>9. TextsRight'
  BY <1>0, <1>1, <1>3 DEF TextsRight
<1>10. s \notin overtaken => \A q \in Savers : saves[q].user = u => saves[q].at # "emptied"
  BY <1>0 DEF CopiesFresh, SameFile
<1>11. OneEmpties'
  <2> SUFFICES ASSUME NEW c \in Savers, saves'[c].at = "emptied", saves'[c].user \notin spoiled'
               PROVE  /\ queue'[saves'[c].user] = {}
                      /\ \A q \in Savers : saves'[q].at = "emptied" /\ saves'[c].user = saves'[q].user => q = c
    BY DEF OneEmpties, SameFile
  <2>1. saves'[c].user \in SleepUsers
    BY <1>3 DEF QueueSave
  <2>2. CASE saves'[c].user = u
    BY <1>1, <1>3, <1>4, <1>10, <2>1, <2>2
  <2>3. CASE saves'[c].user # u
    BY <1>0, <1>1, <1>3, <1>4, <2>1, <2>3 DEF OneEmpties, SameFile
  <2>. QED BY <2>2, <2>3
<1>12. DebtsAreKept'
  <2> SUFFICES ASSUME NEW v \in SleepUsers \ spoiled', NEW a \in Actions
               PROVE  a \in owed'[v] <=>
                        \/ a \in queue'[v]
                        \/ \E q \in Savers : /\ saves'[q].at = "emptied"
                                             /\ saves'[q].user = v
                                             /\ a \in saves'[q].loaded
    BY DEF DebtsAreKept
  <2>1. CASE v = u
    <3>1. s \notin overtaken
      BY <1>4, <2>1
    <3>2. owed'[u] = saves[s].loaded
      <4>1. CASE u \in spoiled
        BY <1>0, <1>2, <3>1, <4>1
      <4>2. CASE u \notin spoiled
        <5>1. owed'[u] = owed[u]
          BY <1>0, <1>2, <3>1, <4>2
        <5>2. \A b \in Actions : b \in owed[u] <=> b \in queue[u]
          BY <1>0, <1>10, <3>1, <4>2 DEF DebtsAreKept
        <5>3. saves[s].loaded = queue[u]
          BY <1>0, <3>1 DEF CopiesFresh
        <5>4. owed[u] \subseteq Actions /\ queue[u] \subseteq Actions
          BY <1>0
        <5>5. owed[u] = queue[u]
          BY <5>2, <5>4
        <5>. QED BY <5>1, <5>3, <5>5
      <4>. QED BY <4>1, <4>2
    <3>3. \A q \in Savers : saves'[q].at = "emptied" /\ saves'[q].user = u => q = s
      BY <1>1, <1>3, <1>10, <3>1
    <3>. QED BY <1>1, <1>3, <1>4, <2>1, <3>2, <3>3
  <2>2. CASE v # u
    <3>1. v \notin spoiled /\ owed'[v] = owed[v] /\ queue'[v] = queue[v]
      BY <1>4, <2>2
    <3>2. \A q \in Savers : saves'[q].user = v \/ saves[q].user = v => q # s /\ saves'[q] = saves[q]
      BY <1>1, <1>3, <2>2
    <3>. QED BY <1>0, <3>1, <3>2 DEF DebtsAreKept
  <2>. QED BY <2>1, <2>2
<1>13. unreadable' \subseteq spoiled'
  BY <1>2 DEF QueueInv
<1>. QED BY <1>1, <1>3, <1>6, <1>8, <1>9, <1>11, <1>12, <1>13 DEF QueueInv

\* The text is written: what the save had in its hands is in the file but for what
\* it resolved.
LEMMA FillKeeps ==
  ASSUME QueueInv, NEW s \in Savers, FillFile(s)
  PROVE  QueueInv' /\ saves'[s].at = "none" /\ \A q \in Savers \ {s} : saves'[q] = saves[q]
<1> DEFINE u == saves[s].user
           text == saves[s].text
           debt == (owed[u] \ saves[s].resolved) \cup (text \ saves[s].loaded)
<1>0. /\ QueueTypes /\ CopiesFresh /\ TextsRight /\ OneEmpties /\ DebtsAreKept /\ unreadable \subseteq spoiled
      /\ saves \in [Savers -> QueueSave] /\ saves[s] \in QueueSave /\ u \in SleepUsers
      /\ saves[s].at = "emptied" /\ text \subseteq Actions /\ saves[s].loaded \subseteq Actions
      /\ queue \in [SleepUsers -> SUBSET Actions] /\ owed \in [SleepUsers -> SUBSET Actions]
  BY DEF QueueInv, QueueTypes, QueueSave, FillFile, SavesAt
<1>1. /\ saves' \in [Savers -> QueueSave] /\ saves'[s].at = "none"
      /\ \A q \in Savers \ {s} : saves'[q] = saves[q]
  BY <1>0, SleepConstants DEF FillFile, NoSave
<1>2. /\ overtaken' = overtaken \ {s}
      /\ \/ /\ queue' = [queue EXCEPT ![u] = text] /\ owed' = [owed EXCEPT ![u] = debt]
            /\ unreadable' = unreadable \ {u} /\ spoiled' = spoiled
         \/ /\ UNCHANGED <<queue, owed>>
            /\ unreadable' \in {unreadable, unreadable \cup {u}} /\ spoiled' = spoiled \cup {u}
  BY <1>0 DEF FillFile
<1>3. owed[u] \subseteq Actions /\ debt \subseteq Actions
  BY <1>0
<1>4. QueueTypes'
  BY <1>0, <1>1, <1>2, <1>3 DEF QueueTypes
<1>5. \A v \in SleepUsers \ {u} :
        /\ queue'[v] = queue[v]
        /\ owed'[v] = owed[v]
        /\ v \in spoiled' <=> v \in spoiled
        /\ v \in unreadable' <=> v \in unreadable
  BY <1>0, <1>2
<1>6. CopiesFresh'
  <2> SUFFICES ASSUME NEW c \in Savers \ overtaken', saves'[c].at = "loaded"
               PROVE  /\ saves'[c].loaded = queue'[saves'[c].user]
                      /\ saves'[c].user \notin unreadable'
                      /\ \A q \in Savers : saves'[c].user = saves'[q].user => saves'[q].at # "emptied"
    BY DEF CopiesFresh, SameFile
  <2>1. c # s /\ saves'[c] = saves[c] /\ c \notin overtaken
    BY <1>1, <1>2
  <2>2. /\ saves[c].loaded = queue[saves[c].user] /\ saves[c].user \notin unreadable
        /\ \A q \in Savers : saves[c].user = saves[q].user => saves[q].at # "emptied"
    BY <1>0, <2>1 DEF CopiesFresh, SameFile
  <2>3. saves[c].user \in SleepUsers \ {u}
    BY <1>0, <2>2 DEF QueueSave
  <2>. QED BY <1>1, <1>5, <2>1, <2>2, <2>3
<1>7. TextsRight'
  BY <1>0, <1>1 DEF TextsRight
<1>8. u \notin spoiled =>
        /\ queue[u] = {}
        /\ \A q \in Savers : saves[q].at = "emptied" /\ saves[q].user = u => q = s
  BY <1>0 DEF OneEmpties, SameFile
<1>9. \A q \in Savers : saves'[q].at = "emptied" => q # s /\ saves'[q] = saves[q]
  BY <1>1
<1>10. u \notin spoiled' => u \notin spoiled
  BY <1>2
<1>11. OneEmpties'
  <2> SUFFICES ASSUME NEW c \in Savers, saves'[c].at = "emptied", saves'[c].user \notin spoiled'
               PROVE  /\ queue'[saves'[c].user] = {}
                      /\ \A q \in Savers : saves'[q].at = "emptied" /\ saves'[c].user = saves'[q].user => q = c
    BY DEF OneEmpties, SameFile
  <2>1. c # s /\ saves'[c] = saves[c] /\ saves[c].user \in SleepUsers
    BY <1>0, <1>9 DEF QueueSave
  <2>2. saves[c].user # u
    BY <1>8, <1>10, <2>1
  <2>. QED BY <1>0, <1>5, <1>9, <2>1, <2>2 DEF OneEmpties, SameFile
<1>12. DebtsAreKept'
  <2> SUFFICES ASSUME NEW v \in SleepUsers \ spoiled', NEW a \in Actions
               PROVE  a \in owed'[v] <=>
                        \/ a \in queue'[v]
                        \/ \E q \in Savers : /\ saves'[q].at = "emptied"
                                             /\ saves'[q].user = v
                                             /\ a \in saves'[q].loaded
    BY DEF DebtsAreKept
  <2>1. CASE v = u
    <3>1. /\ queue' = [queue EXCEPT ![u] = text] /\ owed' = [owed EXCEPT ![u] = debt]
          /\ unreadable' = unreadable \ {u} /\ u \notin spoiled
      BY <1>2, <2>1
    <3>2. a \in owed[u] <=> a \in saves[s].loaded
      BY <1>0, <1>8, <3>1 DEF DebtsAreKept
    <3>3. text \cap saves[s].loaded = saves[s].loaded \ saves[s].resolved
      BY <1>0 DEF TextsRight
    <3>4. ~\E q \in Savers : saves'[q].at = "emptied" /\ saves'[q].user = u
      BY <1>8, <1>9, <3>1
    <3>5. queue'[u] = text /\ owed'[u] = debt
      BY <1>0, <3>1
    <3>. QED BY <2>1, <3>1, <3>2, <3>3, <3>4, <3>5
  <2>2. CASE v # u
    <3>1. v \notin spoiled /\ owed'[v] = owed[v] /\ queue'[v] = queue[v]
      BY <1>5, <2>2
    <3>2. \A q \in Savers : saves[q].at = "emptied" /\ saves[q].user = v => q # s /\ saves'[q] = saves[q]
      BY <1>1, <2>2
    <3>. QED BY <1>0, <1>9, <3>1, <3>2 DEF DebtsAreKept
  <2>. QED BY <2>1, <2>2
<1>13. unreadable' \subseteq spoiled'
  BY <1>0, <1>2
<1>. QED BY <1>1, <1>4, <1>6, <1>7, <1>11, <1>12, <1>13 DEF QueueInv

-----------------------------------------------------------------------------
(* The steps at the queue, and the end of the process.                     *)

\* A step of r at the queue: the run moves between reflexa, resolving and log, and
\* the copies of others stay theirs.
LEMMA QueueMoves ==
  ASSUME SleepInv, NEW r \in ConsolidationRuns, NEW where \in {"resolving", "log"},
         run[r].at \in {"reflexa", "resolving"}, MoveRun(r, where),
         QueueInv', \A q \in Savers \ {r} : saves'[q] = saves[q],
         where = "resolving" <=> saves'[r].at # "none",
         UNCHANGED <<lease, resident, evicted>>
  PROVE  SleepInv'
<1>0. /\ run \in [ConsolidationRuns -> SleepRun]
      /\ lease \in ConsolidationRuns \cup {NoRun} /\ resident \in BOOLEAN
      /\ evicted \subseteq ConsolidationRuns /\ ModelHeld
      /\ \A q \in ConsolidationRuns :
           /\ run[q].at \in {"tuning", "rebuilding"} <=> lease = q
           /\ run[q].at = "resolving" <=> saves[q].at # "none"
  BY SleepTypes DEF SleepInv, SleepParts
<1>1. /\ run' \in [ConsolidationRuns -> SleepRun] /\ run'[r].at = where
      /\ \A q \in ConsolidationRuns \ {r} : run'[q] = run[q]
  BY <1>0 DEF MoveRun, SleepRun
<1>2. \A q \in ConsolidationRuns : run'[q].at = "resolving" <=> saves'[q].at # "none"
  BY <1>0, <1>1, SleepConstants
<1>3. \A q \in ConsolidationRuns : run'[q].at \in {"tuning", "rebuilding"} <=> lease' = q
  BY <1>0, <1>1
<1>4. SleepTypeOK'
  BY <1>0, <1>1, <1>2, <1>3, SleepTypesNext DEF SleepParts, QueueInv
<1>5. ModelHeld'
  BY <1>0, <1>1 DEF ModelHeld, RunAt
<1>. QED BY <1>4, <1>5 DEF SleepInv

LEMMA LoadQueueStep ==
  ASSUME SleepInv, NEW r \in ConsolidationRuns, LoadQueue(r)
  PROVE  SleepInv'
<1>0. /\ QueueInv /\ SleepTypeOK /\ run[r].at = "reflexa" /\ r \in Savers /\ r # QueueingTurn
      /\ UNCHANGED <<lease, resident, evicted, queue, unreadable, owed, spoiled>>
  BY SleepConstants DEF SleepInv, LoadQueue, RunAt, guarded
<1>1. run[r].user \in SleepUsers /\ saves[r].at = "none"
  BY <1>0, SleepTypes DEF SleepParts, SleepRun
<1>2. CASE LoadCopy(r, run[r].user, {}) /\ MoveRun(r, "resolving")
  <2>1. QueueInv' /\ saves'[r].at = "loaded" /\ \A q \in Savers \ {r} : saves'[q] = saves[q]
    BY <1>0, <1>1, <1>2, LoadKeeps
  <2>. QED BY <1>0, <1>2, <2>1, QueueMoves
<1>3. CASE MoveRun(r, "log") /\ UNCHANGED <<saves, overtaken>>
  <2>1. QueueInv' /\ saves'[r].at = "none" /\ \A q \in Savers \ {r} : saves'[q] = saves[q]
    BY <1>0, <1>1, <1>3, QueueStays DEF queueVars
  <2>. QED BY <1>0, <1>3, <2>1, QueueMoves
<1>. QED BY <1>2, <1>3 DEF LoadQueue

LEMMA SaveQueueStep ==
  ASSUME SleepInv, NEW r \in ConsolidationRuns, SaveQueue(r)
  PROVE  SleepInv'
<1>0. /\ QueueInv /\ SleepTypeOK /\ run[r].at = "resolving" /\ saves[r].at = "loaded"
      /\ r \in Savers /\ r # QueueingTurn /\ UNCHANGED <<lease, resident, evicted>>
      /\ saves[r].loaded \subseteq Actions /\ run \in [ConsolidationRuns -> SleepRun]
  BY SleepConstants, SleepTypes DEF SleepInv, SleepParts, SaveQueue, RunAt, SavesAt, guarded, QueueTypes, QueueSave
<1>1. ASSUME NEW deferred \in SUBSET (saves[r].loaded \cap Contradictions),
             EmptyFile(r, deferred, saves[r].loaded \ deferred), UNCHANGED run
      PROVE  SleepInv'
  <2>1. /\ deferred \in SUBSET Actions /\ saves[r].loaded \ deferred \in SUBSET Actions
        /\ deferred \cap saves[r].loaded = saves[r].loaded \ (saves[r].loaded \ deferred)
    BY <1>0
  <2>2. QueueInv' /\ saves'[r].at = "emptied" /\ \A q \in Savers \ {r} : saves'[q] = saves[q]
    BY <1>0, <1>1, <2>1, EmptyKeeps
  <2>3. MoveRun(r, "resolving")
    BY <1>0, <1>1 DEF MoveRun, SleepRun
  <2>. QED BY <1>0, <2>2, <2>3, QueueMoves
<1>2. CASE DropCopy(r) /\ MoveRun(r, "log")
  <2>1. QueueInv' /\ saves'[r].at = "none" /\ \A q \in Savers \ {r} : saves'[q] = saves[q]
    BY <1>0, <1>2, DropKeeps
  <2>. QED BY <1>0, <1>2, <2>1, QueueMoves
<1>. QED BY <1>1, <1>2 DEF SaveQueue

LEMMA QueueSavedStep ==
  ASSUME SleepInv, NEW r \in ConsolidationRuns, QueueSaved(r)
  PROVE  SleepInv'
<1>0. /\ QueueInv /\ run[r].at = "resolving" /\ r \in Savers /\ FillFile(r) /\ MoveRun(r, "log")
      /\ UNCHANGED <<lease, resident, evicted>>
  BY SleepConstants DEF SleepInv, QueueSaved, RunAt, guarded
<1>1. QueueInv' /\ saves'[r].at = "none" /\ \A q \in Savers \ {r} : saves'[q] = saves[q]
  BY <1>0, FillKeeps
<1>. QED BY <1>0, <1>1, QueueMoves

\* A step of the turn at the queue.
LEMMA TurnMoves ==
  ASSUME SleepInv, QueueInv', \A q \in Savers \ {QueueingTurn} : saves'[q] = saves[q],
         UNCHANGED <<lease, resident, run, evicted>>
  PROVE  SleepInv'
<1>1. \A r \in ConsolidationRuns : saves'[r] = saves[r]
  BY SleepConstants
<1>2. SleepTypeOK'
  BY <1>1, SleepTypes, SleepTypesNext DEF SleepInv, SleepParts, QueueInv
<1>3. ModelHeld'
  BY DEF SleepInv, ModelHeld, RunAt
<1>. QED BY <1>2, <1>3 DEF SleepInv

LEMMA LoadToQueueStep ==
  ASSUME SleepInv, NEW u \in SleepUsers, NEW a \in Actions, LoadToQueue(u, a)
  PROVE  SleepInv'
<1>0. /\ QueueInv /\ saves[QueueingTurn].at = "none" /\ QueueingTurn \in Savers
      /\ LoadCopy(QueueingTurn, u, queue[u] \cup {a})
      /\ UNCHANGED <<lease, resident, run, queue, unreadable, owed, spoiled, evicted>>
  BY SleepConstants DEF SleepInv, LoadToQueue, SavesAt, guarded
<1>1. queue[u] \cup {a} \in SUBSET Actions
  BY <1>0 DEF QueueInv, QueueTypes
<1>2. QueueInv' /\ \A q \in Savers \ {QueueingTurn} : saves'[q] = saves[q]
  BY <1>0, <1>1, LoadKeeps
<1>. QED BY <1>0, <1>2, TurnMoves

LEMMA SaveToQueueStep ==
  ASSUME SleepInv, SaveToQueue
  PROVE  SleepInv'
<1>0. /\ QueueInv /\ saves[QueueingTurn].at = "loaded" /\ QueueingTurn \in Savers
      /\ UNCHANGED <<lease, resident, run, evicted>>
  BY SleepConstants DEF SleepInv, SaveToQueue, SavesAt, guarded
<1>1. /\ saves[QueueingTurn].text \in SUBSET Actions
      /\ saves[QueueingTurn].text \cap saves[QueueingTurn].loaded = saves[QueueingTurn].loaded \ {}
  BY <1>0 DEF QueueInv, QueueTypes, QueueSave, TextsRight
<1>2. QueueInv' /\ \A q \in Savers \ {QueueingTurn} : saves'[q] = saves[q]
  <2>1. CASE EmptyFile(QueueingTurn, saves[QueueingTurn].text, {})
    BY <1>0, <1>1, <2>1, EmptyKeeps
  <2>2. CASE DropCopy(QueueingTurn)
    BY <1>0, <2>2, DropKeeps
  <2>. QED BY <2>1, <2>2 DEF SaveToQueue
<1>. QED BY <1>0, <1>2, TurnMoves

LEMMA ActionQueuedStep ==
  ASSUME SleepInv, ActionQueued
  PROVE  SleepInv'
<1>0. /\ QueueInv /\ QueueingTurn \in Savers /\ FillFile(QueueingTurn)
      /\ UNCHANGED <<lease, resident, run, evicted>>
  BY SleepConstants DEF SleepInv, ActionQueued, guarded
<1>1. QueueInv' /\ \A q \in Savers \ {QueueingTurn} : saves'[q] = saves[q]
  BY <1>0, FillKeeps
<1>. QED BY <1>0, <1>1, TurnMoves

\* A kill spoils the files that were emptied and not yet written.
LEMMA ProcessKilledStep ==
  ASSUME SleepInv, ProcessKilled
  PROVE  SleepInv'
<1> DEFINE halfway == {u \in SleepUsers : SavesOn(u, "emptied") # {}}
<1>0. /\ QueueTypes /\ DebtsAreKept /\ run \in [ConsolidationRuns -> SleepRun] /\ resident \in BOOLEAN
      /\ \A q \in ConsolidationRuns : run[q] \in SleepRun
  BY SleepTypes DEF SleepInv, SleepParts, QueueInv
<1>1. /\ lease' = NoRun /\ evicted' = {} /\ overtaken' = {} /\ UNCHANGED <<resident, queue, owed>>
      /\ run' = [q \in ConsolidationRuns |->
                   IF RunAt(q, "not started") THEN run[q]
                   ELSE [NotYet EXCEPT !.kind = run[q].kind, !.at = "done"]]
      /\ saves' = [q \in Savers |-> NoSave]
      /\ spoiled' = spoiled \cup halfway /\ unreadable' \subseteq unreadable \cup halfway
  BY DEF ProcessKilled
<1>2. ASSUME NEW q \in ConsolidationRuns
      PROVE  run'[q] \in SleepRun /\ run'[q].at \in {"not started", "done"}
  <2>1. [NotYet EXCEPT !.kind = run[q].kind, !.at = "done"] \in SleepRun
    BY <1>0, SleepConstants DEF SleepRun, NotYet
  <2>. QED BY <1>0, <1>1, <2>1 DEF RunAt, NotYet
<1>3. run' \in [ConsolidationRuns -> SleepRun]
  BY <1>1, <1>2
<1>4. saves' \in [Savers -> QueueSave] /\ \A q \in Savers : saves'[q].at = "none"
  BY <1>1, SleepConstants DEF NoSave
<1>5. halfway \subseteq SleepUsers
  OBVIOUS
<1>6. QueueTypes'
  BY <1>0, <1>1, <1>4, <1>5 DEF QueueTypes
<1>7. \A q \in ConsolidationRuns : lease' # q
  BY <1>1, SleepAssumption
<1>8. SleepTypeOK'
  BY <1>0, <1>1, <1>2, <1>3, <1>4, <1>6, <1>7, SleepConstants, SleepTypesNext DEF SleepParts
<1>9. ModelHeld' /\ CopiesFresh' /\ TextsRight' /\ OneEmpties'
  BY <1>2, <1>4 DEF ModelHeld, CopiesFresh, TextsRight, OneEmpties, RunAt
<1>10. DebtsAreKept'
  <2> SUFFICES ASSUME NEW u \in SleepUsers \ spoiled', NEW a \in Actions
               PROVE  a \in owed[u] <=> a \in queue[u]
    BY <1>1, <1>4 DEF DebtsAreKept
  <2>1. u \notin spoiled /\ u \notin halfway
    BY <1>1
  <2>2. ~\E q \in Savers : saves[q].at = "emptied" /\ saves[q].user = u
    BY <2>1 DEF SavesOn, SavesAt
  <2>. QED BY <1>0, <1>1, <2>1, <2>2 DEF DebtsAreKept
<1>. QED BY <1>0, <1>1, <1>6, <1>8, <1>9, <1>10 DEF SleepInv, QueueInv

LEMMA NextSleep == SleepInv /\ [SleepNext]_sleepVars => SleepInv'
<1> SUFFICES ASSUME SleepInv, [SleepNext]_sleepVars PROVE SleepInv'
  OBVIOUS
<1>1. CASE UNCHANGED sleepVars
  <2>1. UNCHANGED <<lease, resident, run, evicted>> /\ UNCHANGED queueVars /\ saves' = saves
    BY <1>1 DEF sleepVars, guarded, queueVars
  <2>. QED BY <2>1, QueueStays, TurnMoves DEF SleepInv
<1>. QED BY <1>1, ModelSteps, LoadQueueStep, SaveQueueStep, QueueSavedStep, LoadToQueueStep,
         SaveToQueueStep, ActionQueuedStep, ProcessKilledStep DEF SleepNext, RunStep

\* The guard, the runs and the queues keep their types; the guard is held by the
\* one run that is inside a step.
THEOREM SleepTypeCorrect == SleepSpec => []SleepTypeOK
<1>1. SleepInv => SleepTypeOK
  BY DEF SleepInv
<1>. QED BY <1>1, InitSleep, NextSleep, PTL DEF SleepSpec

\* For any number of runs at once a layer is rebuilt with the deep model loaded,
\* unless another run released it meanwhile.
THEOREM LayersAreRebuiltWithTheModel == SleepSpec => []RebuildsWithTheModel
<1>1. SleepInv => RebuildsWithTheModel
  BY DEF SleepInv, ModelHeld, RebuildsWithTheModel
<1>. QED BY <1>1, InitSleep, NextSleep, PTL DEF SleepSpec

\* The file of a user's queue holds exactly what was queued and is not resolved, but
\* for what a save under way has in hand, for any number of runs, users and actions
\* and over kills; excepted are a save from a copy that another save had overtaken
\* and one that failed or was killed after it emptied the file, each until the next
\* save that goes well.
THEOREM ActionsStayQueued == SleepSpec => []QueuedActionsAreKept
<1>1. SleepInv => QueuedActionsAreKept
  BY DebtsAreQueued DEF SleepInv
<1>. QED BY <1>1, InitSleep, NextSleep, PTL DEF SleepSpec

-----------------------------------------------------------------------------
(***************************************************************************)
(* The stream: the bytes not yet worked through are the frames of the      *)
(* events from some point on, whole and in order, and the log tells        *)
(* exactly the events before that point.                                   *)
(***************************************************************************)

Byte == [of : Nat, part : 0..2]
Event ==
  [type : {"tool_call_started", "tool_call_complete", "security_event_occurred", "unknown",
           "complete"},
   tool : ChordTools \cup {"none"}, ms : Nat, status : {"ok", "error"}]
LogStep == [tool : ChordTools, ms : Nat, status : {"ok", "error"}]

IsStart(e) == e.type = "tool_call_started"
IsAnswer(e) == e.type = "tool_call_complete"

\* What the type invariant leaves unsaid: events about a call, and no other, name a tool.
AgenticForms ==
  /\ sent \in Seq(Event)
  /\ Len(sent) <= MaxSent
  /\ \A i \in 1..Len(sent) : sent[i].tool \in ChordTools <=> IsStart(sent[i]) \/ IsAnswer(sent[i])
  /\ wire \in Seq(Byte)
  /\ buf \in Seq(Byte)
  /\ exec_log \in Seq(LogStep)
  /\ signaled \in Seq(ChordTools)
  /\ response \in BOOLEAN
  /\ turn \in {"running", "answered", "legacy"}

\* Chord runs a tool one call at a time: two calls of it have an answer between
\* them, and an answer is the first event of its tool after the call.
CallsAlternate(s) ==
  /\ \A i, k \in 1..Len(s) :
       i < k /\ IsStart(s[i]) /\ IsStart(s[k]) /\ s[i].tool = s[k].tool =>
         \E j \in (i + 1)..(k - 1) : IsAnswer(s[j]) /\ s[j].tool = s[k].tool
  /\ \A k \in 1..Len(s) : IsAnswer(s[k]) =>
       \E i \in 1..(k - 1) : /\ IsStart(s[i]) /\ s[i].tool = s[k].tool
                             /\ \A j \in (i + 1)..(k - 1) : s[j].tool # s[k].tool

\* The bytes of event i fill the positions from a to the one before b.
FrameAt(s, i, a, b) ==
  \/ /\ b = a + 4
     /\ s[a] = Part(i, 1) /\ s[a + 1] = Part(i, 2) /\ s[a + 2] = NewLine /\ s[a + 3] = NewLine
  \/ /\ b = a + 5
     /\ s[a] = Part(i, 1) /\ s[a + 1] = NewLine /\ s[a + 2] = Part(i, 2)
     /\ s[a + 3] = NewLine /\ s[a + 4] = NewLine

\* The bytes s are the frames of the events after h up to n, whole and in order;
\* that of event i begins at at[i].
FramesFrom(s, h, n, at) ==
  /\ at \in [(h + 1)..(n + 1) -> Nat]
  /\ at[h + 1] = 1
  /\ at[n + 1] = Len(s) + 1
  /\ \A i, j \in (h + 1)..(n + 1) : i < j => at[i] < at[j]
  /\ \A i \in (h + 1)..n : FrameAt(s, i, at[i], at[i + 1])
  /\ \A k \in 1..Len(s) : s[k].of # 0 =>
       s[k].of \in (h + 1)..n /\ at[s[k].of] <= k /\ k < at[s[k].of + 1]

\* What is not yet worked through.
Pending == buf \o wire
Framed(h) == \E at \in [(h + 1)..(Len(sent) + 1) -> Nat] : FramesFrom(Pending, h, Len(sent), at)

AgenticInv ==
  /\ AgenticForms
  /\ CallsAlternate(sent)
  /\ \E h \in 0..Len(sent) : Framed(h) /\ FoldedUpTo(h)

-----------------------------------------------------------------------------
LEMMA EventForms ==
  /\ \A t \in ChordTools : Started(t) \in Event /\ IsStart(Started(t)) /\ ~IsAnswer(Started(t))
                           /\ Started(t).tool = t
  /\ \A t \in ChordTools, ms \in Nat, status \in {"ok", "error"} :
       /\ Finished(t, ms, status) \in Event
       /\ ~IsStart(Finished(t, ms, status)) /\ IsAnswer(Finished(t, ms, status))
       /\ Finished(t, ms, status).tool = t
  /\ \A type \in {"security_event_occurred", "unknown", "complete"} :
       /\ Plain(type) \in Event
       /\ ~IsStart(Plain(type)) /\ ~IsAnswer(Plain(type)) /\ Plain(type).tool = "none"
BY DEF Started, Finished, Plain, Event, IsStart, IsAnswer

LEMMA ByteForms ==
  /\ NewLine \in Byte /\ NewLine.of = 0
  /\ \A i \in Nat : /\ Part(i, 1) \in Byte /\ Part(i, 2) \in Byte
                    /\ Part(i, 1).of = i /\ Part(i, 2).of = i /\ Part(i, 1) # Part(i, 2)
                    /\ Part(i, 1).part = 1 /\ Part(i, 2).part = 2
  /\ \A i \in Nat : i # 0 => Part(i, 1) # NewLine /\ Part(i, 2) # NewLine
BY DEF Byte, NewLine, Part

LEMMA InitAgentic == AgenticInit => AgenticInv
<1> SUFFICES ASSUME AgenticInit PROVE AgenticInv
  OBVIOUS
<1> USE DEF AgenticInit
<1>1. AgenticForms
  <2>1. Len(sent) = 0 /\ 0 <= MaxSent /\ 1..0 = {}
    BY AgenticAssumption
  <2>2. sent \in Seq(Event) /\ wire \in Seq(Byte) /\ buf \in Seq(Byte) /\ exec_log \in Seq(LogStep)
        /\ signaled \in Seq(ChordTools)
    OBVIOUS
  <2>3. response \in BOOLEAN /\ turn \in {"running", "answered", "legacy"}
    OBVIOUS
  <2>. QED BY <2>1, <2>2, <2>3 DEF AgenticForms
<1>2. CallsAlternate(sent)
  BY DEF CallsAlternate
<1> DEFINE at == [i \in 1..1 |-> 1]
<1>3. at \in [(0 + 1)..(Len(sent) + 1) -> Nat] /\ Len(Pending) = 0 /\ Len(sent) = 0
  BY DEF Pending
<1>4. FramesFrom(Pending, 0, Len(sent), at)
  BY <1>3 DEF FramesFrom
<1>5. Framed(0)
  BY <1>3, <1>4 DEF Framed
<1>6. FoldedUpTo(0)
  <2>1. 1..0 = {} /\ Len(exec_log) = 0
    OBVIOUS
  <2>2. {i \in 1..0 : sent[i].type = "tool_call_started"} = {}
        /\ {i \in 1..0 : sent[i].type = "security_event_occurred"} = {}
    BY <2>1
  <2>3. Cardinality({}) = 0
    BY FS_EmptySet
  <2> DEFINE call == [c \in 1..0 |-> 1]
  <2>4. call \in [1..Len(exec_log) -> {}]
    BY <2>1
  <2>. QED BY <2>1, <2>2, <2>3, <2>4 DEF FoldedUpTo
<1>. QED BY <1>1, <1>2, <1>5, <1>6 DEF AgenticInv

-----------------------------------------------------------------------------
(* The outcome of a call.                                                  *)

Answers(s, i, n) == {j \in (i + 1)..n : IsAnswer(s[j]) /\ s[j].tool = s[i].tool}
FirstOf(A) == CHOOSE j \in A : \A k \in A : j <= k
Told(s, i, n) ==
  [tool |-> s[i].tool,
   ms |-> IF Answers(s, i, n) = {} THEN 0 ELSE s[FirstOf(Answers(s, i, n))].ms,
   status |-> IF Answers(s, i, n) = {} THEN "ok" ELSE s[FirstOf(Answers(s, i, n))].status]

LEMMA OutcomeIsTold ==
  ASSUME NEW n \in Nat, NEW i \in 1..n
  PROVE  /\ Outcome(i, n) = Told(sent, i, n)
         /\ Outcome(i, n)' = Told(sent', i, n)
BY DEF Outcome, Told, Answers, FirstOf, IsAnswer

LEMMA FirstIs ==
  ASSUME NEW A, A \subseteq Nat, NEW f \in A, \A k \in A : f <= k
  PROVE  FirstOf(A) = f
<1>1. FirstOf(A) \in A /\ \A k \in A : FirstOf(A) <= k
  BY DEF FirstOf
<1>2. FirstOf(A) \in Nat /\ f \in Nat /\ FirstOf(A) <= f /\ f <= FirstOf(A)
  BY <1>1
<1>. QED BY <1>2

\* The events after the n-th do not matter.
LEMMA ToldSame ==
  ASSUME NEW s, NEW z, NEW n \in Nat, NEW i \in 1..n, \A j \in 1..n : z[j] = s[j]
  PROVE  Told(z, i, n) = Told(s, i, n)
<1>1. Answers(z, i, n) = Answers(s, i, n)
  BY DEF Answers
<1>2. ASSUME Answers(s, i, n) # {} PROVE FirstOf(Answers(s, i, n)) \in 1..n
  <2>1. Answers(s, i, n) \subseteq 1..n /\ Answers(s, i, n) \subseteq Nat
    BY DEF Answers
  <2>2. PICK f \in Answers(s, i, n) : \A k \in Answers(s, i, n) : f <= k
    BY <1>2, <2>1, LeastNat
  <2>. QED BY <2>1, <2>2, FirstIs
<1>. QED BY <1>1, <1>2 DEF Told

\* Event n + 1 tells of call i when it is the first answer to it.
LEMMA ToldNext ==
  ASSUME NEW s, NEW n \in Nat, NEW i \in 1..n
  PROVE  /\ ~(IsAnswer(s[n + 1]) /\ s[n + 1].tool = s[i].tool) => Told(s, i, n + 1) = Told(s, i, n)
         /\ Answers(s, i, n) # {} => Told(s, i, n + 1) = Told(s, i, n)
         /\ Answers(s, i, n) = {} => Told(s, i, n) = [tool |-> s[i].tool, ms |-> 0, status |-> "ok"]
         /\ Answers(s, i, n) = {} /\ IsAnswer(s[n + 1]) /\ s[n + 1].tool = s[i].tool =>
              Told(s, i, n + 1) =
                [tool |-> s[i].tool, ms |-> s[n + 1].ms, status |-> s[n + 1].status]
<1> DEFINE A == Answers(s, i, n)
           B == Answers(s, i, n + 1)
<1>0. A \subseteq Nat /\ B \subseteq Nat /\ A \subseteq B /\ \A k \in A : k < n + 1
  BY DEF Answers
<1>1. ~(IsAnswer(s[n + 1]) /\ s[n + 1].tool = s[i].tool) => A = B
  BY DEF Answers
<1>2. B \subseteq A \cup {n + 1}
  BY DEF Answers
<1>3. IsAnswer(s[n + 1]) /\ s[n + 1].tool = s[i].tool => n + 1 \in B
  BY DEF Answers
<1>4. Told(s, i, n) = [tool |-> s[i].tool,
                       ms |-> IF A = {} THEN 0 ELSE s[FirstOf(A)].ms,
                       status |-> IF A = {} THEN "ok" ELSE s[FirstOf(A)].status]
  BY DEF Told
<1>5. Told(s, i, n + 1) = [tool |-> s[i].tool,
                           ms |-> IF B = {} THEN 0 ELSE s[FirstOf(B)].ms,
                           status |-> IF B = {} THEN "ok" ELSE s[FirstOf(B)].status]
  BY DEF Told
<1>. HIDE DEF A, B
<1>6. ASSUME A # {} PROVE FirstOf(B) = FirstOf(A) /\ B # {}
  <2>1. PICK f \in A : \A k \in A : f <= k
    BY <1>0, <1>6, LeastNat
  <2>2. FirstOf(A) = f
    BY <1>0, <2>1, FirstIs
  <2>3. f \in B /\ \A k \in B : f <= k
    BY <1>0, <1>2, <2>1
  <2>. QED BY <1>0, <2>2, <2>3, FirstIs
<1>7. ASSUME A = {}, IsAnswer(s[n + 1]), s[n + 1].tool = s[i].tool
      PROVE  FirstOf(B) = n + 1 /\ B # {}
  <2>1. B = {n + 1}
    BY <1>2, <1>3, <1>7
  <2>. QED BY <2>1, FirstIs, <1>0
<1>8. ~(IsAnswer(s[n + 1]) /\ s[n + 1].tool = s[i].tool) => Told(s, i, n + 1) = Told(s, i, n)
  BY <1>1, <1>4, <1>5
<1>9. A # {} => Told(s, i, n + 1) = Told(s, i, n)
  BY <1>4, <1>5, <1>6
<1>10. A = {} => Told(s, i, n) = [tool |-> s[i].tool, ms |-> 0, status |-> "ok"]
  BY <1>4
<1>11. A = {} /\ IsAnswer(s[n + 1]) /\ s[n + 1].tool = s[i].tool =>
         Told(s, i, n + 1) = [tool |-> s[i].tool, ms |-> s[n + 1].ms, status |-> s[n + 1].status]
  BY <1>5, <1>7
<1>. QED BY <1>8, <1>9, <1>10, <1>11 DEF A

-----------------------------------------------------------------------------
(* What is recorded of the first n of the events s.                        *)

StartsTo(s, n) == {i \in 1..n : IsStart(s[i])}

\* call numbers the calls in their order, and the log tells their outcomes.
LogsCalls(s, n, log, first, call) ==
  /\ call \in [1..Len(log) -> StartsTo(s, n)]
  /\ \A i \in StartsTo(s, n) : \E c \in 1..Len(log) : call[c] = i
  /\ \A c, d \in 1..Len(log) : c < d => call[c] < call[d]
  /\ \A c \in 1..Len(log) : log[c] = Told(s, call[c], n)
  /\ first = IF StartsTo(s, n) = {} THEN <<>> ELSE <<s[call[1]].tool>>

AlertsTo(s, n) == {i \in 1..n : s[i].type = "security_event_occurred"}

Recorded(s, n, log, first, count, answer) ==
  /\ \E call \in [1..Len(log) -> StartsTo(s, n)] : LogsCalls(s, n, log, first, call)
  /\ count = Cardinality(AlertsTo(s, n))
  /\ answer <=> \E i \in 1..n : s[i].type = "complete"

LEMMA FoldedIsRecorded ==
  ASSUME NEW n \in Nat
  PROVE  /\ FoldedUpTo(n) <=> Recorded(sent, n, exec_log, signaled, alerts, response)
         /\ FoldedUpTo(n)' <=> Recorded(sent', n, exec_log', signaled', alerts', response')
<1>1. FoldedUpTo(n) <=> Recorded(sent, n, exec_log, signaled, alerts, response)
  <2>1. StartsTo(sent, n) = {i \in 1..n : sent[i].type = "tool_call_started"}
    BY DEF StartsTo, IsStart
  <2>2. ASSUME NEW call \in [1..Len(exec_log) -> StartsTo(sent, n)], NEW c \in 1..Len(exec_log)
        PROVE  Outcome(call[c], n) = Told(sent, call[c], n)
    BY OutcomeIsTold DEF StartsTo
  <2>. DEFINE C == {i \in 1..n : sent[i].type = "tool_call_started"}
  <2>3. FoldedUpTo(n) <=>
          /\ \E call \in [1..Len(exec_log) -> C] :
               /\ \A i \in C : \E c \in 1..Len(exec_log) : call[c] = i
               /\ \A c, d \in 1..Len(exec_log) : c < d => call[c] < call[d]
               /\ \A c \in 1..Len(exec_log) : exec_log[c] = Outcome(call[c], n)
               /\ signaled = IF C = {} THEN <<>> ELSE <<sent[call[1]].tool>>
          /\ alerts = Cardinality(AlertsTo(sent, n))
          /\ response <=> \E i \in 1..n : sent[i].type = "complete"
    BY DEF FoldedUpTo, AlertsTo
  <2>4. StartsTo(sent, n) = C
    BY <2>1
  <2>. HIDE DEF C
  <2>5. ASSUME NEW call \in [1..Len(exec_log) -> C]
        PROVE  LogsCalls(sent, n, exec_log, signaled, call) <=>
                 /\ \A i \in C : \E c \in 1..Len(exec_log) : call[c] = i
                 /\ \A c, d \in 1..Len(exec_log) : c < d => call[c] < call[d]
                 /\ \A c \in 1..Len(exec_log) : exec_log[c] = Outcome(call[c], n)
                 /\ signaled = IF C = {} THEN <<>> ELSE <<sent[call[1]].tool>>
    BY <2>2, <2>4 DEF LogsCalls
  <2>. QED BY <2>3, <2>4, <2>5 DEF Recorded
<1>2. FoldedUpTo(n)' <=> Recorded(sent', n, exec_log', signaled', alerts', response')
  <2>1. StartsTo(sent', n) = {i \in 1..n : sent'[i].type = "tool_call_started"}
    BY DEF StartsTo, IsStart
  <2>2. ASSUME NEW i \in 1..n PROVE Outcome(i, n)' = Told(sent', i, n)
    BY OutcomeIsTold
  <2>. QED BY <2>1, <2>2 DEF FoldedUpTo, Recorded, LogsCalls, AlertsTo, StartsTo
<1>. QED BY <1>1, <1>2

LEMMA RecordedSame ==
  ASSUME NEW s, NEW z, NEW n \in Nat, \A j \in 1..n : z[j] = s[j],
         NEW log, NEW first, NEW count, NEW answer, Recorded(s, n, log, first, count, answer)
  PROVE  Recorded(z, n, log, first, count, answer)
<1>1. StartsTo(z, n) = StartsTo(s, n) /\ AlertsTo(z, n) = AlertsTo(s, n)
      /\ StartsTo(s, n) \subseteq 1..n
  BY DEF StartsTo, AlertsTo
<1>2. PICK call \in [1..Len(log) -> StartsTo(s, n)] : LogsCalls(s, n, log, first, call)
  BY DEF Recorded
<1>3. \A i \in StartsTo(s, n) : Told(z, i, n) = Told(s, i, n)
  BY <1>1, ToldSame
<1>4. StartsTo(s, n) # {} => z[call[1]] = s[call[1]]
  <2>1. ASSUME NEW i \in StartsTo(s, n) PROVE 1 \in 1..Len(log)
    BY <1>2, <2>1 DEF LogsCalls
  <2>. QED BY <1>1, <1>2, <2>1
<1>5. LogsCalls(z, n, log, first, call)
  BY <1>1, <1>2, <1>3, <1>4 DEF LogsCalls
<1>. QED BY <1>1, <1>5 DEF Recorded

\* A call starts: a step joins the log.
LEMMA StartIsLogged ==
  ASSUME AgenticForms, NEW h \in 0..(Len(sent) - 1), IsStart(sent[h + 1]),
         NEW call \in [1..Len(exec_log) -> StartsTo(sent, h)],
         LogsCalls(sent, h, exec_log, signaled, call), FoldEvent(sent[h + 1])
  PROVE  \E c \in [1..Len(exec_log') -> StartsTo(sent, h + 1)] :
           LogsCalls(sent, h + 1, exec_log', signaled', c)
<1> DEFINE e == sent[h + 1]
           L == Len(exec_log)
           S == StartsTo(sent, h)
           T == StartsTo(sent, h + 1)
           next == [c \in 1..(L + 1) |-> IF c = L + 1 THEN h + 1 ELSE call[c]]
<1>1. h \in Nat /\ L \in Nat /\ exec_log \in Seq(LogStep) /\ e.tool \in ChordTools /\ h + 1 \in 1..Len(sent)
  BY DEF AgenticForms
<1>2. T = S \cup {h + 1} /\ S \subseteq 1..h
  BY <1>1 DEF StartsTo
<1>3. /\ exec_log' = Append(exec_log, [tool |-> e.tool, ms |-> 0, status |-> "ok"])
      /\ signaled' = IF signaled = <<>> THEN <<e.tool>> ELSE signaled
  BY DEF FoldEvent, IsStart
<1>4. /\ Len(exec_log') = L + 1
      /\ \A c \in 1..L : exec_log'[c] = exec_log[c]
      /\ exec_log'[L + 1] = [tool |-> e.tool, ms |-> 0, status |-> "ok"]
  BY <1>1, <1>3
<1>5. /\ call \in [1..L -> S]
      /\ \A i \in S : \E c \in 1..L : call[c] = i
      /\ \A c, d \in 1..L : c < d => call[c] < call[d]
      /\ \A c \in 1..L : exec_log[c] = Told(sent, call[c], h)
      /\ signaled = IF S = {} THEN <<>> ELSE <<sent[call[1]].tool>>
  BY DEF LogsCalls
<1>6. ~IsAnswer(e)
  BY DEF IsStart, IsAnswer
<1>7. \A i \in S : Told(sent, i, h + 1) = Told(sent, i, h)
  BY <1>1, <1>2, <1>6, ToldNext
<1>8. Told(sent, h + 1, h + 1) = [tool |-> e.tool, ms |-> 0, status |-> "ok"]
  <2>1. Answers(sent, h + 1, h + 1) = {}
    BY <1>1 DEF Answers
  <2>. QED BY <2>1 DEF Told
<1>9. next \in [1..(L + 1) -> T]
  BY <1>1, <1>2, <1>5
<1>10. \A i \in T : \E c \in 1..(L + 1) : next[c] = i
  <2>1. next[L + 1] = h + 1 /\ L + 1 \in 1..(L + 1)
    BY <1>1
  <2>2. ASSUME NEW i \in S PROVE \E c \in 1..(L + 1) : next[c] = i
    <3>1. PICK c \in 1..L : call[c] = i
      BY <1>5
    <3>. QED BY <1>1, <3>1
  <2>. QED BY <1>2, <2>1, <2>2
<1>11. ASSUME NEW c \in 1..(L + 1), NEW d \in 1..(L + 1), c < d PROVE next[c] < next[d]
  <2>1. c \in 1..L /\ next[c] = call[c] /\ call[c] \in 1..h
    <3>1. c \in 1..L
      BY <1>1, <1>11
    <3>2. call[c] \in S
      BY <1>5, <3>1
    <3>. QED BY <1>1, <1>2, <3>1, <3>2
  <2>2. CASE d = L + 1
    BY <1>1, <2>1, <2>2
  <2>3. CASE d # L + 1
    <3>1. d \in 1..L /\ next[d] = call[d]
      BY <1>1, <2>3
    <3>. QED BY <1>5, <1>11, <2>1, <3>1
  <2>. QED BY <2>2, <2>3
<1>12. ASSUME NEW c \in 1..(L + 1) PROVE exec_log'[c] = Told(sent, next[c], h + 1)
  <2>1. CASE c = L + 1
    BY <1>1, <1>4, <1>8, <2>1
  <2>2. CASE c # L + 1
    <3>1. c \in 1..L /\ next[c] = call[c] /\ call[c] \in S
      BY <1>1, <1>5, <2>2
    <3>2. exec_log'[c] = Told(sent, call[c], h)
      BY <1>4, <1>5, <3>1
    <3>. QED BY <1>7, <3>1, <3>2
  <2>. QED BY <2>1, <2>2
<1>13. signaled' = IF T = {} THEN <<>> ELSE <<sent[next[1]].tool>>
  <2>1. CASE S = {}
    <3>1. L = 0
      BY <1>1, <1>5, <2>1
    <3>2. next[1] = h + 1 /\ T # {} /\ signaled = <<>>
      BY <1>2, <1>5, <2>1, <3>1
    <3>. QED BY <1>3, <3>2
  <2>2. CASE S # {}
    <3>1. PICK c \in 1..L : TRUE
      BY <1>5, <2>2
    <3>2. 1 \in 1..L /\ next[1] = call[1]
      BY <1>1, <3>1
    <3>3. signaled = <<sent[call[1]].tool>> /\ signaled # <<>>
      BY <1>5, <2>2
    <3>. QED BY <1>2, <1>3, <2>2, <3>2, <3>3
  <2>. QED BY <2>1, <2>2
<1>. HIDE DEF next, T, S
<1>14. LogsCalls(sent, h + 1, exec_log', signaled', next)
  BY <1>4, <1>9, <1>10, <1>11, <1>12, <1>13 DEF LogsCalls, T
<1>. QED BY <1>4, <1>9, <1>14 DEF T

\* A call is answered: the last step of its tool that has no time is its own.
LEMMA AnswerIsLogged ==
  ASSUME AgenticForms, CallsAlternate(sent), NEW h \in 0..(Len(sent) - 1), IsAnswer(sent[h + 1]),
         NEW call \in [1..Len(exec_log) -> StartsTo(sent, h)],
         LogsCalls(sent, h, exec_log, signaled, call), FoldEvent(sent[h + 1])
  PROVE  \E c \in [1..Len(exec_log') -> StartsTo(sent, h + 1)] :
           LogsCalls(sent, h + 1, exec_log', signaled', c)
<1> DEFINE e == sent[h + 1]
           L == Len(exec_log)
           S == StartsTo(sent, h)
<1>1. h \in Nat /\ L \in Nat /\ exec_log \in Seq(LogStep) /\ h + 1 \in 1..Len(sent)
  BY DEF AgenticForms
<1>2. StartsTo(sent, h + 1) = S /\ S \subseteq 1..h /\ \A i \in S : IsStart(sent[i])
  BY <1>1 DEF StartsTo, IsStart, IsAnswer
<1>3. /\ exec_log' = [c \in 1..L |-> IF c \in UntimedStep(e.tool)
                                       THEN [tool |-> e.tool, ms |-> e.ms, status |-> e.status]
                                       ELSE exec_log[c]]
      /\ signaled' = signaled
  BY DEF FoldEvent, IsAnswer
<1>4. exec_log' \in Seq(LogStep) /\ Len(exec_log') = L
  <2>1. e \in Event /\ e.tool \in ChordTools
    BY <1>1 DEF AgenticForms
  <2>2. [tool |-> e.tool, ms |-> e.ms, status |-> e.status] \in LogStep
    BY <2>1 DEF Event, LogStep
  <2>3. \A c \in 1..L : exec_log[c] \in LogStep
    BY <1>1
  <2>. QED BY <1>1, <1>3, <2>2, <2>3
<1>5. /\ call \in [1..L -> S]
      /\ \A i \in S : \E c \in 1..L : call[c] = i
      /\ \A c, d \in 1..L : c < d => call[c] < call[d]
      /\ \A c \in 1..L : exec_log[c] = Told(sent, call[c], h)
      /\ signaled = IF S = {} THEN <<>> ELSE <<sent[call[1]].tool>>
  BY DEF LogsCalls
<1>6. PICK i \in 1..h : /\ IsStart(sent[i]) /\ sent[i].tool = e.tool
                        /\ \A j \in (i + 1)..h : sent[j].tool # e.tool
  BY <1>1 DEF CallsAlternate
<1>7. i \in S
  BY <1>6 DEF StartsTo
<1>8. PICK c \in 1..L : call[c] = i
  BY <1>5, <1>7
<1>9. Answers(sent, i, h) = {}
  BY <1>6 DEF Answers
<1>10. exec_log[c] = [tool |-> e.tool, ms |-> 0, status |-> "ok"]
  <2>1. exec_log[c] = Told(sent, i, h)
    BY <1>5, <1>8
  <2>2. Told(sent, i, h) = [tool |-> sent[i].tool, ms |-> 0, status |-> "ok"]
    BY <1>1, <1>9, ToldNext
  <2>. QED BY <1>6, <2>1, <2>2
<1>11. \A d \in 1..L : exec_log[d].tool = sent[call[d]].tool
  <2>1. \A d \in 1..L : Told(sent, call[d], h).tool = sent[call[d]].tool
    BY DEF Told
  <2>. QED BY <1>5, <2>1
<1>12. \A d \in (c + 1)..L : exec_log[d].tool # e.tool
  <2> SUFFICES ASSUME NEW d \in (c + 1)..L PROVE exec_log[d].tool # e.tool
    OBVIOUS
  <2>1. d \in 1..L /\ c < d
    BY <1>1, <1>8
  <2>2. call[d] \in (i + 1)..h
    <3>1. call[d] \in S /\ call[d] \in 1..h
      BY <1>2, <1>5, <2>1
    <3>2. call[c] < call[d]
      BY <1>5, <2>1
    <3>. QED BY <1>1, <1>8, <3>1, <3>2
  <2>. QED BY <1>6, <1>11, <2>1, <2>2
<1>13. UntimedStep(e.tool) = {c}
  <2>1. c \in UntimedStep(e.tool)
    BY <1>10, <1>12 DEF UntimedStep
  <2>2. ASSUME NEW d \in UntimedStep(e.tool) PROVE d = c
    <3>1. d \in 1..L /\ exec_log[d].tool = e.tool
          /\ \A j \in (d + 1)..L : exec_log[j].tool = e.tool => exec_log[j].ms # 0
      BY <2>2 DEF UntimedStep
    <3>2. ~(d < c)
      BY <1>1, <1>10, <3>1
    <3>3. ~(c < d)
      BY <1>1, <1>12, <3>1
    <3>. QED BY <1>1, <3>1, <3>2, <3>3
  <2>. QED BY <2>1, <2>2
<1>14. \A d \in 1..L : exec_log'[d] = Told(sent, call[d], h + 1)
  <2> SUFFICES ASSUME NEW d \in 1..L PROVE exec_log'[d] = Told(sent, call[d], h + 1)
    OBVIOUS
  <2>1. CASE d = c
    <3>1. Told(sent, i, h + 1) = [tool |-> e.tool, ms |-> e.ms, status |-> e.status]
      BY <1>1, <1>6, <1>9, ToldNext
    <3>. QED BY <1>3, <1>8, <1>13, <2>1, <3>1
  <2>2. CASE d # c
    <3>1. exec_log'[d] = Told(sent, call[d], h)
      BY <1>3, <1>5, <1>13, <2>2
    <3>2. call[d] \in S /\ call[d] \in 1..h
      BY <1>2, <1>5
    <3>3. CASE sent[call[d]].tool # e.tool
      BY <1>1, <3>1, <3>2, <3>3, ToldNext
    <3>4. CASE sent[call[d]].tool = e.tool
      <4>1. d < c
        BY <1>1, <1>11, <1>12, <2>2, <3>4
      <4>2. call[d] < i
        BY <1>5, <1>8, <4>1
      <4>3. PICK j \in (call[d] + 1)..(i - 1) : IsAnswer(sent[j]) /\ sent[j].tool = sent[i].tool
        <5>1. call[d] \in 1..Len(sent) /\ i \in 1..Len(sent) /\ IsStart(sent[call[d]])
          BY <1>1, <1>2, <3>2
        <5>. QED BY <1>6, <3>4, <4>2, <5>1 DEF CallsAlternate
      <4>4. j \in Answers(sent, call[d], h)
        BY <1>6, <3>2, <3>4, <4>3 DEF Answers
      <4>. QED BY <1>1, <3>1, <3>2, <4>4, ToldNext
    <3>. QED BY <3>3, <3>4
  <2>. QED BY <2>1, <2>2
<1>. HIDE DEF S
<1>15. LogsCalls(sent, h + 1, exec_log', signaled', call)
  BY <1>2, <1>3, <1>4, <1>5, <1>14 DEF LogsCalls
<1>. QED BY <1>2, <1>4, <1>5, <1>15

\* Another event leaves the log as it is.
LEMMA OthersAreNotLogged ==
  ASSUME AgenticForms, NEW h \in 0..(Len(sent) - 1), ~IsStart(sent[h + 1]), ~IsAnswer(sent[h + 1]),
         NEW call \in [1..Len(exec_log) -> StartsTo(sent, h)],
         LogsCalls(sent, h, exec_log, signaled, call), FoldEvent(sent[h + 1])
  PROVE  \E c \in [1..Len(exec_log') -> StartsTo(sent, h + 1)] :
           LogsCalls(sent, h + 1, exec_log', signaled', c)
<1>1. h \in Nat /\ Len(exec_log) \in Nat /\ exec_log \in Seq(LogStep)
  BY DEF AgenticForms
<1>2. exec_log' = [c \in 1..Len(exec_log) |-> exec_log[c]] /\ signaled' = signaled
  BY DEF FoldEvent, IsStart, IsAnswer
<1>3. exec_log' = exec_log
  BY <1>1, <1>2
<1>4. StartsTo(sent, h + 1) = StartsTo(sent, h) /\ StartsTo(sent, h) \subseteq 1..h
  BY <1>1 DEF StartsTo
<1>5. \A i \in StartsTo(sent, h) : Told(sent, i, h + 1) = Told(sent, i, h)
  BY <1>1, <1>4, ToldNext
<1>6. LogsCalls(sent, h + 1, exec_log', signaled', call)
  BY <1>2, <1>3, <1>4, <1>5 DEF LogsCalls
<1>. QED BY <1>3, <1>4, <1>6

LEMMA EventIsRecorded ==
  ASSUME AgenticForms, CallsAlternate(sent), NEW h \in 0..(Len(sent) - 1), FoldedUpTo(h),
         FoldEvent(sent[h + 1]), sent' = sent
  PROVE  FoldedUpTo(h + 1)'
<1> DEFINE e == sent[h + 1]
<1>1. h \in Nat /\ Recorded(sent, h, exec_log, signaled, alerts, response)
  BY FoldedIsRecorded
<1>2. PICK call \in [1..Len(exec_log) -> StartsTo(sent, h)] :
        LogsCalls(sent, h, exec_log, signaled, call)
  BY <1>1 DEF Recorded
<1>3. \E c \in [1..Len(exec_log') -> StartsTo(sent, h + 1)] :
        LogsCalls(sent, h + 1, exec_log', signaled', c)
  BY <1>2, StartIsLogged, AnswerIsLogged, OthersAreNotLogged
<1>4. alerts' = Cardinality(AlertsTo(sent, h + 1))
  <2>1. alerts' = IF e.type = "security_event_occurred" THEN alerts + 1 ELSE alerts
    BY DEF FoldEvent
  <2>2. alerts = Cardinality(AlertsTo(sent, h)) /\ h + 1 \notin AlertsTo(sent, h)
    BY <1>1 DEF Recorded, AlertsTo
  <2>3. IsFiniteSet(AlertsTo(sent, h))
    <3>1. IsFiniteSet(1..h)
      BY <1>1, FS_Interval
    <3>2. AlertsTo(sent, h) \subseteq 1..h
      BY DEF AlertsTo
    <3>. QED BY <3>1, <3>2, FS_Subset
  <2>4. AlertsTo(sent, h + 1) = IF e.type = "security_event_occurred"
                                  THEN AlertsTo(sent, h) \cup {h + 1} ELSE AlertsTo(sent, h)
    BY <1>1 DEF AlertsTo
  <2>. QED BY <2>1, <2>2, <2>3, <2>4, FS_AddElement
<1>5. response' <=> \E i \in 1..(h + 1) : sent[i].type = "complete"
  <2>1. response' <=> response \/ e.type = "complete"
    BY DEF FoldEvent
  <2>2. response <=> \E i \in 1..h : sent[i].type = "complete"
    BY <1>1 DEF Recorded
  <2>. QED BY <1>1, <2>1, <2>2
<1>6. Recorded(sent, h + 1, exec_log', signaled', alerts', response')
  BY <1>3, <1>4, <1>5 DEF Recorded
<1>. QED BY <1>1, <1>6, FoldedIsRecorded

-----------------------------------------------------------------------------
(* The frames.                                                             *)

LEMMA Joined ==
  ASSUME NEW S, NEW a \in Seq(S), NEW b \in Seq(S)
  PROVE  /\ a \o b \in Seq(S) /\ Len(a \o b) = Len(a) + Len(b)
         /\ \A i \in 1..Len(a) : (a \o b)[i] = a[i]
         /\ \A i \in 1..Len(b) : (a \o b)[Len(a) + i] = b[i]
OBVIOUS

LEMMA SameSequence ==
  ASSUME NEW S, NEW a \in Seq(S), NEW b \in Seq(S), Len(a) = Len(b), \A i \in 1..Len(a) : a[i] = b[i]
  PROVE  a = b
OBVIOUS

LEMMA FourAndFive ==
  ASSUME NEW S, NEW a \in S, NEW b \in S, NEW c \in S, NEW d \in S, NEW e \in S
  PROVE  /\ <<a, b, c, d>> \in Seq(S) /\ Len(<<a, b, c, d>>) = 4
         /\ <<a, b, c, d, e>> \in Seq(S) /\ Len(<<a, b, c, d, e>>) = 5
OBVIOUS

LEMMA FrameForms ==
  ASSUME NEW i \in Nat
  PROVE  /\ Frame(i, 1) \in Seq(Byte) /\ Len(Frame(i, 1)) = 4
         /\ Frame(i, 2) \in Seq(Byte) /\ Len(Frame(i, 2)) = 5
         /\ Frame(i, 1)[1] = Part(i, 1) /\ Frame(i, 1)[2] = Part(i, 2)
         /\ Frame(i, 1)[3] = NewLine /\ Frame(i, 1)[4] = NewLine
         /\ Frame(i, 2)[1] = Part(i, 1) /\ Frame(i, 2)[2] = NewLine /\ Frame(i, 2)[3] = Part(i, 2)
         /\ Frame(i, 2)[4] = NewLine /\ Frame(i, 2)[5] = NewLine
<1>1. Frame(i, 1) = <<Part(i, 1), Part(i, 2), NewLine, NewLine>>
  BY DEF Frame
<1>2. Frame(i, 2) = <<Part(i, 1), NewLine, Part(i, 2), NewLine, NewLine>>
  BY DEF Frame
<1>3. Part(i, 1) \in Byte /\ Part(i, 2) \in Byte /\ NewLine \in Byte
  BY ByteForms
<1>4. Frame(i, 1) \in Seq(Byte) /\ Len(Frame(i, 1)) = 4
  <2> DEFINE a == Part(i, 1)
             b == Part(i, 2)
             c == NewLine
  <2>1. a \in Byte /\ b \in Byte /\ c \in Byte /\ Frame(i, 1) = <<a, b, c, c>>
    BY <1>1, <1>3
  <2>. HIDE DEF a, b, c
  <2>2. <<a, b, c, c>> \in Seq(Byte) /\ Len(<<a, b, c, c>>) = 4
    BY <2>1, FourAndFive
  <2>. QED BY <2>1, <2>2
<1>5. Frame(i, 2) \in Seq(Byte) /\ Len(Frame(i, 2)) = 5
  <2> DEFINE a == Part(i, 1)
             b == Part(i, 2)
             c == NewLine
  <2>1. a \in Byte /\ b \in Byte /\ c \in Byte /\ Frame(i, 2) = <<a, c, b, c, c>>
    BY <1>2, <1>3
  <2>. HIDE DEF a, b, c
  <2>2. <<a, c, b, c, c>> \in Seq(Byte) /\ Len(<<a, c, b, c, c>>) = 5
    BY <2>1, FourAndFive
  <2>. QED BY <2>1, <2>2
<1>. QED BY <1>1, <1>2, <1>4, <1>5

\* A frame moved in another stream is that frame.
LEMMA FrameCopied ==
  ASSUME NEW s, NEW z, NEW i, NEW a \in Nat, NEW b \in Nat, NEW c \in Nat, NEW d \in Nat,
         FrameAt(s, i, a, b), d - c = b - a,
         \A k \in a..(b - 1) : z[c + (k - a)] = s[k]
  PROVE  FrameAt(z, i, c, d)
<1>1. b = a + 4 \/ b = a + 5
  BY DEF FrameAt
<1>2. z[c] = s[a] /\ z[c + 1] = s[a + 1] /\ z[c + 2] = s[a + 2] /\ z[c + 3] = s[a + 3]
  <2>1. /\ a \in a..(b - 1) /\ a + 1 \in a..(b - 1) /\ a + 2 \in a..(b - 1) /\ a + 3 \in a..(b - 1)
        /\ c + (a - a) = c /\ c + ((a + 1) - a) = c + 1
        /\ c + ((a + 2) - a) = c + 2 /\ c + ((a + 3) - a) = c + 3
    BY <1>1
  <2>. QED BY <2>1
<1>3. b = a + 5 => z[c + 4] = s[a + 4]
  <2>1. b = a + 5 => a + 4 \in a..(b - 1) /\ c + ((a + 4) - a) = c + 4
    OBVIOUS
  <2>. QED BY <2>1
<1>4. (b = a + 4 => d = c + 4) /\ (b = a + 5 => d = c + 5)
  OBVIOUS
<1>. QED BY <1>2, <1>3, <1>4 DEF FrameAt

LEMMA FrameEnd ==
  ASSUME NEW s, NEW i, NEW a \in Nat, NEW lines \in {1, 2},
         \A k \in 1..(3 + lines) : s[a + k] = Frame(i, lines)[k], i \in Nat
  PROVE  FrameAt(s, i, a + 1, a + 4 + lines)
<1>1. CASE lines = 1
  <2>1. \A k \in 1..4 : s[a + k] = Frame(i, 1)[k]
    BY <1>1
  <2>2. 1 \in 1..4 /\ 2 \in 1..4 /\ 3 \in 1..4 /\ 4 \in 1..4
    OBVIOUS
  <2>3. s[a + 1] = Part(i, 1) /\ s[a + 2] = Part(i, 2) /\ s[a + 3] = NewLine /\ s[a + 4] = NewLine
    BY <2>1, <2>2, FrameForms
  <2>4. (a + 1) + 1 = a + 2 /\ (a + 1) + 2 = a + 3 /\ (a + 1) + 3 = a + 4
        /\ a + 4 + lines = (a + 1) + 4
    BY <1>1
  <2>. QED BY <2>3, <2>4 DEF FrameAt
<1>2. CASE lines = 2
  <2>1. \A k \in 1..5 : s[a + k] = Frame(i, 2)[k]
    BY <1>2
  <2>2. 1 \in 1..5 /\ 2 \in 1..5 /\ 3 \in 1..5 /\ 4 \in 1..5 /\ 5 \in 1..5
    OBVIOUS
  <2>3. s[a + 1] = Part(i, 1) /\ s[a + 2] = NewLine /\ s[a + 3] = Part(i, 2)
        /\ s[a + 4] = NewLine /\ s[a + 5] = NewLine
    BY <2>1, <2>2, FrameForms
  <2>4. (a + 1) + 1 = a + 2 /\ (a + 1) + 2 = a + 3 /\ (a + 1) + 3 = a + 4 /\ (a + 1) + 4 = a + 5
        /\ a + 4 + lines = (a + 1) + 5
    BY <1>2
  <2>. QED BY <2>3, <2>4 DEF FrameAt
<1>. QED BY <1>1, <1>2

LEMMA FrameBytes ==
  ASSUME NEW i \in Nat, NEW lines \in {1, 2}, NEW k \in 1..(3 + lines)
  PROVE  Frame(i, lines)[k] \in {Part(i, 1), Part(i, 2), NewLine}
<1>1. CASE lines = 1
  <2>1. k = 1 \/ k = 2 \/ k = 3 \/ k = 4
    BY <1>1
  <2>. QED BY <1>1, <2>1, FrameForms
<1>2. CASE lines = 2
  <2>1. k = 1 \/ k = 2 \/ k = 3 \/ k = 4 \/ k = 5
    BY <1>2
  <2>. QED BY <1>2, <2>1, FrameForms
<1>. QED BY <1>1, <1>2

\* A frame more.
LEMMA FrameJoins ==
  ASSUME NEW s \in Seq(Byte), NEW n \in Nat, NEW h \in 0..n,
         NEW at \in [(h + 1)..(n + 1) -> Nat], FramesFrom(s, h, n, at),
         NEW z \in Seq(Byte), NEW lines \in {1, 2},
         Len(z) = Len(s) + 3 + lines,
         \A k \in 1..Len(s) : z[k] = s[k],
         \A k \in 1..(3 + lines) : z[Len(s) + k] = Frame(n + 1, lines)[k]
  PROVE  \E a \in [(h + 1)..(n + 2) -> Nat] : FramesFrom(z, h, n + 1, a)
<1> DEFINE L == Len(s)
           a == [i \in (h + 1)..(n + 2) |-> IF i = n + 2 THEN L + 4 + lines ELSE at[i]]
<1>1. L \in Nat /\ Len(z) = L + 3 + lines /\ n \in Nat /\ h \in Nat /\ h <= n
  OBVIOUS
<1>2. /\ at[h + 1] = 1
      /\ at[n + 1] = L + 1
      /\ \A i, j \in (h + 1)..(n + 1) : i < j => at[i] < at[j]
      /\ \A i \in (h + 1)..n : FrameAt(s, i, at[i], at[i + 1])
      /\ \A k \in 1..L : s[k].of # 0 =>
           s[k].of \in (h + 1)..n /\ at[s[k].of] <= k /\ k < at[s[k].of + 1]
  BY DEF FramesFrom
<1>3. a \in [(h + 1)..(n + 2) -> Nat] /\ a[n + 2] = L + 4 + lines
      /\ \A i \in (h + 1)..(n + 1) : a[i] = at[i] /\ at[i] \in Nat
  <2>1. \A i \in (h + 1)..(n + 1) : at[i] \in Nat
    OBVIOUS
  <2>2. L + 4 + lines \in Nat /\ n + 2 \in (h + 1)..(n + 2)
    BY <1>1
  <2>3. \A i \in (h + 1)..(n + 2) : i = n + 2 \/ i \in (h + 1)..(n + 1)
    BY <1>1
  <2>4. \A i \in (h + 1)..(n + 1) : i \in (h + 1)..(n + 2) /\ i # n + 2
    BY <1>1
  <2>. QED BY <2>1, <2>2, <2>3, <2>4
<1>4. a[h + 1] = 1 /\ a[n + 2] = Len(z) + 1
  BY <1>1, <1>2, <1>3
<1>5. \A i \in (h + 1)..(n + 1) : 1 <= at[i] /\ at[i] <= L + 1
  <2> SUFFICES ASSUME NEW i \in (h + 1)..(n + 1) PROVE 1 <= at[i] /\ at[i] <= L + 1
    OBVIOUS
  <2>1. h + 1 \in (h + 1)..(n + 1) /\ n + 1 \in (h + 1)..(n + 1)
    BY <1>1
  <2>2. (i = h + 1 \/ at[h + 1] < at[i]) /\ (i = n + 1 \/ at[i] < at[n + 1])
    BY <1>1, <1>2, <2>1
  <2>3. at[i] \in Nat /\ at[h + 1] = 1 /\ at[n + 1] = L + 1
    BY <1>2, <1>3
  <2>4. 1 <= at[i]
    BY <2>2, <2>3
  <2>5. at[i] <= L + 1
    BY <1>1, <2>2, <2>3
  <2>. QED BY <2>4, <2>5
<1>6. ASSUME NEW i \in (h + 1)..(n + 2), NEW j \in (h + 1)..(n + 2), i < j PROVE a[i] < a[j]
  <2>1. i \in (h + 1)..(n + 1)
    BY <1>1, <1>6
  <2>2. CASE j = n + 2
    BY <1>1, <1>3, <1>5, <2>1, <2>2
  <2>3. CASE j # n + 2
    <3>1. j \in (h + 1)..(n + 1)
      BY <1>1, <2>3
    <3>. QED BY <1>2, <1>3, <1>6, <2>1, <3>1
  <2>. QED BY <2>2, <2>3
<1>7. ASSUME NEW i \in (h + 1)..(n + 1) PROVE FrameAt(z, i, a[i], a[i + 1])
  <2>1. CASE i = n + 1
    <3>1. a[i] = L + 1 /\ a[i + 1] = L + 4 + lines
      BY <1>1, <1>2, <1>3, <2>1
    <3>2. \A k \in 1..(3 + lines) : z[L + k] = Frame(i, lines)[k]
      BY <2>1
    <3>3. i \in Nat
      BY <1>1, <2>1
    <3>4. FrameAt(z, i, L + 1, L + 4 + lines)
      BY <1>1, <3>2, <3>3, FrameEnd
    <3>. QED BY <3>1, <3>4
  <2>2. CASE i # n + 1
    <3>1. i \in (h + 1)..n /\ i \in (h + 1)..(n + 1) /\ i + 1 \in (h + 1)..(n + 1)
      BY <1>1, <2>2
    <3>2. a[i] = at[i] /\ a[i + 1] = at[i + 1] /\ FrameAt(s, i, at[i], at[i + 1])
      BY <1>2, <1>3, <3>1
    <3>3. at[i] \in Nat /\ at[i + 1] \in Nat /\ 1 <= at[i] /\ at[i + 1] <= L + 1
      BY <1>3, <1>5, <3>1
    <3>4. ASSUME NEW k \in at[i]..(at[i + 1] - 1) PROVE z[at[i] + (k - at[i])] = s[k]
      <4> DEFINE p == at[i]
                 q == at[i + 1]
      <4>3. p \in Nat /\ q \in Nat /\ 1 <= p /\ q <= L + 1 /\ k \in p..(q - 1)
        BY <3>3
      <4> HIDE DEF p, q
      <4>4. k \in Int /\ p <= k /\ k <= q - 1
        BY <4>3
      <4>2. k \in 1..L /\ p + (k - p) = k
        BY <1>1, <4>3, <4>4
      <4>1. k \in 1..L /\ at[i] + (k - at[i]) = k
        BY <4>2 DEF p
      <4>. QED BY <4>1
    <3>5. FrameAt(z, i, at[i], at[i + 1])
      <4> DEFINE p == at[i]
                 q == at[i + 1]
      <4>1. p \in Nat /\ q \in Nat /\ q - p = q - p
        BY <3>3
      <4>2. FrameAt(s, i, p, q) /\ \A k \in p..(q - 1) : z[p + (k - p)] = s[k]
        BY <3>2, <3>4
      <4> HIDE DEF p, q
      <4>3. FrameAt(z, i, p, q)
        BY <4>1, <4>2, FrameCopied
      <4>. QED BY <4>3 DEF p, q
    <3>. QED BY <3>2, <3>5
  <2>. QED BY <2>1, <2>2
<1>8. ASSUME NEW k \in 1..Len(z), z[k].of # 0
      PROVE  z[k].of \in (h + 1)..(n + 1) /\ a[z[k].of] <= k /\ k < a[z[k].of + 1]
  <2>. HIDE DEF a
  <2>1. CASE k <= L
    <3>1. k \in 1..L /\ z[k] = s[k]
      BY <1>1, <2>1
    <3>2. s[k].of \in (h + 1)..n /\ at[s[k].of] <= k /\ k < at[s[k].of + 1]
      BY <1>2, <1>8, <3>1
    <3>3. s[k].of \in (h + 1)..(n + 1) /\ s[k].of + 1 \in (h + 1)..(n + 1)
      BY <1>1, <3>2
    <3>4. a[s[k].of] = at[s[k].of] /\ a[s[k].of + 1] = at[s[k].of + 1]
      BY <1>3, <3>3
    <3>. QED BY <3>1, <3>2, <3>3, <3>4
  <2>2. CASE k > L
    <3>1. k - L \in 1..(3 + lines) /\ k = L + (k - L)
      BY <1>1, <2>2
    <3>2. z[k] = Frame(n + 1, lines)[k - L]
      BY <3>1
    <3>3. z[k] \in {Part(n + 1, 1), Part(n + 1, 2), NewLine}
      <4>1. n + 1 \in Nat
        BY <1>1
      <4>. QED BY <3>1, <3>2, <4>1, FrameBytes
    <3>4. z[k].of = n + 1
      BY <1>1, <1>8, <3>3, ByteForms
    <3>5. n + 1 \in (h + 1)..(n + 1)
      BY <1>1
    <3>6. a[n + 1] = L + 1 /\ a[(n + 1) + 1] = L + 4 + lines
      BY <1>1, <1>2, <1>3, <3>5
    <3>. QED BY <1>1, <2>2, <3>4, <3>5, <3>6
  <2>. QED BY <1>1, <2>1, <2>2
<1>. HIDE DEF a
<1>9. FramesFrom(z, h, n + 1, a)
  <2>1. (n + 1) + 1 = n + 2
    BY <1>1
  <2>. QED BY <1>3, <1>4, <1>6, <1>7, <1>8, <2>1 DEF FramesFrom
<1>. QED BY <1>3, <1>9

\* The first frame leaves.
LEMMA FrameLeaves ==
  ASSUME NEW s \in Seq(Byte), NEW n \in Nat, NEW h \in 0..(n - 1),
         NEW at \in [(h + 1)..(n + 1) -> Nat], FramesFrom(s, h, n, at)
  PROVE  /\ at[h + 2] \in {5, 6} /\ at[h + 2] - 1 <= Len(s) /\ FrameAt(s, h + 1, 1, at[h + 2])
         /\ \A z \in Seq(Byte) :
              /\ Len(z) = Len(s) - (at[h + 2] - 1)
              /\ \A k \in 1..Len(z) : z[k] = s[k + (at[h + 2] - 1)]
              => \E a \in [(h + 2)..(n + 1) -> Nat] : FramesFrom(z, h + 1, n, a)
<1> DEFINE L == at[h + 2] - 1
<1>1. n \in Nat /\ h \in Nat /\ h + 1 <= n /\ Len(s) \in Nat
  OBVIOUS
<1>2. /\ at[h + 1] = 1
      /\ at[n + 1] = Len(s) + 1
      /\ \A i, j \in (h + 1)..(n + 1) : i < j => at[i] < at[j]
      /\ \A i \in (h + 1)..n : FrameAt(s, i, at[i], at[i + 1])
      /\ \A k \in 1..Len(s) : s[k].of # 0 =>
           s[k].of \in (h + 1)..n /\ at[s[k].of] <= k /\ k < at[s[k].of + 1]
  BY DEF FramesFrom
<1>3. \A i \in (h + 1)..(n + 1) : at[i] \in Nat
  OBVIOUS
<1>4. FrameAt(s, h + 1, 1, at[h + 2])
  <2>1. h + 1 \in (h + 1)..n /\ (h + 1) + 1 = h + 2
    BY <1>1
  <2>. QED BY <1>2, <2>1
<1>5. at[h + 2] \in {5, 6}
  BY <1>4 DEF FrameAt
<1>6. L \in {4, 5}
  BY <1>5
<1>7. \A i \in (h + 2)..(n + 1) : L + 1 <= at[i] /\ at[i] <= Len(s) + 1
  <2> SUFFICES ASSUME NEW i \in (h + 2)..(n + 1) PROVE L + 1 <= at[i] /\ at[i] <= Len(s) + 1
    OBVIOUS
  <2>1. h + 2 \in (h + 1)..(n + 1) /\ n + 1 \in (h + 1)..(n + 1) /\ i \in (h + 1)..(n + 1)
    BY <1>1
  <2>2. (i = h + 2 \/ at[h + 2] < at[i]) /\ (i = n + 1 \/ at[i] < at[n + 1])
    BY <1>1, <1>2, <2>1
  <2>3. at[i] \in Nat /\ at[h + 2] = L + 1 /\ at[n + 1] = Len(s) + 1
    BY <1>2, <1>3, <1>5, <2>1
  <2>. HIDE DEF L
  <2>4. L + 1 <= at[i]
    BY <1>6, <2>2, <2>3
  <2>5. at[i] <= Len(s) + 1
    BY <1>1, <2>2, <2>3
  <2>. QED BY <2>4, <2>5
<1>8. L <= Len(s)
  <2>1. h + 2 \in (h + 2)..(n + 1)
    BY <1>1
  <2>. QED BY <1>1, <1>5, <1>7, <2>1
<1>9. ASSUME NEW z \in Seq(Byte), Len(z) = Len(s) - L, \A k \in 1..Len(z) : z[k] = s[k + L]
      PROVE  \E a \in [(h + 2)..(n + 1) -> Nat] : FramesFrom(z, h + 1, n, a)
  <2> DEFINE a == [i \in (h + 2)..(n + 1) |-> at[i] - L]
  <2>. HIDE DEF L
  <2>1. \A i \in (h + 2)..(n + 1) : i \in (h + 1)..(n + 1) /\ at[i] \in Nat /\ a[i] = at[i] - L
    BY <1>1, <1>3
  <2>2. a \in [(h + 2)..(n + 1) -> Nat]
    <3>1. ASSUME NEW i \in (h + 2)..(n + 1) PROVE at[i] - L \in Nat
      <4>1. at[i] \in Nat /\ L + 1 <= at[i]
        BY <1>7, <2>1
      <4>. QED BY <1>6, <4>1
    <3>. QED BY <3>1
  <2>. HIDE DEF a
  <2>3. a[h + 2] = 1
    <3>1. h + 2 \in (h + 2)..(n + 1)
      BY <1>1
    <3>. QED BY <1>5, <1>6, <2>1, <3>1 DEF L
  <2>4. a[n + 1] = Len(z) + 1
    <3>1. n + 1 \in (h + 2)..(n + 1)
      BY <1>1
    <3>2. at[n + 1] = Len(s) + 1 /\ a[n + 1] = at[n + 1] - L
      BY <1>2, <2>1, <3>1
    <3>. QED BY <1>1, <1>6, <1>9, <3>2
  <2>5. ASSUME NEW i \in (h + 2)..(n + 1), NEW j \in (h + 2)..(n + 1), i < j PROVE a[i] < a[j]
    <3>1. at[i] < at[j] /\ at[i] \in Nat /\ at[j] \in Nat /\ a[i] = at[i] - L /\ a[j] = at[j] - L
      BY <1>2, <2>1, <2>5
    <3>. QED BY <1>6, <3>1
  <2>6. ASSUME NEW i \in (h + 2)..n PROVE FrameAt(z, i, a[i], a[i + 1])
    <3> DEFINE p == at[i]
               q == at[i + 1]
               b == a[i]
               c == a[i + 1]
    <3>1. i \in (h + 2)..(n + 1) /\ i + 1 \in (h + 2)..(n + 1) /\ i \in (h + 1)..n
      BY <1>1
    <3>2. /\ p \in Nat /\ q \in Nat /\ b \in Nat /\ c \in Nat
          /\ b = p - L /\ c = q - L /\ L + 1 <= p /\ q <= Len(s) + 1
          /\ FrameAt(s, i, p, q)
      BY <1>2, <1>7, <2>1, <2>2, <3>1
    <3>. HIDE DEF p, q, b, c
    <3>3. ASSUME NEW k \in p..(q - 1) PROVE z[b + (k - p)] = s[k]
      <4>1. b + (k - p) = k - L /\ k - L \in 1..Len(z) /\ (k - L) + L = k
        BY <1>1, <1>6, <1>9, <3>2
      <4>. QED BY <1>9, <4>1
    <3>4. c - b = q - p
      BY <1>6, <3>2
    <3>5. FrameAt(z, i, b, c)
      BY <3>2, <3>3, <3>4, FrameCopied
    <3>. QED BY <3>5 DEF b, c
  <2>7. ASSUME NEW k \in 1..Len(z), z[k].of # 0
        PROVE  z[k].of \in (h + 2)..n /\ a[z[k].of] <= k /\ k < a[z[k].of + 1]
    <3> DEFINE i == z[k].of
    <3>1. k + L \in 1..Len(s) /\ z[k] = s[k + L] /\ k \in Nat
      BY <1>1, <1>6, <1>9
    <3>2. i \in (h + 1)..n /\ at[i] <= k + L /\ k + L < at[i + 1]
      BY <1>2, <2>7, <3>1
    <3>. HIDE DEF i
    <3>3. i # h + 1
      <4>1. ASSUME i = h + 1 PROVE at[i + 1] = L + 1
        <5>1. i + 1 = h + 2
          BY <1>1, <4>1
        <5>. QED BY <1>5, <5>1 DEF L
      <4>. QED BY <1>6, <3>1, <3>2, <4>1
    <3>4. i \in (h + 2)..n /\ i \in (h + 2)..(n + 1) /\ i + 1 \in (h + 2)..(n + 1)
      BY <1>1, <3>2, <3>3
    <3> DEFINE p == at[i]
               q == at[i + 1]
    <3>5. p \in Nat /\ q \in Nat /\ a[i] = p - L /\ a[i + 1] = q - L /\ p <= k + L /\ k + L < q
      BY <2>1, <3>2, <3>4
    <3>. HIDE DEF p, q
    <3>6. a[i] <= k /\ k < a[i + 1]
      <4>1. L \in Int /\ p - L <= k /\ k < q - L
        BY <1>6, <3>1, <3>5
      <4>. QED BY <3>5, <4>1
    <3>. QED BY <3>4, <3>6 DEF i
  <2>8. FramesFrom(z, h + 1, n, a)
    <3>1. (h + 1) + 1 = h + 2
      BY <1>1
    <3>. QED BY <2>2, <2>3, <2>4, <2>5, <2>6, <2>7, <3>1 DEF FramesFrom
  <2>. QED BY <2>2, <2>8
<1>. QED BY <1>4, <1>5, <1>8, <1>9

-----------------------------------------------------------------------------
(* The steps.                                                              *)

LEMMA AlternateGrows ==
  ASSUME NEW s \in Seq(Event), NEW e \in Event, CallsAlternate(s),
         IsStart(e) => \A i \in 1..Len(s) : IsStart(s[i]) /\ s[i].tool = e.tool =>
                         \E j \in (i + 1)..Len(s) : s[j].tool = e.tool,
         IsAnswer(e) => \E i \in 1..Len(s) : /\ IsStart(s[i]) /\ s[i].tool = e.tool
                                             /\ \A j \in (i + 1)..Len(s) : s[j].tool # e.tool,
         IsStart(e) => \A j \in 1..Len(s) : s[j].tool = e.tool => IsStart(s[j]) \/ IsAnswer(s[j])
  PROVE  CallsAlternate(Append(s, e))
<1> DEFINE n == Len(s)
           z == Append(s, e)
<1>1. n \in Nat /\ Len(z) = n + 1 /\ z[n + 1] = e /\ \A i \in 1..n : z[i] = s[i]
  OBVIOUS
<1>2. /\ \A i, k \in 1..n :
           i < k /\ IsStart(s[i]) /\ IsStart(s[k]) /\ s[i].tool = s[k].tool =>
             \E j \in (i + 1)..(k - 1) : IsAnswer(s[j]) /\ s[j].tool = s[k].tool
      /\ \A k \in 1..n : IsAnswer(s[k]) =>
           \E i \in 1..(k - 1) : /\ IsStart(s[i]) /\ s[i].tool = s[k].tool
                                 /\ \A j \in (i + 1)..(k - 1) : s[j].tool # s[k].tool
  BY DEF CallsAlternate
<1> HIDE DEF n, z
<1>3. ASSUME NEW i \in 1..(n + 1), NEW k \in 1..(n + 1), i < k, IsStart(z[i]), IsStart(z[k]),
             z[i].tool = z[k].tool
      PROVE  \E j \in (i + 1)..(k - 1) : IsAnswer(z[j]) /\ z[j].tool = z[k].tool
  <2>0. i \in 1..n /\ z[i] = s[i]
    BY <1>1, <1>3
  <2>1. CASE k # n + 1
    <3>1. k \in 1..n /\ z[k] = s[k]
      BY <1>1, <2>1
    <3>2. PICK j \in (i + 1)..(k - 1) : IsAnswer(s[j]) /\ s[j].tool = s[k].tool
      BY <1>2, <1>3, <2>0, <3>1
    <3>3. j \in 1..n
      BY <1>1, <2>0, <3>1
    <3>. QED BY <1>1, <3>1, <3>2, <3>3
  <2>2. CASE k = n + 1
    <3>1. IsStart(e) /\ z[k] = e /\ s[i].tool = e.tool /\ IsStart(s[i]) /\ k - 1 = n
      BY <1>1, <1>3, <2>0, <2>2
    <3>2. PICK j \in (i + 1)..n : s[j].tool = e.tool
      BY <2>0, <3>1 DEF n
    <3>3. j \in 1..n /\ i < j
      BY <1>1, <2>0
    <3>4. IsStart(s[j]) \/ IsAnswer(s[j])
      BY <3>1, <3>2, <3>3 DEF n
    <3>5. CASE IsAnswer(s[j])
      BY <1>1, <3>1, <3>2, <3>3, <3>5
    <3>6. CASE IsStart(s[j])
      <4>1. PICK m \in (i + 1)..(j - 1) : IsAnswer(s[m]) /\ s[m].tool = s[j].tool
        BY <1>2, <2>0, <3>1, <3>2, <3>3, <3>6
      <4>2. m \in (i + 1)..n /\ m \in 1..n
        BY <1>1, <2>0, <3>3
      <4>. QED BY <1>1, <3>1, <3>2, <4>1, <4>2
    <3>. QED BY <3>4, <3>5, <3>6
  <2>. QED BY <2>1, <2>2
<1>4. ASSUME NEW k \in 1..(n + 1), IsAnswer(z[k])
      PROVE  \E i \in 1..(k - 1) : /\ IsStart(z[i]) /\ z[i].tool = z[k].tool
                                   /\ \A j \in (i + 1)..(k - 1) : z[j].tool # z[k].tool
  <2>1. CASE k # n + 1
    <3>1. k \in 1..n /\ z[k] = s[k] /\ \A j \in 1..(k - 1) : j \in 1..n /\ z[j] = s[j]
      BY <1>1, <2>1
    <3>2. PICK i \in 1..(k - 1) : /\ IsStart(s[i]) /\ s[i].tool = s[k].tool
                                  /\ \A j \in (i + 1)..(k - 1) : s[j].tool # s[k].tool
      BY <1>2, <1>4, <3>1
    <3>3. \A j \in (i + 1)..(k - 1) : j \in 1..(k - 1)
      OBVIOUS
    <3>. QED BY <3>1, <3>2, <3>3
  <2>2. CASE k = n + 1
    <3>1. IsAnswer(e) /\ z[k] = e /\ k - 1 = n
      BY <1>1, <1>4, <2>2
    <3>2. PICK i \in 1..n : /\ IsStart(s[i]) /\ s[i].tool = e.tool
                            /\ \A j \in (i + 1)..n : s[j].tool # e.tool
      BY <3>1 DEF n
    <3>3. \A j \in (i + 1)..n : j \in 1..n
      BY <1>1
    <3>. QED BY <1>1, <3>1, <3>2, <3>3
  <2>. QED BY <2>1, <2>2
<1>5. CallsAlternate(z)
  BY <1>1, <1>3, <1>4 DEF CallsAlternate
<1>. QED BY <1>5 DEF z

LEMMA EmitStep ==
  ASSUME AgenticInv, NEW e \in Events, NEW lines \in {1, 2}, Emit(e, lines)
  PROVE  AgenticInv'
<1> DEFINE n == Len(sent)
           F == Frame(n + 1, lines)
<1>1. /\ sent \in Seq(Event) /\ wire \in Seq(Byte) /\ buf \in Seq(Byte)
      /\ \A i \in 1..n : sent[i].tool \in ChordTools <=> IsStart(sent[i]) \/ IsAnswer(sent[i])
      /\ n \in Nat /\ n < MaxSent /\ MaxSent \in Nat
  BY AgenticAssumption DEF AgenticInv, AgenticForms, Emit
<1>2. /\ sent' = Append(sent, e) /\ wire' = wire \o F
      /\ buf' = buf /\ exec_log' = exec_log /\ alerts' = alerts /\ response' = response
      /\ signaled' = signaled /\ turn' = turn
  BY DEF Emit
<1>3. /\ e \in Event
      /\ e.tool \in ChordTools <=> IsStart(e) \/ IsAnswer(e)
      /\ IsStart(e) => ~Running(e.tool) /\ e.tool \in ChordTools
      /\ IsAnswer(e) => Running(e.tool)
  BY AgenticAssumption, EventForms DEF Events
<1>4. F \in Seq(Byte) /\ Len(F) = 3 + lines
  <2>1. n + 1 \in Nat
    BY <1>1
  <2>2. CASE lines = 1
    BY <2>1, <2>2, FrameForms
  <2>3. CASE lines = 2
    BY <2>1, <2>3, FrameForms
  <2>. QED BY <2>2, <2>3
<1>5. Len(sent') = n + 1 /\ sent'[n + 1] = e /\ \A i \in 1..n : sent'[i] = sent[i]
  BY <1>1, <1>2
<1>6. AgenticForms'
  <2>1. sent' \in Seq(Event) /\ Len(sent') <= MaxSent
    BY <1>1, <1>2, <1>3
  <2>2. wire' \in Seq(Byte)
    <3>. HIDE DEF F
    <3>. QED BY <1>1, <1>2, <1>4
  <2>3. \A i \in 1..Len(sent') : sent'[i].tool \in ChordTools <=> IsStart(sent'[i]) \/ IsAnswer(sent'[i])
    <3> SUFFICES ASSUME NEW i \in 1..(n + 1)
                 PROVE sent'[i].tool \in ChordTools <=> IsStart(sent'[i]) \/ IsAnswer(sent'[i])
      BY <1>5
    <3>1. i \in 1..n \/ i = n + 1
      BY <1>1
    <3>2. CASE i \in 1..n
      BY <1>1, <1>5, <3>2
    <3>3. CASE i = n + 1
      BY <1>3, <1>5, <3>3
    <3>. QED BY <3>1, <3>2, <3>3
  <2>. QED BY <1>2, <2>1, <2>2, <2>3 DEF AgenticInv, AgenticForms
<1>7. CallsAlternate(sent')
  <2>1. CallsAlternate(sent)
    BY DEF AgenticInv
  <2>2. \A t : Running(t) <=> \E i \in 1..n : /\ IsStart(sent[i]) /\ sent[i].tool = t
                                              /\ \A j \in (i + 1)..n : sent[j].tool # t
    BY DEF Running, Starts, IsStart
  <2>3. IsStart(e) => \A i \in 1..n : IsStart(sent[i]) /\ sent[i].tool = e.tool =>
                        \E j \in (i + 1)..n : sent[j].tool = e.tool
    BY <1>3, <2>2
  <2>4. IsAnswer(e) => \E i \in 1..n : /\ IsStart(sent[i]) /\ sent[i].tool = e.tool
                                       /\ \A j \in (i + 1)..n : sent[j].tool # e.tool
    BY <1>3, <2>2
  <2>5. IsStart(e) => \A j \in 1..n : sent[j].tool = e.tool => IsStart(sent[j]) \/ IsAnswer(sent[j])
    BY <1>1, <1>3
  <2>. QED BY <1>1, <1>2, <1>3, <2>1, <2>3, <2>4, <2>5, AlternateGrows
<1>8. PICK h \in 0..n : Framed(h) /\ FoldedUpTo(h)
  BY DEF AgenticInv
<1>9. FoldedUpTo(h)'
  <2>1. h \in Nat /\ \A j \in 1..h : sent'[j] = sent[j]
    BY <1>1, <1>5
  <2>2. Recorded(sent, h, exec_log, signaled, alerts, response)
    BY <1>8, <2>1, FoldedIsRecorded
  <2>3. Recorded(sent', h, exec_log, signaled, alerts, response)
    BY <2>1, <2>2, RecordedSame
  <2>. QED BY <1>2, <2>1, <2>3, FoldedIsRecorded
<1>10. Framed(h)'
  <2>1. PICK at \in [(h + 1)..(n + 1) -> Nat] : FramesFrom(Pending, h, n, at)
    BY <1>8 DEF Framed
  <2> DEFINE s == Pending
             z == buf \o (wire \o F)
  <2>2. s \in Seq(Byte) /\ s = buf \o wire
    BY <1>1 DEF Pending
  <2>. HIDE DEF F
  <2>3. /\ z \in Seq(Byte) /\ Len(z) = Len(s) + 3 + lines
        /\ \A k \in 1..Len(s) : z[k] = s[k]
        /\ \A k \in 1..(3 + lines) : z[Len(s) + k] = F[k]
    <3>1. z \in Seq(Byte) /\ Len(s) = Len(buf) + Len(wire) /\ Len(z) = Len(buf) + (Len(wire) + Len(F))
      BY <1>1, <1>4, <2>2
    <3>2. \A k \in 1..Len(s) : z[k] = s[k]
      BY <1>1, <1>4, <2>2, <3>1
    <3>3. \A k \in 1..(3 + lines) : z[Len(s) + k] = F[k]
      BY <1>1, <1>4, <2>2, <3>1
    <3>4. Len(buf) \in Nat /\ Len(wire) \in Nat
      BY <1>1
    <3>5. Len(z) = Len(s) + 3 + lines
      BY <1>4, <3>1, <3>4
    <3>6. z \in Seq(Byte)
      BY <3>1
    <3>. QED BY <3>2, <3>3, <3>5, <3>6
  <2>4. Pending' = z
    BY <1>2 DEF Pending
  <2>. HIDE DEF s, z
  <2>5. \E a \in [(h + 1)..(n + 2) -> Nat] : FramesFrom(z, h, n + 1, a)
    BY <1>1, <2>1, <2>2, <2>3, FrameJoins DEF F, s
  <2>6. (n + 1) + 1 = n + 2
    BY <1>1
  <2>. HIDE DEF n
  <2>. QED BY <1>5, <2>4, <2>5, <2>6 DEF Framed
<1>11. h \in 0..Len(sent')
  BY <1>1, <1>5
<1>. QED BY <1>6, <1>7, <1>9, <1>10, <1>11 DEF AgenticInv

\* The bytes moved by a chunk stay in order.
LEMMA PushStep ==
  ASSUME AgenticInv, NEW k \in 1..Len(wire), PushChunk(k)
  PROVE  AgenticInv'
<1>1. wire \in Seq(Byte) /\ buf \in Seq(Byte) /\ k \in Nat /\ k <= Len(wire) /\ Len(wire) \in Nat
      /\ Len(buf) \in Nat
  BY DEF AgenticInv, AgenticForms
<1>2. /\ buf' = buf \o SubSeq(wire, 1, k) /\ wire' = SubSeq(wire, k + 1, Len(wire))
      /\ sent' = sent /\ exec_log' = exec_log /\ alerts' = alerts /\ response' = response
      /\ signaled' = signaled /\ turn' = turn
  BY DEF PushChunk
<1> DEFINE a == SubSeq(wire, 1, k)
           b == SubSeq(wire, k + 1, Len(wire))
<1>3. /\ a \in Seq(Byte) /\ Len(a) = k /\ \A i \in 1..k : a[i] = wire[i]
      /\ b \in Seq(Byte) /\ Len(b) = Len(wire) - k /\ \A i \in 1..(Len(wire) - k) : b[i] = wire[k + i]
  BY <1>1
<1>. HIDE DEF a, b
<1>4. Pending' = Pending
  <2>1. Pending' = (buf \o a) \o b /\ Pending = buf \o wire
    BY <1>2 DEF Pending, a, b
  <2>2. /\ (buf \o a) \o b \in Seq(Byte) /\ Len((buf \o a) \o b) = Len(buf) + Len(wire)
        /\ buf \o wire \in Seq(Byte) /\ Len(buf \o wire) = Len(buf) + Len(wire)
    <3>1. buf \o a \in Seq(Byte) /\ Len(buf \o a) = Len(buf) + k
      BY <1>1, <1>3, Joined
    <3>2. (buf \o a) \o b \in Seq(Byte) /\ Len((buf \o a) \o b) = (Len(buf) + k) + (Len(wire) - k)
      <4> DEFINE c == buf \o a
      <4>1. c \in Seq(Byte) /\ Len(c) = Len(buf) + k /\ b \in Seq(Byte) /\ Len(b) = Len(wire) - k
        BY <1>3, <3>1
      <4>. HIDE DEF c
      <4>2. c \o b \in Seq(Byte) /\ Len(c \o b) = Len(c) + Len(b)
        BY <4>1, Joined
      <4>. QED BY <4>1, <4>2 DEF c
    <3>3. buf \o wire \in Seq(Byte) /\ Len(buf \o wire) = Len(buf) + Len(wire)
      BY <1>1, Joined
    <3>4. (Len(buf) + k) + (Len(wire) - k) = Len(buf) + Len(wire)
      BY <1>1
    <3>. QED BY <3>2, <3>3, <3>4
  <2>3. ASSUME NEW i \in 1..(Len(buf) + Len(wire)) PROVE ((buf \o a) \o b)[i] = (buf \o wire)[i]
    <3>1. CASE i <= Len(buf)
      BY <1>1, <1>3, <3>1
    <3>2. CASE Len(buf) < i /\ i <= Len(buf) + k
      <4>1. i - Len(buf) \in 1..k
        BY <1>1, <3>2
      <4>. QED BY <1>1, <1>3, <3>2, <4>1
    <3>3. CASE Len(buf) + k < i
      <4>1. i - (Len(buf) + k) \in 1..(Len(wire) - k)
        BY <1>1, <3>3
      <4>2. ((buf \o a) \o b)[i] = b[i - (Len(buf) + k)]
        BY <1>1, <1>3, <3>3
      <4>3. (buf \o wire)[i] = wire[i - Len(buf)] /\ k + (i - (Len(buf) + k)) = i - Len(buf)
        BY <1>1, <3>3
      <4>. QED BY <1>3, <4>1, <4>2, <4>3
    <3>4. i <= Len(buf) \/ (Len(buf) < i /\ i <= Len(buf) + k) \/ Len(buf) + k < i
      BY <1>1
    <3>. QED BY <3>1, <3>2, <3>3, <3>4
  <2>. QED BY <2>1, <2>2, <2>3, SameSequence
<1>5. AgenticForms'
  <2>1. buf' \in Seq(Byte) /\ wire' \in Seq(Byte)
    BY <1>1, <1>2, <1>3 DEF a, b
  <2>. QED BY <1>2, <2>1 DEF AgenticInv, AgenticForms
<1>6. PICK h \in 0..Len(sent) : Framed(h) /\ FoldedUpTo(h)
  BY DEF AgenticInv
<1>7. Framed(h)'
  BY <1>2, <1>4, <1>6 DEF Framed
<1>8. FoldedUpTo(h)'
  BY <1>2, <1>6, FoldedIsRecorded
<1>9. CallsAlternate(sent')
  BY <1>2 DEF AgenticInv
<1>. QED BY <1>2, <1>5, <1>6, <1>7, <1>8, <1>9 DEF AgenticInv

LEMMA FoldForms ==
  ASSUME AgenticForms, NEW i \in 1..Len(sent), FoldEvent(sent[i])
  PROVE  exec_log' \in Seq(LogStep) /\ signaled' \in Seq(ChordTools) /\ response' \in BOOLEAN
<1> DEFINE e == sent[i]
<1>1. /\ exec_log \in Seq(LogStep) /\ signaled \in Seq(ChordTools) /\ response \in BOOLEAN
      /\ e \in Event /\ e.tool \in ChordTools <=> IsStart(e) \/ IsAnswer(e)
  BY DEF AgenticForms
<1>2. exec_log' \in Seq(LogStep)
  <2>1. CASE IsStart(e)
    <3>1. exec_log' = Append(exec_log, [tool |-> e.tool, ms |-> 0, status |-> "ok"])
      BY <2>1 DEF FoldEvent, IsStart
    <3>2. [tool |-> e.tool, ms |-> 0, status |-> "ok"] \in LogStep
      BY <1>1, <2>1 DEF LogStep
    <3>. QED BY <1>1, <3>1, <3>2
  <2>2. CASE ~IsStart(e)
    <3>1. exec_log' = [c \in 1..Len(exec_log) |->
                         IF IsAnswer(e) /\ c \in UntimedStep(e.tool)
                           THEN [tool |-> e.tool, ms |-> e.ms, status |-> e.status]
                           ELSE exec_log[c]]
      BY <2>2 DEF FoldEvent, IsStart, IsAnswer
    <3>2. IsAnswer(e) => [tool |-> e.tool, ms |-> e.ms, status |-> e.status] \in LogStep
      BY <1>1 DEF LogStep, Event
    <3>3. \A c \in 1..Len(exec_log) : exec_log[c] \in LogStep
      BY <1>1
    <3>. QED BY <1>1, <3>1, <3>2, <3>3
  <2>. QED BY <2>1, <2>2
<1>3. signaled' \in Seq(ChordTools)
  <2>1. signaled' = IF IsStart(e) /\ signaled = <<>> THEN <<e.tool>> ELSE signaled
    BY DEF FoldEvent, IsStart
  <2>. QED BY <1>1, <2>1
<1>4. response' \in BOOLEAN
  BY <1>1 DEF FoldEvent
<1>. QED BY <1>2, <1>3, <1>4

LEMMA JoinsOnce ==
  ASSUME NEW frame \in Seq(Byte), NEW i \in Nat, i # 0,
         \/ /\ Len(frame) = 2
            /\ frame[1] = Part(i, 1) /\ frame[2] = Part(i, 2)
         \/ /\ Len(frame) = 3
            /\ frame[1] = Part(i, 1) /\ frame[2] = NewLine /\ frame[3] = Part(i, 2)
  PROVE  Joins(frame, i) /\ \A j \in Nat : Joins(frame, j) => j = i
<1> DEFINE data == {k \in 1..Len(frame) : frame[k] # NewLine}
<1>1. Part(i, 1) # NewLine /\ Part(i, 2) # NewLine /\ Part(i, 1).of = i /\ Part(i, 2).of = i
  BY ByteForms
<1>2. \/ data = {1, 2} /\ frame[1] = Part(i, 1) /\ frame[2] = Part(i, 2)
      \/ data = {1, 3} /\ frame[1] = Part(i, 1) /\ frame[3] = Part(i, 2)
  BY <1>1
<1>3. \A j \in Nat : Joins(frame, j) <=>
        \E a, b \in data : a < b /\ data = {a, b} /\ frame[a] = Part(j, 1) /\ frame[b] = Part(j, 2)
  BY DEF Joins
<1>. HIDE DEF data
<1>4. Joins(frame, i)
  BY <1>2, <1>3
<1>5. ASSUME NEW j \in Nat, Joins(frame, j) PROVE j = i
  <2>1. PICK a \in data : frame[a] = Part(j, 1)
    BY <1>3, <1>5
  <2>2. frame[a] = Part(i, 1) \/ frame[a] = Part(i, 2)
    BY <1>2, <2>1
  <2>. QED BY <1>1, <2>1, <2>2, ByteForms
<1>. QED BY <1>4, <1>5

LEMMA HandleStep ==
  ASSUME AgenticInv, HandleFrame
  PROVE  AgenticInv'
<1>1. /\ sent \in Seq(Event) /\ wire \in Seq(Byte) /\ buf \in Seq(Byte)
      /\ Len(sent) \in Nat /\ Len(buf) \in Nat /\ Len(wire) \in Nat
  BY DEF AgenticInv, AgenticForms
<1> DEFINE n == Len(sent)
           s == Pending
<1>2. PICK h \in 0..n : Framed(h) /\ FoldedUpTo(h)
  BY DEF AgenticInv
<1>3. PICK at \in [(h + 1)..(n + 1) -> Nat] : FramesFrom(s, h, n, at)
  BY <1>2 DEF Framed
<1>4. PICK d \in Delimiters :
        /\ \A other \in Delimiters : d <= other
        /\ IF \E i \in 1..n : Joins(SubSeq(buf, 1, d - 1), i)
             THEN \E i \in 1..n : Joins(SubSeq(buf, 1, d - 1), i) /\ FoldEvent(sent[i])
             ELSE UNCHANGED <<exec_log, alerts, response, signaled>>
        /\ buf' = SubSeq(buf, d + 2, Len(buf))
  BY DEF HandleFrame
<1>5. sent' = sent /\ wire' = wire /\ turn' = turn
  BY DEF HandleFrame
<1>6. s \in Seq(Byte) /\ Len(s) = Len(buf) + Len(wire)
      /\ (\A k \in 1..Len(buf) : s[k] = buf[k])
      /\ (\A k \in 1..Len(wire) : s[Len(buf) + k] = wire[k])
  BY <1>1, Joined DEF Pending
<1>. HIDE DEF s
<1>7. d \in 1..(Len(buf) - 1) /\ buf[d] = NewLine /\ buf[d + 1] = NewLine
  BY DEF Delimiters
<1>8. h \in 0..(n - 1)
  <2>1. h = n => at[h + 1] = 1 /\ at[n + 1] = Len(s) + 1
    BY <1>3 DEF FramesFrom
  <2>2. Len(s) # 0
    BY <1>1, <1>6, <1>7
  <2>. QED BY <1>1, <1>6, <2>1, <2>2
<1> DEFINE q == at[h + 2]
<1>9. /\ q \in {5, 6} /\ q - 1 <= Len(s) /\ FrameAt(s, h + 1, 1, q)
      /\ \A z \in Seq(Byte) :
           /\ Len(z) = Len(s) - (q - 1)
           /\ \A k \in 1..Len(z) : z[k] = s[k + (q - 1)]
           => \E a \in [(h + 2)..(n + 1) -> Nat] : FramesFrom(z, h + 1, n, a)
  BY <1>1, <1>3, <1>6, <1>8, FrameLeaves
<1>. HIDE DEF q
<1>10. h + 1 \in Nat /\ h + 1 # 0 /\ h + 1 \in 1..n
  BY <1>1, <1>8
<1>11. \/ q = 5 /\ s[1] = Part(h + 1, 1) /\ s[2] = Part(h + 1, 2) /\ s[3] = NewLine /\ s[4] = NewLine
       \/ q = 6 /\ s[1] = Part(h + 1, 1) /\ s[2] = NewLine /\ s[3] = Part(h + 1, 2)
          /\ s[4] = NewLine /\ s[5] = NewLine
  BY <1>9 DEF FrameAt
<1>12. Part(h + 1, 1) # NewLine /\ Part(h + 1, 2) # NewLine
  BY <1>10, ByteForms
<1>13. d = q - 2
  <2>1. s[d] = NewLine /\ s[d + 1] = NewLine
    <3>1. d \in 1..Len(buf) /\ d + 1 \in 1..Len(buf)
      BY <1>1, <1>7
    <3>. QED BY <1>6, <1>7, <3>1
  <2>2. d >= q - 2
    <3>1. CASE q = 5
      <4>1. d # 1 /\ d # 2
        BY <1>11, <1>12, <2>1, <3>1
      <4>. QED BY <1>7, <3>1, <4>1
    <3>2. CASE q = 6
      <4>1. d # 1 /\ d # 2 /\ d # 3
        BY <1>11, <1>12, <2>1, <3>2
      <4>. QED BY <1>7, <3>2, <4>1
    <3>. QED BY <1>9, <3>1, <3>2
  <2>3. q - 2 \in 1..(Len(buf) - 1) /\ (q - 2) + 1 = q - 1
    BY <1>1, <1>7, <1>9, <2>2
  <2>4. s[q - 2] = NewLine /\ s[q - 1] = NewLine
    BY <1>11
  <2>5. q - 2 \in 1..Len(buf) /\ q - 1 \in 1..Len(buf)
    BY <1>1, <1>9, <2>3
  <2>6. buf[q - 2] = NewLine /\ buf[(q - 2) + 1] = NewLine
    BY <1>6, <2>3, <2>4, <2>5
  <2>7. q - 2 \in Delimiters
    BY <2>3, <2>6 DEF Delimiters
  <2>. QED BY <1>4, <1>7, <1>9, <2>2, <2>7
<1> DEFINE frame == SubSeq(buf, 1, d - 1)
<1>14. Joins(frame, h + 1) /\ \A j \in Nat : Joins(frame, j) => j = h + 1
  <2>1. frame \in Seq(Byte) /\ Len(frame) = d - 1
        /\ \A k \in 1..(d - 1) : frame[k] = s[k]
    <3>1. frame \in Seq(Byte) /\ Len(frame) = d - 1 /\ \A k \in 1..(d - 1) : frame[k] = buf[k]
      BY <1>1, <1>7
    <3>2. \A k \in 1..(d - 1) : k \in 1..Len(buf)
      BY <1>1, <1>7
    <3>. QED BY <1>6, <3>1, <3>2
  <2>. HIDE DEF frame
  <2>2. CASE q = 5
    <3>1. Len(frame) = 2 /\ frame[1] = s[1] /\ frame[2] = s[2]
      BY <1>13, <2>1, <2>2
    <3>. QED BY <1>10, <1>11, <2>1, <2>2, <3>1, JoinsOnce
  <2>3. CASE q = 6
    <3>1. Len(frame) = 3 /\ frame[1] = s[1] /\ frame[2] = s[2] /\ frame[3] = s[3]
      BY <1>13, <2>1, <2>3
    <3>. QED BY <1>10, <1>11, <2>1, <2>3, <3>1, JoinsOnce
  <2>. QED BY <1>9, <2>2, <2>3
<1>15. FoldEvent(sent[h + 1])
  <2>1. \E i \in 1..n : Joins(frame, i)
    BY <1>10, <1>14
  <2>2. PICK i \in 1..n : Joins(frame, i) /\ FoldEvent(sent[i])
    BY <1>4, <2>1
  <2>3. i = h + 1
    BY <1>14, <2>2
  <2>. QED BY <2>2, <2>3
<1>. HIDE DEF frame
<1>16. FoldedUpTo(h + 1)'
  BY <1>2, <1>5, <1>8, <1>15, EventIsRecorded DEF AgenticInv
<1>17. /\ buf' \in Seq(Byte) /\ Len(buf') = Len(buf) - (q - 1)
       /\ \A k \in 1..Len(buf') : buf'[k] = buf[k + (q - 1)]
  <2>1. buf' = SubSeq(buf, q, Len(buf)) /\ q \in Nat /\ q - 1 <= Len(buf)
    <3>1. buf' = SubSeq(buf, d + 2, Len(buf))
      BY <1>4
    <3>2. q \in Nat
      BY <1>9
    <3>3. d + 2 = q /\ q - 1 = d + 1
      BY <1>7, <1>13, <3>2
    <3>4. q - 1 <= Len(buf)
      BY <1>1, <1>7, <3>3
    <3>. QED BY <3>1, <3>2, <3>3, <3>4
  <2>. QED BY <1>1, <1>9, <2>1
<1>18. Framed(h + 1)'
  <2> DEFINE z == buf' \o wire
  <2>1. /\ z \in Seq(Byte) /\ Len(z) = Len(buf') + Len(wire)
        /\ \A k \in 1..Len(buf') : z[k] = buf'[k]
        /\ \A k \in 1..Len(wire) : z[Len(buf') + k] = wire[k]
    <3>1. buf' \in Seq(Byte) /\ wire \in Seq(Byte)
      BY <1>1, <1>17
    <3>. QED BY <3>1, Joined
  <2>. HIDE DEF z
  <2>2. Len(z) = Len(s) - (q - 1)
    BY <1>1, <1>6, <1>9, <1>17, <2>1
  <2>3. ASSUME NEW k \in 1..Len(z) PROVE z[k] = s[k + (q - 1)]
    <3>1. CASE k <= Len(buf')
      <4>1. k \in 1..Len(buf') /\ k + (q - 1) \in 1..Len(buf)
        BY <1>1, <1>9, <1>17, <3>1
      <4>. QED BY <1>6, <1>17, <2>1, <4>1
    <3>2. CASE k > Len(buf')
      <4>1. k - Len(buf') \in 1..Len(wire) /\ k = Len(buf') + (k - Len(buf'))
            /\ k + (q - 1) = Len(buf) + (k - Len(buf'))
        BY <1>1, <1>9, <1>17, <2>1, <3>2
      <4>. QED BY <1>6, <2>1, <4>1
    <3>3. k \in Nat /\ Len(buf') \in Nat
      BY <1>17
    <3>. QED BY <3>1, <3>2, <3>3
  <2>4. \E a \in [(h + 2)..(n + 1) -> Nat] : FramesFrom(z, h + 1, n, a)
    BY <1>9, <2>1, <2>2, <2>3
  <2>5. Pending' = z /\ (h + 1) + 1 = h + 2
    BY <1>1, <1>5, <1>10 DEF Pending, z
  <2>. QED BY <1>5, <2>4, <2>5 DEF Framed
<1>19. AgenticForms'
  <2>1. exec_log' \in Seq(LogStep)
    BY <1>10, <1>15, FoldForms DEF AgenticInv
  <2>. QED BY <1>5, <1>10, <1>15, <1>17, FoldForms DEF AgenticInv, AgenticForms
<1>20. CallsAlternate(sent')
  BY <1>5 DEF AgenticInv
<1>. QED BY <1>5, <1>10, <1>16, <1>18, <1>19, <1>20 DEF AgenticInv

LEMMA AgenticKept ==
  ASSUME AgenticInv, UNCHANGED <<sent, wire, buf, exec_log, alerts, response, signaled>>,
         turn' \in {"running", "answered", "legacy"}
  PROVE  AgenticInv'
<1>1. PICK h \in 0..Len(sent) : Framed(h) /\ FoldedUpTo(h)
  BY DEF AgenticInv
<1>2. Framed(h)'
  BY <1>1 DEF Framed, Pending
<1>3. FoldedUpTo(h)'
  BY <1>1, FoldedIsRecorded
<1>4. AgenticForms' /\ CallsAlternate(sent')
  BY DEF AgenticInv, AgenticForms
<1>. QED BY <1>1, <1>2, <1>3, <1>4 DEF AgenticInv

LEMMA NextAgentic == AgenticInv /\ [AgenticNext]_agenticVars => AgenticInv'
<1> SUFFICES ASSUME AgenticInv, [AgenticNext]_agenticVars PROVE AgenticInv'
  OBVIOUS
<1>1. CASE AgenticNext
  <2>1. ASSUME NEW e \in Events, NEW lines \in {1, 2}, Emit(e, lines) PROVE AgenticInv'
    BY <2>1, EmitStep
  <2>2. ASSUME NEW k \in 1..Len(wire), PushChunk(k) PROVE AgenticInv'
    BY <2>2, PushStep
  <2>3. CASE HandleFrame
    BY <2>3, HandleStep
  <2>4. CASE EndOfStream \/ StreamBreaks
    <3>1. UNCHANGED <<sent, wire, buf, exec_log, alerts, response, signaled>>
          /\ turn' \in {"running", "answered", "legacy"}
      BY <2>4 DEF EndOfStream, StreamBreaks
    <3>. QED BY <3>1, AgenticKept
  <2>. QED BY <1>1, <2>1, <2>2, <2>3, <2>4 DEF AgenticNext
<1>2. CASE UNCHANGED agenticVars
  <2>1. turn' \in {"running", "answered", "legacy"}
    BY <1>2 DEF agenticVars, AgenticInv, AgenticForms
  <2>2. UNCHANGED <<sent, wire, buf, exec_log, alerts, response, signaled>>
    BY <1>2 DEF agenticVars
  <2>. QED BY <2>1, <2>2, AgenticKept
<1>. QED BY <1>1, <1>2

LEMMA AgenticInvTypes == AgenticInv => AgenticTypeOK
<1> SUFFICES ASSUME AgenticInv PROVE AgenticTypeOK
  OBVIOUS
<1>1. AgenticForms
  BY DEF AgenticInv
<1>2. alerts \in 0..MaxSent
  <2>1. PICK h \in 0..Len(sent) : FoldedUpTo(h)
    BY DEF AgenticInv
  <2>2. Len(sent) \in Nat /\ Len(sent) <= MaxSent /\ h \in Nat /\ MaxSent \in Nat
    BY <1>1, AgenticAssumption DEF AgenticForms
  <2>3. alerts = Cardinality(AlertsTo(sent, h))
    BY <2>1 DEF FoldedUpTo, AlertsTo
  <2>4. AlertsTo(sent, h) \subseteq 1..h
    BY DEF AlertsTo
  <2>5. IsFiniteSet(1..h) /\ Cardinality(1..h) = h
    <3>1. IsFiniteSet(1..h) /\ Cardinality(1..h) = IF 1 > h THEN 0 ELSE h - 1 + 1
      BY <2>2, FS_Interval
    <3>. QED BY <2>2, <3>1
  <2>6. Cardinality(AlertsTo(sent, h)) <= h /\ Cardinality(AlertsTo(sent, h)) \in Nat
    BY <2>4, <2>5, FS_Subset, FS_CardinalityType
  <2>. QED BY <2>2, <2>3, <2>6
<1>. QED BY <1>1, <1>2 DEF AgenticForms, AgenticTypeOK, Event, LogStep

LEMMA AgenticInvTells == AgenticInv => LogTellsTheCalls
<1> SUFFICES ASSUME AgenticInv PROVE LogTellsTheCalls
  OBVIOUS
<1> DEFINE n == Len(sent)
<1>1. n \in Nat /\ wire \in Seq(Byte) /\ buf \in Seq(Byte) /\ Len(buf) \in Nat /\ Len(wire) \in Nat
  BY DEF AgenticInv, AgenticForms
<1>2. PICK h \in 0..n : Framed(h) /\ FoldedUpTo(h)
  BY DEF AgenticInv
<1>3. PICK at \in [(h + 1)..(n + 1) -> Nat] : FramesFrom(Pending, h, n, at)
  BY <1>2 DEF Framed
<1>4. /\ Len(Pending) = Len(buf) + Len(wire)
      /\ \A k \in 1..Len(buf) : Pending[k] = buf[k]
      /\ \A k \in 1..Len(wire) : Pending[Len(buf) + k] = wire[k]
  BY <1>1, Joined DEF Pending
<1>5. Handled = {i \in 1..n : \A k \in 1..Len(Pending) : Pending[k].of # i}
  <2>1. ASSUME NEW i
        PROVE (\A k \in 1..Len(Pending) : Pending[k].of # i) <=>
                /\ \A j \in 1..Len(wire) : wire[j].of # i
                /\ \A j \in 1..Len(buf) : buf[j].of # i
    <3>1. ASSUME \A k \in 1..Len(Pending) : Pending[k].of # i
          PROVE  /\ \A j \in 1..Len(wire) : wire[j].of # i
                 /\ \A j \in 1..Len(buf) : buf[j].of # i
      <4>1. ASSUME NEW j \in 1..Len(wire) PROVE Len(buf) + j \in 1..Len(Pending)
        BY <1>1, <1>4
      <4>2. ASSUME NEW j \in 1..Len(buf) PROVE j \in 1..Len(Pending)
        BY <1>1, <1>4
      <4>. QED BY <1>4, <3>1, <4>1, <4>2
    <3>2. ASSUME \A j \in 1..Len(wire) : wire[j].of # i, \A j \in 1..Len(buf) : buf[j].of # i,
                 NEW k \in 1..Len(Pending)
          PROVE  Pending[k].of # i
      <4>1. CASE k <= Len(buf)
        <5>1. k \in 1..Len(buf)
          BY <1>1, <4>1
        <5>. QED BY <1>4, <3>2, <5>1
      <4>2. CASE k > Len(buf)
        <5>1. k - Len(buf) \in 1..Len(wire) /\ k = Len(buf) + (k - Len(buf))
          BY <1>1, <1>4, <4>2
        <5>2. Pending[k] = wire[k - Len(buf)]
          BY <1>4, <5>1
        <5>. QED BY <3>2, <5>1, <5>2
      <4>. QED BY <1>1, <4>1, <4>2
    <3>. QED BY <3>1, <3>2
  <2>. QED BY <2>1 DEF Handled
<1>6. /\ at[n + 1] = Len(Pending) + 1
      /\ at[h + 1] = 1
      /\ \A i, j \in (h + 1)..(n + 1) : i < j => at[i] < at[j]
      /\ \A i \in (h + 1)..n : FrameAt(Pending, i, at[i], at[i + 1])
      /\ \A k \in 1..Len(Pending) : Pending[k].of # 0 => Pending[k].of \in (h + 1)..n
  BY <1>3 DEF FramesFrom
<1>7. Handled = 1..h
  <2>1. ASSUME NEW i \in 1..n, i <= h, NEW k \in 1..Len(Pending) PROVE Pending[k].of # i
    BY <1>2, <1>6, <2>1
  <2>2. ASSUME NEW i \in 1..n, i > h PROVE \E k \in 1..Len(Pending) : Pending[k].of = i
    <3>1. i \in (h + 1)..n /\ i \in (h + 1)..(n + 1) /\ n + 1 \in (h + 1)..(n + 1)
          /\ h + 1 \in (h + 1)..(n + 1) /\ i < n + 1 /\ (i = h + 1 \/ h + 1 < i)
      BY <1>1, <1>2, <2>2
    <3>2. at[i] \in Nat /\ at[i] < at[n + 1] /\ (i = h + 1 \/ at[h + 1] < at[i])
      BY <1>6, <3>1
    <3>3. at[i] \in 1..Len(Pending)
      <4> DEFINE p == at[i]
      <4>1. p \in Nat /\ p < Len(Pending) + 1 /\ (p = 1 \/ 1 < p)
        BY <1>6, <3>2
      <4>. HIDE DEF p
      <4>2. p \in 1..Len(Pending)
        BY <1>1, <1>4, <4>1
      <4>. QED BY <4>2 DEF p
    <3>4. Pending[at[i]] = Part(i, 1)
      BY <1>6, <3>1 DEF FrameAt
    <3>. QED BY <3>3, <3>4, ByteForms
  <2>3. \A i \in 1..n : i <= h <=> i \in Handled
    <3>1. \A i \in 1..n : i <= h \/ i > h
      BY <1>2
    <3>. QED BY <1>5, <2>1, <2>2, <3>1
  <2>4. Handled \subseteq 1..n
    BY DEF Handled
  <2>5. \A i \in 1..h : i \in 1..n /\ i <= h
    BY <1>1, <1>2
  <2>6. \A i \in 1..n : i <= h => i \in 1..h
    BY <1>1, <1>2
  <2>. QED BY <2>3, <2>4, <2>5, <2>6
<1>8. Cardinality(1..h) = h
  <2>1. h \in Nat
    BY <1>1, <1>2
  <2>2. Cardinality(1..h) = IF 1 > h THEN 0 ELSE h - 1 + 1
    BY <2>1, FS_Interval
  <2>. QED BY <2>1, <2>2
<1>. QED BY <1>2, <1>7, <1>8 DEF LogTellsTheCalls

LEMMA AgenticInvariant == AgenticSpec => []AgenticInv
BY InitAgentic, NextAgentic, PTL DEF AgenticSpec

\* The bytes, the events and the log keep their types, for streams cut anywhere.
THEOREM AgenticTypeCorrect == AgenticSpec => []AgenticTypeOK
BY AgenticInvariant, AgenticInvTypes, PTL

\* The parser promise of chord.rs:589: for any number of events, of calls and of
\* bytes in flight, and any cut of the stream into chunks, what has been worked
\* through is exactly the events whose frames are complete, and the log tells of
\* each call what Chord said of it.
THEOREM StreamIsReadAsSent == AgenticSpec => []LogTellsTheCalls
BY AgenticInvariant, AgenticInvTells, PTL
=============================================================================
