---------------------------- MODULE ModelRouting ----------------------------
(***************************************************************************)
(* The router of chat turns (crates/lumina-core/src/router.rs) and the one *)
(* GPU it shares: a turn that needs the deep model has it swapped in by    *)
(* the lifecycle client (chord_lifecycle.rs), makes its calls and has the  *)
(* fast model restored.                                                    *)
(*                                                                         *)
(* Turns run at once, each with a router of its own.  Chord is external:   *)
(* it loads the model a call names, carries out a swap it was asked for    *)
(* even when the client no longer waits, and may fail any call.  The turns *)
(* of the agentic path and of the tool loop name the routed model too, and *)
(* use no lifecycle client.                                                *)
(***************************************************************************)
EXTENDS Integers, FiniteSets

CONSTANTS
  Requests,    \* turns that run at once
  MaxLate      \* Bound: loads under way that nobody waits for

ASSUME RoutingAssumption == MaxLate \in Nat

VARIABLES
  gpu,         \* the model that is loaded
  request,     \* request[r]: where turn r is in process_with_messages
  late,        \* loads of the deep model Chord still carries out, the client gone
  (* history *)
  stranded     \* whether the deep model was left behind by a turn that could
               \* not restore the fast one, and nobody has restored it since

routingVars == <<gpu, request, late, stranded>>

-----------------------------------------------------------------------------
Resting == [at |-> "rest", deepFirst |-> FALSE, mayEscalate |-> FALSE]
InRouter(r, where) == request[r].at = where
Proceed(r, where) == request' = [request EXCEPT ![r].at = where]
Finish(r) == request' = [request EXCEPT ![r] = Resting]

\* Chord loads a model; once the fast one is back nothing is stranded.
LoadModel(model, left) ==
  /\ gpu' = model
  /\ stranded' = (model = "deep" /\ (stranded \/ left))

Overdue == late < MaxLate /\ late' = late + 1

\* Chord is asked for the deep model: by the time the answer or the error is
\* there it has loaded it, has not, or will do so later.
AskForDeep ==
  \/ LoadModel("deep", FALSE) /\ UNCHANGED late
  \/ UNCHANGED <<gpu, late, stranded>>
  \/ Overdue /\ UNCHANGED <<gpu, stranded>>

\* A turn that has had the deep model loaded, or may have.
Owes(r) == request[r].deepFirst \/ request[r].at \in {"deep call", "restore"}

RoutingInit ==
  /\ gpu = "fast"
  /\ request = [r \in Requests |-> Resting]
  /\ late = 0
  /\ stranded = FALSE

\* route: an override or a rule decides the model; `/quick`, and a deep route
\* cut down for its user's budget, never escalate.
Route(r) ==
  /\ InRouter(r, "rest")
  /\ \E deepFirst, mayEscalate \in BOOLEAN :
       /\ deepFirst => mayEscalate
       /\ request' = [request EXCEPT ![r] = [at |-> IF deepFirst THEN "swap" ELSE "call",
                                             deepFirst |-> deepFirst,
                                             mayEscalate |-> mayEscalate]]
  /\ UNCHANGED <<gpu, late, stranded>>

\* swap_for_deep, before the first call or before the one that escalates: an
\* error or a timeout is logged and the call made all the same.
SwapForDeep(r, here, next) ==
  /\ InRouter(r, here)
  /\ AskForDeep
  /\ Proceed(r, next)

\* The first call, which names its model.
FirstCall(r) ==
  /\ InRouter(r, "call")
  /\ IF request[r].deepFirst
       THEN AskForDeep
       ELSE (LoadModel("fast", FALSE) \/ UNCHANGED <<gpu, stranded>>) /\ UNCHANGED late
  /\ Proceed(r, "answered")

\* Wrong: the error is passed on at once.
FirstCallFailsAtOnce(r) ==
  /\ InRouter(r, "answered")
  /\ Finish(r)
  /\ UNCHANGED <<gpu, late, stranded>>

\* Its failure: the fast model is restored first if it was swapped out.
FirstCallFails(r) ==
  /\ InRouter(r, "answered")
  /\ IF request[r].deepFirst THEN Proceed(r, "restore") ELSE Finish(r)
  /\ UNCHANGED <<gpu, late, stranded>>

\* A confident answer, or one that shows uncertainty and may escalate.
Confident(r) ==
  /\ InRouter(r, "answered")
  /\ IF request[r].deepFirst THEN Proceed(r, "restore") ELSE Finish(r)
  /\ UNCHANGED <<gpu, late, stranded>>

Escalate(r) ==
  /\ InRouter(r, "answered")
  /\ request[r].mayEscalate
  /\ Proceed(r, IF request[r].deepFirst THEN "deep call" ELSE "second swap")
  /\ UNCHANGED <<gpu, late, stranded>>

DeepCall(r) ==
  /\ InRouter(r, "deep call")
  /\ AskForDeep
  /\ Proceed(r, "restore")

\* restore_after_deep: a failure is logged, and the deep model stays.
RestoreFast(r) ==
  /\ InRouter(r, "restore")
  /\ \/ LoadModel("fast", FALSE)
     \/ /\ stranded' = (gpu = "deep")
        /\ UNCHANGED gpu
  /\ Finish(r)
  /\ UNCHANGED late

\* The client of the HTTP endpoint disconnects, and its turn is dropped where it
\* waits; what Chord was asked for, it may still do.
DropRequest(r) ==
  /\ ~InRouter(r, "rest")
  /\ Finish(r)
  /\ stranded' = (gpu = "deep" /\ (stranded \/ Owes(r)))
  /\ \/ UNCHANGED late
     \/ Overdue /\ (Owes(r) \/ InRouter(r, "second swap"))
  /\ UNCHANGED gpu

\* Chord carries out what it was asked for by a client that is gone.
LateSwap ==
  /\ late > 0
  /\ late' = late - 1
  /\ LoadModel("deep", TRUE)
  /\ UNCHANGED request

\* A turn of the agentic path or of the tool loop calls the model it was routed
\* to, with nothing around the call.
UnwrappedCall ==
  /\ \/ LoadModel("deep", TRUE)
     \/ LoadModel("fast", FALSE)
  /\ UNCHANGED <<request, late>>

RouterStep(r) ==
  \/ Route(r)
  \/ SwapForDeep(r, "swap", "call")
  \/ FirstCall(r)
  \/ FirstCallFails(r)
  \/ Confident(r)
  \/ Escalate(r)
  \/ SwapForDeep(r, "second swap", "deep call")
  \/ DeepCall(r)
  \/ RestoreFast(r)
  \/ DropRequest(r)

RoutingNext ==
  \/ \E r \in Requests : RouterStep(r)
  \/ LateSwap
  \/ UnwrappedCall

RoutingSpec == RoutingInit /\ [][RoutingNext]_routingVars

-----------------------------------------------------------------------------
(* What the router promises.                                               *)

\* The type invariant.
RoutingTypeOK ==
  /\ gpu \in {"fast", "deep"}
  /\ request \in [Requests -> [at : {"rest", "swap", "call", "answered", "second swap",
                                     "deep call", "restore"},
                               deepFirst : BOOLEAN,
                               mayEscalate : BOOLEAN]]
  /\ late \in 0..MaxLate
  /\ stranded \in BOOLEAN

\* router.rs:10 "swap/restore lifecycle wraps every deep call": the deep model is
\* loaded only while some turn will still restore the fast one, unless a turn
\* was dropped, a restore failed, or a call was made around the router.  Turns
\* that overlap do not leave it behind, whoever restores last.
FastModelReturns == gpu = "deep" => stranded \/ \E r \in Requests : Owes(r)
=============================================================================
