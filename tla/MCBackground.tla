---------------------------- MODULE MCBackground ----------------------------
(***************************************************************************)
(* What has to come to an end: routines of the scheduler, consolidation    *)
(* runs, and the handlers of the Matrix bot.  The three have no variable   *)
(* in common; a behaviour is one of the component in focus.                *)
(***************************************************************************)
EXTENDS MCEventRoutines, SleepTime, MatrixDelivery

VARIABLE focus

routineVars == vars

BackgroundInit ==
  /\ focus \in {"routines", "sleep", "matrix"}
  /\ Init
  /\ SleepInit
  /\ MatrixInit

BackgroundNext ==
  /\ UNCHANGED focus
  /\ \/ /\ focus = "routines"
        /\ Next
        /\ UNCHANGED <<sleepVars, matrixVars>>
     \/ /\ focus = "sleep"
        /\ SleepNext
        /\ UNCHANGED <<routineVars, matrixVars>>
     \/ /\ focus = "matrix"
        /\ MatrixNext
        /\ UNCHANGED <<routineVars, sleepVars>>

\* The fairness of the component in focus.
Routines(A) == focus = "routines" /\ A
Matrix(A) == focus = "matrix" /\ A

BackgroundFairness ==
  /\ \A t \in Turns : WF_routineVars(Routines(TurnNext(OpenCircuit(t) \/ ResetCount(t))))
  /\ WF_routineVars(Routines(LoopNext(CronWakes \/ CronRan)))
  /\ SF_routineVars(Routines(LoopNext(CronLocks)))
  /\ WF_routineVars(Routines(LoopNext(Receives \/ ReceivesLagged \/ ListenerRan)))
  /\ SF_routineVars(Routines(LoopNext(ListenerLocks)))
  /\ WF_routineVars(Routines(Tick))
  /\ \A r \in ConsolidationRuns : WF_sleepVars(focus = "sleep" /\ RunStep(r))
  /\ WF_matrixVars(Matrix(Connect))
  /\ WF_matrixVars(Matrix(InitialSync))
  /\ WF_matrixVars(Matrix(Reconnect))
  /\ WF_matrixVars(Matrix(Deliver))
  /\ WF_matrixVars(Matrix(Handle))

BackgroundSpec ==
  /\ BackgroundInit
  /\ [][BackgroundNext]_<<focus, routineVars, sleepVars, matrixVars>>
  /\ BackgroundFairness
=============================================================================
