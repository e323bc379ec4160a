--------------------------- MODULE MCEventRoutines ---------------------------
(* Schedules and triggers for the model checking of EventRoutines. *)
EXTENDS EventRoutines

MCCron == <<{1}, {1, 2}>>
MCTriggers == <<"CircuitOpen">>
=============================================================================
