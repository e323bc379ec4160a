------------------------- MODULE MCDailyRateLimiter -------------------------
(* Symmetry for the model checking of DailyRateLimiter. *)
EXTENDS DailyRateLimiter, TLC

Symmetry == Permutations(Calls)
=============================================================================
