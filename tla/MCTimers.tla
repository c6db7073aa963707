------------------------------ MODULE MCTimers ------------------------------
(* Timers on a small instance: see the configurations MCTimers*.cfg.       *)
EXTENDS Timers

MCRepCounts == {-1, 0, 1}
=============================================================================
