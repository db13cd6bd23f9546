------------------------------ MODULE MCTimers ------------------------------
(* Timers for TLC: two owners, so that one timer's callback meets the other *)
(* owner's removals.                                                        *)
EXTENDS Timers
=============================================================================
