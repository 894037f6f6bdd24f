------------------------------ MODULE MCWatchdog ------------------------------
(* Values for model checking Watchdog: a setting of the clock leaves the file *)
(* dated in the future, fresh, or too old.                                    *)
EXTENDS Watchdog

SomeAges == {-1, 0, LIMIT}
=============================================================================
