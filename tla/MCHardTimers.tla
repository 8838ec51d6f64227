---------------------------- MODULE MCHardTimers ----------------------------
(***************************************************************************)
(* Three timers, one of them periodic, on a tick counter that wraps at 8.   *)
(***************************************************************************)
EXTENDS HardTimers

CONSTANTS a, b, p
====
