---------------------------- MODULE MCSoftTimers ----------------------------
(***************************************************************************)
(* Two soft timers, one of them periodic, on a tick counter that wraps at 10.*)
(***************************************************************************)
EXTENDS SoftTimers

CONSTANTS a, p

\* a, when it is started, is due before p.
MCInitTick == [t \in {a, p} |-> IF t = a THEN 1 ELSE 2]
====
