---------------------------- MODULE MCSemaphore ----------------------------
(***************************************************************************)
(* Three threads, two of them equally urgent and one more urgent, and the   *)
(* idle thread use one semaphore that counts to two.                        *)
(***************************************************************************)
EXTENDS Semaphore

CONSTANTS t1, t2, t3, idle

MCThread == {t1, t2, t3, idle}
MCInitPrio == [t \in MCThread |-> CASE t = t1 -> 0 [] t = idle -> 2 [] OTHER -> 1]
MCQueue == {"sem"}

\* Everything that is done to a semaphore.
AllCalls == {"try", "take", "timed", "release", "isr", "reset", "detach"}
====
