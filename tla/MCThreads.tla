----------------------------- MODULE MCThreads -----------------------------
(***************************************************************************)
(* Three threads and the idle thread on three priorities: main and a are    *)
(* equally urgent, b more so.                                               *)
(***************************************************************************)
EXTENDS Threads

CONSTANTS main, a, b, idle

MCThread == {main, a, b, idle}
MCInitPrio == [t \in MCThread |-> CASE t = b -> 0 [] t = idle -> 2 [] OTHER -> 1]
MCQueue == {"defunct"}

\* Calls that wake and suspend threads; no thread ends.
LiveCalls == {"create", "yield", "sleep", "suspend", "resume", "priority", "critical"}

\* Calls that begin and end threads; none waits with a timeout.
EndCalls == {"create", "yield", "exit", "delete", "critical"}

\* Threads that sleep, and one that deletes them.
DeleteSleepingCalls == {"create", "sleep", "delete"}

\* a and b share the highest priority, main is less urgent.
MCPeers == [t \in MCThread |-> CASE t = main -> 1 [] t = idle -> 2 [] OTHER -> 0]
====
