--------------------------- MODULE MCMessageQueue ---------------------------
(***************************************************************************)
(* Two senders, one of which also sends urgently, and an urgent receiver    *)
(* that also resets, with two blocks, two messages and an interrupt handler.*)
(***************************************************************************)
EXTENDS MessageQueue

CONSTANTS t1, t2, t3, idle, m1, m2

MCThread == {t1, t2, t3, idle}
MCInitPrio == [t \in MCThread |-> CASE t = t1 -> 0 [] t = idle -> 2 [] OTHER -> 1]
MCQueue == {"receivers", "senders"}

MCCalls == [t \in MCThread |->
              CASE t = t1 -> {"recv", "reset"}
                [] t = t2 -> {"send", "urgent"}
                [] t = t3 -> {"send", "recv"}
                [] OTHER  -> {}]
====
