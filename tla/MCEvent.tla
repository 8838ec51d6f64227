------------------------------ MODULE MCEvent ------------------------------
(***************************************************************************)
(* Three receivers of two priorities, two flags, and an interrupt handler   *)
(* that sends; one of the receivers sends and resets as well.               *)
(***************************************************************************)
EXTENDS Event

CONSTANTS t1, t2, t3, idle, f1, f2

MCThread == {t1, t2, t3, idle}
MCInitPrio == [t \in MCThread |-> CASE t = t1 -> 0 [] t = idle -> 2 [] OTHER -> 1]
MCQueue == {"event"}

MCSends == {{f1}, {f2}}
MCRequests == {<<{f1}, [all |-> FALSE, clear |-> TRUE]>>,
               <<{f1, f2}, [all |-> TRUE, clear |-> TRUE]>>,
               <<{f1, f2}, [all |-> FALSE, clear |-> TRUE]>>,
               <<{f1, f2}, [all |-> FALSE, clear |-> FALSE]>>}
MCCalls == [t \in MCThread |->
              CASE t = t1 -> {"timed"}
                [] t = t2 -> {"timed", "send", "reset"}
                [] t = t3 -> {"recv", "try"}
                [] OTHER  -> {"send"}]
====
