----------------------------- MODULE MCMailbox -----------------------------
(***************************************************************************)
(* Three threads, one of them more urgent, an interrupt handler and a       *)
(* mailbox of two words.  One message is enough to tell words that wait from*)
(* stale ones and to count; that any messages keep their order is the       *)
(* theorem Refinement of Mailbox_proofs.                                    *)
(***************************************************************************)
EXTENDS Mailbox

CONSTANTS t1, t2, t3, idle, m1

MCThread == {t1, t2, t3, idle}
MCInitPrio == [t \in MCThread |-> CASE t = t1 -> 0 [] t = idle -> 2 [] OTHER -> 1]
MCQueue == {"receivers", "senders"}

AllCalls == {"send", "recv", "urgent", "reset", "isr"}
====
