------------------------------ MODULE Mailbox ------------------------------
(***************************************************************************)
(* One mailbox: a ring of msg_pool words, a list of receivers that wait for *)
(* a message and a list of senders that wait for room (rt_mb_send_wait,     *)
(* rt_mb_urgent, rt_mb_recv and rt_mb_control of src/rt-thread/src/ipc.c).  *)
(*                                                                         *)
(* Unlike a semaphore a mailbox hands nothing over: the resumed thread goes *)
(* round its loop and looks again, and a thread that came in between may    *)
(* have taken the message or the room.  A call with a timeout recomputes    *)
(* what is left of it each time round.                                      *)
(*                                                                         *)
(* One action is one section with interrupts disabled.  pc[t] is "send" or  *)
(* "recv" before the rt_schedule in the loop, "sent" or "rcvd" behind it,   *)
(* "sched" before the rt_schedule a successful call ends with.              *)
(***************************************************************************)
EXTENDS Ipc

CONSTANTS Message,   \* the words that are sent
          Size,      \* mb->size
          NoMsg,     \* what an unused local variable holds
          Calls,     \* the calls the application makes
          Waits      \* the timeouts it uses, of "forever", "timed" and "now"

ASSUME MailboxAssumption ==
  /\ Size \in Nat \ {0}
  /\ NoMsg \notin Message
  /\ Queue = {"receivers", "senders"}
  /\ Waits \subseteq {"forever", "timed", "now"}

VARIABLES k,        \* the kernel state
          pc,       \* pc[t]: where t is in its call
          wait,     \* wait[t]: what is left of the timeout of its call
          msg,      \* msg[t]: the message a waiting sender has
          pool,     \* mb->msg_pool
          in,       \* mb->in_offset
          out,      \* mb->out_offset
          entry,    \* mb->entry
          received  \* history: the message the last rt_mb_recv got, if any

ring == <<pool, in, out, entry, received>>
vars == <<k, pc, wait, msg, ring>>

Wait == {"forever", "timed", "now"}
PCs == {"run", "send", "sent", "recv", "rcvd", "sched"}

TypeOK ==
  /\ k \in KernelType
  /\ pc \in [Thread -> PCs]
  /\ wait \in [Thread -> Wait]
  /\ msg \in [Thread -> Message \cup {NoMsg}]
  /\ pool \in [0 .. Size - 1 -> Message \cup {NoMsg}]
  /\ in \in 0 .. Size - 1
  /\ out \in 0 .. Size - 1
  /\ entry \in 0 .. Size
  /\ received \in Seq(Message \cup {NoMsg})

\* rt_mb_init.
InitRing ==
  /\ pool = [i \in 0 .. Size - 1 |-> NoMsg]
  /\ in = 0
  /\ out = 0
  /\ entry = 0
  /\ received = << >>

Init ==
  /\ k = InitKernel
  /\ pc = [t \in Thread |-> "run"]
  /\ wait = [t \in Thread |-> "now"]
  /\ msg = [t \in Thread |-> NoMsg]
  /\ InitRing

-----------------------------------------------------------------------------
(***************************************************************************)
(* The ring                                                                *)
(***************************************************************************)

\* ++ offset; if (offset >= mb->size) offset = 0;
After(i) == IF i + 1 >= Size THEN 0 ELSE i + 1

\* Fault: the offset stops at the beginning of the pool.
BeforeStops(i) == IF i > 0 THEN i - 1 ELSE 0

\* if (offset > 0) offset --; else offset = mb->size - 1;
Before(i) == IF i > 0 THEN i - 1 ELSE Size - 1

Put(m) ==
  /\ entry # Size
  /\ pool' = [pool EXCEPT ![in] = m]
  /\ in' = After(in)
  /\ entry' = entry + 1
  /\ UNCHANGED <<out, received>>

PutUrgent(m) ==
  /\ entry # Size
  /\ out' = Before(out)
  /\ pool' = [pool EXCEPT ![Before(out)] = m]
  /\ entry' = entry + 1
  /\ UNCHANGED <<in, received>>

\* Fault: out_offset moves before the message is read.
GetNext ==
  /\ entry # 0
  /\ received' = <<pool[After(out)]>>
  /\ out' = After(out)
  /\ entry' = entry - 1
  /\ UNCHANGED <<pool, in>>

Get ==
  /\ entry # 0
  /\ received' = <<pool[out]>>
  /\ out' = After(out)
  /\ entry' = entry - 1
  /\ UNCHANGED <<pool, in>>

Clear ==
  /\ entry' = 0
  /\ in' = 0
  /\ out' = 0
  /\ UNCHANGED <<pool, received>>

-----------------------------------------------------------------------------
(***************************************************************************)
(* The calls                                                               *)
(***************************************************************************)
Caller(t, call) == k.cur = t /\ t # Idle /\ pc[t] = "run" /\ call \in Calls

Goto(t, to) == k.cur = t /\ pc' = [pc EXCEPT ![t] = to]

\* The local variables of t after it waited, or returned.
Locals(t, w, m) == wait' = [wait EXCEPT ![t] = w] /\ msg' = [msg EXCEPT ![t] = m]

\* Fault: nobody is resumed.
WakeNobody(q) == k

\* `resume suspended thread': the first thread of a list, if there is one.
Wake(q) == IF k.wait[q] # <<>> THEN IpcResume(k, q) ELSE k

\* A successful call ends, with rt_schedule when it resumed a thread of q.
Done(t, q) ==
  /\ k' = Wake(q)
  /\ Goto(t, IF k.wait[q] # <<>> THEN "sched" ELSE "run")
  /\ Locals(t, "now", NoMsg)

\* The loop of rt_mb_send_wait: out with -RT_EFULL, into the list, or on.
SendLoop(t, m, w) ==
  \/ /\ entry = Size
     /\ w = "now"
     /\ Goto(t, "run")
     /\ Locals(t, "now", NoMsg)
     /\ UNCHANGED <<k, ring>>
  \/ /\ entry = Size
     /\ w # "now"
     /\ k' = IpcSuspend(k, "senders", t, w = "timed")
     /\ Goto(t, "send")
     /\ Locals(t, w, m)
     /\ UNCHANGED ring
  \/ Put(m) /\ Done(t, "receivers")

\* The loop of rt_mb_recv: out with -RT_ETIMEOUT, into the list, or on.
RecvLoop(t, w) ==
  \/ /\ entry = 0
     /\ w = "now"
     /\ k' = IF pc[t] = "run" THEN k ELSE [k EXCEPT !.err[t] = "ETIMEOUT"]
     /\ Goto(t, "run")
     /\ Locals(t, "now", NoMsg)
     /\ UNCHANGED ring
  \/ /\ entry = 0
     /\ w # "now"
     /\ k' = IpcSuspend(k, "receivers", t, w = "timed")
     /\ Goto(t, "recv")
     /\ Locals(t, w, NoMsg)
     /\ UNCHANGED ring
  \/ Get /\ Done(t, "senders")

\* What a timeout is when the thread runs again: some or all of it has passed.
Left(w) == IF w = "timed" THEN {"timed", "now"} ELSE {w}

\* rt_mb_send_wait, rt_mb_send.
SendWait(t, m, w) == Caller(t, "send") /\ SendLoop(t, m, w)

\* rt_mb_recv.
Recv(t, w) == Caller(t, "recv") /\ RecvLoop(t, w)

\* rt_mb_urgent.
Urgent(t, m) == Caller(t, "urgent") /\ PutUrgent(m) /\ Done(t, "receivers")

\* rt_mb_send by an interrupt handler, its rt_schedule included.
SendIsr(m) ==
  /\ "isr" \in Calls
  /\ Put(m)
  /\ k' = IF k.wait["receivers"] # <<>> THEN Schedule(Wake("receivers")) ELSE k
  /\ UNCHANGED <<pc, wait, msg>>

\* The rt_schedule of the loops, and the one at the end of a call.
CallSchedule(t) ==
  /\ \/ pc[t] = "send" /\ Goto(t, "sent")
     \/ pc[t] = "recv" /\ Goto(t, "rcvd")
     \/ pc[t] = "sched" /\ Goto(t, "run")
  /\ k' = Schedule(k)
  /\ UNCHANGED <<wait, msg, ring>>

\* A waiting call runs again: it returns thread->error ...
WaitFails(t) ==
  /\ pc[t] \in {"sent", "rcvd"}
  /\ k.err[t] # "EOK"
  /\ Goto(t, "run")
  /\ Locals(t, "now", NoMsg)
  /\ UNCHANGED <<k, ring>>

\* ... or goes round its loop.
WaitAgain(t) ==
  /\ k.cur = t
  /\ k.err[t] = "EOK"
  /\ \E w \in Left(wait[t]) :
       \/ pc[t] = "sent" /\ SendLoop(t, msg[t], w)
       \/ pc[t] = "rcvd" /\ RecvLoop(t, w)

\* rt_mb_control(RT_IPC_CMD_RESET): every waiting call returns -RT_ERROR.
Reset(t) ==
  /\ Caller(t, "reset")
  /\ k' = IpcResumeAll(IpcResumeAll(k, "receivers"), "senders")
  /\ Clear
  /\ Goto(t, "sched")
  /\ UNCHANGED <<wait, msg>>

\* The tick interrupt.
TickSlice == k' = YieldCurrent(k) /\ UNCHANGED <<pc, wait, msg, ring>>

TickTimeout(t) ==
  /\ t \in k.tmr
  /\ k' = ThreadTimeout(k, t)
  /\ UNCHANGED <<pc, wait, msg, ring>>

Step(t) ==
  \/ \E m \in Message, w \in Waits : SendWait(t, m, w)
  \/ \E w \in Waits : Recv(t, w)
  \/ \E m \in Message : Urgent(t, m)
  \/ CallSchedule(t) \/ WaitFails(t) \/ WaitAgain(t) \/ Reset(t)

Next ==
  \/ \E t \in Thread : Step(t) \/ TickTimeout(t)
  \/ \E m \in Message : SendIsr(m)
  \/ TickSlice

Spec == Init /\ [][Next]_vars

-----------------------------------------------------------------------------
(***************************************************************************)
(* Properties                                                              *)
(***************************************************************************)

\* The messages in the order in which they will be received.
Contents == [i \in 1 .. entry |-> pool[(out + i - 1) % Size]]

Abstract == INSTANCE BoundedQueue WITH queue <- Contents

\* The mailbox is a bounded queue: what the offsets, entry and the stale words
\* of msg_pool do under sends, urgent sends, receives and resets is what a
\* queue of at most Size messages does.
IsBoundedQueue == Abstract!Spec

\* in_offset is entry places behind out_offset, so the word rt_mb_send_wait
\* overwrites is never one that has yet to be received, and the words between
\* the two are messages.
RingInv ==
  /\ in = (out + entry) % Size
  /\ \A i \in 0 .. entry - 1 : pool[(out + i) % Size] \in Message

\* Threads that were resumed in the loop of a call and have not looked yet.
Awake(q, pcs) ==
  {t \in Thread : pc[t] \in pcs /\ ~Contains(k.wait[q], t) /\ k.err[t] = "EOK"}

\* No wake-up is lost.  If a receiver sleeps there are at most as many
\* messages as other receivers already woken for them, and if a sender sleeps
\* there is at most as much room as other senders woken for it.
NoLostWakeUp ==
  /\ k.wait["receivers"] # <<>> =>
       entry <= Cardinality(Awake("receivers", {"recv", "rcvd"}))
  /\ k.wait["senders"] # <<>> =>
       Size - entry <= Cardinality(Awake("senders", {"send", "sent"}))

\* The scheduler's lists agree with the threads' stat, both suspension lists
\* are in order, and only threads in the matching call are in them.
WaitersConsistent ==
  /\ ListsMatchStat(k, {}) /\ BitmapExact(k)
  /\ \A q \in Queue : WaitListSound(k, q)
  /\ \A t \in Thread :
       /\ Contains(k.wait["receivers"], t) => pc[t] \in {"recv", "rcvd"}
       /\ Contains(k.wait["senders"], t) => pc[t] \in {"send", "sent"}

\* The waiters of a mailbox, together: their lists are exact, and no message
\* and no room is left to somebody who sleeps and whom nobody will wake.
WaitersSound == TypeOK /\ WaitersConsistent /\ NoLostWakeUp
=============================================================================
