---------------------------- MODULE MessageQueue ----------------------------
(***************************************************************************)
(* One message queue: a pool of blocks, each of which is in the free list,  *)
(* in the list of messages, or in the hands of one call (rt_mq_send_wait,   *)
(* rt_mq_urgent, rt_mq_recv and rt_mq_control of src/rt-thread/src/ipc.c).  *)
(*                                                                         *)
(* What sets it apart from a mailbox is that messages are copied with       *)
(* interrupts enabled.  A sender takes a block in one section, copies, and  *)
(* links the block in another; a receiver unlinks a block, copies, and puts *)
(* it back in another.  Interrupts, other threads and a reset come between. *)
(*                                                                         *)
(* pc[t] is "send" or "recv" before the rt_schedule of the loops, "sent" or *)
(* "rcvd" behind it, "link" or "urgent" while a block is being filled,      *)
(* "copy" while one is being read, "sched" before the rt_schedule a call    *)
(* ends with.                                                               *)
(***************************************************************************)
EXTENDS Ipc

CONSTANTS Message,   \* what is sent
          Size,      \* mq->max_msgs, at most RT_MQ_ENTRY_MAX
          NoMsg,     \* the contents of a block nobody wrote
          Null,      \* RT_NULL
          Calls,     \* Calls[t]: the calls thread t makes
          IsrSends,  \* whether an interrupt handler sends
          Waits      \* the timeouts in use, of "forever", "timed" and "now"

Block == 1 .. Size
Pointer == Block \cup {Null}

ASSUME MessageQueueAssumption ==
  /\ Size \in Nat \ {0}
  /\ NoMsg \notin Message
  /\ Null \notin Block
  /\ Queue = {"receivers", "senders"}

VARIABLES k,        \* the kernel state
          pc,       \* pc[t]: where t is in its call
          wait,     \* wait[t]: what is left of the timeout of its call
          msg,      \* msg[t]: the message a sender has, or a receiver should get
          blk,      \* blk[t]: the local variable msg, a block
          next,     \* next[b]: the pointer in the header of block b
          data,     \* data[b]: the message in block b
          head, tail, free,  \* mq->msg_queue_head, _tail and _free
          entry,    \* mq->entry
          received  \* history: the message the last rt_mq_recv took, if any

lists == <<next, data, head, tail, free, entry, received>>
locals == <<wait, msg, blk>>
vars == <<k, pc, locals, lists>>

PCs == {"run", "send", "sent", "recv", "rcvd", "link", "urgent", "copy", "sched"}

TypeOK ==
  /\ k \in KernelType
  /\ pc \in [Thread -> PCs]
  /\ wait \in [Thread -> {"forever", "timed", "now"}]
  /\ \A t \in Thread : pc[t] \in {"send", "recv"} => wait[t] # "now"
  /\ msg \in [Thread -> Message \cup {NoMsg}]
  /\ blk \in [Thread -> Pointer]
  /\ next \in [Block -> Pointer]
  /\ data \in [Block -> Message \cup {NoMsg}]
  /\ head \in Pointer /\ tail \in Pointer /\ free \in Pointer
  /\ entry \in 0 .. Size
  /\ received \in Seq(Message \cup {NoMsg})

\* rt_mq_init: the free list starts with the last block of the pool.
Init ==
  /\ k = InitKernel
  /\ pc = [t \in Thread |-> "run"]
  /\ wait = [t \in Thread |-> "now"]
  /\ msg = [t \in Thread |-> NoMsg]
  /\ blk = [t \in Thread |-> Null]
  /\ next = [b \in Block |-> IF b = 1 THEN Null ELSE b - 1]
  /\ data = [b \in Block |-> NoMsg]
  /\ head = Null /\ tail = Null /\ free = Size
  /\ entry = 0
  /\ received = << >>

-----------------------------------------------------------------------------
(***************************************************************************)
(* The lists of blocks                                                     *)
(***************************************************************************)

\* `move free list pointer': the caller has block b to itself from now on.
Reserve(b) ==
  /\ b = free
  /\ b # Null
  /\ free' = next[b]
  /\ UNCHANGED <<next, data, head, tail, entry, received>>

\* Fault: the message is not copied.
LinkLastUncopied(b, m) ==
  /\ next' = [x \in Block |-> CASE x = b -> Null [] x = tail -> b [] OTHER -> next[x]]
  /\ tail' = b
  /\ head' = IF head = Null THEN b ELSE head
  /\ entry' = entry + 1
  /\ UNCHANGED <<data, free, received>>

\* `link msg to message queue', behind the copy of message m.  The limit of
\* entry, RT_MQ_ENTRY_MAX, is not below the number of blocks.
LinkLast(b, m) ==
  /\ data' = [data EXCEPT ![b] = m]
  /\ next' = [x \in Block |-> CASE x = b -> Null [] x = tail -> b [] OTHER -> next[x]]
  /\ tail' = b
  /\ head' = IF head = Null THEN b ELSE head
  /\ entry' = entry + 1
  /\ UNCHANGED <<free, received>>

\* `link msg to the beginning of message queue', behind the copy.
LinkFirst(b, m) ==
  /\ data' = [data EXCEPT ![b] = m]
  /\ next' = [next EXCEPT ![b] = head]
  /\ head' = b
  /\ tail' = IF tail = Null THEN b ELSE tail
  /\ entry' = entry + 1
  /\ UNCHANGED <<free, received>>

\* `get message from queue'.
UnlinkFirst ==
  /\ entry # 0
  /\ head' = next[head]
  /\ tail' = IF tail = head THEN Null ELSE tail
  /\ entry' = entry - 1
  /\ received' = <<data[head]>>
  /\ UNCHANGED <<next, data, free>>

\* `put message to free list'.
GiveBack(b) ==
  /\ next' = [next EXCEPT ![b] = free]
  /\ free' = b
  /\ UNCHANGED <<data, head, tail, entry, received>>

\* The blocks from pointer p on, in the order of a list without a cycle.
Chain(p) ==
  LET follow[n \in 0 .. Size] ==
        IF n = 0 THEN <<p>>
        ELSE LET s == follow[n - 1]
             IN  IF Last(s) = Null THEN s ELSE Append(s, next[Last(s)])
  IN  Front(follow[Size])

\* Fault: the messages are forgotten, not freed.
FreeNothing ==
  /\ head' = Null
  /\ tail' = Null
  /\ entry' = 0
  /\ UNCHANGED <<next, data, free, received>>

\* `release all message in the queue': one by one onto the free list.
FreeAll ==
  LET all == FoldLeft(LAMBDA s, b : [next |-> [s.next EXCEPT ![b] = s.free], free |-> b],
                      [next |-> next, free |-> free], Chain(head))
  IN  /\ next' = all.next
      /\ free' = all.free
      /\ head' = Null
      /\ tail' = Null
      /\ entry' = 0
      /\ UNCHANGED <<data, received>>

-----------------------------------------------------------------------------
(***************************************************************************)
(* The calls                                                               *)
(***************************************************************************)
Caller(t, call) == k.cur = t /\ t # Idle /\ pc[t] = "run" /\ call \in Calls[t]

Goto(t, to) == k.cur = t /\ pc' = [pc EXCEPT ![t] = to]

Locals(t, w, m, b) ==
  /\ wait' = [wait EXCEPT ![t] = w]
  /\ msg' = [msg EXCEPT ![t] = m]
  /\ blk' = [blk EXCEPT ![t] = b]

\* Fault: nobody is resumed.
WakeNobody(q) == k

\* `resume suspended thread': the first thread of a list, if there is one.
Wake(q) == IF k.wait[q] # <<>> THEN IpcResume(k, q) ELSE k

\* A successful call ends, with rt_schedule when it resumed a thread of q.
Done(t, q) ==
  /\ k' = Wake(q)
  /\ Goto(t, IF k.wait[q] # <<>> THEN "sched" ELSE "run")
  /\ Locals(t, "now", NoMsg, Null)

\* The call of t suspends it in list q; `to' is the place before rt_schedule.
SleepIn(t, q, to, w, m) ==
  /\ w # "now"
  /\ k' = IpcSuspend(k, q, t, w = "timed")
  /\ Goto(t, to)
  /\ Locals(t, w, m, Null)
  /\ UNCHANGED lists

\* The loop of rt_mq_send_wait: out with -RT_EFULL, into the list, or on with
\* the first free block.  A round behind rt_schedule resets thread->error.
SendLoop(t, m, w) ==
  \/ /\ free = Null
     /\ w = "now"
     /\ Goto(t, "run")
     /\ Locals(t, "now", NoMsg, Null)
     /\ UNCHANGED <<k, lists>>
  \/ free = Null /\ SleepIn(t, "senders", "send", w, m)
  \/ /\ Reserve(free)
     /\ Goto(t, "link")
     /\ Locals(t, "now", m, free)
     /\ UNCHANGED k

\* The loop of rt_mq_recv, likewise.
RecvLoop(t, w) ==
  \/ /\ entry = 0
     /\ w = "now"
     /\ k' = IF pc[t] = "run" THEN k ELSE [k EXCEPT !.err[t] = "ETIMEOUT"]
     /\ Goto(t, "run")
     /\ Locals(t, "now", NoMsg, Null)
     /\ UNCHANGED lists
  \/ entry = 0 /\ SleepIn(t, "receivers", "recv", w, NoMsg)
  \/ /\ UnlinkFirst
     /\ Goto(t, "copy")
     /\ Locals(t, "now", data[head], head)
     /\ UNCHANGED k

\* What a timeout is when the thread runs again: some or all of it has passed.
Left(w) == IF w = "timed" THEN {"timed", "now"} ELSE {w}

\* rt_mq_send_wait, rt_mq_send.
SendWait(t, m, w) == Caller(t, "send") /\ SendLoop(t, m, w)

\* rt_mq_recv.
Recv(t, w) == Caller(t, "recv") /\ RecvLoop(t, w)

\* The first section of rt_mq_urgent; without a block it returns -RT_EFULL.
Urgent(t, m) ==
  /\ Caller(t, "urgent")
  /\ Reserve(free)
  /\ Goto(t, "urgent")
  /\ Locals(t, "now", m, free)
  /\ UNCHANGED k

\* The copy into the block, and the section that links it and wakes a receiver.
Link(t) ==
  /\ \/ pc[t] = "link" /\ LinkLast(blk[t], msg[t])
     \/ pc[t] = "urgent" /\ LinkFirst(blk[t], msg[t])
  /\ Done(t, "receivers")

\* The copy out of the block, and the section that frees it and wakes a sender.
Free(t) ==
  /\ pc[t] = "copy"
  /\ GiveBack(blk[t])
  /\ Done(t, "senders")

\* rt_mq_send by an interrupt handler: both sections, its rt_schedule included.
SendIsr(m) ==
  /\ IsrSends
  /\ free # Null
  /\ data' = [data EXCEPT ![free] = m]
  /\ next' = [x \in Block |-> CASE x = free -> Null [] x = tail -> free
                                [] OTHER -> next[x]]
  /\ free' = next[free]
  /\ tail' = free
  /\ head' = IF head = Null THEN free ELSE head
  /\ entry' = entry + 1
  /\ k' = IF k.wait["receivers"] # <<>> THEN Schedule(Wake("receivers")) ELSE k
  /\ UNCHANGED <<pc, locals, received>>

\* The rt_schedule of the loops, and the one at the end of a call.
CallSchedule(t) ==
  /\ \/ pc[t] = "send" /\ Goto(t, "sent")
     \/ pc[t] = "recv" /\ Goto(t, "rcvd")
     \/ pc[t] = "sched" /\ Goto(t, "run")
  /\ k' = Schedule(k)
  /\ UNCHANGED <<locals, lists>>

\* A waiting call runs again: it returns thread->error ...
WaitFails(t) ==
  /\ pc[t] \in {"sent", "rcvd"}
  /\ k.err[t] # "EOK"
  /\ Goto(t, "run")
  /\ Locals(t, "now", NoMsg, Null)
  /\ UNCHANGED <<k, lists>>

\* ... or goes round its loop.
WaitAgain(t) ==
  /\ k.cur = t
  /\ k.err[t] = "EOK"
  /\ \E w \in Left(wait[t]) :
       \/ pc[t] = "sent" /\ SendLoop(t, msg[t], w)
       \/ pc[t] = "rcvd" /\ RecvLoop(t, w)

\* rt_mq_control(RT_IPC_CMD_RESET): every waiting call returns -RT_ERROR.
Reset(t) ==
  /\ Caller(t, "reset")
  /\ k' = IpcResumeAll(IpcResumeAll(k, "receivers"), "senders")
  /\ FreeAll
  /\ Goto(t, "sched")
  /\ UNCHANGED locals

\* The tick interrupt.
TickSlice == k' = YieldCurrent(k) /\ UNCHANGED <<pc, locals, lists>>

TickTimeout(t) ==
  /\ t \in k.tmr
  /\ k' = ThreadTimeout(k, t)
  /\ UNCHANGED <<pc, locals, lists>>

Step(t) ==
  \/ \E m \in Message, w \in Waits : SendWait(t, m, w)
  \/ \E w \in Waits : Recv(t, w)
  \/ \E m \in Message : Urgent(t, m)
  \/ Link(t) \/ Free(t)
  \/ CallSchedule(t) \/ WaitFails(t) \/ WaitAgain(t) \/ Reset(t)

Next ==
  \/ \E t \in Thread : Step(t) \/ TickTimeout(t)
  \/ \E m \in Message : SendIsr(m)
  \/ TickSlice

Spec == Init /\ [][Next]_vars

-----------------------------------------------------------------------------
(***************************************************************************)
(* Properties                                                              *)
(***************************************************************************)

\* The messages in the order in which they will be received.
Contents == LET c == Chain(head) IN [i \in DOMAIN c |-> data[c[i]]]

Abstract == INSTANCE BoundedQueue WITH queue <- Contents

\* The message queue is a bounded queue although a message is copied in and
\* out with interrupts enabled: it is sent when its block is linked, received
\* when its block is unlinked, and a block that is being filled or read counts
\* as room that is taken.
IsBoundedQueue == Abstract!Spec

\* The blocks of the calls in progress.
InHands == {t \in Thread : blk[t] # Null}

\* Every block is in exactly one place: in the free list, in the list of
\* messages or with one call; the list of messages is entry blocks long and
\* ends at the tail.  A reset between the two sections of a call neither frees
\* nor loses the block of that call.
BlocksAccounted ==
  LET unused == Chain(free)
      queued == Chain(head)
  IN  /\ \A b \in Block :
           Occurrences(unused, b) + Occurrences(queued, b)
             + Cardinality({t \in InHands : blk[t] = b}) = 1
      /\ Len(queued) = entry
      /\ tail = IF head = Null THEN Null ELSE Last(queued)

\* A receiver copies the message it took: nobody writes into its block between
\* the section that unlinks it and the copy.
CopyIntact == \A t \in Thread : pc[t] = "copy" => data[blk[t]] = msg[t]

\* Threads that were resumed in the loop of a call and have not looked yet.
Awake(q, pcs) ==
  {t \in Thread : pc[t] \in pcs /\ ~Contains(k.wait[q], t) /\ k.err[t] = "EOK"}

\* No wake-up is lost.  If a receiver sleeps there are at most as many
\* messages as other receivers already woken for them, and if a sender sleeps
\* there are at most as many free blocks as other senders woken for them.
NoLostWakeUp ==
  /\ k.wait["receivers"] # <<>> =>
       entry <= Cardinality(Awake("receivers", {"recv", "rcvd"}))
  /\ k.wait["senders"] # <<>> =>
       Len(Chain(free)) <= Cardinality(Awake("senders", {"send", "sent"}))

\* The blocks of a message queue, together: only a call that may wait waits,
\* each block is in one place, and none is written while it is read.
BlocksSound == TypeOK /\ BlocksAccounted /\ CopyIntact
=============================================================================
