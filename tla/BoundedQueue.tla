---------------------------- MODULE BoundedQueue ----------------------------
(***************************************************************************)
(* What a mailbox and a message queue promise their users: a queue of at    *)
(* most Size messages.  A message is queued at the end, or at the front by  *)
(* an urgent send; a receiver gets the first one; a reset empties the       *)
(* queue.  Nothing is lost, doubled or reordered otherwise.                 *)
(***************************************************************************)
EXTENDS Naturals, Sequences

CONSTANTS Message, Size

VARIABLES queue,    \* the messages
          received  \* the message the last receiver got, if any

Init == queue = << >> /\ received = << >>

Send(m) ==
  /\ Len(queue) < Size
  /\ queue' = Append(queue, m)
  /\ UNCHANGED received

SendUrgent(m) ==
  /\ Len(queue) < Size
  /\ queue' = <<m>> \o queue
  /\ UNCHANGED received

Receive ==
  /\ queue # << >>
  /\ received' = <<Head(queue)>>
  /\ queue' = Tail(queue)

Reset == queue' = << >> /\ UNCHANGED received

Next == (\E m \in Message : Send(m) \/ SendUrgent(m)) \/ Receive \/ Reset

Spec == Init /\ [][Next]_<<queue, received>>
=============================================================================
