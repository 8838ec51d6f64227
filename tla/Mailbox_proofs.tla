--------------------------- MODULE Mailbox_proofs ---------------------------
(***************************************************************************)
(* The mailbox, for every set of threads and of messages and every size.    *)
(* Its ring never loses, doubles or reorders a message: the mailbox         *)
(* implements a bounded queue.  And no wake-up is lost between the senders  *)
(* and the receivers that wait for it.                                      *)
(***************************************************************************)
EXTENDS Mailbox, KernelLemmas, SequenceTheorems, TLAPS

\* An offset that has been advanced by at most Size, back in the pool.
Wrap(x) == IF x < Size THEN x ELSE x - Size

\* The two cases of an offset that has been advanced by at most Size.
LEMMA ModSize ==
  ASSUME NEW a \in 0 .. 2 * Size - 1
  PROVE  a % Size = Wrap(a)
<1>1. Size \in Nat \ {0}
  BY MailboxAssumption
<1>2. CASE a < Size
  BY <1>1, <1>2 DEF Wrap
<1>3. CASE a >= Size
  <2>1. a - Size \in 0 .. Size - 1
    BY <1>1, <1>3
  <2>2. (a - Size) % Size = a - Size
    BY <1>1, <2>1
  <2>3. a % Size = (a - Size) % Size
    BY <1>1, <1>3, <2>1
  <2> QED
    BY <1>1, <1>3, <2>2, <2>3 DEF Wrap
<1> QED
  BY <1>1, <1>2, <1>3

-----------------------------------------------------------------------------
(***************************************************************************)
(* What the calls do to the ring                                           *)
(***************************************************************************)

\* A thread that waits for room still has the message it wants to send.
LocalsSound ==
  /\ pc \in [Thread -> PCs]
  /\ msg \in [Thread -> Message \cup {NoMsg}]
  /\ \A t \in Thread : pc[t] \in {"send", "sent"} => msg[t] \in Message

\* The types of the ring.
RingType ==
  /\ pool \in [0 .. Size - 1 -> Message \cup {NoMsg}]
  /\ in \in 0 .. Size - 1
  /\ out \in 0 .. Size - 1
  /\ entry \in 0 .. Size

\* The inductive invariant: RingInv alone says nothing about what a waiting
\* sender will put into the ring when it runs again.
IndInv == LocalsSound /\ RingType /\ RingInv

\* What a step may do to the ring.
RingStep ==
  \/ \E m \in Message : Put(m) \/ PutUrgent(m)
  \/ Get
  \/ Clear
  \/ UNCHANGED ring

\* A round of the loop of rt_mb_send_wait keeps the locals sound.
LEMMA SendLoopLocals ==
  ASSUME LocalsSound, NEW t \in Thread, NEW m \in Message, NEW w, SendLoop(t, m, w)
  PROVE  LocalsSound'
<1>1. CASE Put(m) /\ Done(t, "receivers")
  BY <1>1 DEF LocalsSound, Done, Goto, Locals, PCs
<1>2. CASE pc' = [pc EXCEPT ![t] = "run"] /\ msg' = [msg EXCEPT ![t] = NoMsg]
  BY <1>2 DEF LocalsSound, PCs
<1>3. CASE pc' = [pc EXCEPT ![t] = "send"] /\ msg' = [msg EXCEPT ![t] = m]
  BY <1>3 DEF LocalsSound, PCs
<1> QED
  BY <1>1, <1>2, <1>3 DEF SendLoop, Goto, Locals

\* So does a round of the loop of rt_mb_recv.
LEMMA RecvLoopLocals ==
  ASSUME LocalsSound, NEW t \in Thread, NEW w, RecvLoop(t, w)
  PROVE  LocalsSound'
<1>1. CASE Get /\ Done(t, "senders")
  BY <1>1 DEF LocalsSound, Done, Goto, Locals, PCs
<1>2. CASE pc' = [pc EXCEPT ![t] = "run"] /\ msg' = [msg EXCEPT ![t] = NoMsg]
  BY <1>2 DEF LocalsSound, PCs
<1>3. CASE pc' = [pc EXCEPT ![t] = "recv"] /\ msg' = [msg EXCEPT ![t] = NoMsg]
  BY <1>3 DEF LocalsSound, PCs
<1> QED
  BY <1>1, <1>2, <1>3 DEF RecvLoop, Goto, Locals

\* Every step keeps the locals of waiting calls sound, whatever it does to the
\* scheduler.
LEMMA LocalsInductive ==
  ASSUME LocalsSound, [Next]_vars
  PROVE  LocalsSound'
<1>1. CASE UNCHANGED <<pc, msg>>
  BY <1>1 DEF LocalsSound
<1>2. ASSUME NEW t \in Thread, NEW m \in Message, NEW w, SendWait(t, m, w)
      PROVE  LocalsSound'
  BY <1>2, SendLoopLocals DEF SendWait
<1>3. ASSUME NEW t \in Thread, NEW w, Recv(t, w)
      PROVE  LocalsSound'
  BY <1>3, RecvLoopLocals DEF Recv
<1>4. ASSUME NEW t \in Thread, NEW m \in Message, Urgent(t, m)
      PROVE  LocalsSound'
  BY <1>4 DEF Urgent, LocalsSound, Done, Goto, Locals, PCs
<1>5. ASSUME NEW t \in Thread, CallSchedule(t)
      PROVE  LocalsSound'
  BY <1>5 DEF CallSchedule, LocalsSound, Goto, PCs
<1>6. ASSUME NEW t \in Thread, WaitFails(t)
      PROVE  LocalsSound'
  BY <1>6 DEF WaitFails, LocalsSound, Goto, Locals, PCs
<1>7. ASSUME NEW t \in Thread, WaitAgain(t)
      PROVE  LocalsSound'
  <2>1. PICK w : \/ pc[t] = "sent" /\ SendLoop(t, msg[t], w)
                 \/ pc[t] = "rcvd" /\ RecvLoop(t, w)
    BY <1>7 DEF WaitAgain
  <2>2. pc[t] = "sent" => msg[t] \in Message
    BY DEF LocalsSound
  <2> QED
    BY <2>1, <2>2, SendLoopLocals, RecvLoopLocals
<1>8. ASSUME NEW t \in Thread, Reset(t)
      PROVE  LocalsSound'
  BY <1>8 DEF Reset, LocalsSound, Goto, PCs
<1>9. ASSUME NEW t \in Thread, TickTimeout(t)
      PROVE  UNCHANGED <<pc, msg>>
  BY <1>9 DEF TickTimeout
<1>10. ASSUME NEW m \in Message, SendIsr(m)
       PROVE  UNCHANGED <<pc, msg>>
  BY <1>10 DEF SendIsr
<1>11. CASE TickSlice
  BY <1>1, <1>11 DEF TickSlice
<1>12. CASE UNCHANGED vars
  BY <1>1, <1>12 DEF vars
<1> QED
  BY <1>1, <1>2, <1>3, <1>4, <1>5, <1>6, <1>7, <1>8, <1>9, <1>10, <1>11, <1>12
     DEF Next, Step

\* A round of a loop changes the ring by one Put or Get, or not at all.
LEMMA LoopsTouchRing ==
  ASSUME NEW t, NEW m \in Message, NEW w, SendLoop(t, m, w) \/ RecvLoop(t, w)
  PROVE  RingStep
BY Zenon DEF SendLoop, RecvLoop, RingStep

\* Every step changes the ring by one of its four operations, or not at all.
LEMMA StepsTouchRing ==
  ASSUME LocalsSound, [Next]_vars
  PROVE  RingStep
<1>1. ASSUME NEW t \in Thread, NEW m \in Message, NEW w, SendWait(t, m, w)
      PROVE  RingStep
  BY <1>1, LoopsTouchRing DEF SendWait
<1>2. ASSUME NEW t \in Thread, NEW w, Recv(t, w)
      PROVE  RingStep
  BY <1>2, Zenon DEF Recv, RecvLoop, RingStep
<1>3. ASSUME NEW t \in Thread, NEW m \in Message, Urgent(t, m)
      PROVE  RingStep
  BY <1>3, Zenon DEF Urgent, RingStep
<1>4. ASSUME NEW t \in Thread, CallSchedule(t) \/ WaitFails(t) \/ TickTimeout(t)
      PROVE  RingStep
  BY <1>4, Zenon DEF CallSchedule, WaitFails, TickTimeout, RingStep
<1>5. ASSUME NEW t \in Thread, WaitAgain(t)
      PROVE  RingStep
  <2>1. PICK w : \/ pc[t] = "sent" /\ SendLoop(t, msg[t], w)
                 \/ pc[t] = "rcvd" /\ RecvLoop(t, w)
    BY <1>5 DEF WaitAgain
  <2>2. CASE pc[t] = "sent" /\ SendLoop(t, msg[t], w)
    BY <2>2, LoopsTouchRing DEF LocalsSound
  <2>3. CASE RecvLoop(t, w)
    BY <2>3, Zenon DEF RecvLoop, RingStep
  <2> QED
    BY <2>1, <2>2, <2>3
<1>6. ASSUME NEW t \in Thread, Reset(t)
      PROVE  RingStep
  BY <1>6, Zenon DEF Reset, RingStep
<1>7. ASSUME NEW m \in Message, SendIsr(m)
      PROVE  RingStep
  BY <1>7, Zenon DEF SendIsr, RingStep
<1>8. CASE TickSlice
  BY <1>8, Zenon DEF TickSlice, RingStep
<1>9. CASE UNCHANGED vars
  BY <1>9 DEF vars, RingStep
<1> QED
  BY <1>1, <1>2, <1>3, <1>4, <1>5, <1>6, <1>7, <1>8, <1>9 DEF Next, Step

-----------------------------------------------------------------------------
(***************************************************************************)
(* The ring                                                                *)
(***************************************************************************)

\* The place of the i-th message that is still to be received.
LEMMA Place ==
  ASSUME NEW o \in 0 .. Size - 1, NEW i \in 0 .. Size
  PROVE  (o + i) % Size = Wrap(o + i)
<1>1. Size \in Nat \ {0} /\ o + i \in 0 .. 2 * Size - 1
  BY MailboxAssumption
<1> QED
  BY <1>1, ModSize

\* The place of the first one is out_offset.
LEMMA FirstPlace ==
  ASSUME NEW o \in 0 .. Size - 1
  PROVE  (o + 0) % Size = o
<1>1. Size \in Nat \ {0} /\ o + 0 = o /\ o \in 0 .. 2 * Size - 1
  BY MailboxAssumption
<1> QED
  BY <1>1, ModSize DEF Wrap

\* A message that is sent lands behind those that wait.
LEMMA PutRing ==
  ASSUME RingType, RingInv, NEW m \in Message, Put(m)
  PROVE  RingType' /\ RingInv'
<1>1. Size \in Nat \ {0}
  BY MailboxAssumption
<1>2. RingType'
  BY <1>1 DEF RingType, Put, After
<1>3. entry \in 0 .. Size - 1 /\ entry' = entry + 1 /\ out' = out
  BY <1>1 DEF RingType, Put
<1>4. in' = (out' + entry') % Size
  <2>1. in = Wrap(out + entry)
    BY <1>3, Place DEF RingType, RingInv
  <2>2. (out + (entry + 1)) % Size = Wrap(out + (entry + 1))
    <3>1. out \in 0 .. Size - 1 /\ entry + 1 \in 0 .. Size
      BY <1>1, <1>3 DEF RingType
    <3> QED
      BY <3>1, Place, Zenon
  <2>3. in' = IF in + 1 >= Size THEN 0 ELSE in + 1
    BY DEF Put, After
  <2>4. in' = (out + (entry + 1)) % Size
    BY <1>1, <1>3, <2>1, <2>2, <2>3 DEF RingType, Wrap
  <2> QED
    BY <1>3, <2>4
<1>5. ASSUME NEW i \in 0 .. entry' - 1
      PROVE  pool'[(out' + i) % Size] \in Message
  <2>1. CASE i = entry
    BY <1>1, <1>3, <2>1, Place DEF RingType, RingInv, Put
  <2>2. CASE i < entry
    <3>1. i \in 0 .. entry - 1
      BY <1>3, <2>2
    <3>2. (out + i) % Size = Wrap(out + i)
      BY <1>1, <1>3, <3>1, Place DEF RingType
    <3>3. in = Wrap(out + entry)
      BY <1>3, Place DEF RingType, RingInv
    <3>4. (out + i) % Size # in
      BY <1>1, <1>3, <3>1, <3>2, <3>3 DEF RingType, Wrap
    <3>5. (out + i) % Size \in 0 .. Size - 1
      BY <1>1, <1>3, <3>1, <3>2 DEF RingType, Wrap
    <3>6. pool[(out + i) % Size] \in Message
      BY <3>1 DEF RingInv
    <3>7. pool' = [pool EXCEPT ![in] = m] /\ pool \in [0 .. Size - 1 -> Message \cup {NoMsg}]
      BY DEF Put, RingType
    <3>8. pool'[(out + i) % Size] = pool[(out + i) % Size]
      BY <3>4, <3>5, <3>7
    <3> QED
      BY <1>3, <3>6, <3>8
  <2> QED
    BY <1>3, <2>1, <2>2
<1> QED
  BY <1>2, <1>4, <1>5 DEF RingInv

\* An urgent one lands before them.
LEMMA PutUrgentRing ==
  ASSUME RingType, RingInv, NEW m \in Message, PutUrgent(m)
  PROVE  RingType' /\ RingInv'
<1>1. Size \in Nat \ {0}
  BY MailboxAssumption
<1>2. RingType'
  BY <1>1 DEF RingType, PutUrgent, Before
<1>3. entry \in 0 .. Size - 1 /\ entry' = entry + 1 /\ out' = Before(out)
  BY <1>1 DEF RingType, PutUrgent
<1>4. out' \in 0 .. Size - 1
  BY <1>2 DEF RingType
<1>5. in' = (out' + entry') % Size
  <2>1. in = Wrap(out + entry)
    BY <1>3, Place DEF RingType, RingInv
  <2>2. (out' + (entry + 1)) % Size = Wrap(out' + (entry + 1))
    <3>1. entry + 1 \in 0 .. Size
      BY <1>1, <1>3
    <3> QED
      BY <1>4, <3>1, Place, Zenon
  <2>3. out' = IF out > 0 THEN out - 1 ELSE Size - 1
    BY <1>3 DEF Before
  <2>4. in = (out' + (entry + 1)) % Size
    BY <1>1, <1>3, <2>1, <2>2, <2>3 DEF RingType, Wrap
  <2> QED
    BY <1>3, <2>4 DEF PutUrgent
<1>6. ASSUME NEW i \in 0 .. entry' - 1
      PROVE  pool'[(out' + i) % Size] \in Message
  <2>1. CASE i = 0
    <3>1. (out' + i) % Size = out'
      BY <1>4, <2>1, FirstPlace, Zenon
    <3>2. pool' = [pool EXCEPT ![out'] = m]
      BY <1>3 DEF PutUrgent
    <3> QED
      BY <1>4, <3>1, <3>2 DEF RingType
  <2>2. CASE i > 0
    <3>1. i - 1 \in 0 .. entry - 1
      BY <1>3, <2>2 DEF RingType
    <3>2. (out' + i) % Size = Wrap(out' + i)
      <4>1. i \in 0 .. Size
        BY <1>1, <1>3
      <4> QED
        BY <1>4, <4>1, Place, Zenon
    <3>3. (out + (i - 1)) % Size = Wrap(out + (i - 1))
      <4>1. i - 1 \in 0 .. Size /\ out \in 0 .. Size - 1
        BY <1>1, <1>3, <3>1 DEF RingType
      <4> QED
        BY <4>1, Place, Zenon
    <3>4. out' = IF out > 0 THEN out - 1 ELSE Size - 1
      BY <1>3 DEF Before
    <3>5. (out' + i) % Size = (out + (i - 1)) % Size
      BY <1>1, <1>3, <2>2, <3>2, <3>3, <3>4 DEF RingType, Wrap
    <3>6. (out' + i) % Size # out' /\ (out' + i) % Size \in 0 .. Size - 1
      BY <1>1, <1>3, <1>4, <2>2, <3>2 DEF Wrap
    <3>7. pool[(out' + i) % Size] \in Message
      BY <3>1, <3>5 DEF RingInv
    <3>8. pool' = [pool EXCEPT ![out'] = m] /\ pool \in [0 .. Size - 1 -> Message \cup {NoMsg}]
      BY <1>3 DEF PutUrgent, RingType
    <3> QED
      BY <3>6, <3>7, <3>8
  <2> QED
    BY <1>3, <2>1, <2>2 DEF RingType
<1> QED
  BY <1>2, <1>5, <1>6 DEF RingInv

\* A message that is received leaves the others where they are.
LEMMA GetRing ==
  ASSUME RingType, RingInv, Get
  PROVE  RingType' /\ RingInv'
<1>1. Size \in Nat \ {0}
  BY MailboxAssumption
<1>2. RingType'
  BY <1>1 DEF RingType, Get, After
<1>3. entry \in 1 .. Size /\ entry' = entry - 1 /\ out' = After(out)
  BY <1>1 DEF RingType, Get
<1>4. out' \in 0 .. Size - 1
  BY <1>2 DEF RingType
<1>5. in' = (out' + entry') % Size
  <2>1. in = Wrap(out + entry)
    BY <1>3, Place DEF RingType, RingInv
  <2>2. (out' + (entry - 1)) % Size = Wrap(out' + (entry - 1))
    <3>1. entry - 1 \in 0 .. Size
      BY <1>1, <1>3
    <3> QED
      BY <1>4, <3>1, Place, Zenon
  <2>3. out' = IF out + 1 >= Size THEN 0 ELSE out + 1
    BY <1>3 DEF After
  <2>4. in = (out' + (entry - 1)) % Size
    BY <1>1, <1>3, <2>1, <2>2, <2>3 DEF RingType, Wrap
  <2> QED
    BY <1>3, <2>4 DEF Get
<1>6. ASSUME NEW i \in 0 .. entry' - 1
      PROVE  pool'[(out' + i) % Size] \in Message
  <2>1. i + 1 \in 0 .. entry - 1
    BY <1>3
  <2>2. (out' + i) % Size = (out + (i + 1)) % Size
    <3>1. (out' + i) % Size = Wrap(out' + i)
      <4>1. i \in 0 .. Size
        BY <1>1, <1>3
      <4> QED
        BY <1>4, <4>1, Place, Zenon
    <3>2. (out + (i + 1)) % Size = Wrap(out + (i + 1))
      <4>1. i + 1 \in 0 .. Size /\ out \in 0 .. Size - 1
        BY <1>1, <1>3, <2>1 DEF RingType
      <4> QED
        BY <4>1, Place, Zenon
    <3>3. out' = IF out + 1 >= Size THEN 0 ELSE out + 1
      BY <1>3 DEF After
    <3> QED
      BY <1>1, <1>3, <2>1, <3>1, <3>2, <3>3 DEF RingType, Wrap
  <2> QED
    BY <2>1, <2>2 DEF RingInv, Get
<1> QED
  BY <1>2, <1>5, <1>6 DEF RingInv

\* The invariant holds of a mailbox that rt_mb_init has set up.
LEMMA IndInvInit == Init => IndInv
<1> SUFFICES ASSUME Init PROVE IndInv
  OBVIOUS
<1>1. Size \in Nat \ {0} /\ 0 \in 0 .. Size - 1 /\ 0 \in 0 .. Size
  BY MailboxAssumption
<1>2. LocalsSound
  BY DEF Init, LocalsSound, PCs
<1>3. RingType
  BY <1>1 DEF Init, InitRing, RingType
<1>4. (out + entry) % Size = in
  BY <1>1, FirstPlace DEF Init, InitRing
<1>5. RingInv
  BY <1>1, <1>4 DEF Init, InitRing, RingInv
<1> QED
  BY <1>2, <1>3, <1>5 DEF IndInv

\* Every step of a thread, an interrupt handler or the tick keeps the invariant.
LEMMA IndInvStep == IndInv /\ [Next]_vars => IndInv'
<1> SUFFICES ASSUME IndInv, [Next]_vars PROVE IndInv'
  OBVIOUS
<1>1. LocalsSound'
  BY LocalsInductive DEF IndInv
<1>2. RingStep
  BY StepsTouchRing DEF IndInv
<1>3. CASE \E m \in Message : Put(m) \/ PutUrgent(m)
  BY <1>1, <1>3, PutRing, PutUrgentRing DEF IndInv
<1>4. CASE Get
  BY <1>1, <1>4, GetRing DEF IndInv
<1>5. CASE Clear
  <2>1. Size \in Nat \ {0} /\ 0 \in 0 .. Size - 1 /\ 0 \in 0 .. Size
    BY MailboxAssumption
  <2>2. RingType'
    BY <1>5, <2>1 DEF IndInv, RingType, Clear
  <2>3. (0 + 0) % Size = 0
    BY <2>1, FirstPlace
  <2>4. RingInv'
    BY <1>5, <2>1, <2>3 DEF RingInv, Clear
  <2> QED
    BY <1>1, <2>2, <2>4 DEF IndInv
<1>6. CASE UNCHANGED ring
  BY <1>1, <1>6 DEF IndInv, RingType, RingInv, ring
<1> QED
  BY <1>2, <1>3, <1>4, <1>5, <1>6 DEF RingStep

\* in_offset stays entry places behind out_offset and the words between them
\* are messages, for every size of the mailbox and any number of threads and
\* interrupt handlers that send to it, receive from it and reset it.
THEOREM RingCorrect == Spec => []RingInv
<1>1. IndInv => RingInv
  BY DEF IndInv
<1> QED
  BY <1>1, IndInvInit, IndInvStep, PTL DEF Spec

-----------------------------------------------------------------------------
(***************************************************************************)
(* The mailbox is a bounded queue                                          *)
(***************************************************************************)

\* The messages of a ring with pool p, out_offset o and n entries.
Messages(p, o, n) == [i \in 1 .. n |-> p[(o + i - 1) % Size]]

\* They are a sequence of n messages.
LEMMA MessagesIsSeq ==
  ASSUME NEW p, NEW o \in 0 .. Size - 1, NEW n \in 0 .. Size,
         \A i \in 0 .. n - 1 : p[(o + i) % Size] \in Message
  PROVE  /\ Messages(p, o, n) \in Seq(Message)
         /\ Len(Messages(p, o, n)) = n
         /\ \A i \in 1 .. n : Messages(p, o, n)[i] = p[(o + (i - 1)) % Size]
<1>1. Size \in Nat \ {0} /\ n \in Nat /\ o \in Nat
  BY MailboxAssumption
<1>2. ASSUME NEW i \in 1 .. n
      PROVE  Messages(p, o, n)[i] = p[(o + (i - 1)) % Size]
  <2>1. o + i - 1 = o + (i - 1)
    BY <1>1
  <2> QED
    BY <2>1 DEF Messages
<1>3. ASSUME NEW i \in 1 .. n
      PROVE  Messages(p, o, n)[i] \in Message
  <2>1. i - 1 \in 0 .. n - 1
    BY <1>1
  <2> QED
    BY <1>2, <2>1
<1>4. Messages(p, o, n) \in [1 .. n -> Message]
  BY <1>3 DEF Messages
<1> QED
  BY <1>1, <1>2, <1>4

\* What follows about Contents, before and after a step.
LEMMA ContentsIsSeq ==
  ASSUME RingType, RingInv, RingType', RingInv'
  PROVE  /\ Contents \in Seq(Message) /\ Len(Contents) = entry
         /\ \A i \in 1 .. entry : Contents[i] = pool[(out + (i - 1)) % Size]
         /\ Contents' \in Seq(Message) /\ Len(Contents') = entry'
         /\ \A i \in 1 .. entry' : Contents'[i] = pool'[(out' + (i - 1)) % Size]
<1>1. Contents = Messages(pool, out, entry) /\ Contents' = Messages(pool', out', entry')
  BY DEF Contents, Messages
<1>2. /\ out \in 0 .. Size - 1 /\ entry \in 0 .. Size
      /\ \A i \in 0 .. entry - 1 : pool[(out + i) % Size] \in Message
  BY DEF RingType, RingInv
<1>3. /\ out' \in 0 .. Size - 1 /\ entry' \in 0 .. Size
      /\ \A i \in 0 .. entry' - 1 : pool'[(out' + i) % Size] \in Message
  BY DEF RingType, RingInv
<1>4. /\ Messages(pool, out, entry) \in Seq(Message)
      /\ Len(Messages(pool, out, entry)) = entry
      /\ \A i \in 1 .. entry :
           Messages(pool, out, entry)[i] = pool[(out + (i - 1)) % Size]
  BY <1>2, MessagesIsSeq, Zenon
<1>5. /\ Messages(pool', out', entry') \in Seq(Message)
      /\ Len(Messages(pool', out', entry')) = entry'
      /\ \A i \in 1 .. entry' :
           Messages(pool', out', entry')[i] = pool'[(out' + (i - 1)) % Size]
  BY <1>3, MessagesIsSeq, Zenon
<1> QED
  BY <1>1, <1>4, <1>5, Zenon

\* Putting a message into the ring appends it to the queue.
LEMMA PutRefines ==
  ASSUME RingType, RingInv, NEW m \in Message, Put(m)
  PROVE  Abstract!Send(m)
<1>1. Size \in Nat \ {0}
  BY MailboxAssumption
<1>2. /\ entry \in 0 .. Size - 1 /\ out \in 0 .. Size - 1 /\ in \in 0 .. Size - 1
      /\ entry' = entry + 1 /\ out' = out
  BY <1>1 DEF RingType, Put
<1>3. /\ Contents \in Seq(Message) /\ Len(Contents) = entry
      /\ \A i \in 1 .. entry : Contents[i] = pool[(out + (i - 1)) % Size]
      /\ Contents' \in Seq(Message) /\ Len(Contents') = entry'
      /\ \A i \in 1 .. entry' : Contents'[i] = pool'[(out' + (i - 1)) % Size]
  BY PutRing, ContentsIsSeq
<1>4. ASSUME NEW i \in 1 .. entry
      PROVE  Contents'[i] = Contents[i]
  <2>1. i - 1 \in 0 .. Size /\ i - 1 < entry /\ i \in 1 .. entry'
    BY <1>1, <1>2
  <2>2. (out + (i - 1)) % Size = Wrap(out + (i - 1))
    BY <1>2, <2>1, Place, Zenon
  <2>3. in = Wrap(out + entry)
    BY <1>2, Place DEF RingInv, RingType
  <2>4. (out + (i - 1)) % Size # in /\ (out + (i - 1)) % Size \in 0 .. Size - 1
    BY <1>1, <1>2, <2>1, <2>2, <2>3 DEF Wrap
  <2>5. pool'[(out + (i - 1)) % Size] = pool[(out + (i - 1)) % Size]
    BY <2>4 DEF Put, RingType
  <2>6. Contents'[i] = pool'[(out + (i - 1)) % Size]
    BY <1>2, <1>3, <2>1
  <2> QED
    BY <1>3, <2>5, <2>6
<1>5. Contents'[entry + 1] = m
  <2>1. (entry + 1) - 1 = entry /\ entry + 1 \in 1 .. entry'
    BY <1>2
  <2>2. Contents'[entry + 1] = pool'[(out' + ((entry + 1) - 1)) % Size]
    BY <1>3, <2>1, Zenon
  <2>3. Contents'[entry + 1] = pool'[(out + entry) % Size]
    BY <1>2, <2>1, <2>2, Zenon
  <2> QED
    BY <1>2, <2>3 DEF RingInv, Put, RingType
<1>6. Contents' = Append(Contents, m)
  <2>1. /\ Append(Contents, m) \in Seq(Message)
        /\ Len(Append(Contents, m)) = entry + 1
        /\ \A i \in 1 .. entry : Append(Contents, m)[i] = Contents[i]
        /\ Append(Contents, m)[entry + 1] = m
    BY <1>3, AppendProperties
  <2>2. ASSUME NEW i \in 1 .. Len(Contents')
        PROVE  Contents'[i] = Append(Contents, m)[i]
    BY <1>2, <1>3, <1>4, <1>5, <2>1
  <2>3. Len(Contents') = Len(Append(Contents, m))
    BY <1>2, <1>3, <2>1
  <2> QED
    BY <1>3, <2>1, <2>2, <2>3, SeqEqual
<1> QED
  BY <1>1, <1>2, <1>3, <1>6 DEF Abstract!Send, Put

\* Putting an urgent one into the ring prepends it.
LEMMA PutUrgentRefines ==
  ASSUME RingType, RingInv, NEW m \in Message, PutUrgent(m)
  PROVE  Abstract!SendUrgent(m)
<1>1. Size \in Nat \ {0}
  BY MailboxAssumption
<1>2. /\ entry \in 0 .. Size - 1 /\ out \in 0 .. Size - 1
      /\ entry' = entry + 1 /\ out' = IF out > 0 THEN out - 1 ELSE Size - 1
  BY <1>1 DEF RingType, PutUrgent, Before
<1>3. /\ Contents \in Seq(Message) /\ Len(Contents) = entry
      /\ \A i \in 1 .. entry : Contents[i] = pool[(out + (i - 1)) % Size]
      /\ Contents' \in Seq(Message) /\ Len(Contents') = entry'
      /\ \A i \in 1 .. entry' : Contents'[i] = pool'[(out' + (i - 1)) % Size]
  BY PutUrgentRing, ContentsIsSeq
<1>4. out' \in 0 .. Size - 1 /\ pool' = [pool EXCEPT ![out'] = m]
  BY <1>1, <1>2 DEF PutUrgent, Before
<1>5. Contents'[1] = m
  <2>1. 1 - 1 = 0 /\ 1 \in 1 .. entry'
    BY <1>2
  <2>2. Contents'[1] = pool'[(out' + (1 - 1)) % Size]
    BY <1>3, <2>1, Zenon
  <2>3. (out' + 0) % Size = out'
    BY <1>4, FirstPlace, Zenon
  <2>4. Contents'[1] = pool'[out']
    BY <2>1, <2>2, <2>3, Zenon
  <2> QED
    BY <1>4, <2>4 DEF RingType
<1>6. ASSUME NEW i \in 1 .. entry
      PROVE  Contents'[i + 1] = Contents[i]
  <2>1. i \in 0 .. Size /\ i - 1 \in 0 .. Size /\ i + 1 \in 1 .. entry' /\ (i + 1) - 1 = i
    BY <1>1, <1>2
  <2>2. (out + (i - 1)) % Size = Wrap(out + (i - 1))
    BY <1>2, <2>1, Place, Zenon
  <2>3. (out' + i) % Size = Wrap(out' + i)
    BY <1>4, <2>1, Place, Zenon
  <2>4. /\ Wrap(out' + i) = Wrap(out + (i - 1))
        /\ Wrap(out' + i) # out' /\ Wrap(out' + i) \in 0 .. Size - 1
    BY <1>1, <1>2, <2>1 DEF Wrap
  <2>5. Contents'[i + 1] = pool'[(out' + i) % Size]
    BY <1>3, <2>1, Zenon
  <2>6. Contents[i] = pool[(out + (i - 1)) % Size]
    BY <1>3
  <2>7. pool'[Wrap(out' + i)] = pool[Wrap(out' + i)]
    BY <1>4, <2>4 DEF RingType
  <2> QED
    BY <2>2, <2>3, <2>4, <2>5, <2>6, <2>7, Zenon
<1>7. Contents' = <<m>> \o Contents
  <2>1. <<m>> \in Seq(Message) /\ Len(<<m>>) = 1 /\ <<m>>[1] = m
    OBVIOUS
  <2>2. /\ <<m>> \o Contents \in Seq(Message)
        /\ Len(<<m>> \o Contents) = 1 + entry
        /\ \A i \in 1 .. 1 + entry :
             (<<m>> \o Contents)[i] = IF i <= 1 THEN <<m>>[i] ELSE Contents[i - 1]
    BY <1>3, <2>1, ConcatProperties
  <2>3. Len(Contents') = 1 + entry
    BY <1>2, <1>3
  <2>4. ASSUME NEW i \in 1 .. 1 + entry
        PROVE  Contents'[i] = (<<m>> \o Contents)[i]
    <3>1. CASE i = 1
      <4>1. 1 \in 1 .. 1 + entry /\ 1 <= 1
        BY <1>2
      <4>2. (<<m>> \o Contents)[1] = m
        BY <2>1, <2>2, <4>1
      <4> QED
        BY <1>5, <3>1, <4>2
    <3>2. CASE i # 1
      <4>1. i - 1 \in 1 .. entry /\ (i - 1) + 1 = i /\ ~(i <= 1)
        BY <1>2, <3>2
      <4> QED
        BY <1>6, <2>2, <4>1, Zenon
    <3> QED
      BY <3>1, <3>2
  <2> QED
    BY <1>3, <2>2, <2>3, <2>4, SeqEqual
<1> QED
  BY <1>1, <1>2, <1>3, <1>7 DEF Abstract!SendUrgent, PutUrgent

\* Taking a message out of the ring takes the first one off the queue.
LEMMA GetRefines ==
  ASSUME RingType, RingInv, Get
  PROVE  Abstract!Receive
<1>1. Size \in Nat \ {0}
  BY MailboxAssumption
<1>2. /\ entry \in 1 .. Size /\ out \in 0 .. Size - 1 /\ pool' = pool
      /\ entry' = entry - 1 /\ out' = IF out + 1 >= Size THEN 0 ELSE out + 1
  BY <1>1 DEF RingType, Get, After
<1>3. /\ Contents \in Seq(Message) /\ Len(Contents) = entry
      /\ \A i \in 1 .. entry : Contents[i] = pool[(out + (i - 1)) % Size]
      /\ Contents' \in Seq(Message) /\ Len(Contents') = entry'
      /\ \A i \in 1 .. entry' : Contents'[i] = pool'[(out' + (i - 1)) % Size]
  BY GetRing, ContentsIsSeq
<1>4. Contents # << >> /\ Head(Contents) = Contents[1]
  BY <1>2, <1>3
<1>5. Contents[1] = pool[out]
  <2>1. 1 - 1 = 0 /\ 1 \in 1 .. entry
    BY <1>2
  <2>2. Contents[1] = pool[(out + (1 - 1)) % Size]
    BY <1>3, <2>1, Zenon
  <2>3. (out + 0) % Size = out
    BY <1>2, FirstPlace, Zenon
  <2> QED
    BY <2>1, <2>2, <2>3, Zenon
<1>6. ASSUME NEW i \in 1 .. entry'
      PROVE  Contents'[i] = Contents[i + 1]
  <2>1. /\ i \in 0 .. Size /\ i - 1 \in 0 .. Size /\ i + 1 \in 1 .. entry
        /\ (i + 1) - 1 = i /\ out' \in 0 .. Size - 1
    BY <1>1, <1>2
  <2>2. (out + i) % Size = Wrap(out + i)
    BY <1>2, <2>1, Place, Zenon
  <2>3. (out' + (i - 1)) % Size = Wrap(out' + (i - 1))
    BY <2>1, Place, Zenon
  <2>4. Wrap(out' + (i - 1)) = Wrap(out + i)
    BY <1>1, <1>2, <2>1 DEF Wrap
  <2>5. Contents[i + 1] = pool[(out + i) % Size]
    BY <1>3, <2>1, Zenon
  <2>6. Contents'[i] = pool'[(out' + (i - 1)) % Size]
    BY <1>3
  <2> QED
    BY <1>2, <2>2, <2>3, <2>4, <2>5, <2>6, Zenon
<1>7. Contents' = Tail(Contents)
  <2>1. /\ Tail(Contents) \in Seq(Message) /\ Len(Tail(Contents)) = entry - 1
        /\ \A i \in 1 .. entry - 1 : Tail(Contents)[i] = Contents[i + 1]
    BY <1>3, <1>4, HeadTailProperties
  <2>2. \A i \in 1 .. Len(Contents') : Contents'[i] = Tail(Contents)[i]
    BY <1>2, <1>3, <1>6, <2>1
  <2>3. Len(Contents') = Len(Tail(Contents))
    BY <1>2, <1>3, <2>1
  <2> QED
    BY <1>3, <2>1, <2>2, <2>3, SeqEqual
<1>8. received' = <<Head(Contents)>>
  BY <1>4, <1>5 DEF Get
<1> QED
  BY <1>4, <1>7, <1>8 DEF Abstract!Receive

\* A reset empties the queue.
LEMMA ClearRefines ==
  ASSUME Clear
  PROVE  Abstract!Reset
<1>1. Contents' = << >>
  BY DEF Clear, Contents
<1> QED
  BY <1>1 DEF Abstract!Reset, Clear

\* The mailbox implements the bounded queue: no step of any thread or
\* interrupt handler loses, doubles or reorders a message, whatever the size.
THEOREM Refinement == Spec => IsBoundedQueue
<1>1. Init => Abstract!Init
  <2> SUFFICES ASSUME Init PROVE Abstract!Init
    OBVIOUS
  <2>1. Contents = << >>
    BY DEF Init, InitRing, Contents
  <2> QED
    BY <2>1 DEF Abstract!Init, Init, InitRing
<1>2. IndInv /\ [Next]_vars => [Abstract!Next]_<<Contents, received>>
  <2> SUFFICES ASSUME IndInv, [Next]_vars
               PROVE  [Abstract!Next]_<<Contents, received>>
    OBVIOUS
  <2>1. RingStep
    BY StepsTouchRing DEF IndInv
  <2>2. CASE \E m \in Message : Put(m) \/ PutUrgent(m)
    BY <2>2, PutRefines, PutUrgentRefines DEF IndInv, Abstract!Next
  <2>3. CASE Get
    BY <2>3, GetRefines DEF IndInv, Abstract!Next
  <2>4. CASE Clear
    BY <2>4, ClearRefines DEF Abstract!Next
  <2>5. CASE UNCHANGED ring
    BY <2>5 DEF ring, Contents
  <2> QED
    BY <2>1, <2>2, <2>3, <2>4, <2>5 DEF RingStep
<1> QED
  BY <1>1, <1>2, IndInvInit, IndInvStep, PTL DEF Spec, IsBoundedQueue, Abstract!Spec

-----------------------------------------------------------------------------
(***************************************************************************)
(* The waiters.  A receiver waits for messages and a sender for room; what  *)
(* holds of the one list holds of the other with the words exchanged, so    *)
(* the lemmas are about a list q.                                           *)
(***************************************************************************)

\* Where a thread is that waits in list q, or has waited and has not looked yet.
In(q) == IF q = "receivers" THEN {"recv", "rcvd"} ELSE {"send", "sent"}

\* What the threads of list q wait for, with e messages in the mailbox.
Avail(q, e) == IF q = "receivers" THEN e ELSE Size - e

\* The threads that have been resumed and have not looked yet.
AwakeOf(x, p, q) ==
  {t \in Thread : p[t] \in In(q) /\ t \notin Waiting(x, q) /\ x.err[t] = "EOK"}

\* Whoever sleeps, for everything there is another thread is on its way.
Covered(x, p, e) ==
  \A q \in Queue : Waiting(x, q) # {} => Avail(q, e) <= Cardinality(AwakeOf(x, p, q))

\* The kernel as the mailbox leaves it: a thread waits only in one of the two
\* lists, and the lists are in the order of the flag.
ListsSound(x) ==
  /\ Sane(x)
  /\ \A t \in Suspended(x) : \E q \in Queue : t \in Waiting(x, q)
  /\ Flag = "PRIO" => \A q \in Queue : UrgentFirst(x, q)

\* A thread in a list is in the loop of the call, with no error recorded.
CallsSound(x, p) ==
  /\ \A q \in Queue : \A t \in Waiting(x, q) : p[t] \in In(q) /\ x.err[t] = "EOK"
  /\ x.stat[x.cur] = "SUSPEND" => p[x.cur] \in {"send", "recv"}
  /\ p[Idle] = "run"

WaitInv(x, p, e) == ListsSound(x) /\ CallsSound(x, p) /\ Covered(x, p, e)

LEMMA Lists ==
  /\ Queue = {"receivers", "senders"} /\ Size \in Nat
  /\ In("receivers") = {"recv", "rcvd"} /\ In("senders") = {"send", "sent"}
  /\ \A e : Avail("receivers", e) = e /\ Avail("senders", e) = Size - e
BY MailboxAssumption DEF In, Avail

LEMMA AwakeFinite ==
  ASSUME NEW x, NEW p, NEW q
  PROVE  IsFiniteSet(AwakeOf(x, p, q)) /\ Cardinality(AwakeOf(x, p, q)) \in Nat
<1>1. AwakeOf(x, p, q) \in SUBSET Thread
  BY DEF AwakeOf
<1>2. IsFiniteSet(AwakeOf(x, p, q))
  BY <1>1, IpcAssumption, FS_Subset
<1> QED
  BY <1>2, FS_CardinalityType

\* Nobody who is on its way goes away.
LEMMA CoveredStays ==
  ASSUME NEW x, NEW p, NEW r, NEW p2, NEW q, NEW n \in Int,
         n <= Cardinality(AwakeOf(x, p, q)), AwakeOf(x, p, q) \subseteq AwakeOf(r, p2, q)
  PROVE  n <= Cardinality(AwakeOf(r, p2, q))
<1>1. IsFiniteSet(AwakeOf(r, p2, q)) /\ Cardinality(AwakeOf(r, p2, q)) \in Nat
      /\ Cardinality(AwakeOf(x, p, q)) \in Nat
  BY AwakeFinite
<1>2. AwakeOf(x, p, q) \in SUBSET AwakeOf(r, p2, q)
  OBVIOUS
<1>3. Cardinality(AwakeOf(x, p, q)) <= Cardinality(AwakeOf(r, p2, q))
  BY <1>1, <1>2, FS_Subset
<1> QED
  BY <1>1, <1>3

\* One thread more is on its way, or one that was has taken its share.
LEMMA CoveredMore ==
  ASSUME NEW x, NEW p, NEW r, NEW p2, NEW q, NEW n \in Int,
         n <= Cardinality(AwakeOf(x, p, q)), NEW h, h \notin AwakeOf(x, p, q),
         AwakeOf(r, p2, q) = AwakeOf(x, p, q) \cup {h}
  PROVE  n + 1 <= Cardinality(AwakeOf(r, p2, q))
<1> DEFINE c == Cardinality(AwakeOf(x, p, q))
<1>1. IsFiniteSet(AwakeOf(x, p, q)) /\ c \in Nat
  BY AwakeFinite
<1>2. Cardinality(AwakeOf(r, p2, q)) = c + 1
  BY <1>1, FS_AddElement, ZenonT(40)
<1> HIDE DEF c
<1> QED
  BY <1>1, <1>2 DEF c

LEMMA CoveredLess ==
  ASSUME NEW x, NEW p, NEW r, NEW p2, NEW q, NEW n \in Int,
         n <= Cardinality(AwakeOf(x, p, q)), NEW t,
         AwakeOf(x, p, q) \ {t} \subseteq AwakeOf(r, p2, q)
  PROVE  n - 1 <= Cardinality(AwakeOf(r, p2, q))
<1> DEFINE A == AwakeOf(x, p, q)
           B == AwakeOf(r, p2, q)
<1>1. IsFiniteSet(A) /\ Cardinality(A) \in Nat /\ IsFiniteSet(B) /\ Cardinality(B) \in Nat
  BY AwakeFinite
<1>2. n <= Cardinality(A) /\ A \ {t} \in SUBSET B
  OBVIOUS
<1> HIDE DEF A, B
<1>3. Cardinality(A \ {t}) = IF t \in A THEN Cardinality(A) - 1 ELSE Cardinality(A)
  BY <1>1, FS_RemoveElement
<1>4. Cardinality(A \ {t}) <= Cardinality(B)
  BY <1>1, <1>2, FS_Subset
<1>5. n - 1 <= Cardinality(B)
  BY <1>1, <1>2, <1>3, <1>4
<1> QED
  BY <1>5 DEF B

\* Facts about a state in which the invariant holds.
LEMMA WaitFacts ==
  ASSUME NEW x, NEW p, NEW e, WaitInv(x, p, e)
  PROVE  /\ Sane(x) /\ x.cur \in Thread /\ x.err \in [Thread -> Error]
         /\ \A q \in Queue : /\ x.wait[q] \in Seq(Thread)
                             /\ (x.wait[q] = << >>) <=> (Waiting(x, q) = {})
                             /\ Waiting(x, q) \subseteq Suspended(x)
                             /\ Waiting(x, q) \subseteq Thread
         /\ \A q, r \in Queue : \A t \in Waiting(x, q) : t \in Waiting(x, r) => q = r
<1>1. Sane(x)
  BY DEF WaitInv, ListsSound
<1> QED
  BY <1>1, SaneFields DEF Suspended

\* rt_schedule changes nothing the waiters depend on, and the thread that calls
\* it only moves behind the call.
LEMMA SwitchKeeps ==
  ASSUME NEW x, NEW p, NEW e, WaitInv(x, p, e), NEW r, Sane(r), Switched(x, r), NEW p2,
         \A q \in Queue : \A t \in Thread : p2[t] \in In(q) <=> p[t] \in In(q),
         p2[Idle] = "run"
  PROVE  WaitInv(r, p2, e)
<1>1. /\ r.wait = x.wait /\ r.prio = x.prio /\ r.err = x.err
      /\ Suspended(r) = Suspended(x) /\ r.stat[r.cur] = "RUNNING"
  BY DEF Switched
<1>2. /\ \A q \in Queue : Waiting(r, q) = Waiting(x, q) /\ Waiting(x, q) \subseteq Thread
      /\ \A q \in Queue : UrgentFirst(x, q) => UrgentFirst(r, q)
  BY <1>1, WaitFacts DEF Waiting, UrgentFirst
<1>3. ListsSound(r)
  BY <1>1, <1>2 DEF WaitInv, ListsSound
<1>4. CallsSound(r, p2)
  BY <1>1, <1>2 DEF WaitInv, CallsSound
<1>5. \A q \in Queue : AwakeOf(r, p2, q) = AwakeOf(x, p, q)
  BY <1>1, <1>2 DEF AwakeOf
<1>6. Covered(r, p2, e)
  BY <1>2, <1>5 DEF WaitInv, Covered
<1> QED
  BY <1>3, <1>4, <1>6 DEF WaitInv

\* Thread t is through with its call, and what it took or brought changes the
\* number of messages from e to e2; q is the list of those who gain by it.
Passes(x, p, e, e2, q, t) ==
  /\ WaitInv(x, p, e) /\ p \in [Thread -> PCs]
  /\ e \in 0 .. Size /\ e2 \in 0 .. Size
  /\ q \in Queue /\ Avail(q, e2) = Avail(q, e) + 1
  /\ \A o \in Queue \ {q} : Avail(o, e2) = Avail(o, e) - 1
  /\ t \in Thread /\ x.stat[t] # "SUSPEND" /\ p[t] \notin In(q)

\* `resume suspended thread' of list q, if there is one.
WakeOne(x, q) == IF x.wait[q] # << >> THEN IpcResume(x, q) ELSE x

\* The first thread of a list is resumed; nobody else is touched.
LEMMA WakeOneSane ==
  ASSUME NEW x, Sane(x), NEW q \in Queue, x.wait[q] # << >>
  PROVE  LET h == Head(x.wait[q])
             r == WakeOne(x, q)
         IN  /\ h \in Waiting(x, q) /\ h \in Suspended(x)
             /\ Sane(r) /\ Roused(x, r, {h}) /\ r.err = x.err
             /\ \A z \in Queue : UrgentFirst(x, z) => UrgentFirst(r, z)
<1> DEFINE h == Head(x.wait[q])
           r == WakeOne(x, q)
<1>1. x.wait[q] \in Seq(Thread) /\ Waiting(x, q) \subseteq Suspended(x)
  BY SaneFields
<1>2. h \in Waiting(x, q)
  BY <1>1, HeadInList DEF Waiting
<1>3. h \in Suspended(x) /\ h \in Thread
  BY <1>1, <1>2 DEF Suspended
<1>4. r = ResumeThread(x, h)
  BY DEF WakeOne, IpcResume
<1> HIDE DEF h, r
<1>5. Sane(r) /\ Roused(x, r, {h}) /\ r.err = x.err
  BY <1>3, <1>4, ResumeSane
<1>6. \A z \in Queue : UrgentFirst(x, z) => UrgentFirst(r, z)
  <2>1. ListType(x)
    BY DEF Sane, KernelSound
  <2> QED
    BY <1>3, <1>4, <2>1, ResumeOrder
<1> QED
  BY <1>2, <1>3, <1>5, <1>6 DEF h, r

\* A successful call: the one it frees a message or a place for is woken, and
\* the caller is no longer one of those who are on their way.
LEMMA PassKeeps ==
  ASSUME NEW x, NEW p, NEW e, NEW e2, NEW q, NEW t, Passes(x, p, e, e2, q, t),
         NEW v \in {"run", "sched"}, t = Idle => v = "run"
  PROVE  WaitInv(WakeOne(x, q), [p EXCEPT ![t] = v], e2)
<1> DEFINE r == WakeOne(x, q)
           p2 == [p EXCEPT ![t] = v]
<1>1. /\ WaitInv(x, p, e) /\ p \in [Thread -> PCs] /\ q \in Queue /\ t \in Thread
      /\ x.stat[t] # "SUSPEND" /\ p[t] \notin In(q) /\ t \notin Suspended(x)
      /\ \A z \in Queue : Avail(z, e) \in Int /\ t \notin Waiting(x, z) /\ v \notin In(z)
  BY Lists, WaitFacts DEF Passes, Suspended, In, Avail
<1>2. /\ p2[t] = v /\ \A u \in Thread \ {t} : p2[u] = p[u]
      /\ p2[Idle] = "run"
  BY <1>1, KernelAssumption DEF WaitInv, CallsSound
<1> DEFINE W == IF x.wait[q] # << >> THEN {Head(x.wait[q])} ELSE {}
<1>3. /\ Sane(r) /\ r.err = x.err /\ r.cur = x.cur
      /\ Suspended(r) = Suspended(x) \ W /\ \A z \in Queue : Waiting(r, z) = Waiting(x, z) \ W
      /\ r.stat[r.cur] = "SUSPEND" => x.stat[x.cur] = "SUSPEND"
      /\ \A z \in Queue : UrgentFirst(x, z) => UrgentFirst(r, z)
  <2>1. CASE x.wait[q] = << >>
    <3>1. r = x /\ W = {}
      BY <2>1 DEF WakeOne
    <3> QED
      BY <1>1, <3>1, WaitFacts
  <2>2. CASE x.wait[q] # << >>
    <3>1. /\ Sane(r) /\ Roused(x, r, W) /\ r.err = x.err
          /\ \A z \in Queue : UrgentFirst(x, z) => UrgentFirst(r, z)
      BY <1>1, <2>2, WakeOneSane, WaitFacts
    <3> QED
      BY <3>1 DEF Roused
  <2> QED
    BY <2>1, <2>2
<1>4. /\ W \subseteq Waiting(x, q) /\ (W = {} => Waiting(x, q) = {})
      /\ \A h, g \in W : h = g
  <2>1. CASE x.wait[q] = << >>
    BY <1>1, <2>1, WaitFacts
  <2>2. CASE x.wait[q] # << >>
    <3>1. Head(x.wait[q]) \in Waiting(x, q)
      BY <1>1, <2>2, WakeOneSane, WaitFacts
    <3> QED
      BY <2>2, <3>1
  <2> QED
    BY <2>1, <2>2
<1> HIDE DEF r, p2, W
<1>5. \A z \in Queue \ {q} : Waiting(r, z) = Waiting(x, z)
  <2>1. \A z \in Queue \ {q} : \A u \in W : u \notin Waiting(x, z)
    BY <1>1, <1>4, WaitFacts
  <2> QED
    BY ONLY <1>3, <2>1
<1>6. ListsSound(r)
  BY <1>1, <1>3, <1>4, <1>5 DEF WaitInv, ListsSound
<1>7. CallsSound(r, p2)
  <2>1. ASSUME NEW z \in Queue, NEW u \in Waiting(r, z)
        PROVE  p2[u] \in In(z) /\ r.err[u] = "EOK"
    <3>1. u \in Waiting(x, z) /\ u # t /\ u \in Thread
      BY <1>1, <1>3, <2>1, WaitFacts
    <3> QED
      BY <1>1, <1>2, <1>3, <3>1 DEF WaitInv, CallsSound
  <2>2. r.stat[r.cur] = "SUSPEND" => p2[r.cur] \in {"send", "recv"}
    <3> SUFFICES ASSUME r.stat[r.cur] = "SUSPEND"
                 PROVE  p2[r.cur] \in {"send", "recv"}
      OBVIOUS
    <3>1. x.stat[x.cur] = "SUSPEND" /\ x.cur # t /\ x.cur \in Thread
      BY <1>1, <1>3, WaitFacts
    <3> QED
      BY <1>1, <1>2, <1>3, <3>1 DEF WaitInv, CallsSound
  <2> QED
    BY <1>2, <2>1, <2>2 DEF CallsSound
<1>8. ASSUME NEW z \in Queue, Waiting(r, z) # {}
      PROVE  Avail(z, e2) <= Cardinality(AwakeOf(r, p2, z))
  <2>1. Waiting(x, z) # {}
    BY <1>3, <1>8
  <2>2. Avail(z, e) <= Cardinality(AwakeOf(x, p, z))
    BY <1>1, <2>1 DEF WaitInv, Covered
  <2>3. CASE z = q
    <3>1. PICK h : W = {h}
      BY <1>4, <2>1, <2>3
    <3>2. h \in Waiting(x, q) /\ h \in Thread /\ h # t /\ p[h] \in In(q) /\ x.err[h] = "EOK"
      BY <1>1, <1>4, <3>1, WaitFacts DEF WaitInv, CallsSound
    <3>3. h \notin AwakeOf(x, p, q)
      BY <3>2 DEF AwakeOf
    <3>4. AwakeOf(r, p2, q) = AwakeOf(x, p, q) \cup {h}
      BY <1>1, <1>2, <1>3, <3>1, <3>2 DEF AwakeOf
    <3>5. Avail(q, e) + 1 <= Cardinality(AwakeOf(r, p2, q))
      BY <1>1, <2>2, <2>3, <3>3, <3>4, CoveredMore
    <3> QED
      BY <2>3, <3>5 DEF Passes
  <2>4. CASE z # q
    <3>1. AwakeOf(x, p, z) \ {t} \subseteq AwakeOf(r, p2, z)
      BY <1>2, <1>3, <1>5, <2>4 DEF AwakeOf
    <3>2. Avail(z, e) - 1 <= Cardinality(AwakeOf(r, p2, z))
      BY <1>1, <2>2, <3>1, CoveredLess
    <3> QED
      BY <2>4, <3>2 DEF Passes
  <2> QED
    BY <2>3, <2>4
<1>9. Covered(r, p2, e2)
  BY <1>8 DEF Covered
<1> QED
  BY <1>6, <1>7, <1>9 DEF WaitInv, r, p2

\* What a call that fails leaves of the kernel: rt_mb_recv may record the error.
Failed(x) == {x, [x EXCEPT !.err[x.cur] = "ETIMEOUT"]}

\* A call returns with an error: whoever was on its way goes away only when
\* there is nothing left for it to take.
LEMMA LeaveKeeps ==
  ASSUME NEW x, NEW p, NEW e, WaitInv(x, p, e), p \in [Thread -> PCs],
         x.stat[x.cur] = "RUNNING", NEW r \in Failed(x),
         \A q \in Queue : x.cur \in AwakeOf(x, p, q) => Avail(q, e) = 0,
         x.cur # Idle
  PROVE  WaitInv(r, [p EXCEPT ![x.cur] = "run"], e)
<1> DEFINE t == x.cur
           p2 == [p EXCEPT ![t] = "run"]
<1>1. /\ Sane(x) /\ t \in Thread /\ t \notin Suspended(x) /\ x.err \in [Thread -> Error]
      /\ \A q \in Queue : t \notin Waiting(x, q) /\ Waiting(x, q) \subseteq Thread
  BY WaitFacts DEF Suspended
<1>2. /\ Sane(r) /\ r.cur = x.cur /\ r.wait = x.wait /\ r.stat = x.stat
      /\ r.prio = x.prio /\ Suspended(r) = Suspended(x)
      /\ \A u \in Thread \ {t} : r.err[u] = x.err[u]
  <2>1. CASE r = x
    BY <1>1, <2>1
  <2>2. CASE r = [x EXCEPT !.err[t] = "ETIMEOUT"]
    <3>1. /\ Sane(r) /\ r.cur = x.cur /\ r.wait = x.wait /\ r.stat = x.stat
          /\ r.prio = x.prio /\ Suspended(r) = Suspended(x)
          /\ r.err = [x.err EXCEPT ![t] = "ETIMEOUT"]
      BY <1>1, <2>2, ErrorSane, ZenonT(40) DEF Error
    <3> QED
      BY <1>1, <3>1
  <2> QED
    BY <2>1, <2>2 DEF Failed
<1>3. /\ p2[t] = "run" /\ \A u \in Thread \ {t} : p2[u] = p[u]
      /\ p2[Idle] = "run" /\ \A q \in Queue : p2[t] \notin In(q)
  BY <1>1, KernelAssumption DEF WaitInv, CallsSound, In
<1> HIDE DEF p2
<1>4. /\ \A q \in Queue : Waiting(r, q) = Waiting(x, q)
      /\ \A q \in Queue : UrgentFirst(x, q) => UrgentFirst(r, q)
  BY <1>2 DEF Waiting, UrgentFirst
<1>5. ListsSound(r)
  BY <1>2, <1>4 DEF WaitInv, ListsSound
<1>6. CallsSound(r, p2)
  <2>1. ASSUME NEW z \in Queue, NEW u \in Waiting(r, z)
        PROVE  p2[u] \in In(z) /\ r.err[u] = "EOK"
    <3>1. u \in Waiting(x, z) /\ u # t /\ u \in Thread
      BY <1>1, <1>4, <2>1
    <3> QED
      BY <1>2, <1>3, <3>1 DEF WaitInv, CallsSound
  <2> QED
    BY <1>2, <1>3, <2>1 DEF CallsSound
<1>7. ASSUME NEW z \in Queue, Waiting(r, z) # {}
      PROVE  Avail(z, e) <= Cardinality(AwakeOf(r, p2, z))
  <2>1. Avail(z, e) <= Cardinality(AwakeOf(x, p, z))
    BY <1>4, <1>7 DEF WaitInv, Covered
  <2>2. CASE t \notin AwakeOf(x, p, z)
    <3>1. AwakeOf(x, p, z) = AwakeOf(r, p2, z)
      BY <1>2, <1>3, <1>4, <2>2 DEF AwakeOf
    <3> QED
      BY <2>1, <3>1
  <2>3. CASE t \in AwakeOf(x, p, z)
    <3>1. Avail(z, e) = 0 /\ Cardinality(AwakeOf(r, p2, z)) \in Nat
      BY <2>3, AwakeFinite
    <3> QED
      BY <3>1
  <2> QED
    BY <2>2, <2>3
<1> QED
  BY <1>5, <1>6, <1>7 DEF WaitInv, Covered, p2

\* Where _ipc_list_suspend puts a thread.
LEMMA WaitPositionIs ==
  ASSUME NEW x, Sane(x), NEW q \in Queue, NEW t \in Thread, Flag = "PRIO" => UrgentFirst(x, q)
  PROVE  LET n == WaitPosition(x, x.wait[q], t)
         IN  /\ n \in 1 .. Len(x.wait[q]) + 1
             /\ Flag = "PRIO" => InOrder(InsertAt(x.wait[q], n, t), x.prio)
<1> DEFINE list == x.wait[q]
           n == WaitPosition(x, list, t)
<1>1. list \in Seq(Thread) /\ x.prio \in [Thread -> Prio]
  BY SaneFields
<1>2. /\ Len(list) \in Nat /\ DOMAIN list = 1 .. Len(list) /\ x.prio \in [Thread -> Int]
      /\ \A i \in 1 .. Len(list) : list[i] \in Thread /\ x.prio[list[i]] \in Int
      /\ x.prio[t] \in Int
  BY <1>1, KernelAssumption DEF Prio
<1>3. Flag = "PRIO" => InOrder(list, x.prio)
  BY DEF UrgentFirst
<1> HIDE DEF list
<1>4. CASE Flag = "FIFO"
  <2>1. n = Len(list) + 1
    BY <1>4 DEF WaitPosition
  <2> HIDE DEF n
  <2> QED
    BY <1>2, <1>4, <2>1 DEF n, list
<1>5. CASE Flag = "PRIO"
  <2>1. n = UrgentPlace(list, x.prio, t)
    BY <1>5 DEF WaitPosition, UrgentPlace
  <2> HIDE DEF n
  <2>2. /\ n \in 1 .. Len(list) + 1
        /\ \A i \in 1 .. Len(list) : i < n => x.prio[list[i]] <= x.prio[t]
        /\ n \in 1 .. Len(list) => x.prio[t] < x.prio[list[n]]
    BY <1>1, <2>1, UrgentPlaceIs
  <2>3. ASSUME NEW i \in 1 .. Len(list), n <= i
        PROVE  x.prio[t] <= x.prio[list[i]]
    <3>1. n \in 1 .. Len(list)
      BY <1>2, <2>2, <2>3
    <3>2. x.prio[list[n]] <= x.prio[list[i]]
      BY <1>2, <1>3, <1>5, <2>3, <3>1 DEF InOrder
    <3> QED
      BY <1>2, <2>2, <3>1, <3>2
  <2>4. InOrder(InsertAt(list, n, t), x.prio)
    BY <1>1, <1>2, <1>3, <1>5, <2>2, <2>3, InsertAtOrder
  <2> QED
    BY <2>2, <2>4 DEF n, list
<1> QED
  BY <1>4, <1>5, IpcAssumption

\* The current thread finds nothing and goes into the list.
LEMMA SuspendKeeps ==
  ASSUME NEW x, NEW p, NEW e, WaitInv(x, p, e), p \in [Thread -> PCs],
         x.stat[x.cur] = "RUNNING", x.cur # Idle, NEW q \in Queue, Avail(q, e) = 0,
         \A o \in Queue \ {q} : p[x.cur] \notin In(o), NEW timed \in BOOLEAN
  PROVE  WaitInv(IpcSuspend(x, q, x.cur, timed),
                 [p EXCEPT ![x.cur] = IF q = "receivers" THEN "recv" ELSE "send"], e)
<1> DEFINE t == x.cur
           v == IF q = "receivers" THEN "recv" ELSE "send"
           p2 == [p EXCEPT ![t] = v]
           n == WaitPosition(x, x.wait[q], t)
           r == QueueAt(x, q, t, n, timed)
<1>1. /\ Sane(x) /\ t \in Thread /\ t \notin Suspended(x) /\ x.err \in [Thread -> Error]
      /\ \A z \in Queue : t \notin Waiting(x, z) /\ Waiting(x, z) \subseteq Thread
      /\ x.wait \in [Queue -> Seq(Thread)]
  BY WaitFacts, SaneFields DEF Suspended
<1>2. /\ n \in 1 .. Len(x.wait[q]) + 1
      /\ Flag = "PRIO" => InOrder(InsertAt(x.wait[q], n, t), x.prio)
  BY <1>1, WaitPositionIs DEF WaitInv, ListsSound
<1>3. SuspendFor(x, t).wait = x.wait /\ Sane(r) /\ QueuedAt(x, r, q, n)
  <2> HIDE DEF n
  <2> QED
    BY <1>1, <1>2, QueueSane
<1>4. IpcSuspend(x, q, t, timed) = r
  BY <1>3 DEF IpcSuspend, QueueAt, Enqueue, SuspendFor
<1> HIDE DEF r, n
<1>5. /\ r.cur = x.cur /\ r.prio = x.prio /\ r.stat[r.cur] = "SUSPEND"
      /\ Suspended(r) = Suspended(x) \cup {t}
      /\ r.err = [x.err EXCEPT ![t] = "EOK"]
      /\ r.wait = [x.wait EXCEPT ![q] = InsertAt(x.wait[q], n, t)]
      /\ Waiting(r, q) = Waiting(x, q) \cup {t}
      /\ \A o \in Queue \ {q} : Waiting(r, o) = Waiting(x, o)
  BY <1>3 DEF QueuedAt
<1>6. r.err[t] = "EOK" /\ \A u \in Thread \ {t} : r.err[u] = x.err[u]
  BY <1>1, <1>5
<1>7. /\ p2[t] = v /\ (\A u \in Thread \ {t} : p2[u] = p[u]) /\ p2[Idle] = "run"
      /\ v \in In(q) /\ v \in {"send", "recv"} /\ \A o \in Queue \ {q} : v \notin In(o)
  BY <1>1, KernelAssumption, Lists DEF WaitInv, CallsSound
<1> HIDE DEF p2, v
<1>8. ListsSound(r)
  <2>1. Flag = "PRIO" => \A z \in Queue : UrgentFirst(r, z)
    BY <1>1, <1>2, <1>5 DEF UrgentFirst, WaitInv, ListsSound
  <2>2. \A u \in Suspended(r) : \E z \in Queue : u \in Waiting(r, z)
    BY <1>5 DEF WaitInv, ListsSound
  <2> QED
    BY <1>3, <2>1, <2>2 DEF ListsSound
<1>9. CallsSound(r, p2)
  <2>1. ASSUME NEW z \in Queue, NEW u \in Waiting(r, z)
        PROVE  p2[u] \in In(z) /\ r.err[u] = "EOK"
    <3>1. CASE u = t
      BY <1>1, <1>5, <1>6, <1>7, <2>1, <3>1
    <3>2. CASE u # t
      <4>1. u \in Waiting(x, z) /\ u \in Thread
        BY <1>1, <1>5, <2>1, <3>2
      <4> QED
        BY <1>6, <1>7, <3>2, <4>1 DEF WaitInv, CallsSound
    <3> QED
      BY <3>1, <3>2
  <2> QED
    BY <1>5, <1>7, <2>1 DEF CallsSound
<1>10. ASSUME NEW z \in Queue, Waiting(r, z) # {}
       PROVE  Avail(z, e) <= Cardinality(AwakeOf(r, p2, z))
  <2>1. CASE z = q
    <3>1. Avail(z, e) = 0 /\ Cardinality(AwakeOf(r, p2, z)) \in Nat
      BY <2>1, AwakeFinite
    <3> QED
      BY <3>1
  <2>2. CASE z # q
    <3>1. AwakeOf(r, p2, z) = AwakeOf(x, p, z)
      BY <1>5, <1>6, <1>7, <2>2 DEF AwakeOf
    <3> QED
      BY <1>5, <1>10, <2>2, <3>1 DEF WaitInv, Covered
  <2> QED
    BY <2>1, <2>2
<1> QED
  BY <1>4, <1>8, <1>9, <1>10 DEF WaitInv, Covered, p2, v

\* The timeout of a waiting call.
LEMMA TimeoutKeeps ==
  ASSUME NEW x, NEW p, NEW e \in 0 .. Size, WaitInv(x, p, e), NEW t \in x.tmr
  PROVE  WaitInv(ThreadTimeout(x, t), p, e)
<1> DEFINE r == ThreadTimeout(x, t)
<1>1. /\ Sane(x) /\ x.err \in [Thread -> Error] /\ x.wait \in [Queue -> Seq(Thread)]
      /\ \A z \in Queue : Waiting(x, z) \subseteq Thread /\ x.wait[z] \in Seq(Thread)
      /\ x.prio \in [Thread -> Int]
  BY WaitFacts, SaneFields, KernelAssumption DEF Prio
<1>2. /\ Sane(r) /\ r.stat[r.cur] = "RUNNING"
      /\ t \in Suspended(x) /\ Suspended(r) = Suspended(x) \ {t}
      /\ r.prio = x.prio
      /\ r.err = [x.err EXCEPT ![t] = "ETIMEOUT"]
      /\ r.wait = [q \in Queue |-> RemoveFirst(x.wait[q], t)]
      /\ \A q \in Queue : Waiting(r, q) = Waiting(x, q) \ {t}
  BY <1>1, TimeoutSane, ZenonT(40)
<1> HIDE DEF r
<1>3. t \in Thread /\ r.err[t] = "ETIMEOUT" /\ \A u \in Thread \ {t} : r.err[u] = x.err[u]
  BY <1>1, <1>2 DEF Suspended
<1>4. PICK q \in Queue : t \in Waiting(x, q)
  BY <1>2 DEF WaitInv, ListsSound
<1>5. Flag = "PRIO" => \A z \in Queue : UrgentFirst(r, z)
  <2> SUFFICES ASSUME Flag = "PRIO", NEW z \in Queue
               PROVE  UrgentFirst(r, z)
    OBVIOUS
  <2>1. InOrder(x.wait[z], x.prio) /\ r.wait[z] = RemoveFirst(x.wait[z], t)
    BY <1>2 DEF WaitInv, ListsSound, UrgentFirst
  <2>2. InOrder(RemoveFirst(x.wait[z], t), x.prio)
    BY <1>1, <1>3, <2>1, RemoveFirstOrder
  <2> QED
    BY <1>2, <2>1, <2>2 DEF UrgentFirst
<1>6. ListsSound(r)
  BY <1>2, <1>5 DEF WaitInv, ListsSound
<1>7. CallsSound(r, p)
  BY <1>1, <1>2, <1>3 DEF WaitInv, CallsSound
<1>8. \A z \in Queue : AwakeOf(x, p, z) \subseteq AwakeOf(r, p, z)
  <2> SUFFICES ASSUME NEW z \in Queue, NEW u \in AwakeOf(x, p, z)
               PROVE  u \in AwakeOf(r, p, z)
    OBVIOUS
  <2>1. u \in Thread /\ p[u] \in In(z) /\ u \notin Waiting(x, z) /\ x.err[u] = "EOK"
    BY DEF AwakeOf
  <2>2. u # t
    <3>1. p[t] \in In(q)
      BY <1>4 DEF WaitInv, CallsSound
    <3> QED
      BY <1>4, <2>1, <3>1, Lists
  <2> QED
    BY <1>2, <1>3, <2>1, <2>2 DEF AwakeOf
<1>9. ASSUME NEW z \in Queue, Waiting(r, z) # {}
      PROVE  Avail(z, e) <= Cardinality(AwakeOf(r, p, z))
  <2>1. Avail(z, e) <= Cardinality(AwakeOf(x, p, z))
    BY <1>2, <1>9 DEF WaitInv, Covered
  <2>2. Avail(z, e) \in Int
    BY Lists
  <2> QED
    BY <1>8, <2>1, <2>2, CoveredStays
<1> QED
  BY <1>6, <1>7, <1>9 DEF WaitInv, Covered, r

\* _ipc_list_resume_all of one list.
LEMMA ResumeAllSane ==
  ASSUME NEW x, Sane(x), NEW q \in Queue
  PROVE  LET r == IpcResumeAll(x, q)
         IN  /\ Sane(r) /\ Roused(x, r, Waiting(x, q))
             /\ \A t \in Waiting(x, q) : r.err[t] = "ERROR"
             /\ \A t \in Thread \ Waiting(x, q) : r.err[t] = x.err[t]
             /\ \A z \in Queue : UrgentFirst(x, z) => UrgentFirst(r, z)
<1> DEFINE n == Len(x.wait[q])
           f == CHOOSE f : f = [i \in 0 .. n |-> IF i = 0 THEN x ELSE WakeFirst(f[i - 1], q)]
<1>1. n \in Nat
  BY SaneFields
<1>2. IpcResumeAll(x, q) = f[n]
  BY DEF IpcResumeAll, IpcResumeError, WakeFirst
<1>3. Rounds(f, x, q, n)
  BY <1>1, RoundsExist DEF Rounds
<1> HIDE DEF f
<1> QED
  BY <1>2, <1>3, WakeAllSane

\* rt_mb_control(RT_IPC_CMD_RESET): nobody waits any more.
LEMMA ResetKeeps ==
  ASSUME NEW x, NEW p, NEW e, WaitInv(x, p, e), p \in [Thread -> PCs],
         p[x.cur] = "run", x.cur # Idle
  PROVE  WaitInv(IpcResumeAll(IpcResumeAll(x, "receivers"), "senders"),
                 [p EXCEPT ![x.cur] = "sched"], 0)
<1> DEFINE y == IpcResumeAll(x, "receivers")
           r == IpcResumeAll(y, "senders")
           p2 == [p EXCEPT ![x.cur] = "sched"]
<1>1. /\ Sane(x) /\ x.cur \in Thread /\ "receivers" \in Queue /\ "senders" \in Queue
      /\ Queue = {"receivers", "senders"}
  BY Lists, WaitFacts
<1>2. /\ Sane(y) /\ Roused(x, y, Waiting(x, "receivers"))
      /\ \A z \in Queue : UrgentFirst(x, z) => UrgentFirst(y, z)
  BY <1>1, ResumeAllSane
<1> HIDE DEF y
<1>3. /\ Sane(r) /\ Roused(y, r, Waiting(y, "senders"))
      /\ \A z \in Queue : UrgentFirst(y, z) => UrgentFirst(r, z)
  BY <1>1, <1>2, ResumeAllSane
<1> HIDE DEF r
<1>4. /\ \A z \in Queue : Waiting(r, z) = {} 
      /\ r.cur = x.cur /\ (r.stat[r.cur] = "SUSPEND" => x.stat[x.cur] = "SUSPEND")
  BY <1>1, <1>2, <1>3 DEF Roused
<1>5. Suspended(r) = {}
  <2>1. Suspended(r) = (Suspended(x) \ Waiting(x, "receivers")) \ Waiting(y, "senders")
    BY <1>2, <1>3 DEF Roused
  <2>2. Waiting(y, "senders") = Waiting(x, "senders") \ Waiting(x, "receivers")
    BY <1>1, <1>2 DEF Roused
  <2> QED
    BY <1>1, <2>1, <2>2 DEF WaitInv, ListsSound
<1>6. ListsSound(r)
  BY <1>2, <1>3, <1>5 DEF WaitInv, ListsSound
<1>7. CallsSound(r, p2)
  <2>1. p2[Idle] = "run"
    BY KernelAssumption DEF WaitInv, CallsSound
  <2>2. x.stat[x.cur] # "SUSPEND"
    BY DEF WaitInv, CallsSound
  <2> QED
    BY <1>4, <2>1, <2>2 DEF CallsSound
<1>8. Covered(r, p2, 0)
  BY <1>4 DEF Covered
<1> QED
  BY <1>6, <1>7, <1>8 DEF WaitInv, r, y, p2

-----------------------------------------------------------------------------
(***************************************************************************)
(* The actions.                                                            *)
(***************************************************************************)

\* What a step may rely on.
Waiters == IndInv /\ WaitInv(k, pc, entry)

\* The thread that makes a call has the processor.
LEMMA CallerRuns ==
  ASSUME Waiters
  PROVE  /\ Sane(k) /\ k.cur \in Thread /\ pc \in [Thread -> PCs] /\ entry \in 0 .. Size
         /\ pc[Idle] = "run"
         /\ pc[k.cur] \notin {"send", "recv"} => k.stat[k.cur] = "RUNNING"
  BY WaitFacts, SaneFields DEF Waiters, IndInv, LocalsSound, RingType, WaitInv, CallsSound

\* A call ends well.
LEMMA DoneKeeps ==
  ASSUME Waiters, NEW q, NEW t, Done(t, q), t # Idle, Passes(k, pc, entry, entry', q, t)
  PROVE  WaitInv(k', pc', entry')
<1>1. /\ k' = WakeOne(k, q)
      /\ pc' = [pc EXCEPT ![t] = IF k.wait[q] # <<>> THEN "sched" ELSE "run"]
  BY DEF Done, Wake, WakeOne, Goto
<1> QED
  BY <1>1, PassKeeps

\* A message is put into the ring, or taken out of it: who gains by it.
LEMMA PutPasses ==
  ASSUME Waiters, NEW t \in Thread, k.stat[t] # "SUSPEND", pc[t] \notin {"recv", "rcvd"},
         entry # Size, entry' = entry + 1
  PROVE  Passes(k, pc, entry, entry', "receivers", t)
  BY Lists DEF Passes, Waiters, IndInv, LocalsSound, RingType

LEMMA GetPasses ==
  ASSUME Waiters, NEW t \in Thread, k.stat[t] # "SUSPEND", pc[t] \notin {"send", "sent"},
         entry # 0, entry' = entry - 1
  PROVE  Passes(k, pc, entry, entry', "senders", t)
  BY Lists DEF Passes, Waiters, IndInv, LocalsSound, RingType

LEMMA SendLoopKeeps ==
  ASSUME Waiters, NEW t \in Thread, t = k.cur, t # Idle, pc[t] \in {"run", "sent"},
         NEW m, NEW w, SendLoop(t, m, w)
  PROVE  WaitInv(k', pc', entry')
<1>1. /\ Sane(k) /\ pc \in [Thread -> PCs] /\ entry \in 0 .. Size
      /\ k.stat[k.cur] = "RUNNING" /\ WaitInv(k, pc, entry)
  BY CallerRuns DEF Waiters
<1>2. CASE entry = Size /\ w = "now" /\ Goto(t, "run") /\ UNCHANGED <<k, ring>>
  <2>1. k' \in Failed(k) /\ pc' = [pc EXCEPT ![k.cur] = "run"] /\ entry' = entry
    BY <1>2 DEF Goto, ring, Failed
  <2>2. \A q \in Queue : k.cur \in AwakeOf(k, pc, q) => Avail(q, entry) = 0
    BY <1>2, Lists DEF AwakeOf
  <2> QED
    BY <1>1, <2>1, <2>2, LeaveKeeps
<1>3. CASE /\ entry = Size
           /\ k' = IpcSuspend(k, "senders", t, w = "timed") /\ Goto(t, "send")
           /\ UNCHANGED ring
  <2>1. /\ k' = IpcSuspend(k, "senders", k.cur, w = "timed") /\ entry' = entry
        /\ pc' = [pc EXCEPT ![k.cur] = IF "senders" = "receivers" THEN "recv" ELSE "send"]
    BY <1>3 DEF Goto, ring
  <2>2. /\ "senders" \in Queue /\ Avail("senders", entry) = 0
        /\ \A o \in Queue \ {"senders"} : pc[k.cur] \notin In(o)
    BY <1>3, Lists
  <2> QED
    BY <1>1, <2>1, <2>2, SuspendKeeps
<1>4. CASE Put(m) /\ Done(t, "receivers")
  <2>1. Passes(k, pc, entry, entry', "receivers", t)
    BY <1>1, <1>4, PutPasses DEF Put
  <2> QED
    BY <1>4, <2>1, DoneKeeps
<1> QED
  BY <1>2, <1>3, <1>4 DEF SendLoop

LEMMA RecvLoopKeeps ==
  ASSUME Waiters, NEW t \in Thread, t = k.cur, t # Idle, pc[t] \in {"run", "rcvd"},
         NEW w, RecvLoop(t, w)
  PROVE  WaitInv(k', pc', entry')
<1>1. /\ Sane(k) /\ pc \in [Thread -> PCs] /\ entry \in 0 .. Size
      /\ k.stat[k.cur] = "RUNNING" /\ WaitInv(k, pc, entry)
  BY CallerRuns DEF Waiters
<1>2. CASE /\ entry = 0 /\ w = "now" /\ Goto(t, "run") /\ UNCHANGED ring
           /\ k' = IF pc[t] = "run" THEN k ELSE [k EXCEPT !.err[t] = "ETIMEOUT"]
  <2>1. k' \in Failed(k) /\ pc' = [pc EXCEPT ![k.cur] = "run"] /\ entry' = entry
    BY <1>2 DEF Goto, ring, Failed
  <2>2. \A q \in Queue : k.cur \in AwakeOf(k, pc, q) => Avail(q, entry) = 0
    BY <1>2, Lists DEF AwakeOf
  <2> QED
    BY <1>1, <2>1, <2>2, LeaveKeeps
<1>3. CASE /\ entry = 0
           /\ k' = IpcSuspend(k, "receivers", t, w = "timed") /\ Goto(t, "recv")
           /\ UNCHANGED ring
  <2>1. /\ k' = IpcSuspend(k, "receivers", k.cur, w = "timed") /\ entry' = entry
        /\ pc' = [pc EXCEPT ![k.cur] = IF "receivers" = "receivers" THEN "recv" ELSE "send"]
    BY <1>3 DEF Goto, ring
  <2>2. /\ "receivers" \in Queue /\ Avail("receivers", entry) = 0
        /\ \A o \in Queue \ {"receivers"} : pc[k.cur] \notin In(o)
    BY <1>3, Lists
  <2> QED
    BY <1>1, <2>1, <2>2, SuspendKeeps
<1>4. CASE Get /\ Done(t, "senders")
  <2>1. Passes(k, pc, entry, entry', "senders", t)
    BY <1>1, <1>4, GetPasses DEF Get
  <2> QED
    BY <1>4, <2>1, DoneKeeps
<1> QED
  BY <1>2, <1>3, <1>4 DEF RecvLoop

\* rt_mb_send by an interrupt handler wakes a receiver as a thread does.
LEMMA SendIsrKeeps ==
  ASSUME Waiters, NEW m, SendIsr(m)
  PROVE  WaitInv(k', pc', entry')
<1>1. /\ Sane(k) /\ pc \in [Thread -> PCs] /\ entry \in 0 .. Size /\ pc[Idle] = "run"
      /\ Idle \in Thread
  BY CallerRuns, KernelAssumption
<1>2. Passes(k, pc, entry, entry', "receivers", Idle)
  BY <1>1, PutPasses DEF SendIsr, Put, Sane
<1>3. WaitInv(WakeOne(k, "receivers"), [pc EXCEPT ![Idle] = "run"], entry')
  BY <1>2, PassKeeps
<1>4. [pc EXCEPT ![Idle] = "run"] = pc /\ pc' = pc
  BY <1>1 DEF SendIsr
<1>5. WaitInv(WakeOne(k, "receivers"), pc, entry')
  BY <1>3, <1>4
<1>6. CASE k.wait["receivers"] = << >>
  BY <1>4, <1>5, <1>6 DEF SendIsr, WakeOne
<1>7. CASE k.wait["receivers"] # << >>
  <2> DEFINE y == WakeOne(k, "receivers")
  <2>1. k' = Schedule(y)
    BY <1>7 DEF SendIsr, Wake, WakeOne
  <2> HIDE DEF y
  <2>2. Sane(y)
    BY <1>5 DEF WaitInv, ListsSound, y
  <2>3. Sane(k') /\ Switched(y, k')
    BY <2>1, <2>2, ScheduleSane
  <2> QED
    BY <1>1, <1>4, <1>5, <2>3, SwitchKeeps DEF y
<1> QED
  BY <1>6, <1>7

LEMMA StepKeeps ==
  ASSUME Waiters, NEW t \in Thread, Step(t)
  PROVE  WaitInv(k', pc', entry')
<1>1. /\ Sane(k) /\ k.cur \in Thread /\ pc \in [Thread -> PCs] /\ entry \in 0 .. Size
      /\ pc[Idle] = "run" /\ WaitInv(k, pc, entry)
      /\ pc[k.cur] \notin {"send", "recv"} => k.stat[k.cur] = "RUNNING"
  BY CallerRuns DEF Waiters
<1>2. ASSUME NEW m \in Message, NEW w \in Waits, SendWait(t, m, w)
      PROVE  WaitInv(k', pc', entry')
  BY <1>2, SendLoopKeeps DEF SendWait, Caller
<1>3. ASSUME NEW w \in Waits, Recv(t, w)
      PROVE  WaitInv(k', pc', entry')
  BY <1>3, RecvLoopKeeps DEF Recv, Caller
<1>4. ASSUME NEW m \in Message, Urgent(t, m)
      PROVE  WaitInv(k', pc', entry')
  <2>1. t = k.cur /\ t # Idle /\ pc[t] = "run" /\ PutUrgent(m) /\ Done(t, "receivers")
    BY <1>4 DEF Urgent, Caller
  <2>2. Passes(k, pc, entry, entry', "receivers", t)
    BY <1>1, <2>1, PutPasses DEF PutUrgent
  <2> QED
    BY <2>1, <2>2, DoneKeeps
<1>5. CASE CallSchedule(t)
  <2>1. /\ k' = Schedule(k) /\ entry' = entry /\ t # Idle
        /\ \/ pc[t] = "send" /\ pc' = [pc EXCEPT ![t] = "sent"]
           \/ pc[t] = "recv" /\ pc' = [pc EXCEPT ![t] = "rcvd"]
           \/ pc[t] = "sched" /\ pc' = [pc EXCEPT ![t] = "run"]
    BY <1>1, <1>5 DEF CallSchedule, Goto, ring
  <2>2. /\ \A q \in Queue : \A u \in Thread : pc'[u] \in In(q) <=> pc[u] \in In(q)
        /\ pc'[Idle] = "run"
    <3>1. /\ \A u \in Thread \ {t} : pc'[u] = pc[u]
          /\ <<pc[t], pc'[t]>> \in {<<"send", "sent">>, <<"recv", "rcvd">>, <<"sched", "run">>}
      BY <1>1, <2>1
    <3>2. \A q \in Queue : pc'[t] \in In(q) <=> pc[t] \in In(q)
      BY <3>1 DEF In
    <3> QED
      BY <1>1, <2>1, <3>1, <3>2, KernelAssumption
  <2>3. Sane(k') /\ Switched(k, k')
    BY <1>1, <2>1, ScheduleSane
  <2> QED
    BY <1>1, <2>1, <2>2, <2>3, SwitchKeeps
<1>6. CASE WaitFails(t)
  <2>1. /\ k' \in Failed(k) /\ entry' = entry /\ k.cur # Idle
        /\ pc' = [pc EXCEPT ![k.cur] = "run"]
        /\ pc[k.cur] \notin {"send", "recv"} /\ k.err[k.cur] # "EOK"
    BY <1>1, <1>6 DEF WaitFails, Goto, ring, Failed
  <2>2. \A q \in Queue : k.cur \in AwakeOf(k, pc, q) => Avail(q, entry) = 0
    BY <2>1 DEF AwakeOf
  <2> QED
    BY <1>1, <2>1, <2>2, LeaveKeeps
<1>7. CASE WaitAgain(t)
  <2>1. PICK w \in Left(wait[t]) :
          \/ pc[t] = "sent" /\ SendLoop(t, msg[t], w)
          \/ pc[t] = "rcvd" /\ RecvLoop(t, w)
    BY <1>7 DEF WaitAgain
  <2>2. t = k.cur /\ t # Idle
    BY <1>1, <1>7, <2>1 DEF WaitAgain
  <2> QED
    BY <2>1, <2>2, SendLoopKeeps, RecvLoopKeeps
<1>8. CASE Reset(t)
  <2>1. /\ t = k.cur /\ k.cur # Idle /\ pc[k.cur] = "run" /\ entry' = 0
        /\ k' = IpcResumeAll(IpcResumeAll(k, "receivers"), "senders")
        /\ pc' = [pc EXCEPT ![k.cur] = "sched"]
    BY <1>8 DEF Reset, Caller, Clear, Goto
  <2> QED
    BY <1>1, <2>1, ResetKeeps
<1> QED
  BY <1>2, <1>3, <1>4, <1>5, <1>6, <1>7, <1>8 DEF Step

-----------------------------------------------------------------------------
\* The types that the ring says nothing about.
LocalTypes ==
  /\ wait \in [Thread -> Wait]
  /\ received \in Seq(Message \cup {NoMsg})

MailInv == Waiters /\ LocalTypes

LEMMA LocalTypesStep ==
  ASSUME LocalTypes, LocalsSound, RingType, [Next]_vars
  PROVE  LocalTypes'
<1>1. wait \in [Thread -> Wait] /\ Waits \subseteq Wait /\ "now" \in Wait
  BY MailboxAssumption DEF LocalTypes, Wait
<1>2. ASSUME NEW t \in Thread, NEW w \in Wait, NEW m, Locals(t, w, m)
      PROVE  wait' \in [Thread -> Wait]
  BY <1>1, <1>2 DEF Locals
<1>3. ASSUME NEW t \in Thread, NEW w \in Wait, NEW m, SendLoop(t, m, w) \/ RecvLoop(t, w)
      PROVE  wait' \in [Thread -> Wait]
  BY <1>1, <1>2, <1>3 DEF SendLoop, RecvLoop, Done
<1>4. ASSUME NEW t \in Thread, Step(t)
      PROVE  wait' \in [Thread -> Wait]
  <2>1. CASE \E m \in Message, w \in Waits : SendWait(t, m, w)
    BY <1>1, <1>3, <2>1 DEF SendWait
  <2>2. CASE \E w \in Waits : Recv(t, w)
    BY <1>1, <1>3, <2>2 DEF Recv
  <2>3. CASE \E m \in Message : Urgent(t, m)
    BY <1>1, <1>2, <2>3 DEF Urgent, Done
  <2>4. CASE CallSchedule(t) \/ Reset(t)
    BY <1>1, <2>4 DEF CallSchedule, Reset
  <2>5. CASE WaitFails(t)
    BY <1>1, <1>2, <2>5 DEF WaitFails
  <2>6. CASE WaitAgain(t)
    <3>1. Left(wait[t]) \subseteq Wait
      BY <1>1 DEF Left, Wait
    <3> QED
      BY <1>3, <2>6, <3>1 DEF WaitAgain
  <2> QED
    BY <1>4, <2>1, <2>2, <2>3, <2>4, <2>5, <2>6 DEF Step
<1>5. wait' \in [Thread -> Wait]
  <2>1. CASE UNCHANGED vars
    BY <1>1, <2>1 DEF vars
  <2> QED
    BY <1>1, <1>4, <2>1 DEF Next, TickTimeout, TickSlice, SendIsr
<1>6. received' \in Seq(Message \cup {NoMsg})
  <2>1. RingStep
    BY StepsTouchRing
  <2>2. CASE received' = <<pool[out]>>
    <3>1. pool[out] \in Message \cup {NoMsg}
      BY DEF RingType
    <3> QED
      BY <2>2, <3>1
  <2>3. CASE received' = received
    BY <2>3 DEF LocalTypes
  <2> QED
    BY <2>1, <2>2, <2>3 DEF RingStep, Put, PutUrgent, Get, Clear, ring
<1> QED
  BY <1>5, <1>6 DEF LocalTypes

LEMMA MailInit == Init => MailInv
<1>1. SUFFICES ASSUME Init PROVE MailInv
  OBVIOUS
<1>2. /\ k = InitKernel /\ pc = [t \in Thread |-> "run"] /\ entry = 0
      /\ wait = [t \in Thread |-> "now"] /\ received = << >>
  BY <1>1 DEF Init, InitRing
<1>3. k = Schedule(Started(InitPrio))
  BY <1>2 DEF InitKernel, Started
<1>4. /\ Sane(k) /\ Suspended(k) = {} /\ k.stat[k.cur] = "RUNNING"
      /\ \A q \in Queue : k.wait[q] = << >> /\ Waiting(k, q) = {}
  BY <1>3, IpcAssumption, StartedSane
<1>5. \A q \in Queue : UrgentFirst(k, q)
  <2>1. InOrder(<< >>, k.prio)
    BY DEF InOrder
  <2> QED
    BY <1>4, <2>1 DEF UrgentFirst
<1>6. WaitInv(k, pc, entry)
  BY <1>2, <1>4, <1>5, KernelAssumption DEF WaitInv, ListsSound, CallsSound, Covered
<1>7. LocalTypes
  BY <1>2 DEF LocalTypes, Wait
<1> QED
  BY <1>1, <1>6, <1>7, IndInvInit DEF MailInv, Waiters

LEMMA MailStep == MailInv /\ [Next]_vars => MailInv'
<1>1. SUFFICES ASSUME MailInv, [Next]_vars PROVE MailInv'
  OBVIOUS
<1>2. Waiters /\ IndInv /\ LocalTypes /\ LocalsSound /\ RingType /\ WaitInv(k, pc, entry) /\ Sane(k)
  BY <1>1 DEF MailInv, Waiters, IndInv, WaitInv, ListsSound
<1>3. IndInv' /\ LocalTypes'
  BY <1>1, <1>2, IndInvStep, LocalTypesStep
<1>4. WaitInv(k', pc', entry')
  <2>1. CASE UNCHANGED vars
    BY <1>2, <2>1 DEF vars, ring
  <2>2. CASE \E t \in Thread : Step(t)
    BY <1>2, <2>2, StepKeeps
  <2>3. CASE \E t \in Thread : TickTimeout(t)
    <3>1. PICK t \in k.tmr : k' = ThreadTimeout(k, t) /\ pc' = pc /\ entry' = entry
      BY <2>3 DEF TickTimeout, ring
    <3> QED
      BY <1>2, <3>1, CallerRuns, TimeoutKeeps
  <2>4. CASE \E m \in Message : SendIsr(m)
    BY <1>2, <2>4, SendIsrKeeps
  <2>5. CASE TickSlice
    <3>1. k' = YieldCurrent(k) /\ pc' = pc /\ entry' = entry
      BY <2>5 DEF TickSlice, ring
    <3>2. Sane(k') /\ Switched(k, k')
      BY <1>2, <3>1, YieldSane
    <3> QED
      BY <1>2, <3>1, <3>2, CallerRuns, SwitchKeeps
  <2> QED
    BY <1>1, <2>1, <2>2, <2>3, <2>4, <2>5 DEF Next
<1>5. WaitInv(k, pc, entry)'
  BY <1>4 DEF WaitInv, ListsSound, CallsSound, Covered
<1> QED
  BY <1>3, <1>4, <1>5 DEF MailInv, Waiters

\* What the invariant says, in the words of the property.
LEMMA MailImplies == MailInv => WaitersSound
<1>1. SUFFICES ASSUME MailInv PROVE WaitersSound
  OBVIOUS
<1>2. /\ IndInv /\ LocalTypes /\ ListsSound(k) /\ CallsSound(k, pc) /\ Covered(k, pc, entry)
      /\ WaitInv(k, pc, entry) /\ KernelSound(k, {}) /\ k \in KernelType
  BY <1>1, SaneFields DEF MailInv, Waiters, WaitInv, ListsSound, Sane
<1>3. TypeOK
  BY <1>2 DEF TypeOK, IndInv, LocalsSound, RingType, LocalTypes
<1>4. ListsMatchStat(k, {}) /\ BitmapExact(k)
  BY <1>2, SoundMatches
<1>5. \A q \in Queue : /\ k.wait[q] \in Seq(Thread)
                       /\ (k.wait[q] = << >>) <=> (Waiting(k, q) = {})
                       /\ Waiting(k, q) \subseteq Suspended(k)
                       /\ \A t : Contains(k.wait[q], t) <=> t \in Waiting(k, q)
  BY <1>2, WaitFacts, ContainsToSet DEF Waiting
<1>6. ASSUME NEW q \in Queue PROVE WaitListSound(k, q)
  <2>1. \A i \in DOMAIN k.wait[q] : k.wait[q][i] \in Waiting(k, q)
    BY <1>5 DEF Waiting, ToSet
  <2>2. \A i \in DOMAIN k.wait[q] : k.stat[k.wait[q][i]] = "SUSPEND"
    BY <1>5, <2>1 DEF Suspended
  <2>3. Flag = "PRIO" => InOrder(k.wait[q], k.prio)
    BY <1>2 DEF ListsSound, UrgentFirst
  <2> QED
    BY <2>2, <2>3 DEF WaitListSound, InOrder
<1>7. WaitersConsistent
  BY <1>2, <1>4, <1>5, <1>6, Lists DEF WaitersConsistent, CallsSound
<1>8. /\ Awake("receivers", {"recv", "rcvd"}) = AwakeOf(k, pc, "receivers")
      /\ Awake("senders", {"send", "sent"}) = AwakeOf(k, pc, "senders")
  BY <1>5, Lists DEF Awake, AwakeOf
<1>9. NoLostWakeUp
  BY <1>2, <1>5, <1>8, Lists DEF NoLostWakeUp, Covered
<1> QED
  BY <1>3, <1>7, <1>9 DEF WaitersSound

\* rt_mb_send_wait, rt_mb_urgent, rt_mb_recv and rt_mb_control, with timeouts and
\* sends by interrupt handlers between them: the two lists hold exactly the
\* threads that wait, in order, and while one of them waits, for every message
\* (or for every free place) another thread is already on its way.
THEOREM WaitersCorrect == Spec => []WaitersSound
<1>1. Init => MailInv
  BY MailInit
<1>2. MailInv /\ [Next]_vars => MailInv'
  BY MailStep
<1>3. MailInv => WaitersSound
  BY MailImplies
<1> QED
  BY <1>1, <1>2, <1>3, PTL DEF Spec
=============================================================================
