--------------------------- MODULE Ethernet_proofs ---------------------------
(***************************************************************************)
(* The two paths of the Ethernet interface keep their promises for every    *)
(* number of descriptors, pbufs, messages and senders.  The paths share no  *)
(* state, so there is one inductive invariant for each.                     *)
(***************************************************************************)
EXTENDS Ethernet, KernelLemmas

\* The places of a ring of n descriptors, seen from the one at b: they are
\* distinct, one more than the last is b again, and moving b moves them.
LEMMA RingPlaces ==
  ASSUME NEW n \in Nat \ {0}, NEW b \in 0 .. n - 1
  PROVE  /\ \A k \in 0 .. n : (b + k) % n \in 0 .. n - 1
         /\ \A k \in 0 .. n - 1 : (((b + 1) % n) + k) % n = (b + (k + 1)) % n
         /\ \A k \in 0 .. n - 1 : (((b + k) % n) + 1) % n = (b + (k + 1)) % n
         /\ \A j, k \in 0 .. n - 1 : (b + j) % n = (b + k) % n => j = k
         /\ (b + n) % n = b
         /\ (b + 0) % n = b
<1> DEFINE place(a) == IF a < n THEN a ELSE a - n
<1>1. \A k \in 0 .. n : b + k \in 0 .. 2 * n - 1
  OBVIOUS
<1>2. \A k \in 0 .. n : (b + k) % n = place(b + k)
  BY <1>1, RingMod
<1>3. \A k \in 0 .. n : (b + k) % n \in 0 .. n - 1
  BY <1>2
<1>4. ASSUME NEW k \in 0 .. n - 1
      PROVE  (((b + 1) % n) + k) % n = (b + (k + 1)) % n
  <2>1. 1 \in 0 .. n /\ k + 1 \in 0 .. n
    OBVIOUS
  <2>2. (b + 1) % n = place(b + 1) /\ (b + (k + 1)) % n = place(b + (k + 1))
    BY <1>2, <2>1
  <2>3. place(b + 1) \in 0 .. n - 1 /\ place(b + 1) + k \in 0 .. 2 * n - 1
    OBVIOUS
  <2>4. (place(b + 1) + k) % n = place(place(b + 1) + k)
    BY <2>3, RingMod
  <2>5. place(place(b + 1) + k) = place(b + (k + 1))
    OBVIOUS
  <2> QED
    BY <2>2, <2>4, <2>5
<1>5. ASSUME NEW j \in 0 .. n - 1, NEW k \in 0 .. n - 1, (b + j) % n = (b + k) % n
      PROVE  j = k
  <2>1. place(b + j) = place(b + k)
    BY <1>2, <1>5
  <2> QED
    BY <2>1
<1>6. (b + n) % n = b /\ (b + 0) % n = b
  BY <1>2
<1>7. ASSUME NEW k \in 0 .. n - 1
      PROVE  (((b + k) % n) + 1) % n = (b + (k + 1)) % n
  <2>1. k \in 0 .. n /\ k + 1 \in 0 .. n
    OBVIOUS
  <2>2. (b + k) % n = place(b + k) /\ (b + (k + 1)) % n = place(b + (k + 1))
    BY <1>2, <2>1
  <2>3. place(b + k) + 1 \in 0 .. 2 * n - 1
    OBVIOUS
  <2>4. (place(b + k) + 1) % n = place(place(b + k) + 1)
    BY <2>3, RingMod
  <2>5. place(place(b + k) + 1) = place(b + (k + 1))
    OBVIOUS
  <2> QED
    BY <2>2, <2>4, <2>5
<1> QED
  BY <1>3, <1>4, <1>5, <1>6, <1>7

-----------------------------------------------------------------------------
(***************************************************************************)
(* The transmit path                                                       *)
(***************************************************************************)

TxType ==
  /\ spc \in [Sender -> {"idle", "sent", "wait", "woken"}]
  /\ frame \in [Sender -> Frame \cup {None}] /\ comp \subseteq Sender
  /\ txmb \in Seq(Sender) /\ Len(txmb) <= MbSize
  /\ tpc \in {"recv", "copy", "give", "ack", "done"} /\ msg \in Sender \cup {None}
  /\ dmaown \subseteq TxRing /\ tbuf \in [TxRing -> Frame \cup {None}]
  /\ tcur \in TxRing /\ tdma \in TxRing /\ given \in Seq(Frame)
  /\ wrong \in BOOLEAN /\ overrun \in BOOLEAN
  /\ (msg = None) <=> (tpc = "recv")

\* A message is in the mailbox or with the transmit thread, at most once, until
\* its completion is done; its sender waits for that, and leaves its frame
\* alone.
MessagesSound ==
  /\ Distinct(txmb)
  /\ msg \notin ToSet(txmb)
  /\ \A s \in Sender :
       /\ s \in ToSet(txmb) \/ msg = s => spc[s] \in {"sent", "wait"} /\ s \notin comp
       /\ spc[s] = "woken" => s \in comp
       /\ spc[s] # "idle" => frame[s] \in Frame

\* The descriptor that is n behind the one the DMA stands at.
Ahead(n) == (tdma + n) % TxCount

\* The buffers of the frames given to the DMA hold these frames, and the driver
\* stands behind them; a frame between its copy and its descriptor is in a
\* buffer that is not the DMA's.
TxRingSound ==
  ~overrun =>
    /\ ~wrong
    /\ Len(given) <= TxCount
    /\ tcur = Ahead(Len(given))
    /\ dmaown = {Ahead(i) : i \in 0 .. Len(given) - 1}
    /\ \A i \in 1 .. Len(given) : tbuf[Ahead(i - 1)] = given[i]
    /\ tpc = "give" => Len(given) < TxCount /\ tbuf[tcur] = frame[msg]

TxInv == TxType /\ MessagesSound /\ TxRingSound

\* The first state of the transmit path.
LEMMA TxInit == Init => TxInv
<1> SUFFICES ASSUME Init PROVE TxInv
  OBVIOUS
<1>0. TxCount \in Nat \ {0} /\ MbSize \in Nat \ {0}
  BY EthernetAssumption
<1>1. TxType
  <2>1. /\ spc \in [Sender -> {"idle", "sent", "wait", "woken"}]
        /\ frame \in [Sender -> Frame \cup {None}] /\ comp \subseteq Sender
    BY DEF Init
  <2>2. /\ txmb \in Seq(Sender) /\ Len(txmb) <= MbSize /\ given \in Seq(Frame)
    BY <1>0 DEF Init
  <2>3. /\ dmaown \subseteq TxRing /\ tbuf \in [TxRing -> Frame \cup {None}]
        /\ tcur \in TxRing /\ tdma \in TxRing
    BY <1>0 DEF Init, TxRing
  <2>4. tpc = "recv" /\ msg = None /\ wrong = FALSE /\ overrun = FALSE
    BY DEF Init
  <2> QED
    BY <2>1, <2>2, <2>3, <2>4 DEF TxType
<1>2. MessagesSound
  BY EthernetAssumption DEF Init, MessagesSound, Distinct, ToSet
<1>3. TxRingSound
  <2>1. Len(given) = 0 /\ 0 \in 0 .. 2 * TxCount - 1 /\ 0 .. Len(given) - 1 = {}
    BY <1>0 DEF Init
  <2>2. Ahead(0) = 0
    BY <1>0, <2>1, RingMod DEF Init, Ahead
  <2> QED
    BY <1>0, <2>1, <2>2 DEF Init, TxRingSound
<1> QED
  BY <1>1, <1>2, <1>3 DEF TxInv

\* A step that leaves the ring alone, and the frame that is on its way to it.
LEMMA TxRingKept ==
  ASSUME TxRingSound, UNCHANGED txring,
         tpc' = "give" => tpc = "give" /\ frame'[msg'] = frame[msg]
  PROVE  TxRingSound'
BY DEF TxRingSound, Ahead, txring

\* ethernetif_linkoutput: the sender is idle, so its message is nowhere yet.
LEMMA LinkOutputKeeps ==
  ASSUME TxInv, NEW s \in Sender, NEW f \in Frame, LinkOutput(s, f)
  PROVE  TxInv'
<1>1. TxType /\ MessagesSound /\ TxRingSound
  BY DEF TxInv
<1>2. spc[s] = "idle" /\ s \notin ToSet(txmb) /\ msg # s
  BY <1>1 DEF LinkOutput, MessagesSound
<1>3. tpc' = tpc /\ msg' = msg /\ UNCHANGED txring /\ comp' = comp \ {s}
  BY DEF LinkOutput
<1>4. CASE Len(txmb) < MbSize
  <2>1. /\ txmb' = Append(txmb, s)
        /\ spc' = [spc EXCEPT ![s] = "sent"]
        /\ frame' = [frame EXCEPT ![s] = f]
    BY <1>4 DEF LinkOutput
  <2>2. /\ txmb' \in Seq(Sender)
        /\ Len(txmb') = Len(txmb) + 1
        /\ ToSet(txmb') = ToSet(txmb) \cup {s}
        /\ Distinct(txmb')
    <3>1. txmb \in Seq(Sender) /\ Distinct(txmb)
      BY <1>1 DEF TxType, MessagesSound
    <3>2. Len(txmb') = Len(txmb) + 1
      BY <2>1, <3>1
    <3> QED
      BY <1>2, <2>1, <3>1, <3>2, AppendList
  <2>3. TxType'
    <3>1. /\ spc' \in [Sender -> {"idle", "sent", "wait", "woken"}]
          /\ frame' \in [Sender -> Frame \cup {None}] /\ comp' \subseteq Sender
      BY <1>1, <1>3, <2>1 DEF TxType
    <3>2. Len(txmb') <= MbSize
      <4>1. Len(txmb) \in Nat /\ MbSize \in Nat
        BY <1>1, EthernetAssumption DEF TxType
      <4> QED
        BY <1>4, <2>2, <4>1
    <3> QED
      BY <1>1, <1>3, <2>2, <3>1, <3>2 DEF TxType, txring
  <2>4. MessagesSound'
    <3>1. msg' \notin ToSet(txmb')
      BY <1>1, <1>2, <1>3, <2>2 DEF MessagesSound
    <3>2. ASSUME NEW t \in Sender
          PROVE  /\ t \in ToSet(txmb') \/ msg' = t => spc'[t] \in {"sent", "wait"} /\ t \notin comp'
                 /\ spc'[t] = "woken" => t \in comp'
                 /\ spc'[t] # "idle" => frame'[t] \in Frame
      BY <1>1, <1>2, <1>3, <2>1, <2>2 DEF MessagesSound, TxType
    <3> QED
      BY <2>2, <3>1, <3>2 DEF MessagesSound
  <2>5. TxRingSound'
    <3>1. tpc = "give" => frame'[msg'] = frame[msg]
      BY <1>1, <1>2, <1>3, <2>1 DEF TxType
    <3> QED
      BY <1>1, <1>3, <3>1, TxRingKept
  <2> QED
    BY <2>3, <2>4, <2>5 DEF TxInv
<1>5. CASE ~(Len(txmb) < MbSize)
  <2>1. UNCHANGED <<txmb, spc, frame>>
    BY <1>5 DEF LinkOutput
  <2>2. TxType'
    BY <1>1, <1>3, <2>1 DEF TxType, txring
  <2>3. MessagesSound'
    BY <1>1, <1>2, <1>3, <2>1 DEF MessagesSound
  <2>4. TxRingSound'
    BY <1>1, <1>3, <2>1, TxRingKept
  <2> QED
    BY <2>2, <2>3, <2>4 DEF TxInv
<1> QED
  BY <1>4, <1>5

\* A sender returns whose completion is done: nobody has its message any more.
LEMMA ReturnKeeps ==
  ASSUME TxInv, NEW s \in Sender, s \in comp, Return(s),
         UNCHANGED <<txmb, tpc, msg, txring>>
  PROVE  TxInv'
<1>1. TxType /\ MessagesSound /\ TxRingSound
  BY DEF TxInv
<1>2. s \notin ToSet(txmb) /\ msg # s
  BY <1>1 DEF MessagesSound
<1>3. /\ comp' = comp \ {s}
      /\ spc' = [spc EXCEPT ![s] = "idle"]
      /\ frame' = [frame EXCEPT ![s] = None]
  BY DEF Return
<1>4. TxType'
  <2>1. /\ spc' \in [Sender -> {"idle", "sent", "wait", "woken"}]
        /\ frame' \in [Sender -> Frame \cup {None}] /\ comp' \subseteq Sender
    BY <1>1, <1>3 DEF TxType
  <2> QED
    BY <1>1, <2>1 DEF TxType, txring
<1>5. MessagesSound'
  BY <1>1, <1>2, <1>3 DEF MessagesSound, TxType
<1>6. TxRingSound'
  <2>1. tpc = "give" => frame'[msg'] = frame[msg]
    BY <1>1, <1>2, <1>3 DEF TxType
  <2> QED
    BY <1>1, <2>1, TxRingKept
<1> QED
  BY <1>4, <1>5, <1>6 DEF TxInv

\* rt_completion_wait, up to the suspension and behind it.
LEMMA SenderStepKeeps ==
  ASSUME TxInv, NEW s \in Sender, SenderStep(s)
  PROVE  TxInv'
<1>1. TxType /\ MessagesSound /\ TxRingSound
  BY DEF TxInv
<1>2. CASE WaitReturns(s)
  <2>1. s \in comp
    BY <1>1, <1>2 DEF WaitReturns, MessagesSound
  <2> QED
    BY <1>2, <2>1, ReturnKeeps DEF WaitReturns
<1>3. CASE CompletionWait(s) /\ s \in comp
  <2>1. Return(s)
    BY <1>3 DEF CompletionWait
  <2> QED
    BY <1>3, <2>1, ReturnKeeps DEF CompletionWait
<1>4. CASE CompletionWait(s) /\ s \notin comp
  <2>1. /\ spc' = [spc EXCEPT ![s] = "wait"] /\ UNCHANGED <<comp, frame>>
        /\ spc[s] = "sent" /\ UNCHANGED <<txmb, tpc, msg, txring>>
    BY <1>4 DEF CompletionWait
  <2>2. TxType'
    <3>1. spc' \in [Sender -> {"idle", "sent", "wait", "woken"}]
      BY <1>1, <2>1 DEF TxType
    <3> QED
      BY <1>1, <2>1, <3>1 DEF TxType, txring
  <2>3. MessagesSound'
    BY <1>1, <2>1 DEF MessagesSound, TxType
  <2>4. TxRingSound'
    BY <1>1, <2>1, TxRingKept
  <2> QED
    BY <2>2, <2>3, <2>4 DEF TxInv
<1> QED
  BY <1>2, <1>3, <1>4 DEF SenderStep

\* What the lemmas on rings say of the descriptors of the DMA.
LEMMA TxPlaces ==
  ASSUME TxType
  PROVE  /\ TxCount \in Nat \ {0}
         /\ Len(given) \in Nat
         /\ \A k \in 0 .. TxCount : Ahead(k) \in TxRing
         /\ \A k \in 0 .. TxCount - 1 : (((tdma + 1) % TxCount) + k) % TxCount = Ahead(k + 1)
         /\ \A k \in 0 .. TxCount - 1 : (Ahead(k) + 1) % TxCount = Ahead(k + 1)
         /\ \A j, k \in 0 .. TxCount - 1 : Ahead(j) = Ahead(k) => j = k
         /\ Ahead(TxCount) = tdma
         /\ Ahead(0) = tdma
<1>1. TxCount \in Nat \ {0} /\ tdma \in 0 .. TxCount - 1 /\ Len(given) \in Nat
  BY EthernetAssumption DEF TxType, TxRing
<1>2. /\ \A k \in 0 .. TxCount : (tdma + k) % TxCount \in 0 .. TxCount - 1
      /\ \A k \in 0 .. TxCount - 1 :
           (((tdma + 1) % TxCount) + k) % TxCount = (tdma + (k + 1)) % TxCount
      /\ \A k \in 0 .. TxCount - 1 :
           (((tdma + k) % TxCount) + 1) % TxCount = (tdma + (k + 1)) % TxCount
      /\ \A j, k \in 0 .. TxCount - 1 :
           (tdma + j) % TxCount = (tdma + k) % TxCount => j = k
      /\ (tdma + TxCount) % TxCount = tdma
      /\ (tdma + 0) % TxCount = tdma
  BY <1>1, RingPlaces, Zenon
<1> QED
  BY <1>1, <1>2, Zenon DEF Ahead, TxRing

\* rt_mb_recv of the transmit thread.
LEMMA TxRecvKeeps ==
  ASSUME TxInv, TxRecv
  PROVE  TxInv'
<1>1. TxType /\ MessagesSound /\ TxRingSound
  BY DEF TxInv
<1>2. /\ tpc = "recv" /\ txmb # << >> /\ tpc' = "copy"
      /\ msg' = Head(txmb) /\ txmb' = Tail(txmb)
      /\ UNCHANGED <<spc, frame, comp, txring>>
  BY DEF TxRecv
<1>3. /\ txmb' \in Seq(Sender) /\ Distinct(txmb')
      /\ msg' \in Sender /\ msg' \in ToSet(txmb)
      /\ ToSet(txmb') = ToSet(txmb) \ {msg'}
  <2>1. txmb \in Seq(Sender) /\ Distinct(txmb)
    BY <1>1 DEF TxType, MessagesSound
  <2> QED
    BY <1>2, <2>1, TailList
<1>4. TxType'
  <2>1. Len(txmb') <= MbSize
    <3>1. txmb \in Seq(Sender) /\ Len(txmb) <= MbSize /\ MbSize \in Nat
      BY <1>1, EthernetAssumption DEF TxType
    <3> QED
      BY <1>2, <3>1
  <2>2. msg' # None
    BY <1>3, EthernetAssumption
  <2> QED
    BY <1>1, <1>2, <1>3, <2>1, <2>2 DEF TxType, txring
<1>5. MessagesSound'
  BY <1>1, <1>2, <1>3 DEF MessagesSound
<1>6. TxRingSound'
  BY <1>1, <1>2, TxRingKept
<1> QED
  BY <1>4, <1>5, <1>6 DEF TxInv

\* The copy into the next buffer: with the ring full, the buffer is the DMA's.
LEMMA TxCopyKeeps ==
  ASSUME TxInv, TxCopy
  PROVE  TxInv'
<1>1. TxType /\ MessagesSound /\ TxRingSound
  BY DEF TxInv
<1>2. /\ tpc = "copy" /\ tpc' = "give"
      /\ tbuf' = [tbuf EXCEPT ![tcur] = frame[msg]]
      /\ overrun' = (overrun \/ tcur \in dmaown)
      /\ UNCHANGED <<senders, msg, dmaown, tcur, tdma, given, wrong>>
  BY DEF TxCopy
<1>3. msg \in Sender /\ frame[msg] \in Frame
  <2>1. msg \in Sender
    BY <1>1, <1>2 DEF TxType
  <2> QED
    BY <1>1, <2>1 DEF MessagesSound
<1>4. TxType'
  <2>1. tbuf' \in [TxRing -> Frame \cup {None}] /\ overrun' \in BOOLEAN
    BY <1>1, <1>2, <1>3 DEF TxType
  <2> QED
    BY <1>1, <1>2, <2>1 DEF TxType, senders
<1>5. MessagesSound'
  BY <1>1, <1>2 DEF MessagesSound, senders
<1>6. TxRingSound'
  <2>1. SUFFICES ASSUME ~overrun, tcur \notin dmaown
                 PROVE  /\ Len(given) < TxCount
                        /\ \A i \in 1 .. Len(given) : tbuf'[Ahead(i - 1)] = given[i]
                        /\ tbuf'[tcur] = frame[msg]
    BY <1>1, <1>2 DEF TxRingSound, Ahead, senders
  <2>2. /\ Len(given) <= TxCount
        /\ tcur = Ahead(Len(given))
        /\ dmaown = {Ahead(i) : i \in 0 .. Len(given) - 1}
        /\ \A i \in 1 .. Len(given) : tbuf[Ahead(i - 1)] = given[i]
    BY <1>1, <2>1 DEF TxRingSound
  <2>3. Len(given) # TxCount
    <3>1. ASSUME Len(given) = TxCount PROVE FALSE
      <4>1. 0 \in 0 .. Len(given) - 1 /\ tcur = Ahead(0)
        BY <1>1, <2>2, <3>1, TxPlaces
      <4> QED
        BY <2>1, <2>2, <4>1
    <3> QED
      BY <3>1
  <2>4. ASSUME NEW i \in 1 .. Len(given) PROVE tbuf'[Ahead(i - 1)] = given[i]
    <3>1. i - 1 \in 0 .. Len(given) - 1 /\ i - 1 \in 0 .. TxCount
      BY <1>1, <2>2, TxPlaces
    <3>2. Ahead(i - 1) \in dmaown /\ Ahead(i - 1) \in TxRing
      BY <1>1, <2>2, <3>1, TxPlaces
    <3> QED
      BY <1>1, <1>2, <2>1, <2>2, <3>2 DEF TxType
  <2>5. tbuf'[tcur] = frame[msg]
    BY <1>1, <1>2 DEF TxType
  <2>6. Len(given) < TxCount
    BY <1>1, <2>2, <2>3, TxPlaces
  <2> QED
    BY <2>4, <2>5, <2>6
<1> QED
  BY <1>4, <1>5, <1>6 DEF TxInv

\* The descriptor is given to the DMA behind those of the frames before it.
LEMMA TxGiveKeeps ==
  ASSUME TxInv, TxGive
  PROVE  TxInv'
<1>1. TxType /\ MessagesSound /\ TxRingSound
  BY DEF TxInv
<1>2. /\ tpc = "give" /\ tpc' = "ack"
      /\ dmaown' = dmaown \cup {tcur}
      /\ tcur' = (tcur + 1) % TxCount
      /\ given' = IF overrun THEN given ELSE Append(given, frame[msg])
      /\ UNCHANGED <<senders, msg, tbuf, tdma, wrong, overrun>>
  BY DEF TxGive
<1>3. msg \in Sender /\ frame[msg] \in Frame
  <2>1. msg \in Sender
    BY <1>1, <1>2 DEF TxType
  <2> QED
    BY <1>1, <2>1 DEF MessagesSound
<1>4. TxType'
  <2>1. dmaown' \subseteq TxRing
    BY <1>1, <1>2 DEF TxType
  <2>2. tcur' \in TxRing
    <3>1. tcur \in 0 .. TxCount - 1 /\ TxCount \in Nat \ {0} /\ 1 \in 0 .. TxCount
      BY <1>1, EthernetAssumption DEF TxType, TxRing
    <3>2. (tcur + 1) % TxCount \in 0 .. TxCount - 1
      BY <3>1, RingPlaces
    <3> QED
      BY <1>2, <3>2 DEF TxRing
  <2>3. given' \in Seq(Frame)
    BY <1>1, <1>2, <1>3 DEF TxType
  <2> QED
    BY <1>1, <1>2, <2>1, <2>2, <2>3 DEF TxType, senders
<1>5. MessagesSound'
  BY <1>1, <1>2 DEF MessagesSound, senders
<1>6. TxRingSound'
  <2>1. SUFFICES ASSUME ~overrun
                 PROVE  /\ Len(given') <= TxCount
                        /\ tcur' = Ahead(Len(given'))
                        /\ dmaown' = {Ahead(i) : i \in 0 .. Len(given') - 1}
                        /\ \A i \in 1 .. Len(given') : tbuf[Ahead(i - 1)] = given'[i]
    BY <1>1, <1>2 DEF TxRingSound, Ahead
  <2>2. /\ Len(given) < TxCount
        /\ tcur = Ahead(Len(given))
        /\ dmaown = {Ahead(i) : i \in 0 .. Len(given) - 1}
        /\ \A i \in 1 .. Len(given) : tbuf[Ahead(i - 1)] = given[i]
        /\ tbuf[tcur] = frame[msg]
    BY <1>1, <1>2, <2>1 DEF TxRingSound
  <2>3. given \in Seq(Frame) /\ Len(given) \in Nat /\ TxCount \in Nat
    BY <1>1, TxPlaces DEF TxType
  <2>4. /\ Len(given') = Len(given) + 1
        /\ \A i \in 1 .. Len(given) : given'[i] = given[i]
        /\ given'[Len(given) + 1] = frame[msg]
    BY <1>2, <1>3, <2>1, <2>3
  <2>5. tcur' = Ahead(Len(given'))
    <3>1. Len(given) \in 0 .. TxCount - 1
      BY <2>2, <2>3
    <3> QED
      BY <1>1, <1>2, <2>2, <2>4, <3>1, TxPlaces
  <2>6. dmaown' = {Ahead(i) : i \in 0 .. Len(given') - 1}
    <3>1. 0 .. Len(given') - 1 = (0 .. Len(given) - 1) \cup {Len(given)}
      BY <2>3, <2>4
    <3> QED
      BY <1>2, <2>2, <3>1
  <2>7. ASSUME NEW i \in 1 .. Len(given') PROVE tbuf[Ahead(i - 1)] = given'[i]
    <3>1. CASE i \in 1 .. Len(given)
      BY <2>2, <2>4, <3>1
    <3>2. CASE i = Len(given) + 1
      BY <2>2, <2>3, <2>4, <3>2
    <3> QED
      BY <2>3, <2>4, <3>1, <3>2
  <2> QED
    BY <2>2, <2>3, <2>4, <2>5, <2>6, <2>7
<1> QED
  BY <1>4, <1>5, <1>6 DEF TxInv

\* rt_completion_done of a message whose sender waits: its test, its section.
LEMMA DoneKeeps ==
  ASSUME TxInv, DoneTest \/ Done
  PROVE  TxInv'
<1>1. TxType /\ MessagesSound /\ TxRingSound
  BY DEF TxInv
<1>2. msg \in Sender /\ msg \notin comp /\ spc[msg] \in {"sent", "wait"}
  <2>1. msg \in Sender
    BY <1>1 DEF TxType, DoneTest, Done
  <2> QED
    BY <1>1, <2>1 DEF MessagesSound
<1>3. CASE DoneTest
  <2>1. /\ tpc = "ack" /\ tpc' = "done" /\ UNCHANGED <<senders, msg, txring>>
    BY <1>2, <1>3 DEF DoneTest
  <2>2. TxType'
    BY <1>1, <2>1 DEF TxType, senders, txring
  <2>3. MessagesSound'
    BY <1>1, <2>1 DEF MessagesSound, senders
  <2>4. TxRingSound'
    BY <1>1, <2>1, TxRingKept
  <2> QED
    BY <2>2, <2>3, <2>4 DEF TxInv
<1>4. CASE Done
  <2>1. /\ tpc' = "recv" /\ msg' = None
        /\ comp' = comp \cup {msg}
        /\ spc' = [spc EXCEPT ![msg] = IF @ = "wait" THEN "woken" ELSE @]
        /\ UNCHANGED <<frame, txmb, txring>>
    BY <1>4 DEF Done
  <2>2. TxType'
    <3>1. /\ spc' \in [Sender -> {"idle", "sent", "wait", "woken"}]
          /\ comp' \subseteq Sender
      BY <1>1, <1>2, <2>1 DEF TxType
    <3> QED
      BY <1>1, <2>1, <3>1 DEF TxType, txring
  <2>3. None \notin Sender /\ None \notin ToSet(txmb)
    <3>1. ToSet(txmb) \subseteq Sender
      BY <1>1 DEF TxType, ToSet
    <3> QED
      BY <3>1, EthernetAssumption
  <2>4. ASSUME NEW s \in Sender
        PROVE  /\ s \in ToSet(txmb') \/ msg' = s => spc'[s] \in {"sent", "wait"} /\ s \notin comp'
               /\ spc'[s] = "woken" => s \in comp'
               /\ spc'[s] # "idle" => frame'[s] \in Frame
    BY <1>1, <1>2, <2>1, <2>3 DEF MessagesSound, TxType
  <2>5. MessagesSound'
    BY <1>1, <2>1, <2>3, <2>4 DEF MessagesSound
  <2>6. TxRingSound'
    BY <1>1, <2>1, TxRingKept
  <2> QED
    BY <2>2, <2>5, <2>6 DEF TxInv
<1> QED
  BY <1>3, <1>4

\* The DMA sends the frame at the head of those given to it.
LEMMA DmaSendKeeps ==
  ASSUME TxInv, DmaSend
  PROVE  TxInv'
<1>1. TxType /\ MessagesSound /\ TxRingSound
  BY DEF TxInv
<1>2. /\ tdma \in dmaown
      /\ dmaown' = dmaown \ {tdma}
      /\ tdma' = (tdma + 1) % TxCount
      /\ given' = IF given = << >> THEN given ELSE Tail(given)
      /\ wrong' = (wrong \/ given = << >> \/ Head(given) # tbuf[tdma])
      /\ UNCHANGED <<senders, tpc, msg, tbuf, tcur, overrun>>
  BY DEF DmaSend
<1>3. /\ TxCount \in Nat \ {0} /\ given \in Seq(Frame) /\ Len(given) \in Nat
      /\ tdma' \in TxRing
  <2>1. TxCount \in Nat \ {0} /\ 0 \in 0 .. TxCount - 1 /\ 1 \in 0 .. TxCount
    BY EthernetAssumption
  <2>2. tdma' = Ahead(1) /\ Ahead(1) \in TxRing
    BY <1>1, <1>2, <2>1, TxPlaces DEF Ahead
  <2> QED
    BY <1>1, <2>1, <2>2 DEF TxType
<1>4. TxType'
  <2>1. given' \in Seq(Frame)
    BY <1>2, <1>3
  <2>2. wrong' \in BOOLEAN
    BY <1>1, <1>2 DEF TxType
  <2> QED
    BY <1>1, <1>2, <1>3, <2>1, <2>2 DEF TxType, senders
<1>5. MessagesSound'
  BY <1>1, <1>2 DEF MessagesSound, senders
<1>6. TxRingSound'
  <2> SUFFICES ASSUME ~overrun PROVE TxRingSound'
    BY <1>2 DEF TxRingSound
  <2>1. /\ ~wrong
        /\ Len(given) <= TxCount
        /\ tcur = Ahead(Len(given))
        /\ dmaown = {Ahead(i) : i \in 0 .. Len(given) - 1}
        /\ \A i \in 1 .. Len(given) : tbuf[Ahead(i - 1)] = given[i]
        /\ tpc = "give" => Len(given) < TxCount /\ tbuf[tcur] = frame[msg]
    BY <1>1 DEF TxRingSound
  <2>2. Len(given) > 0
    BY <1>2, <1>3, <2>1
  <2>3. /\ given # << >> /\ given' = Tail(given) /\ Len(given') = Len(given) - 1
        /\ Head(given) = given[1]
        /\ \A i \in 1 .. Len(given) - 1 : given'[i] = given[i + 1]
    BY <1>2, <1>3, <2>2
  <2> DEFINE Later(k) == (tdma' + k) % TxCount
  <2>4. \A k \in 0 .. TxCount - 1 : Later(k) = Ahead(k + 1)
    BY <1>1, <1>2, TxPlaces
  <2>5. Ahead(0) = tdma
    BY <1>1, TxPlaces
  <2>6. ~wrong'
    <3>1. tbuf[Ahead(1 - 1)] = given[1] /\ 1 - 1 = 0
      BY <1>3, <2>1, <2>2
    <3> QED
      BY <1>2, <2>1, <2>3, <2>5, <3>1
  <2>7. tcur' = Later(Len(given'))
    <3>1. Len(given) - 1 \in 0 .. TxCount - 1 /\ (Len(given) - 1) + 1 = Len(given)
      BY <1>3, <2>1, <2>2
    <3>2. Later(Len(given) - 1) = Ahead((Len(given) - 1) + 1)
      BY <2>4, <3>1
    <3> QED
      BY <1>2, <2>1, <2>3, <3>1, <3>2
  <2>8. dmaown' = {Ahead(i + 1) : i \in 0 .. Len(given') - 1}
    <3>1. ASSUME NEW d \in dmaown' PROVE \E i \in 0 .. Len(given') - 1 : d = Ahead(i + 1)
      <4>1. PICK j \in 0 .. Len(given) - 1 : d = Ahead(j)
        BY <1>2, <2>1, <3>1
      <4>2. j # 0
        BY <1>2, <2>5, <3>1, <4>1
      <4>3. j - 1 \in 0 .. Len(given') - 1 /\ (j - 1) + 1 = j
        BY <1>3, <2>3, <4>1, <4>2
      <4> QED
        BY <4>1, <4>3
    <3>2. ASSUME NEW i \in 0 .. Len(given') - 1 PROVE Ahead(i + 1) \in dmaown'
      <4>1. i + 1 \in 0 .. Len(given) - 1 /\ i + 1 # 0
        BY <1>3, <2>3
      <4>2. i + 1 \in 0 .. TxCount - 1 /\ 0 \in 0 .. TxCount - 1
        BY <1>3, <2>1, <4>1
      <4>3. Ahead(i + 1) # Ahead(0)
        BY <1>1, <4>1, <4>2, TxPlaces
      <4> QED
        BY <1>2, <2>1, <2>5, <4>1, <4>3
    <3> QED
      BY <3>1, <3>2
  <2>9. dmaown' = {Later(i) : i \in 0 .. Len(given') - 1}
    <3>1. \A i \in 0 .. Len(given') - 1 : i \in 0 .. TxCount - 1
      BY <1>3, <2>1, <2>3
    <3>2. \A i \in 0 .. Len(given') - 1 : Later(i) = Ahead(i + 1)
      BY <2>4, <3>1
    <3> QED
      BY <2>8, <3>2
  <2>10. ASSUME NEW i \in 1 .. Len(given') PROVE tbuf'[Later(i - 1)] = given'[i]
    <3>1. i - 1 \in 0 .. TxCount - 1 /\ i + 1 \in 1 .. Len(given) /\ i \in 1 .. Len(given) - 1
      BY <1>3, <2>1, <2>3
    <3>2. Later(i - 1) = Ahead((i - 1) + 1) /\ (i - 1) + 1 = (i + 1) - 1
      BY <2>4, <3>1
    <3>3. tbuf[Ahead((i + 1) - 1)] = given[i + 1]
      BY <2>1, <3>1
    <3> QED
      BY <1>2, <2>3, <3>1, <3>2, <3>3
  <2>11. Len(given') <= TxCount /\ (tpc = "give" => Len(given') < TxCount)
    BY <1>3, <2>1, <2>3
  <2>12. tpc' = "give" => tbuf'[tcur'] = frame'[msg']
    BY <1>2, <2>1 DEF senders
  <2> QED
    BY <1>2, <2>6, <2>7, <2>9, <2>10, <2>11, <2>12 DEF TxRingSound, Ahead
<1> QED
  BY <1>4, <1>5, <1>6 DEF TxInv

\* Every step of the interface.
LEMMA TxStep ==
  ASSUME TxInv, [Next]_vars
  PROVE  TxInv'
<1>1. CASE UNCHANGED txVars
  BY <1>1 DEF TxInv, TxType, MessagesSound, TxRingSound, Ahead, txVars, senders, txring
<1>2. CASE TxNext
  BY <1>2, LinkOutputKeeps, SenderStepKeeps, TxRecvKeeps, TxCopyKeeps, TxGiveKeeps,
     DoneKeeps, DmaSendKeeps
     DEF TxNext, TxThread
<1> QED
  BY <1>1, <1>2 DEF Next, Rx, Tx, vars

\* What the invariant says of the messages and of the frames.
LEMMA TxInvSound == TxInv => SendSound
<1> SUFFICES ASSUME TxInv PROVE SendSound
  OBVIOUS
<1>1. TxType /\ MessagesSound /\ TxRingSound
  BY DEF TxInv
<1>2. MessageAlive
  <2>1. ASSUME NEW s \in Sender, spc[s] = "idle" PROVE msg # s /\ ~Contains(txmb, s)
    <3>1. msg # s /\ s \notin ToSet(txmb)
      BY <1>1, <2>1 DEF MessagesSound
    <3> QED
      BY <1>1, <3>1, ContainsToSet DEF TxType
  <2> QED
    BY <2>1 DEF MessageAlive
<1>3. SentInOrder
  BY <1>1 DEF TxRingSound, SentInOrder, Ahead
<1> QED
  BY <1>2, <1>3 DEF SendSound

\* ethernetif_linkoutput, the transmit thread and the DMA: no message and no
\* frame is referred to after its sender has returned, and frames leave in the
\* order they were given to the driver, with any number of senders and
\* descriptors.
THEOREM SendCorrect == Spec => []SendSound
<1>1. Init => TxInv
  BY TxInit
<1>2. TxInv /\ [Next]_vars => TxInv'
  BY TxStep
<1>3. TxInv => SendSound
  BY TxInvSound
<1> QED
  BY <1>1, <1>2, <1>3, PTL DEF Spec

-----------------------------------------------------------------------------
(***************************************************************************)
(* The receive path: the ring                                              *)
(***************************************************************************)

\* Moving on twice is moving on by the sum.
LEMMA RingShift ==
  ASSUME NEW n \in Nat \ {0}, NEW b \in 0 .. n - 1,
         NEW j \in 0 .. n, NEW k \in 0 .. n, j + k <= n
  PROVE  (((b + j) % n) + k) % n = (b + (j + k)) % n
<1> DEFINE place(a) == IF a < n THEN a ELSE a - n
<1>1. b + j \in 0 .. 2 * n - 1 /\ b + (j + k) \in 0 .. 2 * n - 1
  OBVIOUS
<1>2. (b + j) % n = place(b + j) /\ (b + (j + k)) % n = place(b + (j + k))
  BY <1>1, RingMod
<1>3. place(b + j) + k \in 0 .. 2 * n - 1
  OBVIOUS
<1>4. (place(b + j) + k) % n = place(place(b + j) + k)
  BY <1>3, RingMod
<1>5. place(place(b + j) + k) = place(b + (j + k))
  OBVIOUS
<1> QED
  BY <1>2, <1>4, <1>5

\* The descriptor k behind descriptor b.
From(b, k) == (b + k) % RxCount

\* The descriptors of the receive ring as seen from one of them, and those that
\* eth_rx gives back: the first m of them.
LEMMA RxPlaces ==
  ASSUME NEW b \in RxRing
  PROVE  /\ RxCount \in Nat \ {0}
         /\ \A k \in 0 .. RxCount : From(b, k) \in RxRing
         /\ \A j, k \in 0 .. RxCount - 1 : From(b, j) = From(b, k) => j = k
         /\ \A j, k \in 0 .. RxCount :
              j + k <= RxCount => From(From(b, j), k) = From(b, j + k)
         /\ From(b, 0) = b
         /\ From(b, RxCount) = b
         /\ \A m \in 0 .. RxCount : \A i :
              i \in Kept(b, m) <=> \E k \in 0 .. m - 1 : i = From(b, k)
<1>1. RxCount \in Nat \ {0} /\ b \in 0 .. RxCount - 1
  BY EthernetAssumption DEF RxRing
<1>2. /\ \A k \in 0 .. RxCount : (b + k) % RxCount \in 0 .. RxCount - 1
      /\ \A j, k \in 0 .. RxCount - 1 :
           (b + j) % RxCount = (b + k) % RxCount => j = k
      /\ (b + RxCount) % RxCount = b
      /\ (b + 0) % RxCount = b
  BY <1>1, RingPlaces, ZenonT(40)
<1>3. \A j, k \in 0 .. RxCount :
        j + k <= RxCount => (((b + j) % RxCount) + k) % RxCount = (b + (j + k)) % RxCount
  BY <1>1, RingShift, Zenon
<1>4. \A a \in 0 .. 2 * RxCount - 1 :
        a % RxCount = IF a < RxCount THEN a ELSE a - RxCount
  BY <1>1, RingMod
<1>5. ASSUME NEW m \in 0 .. RxCount, NEW i
      PROVE  i \in Kept(b, m) <=> \E k \in 0 .. m - 1 : i = From(b, k)
  <2>1. ASSUME i \in Kept(b, m) PROVE \E k \in 0 .. m - 1 : i = From(b, k)
    <3> DEFINE d == (i + RxCount - b) % RxCount
    <3>1. i \in 0 .. RxCount - 1 /\ d < m
      BY <2>1 DEF Kept, RxRing
    <3>2. i + RxCount - b \in 0 .. 2 * RxCount - 1
      BY <1>1, <3>1
    <3>3. d = IF i + RxCount - b < RxCount THEN i + RxCount - b
              ELSE i + RxCount - b - RxCount
      BY <1>1, <3>1, <3>2, <1>4
    <3> HIDE DEF d
    <3>4. d \in 0 .. m - 1 /\ b + d \in 0 .. 2 * RxCount - 1
      BY <1>1, <3>1, <3>3
    <3>5. (b + d) % RxCount = IF b + d < RxCount THEN b + d ELSE b + d - RxCount
      BY <1>1, <3>4, <1>4
    <3>6. i = From(b, d)
      BY <1>1, <3>1, <3>3, <3>5 DEF From
    <3> QED
      BY <3>4, <3>6
  <2>2. ASSUME NEW k \in 0 .. m - 1, i = From(b, k) PROVE i \in Kept(b, m)
    <3>1. k \in 0 .. RxCount - 1 /\ b + k \in 0 .. 2 * RxCount - 1
      BY <1>1
    <3>2. i = IF b + k < RxCount THEN b + k ELSE b + k - RxCount
      BY <1>1, <2>2, <3>1, <1>4 DEF From
    <3>3. i \in RxRing /\ i + RxCount - b \in 0 .. 2 * RxCount - 1
      BY <1>1, <3>1, <3>2 DEF RxRing
    <3>4. (i + RxCount - b) % RxCount = IF i + RxCount - b < RxCount THEN i + RxCount - b
                                      ELSE i + RxCount - b - RxCount
      BY <1>1, <3>3, <1>4
    <3>5. (i + RxCount - b) % RxCount = k
      BY <1>1, <3>1, <3>2, <3>4
    <3> QED
      BY <3>1, <3>3, <3>5 DEF Kept
  <2> QED
    BY <2>1, <2>2
<1> QED
  BY <1>1, <1>2, <1>3, <1>5, Zenon DEF From, RxRing

RxType ==
  /\ cpu \subseteq RxRing /\ slot \in [RxRing -> Frame \cup {None}]
  /\ dma \in RxRing /\ cur \in RxRing /\ fs \in RxRing
  /\ seg \in 0 .. RxCount + 1 /\ lapped \in BOOLEAN
  /\ seg <= RxCount \/ lapped
  /\ unread \in Seq(Frame)

\* The descriptor that the kept ones and the unread ones begin at.
Base == IF seg = 0 THEN cur ELSE fs

\* From there the ring holds the kept descriptors, then the unread ones up to
\* where the DMA stands.
RxRingSound ==
  ~lapped =>
    /\ seg + Len(unread) <= RxCount
    /\ cur = From(Base, seg)
    /\ dma = From(Base, seg + Len(unread))
    /\ cpu = Kept(Base, seg + Len(unread))
    /\ \A i \in 1 .. Len(unread) : slot[From(cur, i - 1)] = unread[i]

RxRingInv == RxType /\ RxRingSound

\* The facts about an arbitrary state that the proofs below start from.
LEMMA RxRingFacts ==
  ASSUME RxRingInv, ~lapped
  PROVE  /\ RxCount \in Nat \ {0} /\ seg \in Nat /\ seg <= RxCount
         /\ unread \in Seq(Frame) /\ Len(unread) \in Nat
         /\ Base \in RxRing
         /\ seg + Len(unread) \in 0 .. RxCount
         /\ cur = From(Base, seg)
         /\ dma = From(Base, seg + Len(unread))
         /\ cpu = Kept(Base, seg + Len(unread))
         /\ \A i \in 1 .. Len(unread) :
              /\ From(cur, i - 1) = From(Base, seg + (i - 1))
              /\ slot[From(cur, i - 1)] = unread[i]
<1>1. RxType /\ RxRingSound
  BY DEF RxRingInv
<1>2. /\ RxCount \in Nat \ {0} /\ seg \in Nat /\ seg <= RxCount
      /\ unread \in Seq(Frame) /\ Len(unread) \in Nat
      /\ Base \in RxRing
  <2>1. RxCount \in Nat \ {0} /\ seg \in 0 .. RxCount + 1 /\ seg <= RxCount
    BY <1>1, EthernetAssumption DEF RxType
  <2>2. unread \in Seq(Frame) /\ Len(unread) \in Nat /\ Base \in RxRing
    BY <1>1 DEF RxType, Base
  <2> QED
    BY <2>1, <2>2
<1>3. /\ seg + Len(unread) <= RxCount
      /\ cur = From(Base, seg)
      /\ dma = From(Base, seg + Len(unread))
      /\ cpu = Kept(Base, seg + Len(unread))
      /\ \A i \in 1 .. Len(unread) : slot[From(cur, i - 1)] = unread[i]
  BY <1>1 DEF RxRingSound
<1>4. ASSUME NEW i \in 1 .. Len(unread)
      PROVE  From(cur, i - 1) = From(Base, seg + (i - 1))
  <2>1. /\ seg \in 0 .. RxCount /\ i - 1 \in 0 .. RxCount /\ seg + (i - 1) <= RxCount
    BY <1>2, <1>3
  <2>2. From(From(Base, seg), i - 1) = From(Base, seg + (i - 1))
    BY <1>2, <2>1, RxPlaces
  <2> QED
    BY <1>3, <2>2
<1>5. seg + Len(unread) \in 0 .. RxCount
  BY <1>2, <1>3
<1> QED
  BY <1>2, <1>3, <1>4, <1>5

\* eth_rx finds a descriptor of the CPU exactly if there is an unread frame, or
\* if the whole ring is kept.
LEMMA CurOwned ==
  ASSUME RxRingInv, ~lapped
  PROVE  /\ unread # << >> => cur \in cpu
         /\ cur \in cpu => unread # << >> \/ seg = RxCount
         /\ seg > 0 => fs \in cpu
<1>1. /\ RxCount \in Nat \ {0} /\ seg \in Nat /\ seg <= RxCount
      /\ unread \in Seq(Frame) /\ Len(unread) \in Nat
      /\ Base \in RxRing
      /\ seg + Len(unread) \in 0 .. RxCount
      /\ cur = From(Base, seg)
      /\ cpu = Kept(Base, seg + Len(unread))
  BY RxRingFacts
<1>2. \A i : i \in cpu <=> \E k \in 0 .. seg + Len(unread) - 1 : i = From(Base, k)
  BY <1>1, RxPlaces
<1>3. ASSUME unread # << >> PROVE cur \in cpu
  <2>1. seg \in 0 .. seg + Len(unread) - 1
    BY <1>1, <1>3
  <2> QED
    BY <1>1, <1>2, <2>1
<1>4. ASSUME cur \in cpu, unread = << >>, seg # RxCount PROVE FALSE
  <2>1. PICK k \in 0 .. seg + Len(unread) - 1 : cur = From(Base, k)
    BY <1>2, <1>4
  <2>2. k \in 0 .. RxCount - 1 /\ seg \in 0 .. RxCount - 1 /\ k # seg
    BY <1>1, <1>4, <2>1
  <2>3. \A j, l \in 0 .. RxCount - 1 : From(Base, j) = From(Base, l) => j = l
    BY <1>1, RxPlaces
  <2>4. From(Base, k) = From(Base, seg)
    BY <1>1, <2>1
  <2> QED
    BY <2>2, <2>3, <2>4
<1>5. ASSUME seg > 0 PROVE fs \in cpu
  <2>1. 0 \in 0 .. seg + Len(unread) - 1 /\ seg # 0
    BY <1>1, <1>5
  <2>2. fs = From(Base, 0)
    <3>1. Base = fs
      BY <2>1 DEF Base
    <3> QED
      BY <1>1, <3>1, RxPlaces
  <2> QED
    BY <1>2, <2>1, <2>2
<1> QED
  BY <1>3, <1>4, <1>5

\* A frame arrives: its descriptor is the first behind the unread ones.
LEMMA DmaReceiveRing ==
  ASSUME RxRingInv, NEW f \in Frame, DmaReceive(f)
  PROVE  RxRingInv'
<1>1. RxType /\ RxRingSound
  BY DEF RxRingInv
<1>2. /\ dma \notin cpu /\ cpu' = cpu \cup {dma}
      /\ slot' = [slot EXCEPT ![dma] = f]
      /\ dma' = (dma + 1) % RxCount
      /\ unread' = Append(unread, f)
      /\ UNCHANGED <<cur, seg, fs, lapped>>
  BY DEF DmaReceive, position
<1>3. dma' = From(dma, 1) /\ dma' \in RxRing
  <2>1. dma \in RxRing /\ 1 \in 0 .. RxCount
    BY <1>1, EthernetAssumption DEF RxType
  <2> QED
    BY <1>2, <2>1, RxPlaces DEF From
<1>4. RxType'
  <2>1. cpu' \subseteq RxRing /\ slot' \in [RxRing -> Frame \cup {None}]
    BY <1>1, <1>2 DEF RxType
  <2>2. unread' \in Seq(Frame)
    BY <1>1, <1>2 DEF RxType
  <2> QED
    BY <1>1, <1>2, <1>3, <2>1, <2>2 DEF RxType
<1>5. ASSUME ~lapped
      PROVE  /\ seg + Len(unread') <= RxCount
             /\ dma' = From(Base, seg + Len(unread'))
             /\ cpu' = Kept(Base, seg + Len(unread'))
             /\ \A i \in 1 .. Len(unread') : slot'[From(cur, i - 1)] = unread'[i]
  <2> DEFINE N == seg + Len(unread)
  <2>1. /\ RxCount \in Nat \ {0} /\ seg \in Nat /\ seg <= RxCount
        /\ unread \in Seq(Frame) /\ Len(unread) \in Nat
        /\ Base \in RxRing
        /\ N \in 0 .. RxCount
        /\ cur = From(Base, seg)
        /\ dma = From(Base, N)
        /\ cpu = Kept(Base, N)
        /\ \A i \in 1 .. Len(unread) :
             /\ From(cur, i - 1) = From(Base, seg + (i - 1))
             /\ slot[From(cur, i - 1)] = unread[i]
    BY <1>5, RxRingFacts
  <2>2. /\ Len(unread') = Len(unread) + 1
        /\ \A i \in 1 .. Len(unread) : unread'[i] = unread[i]
        /\ unread'[Len(unread) + 1] = f
    BY <1>2, <2>1
  <2>3. seg + Len(unread') = N + 1
    BY <2>1, <2>2
  <2> HIDE DEF N
  <2>4. \A i : i \in cpu <=> \E k \in 0 .. N - 1 : i = From(Base, k)
    BY <2>1, RxPlaces
  <2>5. N # RxCount
    <3>1. ASSUME N = RxCount PROVE FALSE
      <4>1. 0 \in 0 .. N - 1 /\ dma = From(Base, 0)
        BY <2>1, <3>1, RxPlaces
      <4> QED
        BY <1>2, <2>4, <4>1
    <3> QED
      BY <3>1
  <2>6. N \in 0 .. RxCount - 1 /\ N + 1 \in 0 .. RxCount /\ N \in 0 .. RxCount
    BY <2>1, <2>5
  <2>7. dma' = From(Base, N + 1)
    <3>1. From(From(Base, N), 1) = From(Base, N + 1)
      BY <2>1, <2>6, RxPlaces
    <3> QED
      BY <1>3, <2>1, <3>1
  <2>8. cpu' = Kept(Base, N + 1)
    <3>1. \A i : i \in Kept(Base, N + 1) <=> \E k \in 0 .. (N + 1) - 1 : i = From(Base, k)
      BY <2>1, <2>6, RxPlaces
    <3>2. 0 .. (N + 1) - 1 = (0 .. N - 1) \cup {N}
      BY <2>6
    <3>3. \A i : i \in cpu' <=> i \in Kept(Base, N + 1)
      BY <1>2, <2>1, <2>4, <3>1, <3>2
    <3> QED
      BY <3>3, Zenon
  <2>9. ASSUME NEW i \in 1 .. Len(unread') PROVE slot'[From(cur, i - 1)] = unread'[i]
    <3>1. CASE i \in 1 .. Len(unread)
      <4>1. seg + (i - 1) \in 0 .. N - 1
        BY <2>1, <3>1 DEF N
      <4>2. From(cur, i - 1) \in cpu
        BY <2>1, <2>4, <3>1, <4>1
      <4>3. From(cur, i - 1) # dma /\ From(cur, i - 1) \in RxRing
        BY <1>1, <1>2, <4>2 DEF RxType
      <4> QED
        BY <1>1, <1>2, <2>1, <2>2, <3>1, <4>3 DEF RxType
    <3>2. CASE i = Len(unread) + 1
      <4>1. i - 1 = Len(unread) /\ seg \in 0 .. RxCount /\ Len(unread) \in 0 .. RxCount
            /\ seg + Len(unread) <= RxCount
        BY <2>1, <3>2 DEF N
      <4>2. From(From(Base, seg), Len(unread)) = From(Base, seg + Len(unread))
        BY <2>1, <4>1, RxPlaces
      <4>3. From(cur, i - 1) = dma
        BY <2>1, <4>1, <4>2 DEF N
      <4> QED
        BY <1>1, <1>2, <2>2, <3>2, <4>3 DEF RxType
    <3> QED
      BY <2>1, <2>2, <3>1, <3>2
  <2> QED
    BY <2>3, <2>6, <2>7, <2>8, <2>9
<1>6. RxRingSound'
  BY <1>1, <1>2, <1>5 DEF RxRingSound, Base, From, Kept
<1> QED
  BY <1>4, <1>6 DEF RxRingInv

\* eth_rx gets the next descriptor: the first unread one joins the kept ones,
\* or the whole ring was kept.
LEMMA GetFrameRing ==
  ASSUME RxRingInv, GetFrame, UNCHANGED <<cpu, slot, dma>>
  PROVE  RxRingInv'
<1>1. RxType /\ RxRingSound
  BY DEF RxRingInv
<1>2. /\ cur \in cpu /\ ~lapped
      /\ seg' = seg + 1
      /\ fs' = IF seg = 0 THEN cur ELSE fs
      /\ cur' = (cur + 1) % RxCount
      /\ lapped' = (seg = RxCount)
      /\ unread' = IF unread = << >> THEN unread ELSE Tail(unread)
  BY DEF GetFrame
<1>3. /\ RxCount \in Nat \ {0} /\ seg \in Nat /\ seg <= RxCount
      /\ unread \in Seq(Frame) /\ Len(unread) \in Nat
      /\ Base \in RxRing
      /\ seg + Len(unread) \in 0 .. RxCount
      /\ cur = From(Base, seg)
      /\ dma = From(Base, seg + Len(unread))
      /\ cpu = Kept(Base, seg + Len(unread))
      /\ \A i \in 1 .. Len(unread) :
           /\ From(cur, i - 1) = From(Base, seg + (i - 1))
           /\ slot[From(cur, i - 1)] = unread[i]
  BY <1>2, RxRingFacts
<1>4. cur' = From(cur, 1) /\ cur' \in RxRing
  <2>1. cur \in RxRing /\ 1 \in 0 .. RxCount
    BY <1>1, <1>3 DEF RxType
  <2> QED
    BY <1>2, <2>1, RxPlaces DEF From
<1>5. RxType'
  <2>1. fs' \in RxRing
    BY <1>1, <1>2 DEF RxType
  <2>2. seg' \in 0 .. RxCount + 1 /\ (seg' <= RxCount \/ lapped')
    <3>1. seg' \in 0 .. RxCount + 1 /\ (seg' <= RxCount \/ seg = RxCount)
      BY <1>2, <1>3
    <3>2. seg = RxCount => lapped'
      BY <1>2
    <3> QED
      BY <3>1, <3>2
  <2>3. unread' \in Seq(Frame)
    BY <1>2, <1>3
  <2>4. lapped' \in BOOLEAN
    BY <1>2
  <2> QED
    BY <1>1, <1>4, <2>1, <2>2, <2>3, <2>4 DEF RxType
<1>6. ASSUME ~lapped' PROVE RxRingSound'
  <2>1. unread # << >>
    BY <1>2, <1>6, CurOwned
  <2>2. /\ Len(unread) >= 1
        /\ Len(unread') = Len(unread) - 1
        /\ \A i \in 1 .. Len(unread) - 1 : unread'[i] = unread[i + 1]
    <3>1. unread' = Tail(unread)
      BY <1>2, <2>1
    <3> QED
      BY <1>3, <2>1, <3>1
  <2>3. seg' + Len(unread') = seg + Len(unread)
    <3>1. seg' = seg + 1
      BY <1>2
    <3> QED
      BY <1>3, <2>2, <3>1
  <2>4. Base' = Base
    <3>1. seg' # 0
      BY <1>2, <1>3
    <3> QED
      BY <1>2, <3>1 DEF Base
  <2>5. cur' = From(Base, seg')
    <3>1. seg \in 0 .. RxCount /\ 1 \in 0 .. RxCount /\ seg + 1 <= RxCount
      BY <1>3, <2>2
    <3>2. From(From(Base, seg), 1) = From(Base, seg + 1)
      BY <1>3, <3>1, RxPlaces
    <3> QED
      BY <1>2, <1>3, <1>4, <3>2
  <2>6. ASSUME NEW i \in 1 .. Len(unread') PROVE slot[From(cur', i - 1)] = unread'[i]
    <3>1. /\ i \in 1 .. Len(unread) - 1 /\ i + 1 \in 1 .. Len(unread) /\ (i + 1) - 1 = 1 + (i - 1)
          /\ 1 \in 0 .. RxCount /\ i - 1 \in 0 .. RxCount /\ 1 + (i - 1) <= RxCount
      BY <1>3, <2>2
    <3>2. cur \in RxRing
      BY <1>1 DEF RxType
    <3>3. From(From(cur, 1), i - 1) = From(cur, 1 + (i - 1))
      BY <3>1, <3>2, RxPlaces
    <3>4. From(cur', i - 1) = From(cur, (i + 1) - 1)
      BY <1>4, <3>1, <3>3
    <3>5. slot[From(cur, (i + 1) - 1)] = unread[i + 1]
      BY <1>3, <3>1
    <3> QED
      BY <2>2, <3>1, <3>4, <3>5
  <2>7. /\ seg' + Len(unread') <= RxCount
        /\ cur' = From(Base', seg')
        /\ dma' = From(Base', seg' + Len(unread'))
        /\ cpu' = Kept(Base', seg' + Len(unread'))
    BY <1>3, <2>3, <2>4, <2>5
  <2> QED
    BY <2>6, <2>7 DEF RxRingSound, From, Kept
<1>7. RxRingSound'
  BY <1>6 DEF RxRingSound
<1> QED
  BY <1>5, <1>7 DEF RxRingInv

\* eth_rx gives the kept descriptors back: those behind them are left.
LEMMA GiveBackRing ==
  ASSUME RxRingInv, seg > 0,
         cpu' = cpu \ Kept(fs, seg), seg' = 0,
         UNCHANGED <<slot, dma, unread, cur, fs, lapped>>
  PROVE  RxRingInv'
<1>1. RxType /\ RxRingSound
  BY DEF RxRingInv
<1>2. RxType'
  <2>1. seg' \in 0 .. RxCount + 1 /\ seg' <= RxCount
    BY EthernetAssumption
  <2> QED
    BY <1>1, <2>1 DEF RxType
<1>3. ASSUME ~lapped
      PROVE  /\ Len(unread) <= RxCount
             /\ cur = From(cur, 0)
             /\ dma = From(cur, Len(unread))
             /\ cpu' = Kept(cur, Len(unread))
             /\ \A i \in 1 .. Len(unread) : slot[From(cur, i - 1)] = unread[i]
  <2>1. /\ RxCount \in Nat \ {0} /\ seg \in Nat /\ seg <= RxCount
        /\ unread \in Seq(Frame) /\ Len(unread) \in Nat
        /\ Base \in RxRing
        /\ seg + Len(unread) \in 0 .. RxCount
        /\ cur = From(Base, seg)
        /\ dma = From(Base, seg + Len(unread))
        /\ cpu = Kept(Base, seg + Len(unread))
        /\ \A i \in 1 .. Len(unread) :
             /\ From(cur, i - 1) = From(Base, seg + (i - 1))
             /\ slot[From(cur, i - 1)] = unread[i]
    BY <1>3, RxRingFacts
  <2>2. Base = fs
    <3>1. seg # 0
      BY <2>1
    <3> QED
      BY <3>1 DEF Base
  <2>3. cur \in RxRing
    BY <1>1 DEF RxType
  <2>4. \A k \in 0 .. Len(unread) : From(cur, k) = From(Base, seg + k)
    <3>1. ASSUME NEW k \in 0 .. Len(unread) PROVE From(cur, k) = From(Base, seg + k)
      <4>1. k \in 0 .. RxCount /\ seg \in 0 .. RxCount /\ seg + k <= RxCount
        BY <2>1
      <4>2. From(From(Base, seg), k) = From(Base, seg + k)
        BY <2>1, <4>1, RxPlaces
      <4> QED
        BY <2>1, <4>2
    <3> QED
      BY <3>1
  <2>5. Len(unread) \in 0 .. RxCount /\ seg \in 0 .. RxCount /\ Len(unread) \in 0 .. Len(unread)
    BY <2>1
  <2>6. \A i : i \in cpu <=> \E k \in 0 .. seg + Len(unread) - 1 : i = From(Base, k)
    BY <2>1, RxPlaces
  <2>7. \A i : i \in Kept(fs, seg) <=> \E k \in 0 .. seg - 1 : i = From(Base, k)
    BY <2>1, <2>2, <2>5, RxPlaces
  <2>8. \A i : i \in Kept(cur, Len(unread)) <=> \E k \in 0 .. Len(unread) - 1 : i = From(cur, k)
    BY <2>3, <2>5, RxPlaces
  <2>9. \A j, k \in 0 .. RxCount - 1 : From(Base, j) = From(Base, k) => j = k
    BY <2>1, RxPlaces
  <2>10. ASSUME NEW i \in cpu' PROVE i \in Kept(cur, Len(unread))
    <3>1. PICK k \in 0 .. seg + Len(unread) - 1 : i = From(Base, k)
      BY <2>6, <2>10
    <3>2. ~(k \in 0 .. seg - 1)
      BY <2>7, <2>10, <3>1
    <3>3. k - seg \in 0 .. Len(unread) - 1 /\ k - seg \in 0 .. Len(unread) /\ seg + (k - seg) = k
      BY <2>1, <3>1, <3>2
    <3> QED
      BY <2>4, <2>8, <3>1, <3>3
  <2>11. ASSUME NEW i \in Kept(cur, Len(unread)) PROVE i \in cpu'
    <3>1. PICK k \in 0 .. Len(unread) - 1 : i = From(cur, k)
      BY <2>8, <2>11
    <3>2. /\ k \in 0 .. Len(unread) /\ seg + k \in 0 .. seg + Len(unread) - 1
          /\ seg + k \in 0 .. RxCount - 1
      BY <2>1, <3>1
    <3>3. i = From(Base, seg + k)
      BY <2>4, <3>1, <3>2
    <3>4. i \notin Kept(fs, seg)
      <4>1. ASSUME NEW j \in 0 .. seg - 1, i = From(Base, j) PROVE FALSE
        <5>1. j \in 0 .. RxCount - 1 /\ j # seg + k
          BY <2>1, <3>1
        <5> QED
          BY <2>9, <3>2, <3>3, <4>1, <5>1
      <4> QED
        BY <2>7, <4>1
    <3> QED
      BY <2>6, <3>2, <3>3, <3>4
  <2>12. cpu' = Kept(cur, Len(unread))
    BY <2>10, <2>11
  <2>13. cur = From(cur, 0)
    BY <2>3, RxPlaces
  <2>14. dma = From(cur, Len(unread))
    BY <2>1, <2>4, <2>5
  <2> QED
    BY <2>1, <2>5, <2>12, <2>13, <2>14
<1>4. RxRingSound'
  <2>1. SUFFICES ASSUME ~lapped PROVE RxRingSound'
    BY DEF RxRingSound
  <2>2. Base' = cur /\ cur' = cur /\ seg' = 0 /\ 0 + Len(unread) = Len(unread)
    BY <1>1 DEF Base, RxType
  <2> QED
    BY <1>3, <2>1, <2>2 DEF RxRingSound, From, Kept
<1> QED
  BY <1>2, <1>4 DEF RxRingInv

-----------------------------------------------------------------------------
(***************************************************************************)
(* The receive path: the thread, the pbufs and the signals                 *)
(***************************************************************************)

\* The states of the receive thread in which it has a message in hand.
Looking == {"link", "status", "set", "clear", "drain"}

ThreadType ==
  /\ rpc \in {"recv"} \cup Looking \cup {"copy", "input"}
  /\ inq \in Seq(Pbuf) /\ Len(inq) <= TcpipSize
  /\ pool \in Nat /\ held \in Nat

\* The pbuf in the hands of the thread: while eth_rx fills it, the first
\* descriptor that is kept holds the frame it was allocated for, unless there
\* are more of them than one.
HandSound ==
  /\ rpc \in {"recv"} \cup Looking => hand = << >>
  /\ rpc = "copy" =>
       /\ seg > 0
       /\ \E e \in Empty :
            /\ hand = <<e>>
            /\ seg = 1 => ~lapped /\ e.len = slot[fs] /\ e.want = slot[fs]
  /\ rpc = "input" => \E p \in Pbuf : hand = <<p>> /\ (p.intact \/ p.merged)

PbufInv == ThreadType /\ HandSound /\ FramesIntact /\ PbufsConserved

SignalType ==
  /\ ri \in BOOLEAN /\ notice \in BOOLEAN /\ changed \in BOOLEAN /\ up \in BOOLEAN
  /\ mb \in 0 .. MbSize /\ phy \in Speed \cup {None}

SignalInv == SignalType /\ NoticeIsOut /\ NoFrameForgotten /\ LinkSeen

RxInv == RxRingInv /\ PbufInv /\ SignalInv

\* The first state of the receive path.
LEMMA RxInit == Init => RxInv
<1> SUFFICES ASSUME Init PROVE RxInv
  OBVIOUS
<1>0. /\ RxCount \in Nat \ {0} /\ MbSize \in Nat \ {0}
      /\ PbufNum \in Nat /\ TcpipSize \in Nat \ {0}
  BY EthernetAssumption
<1>1. RxRingInv
  <2>1. RxType
    <3>1. cpu \subseteq RxRing /\ slot \in [RxRing -> Frame \cup {None}]
      BY DEF Init
    <3>2. /\ dma \in RxRing /\ cur \in RxRing /\ fs \in RxRing
          /\ seg \in 0 .. RxCount + 1 /\ seg <= RxCount
      BY <1>0 DEF Init, RxRing
    <3>3. lapped = FALSE /\ unread \in Seq(Frame)
      BY DEF Init
    <3> QED
      BY <3>1, <3>2, <3>3 DEF RxType
  <2>2. Base = 0 /\ seg + Len(unread) = 0 /\ Len(unread) = 0
    BY DEF Init, Base
  <2>3. 0 \in RxRing /\ 0 \in 0 .. RxCount /\ 0 .. 0 - 1 = {}
    BY <1>0 DEF RxRing
  <2>4. From(0, 0) = 0
    BY <2>3, RxPlaces
  <2>5. Kept(0, 0) = {}
    BY <2>3, RxPlaces
  <2>6. RxRingSound
    BY <1>0, <2>2, <2>4, <2>5 DEF RxRingSound, Init
  <2> QED
    BY <2>1, <2>6 DEF RxRingInv
<1>2. PbufInv
  <2>1. ThreadType
    BY <1>0 DEF Init, ThreadType
  <2>2. HandSound
    BY DEF Init, HandSound
  <2>3. FramesIntact /\ PbufsConserved
    BY <1>0 DEF Init, FramesIntact, PbufsConserved
  <2> QED
    BY <2>1, <2>2, <2>3 DEF PbufInv
<1>3. SignalInv
  <2>1. SignalType
    <3>1. mb \in 0 .. MbSize
      BY <1>0 DEF Init
    <3>2. ri = FALSE /\ notice = FALSE /\ changed = FALSE /\ up = FALSE /\ phy = None
      BY DEF Init
    <3> QED
      BY <3>1, <3>2, Zenon DEF SignalType
  <2>2. NoticeIsOut /\ NoFrameForgotten /\ LinkSeen
    BY DEF Init, NoticeIsOut, NoFrameForgotten, LinkSeen
  <2> QED
    BY <2>1, <2>2 DEF SignalInv
<1> QED
  BY <1>1, <1>2, <1>3 DEF RxInv

\* The ring, over every step of the receive path.
LEMMA RxRingStep ==
  ASSUME RxInv, RxNext
  PROVE  RxRingInv'
<1>1. RxRingInv /\ HandSound
  BY DEF RxInv, PbufInv
<1>2. CASE UNCHANGED <<ring, position>>
  BY <1>1, <1>2 DEF RxRingInv, RxType, RxRingSound, Base, From, Kept, ring, position
<1>3. ASSUME NEW f \in Frame, DmaReceive(f) PROVE RxRingInv'
  BY <1>1, <1>3, DmaReceiveRing
<1>4. CASE RxNoPbuf \/ RxGet
  BY <1>1, <1>4, GetFrameRing DEF RxNoPbuf, RxGet
<1>5. CASE RxCopy
  <2>1. seg > 0
    BY <1>1, <1>5 DEF HandSound, RxCopy
  <2> QED
    BY <1>1, <1>5, <2>1, GiveBackRing DEF RxCopy
<1>6. CASE IsrEnet
  BY <1>2, <1>6 DEF IsrEnet
<1>7. ASSUME NEW s \in Speed, PhyPoll(s) PROVE RxRingInv'
  BY <1>2, <1>7 DEF PhyPoll
<1>8. CASE RxRecv \/ RxLinkTest \/ RxLinkStatus \/ RxSetLink \/ RxClear \/ RxEmpty \/ RxInput
  BY <1>2, <1>8 DEF RxRecv, RxLinkTest, RxLinkStatus, RxSetLink, RxClear, RxEmpty, RxInput
<1>9. CASE StackTake \/ StackFree
  BY <1>2, <1>9 DEF StackTake, StackFree
<1> QED
  BY <1>3, <1>4, <1>5, <1>6, <1>7, <1>8, <1>9 DEF RxNext, RxThread

\* Steps that leave the pbufs alone and change the state of the thread only
\* from one in which it has none to another.
LEMMA PbufKept ==
  ASSUME PbufInv, UNCHANGED <<hand, stack>>,
         \/ UNCHANGED <<slot, position, rpc>>
         \/ {rpc, rpc'} \subseteq {"recv"} \cup Looking
  PROVE  PbufInv'
<1>1. ThreadType /\ HandSound /\ FramesIntact /\ PbufsConserved
  BY DEF PbufInv
<1>2. ThreadType' /\ FramesIntact' /\ PbufsConserved'
  BY <1>1 DEF ThreadType, FramesIntact, PbufsConserved, stack, Looking
<1>3. CASE UNCHANGED <<slot, position, rpc>>
  <2>1. HandSound'
    BY <1>1, <1>3 DEF HandSound, position
  <2> QED
    BY <1>2, <2>1 DEF PbufInv
<1>4. CASE {rpc, rpc'} \subseteq {"recv"} \cup Looking
  <2>1. hand = << >> /\ rpc' # "copy" /\ rpc' # "input"
    BY <1>1, <1>4 DEF HandSound, Looking
  <2>2. HandSound'
    BY <2>1 DEF HandSound
  <2> QED
    BY <1>2, <2>2 DEF PbufInv
<1> QED
  BY <1>3, <1>4

\* A frame arrives while eth_rx copies another: it goes elsewhere.
LEMMA DmaReceivePbuf ==
  ASSUME RxInv, NEW f \in Frame, DmaReceive(f)
  PROVE  PbufInv'
<1>1. RxRingInv /\ RxType /\ ThreadType /\ HandSound /\ FramesIntact /\ PbufsConserved
  BY DEF RxInv, PbufInv, RxRingInv
<1>2. /\ dma \notin cpu /\ slot' = [slot EXCEPT ![dma] = f]
      /\ UNCHANGED <<cur, seg, fs, lapped, rpc, hand, pool, inq, held>>
  BY DEF DmaReceive, position, stack
<1>3. ThreadType' /\ FramesIntact' /\ PbufsConserved'
  BY <1>1, <1>2 DEF ThreadType, FramesIntact, PbufsConserved
<1>4. ASSUME ~lapped, seg > 0 PROVE slot'[fs] = slot[fs]
  <2>1. fs \in cpu
    BY <1>1, <1>4, CurOwned
  <2> QED
    BY <1>1, <1>2, <2>1 DEF RxType
<1>5. ASSUME rpc = "copy"
      PROVE  \E e \in Empty :
               hand = <<e>> /\ (seg = 1 => ~lapped /\ e.len = slot'[fs] /\ e.want = slot'[fs])
  <2>1. PICK e \in Empty :
          hand = <<e>> /\ (seg = 1 => ~lapped /\ e.len = slot[fs] /\ e.want = slot[fs])
    BY <1>1, <1>5 DEF HandSound
  <2>2. seg = 1 => slot'[fs] = slot[fs]
    BY <1>4, <2>1
  <2> QED
    BY <2>1, <2>2
<1>6. HandSound'
  BY <1>1, <1>2, <1>5 DEF HandSound
<1> QED
  BY <1>3, <1>6 DEF PbufInv

\* eth_rx allocates a pbuf for the frame of the descriptor it got.
LEMMA RxGetPbuf ==
  ASSUME RxInv, RxGet
  PROVE  PbufInv'
<1>1. /\ RxRingInv /\ RxType /\ ThreadType /\ HandSound /\ FramesIntact
      /\ PbufsConserved
  BY DEF RxInv, PbufInv, RxRingInv
<1>2. /\ rpc = "drain" /\ pool > 0 /\ cur \in cpu /\ ~lapped
      /\ pool' = pool - 1 /\ rpc' = "copy"
      /\ seg' = seg + 1 /\ lapped' = (seg = RxCount)
      /\ fs' = IF seg = 0 THEN cur ELSE fs
      /\ UNCHANGED <<slot, inq, held>>
  BY DEF RxGet, GetFrame
<1> DEFINE e == [len |-> slot[cur], want |-> IF unread = << >> THEN None ELSE Head(unread)]
<1>3. hand' = <<e>> /\ hand = << >>
  BY <1>1, <1>2 DEF RxGet, HandSound, Looking
<1>4. e \in Empty
  <2>1. slot[cur] \in Frame \cup {None}
    BY <1>1 DEF RxType
  <2>2. unread # << >> => Head(unread) \in Frame
    BY <1>1 DEF RxType
  <2> QED
    BY <2>1, <2>2 DEF Empty
<1>5. RxCount \in Nat \ {0} /\ seg \in Nat /\ unread \in Seq(Frame)
  BY <1>1, <1>2, RxRingFacts
<1>6. ASSUME seg' = 1 PROVE ~lapped' /\ e.len = slot'[fs'] /\ e.want = slot'[fs']
  <2>1. seg = 0 /\ seg # RxCount
    BY <1>2, <1>5, <1>6
  <2>2. unread # << >>
    BY <1>1, <1>2, <2>1, CurOwned
  <2>3. 1 \in 1 .. Len(unread) /\ 1 - 1 = 0 /\ Head(unread) = unread[1]
    BY <1>5, <2>2
  <2>4. slot[From(cur, 1 - 1)] = unread[1]
    BY <1>1, <1>2, <2>3, RxRingFacts
  <2>5. From(cur, 0) = cur
    BY <1>1, RxPlaces DEF RxType
  <2>6. e.want = slot[cur] /\ e.len = slot[cur]
    BY <2>2, <2>3, <2>4, <2>5
  <2> HIDE DEF e
  <2>7. slot'[fs'] = slot[cur]
    BY <1>2, <2>1
  <2> QED
    BY <1>2, <2>1, <2>6, <2>7
<1> HIDE DEF e
<1>7. HandSound'
  <2>1. seg' > 0
    BY <1>2, <1>5
  <2> QED
    BY <1>2, <1>3, <1>4, <1>6, <2>1 DEF HandSound, Looking
<1>8. ThreadType' /\ FramesIntact'
  BY <1>1, <1>2 DEF ThreadType, FramesIntact
<1>9. PbufsConserved'
  <2>1. Len(hand) = 0 /\ Len(hand') = 1
    BY <1>3
  <2>2. Len(inq) \in Nat /\ pool \in Nat /\ held \in Nat
    BY <1>1 DEF ThreadType
  <2> QED
    BY <1>1, <1>2, <2>1, <2>2 DEF PbufsConserved
<1> QED
  BY <1>7, <1>8, <1>9 DEF PbufInv

\* eth_rx fills the pbuf from the first buffer.
LEMMA RxCopyPbuf ==
  ASSUME RxInv, RxCopy
  PROVE  PbufInv'
<1>1. RxType /\ ThreadType /\ HandSound /\ FramesIntact /\ PbufsConserved
  BY DEF RxInv, PbufInv, RxRingInv
<1>2. rpc = "copy" /\ rpc' = "input" /\ hand' = <<Filled>> /\ UNCHANGED stack
  BY DEF RxCopy
<1>3. PICK e \in Empty :
        hand = <<e>> /\ (seg = 1 => ~lapped /\ e.len = slot[fs] /\ e.want = slot[fs])
  BY <1>1, <1>2 DEF HandSound
<1>4. Filled = [intact |-> {e.len, slot[fs]} = {e.want}, merged |-> seg > 1]
  BY <1>3 DEF Filled
<1>5. Filled.intact = ({e.len, slot[fs]} = {e.want}) /\ Filled.merged = (seg > 1)
  BY <1>4
<1>6. Filled.intact \/ Filled.merged
  <2>1. seg \in Nat /\ seg > 0
    BY <1>1, <1>2, EthernetAssumption DEF RxType, HandSound
  <2>2. CASE seg = 1
    BY <1>3, <1>5, <2>2
  <2>3. CASE seg > 1
    BY <1>5, <2>3
  <2> QED
    BY <2>1, <2>2, <2>3
<1>7. Filled \in Pbuf
  BY <1>4 DEF Pbuf
<1>8. HandSound'
  BY <1>2, <1>6, <1>7 DEF HandSound, Looking
<1>9. ThreadType' /\ FramesIntact'
  BY <1>1, <1>2 DEF ThreadType, FramesIntact, stack
<1>10. PbufsConserved'
  <2>1. Len(hand) = 1 /\ Len(hand') = 1
    BY <1>2, <1>3
  <2> QED
    BY <1>1, <1>2, <2>1 DEF PbufsConserved, stack
<1> QED
  BY <1>8, <1>9, <1>10 DEF PbufInv

\* netif->input, lwIP: a pbuf goes to the mailbox of lwIP, or back to the pool.
LEMMA RxInputPbuf ==
  ASSUME RxInv, RxInput
  PROVE  PbufInv'
<1>1. ThreadType /\ HandSound /\ FramesIntact /\ PbufsConserved
  BY DEF RxInv, PbufInv
<1>2. /\ rpc = "input" /\ rpc' = "drain" /\ hand' = << >> /\ held' = held
      /\ inq' = IF Len(inq) < TcpipSize THEN inq \o hand ELSE inq
      /\ pool' = IF Len(inq) < TcpipSize THEN pool ELSE pool + 1
  BY DEF RxInput
<1>3. PICK p \in Pbuf : hand = <<p>> /\ (p.intact \/ p.merged)
  BY <1>1, <1>2 DEF HandSound
<1>4. Len(inq) \in Nat /\ pool \in Nat /\ held \in Nat /\ TcpipSize \in Nat /\ inq \in Seq(Pbuf)
  BY <1>1, EthernetAssumption DEF ThreadType
<1>5. HandSound'
  BY <1>2 DEF HandSound
<1>6. CASE Len(inq) < TcpipSize
  <2>1. inq' = inq \o <<p>> /\ pool' = pool
    BY <1>2, <1>3, <1>6
  <2>2. /\ inq' \in Seq(Pbuf) /\ Len(inq') = Len(inq) + 1
        /\ \A i \in 1 .. Len(inq) : inq'[i] = inq[i]
        /\ inq'[Len(inq) + 1] = p
    BY <1>4, <2>1
  <2>3. ThreadType'
    BY <1>1, <1>2, <1>4, <1>6, <2>1, <2>2 DEF ThreadType, Looking
  <2>4. ASSUME NEW i \in 1 .. Len(inq') PROVE inq'[i].intact \/ inq'[i].merged
    <3>1. CASE i \in 1 .. Len(inq)
      BY <1>1, <2>2, <3>1 DEF FramesIntact
    <3>2. CASE i = Len(inq) + 1
      BY <1>3, <2>2, <3>2
    <3> QED
      BY <1>4, <2>2, <3>1, <3>2
  <2>5. PbufsConserved'
    <3>1. Len(hand) = 1 /\ Len(hand') = 0
      BY <1>2, <1>3
    <3>2. /\ pool + Len(hand) + Len(inq) + held = PbufNum /\ held' = held
      BY <1>1, <1>2 DEF PbufsConserved
    <3> QED
      BY <1>4, <2>1, <2>2, <3>1, <3>2 DEF PbufsConserved
  <2> QED
    BY <1>5, <2>3, <2>4, <2>5 DEF PbufInv, FramesIntact
<1>7. CASE ~(Len(inq) < TcpipSize)
  <2>1. inq' = inq /\ pool' = pool + 1
    BY <1>2, <1>7
  <2>2. ThreadType' /\ FramesIntact'
    BY <1>1, <1>2, <1>4, <2>1 DEF ThreadType, FramesIntact, Looking
  <2>3. PbufsConserved'
    <3>1. Len(hand) = 1 /\ Len(hand') = 0
      BY <1>2, <1>3
    <3> QED
      BY <1>1, <1>2, <1>4, <2>1, <3>1 DEF PbufsConserved
  <2> QED
    BY <1>5, <2>2, <2>3 DEF PbufInv
<1> QED
  BY <1>6, <1>7

\* lwIP takes a frame from its mailbox, and frees a pbuf.
LEMMA StackPbuf ==
  ASSUME RxInv, StackTake \/ StackFree
  PROVE  PbufInv'
<1>1. ThreadType /\ HandSound /\ FramesIntact /\ PbufsConserved
  BY DEF RxInv, PbufInv
<1>2. UNCHANGED <<slot, cur, seg, fs, lapped, rpc, hand>>
  BY DEF StackTake, StackFree, ring, position
<1>3. HandSound'
  BY <1>1, <1>2 DEF HandSound
<1>4. Len(inq) \in Nat /\ pool \in Nat /\ held \in Nat /\ TcpipSize \in Nat /\ inq \in Seq(Pbuf)
  BY <1>1, EthernetAssumption DEF ThreadType
<1>5. Len(hand) \in Nat
  <2>1. hand = << >> \/ (\E x : hand = <<x>>)
    BY <1>1 DEF ThreadType, HandSound
  <2> QED
    BY <2>1
<1>6. CASE StackTake
  <2>1. inq # << >> /\ inq' = Tail(inq) /\ held' = held + 1 /\ pool' = pool
    BY <1>6 DEF StackTake
  <2>2. /\ inq' \in Seq(Pbuf) /\ Len(inq') = Len(inq) - 1
        /\ \A i \in 1 .. Len(inq) - 1 : inq'[i] = inq[i + 1] /\ i + 1 \in 1 .. Len(inq)
    BY <1>4, <2>1
  <2>3. ThreadType'
    <3>1. Len(inq') <= TcpipSize
      BY <1>1, <1>4, <2>2 DEF ThreadType
    <3> QED
      BY <1>1, <1>2, <1>4, <2>1, <2>2, <3>1 DEF ThreadType
  <2>4. FramesIntact'
    BY <1>1, <2>2 DEF FramesIntact
  <2>5. PbufsConserved'
    BY <1>1, <1>2, <1>4, <1>5, <2>1, <2>2 DEF PbufsConserved
  <2> QED
    BY <1>3, <2>3, <2>4, <2>5 DEF PbufInv
<1>7. CASE StackFree
  <2>1. held > 0 /\ held' = held - 1 /\ pool' = pool + 1 /\ inq' = inq
    BY <1>7 DEF StackFree
  <2>2. ThreadType' /\ FramesIntact'
    BY <1>1, <1>2, <1>4, <2>1 DEF ThreadType, FramesIntact
  <2>3. PbufsConserved'
    BY <1>1, <1>2, <1>4, <1>5, <2>1 DEF PbufsConserved
  <2> QED
    BY <1>3, <2>2, <2>3 DEF PbufInv
<1> QED
  BY <1>6, <1>7

\* The pbufs, over every step of the receive path.
LEMMA PbufStep ==
  ASSUME RxInv, RxNext
  PROVE  PbufInv'
<1>1. PbufInv
  BY DEF RxInv
<1>2. CASE IsrEnet
  BY <1>1, <1>2, PbufKept DEF IsrEnet, ring
<1>3. ASSUME NEW s \in Speed, PhyPoll(s) PROVE PbufInv'
  BY <1>1, <1>3, PbufKept DEF PhyPoll, ring
<1>4. CASE RxRecv \/ RxLinkTest \/ RxLinkStatus \/ RxSetLink \/ RxClear \/ RxEmpty
  <2>1. {rpc, rpc'} \subseteq {"recv"} \cup Looking /\ UNCHANGED <<hand, stack>>
    BY <1>4 DEF RxRecv, RxLinkTest, RxLinkStatus, RxSetLink, RxClear, RxEmpty, Looking
  <2> QED
    BY <1>1, <2>1, PbufKept
<1>5. CASE RxNoPbuf
  <2>1. {rpc, rpc'} \subseteq {"recv"} \cup Looking /\ UNCHANGED <<hand, stack>>
    BY <1>5 DEF RxNoPbuf, Looking
  <2> QED
    BY <1>1, <2>1, PbufKept
<1> QED
  BY <1>2, <1>3, <1>4, <1>5, DmaReceivePbuf, RxGetPbuf, RxCopyPbuf, RxInputPbuf, StackPbuf
     DEF RxNext, RxThread

\* A post leaves a message in the mailbox, whether it is taken or refused.
LEMMA PostLeavesOne ==
  ASSUME NEW n \in 0 .. MbSize
  PROVE  Post(n) \in 0 .. MbSize /\ Post(n) > 0
<1>1. MbSize \in Nat \ {0}
  BY EthernetAssumption
<1> QED
  BY <1>1 DEF Post

\* The signals, over every step of the receive path.  The ring decides whether
\* eth_rx returns with a frame in it: only when its descriptors are kept.
LEMMA SignalStep ==
  ASSUME RxInv, RxNext
  PROVE  SignalInv'
<1>1. RxRingInv /\ SignalType /\ NoticeIsOut /\ NoFrameForgotten /\ LinkSeen
  BY DEF RxInv, SignalInv
<1>2. ASSUME NEW f \in Frame, DmaReceive(f) PROVE SignalInv'
  <2>1. ri' = TRUE /\ UNCHANGED <<cur, seg, fs, lapped, notice, mb, changed, phy, up, rpc>>
    BY <1>2 DEF DmaReceive, position, link
  <2> QED
    BY <1>1, <2>1
       DEF SignalInv, SignalType, NoticeIsOut, NoFrameForgotten, LinkSeen
<1>3. CASE IsrEnet
  <2>1. /\ ri' = FALSE /\ UNCHANGED <<unread, seg, lapped, changed, phy, up, rpc>>
        /\ \/ notice /\ UNCHANGED <<notice, mb>>
           \/ notice' = TRUE /\ mb' = Post(mb)
    BY <1>3 DEF IsrEnet, DeviceReady, ring, position, link
  <2>2. mb' \in 0 .. MbSize /\ (mb' > 0 \/ (mb' = mb /\ notice))
    BY <1>1, <2>1, PostLeavesOne DEF SignalType
  <2>3. notice' \in BOOLEAN /\ (notice' => mb' > 0 \/ rpc \in {"link", "status", "set", "clear"})
    BY <1>1, <2>1, <2>2 DEF SignalType, NoticeIsOut
  <2>4. mb' > 0 \/ rpc # "recv"
    BY <1>1, <2>2 DEF NoticeIsOut
  <2>5. SignalType'
    BY <1>1, <2>1, <2>2, <2>3 DEF SignalType
  <2>6. LinkSeen'
    BY <1>1, <2>1, <2>2 DEF LinkSeen
  <2> QED
    BY <1>1, <2>1, <2>3, <2>4, <2>5, <2>6
       DEF SignalInv, NoticeIsOut, NoFrameForgotten
<1>4. ASSUME NEW s \in Speed, PhyPoll(s) PROVE SignalInv'
  <2>1. /\ phy' = s /\ changed' = TRUE /\ mb' = Post(mb)
        /\ UNCHANGED <<ri, notice, up, rpc>>
    BY <1>4 DEF PhyPoll
  <2>2. mb' \in 0 .. MbSize /\ mb' > 0
    BY <1>1, <2>1, PostLeavesOne DEF SignalType
  <2> QED
    BY <1>1, <2>1, <2>2
       DEF SignalInv, SignalType, NoticeIsOut, NoFrameForgotten, LinkSeen
<1>5. CASE RxRecv
  <2>1. /\ rpc' = "link" /\ mb' = mb - 1 /\ mb > 0
        /\ UNCHANGED <<ri, notice, changed, phy, up>>
    BY <1>5 DEF RxRecv, link
  <2>2. mb' \in 0 .. MbSize
    BY <1>1, <2>1, EthernetAssumption DEF SignalType
  <2> QED
    BY <1>1, <1>5, <2>1, <2>2
       DEF SignalInv, SignalType, NoticeIsOut, NoFrameForgotten, LinkSeen, RxRecv
<1>6. CASE RxLinkTest \/ RxLinkStatus \/ RxSetLink \/ RxClear
  <2>1. CASE RxLinkTest
    <3>1. /\ rpc = "link" /\ rpc' = IF changed THEN "status" ELSE "clear"
          /\ UNCHANGED <<ri, notice, mb, changed, phy, up>>
      BY <2>1 DEF RxLinkTest, signals, link
    <3> QED
      BY <1>1, <3>1
         DEF SignalInv, SignalType, NoticeIsOut, NoFrameForgotten, LinkSeen
  <2>2. CASE RxLinkStatus
    <3>1. /\ rpc = "status" /\ rpc' = "set" /\ changed' = FALSE
          /\ UNCHANGED <<ri, notice, mb, phy, up>>
      BY <2>2 DEF RxLinkStatus, signals
    <3> QED
      BY <1>1, <3>1
         DEF SignalInv, SignalType, NoticeIsOut, NoFrameForgotten, LinkSeen
  <2>3. CASE RxSetLink
    <3>1. /\ rpc = "set" /\ rpc' = "clear" /\ up' = TRUE
          /\ UNCHANGED <<ri, notice, mb, phy, changed>>
      BY <2>3 DEF RxSetLink, signals
    <3> QED
      BY <1>1, <3>1
         DEF SignalInv, SignalType, NoticeIsOut, NoFrameForgotten, LinkSeen
  <2>4. CASE RxClear
    <3>1. /\ rpc = "clear" /\ rpc' = "drain" /\ notice' = FALSE
          /\ UNCHANGED <<ri, mb, changed, phy, up>>
      BY <2>4 DEF RxClear, link
    <3> QED
      BY <1>1, <3>1
         DEF SignalInv, SignalType, NoticeIsOut, NoFrameForgotten, LinkSeen
  <2> QED
    BY <1>6, <2>1, <2>2, <2>3, <2>4
<1>7. CASE RxEmpty
  <2>1. /\ rpc = "drain" /\ rpc' = "recv" /\ cur \notin cpu
        /\ UNCHANGED <<unread, seg, lapped, ri, notice, mb, changed, phy, up>>
    BY <1>7 DEF RxEmpty, ring, position, signals, link
  <2>2. unread # << >> => lapped
    BY <1>1, <2>1, CurOwned
  <2> QED
    BY <1>1, <2>1, <2>2
       DEF SignalInv, SignalType, NoticeIsOut, NoFrameForgotten, LinkSeen
<1>8. CASE RxNoPbuf
  <2>1. /\ rpc = "drain" /\ rpc' = "recv" /\ seg' = seg + 1 /\ ~lapped
        /\ UNCHANGED <<ri, notice, mb, changed, phy, up>>
    BY <1>8 DEF RxNoPbuf, GetFrame, signals, link
  <2>2. seg' > 0
    BY <1>1, <2>1, RxRingFacts
  <2> QED
    BY <1>1, <2>1, <2>2
       DEF SignalInv, SignalType, NoticeIsOut, NoFrameForgotten, LinkSeen, Starved
<1>9. CASE RxGet \/ RxCopy \/ RxInput
  <2>1. /\ rpc \in {"drain", "copy", "input"} /\ rpc' \in {"drain", "copy", "input"}
        /\ UNCHANGED <<ri, notice, mb, changed, phy, up>>
    BY <1>9 DEF RxGet, RxCopy, RxInput, signals, link
  <2> QED
    BY <1>1, <2>1
       DEF SignalInv, SignalType, NoticeIsOut, NoFrameForgotten, LinkSeen
<1>10. CASE StackTake \/ StackFree
  <2>1. UNCHANGED <<unread, seg, lapped, ri, notice, mb, changed, phy, up, rpc>>
    BY <1>10 DEF StackTake, StackFree, ring, position, signals, link
  <2> QED
    BY <1>1, <2>1
       DEF SignalInv, SignalType, NoticeIsOut, NoFrameForgotten, LinkSeen, Starved
<1> QED
  BY <1>2, <1>3, <1>4, <1>5, <1>6, <1>7, <1>8, <1>9, <1>10 DEF RxNext, RxThread

\* Every step of the interface.
LEMMA RxStep ==
  ASSUME RxInv, [Next]_vars
  PROVE  RxInv'
<1>1. CASE RxNext
  BY <1>1, RxRingStep, PbufStep, SignalStep DEF RxInv
<1>2. CASE UNCHANGED rxVars
  <2>1. UNCHANGED <<ring, position, signals, link, rpc, hand, stack>>
    BY <1>2 DEF rxVars
  <2>2. RxRingInv'
    BY <2>1 DEF RxInv, RxRingInv, RxType, RxRingSound, Base, From, Kept, ring, position
  <2>3. PbufInv'
    BY <2>1, PbufKept DEF RxInv, ring
  <2>4. SignalInv'
    BY <2>1 DEF RxInv, SignalInv, SignalType, NoticeIsOut, NoFrameForgotten, LinkSeen,
                Starved, signals, link, ring, position
  <2> QED
    BY <2>2, <2>3, <2>4 DEF RxInv
<1> QED
  BY <1>1, <1>2 DEF Next, Rx, Tx, vars

PathType == path \in {"rx", "tx"}

\* What the invariants say of the data of the receive path.
LEMMA RxInvSound == RxInv /\ TxInv /\ PathType => RingSound
<1> SUFFICES ASSUME RxInv, TxInv, PathType PROVE RingSound
  OBVIOUS
<1>1. /\ RxRingInv /\ RxType /\ RxRingSound
      /\ ThreadType /\ HandSound /\ FramesIntact /\ PbufsConserved
      /\ SignalType /\ TxType
  BY DEF RxInv, RxRingInv, PbufInv, SignalInv, TxInv
<1>2. TypeOK
  <2>1. /\ cpu \subseteq RxRing /\ slot \in [RxRing -> Frame \cup {None}]
        /\ {dma, cur, fs} \subseteq RxRing /\ seg \in 0 .. RxCount + 1
        /\ unread \in Seq(Frame)
    BY <1>1 DEF RxType
  <2>2. {ri, notice, changed, up, lapped} \subseteq BOOLEAN
    BY <1>1, Zenon DEF RxType, SignalType
  <2>3. mb \in 0 .. MbSize /\ phy \in Speed \cup {None}
    BY <1>1 DEF SignalType
  <2>4. rpc \in {"recv", "link", "status", "set", "clear", "drain", "copy", "input"}
    BY <1>1 DEF ThreadType, Looking
  <2>5. inq \in Seq(Pbuf) /\ Len(inq) <= TcpipSize
    BY <1>1 DEF ThreadType
  <2>6. hand \in Seq(Empty \cup Pbuf) /\ (hand = << >>) = (rpc \notin {"copy", "input"})
    <3>1. CASE rpc = "copy"
      <4>1. PICK e \in Empty : hand = <<e>>
        BY <1>1, <3>1 DEF HandSound
      <4>2. hand # << >> /\ hand \in Seq(Empty \cup Pbuf)
        BY <4>1
      <4> QED
        BY <3>1, <4>2
    <3>2. CASE rpc = "input"
      <4>1. PICK p \in Pbuf : hand = <<p>>
        BY <1>1, <3>2 DEF HandSound
      <4>2. hand # << >> /\ hand \in Seq(Empty \cup Pbuf)
        BY <4>1
      <4> QED
        BY <3>2, <4>2
    <3>3. CASE rpc \notin {"copy", "input"}
      <4>1. hand = << >>
        BY <1>1, <3>3 DEF HandSound, ThreadType
      <4> QED
        BY <3>3, <4>1
    <3> QED
      BY <3>1, <3>2, <3>3
  <2>7. /\ spc \in [Sender -> {"idle", "sent", "wait", "woken"}]
        /\ frame \in [Sender -> Frame \cup {None}] /\ comp \subseteq Sender
        /\ txmb \in Seq(Sender) /\ Len(txmb) <= MbSize
        /\ tpc \in {"recv", "copy", "give", "ack", "done"} /\ msg \in Sender \cup {None}
        /\ dmaown \subseteq TxRing /\ tbuf \in [TxRing -> Frame \cup {None}]
        /\ {tcur, tdma} \subseteq TxRing /\ given \in Seq(Frame)
    BY <1>1 DEF TxType
  <2>8. {wrong, overrun} \subseteq BOOLEAN /\ (msg = None) = (tpc = "recv")
    BY <1>1, Zenon DEF TxType
  <2> QED
    BY <2>1, <2>2, <2>3, <2>4, <2>5, <2>6, <2>7, <2>8, Zenon DEF TypeOK, PathType
<1>3. RingInStep
  <2>1. SUFFICES ASSUME ~lapped
                 PROVE  /\ cpu = Kept(Base, seg + Len(unread))
                        /\ \A i \in 1 .. Len(unread) : slot[(cur + i - 1) % RxCount] = unread[i]
    BY DEF RingInStep, Base
  <2>2. cur \in Nat /\ \A i \in 1 .. Len(unread) : cur + i - 1 = cur + (i - 1)
    <3>1. cur \in Nat /\ Len(unread) \in Nat
      BY <1>1, EthernetAssumption DEF RxType, RxRing
    <3> QED
      BY <3>1
  <2>3. \A i \in 1 .. Len(unread) : slot[From(cur, i - 1)] = unread[i]
    BY <1>1, <2>1 DEF RxRingSound
  <2> QED
    BY <1>1, <2>1, <2>2, <2>3 DEF RxRingSound, From
<1> QED
  BY <1>1, <1>2, <1>3 DEF RingSound

\* The interrupt handler, the receive thread and the DMA: descriptors, frames
\* and pbufs are each where the driver believes them to be, for every size of
\* the ring, of the pool and of the mailboxes.
THEOREM RingCorrect == Spec => []RingSound
<1>1. Init => RxInv /\ TxInv /\ PathType
  BY RxInit, TxInit DEF Init, PathType
<1>2. RxInv /\ TxInv /\ PathType /\ [Next]_vars => (RxInv /\ TxInv /\ PathType)'
  BY RxStep, TxStep DEF PathType, Next, Rx, Tx, vars
<1>3. RxInv /\ TxInv /\ PathType => RingSound
  BY RxInvSound
<1> QED
  BY <1>1, <1>2, <1>3, PTL DEF Spec

\* The signals: a marked notice is on its way, and a frame in the ring is going
\* to be looked at, except after a lack of pbufs.
THEOREM SignalsCorrect == Spec => []FramesAnnounced
<1>1. Init => RxInv
  BY RxInit
<1>2. RxInv /\ [Next]_vars => RxInv'
  BY RxStep
<1>3. RxInv => FramesAnnounced
  BY DEF RxInv, SignalInv, FramesAnnounced
<1> QED
  BY <1>1, <1>2, <1>3, PTL DEF Spec

\* The poll of the PHY: no change of the link is lost between the timer and the
\* receive thread, which share a flag and a mailbox that may refuse.
THEOREM LinkCorrect == Spec => []LinkSeen
<1>1. Init => RxInv
  BY RxInit
<1>2. RxInv /\ [Next]_vars => RxInv'
  BY RxStep
<1>3. RxInv => LinkSeen
  BY DEF RxInv, SignalInv
<1> QED
  BY <1>1, <1>2, <1>3, PTL DEF Spec
=============================================================================
