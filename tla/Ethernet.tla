------------------------------ MODULE Ethernet ------------------------------
(***************************************************************************)
(* The receive and the transmit path of the Ethernet interface              *)
(* (src/libraries/drivers/drv_enet.c, the descriptor functions of           *)
(* src/libraries/hpm_sdk/drivers/src/hpm_enet_drv.c, the two threads of     *)
(* src/rt-thread/components/net/lwip-2.1.2/src/netif/ethernetif.c, and the  *)
(* completion of src/rt-thread/components/drivers/src/completion.c).         *)
(*                                                                         *)
(* Receiving: the DMA fills the descriptors of a ring and raises RI; the    *)
(* interrupt handler posts the device to a mailbox unless a notice is out;  *)
(* the receive thread copies frame after frame into pbufs, gives the        *)
(* descriptors back and hands the pbufs to lwIP.  A poll of the PHY posts   *)
(* to the same mailbox.                                                     *)
(*                                                                         *)
(* Sending: ethernetif_linkoutput posts a message on its own stack to the   *)
(* transmit thread and waits for the completion in it; the thread copies    *)
(* the frame into the ring of the DMA and completes the message.            *)
(*                                                                         *)
(* A frame fits one buffer (ENET_RX_BUFF_SIZE is the largest frame), so fs  *)
(* and ls are 1 in every descriptor.  The mailboxes are bounded queues, as  *)
(* Mailbox shows them to be.                                                *)
(*                                                                         *)
(*   rpc  the receive thread: "recv", "link" before the test of             *)
(*        link_changed, "status" before the section behind it, "set" in     *)
(*        netifapi_netif_set_link_up, "clear" before rx_notice is cleared,  *)
(*        "drain" before eth_rx, "copy" in it, "input" before netif->input  *)
(*   tpc  the transmit thread: "recv", "copy" and "give" in eth_tx, "ack"   *)
(*        before and "done" behind the test of rt_completion_done           *)
(*   spc  a sender: "idle", "sent" before and "wait" in rt_completion_wait, *)
(*        "woken" before it clears the flag                                *)
(*                                                                         *)
(* The two paths share no state.  A behaviour takes the steps of one of     *)
(* them, `path', which every behaviour of both is an interleaving of.       *)
(***************************************************************************)
EXTENDS Naturals, FiniteSets, SequencesExt

CONSTANTS Frame,      \* the contents of a frame
          RxCount,    \* ENET_RX_BUFF_COUNT
          TxCount,    \* ENET_TX_BUFF_COUNT
          MbSize,     \* RT_LWIP_ETHTHREAD_MBOX_SIZE
          PbufNum,    \* PBUF_POOL_SIZE
          TcpipSize,  \* TCPIP_MBOX_SIZE
          Speed,      \* the speeds and duplex modes of the PHY
          None,       \* no link seen yet, no sender, no frame
          Sender      \* the threads that send

ASSUME EthernetAssumption ==
  /\ {RxCount, TxCount, MbSize, PbufNum, TcpipSize} \subseteq Nat \ {0}
  /\ None \notin Speed \cup Sender \cup Frame

VARIABLES cpu,      \* receive descriptors with own = 0
          slot,     \* slot[i]: the frame in descriptor i, its length included
          dma,      \* the descriptor the DMA fills next
          cur,      \* rx_desc_list_cur
          seg, fs,  \* rx_frame_info.seg_count and .fs_rx_desc
          ri,       \* RI of DMA_STATUS
          notice,   \* rx_notice
          mb,       \* the number of messages in eth_rx_thread_mb
          changed,  \* link_changed
          phy,      \* phy_info: what the last poll reported
          up,       \* the link of the netif is up
          rpc, hand,     \* the receive thread and the pbuf in its hands
          pool, inq, held, \* free pbufs, the mailbox of lwIP, pbufs lwIP keeps
          unread,   \* history: frames in the ring that eth_rx has not got
          lapped    \* history: eth_rx got a descriptor it still keeps

VARIABLES spc, frame, \* the senders, and what they send
          comp,     \* senders whose message is RT_COMPLETED
          txmb,     \* eth_tx_thread_mb
          tpc, msg, \* the transmit thread and its message
          dmaown,   \* transmit descriptors with own = 1
          tbuf,     \* tbuf[i]: the frame in the buffer of descriptor i
          tcur,     \* tx_desc_list_cur
          tdma,     \* the descriptor the DMA sends next
          given,    \* history: frames given to the DMA and not sent
          wrong,    \* history: the DMA sent another frame than the next of them
          overrun,  \* history: a buffer was filled that the DMA owned
          path      \* "rx" or "tx"

ring == <<cpu, slot, dma, unread>>
position == <<cur, seg, fs, lapped>>
signals == <<ri, notice, mb>>
link == <<changed, phy, up>>
stack == <<pool, inq, held>>
rxVars == <<ring, position, signals, link, rpc, hand, stack>>
senders == <<spc, frame, comp, txmb>>
txring == <<dmaown, tbuf, tcur, tdma, given, wrong, overrun>>
txVars == <<senders, tpc, msg, txring>>
vars == <<rxVars, txVars, path>>

RxRing == 0 .. RxCount - 1
TxRing == 0 .. TxCount - 1

\* A pbuf while eth_rx fills it (the length it was allocated with, the frame that
\* was next in the ring) and then: whether it is that frame, bytes and length,
\* and whether eth_rx went over kept descriptors to get it.
Empty == [len : Frame \cup {None}, want : Frame \cup {None}]
Pbuf == [intact : BOOLEAN, merged : BOOLEAN]

TypeOK ==
  /\ cpu \subseteq RxRing /\ slot \in [RxRing -> Frame \cup {None}]
  /\ {dma, cur, fs} \subseteq RxRing /\ seg \in 0 .. RxCount + 1
  /\ {ri, notice, changed, up, lapped} \subseteq BOOLEAN
  /\ mb \in 0 .. MbSize /\ phy \in Speed \cup {None}
  /\ rpc \in {"recv", "link", "status", "set", "clear", "drain", "copy", "input"}
  /\ hand \in Seq(Empty \cup Pbuf) /\ inq \in Seq(Pbuf) /\ Len(inq) <= TcpipSize
  /\ unread \in Seq(Frame)
  /\ spc \in [Sender -> {"idle", "sent", "wait", "woken"}]
  /\ frame \in [Sender -> Frame \cup {None}] /\ comp \subseteq Sender
  /\ txmb \in Seq(Sender) /\ Len(txmb) <= MbSize
  /\ tpc \in {"recv", "copy", "give", "ack", "done"} /\ msg \in Sender \cup {None}
  /\ dmaown \subseteq TxRing /\ tbuf \in [TxRing -> Frame \cup {None}]
  /\ {tcur, tdma} \subseteq TxRing /\ given \in Seq(Frame)
  /\ {wrong, overrun} \subseteq BOOLEAN
  /\ path \in {"rx", "tx"}
  /\ (hand = << >>) = (rpc \notin {"copy", "input"})
  /\ (msg = None) = (tpc = "recv")

\* enet_dma_rx_desc_chain_init, enet_dma_tx_desc_chain_init, eth_device_init.
Init ==
  /\ cpu = {} /\ slot = [i \in RxRing |-> None] /\ dma = 0 /\ unread = << >>
  /\ cur = 0 /\ seg = 0 /\ fs = 0 /\ lapped = FALSE
  /\ ri = FALSE /\ notice = FALSE /\ mb = 0
  /\ changed = FALSE /\ phy = None /\ up = FALSE
  /\ rpc = "recv" /\ hand = << >>
  /\ pool = PbufNum /\ inq = << >> /\ held = 0
  /\ spc = [s \in Sender |-> "idle"] /\ frame = [s \in Sender |-> None]
  /\ comp = {} /\ txmb = << >>
  /\ tpc = "recv" /\ msg = None
  /\ dmaown = {} /\ tbuf = [i \in TxRing |-> None] /\ tcur = 0 /\ tdma = 0
  /\ given = << >> /\ wrong = FALSE /\ overrun = FALSE
  /\ path \in {"rx", "tx"}

-----------------------------------------------------------------------------
(***************************************************************************)
(* Receiving: the DMA, the interrupt handlers                              *)
(***************************************************************************)

\* The device is posted to the receive thread; a full mailbox refuses it, which
\* nobody but the log learns.
Post(n) == IF n < MbSize THEN n + 1 ELSE n

\* A frame arrives.  The DMA stores it in its descriptor and raises RI, or
\* misses it when the descriptor is not its own.
DmaReceive(f) ==
  /\ dma \notin cpu
  /\ cpu' = cpu \cup {dma}
  /\ slot' = [slot EXCEPT ![dma] = f]
  /\ dma' = (dma + 1) % RxCount
  /\ unread' = Append(unread, f)
  /\ ri' = TRUE
  /\ UNCHANGED <<position, notice, mb, link, rpc, hand, stack>>

\* eth_device_ready.
DeviceReady ==
  IF notice THEN UNCHANGED <<notice, mb>>
  ELSE notice' = TRUE /\ mb' = Post(mb)

\* isr_enet1 and eth_rx_callback.
IsrEnet ==
  /\ ri
  /\ ri' = FALSE
  /\ DeviceReady
  /\ UNCHANGED <<ring, position, link, rpc, hand, stack>>

\* Fault: the change is posted, not marked.
PhyPollUnmarked(s) ==
  /\ s # phy
  /\ phy' = s /\ mb' = Post(mb)
  /\ UNCHANGED <<ring, position, ri, notice, changed, up, rpc, hand, stack>>

\* phy_status_polling, a hard timer, and eth_device_linkchange.  It reports
\* nothing when the link is down, so link_status is 1 from the first report on.
PhyPoll(s) ==
  /\ s # phy
  /\ phy' = s
  /\ changed' = TRUE
  /\ mb' = Post(mb)
  /\ UNCHANGED <<ring, position, ri, notice, up, rpc, hand, stack>>

-----------------------------------------------------------------------------
(***************************************************************************)
(* Receiving: eth_rx_thread_entry                                          *)
(***************************************************************************)

RxRecv ==
  /\ rpc = "recv" /\ mb > 0
  /\ mb' = mb - 1
  /\ rpc' = "link"
  /\ UNCHANGED <<ring, position, ri, notice, link, hand, stack>>

RxLinkTest ==
  /\ rpc = "link"
  /\ rpc' = IF changed THEN "status" ELSE "clear"
  /\ UNCHANGED <<ring, position, signals, link, hand, stack>>

RxLinkStatus ==
  /\ rpc = "status"
  /\ changed' = FALSE
  /\ rpc' = "set"
  /\ UNCHANGED <<ring, position, signals, phy, up, hand, stack>>

RxSetLink ==
  /\ rpc = "set"
  /\ up' = TRUE
  /\ rpc' = "clear"
  /\ UNCHANGED <<ring, position, signals, changed, phy, hand, stack>>

RxClear ==
  /\ rpc = "clear"
  /\ notice' = FALSE
  /\ rpc' = "drain"
  /\ UNCHANGED <<ring, position, ri, mb, link, hand, stack>>

\* eth_rx finds that the DMA owns the next descriptor.
RxEmpty ==
  /\ rpc = "drain" /\ cur \notin cpu
  /\ rpc' = "recv"
  /\ UNCHANGED <<ring, position, signals, link, hand, stack>>

\* enet_get_received_frame_interrupt: one more descriptor.  Bound: the model
\* follows the driver no further once a kept descriptor is got again.
GetFrame ==
  /\ cur \in cpu /\ ~lapped
  /\ seg' = seg + 1
  /\ fs' = IF seg = 0 THEN cur ELSE fs
  /\ cur' = (cur + 1) % RxCount
  /\ lapped' = (seg = RxCount)
  /\ unread' = IF unread = << >> THEN unread ELSE Tail(unread)

\* Fault: wait for a pbuf.
RxRetry ==
  /\ rpc = "drain" /\ cur \in cpu /\ pool = 0
  /\ UNCHANGED rxVars

\* eth_rx without a pbuf: NULL, and the descriptors stay with the CPU.
RxNoPbuf ==
  /\ rpc = "drain" /\ pool = 0
  /\ GetFrame
  /\ rpc' = "recv"
  /\ UNCHANGED <<cpu, slot, dma, signals, link, hand, stack>>

\* The part of eth_rx up to the allocation of a pbuf for the frame.
RxGet ==
  /\ rpc = "drain" /\ pool > 0
  /\ GetFrame
  /\ pool' = pool - 1
  /\ hand' = <<[len |-> slot[cur],
               want |-> IF unread = << >> THEN None ELSE Head(unread)]>>
  /\ rpc' = "copy"
  /\ UNCHANGED <<cpu, slot, dma, signals, link, inq, held>>

\* The first seg_count descriptors from fs_rx_desc on.
Kept(first, n) == {i \in RxRing : (i + RxCount - first) % RxCount < n}

\* The pbuf gets as many bytes as it is long, from the buffer of fs_rx_desc.
Filled == [intact |-> {hand[1].len, slot[fs]} = {hand[1].want}, merged |-> seg > 1]

\* Fault: the segment count is kept.
RxCopyKeepCount ==
  /\ rpc = "copy"
  /\ hand' = <<Filled>>
  /\ cpu' = cpu \ Kept(fs, seg)
  /\ rpc' = "input"
  /\ UNCHANGED <<slot, dma, unread, position, signals, link, stack>>

\* The rest of eth_rx: copy from the first buffer, give the descriptors back.
RxCopy ==
  /\ rpc = "copy"
  /\ hand' = <<Filled>>
  /\ cpu' = cpu \ Kept(fs, seg)
  /\ seg' = 0
  /\ rpc' = "input"
  /\ UNCHANGED <<slot, dma, unread, cur, fs, lapped, signals, link, stack>>

\* Fault: one frame per message.
RxInputOnce ==
  /\ rpc = "input"
  /\ inq' = IF Len(inq) < TcpipSize THEN inq \o hand ELSE inq
  /\ pool' = IF Len(inq) < TcpipSize THEN pool ELSE pool + 1
  /\ hand' = << >>
  /\ rpc' = "recv"
  /\ UNCHANGED <<ring, position, signals, link, held>>

\* netif->input is tcpip_input, which posts to the mailbox of lwIP or fails.
RxInput ==
  /\ rpc = "input"
  /\ inq' = IF Len(inq) < TcpipSize THEN inq \o hand ELSE inq
  /\ pool' = IF Len(inq) < TcpipSize THEN pool ELSE pool + 1
  /\ hand' = << >>
  /\ rpc' = "drain"
  /\ UNCHANGED <<ring, position, signals, link, held>>

\* lwIP takes a frame, keeps it as long as it likes, and frees it.
StackTake ==
  /\ inq # << >>
  /\ inq' = Tail(inq)
  /\ held' = held + 1
  /\ UNCHANGED <<ring, position, signals, link, rpc, hand, pool>>

StackFree ==
  /\ held > 0
  /\ held' = held - 1
  /\ pool' = pool + 1
  /\ UNCHANGED <<ring, position, signals, link, rpc, hand, inq>>

RxThread ==
  \/ RxRecv \/ RxLinkTest \/ RxLinkStatus \/ RxSetLink \/ RxClear
  \/ RxEmpty \/ RxNoPbuf \/ RxGet \/ RxCopy \/ RxInput

RxNext ==
  \/ \E f \in Frame : DmaReceive(f)
  \/ IsrEnet
  \/ \E s \in Speed : PhyPoll(s)
  \/ RxThread
  \/ StackTake
  \/ StackFree

-----------------------------------------------------------------------------
(***************************************************************************)
(* Sending                                                                 *)
(***************************************************************************)

\* ethernetif_linkoutput up to rt_mb_send.  With the mailbox full it returns
\* ERR_OK all the same and the frame is gone.
LinkOutput(s, f) ==
  /\ spc[s] = "idle"
  /\ comp' = comp \ {s}
  /\ IF Len(txmb) < MbSize
     THEN /\ txmb' = Append(txmb, s)
          /\ spc' = [spc EXCEPT ![s] = "sent"]
          /\ frame' = [frame EXCEPT ![s] = f]
     ELSE UNCHANGED <<txmb, spc, frame>>
  /\ UNCHANGED <<tpc, msg, txring>>

Return(s) ==
  /\ comp' = comp \ {s}
  /\ spc' = [spc EXCEPT ![s] = "idle"]
  /\ frame' = [frame EXCEPT ![s] = None]

\* rt_completion_wait: clear the flag and return, or suspend.
CompletionWait(s) ==
  /\ spc[s] = "sent"
  /\ \/ s \in comp /\ Return(s)
     \/ s \notin comp /\ spc' = [spc EXCEPT ![s] = "wait"] /\ UNCHANGED <<comp, frame>>
  /\ UNCHANGED <<txmb, tpc, msg, txring>>

\* Its rest, once the thread is resumed.
WaitReturns(s) ==
  /\ spc[s] = "woken"
  /\ Return(s)
  /\ UNCHANGED <<txmb, tpc, msg, txring>>

\* eth_tx_thread_entry: rt_mb_recv.
TxRecv ==
  /\ tpc = "recv" /\ txmb # << >>
  /\ msg' = Head(txmb)
  /\ txmb' = Tail(txmb)
  /\ tpc' = "copy"
  /\ UNCHANGED <<spc, frame, comp, txring>>

\* rt_hpm_eth_tx copies the frame into the buffer of the next descriptor,
\* whoever owns it.
TxCopy ==
  /\ tpc = "copy"
  /\ tbuf' = [tbuf EXCEPT ![tcur] = frame[msg]]
  /\ overrun' = (overrun \/ tcur \in dmaown)
  /\ tpc' = "give"
  /\ UNCHANGED <<senders, msg, dmaown, tcur, tdma, given, wrong>>

\* Fault: the descriptor is given to the DMA and used again.
TxGiveStay ==
  /\ tpc = "give"
  /\ dmaown' = dmaown \cup {tcur}
  /\ given' = IF overrun THEN given ELSE Append(given, frame[msg])
  /\ tpc' = "ack"
  /\ UNCHANGED <<senders, msg, tbuf, tcur, tdma, wrong, overrun>>

\* enet_prepare_transmission_descriptors.
TxGive ==
  /\ tpc = "give"
  /\ dmaown' = dmaown \cup {tcur}
  /\ tcur' = (tcur + 1) % TxCount
  /\ given' = IF overrun THEN given ELSE Append(given, frame[msg])
  /\ tpc' = "ack"
  /\ UNCHANGED <<senders, msg, tbuf, tdma, wrong, overrun>>

\* rt_completion_done: the test of the flag, interrupts enabled.
DoneTest ==
  /\ tpc = "ack"
  /\ IF msg \in comp THEN tpc' = "recv" /\ msg' = None
     ELSE tpc' = "done" /\ UNCHANGED msg
  /\ UNCHANGED <<senders, txring>>

\* Fault: the flag is set only if somebody waits.
DoneIfWaiting ==
  /\ tpc = "done"
  /\ comp' = IF spc[msg] = "wait" THEN comp \cup {msg} ELSE comp
  /\ spc' = [spc EXCEPT ![msg] = IF @ = "wait" THEN "woken" ELSE @]
  /\ tpc' = "recv" /\ msg' = None
  /\ UNCHANGED <<frame, txmb, txring>>

\* Its section: set the flag, resume the thread that waits.
Done ==
  /\ tpc = "done"
  /\ comp' = comp \cup {msg}
  /\ spc' = [spc EXCEPT ![msg] = IF @ = "wait" THEN "woken" ELSE @]
  /\ tpc' = "recv" /\ msg' = None
  /\ UNCHANGED <<frame, txmb, txring>>

\* The DMA sends the next frame it owns.
DmaSend ==
  /\ tdma \in dmaown
  /\ dmaown' = dmaown \ {tdma}
  /\ tdma' = (tdma + 1) % TxCount
  /\ given' = IF given = << >> THEN given ELSE Tail(given)
  /\ wrong' = (wrong \/ given = << >> \/ Head(given) # tbuf[tdma])
  /\ UNCHANGED <<senders, tpc, msg, tbuf, tcur, overrun>>

TxThread == TxRecv \/ TxCopy \/ TxGive \/ DoneTest \/ Done

SenderStep(s) == CompletionWait(s) \/ WaitReturns(s)

TxNext ==
  \/ \E s \in Sender : (\E f \in Frame : LinkOutput(s, f)) \/ SenderStep(s)
  \/ TxThread
  \/ DmaSend

-----------------------------------------------------------------------------
Rx(A) == path = "rx" /\ A /\ UNCHANGED <<txVars, path>>
Tx(A) == path = "tx" /\ A /\ UNCHANGED <<rxVars, path>>

Next == Rx(RxNext) \/ Tx(TxNext)

Spec == Init /\ [][Next]_vars

\* The interrupt handler and the two threads run; so does a sender, once it is
\* resumed.  Nothing is assumed of the DMA, of the PHY and of lwIP.
FairSpec ==
  /\ Spec
  /\ WF_vars(Rx(IsrEnet)) /\ WF_vars(Rx(RxThread))
  /\ WF_vars(Tx(TxThread))
  /\ \A s \in Sender : WF_vars(Tx(SenderStep(s)))

-----------------------------------------------------------------------------
\* A notice that is marked is on its way: no further frame could announce
\* itself otherwise.  A post that the full mailbox refused does no harm, because
\* the messages in it are for the same device.
NoticeIsOut == notice => mb > 0 \/ rpc \in {"link", "status", "set", "clear"}

\* eth_rx keeps descriptors from calls that found no pbuf.
Starved == seg > 0 /\ rpc # "copy"

\* A frame in the ring is announced or the receive thread is going to look.
\* The exceptions are what a lack of pbufs leaves behind (drv_enet.c:316): the
\* loop ends with frames in the ring, until another one arrives, ...
NoFrameForgotten ==
  unread # << >> => ri \/ mb > 0 \/ rpc # "recv" \/ Starved \/ lapped

\* ... and once the whole ring is kept and gone through again, the driver and
\* the DMA stand at different descriptors for good.  Before that, the
\* descriptors that eth_rx keeps and those it will read next are all that the
\* CPU owns, in the order of the ring, with the frames in the order of arrival.
RingInStep ==
  ~lapped =>
    /\ cpu = Kept(IF seg = 0 THEN cur ELSE fs, seg + Len(unread))
    /\ \A i \in 1 .. Len(unread) : slot[(cur + i - 1) % RxCount] = unread[i]

\* What lwIP gets is the frame that arrived, bytes and length, unless eth_rx
\* went over descriptors that it had kept for want of a pbuf: then it hands the
\* bytes of an old frame over with the length of a new one.
FramesIntact ==
  \A i \in 1 .. Len(inq) : inq[i].intact \/ inq[i].merged

\* Every pbuf is free, in the hands of the receive thread, or with lwIP.
PbufsConserved == pool + Len(hand) + Len(inq) + held = PbufNum

\* A change of the link is marked until the receive thread has seen it, a
\* message makes it look, and a link that came up is up in the end.
LinkSeen ==
  /\ changed => mb > 0 \/ rpc \in {"link", "status"}
  /\ phy # None => up \/ changed \/ rpc = "set"

\* A descriptor with a frame is given back to the DMA.
FramesRead ==
  \A i \in RxRing : i \in cpu ~> (i \notin cpu \/ Starved \/ lapped)

\* The message is on the stack of its sender and its pbuf belongs to the
\* caller: nobody refers to either once ethernetif_linkoutput has returned.
MessageAlive ==
  \A s \in Sender :
    spc[s] = "idle" => msg # s /\ ~Contains(txmb, s)

\* Frames leave in the order they were given to the driver, each once, and the
\* descriptors the DMA owns are those of the frames it has yet to send, from the
\* one it stands at on; unless the ring was full: rt_hpm_eth_tx does not look who
\* owns the first buffer (drv_enet.c:191).
SentInOrder ==
  \/ overrun
  \/ ~wrong /\ dmaown = {(tdma + i) % TxCount : i \in 0 .. Len(given) - 1}

\* ethernetif_linkoutput returns.
SendReturns == \A s \in Sender : spc[s] # "idle" ~> spc[s] = "idle"

\* The signals of the receive path, together: a marked notice is out, and a
\* frame in the ring is going to be looked at.
FramesAnnounced == NoticeIsOut /\ NoFrameForgotten

\* The data of the receive path, together: descriptors, frames and pbufs are
\* each where the driver believes them to be.
RingSound == TypeOK /\ RingInStep /\ FramesIntact /\ PbufsConserved

\* The data of the transmit path, together.
SendSound == MessageAlive /\ SentInOrder
=============================================================================
