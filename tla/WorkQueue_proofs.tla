-------------------------- MODULE WorkQueue_proofs --------------------------
(***************************************************************************)
(* Proofs about the work queue, for every set of items and of clients: the  *)
(* lists, the flags and the timers of the items agree, nothing accepted is  *)
(* lost but in the three cases of NotLost and nothing cancelled is executed *)
(* (ItemsCorrect); the worker does not sleep over work (WakeUpCorrect); and *)
(* nobody wakes a work function out of what it waits for (FuncCorrect).     *)
(*                                                                         *)
(* The first needs an application that abides by both rules, and interrupt  *)
(* handlers that do not cancel: one that does so between the two halves of  *)
(* _delayed_work_timeout_handler leaves it with queue = RT_NULL.  The other *)
(* two hold whatever is called from where.                                  *)
(***************************************************************************)
EXTENDS WorkQueue, KernelLemmas

\* How the application uses the queue.
Disciplined == {"one_way", "serial"} \subseteq Rules /\ "cancel" \notin IsrCalls

\* The items in the two lists.
Listed == ToSet(wl)
Delayed == ToSet(dl)

\* An item is in one list, once.  One that is PENDING is in the work list.  The
\* delayed ones are SUBMITTING; those that are, delayed or let go by a refused
\* submission, are not in the work list yet, belong to the queue and are live.
ListsSound ==
  /\ Distinct(wl) /\ Distinct(dl)
  /\ Listed \cap Delayed = {}
  /\ pending \subseteq Listed
  /\ Delayed \subseteq submitting
  /\ submitting \subseteq bound \ Listed

\* A delayed item has one of: a timer that runs, a client that is about to start
\* the timer, the handler that the timer has called.
Starting(w) == \E c \in Client : pc[c] = "start" /\ item[c] = w

TimersSound ==
  /\ armed \subseteq submitting
  /\ \A w \in submitting : w \in armed \/ w = due \/ Starting(w)
  /\ tpc = "idle" => due = None
  /\ tpc # "idle" => due \in submitting \ armed
  /\ \A c \in Client : pc[c] = "start" => item[c] \in submitting \ (armed \cup {due})
  /\ \A c, d \in Client :
       pc[c] = "start" /\ pc[d] = "start" /\ item[c] = item[d] => c = d

QueueInv ==
  TypeOK /\ QueueKnown /\ ListsSound /\ TimersSound /\ OnlyLiveWork /\ NotLost

\* An item leaves a list, or is put last or first after it has left it.
LEMMA ListMoves ==
  ASSUME NEW s \in Seq(Work), Distinct(s), NEW w \in Work
  PROVE  /\ Without(s, w) \in Seq(Work) /\ Distinct(Without(s, w))
         /\ ToSet(Without(s, w)) = ToSet(s) \ {w}
         /\ Append(Without(s, w), w) \in Seq(Work)
         /\ Distinct(Append(Without(s, w), w))
         /\ ToSet(Append(Without(s, w), w)) = ToSet(s) \cup {w}
         /\ <<w>> \o Without(s, w) \in Seq(Work)
         /\ Distinct(<<w>> \o Without(s, w))
         /\ ToSet(<<w>> \o Without(s, w)) = ToSet(s) \cup {w}
<1> DEFINE r == Without(s, w)
<1>1. r \in Seq(Work) /\ Distinct(r) /\ ToSet(r) = ToSet(s) \ {w}
  BY RemoveFirstList DEF Without
<1>2. w \notin ToSet(r)
  BY <1>1
<1> HIDE DEF r
<1>3. /\ Append(r, w) \in Seq(Work) /\ Distinct(Append(r, w))
      /\ ToSet(Append(r, w)) = ToSet(r) \cup {w}
  BY <1>1, <1>2, AppendList
<1>4. /\ <<w>> \o r \in Seq(Work) /\ Distinct(<<w>> \o r)
      /\ ToSet(<<w>> \o r) = ToSet(r) \cup {w}
  BY <1>1, <1>2, ConsList
<1> QED
  BY <1>1, <1>3, <1>4 DEF r

\* rt_workqueue_create.
LEMMA InitQueue == Init => QueueInv
<1> SUFFICES ASSUME Init PROVE QueueInv
  OBVIOUS
<1> USE DEF Init
<1>1. << >> \in Seq(Work) /\ ToSet(<< >>) = {} /\ Distinct(<< >>)
  BY DEF ToSet, Distinct
<1>2. TypeOK
  BY <1>1 DEF TypeOK
<1>3. ListsSound
  BY <1>1 DEF ListsSound, Listed, Delayed
<1>4. TimersSound
  BY DEF TimersSound
<1> QED
  BY <1>1, <1>2, <1>3, <1>4 DEF QueueInv, QueueKnown, OnlyLiveWork, NotLost

\* rt_workqueue_dowork of an item that is not delayed; it is refused while its
\* function runs.
LEMMA DoWorkKeeps ==
  ASSUME QueueInv, Disciplined, NEW x \in Caller, NEW w \in Work, DoWork(x, w)
  PROVE  QueueInv'
<1> USE DEF DoWork, WakeWorker, timer, clients
<1>0. TypeOK /\ ListsSound /\ TimersSound /\ QueueKnown /\ OnlyLiveWork /\ NotLost
  BY DEF QueueInv
<1>1. /\ Without(wl, w) \in Seq(Work) /\ Distinct(Without(wl, w))
      /\ ToSet(Without(wl, w)) = Listed \ {w}
      /\ Append(Without(wl, w), w) \in Seq(Work)
      /\ Distinct(Append(Without(wl, w), w))
      /\ ToSet(Append(Without(wl, w), w)) = Listed \cup {w}
      /\ Without(dl, w) \in Seq(Work) /\ Distinct(Without(dl, w))
      /\ ToSet(Without(dl, w)) = Delayed \ {w}
  <2>1. wl \in Seq(Work) /\ Distinct(wl) /\ dl \in Seq(Work) /\ Distinct(dl)
    BY <1>0 DEF TypeOK, ListsSound
  <2> QED
    BY ONLY <2>1, w \in Work, ListMoves, ZenonT(40) DEF Listed, Delayed
<1>2. w \notin submitting
  BY DEF Disciplined
<1>3. /\ wl' \in Seq(Work) /\ Distinct(wl') /\ dl' \in Seq(Work) /\ Distinct(dl')
      /\ Listed' = IF current # w THEN Listed \cup {w} ELSE Listed \ {w}
      /\ Delayed' = Delayed
  <2>1. /\ dl' = Without(dl, w)
        /\ wl' = IF current # w THEN Append(Without(wl, w), w) ELSE Without(wl, w)
    OBVIOUS
  <2>2. Delayed \ {w} = Delayed
    BY <1>0, <1>2 DEF ListsSound
  <2>3. Delayed' = Delayed /\ dl' \in Seq(Work) /\ Distinct(dl')
    BY ONLY <1>1, <2>1, <2>2 DEF Delayed
  <2>4. CASE current # w
    BY ONLY <1>1, <2>1, <2>3, <2>4 DEF Listed
  <2>5. CASE current = w
    BY ONLY <1>1, <2>1, <2>3, <2>5 DEF Listed
  <2> QED
    BY ONLY <2>4, <2>5
<1>4. TypeOK'
  BY <1>0, <1>3 DEF TypeOK
<1>5. ListsSound'
  BY <1>0, <1>2, <1>3 DEF ListsSound
<1>6. TimersSound'
  BY <1>0 DEF TimersSound, Starting
<1>7. OnlyLiveWork' /\ NotLost'
  BY <1>0, <1>3, <1>2 DEF OnlyLiveWork, NotLost, Listed, Delayed, ListsSound
<1> QED
  BY <1>0, <1>4, <1>5, <1>6, <1>7 DEF QueueInv, QueueKnown

\* rt_workqueue_critical_work.
LEMMA CriticalKeeps ==
  ASSUME QueueInv, Disciplined, NEW x \in Caller, NEW w \in Work, CriticalWork(x, w)
  PROVE  QueueInv'
<1> USE DEF CriticalWork, WakeWorker, timer, clients
<1>0. TypeOK /\ ListsSound /\ TimersSound /\ QueueKnown /\ OnlyLiveWork /\ NotLost
  BY DEF QueueInv
<1>1. /\ <<w>> \o Without(wl, w) \in Seq(Work)
      /\ Distinct(<<w>> \o Without(wl, w))
      /\ ToSet(<<w>> \o Without(wl, w)) = Listed \cup {w}
      /\ Without(dl, w) \in Seq(Work) /\ Distinct(Without(dl, w))
      /\ ToSet(Without(dl, w)) = Delayed \ {w}
  BY <1>0, ListMoves, ZenonT(40) DEF TypeOK, ListsSound, Listed, Delayed
<1>2. w \notin submitting
  BY DEF Disciplined
<1>3. /\ wl' \in Seq(Work) /\ Distinct(wl') /\ dl' \in Seq(Work) /\ Distinct(dl')
      /\ Listed' = Listed \cup {w}
      /\ Delayed' = Delayed
  BY <1>0, <1>1, <1>2 DEF Listed, Delayed, ListsSound
<1>4. TypeOK'
  BY <1>0, <1>3 DEF TypeOK
<1>5. ListsSound'
  BY <1>0, <1>2, <1>3 DEF ListsSound
<1>6. TimersSound'
  BY <1>0 DEF TimersSound, Starting
<1>7. OnlyLiveWork' /\ NotLost'
  BY <1>0, <1>3, <1>2 DEF OnlyLiveWork, NotLost, Listed, Delayed, ListsSound
<1> QED
  BY <1>0, <1>4, <1>5, <1>6, <1>7 DEF QueueInv, QueueKnown

\* rt_workqueue_submit_work with a delay: what its section does to the lists.
LEMMA SubmitLists ==
  ASSUME QueueInv, NEW x, NEW w \in Work, NEW S \in SUBSET Work,
         SubmitDelayed(x, w, S), current' = current, wpc' = wpc
  PROVE  /\ wl' \in Seq(Work) /\ dl' \in Seq(Work)
         /\ ListsSound' /\ OnlyLiveWork' /\ NotLost'
<1> USE DEF SubmitDelayed
<1>0. TypeOK /\ ListsSound /\ OnlyLiveWork /\ NotLost
  BY DEF QueueInv
<1>1. /\ Without(wl, w) \in Seq(Work) /\ Distinct(Without(wl, w))
      /\ ToSet(Without(wl, w)) = Listed \ {w}
      /\ Append(Without(dl, w), w) \in Seq(Work)
      /\ Distinct(Append(Without(dl, w), w))
      /\ ToSet(Append(Without(dl, w), w)) = Delayed \cup {w}
  BY <1>0, ListMoves, ZenonT(40) DEF TypeOK, ListsSound, Listed, Delayed
<1>2. /\ wl' \in Seq(Work) /\ Distinct(wl') /\ dl' \in Seq(Work) /\ Distinct(dl')
      /\ Listed' = Listed \ {w}
      /\ Delayed' = Delayed \cup {w}
  BY <1>1 DEF Listed, Delayed
<1>3. ListsSound'
  BY <1>0, <1>2 DEF ListsSound
<1>4. OnlyLiveWork' /\ NotLost'
  BY <1>0, <1>2 DEF OnlyLiveWork, NotLost, Listed, Delayed
<1> QED
  BY <1>2, <1>3, <1>4

\* ... by a client, which starts the timer later,
LEMMA SubmitKeeps ==
  ASSUME QueueInv, Disciplined, NEW c \in Client, NEW w \in Work, SubmitWork(c, w)
  PROVE  QueueInv'
<1>0. TypeOK /\ ListsSound /\ TimersSound /\ QueueKnown
  BY DEF QueueInv
<1>1. /\ SubmitDelayed(c, w, {}) /\ pc' = [pc EXCEPT ![c] = "start"]
      /\ item' = [item EXCEPT ![c] = w]
      /\ UNCHANGED <<wpc, wstat, current, tpc, due, broken, late>>
  BY DEF SubmitWork, Goto, worker, timer
<1>2. /\ wl' \in Seq(Work) /\ dl' \in Seq(Work)
      /\ ListsSound' /\ OnlyLiveWork' /\ NotLost'
  BY <1>1, SubmitLists
<1>3. /\ tpc = "idle" /\ pc[c] = "run" /\ \A d \in Client : pc[d] = "start" => item[d] # w
      /\ armed' = armed \ {w} /\ submitting' = submitting \cup {w}
  BY <1>1, WorkQueueAssumption DEF SubmitDelayed, Runs, Settled, Disciplined
<1>4. TypeOK'
  BY <1>0, <1>1, <1>2 DEF TypeOK, SubmitDelayed
<1>5. due = None /\ w # None /\ w \in Work /\ due' = None
  BY <1>0, <1>1, <1>3, WorkQueueAssumption DEF TimersSound
<1>6. \A d \in Client : /\ d # c => pc'[d] = pc[d] /\ item'[d] = item[d]
                        /\ pc'[c] = "start" /\ item'[c] = w
  BY <1>0, <1>1 DEF TypeOK
<1>7. TimersSound'
  <2>1. armed' \subseteq submitting'
    BY <1>0, <1>3 DEF TimersSound
  <2>2. ASSUME NEW v \in submitting' PROVE v \in armed' \/ v = due' \/ Starting(v)'
    BY <1>0, <1>3, <1>1, <1>6, <2>2 DEF TimersSound, Starting
  <2>3. (tpc' = "idle" => due' = None) /\ tpc' = "idle"
    BY <1>1, <1>3, <1>5
  <2>4. \A d \in Client :
          pc'[d] = "start" => item'[d] \in submitting' \ (armed' \cup {due'})
    BY <1>0, <1>3, <1>5, <1>6 DEF TimersSound
  <2>5. \A a, b \in Client :
          pc'[a] = "start" /\ pc'[b] = "start" /\ item'[a] = item'[b] => a = b
    BY <1>0, <1>3, <1>6 DEF TimersSound
  <2> QED
    BY <2>1, <2>2, <2>3, <2>4, <2>5 DEF TimersSound
<1> QED
  BY <1>0, <1>1, <1>2, <1>4, <1>7 DEF QueueInv, QueueKnown

\* ... and by a work function, which starts it too.
LEMMA SelfKeeps ==
  ASSUME QueueInv, Disciplined, NEW w \in Work, SubmitSelf(w)
  PROVE  QueueInv'
<1>0. TypeOK /\ ListsSound /\ TimersSound /\ QueueKnown
  BY DEF QueueInv
<1>1. /\ SubmitDelayed("worker", w, {w})
      /\ UNCHANGED <<wpc, wstat, current, tpc, due, broken, pc, item, late>>
  BY DEF SubmitSelf, worker, timer, clients
<1>2. /\ wl' \in Seq(Work) /\ dl' \in Seq(Work)
      /\ ListsSound' /\ OnlyLiveWork' /\ NotLost'
  BY <1>1, SubmitLists
<1>3. /\ tpc = "idle" /\ \A d \in Client : pc[d] = "start" => item[d] # w
      /\ armed' = armed \cup {w} /\ submitting' = submitting \cup {w}
  BY <1>1 DEF SubmitDelayed, Runs, Settled, Disciplined
<1>4. TypeOK'
  BY <1>0, <1>1, <1>2 DEF TypeOK, SubmitDelayed
<1>5. due = None /\ w # None
  BY <1>0, <1>3, WorkQueueAssumption DEF TimersSound
<1>6. TimersSound'
  <2>1. /\ armed' \subseteq submitting'
        /\ \A v \in submitting' : v \in armed' \/ v = due' \/ Starting(v)'
    BY <1>0, <1>1, <1>3 DEF TimersSound, Starting
  <2>2. \A d \in Client :
          pc'[d] = "start" => item'[d] \in submitting' \ (armed' \cup {due'})
    BY <1>0, <1>1, <1>3, <1>5 DEF TimersSound
  <2> QED
    BY <2>1, <2>2, <1>0, <1>1, <1>3, <1>5 DEF TimersSound
<1> QED
  BY <1>0, <1>1, <1>2, <1>4, <1>6 DEF QueueInv, QueueKnown

\* rt_workqueue_submit_work with a delay that is too long: the item leaves its
\* list, and its timer is left alone.
LEMMA InvalidKeeps ==
  ASSUME QueueInv, NEW x, NEW w \in Work, SubmitInvalid(x, w)
  PROVE  QueueInv'
<1> USE DEF SubmitInvalid, worker, timer, clients
<1>0. TypeOK /\ ListsSound /\ TimersSound /\ QueueKnown /\ OnlyLiveWork /\ NotLost
  BY DEF QueueInv
<1>1. /\ Without(wl, w) \in Seq(Work) /\ Distinct(Without(wl, w))
      /\ ToSet(Without(wl, w)) = Listed \ {w}
      /\ Without(dl, w) \in Seq(Work) /\ Distinct(Without(dl, w))
      /\ ToSet(Without(dl, w)) = Delayed \ {w}
  BY <1>0, ListMoves, ZenonT(40) DEF TypeOK, ListsSound, Listed, Delayed
<1>2. /\ wl' \in Seq(Work) /\ Distinct(wl') /\ dl' \in Seq(Work) /\ Distinct(dl')
      /\ Listed' = Listed \ {w}
      /\ Delayed' = Delayed \ {w}
  BY <1>1 DEF Listed, Delayed
<1>3. TypeOK'
  BY <1>0, <1>2 DEF TypeOK
<1>4. ListsSound'
  BY <1>0, <1>2 DEF ListsSound
<1>5. TimersSound'
  BY <1>0 DEF TimersSound, Starting
<1>6. OnlyLiveWork' /\ NotLost'
  BY <1>0, <1>2 DEF OnlyLiveWork, NotLost, Listed, Delayed
<1> QED
  BY <1>0, <1>3, <1>4, <1>5, <1>6 DEF QueueInv, QueueKnown

\* rt_timer_start.
LEMMA StartKeeps ==
  ASSUME QueueInv, NEW c \in Client, StartDelay(c)
  PROVE  QueueInv'
<1> USE DEF StartDelay, Goto, lists, worker, timer
<1>0. TypeOK /\ ListsSound /\ TimersSound /\ QueueKnown /\ OnlyLiveWork /\ NotLost
  BY DEF QueueInv
<1>1. item[c] \in submitting /\ item[c] \notin armed /\ submitting \subseteq Work
  BY <1>0 DEF TimersSound, TypeOK
<1>2. TypeOK'
  BY <1>0, <1>1 DEF TypeOK
<1>3. ListsSound' /\ OnlyLiveWork' /\ NotLost'
  BY <1>0 DEF ListsSound, OnlyLiveWork, NotLost, Listed, Delayed
<1>4. \A d \in Client : /\ d # c => pc'[d] = pc[d] /\ item'[d] = item[d]
                        /\ pc'[c] = "run" /\ item'[c] = None
  BY <1>0 DEF TypeOK
<1>5. TimersSound'
  <2>1. armed' \subseteq submitting'
    BY <1>0, <1>1 DEF TimersSound
  <2>2. ASSUME NEW v \in submitting' PROVE v \in armed' \/ v = due' \/ Starting(v)'
    BY <1>0, <1>4, <2>2 DEF TimersSound, Starting
  <2>3. tpc' = "idle" /\ due' = None
    BY <1>0 DEF TimersSound
  <2>4. \A d \in Client :
          pc'[d] = "start" => item'[d] \in submitting' \ (armed' \cup {due'})
    BY <1>0, <1>4 DEF TimersSound
  <2>5. \A a, b \in Client :
          pc'[a] = "start" /\ pc'[b] = "start" /\ item'[a] = item'[b] => a = b
    BY <1>0, <1>4 DEF TimersSound
  <2> QED
    BY <2>1, <2>2, <2>3, <2>4, <2>5 DEF TimersSound
<1> QED
  BY <1>0, <1>2, <1>3, <1>5 DEF QueueInv, QueueKnown

\* Items that nobody is about to start the timer of, and whose timer has not
\* called the handler, are taken out of their lists and their timers stopped.
LEMMA CancelKeeps ==
  ASSUME QueueInv, NEW S \in SUBSET Work, CancelItems(S),
         wl' \in Seq(Work), Distinct(wl'), Listed' = Listed \ S,
         dl' \in Seq(Work), Distinct(dl'), Delayed' = Delayed \ S,
         due \notin S, \A c \in Client : pc[c] = "start" => item[c] \notin S,
         UNCHANGED <<worker, timer, clients>>
  PROVE  QueueInv'
<1> USE DEF CancelItems, worker, timer, clients
<1>0. TypeOK /\ ListsSound /\ TimersSound /\ QueueKnown /\ OnlyLiveWork /\ NotLost
  BY DEF QueueInv
<1>1. TypeOK'
  BY <1>0 DEF TypeOK
<1>2. ListsSound'
  BY <1>0 DEF ListsSound
<1>3. OnlyLiveWork' /\ NotLost'
  BY <1>0 DEF OnlyLiveWork, NotLost, Listed, Delayed
<1>4. TimersSound'
  <2>1. armed' = armed \ S
    BY <1>0 DEF TimersSound
  <2>2. /\ armed' \subseteq submitting'
        /\ \A v \in submitting' : v \in armed' \/ v = due' \/ Starting(v)'
    BY <1>0, <2>1 DEF TimersSound, Starting
  <2>3. \A d \in Client :
          pc'[d] = "start" => item'[d] \in submitting' \ (armed' \cup {due'})
    BY <1>0, <2>1 DEF TimersSound
  <2> QED
    BY <1>0, <2>1, <2>2, <2>3 DEF TimersSound
<1> QED
  BY <1>0, <1>1, <1>2, <1>3, <1>4 DEF QueueInv, QueueKnown

\* _workqueue_cancel_work by a thread, which is not the timer thread.
LEMMA CancelItemKeeps ==
  ASSUME QueueInv, Disciplined, NEW w \in Work, CancelItem(w), Settled(w), tpc = "idle",
         UNCHANGED <<worker, timer, clients>>
  PROVE  QueueInv'
<1>0. TypeOK /\ ListsSound /\ TimersSound
  BY DEF QueueInv
<1>1. /\ Without(wl, w) \in Seq(Work) /\ Distinct(Without(wl, w))
      /\ ToSet(Without(wl, w)) = Listed \ {w}
      /\ Without(dl, w) \in Seq(Work) /\ Distinct(Without(dl, w))
      /\ ToSet(Without(dl, w)) = Delayed \ {w}
  BY <1>0, ListMoves, ZenonT(40) DEF TypeOK, ListsSound, Listed, Delayed
<1>2. /\ wl' \in Seq(Work) /\ Distinct(wl') /\ Listed' = Listed \ {w}
      /\ dl' \in Seq(Work) /\ Distinct(dl') /\ Delayed' = Delayed \ {w}
      /\ CancelItems({w})
  BY <1>1 DEF CancelItem, Listed, Delayed
<1>3. due \notin {w}
  BY <1>0, WorkQueueAssumption DEF TimersSound
<1>4. \A c \in Client : pc[c] = "start" => item[c] \notin {w}
  BY DEF Settled, Disciplined
<1> QED
  BY <1>2, <1>3, <1>4, CancelKeeps

LEMMA CancelWorkKeeps ==
  ASSUME QueueInv, Disciplined, NEW x \in Caller, NEW w \in Work, CancelWork(x, w)
  PROVE  QueueInv'
<1>1. tpc = "idle"
  BY DEF CancelWork, Runs, Disciplined, Caller
<1> QED
  BY <1>1, CancelItemKeeps DEF CancelWork

\* rt_workqueue_cancel_all_work.
LEMMA CancelAllKeeps ==
  ASSUME QueueInv, Disciplined, NEW x \in Caller, CancelAllWork(x)
  PROVE  QueueInv'
<1> DEFINE S == Listed \cup Delayed
<1>0. TypeOK /\ ListsSound /\ TimersSound
  BY DEF QueueInv
<1>1. tpc = "idle"
  BY DEF CancelAllWork, Runs, Caller
<1>2. S \in SUBSET Work
  BY <1>0 DEF TypeOK, Listed, Delayed, ToSet
<1>3. << >> \in Seq(Work) /\ ToSet(<< >>) = {} /\ Distinct(<< >>)
  BY DEF ToSet, Distinct
<1>4. /\ wl' \in Seq(Work) /\ Distinct(wl') /\ Listed' = Listed \ S
      /\ dl' \in Seq(Work) /\ Distinct(dl') /\ Delayed' = Delayed \ S
  BY <1>3 DEF CancelAllWork, Listed, Delayed
<1>5. CancelItems(S) /\ UNCHANGED <<worker, timer, clients>>
  BY DEF CancelAllWork, Listed, Delayed
<1>6. due \notin S
  BY <1>0, <1>1, <1>2, WorkQueueAssumption DEF TimersSound
<1>7. \A c \in Client : pc[c] # "start"
  BY <1>0 DEF CancelAllWork, Settled, Disciplined, TimersSound, TypeOK
<1> HIDE DEF S
<1> QED
  BY <1>2, <1>4, <1>5, <1>6, <1>7, CancelKeeps

\* rt_workqueue_cancel_work_sync, and its wait.
LEMMA SyncKeeps ==
  ASSUME QueueInv, Disciplined, NEW c \in Client,
         (\E w \in Work : CancelWorkSync(c, w)) \/ SyncTake(c)
  PROVE  QueueInv'
<1>0. TypeOK /\ ListsSound /\ TimersSound /\ QueueKnown /\ OnlyLiveWork /\ NotLost
  BY DEF QueueInv
<1>1. ASSUME NEW w \in Work, CancelWorkSync(c, w), current # w PROVE QueueInv'
  <2>1. CancelItem(w) /\ Settled(w) /\ UNCHANGED <<worker, timer, clients>>
    BY <1>1 DEF CancelWorkSync, worker, timer, clients
  <2>2. tpc = "idle"
    BY <1>1, WorkQueueAssumption DEF CancelWorkSync, Runs
  <2> QED
    BY <2>1, <2>2, CancelItemKeeps
<1>2. ASSUME NEW to \in {"sync", "wait"}, NEW w \in Work \cup {None}, pc[c] # "start",
             Goto(c, to, w), UNCHANGED <<lists, armed, worker, timer, late>>
      PROVE  QueueInv'
  <2> USE <1>2 DEF Goto, lists, worker, timer
  <2>1. TypeOK'
    BY <1>0 DEF TypeOK
  <2>2. ListsSound' /\ OnlyLiveWork' /\ NotLost' /\ QueueKnown'
    BY <1>0 DEF ListsSound, OnlyLiveWork, NotLost, Listed, Delayed, QueueKnown
  <2>3. \A d \in Client : /\ d # c => pc'[d] = pc[d] /\ item'[d] = item[d]
                          /\ pc'[c] # "start"
    BY <1>0 DEF TypeOK
  <2>4. \A w1 : Starting(w1)' <=> Starting(w1)
    BY <2>3 DEF Starting
  <2>5. TimersSound'
    BY <1>0, <2>3, <2>4 DEF TimersSound
  <2> QED
    BY <2>1, <2>2, <2>5 DEF QueueInv
<1>3. ASSUME NEW w \in Work, CancelWorkSync(c, w), current = w PROVE QueueInv'
  <2>1. /\ pc[c] # "start" /\ Goto(c, "sync", w)
        /\ UNCHANGED <<lists, armed, worker, timer, late>>
    BY <1>3, WorkQueueAssumption DEF CancelWorkSync, Runs
  <2> QED
    BY <2>1, <1>2
<1>4. CASE SyncTake(c)
  <2>1. /\ pc[c] # "start" /\ Goto(c, "wait", item[c])
        /\ UNCHANGED <<lists, armed, worker, timer, late>> /\ item[c] \in Work \cup {None}
    BY <1>0, <1>4 DEF SyncTake, TypeOK
  <2> QED
    BY <2>1, <1>2
<1> QED
  BY <1>1, <1>3, <1>4

\* The worker takes the first item.
LEMMA TakeKeeps ==
  ASSUME QueueInv, Take
  PROVE  QueueInv'
<1> DEFINE w == Head(wl)
<1>0. TypeOK /\ ListsSound /\ TimersSound /\ QueueKnown /\ OnlyLiveWork /\ NotLost
  BY DEF QueueInv
<1>1. wl \in Seq(Work) /\ Distinct(wl) /\ wl # << >>
  BY <1>0 DEF TypeOK, ListsSound, Take
<1>2. /\ wl' \in Seq(Work) /\ Distinct(wl') /\ Listed' = Listed \ {w}
      /\ w \in Work /\ w \in Listed
  BY <1>1, TailList DEF Take, Listed
<1>3. /\ current' = w /\ pending' = pending \ {w} /\ bound' = bound \ {w}
      /\ live' = live \ {w} /\ wpc' = "func"
      /\ UNCHANGED <<dl, submitting, dropped, armed, wstat, tpc, due, broken, pc, item, late>>
  BY DEF Take, timer, clients
<1> HIDE DEF w
<1>4. Delayed' = Delayed
  BY <1>3 DEF Delayed
<1>5. TypeOK'
  BY <1>0, <1>2, <1>3, WorkQueueAssumption DEF TypeOK
<1>6. ListsSound'
  BY <1>0, <1>2, <1>3, <1>4 DEF ListsSound
<1>7. TimersSound'
  BY <1>0, <1>3 DEF TimersSound, Starting
<1>8. OnlyLiveWork' /\ NotLost'
  BY <1>0, <1>2, <1>3, <1>4 DEF OnlyLiveWork, NotLost, Listed, Delayed, ListsSound
<1> QED
  BY <1>0, <1>3, <1>5, <1>6, <1>7, <1>8 DEF QueueInv, QueueKnown

\* The other steps of the worker leave the items alone.
LEMMA WorkerKeeps ==
  ASSUME QueueInv, GoToSleep \/ FuncBlocks \/ FuncWakes \/ FuncReturns \/ Complete
  PROVE  QueueInv'
<1>0. TypeOK /\ ListsSound /\ TimersSound /\ QueueKnown /\ OnlyLiveWork /\ NotLost
  BY DEF QueueInv
<1>1. UNCHANGED <<wl, dl, pending, submitting, bound, live, dropped, armed, tpc, due, broken>>
  BY DEF GoToSleep, FuncBlocks, FuncWakes, FuncReturns, Complete, lists, timer
<1>2. TypeOK'
  <2>1. CASE GoToSleep \/ FuncBlocks \/ FuncWakes \/ FuncReturns
    BY <1>0, <1>1, <2>1 DEF GoToSleep, FuncBlocks, FuncWakes, FuncReturns, Works, TypeOK, clients
  <2>2. CASE Complete
    BY <1>0, <1>1, <2>2 DEF Complete, Works, TypeOK
  <2> QED
    BY <2>1, <2>2
<1>3. ListsSound' /\ OnlyLiveWork' /\ NotLost' /\ QueueKnown'
  BY <1>0, <1>1 DEF ListsSound, OnlyLiveWork, NotLost, Listed, Delayed, QueueKnown
<1>4. \A c \in Client : /\ (pc'[c] = "start") = (pc[c] = "start")
                        /\ pc[c] = "start" => item'[c] = item[c]
  BY DEF GoToSleep, FuncBlocks, FuncWakes, FuncReturns, Complete, clients
<1>5. TimersSound'
  BY <1>0, <1>1, <1>4 DEF TimersSound, Starting
<1> QED
  BY <1>2, <1>3, <1>5 DEF QueueInv

\* A timer expires, and its handler reads the queue of the item.
LEMMA ExpireKeeps ==
  ASSUME QueueInv, (\E w \in Work : Expire(w)) \/ HandlerRead
  PROVE  QueueInv'
<1>0. TypeOK /\ ListsSound /\ TimersSound /\ QueueKnown /\ OnlyLiveWork /\ NotLost
  BY DEF QueueInv
<1>1. UNCHANGED <<wl, dl, pending, submitting, bound, live, dropped>>
      /\ UNCHANGED <<wpc, wstat, current, pc, item, late>>
  BY DEF Expire, HandlerRead, lists, worker, clients
<1>2. ListsSound' /\ OnlyLiveWork' /\ NotLost'
  BY <1>0, <1>1 DEF ListsSound, OnlyLiveWork, NotLost, Listed, Delayed
<1>3. ASSUME NEW w \in Work, Expire(w) PROVE QueueInv'
  <2>1. /\ armed' = armed \ {w} /\ w \in armed /\ due = None /\ tpc' = "called" /\ due' = w
        /\ broken' = broken
    BY <1>0, <1>3 DEF Expire, TimersSound
  <2>2. TypeOK'
    BY <1>0, <1>1, <2>1 DEF TypeOK
  <2>3. TimersSound'
    <3>1. None \notin submitting
      BY <1>0, WorkQueueAssumption DEF TypeOK
    <3>2. /\ armed' \subseteq submitting' /\ due' \in submitting' \ armed'
          /\ \A v \in submitting' : v \in armed' \/ v = due' \/ Starting(v)'
      BY <1>0, <1>1, <2>1, <3>1 DEF TimersSound, Starting
    <3>3. \A c \in Client :
            pc'[c] = "start" => item'[c] \in submitting' \ (armed' \cup {due'})
      BY <1>0, <1>1, <2>1 DEF TimersSound
    <3> QED
      BY <1>0, <1>1, <2>1, <3>2, <3>3 DEF TimersSound
  <2> QED
    BY <1>0, <1>2, <2>1, <2>2, <2>3 DEF QueueInv, QueueKnown
<1>4. CASE HandlerRead
  <2>1. /\ tpc = "called" /\ tpc' = "read" /\ UNCHANGED <<armed, due>>
        /\ broken' = (due \notin bound)
    BY <1>4 DEF HandlerRead
  <2>2. due \in bound
    BY <1>0, <2>1 DEF TimersSound, ListsSound
  <2>3. TypeOK'
    BY <1>0, <1>1, <2>1, <2>2 DEF TypeOK
  <2>4. TimersSound'
    BY <1>0, <1>1, <2>1 DEF TimersSound, Starting
  <2> QED
    BY <1>2, <2>1, <2>2, <2>3, <2>4 DEF QueueInv, QueueKnown
<1> QED
  BY <1>3, <1>4

\* The section of the handler.
LEMMA HandlerKeeps ==
  ASSUME QueueInv, HandlerSection
  PROVE  QueueInv'
<1>0. TypeOK /\ ListsSound /\ TimersSound /\ QueueKnown /\ OnlyLiveWork /\ NotLost
  BY DEF QueueInv
<1>1. due \in submitting \ armed /\ due \in Work /\ due \notin Listed
  BY <1>0 DEF HandlerSection, TimersSound, TypeOK, ListsSound
<1>2. /\ Without(wl, due) \in Seq(Work) /\ Distinct(Without(wl, due))
      /\ ToSet(Without(wl, due)) = Listed \ {due}
      /\ Append(Without(wl, due), due) \in Seq(Work)
      /\ Distinct(Append(Without(wl, due), due))
      /\ ToSet(Append(Without(wl, due), due)) = Listed \cup {due}
      /\ Without(dl, due) \in Seq(Work) /\ Distinct(Without(dl, due))
      /\ ToSet(Without(dl, due)) = Delayed \ {due}
  BY <1>0, <1>1, ListMoves, ZenonT(40) DEF TypeOK, ListsSound, Listed, Delayed
<1>3. /\ wl' \in Seq(Work) /\ Distinct(wl') /\ dl' \in Seq(Work) /\ Distinct(dl')
      /\ Listed' = IF current # due THEN Listed \cup {due} ELSE Listed
      /\ Delayed' = Delayed \ {due}
  BY <1>1, <1>2 DEF Listed, Delayed, HandlerSection
<1>4. /\ tpc' = "idle" /\ due' = None /\ armed' = armed /\ submitting' = submitting \ {due}
      /\ pending' = IF current # due THEN pending \cup {due} ELSE pending
      /\ dropped' = IF current # due THEN dropped \ {due} ELSE dropped \cup {due}
      /\ UNCHANGED <<wpc, current, bound, live, broken, pc, item, late>>
      /\ wstat' \in {"READY", wstat}
  BY <1>1 DEF HandlerSection, WakeWorker, clients
<1>5. TypeOK'
  BY <1>0, <1>1, <1>3, <1>4 DEF TypeOK
<1>6. ListsSound'
  BY <1>0, <1>1, <1>3, <1>4 DEF ListsSound
<1>7. TimersSound'
  <2>1. /\ armed' \subseteq submitting'
        /\ \A v \in submitting' : v \in armed' \/ Starting(v)'
    BY <1>0, <1>1, <1>4 DEF TimersSound, Starting
  <2>2. \A c \in Client :
          pc'[c] = "start" => item'[c] \in submitting' \ (armed' \cup {due'})
    BY <1>0, <1>4, WorkQueueAssumption DEF TimersSound, TypeOK
  <2> QED
    BY <1>0, <1>4, <2>1, <2>2 DEF TimersSound
<1>8. OnlyLiveWork' /\ NotLost'
  <2>1. due \in live
    BY <1>0, <1>1 DEF ListsSound, OnlyLiveWork, Delayed
  <2> QED
    BY <1>0, <2>1, <1>1, <1>3, <1>4 DEF OnlyLiveWork, NotLost, Listed, Delayed
<1> QED
  BY <1>0, <1>4, <1>5, <1>6, <1>7, <1>8 DEF QueueInv, QueueKnown

LEMMA NextKeeps ==
  ASSUME QueueInv, Disciplined, [Next]_vars
  PROVE  QueueInv'
<1>1. CASE UNCHANGED vars
  <2>1. /\ UNCHANGED <<wl, dl, pending, submitting, bound, live, dropped, armed>>
        /\ UNCHANGED <<wpc, wstat, current, tpc, due, broken, pc, item, late>>
    BY <1>1 DEF vars, lists, worker, timer, clients
  <2> QED
    BY <2>1 DEF QueueInv, TypeOK, QueueKnown, ListsSound, TimersSound, Starting,
                OnlyLiveWork, NotLost, Listed, Delayed
<1>2. CASE Worker \/ FuncBlocks \/ FuncWakes
  BY <1>2, TakeKeeps, WorkerKeeps DEF Worker
<1>3. CASE TimerThread
  BY <1>3, ExpireKeeps, HandlerKeeps DEF TimerThread
<1>4. CASE Call
  BY <1>4, DoWorkKeeps, InvalidKeeps, CriticalKeeps, CancelWorkKeeps, CancelAllKeeps, SelfKeeps,
     SubmitKeeps, SyncKeeps, StartKeeps DEF Call
<1> QED
  BY <1>1, <1>2, <1>3, <1>4 DEF Next

\* What the run checks follows from the invariant.
LEMMA QueueImplies == QueueInv => ItemsSound
<1> SUFFICES ASSUME QueueInv PROVE ItemsSound
  OBVIOUS
<1>0. TypeOK /\ ListsSound /\ TimersSound /\ QueueKnown /\ OnlyLiveWork /\ NotLost
  BY DEF QueueInv
<1>1. ASSUME NEW w \in Work
      PROVE  Cardinality({i \in DOMAIN (wl \o dl) : (wl \o dl)[i] = w}) <= 1
  <2> DEFINE s == wl \o dl
             S == {i \in DOMAIN s : s[i] = w}
  <2>1. /\ wl \in Seq(Work) /\ dl \in Seq(Work) /\ Len(wl) \in Nat /\ Len(dl) \in Nat
        /\ DOMAIN wl = 1 .. Len(wl) /\ DOMAIN dl = 1 .. Len(dl)
        /\ DOMAIN s = 1 .. Len(wl) + Len(dl)
        /\ \A i \in DOMAIN s : s[i] = IF i <= Len(wl) THEN wl[i] ELSE dl[i - Len(wl)]
    BY <1>0 DEF TypeOK
  <2>2. /\ \A i, j \in 1 .. Len(wl) : wl[i] = wl[j] => i = j
        /\ \A i, j \in 1 .. Len(dl) : dl[i] = dl[j] => i = j
        /\ \A i \in 1 .. Len(wl), j \in 1 .. Len(dl) : wl[i] # dl[j]
    <3>1. /\ Distinct(wl) /\ Distinct(dl)
          /\ \A v : ~(v \in ToSet(wl) /\ v \in ToSet(dl))
      BY <1>0 DEF ListsSound, Listed, Delayed
    <3>2. /\ \A i \in 1 .. Len(wl) : wl[i] \in ToSet(wl)
          /\ \A j \in 1 .. Len(dl) : dl[j] \in ToSet(dl)
      BY <2>1 DEF ToSet
    <3>3. /\ \A i, j \in 1 .. Len(wl) : wl[i] = wl[j] => i = j
          /\ \A i, j \in 1 .. Len(dl) : dl[i] = dl[j] => i = j
      BY <2>1, <3>1 DEF Distinct
    <3>4. ASSUME NEW i \in 1 .. Len(wl), NEW j \in 1 .. Len(dl) PROVE wl[i] # dl[j]
      BY <3>1, <3>2
    <3> QED
      BY <3>3, <3>4
  <2>3. ASSUME NEW i \in DOMAIN s, NEW j \in DOMAIN s, s[i] = w, s[j] = w PROVE i = j
    <3> HIDE DEF s
    <3>1. i \in 1 .. Len(wl) \/ i - Len(wl) \in 1 .. Len(dl)
      BY <2>1
    <3>2. j \in 1 .. Len(wl) \/ j - Len(wl) \in 1 .. Len(dl)
      BY <2>1
    <3> QED
      BY <2>1, <2>2, <2>3, <3>1, <3>2
  <2>4. \A i, j \in S : i = j
    BY <2>3
  <2> QED
    BY <2>4, AtMostOne
<1>2. ListsAgree
  BY <1>0, <1>1 DEF ListsAgree, ListsSound, TimersSound, Starting, Listed, Delayed
<1> QED
  BY <1>0, <1>2 DEF ItemsSound

\* The items of a work queue: whatever clients, work functions, interrupt handlers
\* and the timer thread do in whatever order, a timer that expires finds the queue
\* of its item, flags, lists and timers agree, nothing is executed after it was
\* cancelled, and nothing is lost but in the three cases of NotLost, of which one
\* is a submission that fails with -RT_ERROR.
THEOREM ItemsCorrect ==
  ASSUME Disciplined
  PROVE  Spec => []ItemsSound
<1>1. Init => QueueInv
  BY InitQueue
<1>2. QueueInv /\ [Next]_vars => QueueInv'
  BY NextKeeps
<1>3. QueueInv => ItemsSound
  BY QueueImplies
<1> QED
  BY <1>1, <1>2, <1>3, PTL DEF Spec

\* What the worker relies on, whatever rules the application abides by.
WorkerInv ==
  /\ wl \in Seq(Work) /\ Distinct(wl)
  /\ (current = None) = (wpc # "func")
  /\ tpc # "idle" => due \in Work
  /\ NoWorkForgotten

LEMMA InitWorker == Init => WorkerInv
  BY DEF Init, WorkerInv, Distinct, NoWorkForgotten

\* Whoever adds an item wakes the worker, unless it is in a work function.
LEMMA AddWakes ==
  ASSUME WorkerInv, WakeWorker, wl' \in Seq(Work), Distinct(wl'),
         tpc' # "idle" => due' \in Work
  PROVE  /\ WorkerInv'
         /\ ~(wpc = "func" /\ wstat = "SUSPEND" /\ wstat' = "READY")
  BY DEF WorkerInv, WakeWorker, NoWorkForgotten

\* Whoever takes items away need not.
LEMMA RemoveLeaves ==
  ASSUME WorkerInv, UNCHANGED worker, wl' \in Seq(Work), Distinct(wl'),
         wl = << >> => wl' = << >>, tpc' # "idle" => due' \in Work
  PROVE  WorkerInv'
  BY DEF WorkerInv, worker, NoWorkForgotten

LEMMA WithoutEmpty ==
  ASSUME NEW w
  PROVE  Without(<< >>, w) = << >>
  BY DEF Without, RemoveFirst

\* Every step keeps what the worker relies on, and wakes a work function only
\* when it leaves the lists alone.
LEMMA StepWorker ==
  ASSUME WorkerInv, [Next]_vars
  PROVE  /\ WorkerInv'
         /\ wpc = "func" /\ wstat = "SUSPEND" /\ wstat' = "READY" => UNCHANGED lists
<1> DEFINE Goal == /\ WorkerInv'
                   /\ wpc = "func" /\ wstat = "SUSPEND" /\ wstat' = "READY"
                        => UNCHANGED lists
<1>0. /\ wl \in Seq(Work) /\ Distinct(wl) /\ (current = None) = (wpc # "func")
      /\ (tpc # "idle" => due \in Work) /\ NoWorkForgotten
  BY DEF WorkerInv
<1>1. << >> \in Seq(Work) /\ Distinct(<< >>)
  BY DEF Distinct
<1>2. ASSUME NEW w \in Work
      PROVE  /\ Without(wl, w) \in Seq(Work) /\ Distinct(Without(wl, w))
             /\ Append(Without(wl, w), w) \in Seq(Work)
             /\ Distinct(Append(Without(wl, w), w))
             /\ <<w>> \o Without(wl, w) \in Seq(Work)
             /\ Distinct(<<w>> \o Without(wl, w))
             /\ wl = << >> => Without(wl, w) = << >>
  BY <1>0, ListMoves, WithoutEmpty
<1>3. ASSUME NEW x, NEW w \in Work, DoWork(x, w) \/ CriticalWork(x, w) PROVE Goal
  <2>1. WakeWorker /\ UNCHANGED <<tpc, due>> /\ wl' \in Seq(Work) /\ Distinct(wl')
    BY <1>2, <1>3 DEF DoWork, CriticalWork, timer
  <2> QED
    BY <1>0, <2>1, AddWakes
<1>4. CASE HandlerSection
  <2>1. WakeWorker /\ tpc' = "idle" /\ wl' \in Seq(Work) /\ Distinct(wl')
    BY <1>0, <1>2, <1>4 DEF HandlerSection
  <2> QED
    BY <2>1, AddWakes
<1>5. ASSUME UNCHANGED worker, UNCHANGED <<tpc, due>>, NEW w \in Work, wl' = Without(wl, w)
      PROVE  Goal
  <2>1. wl' \in Seq(Work) /\ Distinct(wl') /\ (wl = << >> => wl' = << >>)
    BY <1>2, <1>5
  <2>2. WorkerInv'
    BY <1>0, <1>5, <2>1, RemoveLeaves
  <2> QED
    BY <1>5, <2>2 DEF worker
<1>6. ASSUME NEW x, NEW w \in Work,
             CancelWork(x, w) \/ SubmitWork(x, w) \/ (CancelWorkSync(x, w) /\ current # w)
      PROVE  Goal
  <2>1. UNCHANGED worker /\ UNCHANGED <<tpc, due>> /\ wl' = Without(wl, w)
    BY <1>6 DEF CancelWork, CancelItem, CancelWorkSync, SubmitWork, SubmitDelayed, timer
  <2> QED
    BY <1>5, <2>1
<1>7. ASSUME NEW x, NEW w \in Work, SubmitSelf(w) \/ SubmitInvalid(x, w) PROVE Goal
  <2>1. UNCHANGED worker /\ UNCHANGED <<tpc, due>> /\ wl' = Without(wl, w)
    BY <1>7 DEF SubmitSelf, SubmitDelayed, SubmitInvalid, timer
  <2> QED
    BY <1>5, <2>1
<1>8. ASSUME NEW x, CancelAllWork(x) PROVE Goal
  <2>1. UNCHANGED worker /\ UNCHANGED <<tpc, due>> /\ wl' = << >>
    BY <1>8 DEF CancelAllWork, timer
  <2> QED
    BY <1>0, <1>1, <2>1, RemoveLeaves DEF worker
<1>9. ASSUME UNCHANGED <<lists, worker>>, tpc' # "idle" => due' \in Work PROVE Goal
  BY <1>0, <1>9 DEF WorkerInv, NoWorkForgotten, lists, worker
<1>10. ASSUME NEW c, (\E w \in Work : CancelWorkSync(c, w) /\ current = w)
                       \/ StartDelay(c) \/ SyncTake(c)
       PROVE  Goal
  BY <1>0, <1>9, <1>10 DEF CancelWorkSync, StartDelay, SyncTake, timer
<1>11. CASE (\E w \in Work : Expire(w)) \/ HandlerRead
  BY <1>0, <1>9, <1>11 DEF Expire, HandlerRead
<1>12. CASE Take
  <2>1. /\ Tail(wl) \in Seq(Work) /\ Distinct(Tail(wl)) /\ Head(wl) \in Work
        /\ wl' = Tail(wl) /\ current' = Head(wl) /\ wpc' = "func"
        /\ UNCHANGED <<wstat, tpc, due>>
    BY <1>0, <1>12, TailList DEF Take, timer
  <2> QED
    BY <1>0, <2>1, WorkQueueAssumption DEF WorkerInv, NoWorkForgotten
<1>13. CASE GoToSleep \/ FuncBlocks \/ FuncWakes \/ FuncReturns \/ Complete
  <2>1. UNCHANGED lists /\ UNCHANGED <<wl, tpc, due>>
    BY <1>13 DEF GoToSleep, FuncBlocks, FuncWakes, FuncReturns, Complete, lists, timer
  <2>2. WorkerInv'
    BY <1>0, <1>13, <2>1 DEF GoToSleep, FuncBlocks, FuncWakes, FuncReturns, Complete, Works,
                             WorkerInv, NoWorkForgotten
  <2> QED
    BY <2>1, <2>2
<1>14. CASE UNCHANGED vars
  BY <1>0, <1>9, <1>14 DEF vars, lists, worker, timer
<1>15. CASE Call
  BY <1>3, <1>6, <1>7, <1>8, <1>10, <1>15 DEF Call
<1> QED
  BY <1>4, <1>11, <1>12, <1>13, <1>14, <1>15 DEF Next, Worker, TimerThread

\* The worker does not sleep over work, whatever is added while it looks.
THEOREM WakeUpCorrect == Spec => []NoWorkForgotten
<1>1. Init => WorkerInv
  BY InitWorker
<1>2. WorkerInv /\ [Next]_vars => WorkerInv'
  BY StepWorker
<1>3. WorkerInv => NoWorkForgotten
  BY DEF WorkerInv
<1> QED
  BY <1>1, <1>2, <1>3, PTL DEF Spec

\* Nobody who submits, cancels or delays work wakes a work function out of what
\* it waits for.
THEOREM FuncCorrect == Spec => FuncKeepsWaiting
<1>1. Init => WorkerInv
  BY InitWorker
<1>2. WorkerInv /\ [Next]_vars => WorkerInv'
  BY StepWorker
<1>3. WorkerInv /\ [Next]_vars =>
        [wpc = "func" /\ wstat = "SUSPEND" /\ wstat' = "READY" => UNCHANGED lists]_vars
  BY StepWorker
<1> QED
  BY <1>1, <1>2, <1>3, PTL DEF Spec, FuncKeepsWaiting
=============================================================================
