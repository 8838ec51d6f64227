-------------------------- MODULE Semaphore_proofs --------------------------
(***************************************************************************)
(* The semaphore, for every set of threads, every count and both orders of  *)
(* the list of waiters: no token is lost or given twice, and the list of    *)
(* waiters agrees with the scheduler, whatever timeouts, resets and a       *)
(* detach do to it.                                                        *)
(***************************************************************************)
EXTENDS Semaphore, KernelLemmas

\* The threads in the suspension list.
Asleep(x) == Waiting(x, "sem")

\* The kernel as the semaphore leaves it: the threads in the suspension list
\* are the suspended ones, the idle thread is never one of them, and a current
\* thread that is not RUNNING is suspended and about to call rt_schedule.
KernelInv(x) ==
  /\ KernelSound(x, {})
  /\ x.lock = 0
  /\ \A t \in Thread : x.stat[t] \in {"READY", "RUNNING", "SUSPEND"}
  /\ \A t \in Thread : x.stat[t] = "SUSPEND" <=> t \in Asleep(x)
  /\ Idle \notin Asleep(x)
  /\ x.stat[x.cur] # "READY"
  /\ Flag = "PRIO" => UrgentFirst(x, "sem")

\* A thread in the list is in rt_sem_take, and no error has been recorded for it.
CallsSound ==
  /\ \A t \in Asleep(k) : pc[t] \in {"take", "wait"} /\ k.err[t] = "EOK"
  /\ k.stat[k.cur] = "SUSPEND" => pc[k.cur] = "take"
  /\ pc[Idle] = "run"

\* One thread detaches the semaphore at a time, and nobody but a timeout takes a
\* thread out of the list between its test and its resumption.
DetachSound ==
  /\ \A t, u \in Thread : pc[t] \in {"det_check", "det_resume"}
                            /\ pc[u] \in {"det_check", "det_resume"} => t = u
  /\ \A t \in Thread : pc[t] = "det_resume" => Waiters # << >> \/ late
  /\ ResumesOnlyThreads

SemInv ==
  /\ TypeOK
  /\ KernelInv(k)
  /\ CallsSound
  /\ DetachSound
  /\ NoTokenWithWaiters
  /\ TokensConserved

-----------------------------------------------------------------------------
\* The list of waiters as a sequence and as a set.
LEMMA ListOfWaiters ==
  ASSUME NEW x, KernelInv(x)
  PROVE  /\ x \in KernelType /\ x.wait["sem"] \in Seq(Thread)
         /\ x.wait["sem"] = << >> <=> Asleep(x) = {}
         /\ Asleep(x) \subseteq Thread /\ x.cur \in Thread
         /\ x.err \in [Thread -> Error] /\ x.stat \in [Thread -> Stat]
         /\ "sem" \in Queue
<1>1. x \in KernelType /\ "sem" \in Queue
  BY SemaphoreAssumption DEF KernelInv, KernelSound, ListType
<1>2. /\ x.wait["sem"] \in Seq(Thread) /\ Asleep(x) \subseteq Thread /\ x.cur \in Thread
      /\ x.err \in [Thread -> Error] /\ x.stat \in [Thread -> Stat]
  BY <1>1, KernelFields DEF Asleep
<1> QED
  BY <1>1, <1>2, EmptyList DEF Asleep, Waiting

\* rt_schedule puts a thread on the processor that can run, and leaves the
\* list of waiters alone.
LEMMA ScheduleKeeps ==
  ASSUME NEW x, KernelInv(x)
  PROVE  LET r == Schedule(x)
         IN  /\ KernelInv(r) /\ Asleep(r) = Asleep(x) /\ r.err = x.err
             /\ r.stat[r.cur] = "RUNNING"
<1> DEFINE r == Schedule(x)
<1>1. KernelSound(x, {}) /\ x.stat[x.cur] # "READY" /\ "sem" \in Queue
  BY ListOfWaiters DEF KernelInv
<1>2. KernelSound(r, {}) /\ Scheduled(x, r)
  BY <1>1, ScheduleSound
<1>3. Flag = "PRIO" => UrgentFirst(r, "sem")
  BY <1>1, ScheduleOrder DEF KernelInv
<1> HIDE DEF r
<1>4. r.lock = 0 /\ Asleep(r) = Asleep(x) /\ r.err = x.err
  BY <1>1, <1>2 DEF Scheduled, KernelInv, Asleep
<1>5. x.cur \in Thread /\ r.cur \in Thread /\ x.stat \in [Thread -> Stat]
  <2>1. r \in KernelType
    BY <1>2 DEF KernelSound, ListType
  <2> QED
    BY <2>1, ListOfWaiters, KernelFields
<1>6. r.stat[r.cur] = "RUNNING"
  <2>1. CASE x.grp # {}
    BY <1>2, <2>1 DEF Scheduled, KernelInv
  <2>2. CASE x.grp = {}
    <3>1. r = x
      BY <2>2 DEF Schedule, r
    <3>2. x.stat[Idle] # "READY"
      <4>1. x.prio[Idle] \in Prio
        BY KernelAssumption, KernelFields, ListOfWaiters
      <4>2. Ready(x, x.prio[Idle]) = {}
        BY <1>1, <2>2, <4>1 DEF KernelSound, LinksSound
      <4> QED
        BY <1>1, <4>2, KernelAssumption DEF KernelSound, LinksSound
    <3>3. x.stat[Idle] = "RUNNING"
      BY <3>2, KernelAssumption DEF KernelInv
    <3>4. Idle = x.cur
      BY <1>1, <3>3, KernelAssumption DEF KernelSound, LinksSound
    <3> QED
      BY <3>1, <3>3, <3>4
  <2> QED
    BY <2>1, <2>2
<1>7. \A t \in Thread \ {x.cur, r.cur} : r.stat[t] = x.stat[t]
  BY <1>2 DEF Scheduled
<1>8. r.cur # x.cur => x.stat[r.cur] = "READY" /\ r.stat[x.cur] = DemotedStat(x)
  BY <1>2 DEF Scheduled
<1>9. r.cur = x.cur => r.stat[x.cur] = x.stat[x.cur]
  BY <1>2 DEF Scheduled
<1>10. \A t \in Thread : r.stat[t] \in {"READY", "RUNNING", "SUSPEND"}
                         /\ (r.stat[t] = "SUSPEND" <=> x.stat[t] = "SUSPEND")
  BY <1>5, <1>6, <1>7, <1>8, <1>9 DEF KernelInv, DemotedStat
<1>11. KernelInv(r)
  BY <1>2, <1>3, <1>4, <1>6, <1>10 DEF KernelInv
<1> QED
  BY <1>4, <1>6, <1>11 DEF r

\* The end of a time slice.
LEMMA YieldKeeps ==
  ASSUME NEW x, KernelInv(x)
  PROVE  LET r == YieldCurrent(x)
         IN  /\ KernelInv(r) /\ Asleep(r) = Asleep(x) /\ r.err = x.err
             /\ r.stat[r.cur] = "RUNNING"
<1> DEFINE y == [x EXCEPT !.yld = @ \cup {x.cur}]
<1>1. x \in KernelType
  BY ListOfWaiters
<1>2. /\ y \in KernelType
      /\ y.cur = x.cur /\ y.rdy = x.rdy /\ y.grp = x.grp /\ y.lock = x.lock
      /\ y.wait = x.wait /\ y.stat = x.stat /\ y.prio = x.prio
      /\ y.err = x.err /\ y.tmr = x.tmr
  BY <1>1 DEF KernelType
<1>3. YieldCurrent(x) = Schedule(y)
  BY DEF YieldCurrent
<1> HIDE DEF y
<1>4. KernelSound(y, {})
  BY <1>2, SoundFields DEF KernelInv
<1>5. KernelInv(y) /\ Asleep(y) = Asleep(x)
  BY <1>2, <1>4 DEF KernelInv, Asleep, Waiting, UrgentFirst
<1> QED
  BY <1>2, <1>3, <1>5, ScheduleKeeps

\* A thread of the list is woken, with or without an error: what follows from
\* the effect on its stat and on the list.
LEMMA WokenKeeps ==
  ASSUME NEW x, KernelInv(x), NEW W, W \subseteq Asleep(x), NEW r, KernelSound(r, {}),
         r.cur = x.cur, r.lock = x.lock,
         \A t \in W : r.stat[t] = InsertedStat(x, t),
         \A t \in Thread \ W : r.stat[t] = x.stat[t],
         Asleep(r) = Asleep(x) \ W,
         UrgentFirst(x, "sem") => UrgentFirst(r, "sem")
  PROVE  KernelInv(r)
<1>1. Asleep(x) \subseteq Thread /\ x.cur \in Thread
  BY ListOfWaiters
<1>2. \A t \in Thread : /\ r.stat[t] \in {"READY", "RUNNING", "SUSPEND"}
                        /\ r.stat[t] = "SUSPEND" <=> t \in Asleep(r)
  BY <1>1 DEF KernelInv, InsertedStat
<1>3. r.stat[r.cur] # "READY"
  BY <1>1 DEF KernelInv, InsertedStat
<1> QED
  BY <1>2, <1>3 DEF KernelInv

\* A release gives the processor's attention to the first waiter.
LEMMA ResumeKeeps ==
  ASSUME NEW x, KernelInv(x), x.wait["sem"] # << >>
  PROVE  LET t == Head(x.wait["sem"])
             r == IpcResume(x, "sem")
         IN  /\ KernelInv(r) /\ t \in Asleep(x) /\ Asleep(r) = Asleep(x) \ {t}
             /\ r.err = x.err /\ r.cur = x.cur
             /\ r.stat[r.cur] = "SUSPEND" => x.stat[x.cur] = "SUSPEND"
<1> DEFINE t == Head(x.wait["sem"])
           r == IpcResume(x, "sem")
<1>1. /\ "sem" \in Queue /\ KernelSound(x, {}) /\ x.stat[x.cur] # "READY"
      /\ x.wait["sem"] \in Seq(Thread) /\ x.stat \in [Thread -> Stat]
      /\ x.cur \in Thread
  BY ListOfWaiters DEF KernelInv
<1>2. t \in Asleep(x) /\ t \in Thread
  BY <1>1, HeadInList DEF Asleep, Waiting
<1>3. r = ResumeThread(x, t)
  BY DEF IpcResume
<1>4. UrgentFirst(x, "sem") => UrgentFirst(r, "sem")
  BY <1>1, <1>2, <1>3, ResumeOrder DEF KernelSound
<1> HIDE DEF t, r
<1>5. KernelSound(r, {}) /\ Woken(x, r, t) /\ r.err = x.err
  <2>1. KernelSound(r, {} \ {t}) /\ Woken(x, r, t) /\ r.err = x.err
    BY <1>1, <1>2, <1>3, ResumeSound
  <2>2. {} \ {t} = {}
    OBVIOUS
  <2> QED
    BY <2>1, <2>2
<1>6. /\ r.cur = x.cur /\ r.lock = x.lock /\ r.stat = [x.stat EXCEPT ![t] = InsertedStat(x, t)]
      /\ Asleep(r) = Asleep(x) \ {t}
  BY <1>1, <1>5 DEF Woken, Asleep
<1>7. /\ r.stat[t] = InsertedStat(x, t) /\ \A u \in Thread \ {t} : r.stat[u] = x.stat[u]
  BY <1>1, <1>2, <1>6
<1>8. KernelInv(r)
  <2>1. {t} \subseteq Asleep(x) /\ \A u \in {t} : r.stat[u] = InsertedStat(x, u)
    BY <1>2, <1>7
  <2> QED
    BY <1>4, <1>5, <1>6, <1>7, <2>1, WokenKeeps
<1>9. r.stat[r.cur] = "SUSPEND" => x.stat[x.cur] = "SUSPEND"
  BY <1>1, <1>6, <1>7 DEF InsertedStat
<1> QED
  BY <1>2, <1>5, <1>6, <1>8, <1>9 DEF t, r

\* One waiter, or all of them, return with an error.
LEMMA ErrorKeeps ==
  ASSUME NEW x, KernelInv(x), NEW W, W \subseteq Asleep(x), NEW r,
         KernelSound(r, {}), AllWoken(x, r, W), UrgentFirst(x, "sem") => UrgentFirst(r, "sem")
  PROVE  /\ KernelInv(r) /\ Asleep(r) = Asleep(x) \ W /\ r.cur = x.cur
         /\ \A t \in W : r.err[t] = "ERROR"
         /\ \A t \in Thread \ W : r.err[t] = x.err[t]
         /\ r.stat[r.cur] = "SUSPEND" => x.stat[x.cur] = "SUSPEND"
<1>1. "sem" \in Queue /\ x.cur \in Thread
  BY ListOfWaiters
<1>2. /\ Asleep(r) = Asleep(x) \ W /\ r.cur = x.cur /\ r.lock = x.lock
      /\ \A t \in W : r.err[t] = "ERROR" /\ r.stat[t] = InsertedStat(x, t)
      /\ \A t \in Thread \ W : r.err[t] = x.err[t] /\ r.stat[t] = x.stat[t]
  BY <1>1 DEF AllWoken, Asleep
<1>3. KernelInv(r)
  BY <1>2, WokenKeeps
<1>4. r.stat[r.cur] = "SUSPEND" => x.stat[x.cur] = "SUSPEND"
  BY <1>1, <1>2 DEF InsertedStat
<1> QED
  BY <1>2, <1>3, <1>4

\* The timeout of a waiter, rt_schedule included.
LEMMA TimeoutKeeps ==
  ASSUME NEW x, KernelInv(x), NEW t \in x.tmr
  PROVE  LET r == ThreadTimeout(x, t)
         IN  /\ KernelInv(r) /\ t \in Asleep(x) /\ Asleep(r) = Asleep(x) \ {t}
             /\ r.err = [x.err EXCEPT ![t] = "ETIMEOUT"]
             /\ r.stat[r.cur] = "RUNNING"
<1>1. /\ "sem" \in Queue /\ KernelSound(x, {}) /\ x.stat[x.cur] # "READY"
      /\ x.stat \in [Thread -> Stat] /\ x.cur \in Thread /\ x \in KernelType
  BY ListOfWaiters DEF KernelInv
<1>2. t \in Asleep(x) /\ t \in Thread
  BY <1>1, KernelFields DEF KernelInv, KernelSound, LinksSound
<1>3. PICK i : /\ ThreadTimeout(x, t) = Schedule(i)
               /\ KernelSound(i, {} \ {t}) /\ Woken(x, i, t)
               /\ i.err = [x.err EXCEPT ![t] = "ETIMEOUT"]
               /\ \A q \in Queue : UrgentFirst(x, q) => UrgentFirst(i, q)
  BY <1>1, <1>2, TimeoutSound
<1>4. {} \ {t} = {}
  OBVIOUS
<1>5. /\ i.cur = x.cur /\ i.lock = x.lock /\ i.stat = [x.stat EXCEPT ![t] = InsertedStat(x, t)]
      /\ Asleep(i) = Asleep(x) \ {t} /\ KernelSound(i, {})
      /\ UrgentFirst(x, "sem") => UrgentFirst(i, "sem")
  BY <1>1, <1>3, <1>4 DEF Woken, Asleep
<1>6. /\ i.stat[t] = InsertedStat(x, t) /\ \A u \in Thread \ {t} : i.stat[u] = x.stat[u]
  BY <1>1, <1>2, <1>5
<1>7. KernelInv(i)
  BY <1>2, <1>5, <1>6, WokenKeeps, ZenonT(40)
<1>8. /\ KernelInv(Schedule(i)) /\ Asleep(Schedule(i)) = Asleep(i)
      /\ Schedule(i).err = i.err /\ Schedule(i).stat[Schedule(i).cur] = "RUNNING"
  BY <1>7, ScheduleKeeps
<1> QED
  BY <1>2, <1>3, <1>5, <1>8

\* The current thread waits.
LEMMA SuspendKeeps ==
  ASSUME NEW x, KernelInv(x), x.cur # Idle, NEW timed \in BOOLEAN
  PROVE  LET r == IpcSuspend(x, "sem", x.cur, timed)
         IN  /\ KernelInv(r) /\ Asleep(r) = Asleep(x) \cup {x.cur} /\ r.cur = x.cur
             /\ r.err = [x.err EXCEPT ![x.cur] = "EOK"]
<1> DEFINE t == x.cur
           list == SuspendFor(x, t).wait["sem"]
           n == WaitPosition(x, list, t)
           r == QueueAt(x, "sem", t, n, timed)
<1>1. IpcSuspend(x, "sem", t, timed) = r
  BY DEF IpcSuspend, QueueAt, Enqueue, SuspendFor
<1>2. /\ "sem" \in Queue /\ KernelSound(x, {}) /\ x.stat[t] # "READY"
      /\ x.stat \in [Thread -> Stat] /\ t \in Thread /\ x \in KernelType
      /\ x.prio \in [Thread -> Prio]
  BY ListOfWaiters, KernelFields DEF KernelInv
<1>3. list \in Seq(Thread) /\ (UrgentFirst(x, "sem") => InOrder(list, x.prio))
  BY <1>2, SuspendOrder
<1>4. x.prio \in [Thread -> Int] /\ Len(list) \in Nat /\ DOMAIN list = 1 .. Len(list)
      /\ \A i \in 1 .. Len(list) : list[i] \in Thread
  BY <1>2, <1>3, KernelAssumption DEF Prio
<1> HIDE DEF list
<1>5. /\ n \in 1 .. Len(list) + 1
      /\ Flag = "PRIO" /\ InOrder(list, x.prio) =>
           /\ \A i \in 1 .. Len(list) : i < n => x.prio[list[i]] <= x.prio[t]
           /\ \A i \in 1 .. Len(list) : n <= i => x.prio[t] <= x.prio[list[i]]
  <2> DEFINE less == {i \in DOMAIN list : x.prio[t] < x.prio[list[i]]}
  <2>1. n = IF Flag = "FIFO" \/ less = {} THEN Len(list) + 1 ELSE Min(less)
    BY DEF WaitPosition
  <2>2. CASE Flag = "FIFO"
    BY <1>4, <2>1, <2>2
  <2>3. CASE Flag # "FIFO" /\ less = {}
    <3>1. n = Len(list) + 1
      BY <2>1, <2>3
    <3>2. \A i \in 1 .. Len(list) : x.prio[list[i]] <= x.prio[t]
      BY <1>2, <1>4, <2>3
    <3> QED
      BY <1>4, <3>1, <3>2
  <2>4. CASE Flag # "FIFO" /\ less # {}
    <3>1. less \in SUBSET Nat
      BY <1>4
    <3>2. n \in less /\ \A i \in less : n <= i
      BY <2>1, <2>4, <3>1, MinIsLeast
    <3> HIDE DEF n
    <3>3. n \in 1 .. Len(list) /\ x.prio[t] < x.prio[list[n]]
      BY <1>4, <3>2
    <3>4. \A i \in 1 .. Len(list) : i < n => x.prio[list[i]] <= x.prio[t]
      BY <1>2, <1>4, <3>2, <3>3
    <3>5. ASSUME InOrder(list, x.prio), NEW i \in 1 .. Len(list), n <= i
          PROVE  x.prio[t] <= x.prio[list[i]]
      <4>1. x.prio[list[n]] <= x.prio[list[i]]
        BY <1>4, <3>3, <3>5 DEF InOrder
      <4> QED
        BY <1>2, <1>4, <3>3, <4>1
    <3> QED
      BY <3>3, <3>4, <3>5
  <2> QED
    BY <2>2, <2>3, <2>4
<1> HIDE DEF n, r
<1>6. /\ KernelSound(r, {}) /\ Queued(x, r, "sem", t)
      /\ Flag = "PRIO" => UrgentFirst(r, "sem")
  <2>1. n \in 1 .. Len(SuspendFor(x, t).wait["sem"]) + 1
    BY <1>5 DEF list
  <2>2. /\ KernelSound(r, {}) /\ Queued(x, r, "sem", t)
        /\ /\ UrgentFirst(x, "sem")
           /\ \A i \in 1 .. Len(list) : i < n => x.prio[list[i]] <= x.prio[t]
           /\ \A i \in 1 .. Len(list) : n <= i => x.prio[t] <= x.prio[list[i]]
           => UrgentFirst(r, "sem")
    BY <1>2, <2>1, QueueSound DEF r, list
  <2> QED
    BY <1>3, <1>5, <2>2 DEF KernelInv
<1>7. /\ r.cur = x.cur /\ r.lock = x.lock /\ r.stat = [x.stat EXCEPT ![t] = "SUSPEND"]
      /\ r.err = [x.err EXCEPT ![t] = "EOK"] /\ Asleep(r) = Asleep(x) \cup {t}
  BY <1>6 DEF Queued, Asleep
<1>8. r.stat[t] = "SUSPEND" /\ \A u \in Thread \ {t} : r.stat[u] = x.stat[u]
  BY <1>2, <1>7
<1>9. \A u \in Thread : /\ r.stat[u] \in {"READY", "RUNNING", "SUSPEND"}
                        /\ r.stat[u] = "SUSPEND" <=> u \in Asleep(r)
  BY <1>7, <1>8 DEF KernelInv
<1>10. KernelInv(r)
  BY <1>6, <1>7, <1>8, <1>9 DEF KernelInv
<1> QED
  BY <1>1, <1>7, <1>10

-----------------------------------------------------------------------------
Place == {"run", "take", "wait", "sched", "det_check", "det_resume"}

\* The threads that a release has resumed, by the set of waiters.
GrantedOf(x, p) ==
  {t \in Thread : p[t] \in {"take", "wait"} /\ t \notin Asleep(x) /\ x.err[t] = "EOK"}

LEMMA GrantedFinite ==
  ASSUME NEW x, NEW p
  PROVE  IsFiniteSet(GrantedOf(x, p)) /\ Cardinality(GrantedOf(x, p)) \in Nat
<1>1. GrantedOf(x, p) \in SUBSET Thread
  BY DEF GrantedOf
<1>2. IsFiniteSet(GrantedOf(x, p))
  BY <1>1, IpcAssumption, FS_Subset
<1> QED
  BY <1>2, FS_CardinalityType

LEMMA GrantedIs ==
  ASSUME KernelInv(k), KernelInv(k')
  PROVE  /\ Granted = GrantedOf(k, pc) /\ Granted' = GrantedOf(k', pc')
         /\ (Waiters = << >>) <=> (Asleep(k) = {})
         /\ (Waiters' = << >>) <=> (Asleep(k') = {})
<1>1. ASSUME NEW x, KernelInv(x), NEW p
      PROVE  {t \in Thread : /\ p[t] \in {"take", "wait"}
                             /\ ~Contains(x.wait["sem"], t)
                             /\ x.err[t] = "EOK"} = GrantedOf(x, p)
  <2>1. x.wait["sem"] \in Seq(Thread)
    BY <1>1, ListOfWaiters
  <2>2. \A t : Contains(x.wait["sem"], t) <=> t \in Asleep(x)
    BY <2>1, ContainsToSet DEF Asleep, Waiting
  <2> QED
    BY <2>2 DEF GrantedOf
<1>2. Granted = GrantedOf(k, pc)
  BY <1>1 DEF Granted, Waiters
<1>3. Granted' = GrantedOf(k', pc')
  BY <1>1 DEF Granted, Waiters
<1>4. /\ (Waiters = << >>) <=> (Asleep(k) = {})
      /\ (Waiters' = << >>) <=> (Asleep(k') = {})
  BY ListOfWaiters DEF Waiters
<1> QED
  BY <1>2, <1>3, <1>4

\* What is left to show once the kernel is sound and the tokens are counted.
LEMMA Preserved ==
  ASSUME KernelInv(k'), pc' \in [Thread -> Place], value' \in 0 .. MaxValue,
         {alive', bogus', late'} \subseteq BOOLEAN, CallsSound', DetachSound',
         value' > 0 => Asleep(k') = {},
         credit' = value' + Cardinality(GrantedOf(k', pc')), KernelInv(k)
  PROVE  SemInv'
<1>1. k' \in KernelType
  BY ListOfWaiters
<1>2. Cardinality(GrantedOf(k', pc')) \in Nat /\ value' \in Nat
  BY GrantedFinite, SemaphoreAssumption
<1>3. credit' \in Nat
  BY <1>2
<1>4. TypeOK'
  BY <1>1, <1>3 DEF TypeOK, Place
<1>5. TokensConserved' /\ NoTokenWithWaiters'
  BY GrantedIs DEF TokensConserved, NoTokenWithWaiters
<1> QED
  BY <1>4, <1>5 DEF SemInv

\* What the invariant says of the state before a step.
LEMMA Before ==
  ASSUME SemInv
  PROVE  /\ KernelInv(k) /\ pc \in [Thread -> Place] /\ value \in 0 .. MaxValue
         /\ value \in Nat /\ {alive, bogus, late} \subseteq BOOLEAN
         /\ CallsSound /\ DetachSound /\ k.cur \in Thread
         /\ (Waiters = << >>) <=> (Asleep(k) = {})
         /\ Asleep(k) \subseteq Thread
         /\ value > 0 => Asleep(k) = {}
         /\ Granted = GrantedOf(k, pc)
         /\ credit = value + Cardinality(GrantedOf(k, pc))
         /\ Cardinality(GrantedOf(k, pc)) \in Nat /\ IsFiniteSet(GrantedOf(k, pc))
         /\ k.stat[k.cur] \in {"RUNNING", "SUSPEND"}
         /\ k.cur \in Asleep(k) <=> k.stat[k.cur] = "SUSPEND"
<1>1. KernelInv(k) /\ k.cur \in Thread /\ Asleep(k) \subseteq Thread
      /\ k.wait["sem"] \in Seq(Thread)
  BY ListOfWaiters DEF SemInv
<1>2. (Waiters = << >>) <=> (Asleep(k) = {})
  BY <1>1, ListOfWaiters DEF Waiters
<1>3. Granted = GrantedOf(k, pc)
  <2>1. \A t : Contains(Waiters, t) <=> t \in Asleep(k)
    BY <1>1, ContainsToSet DEF Asleep, Waiting, Waiters
  <2> QED
    BY <2>1 DEF Granted, GrantedOf
<1>4. value \in 0 .. MaxValue /\ value \in Nat
  BY SemaphoreAssumption DEF SemInv, TypeOK
<1>5. pc \in [Thread -> Place] /\ {alive, bogus, late} \subseteq BOOLEAN
  BY DEF SemInv, TypeOK, Place
<1>6. k.stat[k.cur] \in {"RUNNING", "SUSPEND"} /\ (k.cur \in Asleep(k) <=> k.stat[k.cur] = "SUSPEND")
  BY <1>1 DEF KernelInv
<1> QED
  BY <1>1, <1>2, <1>3, <1>4, <1>5, <1>6, GrantedFinite
     DEF SemInv, NoTokenWithWaiters, TokensConserved

-----------------------------------------------------------------------------
\* The calls that leave the kernel and every thread where they are.
LEMMA CountStep ==
  ASSUME SemInv, NEW t \in Thread, TakeAvailable(t) \/ TryTakeFails(t) \/ Reinit(t)
  PROVE  SemInv'
<1>1. /\ KernelInv(k) /\ pc \in [Thread -> Place] /\ value \in 0 .. MaxValue
      /\ value \in Nat /\ {alive, bogus, late} \subseteq BOOLEAN
      /\ CallsSound /\ DetachSound
      /\ value > 0 => Asleep(k) = {}
      /\ credit = value + Cardinality(GrantedOf(k, pc))
      /\ Cardinality(GrantedOf(k, pc)) \in Nat /\ Asleep(k) \subseteq Thread
  BY Before
<1>2. k' = k /\ pc' = pc /\ bogus' = bogus /\ late' = late
  BY DEF TakeAvailable, TryTakeFails, Reinit, vars, detaching
<1>3. CallsSound' /\ DetachSound'
  BY <1>1, <1>2 DEF CallsSound, DetachSound, ResumesOnlyThreads, Waiters, Asleep, Waiting
<1>4. CASE TakeAvailable(t)
  <2>1. value' = value - 1 /\ value > 0 /\ credit' = credit - 1 /\ alive' = alive
    BY <1>4 DEF TakeAvailable
  <2>2. value' \in 0 .. MaxValue /\ credit' = value' + Cardinality(GrantedOf(k, pc))
    BY <1>1, <2>1, SemaphoreAssumption
  <2> QED
    BY <1>1, <1>2, <1>3, <2>1, <2>2, Preserved
<1>5. CASE TryTakeFails(t)
  <2>1. value' = value /\ credit' = credit /\ alive' = alive
    BY <1>5 DEF TryTakeFails, vars
  <2> QED
    BY <1>1, <1>2, <1>3, <2>1, Preserved
<1>6. CASE Reinit(t)
  <2>1. /\ value' = InitValue /\ credit' = InitValue /\ alive' = TRUE
        /\ \A u \in Thread : pc[u] \in {"run", "sched"}
    BY <1>6 DEF Reinit
  <2>2. Asleep(k) = {} /\ GrantedOf(k, pc) = {}
    BY <1>1, <2>1 DEF CallsSound, GrantedOf
  <2>3. credit' = value' + Cardinality(GrantedOf(k, pc)) /\ value' \in 0 .. MaxValue
    BY <2>1, <2>2, FS_EmptySet, SemaphoreAssumption
  <2> QED
    BY <1>1, <1>2, <1>3, <2>1, <2>2, <2>3, Preserved
<1> QED
  BY <1>4, <1>5, <1>6

\* rt_sem_take of an unavailable semaphore.
LEMMA SuspendStep ==
  ASSUME SemInv, NEW t \in Thread, NEW call \in {"take", "timed"}, TakeSuspend(t, call)
  PROVE  SemInv'
<1>1. /\ KernelInv(k) /\ pc \in [Thread -> Place] /\ value \in 0 .. MaxValue
      /\ {alive, bogus, late} \subseteq BOOLEAN
      /\ CallsSound /\ DetachSound /\ Asleep(k) \subseteq Thread
      /\ credit = value + Cardinality(GrantedOf(k, pc))
  BY Before
<1>2. /\ t = k.cur /\ t # Idle /\ pc[t] = "run" /\ value = 0
      /\ \A u \in Thread : pc[u] \notin {"det_check", "det_resume"}
      /\ k' = IpcSuspend(k, "sem", k.cur, call = "timed")
      /\ pc' = [pc EXCEPT ![t] = "take"]
      /\ value' = value /\ alive' = alive /\ bogus' = bogus /\ late' = late /\ credit' = credit
  BY DEF TakeSuspend, Caller, Usable, Goto, detaching
<1>3. /\ KernelInv(k') /\ Asleep(k') = Asleep(k) \cup {t} /\ k'.cur = t
      /\ k'.err = [k.err EXCEPT ![t] = "EOK"]
  BY <1>1, <1>2, SuspendKeeps
<1>4. k.err \in [Thread -> Error]
  BY <1>1, ListOfWaiters
<1>5. /\ pc'[t] = "take" /\ \A u \in Thread \ {t} : pc'[u] = pc[u] /\ k'.err[u] = k.err[u]
      /\ k'.err[t] = "EOK" /\ pc' \in [Thread -> Place]
  BY <1>1, <1>2, <1>3, <1>4 DEF Place
<1>6. CallsSound'
  BY <1>1, <1>2, <1>3, <1>5, KernelAssumption DEF CallsSound
<1>7. DetachSound'
  BY <1>1, <1>2, <1>5 DEF DetachSound, ResumesOnlyThreads
<1>8. GrantedOf(k', pc') = GrantedOf(k, pc)
  BY <1>2, <1>3, <1>5 DEF GrantedOf
<1> QED
  BY <1>1, <1>2, <1>3, <1>5, <1>6, <1>7, <1>8, Preserved

\* rt_schedule, by a call or at the end of a time slice.
LEMMA ScheduleStep ==
  ASSUME SemInv, TickSlice \/ \E t \in Thread : CallSchedule(t)
  PROVE  SemInv'
<1>1. /\ KernelInv(k) /\ pc \in [Thread -> Place] /\ value \in 0 .. MaxValue
      /\ {alive, bogus, late} \subseteq BOOLEAN
      /\ CallsSound /\ DetachSound /\ Asleep(k) \subseteq Thread
      /\ value > 0 => Asleep(k) = {}
      /\ credit = value + Cardinality(GrantedOf(k, pc))
  BY Before
<1>2. /\ KernelInv(k') /\ Asleep(k') = Asleep(k) /\ k'.err = k.err
      /\ k'.stat[k'.cur] = "RUNNING"
  BY <1>1, ScheduleKeeps, YieldKeeps DEF TickSlice, CallSchedule
<1>3. /\ value' = value /\ alive' = alive /\ bogus' = bogus /\ late' = late /\ credit' = credit
  BY DEF TickSlice, CallSchedule, detaching
<1>4. /\ pc' \in [Thread -> Place]
      /\ \A u \in Thread : \/ pc'[u] = pc[u]
                           \/ pc[u] = "take" /\ pc'[u] = "wait"
                           \/ pc[u] = "sched" /\ pc'[u] = "run"
  BY <1>1 DEF TickSlice, CallSchedule, Goto, Place
<1>5. CallsSound'
  BY <1>1, <1>2, <1>4, KernelAssumption DEF CallsSound
<1>6. (Waiters' = << >>) <=> (Waiters = << >>)
  BY <1>1, <1>2, GrantedIs
<1>7. DetachSound'
  BY <1>1, <1>3, <1>4, <1>6 DEF DetachSound, ResumesOnlyThreads
<1>8. GrantedOf(k', pc') = GrantedOf(k, pc)
  BY <1>2, <1>4 DEF GrantedOf
<1> QED
  BY <1>1, <1>2, <1>3, <1>4, <1>5, <1>7, <1>8, Preserved

\* rt_sem_take runs again and returns.
LEMMA ReturnStep ==
  ASSUME SemInv, NEW t \in Thread, TakeReturn(t)
  PROVE  SemInv'
<1>1. /\ KernelInv(k) /\ pc \in [Thread -> Place] /\ value \in 0 .. MaxValue
      /\ {alive, bogus, late} \subseteq BOOLEAN /\ value \in Nat
      /\ CallsSound /\ DetachSound /\ Asleep(k) \subseteq Thread
      /\ value > 0 => Asleep(k) = {}
      /\ credit = value + Cardinality(GrantedOf(k, pc))
      /\ Cardinality(GrantedOf(k, pc)) \in Nat /\ IsFiniteSet(GrantedOf(k, pc))
      /\ k.cur \in Asleep(k) <=> k.stat[k.cur] = "SUSPEND"
  BY Before
<1>2. /\ t = k.cur /\ pc[t] = "wait" /\ pc' = [pc EXCEPT ![t] = "run"]
      /\ credit' = IF k.err[t] = "EOK" THEN credit - 1 ELSE credit
      /\ k' = k /\ value' = value /\ alive' = alive /\ bogus' = bogus /\ late' = late
  BY DEF TakeReturn, Goto, detaching
<1>3. /\ pc' \in [Thread -> Place] /\ pc'[t] = "run"
      /\ \A u \in Thread \ {t} : pc'[u] = pc[u]
  BY <1>1, <1>2 DEF Place
<1>4. t \notin Asleep(k)
  BY <1>1, <1>2 DEF CallsSound
<1>5. CallsSound'
  BY <1>1, <1>2, <1>3, <1>4, KernelAssumption DEF CallsSound, Asleep, Waiting
<1>6. DetachSound'
  BY <1>1, <1>2, <1>3 DEF DetachSound, ResumesOnlyThreads, Waiters
<1>7. GrantedOf(k', pc') = GrantedOf(k, pc) \ {t}
      /\ (t \in GrantedOf(k, pc) <=> k.err[t] = "EOK")
  BY <1>2, <1>3, <1>4 DEF GrantedOf
<1>8. credit' = value' + Cardinality(GrantedOf(k', pc'))
  <2>1. Cardinality(GrantedOf(k, pc) \ {t}) =
          IF t \in GrantedOf(k, pc) THEN Cardinality(GrantedOf(k, pc)) - 1
          ELSE Cardinality(GrantedOf(k, pc))
    BY <1>1, FS_RemoveElement
  <2> DEFINE c == Cardinality(GrantedOf(k, pc))
  <2>2. Cardinality(GrantedOf(k', pc')) = IF k.err[t] = "EOK" THEN c - 1 ELSE c
    BY <1>7, <2>1
  <2>3. c \in Nat /\ credit = value + c
    BY <1>1
  <2> HIDE DEF c
  <2> QED
    BY <1>1, <1>2, <2>2, <2>3
<1> QED
  BY <1>1, <1>2, <1>3, <1>5, <1>6, <1>8, Preserved

\* What a release does: the first waiter is resumed, or the count goes up.
LEMMA GiveStep ==
  ASSUME SemInv, Usable, Give,
         KernelInv(k'), Asleep(k') = Asleep(GiveKernel), k'.err = GiveKernel.err,
         pc' \in [Thread -> Place],
         \A u \in Thread : pc'[u] = pc[u] \/ (pc[u] = "run" /\ pc'[u] = "sched"),
         k'.stat[k'.cur] = "SUSPEND" => k'.cur = k.cur /\ k.stat[k.cur] = "SUSPEND",
         pc'[Idle] = "run"
  PROVE  SemInv'
<1>1. /\ KernelInv(k) /\ pc \in [Thread -> Place] /\ value \in 0 .. MaxValue
      /\ {alive, bogus, late} \subseteq BOOLEAN /\ value \in Nat
      /\ CallsSound /\ DetachSound /\ Asleep(k) \subseteq Thread
      /\ value > 0 => Asleep(k) = {}
      /\ credit = value + Cardinality(GrantedOf(k, pc))
      /\ Cardinality(GrantedOf(k, pc)) \in Nat /\ IsFiniteSet(GrantedOf(k, pc))
      /\ (Waiters = << >>) <=> (Asleep(k) = {})
      /\ k.cur \in Thread
  BY Before
<1>2. /\ alive' = alive /\ bogus' = bogus /\ late' = late /\ credit' = credit + 1
  BY DEF Give, detaching
<1>3. \A u \in Thread : pc[u] \notin {"det_check", "det_resume"}
                        /\ pc'[u] \notin {"det_check", "det_resume"}
  BY DEF Usable
<1>4. DetachSound'
  BY <1>1, <1>2, <1>3 DEF DetachSound, ResumesOnlyThreads
<1>5. ASSUME k'.stat[k'.cur] = "SUSPEND" PROVE pc'[k'.cur] = "take"
  <2>1. k'.cur = k.cur /\ k.stat[k.cur] = "SUSPEND"
    BY <1>5
  <2>2. pc[k.cur] = "take" /\ k.cur \in Thread
    BY <1>1, <2>1 DEF CallsSound
  <2>3. pc'[k.cur] = pc[k.cur] \/ pc[k.cur] = "run"
    BY <2>2
  <2> QED
    BY <2>1, <2>2, <2>3
<1>6. CASE Waiters = << >>
  <2>1. value' = value + 1 /\ value < MaxValue
    BY <1>6 DEF Give
  <2>2. GiveKernel = k
    BY <1>6 DEF GiveKernel
  <2>3. Asleep(k') = {} /\ k'.err = k.err
    BY <1>1, <1>6, <2>2
  <2>4. GrantedOf(k', pc') = GrantedOf(k, pc)
    BY <1>1, <1>6, <2>3 DEF GrantedOf
  <2>5. CallsSound'
    BY <1>5, <2>3 DEF CallsSound
  <2>6. value' \in 0 .. MaxValue /\ credit' = value' + Cardinality(GrantedOf(k', pc'))
    BY <1>1, <1>2, <2>1, <2>4, SemaphoreAssumption
  <2> QED
    BY <1>1, <1>2, <1>4, <2>3, <2>5, <2>6, Preserved
<1>7. CASE Waiters # << >>
  <2> DEFINE t == Head(k.wait["sem"])
             r == IpcResume(k, "sem")
  <2>1. GiveKernel = r /\ value' = value
    BY <1>7 DEF GiveKernel, Give
  <2>2. t \in Asleep(k) /\ Asleep(r) = Asleep(k) \ {t} /\ r.err = k.err
    BY <1>1, <1>7, ResumeKeeps DEF Waiters
  <2> HIDE DEF t, r
  <2>3. Asleep(k') = Asleep(k) \ {t} /\ k'.err = k.err
    BY <2>1, <2>2
  <2>4. k.err[t] = "EOK" /\ pc[t] \in {"take", "wait"} /\ t \in Thread
    BY <1>1, <2>2 DEF CallsSound
  <2>5. GrantedOf(k', pc') = GrantedOf(k, pc) \cup {t} /\ t \notin GrantedOf(k, pc)
    BY <2>2, <2>3, <2>4 DEF GrantedOf
  <2>6. CallsSound'
    <3>1. \A u \in Asleep(k') : pc'[u] \in {"take", "wait"} /\ k'.err[u] = "EOK"
      BY <1>1, <2>3 DEF CallsSound
    <3> QED
      BY <1>5, <3>1 DEF CallsSound
  <2>7. credit' = value' + Cardinality(GrantedOf(k', pc'))
    <3> DEFINE c == Cardinality(GrantedOf(k, pc))
    <3>1. Cardinality(GrantedOf(k', pc')) = c + 1
      BY <1>1, <2>5, FS_AddElement, ZenonT(40)
    <3>2. c \in Nat /\ credit = value + c
      BY <1>1
    <3> HIDE DEF c
    <3> QED
      BY <1>1, <1>2, <2>1, <3>1, <3>2
  <2> QED
    BY <1>1, <1>2, <1>4, <2>1, <2>3, <2>6, <2>7, Preserved
<1> QED
  BY <1>6, <1>7

\* rt_sem_release by a thread and by an interrupt handler.
LEMMA ReleaseStep ==
  ASSUME SemInv, ReleaseIsr \/ \E t \in Thread : Release(t)
  PROVE  SemInv'
<1>1. /\ KernelInv(k) /\ pc \in [Thread -> Place] /\ CallsSound
      /\ k.cur \in Thread /\ k.stat[k.cur] \in {"RUNNING", "SUSPEND"}
  BY Before
<1> DEFINE g == GiveKernel
<1>2. /\ KernelInv(g) /\ g.cur = k.cur
      /\ g.stat[g.cur] = "SUSPEND" => k.stat[k.cur] = "SUSPEND"
  <2>1. CASE Waiters = << >>
    BY <1>1, <2>1 DEF GiveKernel
  <2>2. CASE Waiters # << >>
    BY <1>1, <2>2, ResumeKeeps DEF GiveKernel, Waiters
  <2> QED
    BY <2>1, <2>2
<1> HIDE DEF g
<1>3. CASE ReleaseIsr
  <2> DEFINE y == IF Waiters # << >> THEN Schedule(g) ELSE k
  <2>1. Usable /\ Give /\ k' = y /\ pc' = pc
    BY <1>3 DEF ReleaseIsr, g
  <2>2. CASE Waiters = << >>
    <3>1. y = k /\ g = k
      BY <2>2 DEF GiveKernel, g
    <3> QED
      BY <1>1, <2>1, <3>1, GiveStep DEF CallsSound, g
  <2>3. CASE Waiters # << >>
    <3>1. y = Schedule(g)
      BY <2>3
    <3>2. KernelInv(y) /\ Asleep(y) = Asleep(g) /\ y.err = g.err /\ y.stat[y.cur] = "RUNNING"
      BY <1>2, <3>1, ScheduleKeeps
    <3> HIDE DEF y
    <3> QED
      BY <1>1, <2>1, <3>2, GiveStep DEF CallsSound, g
  <2> QED
    BY <2>2, <2>3
<1>4. CASE \E t \in Thread : Release(t)
  <2>1. PICK t \in Thread : Release(t)
    BY <1>4
  <2>2. /\ Usable /\ Give /\ k' = g /\ pc[t] = "run" /\ t # Idle
        /\ pc' = [pc EXCEPT ![t] = IF Waiters # << >> THEN "sched" ELSE "run"]
    BY <2>1 DEF Release, Caller, Goto, g
  <2>3. /\ pc' \in [Thread -> Place]
        /\ \A u \in Thread : pc'[u] = pc[u] \/ (pc[u] = "run" /\ pc'[u] = "sched")
        /\ pc'[Idle] = "run"
    BY <1>1, <2>2, KernelAssumption DEF Place, CallsSound
  <2> QED
    BY <1>2, <2>2, <2>3, GiveStep DEF g
<1> QED
  BY <1>3, <1>4

\* RT_IPC_CMD_RESET: the loop of _ipc_list_resume_all ends with an empty list.
LEMMA ResumeAllKeeps ==
  ASSUME NEW x, KernelInv(x)
  PROVE  LET r == IpcResumeAll(x, "sem")
         IN  /\ KernelInv(r) /\ Asleep(r) = {} /\ r.cur = x.cur
             /\ \A t \in Asleep(x) : r.err[t] = "ERROR"
             /\ \A t \in Thread \ Asleep(x) : r.err[t] = x.err[t]
             /\ r.stat[r.cur] = "SUSPEND" => x.stat[x.cur] = "SUSPEND"
<1> DEFINE n == Len(x.wait["sem"])
           f == CHOOSE f : f = [i \in 0 .. n |-> IF i = 0 THEN x ELSE WakeFirst(f[i - 1], "sem")]
           r == f[n]
<1>1. /\ "sem" \in Queue /\ KernelSound(x, {}) /\ x.stat[x.cur] # "READY" /\ n \in Nat
  BY ListOfWaiters DEF KernelInv
<1>2. IpcResumeAll(x, "sem") = r
  BY DEF IpcResumeAll, IpcResumeError, WakeFirst
<1>3. Rounds(f, x, "sem", n)
  BY <1>1, RoundsExist DEF Rounds
<1> HIDE DEF f
<1>4. /\ KernelSound(r, {}) /\ AllWoken(x, r, Asleep(x))
      /\ \A z \in Queue : UrgentFirst(x, z) => UrgentFirst(r, z)
  BY <1>1, <1>3, WakeAllSound DEF Asleep
<1> HIDE DEF r
<1>5. UrgentFirst(x, "sem") => UrgentFirst(r, "sem")
  BY <1>1, <1>4
<1>6. /\ KernelInv(r) /\ Asleep(r) = Asleep(x) \ Asleep(x) /\ r.cur = x.cur
      /\ \A t \in Asleep(x) : r.err[t] = "ERROR"
      /\ \A t \in Thread \ Asleep(x) : r.err[t] = x.err[t]
      /\ r.stat[r.cur] = "SUSPEND" => x.stat[x.cur] = "SUSPEND"
  BY <1>4, <1>5, ErrorKeeps, SMTT(40)
<1> QED
  BY <1>2, <1>6

LEMMA ResetStep ==
  ASSUME SemInv, NEW t \in Thread, NEW v \in 0 .. MaxValue, Reset(t, v)
  PROVE  SemInv'
<1>1. /\ KernelInv(k) /\ pc \in [Thread -> Place] /\ {alive, bogus, late} \subseteq BOOLEAN
      /\ CallsSound /\ DetachSound /\ Granted = GrantedOf(k, pc)
      /\ Asleep(k) \subseteq Thread /\ k.cur \in Thread
      /\ k.cur \in Asleep(k) <=> k.stat[k.cur] = "SUSPEND"
  BY Before
<1>2. /\ t = k.cur /\ t # Idle /\ pc[t] = "run" /\ pc' = [pc EXCEPT ![t] = "sched"]
      /\ \A u \in Thread : pc[u] \notin {"det_check", "det_resume"}
      /\ k' = IpcResumeAll(k, "sem")
      /\ value' = v /\ credit' = v + Cardinality(Granted)
      /\ alive' = alive /\ bogus' = bogus /\ late' = late
  BY DEF Reset, Caller, Usable, Goto, detaching
<1>3. /\ KernelInv(k') /\ Asleep(k') = {} /\ k'.cur = k.cur
      /\ \A u \in Asleep(k) : k'.err[u] = "ERROR"
      /\ \A u \in Thread \ Asleep(k) : k'.err[u] = k.err[u]
      /\ k'.stat[k'.cur] = "SUSPEND" => k.stat[k.cur] = "SUSPEND"
  BY <1>1, <1>2, ResumeAllKeeps
<1>4. /\ pc' \in [Thread -> Place] /\ pc'[t] = "sched"
      /\ \A u \in Thread \ {t} : pc'[u] = pc[u]
  BY <1>1, <1>2 DEF Place
<1>5. CallsSound'
  BY <1>1, <1>2, <1>3, <1>4, KernelAssumption DEF CallsSound
<1>6. DetachSound'
  BY <1>1, <1>2, <1>4 DEF DetachSound, ResumesOnlyThreads
<1>7. GrantedOf(k', pc') = GrantedOf(k, pc)
  BY <1>2, <1>3, <1>4 DEF GrantedOf
<1> QED
  BY <1>1, <1>2, <1>3, <1>4, <1>5, <1>6, <1>7, Preserved

\* rt_sem_detach begins, and tests the list.
LEMMA DetachStep ==
  ASSUME SemInv, NEW t \in Thread, Detach(t) \/ DetachCheck(t)
  PROVE  SemInv'
<1>1. /\ KernelInv(k) /\ pc \in [Thread -> Place] /\ value \in 0 .. MaxValue
      /\ {alive, bogus, late} \subseteq BOOLEAN
      /\ CallsSound /\ DetachSound /\ Asleep(k) \subseteq Thread
      /\ value > 0 => Asleep(k) = {}
      /\ credit = value + Cardinality(GrantedOf(k, pc))
  BY Before
<1>2. /\ t = k.cur /\ k' = k /\ value' = value /\ credit' = credit
      /\ bogus' = bogus /\ late' = late /\ alive' \in BOOLEAN
  BY <1>1 DEF Detach, DetachCheck, Goto, detaching
<1>3. /\ pc' \in [Thread -> Place] /\ \A u \in Thread \ {t} : pc'[u] = pc[u]
      /\ \/ /\ pc[t] = "run" /\ t # Idle /\ pc'[t] = "det_check"
            /\ \A u \in Thread : pc[u] \notin {"det_check", "det_resume"}
         \/ /\ pc[t] = "det_check" /\ pc'[t] \in {"run", "det_resume"}
            /\ pc'[t] = "det_resume" => Waiters # << >>
  BY <1>1 DEF Detach, DetachCheck, Goto, Usable, Caller, Place
<1>4. CallsSound'
  BY <1>1, <1>2, <1>3, KernelAssumption DEF CallsSound
<1>5. Waiters' = Waiters
  BY <1>2 DEF Waiters
<1>6. DetachSound'
  BY <1>1, <1>2, <1>3, <1>5 DEF DetachSound, ResumesOnlyThreads
<1>7. GrantedOf(k', pc') = GrantedOf(k, pc)
  BY <1>2, <1>3 DEF GrantedOf
<1> QED
  BY <1>1, <1>2, <1>3, <1>4, <1>6, <1>7, Preserved

\* The body of the loop of rt_sem_detach.
LEMMA DetachResumeStep ==
  ASSUME SemInv, NEW t \in Thread, DetachResume(t)
  PROVE  SemInv'
<1>1. /\ KernelInv(k) /\ pc \in [Thread -> Place] /\ value \in 0 .. MaxValue
      /\ {alive, bogus, late} \subseteq BOOLEAN
      /\ CallsSound /\ DetachSound /\ Asleep(k) \subseteq Thread
      /\ value > 0 => Asleep(k) = {}
      /\ credit = value + Cardinality(GrantedOf(k, pc)) /\ k.cur \in Thread
      /\ k.cur \in Asleep(k) <=> k.stat[k.cur] = "SUSPEND"
  BY Before
<1>2. /\ t = k.cur /\ pc[t] = "det_resume" /\ pc' = [pc EXCEPT ![t] = "det_check"]
      /\ k' = IF Waiters # << >> THEN IpcResumeError(k, "sem") ELSE k
      /\ bogus' = (Waiters = << >>) /\ late' = (late /\ bogus')
      /\ value' = value /\ alive' = alive /\ credit' = credit
  BY DEF DetachResume, Goto
<1>3. \E W \in SUBSET Asleep(k) :
        /\ KernelInv(k') /\ Asleep(k') = Asleep(k) \ W /\ k'.cur = k.cur
        /\ \A u \in W : k'.err[u] = "ERROR"
        /\ \A u \in Thread \ W : k'.err[u] = k.err[u]
        /\ k'.stat[k'.cur] = "SUSPEND" => k.stat[k.cur] = "SUSPEND"
  <2>1. CASE Waiters = << >>
    <3>1. k' = k
      BY <1>2, <2>1
    <3>2. {} \in SUBSET Asleep(k) /\ Asleep(k') = Asleep(k) \ {} /\ KernelInv(k')
      BY <1>1, <3>1
    <3>3. /\ \A u \in {} : k'.err[u] = "ERROR"
          /\ \A u \in Thread \ {} : k'.err[u] = k.err[u]
          /\ k'.cur = k.cur /\ k'.stat[k'.cur] = k.stat[k.cur]
      BY <3>1
    <3> QED
      BY <3>2, <3>3
  <2>2. CASE Waiters # << >>
    <3> DEFINE r == WakeFirst(k, "sem")
               h == Head(k.wait["sem"])
    <3>1. k' = r
      BY <1>2, <2>2 DEF IpcResumeError, WakeFirst
    <3>2. /\ "sem" \in Queue /\ KernelSound(k, {}) /\ k.stat[k.cur] # "READY"
          /\ k.wait["sem"] # << >>
      BY <1>1, <2>2, ListOfWaiters DEF KernelInv, Waiters
    <3>3. /\ KernelSound(r, {}) /\ AllWoken(k, r, {h}) /\ h \in Asleep(k)
          /\ \A z \in Queue : UrgentFirst(k, z) => UrgentFirst(r, z)
      BY <3>2, WakeFirstSound DEF Asleep
    <3> HIDE DEF r, h
    <3>4. {h} \in SUBSET Asleep(k) /\ (UrgentFirst(k, "sem") => UrgentFirst(r, "sem"))
      BY <3>2, <3>3
    <3>5. /\ KernelInv(r) /\ Asleep(r) = Asleep(k) \ {h} /\ r.cur = k.cur
          /\ \A u \in {h} : r.err[u] = "ERROR"
          /\ \A u \in Thread \ {h} : r.err[u] = k.err[u]
          /\ r.stat[r.cur] = "SUSPEND" => k.stat[k.cur] = "SUSPEND"
      BY <1>1, <3>3, <3>4, ErrorKeeps
    <3> QED
      BY <3>1, <3>4, <3>5
  <2> QED
    BY <2>1, <2>2
<1>4. PICK W \in SUBSET Asleep(k) :
        /\ KernelInv(k') /\ Asleep(k') = Asleep(k) \ W /\ k'.cur = k.cur
        /\ \A u \in W : k'.err[u] = "ERROR"
        /\ \A u \in Thread \ W : k'.err[u] = k.err[u]
        /\ k'.stat[k'.cur] = "SUSPEND" => k.stat[k.cur] = "SUSPEND"
  BY <1>3
<1>5. /\ pc' \in [Thread -> Place] /\ pc'[t] = "det_check"
      /\ \A u \in Thread \ {t} : pc'[u] = pc[u]
  BY <1>1, <1>2 DEF Place
<1>6. t \notin Asleep(k) /\ t # Idle
  BY <1>1, <1>2 DEF CallsSound
<1>7. CallsSound'
  BY <1>1, <1>2, <1>4, <1>5, <1>6, KernelAssumption DEF CallsSound
<1>8. DetachSound'
  BY <1>1, <1>2, <1>5 DEF DetachSound, ResumesOnlyThreads
<1>9. GrantedOf(k', pc') = GrantedOf(k, pc)
  BY <1>1, <1>2, <1>4, <1>5 DEF GrantedOf
<1>10. {alive', bogus', late'} \subseteq BOOLEAN
  BY <1>1, <1>2
<1> QED
  BY <1>1, <1>2, <1>4, <1>5, <1>7, <1>8, <1>9, <1>10, Preserved

\* The timeout of a waiter.
LEMMA TimeoutStep ==
  ASSUME SemInv, NEW t \in Thread, TickTimeout(t)
  PROVE  SemInv'
<1>1. /\ KernelInv(k) /\ pc \in [Thread -> Place] /\ value \in 0 .. MaxValue
      /\ {alive, bogus, late} \subseteq BOOLEAN
      /\ CallsSound /\ DetachSound /\ Asleep(k) \subseteq Thread
      /\ value > 0 => Asleep(k) = {}
      /\ credit = value + Cardinality(GrantedOf(k, pc))
      /\ (Waiters = << >>) <=> (Asleep(k) = {})
  BY Before
<1>2. /\ t \in k.tmr /\ k' = ThreadTimeout(k, t) /\ pc' = pc
      /\ late' = (late \/ \E u \in Thread : pc[u] = "det_resume")
      /\ value' = value /\ alive' = alive /\ bogus' = bogus /\ credit' = credit
  BY DEF TickTimeout
<1>3. /\ KernelInv(k') /\ t \in Asleep(k) /\ Asleep(k') = Asleep(k) \ {t}
      /\ k'.err = [k.err EXCEPT ![t] = "ETIMEOUT"] /\ k'.stat[k'.cur] = "RUNNING"
  BY <1>1, <1>2, TimeoutKeeps
<1>4. /\ k'.err[t] = "ETIMEOUT" /\ \A u \in Thread \ {t} : k'.err[u] = k.err[u]
  BY <1>1, <1>3, ListOfWaiters
<1>5. CallsSound'
  BY <1>1, <1>2, <1>3, <1>4 DEF CallsSound
<1>6. DetachSound'
  BY <1>1, <1>2 DEF DetachSound, ResumesOnlyThreads
<1>7. GrantedOf(k', pc') = GrantedOf(k, pc)
  BY <1>2, <1>3, <1>4 DEF GrantedOf
<1>8. {alive', bogus', late'} \subseteq BOOLEAN /\ (value' > 0 => Asleep(k') = {})
  BY <1>1, <1>2, <1>3
<1> QED
  BY <1>1, <1>2, <1>3, <1>5, <1>6, <1>7, <1>8, Preserved

-----------------------------------------------------------------------------
LEMMA InitSound == Init => SemInv
<1>1. SUFFICES ASSUME Init PROVE SemInv
  OBVIOUS
<1>2. /\ k = InitKernel /\ pc = [t \in Thread |-> "run"] /\ value = InitValue
      /\ alive = TRUE /\ bogus = FALSE /\ late = FALSE /\ credit = InitValue
  BY <1>1 DEF Init
<1>3. k = Schedule(Started(InitPrio))
  BY <1>2 DEF InitKernel, Started
<1>4. /\ KernelSound(k, {}) /\ k.lock = 0
      /\ k.stat[k.cur] = "RUNNING"
      /\ \A t \in Thread : k.stat[t] \in {"READY", "RUNNING"}
      /\ \A q \in Queue : k.wait[q] = << >>
  BY <1>3, IpcAssumption, StartedSound
<1>5. "sem" \in Queue /\ Waiters = << >>
  BY <1>4, SemaphoreAssumption DEF Waiters
<1>6. Asleep(k) = {} /\ UrgentFirst(k, "sem")
  <2>1. k.wait["sem"] = << >>
    BY <1>4, <1>5
  <2>2. ToSet(<< >>) = {} /\ InOrder(<< >>, k.prio)
    BY DEF ToSet, InOrder
  <2> QED
    BY <2>1, <2>2 DEF Asleep, Waiting, UrgentFirst
<1>7. KernelInv(k) /\ k \in KernelType
  BY <1>4, <1>6 DEF KernelInv, KernelSound, ListType
<1>8. CallsSound /\ DetachSound /\ NoTokenWithWaiters
  BY <1>2, <1>4, <1>5, <1>6, KernelAssumption
     DEF CallsSound, DetachSound, NoTokenWithWaiters, ResumesOnlyThreads
<1>9. TypeOK
  <2>1. pc \in [Thread -> Place] /\ InitValue \in Nat
    BY <1>2, SemaphoreAssumption DEF Place
  <2>2. {bogus, late} \subseteq BOOLEAN /\ alive \in BOOLEAN
    BY <1>2
  <2> QED
    BY <1>2, <1>7, <2>1, <2>2, SemaphoreAssumption DEF TypeOK, Place
<1>10. TokensConserved
  <2>1. Granted = {}
    BY <1>2 DEF Granted
  <2> QED
    BY <1>2, <2>1, FS_EmptySet, SemaphoreAssumption DEF TokensConserved
<1> QED
  BY <1>7, <1>8, <1>9, <1>10 DEF SemInv

LEMMA NextSound == SemInv /\ [Next]_vars => SemInv'
<1>1. SUFFICES ASSUME SemInv, [Next]_vars PROVE SemInv'
  OBVIOUS
<1>2. CASE UNCHANGED vars
  <2>1. /\ k' = k /\ pc' = pc /\ value' = value /\ alive' = alive
        /\ bogus' = bogus /\ late' = late /\ credit' = credit
    BY <1>2 DEF vars, detaching
  <2> QED
    BY <1>1, <2>1 DEF SemInv, TypeOK, CallsSound, DetachSound, NoTokenWithWaiters,
       TokensConserved, ResumesOnlyThreads, Granted, Waiters
<1>3. CASE \E t \in Thread : Step(t)
  <2>1. PICK t \in Thread : Step(t)
    BY <1>3
  <2> QED
    BY <1>1, <2>1, CountStep, SuspendStep, ScheduleStep, ReturnStep, ReleaseStep,
       ResetStep, DetachStep, DetachResumeStep, Zenon DEF Step
<1>4. CASE \E t \in Thread : TickTimeout(t)
  BY <1>1, <1>4, TimeoutStep
<1>5. CASE ReleaseIsr
  BY <1>1, <1>5, ReleaseStep
<1>6. CASE TickSlice
  BY <1>1, <1>6, ScheduleStep
<1> QED
  BY <1>1, <1>2, <1>3, <1>4, <1>5, <1>6 DEF Next, Undefined

\* What the invariant says, in the words of the properties.
LEMMA InvImplies == SemInv => WaitersSound /\ TokensConserved /\ ResumesOnlyThreads
<1>1. SUFFICES ASSUME SemInv PROVE WaitersSound
  BY DEF SemInv, DetachSound
<1>2. /\ KernelInv(k) /\ CallsSound /\ KernelSound(k, {})
  BY <1>1, Before DEF KernelInv
<1>3. /\ Waiters \in Seq(Thread) /\ DOMAIN Waiters = 1 .. Len(Waiters)
  BY <1>2, ListOfWaiters DEF Waiters
<1>4. \A t : Contains(Waiters, t) <=> t \in Asleep(k)
  BY <1>3, ContainsToSet DEF Asleep, Waiting, Waiters
<1>5. ListsMatchStat(k, {}) /\ BitmapExact(k)
  BY <1>2, SoundMatches
<1>6. \A i \in DOMAIN Waiters : Waiters[i] \in Thread /\ Waiters[i] \in Asleep(k)
  BY <1>3 DEF Asleep, Waiting, Waiters, ToSet
<1>7. \A i \in DOMAIN Waiters : k.stat[Waiters[i]] = "SUSPEND"
  BY <1>2, <1>6 DEF KernelInv
<1>8. WaitListSound(k, "sem")
  BY <1>2, <1>7 DEF WaitListSound, Waiters, KernelInv, UrgentFirst, InOrder
<1>9. \A t \in Thread :
        Contains(Waiters, t) <=> pc[t] \in {"take", "wait"} /\ k.stat[t] = "SUSPEND"
  BY <1>2, <1>4 DEF KernelInv, CallsSound
<1> QED
  BY <1>1, <1>5, <1>8, <1>9 DEF WaitersSound, WaitersConsistent, SemInv

LEMMA SemInvariant == Spec => []SemInv
BY InitSound, NextSound, PTL DEF Spec

\* For every set of threads, every limit of the count and both list orders: no
\* thread sleeps on a semaphore that has a token, and the list of waiters, the
\* ready lists and the states of the threads agree.
THEOREM WaitersCorrect == Spec => []WaitersSound
BY SemInvariant, InvImplies, PTL

\* No token is lost and none is given twice: what rt_sem_release gave and no
\* rt_sem_take took is in value or on its way to exactly one thread.
THEOREM TokensCorrect == Spec => []TokensConserved
BY SemInvariant, InvImplies, PTL

\* rt_sem_detach resumes threads only, unless a timeout comes between its test
\* of the list and the body of its loop.
THEOREM DetachCorrect == Spec => []ResumesOnlyThreads
BY SemInvariant, InvImplies, PTL
=============================================================================
