------------------------------- MODULE Mutex -------------------------------
(***************************************************************************)
(* Mutexes with priority inheritance: rt_mutex_take and rt_mutex_release of *)
(* src/rt-thread/src/ipc.c.                                                 *)
(*                                                                         *)
(* A taker that has to wait lends its priority to the owner, and the owner  *)
(* falls back, when it releases, to the priority it had when it took THIS   *)
(* mutex (original_priority).  One mutex at a time this is exact.  With two *)
(* a thread can be boosted through one while it takes, releases or waits    *)
(* for the other; lent, lowered and raised record the three cases in which  *)
(* the priorities go wrong.                                                 *)
(*                                                                         *)
(* One action is one section with interrupts disabled; pc is as in          *)
(* Semaphore.  The suspension list of mutex m is k.wait[m].                 *)
(***************************************************************************)
EXTENDS Ipc

CONSTANTS Mutexes,   \* the mutex objects
          NoThread,  \* RT_NULL as an owner
          NoPrio,    \* original_priority of a free mutex, 0xFF
          MaxHold,   \* RT_MUTEX_HOLD_MAX
          Calls      \* Calls[t]: the calls thread t makes

ASSUME MutexAssumption ==
  /\ Queue = Mutexes
  /\ NoThread \notin Thread \cup Mutexes
  /\ NoPrio \notin Prio
  /\ MaxHold \in Nat \ {0}
  /\ Flag = "PRIO"

VARIABLES k,        \* the kernel state
          pc,       \* pc[t]: where t is in its call
          want,     \* want[t]: the mutex t waits for in rt_mutex_take
          owner,    \* mutex->owner
          hold,     \* mutex->hold
          value,    \* mutex->value
          original, \* mutex->original_priority
          has,      \* history: has[t][m], takes of m by t that returned
                    \* RT_EOK, less its releases
          lent,     \* history: threads that took a mutex with a lent priority
          lowered,  \* history: threads whose priority a release took back while
                    \* they own another mutex
          raised    \* history: threads that were lent a priority while they
                    \* wait for a mutex themselves

lending == <<lent, lowered, raised>>
vars == <<k, pc, want, owner, hold, value, original, has, lending>>

TypeOK ==
  /\ k \in KernelType
  /\ pc \in [Thread -> {"run", "take", "wait", "sched", "woken"}]
  /\ want \in [Thread -> Mutexes \cup {NoThread}]
  /\ owner \in [Mutexes -> Thread \cup {NoThread}]
  /\ hold \in [Mutexes -> 0 .. MaxHold]
  /\ value \in [Mutexes -> 0 .. 1]
  /\ original \in [Mutexes -> Prio \cup {NoPrio}]
  /\ has \in [Thread -> [Mutexes -> 0 .. MaxHold]]
  /\ lent \subseteq Thread /\ lowered \subseteq Thread /\ raised \subseteq Thread

\* rt_mutex_init of every mutex.
Init ==
  /\ k = InitKernel
  /\ pc = [t \in Thread |-> "run"]
  /\ want = [t \in Thread |-> NoThread]
  /\ owner = [m \in Mutexes |-> NoThread]
  /\ hold = [m \in Mutexes |-> 0]
  /\ value = [m \in Mutexes |-> 1]
  /\ original = [m \in Mutexes |-> NoPrio]
  /\ has = [t \in Thread |-> [m \in Mutexes |-> 0]]
  /\ lent = {} /\ lowered = {} /\ raised = {}

-----------------------------------------------------------------------------
Caller(t, call) == k.cur = t /\ t # Idle /\ pc[t] = "run" /\ call \in Calls[t]

Goto(t, from, to) == k.cur = t /\ pc[t] = from /\ pc' = [pc EXCEPT ![t] = to]

\* The calls of rt_mutex_take: RT_WAITING_FOREVER, a timeout, and
\* rt_mutex_trytake.  "again" is any of them by the owner.
TakeCalls == {"take", "timed", "try"}

\* rt_mutex_take by the owner: one hold more, or -RT_EFULL at the limit.
TakeAgain(t, m) ==
  /\ Caller(t, "again")
  /\ owner[m] = t
  /\ IF hold[m] < MaxHold
     THEN /\ hold' = [hold EXCEPT ![m] = @ + 1]
          /\ has' = [has EXCEPT ![t][m] = @ + 1]
     ELSE UNCHANGED <<hold, has, lending>>
  /\ k' = [k EXCEPT !.err[t] = "EOK"]
  /\ UNCHANGED <<pc, want, owner, value, original, lending>>

\* Fault: the owner keeps the priority it was lent.
RestoreNothing(kk, m) == kk

\* `change the owner thread to original priority'.
Restore(kk, m) ==
  IF original[m] # kk.prio[owner[m]]
  THEN ChangePriority(kk, owner[m], original[m])
  ELSE kk

\* The history: t becomes an owner, and its priority is the original one from
\* now on, whosever it is; t releases m with k' as the outcome.
Lent(t) == IF k.prio[t] # InitPrio[t] THEN lent \cup {t} ELSE lent
Lowered(t, m) ==
  IF \A n \in Mutexes \ {m} : owner[n] # t THEN lowered \ {t}
  ELSE IF Restore(k, m).prio[t] > k.prio[t] THEN lowered \cup {t} ELSE lowered

\* rt_mutex_take of a free mutex.
TakeFree(t, m) ==
  /\ \E c \in TakeCalls : Caller(t, c)
  /\ owner[m] # t
  /\ value[m] > 0
  /\ value' = [value EXCEPT ![m] = @ - 1]
  /\ owner' = [owner EXCEPT ![m] = t]
  /\ original' = [original EXCEPT ![m] = k.prio[t]]
  /\ hold' = [hold EXCEPT ![m] = @ + 1]
  /\ has' = [has EXCEPT ![t][m] = @ + 1]
  /\ k' = [k EXCEPT !.err[t] = "EOK"]
  /\ lent' = Lent(t)
  /\ UNCHANGED <<pc, want, lowered, raised>>

\* rt_mutex_trytake of a mutex somebody else owns: -RT_ETIMEOUT.
TryTakeFails(t, m) ==
  /\ Caller(t, "try")
  /\ owner[m] # t
  /\ value[m] = 0
  /\ k' = [k EXCEPT !.err[t] = "ETIMEOUT"]
  /\ UNCHANGED <<pc, want, owner, hold, value, original, has, lending>>

\* Fault: the owner keeps its own priority.
InheritNothing(kk, m, t) == kk

\* The owner runs with the priority of a more urgent waiter t from now on.
Inherit(kk, m, t) ==
  IF kk.prio[t] < kk.prio[owner[m]]
  THEN ChangePriority(kk, owner[m], kk.prio[t])
  ELSE kk

\* rt_mutex_take of a mutex somebody else owns: lend the priority, suspend.
TakeSuspend(t, m, call) ==
  /\ Caller(t, call)
  /\ owner[m] # t
  /\ value[m] = 0
  /\ k' = IpcSuspend(Inherit(k, m, t), m, t, call = "timed")
  /\ want' = [want EXCEPT ![t] = m]
  /\ Goto(t, "run", "take")
  /\ raised' = IF k.prio[t] < k.prio[owner[m]] /\ want[owner[m]] # NoThread
               THEN raised \cup {owner[m]} ELSE raised
  /\ UNCHANGED <<owner, hold, value, original, has, lent, lowered>>

\* The rt_schedule of rt_mutex_take and rt_mutex_release.
CallSchedule(t) ==
  /\ \/ Goto(t, "take", "wait")
     \/ Goto(t, "sched", "run")
  /\ k' = Schedule(k)
  /\ UNCHANGED <<want, owner, hold, value, original, has, lending>>

\* rt_mutex_take runs again: thread->error tells whether it owns the mutex.
TakeReturn(t) ==
  /\ Goto(t, "wait", "run")
  /\ want' = [want EXCEPT ![t] = NoThread]
  /\ has' = IF k.err[t] = "EOK" THEN [has EXCEPT ![t][want[t]] = @ + 1] ELSE has
  /\ raised' = raised \ {t}
  /\ UNCHANGED <<k, owner, hold, value, original, lent, lowered>>

\* rt_mutex_release by a thread that is not the owner.
ReleaseRefused(t, m) ==
  /\ Caller(t, "misuse")
  /\ owner[m] # t
  /\ k' = [k EXCEPT !.err[t] = "ERROR"]
  /\ UNCHANGED <<pc, want, owner, hold, value, original, has, lending>>

\* rt_mutex_release of a mutex the thread holds more than once.
ReleaseNested(t, m) ==
  /\ Caller(t, "release")
  /\ owner[m] = t
  /\ hold[m] > 1
  /\ hold' = [hold EXCEPT ![m] = @ - 1]
  /\ has' = [has EXCEPT ![t][m] = @ - 1]
  /\ UNCHANGED <<k, pc, want, owner, value, original, lending>>

\* The last rt_mutex_release, nobody waits: the mutex is free.
ReleaseFree(t, m) ==
  /\ Caller(t, "release")
  /\ owner[m] = t
  /\ hold[m] = 1
  /\ k.wait[m] = <<>>
  /\ k' = Restore(k, m)
  /\ value' = [value EXCEPT ![m] = @ + 1]
  /\ owner' = [owner EXCEPT ![m] = NoThread]
  /\ original' = [original EXCEPT ![m] = NoPrio]
  /\ hold' = [hold EXCEPT ![m] = 0]
  /\ has' = [has EXCEPT ![t][m] = @ - 1]
  /\ lowered' = Lowered(t, m)
  /\ UNCHANGED <<pc, want, lent, raised>>

\* Fault: the waiter is resumed and not made the owner.
ReleaseNoOwner(t, m) ==
  /\ Caller(t, "release")
  /\ owner[m] = t
  /\ hold[m] = 1
  /\ k.wait[m] # <<>>
  /\ k' = IpcResume(Restore(k, m), m)
  /\ has' = [has EXCEPT ![t][m] = @ - 1]
  /\ Goto(t, "run", "sched")
  /\ lowered' = Lowered(t, m)
  /\ UNCHANGED <<want, owner, original, hold, value, lent, raised>>

\* The last rt_mutex_release, the first waiter owns the mutex before it runs.
ReleaseHandOver(t, m) ==
  /\ Caller(t, "release")
  /\ owner[m] = t
  /\ hold[m] = 1
  /\ k.wait[m] # <<>>
  /\ k' = IpcResume(Restore(k, m), m)
  /\ owner' = [owner EXCEPT ![m] = Head(k.wait[m])]
  /\ original' = [original EXCEPT ![m] = k.prio[Head(k.wait[m])]]
  /\ has' = [has EXCEPT ![t][m] = @ - 1]
  /\ Goto(t, "run", "sched")
  /\ lent' = Lent(Head(k.wait[m]))
  /\ lowered' = Lowered(t, m)
  /\ UNCHANGED <<want, hold, value, raised>>

\* The tick interrupt.
TickSlice ==
  /\ k' = YieldCurrent(k)
  /\ UNCHANGED <<pc, want, owner, hold, value, original, has, lending>>

TickTimeout(t) ==
  /\ t \in k.tmr
  /\ k' = ThreadTimeout(k, t)
  /\ UNCHANGED <<pc, want, owner, hold, value, original, has, lending>>

\* A thread sleeps for a while: rt_thread_sleep up to the switch to another
\* thread in one step (Threads has its sections).  Its timer ends the sleep.
Sleep(t) ==
  /\ Caller(t, "sleep")
  /\ k' = Schedule(StartTimer(SuspendThread(k, t), t))
  /\ Goto(t, "run", "woken")
  /\ UNCHANGED <<want, owner, hold, value, original, has, lending>>

\* The end of rt_thread_sleep: a timeout is what was asked for, no error.
SleepReturn(t) ==
  /\ Goto(t, "woken", "run")
  /\ k' = [k EXCEPT !.err[t] = IF @ = "ETIMEOUT" THEN "EOK" ELSE @]
  /\ UNCHANGED <<want, owner, hold, value, original, has, lending>>

Step(t) ==
  \/ \E m \in Mutexes :
       \/ TakeAgain(t, m) \/ TakeFree(t, m) \/ TryTakeFails(t, m)
       \/ \E call \in {"take", "timed"} : TakeSuspend(t, m, call)
       \/ ReleaseRefused(t, m) \/ ReleaseNested(t, m)
       \/ ReleaseFree(t, m) \/ ReleaseHandOver(t, m)
  \/ CallSchedule(t) \/ TakeReturn(t) \/ Sleep(t) \/ SleepReturn(t)

Next == TickSlice \/ \E t \in Thread : Step(t) \/ TickTimeout(t)

Spec == Init /\ [][Next]_vars

-----------------------------------------------------------------------------
(***************************************************************************)
(* Properties                                                              *)
(***************************************************************************)

\* Threads that were made the owner of m and have not run since.
Granted(m) == {t \in Thread : /\ want[t] = m
                              /\ ~Contains(k.wait[m], t)
                              /\ k.err[t] = "EOK"}

\* What the threads believe and what the mutex says is the same: at most one
\* thread has m, it is the owner with as many holds as it made, and an owner
\* that has not made them was handed the mutex and will find out when it runs.
\* A timeout that comes together with a release gives no mutex away.
OwnerIsHolder ==
  \A m \in Mutexes, t \in Thread :
    /\ has[t][m] > 0 => owner[m] = t /\ hold[m] = has[t][m]
    /\ owner[m] = t /\ has[t][m] = 0 => t \in Granted(m) /\ hold[m] = 1
    /\ t \in Granted(m) => owner[m] = t

\* A mutex is free exactly when it counts 1, nobody owns it and nobody waits.
FreeMutex ==
  \A m \in Mutexes :
    /\ value[m] = 1 <=> owner[m] = NoThread
    /\ hold[m] = 0 <=> owner[m] = NoThread
    /\ original[m] = NoPrio <=> owner[m] = NoThread
    /\ owner[m] = NoThread => k.wait[m] = <<>>

\* The scheduler's lists agree with the threads' stat and a thread is in the
\* list of the mutex it waits for, whatever priorities are lent meanwhile.
WaitersConsistent ==
  /\ ListsMatchStat(k, {}) /\ BitmapExact(k)
  /\ \A m \in Mutexes, t \in Thread :
       Contains(k.wait[m], t) => want[t] = m /\ k.stat[t] = "SUSPEND"

\* The waiters of a mutex are in the order of their priorities, so the most
\* urgent one is the next owner.  The exception is a waiter that was lent a
\* priority while it waits: rt_mutex_take leaves it at its place (ipc.c:979).
WaitersOrdered ==
  \A m \in Mutexes : \A i, j \in DOMAIN k.wait[m] :
    i < j => \/ k.prio[k.wait[m][i]] <= k.prio[k.wait[m][j]]
             \/ {k.wait[m][i], k.wait[m][j]} \cap raised # {}

\* While a thread waits for a mutex the owner is at least as urgent: what is
\* less urgent than the waiter can not keep the owner from the processor.  Two
\* exceptions: a priority that is lent to a waiter is not passed on, and a
\* release takes back what the waiters of another mutex lent.
InheritanceHolds ==
  \A m \in Mutexes : \A i \in DOMAIN k.wait[m] :
    \/ k.prio[owner[m]] <= k.prio[k.wait[m][i]]
    \/ k.wait[m][i] \in raised
    \/ owner[m] \in lowered

\* A thread that owns no mutex is back at its own priority, unless it took one
\* with a priority that it was lent through another: rt_mutex_take stores that
\* as original_priority, and releasing the two in the order they were taken
\* leaves the thread with it (ipc.c:1120).
PriorityRestored ==
  \A t \in Thread :
    (\A m \in Mutexes : owner[m] # t) => k.prio[t] = InitPrio[t] \/ t \in lent

\* Who holds a mutex, together: hold within its 8 bits, owner and hold what the
\* calls returned, and a mutex that nobody owns as rt_mutex_init left it.
OwnershipSound == TypeOK /\ OwnerIsHolder /\ FreeMutex

\* The lists of waiters, together: they agree with the scheduler's, and they
\* are in the order of the flag although priorities change under them.
WaitersSound == WaitersConsistent /\ WaitersOrdered
=============================================================================
