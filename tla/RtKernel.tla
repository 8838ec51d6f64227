------------------------------ MODULE RtKernel ------------------------------
(***************************************************************************)
(* The scheduler of RT-Thread as this BSP builds it: one core (RT_USING_SMP *)
(* is off), a list of ready threads per priority, and a bitmap of the       *)
(* priorities whose list is not empty (src/rt-thread/src/scheduler.c).      *)
(*                                                                         *)
(* The module has no variables.  The kernel's state is one record k, and    *)
(* every routine that runs with interrupts disabled is an operator from a   *)
(* kernel state to a kernel state; the modules of the thread interface and  *)
(* of the IPC objects compose them into actions.  The fields of k are       *)
(*                                                                         *)
(*   cur   rt_current_thread                                               *)
(*   rdy   rt_thread_priority_table, a sequence of threads per priority     *)
(*   grp   rt_thread_ready_priority_group, as the set of the bits set       *)
(*   lock  rt_scheduler_lock_nest                                          *)
(*   wait  every other list a thread can be linked in by its one tlist      *)
(*         node: the suspension lists of the IPC objects, the defunct list  *)
(*   stat, yld, prio, err   the fields stat (without and with its YIELD     *)
(*         flag), current_priority and error of every thread                *)
(*   tmr   the threads whose thread_timer is in the timer list              *)
(*                                                                         *)
(* Time is left out: a timer that is in tmr may expire at any tick.         *)
(***************************************************************************)
EXTENDS Naturals, FiniteSets, SequencesExt

CONSTANTS Thread,   \* the thread objects, the idle thread included
          Idle,     \* tidle0, which is always ready or running
          MaxPrio,  \* the lowest priority, RT_THREAD_PRIORITY_MAX - 1
          Queue     \* the lists, other than the ready lists, a thread can be in

Prio == 0 .. MaxPrio

ASSUME KernelAssumption == /\ Idle \in Thread
                           /\ MaxPrio \in Nat

\* thread->stat & RT_THREAD_STAT_MASK.
Stat == {"INIT", "READY", "RUNNING", "SUSPEND", "CLOSE"}

\* The values of thread->error.
Error == {"EOK", "ETIMEOUT", "ERROR"}

KernelType ==
  [cur  : Thread,
   rdy  : [Prio -> Seq(Thread)],
   grp  : SUBSET Prio,
   lock : Nat,
   wait : [Queue -> Seq(Thread)],
   stat : [Thread -> Stat],
   yld  : SUBSET Thread,
   prio : [Thread -> Prio],
   err  : [Thread -> Error],
   tmr  : SUBSET Thread]

-----------------------------------------------------------------------------
(***************************************************************************)
(* scheduler.c                                                             *)
(***************************************************************************)

\* rt_list_remove(&thread->tlist): out of whatever list the node is in.
Unlink(k, t) ==
  [k EXCEPT !.rdy  = [p \in Prio  |-> RemoveFirst(k.rdy[p], t)],
            !.wait = [q \in Queue |-> RemoveFirst(k.wait[q], t)]]

\* rt_schedule_insert_thread.
InsertThread(k, t) ==
  IF t = k.cur
  THEN [k EXCEPT !.stat[t] = "RUNNING"]
  ELSE [k EXCEPT !.stat[t] = "READY",
                 !.rdy[k.prio[t]] = Append(@, t),
                 !.grp = @ \cup {k.prio[t]}]

\* Fault: the bit stays.
RemoveThreadKeepBit(k, t) == Unlink(k, t)

\* rt_schedule_remove_thread: the bit goes when the list became empty.
RemoveThread(k, t) ==
  LET u == Unlink(k, t)
  IN  [u EXCEPT !.grp = IF u.rdy[k.prio[t]] = <<>> THEN @ \ {k.prio[t]} ELSE @]

\* __rt_ffs(rt_thread_ready_priority_group) - 1, for a bitmap that is not 0.
HighestReadyPriority(k) == CHOOSE p \in k.grp : \A q \in k.grp : p <= q

\* Fault: a thread that yields keeps the processor.
KeepsProcessorAnyway(k) ==
  /\ k.stat[k.cur] = "RUNNING"
  /\ k.prio[k.cur] <= HighestReadyPriority(k)

\* The running thread keeps the processor: no ready thread is more urgent,
\* and one as urgent gets its turn only when the running one yields.
KeepsProcessor(k) ==
  /\ k.stat[k.cur] = "RUNNING"
  /\ \/ k.prio[k.cur] < HighestReadyPriority(k)
     \/ /\ k.prio[k.cur] = HighestReadyPriority(k)
        /\ k.cur \notin k.yld

\* The YIELD flag is cleared only while the current thread is RUNNING.
ClearYield(k) ==
  IF k.stat[k.cur] = "RUNNING" THEN [k EXCEPT !.yld = @ \ {k.cur}] ELSE k

\* Fault: the thread that loses the processor is not put into a ready list.
SwitchToDropping(k, to) ==
  [RemoveThread([k EXCEPT !.cur = to], to) EXCEPT !.stat[to] = "RUNNING"]

\* The switch itself: `to' leaves the ready list and runs.  A current thread
\* that is still RUNNING goes to the tail of the ready list of its priority.
SwitchTo(k, to) ==
  LET s == [k EXCEPT !.cur = to]
      i == IF k.stat[k.cur] = "RUNNING" THEN InsertThread(s, k.cur) ELSE s
  IN  [RemoveThread(i, to) EXCEPT !.stat[to] = "RUNNING"]

\* Fault: rt_scheduler_lock_nest is not looked at.
ScheduleUnlocked(k) ==
  IF k.grp = {}
  THEN k
  ELSE IF KeepsProcessor(k)
       THEN [RemoveThread(ClearYield(k), k.cur) EXCEPT !.stat[k.cur] = "RUNNING"]
       ELSE SwitchTo(ClearYield(k), Head(k.rdy[HighestReadyPriority(k)]))

\* rt_schedule.  Called from an interrupt handler it only records the switch
\* that the end of the handler makes; no thread runs in between.
Schedule(k) ==
  IF k.lock # 0 \/ k.grp = {}
  THEN k
  ELSE IF KeepsProcessor(k)
       THEN [RemoveThread(ClearYield(k), k.cur) EXCEPT !.stat[k.cur] = "RUNNING"]
       ELSE SwitchTo(ClearYield(k), Head(k.rdy[HighestReadyPriority(k)]))

-----------------------------------------------------------------------------
(***************************************************************************)
(* thread.c and clock.c: what runs with interrupts disabled                 *)
(***************************************************************************)

\* rt_thread_suspend, below its test of stat.
SuspendThread(k, t) ==
  [RemoveThread(k, t) EXCEPT !.stat[t] = "SUSPEND", !.tmr = @ \ {t}]

\* rt_thread_resume, below its test of stat.
ResumeThread(k, t) ==
  InsertThread([Unlink(k, t) EXCEPT !.tmr = @ \ {t}], t)

\* rt_timer_start on thread_timer.
StartTimer(k, t) == [k EXCEPT !.tmr = @ \cup {t}]

\* rt_timer_check finds thread_timer expired and calls rt_thread_timeout.
ThreadTimeout(k, t) ==
  Schedule(InsertThread([Unlink(k, t) EXCEPT !.tmr = @ \ {t},
                                             !.err[t] = "ETIMEOUT"], t))

\* Fault: a ready thread stays in the list of its old priority.
ChangePriorityOnly(k, t, p) == [k EXCEPT !.prio[t] = p]

\* rt_thread_control(RT_THREAD_CTRL_CHANGE_PRIORITY): a ready thread moves to
\* the list of its new priority, any other thread only changes its field.
ChangePriority(k, t, p) ==
  IF k.stat[t] = "READY"
  THEN InsertThread([RemoveThread(k, t) EXCEPT !.prio[t] = p], t)
  ELSE [k EXCEPT !.prio[t] = p]

\* rt_tick_increase when the time slice of the current thread is used up, and
\* rt_thread_yield: both set the YIELD flag and call rt_schedule.
YieldCurrent(k) == Schedule([k EXCEPT !.yld = @ \cup {k.cur}])

-----------------------------------------------------------------------------
(***************************************************************************)
(* What every module that uses the kernel expects of k                     *)
(***************************************************************************)

\* How often a thread is linked in a list.
Occurrences(s, t) == Cardinality({i \in DOMAIN s : s[i] = t})

\* The lists a thread is linked in.
ListsOf(k, t) ==
  {<<"ready", p>> : p \in {q \in Prio : Contains(k.rdy[q], t)}}
    \cup {<<"wait", q>> : q \in {r \in Queue : Contains(k.wait[r], t)}}

\* A thread is in a ready list exactly when it is READY, and then only in the
\* list of its own priority; its one list node is in at most one list, once.
\* Threads in S, which a call is tearing down, may be READY in no list.
ListsMatchStat(k, S) ==
  \A t \in Thread :
    /\ Cardinality(ListsOf(k, t)) <= 1
    /\ \A p \in Prio : Occurrences(k.rdy[p], t) <= 1
    /\ \A q \in Queue : Occurrences(k.wait[q], t) <= 1
    /\ \A p \in Prio :
         Contains(k.rdy[p], t) => k.stat[t] = "READY" /\ p = k.prio[t]
    /\ k.stat[t] = "READY" /\ t \notin S => Contains(k.rdy[k.prio[t]], t)

\* The bitmap has the bit of a priority exactly when its list has a thread.
BitmapExact(k) == k.grp = {p \in Prio : k.rdy[p] # <<>>}

\* No ready thread is more urgent than the current one.
HighestRuns(k) ==
  \A t \in Thread : k.stat[t] = "READY" => k.prio[k.cur] <= k.prio[t]
=============================================================================
