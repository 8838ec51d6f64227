------------------------------ MODULE Threads ------------------------------
(***************************************************************************)
(* The life of a thread: src/rt-thread/src/thread.c, the idle thread that   *)
(* reclaims the dead ones (idle.c) and the two interrupts that wake and     *)
(* rotate threads (the tick handler of clock.c and timer.c).                *)
(*                                                                         *)
(* One action is one section of code that runs with interrupts disabled, or *)
(* one read of thread->stat made with interrupts enabled: rt_thread_suspend,*)
(* rt_thread_resume and rt_thread_delete test stat first and disable        *)
(* interrupts afterwards, so an interrupt and the threads it lets run come  *)
(* in between.  pc[t] is where thread t is in the call it makes and tgt[t]  *)
(* the thread that call is about.  Only the current thread takes steps.     *)
(***************************************************************************)
EXTENDS RtKernel

CONSTANTS Main,      \* the thread that runs main()
          Static,    \* threads that rt_thread_init set up, not rt_thread_create
          InitPrio,  \* init_priority of every thread
          None,      \* no thread
          Calls,     \* the calls the application makes
          MaxNest    \* bound on nested rt_enter_critical

ASSUME ThreadsAssumption ==
  /\ Main \in Thread \ {Idle}
  /\ Static \subseteq Thread \ {Idle}
  /\ InitPrio \in [Thread -> Prio]
  /\ InitPrio[Idle] = MaxPrio
  /\ \A t \in Thread \ {Idle} : InitPrio[t] < MaxPrio
  /\ None \notin Thread
  /\ MaxNest \in Nat
  /\ Queue = {"defunct"}

VARIABLES k,     \* the kernel state
          pc,    \* pc[t]: where t is in its call
          tgt,   \* tgt[t]: the thread this call is about
          gone   \* thread objects that do not exist, or no longer do

vars == <<k, pc, tgt, gone>>

PCs == {"run", "sched", "sleep", "woken", "suspend", "resume",
        "del_unlink", "del_timer", "del_close"}

TypeOK ==
  /\ k \in KernelType
  /\ k.lock <= MaxNest
  /\ pc \in [Thread -> PCs]
  /\ tgt \in [Thread -> Thread \cup {None}]
  /\ gone \subseteq Thread

\* What rtthread_startup leaves: main and idle were started, and
\* rt_system_scheduler_start chose main.
Init ==
  /\ k = [cur  |-> Main,
          rdy  |-> [p \in Prio |-> IF p = MaxPrio THEN <<Idle>> ELSE << >>],
          grp  |-> {MaxPrio},
          lock |-> 0,
          wait |-> [q \in Queue |-> << >>],
          stat |-> [t \in Thread |-> CASE t = Main -> "RUNNING"
                                       [] t = Idle -> "READY"
                                       [] OTHER    -> "CLOSE"],
          yld  |-> {},
          prio |-> InitPrio,
          err  |-> [t \in Thread |-> "EOK"],
          tmr  |-> {}]
  /\ pc = [t \in Thread |-> "run"]
  /\ tgt = [t \in Thread |-> None]
  /\ gone = Thread \ {Main, Idle}

-----------------------------------------------------------------------------
\* The application's threads follow two rules: two threads do not work on the
\* same thread at the same time, and threads are deleted one at a time, none in
\* the middle of a call about another.
Untouched(u) == u # Idle /\ \A t \in Thread : tgt[t] # u

Available(u) == Untouched(u) /\ u \notin gone

\* The current thread, when it is in its own code and makes one of Calls.
Caller(t, call) == k.cur = t /\ t # Idle /\ pc[t] = "run" /\ call \in Calls

\* The current thread goes from one point of a call to another.
Goto(t, from, to) == k.cur = t /\ pc[t] = from /\ pc' = [pc EXCEPT ![t] = to]

\* rt_thread_create or rt_thread_init: a new object, not yet started.
Create(t, u) ==
  /\ Caller(t, "create")
  /\ Untouched(u)
  /\ u \in gone
  /\ gone' = gone \ {u}
  /\ k' = [k EXCEPT !.stat[u] = "INIT", !.yld = @ \ {u}, !.err[u] = "EOK",
                    !.prio[u] = InitPrio[u]]
  /\ pc' = [pc EXCEPT ![u] = "run"]
  /\ tgt' = [tgt EXCEPT ![u] = None]

\* Fault: the new thread waits for somebody else to call rt_schedule.
StartupSilently(t, u) ==
  /\ Caller(t, "create")
  /\ Available(u)
  /\ k.stat[u] = "INIT"
  /\ k' = ResumeThread([k EXCEPT !.stat[u] = "SUSPEND", !.yld = @ \ {u},
                                 !.prio[u] = InitPrio[u]], u)
  /\ UNCHANGED <<pc, tgt, gone>>

\* rt_thread_startup: SUSPEND, then rt_thread_resume; rt_schedule is next.
Startup(t, u) ==
  /\ Caller(t, "create")
  /\ Available(u)
  /\ k.stat[u] = "INIT"
  /\ k' = ResumeThread([k EXCEPT !.stat[u] = "SUSPEND", !.yld = @ \ {u},
                                 !.prio[u] = InitPrio[u]], u)
  /\ Goto(t, "run", "sched")
  /\ UNCHANGED <<tgt, gone>>

\* The rt_schedule that a call ends with, or that its caller has to add.
CallSchedule(t) ==
  /\ \/ Goto(t, "sched", "run")
     \/ Goto(t, "sleep", "woken")
  /\ k' = Schedule(k)
  /\ UNCHANGED <<tgt, gone>>

\* rt_thread_yield.
ThreadYield(t) ==
  /\ Caller(t, "yield")
  /\ k' = YieldCurrent(k)
  /\ UNCHANGED <<pc, tgt, gone>>

\* rt_thread_sleep: suspended and timed with interrupts disabled.
Sleep(t) ==
  /\ Caller(t, "sleep")
  /\ k.lock = 0
  /\ k' = StartTimer(SuspendThread(k, t), t)
  /\ Goto(t, "run", "sleep")
  /\ UNCHANGED <<tgt, gone>>

\* The end of rt_thread_sleep: a timeout is what was asked for, no error.
SleepReturn(t) ==
  /\ Goto(t, "woken", "run")
  /\ k' = [k EXCEPT !.err[t] = IF @ = "ETIMEOUT" THEN "EOK" ELSE @]
  /\ UNCHANGED <<tgt, gone>>

\* rt_thread_suspend reads stat; the caller may name itself.
SuspendCheck(t, u) ==
  /\ Caller(t, "suspend")
  /\ k.lock = 0
  /\ Available(u)
  /\ k.stat[u] \in {"READY", "RUNNING"}
  /\ tgt' = [tgt EXCEPT ![t] = u]
  /\ Goto(t, "run", "suspend")
  /\ UNCHANGED <<k, gone>>

\* rt_thread_suspend with interrupts disabled.  Whoever suspends itself has to
\* call rt_schedule next.
Suspend(t) ==
  /\ Goto(t, "suspend", IF tgt[t] = t THEN "sched" ELSE "run")
  /\ k' = SuspendThread(k, tgt[t])
  /\ tgt' = [tgt EXCEPT ![t] = None]
  /\ UNCHANGED gone

\* rt_thread_resume reads stat.
ResumeCheck(t, u) ==
  /\ Caller(t, "resume")
  /\ Available(u)
  /\ k.stat[u] = "SUSPEND"
  /\ tgt' = [tgt EXCEPT ![t] = u]
  /\ Goto(t, "run", "resume")
  /\ UNCHANGED <<k, gone>>

\* rt_thread_resume with interrupts disabled; its callers add rt_schedule.
Resume(t) ==
  /\ Goto(t, "resume", "sched")
  /\ k' = ResumeThread(k, tgt[t])
  /\ tgt' = [tgt EXCEPT ![t] = None]
  /\ UNCHANGED gone

\* rt_thread_control(RT_THREAD_CTRL_CHANGE_PRIORITY): it does not reschedule.
SetPriority(t, u, p) ==
  /\ Caller(t, "priority")
  /\ Available(u)
  /\ k.stat[u] # "CLOSE"
  /\ k' = ChangePriority(k, u, p)
  /\ UNCHANGED <<pc, tgt, gone>>

\* rt_enter_critical.
EnterCritical(t) ==
  /\ Caller(t, "critical")
  /\ k.lock < MaxNest
  /\ k' = [k EXCEPT !.lock = @ + 1]
  /\ UNCHANGED <<pc, tgt, gone>>

\* rt_exit_critical: the outermost one, and one too many, reschedules.
ExitCritical(t) ==
  /\ Caller(t, "critical")
  /\ k' = [k EXCEPT !.lock = IF @ <= 1 THEN 0 ELSE @ - 1]
  /\ Goto(t, "run", IF k.lock <= 1 THEN "sched" ELSE "run")
  /\ UNCHANGED <<tgt, gone>>

-----------------------------------------------------------------------------
(***************************************************************************)
(* The end of a thread                                                     *)
(***************************************************************************)

\* Fault: static threads are put into the defunct list too.
BuryAll(kk, u) == [kk EXCEPT !.wait["defunct"] = <<u>> \o @]

\* rt_thread_defunct_enqueue, or rt_object_detach for a static thread.
Bury(kk, u) ==
  IF u \in Static THEN kk ELSE [kk EXCEPT !.wait["defunct"] = <<u>> \o @]

\* thread->stat = RT_THREAD_CLOSE, which clears the flags too.
Close(kk, u) == [kk EXCEPT !.stat[u] = "CLOSE", !.yld = @ \ {u}]

\* rt_timer_detach(&thread->thread_timer).
DetachTimer(kk, u) == [kk EXCEPT !.tmr = @ \ {u}]

\* _thread_exit: the entry function of the current thread returned.
ThreadExit(t) ==
  /\ Caller(t, "exit")
  /\ k.lock = 0
  /\ k' = Schedule(Bury(DetachTimer(Close(RemoveThread(k, t), t), t), t))
  /\ gone' = gone \cup ({t} \cap Static)
  /\ UNCHANGED <<pc, tgt>>

\* rt_thread_delete and rt_thread_detach read stat.
DeleteCheck(t, u) ==
  /\ Caller(t, "delete")
  /\ u # t
  /\ \A s \in Thread : tgt[s] = None
  /\ Available(u)
  /\ k.stat[u] # "CLOSE"
  /\ tgt' = [tgt EXCEPT ![t] = u]
  /\ Goto(t, "run", IF k.stat[u] = "INIT" THEN "del_timer" ELSE "del_unlink")
  /\ UNCHANGED <<k, gone>>

\* ... take the thread out of its list, with interrupts disabled for that,
DeleteUnlink(t) ==
  /\ Goto(t, "del_unlink", "del_timer")
  /\ k' = RemoveThread(k, tgt[t])
  /\ UNCHANGED <<tgt, gone>>

\* ... detach its timer, likewise,
DeleteTimer(t) ==
  /\ Goto(t, "del_timer", "del_close")
  /\ k' = DetachTimer(k, tgt[t])
  /\ UNCHANGED <<tgt, gone>>

\* ... and close it, likewise.
DeleteClose(t) ==
  /\ Goto(t, "del_close", "run")
  /\ k' = Bury(Close(k, tgt[t]), tgt[t])
  /\ gone' = gone \cup ({tgt[t]} \cap Static)
  /\ tgt' = [tgt EXCEPT ![t] = None]

\* rt_defunct_execute in the idle thread: rt_thread_defunct_dequeue, then the
\* stack and the object are freed.
Reclaim ==
  /\ k.cur = Idle
  /\ k.wait["defunct"] # <<>>
  /\ k' = [k EXCEPT !.wait["defunct"] = Tail(@)]
  /\ gone' = gone \cup {Head(k.wait["defunct"])}
  /\ UNCHANGED <<pc, tgt>>

-----------------------------------------------------------------------------
(***************************************************************************)
(* The tick interrupt                                                      *)
(***************************************************************************)

\* rt_tick_increase: the time slice of the current thread is used up.
TickSlice ==
  /\ k' = YieldCurrent(k)
  /\ UNCHANGED <<pc, tgt, gone>>

\* rt_timer_check: the timer of a thread has expired.
TickTimeout(t) ==
  /\ t \in k.tmr
  /\ k' = ThreadTimeout(k, t)
  /\ UNCHANGED <<pc, tgt, gone>>

Step(t) ==
  \/ \E u \in Thread : \/ Create(t, u) \/ Startup(t, u) \/ SuspendCheck(t, u)
                       \/ ResumeCheck(t, u) \/ DeleteCheck(t, u)
  \/ \E u \in Thread, p \in 0 .. MaxPrio - 1 : SetPriority(t, u, p)
  \/ CallSchedule(t) \/ ThreadYield(t) \/ Sleep(t) \/ SleepReturn(t)
  \/ Suspend(t) \/ Resume(t) \/ EnterCritical(t) \/ ExitCritical(t)
  \/ ThreadExit(t) \/ DeleteUnlink(t) \/ DeleteTimer(t) \/ DeleteClose(t)

Interrupt == TickSlice \/ \E t \in Thread : TickTimeout(t)

Next == (\E t \in Thread : Step(t)) \/ Reclaim \/ Interrupt

Spec == Init /\ [][Next]_vars

\* The tick comes for ever, the processor executes the current thread, and a
\* thread that locked the scheduler unlocks it as often; nothing is assumed about
\* any other thread.
FairSpec == /\ Spec
            /\ WF_vars(TickSlice)
            /\ WF_vars(\E t \in Thread : Step(t))
            /\ \A n \in 1 .. MaxNest : SF_vars(k.lock = n /\ ExitCritical(k.cur))

-----------------------------------------------------------------------------
(***************************************************************************)
(* Properties                                                              *)
(***************************************************************************)

\* Threads that rt_thread_delete has unlinked and not yet closed.
Dying == {tgt[t] : t \in {s \in Thread : pc[s] \in {"del_timer", "del_close"}}}

\* The current thread has still to make the rt_schedule its call ends with.
OwesSchedule == pc[k.cur] \in {"sched", "sleep"}

\* The list node of a thread, its stat and the bitmap agree, whatever calls
\* and interrupts come between the sections of thread.c: a READY thread is
\* once in the list of its priority and in no other list, no other thread is
\* in a ready list, and the bitmap rt_schedule searches has exactly the bits
\* of the lists that hold a thread.
QueuesConsistent == ListsMatchStat(k, Dying) /\ BitmapExact(k)

\* Exactly the current thread is RUNNING; it is not only when it suspended
\* itself and has not reached rt_schedule, where an interrupt can still find
\* it (rt_schedule_insert_thread has a case for that).
OneRunning ==
  /\ \A t \in Thread : k.stat[t] = "RUNNING" => t = k.cur
  /\ k.stat[k.cur] # "RUNNING" => k.stat[k.cur] = "SUSPEND" /\ OwesSchedule

\* rt_thread_timeout asserts that its thread is SUSPEND: whatever resumes,
\* suspends or closes a thread also took its timer out of the timer list.
TimerOfSuspended == \A t \in k.tmr : k.stat[t] = "SUSPEND"

\* A thread that is closed, or whose object is freed, can not come back: no
\* timer points to it, it is in no ready list and does not run, and it waits
\* in the defunct list exactly until the idle thread has freed it.  A thread
\* that exits while another one deletes it is moved there by the latter.
ClosedUnlinked ==
  \A t \in Thread :
    k.stat[t] = "CLOSE" \/ t \in gone =>
      /\ k.stat[t] = "CLOSE"
      /\ t \notin k.tmr
      /\ t # k.cur
      /\ \A p \in Prio : ~Contains(k.rdy[p], t)
      /\ Contains(k.wait["defunct"], t) => t \notin gone
      /\ t \notin gone \cup Dying => Contains(k.wait["defunct"], t)

\* With the scheduler unlocked the most urgent ready thread has the
\* processor, unless the current thread is about to call rt_schedule.
MostUrgentRuns == k.lock = 0 /\ ~OwesSchedule => HighestRuns(k)

\* Between rt_enter_critical and the last rt_exit_critical no interrupt and no
\* call gives the processor to another thread.
LockKeepsProcessor ==
  [][k.lock > 0 /\ k'.lock > 0 => k'.cur = k.cur]_vars

\* A ready thread of the highest priority gets the processor, however often
\* threads as urgent lock the scheduler: a time slice that ends while the
\* scheduler is locked is not forgotten.
TopPriorityRuns ==
  \A t \in Thread :
    k.stat[t] = "READY" /\ k.prio[t] = 0 ~> k.cur = t \/ k.stat[t] = "CLOSE"

\* What every section of thread.c and scheduler.c leaves behind, together:
\* types and the limits of the lock count, the lists and the bitmap against
\* stat, one RUNNING thread, and timers of suspended threads only.
KernelConsistent ==
  TypeOK /\ QueuesConsistent /\ OneRunning /\ TimerOfSuspended
=============================================================================
