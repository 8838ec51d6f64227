----------------------------- MODULE SoftTimers -----------------------------
(***************************************************************************)
(* The timers whose functions the timer thread calls (RT_USING_TIMER_SOFT,  *)
(* src/rt-thread/src/timer.c), and how that thread goes to sleep and is     *)
(* woken.                                                                   *)
(*                                                                         *)
(* The timer thread looks at the first timer, reads the tick and goes to    *)
(* sleep in three sections, with interrupts enabled between them:           *)
(*                                                                         *)
(*   pc = "next"     before _timer_list_next_timeout                       *)
(*        "suspend"  before rt_thread_suspend, it found no timer            *)
(*        "read"     before rt_tick_get                                     *)
(*        "delay"    before rt_thread_delay                                 *)
(*        "sleep"    in one of the two, until stat is "READY" again         *)
(*        "check"    at the head of the loop of rt_soft_timer_check         *)
(*        "func"     in the timeout function of cb; _soft_timer_status is   *)
(*                   RT_SOFT_TIMER_BUSY exactly here                        *)
(*                                                                         *)
(* A thread less urgent than the timer thread runs only while that is       *)
(* suspended; interrupt handlers and more urgent threads run at any time.   *)
(***************************************************************************)
EXTENDS TimerList

CONSTANTS Periodic,  \* timers with RT_TIMER_FLAG_PERIODIC
          InitTick,  \* timer->init_tick, below RT_TICK_MAX / 2
          IsrTimer,  \* timers that interrupt handlers start
          MaxLag,    \* ticks a timer may be overdue before its function is called
          MaxAge,    \* bound on the history variable age
          NoTick     \* thread_timer of the timer thread is not started

ASSUME SoftTimersAssumption ==
  /\ Periodic \subseteq Timer
  /\ InitTick \in [Timer -> 1 .. TickMax \div 2 - 1]
  /\ IsrTimer \subseteq Timer
  /\ MaxLag \in 1 .. TickMax \div 2 - 1
  /\ MaxAge \in Nat /\ \A t \in Timer : InitTick[t] + MaxLag <= MaxAge
  /\ NoTick \notin Tick

VARIABLES tick,     \* rt_tick
          list,     \* _soft_timer_list
          timeout,  \* timer->timeout_tick
          active,   \* timers with RT_TIMER_FLAG_ACTIVATED
          tmp,      \* `list' of rt_soft_timer_check: at most the timer cb
          pc, cb,
          next,     \* next_timeout of the timer thread
          stat,     \* stat of the timer thread
          wake,     \* when its thread_timer expires
          blocked,  \* the timeout function waits for something
          age,      \* history: ticks since the timer was last started
          slip,     \* history: ticks since rt_tick_get, of the current sleep
          atMax,    \* history: a timer was once due at tick RT_TICK_MAX, which
                    \* _timer_list_next_timeout returns for an empty list
          missed    \* history: an interrupt handler started a timer that is the
                    \* first to expire while the timer thread was between its
                    \* look at the list and its suspension

timers == <<list, timeout, active, tmp, age, atMax>>
vars == <<tick, timers, pc, cb, next, stat, wake, blocked, slip, missed>>

TypeOK ==
  /\ tick \in Tick
  /\ list \in Seq(Timer)
  /\ timeout \in [Timer -> Tick]
  /\ active \subseteq Timer
  /\ tmp \subseteq Timer
  /\ pc \in {"next", "suspend", "read", "delay", "sleep", "check", "func"}
  /\ cb \in Timer
  /\ next \in Tick
  /\ stat \in {"READY", "SUSPEND"}
  /\ wake \in Tick \cup {NoTick}
  /\ blocked \in BOOLEAN
  /\ age \in [Timer -> 0 .. MaxAge]
  /\ slip \in Nat
  /\ {atMax, missed} \subseteq BOOLEAN

\* rt_system_timer_thread_init has started the timer thread.
Init ==
  /\ tick \in Tick
  /\ list = << >>
  /\ timeout = [t \in Timer |-> 0]
  /\ active = {}
  /\ tmp = {}
  /\ pc = "next"
  /\ cb = CHOOSE t \in Timer : TRUE
  /\ next = 0
  /\ stat = "READY"
  /\ wake = NoTick
  /\ blocked = FALSE
  /\ age = [t \in Timer |-> 0]
  /\ slip = 0
  /\ atMax = FALSE /\ missed = FALSE

-----------------------------------------------------------------------------
(***************************************************************************)
(* Starting and stopping a timer                                           *)
(***************************************************************************)

\* rt_timer_start up to the test of the timer thread.
Insert(t) ==
  LET at == [timeout EXCEPT ![t] = TickPlus(tick, InitTick[t])]
  IN  /\ timeout' = at
      /\ list' = TimerInsert(list, at, t)
      /\ active' = active \cup {t}
      /\ tmp' = tmp \ {t}
      /\ age' = [age EXCEPT ![t] = 0]
      /\ atMax' = (atMax \/ at[t] = TickMax)

\* Fault: the timer thread is left alone.
ResumeNobody == UNCHANGED <<stat, wake>>

\* `check whether timer thread is ready': resume it, unless it waits for
\* something else in a timeout function.
ResumeTimerThread ==
  IF pc # "func" /\ stat = "SUSPEND"
  THEN stat' = "READY" /\ wake' = NoTick
  ELSE UNCHANGED <<stat, wake>>

\* A thread that is less urgent than the timer thread, or the timeout function,
\* runs.  Bound: after a missed start the application makes no more calls.
UserRuns == ~missed /\ (stat = "SUSPEND" \/ (pc = "func" /\ ~blocked))

\* rt_timer_start.
Start(t) ==
  /\ UserRuns \/ (~missed /\ t \in IsrTimer)
  /\ Insert(t)
  /\ ResumeTimerThread
  /\ missed' = (pc \in {"suspend", "read", "delay"} /\ Head(list') = t)
  /\ UNCHANGED <<tick, pc, cb, next, blocked, slip>>

\* rt_timer_stop.
Stop(t) ==
  /\ UserRuns
  /\ t \in active
  /\ list' = RemoveFirst(list, t)
  /\ tmp' = tmp \ {t}
  /\ active' = active \ {t}
  /\ age' = [age EXCEPT ![t] = 0]
  /\ UNCHANGED <<tick, timeout, pc, cb, next, stat, wake, blocked, atMax, slip, missed>>

-----------------------------------------------------------------------------
(***************************************************************************)
(* _timer_thread_entry                                                     *)
(***************************************************************************)
Runs(from) == pc = from /\ stat = "READY"

\* Fault: the last timer instead of the first.
NextTimeoutLast ==
  /\ Runs("next")
  /\ next' = IF list = <<>> THEN TickMax ELSE timeout[Last(list)]
  /\ pc' = IF next' = TickMax THEN "suspend" ELSE "read"
  /\ UNCHANGED <<tick, timers, cb, stat, wake, blocked, slip, missed>>

\* _timer_list_next_timeout, and the test for RT_TICK_MAX.
NextTimeout ==
  /\ Runs("next")
  /\ next' = IF list = <<>> THEN TickMax ELSE timeout[Head(list)]
  /\ pc' = IF next' = TickMax THEN "suspend" ELSE "read"
  /\ UNCHANGED <<tick, timers, cb, stat, wake, blocked, slip, missed>>

\* `no software timer exist, suspend self'.
SuspendSelf ==
  /\ Runs("suspend")
  /\ stat' = "SUSPEND"
  /\ pc' = "sleep"
  /\ UNCHANGED <<tick, timers, cb, next, wake, blocked, slip, missed>>

\* rt_tick_get, and the test whether next_timeout is still to come.
ReadTick ==
  /\ Runs("read")
  /\ IF TickMinus(next, tick) < TickMax \div 2
     THEN next' = TickMinus(next, tick) /\ pc' = "delay"
     ELSE UNCHANGED next /\ pc' = "check"
  /\ UNCHANGED <<tick, timers, cb, stat, wake, blocked, slip, missed>>

\* rt_thread_delay; with a delay of 0 the thread runs again at the next tick.
DelaySelf ==
  /\ Runs("delay")
  /\ stat' = "SUSPEND"
  /\ wake' = TickPlus(tick, IF next = 0 THEN 1 ELSE next)
  /\ pc' = "sleep"
  /\ UNCHANGED <<tick, timers, cb, next, blocked, slip, missed>>

Awake ==
  /\ Runs("sleep")
  /\ pc' = "check"
  /\ slip' = 0
  /\ UNCHANGED <<tick, timers, cb, next, stat, wake, blocked, missed>>

-----------------------------------------------------------------------------
(***************************************************************************)
(* rt_soft_timer_check                                                     *)
(***************************************************************************)
HeadExpired == list # <<>> /\ Expired(tick, timeout[Head(list)])

CallFunc ==
  /\ Runs("check")
  /\ HeadExpired
  /\ LET t == Head(list)
     IN  /\ list' = Tail(list)
         /\ active' = IF t \in Periodic THEN active ELSE active \ {t}
         /\ tmp' = {t}
         /\ cb' = t
         /\ age' = [age EXCEPT ![t] = 0]
  /\ pc' = "func"
  /\ UNCHANGED <<tick, timeout, next, stat, wake, blocked, atMax, slip, missed>>

\* A timeout function may wait: it runs in a thread.
FuncBlocks ==
  /\ Runs("func")
  /\ stat' = "SUSPEND"
  /\ blocked' = TRUE
  /\ UNCHANGED <<tick, timers, pc, cb, next, wake, slip, missed>>

FuncWakes ==
  /\ blocked
  /\ stat' = "READY"
  /\ blocked' = FALSE
  /\ UNCHANGED <<tick, timers, pc, cb, next, wake, slip, missed>>

\* The function returned; a periodic timer that it left alone starts again.
FuncReturns ==
  /\ Runs("func")
  /\ pc' = "check"
  /\ IF cb \in tmp /\ cb \in Periodic \cap active
     THEN Insert(cb)
     ELSE tmp' = {} /\ UNCHANGED <<list, timeout, active, age, atMax>>
  /\ UNCHANGED <<tick, cb, next, stat, wake, blocked, slip, missed>>

\* Fault: the loop may end although the first timer is due.
CheckSkipped ==
  /\ Runs("check")
  /\ pc' = "next"
  /\ UNCHANGED <<tick, timers, cb, next, stat, wake, blocked, slip, missed>>

\* The loop ends at the first timer that is not due.
CheckEnds ==
  /\ Runs("check")
  /\ ~HeadExpired
  /\ pc' = "next"
  /\ UNCHANGED <<tick, timers, cb, next, stat, wake, blocked, slip, missed>>

\* rt_tick_increase, and rt_timer_check for the timer of the timer thread.
\* `It supposes that the new tick shall less than the half duration of tick
\* max': neither other threads nor timeout functions that wait keep a timer
\* that is due waiting for MaxLag ticks.
TickIncrease ==
  /\ \/ pc = "sleep" /\ stat = "SUSPEND"
     \/ \A t \in ToSet(list) : age[t] < InitTick[t] + MaxLag
  /\ tick' = TickPlus(tick, 1)
  /\ age' = [t \in Timer |-> IF Contains(list, t) /\ age[t] < MaxAge
                             THEN age[t] + 1 ELSE age[t]]
  /\ IF wake = tick' THEN stat' = "READY" /\ wake' = NoTick
                     ELSE UNCHANGED <<stat, wake>>
  /\ slip' = IF pc = "delay" THEN slip + 1 ELSE slip
  /\ UNCHANGED <<list, timeout, active, tmp, pc, cb, next, blocked, atMax, missed>>

TimerThread ==
  \/ NextTimeout \/ SuspendSelf \/ ReadTick \/ DelaySelf \/ Awake
  \/ CallFunc \/ FuncReturns \/ CheckEnds

Next ==
  \/ \E t \in Timer : Start(t) \/ Stop(t)
  \/ TimerThread \/ FuncBlocks \/ FuncWakes \/ TickIncrease

Spec == Init /\ [][Next]_vars

\* Ticks come for ever, the timer thread gets the processor when it is ready,
\* and timeout functions return.
FairSpec == /\ Spec
            /\ WF_vars(TickIncrease) /\ WF_vars(TimerThread)
            /\ WF_vars(FuncWakes) /\ SF_vars(FuncReturns)

-----------------------------------------------------------------------------
(***************************************************************************)
(* Properties                                                              *)
(***************************************************************************)

\* The timer thread sleeps and nothing but a rt_timer_start will wake it.
SleepsForGood == pc = "sleep" /\ stat = "SUSPEND" /\ wake = NoTick

\* `no software timer exist, suspend self' (timer.c:760): whoever starts a timer
\* while the timer thread sleeps wakes it, and a thread that found no timer is
\* still right when it goes to sleep.  There are two exceptions.  A timer that is
\* due at tick RT_TICK_MAX looks like no timer; and an interrupt handler that
\* starts a timer between the look and rt_thread_suspend (timer.c:758) finds the
\* timer thread ready, does not wake it, and the thread sleeps all the same.
NoTimerForgotten == SleepsForGood => list = <<>> \/ missed \/ atMax

\* Starting a timer does not wake the timer thread out of what its timeout
\* function waits for.
FuncKeepsWaiting == blocked => stat = "SUSPEND" /\ pc = "func"

\* The timer thread, when it sleeps with a timeout, wakes when the first timer
\* is due.  It oversleeps only by the ticks that came between reading the tick
\* and going to sleep, and by the one tick a delay of 0 takes, with the exceptions
\* of NoTimerForgotten.
WakesInTime ==
  pc = "sleep" /\ stat = "SUSPEND" /\ wake # NoTick /\ list # <<>> =>
    \/ TickMinus(wake, timeout[Head(list)]) <= slip + (IF next = 0 THEN 1 ELSE 0)
    \/ TickMinus(timeout[Head(list)], wake) < TickMax \div 2
    \/ missed \/ atMax

\* A soft timer that is started expires, unless it is stopped or started
\* again, with the exceptions of NoTimerForgotten.
SoftTimersFire ==
  \A t \in Timer : Contains(list, t) /\ age[t] > 0 ~> age[t] = 0 \/ missed \/ atMax

\* The sleep of the timer thread, together: a delay that fits rt_tick_t, never
\* for good with a timer in the list, and never ended for a timer while a
\* timeout function waits for something else.
SleepSound == TypeOK /\ NoTimerForgotten /\ FuncKeepsWaiting
=============================================================================
