----------------------------- MODULE HardTimers -----------------------------
(***************************************************************************)
(* The timers whose functions rt_timer_check calls in the tick interrupt    *)
(* (src/rt-thread/src/timer.c).  Threads start, stop and change timers; so  *)
(* do the timeout functions, the timer's own included, while rt_timer_check *)
(* is in its loop and has the timer in a list of its own.                   *)
(*                                                                         *)
(* phase is "thread" outside the interrupt, "check" at the head of the loop *)
(* and "func" while the timeout function of timer cb runs.                  *)
(***************************************************************************)
EXTENDS TimerList

CONSTANTS Periodic,  \* timers with RT_TIMER_FLAG_PERIODIC
          Delay      \* the delays that are used, below RT_TICK_MAX / 2

ASSUME HardTimersAssumption ==
  /\ Timer # {}
  /\ Periodic \subseteq Timer
  /\ Delay \subseteq 0 .. TickMax \div 2 - 1
  /\ Delay \ {0} # {}

VARIABLES tick,      \* rt_tick
          list,      \* _timer_list
          timeout,   \* timer->timeout_tick
          init,      \* timer->init_tick
          active,    \* timers with RT_TIMER_FLAG_ACTIVATED
          tmp,       \* `list' of rt_timer_check: at most the timer cb
          phase, cb,
          age,       \* history: ticks since the timer was last started
          due        \* history: the tick since then at which it is due

vars == <<tick, list, timeout, init, active, tmp, phase, cb, age, due>>

TypeOK ==
  /\ tick \in Tick
  /\ list \in Seq(Timer)
  /\ timeout \in [Timer -> Tick]
  /\ init \in [Timer -> Delay]
  /\ active \subseteq Timer
  /\ tmp \subseteq Timer
  /\ phase \in {"thread", "check", "func"}
  /\ cb \in Timer
  /\ age \in [Timer -> Nat]
  /\ due \in [Timer -> Nat]

\* A delay of 0 would make a periodic timer, or one that its own function
\* starts again, expire for ever within one interrupt.
DelaysOf(t) == IF t \in Periodic \/ phase = "func" THEN Delay \ {0} ELSE Delay

Init ==
  /\ tick \in Tick
  /\ list = << >>
  /\ timeout = [t \in Timer |-> 0]
  /\ init = [t \in Timer |-> CHOOSE d \in Delay \ {0} : TRUE]
  /\ active = {}
  /\ tmp = {}
  /\ phase = "thread"
  /\ cb = CHOOSE t \in Timer : TRUE
  /\ age = [t \in Timer |-> 0]
  /\ due = [t \in Timer |-> 0]

-----------------------------------------------------------------------------
\* What rt_timer_start does to a timer whose init_tick is d.
StartWith(t, d) ==
  LET at == [timeout EXCEPT ![t] = TickPlus(tick, d)]
  IN  /\ timeout' = at
      /\ list' = TimerInsert(list, at, t)
      /\ active' = active \cup {t}
      /\ tmp' = tmp \ {t}
      /\ age' = [age EXCEPT ![t] = 0]
      /\ due' = [due EXCEPT ![t] = IF d = 0 THEN 1 ELSE d]

\* rt_timer_start, by a thread or by the timeout function that runs.
Start(t) ==
  /\ phase \in {"thread", "func"}
  /\ init[t] \in DelaysOf(t)
  /\ StartWith(t, init[t])
  /\ UNCHANGED <<tick, init, phase, cb>>

\* rt_timer_stop; it does nothing to a timer that is not activated.
Stop(t) ==
  /\ phase \in {"thread", "func"}
  /\ t \in active
  /\ list' = RemoveFirst(list, t)
  /\ tmp' = tmp \ {t}
  /\ active' = active \ {t}
  /\ age' = [age EXCEPT ![t] = 0]
  /\ due' = [due EXCEPT ![t] = 0]
  /\ UNCHANGED <<tick, timeout, init, phase, cb>>

\* rt_timer_control(RT_TIMER_CTRL_SET_TIME): the next start uses it.
SetTime(t, d) ==
  /\ phase \in {"thread", "func"}
  /\ init' = [init EXCEPT ![t] = d]
  /\ UNCHANGED <<tick, list, timeout, active, tmp, phase, cb, age, due>>

\* rt_tick_increase: ++ rt_tick, then rt_timer_check.
TickIncrease ==
  /\ phase = "thread"
  /\ tick' = TickPlus(tick, 1)
  /\ age' = [t \in Timer |-> IF Contains(list, t) THEN age[t] + 1 ELSE age[t]]
  /\ phase' = "check"
  /\ UNCHANGED <<list, timeout, init, active, tmp, cb, due>>

\* The first timer of the list is due.
HeadExpired == list # <<>> /\ Expired(tick, timeout[Head(list)])

\* Fault: a timer that is not periodic stays activated.
CallFuncActive ==
  /\ phase = "check"
  /\ HeadExpired
  /\ LET t == Head(list)
     IN  /\ list' = Tail(list)
         /\ tmp' = {t}
         /\ cb' = t
         /\ age' = [age EXCEPT ![t] = 0]
         /\ due' = [due EXCEPT ![t] = 0]
  /\ phase' = "func"
  /\ UNCHANGED <<tick, timeout, init, active>>

\* rt_timer_check takes it out and calls its function.
CallFunc ==
  /\ phase = "check"
  /\ HeadExpired
  /\ LET t == Head(list)
     IN  /\ list' = Tail(list)
         /\ active' = IF t \in Periodic THEN active ELSE active \ {t}
         /\ tmp' = {t}
         /\ cb' = t
         /\ age' = [age EXCEPT ![t] = 0]
         /\ due' = [due EXCEPT ![t] = 0]
  /\ phase' = "func"
  /\ UNCHANGED <<tick, timeout, init>>

\* The function returned.  A timer that it stopped or started again is not
\* touched; otherwise a periodic timer that is still activated starts again.
FuncReturns ==
  /\ phase = "func"
  /\ phase' = "check"
  /\ IF cb \in tmp /\ cb \in Periodic \cap active
     THEN StartWith(cb, init[cb])
     ELSE tmp' = {} /\ UNCHANGED <<list, timeout, active, age, due>>
  /\ UNCHANGED <<tick, init, cb>>

\* No more timers are due.
CheckEnds ==
  /\ phase = "check"
  /\ ~HeadExpired
  /\ phase' = "thread"
  /\ UNCHANGED <<tick, list, timeout, init, active, tmp, cb, age, due>>

Interrupt == TickIncrease \/ CallFunc \/ FuncReturns \/ CheckEnds

Next ==
  \/ \E t \in Timer : Start(t) \/ Stop(t)
  \/ \E t \in Timer : \E d \in DelaysOf(t) : SetTime(t, d)
  \/ Interrupt

Spec == Init /\ [][Next]_vars

-----------------------------------------------------------------------------
(***************************************************************************)
(* Properties                                                              *)
(***************************************************************************)

\* Timers expire at the tick they were started for, neither earlier nor later,
\* also when the tick counter wraps in between and whatever other timers and
\* timeout functions do: after the interrupt no timer is overdue, and one that
\* rt_timer_check finds expired is due at this very tick.
Punctual ==
  /\ \A t \in ToSet(list) : age[t] <= due[t]
  /\ phase = "thread" => \A t \in ToSet(list) : age[t] < due[t]
  /\ phase = "check" /\ HeadExpired => age[Head(list)] = due[Head(list)]

\* The list is in the order in which the timers are due, so that looking at
\* its first timer is enough.
ListInOrder ==
  \A i, j \in DOMAIN list :
    i < j => due[list[i]] - age[list[i]] <= due[list[j]] - age[list[j]]

\* The ACTIVATED flag says whether the timer is in the list; only a periodic
\* timer whose function runs is activated outside of it, and no timer is in
\* the list twice.
ActiveIsListed ==
  /\ \A t \in Timer :
       t \in active <=> Contains(list, t) \/ (t \in tmp \cap Periodic /\ t \in active)
  /\ \A i, j \in DOMAIN list : list[i] = list[j] => i = j
  /\ tmp \cap ToSet(list) = {}

\* The list of timers, together: rt_tick and the timeouts stay in the range of
\* rt_tick_t, and flag and list agree between any two steps of rt_timer_check.
ListSound == TypeOK /\ ActiveIsListed
=============================================================================
