----------------------------- MODULE TimerList -----------------------------
(***************************************************************************)
(* The sorted timer lists of src/rt-thread/src/timer.c and the arithmetic   *)
(* of ticks.  rt_tick_t is unsigned and wraps; two ticks are compared by    *)
(* the sign of their difference, that is by whether it is below             *)
(* RT_TICK_MAX / 2.  The skip list is a sequence: its upper rows only       *)
(* shorten the search (RT_TIMER_SKIP_LIST_LEVEL is 1 in this BSP).          *)
(***************************************************************************)
EXTENDS Naturals, SequencesExt

CONSTANTS Timer,    \* the timer objects
          TickMax   \* RT_TICK_MAX

ASSUME TimerListAssumption == TickMax \in Nat /\ TickMax >= 3

Tick == 0 .. TickMax

\* rt_tick_t arithmetic.
TickPlus(a, b) == (a + b) % (TickMax + 1)
TickMinus(a, b) == (a + TickMax + 1 - b) % (TickMax + 1)

\* Fault: ticks are compared as numbers.
ExpiredAsNumber(now, timeout) == now >= timeout

\* The test of rt_timer_check and of rt_soft_timer_check.
Expired(now, timeout) == TickMinus(now, timeout) < TickMax \div 2

\* Fault: so they are in the search of rt_timer_start.
TimerPositionAsNumber(list, timeout, t) ==
  LET later == {i \in DOMAIN list : timeout[list[i]] > timeout[t]}
  IN  IF later = {} THEN Len(list) + 1 ELSE Min(later)

\* The search in rt_timer_start: timers that expire at the same tick stay in
\* the order they were started in.
TimerPosition(list, timeout, t) ==
  LET later == {i \in DOMAIN list :
                  /\ timeout[list[i]] # timeout[t]
                  /\ TickMinus(timeout[list[i]], timeout[t]) < TickMax \div 2}
  IN  IF later = {} THEN Len(list) + 1 ELSE Min(later)

\* _timer_remove, then the insertion of rt_timer_start.
TimerInsert(list, timeout, t) ==
  LET rest == RemoveFirst(list, t)
  IN  InsertAt(rest, TimerPosition(rest, timeout, t), t)
=============================================================================
