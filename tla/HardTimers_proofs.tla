-------------------------- MODULE HardTimers_proofs --------------------------
(***************************************************************************)
(* The list of hard timers and the ACTIVATED flags agree, for every set of  *)
(* timers, every range of ticks and every set of delays.                    *)
(***************************************************************************)
EXTENDS HardTimers, KernelLemmas

\* The temporary list of rt_timer_check holds at most the timer whose function
\* runs, and nothing outside of a function.
TmpIsCallback == tmp \subseteq {cb} /\ (phase # "func" => tmp = {})

\* The inductive invariant.
IndInv == TypeOK /\ ActiveIsListed /\ TmpIsCallback

-----------------------------------------------------------------------------
(***************************************************************************)
(* Ticks and the list                                                      *)
(***************************************************************************)

\* The sum of two ticks is a tick.
LEMMA TickPlusType ==
  ASSUME NEW a \in Nat, NEW b \in Nat
  PROVE  TickPlus(a, b) \in Tick
<1>1. TickMax + 1 \in Nat \ {0} /\ a + b \in Nat
  BY TimerListAssumption
<1>2. (a + b) % (TickMax + 1) \in 0 .. TickMax
  BY <1>1, TimerListAssumption
<1> QED
  BY <1>2 DEF TickPlus, Tick

\* The search of rt_timer_start ends at a position of the list or behind it.
LEMMA TimerPositionType ==
  ASSUME NEW l \in Seq(Timer), NEW at, NEW t
  PROVE  TimerPosition(l, at, t) \in 1 .. Len(l) + 1
<1> DEFINE later == {i \in DOMAIN l :
                       /\ at[l[i]] # at[t]
                       /\ TickMinus(at[l[i]], at[t]) < TickMax \div 2}
<1>1. Len(l) \in Nat /\ DOMAIN l = 1 .. Len(l)
  OBVIOUS
<1>2. later \in SUBSET (1 .. Len(l)) /\ later \in SUBSET Nat
  BY <1>1
<1>3. TimerPosition(l, at, t) = IF later = {} THEN Len(l) + 1 ELSE Min(later)
  BY DEF TimerPosition
<1> HIDE DEF later
<1>4. CASE later = {}
  BY <1>1, <1>3, <1>4
<1>5. CASE later # {}
  <2>1. Min(later) \in later
    BY <1>2, <1>5, MinIsLeast, Zenon
  <2> QED
    <3>1. Min(later) \in 1 .. Len(l)
      BY <1>2, <2>1, Zenon
    <3>2. TimerPosition(l, at, t) = Min(later)
      BY <1>3, <1>5, Zenon
    <3> DEFINE m == Min(later)
    <3> HIDE DEF m
    <3>3. m \in 1 .. Len(l) + 1
      BY <1>1, <3>1 DEF m
    <3> QED
      BY <3>2, <3>3, Zenon DEF m
<1> QED
  BY <1>4, <1>5

\* rt_timer_start leaves its timer once in the list.
LEMMA TimerInsertList ==
  ASSUME NEW l \in Seq(Timer), Distinct(l), NEW at, NEW t \in Timer
  PROVE  /\ TimerInsert(l, at, t) \in Seq(Timer)
         /\ Distinct(TimerInsert(l, at, t))
         /\ ToSet(TimerInsert(l, at, t)) = ToSet(l) \cup {t}
<1> DEFINE rest == RemoveFirst(l, t)
           n    == TimerPosition(rest, at, t)
<1>1. rest \in Seq(Timer) /\ Distinct(rest) /\ ToSet(rest) = ToSet(l) \ {t}
  BY RemoveFirstList, Zenon
<1>2. n \in 1 .. Len(rest) + 1
  BY <1>1, TimerPositionType, Zenon
<1>3. TimerInsert(l, at, t) = InsertAt(rest, n, t)
  BY Zenon DEF TimerInsert
<1> HIDE DEF rest, n
<1>4. t \notin ToSet(rest)
  BY <1>1
<1>5. /\ InsertAt(rest, n, t) \in Seq(Timer)
      /\ Distinct(InsertAt(rest, n, t))
      /\ ToSet(InsertAt(rest, n, t)) = ToSet(rest) \cup {t}
  BY <1>1, <1>2, <1>4, InsertAtList, Z3
<1> QED
  BY <1>1, <1>3, <1>5

\* ActiveIsListed, in terms of the set of timers in a list.
Listed(l, act, tm) ==
  /\ \A t \in Timer : t \in act <=> t \in ToSet(l) \/ (t \in tm \cap Periodic /\ t \in act)
  /\ Distinct(l)
  /\ tm \cap ToSet(l) = {}

\* The two say the same of the list, the flags and the temporary list.
LEMMA ActiveAsSets ==
  ASSUME list \in Seq(Timer)
  PROVE  ActiveIsListed <=> Listed(list, active, tmp)
<1>1. \A t : Contains(list, t) <=> t \in ToSet(list)
  BY ContainsToSet
<1> QED
  BY <1>1, Zenon DEF ActiveIsListed, Listed, Distinct

\* The same after a step.
LEMMA ActiveAsSetsNext ==
  ASSUME list' \in Seq(Timer)
  PROVE  ActiveIsListed' <=> Listed(list', active', tmp')
<1>1. \A t : Contains(list', t) <=> t \in ToSet(list')
  BY ContainsToSet
<1> QED
  BY <1>1, Zenon DEF ActiveIsListed, Listed, Distinct

-----------------------------------------------------------------------------
(***************************************************************************)
(* The steps                                                               *)
(***************************************************************************)

\* rt_timer_start, by whomever.
LEMMA StartWithSound ==
  ASSUME TypeOK, ActiveIsListed, NEW t \in Timer, NEW d \in Delay, StartWith(t, d)
  PROVE  /\ timeout' \in [Timer -> Tick]
         /\ list' \in Seq(Timer)
         /\ active' \subseteq Timer
         /\ tmp' = tmp \ {t}
         /\ age' \in [Timer -> Nat]
         /\ due' \in [Timer -> Nat]
         /\ ActiveIsListed'
<1> DEFINE at == [timeout EXCEPT ![t] = TickPlus(tick, d)]
<1>1. d \in Nat /\ tick \in Nat
  BY HardTimersAssumption, TimerListAssumption DEF TypeOK, Tick
<1>2. TickPlus(tick, d) \in Tick
  BY <1>1, TickPlusType
<1>3. /\ timeout' = at
      /\ list' = TimerInsert(list, at, t)
      /\ active' = active \cup {t}
      /\ tmp' = tmp \ {t}
      /\ age' = [age EXCEPT ![t] = 0]
      /\ due' = [due EXCEPT ![t] = IF d = 0 THEN 1 ELSE d]
  BY DEF StartWith
<1>4. at \in [Timer -> Tick]
  BY <1>2 DEF TypeOK
<1> HIDE DEF at
<1>5. list \in Seq(Timer) /\ Listed(list, active, tmp)
  BY ActiveAsSets DEF TypeOK
<1>6. Distinct(list)
  BY <1>5, Zenon DEF Listed
<1>7. /\ list' \in Seq(Timer)
      /\ Distinct(list')
      /\ ToSet(list') = ToSet(list) \cup {t}
  BY <1>3, <1>5, <1>6, TimerInsertList, Zenon
<1>8. Listed(list', active', tmp')
  BY <1>3, <1>5, <1>7, Zenon DEF Listed
<1>9. ActiveIsListed'
  BY <1>7, <1>8, ActiveAsSetsNext
<1>10. age' \in [Timer -> Nat] /\ due' \in [Timer -> Nat]
  BY <1>1, <1>3 DEF TypeOK
<1>11. active' \subseteq Timer
  BY <1>3 DEF TypeOK
<1> QED
  BY <1>3, <1>4, <1>7, <1>9, <1>10, <1>11

\* What rtthread_startup leaves satisfies the invariant.
LEMMA IndInvInit == Init => IndInv
<1> SUFFICES ASSUME Init PROVE IndInv
  OBVIOUS
<1>1. (CHOOSE t \in Timer : TRUE) \in Timer
  BY HardTimersAssumption
<1>2. (CHOOSE d \in Delay \ {0} : TRUE) \in Delay
  BY HardTimersAssumption
<1>3. TypeOK
  <2>1. 0 \in Tick
    BY TimerListAssumption DEF Tick
  <2>2. init \in [Timer -> Delay] /\ cb \in Timer
    BY <1>1, <1>2, Zenon DEF Init
  <2> QED
    BY <2>1, <2>2 DEF Init, TypeOK
<1>4. Listed(list, active, tmp)
  BY DEF Init, Listed, Distinct, ToSet
<1>5. ActiveIsListed
  BY <1>3, <1>4, ActiveAsSets DEF TypeOK
<1> QED
  BY <1>3, <1>5 DEF Init, IndInv, TmpIsCallback

\* Every step keeps it.
LEMMA IndInvStep == IndInv /\ [Next]_vars => IndInv'
<1> SUFFICES ASSUME IndInv, [Next]_vars PROVE IndInv'
  OBVIOUS
<1>0. /\ TypeOK
      /\ list \in Seq(Timer)
      /\ Listed(list, active, tmp)
      /\ Distinct(list)
  <2>1. list \in Seq(Timer) /\ Listed(list, active, tmp)
    BY ActiveAsSets DEF IndInv, TypeOK
  <2> QED
    BY <2>1, Zenon DEF IndInv, Listed
<1>1. ASSUME NEW t \in Timer, Start(t) PROVE IndInv'
  <2>1. init[t] \in Delay
    BY <1>0 DEF TypeOK
  <2>2. StartWith(t, init[t])
    BY <1>1 DEF Start
  <2>3. /\ timeout' \in [Timer -> Tick]
        /\ list' \in Seq(Timer)
        /\ active' \subseteq Timer
        /\ tmp' = tmp \ {t}
        /\ age' \in [Timer -> Nat]
        /\ due' \in [Timer -> Nat]
        /\ ActiveIsListed'
    BY <2>1, <2>2, StartWithSound DEF IndInv
  <2> QED
    BY <1>0, <1>1, <2>3 DEF Start, IndInv, TypeOK, TmpIsCallback
<1>2. ASSUME NEW t \in Timer, Stop(t) PROVE IndInv'
  <2>1. /\ list' = RemoveFirst(list, t)
        /\ tmp' = tmp \ {t}
        /\ active' = active \ {t}
    BY <1>2 DEF Stop
  <2>2. /\ list' \in Seq(Timer)
        /\ Distinct(list')
        /\ ToSet(list') = ToSet(list) \ {t}
    BY <1>0, <2>1, RemoveFirstList, Zenon
  <2>3. Listed(list', active', tmp')
    BY <1>0, <2>1, <2>2, Zenon DEF Listed
  <2>4. ActiveIsListed'
    BY <2>2, <2>3, ActiveAsSetsNext
  <2> QED
    BY <1>0, <1>2, <2>1, <2>2, <2>4 DEF Stop, IndInv, TypeOK, TmpIsCallback
<1>3. ASSUME NEW t \in Timer, NEW d \in DelaysOf(t), SetTime(t, d) PROVE IndInv'
  <2>1. d \in Delay
    BY DEF DelaysOf
  <2> QED
    BY <1>0, <1>3, <2>1
    DEF SetTime, IndInv, TypeOK, TmpIsCallback, ActiveIsListed, Contains, ToSet
<1>4. CASE TickIncrease
  <2>1. tick' \in Tick
    BY <1>0, <1>4, TickPlusType, TimerListAssumption DEF TickIncrease, TypeOK, Tick
  <2>2. age' \in [Timer -> Nat]
    BY <1>0, <1>4 DEF TickIncrease, TypeOK
  <2> QED
    BY <1>0, <1>4, <2>1, <2>2
    DEF TickIncrease, IndInv, TypeOK, TmpIsCallback, ActiveIsListed, Contains, ToSet
<1>5. CASE CallFunc
  <2> DEFINE t == Head(list)
  <2>1. /\ list # << >>
        /\ list' = Tail(list)
        /\ active' = IF t \in Periodic THEN active ELSE active \ {t}
        /\ tmp' = {t}
        /\ cb' = t
    BY <1>5 DEF CallFunc, HeadExpired
  <2>2. /\ list' \in Seq(Timer)
        /\ Distinct(list')
        /\ t \in Timer
        /\ t \in ToSet(list)
        /\ ToSet(list') = ToSet(list) \ {t}
    BY <1>0, <2>1, TailList, Zenon
  <2> HIDE DEF t
  <2>3. tmp = {}
    BY <1>5 DEF CallFunc, IndInv, TmpIsCallback
  <2>4. Listed(list', active', tmp')
    BY <1>0, <2>1, <2>2, <2>3 DEF Listed
  <2>5. ActiveIsListed'
    BY <2>2, <2>4, ActiveAsSetsNext
  <2>6. age' \in [Timer -> Nat] /\ due' \in [Timer -> Nat]
    BY <1>0, <1>5, <2>2 DEF CallFunc, TypeOK
  <2> QED
    BY <1>0, <1>5, <2>1, <2>2, <2>5, <2>6 DEF CallFunc, IndInv, TypeOK, TmpIsCallback
<1>6. CASE FuncReturns
  <2>1. CASE cb \in tmp /\ cb \in Periodic \cap active
    <3>1. cb \in Timer /\ init[cb] \in Delay /\ StartWith(cb, init[cb])
      BY <1>0, <1>6, <2>1 DEF FuncReturns, TypeOK
    <3>2. /\ timeout' \in [Timer -> Tick]
          /\ list' \in Seq(Timer)
          /\ active' \subseteq Timer
          /\ tmp' = tmp \ {cb}
          /\ age' \in [Timer -> Nat]
          /\ due' \in [Timer -> Nat]
          /\ ActiveIsListed'
      BY <3>1, StartWithSound DEF IndInv
    <3> QED
      BY <1>0, <1>6, <3>2 DEF FuncReturns, IndInv, TypeOK, TmpIsCallback
  <2>2. CASE ~(cb \in tmp /\ cb \in Periodic \cap active)
    <3>1. tmp' = {} /\ UNCHANGED <<list, timeout, active, age, due>>
      BY <1>6, <2>2 DEF FuncReturns
    <3>2. \A t \in Timer : ~(t \in tmp \cap Periodic /\ t \in active)
      BY <2>2 DEF IndInv, TmpIsCallback
    <3>3. Listed(list', active', tmp')
      BY <1>0, <3>1, <3>2, Zenon DEF Listed
    <3>4. ActiveIsListed'
      BY <1>0, <3>1, <3>3, ActiveAsSetsNext
    <3> QED
      BY <1>0, <1>6, <3>1, <3>4 DEF FuncReturns, IndInv, TypeOK, TmpIsCallback
  <2> QED
    BY <2>1, <2>2
<1>7. CASE CheckEnds
  BY <1>0, <1>7
  DEF CheckEnds, IndInv, TypeOK, TmpIsCallback, ActiveIsListed, Contains, ToSet
<1>8. CASE UNCHANGED vars
  <2>1. TypeOK' /\ TmpIsCallback'
    BY <1>0, <1>8 DEF vars, IndInv, TypeOK, TmpIsCallback
  <2>2. ActiveIsListed'
    BY <1>8 DEF vars, IndInv, ActiveIsListed, Contains, ToSet
  <2> QED
    BY <2>1, <2>2 DEF IndInv
<1> QED
  BY <1>1, <1>2, <1>3, <1>4, <1>5, <1>6, <1>7, <1>8 DEF Next, Interrupt

-----------------------------------------------------------------------------
(***************************************************************************)
(* Time.  The list is ordered by timeouts that wrap; what makes its order   *)
(* the order in which the timers are due is that all of them lie within     *)
(* half the range of the counter around rt_tick.                            *)
(***************************************************************************)
Half == TickMax \div 2

\* The ticks until a timer is due.
Left(t) == due[t] - age[t]

\* The tick y is o ticks after the tick x, modulo the range of the counter.
After(x, o, y) == y \in {x + o, x + o - (TickMax + 1), x + o + TickMax + 1}

\* The timeout of a timer in the list is as far ahead as the timer has left; one
\* that was started with a delay of 0 is due at the next tick all the same, and
\* its timeout is one tick less ahead.
Timed(t) ==
  /\ due[t] \in 1 .. Half - 1
  /\ age[t] <= due[t]
  /\ phase = "thread" => age[t] < due[t]
  /\ \/ After(tick, Left(t), timeout[t])
     \/ /\ After(tick, Left(t) - 1, timeout[t])
        /\ Left(t) = IF phase = "thread" THEN 1 ELSE 0

\* The second part of the inductive invariant.
OnSchedule ==
  /\ \A t \in ToSet(list) : Timed(t)
  /\ \A t \in Periodic : init[t] # 0
  /\ ListInOrder

\* Half of the range leaves room on both sides.
LEMMA HalfRange ==
  /\ Half \in Nat /\ 2 <= Half /\ 2 * Half <= TickMax
  /\ Delay \subseteq 0 .. Half - 1
<1>1. Half \in Nat /\ 2 * Half <= TickMax
  BY TimerListAssumption DEF Half
<1>2. Delay \subseteq 0 .. Half - 1
  BY HardTimersAssumption DEF Half
<1>3. PICK d \in Delay : d # 0
  BY HardTimersAssumption
<1> QED
  BY <1>1, <1>2, <1>3

\* rt_tick_t arithmetic by cases.
LEMMA TickCases ==
  ASSUME NEW a \in Tick, NEW b \in Tick
  PROVE  /\ TickPlus(a, b) = IF a + b <= TickMax THEN a + b ELSE a + b - (TickMax + 1)
         /\ TickMinus(a, b) = IF b <= a THEN a - b ELSE a - b + TickMax + 1
<1> DEFINE n == TickMax + 1
           u == a + b
           v == a + TickMax + 1 - b
<1>1. TickMax \in Nat /\ n \in Nat \ {0} /\ a \in 0 .. n - 1 /\ b \in 0 .. n - 1
  BY TimerListAssumption DEF Tick
<1>2. u \in 0 .. 2 * n - 1 /\ v \in 0 .. 2 * n - 1
  BY <1>1
<1>3. TickPlus(a, b) = u % n /\ TickMinus(a, b) = v % n
  BY DEF TickPlus, TickMinus
<1> HIDE DEF n, u, v
<1>4. u % n = IF u < n THEN u ELSE u - n
  BY ONLY <1>1, <1>2, RingMod
<1>5. v % n = IF v < n THEN v ELSE v - n
  BY ONLY <1>1, <1>2, RingMod
<1> QED
  BY <1>1, <1>3, <1>4, <1>5 DEF n, u, v

\* The two comparisons of timer.c tell which of two timeouts is later, and
\* whether one is reached, as long as both are within half the range of now.
LEMMA Comparisons ==
  ASSUME NEW now \in Tick, NEW x \in Tick, NEW o \in -1 .. Half - 1, After(now, o, x)
  PROVE  /\ Expired(now, x) <=> o <= 0
         /\ \A y \in Tick, p \in 0 .. Half - 1 :
              After(now, p, y) => (x # y /\ TickMinus(x, y) < Half <=> p < o)
<1>1. Half \in Nat /\ 2 <= Half /\ 2 * Half <= TickMax /\ TickMax \in Nat
  BY HalfRange, TimerListAssumption
<1>2. Expired(now, x) <=> o <= 0
  <2>1. TickMinus(now, x) = IF x <= now THEN now - x ELSE now - x + TickMax + 1
    BY TickCases
  <2>2. Expired(now, x) <=> TickMinus(now, x) < Half
    BY DEF Expired, Half
  <2> QED
    BY <1>1, <2>1, <2>2 DEF After, Tick
<1>3. ASSUME NEW y \in Tick, NEW p \in 0 .. Half - 1, After(now, p, y)
      PROVE  x # y /\ TickMinus(x, y) < Half <=> p < o
  <2>1. TickMinus(x, y) = IF y <= x THEN x - y ELSE x - y + TickMax + 1
    BY TickCases
  <2> QED
    BY <1>1, <1>3, <2>1 DEF After, Tick
<1> QED
  BY <1>2, <1>3

\* rt_timer_start looks for the first timer that is due later than t.
LEMMA PositionSplits ==
  ASSUME NEW l \in Seq(Timer), NEW at \in [Timer -> Tick], NEW t \in Timer,
         NEW now \in Tick, NEW d \in 0 .. Half - 1, After(now, d, at[t]),
         NEW off \in [Timer -> Int],
         \A i \in 1 .. Len(l) : off[l[i]] \in -1 .. Half - 1 /\ After(now, off[l[i]], at[l[i]]),
         NEW n, n = TimerPosition(l, at, t)
  PROVE  /\ n \in 1 .. Len(l) + 1
         /\ \A i \in 1 .. Len(l) : i < n => off[l[i]] <= d
         /\ n <= Len(l) => d < off[l[n]]
<1> DEFINE later == {i \in DOMAIN l : at[l[i]] # at[t] /\ TickMinus(at[l[i]], at[t]) < Half}
<1>1. Len(l) \in Nat /\ DOMAIN l = 1 .. Len(l) /\ \A i \in 1 .. Len(l) : l[i] \in Timer
  OBVIOUS
<1>2. n \in 1 .. Len(l) + 1
  BY TimerPositionType
<1>3. ASSUME NEW i \in 1 .. Len(l) PROVE i \in later <=> d < off[l[i]]
  <2>1. at[l[i]] \in Tick /\ at[t] \in Tick
    BY <1>1
  <2>2. at[l[i]] # at[t] /\ TickMinus(at[l[i]], at[t]) < Half <=> d < off[l[i]]
    BY <2>1, Comparisons
  <2> QED
    BY <1>1, <2>2
<1>4. later \in SUBSET (1 .. Len(l)) /\ later \in SUBSET Nat
  BY <1>1
<1>5. n = IF later = {} THEN Len(l) + 1 ELSE Min(later)
  BY DEF TimerPosition, Half
<1> HIDE DEF later
<1>6. CASE later = {}
  BY <1>1, <1>3, <1>5, <1>6
<1>7. CASE later # {}
  <2>1. Min(later) \in later /\ \A y \in later : Min(later) <= y
    BY <1>4, <1>7, MinIsLeast, Zenon
  <2>2. n = Min(later)
    BY <1>5, <1>7, Zenon
  <2>3. n \in later /\ \A y \in later : n <= y
    BY <2>1, <2>2, Zenon
  <2>4. n \in 1 .. Len(l) /\ d < off[l[n]]
    BY <1>3, <1>4, <2>3
  <2>5. ASSUME NEW i \in 1 .. Len(l), i < n PROVE off[l[i]] <= d
    <3>1. i \notin later
      BY <2>3, <2>4, <2>5
    <3>2. off[l[i]] \in Int
      BY <1>1
    <3> QED
      BY <1>3, <3>1, <3>2
  <2> QED
    BY <1>2, <2>4, <2>5
<1> QED
  BY <1>6, <1>7

\* The order of the list, with the ticks that are left as keys.
LEMMA OrderAsKeys ==
  ASSUME list \in Seq(Timer), NEW key \in [Timer -> Int],
         \A t \in ToSet(list) : key[t] = Left(t)
  PROVE  ListInOrder <=> InOrder(list, key)
<1>1. \A i \in DOMAIN list : list[i] \in ToSet(list)
  BY DEF ToSet
<1>2. \A i \in DOMAIN list : key[list[i]] = due[list[i]] - age[list[i]]
  BY <1>1 DEF Left
<1> QED
  BY <1>2 DEF ListInOrder, InOrder

\* The same after a step.
LEMMA OrderAsKeysNext ==
  ASSUME list' \in Seq(Timer), NEW key \in [Timer -> Int],
         \A t \in ToSet(list') : key[t] = Left(t)'
  PROVE  ListInOrder' <=> InOrder(list', key)
<1>1. \A i \in DOMAIN list' : list'[i] \in ToSet(list')
  BY DEF ToSet
<1>2. \A i \in DOMAIN list' : key[list'[i]] = due'[list'[i]] - age'[list'[i]]
  BY <1>1 DEF Left
<1> QED
  BY <1>2 DEF ListInOrder, InOrder

\* A timer is where it was, seen from the same tick.
LEMMA SameTimed ==
  ASSUME NEW t, Timed(t), due'[t] = due[t], age'[t] = age[t], timeout'[t] = timeout[t],
         tick' = tick, (phase' = "thread") = (phase = "thread")
  PROVE  Timed(t)' /\ Left(t)' = Left(t)
  BY DEF Timed, Left

\* Where the timeout of a timer in the list is, seen from rt_tick.
Off(t) == IF After(tick, Left(t), timeout[t]) THEN Left(t) ELSE Left(t) - 1

LEMMA OffFacts ==
  ASSUME TypeOK, NEW t \in Timer, Timed(t)
  PROVE  /\ Left(t) \in 0 .. Half - 1 /\ Off(t) \in -1 .. Half - 1
         /\ After(tick, Off(t), timeout[t])
         /\ Off(t) <= Left(t)
         /\ \A d \in Nat : Off(t) <= d => Left(t) <= d
                             \/ (Left(t) = 1 /\ phase = "thread")
         /\ phase # "thread" => (Off(t) <= 0 <=> Left(t) = 0)
<1>1. due[t] \in Nat /\ age[t] \in Nat /\ Half \in Nat
  BY HalfRange DEF TypeOK
<1>2. Left(t) \in 0 .. Half - 1 /\ Left(t) = due[t] - age[t]
  BY <1>1 DEF Timed, Left
<1>3. /\ Off(t) = Left(t) \/ Off(t) = Left(t) - 1
      /\ Off(t) = Left(t) - 1 => Left(t) = IF phase = "thread" THEN 1 ELSE 0
      /\ After(tick, Off(t), timeout[t])
  BY <1>2 DEF Timed, Off
<1> QED
  BY <1>1, <1>2, <1>3

\* rt_timer_start puts a timer where it belongs.
LEMMA StartSchedule ==
  ASSUME IndInv, OnSchedule, NEW t \in Timer, NEW d \in Delay, StartWith(t, d),
         phase # "thread" => d # 0, tick' = tick,
         (phase' = "thread") = (phase = "thread")
  PROVE  (\A x \in ToSet(list') : Timed(x)') /\ ListInOrder'
<1> DEFINE at   == [timeout EXCEPT ![t] = TickPlus(tick, d)]
           rest == RemoveFirst(list, t)
           n    == TimerPosition(rest, at, t)
           new  == IF d = 0 THEN 1 ELSE d
           key  == [x \in Timer |-> IF x = t THEN new ELSE Left(x)]
           off  == [x \in Timer |-> Off(x)]
<1>0. /\ TypeOK /\ list \in Seq(Timer) /\ Distinct(list) /\ tick \in Tick
      /\ timeout \in [Timer -> Tick] /\ due \in [Timer -> Nat] /\ age \in [Timer -> Nat]
      /\ \A x \in ToSet(list) : Timed(x)
  BY DEF IndInv, TypeOK, ActiveIsListed, Distinct, OnSchedule
<1>1. /\ Half \in Nat /\ 2 <= Half /\ 2 * Half <= TickMax /\ TickMax \in Nat
      /\ d \in 0 .. Half - 1 /\ d \in Tick
  BY HalfRange, TimerListAssumption DEF Tick
<1>2. TickPlus(tick, d) \in Tick /\ After(tick, d, TickPlus(tick, d))
  <2>1. TickPlus(tick, d)
          = IF tick + d <= TickMax THEN tick + d ELSE tick + d - (TickMax + 1)
    BY <1>0, <1>1, TickCases
  <2> QED
    BY <1>0, <1>1, <2>1 DEF After, Tick
<1>3. /\ timeout' = at /\ list' = InsertAt(rest, n, t)
      /\ age' = [age EXCEPT ![t] = 0] /\ due' = [due EXCEPT ![t] = new]
  BY DEF StartWith, TimerInsert
<1>4. at \in [Timer -> Tick] /\ at[t] = TickPlus(tick, d) /\ \A x \in Timer \ {t} : at[x] = timeout[x]
  BY <1>0, <1>2
<1>5. new \in 1 .. Half - 1 /\ new \in Nat
  BY <1>1
<1>6. rest \in Seq(Timer) /\ Distinct(rest) /\ ToSet(rest) = ToSet(list) \ {t}
  BY <1>0, RemoveFirstList
<1>7. /\ \A x \in Timer \ {t} : due'[x] = due[x] /\ age'[x] = age[x] /\ timeout'[x] = timeout[x]
      /\ due'[t] = new /\ age'[t] = 0 /\ timeout'[t] = TickPlus(tick, d)
  BY <1>0, <1>3, <1>4
<1>8. /\ key \in [Timer -> Int] /\ off \in [Timer -> Int]
      /\ key[t] = new /\ \A x \in Timer \ {t} : key[x] = Left(x)
      /\ \A x \in Timer : off[x] = Off(x)
  <2>1. \A x \in Timer : Left(x) \in Int
    BY <1>0 DEF Left
  <2>2. \A x \in Timer : Off(x) \in Int
    BY <2>1 DEF Off
  <2> QED
    BY <2>1, <2>2, <1>5
<1> HIDE DEF at, rest, n, new, key, off
<1>9. Timed(t)' /\ Left(t)' = new
  <2>1. due'[t] = new /\ age'[t] = 0 /\ timeout'[t] = TickPlus(tick, d)
    BY <1>7
  <2>2. Left(t)' = new
    BY <1>5, <2>1 DEF Left
  <2>3. CASE d # 0
    <3>1. new = d
      BY <2>3 DEF new
    <3> QED
      BY <1>1, <1>2, <1>5, <2>1, <2>2, <3>1 DEF Timed
  <2>4. CASE d = 0
    <3>1. new = 1 /\ phase = "thread" /\ phase' = "thread" /\ new - 1 = d
      BY <2>4 DEF new
    <3> QED
      BY <1>2, <1>5, <2>1, <2>2, <3>1 DEF Timed
  <2> QED
    BY <2>3, <2>4
<1>10. ASSUME NEW x \in ToSet(rest)
       PROVE  /\ x \in Timer \ {t} /\ Timed(x) /\ Timed(x)' /\ Left(x)' = Left(x)
              /\ key[x] = Left(x) /\ off[x] = Off(x)
              /\ Left(x) \in 0 .. Half - 1 /\ off[x] \in -1 .. Half - 1
              /\ After(tick, off[x], at[x])
              /\ off[x] <= Left(x)
              /\ off[x] <= d => Left(x) <= new
  <2>1. x \in Timer \ {t} /\ Timed(x)
    <3>1. ToSet(list) \subseteq Timer
      BY <1>0 DEF ToSet
    <3> QED
      BY <1>0, <1>6, <3>1
  <2>2. Timed(x)' /\ Left(x)' = Left(x)
    BY <1>7, <2>1, SameTimed
  <2>3. key[x] = Left(x) /\ off[x] = Off(x) /\ at[x] = timeout[x]
    BY <1>4, <1>8, <2>1
  <2>4. /\ Left(x) \in 0 .. Half - 1 /\ Off(x) \in -1 .. Half - 1
        /\ After(tick, Off(x), timeout[x])
        /\ Off(x) <= Left(x)
        /\ \A e \in Nat : Off(x) <= e => Left(x) <= e \/ (Left(x) = 1 /\ phase = "thread")
    BY <1>0, <2>1, OffFacts
  <2>5. Off(x) <= d => Left(x) <= new
    BY <1>1, <2>4 DEF new
  <2> QED
    BY <2>1, <2>2, <2>3, <2>4, <2>5
<1>11. /\ Len(rest) \in Nat /\ DOMAIN rest = 1 .. Len(rest)
       /\ \A i \in 1 .. Len(rest) : rest[i] \in ToSet(rest)
  BY <1>6 DEF ToSet
<1>12. /\ n \in 1 .. Len(rest) + 1
       /\ \A i \in 1 .. Len(rest) : i < n => off[rest[i]] <= d
       /\ n <= Len(rest) => d < off[rest[n]]
  <2>1. \A i \in 1 .. Len(rest) :
          off[rest[i]] \in -1 .. Half - 1 /\ After(tick, off[rest[i]], at[rest[i]])
    BY <1>10, <1>11
  <2>2. After(tick, d, at[t])
    BY <1>2, <1>4
  <2>3. n = TimerPosition(rest, at, t)
    BY DEF n
  <2> QED
    BY ONLY <1>0, <1>1, <1>4, <1>6, <1>8, <2>1, <2>2, <2>3, PositionSplits, ZenonT(40)
<1>13. InOrder(rest, key)
  <2> DEFINE old == [x \in Timer |-> Left(x)]
  <2>1. old \in [Timer -> Int] /\ \A x \in Timer : old[x] = Left(x)
    BY <1>0 DEF Left
  <2> HIDE DEF old
  <2>2. \A x \in ToSet(list) : old[x] = Left(x)
    BY <1>0, <2>1 DEF ToSet
  <2>3. InOrder(list, old)
    BY <1>0, <2>1, <2>2, OrderAsKeys DEF OnSchedule
  <2>4. InOrder(rest, old)
    BY <1>0, <2>1, <2>3, RemoveFirstOrder DEF rest
  <2>5. \A i \in 1 .. Len(rest) : key[rest[i]] = old[rest[i]]
    BY <1>10, <1>11, <2>1
  <2> QED
    BY <1>11, <2>4, <2>5 DEF InOrder
<1>14. ASSUME NEW i \in 1 .. Len(rest)
       PROVE  (i < n => key[rest[i]] <= key[t]) /\ (n <= i => key[t] <= key[rest[i]])
  <2>1. rest[i] \in ToSet(rest) /\ key[rest[i]] = Left(rest[i]) /\ key[t] = new
    BY <1>8, <1>10, <1>11
  <2>2. CASE i < n
    BY <1>10, <1>12, <2>1, <2>2
  <2>3. CASE n <= i
    <3>1. n \in 1 .. Len(rest) /\ d < off[rest[n]] /\ rest[n] \in ToSet(rest)
      BY <1>11, <1>12, <2>3
    <3>2. off[rest[n]] <= Left(rest[n]) /\ key[rest[n]] = Left(rest[n])
          /\ off[rest[n]] \in -1 .. Half - 1 /\ Left(rest[n]) \in 0 .. Half - 1
      BY <1>10, <3>1
    <3>3. new <= key[rest[n]]
      BY <1>1, <3>1, <3>2 DEF new
    <3>4. key[rest[n]] <= key[rest[i]]
      <4>1. CASE n = i
        BY <1>1, <3>2, <4>1
      <4>2. CASE n < i
        BY <1>11, <1>13, <3>1, <4>2 DEF InOrder
      <4> QED
        BY <2>3, <3>1, <4>1, <4>2
    <3>5. key[rest[i]] \in Int /\ key[rest[n]] \in Int
      BY <1>1, <1>10, <2>1, <3>2
    <3>6. new <= key[rest[i]]
      BY ONLY <1>5, <3>3, <3>4, <3>5
    <3>7. n \in Int /\ i \in Int /\ ~(i < n)
      BY <2>3, <3>1
    <3> QED
      BY <2>1, <3>6, <3>7
  <2> QED
    BY <1>12, <2>2, <2>3
<1>15. InOrder(list', key)
  BY <1>3, <1>6, <1>8, <1>12, <1>13, <1>14, InsertAtOrder
<1>16. list' \in Seq(Timer) /\ ToSet(list') = ToSet(rest) \cup {t}
  <2>1. t \notin ToSet(rest)
    BY <1>6
  <2> QED
    BY <1>3, <1>6, <1>12, <2>1, InsertAtList
<1>17. \A x \in ToSet(list') : key[x] = Left(x)' /\ Timed(x)'
  BY <1>8, <1>9, <1>10, <1>16
<1>18. ListInOrder'
  BY <1>8, <1>15, <1>16, <1>17, OrderAsKeysNext
<1> QED
  BY <1>17, <1>18

\* A step that takes timers out of the list, or none, and changes nothing of the
\* timers that stay.
LEMMA LeavesSchedule ==
  ASSUME IndInv, OnSchedule, tick' = tick, (phase' = "thread") = (phase = "thread"),
         list' \in Seq(Timer), ToSet(list') \subseteq ToSet(list), timeout' = timeout,
         \A key \in [Timer -> Int] : InOrder(list, key) => InOrder(list', key),
         \A x \in ToSet(list') : due'[x] = due[x] /\ age'[x] = age[x]
  PROVE  (\A x \in ToSet(list') : Timed(x)') /\ ListInOrder'
<1> DEFINE key == [x \in Timer |-> Left(x)]
<1>0. /\ list \in Seq(Timer) /\ due \in [Timer -> Nat] /\ age \in [Timer -> Nat]
      /\ \A x \in ToSet(list) : Timed(x)
  BY DEF IndInv, TypeOK, OnSchedule
<1>1. key \in [Timer -> Int] /\ \A x \in Timer : key[x] = Left(x)
  BY <1>0 DEF Left
<1> HIDE DEF key
<1>2. ToSet(list) \subseteq Timer
  BY <1>0 DEF ToSet
<1>3. InOrder(list, key)
  BY <1>0, <1>1, <1>2, OrderAsKeys DEF OnSchedule
<1>4. ASSUME NEW x \in ToSet(list') PROVE Timed(x)' /\ Left(x)' = Left(x)
  <2>1. Timed(x) /\ due'[x] = due[x] /\ age'[x] = age[x] /\ timeout'[x] = timeout[x]
    BY <1>0
  <2> QED
    BY <2>1, SameTimed
<1>5. \A x \in ToSet(list') : key[x] = Left(x)'
  BY <1>1, <1>2, <1>4
<1>6. ListInOrder'
  BY <1>1, <1>3, <1>5, OrderAsKeysNext
<1> QED
  BY <1>4, <1>6

\* One tick: every timer in the list is one tick nearer.
LEMMA TickSchedule ==
  ASSUME IndInv, OnSchedule, TickIncrease
  PROVE  (\A x \in ToSet(list') : Timed(x)') /\ ListInOrder'
<1>0. /\ list \in Seq(Timer) /\ due \in [Timer -> Nat] /\ age \in [Timer -> Nat]
      /\ timeout \in [Timer -> Tick] /\ tick \in Tick
      /\ \A x \in ToSet(list) : Timed(x)
  BY DEF IndInv, TypeOK, OnSchedule
<1>1. /\ list' = list /\ due' = due /\ timeout' = timeout /\ phase = "thread"
      /\ phase' = "check" /\ tick' = TickPlus(tick, 1)
  BY DEF TickIncrease
<1>2. ToSet(list) \subseteq Timer
  BY <1>0 DEF ToSet
<1>3. \A x \in ToSet(list) : age'[x] = age[x] + 1
  BY <1>0, <1>2, ContainsToSet DEF TickIncrease
<1>4. /\ Half \in Nat /\ 2 <= Half /\ 2 * Half <= TickMax /\ TickMax \in Nat /\ 1 \in Tick
  BY HalfRange, TimerListAssumption DEF Tick
<1>5. tick' = IF tick + 1 <= TickMax THEN tick + 1 ELSE tick + 1 - (TickMax + 1)
  BY <1>0, <1>1, <1>4, TickCases
<1>6. ASSUME NEW x \in ToSet(list) PROVE Timed(x)' /\ Left(x)' = Left(x) - 1
  <2>1. /\ due[x] \in Nat /\ age[x] \in Nat /\ age[x] < due[x] /\ due[x] \in 1 .. Half - 1
        /\ timeout[x] \in Tick /\ Timed(x)
        /\ age'[x] = age[x] + 1 /\ due'[x] = due[x] /\ timeout'[x] = timeout[x]
    BY <1>0, <1>1, <1>2, <1>3 DEF Timed
  <2>2. Left(x)' = Left(x) - 1 /\ Left(x) \in 1 .. Half - 1
    BY <1>4, <2>1 DEF Left
  <2>3. ASSUME NEW o \in 0 .. Half - 1, After(tick, o, timeout[x])
        PROVE  After(tick', o - 1, timeout'[x])
    BY <1>0, <1>4, <1>5, <2>1, <2>3 DEF After, Tick
  <2>4. \/ After(tick, Left(x), timeout[x])
        \/ After(tick, Left(x) - 1, timeout[x]) /\ Left(x) = 1
    BY <1>1, <2>1 DEF Timed
  <2>5. \/ After(tick', Left(x) - 1, timeout'[x])
        \/ After(tick', Left(x) - 1 - 1, timeout'[x]) /\ Left(x) = 1
    <3>1. Left(x) \in 0 .. Half - 1 /\ Left(x) - 1 \in 0 .. Half - 1
      BY <1>4, <2>2
    <3> QED
      BY <2>3, <2>4, <3>1
  <2>6. age'[x] <= due'[x] /\ due'[x] \in 1 .. Half - 1 /\ phase' # "thread"
    BY <1>1, <2>1
  <2>7. Timed(x)'
    BY <2>2, <2>5, <2>6 DEF Timed
  <2> QED
    BY <2>2, <2>7
<1>7. ListInOrder'
  <2>1. ASSUME NEW i \in DOMAIN list, NEW j \in DOMAIN list, i < j
        PROVE  due'[list[i]] - age'[list[i]] <= due'[list[j]] - age'[list[j]]
    <3>1. list[i] \in ToSet(list) /\ list[j] \in ToSet(list)
      BY DEF ToSet
    <3>2. due[list[i]] - age[list[i]] <= due[list[j]] - age[list[j]]
      BY <2>1 DEF OnSchedule, ListInOrder
    <3>3. /\ age'[list[i]] = age[list[i]] + 1 /\ age'[list[j]] = age[list[j]] + 1
          /\ due[list[i]] \in Nat /\ age[list[i]] \in Nat
          /\ due[list[j]] \in Nat /\ age[list[j]] \in Nat
      BY <1>0, <1>2, <1>3, <3>1
    <3> QED
      BY <1>1, <3>2, <3>3
  <2> QED
    BY <1>1, <2>1 DEF ListInOrder
<1> QED
  BY <1>1, <1>6, <1>7

\* rt_timer_check returns when the first timer of the list is not due, and then
\* none is.
LEMMA CheckEndsSchedule ==
  ASSUME IndInv, OnSchedule, CheckEnds
  PROVE  \A x \in ToSet(list') : Timed(x)'
<1>0. /\ TypeOK /\ list \in Seq(Timer) /\ due \in [Timer -> Nat] /\ age \in [Timer -> Nat]
      /\ timeout \in [Timer -> Tick] /\ tick \in Tick
      /\ \A x \in ToSet(list) : Timed(x)
  BY DEF IndInv, TypeOK, OnSchedule
<1>1. /\ UNCHANGED <<tick, list, timeout, age, due>> /\ phase = "check" /\ phase' = "thread"
      /\ ~HeadExpired
  BY DEF CheckEnds
<1>2. ToSet(list) \subseteq Timer
  BY <1>0 DEF ToSet
<1> DEFINE key == [x \in Timer |-> Left(x)]
           h   == Head(list)
<1>3. key \in [Timer -> Int] /\ \A x \in Timer : key[x] = Left(x)
  BY <1>0 DEF Left
<1> HIDE DEF key
<1>4. InOrder(list, key)
  BY <1>0, <1>2, <1>3, OrderAsKeys DEF OnSchedule
<1>5. ASSUME NEW x \in ToSet(list) PROVE Timed(x)'
  <2>1. list # << >>
    BY DEF ToSet
  <2>2. h \in ToSet(list) /\ h \in Timer /\ \A e \in ToSet(list) : key[h] <= key[e]
    <3>1. h \in ToSet(list)
      BY <1>0, <2>1, SMTT(40) DEF ToSet
    <3> QED
      BY <1>0, <1>2, <1>3, <1>4, <2>1, <3>1, TailOrder
  <2>3. ~Expired(tick, timeout[h])
    BY <1>1, <2>1 DEF HeadExpired
  <2> HIDE DEF h
  <2>4. /\ Left(h) \in 0 .. Half - 1 /\ Off(h) \in -1 .. Half - 1
        /\ After(tick, Off(h), timeout[h])
        /\ (Off(h) <= 0 <=> Left(h) = 0)
    BY <1>0, <1>1, <2>2, OffFacts
  <2>5. ~(Off(h) <= 0)
    <3>1. timeout[h] \in Tick
      BY <1>0, <2>2
    <3> QED
      BY <1>0, <2>3, <2>4, <3>1, Comparisons
  <2>6. Half \in Nat
    BY HalfRange
  <2>7. Left(x) >= 1 /\ Left(x) \in Int
    <3>1. key[h] = Left(h) /\ key[x] = Left(x) /\ key[h] <= key[x] /\ key[x] \in Int
      BY <1>2, <1>3, <2>2
    <3> QED
      BY <2>4, <2>5, <2>6, <3>1
  <2>8. Timed(x) /\ due[x] \in Nat /\ age[x] \in Nat
    BY <1>0, <1>2
  <2>9. After(tick, Left(x), timeout[x]) /\ age[x] < due[x]
    BY <1>1, <2>7, <2>8 DEF Timed, Left
  <2> QED
    BY <1>1, <2>8, <2>9 DEF Timed, Left
<1> QED
  BY <1>1, <1>5

LEMMA ScheduleInit == Init => OnSchedule
<1> SUFFICES ASSUME Init PROVE OnSchedule
  OBVIOUS
<1>1. list = << >> /\ DOMAIN list = {} /\ ToSet(list) = {}
  BY DEF Init, ToSet
<1>2. (CHOOSE d \in Delay \ {0} : TRUE) # 0
  BY HardTimersAssumption
<1>3. \A t \in Timer : init[t] # 0
  BY <1>2, Zenon DEF Init
<1> QED
  BY <1>1, <1>3, HardTimersAssumption DEF OnSchedule, ListInOrder

LEMMA ScheduleStep == IndInv /\ OnSchedule /\ [Next]_vars => OnSchedule'
<1> SUFFICES ASSUME IndInv, OnSchedule, [Next]_vars PROVE OnSchedule'
  OBVIOUS
<1>0. /\ TypeOK /\ list \in Seq(Timer) /\ Distinct(list)
      /\ \A t \in Periodic : init[t] # 0
      /\ Periodic \subseteq Timer
  BY HardTimersAssumption DEF IndInv, TypeOK, ActiveIsListed, Distinct, OnSchedule
<1>1. ASSUME NEW t \in Timer, Start(t) PROVE OnSchedule'
  <2>1. /\ init[t] \in Delay /\ StartWith(t, init[t]) /\ (phase # "thread" => init[t] # 0)
        /\ tick' = tick /\ init' = init /\ phase' = phase
    BY <1>0, <1>1 DEF Start, DelaysOf, TypeOK
  <2>2. (\A x \in ToSet(list') : Timed(x)') /\ ListInOrder'
    BY <2>1, StartSchedule
  <2> QED
    BY <1>0, <2>1, <2>2 DEF OnSchedule
<1>2. ASSUME NEW t \in Timer, Stop(t) PROVE OnSchedule'
  <2>1. /\ list' = RemoveFirst(list, t) /\ age' = [age EXCEPT ![t] = 0]
        /\ due' = [due EXCEPT ![t] = 0] /\ UNCHANGED <<tick, timeout, init, phase>>
    BY <1>2 DEF Stop
  <2>2. list' \in Seq(Timer) /\ ToSet(list') = ToSet(list) \ {t}
    BY <1>0, <2>1, RemoveFirstList
  <2>3. \A key \in [Timer -> Int] : InOrder(list, key) => InOrder(list', key)
    BY <1>0, <2>1, RemoveFirstOrder
  <2>4. \A x \in ToSet(list') : due'[x] = due[x] /\ age'[x] = age[x]
    <3>1. ToSet(list) \subseteq Timer
      BY <1>0 DEF ToSet
    <3> QED
      BY <1>0, <2>1, <2>2, <3>1 DEF TypeOK
  <2>5. (\A x \in ToSet(list') : Timed(x)') /\ ListInOrder'
    BY <2>1, <2>2, <2>3, <2>4, LeavesSchedule
  <2> QED
    BY <1>0, <2>1, <2>5 DEF OnSchedule
<1>3. ASSUME UNCHANGED <<tick, list, timeout, age, due>>,
             (phase' = "thread") = (phase = "thread")
      PROVE  (\A x \in ToSet(list') : Timed(x)') /\ ListInOrder'
  BY <1>0, <1>3, LeavesSchedule
<1>4. ASSUME NEW t \in Timer, NEW d \in DelaysOf(t), SetTime(t, d) PROVE OnSchedule'
  <2>1. UNCHANGED <<tick, list, timeout, age, due, phase>> /\ init' = [init EXCEPT ![t] = d]
    BY <1>4 DEF SetTime
  <2>2. t \in Periodic => d # 0
    BY DEF DelaysOf
  <2>3. \A x \in Periodic : init'[x] # 0
    BY <1>0, <2>1, <2>2 DEF TypeOK
  <2> QED
    BY <1>3, <2>1, <2>3 DEF OnSchedule
<1>5. CASE TickIncrease
  <2>1. init' = init
    BY <1>5 DEF TickIncrease
  <2> QED
    BY <1>0, <1>5, <2>1, TickSchedule DEF OnSchedule
<1>6. CASE CallFunc
  <2> DEFINE t == Head(list)
  <2>1. /\ list # << >> /\ list' = Tail(list) /\ age' = [age EXCEPT ![t] = 0]
        /\ due' = [due EXCEPT ![t] = 0] /\ UNCHANGED <<tick, timeout, init>>
        /\ phase = "check" /\ phase' = "func"
    BY <1>6 DEF CallFunc, HeadExpired
  <2>2. list' \in Seq(Timer) /\ ToSet(list') = ToSet(list) \ {t}
    BY <1>0, <2>1, TailList
  <2>3. \A key \in [Timer -> Int] : InOrder(list, key) => InOrder(list', key)
    BY <1>0, <2>1, TailOrder
  <2> HIDE DEF t
  <2>4. \A x \in ToSet(list') : due'[x] = due[x] /\ age'[x] = age[x]
    <3>1. ToSet(list) \subseteq Timer
      BY <1>0 DEF ToSet
    <3> QED
      BY <1>0, <2>1, <2>2, <3>1 DEF TypeOK
  <2>5. (\A x \in ToSet(list') : Timed(x)') /\ ListInOrder'
    BY <2>1, <2>2, <2>3, <2>4, LeavesSchedule
  <2> QED
    BY <1>0, <2>1, <2>5 DEF OnSchedule
<1>7. CASE FuncReturns
  <2>1. phase = "func" /\ phase' = "check" /\ tick' = tick /\ init' = init
    BY <1>7 DEF FuncReturns
  <2>2. CASE cb \in tmp /\ cb \in Periodic \cap active
    <3>1. cb \in Timer /\ init[cb] \in Delay /\ init[cb] # 0 /\ StartWith(cb, init[cb])
      BY <1>0, <1>7, <2>2 DEF FuncReturns, TypeOK
    <3>2. (\A x \in ToSet(list') : Timed(x)') /\ ListInOrder'
      BY <2>1, <3>1, StartSchedule
    <3> QED
      BY <1>0, <2>1, <3>2 DEF OnSchedule
  <2>3. CASE ~(cb \in tmp /\ cb \in Periodic \cap active)
    <3>1. UNCHANGED <<list, timeout, age, due>>
      BY <1>7, <2>3 DEF FuncReturns
    <3> QED
      BY <1>0, <1>3, <2>1, <3>1 DEF OnSchedule
  <2> QED
    BY <2>2, <2>3
<1>8. CASE CheckEnds
  <2>1. UNCHANGED <<init, list, age, due>>
    BY <1>8 DEF CheckEnds
  <2>2. ListInOrder'
    BY <2>1 DEF OnSchedule, ListInOrder
  <2> QED
    BY <1>0, <1>8, <2>1, <2>2, CheckEndsSchedule DEF OnSchedule
<1>9. CASE UNCHANGED vars
  <2>1. UNCHANGED <<tick, list, timeout, age, due, phase, init>>
    BY <1>9 DEF vars
  <2> QED
    BY <1>0, <1>3, <2>1 DEF OnSchedule
<1> QED
  BY <1>1, <1>2, <1>4, <1>5, <1>6, <1>7, <1>8, <1>9 DEF Next, Interrupt

\* On such a schedule timers are punctual.
LEMMA ScheduleIsPunctual == IndInv /\ OnSchedule => Punctual
<1> SUFFICES ASSUME IndInv, OnSchedule PROVE Punctual
  OBVIOUS
<1>0. /\ TypeOK /\ list \in Seq(Timer) /\ due \in [Timer -> Nat] /\ age \in [Timer -> Nat]
      /\ timeout \in [Timer -> Tick] /\ tick \in Tick
      /\ \A x \in ToSet(list) : Timed(x)
  BY DEF IndInv, TypeOK, OnSchedule
<1>1. /\ \A t \in ToSet(list) : age[t] <= due[t]
      /\ phase = "thread" => \A t \in ToSet(list) : age[t] < due[t]
  BY <1>0 DEF Timed
<1>2. ASSUME phase = "check", HeadExpired PROVE age[Head(list)] = due[Head(list)]
  <2> DEFINE h == Head(list)
  <2>1. list # << >> /\ Expired(tick, timeout[h])
    BY <1>2 DEF HeadExpired
  <2>2. h \in ToSet(list) /\ h \in Timer
    BY <1>0, <2>1 DEF ToSet
  <2> HIDE DEF h
  <2>3. /\ Off(h) \in -1 .. Half - 1 /\ After(tick, Off(h), timeout[h])
        /\ (Off(h) <= 0 <=> Left(h) = 0)
    BY <1>0, <1>2, <2>2, OffFacts
  <2>4. Off(h) <= 0
    <3>1. timeout[h] \in Tick
      BY <1>0, <2>2
    <3> QED
      BY <1>0, <2>1, <2>3, <3>1, Comparisons
  <2>5. due[h] \in Nat /\ age[h] \in Nat /\ due[h] - age[h] = 0
    BY <1>0, <2>2, <2>3, <2>4 DEF Left
  <2>6. age[h] = due[h]
    BY <2>5
  <2> QED
    BY <2>6 DEF h
<1> QED
  BY <1>1, <1>2 DEF Punctual

-----------------------------------------------------------------------------
(***************************************************************************)
(* The theorems                                                            *)
(***************************************************************************)

\* The variables of timer.c keep their types; rt_tick in particular stays in
\* its range.
THEOREM TypeCorrect == Spec => []TypeOK
<1>1. IndInv => TypeOK
  BY DEF IndInv
<1> QED
  BY <1>1, IndInvInit, IndInvStep, PTL DEF Spec

\* RT_TIMER_FLAG_ACTIVATED says whether a timer is in the list, whatever
\* threads and timeout functions start, stop and change while rt_timer_check is
\* in its loop; no timer is in the list twice.
THEOREM FlagsCorrect == Spec => []ActiveIsListed
<1>1. IndInv => ActiveIsListed
  BY DEF IndInv
<1> QED
  BY <1>1, IndInvInit, IndInvStep, PTL DEF Spec

\* Both together: the list of timer.c is sound in every reachable state.
THEOREM ListCorrect == Spec => []ListSound
<1>1. TypeOK /\ ActiveIsListed => ListSound
  BY DEF ListSound
<1> QED
  BY <1>1, TypeCorrect, FlagsCorrect, PTL

\* A timer expires at the tick it was started for, whatever else is started,
\* stopped and called in between and however often the counter wraps.
THEOREM PunctualCorrect == Spec => []Punctual
<1>1. IndInv /\ OnSchedule => Punctual
  BY ScheduleIsPunctual
<1> QED
  BY <1>1, IndInvInit, IndInvStep, ScheduleInit, ScheduleStep, PTL DEF Spec

\* The list is in the order in which the timers are due: rt_timer_check may stop
\* at the first that is not.
THEOREM OrderCorrect == Spec => []ListInOrder
<1>1. OnSchedule => ListInOrder
  BY DEF OnSchedule
<1> QED
  BY <1>1, IndInvInit, IndInvStep, ScheduleInit, ScheduleStep, PTL DEF Spec
=============================================================================
