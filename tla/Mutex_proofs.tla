---------------------------- MODULE Mutex_proofs ----------------------------
(***************************************************************************)
(* Mutexes with priority inheritance, for every set of threads, priorities  *)
(* and mutexes: who holds a mutex and who waits for it, and how far the     *)
(* priorities of rt_mutex_take and rt_mutex_release can be relied on.       *)
(***************************************************************************)
EXTENDS Mutex, KernelLemmas

\* Thread t has been made the owner of m and has not run since.
Grant(x, w, t, m) == w[t] = m /\ t \notin Waiting(x, m) /\ x.err[t] = "EOK"

\* Where the threads are: want is the mutex of the call, a suspended thread
\* waits for a mutex or sleeps, and a thread that waits has no error recorded.
CallsSound ==
  /\ \A t \in Thread : pc[t] \in {"take", "wait"} <=> want[t] # NoThread
  /\ \A m \in Mutexes : \A t \in Waiting(k, m) : want[t] = m /\ k.err[t] = "EOK"
  /\ \A t \in Suspended(k) : pc[t] = "woken" \/ \E m \in Mutexes : t \in Waiting(k, m)
  /\ k.stat[k.cur] = "SUSPEND" => pc[k.cur] = "take"
  /\ pc[Idle] = "run"
  /\ \A t \in raised : want[t] # NoThread

\* OwnerIsHolder, and what it needs: a thread that waits for a mutex has it not.
OwnersSound ==
  \A m \in Mutexes, t \in Thread :
    /\ has[t][m] > 0 => owner[m] = t /\ hold[m] = has[t][m]
    /\ owner[m] = t /\ has[t][m] = 0 => Grant(k, want, t, m) /\ hold[m] = 1
    /\ Grant(k, want, t, m) => owner[m] = t
    /\ want[t] = m => has[t][m] = 0

FreeSound ==
  \A m \in Mutexes :
    /\ value[m] = 1 <=> owner[m] = NoThread
    /\ hold[m] = 0 <=> owner[m] = NoThread
    /\ original[m] = NoPrio <=> owner[m] = NoThread
    /\ owner[m] = NoThread => Waiting(k, m) = {}

\* Of two waiters the first is at least as urgent, unless the second was lent
\* a priority while it waits: it is the one that stands too far back.
Ordered(x, ra) ==
  \A m \in Mutexes : \A a, b \in Thread :
    Precedes(x.wait[m], a, b) => x.prio[a] <= x.prio[b] \/ b \in ra

Inherits(x, ow, ra, lo) ==
  \A m \in Mutexes : \A t \in Waiting(x, m) :
    x.prio[ow[m]] <= x.prio[t] \/ t \in ra \/ ow[m] \in lo

\* What a release gives back is the thread's own priority.
OriginalSound ==
  \A m \in Mutexes, t \in Thread :
    owner[m] = t /\ t \notin lent => original[m] = InitPrio[t]

\* The inductive invariant.
MutexInv ==
  /\ TypeOK
  /\ Sane(k)
  /\ CallsSound
  /\ OwnersSound
  /\ FreeSound
  /\ Ordered(k, raised)
  /\ Inherits(k, owner, raised, lowered)
  /\ OriginalSound
  /\ PriorityRestored

-----------------------------------------------------------------------------
(***************************************************************************)
(* The lists of waiters                                                    *)
(***************************************************************************)

LEMMA Constants ==
  /\ Queue = Mutexes /\ NoThread \notin Thread /\ NoThread \notin Mutexes
  /\ NoPrio \notin Prio /\ MaxHold \in Nat \ {0} /\ Flag = "PRIO"
  /\ Idle \in Thread /\ Prio \subseteq Int
  BY MutexAssumption, KernelAssumption DEF Prio

\* Who is before whom is in the list.
LEMMA PrecedesIn ==
  ASSUME NEW x, Sane(x), NEW m \in Mutexes, NEW a, NEW b, Precedes(x.wait[m], a, b)
  PROVE  a \in Waiting(x, m) /\ b \in Waiting(x, m)
<1>1. x.wait[m] \in Seq(Thread)
  BY SaneFields, Constants
<1> QED
  BY <1>1 DEF Precedes, Waiting, ToSet

\* r has the lists of x, with some threads taken out, and nobody in them has
\* changed its priority.
Thinned(x, r) ==
  /\ \A m \in Mutexes : \A a, b \in Thread :
       Precedes(r.wait[m], a, b) => Precedes(x.wait[m], a, b)
  /\ \A m \in Mutexes : Waiting(r, m) \subseteq Waiting(x, m)
  /\ \A m \in Mutexes : \A t \in Waiting(x, m) : r.prio[t] = x.prio[t]

LEMMA ThinnedSame ==
  ASSUME NEW x, NEW r, r.wait = x.wait, r.prio = x.prio
  PROVE  Thinned(x, r)
  BY DEF Thinned, Waiting

LEMMA ThinnedOut ==
  ASSUME NEW x, Sane(x), NEW r, NEW t,
         r.wait = [q \in Queue |-> RemoveFirst(x.wait[q], t)],
         \A m \in Mutexes : Waiting(r, m) = Waiting(x, m) \ {t},
         \A m \in Mutexes : \A u \in Waiting(x, m) : r.prio[u] = x.prio[u]
  PROVE  Thinned(x, r)
<1>1. ASSUME NEW m \in Mutexes, NEW a \in Thread, NEW b \in Thread, Precedes(r.wait[m], a, b)
      PROVE  Precedes(x.wait[m], a, b)
  <2>1. r.wait[m] = RemoveFirst(x.wait[m], t) /\ x.wait[m] \in Seq(Thread)
    BY Constants, SaneFields
  <2> QED
    BY <1>1, <2>1, RemoveFirstPrecedes
<1> QED
  BY <1>1 DEF Thinned

\* Thinned lists are in order when the longer ones were.
LEMMA OrderThinned ==
  ASSUME NEW x, Sane(x), NEW r, Thinned(x, r), NEW ra, Ordered(x, ra), NEW ra2,
         \A m \in Mutexes : \A u \in Waiting(x, m) : u \in ra => u \in ra2
  PROVE  Ordered(r, ra2)
<1> SUFFICES ASSUME NEW m \in Mutexes, NEW a \in Thread, NEW b \in Thread,
                    Precedes(r.wait[m], a, b)
             PROVE  r.prio[a] <= r.prio[b] \/ b \in ra2
  BY DEF Ordered
<1>1. Precedes(x.wait[m], a, b)
  BY DEF Thinned
<1>2. a \in Waiting(x, m) /\ b \in Waiting(x, m)
  BY <1>1, PrecedesIn
<1>3. r.prio[a] = x.prio[a] /\ r.prio[b] = x.prio[b]
  BY <1>2 DEF Thinned
<1> QED
  BY <1>1, <1>2, <1>3 DEF Ordered

\* Who lends m's owner a priority in r: it is the owner of x, and no less
\* urgent than it was or known as lowered.
StillLent(x, r, ow, ow2, lo, lo2, m) ==
  /\ ow2[m] = ow[m]
  /\ r.prio[ow[m]] = x.prio[ow[m]] \/ r.prio[ow[m]] < x.prio[ow[m]] \/ ow[m] \in lo2
  /\ ow[m] \in lo => ow[m] \in lo2

LEMMA InheritThinned ==
  ASSUME NEW x, Sane(x), NEW r, Sane(r), Thinned(x, r), NEW ow, NEW ra, NEW lo,
         Inherits(x, ow, ra, lo), NEW ow2, NEW ra2, NEW lo2,
         \A m \in Mutexes : \A u \in Waiting(x, m) : u \in ra => u \in ra2,
         \A m \in Mutexes : Waiting(x, m) # {} => ow[m] \in Thread,
         \A m \in Mutexes : Waiting(r, m) # {} =>
           \/ StillLent(x, r, ow, ow2, lo, lo2, m)
           \/ \A u \in Waiting(r, m) : r.prio[ow2[m]] <= r.prio[u] \/ u \in ra2
  PROVE  Inherits(r, ow2, ra2, lo2)
<1> SUFFICES ASSUME NEW m \in Mutexes, NEW u \in Waiting(r, m)
             PROVE  r.prio[ow2[m]] <= r.prio[u] \/ u \in ra2 \/ ow2[m] \in lo2
  BY DEF Inherits
<1>1. u \in Waiting(x, m) /\ r.prio[u] = x.prio[u]
  BY DEF Thinned
<1>2. x.prio[ow[m]] <= x.prio[u] \/ u \in ra \/ ow[m] \in lo
  BY <1>1 DEF Inherits
<1>3. u \in Thread /\ ow[m] \in Thread
  <2>1. m \in Queue
    BY Constants
  <2>2. Waiting(x, m) \subseteq Suspended(x)
    BY <2>1, SaneFields
  <2> QED
    BY <1>1, <2>2 DEF Suspended
<1>4. x.prio[ow[m]] \in Int /\ x.prio[u] \in Int /\ r.prio[ow[m]] \in Int
  <2>1. x.prio \in [Thread -> Prio] /\ r.prio \in [Thread -> Prio]
    BY SaneFields
  <2> QED
    BY <1>3, <2>1, Constants
<1>5. CASE StillLent(x, r, ow, ow2, lo, lo2, m)
  BY <1>1, <1>2, <1>4, <1>5 DEF StillLent
<1> QED
  BY <1>5

-----------------------------------------------------------------------------
(***************************************************************************)
(* What a step may rely on                                                 *)
(***************************************************************************)

LEMMA KernelBefore ==
  ASSUME NEW x, Sane(x)
  PROVE  /\ x.cur \in Thread /\ x.err \in [Thread -> Error] /\ x.prio \in [Thread -> Prio]
         /\ \A m \in Mutexes : /\ x.wait[m] \in Seq(Thread)
                               /\ Waiting(x, m) \subseteq Thread
                               /\ Waiting(x, m) \subseteq Suspended(x)
                               /\ (x.wait[m] = << >>) <=> (Waiting(x, m) = {})
         /\ \A m, n \in Mutexes : \A t \in Waiting(x, m) : t \in Waiting(x, n) => m = n
         /\ x.stat[x.cur] \in {"RUNNING", "SUSPEND"}
         /\ x.stat[x.cur] = "SUSPEND" <=> x.cur \in Suspended(x)
  BY SaneFields, Constants DEF Suspended

\* The thread that makes a call runs, waits for nothing and has what it owns.
LEMMA CallerRuns ==
  ASSUME MutexInv, NEW t \in Thread, k.cur = t, pc[t] \notin {"take", "wait"}
  PROVE  /\ k.stat[t] = "RUNNING" /\ t \notin Suspended(k) /\ want[t] = NoThread
         /\ t \notin raised
         /\ \A m \in Mutexes : /\ t \notin Waiting(k, m)
                               /\ ~Grant(k, want, t, m)
                               /\ owner[m] = t => has[t][m] > 0 /\ hold[m] = has[t][m]
<1>1. want[t] = NoThread /\ k.stat[t] # "SUSPEND" /\ t \notin raised
  BY DEF MutexInv, CallsSound
<1>2. k.stat[t] = "RUNNING" /\ t \notin Suspended(k)
  BY <1>1, KernelBefore DEF MutexInv
<1>3. \A m \in Mutexes : t \notin Waiting(k, m) /\ ~Grant(k, want, t, m)
  BY <1>1, <1>2, KernelBefore, Constants DEF MutexInv, Grant
<1>4. \A m \in Mutexes : has[t][m] \in Nat
  BY DEF MutexInv, TypeOK
<1>5. ASSUME NEW m \in Mutexes, owner[m] = t
      PROVE  has[t][m] > 0 /\ hold[m] = has[t][m]
  BY <1>3, <1>4, <1>5 DEF MutexInv, OwnersSound
<1> QED
  BY <1>1, <1>2, <1>3, <1>5

\* Somebody owns a mutex that is waited for.
LEMMA WaitedOwned ==
  ASSUME MutexInv
  PROVE  /\ \A m \in Mutexes : Waiting(k, m) # {} => owner[m] \in Thread
         /\ \A m \in Mutexes : \A t \in Waiting(k, m) : t \in Thread /\ want[t] = m
                                                          /\ k.err[t] = "EOK"
<1>1. \A m \in Mutexes : owner[m] \in Thread \cup {NoThread}
  BY DEF MutexInv, TypeOK
<1> QED
  BY <1>1, KernelBefore DEF MutexInv, FreeSound, CallsSound

-----------------------------------------------------------------------------
(***************************************************************************)
(* Steps that leave the lists and the priorities alone                     *)
(***************************************************************************)

\* The threads stay where they are in their calls, or move on in them, and
\* thread->error is written only where no rt_mutex_take reads it.
KernelQuiet ==
  /\ Sane(k') /\ k'.wait = k.wait /\ k'.prio = k.prio /\ Suspended(k') = Suspended(k)
  /\ k'.stat[k'.cur] = "SUSPEND" => pc'[k'.cur] = "take"
  /\ pc' \in [Thread -> {"run", "take", "wait", "sched", "woken"}]
  /\ \A t \in Thread : pc'[t] \in {"take", "wait"} <=> pc[t] \in {"take", "wait"}
  /\ \A t \in Suspended(k) : pc[t] = "woken" => pc'[t] = "woken"
  /\ pc'[Idle] = "run"
  /\ \A t \in Thread : want[t] # NoThread => k'.err[t] = k.err[t]
  /\ UNCHANGED <<want, raised>>

LEMMA QuietKernel ==
  ASSUME MutexInv, KernelQuiet
  PROVE  /\ CallsSound' /\ Ordered(k', raised')
         /\ \A o, l : o = owner /\ l = lowered => Inherits(k', o, raised', l)
         /\ \A m \in Mutexes : Waiting(k', m) = Waiting(k, m)
         /\ \A t \in Thread, m \in Mutexes : Grant(k', want', t, m) <=> Grant(k, want, t, m)
         /\ k' \in KernelType
<1>1. /\ Sane(k) /\ Sane(k') /\ k'.wait = k.wait /\ k'.prio = k.prio
      /\ want' = want /\ raised' = raised /\ Thinned(k, k')
  BY ThinnedSame DEF MutexInv, KernelQuiet
<1>2. /\ \A m \in Mutexes : Waiting(k', m) = Waiting(k, m)
      /\ \A m \in Mutexes : \A t \in Waiting(k, m) : t \in Thread /\ want[t] = m
                                                        /\ k.err[t] = "EOK"
  BY <1>1, WaitedOwned DEF Waiting
<1>3. CallsSound'
  <2>1. \A m \in Mutexes : \A t \in Waiting(k', m) : want'[t] = m /\ k'.err[t] = "EOK"
    BY <1>1, <1>2, Constants DEF KernelQuiet
  <2>2. \A t \in Suspended(k') : pc'[t] = "woken" \/ \E m \in Mutexes : t \in Waiting(k', m)
    BY <1>2 DEF KernelQuiet, MutexInv, CallsSound
  <2>3. \A t \in Thread : pc'[t] \in {"take", "wait"} <=> want'[t] # NoThread
    BY <1>1 DEF KernelQuiet, MutexInv, CallsSound
  <2>4. \A t \in raised' : want'[t] # NoThread
    BY <1>1 DEF MutexInv, CallsSound
  <2> QED
    BY <2>1, <2>2, <2>3, <2>4 DEF KernelQuiet, CallsSound
<1>4. Ordered(k', raised')
  BY <1>1, OrderThinned DEF MutexInv
<1>5. Inherits(k', owner, raised', lowered)
  BY <1>1, <1>2 DEF MutexInv, Inherits
<1>6. \A t \in Thread, m \in Mutexes : Grant(k', want', t, m) <=> Grant(k, want, t, m)
  BY <1>1, <1>2, Constants DEF Grant, KernelQuiet
<1>7. k' \in KernelType
  BY <1>1, SaneFields
<1> QED
  BY <1>2, <1>3, <1>4, <1>5, <1>6, <1>7

\* rt_schedule, ticks, refused calls: nothing about the mutexes changes.
LEMMA QuietStep ==
  ASSUME MutexInv, KernelQuiet, UNCHANGED <<owner, hold, value, original, has, lending>>
  PROVE  MutexInv'
<1>1. /\ CallsSound' /\ Ordered(k', raised') /\ Inherits(k', owner, raised', lowered)
      /\ \A m \in Mutexes : Waiting(k', m) = Waiting(k, m)
      /\ \A t \in Thread, m \in Mutexes : Grant(k', want', t, m) <=> Grant(k, want, t, m)
      /\ k' \in KernelType /\ Sane(k') /\ want' = want /\ k'.prio = k.prio
  BY QuietKernel DEF KernelQuiet
<1>2. /\ owner' = owner /\ hold' = hold /\ value' = value /\ original' = original
      /\ has' = has /\ lent' = lent /\ lowered' = lowered /\ raised' = raised
  BY DEF lending
<1>3. TypeOK'
  BY <1>1, <1>2 DEF MutexInv, TypeOK, KernelQuiet
<1>4. OwnersSound'
  BY <1>1, <1>2 DEF MutexInv, OwnersSound
<1>5. FreeSound' /\ OriginalSound' /\ PriorityRestored'
  BY <1>1, <1>2 DEF MutexInv, FreeSound, OriginalSound, PriorityRestored
<1>6. Inherits(k', owner', raised', lowered')
  BY <1>1, <1>2
<1> QED
  BY <1>1, <1>3, <1>4, <1>5, <1>6 DEF MutexInv

\* A thread that is not in rt_mutex_take writes its own error.
LEMMA CallerQuiet ==
  ASSUME MutexInv, NEW t \in Thread, k.cur = t, pc[t] = "run", NEW v \in Error,
         k' = k \/ k' = [k EXCEPT !.err[t] = v], UNCHANGED <<pc, want, raised>>
  PROVE  KernelQuiet
<1>1. /\ Sane(k) /\ pc \in [Thread -> {"run", "take", "wait", "sched", "woken"}]
      /\ pc[Idle] = "run" /\ k.stat[t] = "RUNNING" /\ want[t] = NoThread
      /\ k.err \in [Thread -> Error]
  BY CallerRuns, KernelBefore DEF MutexInv, TypeOK, CallsSound
<1>2. /\ Sane(k') /\ k'.wait = k.wait /\ k'.prio = k.prio /\ Suspended(k') = Suspended(k)
      /\ k'.cur = k.cur /\ k'.stat = k.stat
      /\ \A u \in Thread \ {t} : k'.err[u] = k.err[u]
  <2>1. CASE k' = k
    BY <1>1, <2>1
  <2>2. CASE k' = [k EXCEPT !.err[t] = v]
    <3>1. /\ Sane(k') /\ k'.cur = k.cur /\ k'.wait = k.wait /\ k'.stat = k.stat
          /\ k'.prio = k.prio /\ Suspended(k') = Suspended(k)
          /\ k'.err = [k.err EXCEPT ![t] = v]
      BY <1>1, <2>2, ErrorSane
    <3> QED
      BY <1>1, <3>1
  <2> QED
    BY <2>1, <2>2
<1> QED
  BY <1>1, <1>2 DEF KernelQuiet

\* TryTakeFails and ReleaseRefused.
LEMMA RefusedStep ==
  ASSUME MutexInv, NEW t \in Thread, NEW m \in Mutexes,
         TryTakeFails(t, m) \/ ReleaseRefused(t, m)
  PROVE  MutexInv'
<1>1. PICK v \in Error : k' = [k EXCEPT !.err[t] = v]
  BY DEF TryTakeFails, ReleaseRefused, Error
<1>2. /\ k.cur = t /\ pc[t] = "run" /\ UNCHANGED <<pc, want, raised>>
      /\ UNCHANGED <<owner, hold, value, original, has, lending>>
  BY DEF TryTakeFails, ReleaseRefused, Caller, lending
<1>3. KernelQuiet
  BY <1>1, <1>2, CallerQuiet
<1> QED
  BY <1>2, <1>3, QuietStep

\* rt_schedule, and a tick.
LEMMA SwitchStep ==
  ASSUME MutexInv, TickSlice \/ \E t \in Thread : CallSchedule(t)
  PROVE  MutexInv'
<1>1. /\ Sane(k) /\ pc \in [Thread -> {"run", "take", "wait", "sched", "woken"}]
      /\ pc[Idle] = "run"
  BY DEF MutexInv, TypeOK, CallsSound
<1>2. /\ \/ pc' = pc
         \/ \E t \in Thread : \/ pc[t] = "take" /\ pc' = [pc EXCEPT ![t] = "wait"]
                              \/ pc[t] = "sched" /\ pc' = [pc EXCEPT ![t] = "run"]
      /\ UNCHANGED <<want, raised>>
      /\ UNCHANGED <<owner, hold, value, original, has, lending>>
  BY DEF TickSlice, CallSchedule, Goto, lending
<1>3. Sane(k') /\ Switched(k, k')
  BY <1>1, ScheduleSane, YieldSane DEF TickSlice, CallSchedule
<1>4. /\ k'.wait = k.wait /\ k'.prio = k.prio /\ Suspended(k') = Suspended(k)
      /\ k'.err = k.err /\ k'.stat[k'.cur] = "RUNNING"
  BY <1>3 DEF Switched
<1>5. /\ pc' \in [Thread -> {"run", "take", "wait", "sched", "woken"}]
      /\ \A t \in Thread : pc'[t] \in {"take", "wait"} <=> pc[t] \in {"take", "wait"}
      /\ \A t \in Thread : pc[t] = "woken" => pc'[t] = "woken"
      /\ pc'[Idle] = "run"
  BY <1>1, <1>2, Constants
<1>6. KernelQuiet
  BY <1>2, <1>3, <1>4, <1>5 DEF KernelQuiet, Suspended
<1> QED
  BY <1>2, <1>6, QuietStep

\* The end of rt_thread_sleep.
LEMMA SleepReturnStep ==
  ASSUME MutexInv, NEW t \in Thread, SleepReturn(t)
  PROVE  MutexInv'
<1>1. /\ k.cur = t /\ pc[t] = "woken" /\ pc' = [pc EXCEPT ![t] = "run"]
      /\ UNCHANGED <<want, raised>>
      /\ UNCHANGED <<owner, hold, value, original, has, lending>>
  BY DEF SleepReturn, Goto, lending
<1>2. /\ Sane(k) /\ pc \in [Thread -> {"run", "take", "wait", "sched", "woken"}]
      /\ pc[Idle] = "run" /\ k.stat[t] = "RUNNING" /\ want[t] = NoThread
      /\ t \notin Suspended(k) /\ k.err \in [Thread -> Error]
  BY <1>1, CallerRuns, KernelBefore DEF MutexInv, TypeOK, CallsSound
<1> DEFINE v == IF k.err[t] = "ETIMEOUT" THEN "EOK" ELSE k.err[t]
<1>3. k' = [k EXCEPT !.err[t] = v] /\ v \in Error
  <2>1. v \in Error
    BY <1>2 DEF Error
  <2>2. k' = [k EXCEPT !.err[t] = v]
    BY DEF SleepReturn
  <2> QED
    BY <2>1, <2>2
<1> HIDE DEF v
<1>4. /\ Sane(k') /\ k'.cur = k.cur /\ k'.wait = k.wait /\ k'.stat = k.stat
      /\ k'.prio = k.prio /\ Suspended(k') = Suspended(k)
      /\ k'.err = [k.err EXCEPT ![t] = v]
  BY <1>2, <1>3, ErrorSane
<1>5. /\ pc' \in [Thread -> {"run", "take", "wait", "sched", "woken"}]
      /\ \A u \in Thread : pc'[u] \in {"take", "wait"} <=> pc[u] \in {"take", "wait"}
      /\ \A u \in Thread \ {t} : pc'[u] = pc[u] /\ k'.err[u] = k.err[u]
      /\ pc'[Idle] = "run"
  BY <1>1, <1>2, <1>4, Constants
<1>6. KernelQuiet
  BY <1>1, <1>2, <1>4, <1>5 DEF KernelQuiet, Suspended
<1> QED
  BY <1>1, <1>6, QuietStep

\* The owner takes the mutex once more, or releases one of several holds.
LEMMA NestedStep ==
  ASSUME MutexInv, NEW t \in Thread, NEW m \in Mutexes,
         TakeAgain(t, m) \/ ReleaseNested(t, m)
  PROVE  MutexInv'
<1>1. /\ k.cur = t /\ pc[t] = "run" /\ owner[m] = t
      /\ k' = k \/ k' = [k EXCEPT !.err[t] = "EOK"]
      /\ UNCHANGED <<pc, want, raised>> /\ UNCHANGED <<owner, value, original, lending>>
  BY DEF TakeAgain, ReleaseNested, Caller, lending
<1>2. KernelQuiet
  BY <1>1, CallerQuiet DEF Error
<1>3. /\ hold \in [Mutexes -> 0 .. MaxHold] /\ has \in [Thread -> [Mutexes -> 0 .. MaxHold]]
      /\ MaxHold \in Nat /\ has[t][m] > 0 /\ hold[m] = has[t][m] /\ want[t] = NoThread
      /\ NoThread \notin Mutexes
  BY <1>1, CallerRuns, Constants DEF MutexInv, TypeOK
<1>4. CASE hold' = hold /\ has' = has
  BY <1>1, <1>2, <1>4, QuietStep
<1>5. ASSUME NEW d \in 1 .. MaxHold,
             hold' = [hold EXCEPT ![m] = d], has' = [has EXCEPT ![t][m] = d]
      PROVE  MutexInv'
  <2>1. /\ CallsSound' /\ Ordered(k', raised') /\ Inherits(k', owner, raised', lowered)
        /\ \A n \in Mutexes : Waiting(k', n) = Waiting(k, n)
        /\ \A u \in Thread, n \in Mutexes : Grant(k', want', u, n) <=> Grant(k, want, u, n)
        /\ k' \in KernelType /\ Sane(k') /\ want' = want /\ k'.prio = k.prio
    BY <1>2, QuietKernel DEF KernelQuiet
  <2>2. /\ owner' = owner /\ value' = value /\ original' = original
        /\ lent' = lent /\ lowered' = lowered /\ raised' = raised
    BY <1>1 DEF lending
  <2>3. /\ hold' \in [Mutexes -> 0 .. MaxHold] /\ has' \in [Thread -> [Mutexes -> 0 .. MaxHold]]
        /\ hold'[m] = d /\ has'[t][m] = d
        /\ \A n \in Mutexes \ {m} : hold'[n] = hold[n]
        /\ \A u \in Thread, n \in Mutexes : u # t \/ n # m => has'[u][n] = has[u][n]
    BY <1>3, <1>5
  <2>4. TypeOK'
    BY <1>2, <2>1, <2>2, <2>3 DEF MutexInv, TypeOK, KernelQuiet
  <2>5. OwnersSound'
    <3> SUFFICES ASSUME NEW n \in Mutexes, NEW u \in Thread
                 PROVE  /\ has'[u][n] > 0 => owner'[n] = u /\ hold'[n] = has'[u][n]
                        /\ owner'[n] = u /\ has'[u][n] = 0 => Grant(k', want', u, n) /\ hold'[n] = 1
                        /\ Grant(k', want', u, n) => owner'[n] = u
                        /\ want'[u] = n => has'[u][n] = 0
      BY DEF OwnersSound
    <3>1. CASE u = t /\ n = m
      BY <1>1, <1>3, <2>1, <2>2, <2>3, <3>1 DEF MutexInv, OwnersSound
    <3>2. CASE u # t /\ n = m
      <4>1. owner'[n] # u /\ has'[u][n] = has[u][n]
        BY <1>1, <2>2, <2>3, <3>2
      <4>2. /\ ~(has[u][n] > 0) /\ ~Grant(k, want, u, n)
            /\ want[u] = n => has[u][n] = 0
        BY <1>1, <3>2 DEF MutexInv, OwnersSound
      <4> QED
        BY <2>1, <4>1, <4>2
    <3>3. CASE n # m
      BY <2>1, <2>2, <2>3, <3>3 DEF MutexInv, OwnersSound
    <3> QED
      BY <3>1, <3>2, <3>3
  <2>6. FreeSound'
    <3>1. owner[m] # NoThread /\ hold'[m] # 0
      BY <1>1, <2>3, Constants
    <3> QED
      BY <2>1, <2>2, <2>3, <3>1 DEF MutexInv, FreeSound
  <2>7. OriginalSound' /\ PriorityRestored' /\ Inherits(k', owner', raised', lowered')
    BY <2>1, <2>2 DEF MutexInv, OriginalSound, PriorityRestored
  <2> QED
    BY <2>1, <2>4, <2>5, <2>6, <2>7 DEF MutexInv
<1>6. CASE TakeAgain(t, m) /\ hold[m] < MaxHold
  <2>1. /\ hold[m] + 1 \in 1 .. MaxHold
        /\ hold' = [hold EXCEPT ![m] = hold[m] + 1] /\ has' = [has EXCEPT ![t][m] = hold[m] + 1]
    BY <1>3, <1>6 DEF TakeAgain
  <2> QED
    BY <2>1, <1>5
<1>7. CASE ReleaseNested(t, m)
  <2>1. /\ hold[m] - 1 \in 1 .. MaxHold
        /\ hold' = [hold EXCEPT ![m] = hold[m] - 1] /\ has' = [has EXCEPT ![t][m] = hold[m] - 1]
    BY <1>3, <1>7 DEF ReleaseNested
  <2> QED
    BY <2>1, <1>5
<1> QED
  BY <1>4, <1>6, <1>7 DEF TakeAgain

\* rt_mutex_take of a free mutex.
LEMMA TakeFreeStep ==
  ASSUME MutexInv, NEW t \in Thread, NEW m \in Mutexes, TakeFree(t, m)
  PROVE  MutexInv'
<1>1. /\ k.cur = t /\ pc[t] = "run" /\ value[m] > 0
      /\ value' = [value EXCEPT ![m] = value[m] - 1] /\ owner' = [owner EXCEPT ![m] = t]
      /\ original' = [original EXCEPT ![m] = k.prio[t]]
      /\ hold' = [hold EXCEPT ![m] = hold[m] + 1]
      /\ has' = [has EXCEPT ![t][m] = has[t][m] + 1]
      /\ k' = [k EXCEPT !.err[t] = "EOK"] /\ lent' = Lent(t)
      /\ UNCHANGED <<pc, want, raised>> /\ lowered' = lowered
  BY DEF TakeFree, Caller
<1>2. KernelQuiet
  BY <1>1, CallerQuiet DEF Error
<1>3. /\ CallsSound' /\ Ordered(k', raised') /\ Inherits(k', owner, raised', lowered)
      /\ \A n \in Mutexes : Waiting(k', n) = Waiting(k, n)
      /\ \A u \in Thread, n \in Mutexes : Grant(k', want', u, n) <=> Grant(k, want, u, n)
      /\ k' \in KernelType /\ Sane(k') /\ want' = want /\ k'.prio = k.prio
  BY <1>2, QuietKernel DEF KernelQuiet
<1>4. /\ owner \in [Mutexes -> Thread \cup {NoThread}] /\ value \in [Mutexes -> 0 .. 1]
      /\ hold \in [Mutexes -> 0 .. MaxHold] /\ has \in [Thread -> [Mutexes -> 0 .. MaxHold]]
      /\ original \in [Mutexes -> Prio \cup {NoPrio}] /\ lent \subseteq Thread
      /\ MaxHold \in Nat \ {0} /\ k.prio[t] \in Prio /\ want[t] = NoThread
  <2>1. k.cur = t /\ pc[t] = "run" /\ Sane(k)
    BY <1>1 DEF MutexInv
  <2>2. k.prio[t] \in Prio /\ want[t] = NoThread /\ MaxHold \in Nat \ {0}
    BY <2>1, CallerRuns, KernelBefore, Constants
  <2> QED
    BY <2>2 DEF MutexInv, TypeOK
<1>5. /\ value[m] = 1 /\ owner[m] = NoThread /\ hold[m] = 0 /\ Waiting(k, m) = {}
      /\ \A u \in Thread : has[u][m] = 0 /\ ~Grant(k, want, u, m)
  <2>1. value[m] = 1
    BY <1>1, <1>4
  <2>2. owner[m] = NoThread /\ hold[m] = 0 /\ Waiting(k, m) = {}
    BY <2>1 DEF MutexInv, FreeSound
  <2>3. \A u \in Thread : has[u][m] \in Nat /\ owner[m] # u
    BY <1>4, <2>2, Constants
  <2>4. \A u \in Thread : ~(has[u][m] > 0) /\ ~Grant(k, want, u, m)
    BY <2>3 DEF MutexInv, OwnersSound
  <2> QED
    BY <2>1, <2>2, <2>3, <2>4
<1>6. /\ value' \in [Mutexes -> 0 .. 1] /\ value'[m] = 0
      /\ owner' \in [Mutexes -> Thread \cup {NoThread}] /\ owner'[m] = t
      /\ original' \in [Mutexes -> Prio \cup {NoPrio}] /\ original'[m] = k.prio[t]
      /\ hold' \in [Mutexes -> 0 .. MaxHold] /\ hold'[m] = 1
      /\ \A n \in Mutexes \ {m} : /\ value'[n] = value[n] /\ owner'[n] = owner[n]
                                  /\ original'[n] = original[n] /\ hold'[n] = hold[n]
  BY <1>1, <1>4, <1>5
<1>7. /\ has' \in [Thread -> [Mutexes -> 0 .. MaxHold]] /\ has'[t][m] = 1
      /\ \A u \in Thread, n \in Mutexes : u # t \/ n # m => has'[u][n] = has[u][n]
  BY <1>1, <1>4, <1>5
<1>8. /\ lent \subseteq lent' /\ lent' \subseteq Thread
      /\ t \notin lent' => k.prio[t] = InitPrio[t]
  BY <1>1, <1>4 DEF Lent
<1>9. TypeOK'
  BY <1>1, <1>2, <1>3, <1>6, <1>7, <1>8 DEF MutexInv, TypeOK, KernelQuiet
<1>10. OwnersSound'
  <2> SUFFICES ASSUME NEW n \in Mutexes, NEW u \in Thread
               PROVE  /\ has'[u][n] > 0 => owner'[n] = u /\ hold'[n] = has'[u][n]
                      /\ owner'[n] = u /\ has'[u][n] = 0 => Grant(k', want', u, n) /\ hold'[n] = 1
                      /\ Grant(k', want', u, n) => owner'[n] = u
                      /\ want'[u] = n => has'[u][n] = 0
    BY DEF OwnersSound
  <2>1. CASE n = m /\ u = t
    BY <1>3, <1>4, <1>6, <1>7, <2>1, Constants
  <2>2. CASE n = m /\ u # t
    BY <1>3, <1>5, <1>6, <1>7, <2>2
  <2>3. CASE n # m
    BY <1>3, <1>6, <1>7, <2>3 DEF MutexInv, OwnersSound
  <2> QED
    BY <2>1, <2>2, <2>3
<1>11. FreeSound'
  BY <1>3, <1>4, <1>6, Constants, SMTT(40) DEF MutexInv, FreeSound
<1>12. Inherits(k', owner', raised', lowered')
  BY <1>1, <1>3, <1>5, <1>6 DEF Inherits
<1>13. OriginalSound'
  BY <1>4, <1>6, <1>8 DEF MutexInv, OriginalSound
<1>14. PriorityRestored'
  <2> SUFFICES ASSUME NEW u \in Thread, \A n \in Mutexes : owner'[n] # u
               PROVE  k'.prio[u] = InitPrio[u] \/ u \in lent'
    BY DEF PriorityRestored
  <2>1. \A n \in Mutexes : owner[n] # u
    BY <1>5, <1>6, Constants
  <2> QED
    BY <1>3, <1>8, <2>1 DEF MutexInv, PriorityRestored
<1> QED
  BY <1>3, <1>9, <1>10, <1>11, <1>12, <1>13, <1>14 DEF MutexInv

-----------------------------------------------------------------------------
(***************************************************************************)
(* The end of a wait                                                       *)
(***************************************************************************)

\* rt_mutex_take runs again: the error tells it what the owner says.
LEMMA TakeReturnStep ==
  ASSUME MutexInv, NEW t \in Thread, TakeReturn(t)
  PROVE  MutexInv'
<1>1. /\ k.cur = t /\ pc[t] = "wait" /\ pc' = [pc EXCEPT ![t] = "run"]
      /\ want' = [want EXCEPT ![t] = NoThread]
      /\ has' = IF k.err[t] = "EOK" THEN [has EXCEPT ![t][want[t]] = has[t][want[t]] + 1] ELSE has
      /\ raised' = raised \ {t}
      /\ k' = k /\ owner' = owner /\ hold' = hold /\ value' = value /\ original' = original
      /\ lent' = lent /\ lowered' = lowered
  BY DEF TakeReturn, Goto
<1>2. /\ Sane(k) /\ CallsSound /\ OwnersSound /\ FreeSound
      /\ pc \in [Thread -> {"run", "take", "wait", "sched", "woken"}]
      /\ want \in [Thread -> Mutexes \cup {NoThread}]
      /\ has \in [Thread -> [Mutexes -> 0 .. MaxHold]] /\ MaxHold \in Nat \ {0}
      /\ raised \subseteq Thread /\ NoThread \notin Mutexes /\ pc[Idle] = "run"
  BY Constants DEF MutexInv, TypeOK, CallsSound
<1> DEFINE m == want[t]
<1>3. /\ m \in Mutexes /\ t \notin Suspended(k) /\ k.stat[t] = "RUNNING"
      /\ \A n \in Mutexes : t \notin Waiting(k, n)
  <2>1. m \in Mutexes /\ k.stat[t] # "SUSPEND"
    BY <1>1, <1>2 DEF CallsSound
  <2> QED
    BY <1>1, <1>2, <2>1, KernelBefore
<1>4. /\ pc' \in [Thread -> {"run", "take", "wait", "sched", "woken"}]
      /\ want' \in [Thread -> Mutexes \cup {NoThread}]
      /\ pc'[t] = "run" /\ want'[t] = NoThread
      /\ \A u \in Thread \ {t} : pc'[u] = pc[u] /\ want'[u] = want[u]
      /\ pc'[Idle] = "run"
  BY <1>1, <1>2, Constants
<1> HIDE DEF m
<1>5. CallsSound'
  <2>1. \A n \in Mutexes : \A u \in Waiting(k', n) : want'[u] = n /\ k'.err[u] = "EOK"
    BY <1>1, <1>3, <1>4, WaitedOwned
  <2>2. \A u \in Suspended(k') : pc'[u] = "woken" \/ \E n \in Mutexes : u \in Waiting(k', n)
    BY <1>1, <1>2, <1>3, <1>4 DEF CallsSound, Suspended
  <2>3. \A u \in Thread : pc'[u] \in {"take", "wait"} <=> want'[u] # NoThread
    BY <1>2, <1>4 DEF CallsSound
  <2>4. \A u \in raised' : want'[u] # NoThread
    BY <1>1, <1>2, <1>4 DEF CallsSound
  <2>5. k'.stat[k'.cur] = "SUSPEND" => pc'[k'.cur] = "take"
    BY <1>1, <1>3
  <2> QED
    BY <1>4, <2>1, <2>2, <2>3, <2>4, <2>5 DEF CallsSound
<1>6. /\ k.err[t] = "EOK" <=> Grant(k, want, t, m)
      /\ has[t][m] = 0 /\ \A n \in Mutexes \ {m} : ~Grant(k, want, t, n)
  BY <1>2, <1>3 DEF Grant, OwnersSound, m
<1>7. /\ \A u \in Thread \ {t}, n \in Mutexes : Grant(k', want', u, n) <=> Grant(k, want, u, n)
      /\ \A n \in Mutexes : ~Grant(k', want', t, n)
  BY <1>1, <1>2, <1>4 DEF Grant
<1>8. /\ has' \in [Thread -> [Mutexes -> 0 .. MaxHold]]
      /\ \A u \in Thread, n \in Mutexes : u # t \/ n # m => has'[u][n] = has[u][n]
      /\ has'[t][m] = IF Grant(k, want, t, m) THEN 1 ELSE 0
  <2>1. CASE k.err[t] = "EOK"
    <3>1. has' = [has EXCEPT ![t][m] = 1]
      BY <1>1, <1>6, <2>1 DEF m
    <3> QED
      BY <1>2, <1>3, <1>6, <2>1, <3>1
  <2>2. CASE k.err[t] # "EOK"
    BY <1>1, <1>2, <1>6, <2>2
  <2> QED
    BY <2>1, <2>2
<1>9. OwnersSound'
  <2> SUFFICES ASSUME NEW n \in Mutexes, NEW u \in Thread
               PROVE  /\ has'[u][n] > 0 => owner'[n] = u /\ hold'[n] = has'[u][n]
                      /\ owner'[n] = u /\ has'[u][n] = 0 => Grant(k', want', u, n) /\ hold'[n] = 1
                      /\ Grant(k', want', u, n) => owner'[n] = u
                      /\ want'[u] = n => has'[u][n] = 0
    BY DEF OwnersSound
  <2>1. /\ has[u][n] > 0 => owner[n] = u /\ hold[n] = has[u][n]
        /\ owner[n] = u /\ has[u][n] = 0 => Grant(k, want, u, n) /\ hold[n] = 1
        /\ Grant(k, want, u, n) => owner[n] = u
        /\ want[u] = n => has[u][n] = 0
        /\ owner'[n] = owner[n] /\ hold'[n] = hold[n]
    BY <1>1, <1>2 DEF OwnersSound
  <2>2. CASE u # t
    <3>1. /\ has'[u][n] = has[u][n] /\ want'[u] = want[u]
          /\ Grant(k', want', u, n) <=> Grant(k, want, u, n)
      BY <1>4, <1>7, <1>8, <2>2
    <3> QED
      BY <2>1, <3>1
  <2>3. CASE u = t /\ n # m
    <3>1. /\ has'[u][n] = has[u][n] /\ want'[u] # n
          /\ ~Grant(k', want', u, n) /\ ~Grant(k, want, u, n)
      BY <1>2, <1>4, <1>6, <1>7, <1>8, <2>3
    <3> QED
      BY <2>1, <3>1
  <2>4. CASE u = t /\ n = m
    <3>1. /\ has'[u][n] = (IF Grant(k, want, u, n) THEN 1 ELSE 0) /\ want'[u] # n
          /\ ~Grant(k', want', u, n) /\ has[u][n] = 0
      BY <1>2, <1>3, <1>4, <1>6, <1>7, <1>8, <2>4
    <3> QED
      BY <2>1, <3>1
  <2> QED
    BY <2>2, <2>3, <2>4
<1>10. Ordered(k', raised')
  <2>1. Thinned(k, k')
    BY <1>1, ThinnedSame
  <2>2. \A n \in Mutexes : \A u \in Waiting(k, n) : u \in raised => u \in raised'
    BY <1>1, <1>3
  <2> QED
    BY <1>2, <2>1, <2>2, OrderThinned DEF MutexInv
<1>11. Inherits(k', owner', raised', lowered')
  BY <1>1, <1>3 DEF MutexInv, Inherits
<1>12. TypeOK'
  BY <1>1, <1>4, <1>8 DEF MutexInv, TypeOK
<1>13. FreeSound' /\ OriginalSound' /\ PriorityRestored'
  BY <1>1 DEF MutexInv, FreeSound, OriginalSound, PriorityRestored
<1> QED
  BY <1>1, <1>2, <1>5, <1>9, <1>10, <1>11, <1>12, <1>13 DEF MutexInv

\* Threads go out of the lists, or into none, and nothing else changes.
ListsOnly ==
  /\ Sane(k') /\ CallsSound' /\ Thinned(k, k') /\ k'.prio = k.prio
  /\ pc' \in [Thread -> {"run", "take", "wait", "sched", "woken"}]
  /\ \A t \in Thread, m \in Mutexes : Grant(k', want', t, m) <=> Grant(k, want, t, m)
  /\ UNCHANGED <<want, owner, hold, value, original, has, lending>>

LEMMA ListsOnlyStep ==
  ASSUME MutexInv, ListsOnly
  PROVE  MutexInv'
<1>1. /\ Sane(k) /\ Sane(k') /\ CallsSound' /\ Thinned(k, k') /\ k'.prio = k.prio
      /\ \A t \in Thread, m \in Mutexes : Grant(k', want', t, m) <=> Grant(k, want, t, m)
  BY DEF ListsOnly, MutexInv
<1>2. /\ want' = want /\ owner' = owner /\ hold' = hold /\ value' = value
      /\ original' = original /\ has' = has /\ lent' = lent /\ lowered' = lowered
      /\ raised' = raised
  BY DEF ListsOnly, lending
<1>3. TypeOK'
  BY <1>1, <1>2, SaneFields DEF MutexInv, TypeOK, ListsOnly
<1>4. OwnersSound'
  BY <1>1, <1>2 DEF MutexInv, OwnersSound
<1>5. FreeSound'
  <2>1. \A m \in Mutexes : Waiting(k', m) \subseteq Waiting(k, m)
    BY <1>1 DEF Thinned
  <2>2. \A m \in Mutexes : Waiting(k, m) = {} => Waiting(k', m) = {}
    BY <2>1
  <2> QED
    BY <1>2, <2>2 DEF MutexInv, FreeSound
<1>6. OriginalSound' /\ PriorityRestored'
  BY <1>1, <1>2 DEF MutexInv, OriginalSound, PriorityRestored
<1>7. Ordered(k', raised')
  BY <1>1, <1>2, OrderThinned DEF MutexInv
<1>8. Inherits(k', owner', raised', lowered')
  BY <1>1, <1>2 DEF MutexInv, Inherits, Thinned
<1> QED
  BY <1>1, <1>3, <1>4, <1>5, <1>6, <1>7, <1>8 DEF MutexInv

\* A timeout takes the thread out of the list before a release can find it
\* there: it is not the owner, and never was.
LEMMA TimeoutStep ==
  ASSUME MutexInv, NEW t \in Thread, TickTimeout(t)
  PROVE  MutexInv'
<1>1. /\ t \in k.tmr /\ k' = ThreadTimeout(k, t) /\ pc' = pc /\ want' = want
      /\ raised' = raised
      /\ UNCHANGED <<want, owner, hold, value, original, has, lending>>
  BY DEF TickTimeout, lending
<1>2. /\ Sane(k) /\ CallsSound /\ k.err \in [Thread -> Error] /\ NoThread \notin Mutexes
      /\ pc \in [Thread -> {"run", "take", "wait", "sched", "woken"}]
  BY KernelBefore, Constants DEF MutexInv, TypeOK
<1>3. /\ Sane(k') /\ k'.stat[k'.cur] = "RUNNING"
      /\ t \in Suspended(k) /\ Suspended(k') = Suspended(k) \ {t}
      /\ k'.prio = k.prio /\ k'.err = [k.err EXCEPT ![t] = "ETIMEOUT"]
      /\ k'.wait = [q \in Queue |-> RemoveFirst(k.wait[q], t)]
      /\ \A q \in Queue : Waiting(k', q) = Waiting(k, q) \ {t}
  BY <1>1, <1>2, TimeoutSane
<1>4. /\ \A m \in Mutexes : Waiting(k', m) = Waiting(k, m) \ {t}
      /\ k'.err[t] = "ETIMEOUT" /\ \A u \in Thread \ {t} : k'.err[u] = k.err[u]
  BY <1>2, <1>3, Constants
<1>5. Thinned(k, k')
  BY <1>2, <1>3, <1>4, ThinnedOut
<1>6. CallsSound'
  <2>1. \A m \in Mutexes : \A u \in Waiting(k', m) : want'[u] = m /\ k'.err[u] = "EOK"
    BY <1>1, <1>4, WaitedOwned
  <2>2. \A u \in Suspended(k') : pc'[u] = "woken" \/ \E m \in Mutexes : u \in Waiting(k', m)
    BY <1>1, <1>2, <1>3, <1>4 DEF CallsSound
  <2> QED
    BY <1>1, <1>2, <1>3, <2>1, <2>2 DEF CallsSound
<1>7. \A m \in Mutexes : ~Grant(k, want, t, m) /\ ~Grant(k', want', t, m)
  <2>1. CASE pc[t] = "woken"
    BY <1>2, <1>4, <2>1 DEF CallsSound, Grant
  <2>2. CASE \E n \in Mutexes : t \in Waiting(k, n)
    BY <1>4, <2>2, WaitedOwned DEF Grant
  <2> QED
    BY <1>2, <1>3, <2>1, <2>2 DEF CallsSound
<1>8. \A u \in Thread, m \in Mutexes : Grant(k', want', u, m) <=> Grant(k, want, u, m)
  BY <1>1, <1>4, <1>7 DEF Grant
<1>9. ListsOnly
  BY <1>1, <1>2, <1>3, <1>5, <1>6, <1>8 DEF ListsOnly
<1> QED
  BY <1>9, ListsOnlyStep

\* rt_thread_sleep, with or without mutexes in hand.
LEMMA SleepStep ==
  ASSUME MutexInv, NEW t \in Thread, Sleep(t)
  PROVE  MutexInv'
<1>1. /\ k.cur = t /\ t # Idle /\ pc[t] = "run" /\ pc' = [pc EXCEPT ![t] = "woken"]
      /\ k' = Schedule(StartTimer(SuspendThread(k, k.cur), k.cur))
      /\ want' = want /\ raised' = raised
      /\ UNCHANGED <<want, owner, hold, value, original, has, lending>>
  BY DEF Sleep, Caller, Goto, lending
<1>2. /\ Sane(k) /\ CallsSound /\ k.stat[k.cur] = "RUNNING" /\ want[t] = NoThread
      /\ pc \in [Thread -> {"run", "take", "wait", "sched", "woken"}]
  BY <1>1, CallerRuns DEF MutexInv, TypeOK
<1>3. /\ Sane(k') /\ k'.stat[k'.cur] = "RUNNING"
      /\ k'.wait = k.wait /\ k'.prio = k.prio /\ k'.err = k.err
      /\ Suspended(k') = Suspended(k) \cup {t}
  BY <1>1, <1>2, SleepSane
<1>4. /\ Thinned(k, k') /\ \A m \in Mutexes : Waiting(k', m) = Waiting(k, m)
  BY <1>3, ThinnedSame DEF Waiting
<1>5. /\ pc' \in [Thread -> {"run", "take", "wait", "sched", "woken"}]
      /\ pc'[t] = "woken" /\ \A u \in Thread \ {t} : pc'[u] = pc[u]
  BY <1>1, <1>2
<1>6. CallsSound'
  <2>1. \A u \in Suspended(k') : pc'[u] = "woken" \/ \E m \in Mutexes : u \in Waiting(k', m)
    BY <1>2, <1>3, <1>4, <1>5 DEF CallsSound, Suspended
  <2>2. \A u \in Thread : pc'[u] \in {"take", "wait"} <=> want'[u] # NoThread
    BY <1>1, <1>2, <1>5 DEF CallsSound
  <2>3. pc'[Idle] = "run"
    BY <1>1, <1>2, <1>5, Constants DEF CallsSound
  <2> QED
    BY <1>1, <1>2, <1>3, <1>4, <2>1, <2>2, <2>3 DEF CallsSound
<1>7. \A u \in Thread, m \in Mutexes : Grant(k', want', u, m) <=> Grant(k, want, u, m)
  BY <1>1, <1>3, <1>4 DEF Grant
<1>8. ListsOnly
  BY <1>1, <1>3, <1>4, <1>5, <1>6, <1>7 DEF ListsOnly
<1> QED
  BY <1>8, ListsOnlyStep

-----------------------------------------------------------------------------
(***************************************************************************)
(* rt_mutex_take of a mutex somebody else owns                             *)
(***************************************************************************)

\* y is x with a priority lent to thread o.
Lends(x, y, o, p, ra, ra2) ==
  /\ Sane(x) /\ Sane(y) /\ o \in Thread /\ p \in Prio /\ p <= x.prio[o]
  /\ y.wait = x.wait /\ y.prio = [x.prio EXCEPT ![o] = p]
  /\ ra \subseteq ra2
  /\ \A m \in Mutexes : o \in Waiting(x, m) => p = x.prio[o] \/ o \in ra2

\* A waiter that is lent a priority stands too far back, and is known for it.
LEMMA LendsOrder ==
  ASSUME NEW x, NEW y, NEW o, NEW p, NEW ra, NEW ra2, Lends(x, y, o, p, ra, ra2), Ordered(x, ra)
  PROVE  Ordered(y, ra2)
<1> SUFFICES ASSUME NEW m \in Mutexes, NEW a \in Thread, NEW b \in Thread,
                    Precedes(y.wait[m], a, b)
             PROVE  y.prio[a] <= y.prio[b] \/ b \in ra2
  BY DEF Ordered
<1>1. Precedes(x.wait[m], a, b) /\ Sane(x)
  BY DEF Lends
<1>2. a \in Waiting(x, m) /\ b \in Waiting(x, m)
  BY <1>1, PrecedesIn
<1>3. x.prio[a] <= x.prio[b] \/ b \in ra
  BY <1>1 DEF Ordered
<1>4. /\ x.prio \in [Thread -> Prio] /\ x.prio[a] \in Int /\ x.prio[b] \in Int /\ p \in Int
  <2>1. x.prio \in [Thread -> Prio] /\ p \in Prio
    BY <1>1, KernelBefore DEF Lends
  <2> QED
    BY <2>1, Constants
<1> QED
  BY <1>2, <1>3, <1>4 DEF Lends

\* And an owner that is lent a priority is as urgent as it was, or more.
LEMMA LendsInherits ==
  ASSUME NEW x, NEW y, NEW o, NEW p, NEW ra, NEW ra2, Lends(x, y, o, p, ra, ra2),
         NEW ow, NEW lo, Inherits(x, ow, ra, lo),
         \A m \in Mutexes : Waiting(x, m) # {} => ow[m] \in Thread
  PROVE  Inherits(y, ow, ra2, lo)
<1> SUFFICES ASSUME NEW m \in Mutexes, NEW u \in Waiting(y, m)
             PROVE  y.prio[ow[m]] <= y.prio[u] \/ u \in ra2 \/ ow[m] \in lo
  BY DEF Inherits
<1>1. u \in Waiting(x, m) /\ Sane(x)
  BY DEF Lends, Waiting
<1>2. x.prio[ow[m]] <= x.prio[u] \/ u \in ra \/ ow[m] \in lo
  BY <1>1 DEF Inherits
<1>3. /\ x.prio \in [Thread -> Prio] /\ u \in Thread /\ ow[m] \in Thread
      /\ Prio \subseteq Int
  BY <1>1, KernelBefore, Constants
<1>4. x.prio[u] \in Int /\ x.prio[ow[m]] \in Int /\ p \in Int
  BY <1>3 DEF Lends
<1> QED
  BY <1>1, <1>2, <1>3, <1>4 DEF Lends

\* The new waiter stands where its priority belongs.
LEMMA OrderInserted ==
  ASSUME NEW y, Sane(y), NEW ra, Ordered(y, ra), NEW m \in Mutexes, NEW t \in Thread, NEW r,
         r.prio = y.prio,
         r.wait = [y.wait EXCEPT ![m] = InsertAt(y.wait[m], UrgentPlace(y.wait[m], y.prio, t), t)]
  PROVE  Ordered(r, ra)
<1> DEFINE list == y.wait[m]
           n == UrgentPlace(list, y.prio, t)
<1>1. /\ list \in Seq(Thread) /\ y.prio \in [Thread -> Prio] /\ y.wait \in [Mutexes -> Seq(Thread)]
  BY KernelBefore, SaneFields, Constants
<1>2. /\ n \in 1 .. Len(list) + 1
      /\ \A i \in 1 .. Len(list) : i < n => y.prio[list[i]] <= y.prio[t]
      /\ n \in 1 .. Len(list) => y.prio[t] < y.prio[list[n]]
  BY <1>1, UrgentPlaceIs
<1>3. /\ Len(list) \in Nat /\ DOMAIN list = 1 .. Len(list)
      /\ \A i \in 1 .. Len(list) : list[i] \in Thread /\ y.prio[list[i]] \in Int
      /\ y.prio[t] \in Int
  <2>1. y.prio \in [Thread -> Int]
    BY <1>1, Constants
  <2> HIDE DEF list
  <2> QED
    BY <1>1, <2>1
<1>4. r.wait[m] = InsertAt(list, n, t) /\ \A z \in Mutexes \ {m} : r.wait[z] = y.wait[z]
  BY <1>1
<1> HIDE DEF n, list
<1> SUFFICES ASSUME NEW z \in Mutexes, NEW a \in Thread, NEW b \in Thread,
                    Precedes(r.wait[z], a, b)
             PROVE  y.prio[a] <= y.prio[b] \/ b \in ra
  BY DEF Ordered
<1>5. CASE Precedes(y.wait[z], a, b)
  BY <1>5 DEF Ordered
<1>6. CASE z = m /\ b = t /\ \E i \in 1 .. Len(list) : i < n /\ list[i] = a
  BY <1>2, <1>6
<1>7. CASE z = m /\ a = t /\ \E i \in 1 .. Len(list) : n <= i /\ list[i] = b
  <2>1. PICK i \in 1 .. Len(list) : n <= i /\ list[i] = b
    BY <1>7
  <2>2. n \in 1 .. Len(list) /\ y.prio[t] < y.prio[list[n]]
    BY <1>2, <1>3, <2>1
  <2>3. CASE n = i
    BY <1>3, <1>7, <2>1, <2>2, <2>3
  <2>4. CASE n # i
    <3>1. n < i
      BY <1>3, <2>1, <2>2, <2>4
    <3>2. Precedes(y.wait[m], list[n], b)
      BY <1>3, <2>1, <2>2, <3>1 DEF Precedes, list
    <3>3. y.prio[list[n]] <= y.prio[b] \/ b \in ra
      BY <1>3, <2>2, <3>2 DEF Ordered
    <3> QED
      BY <1>3, <1>7, <2>1, <2>2, <3>3
  <2> QED
    BY <2>3, <2>4
<1> QED
  <2>1. CASE z # m
    BY <1>4, <1>5, <2>1
  <2>2. CASE z = m
    <3>1. Precedes(InsertAt(list, n, t), a, b)
      BY <1>4, <2>2
    <3>2. \/ Precedes(list, a, b)
          \/ b = t /\ \E i \in 1 .. Len(list) : i < n /\ list[i] = a
          \/ a = t /\ \E i \in 1 .. Len(list) : n <= i /\ list[i] = b
      BY <1>1, <1>2, <3>1, InsertAtPrecedes
    <3> QED
      BY <1>5, <1>6, <1>7, <2>2, <3>2 DEF list
  <2> QED
    BY <2>1, <2>2

\* _ipc_list_suspend by the current thread.
LEMMA SuspendedIn ==
  ASSUME NEW y, Sane(y), y.stat[y.cur] = "RUNNING", y.cur # Idle, NEW m \in Mutexes,
         NEW timed \in BOOLEAN
  PROVE  LET r == IpcSuspend(y, m, y.cur, timed)
         IN  /\ Sane(r) /\ QueuedAt(y, r, m, UrgentPlace(y.wait[m], y.prio, y.cur))
<1> DEFINE t == y.cur
           n == WaitPosition(y, y.wait[m], t)
           r == QueueAt(y, m, t, n, timed)
<1>1. /\ t \in Thread /\ m \in Queue /\ y.wait[m] \in Seq(Thread)
      /\ y.prio \in [Thread -> Prio]
  BY KernelBefore, Constants
<1>2. n = UrgentPlace(y.wait[m], y.prio, t)
  BY Constants DEF WaitPosition, UrgentPlace
<1>3. n \in 1 .. Len(y.wait[m]) + 1
  BY <1>1, <1>2, UrgentPlaceIs
<1>4. SuspendFor(y, t).wait = y.wait /\ Sane(r) /\ QueuedAt(y, r, m, n)
  <2> HIDE DEF n
  <2> QED
    BY <1>1, <1>3, QueueSane
<1>5. IpcSuspend(y, m, t, timed) = r
  BY <1>4 DEF IpcSuspend, QueueAt, Enqueue, SuspendFor
<1> HIDE DEF r, n
<1> QED
  BY <1>2, <1>4, <1>5

\* `change the owner thread priority'.
LEMMA InheritLends ==
  ASSUME MutexInv, NEW m \in Mutexes, NEW t \in Thread, owner[m] \in Thread
  PROVE  LET o == owner[m]
             y == Inherit(k, m, t)
             p == IF k.prio[t] < k.prio[o] THEN k.prio[t] ELSE k.prio[o]
             ra2 == IF k.prio[t] < k.prio[o] /\ want[o] # NoThread
                    THEN raised \cup {o} ELSE raised
         IN  /\ Lends(k, y, o, p, raised, ra2)
             /\ y.cur = k.cur /\ y.stat = k.stat /\ y.err = k.err
             /\ Suspended(y) = Suspended(k)
<1> DEFINE o == owner[m]
           y == Inherit(k, m, t)
           p == IF k.prio[t] < k.prio[o] THEN k.prio[t] ELSE k.prio[o]
           ra2 == IF k.prio[t] < k.prio[o] /\ want[o] # NoThread
                  THEN raised \cup {o} ELSE raised
<1>1. /\ Sane(k) /\ k.prio \in [Thread -> Prio] /\ k.prio[t] \in Prio /\ k.prio[o] \in Prio
      /\ Prio \subseteq Int
  BY KernelBefore, Constants DEF MutexInv
<1>2. p \in Prio /\ p <= k.prio[o]
  <2>1. k.prio[t] \in Int /\ k.prio[o] \in Int
    BY <1>1
  <2> QED
    BY <1>1, <2>1
<1>3. /\ Sane(y) /\ y.cur = k.cur /\ y.wait = k.wait /\ y.stat = k.stat
      /\ y.err = k.err /\ Suspended(y) = Suspended(k)
      /\ y.prio = [k.prio EXCEPT ![o] = p]
  <2>1. CASE k.prio[t] < k.prio[o]
    <3>1. y = ChangePriority(k, o, p)
      BY <2>1 DEF Inherit
    <3> HIDE DEF y, p, o
    <3> QED
      BY <1>1, <1>2, <3>1, PrioritySane DEF o
  <2>2. CASE ~(k.prio[t] < k.prio[o])
    <3>1. y = k /\ p = k.prio[o]
      BY <2>2 DEF Inherit
    <3> QED
      BY <1>1, <3>1
  <2> QED
    BY <2>1, <2>2
<1>4. \A n \in Mutexes : o \in Waiting(k, n) => p = k.prio[o] \/ o \in ra2
  BY WaitedOwned, Constants
<1>5. Lends(k, y, o, p, raised, ra2)
  <2> HIDE DEF y, p
  <2> QED
    BY <1>1, <1>2, <1>3, <1>4 DEF Lends
<1> QED
  BY <1>3, <1>5

LEMMA TakeSuspendStep ==
  ASSUME MutexInv, NEW t \in Thread, NEW m \in Mutexes, NEW call, TakeSuspend(t, m, call)
  PROVE  MutexInv'
<1> DEFINE o == owner[m]
           y == Inherit(k, m, t)
           p == IF k.prio[t] < k.prio[o] THEN k.prio[t] ELSE k.prio[o]
<1>1. /\ k.cur = t /\ t # Idle /\ pc[t] = "run" /\ o # t /\ value[m] = 0
      /\ k' = IpcSuspend(y, m, t, call = "timed")
      /\ want' = [want EXCEPT ![t] = m] /\ pc' = [pc EXCEPT ![t] = "take"]
      /\ raised' = IF k.prio[t] < k.prio[o] /\ want[o] # NoThread
                   THEN raised \cup {o} ELSE raised
      /\ owner' = owner /\ hold' = hold /\ value' = value /\ original' = original
      /\ has' = has /\ lent' = lent /\ lowered' = lowered
  BY DEF TakeSuspend, Caller, Goto
<1>2. /\ Sane(k) /\ CallsSound /\ OwnersSound /\ FreeSound
      /\ pc \in [Thread -> {"run", "take", "wait", "sched", "woken"}]
      /\ want \in [Thread -> Mutexes \cup {NoThread}]
      /\ has \in [Thread -> [Mutexes -> 0 .. MaxHold]] /\ raised \subseteq Thread
      /\ k.stat[t] = "RUNNING" /\ want[t] = NoThread /\ t \notin Suspended(k)
      /\ \A n \in Mutexes : t \notin Waiting(k, n)
      /\ NoThread \notin Mutexes
  BY <1>1, CallerRuns, Constants DEF MutexInv, TypeOK
<1>3. o \in Thread
  <2>1. value[m] # 1 /\ o \in Thread \cup {NoThread}
    BY <1>1 DEF MutexInv, TypeOK
  <2> QED
    BY <1>2, <2>1 DEF FreeSound
<1>4. /\ Lends(k, y, o, p, raised, raised')
      /\ y.cur = k.cur /\ y.stat = k.stat /\ y.err = k.err /\ Suspended(y) = Suspended(k)
  BY <1>1, <1>3, InheritLends
<1> HIDE DEF y, p
<1>5. /\ Sane(y) /\ y.wait = k.wait /\ y.prio = [k.prio EXCEPT ![o] = p]
      /\ p \in Prio /\ raised \subseteq raised'
  BY <1>4 DEF Lends
<1>6. Sane(k') /\ QueuedAt(y, k', m, UrgentPlace(y.wait[m], y.prio, t))
  <2>1. y.cur = t /\ y.stat[y.cur] = "RUNNING" /\ (call = "timed") \in BOOLEAN
    BY <1>1, <1>2, <1>4
  <2> QED
    BY <1>1, <1>5, <2>1, SuspendedIn
<1>7. /\ k'.cur = t /\ k'.prio = y.prio /\ k'.stat[t] = "SUSPEND"
      /\ Suspended(k') = Suspended(k) \cup {t}
      /\ k'.err = [k.err EXCEPT ![t] = "EOK"]
      /\ k'.wait = [y.wait EXCEPT ![m] = InsertAt(y.wait[m], UrgentPlace(y.wait[m], y.prio, t), t)]
      /\ Waiting(k', m) = Waiting(k, m) \cup {t}
      /\ \A n \in Mutexes \ {m} : Waiting(k', n) = Waiting(k, n)
  <2>1. \A n \in Mutexes : Waiting(y, n) = Waiting(k, n)
    BY <1>5 DEF Waiting
  <2> QED
    BY <1>1, <1>4, <1>6, <2>1, Constants DEF QueuedAt
<1>8. /\ k'.err[t] = "EOK" /\ \A u \in Thread \ {t} : k'.err[u] = k.err[u]
  BY <1>2, <1>7, KernelBefore
<1>9. /\ pc' \in [Thread -> {"run", "take", "wait", "sched", "woken"}]
      /\ want' \in [Thread -> Mutexes \cup {NoThread}]
      /\ pc'[t] = "take" /\ want'[t] = m
      /\ \A u \in Thread \ {t} : pc'[u] = pc[u] /\ want'[u] = want[u]
  BY <1>1, <1>2
<1>10. CallsSound'
  <2>1. \A n \in Mutexes : \A u \in Waiting(k', n) : want'[u] = n /\ k'.err[u] = "EOK"
    BY <1>2, <1>7, <1>8, <1>9, WaitedOwned
  <2>2. \A u \in Suspended(k') : pc'[u] = "woken" \/ \E n \in Mutexes : u \in Waiting(k', n)
    <3>1. ASSUME NEW u \in Suspended(k), u # t
          PROVE  pc'[u] = "woken" \/ \E n \in Mutexes : u \in Waiting(k', n)
      <4>1. u \in Thread /\ (pc[u] = "woken" \/ \E n \in Mutexes : u \in Waiting(k, n))
        BY <1>2, <3>1 DEF CallsSound, Suspended
      <4> QED
        BY <1>7, <1>9, <3>1, <4>1
    <3> QED
      BY <1>7, <3>1
  <2>3. \A u \in Thread : pc'[u] \in {"take", "wait"} <=> want'[u] # NoThread
    BY <1>2, <1>9 DEF CallsSound
  <2>4. \A u \in raised' : want'[u] # NoThread
    BY <1>1, <1>2, <1>3, <1>9 DEF CallsSound
  <2>5. pc'[Idle] = "run"
    BY <1>1, <1>2, <1>9, Constants DEF CallsSound
  <2> QED
    BY <1>7, <1>9, <2>1, <2>2, <2>3, <2>4, <2>5 DEF CallsSound
<1>11. OwnersSound'
  <2>1. \A n \in Mutexes : ~Grant(k, want, t, n) /\ ~Grant(k', want', t, n)
    BY <1>2, <1>7, <1>9 DEF Grant
  <2>2. \A u \in Thread, n \in Mutexes : Grant(k', want', u, n) <=> Grant(k, want, u, n)
    BY <1>7, <1>8, <1>9, <2>1 DEF Grant
  <2>3. has[t][m] = 0
    BY <1>1, <1>2 DEF OwnersSound
  <2>4. \A u \in Thread, n \in Mutexes : want'[u] = n => has[u][n] = 0
    BY <1>2, <1>9, <2>3 DEF OwnersSound
  <2> SUFFICES ASSUME NEW n \in Mutexes, NEW u \in Thread
               PROVE  /\ has'[u][n] > 0 => owner'[n] = u /\ hold'[n] = has'[u][n]
                      /\ owner'[n] = u /\ has'[u][n] = 0 => Grant(k', want', u, n) /\ hold'[n] = 1
                      /\ Grant(k', want', u, n) => owner'[n] = u
                      /\ want'[u] = n => has'[u][n] = 0
    BY DEF OwnersSound
  <2>5. /\ has[u][n] > 0 => owner[n] = u /\ hold[n] = has[u][n]
        /\ owner[n] = u /\ has[u][n] = 0 => Grant(k, want, u, n) /\ hold[n] = 1
        /\ Grant(k, want, u, n) => owner[n] = u
    BY <1>2 DEF OwnersSound
  <2> QED
    BY <1>1, <2>2, <2>4, <2>5
<1>12. FreeSound'
  <2>1. owner[m] # NoThread
    BY <1>3, Constants
  <2> QED
    BY <1>1, <1>2, <1>7, <2>1 DEF FreeSound
<1>13. Ordered(k', raised')
  <2>1. Ordered(y, raised')
    BY <1>4, LendsOrder DEF MutexInv
  <2> QED
    BY <1>5, <1>7, <2>1, OrderInserted
<1>14. Inherits(k', owner', raised', lowered')
  <2>1. Inherits(y, owner, raised', lowered)
    BY <1>4, LendsInherits, WaitedOwned DEF MutexInv
  <2>2. y.prio[o] <= y.prio[t]
    <3>1. k.prio \in [Thread -> Prio] /\ Prio \subseteq Int
      BY <1>2, KernelBefore, Constants
    <3>2. y.prio[o] = p /\ y.prio[t] = k.prio[t] /\ k.prio[o] \in Int /\ k.prio[t] \in Int
      BY <1>1, <1>3, <1>5, <3>1
    <3> QED
      BY <3>2 DEF p
  <2>3. ASSUME NEW n \in Mutexes, NEW u \in Waiting(k', n)
        PROVE  y.prio[owner[n]] <= y.prio[u] \/ u \in raised' \/ owner[n] \in lowered
    <3>1. CASE u = t /\ n = m
      BY <2>2, <3>1
    <3>2. CASE ~(u = t /\ n = m)
      <4>1. u \in Waiting(k, n)
        BY <1>7, <2>3, <3>2
      <4>2. u \in Waiting(y, n)
        BY <1>5, <4>1 DEF Waiting
      <4> QED
        BY <2>1, <4>2 DEF Inherits
    <3> QED
      BY <3>1, <3>2
  <2> QED
    BY <1>1, <1>7, <2>3 DEF Inherits
<1>15. TypeOK'
  <2>1. raised' \subseteq Thread /\ k' \in KernelType
    BY <1>1, <1>2, <1>3, <1>6, SaneFields
  <2> QED
    BY <1>1, <1>9, <2>1 DEF MutexInv, TypeOK
<1>16. OriginalSound'
  BY <1>1 DEF MutexInv, OriginalSound
<1>17. PriorityRestored'
  <2> SUFFICES ASSUME NEW u \in Thread, \A n \in Mutexes : owner[n] # u
               PROVE  k'.prio[u] = InitPrio[u] \/ u \in lent
    BY <1>1 DEF PriorityRestored
  <2>1. u # o /\ k.prio \in [Thread -> Prio]
    BY <1>2, KernelBefore
  <2>2. k'.prio[u] = k.prio[u]
    BY <1>5, <1>7, <2>1
  <2> QED
    BY <2>2 DEF MutexInv, PriorityRestored
<1> QED
  BY <1>6, <1>10, <1>11, <1>12, <1>13, <1>14, <1>15, <1>16, <1>17 DEF MutexInv

-----------------------------------------------------------------------------
(***************************************************************************)
(* The last rt_mutex_release                                               *)
(***************************************************************************)

\* Thread t, which has the processor, releases m for the last time.
Releases(t, m) ==
  /\ k.cur = t /\ t # Idle /\ pc[t] = "run" /\ owner[m] = t /\ hold[m] = 1

LEMMA RestoreGives ==
  ASSUME MutexInv, NEW t \in Thread, NEW m \in Mutexes, Releases(t, m)
  PROVE  LET y == Restore(k, m)
         IN  /\ Sane(y) /\ y.cur = k.cur /\ y.wait = k.wait /\ y.stat = k.stat
             /\ y.err = k.err /\ Suspended(y) = Suspended(k)
             /\ original[m] \in Prio /\ y.prio = [k.prio EXCEPT ![t] = original[m]]
<1> DEFINE y == Restore(k, m)
<1>1. /\ Sane(k) /\ k.prio \in [Thread -> Prio] /\ owner[m] = t
  BY KernelBefore DEF MutexInv, Releases
<1>2. original[m] \in Prio
  <2>1. owner[m] # NoThread /\ original[m] \in Prio \cup {NoPrio}
    BY <1>1, Constants DEF MutexInv, TypeOK
  <2> QED
    BY <2>1 DEF MutexInv, FreeSound
<1>3. CASE original[m] # k.prio[t]
  <2>1. y = ChangePriority(k, t, original[m])
    BY <1>1, <1>3 DEF Restore
  <2> HIDE DEF y
  <2>2. /\ Sane(y) /\ y.cur = k.cur /\ y.wait = k.wait /\ y.stat = k.stat
        /\ y.err = k.err /\ Suspended(y) = Suspended(k)
        /\ y.prio = [k.prio EXCEPT ![t] = original[m]]
    BY <1>1, <1>2, <2>1, PrioritySane
  <2> QED
    BY <1>2, <2>2 DEF y
<1>4. CASE original[m] = k.prio[t]
  <2>1. y = k /\ k.prio = [k.prio EXCEPT ![t] = original[m]]
    BY <1>1, <1>4 DEF Restore
  <2> QED
    BY <1>1, <1>2, <2>1
<1> QED
  BY <1>3, <1>4

\* Who is known as lowered afterwards.
LEMMA LoweredGives ==
  ASSUME MutexInv, NEW t \in Thread, NEW m \in Mutexes, Releases(t, m)
  PROVE  /\ Lowered(t, m) \subseteq Thread
         /\ \A u \in lowered : u # t => u \in Lowered(t, m)
         /\ \A n \in Mutexes \ {m} : owner[n] = t =>
              /\ t \in lowered => t \in Lowered(t, m)
              /\ t \in Lowered(t, m) \/ original[m] <= k.prio[t]
<1> DEFINE y == Restore(k, m)
<1>1. original[m] \in Prio /\ y.prio = [k.prio EXCEPT ![t] = original[m]]
  BY RestoreGives
<1>2. k.prio \in [Thread -> Prio] /\ Prio \subseteq Int /\ lowered \subseteq Thread
  BY KernelBefore, Constants DEF MutexInv, TypeOK
<1>3. y.prio[t] = original[m] /\ original[m] \in Int /\ k.prio[t] \in Int
  BY <1>1, <1>2
<1>4. /\ (\A n \in Mutexes \ {m} : owner[n] # t) => Lowered(t, m) = lowered \ {t}
      /\ ~(\A n \in Mutexes \ {m} : owner[n] # t) =>
           Lowered(t, m) = IF y.prio[t] > k.prio[t] THEN lowered \cup {t} ELSE lowered
  BY DEF Lowered
<1> HIDE DEF y
<1> QED
  BY <1>2, <1>3, <1>4

\* The waiters of the other mutexes keep what they lent, or the thread is known
\* as lowered; the new owner of m, if there is one, is urgent enough for its own.
LEMMA ReleaseInherits ==
  ASSUME MutexInv, NEW t \in Thread, NEW m \in Mutexes, Releases(t, m), NEW r, Sane(r),
         Thinned(k, r), r.prio = [k.prio EXCEPT ![t] = original[m]], NEW ow2,
         \A n \in Mutexes \ {m} : ow2[n] = owner[n],
         \A u \in Waiting(r, m) : r.prio[ow2[m]] <= r.prio[u] \/ u \in raised
  PROVE  Inherits(r, ow2, raised, Lowered(t, m))
<1>1. /\ Sane(k) /\ k.prio \in [Thread -> Prio] /\ Inherits(k, owner, raised, lowered)
      /\ \A n \in Mutexes : Waiting(k, n) # {} => owner[n] \in Thread
      /\ original[m] \in Prio /\ Prio \subseteq Int /\ lowered \subseteq Thread
  BY KernelBefore, WaitedOwned, RestoreGives, Constants DEF MutexInv, TypeOK
<1>2. ASSUME NEW n \in Mutexes, Waiting(r, n) # {}, n # m
      PROVE  StillLent(k, r, owner, ow2, lowered, Lowered(t, m), n)
  <2>1. owner[n] \in Thread /\ ow2[n] = owner[n]
    BY <1>1, <1>2 DEF Thinned
  <2>2. CASE owner[n] # t
    <3>1. r.prio[owner[n]] = k.prio[owner[n]]
      BY <1>1, <2>1, <2>2
    <3>2. owner[n] \in lowered => owner[n] \in Lowered(t, m)
      BY <2>2, LoweredGives
    <3> QED
      BY <2>1, <3>1, <3>2 DEF StillLent
  <2>3. CASE owner[n] = t
    <3>1. /\ t \in lowered => t \in Lowered(t, m)
          /\ t \in Lowered(t, m) \/ original[m] <= k.prio[t]
      BY <1>2, <2>3, LoweredGives
    <3>2. r.prio[t] = original[m] /\ original[m] \in Int /\ k.prio[t] \in Int
      BY <1>1
    <3> QED
      BY <2>1, <2>3, <3>1, <3>2 DEF StillLent
  <2> QED
    BY <2>2, <2>3
<1>3. \A n \in Mutexes : Waiting(r, n) # {} =>
        \/ StillLent(k, r, owner, ow2, lowered, Lowered(t, m), n)
        \/ \A u \in Waiting(r, n) : r.prio[ow2[n]] <= r.prio[u] \/ u \in raised
  BY <1>2
<1> QED
  BY <1>1, <1>3, InheritThinned

\* The thread falls back to its own priority, or has long been known as lent.
LEMMA ReleasePriority ==
  ASSUME MutexInv, NEW t \in Thread, NEW m \in Mutexes, Releases(t, m),
         k'.prio = [k.prio EXCEPT ![t] = original[m]],
         \A n \in Mutexes \ {m} : owner'[n] = owner[n], lent \subseteq lent'
  PROVE  PriorityRestored'
<1> SUFFICES ASSUME NEW u \in Thread, \A n \in Mutexes : owner'[n] # u
             PROVE  k'.prio[u] = InitPrio[u] \/ u \in lent'
  BY DEF PriorityRestored
<1>1. k.prio \in [Thread -> Prio] /\ owner[m] = t
  BY KernelBefore DEF MutexInv, Releases
<1>2. CASE u = t
  <2>1. k'.prio[u] = original[m]
    BY <1>1, <1>2
  <2>2. t \notin lent => original[m] = InitPrio[t]
    BY <1>1 DEF MutexInv, OriginalSound
  <2> QED
    BY <1>2, <2>1, <2>2
<1>3. CASE u # t
  <2>1. k'.prio[u] = k.prio[u] /\ \A n \in Mutexes : owner[n] # u
    BY <1>1, <1>3
  <2> QED
    BY <2>1 DEF MutexInv, PriorityRestored
<1> QED
  BY <1>2, <1>3

\* The count of the thread that releases; nobody else has the mutex.
LEMMA ReleaseCounts ==
  ASSUME MutexInv, NEW t \in Thread, NEW m \in Mutexes, Releases(t, m),
         has' = [has EXCEPT ![t][m] = has[t][m] - 1]
  PROVE  /\ has' \in [Thread -> [Mutexes -> 0 .. MaxHold]]
         /\ \A u \in Thread : has'[u][m] = 0 /\ ~Grant(k, want, u, m)
         /\ \A u \in Thread, n \in Mutexes : n # m => has'[u][n] = has[u][n]
<1>1. /\ has \in [Thread -> [Mutexes -> 0 .. MaxHold]] /\ owner[m] = t
      /\ has[t][m] > 0 /\ hold[m] = has[t][m] /\ hold[m] = 1 /\ MaxHold \in Nat
      /\ ~Grant(k, want, t, m)
  BY CallerRuns, Constants DEF MutexInv, TypeOK, Releases
<1>2. ASSUME NEW u \in Thread, u # t
      PROVE  has[u][m] = 0 /\ ~Grant(k, want, u, m)
  <2>1. ~(has[u][m] > 0) /\ ~Grant(k, want, u, m)
    BY <1>1, <1>2 DEF MutexInv, OwnersSound
  <2>2. has[u][m] \in Nat
    BY <1>1
  <2> QED
    BY <2>1, <2>2
<1>3. /\ has' \in [Thread -> [Mutexes -> 0 .. MaxHold]] /\ has'[t][m] = 0
      /\ \A u \in Thread, n \in Mutexes : u # t \/ n # m => has'[u][n] = has[u][n]
  BY <1>1
<1> QED
  BY <1>1, <1>2, <1>3

\* Nobody waits: the mutex is as rt_mutex_init left it.
LEMMA ReleaseFreeStep ==
  ASSUME MutexInv, NEW t \in Thread, NEW m \in Mutexes, ReleaseFree(t, m)
  PROVE  MutexInv'
<1>1. /\ Releases(t, m) /\ k.wait[m] = << >> /\ k' = Restore(k, m)
      /\ value' = [value EXCEPT ![m] = value[m] + 1] /\ owner' = [owner EXCEPT ![m] = NoThread]
      /\ original' = [original EXCEPT ![m] = NoPrio] /\ hold' = [hold EXCEPT ![m] = 0]
      /\ has' = [has EXCEPT ![t][m] = has[t][m] - 1] /\ lowered' = Lowered(t, m)
      /\ pc' = pc /\ want' = want /\ lent' = lent /\ raised' = raised
  BY DEF ReleaseFree, Caller, Releases
<1>2. /\ Sane(k) /\ CallsSound /\ OwnersSound /\ FreeSound
      /\ owner \in [Mutexes -> Thread \cup {NoThread}] /\ value \in [Mutexes -> 0 .. 1]
      /\ hold \in [Mutexes -> 0 .. MaxHold] /\ original \in [Mutexes -> Prio \cup {NoPrio}]
      /\ MaxHold \in Nat /\ k.prio \in [Thread -> Prio] /\ owner[m] = t /\ pc[t] = "run"
      /\ k.cur = t /\ k.stat[t] = "RUNNING"
      /\ \A n \in Mutexes : t \notin Waiting(k, n)
  BY <1>1, CallerRuns, KernelBefore, Constants DEF MutexInv, TypeOK, Releases
<1>3. /\ Sane(k') /\ k'.cur = k.cur /\ k'.wait = k.wait /\ k'.stat = k.stat
      /\ k'.err = k.err /\ Suspended(k') = Suspended(k)
      /\ k'.prio = [k.prio EXCEPT ![t] = original[m]]
  BY <1>1, RestoreGives
<1>4. /\ Waiting(k, m) = {} /\ \A n \in Mutexes : Waiting(k', n) = Waiting(k, n)
  BY <1>1, <1>2, <1>3, KernelBefore DEF Waiting
<1>5. value[m] = 0
  <2>1. value[m] \in 0 .. 1 /\ value[m] # 1
    BY <1>2, Constants DEF FreeSound
  <2> QED
    BY <2>1
<1>6. /\ value' \in [Mutexes -> 0 .. 1] /\ value'[m] = 1
      /\ owner' \in [Mutexes -> Thread \cup {NoThread}] /\ owner'[m] = NoThread
      /\ original' \in [Mutexes -> Prio \cup {NoPrio}] /\ original'[m] = NoPrio
      /\ hold' \in [Mutexes -> 0 .. MaxHold] /\ hold'[m] = 0
      /\ \A n \in Mutexes \ {m} : /\ value'[n] = value[n] /\ owner'[n] = owner[n]
                                  /\ original'[n] = original[n] /\ hold'[n] = hold[n]
  BY <1>1, <1>2, <1>5
<1>7. /\ has' \in [Thread -> [Mutexes -> 0 .. MaxHold]]
      /\ \A u \in Thread : has'[u][m] = 0 /\ ~Grant(k, want, u, m)
      /\ \A u \in Thread, n \in Mutexes : n # m => has'[u][n] = has[u][n]
  BY <1>1, ReleaseCounts, ZenonT(60)
<1>8. \A u \in Thread, n \in Mutexes : Grant(k', want', u, n) <=> Grant(k, want, u, n)
  BY <1>1, <1>3, <1>4 DEF Grant
<1>9. CallsSound'
  BY <1>1, <1>2, <1>3, <1>4 DEF CallsSound
<1>10. OwnersSound'
  <2> SUFFICES ASSUME NEW n \in Mutexes, NEW u \in Thread
               PROVE  /\ has'[u][n] > 0 => owner'[n] = u /\ hold'[n] = has'[u][n]
                      /\ owner'[n] = u /\ has'[u][n] = 0 => Grant(k', want', u, n) /\ hold'[n] = 1
                      /\ Grant(k', want', u, n) => owner'[n] = u
                      /\ want'[u] = n => has'[u][n] = 0
    BY DEF OwnersSound
  <2>1. CASE n = m
    BY <1>6, <1>7, <1>8, <2>1, Constants
  <2>2. CASE n # m
    BY <1>1, <1>2, <1>6, <1>7, <1>8, <2>2 DEF OwnersSound
  <2> QED
    BY <2>1, <2>2
<1>11. FreeSound'
  BY <1>2, <1>4, <1>6 DEF FreeSound
<1>12. Thinned(k, k')
  <2>1. \A n \in Mutexes : \A u \in Waiting(k, n) : k'.prio[u] = k.prio[u]
    BY <1>2, <1>3, WaitedOwned
  <2> QED
    BY <1>3, <1>4, <2>1 DEF Thinned
<1>13. Ordered(k', raised')
  BY <1>1, <1>2, <1>12, OrderThinned DEF MutexInv
<1>14. Inherits(k', owner', raised', lowered')
  BY <1>1, <1>3, <1>4, <1>6, <1>12, ReleaseInherits
<1>15. TypeOK'
  <2>1. lowered' \subseteq Thread /\ k' \in KernelType
    BY <1>1, <1>3, LoweredGives, SaneFields
  <2> QED
    BY <1>1, <1>6, <1>7, <2>1 DEF MutexInv, TypeOK
<1>16. OriginalSound'
  BY <1>1, <1>6, Constants DEF MutexInv, OriginalSound
<1>17. PriorityRestored'
  BY <1>1, <1>3, <1>6, ReleasePriority
<1> QED
  BY <1>3, <1>9, <1>10, <1>11, <1>13, <1>14, <1>15, <1>16, <1>17 DEF MutexInv

\* The first waiter is the owner before it runs.
LEMMA HandOverStep ==
  ASSUME MutexInv, NEW t \in Thread, NEW m \in Mutexes, ReleaseHandOver(t, m)
  PROVE  MutexInv'
<1> DEFINE h == Head(k.wait[m])
           y == Restore(k, m)
<1>1. /\ Releases(t, m) /\ k.wait[m] # << >> /\ k' = IpcResume(y, m)
      /\ owner' = [owner EXCEPT ![m] = h] /\ original' = [original EXCEPT ![m] = k.prio[h]]
      /\ has' = [has EXCEPT ![t][m] = has[t][m] - 1]
      /\ pc' = [pc EXCEPT ![t] = "sched"] /\ lent' = Lent(h) /\ lowered' = Lowered(t, m)
      /\ want' = want /\ hold' = hold /\ value' = value /\ raised' = raised
  BY DEF ReleaseHandOver, Caller, Releases, Goto
<1>2. /\ Sane(k) /\ CallsSound /\ OwnersSound /\ FreeSound
      /\ owner \in [Mutexes -> Thread \cup {NoThread}]
      /\ original \in [Mutexes -> Prio \cup {NoPrio}] /\ lent \subseteq Thread
      /\ pc \in [Thread -> {"run", "take", "wait", "sched", "woken"}]
      /\ k.prio \in [Thread -> Prio] /\ owner[m] = t /\ pc[t] = "run" /\ hold[m] = 1
      /\ k.cur = t /\ t # Idle /\ k.stat[t] = "RUNNING" /\ want[t] = NoThread
      /\ t \notin Suspended(k) /\ \A n \in Mutexes : t \notin Waiting(k, n)
  BY <1>1, CallerRuns, KernelBefore DEF MutexInv, TypeOK, Releases
<1>3. /\ Sane(y) /\ y.cur = k.cur /\ y.wait = k.wait /\ y.stat = k.stat
      /\ y.err = k.err /\ Suspended(y) = Suspended(k)
      /\ y.prio = [k.prio EXCEPT ![t] = original[m]]
  BY <1>1, RestoreGives
<1> HIDE DEF y
<1>4. /\ h \in Waiting(k, m) /\ h \in Suspended(k) /\ h \in Thread /\ h # t /\ want[h] = m
      /\ k.err[h] = "EOK" /\ k.wait[m] \in Seq(Thread)
  <2>1. k.wait[m] \in Seq(Thread) /\ Waiting(k, m) \subseteq Suspended(k)
    BY <1>2, KernelBefore
  <2>2. h \in Waiting(k, m)
    BY <1>1, <2>1, HeadInList DEF Waiting
  <2> QED
    BY <1>2, <2>1, <2>2, WaitedOwned
<1>5. /\ Sane(k') /\ Roused(y, k', {h}) /\ k'.err = y.err
      /\ k'.wait = [q \in Queue |-> RemoveFirst(y.wait[q], h)]
  <2>1. k' = ResumeThread(y, h)
    BY <1>1, <1>3 DEF IpcResume
  <2>2. h \in Suspended(y)
    BY <1>3, <1>4
  <2> HIDE DEF h
  <2> QED
    BY <1>3, <2>1, <2>2, ResumeSane
<1>6. /\ k'.cur = t /\ k'.prio = [k.prio EXCEPT ![t] = original[m]] /\ k'.err = k.err
      /\ k'.wait = [q \in Queue |-> RemoveFirst(k.wait[q], h)]
      /\ Suspended(k') = Suspended(k) \ {h}
      /\ \A n \in Mutexes : Waiting(k', n) = Waiting(k, n) \ {h}
      /\ k'.stat[k'.cur] # "SUSPEND"
  <2>1. \A n \in Mutexes : Waiting(y, n) = Waiting(k, n)
    BY <1>3 DEF Waiting
  <2> HIDE DEF h
  <2> QED
    BY <1>2, <1>3, <1>5, <2>1, Constants DEF Roused
<1> HIDE DEF h
<1>7. /\ owner' \in [Mutexes -> Thread \cup {NoThread}] /\ owner'[m] = h
      /\ original' \in [Mutexes -> Prio \cup {NoPrio}] /\ original'[m] = k.prio[h]
      /\ \A n \in Mutexes \ {m} : owner'[n] = owner[n] /\ original'[n] = original[n]
  BY <1>1, <1>2, <1>4
<1>8. /\ pc' \in [Thread -> {"run", "take", "wait", "sched", "woken"}]
      /\ pc'[t] = "sched" /\ \A u \in Thread \ {t} : pc'[u] = pc[u]
  BY <1>1, <1>2
<1>9. /\ has' \in [Thread -> [Mutexes -> 0 .. MaxHold]]
      /\ \A u \in Thread : has'[u][m] = 0 /\ ~Grant(k, want, u, m)
      /\ \A u \in Thread, n \in Mutexes : n # m => has'[u][n] = has[u][n]
  BY <1>1, ReleaseCounts, ZenonT(60)
<1>10. /\ \A n \in Mutexes \ {m} : Waiting(k', n) = Waiting(k, n)
       /\ \A u \in Thread : Grant(k', want', u, m) <=> u = h
       /\ \A u \in Thread, n \in Mutexes : n # m =>
            (Grant(k', want', u, n) <=> Grant(k, want, u, n))
  <2>1. \A n \in Mutexes \ {m} : Waiting(k', n) = Waiting(k, n)
    <3>1. \A n \in Mutexes \ {m} : h \notin Waiting(k, n)
      BY <1>4, WaitedOwned
    <3>2. \A n \in Mutexes : Waiting(k', n) = Waiting(k, n) \ {h}
      BY <1>6
    <3> HIDE DEF Waiting
    <3>3. ASSUME NEW n \in Mutexes \ {m} PROVE Waiting(k', n) = Waiting(k, n)
      BY <3>1, <3>2
    <3> QED
      BY <3>3
  <2>2. ASSUME NEW u \in Thread PROVE Grant(k', want', u, m) <=> u = h
    BY <1>1, <1>4, <1>6, <1>9 DEF Grant
  <2>3. \A u \in Thread, n \in Mutexes : n # m =>
            (Grant(k', want', u, n) <=> Grant(k, want, u, n))
    BY <1>1, <1>6, <2>1 DEF Grant
  <2> QED
    BY <2>1, <2>2, <2>3
<1>11. CallsSound'
  <2>1. \A n \in Mutexes : \A u \in Waiting(k', n) : want'[u] = n /\ k'.err[u] = "EOK"
    BY <1>1, <1>6, WaitedOwned
  <2>2. \A u \in Suspended(k') : pc'[u] = "woken" \/ \E n \in Mutexes : u \in Waiting(k', n)
    <3> SUFFICES ASSUME NEW u \in Suspended(k')
                 PROVE  pc'[u] = "woken" \/ \E n \in Mutexes : u \in Waiting(k', n)
      OBVIOUS
    <3>1. u \in Suspended(k) /\ u # h /\ u # t /\ u \in Thread
      BY <1>2, <1>6 DEF Suspended
    <3>2. pc[u] = "woken" \/ \E n \in Mutexes : u \in Waiting(k, n)
      BY <1>2, <3>1 DEF CallsSound
    <3> QED
      BY <1>6, <1>8, <3>1, <3>2
  <2>3. \A u \in Thread : pc'[u] \in {"take", "wait"} <=> want'[u] # NoThread
    BY <1>1, <1>2, <1>8 DEF CallsSound
  <2>4. pc'[Idle] = "run" /\ \A u \in raised' : want'[u] # NoThread
    BY <1>1, <1>2, <1>8, Constants DEF CallsSound
  <2> QED
    BY <1>6, <2>1, <2>2, <2>3, <2>4 DEF CallsSound
<1>12. OwnersSound'
  <2> SUFFICES ASSUME NEW n \in Mutexes, NEW u \in Thread
               PROVE  /\ has'[u][n] > 0 => owner'[n] = u /\ hold'[n] = has'[u][n]
                      /\ owner'[n] = u /\ has'[u][n] = 0 => Grant(k', want', u, n) /\ hold'[n] = 1
                      /\ Grant(k', want', u, n) => owner'[n] = u
                      /\ want'[u] = n => has'[u][n] = 0
    BY DEF OwnersSound
  <2>1. CASE n = m
    BY <1>1, <1>2, <1>7, <1>9, <1>10, <2>1
  <2>2. CASE n # m
    BY <1>1, <1>2, <1>7, <1>9, <1>10, <2>2 DEF OwnersSound
  <2> QED
    BY <2>1, <2>2
<1>13. FreeSound'
  <2>1. owner[m] # NoThread /\ h # NoThread /\ k.prio[h] # NoPrio
    BY <1>2, <1>4, Constants
  <2>2. ASSUME NEW n \in Mutexes
        PROVE  /\ value'[n] = 1 <=> owner'[n] = NoThread
               /\ hold'[n] = 0 <=> owner'[n] = NoThread
               /\ original'[n] = NoPrio <=> owner'[n] = NoThread
               /\ owner'[n] = NoThread => Waiting(k', n) = {}
    <3>1. CASE n = m
      BY <1>1, <1>2, <1>7, <2>1, <3>1 DEF FreeSound
    <3>2. CASE n # m
      BY <1>1, <1>2, <1>7, <1>10, <3>2 DEF FreeSound
    <3> QED
      BY <3>1, <3>2
  <2> QED
    BY <2>2 DEF FreeSound
<1>14. Thinned(k, k')
  <2>1. \A n \in Mutexes : \A u \in Waiting(k, n) : k'.prio[u] = k.prio[u]
    BY <1>2, <1>6, WaitedOwned
  <2>2. /\ k'.wait = [q \in Queue |-> RemoveFirst(k.wait[q], h)]
        /\ \A n \in Mutexes : Waiting(k', n) = Waiting(k, n) \ {h}
    BY <1>6
  <2> QED
    BY <1>2, <2>1, <2>2, ThinnedOut, SMTT(40)
<1>15. Ordered(k', raised')
  BY <1>1, <1>2, <1>14, OrderThinned DEF MutexInv
<1>16. Inherits(k', owner', raised', lowered')
  <2>1. ASSUME NEW u \in Waiting(k', m)
        PROVE  k'.prio[owner'[m]] <= k'.prio[u] \/ u \in raised
    <3>1. u \in Waiting(k, m) /\ u # h /\ u \in Thread /\ u # t
      BY <1>2, <1>6, <2>1, WaitedOwned
    <3>2. Precedes(k.wait[m], h, u)
      BY <1>1, <1>4, <3>1, HeadPrecedes DEF Waiting, h
    <3>3. k.prio[h] <= k.prio[u] \/ u \in raised
      BY <1>4, <3>1, <3>2 DEF MutexInv, Ordered
    <3>4. k'.prio[u] = k.prio[u] /\ k'.prio[h] = k.prio[h]
      BY <1>4, <3>1, <1>14 DEF Thinned
    <3> QED
      BY <1>7, <3>3, <3>4
  <2> QED
    BY <1>1, <1>5, <1>6, <1>7, <1>14, <2>1, ReleaseInherits
<1>17. TypeOK'
  <2>1. lowered' \subseteq Thread /\ k' \in KernelType /\ lent' \subseteq Thread
    BY <1>1, <1>2, <1>4, <1>5, LoweredGives, SaneFields DEF Lent
  <2> QED
    BY <1>1, <1>7, <1>8, <1>9, <2>1 DEF MutexInv, TypeOK
<1>18. lent \subseteq lent' /\ (h \notin lent' => k.prio[h] = InitPrio[h])
  BY <1>1 DEF Lent
<1>19. OriginalSound'
  BY <1>2, <1>4, <1>7, <1>18 DEF MutexInv, OriginalSound
<1>20. PriorityRestored'
  BY <1>1, <1>6, <1>7, <1>18, ReleasePriority
<1> QED
  BY <1>5, <1>11, <1>12, <1>13, <1>15, <1>16, <1>17, <1>19, <1>20 DEF MutexInv

-----------------------------------------------------------------------------
(***************************************************************************)
(* The theorems                                                            *)
(***************************************************************************)

LEMMA MutexInit == Init => MutexInv
<1>1. SUFFICES ASSUME Init PROVE MutexInv
  OBVIOUS
<1>2. /\ k = InitKernel /\ pc = [t \in Thread |-> "run"]
      /\ want = [t \in Thread |-> NoThread] /\ owner = [m \in Mutexes |-> NoThread]
      /\ hold = [m \in Mutexes |-> 0] /\ value = [m \in Mutexes |-> 1]
      /\ original = [m \in Mutexes |-> NoPrio]
      /\ has = [t \in Thread |-> [m \in Mutexes |-> 0]]
      /\ lent = {} /\ lowered = {} /\ raised = {}
  BY <1>1 DEF Init
<1>3. k = Schedule(Started(InitPrio))
  BY <1>2 DEF InitKernel, Started
<1>4. /\ Sane(k) /\ Suspended(k) = {} /\ k.stat[k.cur] = "RUNNING" /\ k.prio = InitPrio
      /\ \A m \in Mutexes : k.wait[m] = << >> /\ Waiting(k, m) = {}
  BY <1>3, IpcAssumption, StartedSane, Constants
<1>5. TypeOK
  BY <1>2, <1>4, SaneFields, Constants DEF TypeOK
<1>6. CallsSound
  BY <1>2, <1>4, Constants DEF CallsSound
<1>7. OwnersSound
  BY <1>2, Constants DEF OwnersSound, Grant
<1>8. FreeSound
  BY <1>2, <1>4 DEF FreeSound
<1>9. Ordered(k, raised)
  BY <1>4, PrecedesIn DEF Ordered
<1>10. Inherits(k, owner, raised, lowered)
  BY <1>4 DEF Inherits
<1>11. OriginalSound /\ PriorityRestored
  BY <1>2, <1>4, Constants DEF OriginalSound, PriorityRestored
<1> QED
  BY <1>1, <1>4, <1>5, <1>6, <1>7, <1>8, <1>9, <1>10, <1>11 DEF MutexInv

LEMMA MutexStep == MutexInv /\ [Next]_vars => MutexInv'
<1>1. SUFFICES ASSUME MutexInv, [Next]_vars PROVE MutexInv'
  OBVIOUS
<1>2. CASE UNCHANGED vars
  <2>1. /\ k' = k /\ pc' = pc /\ want' = want /\ owner' = owner /\ hold' = hold
        /\ value' = value /\ original' = original /\ has' = has /\ lent' = lent
        /\ lowered' = lowered /\ raised' = raised
    BY <1>2 DEF vars, lending
  <2> QED
    BY <1>1, <2>1 DEF MutexInv, TypeOK, CallsSound, OwnersSound, FreeSound, OriginalSound,
                      PriorityRestored
<1>3. CASE TickSlice
  BY <1>1, <1>3, SwitchStep
<1>4. ASSUME NEW t \in Thread, TickTimeout(t) PROVE MutexInv'
  BY <1>1, <1>4, TimeoutStep
<1>5. ASSUME NEW t \in Thread, Step(t) PROVE MutexInv'
  <2>1. ASSUME NEW m \in Mutexes, TakeAgain(t, m) \/ ReleaseNested(t, m) PROVE MutexInv'
    BY <1>1, <2>1, NestedStep
  <2>2. ASSUME NEW m \in Mutexes, TakeFree(t, m) PROVE MutexInv'
    BY <1>1, <2>2, TakeFreeStep
  <2>3. ASSUME NEW m \in Mutexes, TryTakeFails(t, m) \/ ReleaseRefused(t, m) PROVE MutexInv'
    BY <1>1, <2>3, RefusedStep
  <2>4. ASSUME NEW m \in Mutexes, NEW call \in {"take", "timed"}, TakeSuspend(t, m, call)
        PROVE  MutexInv'
    BY <1>1, <2>4, TakeSuspendStep
  <2>5. ASSUME NEW m \in Mutexes, ReleaseFree(t, m) PROVE MutexInv'
    BY <1>1, <2>5, ReleaseFreeStep
  <2>6. ASSUME NEW m \in Mutexes, ReleaseHandOver(t, m) PROVE MutexInv'
    BY <1>1, <2>6, HandOverStep
  <2>7. CASE CallSchedule(t)
    BY <1>1, <2>7, SwitchStep
  <2>8. CASE TakeReturn(t)
    BY <1>1, <2>8, TakeReturnStep
  <2>9. CASE Sleep(t)
    BY <1>1, <2>9, SleepStep
  <2>10. CASE SleepReturn(t)
    BY <1>1, <2>10, SleepReturnStep
  <2> QED
    BY <1>5, <2>1, <2>2, <2>3, <2>4, <2>5, <2>6, <2>7, <2>8, <2>9, <2>10 DEF Step
<1> QED
  BY <1>1, <1>2, <1>3, <1>4, <1>5 DEF Next

\* What the invariant says of lists and members, in the words of the properties.
LEMMA MutexLists ==
  ASSUME MutexInv
  PROVE  /\ k \in KernelType /\ KernelSound(k, {}) /\ k.prio \in [Thread -> Prio]
         /\ \A m \in Mutexes :
              /\ k.wait[m] \in Seq(Thread)
              /\ (k.wait[m] = << >>) <=> (Waiting(k, m) = {})
              /\ \A t : Contains(k.wait[m], t) <=> t \in Waiting(k, m)
              /\ \A i \in DOMAIN k.wait[m] : k.wait[m][i] \in Waiting(k, m)
              /\ Waiting(k, m) \subseteq Suspended(k)
         /\ \A m \in Mutexes, t \in Thread : t \in Granted(m) <=> Grant(k, want, t, m)
<1>1. Sane(k) /\ k \in KernelType /\ KernelSound(k, {})
  BY SaneFields DEF MutexInv, Sane
<1>2. k.prio \in [Thread -> Prio] /\ \A m \in Mutexes :
        /\ k.wait[m] \in Seq(Thread)
        /\ (k.wait[m] = << >>) <=> (Waiting(k, m) = {})
        /\ Waiting(k, m) \subseteq Suspended(k)
  BY <1>1, KernelBefore
<1>3. \A m \in Mutexes : \A t : Contains(k.wait[m], t) <=> t \in Waiting(k, m)
  BY <1>2, ContainsToSet DEF Waiting
<1>4. \A m \in Mutexes : \A i \in DOMAIN k.wait[m] : k.wait[m][i] \in Waiting(k, m)
  BY <1>2 DEF Waiting, ToSet
<1>5. \A m \in Mutexes, t \in Thread : t \in Granted(m) <=> Grant(k, want, t, m)
  BY <1>3 DEF Granted, Grant
<1> QED
  BY <1>1, <1>2, <1>3, <1>4, <1>5

LEMMA MutexOwnership == MutexInv => OwnershipSound
<1>1. SUFFICES ASSUME MutexInv PROVE OwnershipSound
  OBVIOUS
<1>2. TypeOK /\ OwnersSound /\ FreeSound
  BY <1>1 DEF MutexInv
<1>3. OwnerIsHolder
  <2>1. \A m \in Mutexes, t \in Thread : t \in Granted(m) <=> Grant(k, want, t, m)
    BY <1>1, MutexLists
  <2> QED
    BY <1>2, <2>1 DEF OwnersSound, OwnerIsHolder
<1>4. FreeMutex
  <2>1. \A m \in Mutexes : (k.wait[m] = << >>) <=> (Waiting(k, m) = {})
    BY <1>1, MutexLists
  <2> QED
    BY <1>2, <2>1 DEF FreeSound, FreeMutex
<1> QED
  BY <1>2, <1>3, <1>4 DEF OwnershipSound

LEMMA MutexWaiters == MutexInv => WaitersSound
<1>1. SUFFICES ASSUME MutexInv PROVE WaitersSound
  OBVIOUS
<1>2. /\ k \in KernelType /\ KernelSound(k, {})
      /\ \A m \in Mutexes :
           /\ k.wait[m] \in Seq(Thread)
           /\ \A t : Contains(k.wait[m], t) <=> t \in Waiting(k, m)
           /\ Waiting(k, m) \subseteq Suspended(k)
  BY <1>1, MutexLists
<1>3. ListsMatchStat(k, {}) /\ BitmapExact(k)
  BY <1>2, SoundMatches
<1>4. \A m \in Mutexes, t \in Thread :
        Contains(k.wait[m], t) => want[t] = m /\ k.stat[t] = "SUSPEND"
  BY <1>1, <1>2 DEF MutexInv, CallsSound, Suspended
<1>5. WaitersOrdered
  <2> SUFFICES ASSUME NEW m \in Mutexes, NEW i \in DOMAIN k.wait[m], NEW j \in DOMAIN k.wait[m],
                      i < j
               PROVE  \/ k.prio[k.wait[m][i]] <= k.prio[k.wait[m][j]]
                      \/ {k.wait[m][i], k.wait[m][j]} \cap raised # {}
    BY DEF WaitersOrdered
  <2>1. k.wait[m] \in Seq(Thread)
    BY <1>2
  <2>2. k.wait[m][i] \in Thread /\ k.wait[m][j] \in Thread
    BY <2>1
  <2>3. Precedes(k.wait[m], k.wait[m][i], k.wait[m][j])
    BY <2>1 DEF Precedes
  <2> QED
    BY <1>1, <2>2, <2>3 DEF MutexInv, Ordered
<1> QED
  BY <1>3, <1>4, <1>5 DEF WaitersSound, WaitersConsistent

LEMMA MutexInherits == MutexInv => InheritanceHolds
<1>1. SUFFICES ASSUME MutexInv PROVE InheritanceHolds
  OBVIOUS
<1>2. \A m \in Mutexes : \A i \in DOMAIN k.wait[m] : k.wait[m][i] \in Waiting(k, m)
  BY <1>1, MutexLists
<1> QED
  BY <1>1, <1>2 DEF MutexInv, Inherits, InheritanceHolds

\* rt_mutex_take, rt_mutex_trytake and rt_mutex_release: whatever the order of
\* calls, hand-overs and timeouts, at most one thread has a mutex, owner and hold
\* say which one and how often, and a mutex nobody owns is as rt_mutex_init left
\* it.  A timeout that is handled together with a release leaves the mutex with
\* exactly one of the two threads.
THEOREM OwnershipCorrect == Spec => []OwnershipSound
<1>1. Init => MutexInv
  BY MutexInit
<1>2. MutexInv /\ [Next]_vars => MutexInv'
  BY MutexStep
<1>3. MutexInv => OwnershipSound
  BY MutexOwnership
<1> QED
  BY <1>1, <1>2, <1>3, PTL DEF Spec

\* The suspension list of a mutex holds exactly the threads that wait for it, and
\* is in the order of their priorities although rt_mutex_take and
\* rt_mutex_release change priorities under it; only a waiter that was itself
\* lent a priority meanwhile can stand too far back.
THEOREM WaitersCorrect == Spec => []WaitersSound
<1>1. Init => MutexInv
  BY MutexInit
<1>2. MutexInv /\ [Next]_vars => MutexInv'
  BY MutexStep
<1>3. MutexInv => WaitersSound
  BY MutexWaiters
<1> QED
  BY <1>1, <1>2, <1>3, PTL DEF Spec

\* Priority inheritance of rt_mutex_take: the owner of a mutex is at least as
\* urgent as every thread that waits for it, except in two situations that two
\* mutexes can bring about: the waiter was lent its priority while it waits, or a
\* release of another mutex took the owner's back.
THEOREM InheritanceCorrect == Spec => []InheritanceHolds
<1>1. Init => MutexInv
  BY MutexInit
<1>2. MutexInv /\ [Next]_vars => MutexInv'
  BY MutexStep
<1>3. MutexInv => InheritanceHolds
  BY MutexInherits
<1> QED
  BY <1>1, <1>2, <1>3, PTL DEF Spec

\* What rt_mutex_release gives back: a thread that owns no mutex runs with its own
\* priority, unless it once took a mutex with a priority it was lent through
\* another one.
THEOREM RestoreCorrect == Spec => []PriorityRestored
<1>1. Init => MutexInv
  BY MutexInit
<1>2. MutexInv /\ [Next]_vars => MutexInv'
  BY MutexStep
<1>3. MutexInv => PriorityRestored
  BY DEF MutexInv
<1> QED
  BY <1>1, <1>2, <1>3, PTL DEF Spec
=============================================================================
