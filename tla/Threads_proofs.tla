--------------------------- MODULE Threads_proofs ---------------------------
(***************************************************************************)
(* Proofs about thread.c: whatever threads there are, and in whatever order *)
(* they call, sleep, end and are interrupted, the lists, the bitmap and the *)
(* states of the threads agree, the most urgent ready thread runs, and a    *)
(* thread that has ended stays out of the scheduler.                        *)
(*                                                                         *)
(* Every section of code is an operator of RtKernel on the kernel state k,  *)
(* so the invariants are written as operators of k, pc, tgt and gone: what  *)
(* rt_schedule or rt_thread_resume does to them is proved once, for any     *)
(* kernel state, and used by every action that calls it.                    *)
(***************************************************************************)
EXTENDS Threads, KernelLemmas

\* The points between the sections of rt_thread_delete.
Dels == {"del_unlink", "del_timer", "del_close"}

\* The calls an application may combine.  rt_thread_resume and rt_thread_delete
\* act on a thread whose stat they read before they disabled interrupts.  With
\* no timer running, nothing wakes the thread in between.  With timers, a thread
\* that is being deleted or resumed can wake up and, in the second case, end
\* first: such calls must not be mixed.
NoRace ==
  \/ "sleep" \notin Calls
  \/ "delete" \notin Calls /\ ("exit" \notin Calls \/ "resume" \notin Calls)

-----------------------------------------------------------------------------
(***************************************************************************)
(* The invariant                                                           *)
(***************************************************************************)

\* Dying, as a function of pc and tgt.
DyingOf(c, g) == {g[t] : t \in {s \in Thread : c[s] \in {"del_timer", "del_close"}}}

\* A thread has a target exactly in the middle of a call about one; two calls
\* are never about the same thread, and one thread is deleted at a time.
PcSound(c, g) ==
  /\ \A t \in Thread : g[t] # None <=> c[t] \in {"suspend", "resume"} \cup Dels
  /\ \A s, t \in Thread : g[s] = g[t] => s = t \/ g[s] = None
  /\ \A t \in Thread : g[t] # Idle /\ (g[t] = t => c[t] = "suspend")
  /\ \A s, t \in Thread : c[s] \in Dels /\ c[t] \in Dels => s = t
  /\ \A t \in Thread : c[t] = "resume" => "resume" \in Calls
  /\ \A t \in Thread : c[t] = "suspend" => "suspend" \in Calls
  /\ \A t \in Thread : c[t] \in Dels => "delete" \in Calls
  /\ c[Idle] = "run"

\* The current thread: rt_schedule can be called in every such state.
CurSound(x, c) ==
  /\ x.stat[x.cur] # "READY"
  /\ x.cur = Idle => x.stat[Idle] = "RUNNING"
  /\ x.lock # 0 => x.stat[x.cur] = "RUNNING" /\ c[x.cur] \notin {"suspend", "sleep"}
  /\ x.stat[Idle] = "READY" \/ x.cur = Idle
  /\ x.prio[Idle] = MaxPrio
  /\ \A t \in Thread \ {Idle} : x.prio[t] < MaxPrio

\* ... and what it is between two actions.
CurRuns(x, c) ==
  \/ x.stat[x.cur] = "RUNNING"
  \/ x.stat[x.cur] = "SUSPEND" /\ c[x.cur] \in {"sched", "sleep"}

\* A thread that rt_thread_delete has unlinked stays out of every list.
DyingSound(x, D) == \A u \in D : u # Idle /\ u # x.cur /\ Detached(x, u)

\* The threads that ended: what does not exist is not scheduled and has no
\* timer, the defunct list holds closed threads that still exist, a thread in
\* the middle of deleting another one has not ended, and rt_thread_resume is not
\* about to resume a thread that has.
EndSound(x, c, g, G) ==
  /\ \A u \in G : x.stat[u] \notin {"READY", "RUNNING"} /\ u \notin x.tmr
  /\ \A u \in Waiting(x, "defunct") :
       x.stat[u] = "CLOSE" /\ u \notin G /\ c[u] \notin Dels
  /\ \A t \in Thread : c[t] \in Dels => t \notin G
  /\ \A t \in Thread : c[t] = "resume" => g[t] \in Thread \ G
  /\ "exit" \notin Calls /\ "delete" \notin Calls => Waiting(x, "defunct") = {}

\* Without timers a suspended thread stays suspended until it is resumed, and
\* when the idle thread runs no other thread ever runs again; so the idle thread
\* can not free a thread that somebody is about to delete.
AwakeSound(x, c, g, G) ==
  "sleep" \notin Calls =>
    /\ x.tmr = {}
    /\ \A t \in Thread : c[t] = "resume" => x.stat[g[t]] = "SUSPEND"
    /\ x.cur = Idle => \A p \in Prio : Ready(x, p) = {}
    /\ \A t \in Thread : c[t] \in Dels /\ g[t] \in G \ Static => x.cur = Idle

Prepared(x, c, g, G) ==
  /\ KernelSound(x, DyingOf(c, g))
  /\ CurSound(x, c)
  /\ DyingSound(x, DyingOf(c, g))
  /\ EndSound(x, c, g, G)
  /\ AwakeSound(x, c, g, G)

Shape(c, g, G) ==
  /\ c \in [Thread -> PCs]
  /\ g \in [Thread -> Thread \cup {None}]
  /\ G \subseteq Thread

ThreadsInv ==
  /\ k.lock <= MaxNest
  /\ Shape(pc, tgt, gone)
  /\ PcSound(pc, tgt)
  /\ Prepared(k, pc, tgt, gone)
  /\ CurRuns(k, pc)

-----------------------------------------------------------------------------
(***************************************************************************)
(* What the routines of the kernel do to the invariant                     *)
(***************************************************************************)

\* The fields that the invariants speak of.
LEMMA PreparedFields ==
  ASSUME NEW x, NEW c, NEW g, NEW G, Prepared(x, c, g, G)
  PROVE  /\ x \in KernelType /\ x.cur \in Thread
         /\ x.stat \in [Thread -> Stat] /\ x.prio \in [Thread -> Prio]
         /\ x.tmr \subseteq Thread /\ x.lock \in Nat
         /\ \A p \in Prio : Ready(x, p) \subseteq Thread
         /\ \A q \in Queue : Waiting(x, q) \subseteq Thread
         /\ "defunct" \in Queue /\ Queue = {"defunct"}
<1>1. x \in KernelType
  BY DEF Prepared, KernelSound, ListType
<1> QED
  BY <1>1, KernelFields, ThreadsAssumption

\* A step in which pc and tgt change but no call begins that resumes or
\* deletes a thread.
LEMMA PcKeeps ==
  ASSUME NEW x, NEW c, NEW g, NEW G, Prepared(x, c, g, G),
         NEW d \in [Thread -> PCs], NEW h,
         \A s \in Thread : d[s] \in Dels \/ c[s] \in Dels => d[s] = c[s] /\ h[s] = g[s],
         \A s \in Thread : d[s] = "resume" => c[s] = "resume" /\ h[s] = g[s],
         x.lock # 0 => d[x.cur] \notin {"suspend", "sleep"}
  PROVE  Prepared(x, d, h, G)
<1>1. DyingOf(d, h) = DyingOf(c, g)
  BY DEF DyingOf, Dels
<1>2. CurSound(x, d)
  BY DEF Prepared, CurSound
<1>3. EndSound(x, d, h, G)
  <2>1. \A q \in Queue : Waiting(x, q) \subseteq Thread
    BY PreparedFields
  <2> QED
    BY <2>1, ThreadsAssumption DEF Prepared, EndSound
<1>4. AwakeSound(x, d, h, G)
  BY DEF Prepared, AwakeSound
<1> QED
  BY <1>1, <1>2, <1>3, <1>4 DEF Prepared

\* rt_schedule.
LEMMA ScheduleKeeps ==
  ASSUME NEW x, NEW c, NEW g, NEW G, Prepared(x, c, g, G), Shape(c, g, G),
         NEW r, KernelSound(r, DyingOf(c, g)), Scheduled(x, r)
  PROVE  /\ Prepared(r, c, g, G)
         /\ x.lock = 0 => r.stat[r.cur] = "RUNNING"
         /\ x.lock # 0 => r.cur = x.cur /\ r.stat[r.cur] = x.stat[x.cur]
<1> DEFINE D == DyingOf(c, g)
<1>1. /\ KernelSound(x, D) /\ CurSound(x, c) /\ DyingSound(x, D)
      /\ EndSound(x, c, g, G) /\ AwakeSound(x, c, g, G)
  BY DEF Prepared
<1>2. /\ x.cur \in Thread /\ x.stat \in [Thread -> Stat] /\ x.prio \in [Thread -> Prio]
      /\ \A p \in Prio : Ready(x, p) \subseteq Thread
      /\ \A q \in Queue : Waiting(x, q) \subseteq Thread
      /\ "defunct" \in Queue
  BY PreparedFields
<1>3. r.cur \in Thread /\ r.stat \in [Thread -> Stat]
  BY KernelFields DEF KernelSound, ListType
<1>4. /\ r.lock = x.lock /\ r.prio = x.prio /\ r.tmr = x.tmr
      /\ Waiting(r, "defunct") = Waiting(x, "defunct")
      /\ \A p \in Prio : Ready(r, p) \subseteq Ready(x, p) \cup {x.cur}
      /\ \A t \in Thread \ {x.cur, r.cur} : r.stat[t] = x.stat[t]
      /\ r.cur = x.cur => r.stat[x.cur] = x.stat[x.cur]
      /\ r.cur # x.cur => /\ x.lock = 0
                          /\ x.stat[r.cur] = "READY" /\ r.stat[r.cur] = "RUNNING"
                          /\ r.stat[x.cur] = DemotedStat(x)
                          /\ r.cur \in Ready(x, x.prio[r.cur])
  BY <1>2 DEF Scheduled
<1>5. x.grp = {} => x.cur = Idle
  <2>1. Idle \in Thread /\ Idle \notin D
    BY <1>1, KernelAssumption DEF DyingSound
  <2>2. x.cur # Idle => Idle \in Ready(x, x.prio[Idle])
    BY <1>1, <2>1 DEF CurSound, KernelSound, LinksSound
  <2> QED
    BY <1>1, <1>2, <2>1, <2>2 DEF KernelSound, LinksSound
<1>6. x.lock = 0 => r.stat[r.cur] = "RUNNING"
  <2>1. CASE x.grp # {}
    BY <2>1 DEF Scheduled
  <2>2. CASE x.grp = {}
    BY <1>1, <1>4, <1>5, <2>2 DEF CurSound
  <2> QED
    BY <2>1, <2>2
<1>7. x.lock # 0 => r.cur = x.cur /\ r.stat[r.cur] = x.stat[x.cur]
  BY <1>4
<1>8. \A t \in Thread :
        /\ x.stat[t] \notin {"READY", "RUNNING"} => r.stat[t] = x.stat[t]
        /\ x.stat[t] = "READY" /\ t # r.cur => r.stat[t] = "READY"
  BY <1>1, <1>2, <1>4 DEF DemotedStat, CurSound
<1>9. CurSound(r, c)
  <2>1. r.stat[r.cur] # "READY"
    BY <1>1, <1>6, <1>7 DEF CurSound
  <2>2. r.stat[Idle] = "READY" \/ r.cur = Idle
    <3>1. CASE x.cur = Idle
      BY <1>1, <1>4, <3>1 DEF CurSound, DemotedStat
    <3>2. CASE x.cur # Idle
      BY <1>1, <1>8, <3>2, KernelAssumption DEF CurSound
    <3> QED
      BY <3>1, <3>2
  <2>3. r.cur = Idle => r.stat[Idle] = "RUNNING"
    BY <1>1, <1>4 DEF CurSound
  <2> QED
    BY <1>1, <1>4, <1>7, <2>1, <2>2, <2>3 DEF CurSound
<1>10. DyingSound(r, D)
  <2>1. SUFFICES ASSUME NEW u \in D
                 PROVE  u # Idle /\ u # r.cur /\ Detached(r, u)
    BY DEF DyingSound
  <2>2. u # Idle /\ u # x.cur /\ Detached(x, u)
    BY <1>1, <2>1 DEF DyingSound
  <2>3. u # r.cur
    <3>1. r.cur # x.cur => r.cur \in Ready(x, x.prio[r.cur]) /\ x.prio[r.cur] \in Prio
      BY <1>2, <1>3, <1>4
    <3> QED
      BY <2>2, <3>1 DEF Detached
  <2>4. \A q \in Queue : Waiting(r, q) = Waiting(x, q)
    BY DEF Scheduled
  <2>5. Detached(r, u)
    BY <1>4, <2>2, <2>4 DEF Detached
  <2> QED
    BY <2>2, <2>3, <2>5
<1>11. EndSound(r, c, g, G)
  BY <1>1, <1>2, <1>4, <1>8 DEF EndSound, Shape
<1>12. AwakeSound(r, c, g, G)
  <2>1. SUFFICES ASSUME "sleep" \notin Calls
                 PROVE  /\ r.tmr = {}
                        /\ \A t \in Thread : c[t] = "resume" => r.stat[g[t]] = "SUSPEND"
                        /\ r.cur = Idle => \A p \in Prio : Ready(r, p) = {}
                        /\ \A t \in Thread : c[t] \in Dels /\ g[t] \in G \ Static => r.cur = Idle
    BY DEF AwakeSound
  <2>2. r.tmr = {}
    BY <1>1, <1>4, <2>1 DEF AwakeSound
  <2>3. ASSUME NEW t \in Thread, c[t] = "resume" PROVE r.stat[g[t]] = "SUSPEND"
    <3>1. x.stat[g[t]] = "SUSPEND"
      BY <1>1, <2>1, <2>3 DEF AwakeSound
    <3>2. g[t] \in Thread
      BY <1>1, <2>3 DEF EndSound
    <3> QED
      BY <1>8, <3>1, <3>2
  <2>4. x.cur = Idle => r.cur = Idle
    <3>1. x.cur = Idle /\ r.cur # Idle => r.cur \in Ready(x, x.prio[r.cur]) /\ x.prio[r.cur] \in Prio
      BY <1>2, <1>3, <1>4
    <3> QED
      BY <1>1, <2>1, <3>1 DEF AwakeSound
  <2>5. ASSUME r.cur = Idle, NEW p \in Prio PROVE Ready(r, p) = {}
    <3>1. CASE x.cur = Idle
      <4>1. Ready(r, p) \subseteq {Idle}
        BY <1>1, <1>4, <2>1, <3>1 DEF AwakeSound
      <4>2. Idle \notin Ready(r, p)
        BY <1>9, <2>5 DEF CurSound, KernelSound, LinksSound
      <4> QED
        BY <4>1, <4>2
    <3>2. CASE x.cur # Idle
      <4>1. x.lock = 0 /\ x.grp # {}
        BY <1>4, <1>5, <2>5, <3>2
      <4>2. Ready(r, p) # {} => x.prio[Idle] <= p
        BY <2>5, <4>1 DEF Scheduled
      <4>3. ASSUME NEW y \in Ready(r, p) PROVE FALSE
        <5>1. r.stat[y] = "READY" /\ r.prio[y] = p /\ y \in Thread
          BY <4>3, KernelFields DEF KernelSound, ListType, LinksSound
        <5>2. y # Idle
          BY <1>9, <2>5, <5>1 DEF CurSound
        <5>3. p < MaxPrio /\ x.prio[Idle] = MaxPrio
          BY <1>1, <1>4, <5>1, <5>2 DEF CurSound
        <5> QED
          BY <4>2, <4>3, <5>3, KernelAssumption DEF Prio
      <4> QED
        BY <4>3
    <3> QED
      BY <3>1, <3>2
  <2>6. \A t \in Thread : c[t] \in Dels /\ g[t] \in G \ Static => r.cur = Idle
    BY <1>1, <2>1, <2>4 DEF AwakeSound
  <2> QED
    BY <2>2, <2>3, <2>5, <2>6
<1>13. Prepared(r, c, g, G)
  BY <1>9, <1>10, <1>11, <1>12 DEF Prepared
<1> QED
  BY <1>6, <1>7, <1>13

\* rt_thread_resume and rt_thread_timeout, before rt_schedule.
LEMMA WokenKeeps ==
  ASSUME NEW x, NEW c, NEW g, NEW G, Prepared(x, c, g, G),
         NEW t \in Thread \ G, t \notin DyingOf(c, g),
         NEW r, KernelSound(r, DyingOf(c, g) \ {t}), Woken(x, r, t),
         "sleep" \notin Calls => x.cur # Idle /\ \A s \in Thread : c[s] = "resume" => g[s] # t
  PROVE  /\ Prepared(r, c, g, G)
         /\ CurRuns(x, c) => CurRuns(r, c)
<1> DEFINE D == DyingOf(c, g)
<1>1. /\ KernelSound(x, D) /\ CurSound(x, c) /\ DyingSound(x, D)
      /\ EndSound(x, c, g, G) /\ AwakeSound(x, c, g, G)
  BY DEF Prepared
<1>2. /\ x.cur \in Thread /\ x.stat \in [Thread -> Stat] /\ x.prio \in [Thread -> Prio]
      /\ \A q \in Queue : Waiting(x, q) \subseteq Thread
      /\ "defunct" \in Queue
  BY PreparedFields
<1>3. /\ r.cur = x.cur /\ r.lock = x.lock /\ r.prio = x.prio
      /\ r.tmr = x.tmr \ {t}
      /\ \A p \in Prio : Ready(r, p) \subseteq Ready(x, p) \cup {t}
      /\ \A q \in Queue : Waiting(r, q) = Waiting(x, q) \ {t}
  BY DEF Woken
<1>4. /\ \A s \in Thread : s # t => r.stat[s] = x.stat[s]
      /\ t = x.cur => r.stat[t] = "RUNNING"
      /\ t # x.cur => r.stat[t] = "READY"
  BY <1>2 DEF Woken, InsertedStat
<1>5. KernelSound(r, D)
  <2>1. D \ {t} = D
    OBVIOUS
  <2> QED
    BY <2>1
<1>6. CurSound(r, c) /\ (CurRuns(x, c) => CurRuns(r, c))
  BY <1>1, <1>2, <1>3, <1>4, KernelAssumption DEF CurSound, CurRuns
<1>7. DyingSound(r, D)
  <2>1. SUFFICES ASSUME NEW u \in D
                 PROVE  u # Idle /\ u # r.cur /\ Detached(r, u)
    BY DEF DyingSound
  <2>2. u # Idle /\ u # x.cur /\ Detached(x, u) /\ u # t
    BY <1>1, <2>1 DEF DyingSound
  <2> QED
    BY <1>3, <2>2 DEF Detached
<1>8. EndSound(r, c, g, G)
  <2>1. \A u \in G : r.stat[u] \notin {"READY", "RUNNING"} /\ u \notin r.tmr
    <3>1. \A u \in G : u # t /\ u \notin x.tmr /\ x.stat[u] \notin {"READY", "RUNNING"}
      BY <1>1 DEF EndSound
    <3>2. r.stat = [x.stat EXCEPT ![t] = InsertedStat(x, t)]
      BY DEF Woken
    <3> QED
      BY <1>2, <1>3, <3>1, <3>2
  <2>2. Waiting(r, "defunct") = Waiting(x, "defunct") \ {t}
    BY <1>2, <1>3
  <2>3. \A u \in Waiting(r, "defunct") : r.stat[u] = "CLOSE" /\ u \notin G /\ c[u] \notin Dels
    BY <1>1, <1>2, <1>4, <2>2 DEF EndSound
  <2> QED
    BY <1>1, <2>1, <2>2, <2>3 DEF EndSound
<1>9. AwakeSound(r, c, g, G)
  <2>1. SUFFICES ASSUME "sleep" \notin Calls
                 PROVE  /\ r.tmr = {}
                        /\ \A s \in Thread : c[s] = "resume" => r.stat[g[s]] = "SUSPEND"
                        /\ r.cur = Idle => \A p \in Prio : Ready(r, p) = {}
                        /\ \A s \in Thread : c[s] \in Dels /\ g[s] \in G \ Static => r.cur = Idle
    BY DEF AwakeSound
  <2>2. ASSUME NEW s \in Thread, c[s] = "resume" PROVE r.stat[g[s]] = "SUSPEND"
    <3>1. g[s] \in Thread /\ x.stat[g[s]] = "SUSPEND" /\ g[s] # t
      BY <1>1, <2>1, <2>2 DEF EndSound, AwakeSound
    <3> QED
      BY <1>4, <3>1
  <2> QED
    BY <1>1, <1>3, <2>1, <2>2 DEF AwakeSound
<1> QED
  BY <1>5, <1>6, <1>7, <1>8, <1>9 DEF Prepared

\* r is x with thread t out of every list, and neither READY nor RUNNING.
Aside(x, r, t, v) ==
  /\ r.cur = x.cur /\ r.lock = x.lock
  /\ r.prio[Idle] = x.prio[Idle]
  /\ \A s \in Thread \ {Idle} : x.prio[s] < MaxPrio => r.prio[s] < MaxPrio
  /\ r.stat = [x.stat EXCEPT ![t] = v]
  /\ r.tmr \subseteq x.tmr \cup {t}
  /\ \A p \in Prio : Ready(r, p) = Ready(x, p) \ {t}
  /\ \A q \in Queue : Waiting(r, q) = Waiting(x, q) \ {t}

\* rt_thread_suspend, and the first part of the end of a thread.
LEMMA AsideKeeps ==
  ASSUME NEW x, NEW c, NEW g, NEW G, Prepared(x, c, g, G),
         NEW t \in Thread, t # Idle, NEW v \in {"SUSPEND", "CLOSE"},
         NEW r, KernelSound(r, DyingOf(c, g)), Aside(x, r, t, v),
         t = x.cur => x.lock = 0,
         t \in r.tmr => "sleep" \in Calls /\ t \notin G,
         "sleep" \notin Calls /\ v # "SUSPEND" => \A s \in Thread : c[s] = "resume" => g[s] # t
  PROVE  Prepared(r, c, g, G)
<1> DEFINE D == DyingOf(c, g)
<1>1. /\ KernelSound(x, D) /\ CurSound(x, c) /\ DyingSound(x, D)
      /\ EndSound(x, c, g, G) /\ AwakeSound(x, c, g, G)
  BY DEF Prepared
<1>2. /\ x.cur \in Thread /\ x.stat \in [Thread -> Stat] /\ x.prio \in [Thread -> Prio]
      /\ \A q \in Queue : Waiting(x, q) \subseteq Thread
      /\ "defunct" \in Queue
  BY PreparedFields
<1>3. /\ r.cur = x.cur /\ r.lock = x.lock
      /\ r.prio[Idle] = x.prio[Idle]
      /\ \A s \in Thread \ {Idle} : x.prio[s] < MaxPrio => r.prio[s] < MaxPrio
      /\ r.stat = [x.stat EXCEPT ![t] = v]
      /\ r.tmr \subseteq x.tmr \cup {t}
      /\ \A p \in Prio : Ready(r, p) = Ready(x, p) \ {t}
      /\ \A q \in Queue : Waiting(r, q) = Waiting(x, q) \ {t}
  BY DEF Aside
<1>4. /\ \A s \in Thread : s # t => r.stat[s] = x.stat[s]
      /\ r.stat[t] = v
  BY <1>2, <1>3
<1>5. CurSound(r, c)
  BY <1>1, <1>2, <1>3, <1>4, KernelAssumption DEF CurSound
<1>6. DyingSound(r, D)
  <2>1. SUFFICES ASSUME NEW u \in D
                 PROVE  u # Idle /\ u # r.cur /\ Detached(r, u)
    BY DEF DyingSound
  <2>2. u # Idle /\ u # x.cur /\ Detached(x, u)
    BY <1>1, <2>1 DEF DyingSound
  <2> QED
    BY <1>3, <2>2 DEF Detached
<1>7. EndSound(r, c, g, G)
  <2>1. \A u \in G : r.stat[u] \notin {"READY", "RUNNING"} /\ u \notin r.tmr
    <3>1. \A u \in G : u \notin x.tmr /\ x.stat[u] \notin {"READY", "RUNNING"}
      BY <1>1 DEF EndSound
    <3> QED
      BY <1>2, <1>3, <3>1
  <2>2. Waiting(r, "defunct") = Waiting(x, "defunct") \ {t}
    BY <1>2, <1>3
  <2>3. \A u \in Waiting(r, "defunct") : r.stat[u] = "CLOSE" /\ u \notin G /\ c[u] \notin Dels
    BY <1>1, <1>2, <1>4, <2>2 DEF EndSound
  <2> QED
    BY <1>1, <2>1, <2>2, <2>3 DEF EndSound
<1>8. AwakeSound(r, c, g, G)
  <2>1. SUFFICES ASSUME "sleep" \notin Calls
                 PROVE  /\ r.tmr = {}
                        /\ \A s \in Thread : c[s] = "resume" => r.stat[g[s]] = "SUSPEND"
                        /\ r.cur = Idle => \A p \in Prio : Ready(r, p) = {}
                        /\ \A s \in Thread : c[s] \in Dels /\ g[s] \in G \ Static => r.cur = Idle
    BY DEF AwakeSound
  <2>2. ASSUME NEW s \in Thread, c[s] = "resume" PROVE r.stat[g[s]] = "SUSPEND"
    <3>1. g[s] \in Thread /\ x.stat[g[s]] = "SUSPEND"
      BY <1>1, <2>1, <2>2 DEF EndSound, AwakeSound
    <3> QED
      BY <1>4, <2>1, <2>2, <3>1
  <2>3. r.tmr = {}
    BY <1>1, <1>3, <2>1 DEF AwakeSound
  <2> QED
    BY <1>1, <1>3, <2>1, <2>2, <2>3 DEF AwakeSound
<1> QED
  BY <1>5, <1>6, <1>7, <1>8 DEF Prepared

\* rt_thread_defunct_enqueue, or rt_object_detach: the last part of the end of
\* r is x with thread t in the defunct list, unless it is one of G.
Buried(x, r, t, G) ==
  /\ r.cur = x.cur /\ r.lock = x.lock /\ r.stat = x.stat /\ r.prio = x.prio
  /\ \A p \in Prio : Ready(r, p) = Ready(x, p)
  /\ Waiting(x, "defunct") \subseteq Waiting(r, "defunct")
  /\ t \in G \/ t \in Waiting(r, "defunct")

\* a thread.
LEMMA BuryKeeps ==
  ASSUME NEW x, NEW c, NEW g, NEW G, Prepared(x, c, g, G), NEW t \in Thread,
         x.stat[t] = "CLOSE", Detached(x, t), t \notin DyingOf(c, g),
         c[t] \notin Dels, \A s \in Thread : c[s] = "resume" => g[s] # t,
         "exit" \in Calls \/ "delete" \in Calls, t \notin Static => t \notin G
  PROVE  /\ Prepared(Bury(x, t), c, g, G \cup ({t} \cap Static))
         /\ Buried(x, Bury(x, t), t, G \cup ({t} \cap Static))
<1> DEFINE D == DyingOf(c, g)
           r == Bury(x, t)
<1>1. /\ KernelSound(x, D) /\ CurSound(x, c) /\ DyingSound(x, D)
      /\ EndSound(x, c, g, G) /\ AwakeSound(x, c, g, G)
  BY DEF Prepared
<1>2. /\ x.cur \in Thread /\ x.stat \in [Thread -> Stat] /\ x \in KernelType
      /\ "defunct" \in Queue /\ Queue = {"defunct"}
  BY PreparedFields
<1>3. CASE t \in Static
  <2>1. r = x /\ G \cup ({t} \cap Static) = G \cup {t}
    BY <1>3 DEF Bury
  <2>2. t \notin x.tmr /\ t \notin Waiting(x, "defunct")
    BY <1>1, <1>2 DEF KernelSound, LinksSound, Detached
  <2>3. EndSound(x, c, g, G \cup {t})
    BY <1>1, <2>2 DEF EndSound
  <2>4. AwakeSound(x, c, g, G \cup {t})
    BY <1>1, <1>3 DEF AwakeSound
  <2>5. Prepared(x, c, g, G \cup {t})
    BY <1>1, <2>3, <2>4 DEF Prepared
  <2> QED
    BY <2>1, <2>5 DEF Buried
<1>4. CASE t \notin Static
  <2> DEFINE L == <<t>> \o x.wait["defunct"]
  <2>1. r = [x EXCEPT !.wait["defunct"] = L] /\ G \cup ({t} \cap Static) = G
    BY <1>2, <1>4 DEF Bury
  <2>2. /\ x.wait \in [Queue -> Seq(Thread)] /\ x.wait["defunct"] \in Seq(Thread)
        /\ Distinct(x.wait["defunct"]) /\ t \notin ToSet(x.wait["defunct"])
    <3>1. x.wait \in [Queue -> Seq(Thread)]
      BY <1>2, KernelFields
    <3>2. Distinct(x.wait["defunct"]) /\ t \notin ToSet(x.wait["defunct"])
      BY <1>1, <1>2 DEF KernelSound, ListType, Detached, Waiting
    <3> QED
      BY <1>2, <3>1, <3>2
  <2>3. L \in Seq(Thread) /\ Distinct(L) /\ ToSet(L) = ToSet(x.wait["defunct"]) \cup {t}
    BY <2>2, ConsList
  <2> HIDE DEF L, r
  <2>4. /\ r.cur = x.cur /\ r.rdy = x.rdy /\ r.grp = x.grp /\ r.lock = x.lock
        /\ r.wait = [x.wait EXCEPT !["defunct"] = L]
        /\ r.stat = x.stat /\ r.yld = x.yld /\ r.prio = x.prio /\ r.err = x.err
        /\ r.tmr = x.tmr
    BY <1>2, <2>1 DEF KernelType
  <2>5. r \in KernelType
    <3>1. [x.wait EXCEPT !["defunct"] = L] \in [Queue -> Seq(Thread)]
      BY <2>2, <2>3
    <3>2. r = [x EXCEPT !.wait = [x.wait EXCEPT !["defunct"] = L]]
      BY <1>2, <2>1 DEF KernelType
    <3> QED
      BY <1>2, <3>1, <3>2 DEF KernelType
  <2>6. r.wait["defunct"] = L
    BY <1>2, <2>2, <2>4
  <2>7. ListType(r)
    BY <1>1, <1>2, <2>3, <2>4, <2>5, <2>6 DEF KernelSound, ListType
  <2>8. /\ \A p \in Prio : Ready(r, p) = Ready(x, p)
        /\ Waiting(r, "defunct") = Waiting(x, "defunct") \cup {t}
    BY <2>3, <2>4, <2>6 DEF Ready, Waiting
  <2>9. LinksSound(r, D)
    <3>1. \A y \in Waiting(x, "defunct") : x.stat[y] \notin {"READY", "RUNNING"}
      BY <1>1, <1>2 DEF KernelSound, LinksSound
    <3>2. ASSUME NEW q \in Queue, NEW y \in Waiting(r, q)
          PROVE  r.stat[y] \notin {"READY", "RUNNING"}
      <4>1. y \in Waiting(x, "defunct") \cup {t}
        BY <1>2, <2>8, <3>2
      <4>2. CASE y = t
        BY <2>4, <4>2
      <4>3. CASE y \in Waiting(x, "defunct")
        BY <2>4, <3>1, <4>3
      <4> QED
        BY <4>1, <4>2, <4>3
    <3>3. \A q, w \in Queue : \A y \in Waiting(r, q) : y \in Waiting(r, w) => q = w
      <4>1. \A q, w \in Queue : q = w
        BY <1>2
      <4> QED
        BY <4>1
    <3>4. /\ \A p \in Prio : \A y \in Ready(r, p) : r.stat[y] = "READY" /\ r.prio[y] = p
          /\ \A p \in Prio : p \in r.grp <=> Ready(r, p) # {}
          /\ \A y \in Thread : r.stat[y] = "RUNNING" => y = r.cur
          /\ \A y \in r.tmr : r.stat[y] = "SUSPEND"
      BY <1>1, <2>4, <2>8 DEF KernelSound, LinksSound
    <3>5. \A y \in Thread \ D : r.stat[y] = "READY" => y \in Ready(r, r.prio[y])
      <4>1. \A y \in Thread : x.prio[y] \in Prio
        BY <1>2, KernelFields
      <4> QED
        BY <1>1, <2>4, <2>8, <4>1 DEF KernelSound, LinksSound
    <3> QED
      BY <3>2, <3>3, <3>4, <3>5 DEF LinksSound
  <2>10. CurSound(r, c)
    BY <1>1, <2>4 DEF CurSound
  <2>11. DyingSound(r, D)
    BY <1>1, <1>2, <2>4, <2>8 DEF DyingSound, Detached
  <2>12. EndSound(r, c, g, G)
    BY <1>1, <1>4, <2>4, <2>8 DEF EndSound
  <2>13. AwakeSound(r, c, g, G)
    BY <1>1, <2>4, <2>8 DEF AwakeSound
  <2>14. Prepared(r, c, g, G)
    BY <2>7, <2>9, <2>10, <2>11, <2>12, <2>13 DEF Prepared, KernelSound
  <2> QED
    BY <2>1, <2>4, <2>8, <2>14 DEF r, Buried
<1> QED
  BY <1>3, <1>4

-----------------------------------------------------------------------------
(***************************************************************************)
(* The calls                                                               *)
(***************************************************************************)

\* The parts of the invariant, and facts about the current thread.
LEMMA InvFacts ==
  ASSUME ThreadsInv
  PROVE  /\ k.lock <= MaxNest /\ Shape(pc, tgt, gone) /\ PcSound(pc, tgt)
         /\ Prepared(k, pc, tgt, gone) /\ CurRuns(k, pc)
         /\ KernelSound(k, Dying) /\ Dying = DyingOf(pc, tgt)
         /\ k \in KernelType /\ k.cur \in Thread /\ k.stat[k.cur] # "READY"
         /\ pc[k.cur] \notin {"sched", "sleep"} => k.stat[k.cur] = "RUNNING"
         /\ pc[k.cur] # "run" => k.cur # Idle
<1>1. k \in KernelType /\ k.cur \in Thread
  BY PreparedFields DEF ThreadsInv
<1>2. Dying = DyingOf(pc, tgt)
  BY DEF Dying, DyingOf
<1> QED
  BY <1>1, <1>2 DEF ThreadsInv, Prepared, CurSound, CurRuns, PcSound

\* One thread enters, leaves or goes on in a call.
LEMMA PcMove ==
  ASSUME NEW c, NEW g, NEW G, Shape(c, g, G), PcSound(c, g), NEW t \in Thread,
         NEW v \in PCs, NEW w \in Thread \cup {None},
         w # None <=> v \in {"suspend", "resume"} \cup Dels,
         w # Idle, w = t => v = "suspend",
         w # None => \A s \in Thread \ {t} : g[s] # w,
         v \in Dels => "delete" \in Calls /\ \A s \in Thread \ {t} : c[s] \notin Dels,
         v = "resume" => "resume" \in Calls, v = "suspend" => "suspend" \in Calls,
         t = Idle => v = "run"
  PROVE  /\ Shape([c EXCEPT ![t] = v], [g EXCEPT ![t] = w], G)
         /\ PcSound([c EXCEPT ![t] = v], [g EXCEPT ![t] = w])
<1> DEFINE d == [c EXCEPT ![t] = v]
           h == [g EXCEPT ![t] = w]
<1>1. /\ \A s \in Thread : s # t => d[s] = c[s] /\ h[s] = g[s]
      /\ d[t] = v /\ h[t] = w
      /\ d \in [Thread -> PCs] /\ h \in [Thread -> Thread \cup {None}]
  BY DEF Shape
<1> HIDE DEF d, h
<1>2. \A s \in Thread : h[s] # None <=> d[s] \in {"suspend", "resume"} \cup Dels
  BY <1>1 DEF PcSound
<1>3. \A s, u \in Thread : h[s] = h[u] => s = u \/ h[s] = None
  BY <1>1 DEF PcSound
<1>4. /\ \A s \in Thread : h[s] # Idle /\ (h[s] = s => d[s] = "suspend")
      /\ d[Idle] = "run"
  BY <1>1, KernelAssumption DEF PcSound
<1>5. \A s, u \in Thread : d[s] \in Dels /\ d[u] \in Dels => s = u
  BY <1>1 DEF PcSound
<1>6. /\ \A s \in Thread : d[s] = "resume" => "resume" \in Calls
      /\ \A s \in Thread : d[s] = "suspend" => "suspend" \in Calls
      /\ \A s \in Thread : d[s] \in Dels => "delete" \in Calls
  BY <1>1 DEF PcSound
<1> QED
  BY <1>1, <1>2, <1>3, <1>4, <1>5, <1>6 DEF PcSound, Shape, d, h

\* A thread goes on in a call without changing its target.
LEMMA PcOnly ==
  ASSUME NEW c, NEW g, NEW G, Shape(c, g, G), PcSound(c, g), NEW t \in Thread,
         NEW v \in PCs, t # Idle,
         v \in {"suspend", "resume"} \cup Dels => v \in Dels /\ c[t] \in Dels,
         v \notin {"suspend", "resume"} \cup Dels => c[t] \notin {"suspend", "resume"} \cup Dels
  PROVE  Shape([c EXCEPT ![t] = v], g, G) /\ PcSound([c EXCEPT ![t] = v], g)
<1>1. g = [g EXCEPT ![t] = g[t]] /\ g[t] \in Thread \cup {None}
  BY DEF Shape
<1>2. /\ g[t] # None <=> v \in {"suspend", "resume"} \cup Dels
      /\ g[t] # Idle /\ (g[t] = t => v = "suspend")
      /\ g[t] # None => \A s \in Thread \ {t} : g[s] # g[t]
      /\ v \in Dels => "delete" \in Calls /\ \A s \in Thread \ {t} : c[s] \notin Dels
      /\ v # "resume" /\ v # "suspend"
  BY DEF PcSound, Dels
<1> DEFINE w == g[t]
<1> HIDE DEF w
<1>3. Shape([c EXCEPT ![t] = v], [g EXCEPT ![t] = w], G)
      /\ PcSound([c EXCEPT ![t] = v], [g EXCEPT ![t] = w])
  BY <1>1, <1>2, PcMove DEF w
<1> QED
  BY <1>1, <1>3 DEF w

\* What a call does to pc and tgt does not depend on the kernel.
LEMMA PcNext ==
  ASSUME ThreadsInv, Next
  PROVE  Shape(pc', tgt', gone') /\ PcSound(pc', tgt')
<1>1. Shape(pc, tgt, gone) /\ PcSound(pc, tgt)
  BY InvFacts
<1>2. /\ pc \in [Thread -> PCs] /\ tgt \in [Thread -> Thread \cup {None}]
      /\ gone \subseteq Thread /\ None \notin Thread /\ Idle \in Thread
  BY <1>1, KernelAssumption, ThreadsAssumption DEF Shape
<1>3. ASSUME gone' \subseteq Thread, Shape(pc', tgt', gone) PROVE Shape(pc', tgt', gone')
  BY <1>3 DEF Shape
<1>4. ASSUME UNCHANGED <<pc, tgt>>, gone' \subseteq Thread
      PROVE  Shape(pc', tgt', gone') /\ PcSound(pc', tgt')
  BY <1>1, <1>4 DEF Shape
<1>5. ASSUME NEW t \in Thread, NEW u \in Thread, Create(t, u)
      PROVE  Shape(pc', tgt', gone') /\ PcSound(pc', tgt')
  <2>1. /\ pc' = [pc EXCEPT ![u] = "run"] /\ tgt' = [tgt EXCEPT ![u] = None]
        /\ gone' \subseteq Thread
    BY <1>2, <1>5 DEF Create
  <2>2. Shape([pc EXCEPT ![u] = "run"], [tgt EXCEPT ![u] = None], gone)
        /\ PcSound([pc EXCEPT ![u] = "run"], [tgt EXCEPT ![u] = None])
    <3>1. "run" \in PCs /\ "run" \notin {"suspend", "resume"} \cup Dels /\ None # Idle
      BY <1>2 DEF PCs, Dels
    <3> QED
      BY <1>1, <1>2, <3>1, PcMove
  <2> QED
    BY <1>3, <2>1, <2>2
<1>6. ASSUME NEW t \in Thread, NEW u \in Thread, Startup(t, u)
      PROVE  Shape(pc', tgt', gone') /\ PcSound(pc', tgt')
  <2>1. pc' = [pc EXCEPT ![t] = "sched"] /\ tgt' = tgt /\ gone' = gone /\ t # Idle /\ pc[t] = "run"
    BY <1>6 DEF Startup, Caller, Goto
  <2>2. "sched" \in PCs /\ "sched" \notin {"suspend", "resume"} \cup Dels
        /\ "run" \notin {"suspend", "resume"} \cup Dels
    BY DEF PCs, Dels
  <2> QED
    BY <1>1, <2>1, <2>2, PcOnly
<1>7. ASSUME NEW t \in Thread, NEW u \in Thread, SuspendCheck(t, u)
      PROVE  Shape(pc', tgt', gone') /\ PcSound(pc', tgt')
  <2>1. /\ pc' = [pc EXCEPT ![t] = "suspend"] /\ tgt' = [tgt EXCEPT ![t] = u]
        /\ gone' = gone /\ t # Idle /\ u # Idle /\ \A s \in Thread : tgt[s] # u
        /\ "suspend" \in Calls
    BY <1>7 DEF SuspendCheck, Caller, Goto, Available, Untouched
  <2>2. "suspend" \in PCs /\ "suspend" \in {"suspend", "resume"} \cup Dels /\ "suspend" \notin Dels
    BY DEF PCs, Dels
  <2>3. u # None
    BY <1>2
  <2> QED
    BY <1>1, <2>1, <2>2, <2>3, PcMove
<1>8. ASSUME NEW t \in Thread, NEW u \in Thread, ResumeCheck(t, u)
      PROVE  Shape(pc', tgt', gone') /\ PcSound(pc', tgt')
  <2>1. /\ pc' = [pc EXCEPT ![t] = "resume"] /\ tgt' = [tgt EXCEPT ![t] = u]
        /\ gone' = gone /\ t # Idle /\ u # Idle /\ \A s \in Thread : tgt[s] # u
        /\ "resume" \in Calls
    BY <1>8 DEF ResumeCheck, Caller, Goto, Available, Untouched
  <2>2. u # t
    <3>1. k.stat[t] = "RUNNING" /\ k.stat[u] = "SUSPEND"
      BY <1>8, InvFacts DEF ResumeCheck, Caller
    <3> QED
      BY <3>1
  <2>3. "resume" \in PCs /\ "resume" \in {"suspend", "resume"} \cup Dels /\ "resume" \notin Dels
    BY DEF PCs, Dels
  <2>4. u # None
    BY <1>2
  <2> QED
    BY <1>1, <2>1, <2>2, <2>3, <2>4, PcMove
<1>9. ASSUME NEW t \in Thread, NEW u \in Thread, DeleteCheck(t, u)
      PROVE  Shape(pc', tgt', gone') /\ PcSound(pc', tgt')
  <2> DEFINE v == IF k.stat[u] = "INIT" THEN "del_timer" ELSE "del_unlink"
  <2>1. /\ pc' = [pc EXCEPT ![t] = v] /\ tgt' = [tgt EXCEPT ![t] = u]
        /\ gone' = gone /\ t # Idle /\ u # Idle /\ u # t
        /\ \A s \in Thread : tgt[s] # u /\ tgt[s] = None
        /\ "delete" \in Calls
    BY <1>9 DEF DeleteCheck, Caller, Goto, Available, Untouched
  <2>2. v \in PCs /\ v \in {"suspend", "resume"} \cup Dels /\ v \in Dels /\ v # "resume" /\ v # "suspend"
    BY DEF PCs, Dels
  <2>3. \A s \in Thread : pc[s] \notin Dels
    BY <1>1, <2>1 DEF PcSound
  <2>4. u # None
    BY <1>2
  <2> HIDE DEF v
  <2> QED
    BY <1>1, <2>1, <2>2, <2>3, <2>4, PcMove
<1>10. ASSUME NEW t \in Thread, CallSchedule(t) \/ SleepReturn(t) \/ Sleep(t) \/ ExitCritical(t)
       PROVE  Shape(pc', tgt', gone') /\ PcSound(pc', tgt')
  <2>1. PICK v \in {"run", "woken", "sleep", "sched"} : pc' = [pc EXCEPT ![t] = v]
    BY <1>10 DEF CallSchedule, SleepReturn, Sleep, ExitCritical, Goto
  <2>2. tgt' = tgt /\ gone' = gone /\ pc[t] \in {"sched", "sleep", "woken", "run"}
    BY <1>10 DEF CallSchedule, SleepReturn, Sleep, ExitCritical, Goto
  <2>3. t # Idle
    BY <1>1, <1>10 DEF CallSchedule, SleepReturn, Sleep, ExitCritical, Goto, Caller, PcSound
  <2>4. v \in PCs /\ v \notin {"suspend", "resume"} \cup Dels /\ pc[t] \notin {"suspend", "resume"} \cup Dels
    BY <2>1, <2>2 DEF PCs, Dels
  <2> QED
    BY <1>1, <2>1, <2>2, <2>3, <2>4, PcOnly
<1>11. ASSUME NEW t \in Thread, Suspend(t) \/ Resume(t) \/ DeleteClose(t)
       PROVE  Shape(pc', tgt', gone') /\ PcSound(pc', tgt')
  <2>1. PICK v \in {"run", "sched"} : pc' = [pc EXCEPT ![t] = v]
    BY <1>11 DEF Suspend, Resume, DeleteClose, Goto
  <2>2. tgt' = [tgt EXCEPT ![t] = None] /\ pc[t] \in {"suspend", "resume"} \cup Dels
    BY <1>11 DEF Suspend, Resume, DeleteClose, Goto, Dels
  <2>3. t # Idle
    BY <1>1, <2>2 DEF PcSound, Dels
  <2>4. gone' \subseteq Thread
    <3>1. tgt[t] \in Thread
      BY <1>1, <1>2, <2>2 DEF PcSound
    <3> QED
      BY <1>2, <1>11, <3>1 DEF Suspend, Resume, DeleteClose
  <2>5. v \in PCs /\ v \notin {"suspend", "resume"} \cup Dels
    BY <2>1 DEF PCs, Dels
  <2>6. Shape([pc EXCEPT ![t] = v], [tgt EXCEPT ![t] = None], gone)
        /\ PcSound([pc EXCEPT ![t] = v], [tgt EXCEPT ![t] = None])
    BY <1>1, <1>2, <2>3, <2>5, PcMove
  <2> QED
    BY <1>3, <2>1, <2>2, <2>4, <2>6
<1>12. ASSUME NEW t \in Thread, DeleteUnlink(t) \/ DeleteTimer(t)
       PROVE  Shape(pc', tgt', gone') /\ PcSound(pc', tgt')
  <2>1. PICK v \in {"del_timer", "del_close"} : pc' = [pc EXCEPT ![t] = v]
    BY <1>12 DEF DeleteUnlink, DeleteTimer, Goto
  <2>2. tgt' = tgt /\ gone' = gone /\ pc[t] \in Dels
    BY <1>12 DEF DeleteUnlink, DeleteTimer, Goto, Dels
  <2>3. t # Idle
    BY <1>1, <2>2 DEF PcSound, Dels
  <2>4. v \in PCs /\ v \in Dels
    BY <2>1 DEF PCs, Dels
  <2> QED
    BY <1>1, <2>1, <2>2, <2>3, <2>4, PcOnly
<1>13. ASSUME NEW t \in Thread, ThreadYield(t) \/ EnterCritical(t) \/ ThreadExit(t)
                                \/ \E u \in Thread, p \in 0 .. MaxPrio - 1 : SetPriority(t, u, p)
       PROVE  Shape(pc', tgt', gone') /\ PcSound(pc', tgt')
  <2>1. UNCHANGED <<pc, tgt>> /\ gone' \subseteq Thread
    BY <1>2, <1>13 DEF ThreadYield, EnterCritical, ThreadExit, SetPriority
  <2> QED
    BY <1>4, <2>1
<1>14. ASSUME Reclaim PROVE Shape(pc', tgt', gone') /\ PcSound(pc', tgt')
  <2>1. Head(k.wait["defunct"]) \in Thread
    <3>1. k.wait["defunct"] \in Seq(Thread)
      BY InvFacts, KernelFields, ThreadsAssumption
    <3> QED
      BY <1>14, <3>1 DEF Reclaim
  <2> QED
    BY <1>2, <1>4, <1>14, <2>1 DEF Reclaim
<1>15. ASSUME Interrupt PROVE Shape(pc', tgt', gone') /\ PcSound(pc', tgt')
  BY <1>2, <1>4, <1>15 DEF Interrupt, TickSlice, TickTimeout
<1> QED
  BY <1>5, <1>6, <1>7, <1>8, <1>9, <1>10, <1>11, <1>12, <1>13, <1>14, <1>15 DEF Next, Step

\* What an action has to establish, besides the rules for pc and tgt.
Kept ==
  /\ k'.lock <= MaxNest
  /\ Prepared(k', pc', tgt', gone')
  /\ CurRuns(k', pc')

\* No thread in a ready list is more urgent than the current one ...
Urgent(x) == \A p \in Prio : Ready(x, p) # {} => x.prio[x.cur] <= p

\* ... unless the scheduler is locked or about to be called.
MostUrgent(x, c) == x.lock = 0 /\ c[x.cur] \notin {"sched", "sleep"} => Urgent(x)

\* What does not exist is closed, and what is closed waits for the idle thread,
\* or does not exist, or will be dealt with by rt_thread_delete.
Ended(x, c, g, G) ==
  /\ \A t \in G : x.stat[t] = "CLOSE"
  /\ \A t \in Thread : x.stat[t] = "CLOSE" =>
       t \in G \/ t \in DyingOf(c, g) \/ t \in Waiting(x, "defunct")

Alive == {"READY", "RUNNING"}

\* A thread deletes only threads that are not more urgent than itself, or has
\* locked the scheduler.
Deleter(x, c, g) ==
  \A t \in Thread : c[t] \in Dels =>
    /\ x.stat[t] \in Alive
    /\ x.stat[g[t]] \in Alive => x.prio[t] <= x.prio[g[t]] \/ (x.lock # 0 /\ x.cur = t)

\* What an action does to the order of the threads and to those that end.
Moved ==
  /\ k.lock # 0 => k'.cur = k.cur
  /\ "priority" \notin Calls /\ MostUrgent(k, pc) => MostUrgent(k', pc')
  /\ "suspend" \notin Calls /\ Ended(k, pc, tgt, gone) => Ended(k', pc', tgt', gone')
  /\ /\ "priority" \notin Calls /\ "suspend" \notin Calls
     /\ MostUrgent(k, pc) /\ Deleter(k, pc, tgt)
     => Deleter(k', pc', tgt')

\* rt_schedule.
LEMMA ScheduleMoves ==
  ASSUME NEW x, NEW c, NEW g, NEW G, Prepared(x, c, g, G), Shape(c, g, G), PcSound(c, g),
         NEW r, KernelSound(r, DyingOf(c, g)), Scheduled(x, r)
  PROVE  /\ x.lock # 0 => r.cur = x.cur
         /\ r.lock = 0 => Urgent(r)
         /\ Ended(x, c, g, G) => Ended(r, c, g, G)
         /\ Deleter(x, c, g) => Deleter(r, c, g)
<1> DEFINE D == DyingOf(c, g)
<1>1. /\ KernelSound(x, D) /\ CurSound(x, c) /\ DyingSound(x, D)
  BY DEF Prepared
<1>2. /\ x.cur \in Thread /\ x.stat \in [Thread -> Stat] /\ x.prio \in [Thread -> Prio]
      /\ "defunct" \in Queue
  BY PreparedFields
<1>3. r.cur \in Thread /\ r.stat \in [Thread -> Stat]
  BY KernelFields DEF KernelSound, ListType
<1>4. /\ r.lock = x.lock /\ r.prio = x.prio
      /\ Waiting(r, "defunct") = Waiting(x, "defunct")
      /\ \A t \in Thread \ {x.cur, r.cur} : r.stat[t] = x.stat[t]
      /\ r.cur = x.cur => r.stat[x.cur] = x.stat[x.cur]
      /\ r.cur # x.cur => /\ x.lock = 0
                          /\ x.stat[r.cur] = "READY" /\ r.stat[r.cur] = "RUNNING"
                          /\ r.stat[x.cur] = DemotedStat(x)
  BY <1>2 DEF Scheduled
<1>5. x.grp = {} => x.stat[x.cur] = "RUNNING"
  <2>1. Idle \in Thread /\ Idle \notin D
    BY <1>1, KernelAssumption DEF DyingSound
  <2>2. x.cur # Idle => Idle \in Ready(x, x.prio[Idle])
    BY <1>1, <2>1 DEF CurSound, KernelSound, LinksSound
  <2>3. x.grp = {} => x.cur = Idle
    BY <1>1, <1>2, <2>1, <2>2 DEF KernelSound, LinksSound
  <2> QED
    BY <1>1, <2>3 DEF CurSound
<1>6. r.lock = 0 => Urgent(r)
  BY <1>4, <1>5 DEF Scheduled, Urgent
<1>7. \A t \in Thread : /\ r.stat[t] = "CLOSE" <=> x.stat[t] = "CLOSE"
                        /\ r.stat[t] \in Alive <=> x.stat[t] \in Alive
  BY <1>2, <1>3, <1>4 DEF DemotedStat, Alive
<1>8. Ended(x, c, g, G) => Ended(r, c, g, G)
  BY <1>4, <1>7 DEF Ended, Shape
<1>9. \A t \in Thread : c[t] \in Dels => g[t] \in Thread
  BY DEF PcSound, Shape
<1>10. Deleter(x, c, g) => Deleter(r, c, g)
  BY <1>4, <1>7, <1>9 DEF Deleter
<1> QED
  BY <1>4, <1>6, <1>8, <1>10

\* A step in pc and tgt that neither begins nor ends a deletion.
LEMMA PcMoves ==
  ASSUME NEW x, NEW c, NEW g, NEW G, NEW d, NEW h,
         \A s \in Thread : d[s] \in Dels \/ c[s] \in Dels => d[s] = c[s] /\ h[s] = g[s]
  PROVE  /\ Ended(x, c, g, G) => Ended(x, d, h, G)
         /\ Deleter(x, c, g) => Deleter(x, d, h)
<1>1. DyingOf(d, h) = DyingOf(c, g)
  BY DEF DyingOf, Dels
<1>2. Deleter(x, c, g) => Deleter(x, d, h)
  BY DEF Deleter
<1> QED
  BY <1>1, <1>2 DEF Ended

\* Steps that change no list and no state of a thread.
LEMMA FieldsMove ==
  ASSUME NEW x, NEW c, NEW g, NEW G, NEW r, Shape(c, g, G),
         r.wait = x.wait, r.stat = x.stat, r.prio = x.prio,
         \A t \in Thread : c[t] \in Dels /\ x.lock # 0 /\ x.cur = t => r.lock # 0 /\ r.cur = t
  PROVE  /\ Ended(x, c, g, G) => Ended(r, c, g, G)
         /\ Deleter(x, c, g) => Deleter(r, c, g)
<1>1. Waiting(r, "defunct") = Waiting(x, "defunct")
  BY DEF Waiting
<1>2. Deleter(x, c, g) => Deleter(r, c, g)
  BY DEF Deleter
<1> QED
  BY <1>1, <1>2 DEF Ended

\* A thread that is neither closed nor deletes another is put aside.
LEMMA AsideMoves ==
  ASSUME NEW x, NEW c, NEW g, NEW G, Prepared(x, c, g, G), Shape(c, g, G), PcSound(c, g),
         NEW t \in Thread, NEW r, Aside(x, r, t, "SUSPEND"), x.stat[t] # "CLOSE",
         c[t] \notin Dels, \A s \in Thread : s # t => r.prio[s] = x.prio[s],
         r.prio[t] = x.prio[t] \/ \A s \in Thread : g[s] # t
  PROVE  /\ Ended(x, c, g, G) => Ended(r, c, g, G)
         /\ Deleter(x, c, g) => Deleter(r, c, g)
<1>1. /\ x.stat \in [Thread -> Stat] /\ "defunct" \in Queue
      /\ Waiting(x, "defunct") \subseteq Thread
  BY PreparedFields
<1>2. /\ r.cur = x.cur /\ r.lock = x.lock
      /\ Waiting(r, "defunct") = Waiting(x, "defunct") \ {t}
      /\ \A s \in Thread : s # t => r.stat[s] = x.stat[s]
      /\ r.stat[t] = "SUSPEND"
  BY <1>1 DEF Aside
<1>3. Ended(x, c, g, G) => Ended(r, c, g, G)
  BY <1>2 DEF Ended, Shape
<1>4. \A s \in Thread : c[s] \in Dels => g[s] \in Thread /\ s # t
  BY DEF PcSound, Shape
<1>5. Deleter(x, c, g) => Deleter(r, c, g)
  BY <1>2, <1>4 DEF Deleter, Alive
<1> QED
  BY <1>3, <1>5

\* A thread that exists and that nobody deletes is woken.
LEMMA WokenMoves ==
  ASSUME NEW x, NEW c, NEW g, NEW G, Prepared(x, c, g, G), Shape(c, g, G), PcSound(c, g),
         NEW t \in Thread, NEW r, Woken(x, r, t),
         \A s \in Thread : c[s] \in Dels => g[s] # t
  PROVE  /\ x.stat[t] # "CLOSE" /\ Ended(x, c, g, G) => Ended(r, c, g, G)
         /\ Deleter(x, c, g) => Deleter(r, c, g)
<1>1. /\ x.stat \in [Thread -> Stat] /\ "defunct" \in Queue
  BY PreparedFields
<1>2. /\ r.cur = x.cur /\ r.lock = x.lock /\ r.prio = x.prio
      /\ Waiting(r, "defunct") = Waiting(x, "defunct") \ {t}
      /\ \A s \in Thread : s # t => r.stat[s] = x.stat[s]
      /\ r.stat[t] \in Alive
  BY <1>1 DEF Woken, InsertedStat, Alive
<1>3. ASSUME x.stat[t] # "CLOSE", Ended(x, c, g, G) PROVE Ended(r, c, g, G)
  BY <1>2, <1>3 DEF Ended, Shape, Alive
<1>4. \A s \in Thread : c[s] \in Dels => g[s] \in Thread /\ g[s] # t
  BY DEF PcSound, Shape
<1>5. Deleter(x, c, g) => Deleter(r, c, g)
  BY <1>2, <1>4 DEF Deleter
<1> QED
  BY <1>3, <1>5

\* rt_thread_yield and the end of a time slice.
LEMMA YieldKeeps ==
  ASSUME ThreadsInv, k' = YieldCurrent(k), UNCHANGED <<pc, tgt, gone>>
  PROVE  Kept /\ Moved
<1> DEFINE r == YieldCurrent(k)
<1>1. /\ k.lock <= MaxNest /\ Shape(pc, tgt, gone)
      /\ Prepared(k, pc, tgt, gone) /\ CurRuns(k, pc)
      /\ KernelSound(k, DyingOf(pc, tgt)) /\ k.stat[k.cur] # "READY"
  BY InvFacts
<1>2. KernelSound(r, DyingOf(pc, tgt)) /\ Scheduled(k, r)
  BY <1>1, YieldSound
<1> HIDE DEF r
<1>3. /\ Prepared(r, pc, tgt, gone)
      /\ k.lock = 0 => r.stat[r.cur] = "RUNNING"
      /\ k.lock # 0 => r.cur = k.cur /\ r.stat[r.cur] = k.stat[k.cur]
  BY <1>1, <1>2, ScheduleKeeps
<1>4. r.lock = k.lock
  BY <1>2 DEF Scheduled
<1>5. CurRuns(r, pc)
  BY <1>1, <1>3 DEF CurRuns
<1>6. k' = r
  BY DEF r
<1>7. Moved
  <2>1. /\ k.lock # 0 => r.cur = k.cur
        /\ r.lock = 0 => Urgent(r)
        /\ Ended(k, pc, tgt, gone) => Ended(r, pc, tgt, gone)
        /\ Deleter(k, pc, tgt) => Deleter(r, pc, tgt)
    BY <1>1, <1>2, ScheduleMoves, InvFacts
  <2> QED
    BY <1>6, <2>1 DEF Moved, MostUrgent
<1> QED
  BY <1>7, <1>1, <1>3, <1>4, <1>5, <1>6 DEF Kept

\* The rt_schedule at the end of a call.
LEMMA CallScheduleKeeps ==
  ASSUME ThreadsInv, Next, NEW t \in Thread, CallSchedule(t)
  PROVE  Kept /\ Moved
<1> DEFINE r == Schedule(k)
<1>1. /\ k.lock <= MaxNest /\ Shape(pc, tgt, gone)
      /\ Prepared(k, pc, tgt, gone) /\ CurRuns(k, pc)
      /\ k.cur = t
  BY InvFacts DEF CallSchedule, Goto
<1>2. Shape(pc', tgt', gone')
  BY PcNext
<1>3. /\ tgt' = tgt /\ gone' = gone /\ k' = r
      /\ pc[t] \in {"sched", "sleep"} /\ pc'[t] \in {"run", "woken"}
      /\ \A s \in Thread : s # t => pc'[s] = pc[s]
  BY <1>1 DEF CallSchedule, Goto, Shape
<1>4. Prepared(k, pc', tgt', gone')
  <2>1. /\ \A s \in Thread : pc'[s] \in Dels \/ pc[s] \in Dels => pc'[s] = pc[s] /\ tgt'[s] = tgt[s]
        /\ \A s \in Thread : pc'[s] = "resume" => pc[s] = "resume" /\ tgt'[s] = tgt[s]
    BY <1>3 DEF Dels
  <2>2. k.lock # 0 => pc'[k.cur] \notin {"suspend", "sleep"}
    BY <1>1, <1>3
  <2>3. pc' \in [Thread -> PCs]
    BY <1>2 DEF Shape
  <2> QED
    BY <1>1, <1>3, <2>1, <2>2, <2>3, PcKeeps
<1>5. /\ KernelSound(k, DyingOf(pc', tgt')) /\ k.stat[k.cur] # "READY"
      /\ k.lock # 0 => k.stat[k.cur] = "RUNNING"
  BY <1>4 DEF Prepared, CurSound
<1>6. KernelSound(r, DyingOf(pc', tgt')) /\ Scheduled(k, r)
  BY <1>5, ScheduleSound
<1> HIDE DEF r
<1>7. /\ Prepared(r, pc', tgt', gone')
      /\ k.lock = 0 => r.stat[r.cur] = "RUNNING"
      /\ k.lock # 0 => r.cur = k.cur /\ r.stat[r.cur] = k.stat[k.cur]
  BY <1>2, <1>4, <1>6, ScheduleKeeps
<1>8. r.lock = k.lock
  BY <1>6 DEF Scheduled
<1>9. CurRuns(r, pc')
  BY <1>5, <1>7 DEF CurRuns
<1>10. Moved
  <2>1. /\ k.lock # 0 => r.cur = k.cur
        /\ r.lock = 0 => Urgent(r)
        /\ Ended(k, pc', tgt', gone') => Ended(r, pc', tgt', gone')
        /\ Deleter(k, pc', tgt') => Deleter(r, pc', tgt')
    BY <1>2, <1>4, <1>6, ScheduleMoves, PcNext
  <2>2. \A s \in Thread : pc'[s] \in Dels \/ pc[s] \in Dels => pc'[s] = pc[s] /\ tgt'[s] = tgt[s]
    BY <1>3 DEF Dels
  <2>3. /\ Ended(k, pc, tgt, gone) => Ended(k, pc', tgt', gone)
        /\ Deleter(k, pc, tgt) => Deleter(k, pc', tgt')
    BY <2>2, PcMoves
  <2> QED
    BY <1>3, <2>1, <2>3 DEF Moved, MostUrgent
<1> QED
  BY <1>10, <1>1, <1>3, <1>7, <1>8, <1>9 DEF Kept

\* Steps that change the lock or an error.
LEMMA FieldsKeep ==
  ASSUME NEW x, NEW c, NEW g, NEW G, Prepared(x, c, g, G), NEW r \in KernelType,
         r.cur = x.cur, r.rdy = x.rdy, r.grp = x.grp, r.wait = x.wait,
         r.stat = x.stat, r.prio = x.prio, r.tmr = x.tmr,
         r.lock # 0 => x.stat[x.cur] = "RUNNING" /\ c[x.cur] \notin {"suspend", "sleep"}
  PROVE  Prepared(r, c, g, G)
<1>1. KernelSound(r, DyingOf(c, g))
  BY SoundFields DEF Prepared
<1>2. /\ \A p : Ready(r, p) = Ready(x, p)
      /\ \A q : Waiting(r, q) = Waiting(x, q)
  BY DEF Ready, Waiting
<1>3. CurSound(r, c)
  BY DEF Prepared, CurSound
<1>4. DyingSound(r, DyingOf(c, g))
  BY <1>2 DEF Prepared, DyingSound, Detached
<1>5. EndSound(r, c, g, G)
  BY <1>2 DEF Prepared, EndSound
<1>6. AwakeSound(r, c, g, G)
  BY <1>2 DEF Prepared, AwakeSound
<1> QED
  BY <1>1, <1>3, <1>4, <1>5, <1>6 DEF Prepared

\* The end of rt_thread_sleep, rt_enter_critical and rt_exit_critical.
LEMMA CriticalKeeps ==
  ASSUME ThreadsInv, Next, NEW t \in Thread,
         SleepReturn(t) \/ EnterCritical(t) \/ ExitCritical(t)
  PROVE  Kept /\ Moved
<1>1. /\ k.lock <= MaxNest /\ Shape(pc, tgt, gone) /\ k \in KernelType
      /\ Prepared(k, pc, tgt, gone) /\ CurRuns(k, pc)
      /\ k.cur = t
      /\ pc[t] \in {"run", "woken"} => k.stat[k.cur] = "RUNNING"
  BY InvFacts DEF SleepReturn, EnterCritical, ExitCritical, Goto, Caller
<1>2. Shape(pc', tgt', gone')
  BY PcNext
<1>3. /\ tgt' = tgt /\ gone' = gone
      /\ pc[t] \in {"run", "woken"} /\ pc'[t] \in {"run", "sched"}
      /\ \A s \in Thread : s # t => pc'[s] = pc[s]
  BY <1>1 DEF SleepReturn, EnterCritical, ExitCritical, Goto, Caller, Shape
<1>4. Prepared(k, pc', tgt', gone')
  <2>1. /\ \A s \in Thread : pc'[s] \in Dels \/ pc[s] \in Dels => pc'[s] = pc[s] /\ tgt'[s] = tgt[s]
        /\ \A s \in Thread : pc'[s] = "resume" => pc[s] = "resume" /\ tgt'[s] = tgt[s]
    BY <1>3 DEF Dels
  <2>2. k.lock # 0 => pc'[k.cur] \notin {"suspend", "sleep"}
    BY <1>1, <1>3
  <2>3. pc' \in [Thread -> PCs]
    BY <1>2 DEF Shape
  <2> QED
    BY <1>1, <1>3, <2>1, <2>2, <2>3, PcKeeps
<1>5. /\ k' \in KernelType
      /\ k'.cur = k.cur /\ k'.rdy = k.rdy /\ k'.grp = k.grp /\ k'.wait = k.wait
      /\ k'.stat = k.stat /\ k'.prio = k.prio /\ k'.tmr = k.tmr
      /\ k'.lock <= MaxNest
  <2>1. CASE SleepReturn(t)
    <3>1. k' = [k EXCEPT !.err[t] = IF k.err[t] = "ETIMEOUT" THEN "EOK" ELSE k.err[t]]
      BY <1>1, <2>1 DEF SleepReturn, KernelType
    <3> DEFINE e == [k.err EXCEPT ![t] = IF k.err[t] = "ETIMEOUT" THEN "EOK" ELSE k.err[t]]
    <3>2. e \in [Thread -> Error]
      <4>1. k.err \in [Thread -> Error]
        BY <1>1, KernelFields
      <4> QED
        BY <4>1 DEF Error
    <3>3. k' = [k EXCEPT !.err = e]
      BY <1>1, <3>1 DEF KernelType
    <3> HIDE DEF e
    <3> QED
      BY <1>1, <3>2, <3>3 DEF KernelType
  <2>2. CASE EnterCritical(t)
    <3>1. k.lock \in Nat /\ MaxNest \in Nat
      BY <1>1, KernelFields, ThreadsAssumption
    <3> DEFINE n == k.lock + 1
    <3>2. n \in Nat /\ n <= MaxNest
      BY <2>2, <3>1 DEF EnterCritical
    <3>3. k' = [k EXCEPT !.lock = n]
      BY <2>2 DEF EnterCritical
    <3> HIDE DEF n
    <3> QED
      BY <1>1, <3>2, <3>3 DEF KernelType
  <2>3. CASE ExitCritical(t)
    <3>1. k.lock \in Nat /\ MaxNest \in Nat
      BY <1>1, KernelFields, ThreadsAssumption
    <3> DEFINE n == IF k.lock <= 1 THEN 0 ELSE k.lock - 1
    <3>2. n \in Nat /\ n <= MaxNest
      BY <1>1, <3>1
    <3>3. k' = [k EXCEPT !.lock = n]
      BY <2>3 DEF ExitCritical
    <3> HIDE DEF n
    <3> QED
      BY <1>1, <3>2, <3>3 DEF KernelType
  <2> QED
    BY <2>1, <2>2, <2>3
<1>6. Prepared(k', pc', tgt', gone')
  BY <1>1, <1>3, <1>4, <1>5, FieldsKeep
<1>7. CurRuns(k', pc')
  BY <1>1, <1>3, <1>5 DEF CurRuns
<1>8. Moved
  <2>1. /\ Ended(k, pc, tgt, gone) => Ended(k', pc, tgt, gone)
        /\ Deleter(k, pc, tgt) => Deleter(k', pc, tgt)
    <3>1. pc[t] \notin Dels
      BY <1>3 DEF Dels
    <3> QED
      BY <1>1, <1>5, <3>1, FieldsMove
  <2>2. \A s \in Thread : pc'[s] \in Dels \/ pc[s] \in Dels => pc'[s] = pc[s] /\ tgt'[s] = tgt[s]
    BY <1>3 DEF Dels
  <2>3. /\ Ended(k', pc, tgt, gone) => Ended(k', pc', tgt', gone)
        /\ Deleter(k', pc, tgt) => Deleter(k', pc', tgt')
    BY <2>2, PcMoves
  <2>4. MostUrgent(k, pc) => MostUrgent(k', pc')
    <3>1. \A p : Ready(k', p) = Ready(k, p)
      BY <1>5 DEF Ready
    <3>2. Urgent(k) => Urgent(k')
      BY <1>5, <3>1 DEF Urgent
    <3>3. k.lock \in Nat
      BY <1>1, KernelFields
    <3>4. CASE SleepReturn(t)
      <4>1. k'.lock = k.lock /\ pc[t] = "woken"
        BY <1>1, <3>4 DEF SleepReturn, Goto, KernelType
      <4> QED
        BY <1>1, <3>2, <4>1 DEF MostUrgent
    <3>5. CASE EnterCritical(t)
      <4>1. k'.lock # 0
        BY <1>1, <3>3, <3>5 DEF EnterCritical, KernelType
      <4> QED
        BY <4>1 DEF MostUrgent
    <3>6. CASE ExitCritical(t)
      <4>1. k'.lock = 0 => pc'[t] = "sched"
        <5>1. pc' = [pc EXCEPT ![t] = IF k.lock <= 1 THEN "sched" ELSE "run"]
          BY <3>6 DEF ExitCritical, Goto
        <5>2. k'.lock = IF k.lock <= 1 THEN 0 ELSE k.lock - 1
          BY <1>1, <3>6 DEF ExitCritical, KernelType
        <5> QED
          BY <1>1, <3>3, <5>1, <5>2 DEF Shape
      <4> QED
        BY <1>1, <1>5, <4>1 DEF MostUrgent
    <3> QED
      BY <3>4, <3>5, <3>6
  <2> QED
    BY <1>3, <1>5, <2>1, <2>3, <2>4 DEF Moved
<1> QED
  BY <1>8, <1>5, <1>6, <1>7 DEF Kept

\* rt_thread_suspend and rt_thread_resume read stat.
LEMMA CheckKeeps ==
  ASSUME ThreadsInv, Next, NEW t \in Thread, NEW u \in Thread,
         SuspendCheck(t, u) \/ ResumeCheck(t, u)
  PROVE  Kept /\ Moved
<1>1. /\ k.lock <= MaxNest /\ Shape(pc, tgt, gone)
      /\ Prepared(k, pc, tgt, gone) /\ CurRuns(k, pc)
      /\ k.cur = t /\ pc[t] = "run" /\ k.stat[k.cur] = "RUNNING"
  BY InvFacts DEF SuspendCheck, ResumeCheck, Goto, Caller
<1>2. Shape(pc', tgt', gone') /\ k' = k /\ gone' = gone /\ u \notin gone
  BY PcNext DEF SuspendCheck, ResumeCheck, Available
<1>3. pc' \in [Thread -> PCs]
  BY <1>2 DEF Shape
<1>4. \A s \in Thread : s # t => pc'[s] = pc[s] /\ tgt'[s] = tgt[s]
  BY <1>1 DEF SuspendCheck, ResumeCheck, Goto, Shape
<1>5. ASSUME SuspendCheck(t, u) PROVE Kept
  <2>1. pc'[t] = "suspend" /\ k.lock = 0
    BY <1>1, <1>5 DEF SuspendCheck, Goto, Shape
  <2>2. /\ \A s \in Thread : pc'[s] \in Dels \/ pc[s] \in Dels => pc'[s] = pc[s] /\ tgt'[s] = tgt[s]
        /\ \A s \in Thread : pc'[s] = "resume" => pc[s] = "resume" /\ tgt'[s] = tgt[s]
    BY <1>1, <1>4, <2>1 DEF Dels
  <2>3. Prepared(k, pc', tgt', gone)
    BY <1>1, <1>3, <2>1, <2>2, PcKeeps
  <2> QED
    BY <1>1, <1>2, <2>3 DEF Kept, CurRuns
<1>6. ASSUME ResumeCheck(t, u) PROVE Kept
  <2>1. pc'[t] = "resume" /\ tgt'[t] = u /\ k.stat[u] = "SUSPEND"
    BY <1>1, <1>6 DEF ResumeCheck, Goto, Shape
  <2>2. DyingOf(pc', tgt') = DyingOf(pc, tgt)
    <3>1. \A s \in Thread : pc'[s] \in {"del_timer", "del_close"} \/ pc[s] \in {"del_timer", "del_close"}
                              => pc'[s] = pc[s] /\ tgt'[s] = tgt[s]
      BY <1>1, <1>4, <2>1
    <3> QED
      BY <3>1 DEF DyingOf
  <2>3. CurSound(k, pc')
    BY <1>1, <2>1 DEF Prepared, CurSound
  <2>4. \A y \in Waiting(k, "defunct") : y \in Thread
    BY <1>1, PreparedFields
  <2>5. EndSound(k, pc', tgt', gone)
    BY <1>1, <1>2, <1>4, <2>1, <2>4 DEF Prepared, EndSound, Dels
  <2>6. AwakeSound(k, pc', tgt', gone)
    BY <1>1, <1>4, <2>1 DEF Prepared, AwakeSound, Dels
  <2>7. Prepared(k, pc', tgt', gone)
    BY <1>1, <2>2, <2>3, <2>5, <2>6 DEF Prepared
  <2> QED
    BY <1>1, <1>2, <2>7 DEF Kept, CurRuns
<1>7. Moved
  <2>1. pc'[t] \in {"suspend", "resume"}
    BY <1>1 DEF SuspendCheck, ResumeCheck, Goto, Shape
  <2>2. \A s \in Thread : pc'[s] \in Dels \/ pc[s] \in Dels => pc'[s] = pc[s] /\ tgt'[s] = tgt[s]
    BY <1>1, <1>4, <2>1 DEF Dels
  <2>3. /\ Ended(k, pc, tgt, gone) => Ended(k, pc', tgt', gone)
        /\ Deleter(k, pc, tgt) => Deleter(k, pc', tgt')
    BY <2>2, PcMoves
  <2> QED
    BY <1>1, <1>2, <2>3 DEF Moved, MostUrgent
<1> QED
  BY <1>7, <1>5, <1>6

\* rt_thread_delete reads stat: a thread that was not started is not unlinked.
LEMMA DeleteCheckKeeps ==
  ASSUME ThreadsInv, Next, NEW t \in Thread, NEW u \in Thread, DeleteCheck(t, u)
  PROVE  Kept /\ Moved
<1>1. /\ k.lock <= MaxNest /\ Shape(pc, tgt, gone) /\ PcSound(pc, tgt)
      /\ Prepared(k, pc, tgt, gone) /\ CurRuns(k, pc)
      /\ k.cur = t /\ pc[t] = "run" /\ k.stat[k.cur] = "RUNNING"
  BY InvFacts DEF DeleteCheck, Goto, Caller
<1>2. Shape(pc', tgt', gone') /\ k' = k /\ gone' = gone /\ u \notin gone /\ u # Idle /\ u # t
  BY PcNext DEF DeleteCheck, Available, Untouched
<1>3. \A s \in Thread : s # t => pc'[s] = pc[s] /\ tgt'[s] = tgt[s]
  BY <1>1 DEF DeleteCheck, Goto, Shape
<1>4. /\ pc'[t] = IF k.stat[u] = "INIT" THEN "del_timer" ELSE "del_unlink"
      /\ tgt'[t] = u
  BY <1>1 DEF DeleteCheck, Goto, Shape
<1>5. \A s \in Thread : pc[s] \notin Dels
  BY <1>1 DEF DeleteCheck, PcSound
<1>6. /\ DyingOf(pc, tgt) = {}
      /\ DyingOf(pc', tgt') = IF k.stat[u] = "INIT" THEN {u} ELSE {}
  BY <1>3, <1>4, <1>5 DEF DyingOf, Dels
<1>7. KernelSound(k, DyingOf(pc', tgt'))
  BY <1>1, <1>6, SoundMore DEF Prepared
<1>8. CurSound(k, pc')
  BY <1>1, <1>4 DEF Prepared, CurSound
<1>9. /\ \A y \in Waiting(k, "defunct") : y \in Thread /\ k.stat[y] = "CLOSE"
      /\ \A y \in gone : k.stat[y] # "RUNNING"
      /\ Queue = {"defunct"}
  BY <1>1, PreparedFields DEF Prepared, EndSound
<1>10. DyingSound(k, DyingOf(pc', tgt'))
  <2>1. k.stat[u] = "INIT" => Detached(k, u)
    BY <1>1, <1>9 DEF Prepared, KernelSound, LinksSound, Detached
  <2> QED
    BY <1>1, <1>2, <1>6, <2>1 DEF DyingSound
<1>11. EndSound(k, pc', tgt', gone)
  BY <1>1, <1>3, <1>4, <1>9 DEF Prepared, EndSound
<1>12. AwakeSound(k, pc', tgt', gone)
  BY <1>1, <1>2, <1>3, <1>4 DEF Prepared, AwakeSound
<1>13. Prepared(k, pc', tgt', gone)
  BY <1>7, <1>8, <1>10, <1>11, <1>12 DEF Prepared
<1>14. Moved
  <2>1. Ended(k, pc, tgt, gone) => Ended(k, pc', tgt', gone)
    BY <1>6 DEF Ended
  <2>2. MostUrgent(k, pc) => MostUrgent(k, pc')
    BY <1>1 DEF MostUrgent
  <2>3. ASSUME MostUrgent(k, pc) PROVE Deleter(k, pc', tgt')
    <3>1. k.stat[u] \in Alive => k.stat[u] = "READY" /\ u \in Ready(k, k.prio[u]) /\ k.prio[u] \in Prio
      <4>1. k.prio \in [Thread -> Prio]
        BY <1>1, PreparedFields
      <4> QED
        BY <1>1, <1>2, <1>6, <4>1 DEF Prepared, KernelSound, LinksSound, Alive
    <3>2. k.stat[u] \in Alive => k.prio[t] <= k.prio[u] \/ (k.lock # 0 /\ k.cur = t)
      BY <1>1, <2>3, <3>1 DEF MostUrgent, Urgent
    <3> QED
      BY <1>1, <1>3, <1>4, <1>5, <3>2 DEF Deleter, Alive
  <2> QED
    BY <1>2, <2>1, <2>2, <2>3 DEF Moved
<1> QED
  BY <1>14, <1>1, <1>2, <1>13 DEF Kept, CurRuns

\* rt_thread_create and rt_thread_init.
LEMMA CreateKeeps ==
  ASSUME ThreadsInv, Next, NEW t \in Thread, NEW u \in Thread, Create(t, u)
  PROVE  Kept /\ Moved
<1>1. /\ k.lock <= MaxNest /\ Shape(pc, tgt, gone) /\ PcSound(pc, tgt)
      /\ Prepared(k, pc, tgt, gone) /\ k \in KernelType
      /\ k.cur = t /\ pc[t] = "run" /\ k.stat[k.cur] = "RUNNING"
  BY InvFacts DEF Create, Caller
<1>2. /\ u \in gone /\ u # Idle /\ gone' = gone \ {u}
      /\ \A s \in Thread : tgt[s] # u
      /\ pc' = [pc EXCEPT ![u] = "run"] /\ tgt' = [tgt EXCEPT ![u] = None]
  BY DEF Create, Untouched
<1>3. /\ KernelSound(k, DyingOf(pc, tgt)) /\ CurSound(k, pc)
      /\ DyingSound(k, DyingOf(pc, tgt))
      /\ EndSound(k, pc, tgt, gone) /\ AwakeSound(k, pc, tgt, gone)
  BY <1>1 DEF Prepared
<1>4. /\ k.stat \in [Thread -> Stat] /\ k.prio \in [Thread -> Prio] /\ k.err \in [Thread -> Error]
      /\ k.yld \subseteq Thread /\ Queue = {"defunct"} /\ InitPrio \in [Thread -> Prio]
      /\ InitPrio[u] < MaxPrio /\ InitPrio[u] \in Prio
      /\ \A q \in Queue : Waiting(k, q) \subseteq Thread
  BY <1>1, <1>2, KernelFields, ThreadsAssumption
<1>5. /\ \A s \in Thread : s # u => pc'[s] = pc[s] /\ tgt'[s] = tgt[s]
      /\ pc'[u] = "run" /\ pc[u] \notin Dels /\ u # t
      /\ \A p \in Prio : u \notin Ready(k, p)
      /\ u \notin Waiting(k, "defunct") /\ u \notin k.tmr
  <2>1. pc[u] \notin Dels /\ u # t /\ u \notin Waiting(k, "defunct") /\ u \notin k.tmr
    BY <1>1, <1>2, <1>3 DEF EndSound
  <2>2. \A p \in Prio : u \notin Ready(k, p)
    BY <1>2, <1>3 DEF EndSound, KernelSound, LinksSound
  <2> QED
    BY <1>1, <1>2, <2>1, <2>2 DEF Shape
<1>6. Detached(k, u)
  BY <1>4, <1>5 DEF Detached
<1>7. /\ k' \in KernelType
      /\ k'.cur = k.cur /\ k'.rdy = k.rdy /\ k'.grp = k.grp /\ k'.wait = k.wait
      /\ k'.lock = k.lock
      /\ k'.stat = [k.stat EXCEPT ![u] = "INIT"] /\ k'.prio = [k.prio EXCEPT ![u] = InitPrio[u]]
      /\ k'.tmr = k.tmr
  <2> DEFINE st == [k.stat EXCEPT ![u] = "INIT"]
             pr == [k.prio EXCEPT ![u] = InitPrio[u]]
             er == [k.err EXCEPT ![u] = "EOK"]
             yl == k.yld \ {u}
  <2>1. st \in [Thread -> Stat] /\ pr \in [Thread -> Prio] /\ er \in [Thread -> Error] /\ yl \subseteq Thread
    BY <1>4 DEF Stat, Error
  <2>2. k' = [k EXCEPT !.stat = st, !.yld = yl, !.err = er, !.prio = pr]
    BY <1>1 DEF Create, KernelType
  <2> HIDE DEF st, pr, er, yl
  <2>3. /\ k' \in KernelType
        /\ k'.cur = k.cur /\ k'.rdy = k.rdy /\ k'.grp = k.grp /\ k'.wait = k.wait
        /\ k'.lock = k.lock /\ k'.stat = st /\ k'.prio = pr /\ k'.tmr = k.tmr
    BY <1>1, <2>1, <2>2 DEF KernelType
  <2> QED
    BY <2>3 DEF st, pr
<1>8. DyingOf(pc', tgt') = DyingOf(pc, tgt)
  BY <1>5 DEF DyingOf, Dels
<1>9. /\ KernelSound(k', DyingOf(pc, tgt))
      /\ \A p \in Prio : Ready(k', p) = Ready(k, p)
      /\ \A q \in Queue : Waiting(k', q) = Waiting(k, q)
  <2>1. k'.tmr = k.tmr \ {u} /\ "INIT" \in Stat \ {"READY", "RUNNING"}
    BY <1>5, <1>7 DEF Stat
  <2> QED
    BY <1>3, <1>4, <1>6, <1>7, <2>1, QuietSound
<1>10. /\ \A s \in Thread : s # u => k'.stat[s] = k.stat[s] /\ k'.prio[s] = k.prio[s]
       /\ k'.stat[u] = "INIT" /\ k'.prio[u] = InitPrio[u]
  BY <1>4, <1>7
<1>11. CurSound(k', pc')
  <2>1. k.cur \in Thread /\ k.cur # u /\ Idle \in Thread
    BY <1>1, <1>5, KernelAssumption
  <2> QED
    BY <1>2, <1>3, <1>4, <1>5, <1>7, <1>10, <2>1 DEF CurSound
<1>12. DyingSound(k', DyingOf(pc, tgt))
  BY <1>3, <1>7, <1>9 DEF DyingSound, Detached
<1>13. Waiting(k', "defunct") = Waiting(k, "defunct") /\ Waiting(k, "defunct") \subseteq Thread
  BY <1>4, <1>9
<1>14. EndSound(k', pc', tgt', gone')
  <2>1. \A s \in gone' : k'.stat[s] \notin {"READY", "RUNNING"} /\ s \notin k'.tmr
    BY <1>1, <1>2, <1>3, <1>7, <1>10 DEF EndSound, Shape
  <2>2. \A s \in Waiting(k', "defunct") : k'.stat[s] = "CLOSE" /\ s \notin gone' /\ pc'[s] \notin Dels
    BY <1>2, <1>3, <1>5, <1>10, <1>13 DEF EndSound
  <2>3. /\ \A s \in Thread : pc'[s] \in Dels => s \notin gone'
        /\ \A s \in Thread : pc'[s] = "resume" => tgt'[s] \in Thread \ gone'
    BY <1>2, <1>3, <1>5 DEF EndSound, Dels
  <2> QED
    BY <1>3, <1>13, <2>1, <2>2, <2>3 DEF EndSound
<1>15. AwakeSound(k', pc', tgt', gone')
  <2>1. \A s \in Thread : pc'[s] = "resume" => pc[s] = "resume" /\ tgt'[s] = tgt[s] /\ tgt[s] \in Thread /\ tgt[s] # u
    BY <1>2, <1>3, <1>5 DEF EndSound
  <2>2. \A s \in Thread : pc'[s] \in Dels => pc[s] \in Dels /\ tgt'[s] = tgt[s]
    BY <1>5 DEF Dels
  <2> QED
    BY <1>2, <1>3, <1>7, <1>9, <1>10, <2>1, <2>2 DEF AwakeSound
<1>16. CurRuns(k', pc')
  BY <1>1, <1>5, <1>7, <1>10 DEF CurRuns
<1>17. Moved
  <2>1. k.cur \in Thread /\ k.cur # u
    BY <1>1, <1>5
  <2>2. MostUrgent(k, pc) => MostUrgent(k', pc')
    BY <1>5, <1>7, <1>9, <1>10, <2>1 DEF MostUrgent, Urgent
  <2>3. Ended(k, pc, tgt, gone) => Ended(k', pc', tgt', gone')
    BY <1>1, <1>2, <1>8, <1>10, <1>13 DEF Ended, Shape
  <2>4. Deleter(k, pc, tgt) => Deleter(k', pc', tgt')
    <3>1. \A s \in Thread : pc'[s] \in Dels => /\ pc[s] \in Dels /\ tgt'[s] = tgt[s] /\ s # u
                                              /\ tgt[s] \in Thread /\ tgt[s] # u
      BY <1>1, <1>2, <1>5 DEF Dels, PcSound, Shape
    <3> QED
      BY <1>7, <1>10, <3>1 DEF Deleter
  <2> QED
    BY <1>7, <2>2, <2>3, <2>4 DEF Moved
<1> QED
  BY <1>17, <1>1, <1>7, <1>8, <1>9, <1>11, <1>12, <1>14, <1>15, <1>16 DEF Kept, Prepared

\* rt_thread_control(RT_THREAD_CTRL_CHANGE_PRIORITY).
LEMMA SetPriorityKeeps ==
  ASSUME ThreadsInv, NEW t \in Thread, NEW u \in Thread, NEW p \in 0 .. MaxPrio - 1,
         SetPriority(t, u, p)
  PROVE  Kept /\ Moved
<1> DEFINE r == ChangePriority(k, u, p)
           D == DyingOf(pc, tgt)
<1>1. /\ k.lock <= MaxNest /\ Prepared(k, pc, tgt, gone) /\ k.stat[k.cur] # "READY"
      /\ CurRuns(k, pc)
      /\ k.cur = t /\ t # Idle
  BY InvFacts DEF SetPriority, Caller
<1>2. /\ u # Idle /\ (\A s \in Thread : tgt[s] # u)
      /\ k' = r /\ pc' = pc /\ tgt' = tgt /\ gone' = gone
  BY DEF SetPriority, Available, Untouched
<1>3. /\ KernelSound(k, D) /\ CurSound(k, pc) /\ DyingSound(k, D)
      /\ EndSound(k, pc, tgt, gone) /\ AwakeSound(k, pc, tgt, gone)
  BY <1>1 DEF Prepared
<1>4. p \in Prio /\ p < MaxPrio
  BY KernelAssumption DEF Prio
<1>5. KernelSound(r, D) /\ Reprioritised(k, r, u, p)
  BY <1>1, <1>3, <1>4, ChangePrioritySound
<1> HIDE DEF r
<1>6. /\ r.cur = k.cur /\ r.lock = k.lock /\ r.stat = k.stat
      /\ r.tmr = k.tmr /\ r.prio = [k.prio EXCEPT ![u] = p]
      /\ \A q \in Prio : Ready(r, q) \subseteq Ready(k, q) \cup {u}
      /\ \A q \in Queue : Waiting(r, q) = Waiting(k, q)
      /\ Waiting(r, "defunct") = Waiting(k, "defunct")
  BY <1>5, ThreadsAssumption DEF Reprioritised
<1>7. CurSound(r, pc)
  <2>1. k.prio \in [Thread -> Prio]
    BY <1>1, PreparedFields
  <2>2. \A s \in Thread : s # u => r.prio[s] = k.prio[s]
    BY <1>6, <2>1
  <2>3. r.prio[u] = p
    BY <1>6, <2>1
  <2> QED
    BY <1>2, <1>3, <1>4, <1>6, <2>2, <2>3, KernelAssumption DEF CurSound
<1>8. DyingSound(r, D)
  <2>1. u \notin D
    BY <1>2 DEF DyingOf
  <2> QED
    BY <1>3, <1>6, <2>1 DEF DyingSound, Detached
<1>9. EndSound(r, pc, tgt, gone)
  BY <1>3, <1>6 DEF EndSound
<1>10. AwakeSound(r, pc, tgt, gone)
  BY <1>1, <1>3, <1>6 DEF AwakeSound
<1>11. CurRuns(r, pc)
  BY <1>1, <1>6 DEF CurRuns
<1>12. Moved
  <2>1. "priority" \in Calls
    BY DEF SetPriority, Caller
  <2>2. Ended(k, pc, tgt, gone) => Ended(r, pc, tgt, gone)
    BY <1>6 DEF Ended
  <2> QED
    BY <1>2, <1>6, <2>1, <2>2 DEF Moved
<1> QED
  BY <1>12, <1>1, <1>2, <1>5, <1>6, <1>7, <1>8, <1>9, <1>10, <1>11 DEF Kept, Prepared

\* rt_thread_suspend and rt_thread_sleep with interrupts disabled.
LEMMA SuspendKeeps ==
  ASSUME ThreadsInv, Next, NEW t \in Thread, Suspend(t)
  PROVE  Kept /\ Moved
<1> DEFINE u == tgt[t]
           r == SuspendThread(k, u)
           D == DyingOf(pc, tgt)
<1>1. /\ k.lock <= MaxNest /\ Prepared(k, pc, tgt, gone) /\ Shape(pc, tgt, gone)
      /\ PcSound(pc, tgt) /\ KernelSound(k, D)
      /\ k.cur = t /\ pc[t] = "suspend" /\ k.stat[k.cur] = "RUNNING"
  BY InvFacts DEF Suspend, Goto
<1>2. /\ k' = r /\ gone' = gone /\ Shape(pc', tgt', gone')
      /\ \A s \in Thread : s # t => pc'[s] = pc[s] /\ tgt'[s] = tgt[s]
      /\ pc'[t] = IF u = t THEN "sched" ELSE "run"
  BY <1>1, PcNext DEF Suspend, Goto, Shape
<1>3. u \in Thread /\ u # Idle
  <2>1. u # None /\ u # Idle
    BY <1>1 DEF PcSound
  <2> QED
    BY <1>1, <2>1 DEF Shape
<1>4. k.lock = 0
  BY <1>1 DEF Prepared, CurSound
<1> HIDE DEF u
<1>5. /\ KernelSound(r, D)
      /\ r.cur = k.cur /\ r.lock = k.lock /\ r.prio = k.prio
      /\ r.stat = [k.stat EXCEPT ![u] = "SUSPEND"]
      /\ r.tmr = k.tmr \ {u}
      /\ \A p \in Prio : Ready(r, p) = Ready(k, p) \ {u}
      /\ \A q \in Queue : Waiting(r, q) = Waiting(k, q) \ {u}
  BY ONLY <1>1, <1>3, SuspendSound
<1> HIDE DEF r
<1>6. Aside(k, r, u, "SUSPEND") /\ u \notin r.tmr
  BY <1>5 DEF Aside
<1>7. Prepared(r, pc, tgt, gone)
  BY <1>1, <1>3, <1>4, <1>5, <1>6, AsideKeeps
<1>8. Prepared(r, pc', tgt', gone)
  <2>1. /\ \A s \in Thread : pc'[s] \in Dels \/ pc[s] \in Dels => pc'[s] = pc[s] /\ tgt'[s] = tgt[s]
        /\ \A s \in Thread : pc'[s] = "resume" => pc[s] = "resume" /\ tgt'[s] = tgt[s]
    BY <1>1, <1>2 DEF Dels
  <2>2. r.lock = 0 /\ pc' \in [Thread -> PCs]
    BY <1>2, <1>4, <1>5 DEF Shape
  <2> QED
    BY <1>7, <2>1, <2>2, PcKeeps
<1>9. CurRuns(r, pc')
  <2>1. k.stat \in [Thread -> Stat]
    BY <1>1, PreparedFields
  <2> QED
    BY <1>1, <1>2, <1>3, <1>5, <2>1 DEF CurRuns
<1>10. Moved
  <2>1. "suspend" \in Calls
    BY <1>1 DEF PcSound
  <2>2. MostUrgent(k, pc) => MostUrgent(r, pc')
    BY <1>1, <1>2, <1>5 DEF MostUrgent, Urgent
  <2> QED
    BY <1>2, <1>5, <2>1, <2>2 DEF Moved
<1> QED
  BY <1>10, <1>1, <1>2, <1>5, <1>8, <1>9 DEF Kept

\* rt_thread_sleep: suspended and timed.
LEMMA SleepKeeps ==
  ASSUME ThreadsInv, Next, NEW t \in Thread, Sleep(t)
  PROVE  Kept /\ Moved
<1> DEFINE y == SuspendThread(k, t)
           r == StartTimer(y, t)
           D == DyingOf(pc, tgt)
<1>1. /\ k.lock <= MaxNest /\ Prepared(k, pc, tgt, gone) /\ Shape(pc, tgt, gone)
      /\ KernelSound(k, D)
      /\ k.cur = t /\ t # Idle /\ pc[t] = "run" /\ k.stat[k.cur] = "RUNNING" /\ k.lock = 0
      /\ "sleep" \in Calls
  BY InvFacts DEF Sleep, Caller, Goto
<1>2. /\ k' = r /\ gone' = gone /\ tgt' = tgt /\ Shape(pc', tgt', gone')
      /\ \A s \in Thread : s # t => pc'[s] = pc[s]
      /\ pc'[t] = "sleep"
  BY <1>1, PcNext DEF Sleep, Goto, Shape
<1>3. /\ KernelSound(y, D)
      /\ y.cur = k.cur /\ y.lock = k.lock /\ y.prio = k.prio
      /\ y.stat = [k.stat EXCEPT ![t] = "SUSPEND"]
      /\ y.tmr = k.tmr \ {t}
      /\ \A p \in Prio : Ready(y, p) = Ready(k, p) \ {t}
      /\ \A q \in Queue : Waiting(y, q) = Waiting(k, q) \ {t}
  BY <1>1, SuspendSound
<1>4. r = [y EXCEPT !.tmr = y.tmr \cup {t}]
  BY DEF StartTimer
<1> HIDE DEF r, y
<1>5. y \in KernelType /\ k.stat \in [Thread -> Stat]
  BY <1>1, <1>3, PreparedFields DEF KernelSound, ListType
<1>6. /\ r \in KernelType
      /\ r.cur = y.cur /\ r.rdy = y.rdy /\ r.grp = y.grp /\ r.lock = y.lock
      /\ r.wait = y.wait /\ r.stat = y.stat /\ r.prio = y.prio
      /\ r.tmr = y.tmr \cup {t}
  BY <1>4, <1>5 DEF KernelType
<1>7. /\ \A p \in Prio : Ready(r, p) = Ready(y, p)
      /\ \A q \in Queue : Waiting(r, q) = Waiting(y, q)
  BY <1>6 DEF Ready, Waiting
<1>8. KernelSound(r, D)
  <2>1. ListType(r)
    BY <1>3, <1>6 DEF KernelSound, ListType
  <2>2. \A s \in r.tmr : r.stat[s] = "SUSPEND"
    BY <1>3, <1>5, <1>6 DEF KernelSound, LinksSound
  <2>3. \A s \in Thread \ D : r.stat[s] = "READY" => s \in Ready(r, r.prio[s])
    <3>1. \A s \in Thread : y.prio[s] \in Prio
      BY <1>5, KernelFields
    <3> QED
      BY <1>3, <1>6, <1>7, <3>1 DEF KernelSound, LinksSound
  <2>4. LinksSound(r, D)
    BY <1>3, <1>6, <1>7, <2>2, <2>3 DEF KernelSound, LinksSound
  <2> QED
    BY <2>1, <2>4 DEF KernelSound
<1>9. Aside(k, r, t, "SUSPEND")
  BY <1>3, <1>6, <1>7 DEF Aside
<1>10. t \notin gone
  BY <1>1 DEF Prepared, EndSound
<1>11. Prepared(r, pc, tgt, gone)
  BY <1>1, <1>8, <1>9, <1>10, AsideKeeps
<1>12. Prepared(r, pc', tgt', gone)
  <2>1. /\ \A s \in Thread : pc'[s] \in Dels \/ pc[s] \in Dels => pc'[s] = pc[s] /\ tgt'[s] = tgt[s]
        /\ \A s \in Thread : pc'[s] = "resume" => pc[s] = "resume" /\ tgt'[s] = tgt[s]
    BY <1>1, <1>2 DEF Dels
  <2>2. r.lock = 0 /\ pc' \in [Thread -> PCs]
    BY <1>1, <1>2, <1>3, <1>6 DEF Shape
  <2> QED
    BY <1>11, <2>1, <2>2, PcKeeps
<1>13. CurRuns(r, pc')
  BY <1>1, <1>2, <1>3, <1>5, <1>6 DEF CurRuns
<1>14. Moved
  <2>1. pc[t] \notin Dels /\ k.stat[t] # "CLOSE" /\ r.prio = k.prio
    BY <1>1, <1>3, <1>6 DEF Dels
  <2>2. /\ Ended(k, pc, tgt, gone) => Ended(r, pc, tgt, gone)
        /\ Deleter(k, pc, tgt) => Deleter(r, pc, tgt)
    BY <1>1, <1>9, <2>1, AsideMoves, InvFacts
  <2>3. \A s \in Thread : pc'[s] \in Dels \/ pc[s] \in Dels => pc'[s] = pc[s] /\ tgt'[s] = tgt[s]
    BY <1>1, <1>2 DEF Dels
  <2>4. /\ Ended(r, pc, tgt, gone) => Ended(r, pc', tgt', gone)
        /\ Deleter(r, pc, tgt) => Deleter(r, pc', tgt')
    BY <2>3, PcMoves
  <2>5. MostUrgent(r, pc') /\ r.cur = k.cur
    BY <1>1, <1>2, <1>3, <1>6 DEF MostUrgent
  <2> QED
    BY <1>2, <2>2, <2>4, <2>5 DEF Moved
<1> QED
  BY <1>14, <1>1, <1>2, <1>3, <1>6, <1>12, <1>13 DEF Kept

\* rt_thread_resume with interrupts disabled.
LEMMA ResumeKeeps ==
  ASSUME ThreadsInv, NoRace, Next, NEW t \in Thread, Resume(t)
  PROVE  Kept /\ Moved
<1> DEFINE u == tgt[t]
           r == ResumeThread(k, u)
           D == DyingOf(pc', tgt')
<1>1. /\ k.lock <= MaxNest /\ Prepared(k, pc, tgt, gone) /\ Shape(pc, tgt, gone)
      /\ PcSound(pc, tgt) /\ k.stat[k.cur] # "READY" /\ CurRuns(k, pc)
      /\ k.cur = t /\ pc[t] = "resume" /\ k.stat[k.cur] = "RUNNING" /\ t # Idle
  BY InvFacts DEF Resume, Goto
<1>2. /\ k' = r /\ gone' = gone /\ Shape(pc', tgt', gone')
      /\ \A s \in Thread : s # t => pc'[s] = pc[s] /\ tgt'[s] = tgt[s]
      /\ pc'[t] = "sched"
  BY <1>1, PcNext DEF Resume, Goto, Shape
<1>3. u \in Thread \ gone /\ \A s \in Thread : s # t => tgt[s] # u
  <2>1. u \in Thread \ gone /\ u # None
    BY <1>1, ThreadsAssumption DEF Prepared, EndSound
  <2> QED
    BY <1>1, <2>1 DEF PcSound
<1> HIDE DEF u
<1>4. Prepared(k, pc', tgt', gone)
  <2>1. /\ \A s \in Thread : pc'[s] \in Dels \/ pc[s] \in Dels => pc'[s] = pc[s] /\ tgt'[s] = tgt[s]
        /\ \A s \in Thread : pc'[s] = "resume" => pc[s] = "resume" /\ tgt'[s] = tgt[s]
    BY <1>1, <1>2 DEF Dels
  <2>2. pc'[k.cur] \notin {"suspend", "sleep"} /\ pc' \in [Thread -> PCs]
    BY <1>1, <1>2 DEF Shape
  <2> QED
    BY <1>1, <2>1, <2>2, PcKeeps
<1>5. u \notin D
  BY <1>2, <1>3 DEF DyingOf
<1>6. KernelSound(r, D \ {u}) /\ Woken(k, r, u)
  BY <1>1, <1>3, <1>4, ResumeSound DEF Prepared
<1> HIDE DEF r
<1>7. \A s \in Thread : pc'[s] = "resume" => tgt'[s] # u
  BY <1>2, <1>3
<1>8. Prepared(r, pc', tgt', gone) /\ (CurRuns(k, pc') => CurRuns(r, pc'))
  BY <1>1, <1>3, <1>4, <1>5, <1>6, <1>7, WokenKeeps
<1>9. CurRuns(k, pc') /\ r.lock = k.lock
  BY <1>1, <1>6 DEF CurRuns, Woken
<1>10. Moved
  <2>1. MostUrgent(r, pc') /\ r.cur = k.cur
    BY <1>1, <1>2, <1>6 DEF MostUrgent, Woken
  <2>2. \A s \in Thread : pc'[s] \in Dels \/ pc[s] \in Dels => pc'[s] = pc[s] /\ tgt'[s] = tgt[s]
    BY <1>1, <1>2 DEF Dels
  <2>3. /\ Ended(k, pc, tgt, gone) => Ended(k, pc', tgt', gone)
        /\ Deleter(k, pc, tgt) => Deleter(k, pc', tgt')
    BY <2>2, PcMoves
  <2>4. \A s \in Thread : pc'[s] \in Dels => tgt'[s] # u
    BY <1>1, <1>2, <1>3 DEF Dels
  <2>5. /\ k.stat[u] # "CLOSE" /\ Ended(k, pc', tgt', gone) => Ended(r, pc', tgt', gone)
        /\ Deleter(k, pc', tgt') => Deleter(r, pc', tgt')
    BY <1>2, <1>3, <1>4, <1>6, <2>4, WokenMoves, PcNext
  <2>6. Ended(k, pc, tgt, gone) => k.stat[u] # "CLOSE"
    <3>1. "resume" \in Calls /\ tgt[t] = u
      BY <1>1 DEF PcSound, u
    <3>2. CASE "sleep" \notin Calls
      BY <1>1, <3>1, <3>2 DEF Prepared, AwakeSound
    <3>3. CASE "sleep" \in Calls
      <4>1. "exit" \notin Calls /\ "delete" \notin Calls
        BY <3>1, <3>3 DEF NoRace
      <4>2. DyingOf(pc, tgt) = {} /\ Waiting(k, "defunct") = {}
        BY <1>1, <4>1 DEF PcSound, DyingOf, Dels, Prepared, EndSound
      <4> QED
        BY <1>3, <4>2 DEF Ended
    <3> QED
      BY <3>2, <3>3
  <2> QED
    BY <1>2, <2>1, <2>3, <2>5, <2>6 DEF Moved
<1> QED
  BY <1>10, <1>1, <1>2, <1>8, <1>9 DEF Kept

\* rt_thread_startup.
LEMMA StartupKeeps ==
  ASSUME ThreadsInv, Next, NEW t \in Thread, NEW u \in Thread, Startup(t, u)
  PROVE  Kept /\ Moved
<1> DEFINE x == [k EXCEPT !.stat[u] = "SUSPEND", !.yld = k.yld \ {u}, !.prio[u] = InitPrio[u]]
           r == ResumeThread(x, u)
           D == DyingOf(pc, tgt)
<1>1. /\ k.lock <= MaxNest /\ Prepared(k, pc, tgt, gone) /\ Shape(pc, tgt, gone)
      /\ KernelSound(k, D) /\ k \in KernelType
      /\ k.cur = t /\ pc[t] = "run" /\ k.stat[k.cur] = "RUNNING" /\ t # Idle
  BY InvFacts DEF Startup, Caller, Goto
<1>2. /\ k' = r /\ gone' = gone /\ tgt' = tgt /\ Shape(pc', tgt', gone')
      /\ \A s \in Thread : s # t => pc'[s] = pc[s]
      /\ pc'[t] = "sched"
      /\ k.stat[u] = "INIT" /\ u # Idle /\ u \notin gone /\ \A s \in Thread : tgt[s] # u
  BY <1>1, PcNext DEF Startup, Goto, Shape, Available, Untouched
<1>3. /\ k.stat \in [Thread -> Stat] /\ k.prio \in [Thread -> Prio] /\ k.yld \subseteq Thread
      /\ Queue = {"defunct"} /\ InitPrio[u] \in Prio /\ InitPrio[u] < MaxPrio
  BY <1>1, <1>2, KernelFields, ThreadsAssumption
<1>4. Detached(k, u) /\ u \notin k.tmr
  <2>1. \A p \in Prio : u \notin Ready(k, p)
    BY <1>1, <1>2 DEF KernelSound, LinksSound
  <2>2. u \notin Waiting(k, "defunct") /\ u \notin k.tmr
    BY <1>1, <1>2 DEF Prepared, EndSound, KernelSound, LinksSound
  <2> QED
    BY <1>3, <2>1, <2>2 DEF Detached
<1>5. /\ x \in KernelType
      /\ x.cur = k.cur /\ x.rdy = k.rdy /\ x.grp = k.grp /\ x.wait = k.wait
      /\ x.lock = k.lock
      /\ x.stat = [k.stat EXCEPT ![u] = "SUSPEND"] /\ x.prio = [k.prio EXCEPT ![u] = InitPrio[u]]
      /\ x.tmr = k.tmr
  <2> DEFINE st == [k.stat EXCEPT ![u] = "SUSPEND"]
             pr == [k.prio EXCEPT ![u] = InitPrio[u]]
             yl == k.yld \ {u}
  <2>1. st \in [Thread -> Stat] /\ pr \in [Thread -> Prio] /\ yl \subseteq Thread
    BY <1>3 DEF Stat
  <2>2. x = [k EXCEPT !.stat = st, !.yld = yl, !.prio = pr]
    BY <1>1 DEF KernelType
  <2> HIDE DEF st, pr, yl, x
  <2>3. /\ x \in KernelType
        /\ x.cur = k.cur /\ x.rdy = k.rdy /\ x.grp = k.grp /\ x.wait = k.wait
        /\ x.lock = k.lock /\ x.stat = st /\ x.prio = pr /\ x.tmr = k.tmr
    BY <1>1, <2>1, <2>2 DEF KernelType
  <2> QED
    BY <2>3 DEF st, pr
<1> HIDE DEF x
<1>6. /\ KernelSound(x, D)
      /\ \A p \in Prio : Ready(x, p) = Ready(k, p)
      /\ \A q \in Queue : Waiting(x, q) = Waiting(k, q)
  <2>1. x.tmr = k.tmr \ {u} /\ "SUSPEND" \in Stat \ {"READY", "RUNNING"}
    BY <1>4, <1>5 DEF Stat
  <2> QED
    BY <1>1, <1>3, <1>4, <1>5, <2>1, QuietSound
<1>7. Aside(k, x, u, "SUSPEND") /\ u \notin x.tmr
  <2>1. /\ \A p \in Prio : Ready(x, p) = Ready(k, p) \ {u}
        /\ \A q \in Queue : Waiting(x, q) = Waiting(k, q) \ {u}
    BY <1>4, <1>6 DEF Detached
  <2>2. /\ x.prio[Idle] = k.prio[Idle]
        /\ \A s \in Thread \ {Idle} : k.prio[s] < MaxPrio => x.prio[s] < MaxPrio
    BY <1>2, <1>3, <1>5, KernelAssumption
  <2> QED
    BY <1>4, <1>5, <2>1, <2>2 DEF Aside
<1>8. u # k.cur
  BY <1>1, <1>2
<1>9. Prepared(x, pc, tgt, gone)
  BY <1>1, <1>2, <1>6, <1>7, <1>8, AsideKeeps
<1>10. u \notin D
  BY <1>2 DEF DyingOf
<1>11. x.stat[x.cur] = "RUNNING"
  BY <1>1, <1>3, <1>5, <1>8
<1>12. KernelSound(r, D \ {u}) /\ Woken(x, r, u)
  BY <1>6, <1>11, ResumeSound
<1>13. k' = r /\ CurRuns(x, pc)
  BY <1>2, <1>11 DEF CurRuns
<1> HIDE DEF r
<1>14. Prepared(r, pc, tgt, gone) /\ CurRuns(r, pc) /\ r.cur = t /\ r.lock = k.lock
  <2>1. Prepared(r, pc, tgt, gone) /\ CurRuns(r, pc)
    BY <1>1, <1>2, <1>5, <1>9, <1>10, <1>12, <1>13, WokenKeeps
  <2> QED
    BY <1>1, <1>5, <1>12, <2>1 DEF Woken
<1>15. Prepared(r, pc', tgt', gone)
  <2>1. /\ \A s \in Thread : pc'[s] \in Dels \/ pc[s] \in Dels => pc'[s] = pc[s] /\ tgt'[s] = tgt[s]
        /\ \A s \in Thread : pc'[s] = "resume" => pc[s] = "resume" /\ tgt'[s] = tgt[s]
    BY <1>1, <1>2 DEF Dels
  <2>2. pc'[r.cur] \notin {"suspend", "sleep"} /\ pc' \in [Thread -> PCs]
    BY <1>2, <1>14 DEF Shape
  <2> QED
    BY <1>14, <2>1, <2>2, PcKeeps
<1>16. CurRuns(r, pc')
  BY <1>1, <1>2, <1>14 DEF CurRuns
<1>17. Moved
  <2>1. MostUrgent(r, pc')
    BY <1>2, <1>14 DEF MostUrgent
  <2>2. pc[u] \notin Dels => /\ Ended(k, pc, tgt, gone) => Ended(x, pc, tgt, gone)
                             /\ Deleter(k, pc, tgt) => Deleter(x, pc, tgt)
    <3>1. \A s \in Thread : s # u => x.prio[s] = k.prio[s]
      BY <1>3, <1>5
    <3> QED
      BY <1>1, <1>2, <1>7, <3>1, AsideMoves, InvFacts
  <2>3. Ended(k, pc, tgt, gone) => Ended(x, pc, tgt, gone)
    BY <1>1, <1>2, <1>3, <1>5, <1>6 DEF Ended, Shape
  <2>4. Deleter(k, pc, tgt) => Deleter(x, pc, tgt)
    BY <1>2, <2>2 DEF Deleter, Alive
  <2>5. x.stat[u] = "SUSPEND"
    BY <1>3, <1>5
  <2>6. /\ x.stat[u] # "CLOSE" /\ Ended(x, pc, tgt, gone) => Ended(r, pc, tgt, gone)
        /\ Deleter(x, pc, tgt) => Deleter(r, pc, tgt)
    BY <1>1, <1>2, <1>9, <1>12, WokenMoves, InvFacts
  <2>7. \A s \in Thread : pc'[s] \in Dels \/ pc[s] \in Dels => pc'[s] = pc[s] /\ tgt'[s] = tgt[s]
    BY <1>1, <1>2 DEF Dels
  <2>8. /\ Ended(r, pc, tgt, gone) => Ended(r, pc', tgt', gone)
        /\ Deleter(r, pc, tgt) => Deleter(r, pc', tgt')
    BY <2>7, PcMoves
  <2> QED
    BY <1>1, <1>2, <1>13, <1>14, <2>1, <2>3, <2>4, <2>5, <2>6, <2>8 DEF Moved
<1> QED
  BY <1>17, <1>1, <1>2, <1>13, <1>14, <1>15, <1>16 DEF Kept

\* rt_thread_timeout: only where no thread is deleted.
LEMMA TimeoutKeeps ==
  ASSUME ThreadsInv, NoRace, NEW t \in Thread, TickTimeout(t)
  PROVE  Kept /\ Moved
<1> DEFINE D == DyingOf(pc, tgt)
<1>1. /\ k.lock <= MaxNest /\ Prepared(k, pc, tgt, gone) /\ Shape(pc, tgt, gone)
      /\ PcSound(pc, tgt) /\ CurRuns(k, pc)
      /\ KernelSound(k, D) /\ k.stat[k.cur] # "READY"
  BY InvFacts
<1>2. /\ k' = ThreadTimeout(k, t) /\ pc' = pc /\ tgt' = tgt /\ gone' = gone /\ t \in k.tmr
  BY DEF TickTimeout
<1>3. "sleep" \in Calls /\ t \notin gone
  BY <1>1, <1>2 DEF Prepared, AwakeSound, EndSound
<1>4. D = {}
  BY <1>1, <1>3 DEF NoRace, PcSound, DyingOf, Dels
<1>5. PICK i : ThreadTimeout(k, t) = Schedule(i) /\ KernelSound(i, D \ {t}) /\ Woken(k, i, t)
  BY <1>1, TimeoutSound
<1>6. Prepared(i, pc, tgt, gone) /\ CurRuns(i, pc) /\ i.lock = k.lock
  <2>1. t \notin D
    BY <1>4
  <2>2. Prepared(i, pc, tgt, gone) /\ CurRuns(i, pc)
    BY <1>1, <1>3, <1>5, <2>1, WokenKeeps
  <2> QED
    BY <1>5, <2>2 DEF Woken
<1> DEFINE r == Schedule(i)
<1>7. KernelSound(r, D) /\ Scheduled(i, r)
  BY <1>6, ScheduleSound DEF Prepared, CurSound
<1>8. k' = r
  BY <1>2, <1>5
<1> HIDE DEF r
<1>9. /\ Prepared(r, pc, tgt, gone)
      /\ i.lock = 0 => r.stat[r.cur] = "RUNNING"
      /\ i.lock # 0 => r.cur = i.cur /\ r.stat[r.cur] = i.stat[i.cur]
  BY <1>1, <1>6, <1>7, ScheduleKeeps
<1>10. CurRuns(r, pc) /\ r.lock = k.lock
  BY <1>6, <1>7, <1>9 DEF CurRuns, Scheduled
<1>11. Moved
  <2>1. /\ i.lock # 0 => r.cur = i.cur
        /\ r.lock = 0 => Urgent(r)
        /\ Ended(i, pc, tgt, gone) => Ended(r, pc, tgt, gone)
        /\ Deleter(i, pc, tgt) => Deleter(r, pc, tgt)
    BY <1>1, <1>6, <1>7, ScheduleMoves
  <2>2. \A s \in Thread : pc[s] \notin Dels
    BY <1>1, <1>3 DEF NoRace, PcSound
  <2>3. k.stat[t] = "SUSPEND"
    BY <1>1, <1>2 DEF KernelSound, LinksSound
  <2>4. /\ Ended(k, pc, tgt, gone) => Ended(i, pc, tgt, gone)
        /\ Deleter(k, pc, tgt) => Deleter(i, pc, tgt)
    BY <1>1, <1>5, <2>2, <2>3, WokenMoves
  <2>5. i.cur = k.cur
    BY <1>5 DEF Woken
  <2> QED
    BY <1>2, <1>6, <1>8, <2>1, <2>4, <2>5 DEF Moved, MostUrgent
<1> QED
  BY <1>11, <1>1, <1>2, <1>8, <1>9, <1>10 DEF Kept

\* thread->stat = RT_THREAD_CLOSE for a thread in no list.
LEMMA CloseSound ==
  ASSUME NEW y, NEW S, KernelSound(y, S), NEW t \in Thread, Detached(y, t)
  PROVE  LET r == DetachTimer(Close(y, t), t)
         IN  /\ KernelSound(r, S)
             /\ r.cur = y.cur /\ r.lock = y.lock /\ r.prio = y.prio
             /\ r.stat = [y.stat EXCEPT ![t] = "CLOSE"]
             /\ r.tmr = y.tmr \ {t}
             /\ \A p \in Prio : Ready(r, p) = Ready(y, p)
             /\ \A q \in Queue : Waiting(r, q) = Waiting(y, q)
<1> DEFINE r == DetachTimer(Close(y, t), t)
           st == [y.stat EXCEPT ![t] = "CLOSE"]
           yl == y.yld \ {t}
           tm == y.tmr \ {t}
<1>1. y \in KernelType
  BY DEF KernelSound, ListType
<1>2. /\ y.stat \in [Thread -> Stat] /\ y.prio \in [Thread -> Prio]
      /\ y.yld \subseteq Thread /\ y.tmr \subseteq Thread
  BY <1>1, KernelFields
<1>3. st \in [Thread -> Stat] /\ yl \subseteq Thread /\ tm \subseteq Thread
  BY <1>2 DEF Stat
<1>4. r = [y EXCEPT !.stat = st, !.yld = yl, !.tmr = tm]
  BY <1>1 DEF DetachTimer, Close, KernelType
<1> HIDE DEF r, st, yl, tm
<1>5. /\ r \in KernelType
      /\ r.cur = y.cur /\ r.rdy = y.rdy /\ r.grp = y.grp /\ r.wait = y.wait
      /\ r.lock = y.lock /\ r.stat = st /\ r.prio = y.prio /\ r.tmr = tm
  BY <1>1, <1>3, <1>4 DEF KernelType
<1>6. /\ r.stat = [y.stat EXCEPT ![t] = "CLOSE"] /\ r.tmr = y.tmr \ {t}
      /\ r.prio = [y.prio EXCEPT ![t] = y.prio[t]] /\ y.prio[t] \in Prio
      /\ "CLOSE" \in Stat \ {"READY", "RUNNING"}
  BY <1>2, <1>5 DEF st, tm, Stat
<1>7. /\ KernelSound(r, S)
      /\ \A p \in Prio : Ready(r, p) = Ready(y, p)
      /\ \A q \in Queue : Waiting(r, q) = Waiting(y, q)
  BY <1>5, <1>6, QuietSound
<1> QED
  BY <1>5, <1>6, <1>7 DEF r

\* _thread_exit.
LEMMA ExitKeeps ==
  ASSUME ThreadsInv, NoRace, NEW t \in Thread, ThreadExit(t)
  PROVE  Kept /\ Moved
<1> DEFINE y == RemoveThread(k, t)
           x == DetachTimer(Close(y, t), t)
           b == Bury(x, t)
           r == Schedule(b)
           D == DyingOf(pc, tgt)
           G == gone \cup ({t} \cap Static)
<1>1. /\ k.lock <= MaxNest /\ Prepared(k, pc, tgt, gone) /\ Shape(pc, tgt, gone)
      /\ PcSound(pc, tgt) /\ KernelSound(k, D) /\ ListType(k)
      /\ k.cur = t /\ t # Idle /\ pc[t] = "run" /\ k.stat[k.cur] = "RUNNING" /\ k.lock = 0
      /\ "exit" \in Calls
  BY InvFacts DEF ThreadExit, Caller, KernelSound
<1>2. k' = r /\ gone' = G /\ pc' = pc /\ tgt' = tgt
  BY DEF ThreadExit
<1>3. /\ y.cur = k.cur /\ y.lock = k.lock /\ y.stat = k.stat
      /\ y.prio = k.prio /\ y.tmr = k.tmr
      /\ \A p \in Prio : Ready(y, p) = Ready(k, p) \ {t}
      /\ \A q \in Queue : Waiting(y, q) = Waiting(k, q) \ {t}
  <2>1. ListType(k)
    BY <1>1
  <2> QED
    BY ONLY <2>1, t \in Thread, RemoveEffect, ZenonT(40)
<1>4. KernelSound(y, D \cup {t}) /\ Detached(y, t)
  BY <1>1, RemoveSound
<1> HIDE DEF y
<1>5. /\ KernelSound(x, D \cup {t})
      /\ x.cur = y.cur /\ x.lock = y.lock /\ x.prio = y.prio
      /\ x.stat = [y.stat EXCEPT ![t] = "CLOSE"]
      /\ x.tmr = y.tmr \ {t}
      /\ \A p \in Prio : Ready(x, p) = Ready(y, p)
      /\ \A q \in Queue : Waiting(x, q) = Waiting(y, q)
  BY <1>4, CloseSound
<1> HIDE DEF x
<1>6. x.stat[t] = "CLOSE"
  <2>1. k.stat \in [Thread -> Stat]
    BY <1>1, PreparedFields
  <2> QED
    BY <1>3, <1>5, <2>1
<1>7. KernelSound(x, D)
  BY <1>5, <1>6, SoundLess
<1>8. Aside(k, x, t, "CLOSE") /\ t \notin x.tmr /\ Detached(x, t)
  BY <1>3, <1>4, <1>5 DEF Aside, Detached
<1>9. \A s \in Thread : pc[s] = "resume" => tgt[s] # t
  <2>1. CASE "sleep" \notin Calls
    BY <1>1, <2>1 DEF Prepared, AwakeSound
  <2>2. CASE "sleep" \in Calls
    BY <1>1, <2>2 DEF NoRace, PcSound
  <2> QED
    BY <2>1, <2>2
<1>10. Prepared(x, pc, tgt, gone)
  BY <1>1, <1>7, <1>8, <1>9, AsideKeeps
<1>11. t \notin D /\ t \notin gone /\ pc[t] \notin Dels
  BY <1>1 DEF Prepared, DyingSound, EndSound, Dels
<1>12. /\ Prepared(b, pc, tgt, G) /\ b.cur = t /\ b.lock = 0 /\ b.stat[b.cur] # "READY"
       /\ b.stat = x.stat /\ b.prio = x.prio
       /\ Waiting(x, "defunct") \subseteq Waiting(b, "defunct")
       /\ t \in G \/ t \in Waiting(b, "defunct")
  <2>1. Prepared(b, pc, tgt, G) /\ Buried(x, b, t, G)
    BY <1>1, <1>6, <1>8, <1>9, <1>10, <1>11, BuryKeeps
  <2> HIDE DEF b, G
  <2> QED
    BY <1>1, <1>3, <1>5, <1>6, <2>1 DEF Buried
<1> HIDE DEF b
<1>13. KernelSound(r, D) /\ Scheduled(b, r)
  BY <1>12, ScheduleSound DEF Prepared
<1> HIDE DEF r
<1>14. Shape(pc, tgt, G)
  BY <1>1 DEF Shape
<1>15. Prepared(r, pc, tgt, G) /\ r.stat[r.cur] = "RUNNING"
  BY <1>12, <1>13, <1>14, ScheduleKeeps
<1>16. CurRuns(r, pc) /\ r.lock = k.lock
  BY <1>1, <1>12, <1>13, <1>15 DEF CurRuns, Scheduled
<1>17. Moved
  <2>1. /\ r.lock = 0 => Urgent(r)
        /\ Ended(b, pc, tgt, G) => Ended(r, pc, tgt, G)
        /\ Deleter(b, pc, tgt) => Deleter(r, pc, tgt)
    BY <1>1, <1>12, <1>13, <1>14, ScheduleMoves
  <2>2. /\ \A s \in Thread : s # t => b.stat[s] = k.stat[s]
        /\ b.stat[t] = "CLOSE" /\ b.prio = k.prio
    <3>1. k.stat \in [Thread -> Stat]
      BY <1>1, PreparedFields
    <3> QED
      BY <1>3, <1>5, <1>12, <3>1
  <2>3. Waiting(x, "defunct") = Waiting(k, "defunct") \ {t}
    BY <1>3, <1>5, ThreadsAssumption
  <2>4. Ended(k, pc, tgt, gone) => Ended(b, pc, tgt, G)
    <3>1. gone \subseteq G /\ G \subseteq gone \cup {t} /\ gone \subseteq Thread
      BY <1>1 DEF Shape
    <3> HIDE DEF G
    <3>2. ASSUME NEW s \in Thread, s # t, k.stat[s] = "CLOSE", Ended(k, pc, tgt, gone)
          PROVE  s \in G \/ s \in D \/ s \in Waiting(b, "defunct")
      BY <1>12, <2>3, <3>1, <3>2 DEF Ended
    <3> QED
      BY <1>12, <2>2, <3>1, <3>2 DEF Ended
  <2>5. Deleter(k, pc, tgt) => Deleter(b, pc, tgt)
    <3>1. \A s \in Thread : pc[s] \in Dels => s # t /\ tgt[s] \in Thread
      BY <1>1, <1>11 DEF PcSound, Shape
    <3> QED
      BY <1>1, <1>12, <2>2, <3>1 DEF Deleter, Alive
  <2> QED
    BY <1>1, <1>2, <2>1, <2>4, <2>5 DEF Moved, MostUrgent
<1> QED
  BY <1>17, <1>1, <1>2, <1>15, <1>16 DEF Kept

\* In the middle of rt_thread_delete nobody else deletes, and no timer runs.
LEMMA DeletingFacts ==
  ASSUME ThreadsInv, NoRace, NEW t \in Thread, pc[t] \in Dels, k.cur = t
  PROVE  /\ tgt[t] \in Thread /\ tgt[t] # Idle /\ tgt[t] # t /\ t # Idle
         /\ "delete" \in Calls /\ "sleep" \notin Calls /\ k.tmr = {}
         /\ \A s \in Thread : s # t => pc[s] \notin Dels /\ tgt[s] # tgt[t]
         /\ tgt[t] \notin Static => tgt[t] \notin gone
         /\ k.stat[k.cur] = "RUNNING"
<1>1. /\ Shape(pc, tgt, gone) /\ PcSound(pc, tgt) /\ Prepared(k, pc, tgt, gone)
      /\ pc[k.cur] \notin {"sched", "sleep"} => k.stat[k.cur] = "RUNNING"
  BY InvFacts
<1>2. /\ tgt[t] # None /\ tgt[t] # Idle /\ tgt[t] # t /\ t # Idle /\ "delete" \in Calls
      /\ \A s \in Thread : s # t => pc[s] \notin Dels /\ tgt[s] # tgt[t]
  BY <1>1 DEF PcSound, Dels
<1>3. tgt[t] \in Thread /\ "sleep" \notin Calls
  BY <1>1, <1>2 DEF Shape, NoRace
<1>4. k.tmr = {} /\ (tgt[t] \notin Static => tgt[t] \notin gone)
  BY <1>1, <1>2, <1>3 DEF Prepared, AwakeSound
<1>5. k.stat[k.cur] = "RUNNING"
  BY <1>1 DEF Dels
<1> QED
  BY <1>2, <1>3, <1>4, <1>5

\* rt_thread_delete takes the thread out of its list.
LEMMA DeleteUnlinkKeeps ==
  ASSUME ThreadsInv, NoRace, Next, NEW t \in Thread, DeleteUnlink(t)
  PROVE  Kept /\ Moved
<1> DEFINE u == tgt[t]
           r == RemoveThread(k, u)
<1>1. /\ k.lock <= MaxNest /\ Prepared(k, pc, tgt, gone) /\ Shape(pc, tgt, gone)
      /\ KernelSound(k, DyingOf(pc, tgt)) /\ ListType(k)
      /\ k.cur = t /\ pc[t] = "del_unlink"
  BY InvFacts DEF DeleteUnlink, Goto, KernelSound
<1>2. /\ u \in Thread /\ u # Idle /\ u # t /\ t # Idle
      /\ \A s \in Thread : s # t => pc[s] \notin Dels /\ tgt[s] # u
      /\ k.stat[k.cur] = "RUNNING"
  <2>1. pc[t] \in Dels
    BY <1>1 DEF Dels
  <2> QED
    BY <1>1, <2>1, DeletingFacts
<1>3. /\ k' = r /\ gone' = gone /\ tgt' = tgt
      /\ \A s \in Thread : s # t => pc'[s] = pc[s]
      /\ pc'[t] = "del_timer"
  BY <1>1 DEF DeleteUnlink, Goto, Shape
<1>4. DyingOf(pc, tgt) = {} /\ DyingOf(pc', tgt') = {u}
  BY <1>1, <1>2, <1>3 DEF DyingOf, Dels
<1> HIDE DEF u
<1>5. /\ r.cur = k.cur /\ r.lock = k.lock /\ r.stat = k.stat
      /\ r.prio = k.prio /\ r.tmr = k.tmr
      /\ \A p \in Prio : Ready(r, p) = Ready(k, p) \ {u}
      /\ \A q \in Queue : Waiting(r, q) = Waiting(k, q) \ {u}
  <2>1. ListType(k) /\ u \in Thread
    BY <1>1, <1>2
  <2> QED
    BY ONLY <2>1, RemoveEffect, ZenonT(40)
<1>6. KernelSound(r, {u}) /\ Detached(r, u)
  <2>1. KernelSound(r, DyingOf(pc, tgt) \cup {u}) /\ Detached(r, u)
    BY <1>1, <1>2, RemoveSound
  <2> QED
    BY <1>4, <2>1
<1> HIDE DEF r
<1>7. CurSound(r, pc')
  BY <1>1, <1>3, <1>5 DEF Prepared, CurSound
<1>8. DyingSound(r, {u})
  BY <1>1, <1>2, <1>5, <1>6 DEF DyingSound
<1>9. Waiting(r, "defunct") \subseteq Waiting(k, "defunct") /\ Waiting(k, "defunct") \subseteq Thread
  BY <1>1, <1>5, PreparedFields
<1>10. \A s \in Thread : /\ pc'[s] \in Dels <=> pc[s] \in Dels
                         /\ pc'[s] = "resume" <=> pc[s] = "resume"
  BY <1>1, <1>3 DEF Dels
<1>11. EndSound(r, pc', tgt, gone)
  <2>1. \A s \in Waiting(r, "defunct") : r.stat[s] = "CLOSE" /\ s \notin gone /\ pc'[s] \notin Dels
    BY <1>1, <1>5, <1>9, <1>10 DEF Prepared, EndSound
  <2> QED
    BY <1>1, <1>5, <1>9, <1>10, <2>1 DEF Prepared, EndSound
<1>12. AwakeSound(r, pc', tgt, gone)
  BY <1>1, <1>2, <1>5, <1>10 DEF Prepared, AwakeSound
<1>13. CurRuns(r, pc')
  BY <1>2, <1>5 DEF CurRuns
<1>14. Moved
  <2>1. MostUrgent(k, pc) => MostUrgent(r, pc')
    BY <1>1, <1>5 DEF MostUrgent, Urgent
  <2>2. "defunct" \in Queue
    BY ThreadsAssumption
  <2>3. Ended(k, pc, tgt, gone) => Ended(r, pc', tgt', gone)
    BY <1>4, <1>5, <2>2 DEF Ended
  <2>4. Deleter(k, pc, tgt) => Deleter(r, pc', tgt')
    BY <1>3, <1>5, <1>10 DEF Deleter
  <2> QED
    BY <1>3, <1>5, <2>1, <2>3, <2>4 DEF Moved
<1> QED
  BY <1>14, <1>1, <1>3, <1>4, <1>5, <1>6, <1>7, <1>8, <1>11, <1>12, <1>13 DEF Kept, Prepared

\* ... and detaches its timer, which is not running.
LEMMA DeleteTimerKeeps ==
  ASSUME ThreadsInv, NoRace, Next, NEW t \in Thread, DeleteTimer(t)
  PROVE  Kept /\ Moved
<1>1. /\ k.lock <= MaxNest /\ Prepared(k, pc, tgt, gone) /\ Shape(pc, tgt, gone)
      /\ k \in KernelType /\ k.cur = t /\ pc[t] = "del_timer"
  BY InvFacts DEF DeleteTimer, Goto
<1>2. k.tmr = {} /\ t # Idle /\ k.stat[k.cur] = "RUNNING"
  <2>1. pc[t] \in Dels
    BY <1>1 DEF Dels
  <2> QED
    BY <1>1, <2>1, DeletingFacts
<1>3. /\ gone' = gone /\ tgt' = tgt
      /\ \A s \in Thread : s # t => pc'[s] = pc[s]
      /\ pc'[t] = "del_close"
  BY <1>1 DEF DeleteTimer, Goto, Shape
<1>4. k' = k
  <2>1. k' = [k EXCEPT !.tmr = k.tmr]
    BY <1>2 DEF DeleteTimer, DetachTimer
  <2> QED
    BY <1>1, <2>1 DEF KernelType
<1>5. DyingOf(pc', tgt') = DyingOf(pc, tgt)
  BY <1>1, <1>3 DEF DyingOf
<1>6. \A s \in Thread : /\ pc'[s] \in Dels <=> pc[s] \in Dels
                        /\ pc'[s] = "resume" <=> pc[s] = "resume"
  BY <1>1, <1>3 DEF Dels
<1>7. CurSound(k, pc')
  BY <1>1, <1>3 DEF Prepared, CurSound
<1>8. Waiting(k, "defunct") \subseteq Thread
  BY <1>1, PreparedFields
<1>9. EndSound(k, pc', tgt, gone)
  BY <1>1, <1>6, <1>8 DEF Prepared, EndSound
<1>10. AwakeSound(k, pc', tgt, gone)
  BY <1>1, <1>6 DEF Prepared, AwakeSound
<1>11. Moved
  <2>1. MostUrgent(k, pc) => MostUrgent(k, pc')
    BY <1>1 DEF MostUrgent
  <2>2. Ended(k, pc, tgt, gone) => Ended(k, pc', tgt', gone)
    BY <1>5 DEF Ended
  <2>3. Deleter(k, pc, tgt) => Deleter(k, pc', tgt')
    BY <1>3, <1>6 DEF Deleter
  <2> QED
    BY <1>3, <1>4, <2>1, <2>2, <2>3 DEF Moved
<1> QED
  BY <1>11, <1>1, <1>2, <1>3, <1>4, <1>5, <1>7, <1>9, <1>10 DEF Kept, Prepared, CurRuns

\* ... and closes it.
LEMMA DeleteCloseKeeps ==
  ASSUME ThreadsInv, NoRace, Next, NEW t \in Thread, DeleteClose(t)
  PROVE  Kept /\ Moved
<1> DEFINE u == tgt[t]
           x == Close(k, u)
           b == Bury(x, u)
           G == gone \cup ({u} \cap Static)
<1>1. /\ k.lock <= MaxNest /\ Prepared(k, pc, tgt, gone) /\ Shape(pc, tgt, gone)
      /\ KernelSound(k, DyingOf(pc, tgt)) /\ DyingSound(k, DyingOf(pc, tgt))
      /\ k \in KernelType /\ k.cur = t /\ pc[t] = "del_close"
  BY InvFacts DEF DeleteClose, Goto, Prepared
<1>2. /\ u \in Thread /\ u # Idle /\ u # t /\ t # Idle /\ k.tmr = {}
      /\ "delete" \in Calls
      /\ \A s \in Thread : s # t => pc[s] \notin Dels /\ tgt[s] # u
      /\ u \notin Static => u \notin gone
      /\ k.stat[k.cur] = "RUNNING"
  <2>1. pc[t] \in Dels
    BY <1>1 DEF Dels
  <2> QED
    BY <1>1, <2>1, DeletingFacts
<1>3. /\ k' = b /\ gone' = G
      /\ \A s \in Thread : s # t => pc'[s] = pc[s] /\ tgt'[s] = tgt[s]
      /\ pc'[t] = "run"
  BY <1>1 DEF DeleteClose, Goto, Shape
<1>4. DyingOf(pc, tgt) = {u} /\ DyingOf(pc', tgt') = {}
  BY <1>1, <1>2, <1>3 DEF DyingOf, Dels
<1> HIDE DEF u
<1>5. Detached(k, u)
  BY <1>1, <1>4 DEF DyingSound
<1>6. x = DetachTimer(Close(k, u), u)
  <2>1. x \in KernelType /\ x.tmr = {}
    <3> DEFINE st == [k.stat EXCEPT ![u] = "CLOSE"]
               yl == k.yld \ {u}
    <3>1. st \in [Thread -> Stat] /\ yl \subseteq Thread
      BY <1>1, KernelFields DEF Stat
    <3>2. x = [k EXCEPT !.stat = st, !.yld = yl]
      BY <1>1 DEF Close, KernelType
    <3> HIDE DEF st, yl, x
    <3> QED
      BY <1>1, <1>2, <3>1, <3>2 DEF KernelType
  <2>2. [x EXCEPT !.tmr = x.tmr] = x
    BY <2>1 DEF KernelType
  <2>3. x.tmr \ {u} = x.tmr
    BY <2>1
  <2> QED
    BY <2>2, <2>3 DEF DetachTimer
<1>7. /\ KernelSound(x, {u})
      /\ x.cur = k.cur /\ x.lock = k.lock /\ x.prio = k.prio
      /\ x.stat = [k.stat EXCEPT ![u] = "CLOSE"]
      /\ x.tmr = k.tmr \ {u}
      /\ \A p \in Prio : Ready(x, p) = Ready(k, p)
      /\ \A q \in Queue : Waiting(x, q) = Waiting(k, q)
  <2> DEFINE z == DetachTimer(Close(k, u), u)
  <2>1. KernelSound(k, {u})
    BY <1>1, <1>4
  <2>2. /\ KernelSound(z, {u})
        /\ z.cur = k.cur /\ z.lock = k.lock /\ z.prio = k.prio
        /\ z.stat = [k.stat EXCEPT ![u] = "CLOSE"]
        /\ z.tmr = k.tmr \ {u}
        /\ \A p \in Prio : Ready(z, p) = Ready(k, p)
        /\ \A q \in Queue : Waiting(z, q) = Waiting(k, q)
    BY <1>2, <1>5, <2>1, CloseSound
  <2> HIDE DEF z
  <2>3. x = z
    BY <1>6 DEF z
  <2> QED
    BY <2>2, <2>3
<1> HIDE DEF x
<1>8. x.stat[u] = "CLOSE" /\ x.stat[k.cur] = "RUNNING"
  <2>1. k.stat \in [Thread -> Stat]
    BY <1>1, PreparedFields
  <2> QED
    BY <1>1, <1>2, <1>7, <2>1
<1>9. Aside(k, x, u, "CLOSE") /\ u \notin x.tmr /\ Detached(x, u)
  <2>1. /\ \A p \in Prio : Ready(x, p) = Ready(k, p) \ {u}
        /\ \A q \in Queue : Waiting(x, q) = Waiting(k, q) \ {u}
    BY <1>5, <1>7 DEF Detached
  <2> QED
    BY <1>7, <2>1 DEF Aside, Detached
<1>10. /\ \A s \in Thread : pc'[s] = "resume" => pc[s] = "resume" /\ s # t /\ tgt'[s] = tgt[s] /\ tgt[s] # u
       /\ \A s \in Thread : pc[s] = "resume" => tgt[s] # u
       /\ \A s \in Thread : pc'[s] \notin Dels
  BY <1>1, <1>2, <1>3 DEF Dels
<1>11. Prepared(x, pc, tgt, gone)
  <2>1. KernelSound(x, DyingOf(pc, tgt)) /\ u # k.cur
    BY <1>1, <1>2, <1>4, <1>7
  <2> QED
    BY <1>1, <1>2, <1>9, <1>10, <2>1, AsideKeeps
<1>12. Prepared(x, pc', tgt', gone)
  <2>1. KernelSound(x, {})
    <3>1. KernelSound(x, {} \cup {u})
      BY <1>7
    <3> QED
      BY <1>8, <3>1, SoundLess
  <2>2. CurSound(x, pc')
    BY <1>1, <1>3, <1>7, <1>11 DEF Prepared, CurSound
  <2>3. DyingSound(x, {})
    BY DEF DyingSound
  <2>4. Waiting(x, "defunct") \subseteq Thread
    BY <1>11, PreparedFields
  <2>5. EndSound(x, pc', tgt', gone)
    BY <1>10, <1>11, <2>4 DEF Prepared, EndSound
  <2>6. AwakeSound(x, pc', tgt', gone)
    BY <1>10, <1>11 DEF Prepared, AwakeSound
  <2> QED
    BY <1>4, <2>1, <2>2, <2>3, <2>5, <2>6 DEF Prepared
<1>13. /\ Prepared(b, pc', tgt', G)
       /\ b.cur = x.cur /\ b.lock = x.lock /\ b.stat = x.stat /\ b.prio = x.prio
       /\ \A p \in Prio : Ready(b, p) = Ready(x, p)
       /\ Waiting(x, "defunct") \subseteq Waiting(b, "defunct")
       /\ u \in G \/ u \in Waiting(b, "defunct")
  <2>1. u \notin DyingOf(pc', tgt') /\ pc'[u] \notin Dels
    BY <1>2, <1>4, <1>10
  <2>2. Prepared(b, pc', tgt', G) /\ Buried(x, b, u, G)
    BY <1>2, <1>8, <1>9, <1>10, <1>12, <2>1, BuryKeeps
  <2> HIDE DEF b, G
  <2> QED
    BY <2>2 DEF Buried
<1> HIDE DEF b, G
<1>14. CurRuns(b, pc') /\ b.lock = k.lock
  BY <1>7, <1>8, <1>13 DEF CurRuns
<1>15. Moved
  <2>1. /\ \A s \in Thread : s # u => b.stat[s] = k.stat[s]
        /\ b.stat[u] = "CLOSE" /\ b.prio = k.prio /\ b.cur = k.cur
    <3>1. k.stat \in [Thread -> Stat]
      BY <1>1, PreparedFields
    <3> QED
      BY <1>2, <1>7, <1>13, <3>1
  <2>2. MostUrgent(k, pc) => MostUrgent(b, pc')
    BY <1>1, <1>7, <1>13, <2>1 DEF MostUrgent, Urgent
  <2>3. Ended(k, pc, tgt, gone) => Ended(b, pc', tgt', G)
    <3>1. Waiting(x, "defunct") = Waiting(k, "defunct") /\ gone \subseteq G /\ G \subseteq gone \cup {u}
      BY <1>7, ThreadsAssumption DEF G
    <3>2. ASSUME NEW s \in Thread, s # u, k.stat[s] = "CLOSE", Ended(k, pc, tgt, gone)
          PROVE  s \in G \/ s \in Waiting(b, "defunct")
      BY <1>4, <1>13, <3>1, <3>2 DEF Ended
    <3> QED
      BY <1>1, <1>13, <2>1, <3>1, <3>2 DEF Ended, Shape
  <2>4. Deleter(b, pc', tgt')
    BY <1>10 DEF Deleter
  <2> QED
    BY <1>3, <2>1, <2>2, <2>3, <2>4 DEF Moved
<1> QED
  BY <1>15, <1>1, <1>3, <1>13, <1>14 DEF Kept

\* rt_defunct_execute.
LEMMA ReclaimKeeps ==
  ASSUME ThreadsInv, NoRace, Reclaim
  PROVE  Kept /\ Moved
<1> DEFINE w == k.wait["defunct"]
           h == Head(w)
           L == Tail(w)
           r == [k EXCEPT !.wait["defunct"] = L]
           D == DyingOf(pc, tgt)
           G == gone \cup {h}
<1>1. /\ k.lock <= MaxNest /\ Prepared(k, pc, tgt, gone) /\ Shape(pc, tgt, gone)
      /\ PcSound(pc, tgt) /\ KernelSound(k, D) /\ CurRuns(k, pc) /\ k \in KernelType
      /\ k.cur = Idle /\ w # << >>
  BY InvFacts DEF Reclaim
<1>2. k' = r /\ gone' = G /\ pc' = pc /\ tgt' = tgt
  BY DEF Reclaim
<1>3. /\ KernelSound(k, D) /\ CurSound(k, pc) /\ DyingSound(k, D)
      /\ EndSound(k, pc, tgt, gone) /\ AwakeSound(k, pc, tgt, gone)
  BY <1>1 DEF Prepared
<1>4. /\ k.stat \in [Thread -> Stat] /\ k.prio \in [Thread -> Prio]
      /\ "defunct" \in Queue /\ Queue = {"defunct"}
  BY <1>1, PreparedFields
<1>5. k.wait \in [Queue -> Seq(Thread)] /\ w \in Seq(Thread) /\ Distinct(w)
  <2>1. k.wait \in [Queue -> Seq(Thread)]
    BY <1>1, KernelFields
  <2>2. Distinct(w)
    BY <1>1, <1>4 DEF KernelSound, ListType
  <2> QED
    BY <1>4, <2>1, <2>2
<1>6. L \in Seq(Thread) /\ Distinct(L) /\ h \in Thread /\ h \in ToSet(w) /\ ToSet(L) = ToSet(w) \ {h}
  BY <1>1, <1>5, TailList
<1>7. ToSet(w) = Waiting(k, "defunct")
  BY DEF Waiting
<1> HIDE DEF w, h, L
<1>8. /\ r.cur = k.cur /\ r.rdy = k.rdy /\ r.grp = k.grp /\ r.lock = k.lock
      /\ r.wait = [k.wait EXCEPT !["defunct"] = L]
      /\ r.stat = k.stat /\ r.prio = k.prio /\ r.tmr = k.tmr
  BY <1>1 DEF KernelType
<1>9. r \in KernelType
  <2>1. [k.wait EXCEPT !["defunct"] = L] \in [Queue -> Seq(Thread)]
    BY <1>5, <1>6
  <2>2. r = [k EXCEPT !.wait = [k.wait EXCEPT !["defunct"] = L]]
    BY <1>1 DEF KernelType
  <2> HIDE DEF r
  <2> QED
    BY <1>1, <2>1, <2>2 DEF KernelType
<1> HIDE DEF r
<1>10. r.wait["defunct"] = L
  BY <1>4, <1>5, <1>8
<1>11. ListType(r)
  BY <1>1, <1>4, <1>6, <1>8, <1>9, <1>10 DEF KernelSound, ListType
<1>12. /\ \A p \in Prio : Ready(r, p) = Ready(k, p)
       /\ Waiting(r, "defunct") = Waiting(k, "defunct") \ {h}
  BY <1>6, <1>7, <1>8, <1>10 DEF Ready, Waiting
<1>13. LinksSound(r, D)
  <2>1. \A q \in Queue : \A y \in Waiting(r, q) : r.stat[y] \notin {"READY", "RUNNING"}
    <3>1. \A y \in Waiting(k, "defunct") : k.stat[y] \notin {"READY", "RUNNING"}
      BY <1>3, <1>4 DEF KernelSound, LinksSound
    <3> QED
      BY <1>4, <1>8, <1>12, <3>1
  <2>2. \A q, v \in Queue : \A y \in Waiting(r, q) : y \in Waiting(r, v) => q = v
    <3>1. \A q, v \in Queue : q = v
      BY <1>4
    <3> QED
      BY <3>1
  <2>3. /\ \A p \in Prio : \A y \in Ready(r, p) : r.stat[y] = "READY" /\ r.prio[y] = p
        /\ \A p \in Prio : p \in r.grp <=> Ready(r, p) # {}
        /\ \A y \in Thread : r.stat[y] = "RUNNING" => y = r.cur
        /\ \A y \in r.tmr : r.stat[y] = "SUSPEND"
    BY <1>3, <1>8, <1>12 DEF KernelSound, LinksSound
  <2>4. \A y \in Thread \ D : r.stat[y] = "READY" => y \in Ready(r, r.prio[y])
    <3>1. \A y \in Thread : k.prio[y] \in Prio
      BY <1>4
    <3> QED
      BY <1>3, <1>8, <1>12, <3>1 DEF KernelSound, LinksSound
  <2> QED
    BY <2>1, <2>2, <2>3, <2>4 DEF LinksSound
<1>14. k.stat[h] = "CLOSE" /\ h \notin gone /\ pc[h] \notin Dels /\ h \in Waiting(k, "defunct")
  BY <1>3, <1>6, <1>7 DEF EndSound
<1>15. h \notin k.tmr
  BY <1>3, <1>14 DEF KernelSound, LinksSound
<1>16. \A s \in Thread : pc[s] = "resume" => tgt[s] # h
  <2>1. CASE "sleep" \notin Calls
    BY <1>3, <1>14, <2>1 DEF AwakeSound
  <2>2. CASE "sleep" \in Calls /\ "exit" \in Calls
    BY <1>1, <2>2 DEF NoRace, PcSound
  <2>3. CASE "sleep" \in Calls /\ "exit" \notin Calls
    BY <1>3, <1>14, <2>3 DEF NoRace, EndSound
  <2> QED
    BY <2>1, <2>2, <2>3
<1>17. CurSound(r, pc)
  BY <1>3, <1>8 DEF CurSound
<1>18. DyingSound(r, D)
  BY <1>3, <1>4, <1>8, <1>12 DEF DyingSound, Detached
<1>19. EndSound(r, pc, tgt, G)
  BY <1>3, <1>8, <1>12, <1>14, <1>15, <1>16 DEF EndSound
<1>20. AwakeSound(r, pc, tgt, G)
  BY <1>1, <1>3, <1>8, <1>12 DEF AwakeSound
<1>21. CurRuns(r, pc)
  BY <1>1, <1>8 DEF CurRuns
<1>22. Moved
  <2>1. MostUrgent(k, pc) => MostUrgent(r, pc)
    BY <1>8, <1>12 DEF MostUrgent, Urgent
  <2>2. Ended(k, pc, tgt, gone) => Ended(r, pc, tgt, G)
    BY <1>8, <1>12, <1>14 DEF Ended
  <2>3. Deleter(k, pc, tgt) => Deleter(r, pc, tgt)
    BY <1>8 DEF Deleter
  <2> QED
    BY <1>2, <1>8, <2>1, <2>2, <2>3 DEF Moved
<1> QED
  BY <1>22, <1>1, <1>2, <1>8, <1>11, <1>13, <1>17, <1>18, <1>19, <1>20, <1>21 DEF Kept, Prepared, KernelSound

-----------------------------------------------------------------------------
(***************************************************************************)
(* The theorems                                                            *)
(***************************************************************************)

\* What rtthread_startup leaves satisfies the invariant.
LEMMA InvInit == Init => ThreadsInv
<1> SUFFICES ASSUME Init PROVE ThreadsInv
  OBVIOUS
<1> USE KernelAssumption, ThreadsAssumption
<1>1. /\ k.cur = Main /\ k.lock = 0 /\ k.grp = {MaxPrio} /\ k.tmr = {}
      /\ k.prio = InitPrio /\ k.yld = {}
      /\ k.rdy = [p \in Prio |-> IF p = MaxPrio THEN <<Idle>> ELSE << >>]
      /\ k.wait = [q \in Queue |-> << >>]
      /\ k.stat = [t \in Thread |-> CASE t = Main -> "RUNNING"
                                      [] t = Idle -> "READY"
                                      [] OTHER    -> "CLOSE"]
      /\ k.err = [t \in Thread |-> "EOK"]
      /\ pc = [t \in Thread |-> "run"] /\ tgt = [t \in Thread |-> None]
      /\ gone = Thread \ {Main, Idle}
  BY DEF Init
<1>2. /\ Main \in Thread /\ Idle \in Thread /\ Main # Idle
      /\ k.stat[Main] = "RUNNING" /\ k.stat[Idle] = "READY"
      /\ \A t \in Thread \ {Main, Idle} : k.stat[t] = "CLOSE"
      /\ MaxPrio \in Prio /\ MaxPrio \in Nat
  BY <1>1 DEF Prio
<1>3. k \in KernelType
  <2>1. /\ k.rdy \in [Prio -> Seq(Thread)] /\ k.wait \in [Queue -> Seq(Thread)]
        /\ k.stat \in [Thread -> Stat] /\ k.err \in [Thread -> Error]
    BY <1>1, <1>2 DEF Stat, Error
  <2> QED
    BY <1>1, <1>2, <2>1 DEF Init, KernelType
<1>4. /\ \A p \in Prio : Ready(k, p) = IF p = MaxPrio THEN {Idle} ELSE {}
      /\ \A q \in Queue : Waiting(k, q) = {}
      /\ \A p \in Prio : Distinct(k.rdy[p])
      /\ \A q \in Queue : Distinct(k.wait[q])
  BY <1>1 DEF Ready, Waiting, ToSet, Distinct
<1>5. DyingOf(pc, tgt) = {}
  BY <1>1 DEF DyingOf
<1>6. KernelSound(k, {})
  <2>1. ListType(k)
    BY <1>3, <1>4 DEF ListType
  <2>2. k.prio[Idle] = MaxPrio
    BY <1>1
  <2>3. \A t \in Thread : k.stat[t] = "READY" => t = Idle
    BY <1>2
  <2>4. \A t \in Thread : k.stat[t] = "RUNNING" => t = k.cur
    BY <1>1, <1>2
  <2>5. \A p \in Prio : p \in k.grp <=> Ready(k, p) # {}
    BY <1>1, <1>4
  <2>6. \A p \in Prio : \A t \in Ready(k, p) : k.stat[t] = "READY" /\ k.prio[t] = p
    BY <1>2, <1>4, <2>2
  <2>7. \A t \in Thread : k.stat[t] = "READY" => t \in Ready(k, k.prio[t])
    BY <1>2, <1>4, <2>2, <2>3
  <2> QED
    BY <1>1, <1>4, <2>1, <2>4, <2>5, <2>6, <2>7 DEF KernelSound, LinksSound
<1>7. CurSound(k, pc) /\ DyingSound(k, {}) /\ CurRuns(k, pc)
  BY <1>1, <1>2 DEF CurSound, DyingSound, CurRuns
<1>8. EndSound(k, pc, tgt, gone) /\ AwakeSound(k, pc, tgt, gone)
  BY <1>1, <1>2, <1>4 DEF EndSound, AwakeSound, Dels
<1>9. Shape(pc, tgt, gone) /\ PcSound(pc, tgt)
  BY <1>1, <1>2 DEF Shape, PcSound, PCs, Dels
<1>10. Prepared(k, pc, tgt, gone)
  BY ONLY <1>5, <1>6, <1>7, <1>8 DEF Prepared
<1>11. k.lock <= MaxNest
  BY <1>1
<1> QED
  BY ONLY <1>7, <1>9, <1>10, <1>11 DEF ThreadsInv

\* Every action of the specification.
LEMMA StepKeeps ==
  ASSUME ThreadsInv, NoRace, Next
  PROVE  Kept /\ Moved
<1>1. ASSUME NEW t \in Thread, Step(t) PROVE Kept /\ Moved
  <2>1. ASSUME NEW u \in Thread, Create(t, u) PROVE Kept /\ Moved
    BY <2>1, CreateKeeps
  <2>2. ASSUME NEW u \in Thread, Startup(t, u) PROVE Kept /\ Moved
    BY <2>2, StartupKeeps
  <2>3. ASSUME NEW u \in Thread, SuspendCheck(t, u) \/ ResumeCheck(t, u) PROVE Kept /\ Moved
    BY <2>3, CheckKeeps
  <2>4. ASSUME NEW u \in Thread, DeleteCheck(t, u) PROVE Kept /\ Moved
    BY <2>4, DeleteCheckKeeps
  <2>5. ASSUME NEW u \in Thread, NEW p \in 0 .. MaxPrio - 1, SetPriority(t, u, p)
        PROVE  Kept /\ Moved
    BY <2>5, SetPriorityKeeps
  <2>6. CASE CallSchedule(t)
    BY <2>6, CallScheduleKeeps
  <2>7. CASE ThreadYield(t)
    BY <2>7, YieldKeeps DEF ThreadYield
  <2>8. CASE Sleep(t)
    BY <2>8, SleepKeeps
  <2>9. CASE SleepReturn(t) \/ EnterCritical(t) \/ ExitCritical(t)
    BY <2>9, CriticalKeeps
  <2>10. CASE Suspend(t)
    BY <2>10, SuspendKeeps
  <2>11. CASE Resume(t)
    BY <2>11, ResumeKeeps
  <2>12. CASE ThreadExit(t)
    BY <2>12, ExitKeeps
  <2>13. CASE DeleteUnlink(t)
    BY <2>13, DeleteUnlinkKeeps
  <2>14. CASE DeleteTimer(t)
    BY <2>14, DeleteTimerKeeps
  <2>15. CASE DeleteClose(t)
    BY <2>15, DeleteCloseKeeps
  <2> QED
    BY <1>1, <2>1, <2>2, <2>3, <2>4, <2>5, <2>6, <2>7, <2>8, <2>9, <2>10, <2>11,
       <2>12, <2>13, <2>14, <2>15 DEF Step
<1>2. CASE Reclaim
  BY <1>2, ReclaimKeeps
<1>3. CASE TickSlice
  BY <1>3, YieldKeeps DEF TickSlice
<1>4. ASSUME NEW t \in Thread, TickTimeout(t) PROVE Kept /\ Moved
  BY <1>4, TimeoutKeeps
<1> QED
  BY <1>1, <1>2, <1>3, <1>4 DEF Next, Interrupt

\* Every step keeps the invariant.
LEMMA InvNext ==
  ASSUME ThreadsInv, NoRace, [Next]_vars
  PROVE  ThreadsInv'
<1>1. CASE UNCHANGED vars
  BY <1>1 DEF vars, ThreadsInv, Shape, PcSound, Prepared, CurRuns, KernelSound,
              ListType, LinksSound, Ready, Waiting, CurSound, DyingSound, Detached,
              EndSound, AwakeSound, DyingOf
<1>2. CASE Next
  <2>1. Shape(pc', tgt', gone') /\ PcSound(pc', tgt')
    BY <1>2, PcNext
  <2>2. k'.lock <= MaxNest /\ Prepared(k', pc', tgt', gone') /\ CurRuns(k', pc')
    BY <1>2, StepKeeps DEF Kept
  <2> QED
    BY <2>1, <2>2 DEF ThreadsInv
<1> QED
  BY <1>1, <1>2

\* The invariant contains what the run checks.
LEMMA InvConsistent == ThreadsInv => KernelConsistent
<1> SUFFICES ASSUME ThreadsInv PROVE KernelConsistent
  OBVIOUS
<1>1. /\ k.lock <= MaxNest /\ Shape(pc, tgt, gone) /\ CurRuns(k, pc)
      /\ KernelSound(k, Dying) /\ k \in KernelType
  BY InvFacts
<1>2. TypeOK
  BY <1>1 DEF TypeOK, Shape
<1>3. QueuesConsistent
  BY <1>1, SoundMatches DEF QueuesConsistent
<1>4. OneRunning
  BY <1>1 DEF OneRunning, OwesSchedule, CurRuns, KernelSound, LinksSound
<1>5. TimerOfSuspended
  BY <1>1 DEF TimerOfSuspended, KernelSound, LinksSound
<1> QED
  BY <1>2, <1>3, <1>4, <1>5 DEF KernelConsistent

\* KernelConsistent holds for any number of threads and priorities and in any
\* order of the calls an application may combine: the node of every thread, its
\* stat, the ready bitmap, the current thread and the running timers agree after
\* every section of thread.c and scheduler.c and every interrupt between two.
THEOREM KernelCorrect ==
  ASSUME NoRace
  PROVE  Spec => []KernelConsistent
<1>1. Init => ThreadsInv
  BY InvInit
<1>2. ThreadsInv /\ [Next]_vars => ThreadsInv'
  BY InvNext
<1>3. ThreadsInv => KernelConsistent
  BY InvConsistent
<1> QED
  BY <1>1, <1>2, <1>3, PTL DEF Spec

\* LockKeepsProcessor: no call and no interrupt takes the processor from a
\* thread between rt_enter_critical and the last rt_exit_critical.
THEOREM LockCorrect ==
  ASSUME NoRace
  PROVE  Spec => LockKeepsProcessor
<1>1. Init => ThreadsInv
  BY InvInit
<1>2. ThreadsInv /\ [Next]_vars => ThreadsInv'
  BY InvNext
<1>3. ThreadsInv /\ [Next]_vars => [k.lock > 0 /\ k'.lock > 0 => k'.cur = k.cur]_vars
  <2>1. ASSUME ThreadsInv, Next, k.lock > 0 PROVE k'.cur = k.cur
    <3>1. k.lock # 0 => k'.cur = k.cur
      BY <2>1, StepKeeps DEF Moved
    <3> QED
      BY <2>1, <3>1
  <2> QED
    BY <2>1
<1> QED
  BY <1>1, <1>2, <1>3, PTL DEF Spec, LockKeepsProcessor

\* The threads that have ended, one step at a time.
LEMMA EndedNext ==
  ASSUME ThreadsInv, NoRace, "suspend" \notin Calls, Ended(k, pc, tgt, gone), [Next]_vars
  PROVE  Ended(k, pc, tgt, gone)'
<1>1. CASE UNCHANGED vars
  BY <1>1 DEF vars, Ended, DyingOf, Waiting
<1>2. CASE Next
  <2>1. Ended(k', pc', tgt', gone')
    BY <1>2, StepKeeps DEF Moved
  <2> QED
    BY <2>1
<1> QED
  BY <1>1, <1>2

\* What the run checks of them.
LEMMA EndedUnlinked ==
  ASSUME ThreadsInv, Ended(k, pc, tgt, gone)
  PROVE  ClosedUnlinked
<1>1. /\ Prepared(k, pc, tgt, gone) /\ CurRuns(k, pc) /\ Dying = DyingOf(pc, tgt)
      /\ KernelSound(k, Dying) /\ k \in KernelType /\ gone \subseteq Thread
  BY InvFacts DEF Shape
<1>2. /\ \A p \in Prio : \A t : Contains(k.rdy[p], t) <=> t \in Ready(k, p)
      /\ \A t : Contains(k.wait["defunct"], t) <=> t \in Waiting(k, "defunct")
  <2>1. k.rdy \in [Prio -> Seq(Thread)] /\ k.wait["defunct"] \in Seq(Thread)
    BY <1>1, KernelFields, ThreadsAssumption
  <2> QED
    BY <2>1, ContainsToSet DEF Ready, Waiting
<1>3. SUFFICES ASSUME NEW t \in Thread, k.stat[t] = "CLOSE" \/ t \in gone
               PROVE  /\ k.stat[t] = "CLOSE"
                      /\ t \notin k.tmr
                      /\ t # k.cur
                      /\ \A p \in Prio : ~Contains(k.rdy[p], t)
                      /\ Contains(k.wait["defunct"], t) => t \notin gone
                      /\ t \notin gone \cup Dying => Contains(k.wait["defunct"], t)
  BY DEF ClosedUnlinked
<1>4. k.stat[t] = "CLOSE"
  BY <1>3 DEF Ended
<1>5. t \notin k.tmr /\ (\A p \in Prio : t \notin Ready(k, p))
  BY <1>1, <1>4 DEF KernelSound, LinksSound
<1>6. t # k.cur
  BY <1>1, <1>4 DEF CurRuns
<1>7. t \in Waiting(k, "defunct") => t \notin gone
  BY <1>1 DEF Prepared, EndSound
<1>8. t \notin gone \cup Dying => t \in Waiting(k, "defunct")
  BY <1>1, <1>4 DEF Ended
<1> QED
  BY <1>2, <1>4, <1>5, <1>6, <1>7, <1>8

\* ClosedUnlinked, where no thread is suspended by another one: a thread that
\* has ended never comes back, and is in the list of the idle thread until that
\* has freed it, whether it returned, was deleted or both at once.
THEOREM ClosedCorrect ==
  ASSUME NoRace, "suspend" \notin Calls
  PROVE  Spec => []ClosedUnlinked
<1>1. Init => ThreadsInv /\ Ended(k, pc, tgt, gone)
  <2>1. Init => ThreadsInv
    BY InvInit
  <2>2. Init => Ended(k, pc, tgt, gone)
    BY ThreadsAssumption, KernelAssumption DEF Init, Ended
  <2> QED
    BY <2>1, <2>2
<1>2. ThreadsInv /\ Ended(k, pc, tgt, gone) /\ [Next]_vars
        => (ThreadsInv /\ Ended(k, pc, tgt, gone))'
  <2> SUFFICES ASSUME ThreadsInv, Ended(k, pc, tgt, gone), [Next]_vars
               PROVE  ThreadsInv' /\ Ended(k, pc, tgt, gone)'
    OBVIOUS
  <2>1. ThreadsInv'
    BY InvNext
  <2>2. Ended(k, pc, tgt, gone)'
    BY EndedNext
  <2> QED
    BY <2>1, <2>2
<1>3. ThreadsInv /\ Ended(k, pc, tgt, gone) => ClosedUnlinked
  BY EndedUnlinked
<1> QED
  BY <1>1, <1>2, <1>3, PTL DEF Spec

\* The calls under which the order of the threads can be relied on: nobody
\* changes a priority, which does not reschedule, and a thread that deletes
\* another one is not suspended on the way.
Ordered ==
  /\ NoRace
  /\ "priority" \notin Calls
  /\ "delete" \notin Calls \/ "suspend" \notin Calls

OrderInv ==
  /\ ThreadsInv
  /\ MostUrgent(k, pc)
  /\ "delete" \in Calls => Deleter(k, pc, tgt)

LEMMA OrderNext ==
  ASSUME OrderInv, Ordered, [Next]_vars
  PROVE  OrderInv'
<1>1. ThreadsInv'
  BY InvNext DEF OrderInv, Ordered
<1>2. CASE UNCHANGED vars
  BY <1>1, <1>2 DEF vars, OrderInv, MostUrgent, Urgent, Ready, Deleter
<1>3. CASE Next
  <2>1. MostUrgent(k', pc')
    BY <1>3, StepKeeps DEF Moved, OrderInv, Ordered
  <2>2. "delete" \in Calls => Deleter(k', pc', tgt')
    BY <1>3, StepKeeps DEF Moved, OrderInv, Ordered
  <2> QED
    BY <1>1, <2>1, <2>2 DEF OrderInv
<1> QED
  BY <1>2, <1>3

\* A ready thread that is being deleted is in no list; but its deleter is in one,
\* or runs, and is at least as urgent.
LEMMA OrderUrgent ==
  ASSUME OrderInv
  PROVE  MostUrgentRuns
<1>1. /\ Prepared(k, pc, tgt, gone) /\ KernelSound(k, Dying) /\ Shape(pc, tgt, gone)
      /\ PcSound(pc, tgt) /\ Dying = DyingOf(pc, tgt) /\ k.cur \in Thread
  BY InvFacts DEF OrderInv
<1>2. k.prio \in [Thread -> Prio] /\ Prio \subseteq Nat
  BY <1>1, PreparedFields DEF Prio
<1>3. SUFFICES ASSUME k.lock = 0, ~OwesSchedule, NEW t \in Thread, k.stat[t] = "READY"
               PROVE  k.prio[k.cur] <= k.prio[t]
  BY DEF MostUrgentRuns, HighestRuns
<1>4. \A p \in Prio : Ready(k, p) # {} => k.prio[k.cur] <= p
  BY <1>3 DEF OrderInv, MostUrgent, Urgent, OwesSchedule
<1>5. ASSUME NEW s \in Thread, s \notin Dying, k.stat[s] \in Alive
      PROVE  k.prio[k.cur] <= k.prio[s]
  <2>1. CASE k.stat[s] = "READY"
    <3>1. s \in Ready(k, k.prio[s]) /\ k.prio[s] \in Prio
      BY <1>1, <1>2, <1>5, <2>1 DEF KernelSound, LinksSound
    <3> QED
      BY <1>4, <3>1
  <2>2. CASE k.stat[s] = "RUNNING"
    <3>1. s = k.cur /\ k.prio[s] \in Nat
      BY <1>1, <1>2, <2>2 DEF KernelSound, LinksSound
    <3> QED
      BY <3>1
  <2> QED
    BY <1>5, <2>1, <2>2 DEF Alive
<1>6. CASE t \notin Dying
  BY <1>3, <1>5, <1>6 DEF Alive
<1>7. CASE t \in Dying
  <2>1. PICK s \in Thread : pc[s] \in {"del_timer", "del_close"} /\ tgt[s] = t
    BY <1>1, <1>7 DEF DyingOf
  <2>2. pc[s] \in Dels /\ "delete" \in Calls
    BY <1>1, <2>1 DEF PcSound, Dels
  <2>3. k.stat[s] \in Alive /\ k.prio[s] <= k.prio[t]
    BY <1>3, <2>1, <2>2 DEF OrderInv, Deleter, Alive
  <2>4. s \notin Dying
    <3>1. \A u \in Thread : pc[u] \in Dels => u = s
      BY <1>1, <2>2 DEF PcSound
    <3>2. tgt[s] # s
      BY <1>1, <2>2 DEF PcSound, Dels
    <3> QED
      BY <1>1, <3>1, <3>2 DEF DyingOf, Dels
  <2>5. k.prio[k.cur] <= k.prio[s]
    BY <1>5, <2>3, <2>4
  <2>6. k.prio[k.cur] \in Nat /\ k.prio[s] \in Nat /\ k.prio[t] \in Nat
    BY <1>1, <1>2
  <2> QED
    BY <2>3, <2>5, <2>6
<1> QED
  BY <1>6, <1>7

\* MostUrgentRuns: with the scheduler unlocked the processor belongs to the most
\* urgent ready thread after every call, switch, tick and timeout.
THEOREM UrgentCorrect ==
  ASSUME Ordered
  PROVE  Spec => []MostUrgentRuns
<1>1. Init => OrderInv
  <2> SUFFICES ASSUME Init PROVE OrderInv
    OBVIOUS
  <2>1. ThreadsInv
    BY InvInit
  <2>2. Deleter(k, pc, tgt)
    BY DEF Init, Deleter, Dels
  <2>3. MostUrgent(k, pc)
    <3>1. /\ k.prio = InitPrio /\ k.cur = Main
          /\ k.rdy = [p \in Prio |-> IF p = MaxPrio THEN <<Idle>> ELSE << >>]
      BY DEF Init
    <3>2. \A p \in Prio : Ready(k, p) # {} => p = MaxPrio
      BY <3>1 DEF Ready, ToSet
    <3>3. InitPrio[Main] <= MaxPrio
      BY ThreadsAssumption, KernelAssumption DEF Prio
    <3> QED
      BY <3>1, <3>2, <3>3 DEF MostUrgent, Urgent
  <2> QED
    BY <2>1, <2>2, <2>3 DEF OrderInv
<1>2. OrderInv /\ [Next]_vars => OrderInv'
  BY OrderNext
<1>3. OrderInv => MostUrgentRuns
  BY OrderUrgent
<1> QED
  BY <1>1, <1>2, <1>3, PTL DEF Spec
=============================================================================
