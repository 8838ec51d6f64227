------------------------------- MODULE Event -------------------------------
(***************************************************************************)
(* One event object: a set of flags and the threads that wait for some or   *)
(* for all of several flags (rt_event_init, rt_event_send, rt_event_recv    *)
(* and rt_event_control of src/rt-thread/src/ipc.c).                        *)
(*                                                                         *)
(* rt_event_send walks the whole list of waiters and serves each one whose  *)
(* condition holds; one that asked for RT_EVENT_FLAG_CLEAR takes its flags  *)
(* away from those behind it.  What a waiter receives is left in its        *)
(* event_set, where it finds it when it runs again; timeouts, resets and    *)
(* further sends go on meanwhile.                                           *)
(*                                                                         *)
(* One action is one section with interrupts disabled; pc is as in          *)
(* Semaphore.                                                               *)
(***************************************************************************)
EXTENDS Ipc

CONSTANTS Flags,    \* the flags in use, of the 32 of an event
          Sends,    \* the sets of flags that are sent
          Requests, \* what is asked for: pairs of a set of flags and an option
          Calls     \* Calls[t]: the calls thread t makes; Calls[Idle] is what
                    \* interrupt handlers do while any thread runs

\* RT_EVENT_FLAG_AND or RT_EVENT_FLAG_OR, with or without RT_EVENT_FLAG_CLEAR.
Option == [all : BOOLEAN, clear : BOOLEAN]

ASSUME EventAssumption ==
  /\ Sends \subseteq SUBSET Flags \ {{}}
  /\ Requests \subseteq (SUBSET Flags \ {{}}) \X Option
  /\ Queue = {"event"}

VARIABLES k,     \* the kernel state
          pc,    \* pc[t]: where t is in its call
          set,   \* event->set
          evset, \* thread->event_set
          info   \* thread->event_info

vars == <<k, pc, set, evset, info>>

Waiters == k.wait["event"]

TypeOK ==
  /\ k \in KernelType
  /\ pc \in [Thread -> {"run", "recv", "wait", "sched"}]
  /\ set \subseteq Flags
  /\ evset \in [Thread -> SUBSET Flags]
  /\ \A t \in Thread : pc[t] \in {"recv", "wait"} => evset[t] # {}
  /\ info \in [Thread -> Option]

NoOption == [all |-> FALSE, clear |-> FALSE]

Init ==
  /\ k = InitKernel
  /\ pc = [t \in Thread |-> "run"]
  /\ set = {}
  /\ evset = [t \in Thread |-> {}]
  /\ info = [t \in Thread |-> NoOption]

-----------------------------------------------------------------------------
Caller(t, call) == k.cur = t /\ t # Idle /\ pc[t] = "run" /\ call \in Calls[t]

Goto(t, from, to) == k.cur = t /\ pc[t] = from /\ pc' = [pc EXCEPT ![t] = to]

\* Whether the flags that are present are what a receiver asked for.
Satisfied(present, wanted, option) ==
  IF option.all THEN wanted \subseteq present ELSE present \cap wanted # {}

\* Fault: the flags a waiter clears are still there for the next one.
ServeUncleared(s, t) ==
  IF Satisfied(s.set, s.evset[t], info[t])
  THEN [k     |-> ResumeThread(s.k, t),
        set   |-> s.set,
        evset |-> [s.evset EXCEPT ![t] = @ \cap s.set]]
  ELSE s

\* Faults: the waiter stays asleep; its timer is not stopped.
ServeNobody(s, t) == s
ServeTimed(s, t) ==
  IF Satisfied(s.set, s.evset[t], info[t])
  THEN [k     |-> InsertThread(Unlink(s.k, t), t),
        set   |-> IF info[t].clear THEN s.set \ s.evset[t] ELSE s.set,
        evset |-> [s.evset EXCEPT ![t] = @ \cap s.set]]
  ELSE s

\* One round of the loop of rt_event_send, for the waiter t.
Serve(s, t) ==
  IF Satisfied(s.set, s.evset[t], info[t])
  THEN [k     |-> ResumeThread(s.k, t),
        set   |-> IF info[t].clear THEN s.set \ s.evset[t] ELSE s.set,
        evset |-> [s.evset EXCEPT ![t] = @ \cap s.set]]
  ELSE s

\* The state after the flags f were added and every waiter was looked at.
AfterSend(f) ==
  FoldLeft(LAMBDA s, t : Serve(s, t),
           [k |-> k, set |-> set \cup f, evset |-> evset], Waiters)

\* Fault: the caller goes on although it resumed a thread.
SendSilently(t, f) ==
  /\ Caller(t, "send")
  /\ k' = AfterSend(f).k
  /\ set' = AfterSend(f).set
  /\ evset' = AfterSend(f).evset
  /\ UNCHANGED <<pc, info>>

\* rt_event_send by a thread; rt_schedule follows when a thread was resumed.
Send(t, f) ==
  /\ Caller(t, "send")
  /\ k' = AfterSend(f).k
  /\ set' = AfterSend(f).set
  /\ evset' = AfterSend(f).evset
  /\ Goto(t, "run", IF k' # k THEN "sched" ELSE "run")
  /\ UNCHANGED info

\* rt_event_send by an interrupt handler, its rt_schedule included.
SendIsr(f) ==
  /\ "send" \in Calls[Idle]
  /\ LET s == AfterSend(f)
     IN  /\ k' = IF s.k # k THEN Schedule(s.k) ELSE k
         /\ set' = s.set
         /\ evset' = s.evset
  /\ UNCHANGED <<pc, info>>

\* rt_event_recv when the flags are there.  What it writes into event_set and
\* event_info nobody reads: those of a thread that does not wait are left out.
RecvAtOnce(t, w, o) ==
  /\ \E c \in {"recv", "timed", "try"} : Caller(t, c)
  /\ Satisfied(set, w, o)
  /\ k' = [k EXCEPT !.err[t] = "EOK"]
  /\ set' = IF o.clear THEN set \ w ELSE set
  /\ UNCHANGED <<pc, evset, info>>

\* rt_event_recv that does not wait and finds too few flags: -RT_ETIMEOUT.
RecvFails(t, w, o) ==
  /\ Caller(t, "try")
  /\ ~Satisfied(set, w, o)
  /\ k' = [k EXCEPT !.err[t] = "ETIMEOUT"]
  /\ UNCHANGED <<pc, set, evset, info>>

\* rt_event_recv suspends the thread, with its request in event_set.
RecvSuspend(t, w, o, call) ==
  /\ Caller(t, call)
  /\ ~Satisfied(set, w, o)
  /\ evset' = [evset EXCEPT ![t] = w]
  /\ info' = [info EXCEPT ![t] = o]
  /\ k' = IpcSuspend(k, "event", t, call = "timed")
  /\ Goto(t, "run", "recv")
  /\ UNCHANGED set

\* The rt_schedule of rt_event_recv, of a send or of a reset.
CallSchedule(t) ==
  /\ Goto(t, "recv", "wait") \/ Goto(t, "sched", "run")
  /\ k' = Schedule(k)
  /\ UNCHANGED <<set, evset, info>>

\* rt_event_recv runs again: thread->error, or RT_EOK and the flags that
\* event_set holds.
RecvReturn(t) ==
  /\ Goto(t, "wait", "run")
  /\ evset' = [evset EXCEPT ![t] = {}]
  /\ info' = [info EXCEPT ![t] = NoOption]
  /\ UNCHANGED <<k, set>>

\* rt_event_control(RT_IPC_CMD_RESET): every waiter returns with -RT_ERROR.
Reset(t) ==
  /\ Caller(t, "reset")
  /\ k' = IpcResumeAll(k, "event")
  /\ set' = {}
  /\ Goto(t, "run", "sched")
  /\ UNCHANGED <<evset, info>>

\* The tick interrupt.
TickSlice == k' = YieldCurrent(k) /\ UNCHANGED <<pc, set, evset, info>>

TickTimeout(t) ==
  /\ t \in k.tmr
  /\ k' = ThreadTimeout(k, t)
  /\ UNCHANGED <<pc, set, evset, info>>

Step(t) ==
  \/ \E f \in Sends : Send(t, f)
  \/ \E r \in Requests :
       \/ RecvAtOnce(t, r[1], r[2]) \/ RecvFails(t, r[1], r[2])
       \/ \E call \in {"recv", "timed"} : RecvSuspend(t, r[1], r[2], call)
  \/ CallSchedule(t) \/ RecvReturn(t) \/ Reset(t)

Next ==
  \/ \E t \in Thread : Step(t) \/ TickTimeout(t)
  \/ \E f \in Sends : SendIsr(f)
  \/ TickSlice

Spec == Init /\ [][Next]_vars

-----------------------------------------------------------------------------
(***************************************************************************)
(* Properties                                                              *)
(***************************************************************************)

\* No thread sleeps although the flags it asked for are there, whichever
\* flags other waiters cleared and in whatever order the waiters were looked
\* at.
NoneOverlooked ==
  \A i \in DOMAIN Waiters :
    ~Satisfied(set, evset[Waiters[i]], info[Waiters[i]])

\* Threads that a send has served and whose rt_event_recv has not returned.
Served == {t \in Thread : /\ pc[t] \in {"recv", "wait"}
                          /\ ~Contains(Waiters, t)
                          /\ k.err[t] = "EOK"}

\* What a walk of rt_event_send through the waiters comes to, whatever their
\* order: every thread it wakes gets flags it asked for, all of them if it
\* asked for all; a flag that one of them clears goes to no other that clears
\* it; and exactly the flags that were cleared are gone.
SendServes ==
  [][LET woken == Served' \ Served
         clearing == {t \in woken : info[t].clear}
     IN  woken # {} =>
           \E f \in Sends :
             /\ \A t \in woken :
                  /\ Satisfied(set \cup f, evset[t], info[t])
                  /\ evset'[t] # {}
                  /\ evset'[t] \subseteq evset[t] \cap (set \cup f)
                  /\ info[t].all => evset'[t] = evset[t]
             /\ \A t, u \in clearing : t # u => evset'[t] \cap evset'[u] = {}
             /\ set' = (set \cup f) \ UNION {evset'[t] : t \in clearing}]_vars

\* What a thread was served it also receives: until its call returns neither a
\* timeout nor a reset nor another send changes the outcome.
OutcomeKept ==
  [][\A t \in Served : \/ pc'[t] = "run"
                       \/ t \in Served' /\ evset'[t] = evset[t]]_vars

\* A thread that receives its flags runs before anything less urgent goes on:
\* whoever sends calls rt_schedule once, after the walk, if it woke anybody.
UrgentReceiverRuns == pc[k.cur] \notin {"sched", "recv"} => HighestRuns(k)

\* The scheduler's lists and the list of waiters agree with the threads' stat,
\* although rt_event_send takes threads out of the middle of the list while it
\* walks it.
WaitersConsistent ==
  /\ ListsMatchStat(k, {}) /\ BitmapExact(k)
  /\ WaitListSound(k, "event")
  /\ \A t \in Thread :
       Contains(Waiters, t) <=> pc[t] \in {"recv", "wait"} /\ k.stat[t] = "SUSPEND"

\* The waiters of an event, together: each has a request, the list is exact and
\* in order, and none is overlooked by a send.
WaitersSound == TypeOK /\ WaitersConsistent /\ NoneOverlooked
=============================================================================
