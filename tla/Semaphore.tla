----------------------------- MODULE Semaphore -----------------------------
(***************************************************************************)
(* One semaphore and the threads and interrupt handlers that use it         *)
(* (src/rt-thread/src/ipc.c, from rt_sem_init to rt_sem_control).            *)
(*                                                                         *)
(* A release with a waiter does not count: it resumes the waiter and keeps  *)
(* value, and the waiter's rt_sem_take returns RT_EOK because nobody wrote  *)
(* an error into thread->error.  So the token a release gives away exists   *)
(* for a while only as a thread that is ready and has not run yet, while    *)
(* timeouts, resets and further releases go on.                             *)
(*                                                                         *)
(* One action is one section with interrupts disabled.  pc[t] is where t is *)
(* in its call: "take" and "sched" are the places before the rt_schedule of *)
(* rt_sem_take and of the other calls, "wait" is behind the former.         *)
(***************************************************************************)
EXTENDS Ipc

CONSTANTS MaxValue,  \* RT_SEM_VALUE_MAX
          InitValue, \* the value rt_sem_init is given
          Calls      \* the calls the application makes

ASSUME SemaphoreAssumption ==
  /\ MaxValue \in Nat \ {0}
  /\ InitValue \in 0 .. MaxValue
  /\ Queue = {"sem"}

VARIABLES k,      \* the kernel state
          pc,     \* pc[t]: where t is in its call
          value,  \* sem->value
          alive,  \* the semaphore is initialised
          bogus,  \* _ipc_list_resume_all took the list head for a thread
          late,   \* history: a timeout came between its test and its body
          credit  \* history: tokens given and not yet taken

detaching == <<bogus, late>>
vars == <<k, pc, value, alive, detaching, credit>>

Waiters == k.wait["sem"]

\* Threads that a release has resumed and whose rt_sem_take has not returned.
Granted ==
  {t \in Thread : /\ pc[t] \in {"take", "wait"}
                  /\ ~Contains(Waiters, t)
                  /\ k.err[t] = "EOK"}

TypeOK ==
  /\ k \in KernelType
  /\ pc \in [Thread -> {"run", "take", "wait", "sched",
                        "det_check", "det_resume"}]
  /\ value \in 0 .. MaxValue
  /\ alive \in BOOLEAN
  /\ {bogus, late} \subseteq BOOLEAN
  /\ credit \in Nat

Init ==
  /\ k = InitKernel
  /\ pc = [t \in Thread |-> "run"]
  /\ value = InitValue
  /\ alive = TRUE
  /\ bogus = FALSE /\ late = FALSE
  /\ credit = InitValue

-----------------------------------------------------------------------------
Caller(t, call) ==
  k.cur = t /\ t # Idle /\ pc[t] = "run" /\ call \in Calls

\* No thread may begin a call on a semaphore that is being detached.
Usable == alive /\ \A t \in Thread : pc[t] \notin {"det_check", "det_resume"}

Goto(t, from, to) == k.cur = t /\ pc[t] = from /\ pc' = [pc EXCEPT ![t] = to]

\* rt_sem_take, or rt_sem_trytake, of an available semaphore.
TakeAvailable(t) ==
  /\ \E c \in {"try", "take", "timed"} : Caller(t, c)
  /\ Usable
  /\ value > 0
  /\ value' = value - 1
  /\ credit' = credit - 1
  /\ UNCHANGED <<k, pc, alive, detaching>>

\* rt_sem_trytake of an unavailable one: -RT_ETIMEOUT, no state changes.
TryTakeFails(t) ==
  /\ Caller(t, "try")
  /\ Usable
  /\ value = 0
  /\ UNCHANGED vars

\* rt_sem_take of an unavailable one: suspend, and with a timeout start the
\* timer.
TakeSuspend(t, call) ==
  /\ Caller(t, call)
  /\ Usable
  /\ value = 0
  /\ k' = IpcSuspend(k, "sem", t, call = "timed")
  /\ Goto(t, "run", "take")
  /\ UNCHANGED <<value, alive, detaching, credit>>

\* The rt_schedule of rt_sem_take, of a release or of a reset.
CallSchedule(t) ==
  /\ Goto(t, "take", "wait") \/ Goto(t, "sched", "run")
  /\ k' = Schedule(k)
  /\ UNCHANGED <<value, alive, detaching, credit>>

\* Fault: after a timeout it waits once more.
TakeReturnRetry(t) ==
  /\ k.cur = t /\ pc[t] = "wait"
  /\ LET retry == k.err[t] = "ETIMEOUT" /\ value = 0 /\ Usable
     IN  /\ pc' = [pc EXCEPT ![t] = IF retry THEN "take" ELSE "run"]
         /\ k' = IF retry THEN IpcSuspend(k, "sem", t, TRUE) ELSE k
  /\ credit' = IF k.err[t] = "EOK" THEN credit - 1 ELSE credit
  /\ UNCHANGED <<value, alive, detaching>>

\* rt_sem_take runs again and returns thread->error, or RT_EOK with a token.
TakeReturn(t) ==
  /\ Goto(t, "wait", "run")
  /\ credit' = IF k.err[t] = "EOK" THEN credit - 1 ELSE credit
  /\ UNCHANGED <<k, value, alive, detaching>>

\* Fault: a token for the waiter and one for value.
GiveTwice ==
  /\ value < MaxValue
  /\ value' = value + 1
  /\ credit' = credit + 1
  /\ UNCHANGED <<alive, detaching>>

\* The section of rt_sem_release with interrupts disabled.  With no waiter
\* and a full count it fails (-RT_EFULL) and changes nothing.
Give ==
  /\ \/ /\ Waiters # <<>>
        /\ UNCHANGED value
     \/ /\ Waiters = <<>>
        /\ value < MaxValue
        /\ value' = value + 1
  /\ credit' = credit + 1
  /\ UNCHANGED <<alive, detaching>>

GiveKernel == IF Waiters # <<>> THEN IpcResume(k, "sem") ELSE k

\* rt_sem_release by a thread; rt_schedule follows when a thread was resumed.
Release(t) ==
  /\ Caller(t, "release")
  /\ Usable
  /\ Give
  /\ k' = GiveKernel
  /\ Goto(t, "run", IF Waiters # <<>> THEN "sched" ELSE "run")

\* rt_sem_release by an interrupt handler, its rt_schedule included.
ReleaseIsr ==
  /\ "isr" \in Calls
  /\ Usable
  /\ Give
  /\ k' = IF Waiters # <<>> THEN Schedule(GiveKernel) ELSE k
  /\ UNCHANGED pc

\* Fault: the waiters stay where they are.
ResetValueOnly(t, v) ==
  /\ Caller(t, "reset")
  /\ Usable
  /\ value' = v
  /\ credit' = v + Cardinality(Granted)
  /\ Goto(t, "run", "sched")
  /\ UNCHANGED <<k, alive, detaching>>

\* rt_sem_control(RT_IPC_CMD_RESET): every waiter returns with -RT_ERROR.
Reset(t, v) ==
  /\ Caller(t, "reset")
  /\ Usable
  /\ k' = IpcResumeAll(k, "sem")
  /\ value' = v
  /\ credit' = v + Cardinality(Granted)
  /\ Goto(t, "run", "sched")
  /\ UNCHANGED <<alive, detaching>>

\* rt_sem_detach calls _ipc_list_resume_all with interrupts enabled.
Detach(t) ==
  /\ Caller(t, "detach")
  /\ Usable
  /\ Goto(t, "run", "det_check")
  /\ UNCHANGED <<k, value, alive, detaching, credit>>

\* Fault: the test comes after the body.
DetachCheckLast(t) ==
  /\ Goto(t, "det_check", IF alive THEN "det_resume" ELSE "run")
  /\ alive' = FALSE
  /\ UNCHANGED <<k, value, detaching, credit>>

\* `while (!rt_list_isempty(list))'; after the loop rt_object_detach.
DetachCheck(t) ==
  /\ Goto(t, "det_check", IF Waiters # <<>> THEN "det_resume" ELSE "run")
  /\ alive' = (Waiters # <<>>)
  /\ UNCHANGED <<k, value, detaching, credit>>

\* The body of the loop.  rt_list_entry of an empty list is no thread.
DetachResume(t) ==
  /\ Goto(t, "det_resume", "det_check")
  /\ k' = IF Waiters # <<>> THEN IpcResumeError(k, "sem") ELSE k
  /\ bogus' = (Waiters = <<>>)
  /\ late' = (late /\ bogus')
  /\ UNCHANGED <<value, alive, credit>>

\* rt_sem_init of the same object, once nobody is in a call on it.
Reinit(t) ==
  /\ Caller(t, "detach")
  /\ ~alive
  /\ \A u \in Thread : pc[u] \in {"run", "sched"}
  /\ alive' = TRUE
  /\ value' = InitValue
  /\ credit' = InitValue
  /\ UNCHANGED <<k, pc, detaching>>

\* The tick interrupt: a time slice ends, or the timer of a waiter expires.
TickSlice ==
  /\ k' = YieldCurrent(k)
  /\ UNCHANGED <<pc, value, alive, detaching, credit>>

TickTimeout(t) ==
  /\ t \in k.tmr
  /\ k' = ThreadTimeout(k, t)
  /\ late' = (late \/ \E u \in Thread : pc[u] = "det_resume")
  /\ UNCHANGED <<pc, value, alive, bogus, credit>>

Step(t) ==
  \/ TakeAvailable(t) \/ TryTakeFails(t)
  \/ \E call \in {"take", "timed"} : TakeSuspend(t, call)
  \/ CallSchedule(t) \/ TakeReturn(t) \/ Release(t)
  \/ \E v \in 0 .. MaxValue : Reset(t, v)
  \/ Detach(t) \/ DetachCheck(t) \/ DetachResume(t) \/ Reinit(t)

\* What comes after rt_thread_resume was given the list head is undefined, and
\* the model ends there.
Undefined == bogus /\ UNCHANGED vars

Next ==
  \/ /\ ~bogus
     /\ \/ \E t \in Thread : Step(t) \/ TickTimeout(t)
        \/ ReleaseIsr
        \/ TickSlice
  \/ Undefined

Spec == Init /\ [][Next]_vars

InCall(t) == CallSchedule(t) \/ TakeReturn(t) \/ DetachCheck(t) \/ DetachResume(t)

\* The current thread goes on with a call it is in, the tick comes for ever,
\* and timers in the list expire: weak fairness of three actions, each written
\* with the condition that enables it.
FairSpec ==
  /\ Spec
  /\ \/ []<>(bogus \/ pc[k.cur] = "run")
     \/ []<><<\E t \in Thread : InCall(t)>>_vars
  /\ \/ []<>(bogus \/ YieldCurrent(k) = k)
     \/ []<><<TickSlice>>_vars
  /\ \A t \in Thread :
       \/ []<>(bogus \/ t \notin k.tmr)
       \/ []<><<TickTimeout(t)>>_vars

-----------------------------------------------------------------------------
(***************************************************************************)
(* Properties                                                              *)
(***************************************************************************)

\* No thread sleeps on a semaphore that has a token.
NoTokenWithWaiters == value > 0 => Waiters = <<>>

\* Every token is counted once: what was given and not yet taken is in value
\* or on its way to one resumed thread.  A timeout that comes together with a
\* release neither loses the token nor returns it to two threads.
TokensConserved == credit = value + Cardinality(Granted)

\* The scheduler's lists and the suspension list agree with the threads' stat,
\* waiters are in order, and a thread is in the suspension list exactly when
\* it is suspended in rt_sem_take.
WaitersConsistent ==
  /\ ListsMatchStat(k, {}) /\ BitmapExact(k)
  /\ WaitListSound(k, "sem")
  /\ \A t \in Thread :
       Contains(Waiters, t) <=> pc[t] \in {"take", "wait"} /\ k.stat[t] = "SUSPEND"

\* rt_thread_resume asserts that its argument is a thread (thread.c:866), and
\* rt_sem_detach keeps to that but for one window: it tests the list of waiters
\* with interrupts enabled, so the timeout of the last waiter can empty the
\* list between the test and the body of the loop (ipc.c:213).
ResumesOnlyThreads == bogus => late

\* A rt_sem_take with a timeout made by a thread of the highest priority
\* returns, even if the semaphore is never released, and whatever happens to
\* it meanwhile.
TimedTakeReturns ==
  \A t \in Thread :
    InitPrio[t] = 0 /\ pc[t] = "take" /\ t \in k.tmr ~> pc[t] = "run" \/ bogus

\* The semaphore and the scheduler agree, together: value within its 16 bits,
\* nobody asleep while there is a token, and the list of waiters exact and in
\* order, whatever timeouts, resets and a detach do to it.
WaitersSound == TypeOK /\ NoTokenWithWaiters /\ WaitersConsistent
=============================================================================
