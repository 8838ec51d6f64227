-------------------------------- MODULE Ipc --------------------------------
(***************************************************************************)
(* What the IPC objects of src/rt-thread/src/ipc.c share: the lists of      *)
(* suspended threads, and the two flags that order them.  Like RtKernel it  *)
(* has no variables; Queue is the set of suspension lists of the objects.   *)
(***************************************************************************)
EXTENDS RtKernel

CONSTANTS InitPrio,  \* init_priority of every thread
          Flag       \* RT_IPC_FLAG_FIFO or RT_IPC_FLAG_PRIO: "FIFO", "PRIO"

ASSUME IpcAssumption ==
  /\ IsFiniteSet(Thread)
  /\ InitPrio \in [Thread -> Prio]
  /\ InitPrio[Idle] = MaxPrio
  /\ \A t \in Thread \ {Idle} : InitPrio[t] < MaxPrio
  /\ Flag \in {"FIFO", "PRIO"}

\* The application's threads have been started, from the idle thread's point
\* of view in no particular order, and the most urgent one has the processor.
InitKernel ==
  Schedule([cur  |-> Idle,
            rdy  |-> [p \in Prio |->
                        SetToSeq({t \in Thread \ {Idle} : InitPrio[t] = p})],
            grp  |-> {InitPrio[t] : t \in Thread \ {Idle}},
            lock |-> 0,
            wait |-> [q \in Queue |-> << >>],
            stat |-> [t \in Thread |-> IF t = Idle THEN "RUNNING" ELSE "READY"],
            yld  |-> {},
            prio |-> InitPrio,
            err  |-> [t \in Thread |-> "EOK"],
            tmr  |-> {}])

-----------------------------------------------------------------------------
\* Where _ipc_list_suspend puts a thread: at the end, or with
\* RT_IPC_FLAG_PRIO before the first thread that is less urgent.
WaitPosition(k, list, t) ==
  LET less == {i \in DOMAIN list : k.prio[t] < k.prio[list[i]]}
  IN  IF Flag = "FIFO" \/ less = {} THEN Len(list) + 1 ELSE Min(less)

\* _ipc_list_suspend after thread->error = RT_EOK, then rt_timer_start when
\* the caller waits with a timeout (time > 0).
IpcSuspend(k, q, t, timed) ==
  LET s == SuspendThread([k EXCEPT !.err[t] = "EOK"], t)
      w == [s EXCEPT !.wait[q] = InsertAt(@, WaitPosition(k, @, t), t)]
  IN  IF timed THEN StartTimer(w, t) ELSE w

\* _ipc_list_resume: the first thread of the list.
IpcResume(k, q) == ResumeThread(k, Head(k.wait[q]))

\* One round of the loop of _ipc_list_resume_all.
IpcResumeError(k, q) ==
  LET t == Head(k.wait[q]) IN ResumeThread([k EXCEPT !.err[t] = "ERROR"], t)

\* _ipc_list_resume_all, called with interrupts disabled: after i rounds.
IpcResumeAll(k, q) ==
  LET n == Len(k.wait[q])
      round[i \in 0 .. n] == IF i = 0 THEN k ELSE IpcResumeError(round[i - 1], q)
  IN  round[n]

\* Every thread of a suspension list is suspended, and its threads are in the
\* order Flag asks for: with RT_IPC_FLAG_PRIO the most urgent first.
WaitListSound(k, q) ==
  /\ \A i \in DOMAIN k.wait[q] : k.stat[k.wait[q][i]] = "SUSPEND"
  /\ Flag = "PRIO" =>
       \A i, j \in DOMAIN k.wait[q] :
         i < j => k.prio[k.wait[q][i]] <= k.prio[k.wait[q][j]]
=============================================================================
