# A verification project for the RT-Thread kernel of the HPM6750EVKMINI BSP

The repository is a board support package: RT-Thread 4.0.5, configured for one
core, with drivers for the HPM6750 and demonstration projects. What everything
else in it rests on, and what is hard to test, is the kernel in
`src/rt-thread/src`: threads, interrupts and timeouts meet in sections of a few
lines that run with interrupts disabled, and the interesting behaviour is what
happens *between* those sections. This project models that kernel, one module
per part, and on top of it the two places where the BSP makes the most of it: the
work queue and the path of an Ethernet frame from the DMA to lwIP and back. TLC
checks the models on small instances; TLAPS proves, for all instances, the safety
of the kernel's lists and of threads, semaphore, mutex, mailbox, hard timers, work
queue and Ethernet path (section 5).

## 1. Inventory

| Part | State it keeps | Operations | Meets |
|---|---|---|---|
| Scheduler (`scheduler.c`) | ready list per priority, priority bitmap, current thread, lock nest | `rt_schedule`, insert, remove, `rt_enter_critical`, `rt_exit_critical` | everything that blocks or wakes |
| Threads (`thread.c`) | stat, current priority, error, one list node, one timer per thread | init/create, startup, yield, sleep, suspend, resume, control, detach/delete, exit | scheduler, timers, idle thread |
| Idle thread (`idle.c`) | defunct list | reclaims closed threads | threads |
| Tick (`clock.c`) | `rt_tick`, remaining ticks of the current thread | `rt_tick_increase` in the interrupt | scheduler, timers |
| Semaphore (`ipc.c`) | value, suspension list | init, take, trytake, release, reset, detach | scheduler, thread timers, interrupt handlers |
| Mutex (`ipc.c`) | value, owner, hold, original priority, suspension list | take, release, with priority inheritance | scheduler, `rt_thread_control` |
| Mailbox (`ipc.c`) | ring of words, two offsets, entry, lists of receivers and senders | send, send_wait, urgent, recv, reset | interrupt handlers of drivers, lwIP |
| Message queue (`ipc.c`) | list of messages, list of free blocks, entry, lists of receivers and senders | send, send_wait, urgent, recv, reset | as the mailbox |
| Event (`ipc.c`) | set of flags, suspension list, request and result in each thread | send, recv with AND/OR/CLEAR, reset | threads, interrupt handlers |
| Hard timers (`timer.c`) | list sorted by timeout, flags | start, stop, control, `rt_timer_check` in the tick interrupt | every timed call |
| Soft timers (`timer.c`) | second list, the timer thread, busy flag | start, stop, `_timer_thread_entry`, `rt_soft_timer_check` | threads, tick |
| Memory pool, heap, objects, devices | free lists, registries | allocation, lookup, dispatch | all |
| Work queue (`workqueue.c`) | list of work, list of delayed work with a soft timer per item, current item, worker thread, semaphore | submit, submit with delay, critical, cancel, cancel_sync, cancel_all | soft timers, semaphore, clients |
| Completion (`completion.c`) | flag, one waiting thread | init, wait, done | drivers, Ethernet |
| Other IPC of `components/drivers/src` | data queue, ring buffer, wait queue, pipe | built on the above | drivers |
| Ethernet (`drv_enet.c`, `hpm_enet_drv.c`, `ethernetif.c`, `eth_phy_port.c`) | two rings of descriptors, `rx_notice`, `link_changed`, two mailboxes, segment count | interrupt, PHY timer, receive and transmit thread, `ethernetif_linkoutput` | mailbox, completion, DMA, lwIP |
| Other drivers (`src/libraries/drivers`) | hardly any | register access | device layer |

Vendored code (HPM SDK, lwIP, LVGL, file systems, shell) and the demonstrations
under `src/projects` are left aside.

What is hard, and where it bites, is the list `hazards` of `PROJECT.json`. In
short:

* a decision is taken with interrupts enabled and acted upon in a later section
  (`rt_thread_suspend`, `rt_thread_resume`, `rt_thread_delete`,
  `_ipc_list_resume_all`, the timer thread going to sleep);
* a timeout and a wake-up for the same thread arrive together;
* a thread is resumed long before it runs, so tokens, messages and ownership are
  for a while neither in the object nor with a running thread;
* an interrupt finds the current thread already suspended and not yet switched;
* ticks are unsigned and wrap, offsets wrap, counters have limits;
* timeout functions work on the list that is being walked;
* a message is copied with interrupts enabled between two sections that work on
  the lists, while others send, receive and reset;
* one walk through a list serves several threads that take flags from each other;
* a resource runs out half-way: no pbuf for a frame already taken out of the ring,
  no room in a mailbox, no descriptor for a frame to send.

## 2. Modules

```
RtKernel        the scheduler and the sections of thread.c: operators, no state
  KernelLemmas  lists, and what each operator of RtKernel and Ipc does to them
  Threads       life of threads, idle thread, tick         MCThreads
    Threads_proofs
  Ipc           suspension lists
    Semaphore                                              MCSemaphore
      Semaphore_proofs
    Mutex                                                  MCMutex
      Mutex_proofs
    Mailbox     implements BoundedQueue                    MCMailbox
      Mailbox_proofs
    MessageQueue implements BoundedQueue                   MCMessageQueue
    Event                                                  MCEvent
TimerList       tick arithmetic, sorted list: operators, no state
  HardTimers                                               MCHardTimers
    HardTimers_proofs
  SoftTimers                                               MCSoftTimers
WorkQueue       worker, timer thread, clients              MCWorkQueue
  WorkQueue_proofs
Ethernet        DMA, interrupt, two threads, completion    MCEthernet
  Ethernet_proofs
BoundedQueue    what a mailbox and a message queue promise
```

**Grain.** One action is one section of code with interrupts disabled, or one
test made with interrupts enabled whose result is used later. `pc[t]` says where
a thread is in its call, and only the current thread, `k.cur`, takes steps; the
tick interrupt and interrupt handlers come between any two of them. This is the
atomicity of a uniprocessor, and nothing finer is observable.

**Kernel state.** `RtKernel` keeps the whole kernel in one record `k`, and its
operators map states to states, so `Semaphore!Release` reads like
`rt_sem_release`: `IpcResume` is `_ipc_list_resume`, which is `ResumeThread`,
which is `rt_thread_resume`, and so on down to the list node. A thread has one
node, `tlist`; `Unlink` removes it from whichever list it is in, as
`rt_list_remove` does, and the bitmap is a set of priorities. `rt_schedule` from
an interrupt only records a switch that is made when the handler returns; no
thread runs before, so the model switches at once.

**Time** is absent from the kernel modules: a timer in `k.tmr` may expire at any
tick, which covers all durations. The timer modules have the real tick counter,
modulo `TickMax + 1`, and the comparisons of the code.

**Threads.** `SuspendCheck`/`Suspend`, `ResumeCheck`/`Resume` and
`DeleteCheck`/`DeleteUnlink`/`DeleteTimer`/`DeleteClose` are the tests and
sections of one call each; `Create`, `Startup`, `Sleep`, `SetPriority`,
`EnterCritical`, `ExitCritical`, `ThreadExit` and `Reclaim` are one section
each. The application follows two rules: two threads do not work on the same third
thread at once (`Untouched`), and threads are deleted one at a time, none in the
middle of a call about another (`DeleteCheck`). `Calls` selects what the
application does.

**Semaphore.** `Give` is the section of `rt_sem_release` that interrupt handlers
and threads share. `rt_sem_detach` walks the list with interrupts enabled, hence
`DetachCheck` and `DetachResume`; an `rt_list_entry` of an empty list, which
yields the list head itself, is recorded in `bogus`. `credit` is a history
variable: tokens given and not yet taken.

**Mutex.** `Inherit` and `Restore` are the two calls of
`RT_THREAD_CTRL_CHANGE_PRIORITY`. `has` is a history variable: what the return
values told each thread, as opposed to what the mutex records. `lent`, `lowered`
and `raised` record the cases in which one mutex interferes with another (section
4). `Calls` says which thread makes which calls; "again" is a take by the owner.

**Mailbox.** `SendLoop` and `RecvLoop` are the rounds of the two loops, entered by
a call and again by `WaitAgain` with what is left of the timeout. `Put`,
`PutUrgent`, `Get` and `Clear` are the four things done to the ring.

**MessageQueue.** The blocks of the pool are numbers, the lists are `next`
pointers with `head`, `tail` and `free`, as in the code. `SendLoop` ends with
`Reserve` (`msg_queue_free = msg->next`) and `pc` "link": the block belongs to the
call. `Link` copies and links it, `Free` copies and gives it back; between the two
sections of a call everything else may happen. An interrupt handler does both in
one step.

**Event.** `Serve` is one round of the walk of `rt_event_send`, and `AfterSend` folds
it over the waiters. What a waiter asked for and what it got are both in `evset`,
as in `thread->event_set`.

**WorkQueue.** The four kinds of actors (clients, the worker with its work
functions, the timer thread, interrupt handlers) interleave at sections; the timer
thread is more urgent than the others, so only interrupt handlers come between its
own steps. `SubmitWork` and `StartDelay` are the two parts of a delayed submission:
the timer is started with interrupts enabled. `SubmitInvalid` is the submission whose
delay is too long: an action of its own, since the code refuses it only after it has
taken the item out of its list. The rules do not restrict it. `HandlerRead` is the read of
`work->workqueue` and the assertion behind it. The semaphore is not a variable:
`_workqueue_work_completion` releases it with the scheduler locked until nobody
waits and leaves it at 0. `Rules` states what the application abides by (section 4).

**Ethernet.** A descriptor is an element of a ring, `cpu` the set of those with
`own = 0`, `dma` and `cur` the places where the DMA and the driver stand. A frame
is a model value, and stands for its bytes and its length, which come apart when
the driver takes them from different descriptors (`Filled`). The DMA misses a frame
whose descriptor is not its own. The mailboxes are counters and sequences with a
limit, which is what `Mailbox` was shown to implement. The receive thread is split
at each test and section, and inside `eth_rx` between taking the descriptor and
giving it back. Receiving and sending share no state, so each behaviour is one of
the two (`path`); both are checked in one run.

**Timers.** The skip list is a sequence (`RT_TIMER_SKIP_LIST_LEVEL` is 1).
`HardTimers` lets threads and the running timeout function start, stop and change
any timer; `tmp` is the temporary list of `rt_timer_check`, by which it finds out
that the function did so. `SoftTimers` splits the timer thread at every place
where interrupts are enabled. Timers are started and stopped by threads less urgent
than the timer thread, which run only while it is suspended, and by timeout
functions; those in `IsrTimer` also by interrupt handlers, which run at any time.
`InitTick` gives every timer its delay.

## 3. Runs

| Run | Instance | Checks |
|---|---|---|
| `threads_live` | 3 threads + idle, 3 priorities, lock nest 2 | `KernelConsistent` (`QueuesConsistent`: lists, stat and bitmap agree; `OneRunning`; `TimerOfSuspended`: what `rt_thread_timeout` asserts), `LockKeepsProcessor` |
| `threads_end` | threads of equal priority that end, lock nest 2, fair | `KernelConsistent`, `ClosedUnlinked` (nothing of a dead thread stays linked), `MostUrgentRuns`, `TopPriorityRuns` (no thread of the highest priority starves) |
| `sem_use` | 3 threads + idle, count to 2, all calls, fair | `WaitersSound` (`NoTokenWithWaiters`, `WaitersConsistent`), `TokensConserved`, `ResumesOnlyThreads` (what `rt_thread_resume` asserts), `TimedTakeReturns` |
| `mutexes` | 2 mutexes, 3 priorities, hold to 2 | `OwnershipSound` (`OwnerIsHolder`, `FreeMutex`), `WaitersSound` (`WaitersConsistent`, `WaitersOrdered`), `InheritanceHolds`, `PriorityRestored` |
| `mailbox` | 3 threads, an interrupt handler, 2 words, all waits | `RingInv`, `WaitersSound` (`WaitersConsistent`, `NoLostWakeUp`), `IsBoundedQueue` (refinement) |
| `msgqueue` | 3 threads, an interrupt handler, 2 blocks, 2 messages | `BlocksSound` (`BlocksAccounted`, `CopyIntact`), `NoLostWakeUp`, `IsBoundedQueue` (refinement) |
| `event` | 3 receivers, 2 flags, 4 requests, an interrupt handler | `WaitersSound` (`WaitersConsistent`, `NoneOverlooked`), `SendServes`, `OutcomeKept`, `UrgentReceiverRuns` |
| `timers_hard` | 3 timers, 8 ticks | `ListSound` (`ActiveIsListed`), `Punctual`, `ListInOrder` |
| `soft_timers` | 2 timers, 10 ticks, an interrupt handler, fair | `SleepSound` (`NoTimerForgotten`, `FuncKeepsWaiting`), `WakesInTime`, `SoftTimersFire` |
| `workqueue` | 2 items, 2 clients, an interrupt handler, fair | `ItemsSound` (`QueueKnown`: what the handler asserts; `ListsAgree`, `OnlyLiveWork`, `NotLost`), `NoWorkForgotten`, `FuncKeepsWaiting`, `SyncReturns` |
| `ethernet` | rings of 2, mailboxes of 1, 2 pbufs, 2 senders, fair | `FramesAnnounced` (`NoticeIsOut`, `NoFrameForgotten`), `RingSound` (`RingInStep`, `FramesIntact`, `PbufsConserved`), `LinkSeen`, `FramesRead`; `SendSound` (`MessageAlive`, `SentInOrder`), `SendReturns` |

The names in parentheses are the parts of a conjunction, each defined and explained
on its own in the module; the type invariant of the module is always one more part.

One run ends in a counterexample. `threads_delete_race` states what a comment of
`rt_thread_delete` says and shows that it does not hold: the timeout of a sleeping
thread between `rt_schedule_remove_thread` and `rt_timer_detach` puts the thread back
into a ready list, where it stays when it is closed. For this reason `threads_end`
deletes no thread that waits with a timeout.

## 4. Where the code falls short

The properties of the other runs hold, but some of them only up to cases in which
the code does not do what it should. Such a case is not left out of the model: it
happens there, a history variable records it, and the property names it as an
exception. Dropping an exception makes TLC print the behaviour.

| Recorded in | What happens | Exception in |
|---|---|---|
| `Semaphore`: `late` | `_ipc_list_resume_all` tests the list with interrupts enabled; the timeout of the last waiter comes before the section, and the list head is resumed as a thread (`ipc.c:213`). The model ends there (`Undefined`). | `ResumesOnlyThreads`, `TimedTakeReturns` |
| `Mutex`: `lent` | A thread takes a second mutex while it is boosted through the first and stores the lent priority as original; released in the order they were taken, it keeps that priority with no mutex (`ipc.c:1120`). | `PriorityRestored` |
| `Mutex`: `lowered` | Releasing one mutex takes back a priority that the waiters of another still lend (`ipc.c:1120`). | `InheritanceHolds` |
| `Mutex`: `raised` | An owner that waits for another mutex is raised: its place in that list stays, and the priority is not passed on to the owner it waits for (`ipc.c:979`). | `WaitersOrdered`, `InheritanceHolds` |
| `SoftTimers`: `missed` | An interrupt handler starts a timer after the timer thread looked at the list and before it is suspended; nothing wakes it (`timer.c:758`). | `NoTimerForgotten`, `WakesInTime`, `SoftTimersFire` |
| `SoftTimers`: `atMax` | A timer is due at tick `RT_TICK_MAX`, which `_timer_list_next_timeout` returns for an empty list as well (`timer.c:143`). | the same |
| `WorkQueue`: `dropped` | The timer of an item expires while its function is executed (`workqueue.c:191`), `rt_workqueue_dowork` refuses the item for that reason (`-RT_EBUSY`), or `rt_workqueue_submit_work` refuses it because the delay is too long (`-RT_ERROR`, `workqueue.c:153`): each has taken it out of its list by then (`workqueue.c:99`). | `NotLost` |
| `WorkQueue`: `late` | `rt_workqueue_cancel_work_sync` tests `work_current`, the item is completed, and the caller waits for a completion that has been (`workqueue.c:368`). | `SyncReturns` |
| `Ethernet`: `Starved` | No pbuf: `rt_hpm_eth_rx` returns with the descriptor kept and the segment counted, the drain ends with frames in the ring, and they wait for the next arrival (`drv_enet.c:317`). | `NoFrameForgotten`, `FramesRead` |
| `Ethernet`: `merged` | The frame behind a kept descriptor is handed to lwIP with its own length and the bytes of the kept one. | `FramesIntact` |
| `Ethernet`: `lapped` | The whole ring is kept and gone through again; the driver and the DMA stand at different descriptors for good. The model follows the driver no further. | `RingInStep`, `NoFrameForgotten`, `FramesRead` |
| `Ethernet`: `overrun` | With the ring full `rt_hpm_eth_tx` writes into a buffer that the DMA owns. `enet_prepare_transmission_descriptors` has a comment about checking the owner (`hpm_enet_drv.c:339`) and no check. | `SentInOrder` |

The work queue needs two rules of its users, without which `QueueKnown` and
`ListsAgree` fail: an item is not submitted at once while its timer runs ("one_way":
`rt_workqueue_dowork` does not stop the timer, the item may be executed and unbound
before the timer expires, and the handler reads a null pointer), and nobody submits
or cancels an item while another client is between the section of a delayed
submission and its `rt_timer_start` ("serial": the timer is then started for an item
that is no longer in the list of delayed items). An interrupt handler must not cancel
delayed items either: the timer thread may be in front of the read. A delayed item whose resubmission is refused for
its delay leaves the list of delayed items but keeps its timer, which still puts it
into the work list when it expires (`ListsAgree`, `OnlyLiveWork`; `NotLost` counts it as
lost until then, and no longer). `rt_workqueue_cancel_all_work` goes through the lists
and does not find such an item in between: its timer keeps running. What does no
harm although it looks as if it did: a post that the full mailbox of the receive
thread refuses (all messages in it are for the one device), and a completion that is
signalled between `rt_mb_send` and `rt_completion_wait`. `ethernetif_linkoutput`
returns `ERR_OK` for a frame that the full mailbox refused, and
`phy_status_polling` never reports a link that went down.

**Bounds.** Three threads are the least for two waiters and a releaser, and for
an owner, a waiter and a thread of middle priority; three priorities give a
ready list above, at and below the current thread. A ring of two words wraps with
every second message and is full after two; one message is enough for what the
`mailbox` run is about, who sleeps and who is woken, and the order of different
messages is what the theorem `Refinement` proves. Two blocks are the least for a
block in one call's hands while another is in a list. Two flags and four requests
make waiters that compete for a flag, that need both, and that leave what they get.
Two mutexes, three priorities and a hold of 2 reach chains (an owner that waits),
nested boosts and both orders of release. Two work items let one be executed while
the other is delayed, due or cancelled. A ring of two descriptors is full, and kept
as a whole, after two frames; with mailboxes of one message a post is refused as
soon as one is out. A tick counter of 8 or 10 values
has room for delays below half of it and wraps several times along a behaviour;
`MaxLag` is how late the timer thread may be, and code and model need timers to be
served within half the range of the counter. `MaxValue`, `MaxHold` and `MaxNest`
stand for `RT_SEM_VALUE_MAX`, `RT_MUTEX_HOLD_MAX` and a nesting depth. `mutexes`
uses two reductions: the mutexes are interchangeable (`MutexSymmetry`; the run has no
temporal property), and `thread->error` of a thread that is in no call is left out
of the `VIEW`, since every call writes it before it reads it.

**Excluded inputs.** A periodic timer with a delay of 0 would keep
`rt_timer_check` in its loop for ever; `rt_timer_start` asserts only the upper
bound. Threads that suspend, sleep or exit do so with the scheduler unlocked, as
the kernel demands.

**Fairness.** `threads_end`: the tick comes for ever, the processor executes the
current thread, whichever it is, and a thread that locks the scheduler unlocks it
(strong fairness, for each depth of nesting: the thread may be interrupted again
and again); nothing is assumed of threads that are not current. `sem_use`: the
processor goes on with a call the current thread is in (it need not begin one), the
tick comes for ever and a timer in the list expires. This is weak fairness; it is
written out as "infinitely often disabled, or infinitely often taken", with the
condition that enables each action, because TLC takes long to evaluate `ENABLED` of
whole kernel steps. `soft_timers`: ticks come, the timer thread gets the processor when
it is ready (it is among the most urgent), a timeout function that waits is woken,
and timeout functions return; strong fairness, since a function may wait again and
again. `workqueue`: the same of the worker and of work functions. `ethernet`: the
interrupt handler, the two threads and a sender that is resumed run; nothing is
assumed of the DMA, of the PHY and of lwIP, which may keep its pbufs for ever.

## 5. Proofs

`Mailbox_proofs` shows, for every set of threads and messages, every size, both
list orders and every selection of calls:

* `RingCorrect`: `Spec => []RingInv`. The place `rt_mb_send_wait` writes to is
  `entry` places behind `out_offset` (modulo `size`), and the words in between
  are messages.
* `Refinement`: `Spec => IsBoundedQueue`. The mailbox implements `BoundedQueue`
  under the mapping `Contents`, the `entry` words from `out_offset` on.
* `WaitersCorrect`: `Spec => []WaitersSound`. The lists of receivers and senders hold
  exactly those who wait, in order, and no wake-up is lost.

`RingInv` is not inductive. A sender that waits for room carries its message in a
local variable across `rt_schedule`, and what it will put into the ring has to be
known to be a message: `LocalsSound`. The offsets must be in the pool: `RingType`.
`IndInv` is the conjunction. `StepsTouchRing` reduces all calls, interrupts and
timeouts to the four operations on the ring or none of them, so nothing about the
scheduler is needed; `PutRing`, `PutUrgentRing` and `GetRing` then show the
arithmetic, with `ModSize` replacing `%` by the two cases that can occur. The
refinement lemmas (`PutRefines`, `PutUrgentRefines`, `GetRefines`, `ClearRefines`)
show that each operation on the ring is the operation of the queue. The only
assumption of these first two theorems is `MailboxAssumption`: among others, the size
is not 0, and the unused word is no message.

`WaitersCorrect` rests on `WaitInv`. `ListsSound` and `CallsSound` say which threads
are in which list and where in their calls; a thread in a list has no error recorded,
by which a thread that was resumed is told from one that was timed out. `Covered` is
`NoLostWakeUp`: while a receiver waits, at least as many receivers as there are
messages have been resumed and not run yet (`AwakeOf`), and likewise senders and free
places. Every operation on the ring changes `entry` by one and resumes at most one
thread of the list in question, so the claim goes over into cardinalities of a set
before and after; a thread that runs and goes back to wait finds the mailbox empty.
`MailInv` joins `WaitInv` and `IndInv`, which is needed for the bounds of `entry`.
This theorem uses `KernelAssumption` and `IpcAssumption` as well.

`HardTimers_proofs` shows, for every set of timers, every `RT_TICK_MAX` of at least
3 and every set of delays below half of it:

* `TypeCorrect`: `Spec => []TypeOK`.
* `FlagsCorrect`: `Spec => []ActiveIsListed`. A timer is activated exactly when it
  is in the list, or when it is periodic and its function runs and left it alone;
  no timer is in the list twice.
* `ListCorrect`: `Spec => []ListSound`, the two together.
* `PunctualCorrect` and `OrderCorrect`: `Spec => []Punctual` and
  `Spec => []ListInOrder`. A timer expires at the tick it was started for, and the
  list is in the order in which timers are due, however often the counter wraps.

What makes the first three inductive is `TmpIsCallback`: the temporary list of
`rt_timer_check` holds at most the timer whose function runs, and is empty
whenever the loop is at its head. Without it a periodic timer could stay in the
temporary list, activated, and be forgotten there by the next `CallFunc`. The last
two rest on `OnSchedule`: the timeout of a listed timer is as many ticks ahead of
`rt_tick`, modulo the range of the counter, as the timer has left (`After`,
`Timed`). `age` and `due` count real ticks and do not wrap, so they say which of two
timeouts comes first; the comparison of the code, an unsigned difference against
half the range, is shown to agree with them because all that is left is below half.
A timer started with a delay of 0 is the exception in `Timed`: its timeout is the
current tick, and it is served at the next one. The search of `rt_timer_start` ends
in a `Min`, whose existence comes from the well-foundedness of the naturals
(`MinIsLeast`). Assumptions: `TimerListAssumption` and `HardTimersAssumption`.

`KernelLemmas` begins with lemmas about lists, which the proofs of timers, work queue
and Ethernet path use as well; these parts need no kernel, and nothing in their
theorems depends on the constants of `RtKernel`, which come with the module. Then it
states what each operator of `RtKernel` and `Ipc` does. `ListType`
says that the lists hold threads, each of them once; `LinksSound(k, S)` that a
thread's node is in the one list its `stat` tells and that the bitmap is exact, for
all threads but those of `S`, which a call has taken out of every list.
`KernelSound` is both. Each operator has one lemma: from `KernelSound` it yields
`KernelSound` again, and exactly what changed, in terms of the *sets* `Ready(k, p)`
and `Waiting(k, q)`, so that no proof above this module looks into a list.
`ScheduleSound` is the largest of them: `rt_schedule` puts the current thread back
and takes the head of the most urgent non-empty list. `UrgentFirst` is the order of
a suspension list, kept apart because only `RT_IPC_FLAG_PRIO` asks for it. The last
part of the module is what the IPC objects share: `Sane(k)` is `KernelSound` together
with what holds when nobody locks the scheduler, and there is one lemma for each thing
an object may ask of the kernel between two sane states (switch, wait in a list with
or without a timeout, resume the first, resume all, time out, sleep, change a
priority), again in terms of sets.

`Threads_proofs` shows, for every set of threads, number of priorities and depth of
nesting:

* `KernelCorrect`: `NoRace` implies `Spec => []KernelConsistent`.
* `LockCorrect`: `NoRace` implies `Spec => LockKeepsProcessor`.
* `ClosedCorrect`: `NoRace` and no suspension of others imply
  `Spec => []ClosedUnlinked`.
* `UrgentCorrect`: `Ordered` implies `Spec => []MostUrgentRuns`.

`ThreadsInv` adds to `KernelConsistent` what a call relies on between its sections:
who has which target and that no two calls have the same one (`PcSound`), when
`rt_schedule` may be called (`CurSound`), that what `rt_thread_delete` unlinked stays
out of every list (`DyingSound`), what the defunct list holds (`EndSound`), and that
without timers nothing wakes a thread between the test and the section of a call
(`AwakeSound`). `Ended` and `Deleter` are the additions for the last two theorems.
The hypotheses are conditions on `Calls`, the operations the application uses. They
are not there for the prover's sake; each excludes a behaviour of the code that TLC
shows when the condition is dropped:

* `NoRace`, first half: `rt_thread_delete` of a thread whose timeout comes between
  two of its sections; the run `threads_delete_race`.
* `NoRace`, second half: `rt_thread_resume` finds its target suspended, the timeout
  wakes the target, which runs and exits, and the section of `rt_thread_resume` then
  puts the ended thread into a ready list (`thread.c:869`).
* no suspension, for `ClosedUnlinked`: `rt_thread_suspend` finds its target ready,
  the target exits, and the section makes the ended thread `SUSPEND` and takes it out
  of the defunct list, so that the idle thread never frees it (`thread.c:821`).
* no change of priority, for `MostUrgentRuns`: `rt_thread_control` does not call
  `rt_schedule`. Nor may a thread that deletes another one be suspended on the way.

The conditions cover the calls of the runs `threads_live` and `threads_end`.

`Semaphore_proofs` shows, for every set of threads and priorities, every limit of
the count and both list orders:

* `WaitersCorrect`: `Spec => []WaitersSound`.
* `TokensCorrect`: `Spec => []TokensConserved`.
* `DetachCorrect`: `Spec => []ResumesOnlyThreads`.

`SemInv` is the inductive invariant. The suspended threads are those in the list
(`KernelInv`), each is in `rt_sem_take` and has `EOK` as its error (`CallsSound`):
without the latter a thread that was timed out could not be told from one that was
given a token. At most one thread is in `rt_sem_detach`, and between its test and
the body of the loop only a timeout empties the list (`DetachSound`). Tokens are
counted by the cardinality of the set of threads that were resumed and have not
returned; `GiveStep` shows that a release adds one thread to it, or one to the count.
`rt_sem_reset` wakes everybody in one section, a loop over a list of any length. Its
effect would call for an induction; `RoundsExist` and `WakeAllSound` get it from the
well-foundedness of the naturals instead, by the least round at which the loop is
not as claimed. Assumptions: `KernelAssumption`, `IpcAssumption` and
`SemaphoreAssumption`.

`Mutex_proofs` shows, for every set of threads, mutexes and priorities, every limit
of nested holds and every selection of calls:

* `OwnershipCorrect`: `Spec => []OwnershipSound`.
* `WaitersCorrect`: `Spec => []WaitersSound`.
* `InheritanceCorrect`: `Spec => []InheritanceHolds`.
* `RestoreCorrect`: `Spec => []PriorityRestored`.

`MutexInv` is one inductive invariant for the four; none of them is inductive alone.
A release without a waiter must know that the count of holds is the releaser's own
(`OwnersSound`, with `Grant` for a thread that was made the owner and has not run).
A release with a waiter makes the head of the list the owner, which inherits from
those behind it only because the list is in order (`Ordered`), and the order survives
a change of priority only because it is an owner's priority that changes: an owner that
waits itself is in `raised` then, and may stand too far back. `Ordered` is sharper than
`WaitersOrdered`: of two waiters out of order it is the second that is in `raised`.
`OriginalSound` says which priority a release gives back. The lists get shorter in most
steps: `Thinned` says so, and `OrderThinned` and `InheritThinned` carry the two claims
over; the one step in which a list grows is `TakeSuspendStep`. Assumptions:
`KernelAssumption`, `IpcAssumption` and `MutexAssumption`.

`WorkQueue_proofs` shows, for every set of items and clients:

* `ItemsCorrect`: `Disciplined` implies `Spec => []ItemsSound`.
* `WakeUpCorrect`: `Spec => []NoWorkForgotten`.
* `FuncCorrect`: `Spec => FuncKeepsWaiting`.

`QueueInv` ties together the two lists, the flags and the timers: the items in the
list of delayed ones are `SUBMITTING`, one that is `SUBMITTING` is not in the work
list, and each of them has a timer that runs, a client in front of its
`rt_timer_start`, or the handler in front of its section (`TimersSound`), exactly one
of the three. That the flag does not imply the list is due to a submission that is
refused for its delay (`InvalidKeeps`). `Disciplined` states the two rules of section 4 and that interrupt
handlers do not cancel; the other two theorems need none of it (`WorkerInv`).

`Ethernet_proofs` shows, for every size of the rings, the mailboxes and the pool and
every number of senders:

* `RingCorrect`: `Spec => []RingSound`.
* `SignalsCorrect`: `Spec => []FramesAnnounced`.
* `LinkCorrect`: `Spec => []LinkSeen`.
* `SendCorrect`: `Spec => []SendSound`.

Sending rests on `TxInv`: a message is in the mailbox or with the transmit thread, at
most once, and its sender is still waiting (`MessagesSound`); the buffers from where
the DMA stands hold the frames given to it, in order, and the driver stands behind
them (`TxRingSound`). Receiving rests on `RxInv`: from `Base` on the ring holds the
kept descriptors and then the unread ones up to where the DMA stands (`RxRingSound`);
the pbuf in the thread's hands has the bytes and the length of the first kept
descriptor, unless more than one is kept (`HandSound`). The exceptions are those of section
4: after `overrun` or `lapped` nothing is claimed of the ring in question.

Only model-checked:

* the liveness properties, which are out of this prover's reach;
* `Event`, where one walk through a list hands flags from waiter to waiter: what
  `AfterSend` computes for a list of any length is a fold with a result, and the
  argument from the least round, which needs a closed form of the state after each
  round, has none to start from;
* the invariants of `MessageQueue` and `SoftTimers`, which are not proved yet
  (section 6).

## 6. Plan

1. Proofs: `NoLostWakeUp` of `MessageQueue`, along the lines of `Covered` of the
   mailbox; `BlocksAccounted` and the refinement of `MessageQueue`, with the set of
   blocks reachable from `head` and `free` in place of the two lists;
   `NoTimerForgotten` of `SoftTimers` along the lines of `OnSchedule`.
2. Detach and delete of mutex, mailbox, message queue and event, whose
   `_ipc_list_resume_all` has the window that `Semaphore` shows.
3. Threads that are deleted while they have been resumed by an IPC object: a
   composition of `Threads` and `Semaphore`.
4. The wait queue and the memory pool.
5. Two edges at which nothing is promised yet: a mutex release without a waiter
   lowers the owner and does not call `rt_schedule` (`ipc.c:1180`), and a periodic
   timer with a period of 0 keeps `rt_timer_check` in its loop (`timer.c:612`);
   `DelaysOf` of `HardTimers` and the assumption of `SoftTimers` exclude the latter.

## 7. Not modelled

Heap allocators, the object registry, the device layer and the kernel service
library have no concurrency beyond one lock around the whole operation. SMP and
signals are compiled out. Context switching is assembler. The drivers other than
Ethernet translate calls into register accesses. lwIP is modelled as what takes
frames and frees pbufs at any time, the DMA as what fills and sends descriptors in
the order of the ring. `rt_workqueue_destroy`, and detaching a mutex, mailbox,
message queue or event, are left out; so are timeouts of `rt_completion_wait`, which
the transmit path does not use. The wait queue, the data queue, the pipe and the
memory pool have the structure of the completion, the mailbox and the message queue,
and no component of the Ethernet path depends on them. Cleanup functions, hooks, names,
statistics and stack checks do not influence the state the properties are about.
Hazards that no property covers carry a note in `PROJECT.json`.
