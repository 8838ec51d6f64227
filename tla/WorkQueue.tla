----------------------------- MODULE WorkQueue -----------------------------
(***************************************************************************)
(* A work queue: a list of work items, a list of delayed ones with a soft   *)
(* timer each, and the thread that executes them                            *)
(* (src/rt-thread/components/drivers/src/workqueue.c).                       *)
(*                                                                         *)
(* Four kinds of actors meet: clients, which submit and cancel items; the   *)
(* worker, whose functions may do so too and may wait; the timer thread,    *)
(* which calls _delayed_work_timeout_handler; and whoever waits in          *)
(* rt_workqueue_cancel_work_sync.  One action is one section with           *)
(* interrupts disabled, or one access made with interrupts enabled.         *)
(* Clients have any priority below that of the timer thread, so the actors  *)
(* interleave freely, except that only interrupt handlers come between the  *)
(* steps of the timer thread.                                               *)
(*                                                                         *)
(*   wpc   the worker: "look" at the list, "func" in a work function, "ack" *)
(*         before _workqueue_work_completion                               *)
(*   tpc   the timer thread: "idle", "called" the handler, "read" the queue *)
(*   pc    a client: "run", "start" before rt_timer_start, "sync" behind    *)
(*         the test of rt_workqueue_cancel_work_sync, "wait" in its take    *)
(*                                                                         *)
(* The semaphore of the queue is 0 whenever a thread can look at it: a      *)
(* completion, which runs with the scheduler locked, releases every waiter. *)
(***************************************************************************)
EXTENDS Naturals, FiniteSets, SequencesExt

CONSTANTS Work,          \* the work items
          Client,        \* the threads that use the queue
          None,          \* RT_NULL
          IsrCalls,      \* the calls interrupt handlers make
          Rules          \* what the application abides by: "one_way" does not
                         \* submit an item at once while its timer runs, "serial"
                         \* does not submit or cancel an item that another client
                         \* is about to start the timer of

ASSUME WorkQueueAssumption ==
  /\ Work # {}
  /\ None \notin Work
  /\ {"worker", "isr"} \cap Client = {}
  /\ IsrCalls \subseteq {"dowork", "critical", "cancel", "invalid"}
  /\ Rules \subseteq {"one_way", "serial"}

VARIABLES wl,         \* queue->work_list
          dl,         \* queue->delayed_list
          current,    \* queue->work_current
          pending,    \* items with RT_WORK_STATE_PENDING
          submitting, \* items with RT_WORK_STATE_SUBMITTING
          bound,      \* items whose workqueue is not RT_NULL
          armed,      \* items whose timer is started
          wpc, wstat, \* the worker, and whether it is "READY" or "SUSPEND"
          tpc, due,   \* the timer thread, and the item whose handler it is in
          pc, item,   \* pc[c], and the item this call of c is about
          broken,     \* the handler went on with queue = RT_NULL
          live,       \* history: items submitted and not yet begun or cancelled
          dropped,    \* history: of those, items the code let go and has not put
                      \* into a list since (see NotLost)
          late        \* history: clients whose item was completed before they
                      \* began to wait for it

lists == <<wl, dl, pending, submitting, bound, live, dropped>>
worker == <<wpc, wstat, current>>
timer == <<tpc, due, broken>>
clients == <<pc, item, late>>
vars == <<lists, armed, worker, timer, clients>>

TypeOK ==
  /\ wl \in Seq(Work) /\ dl \in Seq(Work)
  /\ current \in Work \cup {None}
  /\ \A s \in {pending, submitting, bound, armed, live, dropped} : s \subseteq Work
  /\ wpc \in {"look", "func", "ack"}
  /\ wstat \in {"READY", "SUSPEND"}
  /\ tpc \in {"idle", "called", "read"}
  /\ due \in Work \cup {None}
  /\ pc \in [Client -> {"run", "start", "sync", "wait"}]
  /\ item \in [Client -> Work \cup {None}]
  /\ broken \in BOOLEAN
  /\ late \subseteq Client
  /\ (current = None) = (wpc # "func")

\* rt_workqueue_create, and rt_work_init of every item.
Init ==
  /\ wl = << >> /\ dl = << >>
  /\ pending = {} /\ submitting = {} /\ bound = {} /\ armed = {}
  /\ live = {} /\ dropped = {}
  /\ wpc = "look" /\ wstat = "READY" /\ current = None
  /\ tpc = "idle" /\ due = None /\ broken = FALSE
  /\ pc = [c \in Client |-> "run"]
  /\ item = [c \in Client |-> None]
  /\ late = {}

-----------------------------------------------------------------------------
(***************************************************************************)
(* The calls                                                               *)
(***************************************************************************)

\* The work function that is executed and interrupt handlers make calls too.
Caller == Client \cup {"worker", "isr"}

\* x can begin `call'.
Runs(x, call) ==
  CASE x = "isr"    -> call \in IsrCalls
    [] x = "worker" -> tpc = "idle" /\ wpc = "func" /\ wstat = "READY"
    [] OTHER        -> tpc = "idle" /\ pc[x] = "run"

\* No client has set up the timer of w and not started it yet.
Settled(w) ==
  "serial" \in Rules => \A c \in Client : pc[c] = "start" => item[c] # w

Goto(c, to, w) == pc' = [pc EXCEPT ![c] = to] /\ item' = [item EXCEPT ![c] = w]

\* rt_list_remove(&work->list).
Without(list, w) == RemoveFirst(list, w)

\* Faults: the worker is not woken, or out of whatever it waits for.
WakeNobody == UNCHANGED worker
WakeAnyway == wstat' = "READY" /\ UNCHANGED <<wpc, current>>

\* `whether the workqueue is doing work': resume the worker if it sleeps and
\* executes nothing.  rt_schedule follows.
WakeWorker ==
  /\ wstat' = IF current = None /\ wstat = "SUSPEND" THEN "READY" ELSE wstat
  /\ UNCHANGED <<wpc, current>>

\* rt_workqueue_dowork, or rt_workqueue_submit_work with a delay of 0.  An
\* item that is being executed is refused (-RT_EBUSY), but out of its list.
DoWork(x, w) ==
  /\ Runs(x, "dowork")
  /\ Settled(w)
  /\ "one_way" \in Rules => w \notin submitting
  /\ dl' = Without(dl, w)
  /\ IF current # w
     THEN /\ wl' = Append(Without(wl, w), w)
          /\ pending' = pending \cup {w}
          /\ bound' = bound \cup {w}
          /\ live' = live \cup {w}
          /\ dropped' = dropped \ {w}
     ELSE /\ wl' = Without(wl, w)
          /\ pending' = pending \ {w}
          /\ dropped' = dropped \cup (live \cap {w})
          /\ UNCHANGED <<bound, live>>
  /\ WakeWorker
  /\ UNCHANGED <<submitting, armed, timer, clients>>

\* rt_workqueue_submit_work with a delay: the section, and the timers that are
\* started when the step is over.
SubmitDelayed(x, w, started) ==
  /\ Runs(x, "submit")
  /\ Settled(w)
  /\ wl' = Without(wl, w)
  /\ dl' = Append(Without(dl, w), w)
  /\ pending' = pending \ {w}
  /\ submitting' = submitting \cup {w}
  /\ bound' = bound \cup {w}
  /\ armed' = (armed \ {w}) \cup started
  /\ live' = live \cup {w}
  /\ dropped' = dropped \ {w}

\* rt_workqueue_submit_work with a delay that is too long (-RT_ERROR): the item
\* has left its list by then.  Its timer and its flag SUBMITTING stay, and so
\* does the queue the handler will read.  The rules do not forbid it: it neither
\* puts an item into a list nor touches its timer.
SubmitInvalid(x, w) ==
  /\ Runs(x, "invalid")
  /\ wl' = Without(wl, w)
  /\ dl' = Without(dl, w)
  /\ pending' = pending \ {w}
  /\ dropped' = dropped \cup (live \cap {w})
  /\ UNCHANGED <<submitting, bound, live, armed, worker, timer, clients>>

\* A client starts the timer with interrupts enabled again, as another step.
SubmitWork(c, w) ==
  /\ SubmitDelayed(c, w, {})
  /\ Goto(c, "start", w)
  /\ UNCHANGED <<worker, timer, late>>

StartDelay(c) ==
  /\ pc[c] = "start"
  /\ tpc = "idle"
  /\ armed' = armed \cup {item[c]}
  /\ Goto(c, "run", None)
  /\ UNCHANGED <<lists, worker, timer, late>>

\* A work function does so too; nobody else uses its item in between.
SubmitSelf(w) ==
  /\ SubmitDelayed("worker", w, {w})
  /\ UNCHANGED <<worker, timer, clients>>

\* rt_workqueue_critical_work: first in the list, without the PENDING flag.
CriticalWork(x, w) ==
  /\ Runs(x, "critical")
  /\ Settled(w)
  /\ "one_way" \in Rules => w \notin submitting
  /\ wl' = <<w>> \o Without(wl, w)
  /\ dl' = Without(dl, w)
  /\ live' = live \cup {w}
  /\ dropped' = dropped \ {w}
  /\ WakeWorker
  /\ UNCHANGED <<pending, submitting, bound, armed, timer, clients>>

\* Fault: a timer that runs is left alone.
CancelKeepTimer(S) ==
  /\ pending' = pending \ S
  /\ bound' = bound \ S
  /\ live' = live \ S
  /\ dropped' = dropped \ S
  /\ UNCHANGED <<armed, submitting>>

\* _workqueue_cancel_work of every item in S, which leave their lists too.
CancelItems(S) ==
  /\ pending' = pending \ S
  /\ armed' = armed \ (S \cap submitting)
  /\ submitting' = submitting \ S
  /\ bound' = bound \ S
  /\ live' = live \ S
  /\ dropped' = dropped \ S

CancelItem(w) ==
  /\ wl' = Without(wl, w)
  /\ dl' = Without(dl, w)
  /\ CancelItems({w})

\* rt_workqueue_cancel_work.
CancelWork(x, w) ==
  /\ Runs(x, "cancel")
  /\ Settled(w)
  /\ CancelItem(w)
  /\ UNCHANGED <<worker, timer, clients>>

\* rt_workqueue_cancel_all_work: the first item of a list, until both are
\* empty, with the scheduler locked.
CancelAllWork(x) ==
  /\ x # "isr"
  /\ Runs(x, "cancel")
  /\ \A w \in Work : Settled(w)
  /\ wl' = << >>
  /\ dl' = << >>
  /\ CancelItems(ToSet(wl) \cup ToSet(dl))
  /\ UNCHANGED <<worker, timer, clients>>

\* rt_workqueue_cancel_work_sync tests work_current with interrupts enabled.
CancelWorkSync(c, w) ==
  /\ Runs(c, "cancel")
  /\ Settled(w)
  /\ IF current = w
     THEN Goto(c, "sync", w) /\ UNCHANGED lists /\ UNCHANGED <<armed, late>>
     ELSE CancelItem(w) /\ UNCHANGED clients
  /\ UNCHANGED <<worker, timer>>

\* ... and waits for the semaphore of the queue.
SyncTake(c) ==
  /\ pc[c] = "sync"
  /\ tpc = "idle"
  /\ Goto(c, "wait", item[c])
  /\ UNCHANGED <<lists, armed, worker, timer, late>>

-----------------------------------------------------------------------------
(***************************************************************************)
(* _workqueue_thread_entry                                                 *)
(***************************************************************************)
Works(at) == wpc = at /\ wstat = "READY"

\* Nothing to do: suspend, in the section that looked.
GoToSleep ==
  /\ Works("look")
  /\ wl = << >>
  /\ wstat' = "SUSPEND"
  /\ UNCHANGED <<lists, armed, wpc, current, timer, clients>>

\* Take the first item and call its function.
Take ==
  /\ Works("look")
  /\ wl # << >>
  /\ LET w == Head(wl)
     IN  /\ current' = w
         /\ pending' = pending \ {w}
         /\ bound' = bound \ {w}
         /\ live' = live \ {w}
  /\ wl' = Tail(wl)
  /\ wpc' = "func"
  /\ UNCHANGED <<dl, submitting, dropped, armed, wstat, timer, clients>>

\* A work function may wait for something, and is woken again.
FuncBlocks ==
  /\ Works("func")
  /\ wstat' = "SUSPEND"
  /\ UNCHANGED <<lists, armed, wpc, current, timer, clients>>

FuncWakes ==
  /\ wpc = "func"
  /\ wstat = "SUSPEND"
  /\ wstat' = "READY"
  /\ UNCHANGED <<lists, armed, wpc, current, timer, clients>>

\* `clean current work'.
FuncReturns ==
  /\ Works("func")
  /\ current' = None
  /\ wpc' = "ack"
  /\ UNCHANGED <<lists, armed, wstat, timer, clients>>

\* Fault: one waiter is released.
CompleteOne ==
  /\ Works("ack")
  /\ wpc' = "look"
  /\ LET waiting == {c \in Client : pc[c] = "wait"}
     IN  \/ waiting = {} /\ UNCHANGED <<pc, item>>
         \/ \E c \in waiting : Goto(c, "run", None)
  /\ late' = (late \cup {c \in Client : pc[c] = "sync"})
               \ {c \in Client : pc[c] = "wait"}
  /\ UNCHANGED <<lists, armed, wstat, current, timer>>

\* _workqueue_work_completion: the semaphore is released until nobody waits.
Complete ==
  /\ Works("ack")
  /\ wpc' = "look"
  /\ LET waiting == {c \in Client : pc[c] = "wait"}
     IN  /\ pc' = [c \in Client |-> IF c \in waiting THEN "run" ELSE pc[c]]
         /\ item' = [c \in Client |-> IF c \in waiting THEN None ELSE item[c]]
         /\ late' = (late \cup {c \in Client : pc[c] = "sync"}) \ waiting
  /\ UNCHANGED <<lists, armed, wstat, current, timer>>

-----------------------------------------------------------------------------
(***************************************************************************)
(* _delayed_work_timeout_handler, called by the timer thread               *)
(***************************************************************************)

\* rt_soft_timer_check finds the timer of w expired.
Expire(w) ==
  /\ tpc = "idle"
  /\ w \in armed
  /\ armed' = armed \ {w}
  /\ tpc' = "called"
  /\ due' = w
  /\ UNCHANGED <<lists, worker, broken, clients>>

\* queue = work->workqueue, with interrupts enabled.
HandlerRead ==
  /\ tpc = "called"
  /\ tpc' = "read"
  /\ broken' = (due \notin bound)
  /\ UNCHANGED <<lists, armed, worker, due, clients>>

\* The section: an item that is not being executed is put into the work list.
HandlerSection ==
  /\ tpc = "read"
  /\ tpc' = "idle"
  /\ due' = None
  /\ armed' = armed \ {due}
  /\ submitting' = submitting \ {due}
  /\ dl' = Without(dl, due)
  /\ wl' = IF current # due THEN Append(Without(wl, due), due) ELSE Without(wl, due)
  /\ pending' = IF current # due THEN pending \cup {due} ELSE pending
  /\ dropped' = IF current # due THEN dropped \ {due} ELSE dropped \cup {due}
  /\ WakeWorker
  /\ UNCHANGED <<bound, live, broken, clients>>

-----------------------------------------------------------------------------
Worker == GoToSleep \/ Take \/ FuncReturns \/ Complete

TimerThread == (\E w \in Work : Expire(w)) \/ HandlerRead \/ HandlerSection

Call ==
  \/ \E x \in Caller, w \in Work :
          DoWork(x, w) \/ SubmitInvalid(x, w) \/ CriticalWork(x, w) \/ CancelWork(x, w)
  \/ \E x \in Caller : CancelAllWork(x)
  \/ \E w \in Work : SubmitSelf(w)
  \/ \E c \in Client, w \in Work : SubmitWork(c, w) \/ CancelWorkSync(c, w)
  \/ \E c \in Client : StartDelay(c) \/ SyncTake(c)

\* Behind a null pointer nothing is defined, and the model ends there.
Next ==
  /\ ~broken
  /\ Worker \/ FuncBlocks \/ FuncWakes \/ TimerThread \/ Call

Spec == Init /\ [][Next]_vars

\* The worker gets the processor when it is ready, work functions that wait are
\* woken, and work functions return.
FairSpec == /\ Spec
            /\ WF_vars(~broken /\ Worker)
            /\ WF_vars(~broken /\ FuncWakes)
            /\ SF_vars(~broken /\ FuncReturns)

-----------------------------------------------------------------------------
(***************************************************************************)
(* Properties                                                              *)
(***************************************************************************)

\* RT_ASSERT(queue != RT_NULL) of the handler (workqueue.c:185): the timer of
\* an item does not outlive its submission.
QueueKnown == ~broken

\* An item has one list node: it is in at most one list, once.  An item that is
\* PENDING is in the work list.  One that is SUBMITTING belongs to the queue, is
\* not in the work list yet, and has a timer that runs, is about to run, or has
\* just called the handler.
ListsAgree ==
  /\ \A w \in Work : Cardinality({i \in DOMAIN (wl \o dl) : (wl \o dl)[i] = w}) <= 1
  /\ pending \subseteq ToSet(wl)
  /\ ToSet(dl) \subseteq submitting
  /\ submitting \subseteq bound \ ToSet(wl)
  /\ \A w \in submitting :
       w \in armed \/ w = due \/ \E c \in Client : pc[c] = "start" /\ item[c] = w
  /\ armed \subseteq submitting

\* The worker sleeps only while there is nothing to do, whatever clients and
\* timers add between its look at the list and rt_schedule.
NoWorkForgotten == wpc = "look" /\ wstat = "SUSPEND" => wl = << >>

\* Submitting work does not wake a work function out of what it waits for.
FuncKeepsWaiting ==
  [][wpc = "func" /\ wstat = "SUSPEND" /\ wstat' = "READY" => UNCHANGED lists]_vars

\* What is cancelled is not executed: every item in a list, and every item whose
\* timer will put it into one, has been submitted since it was last cancelled or
\* executed.
OnlyLiveWork == ToSet(wl) \cup ToSet(dl) \cup submitting \subseteq live

\* An item that was accepted is executed, or still in a list, with a timer if
\* it is delayed.  The code lets go of an item in three cases: its timer expires
\* while its function is being executed; rt_workqueue_dowork, which refuses it
\* for that reason, takes it out of the list it is in; and so does
\* rt_workqueue_submit_work, which refuses a delay that is too long.  An item
\* that gets into a list again after that is lost no more.
NotLost ==
  /\ live \ dropped \subseteq ToSet(wl) \cup ToSet(dl)
  /\ dropped \cap (ToSet(wl) \cup ToSet(dl)) = {}

\* `If the work item is executing, this function will block until it is done':
\* rt_workqueue_cancel_work_sync returns when the item is done, provided the
\* item was not done already between the test and the wait.
SyncReturns ==
  \A c \in Client : pc[c] = "wait" /\ c \notin late ~> pc[c] = "run" \/ broken

\* The items of a work queue, together: a timer that expires finds the queue of
\* its item, the flags of an item tell the list it is in, what is in a list was
\* submitted and not cancelled, and what was submitted is in a list.
ItemsSound == TypeOK /\ QueueKnown /\ ListsAgree /\ OnlyLiveWork /\ NotLost
=============================================================================
