------------------------------ MODULE MCMutex ------------------------------
(***************************************************************************)
(* Three threads of three priorities, the idle thread, and two mutexes.     *)
(***************************************************************************)
EXTENDS Mutex

CONSTANTS high, mid, low, idle, m1, m2

MCThread == {high, mid, low, idle}
MCInitPrio == [t \in MCThread |->
                 CASE t = high -> 0 [] t = mid -> 1 [] t = low -> 2 [] OTHER -> 3]

TwoMutexes == {m1, m2}
MutexSymmetry == Permutations(TwoMutexes)

\* Who does what: only threads that somebody is less urgent than need to sleep.
MCCalls == [t \in MCThread |->
              CASE t = high -> {"timed", "release", "sleep"}
                [] t = mid  -> {"take", "release", "sleep"}
                [] OTHER    -> {"take", "try", "again", "misuse", "release"}]

\* thread->error is written before it is read again once a call has returned,
\* so states that differ in nothing else are the same.
MCView == <<[k EXCEPT !.err = [t \in Thread |-> IF pc[t] = "run" THEN "EOK" ELSE @[t]]],
            pc, want, owner, hold, value, original, has, lending>>
====
