-------------------------- MODULE AdaptiveTaskPool --------------------------
(***************************************************************************)
(* The pool of core/connection.py through which ConnectionManager sends    *)
(* its requests, and the retry loop execute_with_retry that every caller   *)
(* runs around it.                                                         *)
(*                                                                         *)
(* submit() enters the semaphore the pool has at that moment and leaves    *)
(* that same semaphore, but a successful task may resize the pool in       *)
(* between: _resize_pool puts a new semaphore in place of the old one.     *)
(* Semaphores are numbered in the order of their creation; semaphore is    *)
(* the current one.  A semaphore keeps free places and a FIFO of waiters;  *)
(* release() hands a place to the first waiter, which runs later (woken).  *)
(*                                                                         *)
(* Time (the 30 s cool-down, a request's timeout, the retry delay) and the *)
(* comparison of the last task times are nondeterministic.                 *)
(***************************************************************************)
EXTENDS Integers, FiniteSets, SequencesExt

CONSTANTS Callers,      \* concurrent calls of execute_with_retry
          InitialSizes, \* sizes the pools are created with, 2 to 10 in the code
          MinSize,      \* 2 in the code
          MaxSize,      \* 20 in the code
          GrowBy,       \* 2 in the code
          max_attempts, \* ConnectionConfig.max_attempts
          MaxResizes    \* bound: how often the pool is resized

ASSUME PoolAssumption ==
    /\ IsFiniteSet(Callers)
    /\ MinSize \in Nat \ {0, 1}
    /\ MaxSize \in Nat
    /\ InitialSizes \subseteq 1 .. MaxSize
    /\ MinSize <= MaxSize
    /\ GrowBy \in Nat \ {0}
    /\ max_attempts \in Nat \ {0}
    /\ MaxResizes \in Nat

VARIABLES
    max_workers,   \* the size the pool believes to have
    semaphore,     \* the current semaphore
    value,         \* value[s]: free places of semaphore s
    waiters,       \* waiters[s]: calls that wait for a place of s, in order
    call,          \* call[c]: state of the call
    place,         \* place[c]: the semaphore call c entered
    attempts,      \* attempts[c]: attempts begun
    queued_tasks,
    active_tasks

vars == <<max_workers, semaphore, value, waiters, call, place, attempts,
          queued_tasks, active_tasks>>

Semaphores == 0 .. MaxResizes

Waiting == {c \in Callers : call[c] = "waiting"}
Woken   == {c \in Callers : call[c] = "woken"}
Running == {c \in Callers : call[c] = "running"}

\* The calls that hold a place of semaphore s.
HolderOf(s) == {c \in Woken \cup Running : place[c] = s}

\* The places of the current semaphore, free or held.
Capacity == value[semaphore] + Cardinality(HolderOf(semaphore))

Init ==
    /\ max_workers \in InitialSizes
    /\ semaphore = 0
    /\ value = [s \in Semaphores |-> IF s = 0 THEN max_workers ELSE 0]
    /\ waiters = [s \in Semaphores |-> <<>>]
    /\ call = [c \in Callers |-> "idle"]
    /\ place = [c \in Callers |-> 0]
    /\ attempts = [c \in Callers |-> 0]
    /\ queued_tasks = 0
    /\ active_tasks = 0

-----------------------------------------------------------------------------
(* asyncio.Semaphore                                                       *)

\* Semaphore.locked: nothing is free, or somebody is already waiting or has
\* been woken without having run yet.
Locked(s) == value[s] = 0 \/ waiters[s] # <<>> \/ \E c \in Woken : place[c] = s

\* A release or a finished acquire hands at most one free place of s to the
\* first waiter; values and states are what the semaphores and the calls are
\* before the hand-over.
WakeNext(s, values, states) ==
    IF values[s] > 0 /\ waiters[s] # <<>>
    THEN /\ value' = [values EXCEPT ![s] = @ - 1]
         /\ waiters' = [waiters EXCEPT ![s] = Tail(@)]
         /\ call' = [states EXCEPT ![Head(waiters[s])] = "woken"]
    ELSE /\ value' = values
         /\ call' = states
         /\ UNCHANGED waiters

-----------------------------------------------------------------------------
(* AdaptiveTaskPool.submit                                                 *)

\* A new attempt enters the current semaphore at once or waits for it.
Submit(c) ==
    /\ call[c] = "idle"
    /\ attempts[c] < max_attempts
    /\ attempts' = [attempts EXCEPT ![c] = @ + 1]
    /\ place' = [place EXCEPT ![c] = semaphore]
    /\ \/ /\ ~Locked(semaphore)
          /\ value' = [value EXCEPT ![semaphore] = @ - 1]
          /\ call' = [call EXCEPT ![c] = "running"]
          /\ active_tasks' = active_tasks + 1
          /\ UNCHANGED <<waiters, queued_tasks>>
       \/ /\ Locked(semaphore)
          /\ waiters' = [waiters EXCEPT ![semaphore] = Append(@, c)]
          /\ call' = [call EXCEPT ![c] = "waiting"]
          /\ queued_tasks' = queued_tasks + 1
          /\ UNCHANGED <<value, active_tasks>>
    /\ UNCHANGED <<max_workers, semaphore>>

\* A woken call runs; if places are still free it wakes the next waiter.
Enter(c) ==
    /\ call[c] = "woken"
    /\ WakeNext(place[c], value, [call EXCEPT ![c] = "running"])
    /\ queued_tasks' = queued_tasks - 1
    /\ active_tasks' = active_tasks + 1
    /\ UNCHANGED <<max_workers, semaphore, place, attempts>>

\* execute_with_retry after a failed attempt: another one after the delay, or
\* the error is raised.
AfterFailure(c) == IF attempts[c] < max_attempts THEN "idle" ELSE "failed"

\* Mutant of Release: the place goes to the semaphore the pool has now.
ReleaseToCurrent(c, outcome) ==
    /\ WakeNext(semaphore, [value EXCEPT ![semaphore] = @ + 1],
                [call EXCEPT ![c] = outcome])
    /\ active_tasks' = active_tasks - 1
    /\ UNCHANGED <<place, attempts, queued_tasks>>

\* The place of a running call goes back to the semaphore it came from.
Release(c, outcome) ==
    /\ WakeNext(place[c], [value EXCEPT ![place[c]] = @ + 1],
                [call EXCEPT ![c] = outcome])
    /\ active_tasks' = active_tasks - 1
    /\ UNCHANGED <<place, attempts, queued_tasks>>

\* A task fails, or its timeout cancels it while it runs.
Fail(c) ==
    /\ call[c] = "running"
    /\ Release(c, AfterFailure(c))
    /\ UNCHANGED <<max_workers, semaphore>>

\* A task returns and the pool keeps its size.
Succeed(c) ==
    /\ call[c] = "running"
    /\ Release(c, "done")
    /\ UNCHANGED <<max_workers, semaphore>>

-----------------------------------------------------------------------------
(* AdaptiveTaskPool._consider_scaling                                      *)

Total == value[semaphore] + active_tasks

\* utilization > 0.8, queue_pressure > 2 (active_tasks is at least 1 here).
Overloaded ==
    /\ 10 * active_tasks > 8 * Total
    /\ queued_tasks > 2 * active_tasks
    /\ max_workers < MaxSize

\* utilization < 0.3, queue_pressure < 0.5
Underused ==
    /\ 10 * active_tasks < 3 * Total
    /\ 2 * queued_tasks < active_tasks
    /\ max_workers > MinSize

Smaller(a, b) == IF a <= b THEN a ELSE b
Larger(a, b)  == IF a >= b THEN a ELSE b

\* The sizes _consider_scaling may choose; a recent slowdown prevents growth.
NewSizes ==
    {n \in {Smaller(max_workers + GrowBy, MaxSize)} : Overloaded}
      \cup {n \in {Larger(max_workers - 1, MinSize)} : Underused /\ ~Overloaded}

\* Mutant of PlacesAfter: max_workers is read after it has been set.
NewSizePlacesAfter(new_size) ==
    new_size - Smaller(new_size - value[semaphore], new_size)

\* Free places of the new semaphore: every place the old one is missing counts
\* as held by a running task.
PlacesAfter(new_size) ==
    new_size - Smaller(max_workers - value[semaphore], new_size)

\* A task returns, resizes the pool and then gives its place back to the
\* semaphore it entered, which is never the new one.
SucceedAndResize(c, new_size) ==
    LET new == semaphore + 1 IN
    /\ call[c] = "running"
    /\ new \in Semaphores
    /\ max_workers' = new_size
    /\ semaphore' = new
    /\ WakeNext(place[c],
                [value EXCEPT ![new] = PlacesAfter(new_size), ![place[c]] = @ + 1],
                [call EXCEPT ![c] = "done"])
    /\ active_tasks' = active_tasks - 1
    /\ UNCHANGED <<place, attempts, queued_tasks>>

-----------------------------------------------------------------------------
(* The timeout of wait_for while the call has no place yet                 *)

\* The call leaves the queue; nothing takes it out of queued_tasks.
TimeoutWaiting(c) ==
    /\ call[c] = "waiting"
    /\ \E i \in DOMAIN waiters[place[c]] :
          /\ waiters[place[c]][i] = c
          /\ waiters' = [waiters EXCEPT ![place[c]] = RemoveAt(@, i)]
    /\ call' = [call EXCEPT ![c] = AfterFailure(c)]
    /\ UNCHANGED <<max_workers, semaphore, value, place, attempts,
                   queued_tasks, active_tasks>>

\* A place was handed over but the call is cancelled before it runs.
TimeoutWoken(c) ==
    /\ call[c] = "woken"
    /\ WakeNext(place[c], [value EXCEPT ![place[c]] = @ + 1],
                [call EXCEPT ![c] = AfterFailure(c)])
    /\ UNCHANGED <<max_workers, semaphore, place, attempts, queued_tasks,
                   active_tasks>>

-----------------------------------------------------------------------------

Ends(c) == \/ Fail(c)
           \/ Succeed(c)
           \/ \E n \in NewSizes : SucceedAndResize(c, n)

Finished == /\ \A c \in Callers : call[c] \in {"done", "failed"}
            /\ UNCHANGED vars

Next ==
    \/ \E c \in Callers :
          Submit(c) \/ Enter(c) \/ Ends(c) \/ TimeoutWaiting(c) \/ TimeoutWoken(c)
    \/ Finished

\* A woken call is run by the event loop; a running request is ended by its
\* own timeout at the latest.  Nothing is assumed of calls that wait.
Fairness == \A c \in Callers : WF_vars(Enter(c)) /\ WF_vars(Ends(c))

Spec == Init /\ [][Next]_vars /\ Fairness

-----------------------------------------------------------------------------

TypeOK ==
    /\ max_workers \in 1 .. MaxSize
    /\ semaphore \in Semaphores
    /\ value \in [Semaphores -> Nat]
    /\ waiters \in [Semaphores -> Seq(Callers)]
    /\ call \in [Callers -> {"idle", "waiting", "woken", "running", "done", "failed"}]
    /\ place \in [Callers -> Semaphores]
    /\ attempts \in [Callers -> 0 .. max_attempts]
    /\ queued_tasks \in Nat
    /\ active_tasks \in Nat

\* A resize loses the places that are held at that moment, but it never makes
\* the new semaphore useless: it always has at least one place, free or held,
\* and never more than the pool announces.
CapacityLeft == Capacity >= 1 /\ Capacity <= max_workers

\* The counters scaling decides by: active_tasks is exact, and queued_tasks,
\* which timeouts only ever leave too high, is never less than the calls in
\* the queue: a pool with waiting calls is not taken for an idle one.
CountersCover ==
    /\ active_tasks = Cardinality(Running)
    /\ queued_tasks >= Cardinality(Waiting \cup Woken)

\* The places a resize loses never come back: the difference between the
\* announced and the real size only grows.
PlacesNeverComeBack ==
    [][max_workers' - Capacity' >= max_workers - Capacity]_vars

\* A call that waits gets a place unless its own timeout takes it away.
WaitersAreServed ==
    \A c \in Callers : call[c] = "waiting" ~> call[c] # "waiting"

=============================================================================
