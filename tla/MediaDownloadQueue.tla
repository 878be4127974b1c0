-------------------------- MODULE MediaDownloadQueue --------------------------
(***************************************************************************)
(* The background download queue (src/src/media/download_queue.py): the    *)
(* export enqueues media downloads into a bounded queue, workers download  *)
(* with retries, pause together on Telegram server errors, and at the end  *)
(* the client waits for all downloads (wait_all) and stops the queue, as   *)
(* wait_for_downloads and shutdown of src/src/media/manager.py do.         *)
(*                                                                         *)
(* The lock of the class is never held over an await, so that its blocks   *)
(* are parts of steps.  One step is the code between two awaits.           *)
(***************************************************************************)
EXTENDS Integers, Sequences, FiniteSets

CONSTANTS Workers,       \* the download workers
          Tasks,         \* the downloads the export may ask for
          QueueSize,     \* max_queue_size
          MaxAttempts,   \* max_attempts of a DownloadTask
          Threshold,     \* telegram_error_threshold
          NoTask         \* the job of a worker that has none

DownloadAssumption ==
    /\ IsFiniteSet(Workers) /\ IsFiniteSet(Tasks)
    /\ QueueSize \in Nat \ {0}
    /\ MaxAttempts \in Nat \ {0}
    /\ Threshold \in Nat \ {0}
    /\ NoTask \notin Tasks

VARIABLES
    request,       \* how far the enqueue call of each task is
    status,        \* DownloadStatus of each task
    attempts,      \* download attempts begun for each task
    queue,         \* the tasks waiting, oldest first
    worker,        \* control state of each worker
    job,           \* the task a worker works on, or NoTask
    paused,        \* _paused; the _unpause_after task is pending exactly then
    errors,        \* _consecutive_telegram_errors
    stats,         \* total_queued, _completed, _failed and _cancelled
    client         \* control state of the export that owns the queue

taskVars   == <<status, attempts>>
workerVars == <<worker, job>>
pauseVars  == <<paused, errors>>
vars == <<request, taskVars, queue, workerVars, pauseVars, stats, client>>

Settled == {"COMPLETED", "FAILED", "CANCELLED"}
Counters == {"queued", "completed", "failed", "cancelled"}
InProgress == {t \in Tasks : status[t] = "IN_PROGRESS"}
Active == {w \in Workers : worker[w] = "downloading"}  \* _active_downloads

TypeOK ==
    /\ request \in [Tasks -> {"none", "putting", "returned", "abandoned"}]
    /\ status \in [Tasks -> {"PENDING", "IN_PROGRESS"} \cup Settled]
    /\ attempts \in [Tasks -> 0 .. MaxAttempts]
    /\ queue \in Seq(Tasks) /\ Len(queue) <= QueueSize
    /\ worker \in [Workers -> {"top", "getting", "downloading", "cancelled",
                               "retrying", "ended"}]
    /\ job \in [Workers -> Tasks \cup {NoTask}]
    /\ paused \in BOOLEAN
    /\ errors \in 0 .. Cardinality(Tasks)
    /\ stats \in [Counters -> Nat]
    /\ client \in {"exporting", "waiting", "waited", "timed_out", "stopping",
                   "stopped"}

Init ==
    /\ request = [t \in Tasks |-> "none"]
    /\ status = [t \in Tasks |-> "PENDING"]
    /\ attempts = [t \in Tasks |-> 0]
    /\ queue = <<>>
    /\ worker = [w \in Workers |-> "top"] /\ job = [w \in Workers |-> NoTask]
    /\ paused = FALSE /\ errors = 0
    /\ stats = [c \in Counters |-> 0]
    /\ client = "exporting"

Count(c) == stats' = [stats EXCEPT ![c] = @ + 1]

\* Worker w is done with its task, which ends with status s.
Settle(w, s) ==
    /\ status' = [status EXCEPT ![job[w]] = s]
    /\ job' = [job EXCEPT ![w] = NoTask]

-----------------------------------------------------------------------------
(* Faulty variants of some actions below, each a slip this code could have  *)
(* made.  No specification uses them: they show which property would fail.  *)

\* put_nowait, with QueueFull swallowed by the worker loop.
DroppingRequeue(w) ==
    /\ worker[w] = "retrying"
    /\ queue' = IF Len(queue) < QueueSize THEN Append(queue, job[w]) ELSE queue
    /\ job' = [job EXCEPT ![w] = NoTask]
    /\ worker' = [worker EXCEPT ![w] = "top"]
    /\ UNCHANGED <<request, taskVars, pauseVars, stats, client>>

\* The timeout of a task ends its worker as a cancellation does.
FatalTaskTimeout(w) ==
    /\ worker[w] = "downloading"
    /\ Settle(w, "FAILED")
    /\ Count("failed")
    /\ worker' = [worker EXCEPT ![w] = "ended"]
    /\ UNCHANGED <<request, attempts, queue, pauseVars, client>>

-----------------------------------------------------------------------------
(* enqueue                                                                  *)

\* The task is registered and counted, then the put waits for a free place.
Enqueue(t) ==
    /\ client = "exporting"
    /\ request[t] = "none"
    /\ request' = [request EXCEPT ![t] = "putting"]
    /\ Count("queued")
    /\ UNCHANGED <<taskVars, queue, workerVars, pauseVars, client>>

EnqueuePut(t) ==
    /\ request[t] = "putting"
    /\ Len(queue) < QueueSize
    /\ queue' = Append(queue, t)
    /\ request' = [request EXCEPT ![t] = "returned"]
    /\ UNCHANGED <<taskVars, workerVars, pauseVars, stats, client>>

\* The export of the chat is cancelled by its timeout while the put waits.
EnqueueCancelled(t) ==
    /\ request[t] = "putting"
    /\ Len(queue) = QueueSize
    /\ request' = [request EXCEPT ![t] = "abandoned"]
    /\ UNCHANGED <<taskVars, queue, workerVars, pauseVars, stats, client>>

-----------------------------------------------------------------------------
(* _worker_loop and _process_task                                           *)

\* The loop head: a pause holds the worker here, and only here.
WorkerTop(w) ==
    /\ worker[w] = "top"
    /\ ~paused
    /\ worker' = [worker EXCEPT ![w] = "getting"]
    /\ UNCHANGED <<request, taskVars, queue, job, pauseVars, stats, client>>

\* wait_for(queue.get(), 1.0) gives up, and the loop looks at the pause again.
WorkerGetTimeout(w) ==
    /\ worker[w] = "getting"
    /\ queue = <<>>
    /\ worker' = [worker EXCEPT ![w] = "top"]
    /\ UNCHANGED <<request, taskVars, queue, job, pauseVars, stats, client>>

\* A task is taken and its download begins, also when a pause has begun since.
WorkerGet(w) ==
    /\ worker[w] = "getting"
    /\ queue # <<>>
    /\ queue' = Tail(queue)
    /\ job' = [job EXCEPT ![w] = Head(queue)]
    /\ status' = [status EXCEPT ![Head(queue)] = "IN_PROGRESS"]
    /\ attempts' = [attempts EXCEPT ![Head(queue)] = @ + 1]
    /\ worker' = [worker EXCEPT ![w] = "downloading"]
    /\ UNCHANGED <<request, pauseVars, stats, client>>

\* The file is there: the run of Telegram errors is over.
Complete(w) ==
    /\ worker[w] = "downloading"
    /\ Settle(w, "COMPLETED")
    /\ Count("completed")
    /\ errors' = 0
    /\ worker' = [worker EXCEPT ![w] = "top"]
    /\ UNCHANGED <<request, attempts, queue, paused, client>>

\* task_timeout (or a TimeoutError of the downloader): no further attempt.
TaskTimeout(w) ==
    /\ worker[w] = "downloading"
    /\ Settle(w, "FAILED")
    /\ Count("failed")
    /\ worker' = [worker EXCEPT ![w] = "top"]
    /\ UNCHANGED <<request, attempts, queue, pauseVars, client>>

\* A Telegram server error: counted, the first at the threshold pauses all
\* workers, and the task is given up.
TelegramError(w) ==
    /\ worker[w] = "downloading"
    /\ errors' = errors + 1
    /\ paused' = (paused \/ errors' >= Threshold)
    /\ Settle(w, "FAILED")
    /\ Count("failed")
    /\ worker' = [worker EXCEPT ![w] = "top"]
    /\ UNCHANGED <<request, attempts, queue, client>>

\* Any other failure, a missing file included: the task is PENDING again while
\* its worker sleeps before the next attempt, or FAILED after the last one.
Fail(w) ==
    /\ worker[w] = "downloading"
    /\ IF attempts[job[w]] < MaxAttempts
         THEN /\ worker' = [worker EXCEPT ![w] = "retrying"]
              /\ status' = [status EXCEPT ![job[w]] = "PENDING"]
              /\ UNCHANGED <<job, stats>>
         ELSE /\ Settle(w, "FAILED")
              /\ Count("failed")
              /\ worker' = [worker EXCEPT ![w] = "top"]
    /\ UNCHANGED <<request, attempts, queue, pauseVars, client>>

\* After the sleep the worker itself puts the task back: it waits while the
\* queue is full.
Requeue(w) ==
    /\ worker[w] = "retrying"
    /\ Len(queue) < QueueSize
    /\ queue' = Append(queue, job[w])
    /\ job' = [job EXCEPT ![w] = NoTask]
    /\ worker' = [worker EXCEPT ![w] = "top"]
    /\ UNCHANGED <<request, taskVars, pauseVars, stats, client>>

\* The cancelled download ends the task and, re-raised, the worker; the task
\* is counted as cancelled once more.
WorkerCancelled(w) ==
    /\ worker[w] = "cancelled"
    /\ Settle(w, "CANCELLED")
    /\ Count("cancelled")
    /\ worker' = [worker EXCEPT ![w] = "ended"]
    /\ UNCHANGED <<request, attempts, queue, pauseVars, client>>

Attempt(w) == Complete(w) \/ TaskTimeout(w) \/ TelegramError(w) \/ Fail(w)

Worker(w) == \/ WorkerTop(w) \/ WorkerGetTimeout(w) \/ WorkerGet(w)
             \/ Attempt(w) \/ Requeue(w) \/ WorkerCancelled(w)

\* _unpause_after
Unpause ==
    /\ paused
    /\ paused' = FALSE
    /\ errors' = IF errors >= 2 THEN errors - 2 ELSE 0
    /\ UNCHANGED <<request, taskVars, queue, workerVars, stats, client>>

-----------------------------------------------------------------------------
(* The end of an export: wait_all, then stop                                *)

\* No call of enqueue is under way when the export begins to wait.
WaitStart ==
    /\ client = "exporting"
    /\ \A t \in Tasks : request[t] # "putting"
    /\ client' = "waiting"
    /\ UNCHANGED <<request, taskVars, queue, workerVars, pauseVars, stats>>

\* "All downloads completed": nothing queued and nothing in progress.
WaitIdle ==
    /\ client = "waiting"
    /\ queue = <<>> /\ InProgress = {}
    /\ client' = "waited"
    /\ UNCHANGED <<request, taskVars, queue, workerVars, pauseVars, stats>>

\* The timeout of the wait: _cancel_stuck_tasks cancels the active downloads,
\* marks their tasks and counts them.
WaitTimeout ==
    /\ client = "waiting"
    /\ queue # <<>> \/ InProgress # {}
    /\ client' = "timed_out"
    /\ worker' = [w \in Workers |->
                    IF w \in Active THEN "cancelled" ELSE worker[w]]
    /\ status' = [t \in Tasks |->
                    IF \E w \in Active : job[w] = t THEN "CANCELLED" ELSE status[t]]
    /\ stats' = [stats EXCEPT !["cancelled"] = @ + Cardinality(Active)]
    /\ UNCHANGED <<request, attempts, queue, job, pauseVars>>

\* stop(wait_for_completion=True) waits once more, without a timeout ...
StopStart ==
    /\ client \in {"waited", "timed_out"}
    /\ client' = "stopping"
    /\ UNCHANGED <<request, taskVars, queue, workerVars, pauseVars, stats>>

\* ... and then cancels the workers.  A worker waiting to put a task back
\* leaves it PENDING, in no queue.
StopIdle ==
    /\ client = "stopping"
    /\ queue = <<>> /\ InProgress = {}
    /\ client' = "stopped"
    /\ worker' = [w \in Workers |-> "ended"]
    /\ job' = [w \in Workers |-> NoTask]
    /\ stats' = [stats EXCEPT !["cancelled"] =
                    @ + Cardinality({w \in Workers : worker[w] = "cancelled"})]
    /\ UNCHANGED <<request, taskVars, queue, pauseVars>>

Client == WaitStart \/ WaitIdle \/ StopStart \/ StopIdle

-----------------------------------------------------------------------------
Done == client = "stopped" /\ UNCHANGED vars

Next == \/ \E t \in Tasks : Enqueue(t) \/ EnqueuePut(t) \/ EnqueueCancelled(t)
        \/ \E w \in Workers : Worker(w)
        \/ Unpause
        \/ Client \/ WaitTimeout
        \/ Done

Spec == Init /\ [][Next]_vars

\* The event loop runs what is ready, every attempt ends (task_timeout sees to
\* it), sleeps end, and the export ends and then waits and stops.
Fairness == /\ \A t \in Tasks : WF_vars(EnqueuePut(t))
            /\ \A w \in Workers : WF_vars(Worker(w))
            /\ WF_vars(Unpause)
            /\ WF_vars(Client)

FairSpec == Spec /\ Fairness

-----------------------------------------------------------------------------
(* Properties                                                               *)

\* Until the queue is stopped, a download that was asked for, not given up by
\* its caller and not settled is in one place: with its caller, once in the
\* queue, or with one worker.  A settled one is in none, but for a worker that
\* is about to learn of the cancellation.
HeldOnce ==
    client # "stopped" =>
        \A t \in Tasks :
            LET places == Cardinality({i \in DOMAIN queue : queue[i] = t})
                          + Cardinality({w \in Workers : job[w] = t})
                          + (IF request[t] = "putting" THEN 1 ELSE 0)
                learning == \E w \in Workers :
                              job[w] = t /\ worker[w] = "cancelled"
            IN places = IF \/ request[t] \in {"none", "abandoned"}
                           \/ status[t] \in Settled /\ ~learning
                        THEN 0 ELSE 1

\* get_progress_info: the completed and failed counts of the progress bar are
\* those of the tasks, over all retries, pauses and timeouts.  (The cancelled
\* count is not: _cancel_stuck_tasks and the worker both count a task.)
StatsAgree ==
    /\ stats["queued"] = Cardinality({t \in Tasks : request[t] # "none"})
    /\ stats["completed"] = Cardinality({t \in Tasks : status[t] = "COMPLETED"})
    /\ stats["failed"] = Cardinality({t \in Tasks : status[t] = "FAILED"})
    /\ LET cancelled == Cardinality({t \in Tasks : status[t] = "CANCELLED"})
       IN stats["cancelled"] \in cancelled .. 2 * cancelled

\* A settled download stays as it is, and the task of a worker is not taken
\* away from it except by the stop.
SettledForever ==
    [][/\ \A t \in Tasks : status[t] \in Settled => status'[t] = status[t]
       /\ \A t \in Tasks : status'[t] = "CANCELLED" /\ status[t] # "CANCELLED"
             => status[t] = "IN_PROGRESS"]_vars

\* All workers hold a task to put back and the queue is full of others.
Jammed == /\ Len(queue) = QueueSize
          /\ \A w \in Workers : worker[w] = "retrying"

\* Every enqueued download is settled in the end -- through failures, pauses
\* and retries -- unless the workers jam, the wait times out (and takes the
\* workers away) or the queue is stopped.
EverySettles ==
    []~Jammed /\ [](client # "timed_out") =>
        \A t \in Tasks : (request[t] = "returned")
                         ~> (status[t] \in Settled \/ client = "stopped")

\* wait_all: "Wait for all queued downloads to complete. [...] True if all
\* downloads completed".
WaitAllIsTrue ==
    client = "waited" =>
        \A t \in Tasks : request[t] = "returned" => status[t] \in Settled

\* stop: "Stop the download queue. [...] If True, wait for pending downloads to
\* complete" -- and it comes back.
StopEnds == (client = "stopping") ~> (client = "stopped")
=============================================================================
