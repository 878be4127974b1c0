---------------------------- MODULE AsyncPipeline ----------------------------
(***************************************************************************)
(* The three-stage export pipeline (src/src/export/pipeline.py): one       *)
(* fetcher task numbers the messages of a source, a pool of processor      *)
(* workers turns each into a result, one writer task puts the results back *)
(* in order, and run() itself shuts the stages down one after the other.   *)
(* The stages meet in two bounded asyncio queues with their counters of    *)
(* unfinished items (put / get / task_done / join).                        *)
(*                                                                         *)
(* A message is its sequence number.  What its result carries -- a value,  *)
(* None, or the exception of process_fn -- is outcome[s]; the queues and   *)
(* the buffer hold numbers only.  One step is the code between two awaits. *)
(***************************************************************************)
EXTENDS Integers, Sequences, FiniteSets

CONSTANTS Workers,            \* the processor tasks
          FetchQueueSize,     \* maxsize of fetch_q
          ProcessQueueSize,   \* maxsize of write_q
          MaxMessages         \* bound on the messages one source may yield

ASSUME PipelineAssumption ==
    /\ IsFiniteSet(Workers)
    /\ FetchQueueSize \in Nat \ {0}
    /\ ProcessQueueSize \in Nat \ {0}
    /\ MaxMessages \in Nat

VARIABLES
    shutdown_requested,   \* shutdown_manager.shutdown_requested
    fetcher,              \* control state of _fetcher
    fetched,              \* seq, the last number _fetcher gave out
    fetch_q,              \* numbers and sentinels, oldest first
    fetch_unfinished,     \* fetch_q's count of items not yet task_done
    worker,               \* control state of each _processor_worker
    item,                 \* the number a worker holds, or Sentinel
    outcome,              \* what the result of each message carries
    errors,               \* the errors counter of run()
    write_q,              \* numbers and the writer's sentinel, oldest first
    write_unfinished,     \* write_q's count of items not yet task_done
    writer,               \* control state of _writer
    expected_seq,         \* next number to write
    buffer,               \* numbers received ahead of their turn
    written,              \* numbers writer_fn accepted, in that order
    main,                 \* control state of run()
    sentinels             \* sentinels put into fetch_q so far

fetchVars   == <<fetcher, fetched>>
fetchQVars  == <<fetch_q, fetch_unfinished>>
workerVars  == <<worker, item, outcome, errors>>
writeQVars  == <<write_q, write_unfinished>>
writerVars  == <<writer, expected_seq, buffer, written>>
mainVars    == <<main, sentinels>>
vars == <<shutdown_requested, fetchVars, fetchQVars, workerVars, writeQVars,
          writerVars, mainVars>>

Sentinel == 0                     \* the (None, ...) tuples that stop a task
Messages == 1 .. MaxMessages
Elements(q) == {q[i] : i \in DOMAIN q}

\* A result is unknown until process_fn ends; "lost" is a value whose
\* writer_fn call raised.
Outcomes == {"unknown", "value", "none", "error", "lost"}

Ended == {"returned", "raised"}

TypeOK ==
    /\ shutdown_requested \in BOOLEAN
    /\ fetcher \in {"running", "putting", "done", "failed", "cancelled"}
    /\ fetched \in 0 .. MaxMessages
    /\ fetch_q \in Seq(Messages \cup {Sentinel})
    /\ Len(fetch_q) <= FetchQueueSize
    /\ fetch_unfinished \in Nat
    /\ worker \in [Workers -> {"top", "getting", "processing", "putting",
                               "done", "cancelled"}]
    /\ item \in [Workers -> Messages \cup {Sentinel}]
    /\ outcome \in [Messages -> Outcomes]
    /\ errors \in Nat
    /\ write_q \in Seq(Messages \cup {Sentinel})
    /\ Len(write_q) <= ProcessQueueSize
    /\ write_unfinished \in Nat
    /\ writer \in {"getting", "flushing", "writing", "done", "cancelled"}
    /\ expected_seq \in 1 .. MaxMessages + 1
    /\ buffer \in SUBSET Messages
    /\ written \in Seq(Messages)
    /\ main \in {"fetching", "joining_fetch", "stopping_workers", "gathering",
                 "joining_write", "stopping_writer"} \cup Ended
    /\ sentinels \in 0 .. Cardinality(Workers)

Init ==
    /\ shutdown_requested = FALSE
    /\ fetcher = "running" /\ fetched = 0
    /\ fetch_q = <<>> /\ fetch_unfinished = 0
    /\ worker = [w \in Workers |-> "top"]
    /\ item = [w \in Workers |-> Sentinel]
    /\ outcome = [s \in Messages |-> "unknown"]
    /\ errors = 0
    /\ write_q = <<>> /\ write_unfinished = 0
    /\ writer = "getting" /\ expected_seq = 1 /\ buffer = {}
    /\ written = <<>>
    /\ main = "fetching" /\ sentinels = 0

-----------------------------------------------------------------------------
(* Faulty variants of some actions below, each a slip this code could have  *)
(* made.  No specification uses them: they show which property would fail.  *)

\* task_done belongs to the success path only, not to a finally clause.
ForgetfulWorkerPut(w) ==
    /\ worker[w] = "putting"
    /\ Len(write_q) < ProcessQueueSize
    /\ write_q' = Append(write_q, item[w])
    /\ write_unfinished' = write_unfinished + 1
    /\ errors' = IF outcome[item[w]] = "error" THEN errors + 1 ELSE errors
    /\ fetch_unfinished' = IF outcome[item[w]] = "error"
                             THEN fetch_unfinished ELSE fetch_unfinished - 1
    /\ item' = [item EXCEPT ![w] = Sentinel]
    /\ worker' = [worker EXCEPT ![w] = "top"]
    /\ UNCHANGED <<shutdown_requested, fetchVars, fetch_q, outcome,
                   writerVars, mainVars>>

\* A stack in place of the queue: the newest message is taken first.
NewestFirstWorkerGet(w) ==
    /\ worker[w] = "getting"
    /\ fetch_q # <<>>
    /\ LET last == fetch_q[Len(fetch_q)] IN
         /\ fetch_q' = SubSeq(fetch_q, 1, Len(fetch_q) - 1)
         /\ item' = [item EXCEPT ![w] = last]
         /\ IF last = Sentinel
              THEN /\ worker' = [worker EXCEPT ![w] = "done"]
                   /\ fetch_unfinished' = fetch_unfinished - 1
              ELSE /\ worker' = [worker EXCEPT ![w] = "processing"]
                   /\ UNCHANGED fetch_unfinished
    /\ UNCHANGED <<shutdown_requested, fetchVars, outcome, errors, writeQVars,
                   writerVars, mainVars>>

\* Whatever has arrived is written, in turn or not.
UnorderedWriterFlush ==
    /\ writer = "flushing"
    /\ \E s \in buffer :
         /\ buffer' = buffer \ {s}
         /\ IF outcome[s] = "value"
              THEN /\ writer' = "writing"
                   /\ expected_seq' = s
              ELSE /\ expected_seq' = s + 1
                   /\ UNCHANGED writer
    /\ UNCHANGED <<shutdown_requested, fetchVars, fetchQVars, workerVars,
                   writeQVars, written, mainVars>>

\* The stats are returned once the writer has been told to stop.
HastyMainReturn ==
    /\ main = "joining_write"
    /\ main' = "returned"
    /\ UNCHANGED <<shutdown_requested, fetchVars, fetchQVars, workerVars,
                   writeQVars, writerVars, sentinels>>

\* The writer is not in the list of tasks to cancel.
PartialCancelTasks ==
    /\ main' = "raised"
    /\ fetcher' = IF fetcher \in {"done", "failed"} THEN fetcher ELSE "cancelled"
    /\ worker' = [w \in Workers |->
                    IF worker[w] = "done" THEN "done" ELSE "cancelled"]
    /\ item' = [w \in Workers |-> Sentinel]
    /\ fetch_unfinished' = fetch_unfinished
          - Cardinality({w \in Workers : worker[w] \in {"processing", "putting"}})
    /\ UNCHANGED <<shutdown_requested, fetched, fetch_q, outcome, errors,
                   writeQVars, writerVars, sentinels>>

-----------------------------------------------------------------------------
(* SIGINT sets the flag at any moment; nothing in a run clears it.          *)
RequestShutdown ==
    /\ ~shutdown_requested
    /\ main \notin Ended
    /\ shutdown_requested' = TRUE
    /\ UNCHANGED <<fetchVars, fetchQVars, workerVars, writeQVars, writerVars,
                   mainVars>>

(* _fetcher                                                                 *)

\* A message arrives, no shutdown is seen, and it gets the next number.
FetchMessage ==
    /\ fetcher = "running"
    /\ ~shutdown_requested
    /\ fetched < MaxMessages
    /\ fetched' = fetched + 1
    /\ fetcher' = "putting"
    /\ UNCHANGED <<shutdown_requested, fetchQVars, workerVars, writeQVars,
                   writerVars, mainVars>>

\* fetch_q.put: waits while the queue is full.
FetchPut ==
    /\ fetcher = "putting"
    /\ Len(fetch_q) < FetchQueueSize
    /\ fetch_q' = Append(fetch_q, fetched)
    /\ fetch_unfinished' = fetch_unfinished + 1
    /\ fetcher' = "running"
    /\ UNCHANGED <<shutdown_requested, fetched, workerVars, writeQVars,
                   writerVars, mainVars>>

\* The source ends, or a message arrives after the shutdown request; or the
\* source raises, which _fetcher logs and raises again.
FetchStop ==
    /\ fetcher = "running"
    /\ fetcher' \in {"done", "failed"}
    /\ UNCHANGED <<shutdown_requested, fetched, fetchQVars, workerVars,
                   writeQVars, writerVars, mainVars>>

Fetcher == FetchMessage \/ FetchPut \/ FetchStop

-----------------------------------------------------------------------------
(* _processor_worker                                                        *)

\* The loop head: the flag is looked at here and nowhere else, before the
\* worker starts to wait for an item.
WorkerTop(w) ==
    /\ worker[w] = "top"
    /\ worker' = [worker EXCEPT ![w] = IF shutdown_requested THEN "done"
                                                             ELSE "getting"]
    /\ UNCHANGED <<shutdown_requested, fetchVars, fetchQVars, item, outcome,
                   errors, writeQVars, writerVars, mainVars>>

\* fetch_q.get: a message to process, or the sentinel, which is task_done at
\* once and ends the worker.
WorkerGet(w) ==
    /\ worker[w] = "getting"
    /\ fetch_q # <<>>
    /\ fetch_q' = Tail(fetch_q)
    /\ item' = [item EXCEPT ![w] = Head(fetch_q)]
    /\ IF Head(fetch_q) = Sentinel
         THEN /\ worker' = [worker EXCEPT ![w] = "done"]
              /\ fetch_unfinished' = fetch_unfinished - 1
         ELSE /\ worker' = [worker EXCEPT ![w] = "processing"]
              /\ UNCHANGED fetch_unfinished
    /\ UNCHANGED <<shutdown_requested, fetchVars, outcome, errors, writeQVars,
                   writerVars, mainVars>>

\* process_fn returns a value, returns None, or raises.
WorkerProcess(w) ==
    /\ worker[w] = "processing"
    /\ \E o \in {"value", "none", "error"} :
          outcome' = [outcome EXCEPT ![item[w]] = o]
    /\ worker' = [worker EXCEPT ![w] = "putting"]
    /\ UNCHANGED <<shutdown_requested, fetchVars, fetchQVars, item, errors,
                   writeQVars, writerVars, mainVars>>

\* write_q.put of the result or of the failure marker: waits while the queue
\* is full; then errors is counted and the item is task_done on fetch_q.
WorkerPut(w) ==
    /\ worker[w] = "putting"
    /\ Len(write_q) < ProcessQueueSize
    /\ write_q' = Append(write_q, item[w])
    /\ write_unfinished' = write_unfinished + 1
    /\ errors' = IF outcome[item[w]] = "error" THEN errors + 1 ELSE errors
    /\ fetch_unfinished' = fetch_unfinished - 1
    /\ item' = [item EXCEPT ![w] = Sentinel]
    /\ worker' = [worker EXCEPT ![w] = "top"]
    /\ UNCHANGED <<shutdown_requested, fetchVars, fetch_q, outcome,
                   writerVars, mainVars>>

Worker(w) == WorkerTop(w) \/ WorkerGet(w) \/ WorkerProcess(w) \/ WorkerPut(w)

-----------------------------------------------------------------------------
(* _writer                                                                  *)

\* write_q.get: a result goes to the buffer; the sentinel ends the writer.
WriterGet ==
    /\ writer = "getting"
    /\ write_q # <<>>
    /\ write_q' = Tail(write_q)
    /\ IF Head(write_q) = Sentinel
         THEN /\ writer' = "done"
              /\ write_unfinished' = write_unfinished - 1
              /\ UNCHANGED buffer
         ELSE /\ writer' = "flushing"
              /\ buffer' = buffer \cup {Head(write_q)}
              /\ UNCHANGED write_unfinished
    /\ UNCHANGED <<shutdown_requested, fetchVars, fetchQVars, workerVars,
                   expected_seq, written, mainVars>>

\* One round of the flush loop: the next number in order leaves the buffer; a
\* value is handed to writer_fn, a failure or a None is passed over.
WriterFlush ==
    /\ writer = "flushing"
    /\ expected_seq \in buffer
    /\ buffer' = buffer \ {expected_seq}
    /\ IF outcome[expected_seq] = "value"
         THEN /\ writer' = "writing"
              /\ UNCHANGED expected_seq
         ELSE /\ expected_seq' = expected_seq + 1
              /\ UNCHANGED writer
    /\ UNCHANGED <<shutdown_requested, fetchVars, fetchQVars, workerVars,
                   writeQVars, written, mainVars>>

\* writer_fn returns, or raises: the exception is logged and the message is
\* left out without being counted.  The order advances in both cases.
WriterWrite ==
    /\ writer = "writing"
    /\ \/ /\ written' = Append(written, expected_seq)
          /\ UNCHANGED outcome
       \/ /\ outcome' = [outcome EXCEPT ![expected_seq] = "lost"]
          /\ UNCHANGED written
    /\ expected_seq' = expected_seq + 1
    /\ writer' = "flushing"
    /\ UNCHANGED <<shutdown_requested, fetchVars, fetchQVars, worker, item,
                   errors, writeQVars, buffer, mainVars>>

\* Nothing more is in turn: task_done, and back to write_q.get.
WriterWait ==
    /\ writer = "flushing"
    /\ expected_seq \notin buffer
    /\ writer' = "getting"
    /\ write_unfinished' = write_unfinished - 1
    /\ UNCHANGED <<shutdown_requested, fetchVars, fetchQVars, workerVars,
                   write_q, expected_seq, buffer, written, mainVars>>

Writer == WriterGet \/ WriterFlush \/ WriterWrite \/ WriterWait

-----------------------------------------------------------------------------
(* run()                                                                    *)

\* await fetch_task
MainFetched ==
    /\ main = "fetching"
    /\ fetcher = "done"
    /\ main' = "joining_fetch"
    /\ UNCHANGED <<shutdown_requested, fetchVars, fetchQVars, workerVars,
                   writeQVars, writerVars, sentinels>>

\* await fetch_q.join()
MainFetchJoined ==
    /\ main = "joining_fetch"
    /\ fetch_unfinished = 0
    /\ main' = "stopping_workers"
    /\ UNCHANGED <<shutdown_requested, fetchVars, fetchQVars, workerVars,
                   writeQVars, writerVars, sentinels>>

\* One sentinel per configured worker, also for the workers already gone.
MainStopWorker ==
    /\ main = "stopping_workers"
    /\ sentinels < Cardinality(Workers)
    /\ Len(fetch_q) < FetchQueueSize
    /\ fetch_q' = Append(fetch_q, Sentinel)
    /\ fetch_unfinished' = fetch_unfinished + 1
    /\ sentinels' = sentinels + 1
    /\ UNCHANGED <<shutdown_requested, fetchVars, workerVars, writeQVars,
                   writerVars, main>>

MainWorkersTold ==
    /\ main = "stopping_workers"
    /\ sentinels = Cardinality(Workers)
    /\ main' = "gathering"
    /\ UNCHANGED <<shutdown_requested, fetchVars, fetchQVars, workerVars,
                   writeQVars, writerVars, sentinels>>

\* await asyncio.gather(*proc_tasks)
MainGathered ==
    /\ main = "gathering"
    /\ \A w \in Workers : worker[w] = "done"
    /\ main' = "joining_write"
    /\ UNCHANGED <<shutdown_requested, fetchVars, fetchQVars, workerVars,
                   writeQVars, writerVars, sentinels>>

\* await write_q.join(), then the writer's sentinel: the queue is empty, so
\* the put does not wait.
MainWriteJoined ==
    /\ main = "joining_write"
    /\ write_unfinished = 0
    /\ write_q' = Append(write_q, Sentinel)
    /\ write_unfinished' = write_unfinished + 1
    /\ main' = "stopping_writer"
    /\ UNCHANGED <<shutdown_requested, fetchVars, fetchQVars, workerVars,
                   writerVars, sentinels>>

\* await writer_task, then the stats are returned.
MainReturn ==
    /\ main = "stopping_writer"
    /\ writer = "done"
    /\ main' = "returned"
    /\ UNCHANGED <<shutdown_requested, fetchVars, fetchQVars, workerVars,
                   writeQVars, writerVars, sentinels>>

\* The finally clause when run() is left by an exception: every task still
\* alive is cancelled.  A worker cancelled in process_fn or in write_q.put
\* still runs its own finally, which marks its item task_done.
CancelTasks ==
    /\ main' = "raised"
    /\ fetcher' = IF fetcher \in {"done", "failed"} THEN fetcher ELSE "cancelled"
    /\ worker' = [w \in Workers |->
                    IF worker[w] = "done" THEN "done" ELSE "cancelled"]
    /\ item' = [w \in Workers |-> Sentinel]
    /\ fetch_unfinished' = fetch_unfinished
          - Cardinality({w \in Workers : worker[w] \in {"processing", "putting"}})
    /\ writer' = IF writer = "done" THEN "done" ELSE "cancelled"
    /\ UNCHANGED <<shutdown_requested, fetched, fetch_q, outcome, errors,
                   writeQVars, expected_seq, buffer, written, sentinels>>

\* await fetch_task raises what the source raised.
MainFetchFailed ==
    /\ main = "fetching"
    /\ fetcher = "failed"
    /\ CancelTasks

\* The caller cancels run() (export_target bounds it with asyncio.wait_for).
MainCancelled ==
    /\ main \notin Ended
    /\ CancelTasks

Main == \/ MainFetched \/ MainFetchJoined \/ MainStopWorker \/ MainWorkersTold
        \/ MainGathered \/ MainWriteJoined \/ MainReturn \/ MainFetchFailed

-----------------------------------------------------------------------------
Done == main \in Ended /\ UNCHANGED vars

Next == \/ RequestShutdown
        \/ Fetcher
        \/ \E w \in Workers : Worker(w)
        \/ Writer
        \/ Main
        \/ MainCancelled
        \/ Done

Spec == Init /\ [][Next]_vars

\* The event loop runs every task that is ready, and the source, process_fn
\* and writer_fn answer.  Nobody is obliged to press Ctrl+C or to cancel.
Fairness == /\ WF_vars(Fetcher)
            /\ \A w \in Workers : WF_vars(Worker(w))
            /\ WF_vars(Writer)
            /\ WF_vars(Main)

FairSpec == Spec /\ Fairness

-----------------------------------------------------------------------------
(* Properties                                                               *)

\* Every place that holds message s at this moment.
Holders(s) ==
    {<<"fetcher", s>> : p \in {q \in {fetcher} : q = "putting" /\ s = fetched}}
    \cup {<<"fetch_q", i>> : i \in {j \in DOMAIN fetch_q : fetch_q[j] = s}}
    \cup {<<"worker", w>> : w \in {v \in Workers : item[v] = s}}
    \cup {<<"write_q", i>> : i \in {j \in DOMAIN write_q : write_q[j] = s}}
    \cup {<<"buffer", b>> : b \in buffer \cap {s}}
    \cup {<<"writer", s>> : p \in {q \in {writer} : q = "writing"
                                                   /\ s = expected_seq}}

\* "For each fetched message there will be exactly one processed result"
\* (pipeline.py, class docstring): while the run is not aborted, a message
\* that was numbered and is not yet settled is in exactly one place -- a
\* queue, a task or the buffer -- and every other message is nowhere.
EachResultOnce ==
    main # "raised" =>
        \A s \in Messages :
            IF s \in expected_seq .. fetched
              THEN \E h \in Holders(s) : Holders(s) = {h}
              ELSE Holders(s) = {}

\* The output is in message order without repetition and has no gap behind
\* it: of the messages before expected_seq all have a result, and exactly
\* those whose value the writer accepted are in the output.  It holds after
\* an abort too: what was written by then is a prefix of the history.
InOrderNoGaps ==
    /\ \A i, j \in DOMAIN written : i < j => written[i] < written[j]
    /\ Elements(written) \subseteq 1 .. expected_seq - 1
    /\ \A s \in Messages : s < expected_seq =>
          /\ outcome[s] # "unknown"
          /\ outcome[s] = "value" <=> s \in Elements(written)

\* run() returns only when every numbered message is settled ...
SettledOnReturn == main = "returned" => expected_seq = fetched + 1

\* ... and then its errors statistic is the number of messages whose
\* process_fn raised (a call of writer_fn that raises is counted nowhere).
ErrorsOnReturn ==
    main = "returned" =>
        errors = Cardinality({s \in Messages : outcome[s] = "error"})

\* A run that returns has settled everything and counted every failure.
CompleteOnReturn == SettledOnReturn /\ ErrorsOnReturn

\* The pipeline does what OrderedDelivery promises: queues, workers and the
\* reorder buffer are invisible from outside.
Ordered == INSTANCE OrderedDelivery
             WITH settled <- expected_seq - 1,
                  status  <- IF main \in Ended THEN main ELSE "running"

ImplementsOrderedDelivery == Ordered!Spec

\* A message whose process_fn has ended is settled in the end unless the run
\* is aborted, also when a shutdown request makes the workers leave and the
\* run hang: what is left behind are the newest messages, never one that a
\* processed message waits for.
ProcessedIsSettled ==
    \A s \in Messages :
        (outcome[s] # "unknown") ~> (expected_seq > s \/ main = "raised")

\* "The writer will skip failed messages but will always advance ordering so
\* it never deadlocks": a run nobody asks to shut down comes to an end, for
\* all failures of the source, of process_fn and of writer_fn.
EndsWithoutShutdown == [](~shutdown_requested) => <>(main \in Ended)

\* tests/test_graceful_shutdown_integration.py runs the pipeline, requests a
\* shutdown in the middle and expects run() to give back its stats.
EndsAlsoOnShutdown == <>(main \in Ended)
=============================================================================
