------------------------ MODULE PrefetchBatchProcessor ------------------------
(***************************************************************************)
(* Batch prefetching (src/src/export/prefetch_processor.py) under the loop *)
(* that consumes it (_export_with_prefetch in src/src/export/exporter.py): *)
(* a background producer task groups messages into batches and puts them   *)
(* into a bounded queue; the exporter takes a batch, processes and writes  *)
(* it, and stops the producer when it leaves the loop for any reason.      *)
(*                                                                         *)
(* Messages are numbered in the order of the source.  One step is the code *)
(* between two awaits.                                                     *)
(***************************************************************************)
EXTENDS Integers, Sequences, SequencesExt

CONSTANTS BatchSize,      \* batch_size
          QueueSize,      \* queue_size
          MaxMessages     \* bound on the messages one source may yield

PrefetchAssumption ==
    /\ BatchSize \in Nat \ {0}
    /\ QueueSize \in Nat \ {0}
    /\ MaxMessages \in Nat

VARIABLES
    shutdown_requested,   \* shutdown_manager.shutdown_requested
    timed_out,            \* the caller's wait_for has cancelled the export
    producer,             \* control state of the producer task
    fetched,              \* messages the source has yielded
    kept,                 \* those not skipped, in order (history)
    current_batch,        \* the batch being filled
    queue,                \* batches and None, oldest first
    consumer,             \* control state of the export loop
    batch,                \* the batch the export loop works on
    reason,               \* why the loop was left: "none" while it runs
    awaited,              \* stop() found the producer alive and awaits it
    handled               \* messages of the batches already written (history)

sourceVars   == <<fetched, kept, current_batch>>
consumerVars == <<consumer, batch, reason, awaited, handled>>
controlVars  == <<shutdown_requested, timed_out>>
vars == <<controlVars, producer, sourceVars, queue, consumerVars>>

None == <<>>                      \* the sentinel: no batch is ever empty
Messages == 1 .. MaxMessages
Over == {"done", "failed", "cancelled"}
Ended == {"returned", "raised"}

TypeOK ==
    /\ shutdown_requested \in BOOLEAN
    /\ timed_out \in BOOLEAN
    /\ producer \in {"created", "fetching", "putting", "putting_last",
                     "putting_none", "cancelling", "failing"} \cup Over
    /\ fetched \in 0 .. MaxMessages
    /\ kept \in Seq(Messages)
    /\ current_batch \in Seq(Messages) /\ Len(current_batch) <= BatchSize
    /\ queue \in Seq(Seq(Messages)) /\ Len(queue) <= QueueSize
    /\ consumer \in {"top", "getting", "processing", "stopping"} \cup Ended
    /\ batch \in Seq(Messages) /\ Len(batch) <= BatchSize
    /\ reason \in {"none", "completed", "shutdown", "error"}
    /\ awaited \in BOOLEAN
    /\ handled \in Seq(Messages)

Init ==
    /\ shutdown_requested = FALSE /\ timed_out = FALSE
    /\ producer = "created"
    /\ fetched = 0 /\ kept = <<>> /\ current_batch = <<>>
    /\ queue = <<>>
    /\ consumer = "top" /\ batch = <<>> /\ reason = "none" /\ awaited = FALSE
    /\ handled = <<>>

-----------------------------------------------------------------------------
(* Faulty variants of some actions below, each a slip this code could have  *)
(* made.  No specification uses them: they show which property would fail.  *)

\* The last batch is queued only when it is full.
FullBatchesOnlySourceEnds ==
    /\ producer = "fetching"
    /\ producer' = "putting_none"
    /\ UNCHANGED <<controlVars, sourceVars, queue, consumerVars>>

\* A failing producer ends without a sentinel.
SilentSourceFails ==
    /\ producer = "fetching"
    /\ producer' = "failed"
    /\ UNCHANGED <<controlVars, sourceVars, queue, consumerVars>>

-----------------------------------------------------------------------------
(* The surroundings                                                         *)

RequestShutdown ==
    /\ ~shutdown_requested
    /\ consumer \notin Ended
    /\ shutdown_requested' = TRUE
    /\ UNCHANGED <<timed_out, producer, sourceVars, queue, consumerVars>>

-----------------------------------------------------------------------------
(* The producer task                                                        *)

\* The task was created just before the export loop and first runs when the
\* loop first waits.
ProducerStarts ==
    /\ producer = "created"
    /\ consumer # "top"
    /\ producer' = "fetching"
    /\ UNCHANGED <<controlVars, sourceVars, queue, consumerVars>>

\* The source yields a message: skip_condition drops it, or it joins the
\* batch, which is queued when it is full.
Fetch ==
    /\ producer = "fetching"
    /\ fetched < MaxMessages
    /\ fetched' = fetched + 1
    /\ \/ UNCHANGED <<kept, current_batch, producer>>
       \/ /\ kept' = Append(kept, fetched')
          /\ current_batch' = Append(current_batch, fetched')
          /\ producer' = IF Len(current_batch') >= BatchSize
                         THEN "putting" ELSE "fetching"
    /\ UNCHANGED <<controlVars, queue, consumerVars>>

\* await queue.put(current_batch), then a new batch.
Put ==
    /\ producer = "putting"
    /\ Len(queue) < QueueSize
    /\ queue' = Append(queue, current_batch)
    /\ current_batch' = <<>>
    /\ producer' = "fetching"
    /\ UNCHANGED <<controlVars, fetched, kept, consumerVars>>

\* The source is exhausted: the partial batch, if any, is queued next.
SourceEnds ==
    /\ producer = "fetching"
    /\ producer' = IF current_batch # <<>> THEN "putting_last" ELSE "putting_none"
    /\ UNCHANGED <<controlVars, sourceVars, queue, consumerVars>>

PutLast ==
    /\ producer = "putting_last"
    /\ Len(queue) < QueueSize
    /\ queue' = Append(queue, current_batch)
    /\ current_batch' = <<>>
    /\ producer' = "putting_none"
    /\ UNCHANGED <<controlVars, fetched, kept, consumerVars>>

\* The source raises: the error handler puts the sentinel and raises again;
\* the partial batch is gone.
SourceFails ==
    /\ producer = "fetching"
    /\ producer' = "failing"
    /\ UNCHANGED <<controlVars, sourceVars, queue, consumerVars>>

\* await queue.put(None): after the last batch, in the handler of an error,
\* or in the handler of the cancellation.
PutNone ==
    /\ producer \in {"putting_none", "failing", "cancelling"}
    /\ Len(queue) < QueueSize
    /\ queue' = Append(queue, None)
    /\ producer' = CASE producer = "putting_none" -> "done"
                     [] producer = "failing" -> "failed"
                     [] producer = "cancelling" -> "cancelled"
    /\ UNCHANGED <<controlVars, sourceVars, consumerVars>>

Producer == \/ ProducerStarts \/ Fetch \/ Put \/ SourceEnds \/ PutLast
            \/ SourceFails \/ PutNone

-----------------------------------------------------------------------------
(* The export loop                                                          *)

\* stop(): a producer that is not over is cancelled.  Cancelled before its
\* first step it never runs; in the handler of an error the bare except
\* swallows the cancellation and the error is raised; anywhere else the
\* handler of the cancellation starts.
Stop(why) ==
    /\ consumer' = "stopping"
    /\ reason' = why
    /\ awaited' = (producer \notin Over)
    /\ producer' = CASE producer = "created" -> "cancelled"
                     [] producer = "failing" -> "failed"
                     [] producer \in Over -> producer
                     [] OTHER -> "cancelling"

\* The loop head looks at the shutdown flag, then waits for a batch.
Top ==
    /\ consumer = "top"
    /\ IF shutdown_requested
         THEN Stop("shutdown")
         ELSE consumer' = "getting" /\ UNCHANGED <<producer, reason, awaited>>
    /\ UNCHANGED <<controlVars, sourceVars, queue, batch, handled>>

\* get_next_batch: None ends the loop.
Get ==
    /\ consumer = "getting"
    /\ queue # <<>>
    /\ queue' = Tail(queue)
    /\ IF Head(queue) = None
         THEN Stop("completed") /\ UNCHANGED batch
         ELSE /\ batch' = Head(queue)
              /\ consumer' = "processing"
              /\ UNCHANGED <<producer, reason, awaited>>
    /\ UNCHANGED <<controlVars, sourceVars, handled>>

\* _process_batch_with_stats writes the batch and looks at the flag, unless no
\* message of the batch has a text or media; writing may raise instead, and the
\* finally clause stops the producer.
Process ==
    /\ consumer = "processing"
    /\ batch' = <<>>
    /\ \/ /\ handled' = handled \o batch
          /\ \/ shutdown_requested /\ Stop("shutdown")
             \/ consumer' = "top" /\ UNCHANGED <<producer, reason, awaited>>
       \/ /\ Stop("error")
          /\ UNCHANGED handled
    /\ UNCHANGED <<controlVars, sourceVars, queue>>

\* stop() goes on once the producer is over: an error of the awaited task is
\* raised out of stop(), otherwise the queue is drained.
Stopped ==
    /\ consumer = "stopping"
    /\ producer \in Over
    /\ IF awaited /\ producer = "failed"
         THEN consumer' = "raised" /\ UNCHANGED queue
         ELSE /\ queue' = <<>>
              /\ consumer' = IF reason = "error" THEN "raised" ELSE "returned"
    /\ UNCHANGED <<controlVars, producer, sourceVars, batch, reason, awaited,
                   handled>>

\* The caller's timeout cancels the export once.  Inside the loop it leaves
\* through the finally clause; inside stop() it reaches the producer that is
\* awaited, whose bare except swallows it -- and stop() passes over the
\* CancelledError, so the export goes on as if nothing had happened.
Timeout ==
    /\ ~timed_out
    /\ timed_out' = TRUE
    /\ \/ /\ consumer \in {"getting", "processing"}
          /\ Stop("error")
          /\ batch' = <<>>
       \/ /\ consumer = "stopping"
          /\ producer = "cancelling"
          /\ producer' = "cancelled"
          /\ UNCHANGED <<consumer, reason, awaited, batch>>
    /\ UNCHANGED <<shutdown_requested, sourceVars, queue, handled>>

Consumer == Top \/ Get \/ Process \/ Stopped

-----------------------------------------------------------------------------
Done == consumer \in Ended /\ UNCHANGED vars

Next == RequestShutdown \/ Producer \/ Consumer \/ Timeout \/ Done

Spec == Init /\ [][Next]_vars

\* The event loop runs both tasks, the source and the processing of a batch
\* answer; nobody is obliged to request a shutdown, and no timeout is near.
Fairness == WF_vars(Producer) /\ WF_vars(Consumer)

FairSpec == Spec /\ Fairness

-----------------------------------------------------------------------------
(* Properties                                                               *)

\* While the loop runs, what was written, what is being processed, what is
\* queued and what is being collected are together the kept messages, in the
\* order of the source: no hand-over loses, repeats or reorders a message.
NothingLostInTransit ==
    reason = "none" =>
        handled \o batch \o FlattenSeq(queue)
            \o (IF producer \in {"failing", "failed"} THEN <<>> ELSE current_batch)
        = IF producer \in {"failing", "failed"}
          THEN SubSeq(kept, 1, Len(kept) - Len(current_batch)) ELSE kept

\* A loop that ends on the sentinel has written all kept messages; if the
\* source failed, all but those of the batch that was not yet full.
CompletedIsExact ==
    reason = "completed" =>
        /\ producer \in {"done", "failed"}
        /\ handled = SubSeq(kept, 1, Len(kept) - Len(current_batch))
        /\ producer = "done" => current_batch = <<>>

\* A loop that is not left early -- by a shutdown request, by an error of the
\* processing or by the timeout -- comes to an end, also when the source
\* fails: the sentinel always reaches the consumer.
EndsUnlessLeftEarly ==
    [](reason \in {"none", "completed"}) /\ []~shutdown_requested
        => <>(consumer \in Ended)

\* stop() ("Stop producer and clean up.") comes back.
StopEnds == (consumer = "stopping") ~> (consumer \in Ended)
=============================================================================
