----------------------------- MODULE ShardedFetch -----------------------------
(***************************************************************************)
(* The sharded fetch of a chat's history (fetch_messages of                *)
(* src/src/telegram_sharded_client.py with its streaming workers): the     *)
(* range of message ids is cut into chunks, workers steal chunks from a    *)
(* shared queue, fetch each in pages, newest first, and stream the messages *)
(* into bounded queues of their own; the generator drains those queues one *)
(* worker after the other, sorts what it has and yields it.                *)
(*                                                                         *)
(* A message is its id.  A chunk <<start, end, retries>> is the range      *)
(* start + 1 .. end of ids.  FloodWait is waited out without limit and     *)
(* changes nothing, so it is no step here.  The history does not change    *)
(* during the fetch, and no limit is given, as in an export.               *)
(***************************************************************************)
EXTENDS Integers, Sequences, FiniteSets, SequencesExt

CONSTANTS NWorkers,      \* worker_count
          MaxId,         \* bound on the message ids
          ChunkSizes,    \* what HotZonesManager may answer for a chunk size
          PageSize,      \* messages a GetHistoryRequest returns at most
          SplitSpan,     \* a chunk must span more ids than this to be split
          MaxRetries,    \* slow_chunk_max_retries
          QueueSize      \* max_size of a MessageQueue

ShardedAssumption ==
    /\ NWorkers \in Nat \ {0} /\ MaxId \in Nat \ {0}
    /\ ChunkSizes \subseteq Nat \ {0}
    /\ PageSize \in Nat \ {0} /\ QueueSize \in Nat \ {0}
    /\ SplitSpan \in Nat /\ SplitSpan >= 3
    /\ MaxRetries \in Nat

VARIABLES
    present,       \* ids of the messages of the chat
    min_id,        \* only messages after this id are asked for
    current_id,    \* chunks are made up to here
    task_queue,    \* chunks no worker has taken
    phase,         \* control state of each worker
    todo,          \* chunks a worker has to do, the current one first
    offset,        \* current_offset_id of each worker
    buffer,        \* message_buffer of each worker
    queue,         \* MessageQueue of each worker
    finished,      \* its finished flag
    failed,        \* its error is set
    main,          \* control state of the generator
    draining,      \* the worker whose queue is drained
    all_messages   \* what was collected, sorted in the end

planVars   == <<present, min_id, current_id>>
workerVars == <<phase, todo, offset, buffer>>
queueVars  == <<queue, finished, failed>>
mainVars   == <<main, draining, all_messages>>
vars == <<planVars, task_queue, workerVars, queueVars, mainVars>>

Ids == 1 .. MaxId
Workers == 1 .. NWorkers
Elements(q) == {q[i] : i \in DOMAIN q}
Newest == CHOOSE i \in present : \A j \in present : j <= i    \* max_id
Wanted == {i \in present : i > min_id}
ChunkIds(c) == {i \in Wanted : c[1] < i /\ i <= c[2]}
Chunks == (0 .. MaxId) \X (0 .. MaxId) \X (0 .. MaxRetries)

TypeOK ==
    /\ present \in SUBSET Ids
    /\ min_id \in 0 .. MaxId
    /\ current_id \in 0 .. MaxId
    /\ task_queue \in Seq(Chunks)
    /\ phase \in [Workers -> {"idle", "fetching", "streaming", "over"}]
    /\ todo \in [Workers -> Seq(Chunks)]
    /\ offset \in [Workers -> 0 .. MaxId + 1]
    /\ buffer \in [Workers -> Seq(Ids)]
    /\ queue \in [Workers -> Seq(Ids)]
    /\ \A w \in Workers : Len(queue[w]) <= QueueSize
    /\ finished \in [Workers -> BOOLEAN]
    /\ failed \in [Workers -> BOOLEAN]
    /\ main \in {"planning", "collecting", "yielding", "raised"}
    /\ draining \in 1 .. NWorkers + 1
    /\ all_messages \in Seq(Ids)

\* A chat with a message, since the fetch falls back otherwise.
Init ==
    /\ present \in (SUBSET Ids) \ {{}}
    /\ min_id \in 0 .. MaxId
    /\ current_id = min_id
    /\ task_queue = <<>>
    /\ phase = [w \in Workers |-> "idle"]
    /\ todo = [w \in Workers |-> <<>>]
    /\ offset = [w \in Workers |-> 0]
    /\ buffer = [w \in Workers |-> <<>>]
    /\ queue = [w \in Workers |-> <<>>]
    /\ finished = [w \in Workers |-> FALSE]
    /\ failed = [w \in Workers |-> FALSE]
    /\ main = "planning" /\ draining = 1 /\ all_messages = <<>>

\* Worker w goes on with the chunks cs: the first is fetched from its end.
Begin(w, cs) ==
    /\ todo' = [todo EXCEPT ![w] = cs]
    /\ buffer' = [buffer EXCEPT ![w] = <<>>]
    /\ IF cs = <<>>
         THEN /\ phase' = [phase EXCEPT ![w] = "idle"]
              /\ UNCHANGED offset
         ELSE /\ phase' = [phase EXCEPT ![w] = "fetching"]
              /\ offset' = [offset EXCEPT ![w] = Head(cs)[2] + 1]

\* The four sub-chunks of a slow chunk.
SubChunks(c) ==
    LET size == (c[2] - c[1]) \div 4
    IN [k \in 1 .. 4 |-> <<c[1] + (k - 1) * size,
                           IF k < 4 THEN c[1] + k * size ELSE c[2],
                           c[3] - 1>>]

\* What worker w asks for, and the answer: the newest of it, newest first.
Asked(w) == {i \in present : Head(todo[w])[1] < i /\ i < offset[w]}
Page(w) ==
    LET size == Cardinality(Asked(w))
    IN [k \in 1 .. (IF size < PageSize THEN size ELSE PageSize) |->
          CHOOSE i \in Asked(w) : Cardinality({j \in Asked(w) : j > i}) = k - 1]

\* sort(): at place k comes the message before which k - 1 others belong.
Before(s, i, j) == s[i] < s[j] \/ (s[i] = s[j] /\ i < j)
Sorted(s) ==
    [k \in 1 .. Len(s) |->
       s[CHOOSE j \in 1 .. Len(s) :
           Cardinality({i \in 1 .. Len(s) : Before(s, i, j)}) = k - 1]]

\* A faulty variant, for the checks only: a full page counts as the last one.
OnePageOnly(w, page) == Len(page) <= PageSize

\* No further request is made for a chunk after this page.
LastPage(w, page) == page = <<>> \/ Len(page) < PageSize

-----------------------------------------------------------------------------
(* Faulty variants of some definitions below, each a slip this code could   *)
(* have made.  No specification uses them: they show which property fails.  *)

\* A worker that fails leaves its queue unfinished.
SilentFail(w) ==
    /\ phase[w] = "fetching"
    /\ phase' = [phase EXCEPT ![w] = "over"]
    /\ failed' = [failed EXCEPT ![w] = TRUE]
    /\ UNCHANGED <<planVars, task_queue, todo, offset, buffer, queue, finished,
                   mainVars>>

-----------------------------------------------------------------------------
(* The generator makes the chunks                                           *)

PlanChunk ==
    /\ main = "planning"
    /\ current_id < Newest
    /\ \E size \in ChunkSizes :
         LET end == IF current_id + size < Newest THEN current_id + size
                                                  ELSE Newest
         IN /\ task_queue' = Append(task_queue, <<current_id, end, MaxRetries>>)
            /\ current_id' = end
    /\ UNCHANGED <<present, min_id, workerVars, queueVars, mainVars>>

StartWorkers ==
    /\ main = "planning"
    /\ current_id >= Newest
    /\ main' = "collecting"
    /\ UNCHANGED <<planVars, task_queue, workerVars, queueVars, draining,
                   all_messages>>

-----------------------------------------------------------------------------
(* _worker_task_streaming and _fetch_chunk_streaming                        *)

\* task_queue.get_nowait: a chunk, or nothing is left and the worker is over.
TakeChunk(w) ==
    /\ main # "planning"
    /\ phase[w] = "idle"
    /\ IF task_queue = <<>>
         THEN /\ phase' = [phase EXCEPT ![w] = "over"]
              /\ finished' = [finished EXCEPT ![w] = TRUE]
              /\ UNCHANGED <<task_queue, todo, offset, buffer>>
         ELSE /\ Begin(w, <<Head(task_queue)>>)
              /\ task_queue' = Tail(task_queue)
              /\ UNCHANGED finished
    /\ UNCHANGED <<planVars, queue, failed, mainVars>>

\* A full page: the next one ends before its last message.  The loop goes on
\* while that is after the start of the chunk, which it always is.
NextPage(w) ==
    /\ phase[w] = "fetching"
    /\ ~LastPage(w, Page(w))
    /\ buffer' = [buffer EXCEPT ![w] = @ \o Page(w)]
    /\ offset' = [offset EXCEPT ![w] = Last(Page(w))]
    /\ UNCHANGED <<planVars, task_queue, phase, todo, queueVars, mainVars>>

\* The chunk is read and it was fast enough, or cannot be split: the buffer is
\* streamed.
FetchChunk(w) ==
    /\ phase[w] = "fetching"
    /\ LastPage(w, Page(w))
    /\ buffer' = [buffer EXCEPT ![w] = @ \o Page(w)]
    /\ phase' = [phase EXCEPT ![w] = "streaming"]
    /\ UNCHANGED <<planVars, task_queue, todo, offset, queueVars, mainVars>>

\* The chunk took longer than slow_chunk_threshold: the buffer is discarded
\* and the chunk fetched again in four parts, one after the other.
SplitChunk(w) ==
    LET c == Head(todo[w]) IN
    /\ phase[w] = "fetching"
    /\ LastPage(w, Page(w))
    /\ c[2] - c[1] > SplitSpan /\ c[3] > 0
    /\ Begin(w, SubChunks(c) \o Tail(todo[w]))
    /\ UNCHANGED <<planVars, task_queue, queueVars, mainVars>>

\* message_queue.put: waits while the queue is full.
Stream(w) ==
    /\ phase[w] = "streaming"
    /\ buffer[w] # <<>>
    /\ Len(queue[w]) < QueueSize
    /\ queue' = [queue EXCEPT ![w] = Append(@, Head(buffer[w]))]
    /\ buffer' = [buffer EXCEPT ![w] = Tail(@)]
    /\ UNCHANGED <<planVars, task_queue, phase, todo, offset, finished, failed,
                   mainVars>>

ChunkDone(w) ==
    /\ phase[w] = "streaming"
    /\ buffer[w] = <<>>
    /\ Begin(w, Tail(todo[w]))
    /\ UNCHANGED <<planVars, task_queue, queueVars, mainVars>>

\* A request raises: the error is noted in the queue and not raised further.
WorkerFails(w) ==
    /\ phase[w] = "fetching"
    /\ phase' = [phase EXCEPT ![w] = "over"]
    /\ finished' = [finished EXCEPT ![w] = TRUE]
    /\ failed' = [failed EXCEPT ![w] = TRUE]
    /\ UNCHANGED <<planVars, task_queue, todo, offset, buffer, queue, mainVars>>

Worker(w) == \/ TakeChunk(w) \/ NextPage(w) \/ FetchChunk(w) \/ SplitChunk(w)
             \/ Stream(w) \/ ChunkDone(w) \/ WorkerFails(w)

-----------------------------------------------------------------------------
(* The generator collects                                                   *)

Collect ==
    /\ main = "collecting"
    /\ draining <= NWorkers
    /\ queue[draining] # <<>>
    /\ all_messages' = Append(all_messages, Head(queue[draining]))
    /\ queue' = [queue EXCEPT ![draining] = Tail(@)]
    /\ UNCHANGED <<planVars, task_queue, workerVars, finished, failed, main,
                   draining>>

\* is_finished: the next worker is drained.  The task is looked at too, but it
\* never ends with an exception.
NextWorker ==
    /\ main = "collecting"
    /\ draining <= NWorkers
    /\ queue[draining] = <<>> /\ finished[draining]
    /\ draining' = draining + 1
    /\ UNCHANGED <<planVars, task_queue, workerVars, queueVars, main,
                   all_messages>>

\* The log line after the sort takes the first message: without one it raises.
SortMessages ==
    /\ main = "collecting"
    /\ draining > NWorkers
    /\ all_messages' = Sorted(all_messages)
    /\ main' = IF all_messages = <<>> THEN "raised" ELSE "yielding"
    /\ UNCHANGED <<planVars, task_queue, workerVars, queueVars, draining>>

Generator == PlanChunk \/ StartWorkers \/ Collect \/ NextWorker \/ SortMessages

-----------------------------------------------------------------------------
Done == main \in {"yielding", "raised"} /\ UNCHANGED vars

Next == Generator \/ (\E w \in Workers : Worker(w)) \/ Done

Spec == Init /\ [][Next]_vars

\* The event loop runs the tasks and every request is answered in the end.
Fairness == /\ WF_vars(Generator)
            /\ \A w \in Workers : WF_vars(Worker(w))

FairSpec == Spec /\ Fairness

-----------------------------------------------------------------------------
(* Properties                                                               *)

\* How often message i is on its way: in a chunk still to be fetched, in a
\* buffer or in a queue, or collected.
Places(i) ==
    LET inRange == {w \in Workers : phase[w] = "fetching"
                                      /\ i \in ChunkIds(Head(todo[w]))}
        inRest  == {p \in Workers \X (2 .. 4) :
                      p[2] \in DOMAIN todo[p[1]]
                        /\ i \in ChunkIds(todo[p[1]][p[2]])}
        inTasks == {k \in DOMAIN task_queue : i \in ChunkIds(task_queue[k])}
        inBuffers == {p \in Workers \X Ids :
                        /\ phase[p[1]] = "streaming"
                        /\ p[2] \in DOMAIN buffer[p[1]] /\ buffer[p[1]][p[2]] = i}
        inQueues == {p \in Workers \X (1 .. QueueSize) :
                       p[2] \in DOMAIN queue[p[1]] /\ queue[p[1]][p[2]] = i}
    IN Cardinality(inRange) + Cardinality(inRest) + Cardinality(inTasks)
       + Cardinality(inBuffers) + Cardinality(inQueues)
       + Cardinality({k \in DOMAIN all_messages : all_messages[k] = i})
       + (IF i > current_id THEN 1 ELSE 0)

NoFailure == \A w \in Workers : ~failed[w]

\* Whatever the sizes of the chunks, the splits and the speed of the workers:
\* while no worker has failed, each message asked for is on its way exactly
\* once ("Don't stream the buffer! Discard it and re-fetch as sub-chunks").
OnTheWayOnce == NoFailure => \A i \in Wanted : Places(i) = 1

\* What is yielded is in chronological order and without repetition, holds
\* nothing that was not asked for, and everything if no worker failed.
YieldsAll ==
    main = "yielding" =>
        /\ \A i, j \in DOMAIN all_messages :
              i < j => all_messages[i] < all_messages[j]
        /\ Elements(all_messages) \subseteq Wanted
        /\ NoFailure => Elements(all_messages) = Wanted

\* The generator gets to the end, also when workers fail, and although it
\* drains one bounded queue at a time while the others fill up.
CollectionEnds == <>(main \in {"yielding", "raised"})

\* "Check if worker task finished with error [...] raise exc": the messages of
\* a failed worker are missing, so the fetch must not end as if complete.
FailureIsRaised == main = "yielding" => NoFailure
=============================================================================
