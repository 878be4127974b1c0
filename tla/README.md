# A verification project for tobs (Telegram Overall Backup System)

tobs exports Telegram chats: it fetches the messages of a chat, turns each into
a piece of Markdown, downloads the media beside it, and writes the result in the
order of the chat. It is one asyncio process. Between two awaits a task is not
interrupted, so the hard part of the program lies at the awaits: bounded queues
between tasks, cancellation and timeouts, shutdown on Ctrl+C, retries, and files
that are written while others read, move or remove them.

The modules here model the components that carry this logic. TLC checks them on
small instances; TLAPS proves the safety properties of these runs for every value
of the constants.
Paths are relative to the repository.

## 1. Inventory

| Component | State | Operations | What is hard |
|---|---|---|---|
| **AsyncPipeline** `src/export/pipeline.py` | two bounded queues with unfinished counts, reorder buffer, `expected_seq` | fetcher, workers, writer, `run()` with joins, sentinels, final cancellation | results in any order, failures that still count, a flag set between awaits |
| **PrefetchBatchProcessor** `src/export/prefetch_processor.py`, `_export_with_prefetch` | queue of batches, producer task, batch being filled | producer, `get_batch` loop, `stop()`, timeout | a cancellation handler that waits, a timeout inside `stop()` |
| **Exporter** `src/export/exporter.py` | chat file and its temporary one, entity and statistics, progress in the cache | targets, forums and topics in four loops, saves, hooks | writes that fail, a crash between removal and rename, stale snapshots of the progress |
| **Notes** `exporter.py`, `media/parallel_processor.py`, `media/manager.py` | sender cache, references to media, batch being processed, files queued, deferred or at a worker | process a batch in parallel, write it in order, transcription; end of the downloads, deferred processing | a reference to a file that comes later or never, a wait that ends before the worker does |
| **MediaDownloadQueue** `src/media/download_queue.py` | queue, statuses, active downloads, pause | enqueue, workers with retries, `wait_all`, `stop` | the queue is refilled by those who empty it, a timeout against late answers |
| **MediaDownloader** `src/media/downloader.py` | temporary files, cache of paths, counters of failures | cache tiers, standard and persistent attempts, move to the output | files shared between messages, completion seen one loop late, a move that fails after the completion |
| **MediaProcessor** `src/media/manager.py` | processing queue, pending tasks, output files | process now or deferred, waiting call, retries, rest at the end | output judged by its size while others write it |
| **Processors** `src/media/processors/`, `zero_copy.py` | input and output file, result | encoders with software and copy fallbacks | fragments of a failed encoder |
| **WhisperTranscriber** `src/media/processors/transcription.py` | model, cached texts on disk | load, look up, transcribe, save | threads share the model and the cache directory |
| **Sharded fetch** `src/telegram_sharded_client.py` | chunks, a bounded queue per worker, collected messages | planning, work stealing, paging, splitting, draining | drain order, boundaries of ranges, a failing worker |
| **Takeout sessions** same file, `exporter.py`, `main.py` | session ids, worker clients, session files | precheck, setup, generator left or finished, cleanup | a late cleanup beside the next fetch |
| **HotZonesManager** `src/hot_zones_manager.py` | zones, slow chunks, database file | size of a chunk, sampling, learning, saving | chunks that cross borders of zones |
| **TelegramManager** `src/telegram_client.py` | offset, page, retries | streams of a chat and of a topic, list of topics | history that changes between two pages |
| **Forum selection** `src/ui/interactive.py`, `src/config.py` | listed topics, targets | menu, choice, export of the choice | the list is fetched twice |
| **AdaptiveTaskPool** `src/core/connection.py` | semaphore, counters | submit, scale up and down, retry with timeout | the semaphore is replaced while held |
| **CacheManager** `src/core/cache.py` | LRU entries, dirty flag, file, backup | get, set, delete, save, restore, shutdown | set during a save, kill during a write |
| **main, CoreSystemManager, ShutdownManager** `main.py`, `src/core_manager.py`, `src/shutdown_manager.py` | life of each system, hooks, signals | start, health checks, export, cleanup, SIGINT | a second signal during the cleanup |
| others | see `components` in `PROJECT.json` | session files, peer cache, logging, monitoring, terminal | small, sequential or pure input/output |

How they interact. `main.py` starts the core systems (cache, connection manager,
performance monitor), connects a Telegram manager -- sharded when configured --
prechecks Takeout and runs the exporter target by target under `wait_for`. The
exporter takes messages from the manager's generator and sends them through
AsyncPipeline, PrefetchBatchProcessor or a plain loop; the processing of a
message enqueues its media into MediaDownloadQueue, whose workers call
MediaDownloader; files go through MediaProcessor and its processors. At the end
the exporter waits for the downloads and the deferred processing. The downloader
and the exporter store what they know in CacheManager. ShutdownManager's flag is
read by every loop.

What makes each correct, in one line each:

* pipeline: the output is the source's messages in order, each settled once;
* prefetch: what counts as completed is complete; the loop ends;
* stream: nothing that was there all the time is passed over or repeated;
* sharded fetch: what is yielded is the history; draining never blocks for good;
* hot zones: a chunk suits the most severe zone it crosses; learning stays;
* pool: a place is always left, however often it is resized;
* downloads: each download is in one place and is settled once; a completed one
  has its whole file, at the output or still as the temporary file; a complete
  file is not thrown away;
* processing: a written output stays whole; only whole files count as success;
* transcription: a text is the text of the file that was asked for;
* export: what lies under a chat's name tells the whole chat, or the part before a
  shutdown, but for what failed writes of the pipeline have lost; a finished copy
  stays on the disk, but for two cases that the property names; the statistics and
  the saved progress say what is in the files; all targets are tried;
* notes: when the export is over, a note that refers to a file has a whole one, and
  one that refers to none has no whole one, but for failures and waits cut short that
  the property names;
* forum: what was chosen is found again; listing ends;
* Takeout: only the owner finishes a session, and one in use is open;
* program: progress that was made reaches the file, however the program ends;
* cache: clean means saved; one interruption loses nothing saved.

`PROJECT.json` lists the hazards behind these, each at its line with the
properties that speak of it.

## 2. Modules and how they correspond to the code

One step of a model is the code between two awaits (more than that where a
module says so in its head). A task's program counter is a variable with a
string for the await it stands at; a bounded `asyncio.Queue` is a sequence, and a
`put` is enabled only while there is room. A message is its number, a download
its name, a cached value the number of the call that set it, a file who wrote
it and how much of it is there.

**OrderedDelivery** is the abstract promise of a pipeline run: messages get
numbers, each is settled in turn (written or left out), the run returns when all
are settled or raises at any time.

**AsyncPipeline** has an action for each await of `_fetcher`,
`_processor_worker`, `_writer` and `run()`, and `CancelTasks` for the `finally`
clause. The source may fail, `process_fn` may raise or return None, `writer_fn`
may raise, the flag of ShutdownManager may be set at any step, and the caller
may cancel `run()` at any await. One writer is modelled: the code starts one
whatever `write_workers` says. `ImplementsOrderedDelivery` instantiates
OrderedDelivery with `settled <- expected_seq - 1`.

**PrefetchBatchProcessor** has the producer with its places of waiting
(fetching, putting a batch, the last batch, the sentinel, and the sentinel of
the cancellation or error handler), and the export loop. `Stop` is the beginning
of `stop()`, on every way out of the loop. `Timeout` is the cancellation by
`wait_for`; its second disjunct is the case that it arrives inside `stop()`,
where the code swallows it.

**MessageStream** has the two generators that page through a history, up from
the oldest message or down from the newest, with the retries of each page,
hidden messages that are skipped, a limit, and a chat in which messages arrive
and disappear between the calls. Telegram's answer to one call is modelled from
its use: no message nearer to the offset is left out.

**ShardedFetch** has planning (PlanChunk, StartWorkers), the worker (TakeChunk,
NextPage, FetchChunk, SplitChunk, Stream, ChunkDone, WorkerFails) and the
generator (Collect, NextWorker, SortMessages). Which ids exist, the lower bound
and every chunk size are chosen freely. FloodWait is waited out and changes
nothing; there is no limit, as in an export.

**HotZones** gives the chunk sizes that ShardedFetch takes as given: loading and
merging defaults and database, the sampling of the density, the planner's loop,
slow chunks noted by workers, zones made of them after the fetch, and the save
in place that may fail or be cut by a kill.

**TakeoutSession** has the precheck, the session around `run_export`, the setup
of a sharded fetch with the copies of the session file and the connected
workers, a generator that is finished or left, its cleanup -- then a task of its
own beside the next fetch -- and the fallback to the standard API.

**ForumTopics** has the list of topics with its pages, attempts and waits, the
menu that chooses from it, the targets of the configuration, and the list of
the export, while topics are created. Which topics are marked as deleted is
chosen once, at the beginning.

**ExportSession** has one or more runs of the program over its targets: begin
and end of a target, entity and topics of a forum, the steps of the four loops
(pipeline, prefetch, batches, plain), the temporary file, removal and rename,
the queue of progress updates with its periodic saves, the hooks at a shutdown,
the timeout and failure of a target, and a kill at any step. Every file operation
may fail: the opening of the temporary file (OpenFails), the flush inside a write
(WriteFails), after a shutdown (AfterBatchFails) or when the file is left
(LeaveFails), the rename, and the copy with the number of messages. A flush
empties the buffer before it writes, so that a failing one leaves any part of it
in the file. In three loops that ends the chat (BatchWriteFails); the pipeline
logs it and goes on (PipelineWriteFails), as the writer of AsyncPipeline does
there. AsyncPipeline, PrefetchBatchProcessor and CacheManager appear by what they
show. A step is longer than from one await to the next where only this task touches
the state.

**MessageNotes** has the batches of messages in the pool of ParallelMediaProcessor,
or in the loops without it: the sender's name from the preloaded entities or the
cache, the media, the transcription, and the note that is written. The settings
say which way the media take. With the download queue (Enqueue) the note refers to
a path, and the queue is a small MediaDownloadQueue: bounded, with tasks that
complete, fail or are put back (Download, Requeue), with the jam, and with an end
of the export that does not wait for tasks in the hands of a sleeping worker, or
for any after its timeout (ExportEnds). Without it the message downloads its file
itself. Then either the processing is put off (Defer): the raw file takes the
place of the result, and after the export it is moved aside and processed
(ProcessPending), under a wait of its own (PendingEnds). Or a worker gets it
(Submit, Work) and the message polls the output (TakeResult, GiveUp), whatever the
worker still does there.

**MediaDownloadQueue** has the enqueue of each task, the worker with the
outcomes of an attempt, Requeue after the sleep of a retry, Unpause, and the
client: the wait at the end with its cancellation at the timeout, and the stop.
What the downloader answers is free. **MediaDownloader** is that answer: lookup
of known files, the slot of the download semaphore, attempts into the temporary
file with the counters of the persistent loop, the note in the cache, and the
move or copy to the output by the worker. The task is completed before that move;
when it fails (MoveFails), the output has nothing or a part and the task keeps the
temporary file as its result.

**MediaProcessing** has the call of each message (output already there, copy of
a file, download, queue or deferral, the waiting poll), the workers with their
writing in two steps and their retries, and the end of the export that moves
pending tasks into the queue and waits for it; a kill and a second run with what
is left on the disk. **MediaConversion** is what a worker does with one file:
the decisions of each processor, the encoder, its software and copy fallbacks,
and the copying worker with its attempts.
**Transcription** is one voice message each in several threads: loading the
model, the lookup in the directory of cached texts, the choice by duration, the
hearing, and the entry that is opened and then written, with failures, kills
and files that change at their paths.

**AdaptiveTaskPool** has the numbered semaphores that `_resize_pool` creates, the
FIFO of waiters with a place handed over before the waiter runs, the task's end
in success, failure or timeout, the resize by a successful task, and the retry
loop around it.

**CacheManager** has its client calls as single steps (their critical sections
hold no await) and the save as the sequence read, open backup, write backup and
take the snapshot, open file, write file and clear the flag. `CutShort` is what
an interrupted save leaves. Assumptions: the one file operation that a cancelled
save has handed to a thread ends before the final save begins; a kill ends the
process, not the operating system. The time to live belongs to some keys only,
as at the call sites (`telegram_client.py:1296`).

**ProgramLifecycle** has `async_main` from the start of the core systems to the
end of its two nested `finally` blocks, the health checks, the two-stage SIGINT
and the hooks, with failures in between.

The **MC** modules instantiate these for TLC. Several components share a run:
the variable `which` names the component whose behaviour it is, the others rest
in one initial state, and each keeps the fairness of its own module. Such a run
asks each component's questions on exactly its own state space. The components
of a run belong together in the code (where messages come from, how files
arrive, ...) but their states are disjoint: where one relies on another, it
uses what that module's properties say, not its steps.

**Selection** is the loop that keeps some elements of a sequence (the filters of
the cache, of the formatting, of the topics), as a recursive function with a set
for the test, so that theorems can be stated about it. **SequenceLemmas** holds
these theorems and the other facts about sequences that proofs of several
components use. The **Proofs** modules extend the module they prove about; those
about components that share a run extend its MC module, where the properties the
run lists have their names. No proof uses the values of the MC modules.

Definitions under "Faulty variants" in a module are its mutants: no
specification uses them.

## 3. What is checked

| Run | Components | States | Bounds |
|---|---|---|---|
| `pipeline` | AsyncPipeline, MessageNotes | 357,650 | 2 workers, queues of 2 and 1, 3 messages; 3 messages of one sender in every loop and setting, the first with any media and perhaps without its entity, the others with a voice file or none, batches of 2, a queue of 1 with 1 worker, 2 faults |
| `fetching` | MessageStream, PrefetchBatchProcessor, ShardedFetch, HotZones | 603,214 | chat of 7 messages growing to 8, 3 of them hidden, pages of 2, 3 failing calls, 2 deletions; batches of 2 in a queue of 2, 7 messages; every history of up to 6 ids, 2 workers, chunks of 2 and 5, one split; 2 fetches and 2 datacenters with one known zone, 2 slow chunks |
| `transfers` | AdaptiveTaskPool, MediaDownloadQueue, MediaDownloader | 648,830 | 4 calls, pools of 1 and 4, 2 resizes; 3 downloads, 2 workers, a queue of 1, 2 attempts; 2 downloads of one file or two, 3 persistent attempts |
| `media` | MediaProcessing, MediaConversion, Transcription | 1,753,205 | 2 messages with one file or two, 1 worker, 2 attempts, 1 kill; 1 file of every kind with 4 failures; 2 threads, a voice file of 2 versions, 1 kill |
| `export` | ExportSession, ForumTopics | 1,200,681 | a chat and a forum of two topics in each loop, buffer of 2, 2 runs of the program, 1 fault; 4 topics, pages of 2 and 3, 2 menus, 2 refusals |
| `program` | CacheManager, TakeoutSession, ProgramLifecycle | 1,403,091 | 3 keys, room for 2, 3 sets, 2 interruptions; 2 targets, 2 workers, 1 failure; 2 messages, 3 signals, 2 failures |

Why these bounds are enough for the interesting cases. Three messages, two
workers: the third can overtake two others, both queues fill, and the sentinels
wait for places behind messages. Seven prefetched messages are two batches in
the queue, one at the consumer, and a last one that is not full. In a page of
two over three hidden ids there is a page with hidden messages only, and with
two deletions the last message of a page disappears before the next call. A
chunk of five ids needs three pages and is split into four parts of unequal size;
two workers steal chunks in every order. With one zone of two ids and chunks of
six a chunk begins before the zone and ends behind it. Two resizes shrink a pool twice or
shrink and grow it while four calls hold or await three generations of
semaphores. Three downloads over one place give waiting callers, waiting
retries, and the jam in which both workers wait to put. Two messages with one
file share the temporary file, the cached path and the output. Two runs of the
program let the second meet every remainder of a killed first; with a buffer of two
a failing write loses a message that was counted, and keeps any part of the two.
Three notes are a full batch and another one, a queue of one place with one worker jams on
the second download, and two faults are a retry and the failure that follows it. Two interruptions
of the cache are one more than it survives, so the bound of `OneFaultRecovers`
is really used. Three signals are one more than the two stages of the handler.

What each property says is in the comment above it. In short:

* `InOrderNoGaps`, `CompleteOnReturn`, `CompletedIsExact`, `YieldsAll`, `NoGap`,
  `FinalIsExact`: what came out, compared with what went in.
* `HeldOnce`, `CapacityLeft`, `PlacesNeverComeBack`: tasks and places are neither
  lost nor doubled when they are handed over (the last one states the loss the
  code does have, and that it is never repaired by later resizes).
* `ImplementsOrderedDelivery`: refinement of the abstract promise.
* `ResultsTell`, `ProgressIsSaved`, `NoteTellsFile`, `ChoiceIsFound`,
  `AnswerIsOfFile`: what one part says of another is true.
* `CompletedIsWhole`, `SharedFileSurvives`, `CompleteIsKept`, `WrittenStays`,
  `SuccessIsWhole`, `CopiesRescue`, `CopyStays`: files while others write, move
  and remove them.
* `CleanMeansSaved`, `OneFaultRecovers`, `LearnedStays`, `ProgressKept`: memory
  against disk.
* `OwnersFinish`, `SessionInUseIsOpen`, `NothingLeftBehind`, `HotIsSplit`: the
  sharded fetch around its chunks.
* `PipelineSettles`, `PipelineEnds`, `StreamEnds`,
  `EndsUnlessLeftEarly`, `CollectionEnds`, `EverySettles`, `QueueDone`,
  `SessionTriesAll`, `EveryNoteWritten`, `DirtyEnds`: something
  happens in the end.

Every property of a passing run has a mutant, a slip the code could have had,
under which TLC finds that property violated.

Each module states a type invariant `TypeOK` and some further properties that no
run lists, because another one covers the same slip or a theorem proves them:
EachResultOnce, CountersCover and InOrder (proved), NothingLostInTransit,
StatsAgree, SettledForever, OnTheWayOnce, WaitersAreServed, RawIsKept, Released,
ForcedStillSaves, OneNameEach, ListIsWhole, ListingEnds, and EverySettles of MediaDownloader.
TLC finds no violation of them with the bounds above.

`CHECK_DEADLOCK FALSE` stands where a shutdown, a stop or a jam may really hang
the code (the findings below); the runs without it have no state to stop in:
their specifications say when a component is done and let it stay so.

### Fairness

Weak fairness of a task means: the event loop runs a ready task in the end, and
what it awaits -- the source, `process_fn`, `writer_fn`, a request, a file
operation, a sleep -- answers. The code justifies it with its own timeouts
(`task_timeout` for a download, the timeout of a request) or has no other hope
itself. There is no fairness on a shutdown request, a signal, a cancellation, a
timeout of a wait, an interruption, a kill, an enqueue or a client call: nobody is
obliged to do them. MessageNotes asks for less: that some ready step is taken, as
long as there is one. No run assumes strong fairness; MediaDownloader states it
for the download semaphore alone, whose waiters asyncio serves in order.
Properties that hold only for part of the behaviours name it:
`PipelineEnds` for runs nobody shuts down, `EverySettles` for those without the jam
and without the timed-out wait, `EveryNoteWritten` for those without the jam.
Liveness under retries needs no fairness of the answers: the attempts are bounded
in the code.

### Where the code does not do what it says

Six runs show a disagreement with the code's own words (`findings` in
`PROJECT.json` quotes them):

* `pipeline_shutdown`: after a shutdown request in the middle of a run the
  workers leave with items in the queue; `run()` waits in `fetch_q.join()`.
* `prefetch_stop`: `stop()` awaits a producer whose cancellation handler waits
  for a place in the full queue that `stop()` would empty next.
* `download_wait_all`: "all downloads completed" while one sleeps before its retry.
* `download_stop`: after the timeout of a wait the workers are gone, and `stop()`
  waits for the tasks left in the queue.
* `sharded_failure`: the error of a worker is noted where nobody looks; the
  history is cut short without an error.
* `cache_shutdown`: an entry set during a save is not saved by the shutdown,
  because the save clears the flag afterwards.

Eleven more expectations are stated in the modules and refuted by TLC when they
are checked; no run lists them:

* `ChatFileStands` (ExportSession): the chat file is promised to be replaced
  atomically (`exporter.py:339`), but the old one is removed before the new one is
  renamed. A kill or a timeout in between leaves the temporary file only; a rename
  that fails leaves nothing, because its handler removes the temporary file.
* `ErrorLosesItsItem` (ExportSession): a writer error is "fatal for the write of
  that item" (`pipeline.py:235`), but the flush that fails has emptied the buffer of
  the items before it, which were counted, and the file is finished without them.
* `AnnouncedIsExported` (ForumTopics): of several topics the menu says it has
  added, only the first becomes a target, since targets are told apart by the
  id of the chat (`config.py:903-907`).
* `PrecheckedIsUsed` (TakeoutSession): the session of the precheck is closed and
  never used by the export (`main.py:87-90`).
* `DisconnectedAtEnd` and, for a shutdown, `ShutdownStopsTargets`: an error in
  the cleanup leaves the client connected (`main.py:557-559`); after SIGINT the
  remaining targets are still begun (`exporter.py:2437`).
* `VoiceIsTranscribed` (MessageNotes): the transcription looks for a file that
  the download queue brings later (`media/manager.py:1315-1326`).
* `ResultIsWhole` (MediaProcessing): after a kill the next run takes a partial
  output for the result (`media/manager.py:592-598`).
* `LoadedOnce` and `UnknownIsHeard` (Transcription): every call that comes before
  the model is loaded loads it again (`transcription.py:290`); when ffprobe does
  not tell the duration, the log line formats None as a number and the
  transcription fails (`transcription.py:337`), although the helper speaks of
  a default (`transcription.py:566`).
* `FileIsPreferred` (HotZones): an unreadable database falls back to the
  defaults, and the next save replaces it (`hot_zones_manager.py:198`).

### What else the models show

Further behaviour the models contain because the code has it.

* Pool: the tasks that hold old semaphores come on top of `max_workers` after a
  resize; a wait that times out leaves `queued_tasks` too high.
* Downloads: a known path is used when a file of any size is there; of two
  messages with one file, one may be completed while the other has moved the
  file away; a move that fails is only logged, the download counts as completed
  and its output may be missing or a part; the hash tier never answers.
* Processing: the cache of results never answers (`manager.py:602`); a waiting
  call looks at size and stability only; a deferred temporary file stays.
* Export: on a shutdown the batch loop processes its last batch twice (1532 and
  1612); when the flush or close at the end fails, the temporary file stays;
  a snapshot of the progress that was queued earlier may be saved over a later
  one; topics of equal title share a chat file; a target whose entity cannot be
  resolved has its file replaced by an empty one in prefetch mode.
* Stream: the stream of a topic with a `min_id` gives nothing; an error that
  persists is raised, but the prefetching above it ends as if the chat were over.
* Takeout: a session id that has expired is used again by the fallback, which
  exports everything again when `export_all` has raised; workers that fail to
  start leave copies of the session file behind.
* Program: `main` ignores core systems that failed to start; the emergency
  adaptation clears the cache with its unsaved progress (`core_manager.py:211`).
* Transcription: the model is never unloaded (nothing calls
  `schedule_auto_unload_async`); a missing file is noticed after the model was
  loaded for it; the key of a cached text is made of the file as it is afterwards.
* Notes: the statistics count queued files as downloaded; a message that has
  waited five minutes for its worker refers to no file, or to a part, and the
  worker may finish it later; a deferred file is missing from its place while it is
  processed, and for good if the processing fails.
* Hot zones: the severity LOW is never reached; a zone whose size is
  `shard_chunk_size` counts as none (`telegram_sharded_client.py:1517`). With two
  datacenters a run without hot zones can lose a learned zone. One learned at the
  second takes the place of a built-in zone it starts with, and one learned at the
  first where only that built-in zone was. The run without hot zones begins with
  no built-in zones, reads those of the file, and drops the first of the two
  if it touches the built-in zone before it; the next manager has the replaced
  zone again and drops the other. Two built-in zones touch at 1.4 million.
* Forum: only the first page of topics is listed; a page with a deleted topic
  counts as the last one; a listing that fails exports nothing, silently.

## 4. What is proved

The theorems hold for every value of the constants that meets the named ASSUMEs
of the modules: finite sets of workers or callers, sizes of at least one, bounds
in Nat, values that the code keeps apart being different (the name of a
download is not a path), and built-in hot zones that do not end before they begin
and begin at different ids. Some theorems have a hypothesis besides, which is
stated in the theorem itself: three have a fact about the chats (DistinctIds twice,
OwnFiles once); three about hot zones have one about the setting (AnswerIsKept,
hot zones left on, OneDatacenter; below). The 25 invariants the passing runs check
are proved, and so are their four action properties (PlacesNeverComeBack,
CompleteIsKept, CopyStays, LearnedStays) and the refinement.

Each proof has the same plan. The property is not inductive, because it compares
two things at the end of a way and says nothing of the steps between. The
invariant adds what is known on the way, one named conjunct for each idea, and one lemma
per action, or per kind of action, shows that it is kept.

**SequenceLemmas.** Induction over Nat for a set instead of a predicate
(`Induction`): the library's theorem takes an operator as parameter, which the
provers cannot instantiate; its well-foundedness theorem about sets they can.
From it what Select returns: nothing for nothing, a sequence of the same type,
exactly the elements in the set, and one step more when one element is added.
Further: adding to and taking from a queue without repetition, slices of a
sequence and how they grow and join, what sorting returns, and what happens step
by step. `SortedByRank`: a sequence whose k-th place is filled by the element that
has k - 1 before it has the same elements in ascending order; that there is one
of each rank is the induction (RanksExist).

**AsyncPipelineProofs.** `IInv` is TypeOK, InOrderNoGaps, and, as long as the run
is not aborted, `Live`; after an abort, `Quiet`. That a message is in one
place does not follow from where the others are. `Live` says that the numbers
taken from fetch_q so far are an initial segment, fetch_q holds the following
ones in order (FetchOrder), that each taken and unsettled number is in a worker,
the write queue or the buffer (Covered) and in one of them only (Apart), that the
unfinished counts equal what is queued and in hand (Counting), what outcomes are
known (Results), and what each phase of `run()` has established (Phases).

* `TypeCorrect`: types and the bounds of both queues;
* `SinglePlace`: EachResultOnce;
* `OrderedOutput`: InOrderNoGaps;
* `CompleteReturn`: CompleteOnReturn, with the count of failed messages;
* `Refinement`: every step is a step of OrderedDelivery or stutters.

**FetchingProofs.** Of MessageStream, `StreamOrder`: NoGap for both directions, any page size,
limit, set of hidden ids and numbers of failures. The invariant adds that all
that was yielded lies behind the offset and the page in hand (Behind), that
whatever the stream still owes is in the page or ahead of it unless the limit is
reached (Owed), and that a call is made only while it may be repeated (Retries):
otherwise the loop would fall through to the empty page it started with and end
as if the chat were over.

Of PrefetchBatchProcessor, `CompletedAlwaysExact`: what it counts as completed is what
was fetched. `InTransit` says that, until the loop is left early, what the
consumer got, the batches in the queue, and the batch being filled are slices of
the fetched messages that follow each other without a gap; `SentinelLast` that
nothing comes behind a sentinel, so the consumer that sees one has it all.

Of ShardedFetch, `YieldsAllAlways`: YieldsAll, for any
history, number of workers, size of chunks, pages and queues, and any splits. What is
yielded is sorted in the end, so the question is whether each message is collected
once, whichever worker stole its chunk. The invariant (ShardedInv) says of each
wanted id that it is in exactly one place, until it is lost with a failed worker:
not planned yet, in a chunk of the task queue, in a chunk a worker still has to
stream, in a worker's queue, or collected (places and holdings are functions, and
OneMoved is the one lemma about moving from one to another). Around it: the chunks
of a list follow each other and do not overlap (Chain), the buffer of a worker is
the messages of its chunk from the offset up, the queue of a worker that is
finished is drained before the next. Every action is one movement, and the split of
a chunk is one that moves nothing.

Of HotZones, `HotIsSplitAlways`: HotIsSplit, for any zones in the file, ranges and
densities. The planner's answer is the least of all zones in the range still to be
planned, and a part of a chunk touches no zone the chunk does not. AnswerIsKept is
the hypothesis: if `shard_chunk_size` is itself the size of some zone, the answer
of the zones is taken for none and the density decides, which may ask for more
than another zone in the range allows. With the default of 1000 nothing is to be
shown; with `SHARD_CHUNK_SIZE=5000` the hypothesis fails and so may the property.

LearnedStays, an action property, compares what managers read before and after a
save. Two theorems say when it holds; with several datacenters and runs that switch
the hot zones on and off it does not (section 3).

* `LearnedStaysWhileOn`: as long as no run switches them off. `Grown`: what such
  a run saves has first, in their order, the zones that start with a built-in one,
  then learned ones that touch no other of their datacenter. A manager that reads
  it therefore puts each zone in the place of its built-in one and drops or
  replaces only zones that another datacenter's zone overlaps (Merged);
* `LearnedStaysAtOne`: if all chats and built-in zones are at one datacenter, with
  any switching. `LieApart`: every zone in the file is built in or overlaps no
  other, of the file or built in, so that no merge can drop it, whether it begins
  with the built-in zones or with none.

**AdaptiveTaskPoolProofs.** `PoolInvariant`: CapacityLeft and CountersCover for
any number of callers and resizes. CapacityLeft counts places of the current
semaphore and is disturbed by every release, wake-up and resize; the invariant
adds QueueOK, that who is in the queue of a semaphore waits for this one and
stands there once, and NoneAhead, that nobody is on a semaphore yet to be made.
`LostForGood` then needs one inequality per step: PlacesNeverComeBack.

`DownloadsHeldOnce`: HeldOnce of MediaDownloadQueue. `Placed` says of each task,
while nobody has called `stop()`, that it is in the queue once and unsettled, or
with one worker, or settled, and that it does not enter the queue before its call
returns. After a stop the dropped tasks keep their statuses, and HeldOnce asks no
more of them.

Of MediaDownloader, for any messages, files, sizes and attempts:

* `CompletedAlwaysWhole`: CompletedIsWhole. A download has its file as its Result:
  at the output or, after a failing move, still under the temporary name. `DiskInv` says which of the places on
  the disk a task writes to and where its result may lie, `NamesInv` that what
  lies there is the right file when ids tell files apart, `AloneInv` that nobody
  else touches the files of a message that shares nothing.
* `SharedFileAlwaysSurvives` and `CompleteIsAlwaysKept` (an action property), when
  messages have distinct ids (DistinctIds), as those of one chat have. Temporary
  files are named by the id alone, so with two chats in one run the properties do
  not hold. `SharedInv`: until one of the sharing messages has moved the file to its
  output, every path that the cache or a task knows leads to the file, and a failing
  move takes nothing away from there. `KeptInv`: an opened
  temporary file is not complete yet, and nothing stands at an output before its
  task is completed.

**MediaProcessingProofs.** `WrittenOutputs`: WrittenStays, with its history
variable `written`, for any messages and any sharing of files between them. A
worker that still had a task of a written output would open it again: `Settled`
says that no such task is deferred, queued or in a worker's hands and that no
call is about to make one, and `OneTask` that a message has one task at most. A
kill makes all calls anew; those of written outputs find the output in place and
accept it. `SingleTask` is OneTask by itself.

`SuccessIsAlwaysWhole` and `CopiesAlwaysRescue`: SuccessIsWhole and CopiesRescue of
MediaConversion. `ConversionInv` says what the output may be at each step of the
processor (where it is looked at or claimed no encoder has left a fragment), and
that, while the input is whole, attempts are counted for broken copies only.

`AnswerIsAlwaysOfFile`: AnswerIsOfFile of Transcription. Its invariant says what
a thread holds of a file nobody has exchanged meanwhile (CallInv), and that the
entries of such a file hold the text of their version, whichever thread wrote
them (CacheInv).

**ExportSessionProofs.** For any targets, histories, batch sizes, failures and
runs of the program:

* `ExportTypes`: TypeOK;
* `FinalIsExactAlways`: FinalIsExact. `ContentInv`: what each of the four loops
  has written so far is the formatting of the messages it has taken (Body), which
  the closing steps carry from the temporary file to the chat file, and every
  chat file is exact, those of earlier runs included (FilesExact). That the
  formatting of a history is that of its parts joined comes from Select. With
  failed writes of the pipeline the file is what is left of that formatting (Holed):
  in order, and shorter by a buffer for each at most. In the other loops a failed
  write leads to the end of the chat, where Body asks nothing;
* `CopyAlwaysStays`: CopyStays, an action property. When the old file is removed, the
  temporary one is finished and exact: that is Body for the closing steps. The copy
  with the number of messages is made while the chat file stands (FilesExact). So a
  last finished copy goes only where the code lets it: in the handler of a rename
  that fails, and when the next export opens the temporary file that a timeout or
  kill has left alone;
* `ProgressIsAlwaysSaved`: ProgressIsSaved. `Progress`: the progress of a finished
  target is in the cache and no older snapshot of it waits in the queue;
* `ResultsAlwaysTell`: ResultsTell, when no later target writes the file of an
  earlier one (OwnFiles): the file is named by the title, and a second chat of the
  same title replaces what the first one reported. `Tally` follows the count from
  the loop to the statistics, and how far failed writes have taken the file from it.

Of ForumTopics, which MCExport puts beside a session, `ChoiceIsAlwaysFound`:
ChoiceIsFound, for any topics, pages and requests. Where the topics are read at once, the menu and the
export deal with one target (OneTarget), and, as long as no request failed, with
one list (OneList); the invariant promises nothing after a failed request,
and neither does the property.

**MessageNotesProofs.** `NoteAlwaysTells`: NoteTellsFile of MessageNotes, for any
messages, settings, batches and limits. The property speaks of the end; NotesInv
says for every step what may lie at the output of a message: of one that refers to
a path the whole file, what a failed worker left, or its download or processing is
still in a queue or with a worker; of one that refers to none at most the part that
a broken move has left, unless its worker goes on without it. The end settles the rest.

**CacheManagerProofs.** Of CacheManager:

* `OneFaultRecovery`: one interruption anywhere loses no saved entry.
  OneFaultRecovers speaks of a process that is gone; `OneFaultInv` adds what an
  interruption would find while it runs. As long as nothing was interrupted, the
  file is the last save until it is opened, and from then on the backup is;
  therefore the first interruption leaves the last save in one of the two, which
  stays so until a save truncates the backup again, where a second interruption
  may lose it -- the reason for the bound of one.
* `CleanIsSaved`: CleanMeansSaved. `CleanInv` compares the entries whose time is
  not over in memory with those the next start would read (Image), and with the
  snapshot a save carries to the file, as long as no entry is set after it.
* `CacheBounded`: never more than MaxSize entries, nor two of one key, whatever was
  loaded.

Of ProgramLifecycle, `ProgressAlwaysKept`: ProgressKept. `LifeInv`: unless somebody
disturbs it, the systems run as long as the export (SystemsOK), its progress is in
memory, in the hook or in the file (ProgressOK), and the hook that saves it is the
last of all.

Of TakeoutSession, for any targets, workers and failures:

* `OwnersAlwaysFinish`: OwnersFinish. `OwnedInv`: who opened the session that
  is in use, and that only it may finish it, through all the ways out of a fetch;
* `SessionAlwaysOpen`: SessionInUseIsOpen. `AloneInv`: as long as no fetch has begun
  beside the late cleanup of another, one fetch is active, its session is open
  and its clients are listed;
* `NothingStaysBehind`: NothingLeftBehind. `QuietInv`: if besides nothing failed,
  each open session has somebody left who will finish it, and each copy of a
  session file somebody who will remove it.

Only model-checked:

* all liveness properties: the prover does neither fairness nor ENABLED;
* `LearnedStays` where neither of its theorems applies: with several datacenters and
  runs without hot zones in between, where it can fail; the run `fetching` has two
  datacenters, such runs, and one built-in zone, where it does not;
* the type invariants of the modules for which no theorem above names one, and
  the properties that no run lists, except EachResultOnce, CountersCover, InOrder
  and OneTask.

## 5. Not modelled, and why

* Formatting of notes, arguments of ffmpeg, terminal output, parsing of the
  configuration, menus other than the forum's: input and output without
  decisions the properties speak of.
* The Whisper model: its text is a value. WhisperModelManager and the unloading
  after a time without use: no caller.
* NoteGenerator's appending, LazyMediaLoader, the file-based workers of the
  sharded client, `_cleanup_expired` of the cache: no caller, or no effect for
  the one instance the program makes.
* SessionGC, InputPeerCache, HashBasedDeduplicator: short and sequential.
* Statistics, metrics, reports and batching of log lines: no decision of an
  export reads them, except the counters of the pool and of the download queue,
  which are modelled. What the performance monitor decides is a free choice in
  ProgramLifecycle; throttle and speed statistics of the connection manager
  only choose timeouts, which may happen at any time here.
* Telegram itself, the file system under `os.rename` and the event loop are
  external; each module says what it assumes of them.

## 6. Plan

Done: the modules above, in the order pipeline, prefetch, downloads, sharded
fetch, cache; then pool, stream, downloader, processing, conversion, export
session, Takeout, lifecycle, notes, hot zones, forum and transcription.

What would add most next:

1. A composition in which MediaDownloader's answer replaces the free one of
   MediaDownloadQueue step by step, and the refinement that shows the free
   answer to be its abstraction.
2. Connection and entity resolution of TelegramManager, with the peer cache.
