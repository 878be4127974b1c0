--------------------------- MODULE ExportSession ----------------------------
(***************************************************************************)
(* One or more runs of the program over its list of targets                *)
(* (src/src/export/exporter.py: export_all, export_target,                 *)
(* _export_regular_target, _export_forum, AsyncBufferedSaver; the end of   *)
(* src/main.py): the chat files on disk, the progress kept in the cache,   *)
(* the statistics of each target, the request to shut down, the timeout of *)
(* a target and the death of the process between any two steps.            *)
(*                                                                         *)
(* A chat is a sequence of messages numbered from 1.  A message is "good"  *)
(* (text or media, formatted), "bad" (text or media, but                   *)
(* _process_message_parallel returns no content) or "empty" (a service     *)
(* message).  AsyncPipeline, PrefetchBatchProcessor and CacheManager are   *)
(* used by what their own modules show of them.                            *)
(***************************************************************************)
EXTENDS Integers, SequencesExt, FiniteSetsExt, Selection

CONSTANTS
  Targets,      \* sequence of [forum : BOOLEAN, chats : sequence of files]
  Contents,     \* the histories a chat may have: sequences of message kinds
  Modes,        \* the configured loops: [regular, topic : loop]
  batch_size,   \* prefetch_batch_size
  buffer_size,  \* EXPORT_BUFFER_SIZE, counted in messages
  SaveEvery,    \* messages between two periodic saves (100 in the code)
  cache_batch_size, \* _cache_batch_size (10 in the code)
  MaxRuns,      \* bound: starts of the program
  MaxFaults     \* bound: failures, timeouts and kills over all runs

TargetIds == DOMAIN Targets
Files == UNION {Range(Targets[t].chats) : t \in TargetIds}

ASSUME SessionAssumption ==
  /\ \A n \in {batch_size, buffer_size, SaveEvery, cache_batch_size, MaxRuns} :
       n \in Nat \ {0}
  /\ MaxFaults \in Nat
  /\ \A m \in Modes : /\ m.topic \in {"prefetch", "batch"}
                      /\ m.regular \in {"pipeline", m.topic}
  /\ \A h \in Contents : h \in Seq({"good", "bad", "empty"})
  /\ Targets \in Seq([forum : BOOLEAN, chats : Seq(Files)]) /\ Targets # <<>>
  /\ \A t \in TargetIds :
       Targets[t].chats # <<>>   \* a forum without topics opens no file
       /\ (~Targets[t].forum => Len(Targets[t].chats) = 1)

VARIABLES
  mode,       \* the configuration of the session
  history,    \* history[f]: the messages of the chat of f, by kind
  disk,       \* disk[f]: what lies under the chat file's name and its .tmp
  saved,      \* progress in the cache file: last_message_id of each target
  cached,     \* the same in the CacheManager's memory
  pc,         \* where the run is
  runs,       \* number of the run
  faults,
  t, c,       \* target, and chat (topic) of it, being exported
  next,       \* next message the source yields
  batch,      \* batch of the loop
  timed,      \* io_start has been assigned
  buffer,     \* AsyncBufferedSaver._buffer
  written,    \* what has been written of this chat, processed_count long
  last,       \* last[x]: entity_data.last_message_id of target x, or NoEntity
  pending,    \* _pending_cache_updates: the progress queued for x, or NoEntity
  messages,   \* statistics.messages_processed
  results,    \* what export_all has appended for each target
  hooks,      \* targets whose _save_progress_on_shutdown is registered
  shutdown_requested

config == <<mode, history>>
store == <<disk, saved, cached>>
place == <<t, c, next, batch, timed, buffer, written>>
progress == <<last, pending, messages, results, hooks>>
vars == <<config, store, pc, runs, faults, place, progress,
          shutdown_requested>>

None == [none |-> TRUE]     \* no such file
NoEntity == -1              \* no entity_data for this target

(* A chat file: its messages and, for the properties only, how many of its *)
(* writes have failed without ending the export, and whether a shutdown or *)
(* a swallowed failure of the source cut it short.  The number of messages *)
(* in its head is the one that export_all reports.                         *)
File(msgs, failed, cut) == [msgs |-> msgs, failed |-> failed, cut |-> cut]

File_ == Targets[t].chats[c]
Regular == ~Targets[t].forum

Good(f, ids) ==
  Select(ids, {i \in DOMAIN history[f] : history[f][i] = "good"})
Some(f, ids) == \E i \in Range(ids) : history[f][i] # "empty"
Upto(n) == [i \in 1..n |-> i]

Init ==
  /\ mode \in Modes
  /\ history \in [Files -> Contents]
  /\ disk = [f \in Files |-> [final |-> None, tmp |-> None]]
  /\ saved = [x \in TargetIds |-> NoEntity] /\ cached = saved
  /\ pc = "target" /\ runs = 1 /\ faults = 0
  /\ t = 1 /\ c = 1 /\ next = 1 /\ batch = <<>> /\ timed = FALSE
  /\ buffer = <<>> /\ written = <<>>
  /\ last = [x \in TargetIds |-> NoEntity] /\ pending = last
  /\ messages = 0 /\ results = <<>> /\ hooks = {}
  /\ shutdown_requested = FALSE

Fault == faults < MaxFaults /\ faults' = faults + 1

(* export_all goes to the next target; `n` is what it appends to results.  *)
NextTarget(n) ==
  /\ results' = Append(results, n)
  /\ t' = t + 1 /\ c' = 1
  /\ pc' = IF t = Len(Targets) THEN "end" ELSE "target"

(* handle_sigint: the flag.  A second signal is a kill.                    *)
RequestShutdown ==
  /\ pc # "dead" /\ ~shutdown_requested
  /\ shutdown_requested' = TRUE
  /\ UNCHANGED <<config, store, pc, runs, faults, place, progress>>

(* Mutant of StartTarget: the statistics of the target before go on.       *)
CarryingStartTarget ==
  /\ pc = "target" /\ pc' = "open"
  /\ IF Regular
     THEN last' = [last EXCEPT ![t] = 0] /\ hooks' = hooks \cup {t}
     ELSE UNCHANGED <<last, hooks>>
  /\ UNCHANGED <<config, store, runs, faults, place, pending, messages,
                 results, shutdown_requested>>

(* export_target: the statistics are new; the target is resolved, a regular*)
(* one gets entity_data and its shutdown hook.  Exporter's own             *)
(* _shutdown_requested is only set after export_all has returned.          *)
StartTarget ==
  /\ pc = "target" /\ pc' = "open" /\ messages' = 0
  /\ IF Regular
     THEN last' = [last EXCEPT ![t] = 0] /\ hooks' = hooks \cup {t}
     ELSE UNCHANGED <<last, hooks>>
  /\ UNCHANGED <<config, store, runs, faults, place, pending, results,
                 shutdown_requested>>

(* A directory cannot be made, or get_forum_topics raises, before any file *)
(* is opened; entity_data of a regular target is there and saved.  (An     *)
(* entity that cannot be resolved is None, and its source fails at once.)  *)
SetupFails ==
  /\ pc = "target" /\ Fault
  /\ NextTarget(0) /\ messages' = 0
  /\ IF Regular
     THEN /\ last' = [last EXCEPT ![t] = 0]
          /\ cached' = [cached EXCEPT ![t] = 0]
     ELSE UNCHANGED <<last, cached>>
  /\ UNCHANGED <<config, disk, saved, runs, next, batch, timed, buffer,
                 written, pending, hooks, shutdown_requested>>

(* Mutant of Open: the chat file itself is opened for writing.             *)
InPlaceOpen ==
  /\ pc = "open" /\ pc' = "fetch"
  /\ disk' = [disk EXCEPT ![File_] = [final |-> None,
                                      tmp |-> File(<<>>, 0, FALSE)]]
  /\ next' = 1 /\ batch' = <<>> /\ timed' = FALSE
  /\ buffer' = <<>> /\ written' = <<>>
  /\ UNCHANGED <<config, saved, cached, runs, faults, t, c, progress,
                 shutdown_requested>>

(* AsyncBufferedSaver.__aenter__: the .tmp file is opened for writing.     *)
Open ==
  /\ pc = "open" /\ pc' = "fetch"
  /\ disk' = [disk EXCEPT ![File_].tmp = File(<<>>, 0, FALSE)]
  /\ next' = 1 /\ batch' = <<>> /\ timed' = FALSE
  /\ buffer' = <<>> /\ written' = <<>>
  /\ UNCHANGED <<config, saved, cached, runs, faults, t, c, progress,
                 shutdown_requested>>

(* The file cannot be opened: __aexit__ does not run.                      *)
OpenFails ==
  /\ pc = "open" /\ pc' = "failed" /\ Fault
  /\ UNCHANGED <<config, store, runs, place, progress, shutdown_requested>>

(* entity_data and the statistics know of ids.                             *)
Counts(ids) ==
  /\ written' = written \o ids
  /\ messages' = messages + Len(ids)
  /\ last' = IF Regular /\ ids # <<>>
             THEN [last EXCEPT ![t] = Last(ids)] ELSE last

(* AsyncBufferedSaver.write for each of ids: the buffer goes to the file   *)
(* whenever it has reached its size.                                       *)
WriteAll(ids) ==
  LET all == buffer \o ids
      out == (Len(all) \div buffer_size) * buffer_size
  IN /\ disk' = [disk EXCEPT ![File_].tmp.msgs = @ \o SubSeq(all, 1, out)]
     /\ buffer' = SubSeq(all, out + 1, Len(all))
     /\ Counts(ids)

(* The write of ids[i] fills the buffer and its flush fails: the buffer is *)
(* empty by then, and what had not reached the file is lost.  The messages *)
(* before ids[i] are counted.                                              *)
WriteFails(ids, i) ==
  LET all == buffer \o ids
      out == Len(buffer) + i
  IN /\ out % buffer_size = 0
     /\ \E n \in out - buffer_size .. out :
          disk' = [disk EXCEPT ![File_].tmp =
                     File(@.msgs \o SubSeq(all, 1, n), @.failed + 1, @.cut)]
     /\ buffer' = <<>>
     /\ Counts(SubSeq(ids, 1, i - 1))

(* A flush outside write fails, or the file is not closed: any part of the *)
(* buffer may have reached it.                                             *)
FlushFails(all) ==
  /\ \E n \in 0 .. Len(all) :
       disk' = [disk EXCEPT ![File_].tmp =
                  File(@.msgs \o SubSeq(all, 1, n), @.failed + 1, @.cut)]
  /\ buffer' = <<>>

(* The topics' own batch loop does not look at the flag.                   *)
Mode == IF Regular THEN mode.regular ELSE mode.topic
BatchSize == IF Mode = "pipeline" THEN 1 ELSE batch_size
SeesShutdown == shutdown_requested /\ (Regular \/ Mode = "prefetch")

(* The next message joins the batch.                                       *)
Fetch ==
  /\ pc = "fetch" /\ ~SeesShutdown
  /\ next <= Len(history[File_])
  /\ next' = next + 1 /\ batch' = Append(batch, next)
  /\ pc' = IF Len(batch') = BatchSize THEN "process" ELSE "fetch"
  /\ UNCHANGED <<config, store, runs, faults, t, c, timed, buffer, written,
                 progress, shutdown_requested>>

(* The source ends.                                                        *)
FetchEnds ==
  /\ pc = "fetch" /\ next > Len(history[File_])
  /\ pc' = "rest"
  /\ UNCHANGED <<config, store, runs, faults, place, progress,
                 shutdown_requested>>

(* The flag is seen at a message: the loop is left.  The prefetch loop     *)
(* drops what its producer holds.                                          *)
FetchStops ==
  /\ pc = "fetch" /\ SeesShutdown
  /\ pc' = "rest"
  /\ batch' = IF Mode = "prefetch" THEN <<>> ELSE batch
  /\ UNCHANGED <<config, store, runs, faults, t, c, next, timed, buffer,
                 written, progress, shutdown_requested>>

(* fetch_messages raises.  The producer of the prefetch loop takes it for  *)
(* the end and loses the batch it was filling.                             *)
SourceFails ==
  /\ pc = "fetch" /\ Fault
  /\ IF Mode = "prefetch"
     THEN /\ pc' = "rest" /\ batch' = <<>>
          /\ disk' = [disk EXCEPT ![File_].tmp.cut = TRUE]
     ELSE pc' = "abort" /\ UNCHANGED <<batch, disk>>
  /\ UNCHANGED <<config, saved, cached, runs, t, c, next, timed, buffer,
                 written, progress, shutdown_requested>>

(* A full batch (one message, in the pipeline): its good messages are      *)
(* written in order.                                                       *)
ProcessBatch ==
  /\ pc = "process" /\ pc' = "after"
  /\ WriteAll(Good(File_, batch))
  /\ UNCHANGED <<config, saved, cached, runs, faults, t, c, next, batch,
                 timed, pending, results, hooks, shutdown_requested>>

(* Each loop has a copy of this of its own: process_fn and writer_fn of the *)
(* pipeline, the batches of the two prefetch loops, the topics' own loop.  *)
PipelineMessage == Mode = "pipeline" /\ ProcessBatch
PrefetchedBatch == Mode = "prefetch" /\ Regular /\ ProcessBatch
PrefetchedTopicBatch == Mode = "prefetch" /\ ~Regular /\ ProcessBatch
TopicBatch == Mode = "batch" /\ ~Regular /\ ProcessBatch

(* The regular batch loop reads io_start also after a batch without        *)
(* anything to process, and the first such batch ends the target.          *)
RegularBatch ==
  /\ pc = "process" /\ Mode = "batch" /\ Regular
  /\ IF ~timed /\ ~Some(File_, batch)
     THEN /\ pc' = "abort"
          /\ UNCHANGED <<disk, buffer, written, messages, last, timed>>
     ELSE /\ WriteAll(Good(File_, batch))
          /\ timed' = (timed \/ Some(File_, batch))
          /\ pc' = "after"
  /\ UNCHANGED <<config, saved, cached, runs, faults, t, c, next, batch,
                 pending, results, hooks, shutdown_requested>>

(* The pipeline's writer logs the error and goes on with the next message. *)
PipelineWriteFails ==
  /\ pc = "process" /\ Mode = "pipeline" /\ Fault
  /\ \E i \in DOMAIN Good(File_, batch) : WriteFails(Good(File_, batch), i)
  /\ pc' = "fetch" /\ batch' = <<>>
  /\ UNCHANGED <<config, saved, cached, runs, t, c, next, timed, pending,
                 results, hooks, shutdown_requested>>

(* In the other loops, and their remaining messages, it ends the chat.     *)
BatchWriteFails ==
  /\ pc \in {"process", "rest"} /\ Mode # "pipeline" /\ Fault
  /\ \E i \in DOMAIN Good(File_, batch) : WriteFails(Good(File_, batch), i)
  /\ pc' = "abort"
  /\ UNCHANGED <<config, saved, cached, runs, t, c, next, batch, timed,
                 pending, results, hooks, shutdown_requested>>

Process ==
  /\ pc = "process"
  /\ \/ PipelineMessage \/ PrefetchedBatch \/ PrefetchedTopicBatch
     \/ TopicBatch \/ RegularBatch

(* What is queued for the cache joins it when enough is queued.            *)
Flushed(p) ==
  [x \in TargetIds |-> IF p[x] # NoEntity THEN p[x] ELSE cached[x]]
Queue(x) ==
  LET p == [pending EXCEPT ![x] = last[x]]
  IN IF Cardinality({y \in TargetIds : p[y] # NoEntity}) >= cache_batch_size
     THEN /\ cached' = Flushed(p)
          /\ pending' = [y \in TargetIds |-> NoEntity]
     ELSE pending' = p /\ UNCHANGED cached

SavesNow ==
  /\ Regular /\ Len(written) % SaveEvery = 0
  /\ \/ Mode = "batch"
     \/ Mode = "prefetch" /\ Some(File_, batch)
     \/ Mode = "pipeline" /\ Good(File_, batch) # <<>>

(* After a batch: the flag is looked at again.  The prefetch loop is left, *)
(* and the regular batch loop too, with its batch still full.              *)
AfterBatchStops ==
  /\ pc = "after" /\ SeesShutdown /\ Mode # "pipeline"
  /\ pc' = "rest"
  /\ batch' = IF Mode = "prefetch" THEN <<>> ELSE batch
  /\ disk' = [disk EXCEPT ![File_].tmp.msgs = @ \o buffer]
  /\ buffer' = <<>>
  /\ UNCHANGED <<config, saved, cached, runs, faults, t, c, next, timed,
                 written, progress, shutdown_requested>>

(* That flush fails.                                                       *)
AfterBatchFails ==
  /\ pc = "after" /\ SeesShutdown /\ Mode # "pipeline" /\ Fault
  /\ pc' = "abort"
  /\ FlushFails(buffer)
  /\ UNCHANGED <<config, saved, cached, runs, t, c, next, batch, timed,
                 written, progress, shutdown_requested>>

(* Mutant of AfterBatch: the batch is not cleared.                         *)
UnclearedAfterBatch ==
  /\ pc = "after" /\ ~(SeesShutdown /\ Mode # "pipeline")
  /\ pc' = "fetch"
  /\ IF SavesNow THEN Queue(t) ELSE UNCHANGED <<cached, pending>>
  /\ UNCHANGED <<config, disk, saved, runs, faults, t, c, next, batch,
                 timed, buffer, written, last, messages, results, hooks,
                 shutdown_requested>>

(* Otherwise the periodic save is queued and the batch cleared.            *)
AfterBatch ==
  /\ pc = "after" /\ ~(SeesShutdown /\ Mode # "pipeline")
  /\ pc' = "fetch" /\ batch' = <<>>
  /\ IF SavesNow THEN Queue(t) ELSE UNCHANGED <<cached, pending>>
  /\ UNCHANGED <<config, disk, saved, runs, faults, t, c, next, timed,
                 buffer, written, last, messages, results, hooks,
                 shutdown_requested>>

(* The saver is left: flush and close.                                     *)
LeaveSaver(ids) ==
  /\ pc = "rest" /\ pc' = "remove"
  /\ disk' = [disk EXCEPT ![File_].tmp =
                 File(@.msgs \o buffer \o ids, @.failed,
                      @.cut \/ shutdown_requested)]
  /\ Counts(ids)
  /\ buffer' = <<>> /\ batch' = <<>>
  /\ UNCHANGED <<config, saved, cached, runs, faults, t, c, next, timed,
                 pending, results, hooks, shutdown_requested>>

(* "Process remaining messages in batch", in the two batch loops.          *)
RegularRest == Mode = "batch" /\ Regular /\ LeaveSaver(Good(File_, batch))
TopicRest == Mode = "batch" /\ ~Regular /\ LeaveSaver(Good(File_, batch))

(* The last batch of the prefetch loops is shorter than the others; it is  *)
(* processed like them.  The pipeline has none left.                       *)
LastBatch == Mode # "batch" /\ LeaveSaver(Good(File_, batch))

Rest == pc = "rest" /\ (RegularRest \/ TopicRest \/ LastBatch)

(* The flush or the close fails: __aexit__ raises and the .tmp file stays. *)
LeaveFails ==
  /\ pc = "rest" /\ Fault
  /\ pc' = "failed" /\ batch' = <<>>
  /\ Counts(Good(File_, batch))
  /\ FlushFails(buffer \o Good(File_, batch))
  /\ UNCHANGED <<config, saved, cached, runs, t, c, next, timed, pending,
                 results, hooks, shutdown_requested>>

(* __aexit__ after success: the old chat file is removed ...               *)
RemoveOld ==
  /\ pc = "remove" /\ pc' = "rename"
  /\ disk' = [disk EXCEPT ![File_].final = None]
  /\ UNCHANGED <<config, saved, cached, runs, faults, place, progress,
                 shutdown_requested>>

(* A topic is done, and with the last one the forum.                       *)
TopicDone ==
  IF c = Len(Targets[t].chats)
  THEN NextTarget(messages)
  ELSE pc' = "open" /\ c' = c + 1 /\ UNCHANGED <<t, results>>

(* ... and the temporary one takes its name.                               *)
Rename ==
  /\ pc = "rename"
  /\ disk' = [disk EXCEPT ![File_] = [final |-> @.tmp, tmp |-> None]]
  /\ IF Regular THEN pc' = "count" /\ UNCHANGED <<t, c, results>>
                ELSE TopicDone
  /\ UNCHANGED <<config, saved, cached, runs, faults, next, batch, timed,
                 buffer, written, last, pending, messages, hooks,
                 shutdown_requested>>

(* The rename fails: the temporary file is removed, the error raised.      *)
RenameFails ==
  /\ pc = "rename" /\ Fault
  /\ pc' = "failed"
  /\ disk' = [disk EXCEPT ![File_].tmp = None]
  /\ UNCHANGED <<config, saved, cached, runs, place, progress,
                 shutdown_requested>>

(* _update_message_count: the file with its number goes to .tmp, ...       *)
Count ==
  /\ pc = "count" /\ pc' = "counted"
  /\ disk' = [disk EXCEPT ![File_].tmp = disk[File_].final]
  /\ UNCHANGED <<config, saved, cached, runs, faults, place, progress,
                 shutdown_requested>>

(* ... and over the chat file; an error on the way is only logged.         *)
CountRename ==
  /\ pc = "counted" /\ pc' = "finish"
  /\ disk' = [disk EXCEPT ![File_] = [final |-> @.tmp, tmp |-> None]]
  /\ UNCHANGED <<config, saved, cached, runs, faults, place, progress,
                 shutdown_requested>>

(* What a broken copy leaves as .tmp: nothing, or the beginning.           *)
CopyBreaks ==
  \/ UNCHANGED disk
  \/ /\ pc = "count"
     /\ \E n \in 0 .. Len(disk[File_].final.msgs) :
          disk' = [disk EXCEPT ![File_].tmp =
                     [disk[File_].final EXCEPT !.msgs = SubSeq(@, 1, n)]]

CountFails ==
  /\ pc \in {"count", "counted"} /\ Fault
  /\ pc' = "finish"
  /\ CopyBreaks
  /\ UNCHANGED <<config, saved, cached, runs, place, progress,
                 shutdown_requested>>

(* Mutant of Finish: what is queued is flushed, the final state not set.   *)
SnapshotFinish ==
  /\ pc = "finish"
  /\ cached' = Flushed(pending)
  /\ pending' = [x \in TargetIds |-> NoEntity]
  /\ NextTarget(messages)
  /\ UNCHANGED <<config, disk, saved, runs, faults, next, batch, timed,
                 buffer, written, last, messages, hooks,
                 shutdown_requested>>

(* _flush_cache_batch and the final save; the target's statistics.         *)
Finish ==
  /\ pc = "finish"
  /\ cached' = [Flushed(pending) EXCEPT ![t] = last[t]]
  /\ pending' = [x \in TargetIds |-> NoEntity]
  /\ NextTarget(messages)
  /\ UNCHANGED <<config, disk, saved, runs, faults, next, batch, timed,
                 buffer, written, last, messages, hooks,
                 shutdown_requested>>

(* __aexit__ after an exception: the .tmp file goes, unless the flush, the *)
(* close or the removal fails.                                             *)
Discard ==
  \/ disk' = [disk EXCEPT ![File_].tmp = None]
  \/ \E n \in 0 .. Len(buffer) :
       disk' = [disk EXCEPT ![File_].tmp.msgs = @ \o SubSeq(buffer, 1, n)]

Abort ==
  /\ pc = "abort" /\ pc' = "failed"
  /\ Discard
  /\ UNCHANGED <<config, saved, cached, runs, faults, place, progress,
                 shutdown_requested>>

(* Mutant of Failed: the error of a target ends export_all.                *)
RaisingFailed ==
  /\ pc = "failed"
  /\ IF Regular
     THEN /\ cached' = [cached EXCEPT ![t] = last[t]]
          /\ pc' = "end" /\ UNCHANGED <<t, c, results>>
     ELSE UNCHANGED cached /\ TopicDone
  /\ UNCHANGED <<config, disk, saved, runs, faults, next, batch, timed,
                 buffer, written, last, pending, messages, hooks,
                 shutdown_requested>>

(* The target has failed: a regular one saves its progress all the same,   *)
(* and export_all appends empty statistics.  A failed topic is skipped.    *)
Failed ==
  /\ pc = "failed"
  /\ IF Regular
     THEN /\ cached' = [cached EXCEPT ![t] = last[t]]
          /\ NextTarget(0)
     ELSE UNCHANGED cached /\ TopicDone
  /\ UNCHANGED <<config, disk, saved, runs, faults, next, batch, timed,
                 buffer, written, last, pending, messages, hooks,
                 shutdown_requested>>

(* wait_for cancels the target.  Inside the saver's body the .tmp file is  *)
(* removed; inside __aexit__ or _update_message_count all is left as it is *)
(* (the file operation under way completes in its thread).  CancelledError *)
(* passes every `except Exception`, the emergency save among them.         *)
Timeout ==
  /\ pc \in {"open", "fetch", "process", "after", "rest", "remove",
             "rename", "count", "counted", "finish", "abort", "failed"}
  /\ Fault
  /\ IF pc \in {"fetch", "process", "after", "rest", "abort"}
     THEN Discard ELSE CopyBreaks
  /\ NextTarget(0)
  /\ UNCHANGED <<config, saved, cached, runs, next, batch, timed, buffer,
                 written, last, pending, messages, hooks,
                 shutdown_requested>>

(* The background task of the cache manager writes it out.                 *)
AutoSave ==
  /\ pc # "dead" /\ saved # cached
  /\ saved' = cached
  /\ UNCHANGED <<config, disk, cached, pc, runs, faults, place, progress,
                 shutdown_requested>>

(* _save_progress_on_shutdown.                                             *)
SavedOnShutdown(x) == IF x \in hooks THEN last[x] ELSE cached[x]

(* run_graceful_cleanup: the cache is saved, then each target's hook puts  *)
(* its progress into it.                                                   *)
RunHooks ==
  /\ pc = "end"
  /\ IF shutdown_requested
     THEN /\ pc' = "hooked"
          /\ saved' = cached
          /\ cached' = [x \in TargetIds |-> SavedOnShutdown(x)]
     ELSE pc' = "unhooked" /\ UNCHANGED <<saved, cached>>
  /\ UNCHANGED <<config, disk, runs, faults, place, progress,
                 shutdown_requested>>

(* core_manager.shutdown saves the cache (again).                          *)
Stop ==
  /\ pc \in {"hooked", "unhooked"}
  /\ pc' = IF pc = "hooked" THEN "drained" ELSE "stopped"
  /\ saved' = cached
  /\ UNCHANGED <<config, disk, cached, runs, faults, place, progress,
                 shutdown_requested>>

Ended == {"drained", "stopped", "dead"}

(* The process dies.                                                       *)
Kill ==
  /\ pc \notin Ended /\ Fault
  /\ pc' = "dead"
  /\ UNCHANGED <<config, store, runs, place, progress, shutdown_requested>>

(* Exporter.initialize: the cache is loaded.                               *)
LoadCache == cached' = saved

(* The next run: only the disk is left.  entity_state is not read back     *)
(* (the reading is switched off), every target starts from its beginning.  *)
Restart ==
  /\ pc \in Ended /\ runs < MaxRuns
  /\ runs' = runs + 1 /\ pc' = "target"
  /\ LoadCache
  /\ t' = 1 /\ c' = 1 /\ next' = 1 /\ batch' = <<>> /\ timed' = FALSE
  /\ buffer' = <<>> /\ written' = <<>>
  /\ last' = [x \in TargetIds |-> NoEntity] /\ pending' = last'
  /\ messages' = 0 /\ results' = <<>> /\ hooks' = {}
  /\ shutdown_requested' = FALSE
  /\ UNCHANGED <<config, disk, saved, faults>>

Over == pc \in Ended /\ runs = MaxRuns /\ UNCHANGED vars

Export ==
  \/ StartTarget \/ Open \/ Fetch \/ FetchEnds \/ FetchStops \/ Process
  \/ AfterBatchStops \/ AfterBatch \/ Rest \/ RemoveOld \/ Rename \/ Count \/ CountRename
  \/ Finish \/ Abort \/ Failed \/ RunHooks \/ Stop

Next ==
  \/ Export \/ RequestShutdown \/ SetupFails \/ SourceFails
  \/ OpenFails \/ PipelineWriteFails \/ BatchWriteFails \/ AfterBatchFails
  \/ LeaveFails \/ RenameFails \/ CountFails \/ Timeout \/ AutoSave \/ Kill
  \/ Restart \/ Over

Spec == Init /\ [][Next]_vars /\ WF_vars(Export)

-----------------------------------------------------------------------------
PCs == {"target", "open", "fetch", "process", "after", "rest", "remove",
        "rename", "count", "counted", "finish", "abort", "failed", "end",
        "hooked", "unhooked"} \cup Ended
Saved(x) == x.msgs \in Seq(Nat) /\ x.failed \in Nat /\ x.cut \in BOOLEAN

(* Types; the results are those of a prefix of the targets.                *)
TypeOK ==
  /\ pc \in PCs /\ runs \in 1..MaxRuns /\ faults \in 0..MaxFaults
  /\ t \in 1..(Len(Targets) + 1) /\ c \in Nat \ {0}
  /\ pc \notin {"end", "hooked", "unhooked"} \cup Ended => t \in TargetIds
  /\ \A f \in Files : \A x \in Range(disk[f]) : x = None \/ Saved(x)
  /\ Len(results) = t - 1 /\ hooks \subseteq 1..t
  /\ \A x \in TargetIds : {last[x], pending[x], cached[x], saved[x]}
                           \subseteq Nat \cup {NoEntity}

(* A file tells the first n messages that were formatted, each once and in *)
(* order; the batch loop may have repeated its last batch after them.      *)
Tells(f, x, n) ==
  \/ x.msgs = Good(f, Upto(n))
  \/ /\ x.cut /\ mode.regular = "batch" /\ n >= batch_size
     /\ n % batch_size = 0
     /\ x.msgs = Good(f, Upto(n))
                  \o Good(f, [i \in 1..batch_size |-> n - batch_size + i])

(* Failed writes of the pipeline have made holes in it, each of a buffer.  *)
TellsMost(f, x, n) ==
  /\ mode.regular = "pipeline"
  /\ \A i, j \in DOMAIN x.msgs : i < j => x.msgs[i] < x.msgs[j]
  /\ \A i \in Range(x.msgs) : i \in 1..n /\ history[f][i] = "good"
  /\ Len(x.msgs) + x.failed * buffer_size >= Len(Good(f, Upto(n)))

Exact(f, x) ==
  \E n \in 0..Len(history[f]) :
    /\ x.cut \/ n = Len(history[f])
    /\ IF x.failed = 0 THEN Tells(f, x, n) ELSE TellsMost(f, x, n)

(* A chat file under its own name tells every formatted message of the     *)
(* chat once and in order, or, if a shutdown (or the swallowed failure of  *)
(* the source of a prefetch) cut it short, a prefix of them.  Only the     *)
(* pipeline finishes a file whose writes have failed, and each failed one  *)
(* has lost at most a buffer of messages.                                  *)
FinalIsExact ==
  \A f \in Files : disk[f].final # None => Exact(f, disk[f].final)

(* The chat file of a regular target is named by its sanitised title: no   *)
(* later target writes the same file if their titles differ.               *)
OwnFiles ==
  \A x, y \in TargetIds :
    x < y /\ ~Targets[x].forum =>
      Targets[x].chats[1] \notin Range(Targets[y].chats)

(* A number of messages that was counted for the file x: what a failed     *)
(* write lost was counted, but for the message being written.              *)
Near(n, x) ==
  /\ Len(x.msgs) <= n + x.failed
  /\ n <= Len(x.msgs) + x.failed * (buffer_size - 1)

(* What export_all reports of a finished regular target is the number of   *)
(* messages in its file (give or take what failed writes of the pipeline   *)
(* lost), and a failed one counts nothing (with OwnFiles).                 *)
ResultsTell ==
  \A x \in DOMAIN results :
    ~Targets[x].forum =>
      LET f == Targets[x].chats[1]
      IN results[x] = 0 \/ (disk[f].final # None
                            /\ Near(results[x], disk[f].final))

(* The file is being written.                                              *)
InBody(f) ==
  pc \in {"fetch", "process", "after", "rest", "abort"} /\ f = File_

(* A finished copy of the chat is on the disk, under its name or as .tmp.  *)
Safe(f) ==
  \/ disk[f].final # None /\ Exact(f, disk[f].final)
  \/ disk[f].tmp # None /\ Exact(f, disk[f].tmp) /\ ~InBody(f)

(* No step loses the last finished copy of a chat, whichever writes,       *)
(* renames or copies fail and wherever a timeout or a kill comes -- but    *)
(* for two: a rename that fails after the old file was removed, and the    *)
(* opening of the .tmp file that such a timeout or kill has left alone.    *)
CopyStays ==
  [][\A f \in Files :
       Safe(f) /\ ~Safe(f)' =>
         /\ f = File_
         /\ \/ pc = "rename" /\ pc' = "failed"
            \/ pc = "open" /\ disk[f].final = None]_vars

(* After a graceful end the cache file holds the progress of every regular *)
(* target that was finished, and after a requested shutdown of every one   *)
(* that was begun.                                                         *)
ProgressIsSaved ==
  \A x \in hooks :
    \/ pc = "drained"
    \/ pc = "stopped" /\ results[x] > 0
    => saved[x] = last[x]

(* Every run that is not killed tries all its targets, whatever fails.     *)
AllTargetsTried ==
  []<>(pc = "dead" \/ (pc \in Ended /\ Len(results) = Len(Targets)))

(* exporter.py:339, "atomic writes using tmp + rename pattern to prevent   *)
(* data corruption on crash/interruption": a chat that has a file has one  *)
(* whenever the program is not running.                                    *)
ChatFileStands ==
  \A f \in Files :
    [](disk[f].final # None => [](pc \in Ended => disk[f].final # None))

(* pipeline.py:235, "A writer error is considered fatal for the write of   *)
(* that item": the messages counted as written are in the finished file.   *)
ErrorLosesItsItem ==
  pc = "finish" => Range(written) \subseteq Range(disk[File_].final.msgs)
=============================================================================
