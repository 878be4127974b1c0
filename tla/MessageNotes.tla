----------------------------- MODULE MessageNotes -----------------------------
(***************************************************************************)
(* How messages become notes (exporter.py: _process_message_parallel,      *)
(* _get_sender_name, _preload_batch_sender_names; parallel_processor.py;   *)
(* manager.py: download_and_process_media and what it calls, and what      *)
(* export_all does when its targets are done).  In the default             *)
(* configuration a note refers to a file which the background download     *)
(* queue brings later; in the others to one that a worker is writing, or   *)
(* that is processed in its place after the export.                        *)
(*                                                                         *)
(* The download queue is the one of MediaDownloadQueue, seen from outside: *)
(* a bounded queue of tasks, each of which completes, fails for good or is *)
(* put back by its worker.  The processing queue is MediaProcessing's.     *)
(***************************************************************************)
EXTENDS SequencesExt, FiniteSetsExt

CONSTANTS
  N,              \* bound: messages 1 .. N, all with text or media
  Senders,
  batch_size,
  max_concurrent, \* of ParallelMediaProcessor
  max_queue_size, \* of the download queue
  max_workers,    \* of the download queue
  MaxFaults       \* bound: failures and timeouts

NotesAssumption ==
  /\ N \in Nat /\ MaxFaults \in Nat
  /\ {batch_size, max_concurrent, max_queue_size, max_workers} \subseteq Nat \ {0}

VARIABLES
  message,            \* message[m]: its sender, whether the sender's entity came
                      \* with it, and its media
  config,             \* loop and settings of the export
  _sender_name_cache, \* what is known of each sender: "none", "name" or "id"
  first,              \* first message of the current batch
  pc,                 \* pc[m]: where the processing of message m is
  name,               \* name[m]: the sender in the note of m
  reference,          \* reference[m]: what the note says of the media
  text,               \* text[m]: the note holds a transcription
  queue,              \* the download queue
  retrying,           \* tasks whose workers sleep, or wait to put them back
  working,            \* tasks of the media processor that are not finished
  _pending_tasks,     \* tasks for after the export
  gave_up,            \* messages that did not wait for the worker's end
  file,               \* file[m]: what lies at the output path, see below
  written,            \* notes in the chat file
  phase,              \* of export_all: the targets, the pending tasks, its end
  faults

static == <<message, config>>
names == <<_sender_name_cache, name>>
notes == <<first, pc, reference, text, written>>
media == <<queue, retrying, working, _pending_tasks, gave_up, file>>
vars == <<static, names, notes, media, phase, faults>>

Messages == 1 .. N

\* "kept": a whole file of an earlier export lies at the output path;
\* "excluded": a type or extension that is switched off, or media without a file.
Media == {"none", "voice", "kept", "excluded"}

\* The prefetch and regular loops process a batch "parallel"; the loop of the
\* topics "gather"s it; the "pipeline" has no batches.
Loops == {"parallel", "gather", "pipeline"}

\* A switch that makes no difference beside the others is off: the two others
\* without downloads, and the deferred processing with the download queue.
Configs ==
    {c \in [loop : Loops, media_download : BOOLEAN, async_media_download : BOOLEAN,
            deferred_processing : BOOLEAN, transcription : BOOLEAN] :
       /\ c.async_media_download \/ c.deferred_processing => c.media_download
       /\ ~(c.async_media_download /\ c.deferred_processing)}

\* Nothing, a part of a file, the whole one, or what a worker left that gave up;
\* "moved" is a file that lies beside the path as the input of its processing.
FileStates == {"none", "part", "there", "failed", "moved"}

Init ==
    /\ message \in [Messages -> [sender : Senders, attached : BOOLEAN, media : Media]]
    /\ config \in Configs
    /\ _sender_name_cache = [s \in Senders |-> "none"]
    /\ first = 1 /\ pc = [m \in Messages |-> "idle"]
    /\ name = [m \in Messages |-> "none"] /\ reference = [m \in Messages |-> "none"]
    /\ text = [m \in Messages |-> FALSE]
    /\ queue = <<>> /\ retrying = {} /\ working = {} /\ _pending_tasks = <<>>
    /\ gave_up = {} /\ written = <<>> /\ phase = "targets" /\ faults = 0
    /\ file = [m \in Messages |-> IF message[m].media = "kept" THEN "there" ELSE "none"]

\* Number of the last message of a batch that begins with first.
BatchEnd == LET size == IF config.loop = "pipeline" THEN N ELSE batch_size
            IN IF first + size - 1 < N THEN first + size - 1 ELSE N
Batch == first .. BatchEnd
HasMedia(m) == message[m].media # "none"
Fault == faults < MaxFaults /\ faults' = faults + 1
Goto(m, p) == pc' = [pc EXCEPT ![m] = p]

-----------------------------------------------------------------------------
(* Names                                                                   *)

NameOf(m) == IF message[m].attached THEN "name" ELSE "id"

\* The first message of a sender in the batch decides on its name.
Preloaded ==
    [s \in Senders |->
       LET own == {m \in Batch : message[m].sender = s}
       IN IF own = {} \/ _sender_name_cache[s] # "none" THEN _sender_name_cache[s]
          ELSE NameOf(Min(own))]

StartBatch ==
    /\ Batch # {} /\ \A m \in Batch : pc[m] = "idle"
    /\ pc' = [m \in Messages |-> IF m \in Batch THEN "waiting" ELSE pc[m]]
    /\ IF config.loop = "pipeline" THEN UNCHANGED _sender_name_cache
       ELSE _sender_name_cache' = Preloaded
    /\ UNCHANGED <<static, first, name, reference, text, written, media, phase, faults>>

\* The name known of the sender, or the one that comes with this message.
Named(m) ==
    LET s == message[m].sender
        n == IF _sender_name_cache[s] # "none" THEN _sender_name_cache[s] ELSE NameOf(m)
    IN /\ name' = [name EXCEPT ![m] = n]
       /\ _sender_name_cache' = [_sender_name_cache EXCEPT ![s] = n]

-----------------------------------------------------------------------------
(* Processing                                                              *)

Inside == {m \in Batch : pc[m] \notin {"idle", "waiting", "done"}}
NeedsPlace(m) == config.loop = "parallel" /\ HasMedia(m)

\* The semaphore holds back messages with media, in their order.
MayBegin(m) ==
    /\ pc[m] = "waiting"
    /\ \A k \in Batch : k < m /\ pc[k] = "waiting" => NeedsPlace(k) /\ ~NeedsPlace(m)
    /\ NeedsPlace(m) => Cardinality({k \in Inside : NeedsPlace(k)}) < max_concurrent

Begin(m) ==
    /\ m \in Batch /\ MayBegin(m)
    /\ Named(m)
    /\ IF HasMedia(m) /\ config.media_download
       THEN Goto(m, "media") /\ UNCHANGED reference
       ELSE /\ Goto(m, "done")
            /\ reference' = [reference EXCEPT ![m] = IF HasMedia(m) THEN "type" ELSE "none"]
    /\ UNCHANGED <<static, first, text, written, media, phase, faults>>

\* The reference goes into the note; a voice message is transcribed next.
Refer(m) ==
    /\ reference' = [reference EXCEPT ![m] = "path"]
    /\ Goto(m, IF config.transcription THEN "transcribe" ELSE "done")

NothingDownloaded(m) ==
    /\ reference' = [reference EXCEPT ![m] = "nothing"]
    /\ Goto(m, "done")

\* The processing of m has come to its media; none of its ways on changes these.
AtMedia(m, kind) ==
    /\ pc[m] = "media" /\ message[m].media = kind
    /\ UNCHANGED <<static, names, first, text, written, phase>>

\* _extract_media_from_message finds nothing to download.
Exclude(m) ==
    /\ AtMedia(m, "excluded")
    /\ NothingDownloaded(m)
    /\ UNCHANGED <<media, faults>>

\* The file of an earlier export is taken.
TakeKept(m) ==
    /\ AtMedia(m, "kept")
    /\ Refer(m)
    /\ UNCHANGED <<media, faults>>

\* Mutant of Enqueue: a full queue is passed over.
PassingEnqueue(m) ==
    /\ AtMedia(m, "voice") /\ config.async_media_download
    /\ queue' = IF Len(queue) < max_queue_size THEN Append(queue, m) ELSE queue
    /\ Refer(m)
    /\ UNCHANGED <<retrying, working, _pending_tasks, gave_up, file, faults>>

\* The download is queued; the note refers to the path the file will have.
Enqueue(m) ==
    /\ AtMedia(m, "voice") /\ config.async_media_download
    /\ Len(queue) < max_queue_size
    /\ queue' = Append(queue, m)
    /\ Refer(m)
    /\ UNCHANGED <<retrying, working, _pending_tasks, gave_up, file, faults>>

\* Without the queue the message waits for the download.  Its processing is then
\* put off, with the raw file in the place of the result ...
Defer(m) ==
    /\ AtMedia(m, "voice") /\ config.deferred_processing
    /\ file' = [file EXCEPT ![m] = "there"]
    /\ _pending_tasks' = Append(_pending_tasks, m)
    /\ Refer(m)
    /\ UNCHANGED <<queue, retrying, working, gave_up, faults>>

\* ... or given to a worker of the media processor.
Submit(m) ==
    /\ AtMedia(m, "voice")
    /\ ~config.async_media_download /\ ~config.deferred_processing
    /\ working' = working \cup {m}
    /\ Goto(m, "result")
    /\ UNCHANGED <<reference, queue, retrying, _pending_tasks, gave_up, file, faults>>

\* Any exception on the way leaves an empty list of files; the move of a raw file
\* may have been cut.
MediaFails(m) ==
    /\ AtMedia(m, "voice")
    /\ Fault
    /\ NothingDownloaded(m)
    /\ \/ UNCHANGED file
       \/ config.deferred_processing /\ file' = [file EXCEPT ![m] = "part"]
    /\ UNCHANGED <<queue, retrying, working, _pending_tasks, gave_up>>

\* _wait_for_processing_result takes what lies at the path: the whole file, or
\* the part of a worker that makes no progress.
TakeResult(m) ==
    /\ pc[m] = "result" /\ file[m] \in {"part", "there", "failed"}
    /\ Refer(m)
    /\ UNCHANGED <<static, names, first, text, written, media, phase, faults>>

\* Nothing lies there for max_wait seconds, or too little; the worker goes on.
GiveUp(m) ==
    /\ pc[m] = "result" /\ file[m] \in {"none", "failed"}
    /\ IF file[m] = "none" THEN Fault ELSE UNCHANGED faults
    /\ gave_up' = gave_up \cup {m}
    /\ NothingDownloaded(m)
    /\ UNCHANGED <<static, names, first, text, written, queue, retrying, working,
                   _pending_tasks, file, phase>>

\* What is not there, or cannot be understood, is left out.
Transcribe(m) ==
    /\ pc[m] = "transcribe"
    /\ \/ /\ text' = [text EXCEPT ![m] = file[m] \in {"part", "there"}]
          /\ UNCHANGED faults
       \/ Fault /\ UNCHANGED text
    /\ Goto(m, "done")
    /\ UNCHANGED <<static, names, first, reference, written, media, phase>>

\* Mutant of WriteBatch: a message whose media failed is left out.
SkippingWriteBatch ==
    /\ Batch # {} /\ \A m \in Batch : pc[m] = "done"
    /\ written' = written \o SetToSortSeq({m \in Batch : reference[m] # "nothing"},
                                          LAMBDA a, b : a < b)
    /\ first' = BatchEnd + 1
    /\ UNCHANGED <<static, names, pc, reference, text, media, phase, faults>>

\* The results of a batch are written in the order of its messages, whichever
\* came first; the writer of the pipeline puts them in order, too.
WriteBatch ==
    /\ Batch # {} /\ \A m \in Batch : pc[m] = "done"
    /\ written' = written \o [i \in 1 .. BatchEnd + 1 - first |-> first + i - 1]
    /\ first' = BatchEnd + 1
    /\ UNCHANGED <<static, names, pc, reference, text, media, phase, faults>>

-----------------------------------------------------------------------------
(* In the background                                                       *)

BackgroundOnly ==
    /\ phase # "over"
    /\ UNCHANGED <<static, names, notes, gave_up, phase>>

\* A free worker of the download queue takes a task, and completes it, fails for
\* good (or does not get the file to its place), or is about to try again.
Download ==
    /\ queue # <<>> /\ Cardinality(retrying) < max_workers
    /\ queue' = Tail(queue)
    /\ \/ /\ file' = [file EXCEPT ![Head(queue)] = "there"]
          /\ UNCHANGED <<retrying, faults>>
       \/ /\ file' = [file EXCEPT ![Head(queue)] = "failed"]
          /\ Fault /\ UNCHANGED retrying
       \/ /\ retrying' = retrying \cup {Head(queue)}
          /\ Fault /\ UNCHANGED file
    /\ BackgroundOnly /\ UNCHANGED <<working, _pending_tasks>>

\* The worker puts its task back, when there is a place.
Requeue(m) ==
    /\ m \in retrying /\ Len(queue) < max_queue_size
    /\ retrying' = retrying \ {m} /\ queue' = Append(queue, m)
    /\ BackgroundOnly /\ UNCHANGED <<working, _pending_tasks, file, faults>>

\* All workers wait to put a task into the full queue: nobody takes one out.
Jammed == Len(queue) = max_queue_size /\ Cardinality(retrying) = max_workers

\* A worker of the media processor writes to the path, and ends.
Work(m) ==
    /\ m \in working
    /\ \/ /\ file[m] # "part" /\ file' = [file EXCEPT ![m] = "part"]
          /\ UNCHANGED <<working, faults>>
       \/ /\ file' = [file EXCEPT ![m] = "there"]
          /\ working' = working \ {m} /\ UNCHANGED faults
       \/ /\ file' = [file EXCEPT ![m] = "failed"]
          /\ working' = working \ {m} /\ Fault
    /\ BackgroundOnly /\ UNCHANGED <<queue, retrying, _pending_tasks>>

Background == Download \/ \E m \in Messages : Requeue(m) \/ Work(m)

\* export_all has tried its targets and waited for the downloads: until it sees
\* none, or for an hour.
ExportEnds ==
    /\ phase = "targets" /\ first > N
    /\ \/ queue = <<>> /\ UNCHANGED faults
       \/ Jammed /\ UNCHANGED faults
       \/ queue # <<>> /\ ~Jammed /\ Fault
    /\ phase' = IF config.deferred_processing THEN "pending" ELSE "over"
    /\ UNCHANGED <<static, names, notes, media>>

\* process_pending_tasks: the file is moved aside as the input of its processing;
\* if that fails it stays as it is.
ProcessPending ==
    /\ phase = "pending" /\ _pending_tasks # <<>>
    /\ _pending_tasks' = Tail(_pending_tasks)
    /\ \/ /\ file' = [file EXCEPT ![Head(_pending_tasks)] = "moved"]
          /\ working' = working \cup {Head(_pending_tasks)}
          /\ UNCHANGED faults
       \/ Fault /\ UNCHANGED <<working, file>>
    /\ UNCHANGED <<static, names, notes, queue, retrying, gave_up, phase>>

\* wait_until_idle: until nothing is left to process, or for five minutes.
PendingEnds ==
    /\ phase = "pending" /\ _pending_tasks = <<>>
    /\ IF working = {} THEN UNCHANGED faults ELSE Fault
    /\ phase' = "over"
    /\ UNCHANGED <<static, names, notes, media>>

Process(m) == \/ Begin(m) \/ Exclude(m) \/ TakeKept(m) \/ Enqueue(m) \/ Defer(m)
              \/ Submit(m) \/ MediaFails(m) \/ TakeResult(m) \/ GiveUp(m)
              \/ Transcribe(m)
Main == StartBatch \/ WriteBatch \/ ExportEnds \/ ProcessPending \/ PendingEnds

\* The end; or a jam, in which the export waits for its timeout.
Done == phase = "over" \/ Jammed

Next == \/ Main
        \/ \E m \in Messages : Process(m)
        \/ Background
        \/ Done /\ UNCHANGED vars

\* As long as anything is ready the event loop runs something.  Each message
\* has few steps, so nobody needs a fairness of its own.
Fairness == WF_vars(Main \/ Background \/ \E m \in Messages : Process(m))

Spec == Init /\ [][Next]_vars /\ Fairness

-----------------------------------------------------------------------------
\* All notes on the messages of one sender bear one name, in whichever batches
\* they are and whichever of them its entity came with (exporter.py:1806-1966).
OneNameEach ==
    \A a, b \in Range(written) :
      message[a].sender = message[b].sender => name[a] = name[b]

\* What the end of export_all leaves: it stops the workers.
Unsettled == Range(queue) \cup retrying \cup working

\* When the export is over, a note refers to a file exactly if there is one.  The
\* exceptions: a worker failed after the note was written, or was not done when
\* the last wait ended; or the message had not waited long enough for its worker
\* (exporter.py:926-976, manager.py:363-430, 657-724 and 768-796).
NoteTellsFile ==
    phase = "over" =>
      \A m \in Range(written) : HasMedia(m) /\ config.media_download =>
        \/ reference[m] = "path" <=> file[m] = "there"
        \/ reference[m] = "path" /\ (file[m] = "failed" \/ m \in Unsettled)
        \/ reference[m] # "path" /\ m \in gave_up

\* Every message comes into the chat file once, in order (parallel_processor.py:
\* 91-171; exporter.py:1500-1520), unless the download queue jams.
EveryNoteWritten == <>(written = [m \in Messages |-> m] \/ Jammed)

\* With transcription switched on and nothing failing, the note on a voice message
\* holds its text: transcribe_audio returns "the text or None on an error"
\* (manager.py:1315-1326).
VoiceIsTranscribed ==
    faults = 0 /\ config.transcription =>
      \A m \in Range(written) : reference[m] = "path" => text[m]
=============================================================================
