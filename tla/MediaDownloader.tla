--------------------------- MODULE MediaDownloader ---------------------------
(***************************************************************************)
(* media/downloader.py as the download workers of media/download_queue.py  *)
(* use it: download_media looks into the cache of files already            *)
(* downloaded, runs the attempts of a persistent or a standard download    *)
(* into a temporary file and notes that file in the cache; the worker then *)
(* moves the file to the output path of the message.                       *)
(*                                                                         *)
(* A file on the disk is a record of whose bytes it holds (of) and how     *)
(* many (size).  Telethon truncates the file it is given and writes into   *)
(* the handle it has opened, wherever that file has been moved meanwhile;  *)
(* an attempt may end with any number of the bytes, in an exception or not.*)
(* The ID cache in memory and its copy in CacheManager always hold the     *)
(* same path within one run of the program and are one variable; the hash  *)
(* tier never answers, because get_file_hash always returns None.          *)
(***************************************************************************)
EXTENDS Integers, FiniteSets, TLC

CONSTANTS Tasks,                    \* queued downloads, one per message
          message_id,               \* message_id[t]
          Files,                    \* Telegram files; a file is its own key
          FileChoices,              \* which files the messages may have
          expected_size,            \* expected_size[f]
          Received,                 \* bytes an attempt, or a copy, may have written
          MAX_PERSISTENT_ATTEMPTS,  \* 10 in the code
          max_consecutive_failures, \* 3 in the code
          max_telegram_server_errors, \* 3 in the code
          max_retries,              \* of a standard download, 5 in the code
          max_attempts,             \* of a task of the download queue
          DownloadPlaces            \* download_semaphore, 5 in the code

Ids    == {message_id[t] : t \in Tasks}
Paths  == (Ids \X {0}) \cup (Tasks \X (1 .. max_attempts))
NoPath == <<>>

DownloaderAssumption ==
    /\ IsFiniteSet(Tasks) /\ Tasks \cap (Paths \cup {NoPath}) = {}
    /\ FileChoices \subseteq [Tasks -> Files]
    /\ expected_size \in [Files -> Nat \ {0}]
    /\ Received \subseteq Nat
    /\ {MAX_PERSISTENT_ATTEMPTS, max_consecutive_failures,
        max_telegram_server_errors, max_retries, max_attempts,
        DownloadPlaces} \subseteq Nat \ {0}

VARIABLES
    persistent_enabled, \* the mode, set when the program starts
    file,               \* file[t]: the file in the message of t
    disk,               \* disk[p]: the temporary file p
    output,             \* output[t]: the file at the output path of t
    downloaded_cache,   \* downloaded_cache[f]: path noted for the file f
    task,               \* task[t]: where the worker of t is
    tries,              \* tries[t]: download_media calls made for t
    attempt,            \* attempt[t], reset between calls as the locals are
    consecutive_failures,
    server_errors,
    current_size,       \* size read at the loop head
    handle,             \* handle[t]: file Telethon writes into
    path,               \* path[t]: what download_media returns; of a completed
                        \* task result_path, NoPath meaning the output path
    exhausted           \* tasks whose call ended with Telethon's retries used up

given    == <<persistent_enabled, file>>
counters == <<attempt, consecutive_failures, server_errors, current_size>>
vars == <<given, disk, output, downloaded_cache, task, tries,
          counters, handle, path, exhausted>>

NoFile == [of |-> "nobody", size |-> -1]

\* Mutant of TempPath: one name for all messages.
OneTempPath(t) == IF persistent_enabled THEN <<CHOOSE i \in Ids : TRUE, 0>>
                                        ELSE <<t, tries[t]>>

\* The temporary file: named after the message, or, in a standard download,
\* after the message and the time.
TempPath(t) == IF persistent_enabled THEN <<message_id[t], 0>> ELSE <<t, tries[t]>>

Exists(f) == f # NoFile
Size(t)   == disk[TempPath(t)].size
Expected(t) == expected_size[file[t]]

Downloading == {t \in Tasks : task[t] = "downloading"}

Init ==
    /\ persistent_enabled \in BOOLEAN
    /\ file \in FileChoices
    /\ disk = [p \in Paths |-> NoFile]
    /\ output = [t \in Tasks |-> NoFile]
    /\ downloaded_cache = [f \in Files |-> NoPath]
    /\ task = [t \in Tasks |-> "queued"]
    /\ tries = [t \in Tasks |-> 0]
    /\ attempt = [t \in Tasks |-> 0]
    /\ consecutive_failures = [t \in Tasks |-> 0]
    /\ server_errors = [t \in Tasks |-> 0]
    /\ current_size = [t \in Tasks |-> 0]
    /\ handle = [t \in Tasks |-> NoPath]
    /\ path = [t \in Tasks |-> NoPath]
    /\ exhausted = {}

-----------------------------------------------------------------------------
(* download_media                                                          *)

\* The call's locals go, the task is at l, its result is p.
Leave(t, l, p) ==
    /\ task' = [task EXCEPT ![t] = l]
    /\ path' = [path EXCEPT ![t] = p]
    /\ attempt' = [attempt EXCEPT ![t] = 0]
    /\ consecutive_failures' = [consecutive_failures EXCEPT ![t] = 0]
    /\ server_errors' = [server_errors EXCEPT ![t] = 0]
    /\ current_size' = [current_size EXCEPT ![t] = 0]
    /\ handle' = [handle EXCEPT ![t] = NoPath]

\* What the worker does with an exception or a None of the downloader: the task
\* is queued again or fails.
AfterError(t) == IF tries[t] < max_attempts THEN "queued" ELSE "failed"

\* A worker takes the task; a file that is in the cache and not empty is
\* returned without a download.
Start(t) ==
    LET known == downloaded_cache[file[t]] IN
    /\ task[t] = "queued"
    /\ tries' = [tries EXCEPT ![t] = @ + 1]
    /\ IF known # NoPath /\ disk[known].size > 0
       THEN task' = [task EXCEPT ![t] = "returned"] /\ path' = [path EXCEPT ![t] = known]
       ELSE task' = [task EXCEPT ![t] = "head"] /\ UNCHANGED path
    /\ UNCHANGED <<given, disk, output, downloaded_cache, counters,
                   handle, exhausted>>

\* The download has a result: noted in the cache if it is still there.
Note(t) ==
    /\ task[t] = "downloaded"
    /\ downloaded_cache' =
         [downloaded_cache EXCEPT ![file[t]] = IF Exists(disk[path[t]]) THEN path[t] ELSE @]
    /\ task' = [task EXCEPT ![t] = "returned"]
    /\ UNCHANGED <<given, disk, output, tries, counters, handle,
                   path, exhausted>>

-----------------------------------------------------------------------------
(* _persistent_download and _standard_download                             *)

\* Mutant of IsComplete: the last byte never counts.
IsMoreThanComplete(t) == Size(t) > Expected(t)

IsComplete(t) == Size(t) >= Expected(t)

Attempts == IF persistent_enabled THEN MAX_PERSISTENT_ATTEMPTS ELSE max_retries

\* The loop head of a persistent download returns a file that is complete;
\* both give up when the attempts are used up.
Head(t) ==
    /\ task[t] = "head"
    /\ IF attempt[t] = Attempts
       THEN Leave(t, AfterError(t), NoPath)
       ELSE IF persistent_enabled /\ IsComplete(t)
       THEN Leave(t, "downloaded", TempPath(t))
       ELSE /\ attempt' = [attempt EXCEPT ![t] = @ + 1]
            /\ current_size' = [current_size EXCEPT ![t] = IF Size(t) > 0 THEN Size(t) ELSE 0]
            /\ task' = [task EXCEPT ![t] = "waiting"]
            /\ UNCHANGED <<consecutive_failures, server_errors, handle, path>>
    /\ UNCHANGED <<given, disk, output, downloaded_cache, tries, exhausted>>

\* async with download_semaphore
Acquire(t) ==
    /\ task[t] = "waiting"
    /\ Cardinality(Downloading) < DownloadPlaces
    /\ task' = [task EXCEPT ![t] = "downloading"]
    /\ UNCHANGED <<given, disk, output, downloaded_cache, tries,
                   counters, handle, path, exhausted>>

\* download_file or, after an exception, download_media opens the file anew.
Open(t) ==
    /\ task[t] = "downloading"
    /\ disk' = [disk EXCEPT ![TempPath(t)] = [of |-> file[t], size |-> 0]]
    /\ handle' = [handle EXCEPT ![t] = TempPath(t)]
    /\ UNCHANGED <<given, output, downloaded_cache, task, tries,
                   counters, path, exhausted>>

\* Bytes arrive; another call may have opened or moved the same file.
Write(t, size) ==
    /\ task[t] = "downloading"
    /\ size <= Expected(t)
    /\ \/ /\ handle[t] \in Paths
          /\ Exists(disk[handle[t]])
          /\ disk[handle[t]].size < size
          /\ disk' = [disk EXCEPT ![handle[t]] = [of |-> file[t], size |-> size]]
          /\ UNCHANGED output
       \/ /\ handle[t] \in Tasks
          /\ output[handle[t]].size < size
          /\ output' = [output EXCEPT ![handle[t]] = [of |-> file[t], size |-> size]]
          /\ UNCHANGED disk
    /\ UNCHANGED <<given, downloaded_cache, task, tries, counters,
                   handle, path, exhausted>>

\* The attempt of a persistent download is over with that many consecutive
\* failures: accept what there is, give up, start from scratch or go on.
Decide(t, failures) ==
    LET size == Size(t)
        TooMany == failures >= max_consecutive_failures
        Restart == /\ TooMany /\ size >= 0
                   /\ 10 * size <= 9 * Expected(t)
                   /\ 10 * attempt[t] < 8 * MAX_PERSISTENT_ATTEMPTS
    IN
    /\ disk' = IF Restart THEN [disk EXCEPT ![TempPath(t)] = NoFile] ELSE disk
    /\ IF TooMany /\ size >= 0 /\ ~Restart
       THEN IF 10 * size > 9 * Expected(t)
            THEN Leave(t, "downloaded", TempPath(t))
            ELSE Leave(t, AfterError(t), NoPath)
       ELSE /\ task' = [task EXCEPT ![t] = "head"]
            /\ consecutive_failures' =
                 [consecutive_failures EXCEPT ![t] = IF TooMany THEN 0 ELSE failures]
            /\ current_size' = [current_size EXCEPT ![t] = 0]
            /\ handle' = [handle EXCEPT ![t] = NoPath]
            /\ UNCHANGED <<attempt, server_errors, path>>
    /\ UNCHANGED <<given, output, downloaded_cache, tries, exhausted>>

\* The attempt ended without an exception: did the file grow?
AttemptReturns(t) ==
    /\ persistent_enabled
    /\ task[t] = "downloading"
    /\ Decide(t, IF Size(t) > current_size[t] THEN 0 ELSE consecutive_failures[t] + 1)

\* A timeout, a migration of the data center or any other error.
AttemptFails(t) ==
    /\ persistent_enabled
    /\ task[t] = "downloading"
    /\ Decide(t, consecutive_failures[t] + 1)

\* Telethon has used up its own retries: any bytes are better than none.
TelethonExhausted(t) ==
    /\ persistent_enabled
    /\ task[t] = "downloading"
    /\ exhausted' = exhausted \cup {t}
    /\ IF Size(t) > 0 THEN Leave(t, "downloaded", TempPath(t))
                      ELSE Leave(t, AfterError(t), NoPath)
    /\ UNCHANGED <<given, disk, output, downloaded_cache, tries>>

\* Telegram has internal issues: back off, or raise TelegramServerError, after
\* which the queue does not retry.
ServerError(t) ==
    /\ persistent_enabled
    /\ task[t] = "downloading"
    /\ IF server_errors[t] + 1 >= max_telegram_server_errors
       THEN Leave(t, "failed", NoPath)
       ELSE /\ server_errors' = [server_errors EXCEPT ![t] = @ + 1]
            /\ consecutive_failures' = [consecutive_failures EXCEPT ![t] = @ + 1]
            /\ current_size' = [current_size EXCEPT ![t] = 0]
            /\ handle' = [handle EXCEPT ![t] = NoPath]
            /\ task' = [task EXCEPT ![t] = "head"]
            /\ UNCHANGED <<attempt, path>>
    /\ UNCHANGED <<given, disk, output, downloaded_cache, tries, exhausted>>

\* A standard download accepts 95 percent after an attempt without exception.
StandardReturns(t) ==
    /\ ~persistent_enabled
    /\ task[t] = "downloading"
    /\ IF 100 * Size(t) >= 95 * Expected(t)
       THEN Leave(t, "downloaded", TempPath(t))
       ELSE /\ task' = [task EXCEPT ![t] = "head"]
            /\ current_size' = [current_size EXCEPT ![t] = 0]
            /\ handle' = [handle EXCEPT ![t] = NoPath]
            /\ UNCHANGED <<attempt, consecutive_failures, server_errors, path>>
    /\ UNCHANGED <<given, disk, output, downloaded_cache, tries, exhausted>>

\* Any exception of a standard attempt: the next one follows.
StandardFails(t) ==
    /\ ~persistent_enabled
    /\ task[t] = "downloading"
    /\ task' = [task EXCEPT ![t] = "head"]
    /\ current_size' = [current_size EXCEPT ![t] = 0]
    /\ handle' = [handle EXCEPT ![t] = NoPath]
    /\ UNCHANGED <<given, disk, output, downloaded_cache, tries,
                   attempt, consecutive_failures, server_errors, path, exhausted>>

-----------------------------------------------------------------------------
(* _process_task of the download queue, after download_media               *)

\* A result that exists completes the task; otherwise "no result".
Complete(t) ==
    /\ task[t] = "returned"
    /\ IF Exists(disk[path[t]])
       THEN task' = [task EXCEPT ![t] = "moving"] /\ UNCHANGED path
       ELSE task' = [task EXCEPT ![t] = AfterError(t)] /\ path' = [path EXCEPT ![t] = NoPath]
    /\ UNCHANGED <<given, disk, output, downloaded_cache, tries,
                   counters, handle, exhausted>>

\* The task is completed, with the path p as its result.
Completed(t, p) ==
    /\ task' = [task EXCEPT ![t] = "completed"]
    /\ path' = [path EXCEPT ![t] = p]
    /\ UNCHANGED <<given, downloaded_cache, tries, counters, exhausted>>

\* Mutant of MoveFails: the temporary file is removed although the copy failed.
LosingMoveFails(t) ==
    /\ task[t] = "moving"
    /\ disk' = [disk EXCEPT ![path[t]] = NoFile]
    /\ Completed(t, path[t])
    /\ UNCHANGED <<output, handle>>

\* shutil.move to the output path.  Whoever still writes into the moved file
\* goes on at the new place, or, when the move had to copy it, into nothing.
Move(t) ==
    /\ task[t] = "moving"
    /\ Exists(disk[path[t]])
    /\ output' = [output EXCEPT ![t] = disk[path[t]]]
    /\ disk' = [disk EXCEPT ![path[t]] = NoFile]
    /\ \E goes \in {t, NoPath} :
          handle' = [u \in Tasks |-> IF handle[u] = path[t] THEN goes ELSE handle[u]]
    /\ Completed(t, NoPath)

\* A failure of mkdir or of the move is only logged: the task was completed
\* before and keeps the temporary file, if there is one, as its result.  A copy
\* to another device may have left any part of the file at the output path.
MoveFails(t) ==
    /\ task[t] = "moving"
    /\ \/ UNCHANGED output
       \/ \E size \in Received \cup {0} :
             /\ size <= disk[path[t]].size
             /\ output' = [output EXCEPT ![t] = [disk[path[t]] EXCEPT !.size = size]]
    /\ Completed(t, path[t])
    /\ UNCHANGED <<disk, handle>>

\* The timeout of the task cancels download_media wherever it waits.
TaskTimeout(t) ==
    /\ task[t] \in {"head", "waiting", "downloading", "downloaded"}
    /\ Leave(t, "failed", NoPath)
    /\ UNCHANGED <<given, disk, output, downloaded_cache, tries, exhausted>>

-----------------------------------------------------------------------------

Ends(t) == \/ AttemptReturns(t) \/ AttemptFails(t) \/ TelethonExhausted(t)
           \/ ServerError(t) \/ StandardReturns(t) \/ StandardFails(t)

Step(t) == \/ Start(t) \/ Note(t) \/ Head(t) \/ Acquire(t) \/ Open(t)
           \/ \E s \in Received : Write(t, s)
           \/ Ends(t) \/ Complete(t) \/ Move(t) \/ MoveFails(t) \/ TaskTimeout(t)

Finished == /\ \A t \in Tasks : task[t] \in {"completed", "failed"}
            /\ UNCHANGED vars

Next == (\E t \in Tasks : Step(t)) \/ Finished

\* Workers run; the semaphore is a FIFO queue; every attempt ends, by its own
\* timeout at the latest.
Fairness == \A t \in Tasks :
    /\ WF_vars(Start(t) \/ Note(t) \/ Head(t) \/ Complete(t) \/ Move(t)
               \/ MoveFails(t))
    /\ SF_vars(Acquire(t))
    /\ WF_vars(Ends(t))

Spec == Init /\ [][Next]_vars /\ Fairness

-----------------------------------------------------------------------------

Places == {"queued", "head", "waiting", "downloading", "downloaded", "returned",
           "moving", "completed", "failed"}
FileStates == [of : Files, size : Nat] \cup {NoFile}

TypeOK ==
    /\ persistent_enabled \in BOOLEAN /\ file \in [Tasks -> Files]
    /\ disk \in [Paths -> FileStates] /\ output \in [Tasks -> FileStates]
    /\ downloaded_cache \in [Files -> Paths \cup {NoPath}]
    /\ task \in [Tasks -> Places]
    /\ tries \in [Tasks -> 0 .. max_attempts]
    /\ attempt \in [Tasks -> 0 .. Attempts]
    /\ consecutive_failures \in [Tasks -> 0 .. max_consecutive_failures + max_telegram_server_errors]
    /\ server_errors \in [Tasks -> 0 .. max_telegram_server_errors - 1]
    /\ current_size \in [Tasks -> Nat]
    /\ handle \in [Tasks -> Paths \cup Tasks \cup {NoPath}]
    /\ path \in [Tasks -> Paths \cup {NoPath}]
    /\ exhausted \subseteq Tasks

\* No other message has the file of t, or its id (ids repeat between chats).
Alone(t) ==
    \A u \in Tasks \ {t} : file[u] # file[t] /\ message_id[u] # message_id[t]

\* The temporary files are named after message ids only.  Two chats downloaded
\* in one run can break this, and then one chat gets the file of the other.
IdsTellFiles ==
    \A t, u \in Tasks : message_id[t] = message_id[u] => file[t] = file[u]

\* The messages of one chat.
DistinctIds == \A t, u \in Tasks : message_id[t] = message_id[u] => t = u

\* The file a completed task has as its result.
Result(t) == IF path[t] = NoPath THEN output[t] ELSE disk[path[t]]

\* What stands at the output of a completed task is the file of its message; and
\* when no other message shares that file, the task has it as its result -- at
\* the output or, when the move failed, still as the temporary file -- with more
\* than nine tenths of its bytes unless Telethon had given up.
CompletedIsWhole ==
    \A t \in Tasks : task[t] = "completed" =>
        /\ IdsTellFiles /\ Exists(output[t]) => output[t].of = file[t]
        /\ Alone(t) => /\ Result(t).of = file[t]
                       /\ 10 * Result(t).size > 9 * Expected(t) \/ t \in exhausted

\* Two messages with one file may take the same temporary file from the cache
\* and only one of them can move it: the other is completed with a result that
\* is gone.  The file itself is never lost, not by failing moves either: one of
\* them has it as its result, as long as the ids are those of one chat
\* (DistinctIds).
SharedFileSurvives ==
    \A t \in Tasks : task[t] = "completed" =>
        \E u \in Tasks : file[u] = file[t] /\ task[u] = "completed" /\ Exists(Result(u))

\* A persistent download notices only at the next loop head that its file is
\* complete, the last attempt therefore not at all.  But once no attempt is
\* writing any more the complete file is never truncated nor thrown away: the
\* next try of the queue finds it, and it leaves only for an output path.  With
\* two messages of one id (not DistinctIds) the one truncates what the other has.
CompleteIsKept ==
    [][\A t \in Tasks :
          LET p == TempPath(t) IN
          /\ persistent_enabled /\ IdsTellFiles
          /\ disk[p].of = file[t] /\ disk[p].size >= Expected(t)
          /\ \A u \in Tasks : handle[u] # p
          => \/ disk'[p] = disk[p]
             \/ \E u \in Tasks : output'[u] = disk[p] /\ output[u] # disk[p]]_vars

\* Every queued download is completed or given up, whatever Telegram answers.
EverySettles ==
    \A t \in Tasks : <>[](task[t] \in {"completed", "failed"})

=============================================================================
