--------------------------- MODULE MediaProcessing ---------------------------
(***************************************************************************)
(* MediaProcessor of media/manager.py without its download queue: every    *)
(* message runs _process_single_media, which downloads a temporary file,   *)
(* hands it to the processing workers and watches the output path until    *)
(* its size stays the same; or, with deferred processing, moves the raw    *)
(* file to the output path and leaves the processing to the end of the     *)
(* export (process_pending_tasks).                                         *)
(*                                                                         *)
(* A file is NoFile or a record: old bytes of an earlier run or the new    *)
(* ones of the message, and a size, of which FullSize is all of it.  The   *)
(* processors (video, audio, image and the plain copy) differ in how they  *)
(* write the output, not in what can happen to it: they remove it, open    *)
(* the input, write, and fall back to a copy when that breaks off.         *)
(* The result cache (MediaCache) never answers: it is called with an id    *)
(* where it expects the message, and its AttributeError is caught.         *)
(***************************************************************************)
EXTENDS Integers, FiniteSets, SequencesExt

CONSTANTS Messages,               \* messages with media
          Files,                  \* Telegram files
          FileChoices,            \* which files the messages may have
          Workers,                \* processing workers
          max_attempts,           \* of a ProcessingTask, 3 in the code
          required_stable_checks, \* 3 in the code
          max_wait,               \* polls of a waiting call, 300 in the code
          MaxKills                \* bound: how often the program is killed

ASSUME ProcessingAssumption ==
    /\ IsFiniteSet(Messages) /\ IsFiniteSet(Workers)
    /\ FileChoices \subseteq [Messages -> Files]
    /\ {max_attempts, required_stable_checks, max_wait} \subseteq Nat \ {0}
    /\ MaxKills \in Nat

VARIABLES
    deferred,   \* config.deferred_processing
    file,       \* file[m]: the Telegram file of message m
    processed,  \* messages of a type the configuration wants processed
    output,     \* output[m]: file at the output path
    temp,       \* temp[m]: temporary file named after m
    aside,      \* aside[m]: the raw file of m as .tmp_proc
    cached,     \* cached[f]: message whose temporary file has f
    call,       \* call[m]: where _process_single_media of m is
    input,      \* input[m]: "aside" or the message of the temporary file
    last_size, stable_count, polls,  \* locals of the wait for the result
    queue,      \* _processing_queue
    unfinished, \* its count of items without task_done
    attempts,   \* attempts[m] of the processing task
    worker,     \* worker[w]: step of the worker
    item,       \* item[w]: message whose task the worker has
    pending,    \* _pending_tasks
    main,       \* process_pending_tasks
    old, written, raw, kills  \* history: outputs of an earlier run, tasks that
                              \* succeeded, raw files delivered, kills

waitVars    == <<last_size, stable_count, polls>>
workVars    == <<queue, unfinished, attempts, worker, item>>
configVars  == <<deferred, file, processed>>
historyVars == <<old, written, raw, kills>>
vars == <<configVars, output, temp, aside, cached, call, input, waitVars,
          workVars, pending, main, historyVars>>

FullSize == 2
NoFile == [bytes |-> "none", size |-> -1]
Part   == [bytes |-> "new", size |-> 1]
Whole  == [bytes |-> "new", size |-> FullSize]
Old    == [bytes |-> "old", size |-> 1]

Exists(f) == f # NoFile
NoMessage == "nobody"

\* The file a processing task of m reads.
InputExists(m) == IF input[m] = "aside" THEN Exists(aside[m]) ELSE Exists(temp[input[m]])

Busy == {w \in Workers : worker[w] # "idle"}

Init ==
    /\ deferred \in BOOLEAN
    /\ file \in FileChoices
    /\ processed \in SUBSET Messages
    /\ old \in SUBSET (Messages \ processed)
    /\ output = [m \in Messages |-> IF m \in old THEN Old ELSE NoFile]
    /\ temp = [m \in Messages |-> NoFile]
    /\ aside = [m \in Messages |-> NoFile]
    /\ cached = [f \in Files |-> NoMessage]
    /\ call = [m \in Messages |-> "start"]
    /\ input = [m \in Messages |-> NoMessage]
    /\ last_size = [m \in Messages |-> 0]
    /\ stable_count = [m \in Messages |-> 0]
    /\ polls = [m \in Messages |-> 0]
    /\ queue = <<>>
    /\ unfinished = 0
    /\ attempts = [m \in Messages |-> 0]
    /\ worker = [w \in Workers |-> "idle"]
    /\ item = [w \in Workers |-> NoMessage]
    /\ pending = <<>>
    /\ main = "export"
    /\ written = {}
    /\ raw = {}
    /\ kills = 0

-----------------------------------------------------------------------------
(* _process_single_media                                                   *)

\* An output that is there: of a processed type it only has to have bytes, of
\* any other type it must have the size of the message's file.
OutputAccepted(m) ==
    IF m \in processed THEN output[m].size > 0 ELSE output[m] = Whole

Check(m) ==
    /\ call[m] = "start"
    /\ main = "export"
    /\ call' = [call EXCEPT ![m] = IF OutputAccepted(m) THEN "ok" ELSE "downloading"]
    /\ UNCHANGED <<configVars, output, temp, aside, cached, input, waitVars,
                   workVars, pending, main, historyVars>>

\* The downloader returns the temporary file the cache knows, if it is still
\* there, or a new one; too short a file, or none, fails the message.
Download(m) ==
    LET known == cached[file[m]] IN
    /\ call[m] = "downloading"
    /\ IF known # NoMessage /\ Exists(temp[known])
       THEN /\ IF temp[known] = Whole
               THEN call' = [call EXCEPT ![m] = "got"] /\ input' = [input EXCEPT ![m] = known]
               ELSE call' = [call EXCEPT ![m] = "none"] /\ UNCHANGED input
            /\ UNCHANGED <<temp, cached>>
       ELSE \/ /\ temp' = [temp EXCEPT ![m] = Whole]
               /\ cached' = [cached EXCEPT ![file[m]] = m]
               /\ input' = [input EXCEPT ![m] = m]
               /\ call' = [call EXCEPT ![m] = "got"]
            \/ /\ temp' = [temp EXCEPT ![m] = Part]
               /\ cached' = [cached EXCEPT ![file[m]] = m]
               /\ call' = [call EXCEPT ![m] = "none"]
               /\ UNCHANGED input
            \/ /\ call' = [call EXCEPT ![m] = "none"]
               /\ UNCHANGED <<temp, cached, input>>
    /\ UNCHANGED <<configVars, output, aside, waitVars, workVars, pending, main,
                   historyVars>>

\* The task goes into the processing queue, and the call waits.
Submit(m) ==
    /\ ~deferred
    /\ call[m] = "got"
    /\ call' = [call EXCEPT ![m] = "waiting"]
    /\ queue' = Append(queue, m)
    /\ unfinished' = unfinished + 1
    /\ attempts' = [attempts EXCEPT ![m] = 0]
    /\ UNCHANGED <<configVars, output, temp, aside, cached, input, waitVars,
                   worker, item, pending, main, historyVars>>

\* Deferred: the raw file goes to the output path, the task to the pending list.
Defer(m) ==
    /\ deferred
    /\ call[m] = "got"
    /\ IF InputExists(m)
       THEN /\ output' = [output EXCEPT ![m] = temp[input[m]]]
            /\ temp' = [temp EXCEPT ![input[m]] = NoFile]
            /\ pending' = Append(pending, m)
            /\ raw' = raw \cup {m}
            /\ call' = [call EXCEPT ![m] = "ok"]
       ELSE /\ call' = [call EXCEPT ![m] = "none"]
            /\ UNCHANGED <<output, temp, pending, raw>>
    /\ UNCHANGED <<configVars, aside, cached, input, waitVars, workVars, main,
                   old, written, kills>>

\* _wait_for_processing_result looks at the output once a second: the result is
\* ready when a size above zero has been seen often enough in a row.
Poll(m) ==
    LET size == output[m].size
        same == Exists(output[m]) /\ size = last_size[m] /\ size > 0
        ready == same /\ stable_count[m] + 1 >= required_stable_checks
    IN
    /\ call[m] = "waiting"
    /\ polls[m] < max_wait
    /\ polls' = [polls EXCEPT ![m] = IF ready THEN 0 ELSE @ + 1]
    /\ stable_count' = [stable_count EXCEPT ![m] =
                          IF same /\ ~ready THEN @ + 1
                          ELSE IF Exists(output[m]) THEN 0 ELSE @]
    /\ last_size' = [last_size EXCEPT ![m] =
                       IF ready THEN 0 ELSE IF Exists(output[m]) THEN size ELSE @]
    /\ call' = [call EXCEPT ![m] = IF ready THEN "result" ELSE @]
    /\ UNCHANGED <<configVars, output, temp, aside, cached, input, workVars,
                   pending, main, historyVars>>

\* Mutant of WaitEnds: a call without an output waits on.
EndlessWaitEnds(m) ==
    /\ call[m] = "waiting"
    /\ polls[m] = max_wait
    /\ output[m].size > 0
    /\ call' = [call EXCEPT ![m] = "result"]
    /\ polls' = [polls EXCEPT ![m] = 0]
    /\ stable_count' = [stable_count EXCEPT ![m] = 0]
    /\ last_size' = [last_size EXCEPT ![m] = 0]
    /\ UNCHANGED <<configVars, output, temp, aside, cached, input, workVars,
                   pending, main, historyVars>>

\* The wait is over: whatever stands at the output path is the result.
WaitEnds(m) ==
    /\ call[m] = "waiting"
    /\ polls[m] = max_wait
    /\ call' = [call EXCEPT ![m] = IF output[m].size > 0 THEN "result" ELSE "none"]
    /\ polls' = [polls EXCEPT ![m] = 0]
    /\ stable_count' = [stable_count EXCEPT ![m] = 0]
    /\ last_size' = [last_size EXCEPT ![m] = 0]
    /\ UNCHANGED <<configVars, output, temp, aside, cached, input, workVars,
                   pending, main, historyVars>>

\* The temporary file is removed and the result returned.
Return(m) ==
    /\ call[m] = "result"
    /\ temp' = [temp EXCEPT ![input[m]] = NoFile]
    /\ call' = [call EXCEPT ![m] = "ok"]
    /\ UNCHANGED <<configVars, output, aside, cached, input, waitVars, workVars,
                   pending, main, historyVars>>

-----------------------------------------------------------------------------
(* _processing_worker and the processors                                   *)

Take(w) ==
    /\ worker[w] = "idle"
    /\ queue # <<>>
    /\ item' = [item EXCEPT ![w] = Head(queue)]
    /\ queue' = Tail(queue)
    /\ worker' = [worker EXCEPT ![w] = "process"]
    /\ UNCHANGED <<configVars, output, temp, aside, cached, call, input,
                   waitVars, unfinished, attempts, pending, main, historyVars>>

\* The worker is free again; task_done comes after a failed task was put back.
Release(w, put_back) ==
    LET m == item[w] IN
    /\ worker' = [worker EXCEPT ![w] = "idle"]
    /\ item' = [item EXCEPT ![w] = NoMessage]
    /\ IF put_back
       THEN /\ attempts' = [attempts EXCEPT ![m] = @ + 1]
            /\ queue' = Append(queue, m)
            /\ unfinished' = (unfinished + 1) - 1
       ELSE /\ unfinished' = unfinished - 1
            /\ UNCHANGED <<attempts, queue>>

Failed(w) == Release(w, attempts[item[w]] + 1 < max_attempts)

\* A processor, or the copy it falls back to, wants its input and removes what
\* is at the output path; without an input the task has failed.
BeginWrite(w) ==
    LET m == item[w] IN
    /\ worker[w] \in {"process", "copy"}
    /\ IF InputExists(m)
       THEN /\ output' = [output EXCEPT ![m] = NoFile]
            /\ worker' = [worker EXCEPT ![w] = IF @ = "process" THEN "open" ELSE "reopen"]
            /\ UNCHANGED <<queue, unfinished, attempts, item>>
       ELSE Failed(w) /\ UNCHANGED output
    /\ UNCHANGED <<configVars, temp, aside, cached, call, input, waitVars,
                   pending, main, historyVars>>

\* The output is being written, if the input can still be opened.
Open(w) ==
    LET m == item[w] IN
    /\ worker[w] \in {"open", "reopen"}
    /\ IF InputExists(m)
       THEN /\ output' = [output EXCEPT ![m] = Part]
            /\ worker' = [worker EXCEPT ![w] = IF @ = "open" THEN "writing" ELSE "copying"]
            /\ UNCHANGED <<queue, unfinished, attempts, item>>
       ELSE Failed(w) /\ UNCHANGED output
    /\ UNCHANGED <<configVars, temp, aside, cached, call, input, waitVars,
                   pending, main, historyVars>>

\* Mutant of Written: a task that succeeded is put back as well.
RetryingWritten(w) ==
    /\ worker[w] \in {"writing", "copying"}
    /\ output' = [output EXCEPT ![item[w]] = Whole]
    /\ written' = written \cup {item[w]}
    /\ Release(w, attempts[item[w]] + 1 < max_attempts)
    /\ UNCHANGED <<configVars, temp, aside, cached, call, input, waitVars,
                   pending, main, old, raw, kills>>

Written(w) ==
    /\ worker[w] \in {"writing", "copying"}
    /\ output' = [output EXCEPT ![item[w]] = Whole]
    /\ written' = written \cup {item[w]}
    /\ Release(w, FALSE)
    /\ UNCHANGED <<configVars, temp, aside, cached, call, input, waitVars,
                   pending, main, old, raw, kills>>

\* Processing breaks off: fall back to a copy; the copy breaks off: failed.
Breaks(w) ==
    /\ \/ /\ worker[w] = "writing"
          /\ worker' = [worker EXCEPT ![w] = "copy"]
          /\ UNCHANGED <<queue, unfinished, attempts, item>>
       \/ /\ worker[w] = "copying"
          /\ Failed(w)
    /\ UNCHANGED <<configVars, output, temp, aside, cached, call, input,
                   waitVars, pending, main, historyVars>>

-----------------------------------------------------------------------------
(* process_pending_tasks                                                   *)

\* The export is over when every call has returned.
ExportEnds ==
    /\ main = "export"
    /\ \A m \in Messages : call[m] \in {"ok", "none"}
    /\ main' = IF pending = <<>> THEN "done" ELSE "preparing"
    /\ UNCHANGED <<configVars, output, temp, aside, cached, call, input,
                   waitVars, workVars, pending, historyVars>>

\* The raw file is moved aside and becomes the input of its task.
Prepare ==
    LET m == Head(pending) IN
    /\ main = "preparing"
    /\ pending # <<>>
    /\ pending' = Tail(pending)
    /\ IF Exists(output[m])
       THEN /\ aside' = [aside EXCEPT ![m] = output[m]]
            /\ output' = [output EXCEPT ![m] = NoFile]
            /\ input' = [input EXCEPT ![m] = "aside"]
            /\ queue' = Append(queue, m)
            /\ unfinished' = unfinished + 1
            /\ attempts' = [attempts EXCEPT ![m] = 0]
       ELSE UNCHANGED <<aside, output, input, queue, unfinished, attempts>>
    /\ UNCHANGED <<configVars, temp, cached, call, waitVars, worker, item, main,
                   historyVars>>

Prepared ==
    /\ main = "preparing"
    /\ pending = <<>>
    /\ main' = "waiting"
    /\ UNCHANGED <<configVars, output, temp, aside, cached, call, input,
                   waitVars, workVars, pending, historyVars>>

\* wait_until_idle: is_idle asks the queue for its length and joins it.
Idle ==
    /\ main = "waiting"
    /\ queue = <<>>
    /\ unfinished = 0
    /\ main' = "idle"
    /\ UNCHANGED <<configVars, output, temp, aside, cached, call, input,
                   waitVars, workVars, pending, historyVars>>

-----------------------------------------------------------------------------
(* The program is killed and started again: only files survive, and the    *)
(* cache of paths if it has been saved.                                    *)

Kill ==
    /\ kills < MaxKills
    /\ kills' = kills + 1
    /\ cached' \in {cached, [f \in Files |-> NoMessage]}
    /\ call' = [m \in Messages |-> "start"]
    /\ input' = [m \in Messages |-> NoMessage]
    /\ last_size' = [m \in Messages |-> 0]
    /\ stable_count' = [m \in Messages |-> 0]
    /\ polls' = [m \in Messages |-> 0]
    /\ queue' = <<>>
    /\ unfinished' = 0
    /\ attempts' = [m \in Messages |-> 0]
    /\ worker' = [w \in Workers |-> "idle"]
    /\ item' = [w \in Workers |-> NoMessage]
    /\ pending' = <<>>
    /\ main' = "export"
    /\ UNCHANGED <<configVars, output, temp, aside, old, written, raw>>

-----------------------------------------------------------------------------

Call(m) == \/ Check(m) \/ Download(m) \/ Submit(m) \/ Defer(m) \/ Poll(m)
           \/ WaitEnds(m) \/ Return(m)

Work(w) == Take(w) \/ BeginWrite(w) \/ Open(w) \/ Written(w) \/ Breaks(w)

Main == ExportEnds \/ Prepare \/ Prepared \/ Idle

Finished == main \in {"done", "idle"} /\ queue = <<>> /\ Busy = {} /\ UNCHANGED vars

Next == \/ \E m \in Messages : Call(m)
        \/ \E w \in Workers : Work(w)
        \/ Main \/ Kill \/ Finished

\* Nothing waits for anything but the event loop; a processor ends (ffmpeg and
\* the copies run to their end or fail).
Fairness == /\ \A m \in Messages : WF_vars(Call(m))
            /\ \A w \in Workers : WF_vars(Work(w))
            /\ WF_vars(Main)

Spec == Init /\ [][Next]_vars /\ Fairness

-----------------------------------------------------------------------------

FileStates == {NoFile, Part, Whole, Old}

TypeOK ==
    /\ deferred \in BOOLEAN /\ file \in [Messages -> Files]
    /\ processed \subseteq Messages
    /\ output \in [Messages -> FileStates]
    /\ temp \in [Messages -> FileStates] /\ aside \in [Messages -> FileStates]
    /\ cached \in [Files -> Messages \cup {NoMessage}]
    /\ call \in [Messages -> {"start", "downloading", "got", "waiting", "result", "ok", "none"}]
    /\ input \in [Messages -> Messages \cup {NoMessage, "aside"}]
    /\ last_size \in [Messages -> 0 .. FullSize]
    /\ stable_count \in [Messages -> 0 .. required_stable_checks - 1]
    /\ polls \in [Messages -> 0 .. max_wait]
    /\ queue \in Seq(Messages)
    /\ unfinished = Len(queue) + Cardinality(Busy)
    /\ attempts \in [Messages -> 0 .. max_attempts - 1]
    /\ worker \in [Workers -> {"idle", "process", "open", "writing", "copy", "reopen", "copying"}]
    /\ item \in [Workers -> Messages \cup {NoMessage}]
    /\ pending \in Seq(Messages)
    /\ main \in {"export", "preparing", "waiting", "idle", "done"}

Alone(m) == \A n \in Messages \ {m} : file[n] # file[m]

\* An output that has been written whole stays so: no retry of the same task, no
\* other message with the same temporary file, no restart touches it again.
WrittenStays == \A m \in written : output[m] = Whole

\* Claimed by _wait_for_processing_result (a wait that checks the end of the
\* processing), and not true: it looks at the file only, never at the task, and
\* takes what a failed task has left behind for the result.
ResultIsWhole ==
    \A m \in Messages :
        /\ ~deferred /\ call[m] = "ok" /\ Alone(m)
        /\ m \notin old /\ kills = 0
        => output[m] = Whole

\* Deferred processing moves the only copy about.  At every moment, also after a
\* kill, the raw bytes stand at the output path or beside it.
RawIsKept ==
    \A m \in raw : output[m] = Whole \/ aside[m] = Whole

\* Every call returns and the export ends, with or without results.
ExportDone == <>[](main \in {"idle", "done"})

=============================================================================
