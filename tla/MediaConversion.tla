--------------------------- MODULE MediaConversion ---------------------------
(***************************************************************************)
(* What a processing worker does with one task (manager.py:                *)
(* _execute_processing_task; processors/video.py, audio.py, image.py;      *)
(* zero_copy.py): a conversion by an external encoder, a second one in     *)
(* software, and copies of the input wherever that fails.                  *)
(*                                                                         *)
(* The tasks are those of messages with one and the same file: they share  *)
(* the input, which the caller of any message with this file may unlink    *)
(* while its own or other tasks are still at work (MediaProcessing has the *)
(* callers).                                                               *)
(***************************************************************************)
EXTENDS Naturals

CONSTANTS
  Tasks,
  MaxFaults  \* bound: encoders and file operations that fail

VARIABLES
  kind,           \* kind[t]: media type
  metadata,       \* of the file
  config,         \* settings that decide how the file is processed
  _ffmpeg_tested, \* ffmpeg was found to work
  input,          \* the input file: "whole" or "gone"
  output,         \* output[t]: what is at the task's output path
  pc,             \* where the task is
  attempt,        \* attempt[t]: of _copy_file
  result,         \* result[t]: "none", "success" or "failure"
  broken,         \* history: broken[t], the copies of task t that went wrong
  faults

vars == <<kind, metadata, config, _ffmpeg_tested, input, output, pc, attempt, result,
          broken, faults>>
static == <<kind, metadata, config>>

Kinds == {"video", "audio", "photo", "other"}
\* "crumb" and "part" are cut short, the former below 1 % of the input's size;
\* "small" is complete and below 1 %.
Outputs == {"none", "empty", "crumb", "part", "small", "converted", "copy"}
Max_attempts == 3

\* The metadata against the thresholds of the settings.
Metadata == {"none", "tiny", "within", "dimensions", "bitrate", "large"}
Configs == [process : BOOLEAN, compress_video : BOOLEAN, hardware : BOOLEAN]

Init ==
    /\ kind \in [Tasks -> Kinds]
    /\ metadata \in Metadata /\ config \in Configs
    /\ _ffmpeg_tested = FALSE
    /\ input = "whole" /\ output = [t \in Tasks |-> "none"]
    /\ pc = [t \in Tasks |-> "start"] /\ attempt = [t \in Tasks |-> 0]
    /\ result = [t \in Tasks |-> "none"]
    /\ broken = [t \in Tasks |-> 0] /\ faults = 0

Fault == faults < MaxFaults /\ faults' = faults + 1
Goto(t, p) == pc' = [pc EXCEPT ![t] = p]

-----------------------------------------------------------------------------
(* Which files are converted                                               *)

NeedsVideo == config.process /\ metadata \in {"dimensions", "bitrate", "large"}

\* Without metadata a conversion is tried.
NeedsAudio == config.process /\ metadata \in {"none", "bitrate"}

NeedsImage == config.process /\ metadata \in {"dimensions", "large"}

-----------------------------------------------------------------------------
(* _execute_processing_task                                                *)

Return(t, r) ==
    /\ Goto(t, "done")
    /\ result' = [result EXCEPT ![t] = r]

\* The choice of the processor; a media type of no processor is copied.
Execute(t) ==
    /\ pc[t] = "start"
    /\ IF input = "gone" THEN Return(t, "failure")
       ELSE /\ Goto(t, IF kind[t] = "other" THEN "last_copy" ELSE "process")
            /\ UNCHANGED result
    /\ UNCHANGED <<static, _ffmpeg_tested, input, output, attempt, broken, faults>>

TooSmall(t) == output[t] \in {"empty", "crumb", "small"}

\* A processor claims success: an output too small for its input is replaced by
\* a copy.
Claimed(t) ==
    /\ pc[t] = "claimed"
    /\ IF TooSmall(t) \/ output[t] = "none"
       THEN Goto(t, "last_copy") /\ UNCHANGED result
       ELSE Return(t, "success")
    /\ UNCHANGED <<static, _ffmpeg_tested, input, output, attempt, broken, faults>>

-----------------------------------------------------------------------------
(* process of the three processors                                         *)

\* ffmpeg is looked for until it has been found; without compression every
\* video is copied.
ProcessVideo(t) ==
    /\ pc[t] = "process" /\ kind[t] = "video"
    /\ \/ /\ UNCHANGED faults
          /\ _ffmpeg_tested' = TRUE
          /\ IF config.compress_video /\ NeedsVideo
             THEN Goto(t, IF config.hardware THEN "run_hardware" ELSE "run")
             ELSE Goto(t, "copy")
       \/ ~_ffmpeg_tested /\ Fault /\ Goto(t, "copy") /\ UNCHANGED _ffmpeg_tested
    /\ UNCHANGED <<static, input, output, attempt, result, broken>>

\* A file whose integrity cannot be confirmed is copied.
ProcessAudio(t) ==
    /\ pc[t] = "process" /\ kind[t] = "audio"
    /\ IF NeedsAudio
       THEN \/ Goto(t, "run") /\ UNCHANGED faults
            \/ Goto(t, "copy") /\ Fault
       ELSE Goto(t, "copy") /\ UNCHANGED faults
    /\ UNCHANGED <<static, _ffmpeg_tested, input, output, attempt, result, broken>>

ProcessImage(t) ==
    /\ pc[t] = "process" /\ kind[t] = "photo"
    /\ Goto(t, IF NeedsImage THEN "run" ELSE "copy")
    /\ UNCHANGED <<static, _ffmpeg_tested, input, output, attempt, result, faults, broken>>

\* An encoder opens its input and begins its output anew; no input, no device
\* for the hardware or an unreadable file: a copy.
Open(t) ==
    \/ /\ input = "whole"
       /\ Goto(t, IF pc[t] = "run_hardware" THEN "hardware" ELSE "encoding")
       /\ output' = [output EXCEPT ![t] = "empty"]
       /\ UNCHANGED faults
    \/ input = "gone" /\ Goto(t, "copy") /\ UNCHANGED <<output, faults>>
    \/ input = "whole" /\ Fault /\ Goto(t, "copy") /\ UNCHANGED output

RunVideo(t) ==
    /\ pc[t] \in {"run", "run_hardware"} /\ kind[t] = "video"
    /\ Open(t)
    /\ UNCHANGED <<static, _ffmpeg_tested, input, attempt, result, broken>>

RunAudio(t) ==
    /\ pc[t] = "run" /\ kind[t] = "audio"
    /\ Open(t)
    /\ UNCHANGED <<static, _ffmpeg_tested, input, attempt, result, broken>>

RunImage(t) ==
    /\ pc[t] = "run" /\ kind[t] = "photo"
    /\ Open(t)
    /\ UNCHANGED <<static, _ffmpeg_tested, input, attempt, result, broken>>

Encoding == {"hardware", "encoding", "software"}

\* More of the output is written.
Grows(t) ==
    /\ pc[t] \in Encoding \cup {"sendfile", "aiofiles"} /\ output[t] \in {"empty", "crumb"}
    /\ output' = [output EXCEPT ![t] = IF @ = "empty" THEN "crumb" ELSE "part"]
    /\ UNCHANGED <<static, _ffmpeg_tested, input, pc, attempt, result, faults, broken>>

\* The encoder has written all of its output.
Encoded(t) ==
    /\ pc[t] \in Encoding
    /\ \E o \in {"empty", "small", "converted"} : output' = [output EXCEPT ![t] = o]
    /\ Goto(t, IF pc[t] = "software" THEN "check_software" ELSE "check")
    /\ UNCHANGED <<static, _ffmpeg_tested, input, attempt, result, faults, broken>>

\* Mutant of CheckVideo: what the encoder left is taken as it is.
UncheckedCheckVideo(t) ==
    /\ pc[t] \in {"check", "check_software"} /\ kind[t] = "video"
    /\ Return(t, "success")
    /\ UNCHANGED <<static, _ffmpeg_tested, input, output, attempt, faults, broken>>

\* The sizes of output and input are compared, which fails without an input;
\* after the second encoding only an empty output is refused.
CheckVideo(t) ==
    /\ pc[t] \in {"check", "check_software"} /\ kind[t] = "video"
    /\ Goto(t, CASE pc[t] = "check" -> IF TooSmall(t) \/ input = "gone" THEN "copy" ELSE "claimed"
                 [] OTHER           -> IF output[t] = "empty" THEN "copy" ELSE "claimed")
    /\ UNCHANGED <<static, _ffmpeg_tested, input, output, attempt, result, faults, broken>>

CheckAudio(t) ==
    /\ pc[t] = "check" /\ kind[t] = "audio"
    /\ Goto(t, IF TooSmall(t) \/ input = "gone" THEN "copy" ELSE "claimed")
    /\ UNCHANGED <<static, _ffmpeg_tested, input, output, attempt, result, faults, broken>>

CheckImage(t) ==
    /\ pc[t] = "check" /\ kind[t] = "photo"
    /\ Goto(t, IF TooSmall(t) \/ input = "gone" THEN "copy" ELSE "claimed")
    /\ UNCHANGED <<static, _ffmpeg_tested, input, output, attempt, result, faults, broken>>

\* The hardware encoder stops with an error that says so: once more in software,
\* whose own error is only logged.
HardwareFails(t) ==
    /\ pc[t] = "hardware"
    /\ Fault
    /\ IF input = "gone"
       THEN Goto(t, "copy") /\ UNCHANGED output
       ELSE Goto(t, "software") /\ output' = [output EXCEPT ![t] = "empty"]
    /\ UNCHANGED <<static, _ffmpeg_tested, input, attempt, result, broken>>

\* Mutant of EncoderFails: the task fails with its encoder.
FinalEncoderFails(t) ==
    /\ pc[t] \in Encoding
    /\ Fault
    /\ Return(t, "failure")
    /\ UNCHANGED <<static, _ffmpeg_tested, input, output, attempt, broken>>

\* Any other error of an encoder leaves its output as it is: a copy.
EncoderFails(t) ==
    /\ pc[t] \in Encoding
    /\ Fault
    /\ Goto(t, "copy")
    /\ UNCHANGED <<static, _ffmpeg_tested, input, output, attempt, result, broken>>

-----------------------------------------------------------------------------
(* _copy_file and ZeroCopyTransfer.copy_file                               *)

\* An attempt has failed: three attempts for a processor, one for the worker
\* itself, no further one without an input.
VideoCopyAgain(t) ==
    IF attempt[t] + 1 < Max_attempts
    THEN Goto(t, "copy") /\ attempt' = [attempt EXCEPT ![t] = @ + 1] /\ UNCHANGED result
    ELSE Return(t, "failure") /\ UNCHANGED attempt

AudioCopyAgain(t) ==
    IF attempt[t] + 1 < Max_attempts
    THEN Goto(t, "copy") /\ attempt' = [attempt EXCEPT ![t] = @ + 1] /\ UNCHANGED result
    ELSE Return(t, "failure") /\ UNCHANGED attempt

ImageCopyAgain(t) ==
    IF attempt[t] + 1 < Max_attempts
    THEN Goto(t, "copy") /\ attempt' = [attempt EXCEPT ![t] = @ + 1] /\ UNCHANGED result
    ELSE Return(t, "failure") /\ UNCHANGED attempt

\* The copies of the worker itself do without further attempts: for them
\* attempt is Max_attempts.
CopyFails(t) ==
    CASE attempt[t] = Max_attempts -> Return(t, "failure") /\ UNCHANGED attempt
      [] kind[t] = "video" -> VideoCopyAgain(t)
      [] kind[t] = "audio" -> AudioCopyAgain(t)
      [] OTHER             -> ImageCopyAgain(t)

\* Validation, then the old output is removed; large files go by sendfile.
StartCopy(t) ==
    /\ pc[t] \in {"copy", "last_copy"}
    /\ IF input = "gone"
       THEN Return(t, "failure") /\ UNCHANGED <<output, attempt>>
       ELSE /\ output' = [output EXCEPT ![t] = "empty"]
            /\ \E p \in {"sendfile", "aiofiles"} : Goto(t, p)
            /\ attempt' = [attempt EXCEPT ![t] = IF pc[t] = "last_copy" THEN Max_attempts ELSE @]
            /\ UNCHANGED result
    /\ UNCHANGED <<static, _ffmpeg_tested, input, faults, broken>>

Copied(t) ==
    /\ pc[t] \in {"sendfile", "aiofiles"}
    /\ output' = [output EXCEPT ![t] = "copy"]
    /\ Goto(t, "verify")
    /\ UNCHANGED <<static, _ffmpeg_tested, input, attempt, result, faults, broken>>

\* sendfile fails or sends too little: aiofiles from the beginning.
SendfileFails(t) ==
    /\ pc[t] = "sendfile"
    /\ Fault
    /\ IF input = "gone"
       THEN CopyFails(t) /\ UNCHANGED output
       ELSE /\ Goto(t, "aiofiles") /\ output' = [output EXCEPT ![t] = "empty"]
            /\ UNCHANGED <<attempt, result>>
    /\ UNCHANGED <<static, _ffmpeg_tested, input, broken>>

AiofilesFails(t) ==
    /\ pc[t] = "aiofiles"
    /\ Fault
    /\ broken' = [broken EXCEPT ![t] = @ + 1]
    /\ CopyFails(t)
    /\ UNCHANGED <<static, _ffmpeg_tested, input, output>>

\* The size at the output path is the size read at the start.
Verify(t) ==
    /\ pc[t] = "verify"
    /\ IF attempt[t] = Max_attempts THEN Return(t, "success")
       ELSE Goto(t, "claimed") /\ UNCHANGED result
    /\ UNCHANGED <<static, _ffmpeg_tested, input, output, attempt, faults, broken>>

-----------------------------------------------------------------------------
\* The caller of this or of another message with the same file has seen the size
\* of its output stand still for some seconds: it removes the downloaded file.
Unlink ==
    /\ input = "whole"
    /\ input' = "gone"
    /\ UNCHANGED <<static, _ffmpeg_tested, output, pc, attempt, result, faults, broken>>

Conversion(t) == \/ ProcessVideo(t) \/ ProcessAudio(t) \/ ProcessImage(t)
                 \/ RunVideo(t) \/ RunAudio(t) \/ RunImage(t)
                 \/ Grows(t) \/ Encoded(t)
                 \/ CheckVideo(t) \/ CheckAudio(t) \/ CheckImage(t)
                 \/ HardwareFails(t) \/ EncoderFails(t)
Copy(t) == \/ StartCopy(t) \/ Copied(t) \/ SendfileFails(t) \/ AiofilesFails(t) \/ Verify(t)
Step(t) == Execute(t) \/ Claimed(t) \/ Conversion(t) \/ Copy(t)

Done == \A t \in Tasks : pc[t] = "done"

Next == \/ \E t \in Tasks : Step(t)
        \/ Unlink
        \/ Done /\ UNCHANGED vars

Spec == Init /\ [][Next]_vars

-----------------------------------------------------------------------------
\* Every variable has its type.
TypeOK ==
    /\ kind \in [Tasks -> Kinds] /\ metadata \in Metadata
    /\ config \in Configs /\ _ffmpeg_tested \in BOOLEAN
    /\ input \in {"whole", "gone"} /\ output \in [Tasks -> Outputs]
    /\ attempt \in [Tasks -> 0 .. Max_attempts]
    /\ result \in [Tasks -> {"none", "success", "failure"}]
    /\ faults \in 0 .. MaxFaults

\* A task that succeeds has a whole copy or a finished conversion of a likely
\* size at its output path, whichever encoders and copies broke off before, and
\* also when its input is unlinked under its hands (manager.py:936-1030).
SuccessIsWhole ==
    \A t \in Tasks : result[t] = "success" => output[t] \in {"copy", "converted"}

\* No encoder decides over a task: as long as the input is there, it fails only
\* after three broken copies, or one where the worker itself copies.
CopiesRescue ==
    \A t \in Tasks : result[t] = "failure" /\ input = "whole" =>
      broken[t] >= IF attempt[t] = Max_attempts THEN 1 ELSE Max_attempts
=============================================================================
