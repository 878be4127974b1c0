------------------------------ MODULE MCMedia -------------------------------
(* Processing media: the queue, the workers and the waiting calls          *)
(* (MediaProcessing), what a processor does to one file (MediaConversion)  *)
(* and the transcription of voice messages (Transcription).  They share no *)
(* state here; a behaviour is one of the component that "which" names, and *)
(* is fair when it is one of MediaProcessing.                              *)
EXTENDS MediaProcessing, TLC

CONSTANTS m1, m2, f1, f2, Tasks, MaxFaults, Threads, VoiceFiles, MaxVersions,
          MaxRestarts

VARIABLES which, kind, metadata, config, _ffmpeg_tested, source, product, pc,
          attempt, result, broken, faults,
          enable_cache, use_batched, voice, versions, cache_dir, _model,
          _batched_model, is_loaded, at, path, heard, entry, text, asked,
          disturbed, restarts

conversionVars == <<kind, metadata, config, _ffmpeg_tested, source, product,
                    pc, attempt, result, broken, faults>>
voiceVars == <<enable_cache, use_batched, voice, versions, cache_dir, _model,
               _batched_model, is_loaded, at, path, heard, entry, text, asked,
               disturbed, restarts>>

Conversion == INSTANCE MediaConversion WITH input <- source, output <- product
Voice == INSTANCE Transcription WITH Calls <- Threads, Files <- VoiceFiles,
                                     MaxKills <- MaxRestarts, file <- voice,
                                     pc <- at, result <- text, kills <- restarts

MCFiles == {m1 :> f1 @@ m2 :> f1, m1 :> f1 @@ m2 :> f2}

ASSUME VoiceAssumption == Voice!TranscriptionAssumption

(* A component that does not run rests in one of its initial states.       *)
QueueRests == ~deferred /\ file[m2] = f1 /\ processed = Messages
ConversionRests ==
    /\ metadata = "none" /\ kind = [t \in Tasks |-> "other"]
    /\ config = [process |-> FALSE, compress_video |-> FALSE, hardware |-> FALSE]
VoiceRests == enable_cache /\ use_batched

MediaInit ==
    /\ Init /\ Conversion!Init /\ Voice!Init
    /\ \/ which = "queue" /\ ConversionRests /\ VoiceRests
       \/ which = "conversion" /\ QueueRests /\ VoiceRests
       \/ which = "voice" /\ QueueRests /\ ConversionRests

MediaNext ==
    \/ which = "queue" /\ Next /\ UNCHANGED <<which, conversionVars, voiceVars>>
    \/ which = "conversion" /\ Conversion!Next
         /\ UNCHANGED <<which, vars, voiceVars>>
    \/ which = "voice" /\ Voice!Next /\ UNCHANGED <<which, vars, conversionVars>>

MediaSpec ==
    /\ MediaInit /\ [][MediaNext]_<<which, vars, conversionVars, voiceVars>>
    /\ Fairness

(* The export ends, with or without results.                               *)
QueueDone == which = "queue" => ExportDone

(* A task that succeeds has something whole at its output path.            *)
SuccessIsWhole == Conversion!SuccessIsWhole

(* Whatever an encoder does, a task is rescued by copying its input.       *)
CopiesRescue == Conversion!CopiesRescue

(* The text of a voice message is the text of its file.                    *)
AnswerIsOfFile == Voice!AnswerIsOfFile
=============================================================================
