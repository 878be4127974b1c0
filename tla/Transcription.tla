---------------------------- MODULE Transcription ----------------------------
(***************************************************************************)
(* The transcription of voice messages (media/processors/transcription.py  *)
(* and transcribe_audio of media/manager.py).  Each call runs in a thread  *)
(* of the default executor and shares with the others the Whisper model,   *)
(* which the first of them loads, and the directory of cached results.     *)
(*                                                                         *)
(* A voice file is the number of its version, 0 while nothing is at its    *)
(* path: it is copied there, moved away and copied again by others.  Two   *)
(* versions differ in size or modification time, which is what a cache key *)
(* is made of.  A text is the version it is the text of.  The model is     *)
(* never unloaded: nothing calls unload_model or schedule_auto_unload_async.*)
(***************************************************************************)
EXTENDS Naturals, FiniteSets

CONSTANTS
  Calls,       \* threads that transcribe
  Files,       \* paths of voice files
  MaxVersions, \* bound: versions the files have, one after the other
  MaxKills     \* bound: how often the program is killed

TranscriptionAssumption == MaxVersions \in Nat /\ MaxKills \in Nat

VARIABLES
  enable_cache, use_batched, \* configuration
  file,            \* file[f]: version at path f
  versions,        \* versions made so far
  cache_dir,       \* cache_dir[k]: content of the entry with key k
  _model, _batched_model, is_loaded,
  pc,              \* where the call is
  path,            \* path[c]: of its file
  heard,           \* heard[c]: the version Whisper has read
  entry,           \* entry[c]: key of the entry it writes
  result,          \* result[c]: the text returned, NoText for None
  asked,           \* history: asked[c], the version at the call
  disturbed,       \* history: files that changed under a call
  kills

config == <<enable_cache, use_batched>>
model == <<_model, _batched_model, is_loaded>>
disk == <<file, versions, disturbed>>
vars == <<config, disk, cache_dir, model, pc, path, heard, entry, result,
          asked, kills>>

NoText   == 0
Missing  == 0
Broken   == MaxVersions + 1
Versions == 1 .. MaxVersions

\* An empty or cut-off entry is no JSON, nor is one with the tail of another.
\* stat of a missing file fails and leaves the name alone, the version 0.
Keys == Files \X (0 .. MaxVersions)
None == <<>>

\* Mutant: the key is the name of the file.
NameKey(f) == <<f, 0>>

Key(f) == <<f, file[f]>>

Init ==
  /\ enable_cache \in BOOLEAN /\ use_batched \in BOOLEAN
  /\ file = [f \in Files |-> 0] /\ versions = 0
  /\ cache_dir = [k \in Keys |-> Missing]
  /\ _model = FALSE /\ _batched_model = FALSE /\ is_loaded = FALSE
  /\ pc = [c \in Calls |-> "idle"] /\ path \in [Calls -> Files]
  /\ heard = [c \in Calls |-> NoText] /\ entry = [c \in Calls |-> None]
  /\ result = [c \in Calls |-> NoText] /\ asked = [c \in Calls |-> 0]
  /\ disturbed = {} /\ kills = 0

Active(c) == pc[c] \notin {"idle", "done"}
Goto(c, p) == pc' = [pc EXCEPT ![c] = p]

\* Also what an exception comes to: transcribe_audio catches it.
Return(c, text) ==
  /\ Goto(c, "done")
  /\ result' = [result EXCEPT ![c] = text]
  /\ heard' = [heard EXCEPT ![c] = NoText]
  /\ entry' = [entry EXCEPT ![c] = None]

-----------------------------------------------------------------------------
(* transcribe and load_model                                                *)

\* transcribe_audio hands the call to a thread.
TranscribeAudio(c) ==
  /\ ~Active(c)
  /\ \E f \in Files : /\ path' = [path EXCEPT ![c] = f]
                      /\ asked' = [asked EXCEPT ![c] = file[f]]
  /\ Goto(c, "begin")
  /\ result' = [result EXCEPT ![c] = NoText]
  /\ UNCHANGED <<config, disk, cache_dir, model, heard, entry, kills>>

Begin(c) ==
  /\ pc[c] = "begin"
  /\ Goto(c, IF is_loaded THEN "look" ELSE "loading")
  /\ UNCHANGED <<config, disk, cache_dir, model, path, heard, entry, result,
                 asked, kills>>

LoadModel(c) ==
  /\ pc[c] = "loading"
  /\ _model' = TRUE
  /\ IF use_batched THEN Goto(c, "batching") /\ UNCHANGED is_loaded
                    ELSE Goto(c, "look") /\ is_loaded' = TRUE
  /\ UNCHANGED <<config, disk, cache_dir, _batched_model, path, heard, entry,
                 result, asked, kills>>

LoadBatched(c) ==
  /\ pc[c] = "batching"
  /\ _batched_model' = TRUE /\ is_loaded' = TRUE
  /\ Goto(c, "look")
  /\ UNCHANGED <<config, disk, cache_dir, _model, path, heard, entry, result,
                 asked, kills>>

LoadFails(c) ==
  /\ pc[c] \in {"loading", "batching"}
  /\ Return(c, NoText)
  /\ UNCHANGED <<config, disk, cache_dir, model, path, asked, kills>>

\* A missing file is found out only after the model has been loaded for it.
Look(c) ==
  /\ pc[c] = "look"
  /\ IF file[path[c]] = 0 THEN Return(c, NoText)
     ELSE /\ Goto(c, IF enable_cache THEN "lookup" ELSE "measure")
          /\ UNCHANGED <<heard, entry, result>>
  /\ UNCHANGED <<config, disk, cache_dir, model, path, asked, kills>>

\* An unreadable entry counts as none.
Lookup(c) ==
  /\ pc[c] = "lookup"
  /\ LET found == cache_dir[Key(path[c])]
     IN  IF found \in Versions THEN Return(c, found)
         ELSE Goto(c, "measure") /\ UNCHANGED <<heard, entry, result>>
  /\ UNCHANGED <<config, disk, cache_dir, model, path, asked, kills>>

\* ffprobe tells the duration, on which the choice of the model rests.  When it
\* does not, the line that is logged next formats None as a number and raises.
Measure(c) ==
  /\ pc[c] = "measure"
  /\ \/ /\ file[path[c]] # 0 /\ Goto(c, "hear")
        /\ UNCHANGED <<heard, entry, result>>
     \/ Return(c, NoText)
  /\ UNCHANGED <<config, disk, cache_dir, model, path, asked, kills>>

\* Whisper reads the whole file before it goes to work.
Hear(c) ==
  /\ pc[c] = "hear" /\ file[path[c]] # 0
  /\ _model \/ _batched_model
  /\ IF enable_cache
     THEN /\ heard' = [heard EXCEPT ![c] = file[path[c]]]
          /\ Goto(c, "open") /\ UNCHANGED <<entry, result>>
     ELSE Return(c, file[path[c]])
  /\ UNCHANGED <<config, disk, cache_dir, model, path, asked, kills>>

HearFails(c) ==
  /\ pc[c] = "hear"
  /\ Return(c, NoText)
  /\ UNCHANGED <<config, disk, cache_dir, model, path, asked, kills>>

-----------------------------------------------------------------------------
(* _save_to_cache: the key is made anew, of the file as it is now           *)

OpenEntry(c) ==
  /\ pc[c] = "open"
  /\ entry' = [entry EXCEPT ![c] = Key(path[c])]
  /\ cache_dir' = [cache_dir EXCEPT ![Key(path[c])] = Broken]
  /\ Goto(c, "write")
  /\ UNCHANGED <<config, disk, model, path, heard, result, asked, kills>>

\* Whoever has opened the entry as well may have written more than this call.
WriteEntry(c) ==
  /\ pc[c] = "write"
  /\ \E text \in {heard[c]}
                 \cup (IF cache_dir[entry[c]] = Broken THEN {} ELSE {Broken}) :
       cache_dir' = [cache_dir EXCEPT ![entry[c]] = text]
  /\ Return(c, heard[c])
  /\ UNCHANGED <<config, disk, model, path, asked, kills>>

\* A failing save is not told to anybody.
SaveFails(c) ==
  /\ pc[c] \in {"open", "write"}
  /\ \/ UNCHANGED cache_dir
     \/ pc[c] = "write" /\ cache_dir' = [cache_dir EXCEPT ![entry[c]] = Broken]
  /\ Return(c, heard[c])
  /\ UNCHANGED <<config, disk, model, path, asked, kills>>

-----------------------------------------------------------------------------

Transcribe(c) ==
  \/ Begin(c) \/ LoadModel(c) \/ LoadBatched(c) \/ LoadFails(c) \/ Look(c)
  \/ Lookup(c) \/ Measure(c) \/ Hear(c) \/ HearFails(c)
  \/ OpenEntry(c) \/ WriteEntry(c) \/ SaveFails(c)

\* Copies to the path, which may be seen in part, and moves away from it.
Change(f) ==
  /\ \/ /\ versions < MaxVersions /\ versions' = versions + 1
        /\ file' = [file EXCEPT ![f] = versions']
     \/ file[f] # 0 /\ file' = [file EXCEPT ![f] = 0] /\ UNCHANGED versions
  /\ disturbed' = IF \E c \in Calls : Active(c) /\ path[c] = f
                  THEN disturbed \cup {f} ELSE disturbed
  /\ UNCHANGED <<config, cache_dir, model, pc, path, heard, entry, result,
                 asked, kills>>

\* The process is killed and started again; the next run finds the cache.
Kill ==
  /\ kills < MaxKills /\ kills' = kills + 1
  /\ pc' = [c \in Calls |-> "idle"]
  /\ heard' = [c \in Calls |-> NoText] /\ entry' = [c \in Calls |-> None]
  /\ result' = [c \in Calls |-> NoText]
  /\ _model' = FALSE /\ _batched_model' = FALSE /\ is_loaded' = FALSE
  /\ UNCHANGED <<config, disk, cache_dir, path, asked>>

Next ==
  \/ \E c \in Calls : TranscribeAudio(c) \/ Transcribe(c)
  \/ \E f \in Files : Change(f)
  \/ Kill

Spec == Init /\ [][Next]_vars

-----------------------------------------------------------------------------
(* Properties                                                               *)

TypeOK ==
  /\ config \in BOOLEAN \X BOOLEAN
  /\ file \in [Files -> 0 .. MaxVersions] /\ versions \in 0 .. MaxVersions
  /\ cache_dir \in [Keys -> 0 .. Broken]
  /\ model \in BOOLEAN \X BOOLEAN \X BOOLEAN
  /\ pc \in [Calls -> {"idle", "begin", "loading", "batching", "look", "lookup",
                       "measure", "hear", "open", "write", "done"}]
  /\ path \in [Calls -> Files] /\ entry \in [Calls -> Keys \cup {None}]
  /\ heard \in [Calls -> 0 .. MaxVersions]
  /\ result \in [Calls -> 0 .. MaxVersions]
  /\ asked \in [Calls -> 0 .. MaxVersions]
  /\ disturbed \subseteq Files /\ kills \in 0 .. MaxKills

\* Whatever other threads, failing writes and kills leave in the cache of
\* transcriptions, a text that is returned is the text of the file that was
\* asked for, as long as the files at this path change between calls only.
AnswerIsOfFile ==
  \A c \in Calls :
    pc[c] = "done" /\ result[c] # NoText /\ path[c] \notin disturbed
      => result[c] = asked[c]

\* "Auto-load model on first use" (transcription.py): the first use loads it,
\* not each call that comes before the loading is done.
LoadedOnce ==
  \A c, d \in Calls : pc[c] \in {"loading", "batching"}
                      /\ pc[d] \in {"loading", "batching"} => c = d

\* "If duration unknown, use conservative default" (transcription.py): a file is
\* heard although ffprobe does not tell its duration.
UnknownIsHeard == [][\A c \in Calls : pc[c] = "measure" => pc'[c] # "done"]_vars
=============================================================================
