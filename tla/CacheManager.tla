---------------------------- MODULE CacheManager ----------------------------
(***************************************************************************)
(* The cache of src/src/core/cache.py and its life on the disk.            *)
(*                                                                         *)
(* One CacheManager exists per process (get_cache_manager), with the LRU   *)
(* strategy and no default time to live.  Its clients -- downloader,       *)
(* exporter, health check -- call set, get and delete, whose critical      *)
(* sections hold no await and so are single steps.  _auto_save_loop writes *)
(* the entries from time to time, shutdown() a last time.  _save_cache     *)
(* awaits each of its file operations, between which clients run:          *)
(*                                                                         *)
(*   idle -> reading -> openBackup -> writeBackup -> openFile -> writeFile *)
(*                                                                         *)
(* where opening truncates.  A step of a save may be interrupted: the      *)
(* process is killed, the operation raises, or shutdown() cancels the loop *)
(* (the thread of aiofiles ends its one operation nonetheless, and is      *)
(* taken to end it before the next save begins).  What is in the file then *)
(* is any beginning of the bytes.                                          *)
(*                                                                         *)
(* A value is abstracted to the number of the set call that stored it;     *)
(* compression and encoding, which keep the value, and statistics are left *)
(* out.                                                                    *)
(***************************************************************************)
EXTENDS Naturals, Sequences, Selection

CONSTANTS
    Keys,         \* the keys in use
    TtlKeys,      \* those set with a time to live: counts of messages
    MaxSize,      \* max_size
    MaxSets,      \* bound: calls of set
    MaxFaults     \* bound: interrupted saves and kills

ASSUME CacheAssumption ==
    /\ TtlKeys \subseteq Keys
    /\ MaxSize \in Nat \ {0}
    /\ MaxSets \in Nat
    /\ MaxFaults \in Nat

VARIABLES
    state,     \* of the process: "down", "running", "closing", "closed"
    cache,     \* _cache, least recently used first
    dirty,     \* _dirty
    saver,     \* where _save_cache stands
    bytes,     \* content, then json_bytes, of _save_cache
    file,      \* what is at cache_path
    backup,    \* what is at backup_path
    sets,      \* calls of set so far
    expired,   \* the calls of set whose time to live is over
    faults,    \* interruptions so far
    saved,     \* history: what cache_path held when it last was whole
    late       \* history: the cache was changed since its last snapshot

files == <<file, backup, saved>>
clientVars == <<cache, dirty, sets, late>>
vars == <<state, cache, dirty, saver, bytes, file, backup, sets, expired,
          faults, saved, late>>

Entries == [key : Keys, ver : 1 .. MaxSets]

\* The contents of a file: none, no bytes, a broken part, or all of a save.
Content(kind) == [kind |-> kind, entries |-> <<>>]
Absent == Content("absent")
Empty  == Content("empty")
Torn   == Content("torn")
Whole(es) == [kind |-> "whole", entries |-> es]
Contents == {Absent, Empty, Torn} \cup [kind : {"whole"}, entries : Seq(Entries)]

\* Every beginning of the bytes of content c.
Beginnings(c) == IF c.kind \in {"torn", "whole"} THEN {Empty, Torn, c} ELSE {c}

TypeOK ==
    /\ state \in {"down", "running", "closing", "closed"}
    /\ cache \in Seq(Entries)
    /\ Len(cache) <= MaxSize
    /\ dirty \in BOOLEAN
    /\ saver \in {"idle", "reading", "openBackup", "writeBackup", "openFile",
                  "writeFile"}
    /\ {bytes, file, backup, saved} \subseteq Contents
    /\ sets \in 0 .. MaxSets
    /\ expired \subseteq 1 .. MaxSets
    /\ faults \in 0 .. MaxFaults
    /\ late \in BOOLEAN

Init ==
    /\ state = "down"
    /\ cache = <<>> /\ dirty = FALSE
    /\ saver = "idle" /\ bytes = Absent
    /\ file = Absent /\ backup = Absent
    /\ sets = 0 /\ expired = {} /\ faults = 0
    /\ saved = Absent /\ late = FALSE

Alive(e) == e.ver \notin expired
Unexpired(es) == Select(es, {e \in Entries : Alive(e)})
Without(k) == Select(cache, {e \in Entries : e.key # k})

\* The snapshot under the lock; then the file is opened.
TakeSnapshot ==
    /\ bytes' = Whole(Unexpired(cache))
    /\ late' = FALSE
    /\ saver' = "openFile"

-----------------------------------------------------------------------------
(* Faulty variants of definitions below, each a slip this code could have   *)
(* made.  No specification uses them: they show which property fails.       *)

\* The flag is cleared when the save begins.
ClearingFirst ==
    /\ state \in {"running", "closing"}
    /\ saver = "idle" /\ dirty
    /\ dirty' = FALSE
    /\ IF file = Absent
         THEN TakeSnapshot
         ELSE saver' = "reading" /\ UNCHANGED <<bytes, late>>
    /\ UNCHANGED <<state, cache, sets, files, expired, faults>>

\* The file is not copied before it is written over.
NoCopy ==
    /\ saver = "reading"
    /\ TakeSnapshot
    /\ UNCHANGED <<state, cache, dirty, sets, files, expired, faults>>

\* The flag is not cleared.
StaysDirty ==
    /\ saver = "writeFile"
    /\ saver' = "idle"
    /\ file' = bytes /\ saved' = bytes /\ bytes' = Absent
    /\ UNCHANGED <<state, cache, dirty, backup, sets, late, expired, faults>>

-----------------------------------------------------------------------------
(* start and _load_cache                                                    *)

\* What a start finds: a file that does not parse is replaced by the backup,
\* an empty one is taken as it is.
Loaded ==
    Unexpired(IF file = Torn THEN backup.entries ELSE file.entries)

\* The flag stays as in a new object, also after a restore.
Start ==
    /\ state \in {"down", "closed"}
    /\ state' = "running"
    /\ cache' = Loaded
    /\ dirty' = FALSE
    /\ late' = FALSE
    /\ UNCHANGED <<saver, bytes, files, sets, expired, faults>>

-----------------------------------------------------------------------------
(* The clients                                                              *)

\* _evict_if_needed: one more than needed goes, the oldest first.
Evicted(es) ==
    IF Len(es) <= MaxSize THEN es ELSE SubSeq(es, Len(es) - MaxSize + 2, Len(es))

Changed == dirty' = TRUE /\ late' = TRUE

\* set: the key moves to the end.
Set(k) ==
    /\ state = "running"
    /\ sets < MaxSets
    /\ sets' = sets + 1
    /\ cache' = Evicted(Append(Without(k), [key |-> k, ver |-> sets + 1]))
    /\ Changed
    /\ UNCHANGED <<state, saver, bytes, files, expired, faults>>

\* get: an expired entry is deleted, another moves to the end.
Get(k) ==
    /\ state = "running"
    /\ \E i \in DOMAIN cache :
         /\ cache[i].key = k
         /\ IF Alive(cache[i])
              THEN cache' = Append(Without(k), cache[i]) /\ UNCHANGED <<dirty, late>>
              ELSE cache' = Without(k) /\ Changed
    /\ UNCHANGED <<state, saver, bytes, files, sets, expired, faults>>

Delete(k) ==
    /\ state = "running"
    /\ \E i \in DOMAIN cache : cache[i].key = k
    /\ cache' = Without(k)
    /\ Changed
    /\ UNCHANGED <<state, saver, bytes, files, sets, expired, faults>>

Clear ==
    /\ state = "running"
    /\ cache' = <<>>
    /\ Changed
    /\ UNCHANGED <<state, saver, bytes, files, sets, expired, faults>>

\* Time passes: the entry of one call of set, wherever it is, is over.
Expire ==
    /\ \E i \in DOMAIN cache :
         /\ cache[i].key \in TtlKeys /\ Alive(cache[i])
         /\ expired' = expired \cup {cache[i].ver}
    /\ UNCHANGED <<state, clientVars, saver, bytes, files, faults>>

-----------------------------------------------------------------------------
(* _save_cache: TakeSnapshot above is its middle                            *)

\* By the loop after its sleep or by shutdown.  Without a file there is no
\* await before the snapshot.
BeginSave ==
    /\ state \in {"running", "closing"}
    /\ saver = "idle" /\ dirty
    /\ IF file = Absent
         THEN TakeSnapshot
         ELSE saver' = "reading" /\ UNCHANGED <<bytes, late>>
    /\ UNCHANGED <<state, cache, dirty, sets, files, expired, faults>>

ReadFile ==
    /\ saver = "reading"
    /\ saver' = "openBackup"
    /\ bytes' = file
    /\ UNCHANGED <<state, clientVars, files, expired, faults>>

OpenBackup ==
    /\ saver = "openBackup"
    /\ saver' = "writeBackup"
    /\ backup' = Empty
    /\ UNCHANGED <<state, clientVars, bytes, file, saved, expired, faults>>

WriteBackup ==
    /\ saver = "writeBackup"
    /\ backup' = bytes
    /\ TakeSnapshot
    /\ UNCHANGED <<state, cache, dirty, sets, file, saved, expired, faults>>

OpenFile ==
    /\ saver = "openFile"
    /\ saver' = "writeFile"
    /\ file' = Empty
    /\ UNCHANGED <<state, clientVars, bytes, backup, saved, expired, faults>>

\* The file is written and closed, then the flag is cleared.
WriteFile ==
    /\ saver = "writeFile"
    /\ saver' = "idle"
    /\ file' = bytes /\ saved' = bytes /\ bytes' = Absent
    /\ dirty' = FALSE
    /\ UNCHANGED <<state, cache, sets, late, backup, expired, faults>>

SaveStep == ReadFile \/ OpenBackup \/ WriteBackup \/ OpenFile \/ WriteFile

\* The save stops in the middle of the operation it is at.
CutShort ==
    /\ faults < MaxFaults
    /\ faults' = faults + 1
    /\ \/ /\ saver = "reading"
          /\ UNCHANGED files
       \/ /\ saver = "openBackup"
          /\ backup' \in {backup, Empty}
          /\ UNCHANGED <<file, saved>>
       \/ /\ saver = "writeBackup"
          /\ backup' \in Beginnings(bytes)
          /\ UNCHANGED <<file, saved>>
       \/ /\ saver = "openFile"
          /\ file' \in {file, Empty}
          /\ UNCHANGED <<backup, saved>>
       \/ /\ saver = "writeFile"
          /\ file' \in Beginnings(bytes)
          /\ saved' = (IF file' = bytes THEN bytes ELSE saved)
          /\ UNCHANGED backup
    /\ saver' = "idle" /\ bytes' = Absent

\* A file operation raises.  The loop logs it and goes on; the last save
\* raises it and the shutdown is over.
SaveFails ==
    /\ CutShort
    /\ state' = IF state = "closing" THEN "closed" ELSE state
    /\ UNCHANGED <<clientVars, expired>>

-----------------------------------------------------------------------------
(* shutdown and the end of the process                                      *)

\* The loop is cancelled, wherever it is, and awaited.
Shutdown ==
    /\ state = "running"
    /\ state' = "closing"
    /\ \/ saver = "idle" /\ UNCHANGED <<saver, bytes, files, faults>>
       \/ CutShort
    /\ UNCHANGED <<clientVars, expired>>

\* Nothing is left to be saved.
Close ==
    /\ state = "closing"
    /\ saver = "idle" /\ ~dirty
    /\ state' = "closed"
    /\ UNCHANGED <<clientVars, saver, bytes, files, expired, faults>>

\* The process is killed.
Kill ==
    /\ state \in {"running", "closing"}
    /\ state' = "down"
    /\ cache' = <<>> /\ dirty' = FALSE /\ late' = FALSE
    /\ \/ /\ saver = "idle"
          /\ faults < MaxFaults /\ faults' = faults + 1
          /\ UNCHANGED <<saver, bytes, files>>
       \/ CutShort
    /\ UNCHANGED <<sets, expired>>

Client == \/ \E k \in Keys : Set(k) \/ Get(k) \/ Delete(k)
          \/ Clear

Next == \/ Start
        \/ Client
        \/ Expire
        \/ BeginSave
        \/ SaveStep
        \/ SaveFails
        \/ Shutdown
        \/ Close
        \/ Kill

Spec == Init /\ [][Next]_vars

\* The loop's sleep ends, file operations end, and shutdown() goes on.  Nobody
\* is obliged to call the cache, to stop it, or to start it again.
FairSpec == Spec /\ WF_vars(BeginSave) /\ WF_vars(SaveStep) /\ WF_vars(Close)

-----------------------------------------------------------------------------
(* Properties                                                               *)

Contained(es) == {es[i] : i \in DOMAIN es}

\* When nothing is to be saved, a restart would find exactly the entries in
\* memory, after any interruptions, restores, evictions and expiries -- unless
\* the cache was changed while its last snapshot was being written, for the
\* flag is cleared all the same (_save_cache, _dirty).
CleanMeansSaved ==
    state # "down" /\ ~dirty /\ ~late
      => Contained(Loaded) = Contained(Unexpired(cache))

\* One interruption at any point -- a kill, a failing write, the cancellation
\* by shutdown -- loses no entry that was saved: when the process is gone, a
\* restart finds them, or else the file is empty and the backup has them
\* (_load_cache does not look at the backup of an empty file).
OneFaultRecovers ==
    state \in {"down", "closed"} /\ faults <= 1 /\ saved # Absent
      => \/ Loaded = Unexpired(saved.entries)
         \/ file = Empty /\ backup = saved

\* What is to be saved is saved at last, over failing saves, unless the process
\* is gone first (_auto_save_loop goes on after an exception).
DirtyEnds == dirty ~> (~dirty \/ state \in {"down", "closed"})

\* Read from the comment on the final save of shutdown(): after a shutdown in
\* which nothing failed, a restart finds what was in memory.  It need not: a
\* set during the last automatic save is lost, since that save clears _dirty.
ShutdownSaves ==
    state = "closed" /\ faults = 0
      => Contained(Loaded) = Contained(Unexpired(cache))
=============================================================================
