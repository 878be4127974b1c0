-------------------------- MODULE ProgramLifecycle --------------------------
(***************************************************************************)
(* The life of the program (src/main.py: async_main): the start of the     *)
(* core systems (src/src/core_manager.py over the monitors of cache.py,    *)
(* connection.py and performance.py), the export, and the two nested       *)
(* finally blocks with the cleanup hooks of shutdown_manager.py, with      *)
(* SIGINT at any moment.                                                   *)
(*                                                                         *)
(* The export is a counter of exported messages whose progress is set in   *)
(* the cache now and then; ExportSession has its detail, CacheManager that *)
(* of a save, which is one step here.                                      *)
(***************************************************************************)
EXTENDS Integers, Sequences, FiniteSets

CONSTANTS
  MaxMessages,  \* bound: messages the export handles
  MaxFaults,    \* bound: exceptions raised in main and failing hooks
  MaxSignals    \* bound: SIGINTs

LifecycleAssumption == {MaxMessages, MaxFaults, MaxSignals} \subseteq Nat

VARIABLES
  pc,                 \* where async_main is
  shutdown_requested,
  signals,
  graceful,           \* history: run_graceful_cleanup has gone through its hooks
  how,                \* how main goes on: "returns", "raises", or "forced" by sys.exit
  systems,            \* systems[c]: life of each core system
  _initialized,       \* of the CoreSystemManager
  _task_group_runner, \* its health checks: "none", "running" or "done"
  memory, dirty, file,\* progress in the cache, its dirty flag, progress in its file
  exported,           \* messages exported
  telegram, http, media, \* their life
  hooks,              \* async cleanup hooks still to be registered or run
  faults,
  cleared             \* history: the emergency adaptation cleared the cache

core  == <<systems, _initialized, _task_group_runner>>
cache == <<memory, dirty, file>>
parts == <<telegram, http, media>>
sig   == <<shutdown_requested, signals>>
vars  == <<pc, sig, graceful, how, core, cache, exported, parts, hooks, faults, cleared>>

Systems == {"monitor", "cache", "connection"}
Lives   == {"none", "up", "down"}

Init ==
    /\ pc = "monitor" /\ shutdown_requested = FALSE /\ signals = 0
    /\ graceful = FALSE /\ how = "returns"
    /\ systems = [c \in Systems |-> "none"]
    /\ _initialized = FALSE /\ _task_group_runner = "none"
    /\ memory = 0 /\ dirty = FALSE /\ file = 0 /\ exported = 0
    /\ telegram = "none" /\ http = "none" /\ media = "none"
    /\ hooks = <<>>
    /\ faults = 0 /\ cleared = FALSE

Fault == faults < MaxFaults /\ faults' = faults + 1

-----------------------------------------------------------------------------
(* CoreSystemManager.initialize                                            *)

\* One system after the other; the last one completes the initialization.
StartSystem ==
    /\ pc \in Systems
    /\ systems' = [systems EXCEPT ![pc] = "up"]
    /\ pc' = CASE pc = "monitor" -> "cache" [] pc = "cache" -> "connection"
               [] pc = "connection" -> "connect"
    /\ _initialized' = (pc = "connection")
    /\ _task_group_runner' = IF pc = "connection" THEN "running" ELSE "none"
    /\ UNCHANGED <<sig, graceful, how, cache, exported, parts, hooks, faults, cleared>>

\* The cache's directory cannot be made: _cleanup_on_failure calls shutdown(),
\* which does nothing before the initialization is complete; main goes on.
StartFails ==
    /\ pc = "cache"
    /\ Fault
    /\ pc' = "connect"
    /\ UNCHANGED <<sig, graceful, how, core, cache, exported, parts, hooks, cleared>>

-----------------------------------------------------------------------------
(* async_main                                                              *)

Connect ==
    /\ pc = "connect"
    /\ telegram' = "up"
    /\ pc' = "configure"
    /\ UNCHANGED <<sig, graceful, how, core, cache, exported, http, media, hooks,
                   faults, cleared>>

\* The menus and precheck_takeout: start the export, or return.
Configure ==
    /\ pc = "configure"
    /\ \/ /\ pc' = "start_media"
          /\ http' = "up"
          /\ hooks' = <<"telegram", "http", "cache">>
       \/ pc' = "disconnect" /\ UNCHANGED <<http, hooks>>
    /\ UNCHANGED <<sig, graceful, how, core, cache, exported, telegram, media,
                   faults, cleared>>

\* MediaProcessor.start; the export registers the hook that saves its progress.
StartMedia ==
    /\ pc = "start_media"
    /\ media' = "up"
    /\ hooks' = Append(hooks, "progress")
    /\ pc' = "export"
    /\ UNCHANGED <<sig, graceful, how, core, cache, exported, telegram, http,
                   faults, cleared>>

CacheUp == systems["cache"] # "none"

Export ==
    /\ pc = "export" /\ exported < MaxMessages
    /\ exported' = exported + 1
    /\ UNCHANGED <<pc, sig, graceful, how, core, cache, parts, hooks, faults, cleared>>

\* cache_manager.set of the progress.
Note ==
    /\ memory' = IF CacheUp THEN exported ELSE memory
    /\ dirty' = (dirty \/ CacheUp)
    /\ UNCHANGED file

SaveProgress ==
    /\ pc = "export"
    /\ Note
    /\ UNCHANGED <<pc, sig, graceful, how, core, exported, parts, hooks, faults, cleared>>

\* run_export returns: after the final save of the progress, or earlier when a
\* shutdown is requested.
ExportOver ==
    /\ pc = "export"
    /\ memory = exported \/ ~CacheUp \/ shutdown_requested
    /\ pc' = "stop_media"
    /\ UNCHANGED <<sig, graceful, how, core, cache, exported, parts, hooks,
                   faults, cleared>>

\* Where an exception, or the SystemExit of the second SIGINT, takes main: a
\* finally block, or out of it.
Unwound ==
    CASE pc \in Systems \cup {"connect", "disconnect"} -> "ended"
      [] pc = "configure" -> "disconnect"
      [] pc \in {"start_media", "export"} -> "stop_media"
      [] pc \in {"stop_media", "hooks", "close_http"} -> "disconnect"
      [] OTHER -> "ended"

\* connect, the menus, the media processor or run_export raise; hooks, the
\* disconnect and the shutdown of the core systems catch their exceptions.
Raises ==
    /\ pc \in {"connect", "configure", "start_media", "export", "stop_media", "close_http"}
    /\ Fault
    /\ pc' = Unwound
    /\ how' = "raises"
    /\ UNCHANGED <<sig, graceful, core, cache, exported, parts, hooks, cleared>>

\* The inner finally: media processor first, then the hooks or the HTTP session.
StopMedia ==
    /\ pc = "stop_media"
    /\ media' = IF media = "up" THEN "down" ELSE media
    /\ pc' = IF shutdown_requested THEN "hooks" ELSE "close_http"
    /\ UNCHANGED <<sig, graceful, how, core, cache, exported, telegram, http, hooks,
                   faults, cleared>>

CloseHttp ==
    /\ pc = "close_http"
    /\ http' = "down"
    /\ pc' = "disconnect"
    /\ UNCHANGED <<sig, graceful, how, core, cache, exported, telegram, media, hooks,
                   faults, cleared>>

Saved == file' = memory /\ dirty' = FALSE /\ UNCHANGED memory
SaveIfDirty == IF dirty THEN Saved ELSE UNCHANGED cache

\* run_graceful_cleanup: the next hook does its work or fails.
RunHook ==
    /\ pc = "hooks" /\ hooks # <<>>
    /\ hooks' = Tail(hooks)
    /\ \/ /\ UNCHANGED faults
          /\ telegram' = IF Head(hooks) = "telegram" THEN "down" ELSE telegram
          /\ http'     = IF Head(hooks) = "http" THEN "down" ELSE http
          /\ CASE Head(hooks) = "cache" /\ CacheUp ->
                    SaveIfDirty /\ systems' = [systems EXCEPT !["cache"] = "down"]
               [] Head(hooks) = "progress" -> Note /\ UNCHANGED systems
               [] OTHER -> UNCHANGED <<cache, systems>>
       \/ Fault /\ UNCHANGED <<telegram, http, systems, cache>>
    /\ UNCHANGED <<pc, sig, graceful, how, _initialized, _task_group_runner, exported,
                   media, cleared>>

HooksDone ==
    /\ pc = "hooks" /\ hooks = <<>>
    /\ graceful' = TRUE
    /\ pc' = "disconnect"
    /\ UNCHANGED <<sig, how, core, cache, exported, parts, hooks, faults, cleared>>

\* The outer finally looks at the flag again.
Disconnect ==
    /\ pc = "disconnect"
    /\ telegram' \in IF telegram = "up" /\ ~shutdown_requested THEN {"down"} ELSE {telegram}
    /\ pc' = "stop_checks"
    /\ UNCHANGED <<sig, graceful, how, core, cache, exported, http, media, hooks,
                   faults, cleared>>

\* CoreSystemManager.shutdown: nothing unless initialized, else the health
\* checks first.
StopChecks ==
    /\ pc = "stop_checks"
    /\ IF _initialized
       THEN pc' = "stop_connection" /\ _task_group_runner' = "done"
       ELSE pc' = "ended" /\ UNCHANGED _task_group_runner
    /\ UNCHANGED <<sig, graceful, how, systems, _initialized, cache, exported, parts,
                   hooks, faults, cleared>>

\* The system that is stopped at pc.
Stopped == CASE pc = "stop_connection" -> "connection" [] pc = "stop_cache" -> "cache"
             [] pc = "stop_monitor" -> "monitor"

\* Mutant of StopSystem: the cache goes down before the health checks' last set
\* is saved.
UnsavedStopSystem ==
    /\ pc \in {"stop_connection", "stop_cache", "stop_monitor"}
    /\ pc' = CASE pc = "stop_connection" -> "stop_cache" [] pc = "stop_cache" -> "stop_monitor"
               [] pc = "stop_monitor" -> "ended"
    /\ systems' = [systems EXCEPT ![Stopped] = "down"]
    /\ _initialized' = (pc # "stop_monitor")
    /\ UNCHANGED <<sig, graceful, how, _task_group_runner, cache, exported, parts, hooks,
                   faults, cleared>>

\* The systems in reverse order; the cache saves what is dirty.
StopSystem ==
    /\ pc \in {"stop_connection", "stop_cache", "stop_monitor"}
    /\ pc' = CASE pc = "stop_connection" -> "stop_cache" [] pc = "stop_cache" -> "stop_monitor"
               [] pc = "stop_monitor" -> "ended"
    /\ systems' = [systems EXCEPT ![Stopped] = "down"]
    /\ IF pc = "stop_cache" THEN SaveIfDirty ELSE UNCHANGED cache
    /\ _initialized' = (pc # "stop_monitor")
    /\ UNCHANGED <<sig, graceful, how, _task_group_runner, exported, parts, hooks,
                   faults, cleared>>

-----------------------------------------------------------------------------
(* Background tasks and signals                                            *)

\* The health check writes a key of its own into the cache.
HealthCheck ==
    /\ pc # "ended" /\ _task_group_runner = "running"
    /\ ~dirty /\ dirty' = TRUE
    /\ UNCHANGED <<pc, sig, graceful, how, core, memory, file, exported, parts, hooks,
                   faults, cleared>>

AutoSave ==
    /\ pc # "ended" /\ how # "forced" /\ systems["cache"] = "up" /\ dirty
    /\ Saved
    /\ UNCHANGED <<pc, sig, graceful, how, core, exported, parts, hooks, faults, cleared>>

\* A critical alert of the monitor: the whole cache is cleared.
EmergencyAdaptation ==
    /\ pc # "ended" /\ how # "forced" /\ systems["monitor"] = "up" /\ CacheUp
    /\ ~cleared /\ cleared' = TRUE
    /\ memory' = 0 /\ dirty' = TRUE
    /\ UNCHANGED <<pc, sig, graceful, how, core, file, exported, parts, hooks, faults>>

\* The first SIGINT only sets the flag, and so does a later one when the first
\* is some time ago.
Sigint ==
    /\ pc # "ended" /\ signals < MaxSignals
    /\ signals' = signals + 1
    /\ shutdown_requested' = TRUE
    /\ UNCHANGED <<pc, graceful, how, core, cache, exported, parts, hooks, faults, cleared>>

\* A second SIGINT shortly after: sys.exit raises SystemExit, the event loop
\* ends, all tasks are cancelled, and main runs through its finally blocks.
ForceShutdown ==
    /\ pc # "ended" /\ signals \in 1 .. MaxSignals - 1
    /\ signals' = signals + 1
    /\ pc' = Unwound
    /\ how' = "forced"
    /\ _task_group_runner' = IF _task_group_runner = "running" THEN "done" ELSE _task_group_runner
    /\ UNCHANGED <<shutdown_requested, graceful, systems, _initialized, cache, exported,
                   parts, hooks, faults, cleared>>

-----------------------------------------------------------------------------
Main == \/ StartSystem \/ StartFails \/ Connect \/ Configure \/ StartMedia
        \/ Export \/ SaveProgress \/ ExportOver \/ Raises
        \/ StopMedia \/ CloseHttp \/ RunHook \/ HooksDone
        \/ Disconnect \/ StopChecks \/ StopSystem
Background == HealthCheck \/ AutoSave \/ EmergencyAdaptation
Signal == Sigint \/ ForceShutdown

Next == Main \/ Background \/ Signal \/ (pc = "ended" /\ UNCHANGED vars)

Spec == Init /\ [][Next]_vars

-----------------------------------------------------------------------------
\* Every variable has its type.
TypeOK ==
    /\ pc \in Systems \cup {"connect", "configure", "start_media", "export", "stop_media",
                            "hooks", "close_http", "disconnect", "stop_checks",
                            "stop_connection", "stop_cache", "stop_monitor", "ended"}
    /\ {shutdown_requested, graceful, dirty, cleared, _initialized} \subseteq BOOLEAN
    /\ how \in {"returns", "raises", "forced"}
    /\ systems \in [Systems -> Lives] /\ {telegram, http, media} \subseteq Lives
    /\ _task_group_runner \in {"none", "running", "done"}
    /\ {memory, file, exported} \subseteq 0 .. MaxMessages
    /\ faults \in 0 .. MaxFaults /\ signals \in 0 .. MaxSignals

Core == pc = "ended" /\ how = "returns" /\ faults = 0

\* When async_main returns without an error, everything it opened is closed,
\* whenever SIGINT came; only the connection to Telegram stays open when the
\* SIGINT came too late for, or without, the cleanup hooks (main.py:547-561).
Released ==
    Core =>
      /\ telegram = "up" => shutdown_requested /\ ~graceful
      /\ http # "up" /\ media # "up"
      /\ \A c \in Systems : systems[c] = "down"

\* The progress of the export is in the cache file at the end, whether or not
\* the program was interrupted, with the health checks writing into the same
\* cache until the last moment and the progress hook running after the cache's
\* own; only a cache cleared for want of memory loses it.
ProgressKept ==
    Core /\ ~cleared => file = memory /\ (http # "none" => file = exported \/ shutdown_requested)
                        /\ (graceful => file = exported)

\* Also a forced shutdown saves the cache, unless it hits the last finally block
\* itself: what is in the cache's memory is in its file once the core systems
\* are down.
ForcedStillSaves ==
    pc = "ended" /\ systems["monitor"] = "down" /\ ~cleared => file = memory

\* After the end of the program the client is disconnected: the outer finally
\* only leaves it out "if not already handled by graceful cleanup".
DisconnectedAtEnd ==
    Core => telegram # "up"
=============================================================================
