----------------------------- MODULE MCProgram ------------------------------
(* A whole run of the program: the cache file (CacheManager), the Takeout  *)
(* session and the workers of its fetches (TakeoutSession), and the start, *)
(* interruption and end of everything else (ProgramLifecycle).  They share *)
(* no state here; a behaviour is one of the component that "which" names,  *)
(* and is fair when it is one of the cache.                                *)
EXTENDS CacheManager

CONSTANTS LastTarget, WorkerCount, max_attempts, MaxBreaks,
          MaxMessages, MaxSignals, MaxFailures

VARIABLES which,
          use_takeout, pc, attempt, client, cur, opened, opener, finisher,
          _external_takeout_id, takeout_id, _owned_takeout, worker_clients,
          connected, worker_sessions, session_files, fetch, used, left,
          closing, client_connected, breaks, overlap,
          main_pc, shutdown_requested, signals, graceful, how, systems,
          _initialized, _task_group_runner, memory, unsaved, cache_file,
          exported, telegram, http, media, hooks, failures, cleared

takeoutVars == <<use_takeout, pc, attempt, client, cur, opened, opener,
                 finisher, _external_takeout_id, takeout_id, _owned_takeout,
                 worker_clients, connected, worker_sessions, session_files,
                 fetch, used, left, closing, client_connected, breaks,
                 overlap>>
lifeVars == <<main_pc, shutdown_requested, signals, graceful, how, systems,
              _initialized, _task_group_runner, memory, unsaved, cache_file,
              exported, telegram, http, media, hooks, failures, cleared>>

Takeout == INSTANCE TakeoutSession WITH files <- session_files,
                                        faults <- breaks,
                                        MaxFaults <- MaxBreaks
Life == INSTANCE ProgramLifecycle WITH pc <- main_pc, dirty <- unsaved,
                                       file <- cache_file, faults <- failures,
                                       MaxFaults <- MaxFailures

ASSUME ProgramAssumption == Takeout!TakeoutAssumption /\ Life!LifecycleAssumption

(* A component that does not run rests in one of its initial states.       *)
ProgramInit == /\ Init /\ Takeout!Init /\ Life!Init
               /\ \/ which = "takeout"
                  \/ which \in {"cache", "life"} /\ use_takeout

OfCache(A) == which = "cache" /\ A /\ UNCHANGED <<which, takeoutVars, lifeVars>>

ProgramNext ==
    \/ OfCache(Next)
    \/ which = "takeout" /\ Takeout!Next /\ UNCHANGED <<which, vars, lifeVars>>
    \/ which = "life" /\ Life!Next /\ UNCHANGED <<which, vars, takeoutVars>>

ProgramSpec ==
    /\ ProgramInit /\ [][ProgramNext]_<<which, vars, takeoutVars, lifeVars>>
    /\ WF_<<which, vars>>(OfCache(BeginSave))
    /\ WF_<<which, vars>>(OfCache(SaveStep))
    /\ WF_<<which, vars>>(OfCache(Close))

(* Whoever finishes a Takeout session has asked for it.                    *)
OwnersFinish == Takeout!OwnersFinish

(* The session a fetch works with is open, its clients are connected.      *)
SessionInUseIsOpen == Takeout!SessionInUseIsOpen

(* At the end no session, connection or session file is left behind.       *)
NothingLeftBehind == Takeout!NothingLeftBehind

(* The progress of the export is in the cache file at the end, whether or  *)
(* not the program was interrupted.                                        *)
ProgressKept == Life!ProgressKept
=============================================================================
