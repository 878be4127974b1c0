--------------------------- MODULE TakeoutSession ---------------------------
(***************************************************************************)
(* The Takeout sessions of one run of the program and the sharded fetches  *)
(* that use them (src/main.py: precheck_takeout; exporter.py:              *)
(* TakeoutSessionWrapper, run_export; telegram_sharded_client.py:          *)
(* _setup_takeout, _prepare_workers, fetch_messages up to its first chunk  *)
(* and after its last, _cleanup_sharding).  ShardedFetch has the chunks.   *)
(*                                                                         *)
(* A generator that is left at a yield is closed by a task of its own, so  *)
(* that its cleanup runs beside the fetch of the next target.  The plain   *)
(* client has no takeout_id, hence the branches that would reuse one are   *)
(* never taken by precheck_takeout, run_export and __aenter__.             *)
(***************************************************************************)
EXTENDS Integers, SequencesExt, FiniteSets

CONSTANTS
  LastTarget,   \* the targets are 1 .. LastTarget
  WorkerCount,  \* shard_count
  max_attempts, \* attempts of __aenter__ (60 in the code)
  MaxFaults     \* bound: requests, copies and connections that fail

TakeoutAssumption ==
  /\ {LastTarget, WorkerCount, max_attempts} \subseteq Nat \ {0}
  /\ MaxFaults \in Nat

Workers == 1 .. WorkerCount
\* Under Takeout, and again under the standard API when export_all raised.
Fetches == 1 .. 2 * LastTarget
\* Each fetch, the precheck and run_export open one session at most.
Ids     == 1 .. 2 * LastTarget + 2

VARIABLES
  use_takeout,    \* the configuration
  pc,             \* where main is: precheck, run_export, export_all
  attempt,        \* failed attempts of __aenter__
  client,         \* telegram_manager.client: 0 is plain, else the wrapper of that session
  cur,            \* the fetch of the current target
  opened,         \* sessions Telegram has opened: 1 .. opened
  opener,         \* opener[s]: who asked for session s
  finisher,       \* finisher[s]: who has finished it
  _external_takeout_id, takeout_id, _owned_takeout, \* of the sharded manager; 0 is None
  worker_clients, \* the list of the manager: pairs <<fetch, worker>>
  connected,      \* worker clients that are connected
  worker_sessions,\* the names the manager will remove
  files,          \* the worker session files on disk
  fetch,          \* fetch[f]: where the generator of fetch f is
  used,           \* used[f]: the session fetch f works with
  left,           \* fetches whose consumer left at a yield
  closing,        \* closing[f]: index of the cleanup's loop over worker_clients
  client_connected,
  faults,
  overlap         \* history: a cleanup was not over when the next fetch began or the
                  \* client was disconnected

config  == <<use_takeout, client_connected>>
server  == <<opened, opener, finisher>>
manager == <<_external_takeout_id, takeout_id, _owned_takeout,
             worker_clients, worker_sessions>>
world   == <<connected, files>>
gens    == <<fetch, used, left, closing>>
vars    == <<config, pc, attempt, client, cur, server, manager, world, gens,
             faults, overlap>>

-----------------------------------------------------------------------------
Init ==
    /\ use_takeout \in BOOLEAN
    /\ pc = "precheck" /\ attempt = 0 /\ client = 0 /\ cur = 0
    /\ opened = 0
    /\ opener = [s \in Ids |-> "nobody"] /\ finisher = [s \in Ids |-> "nobody"]
    /\ _external_takeout_id = 0 /\ takeout_id = 0 /\ _owned_takeout = FALSE
    /\ worker_clients = <<>> /\ connected = {}
    /\ worker_sessions = {} /\ files = {}
    /\ fetch = [f \in Fetches |-> "none"]
    /\ used = [f \in Fetches |-> 0] /\ closing = [f \in Fetches |-> 0]
    /\ left = {} /\ client_connected = TRUE
    /\ faults = 0 /\ overlap = FALSE

Fault == faults < MaxFaults /\ faults' = faults + 1

\* Telegram answers InitTakeoutSessionRequest with a session.
Opens(who) ==
    /\ opened' = opened + 1
    /\ opener' = [opener EXCEPT ![opened'] = who]
    /\ UNCHANGED finisher

\* Telegram answers FinishTakeoutSessionRequest, or the request fails, which is
\* only logged; without a connection it always fails.
Finishes(who, s) ==
    /\ UNCHANGED <<opened, opener>>
    /\ \/ /\ client_connected
          /\ finisher' = [finisher EXCEPT ![s] = who]
          /\ UNCHANGED faults
       \/ client_connected /\ Fault /\ UNCHANGED finisher
       \/ ~client_connected /\ UNCHANGED <<finisher, faults>>

Finished(s) == \E i \in 1 .. opened : i = s /\ finisher[i] # "nobody"

Unclean(f) == fetch[f] \in {"left", "disconnecting", "finishing"}

-----------------------------------------------------------------------------
(* main: precheck_takeout, then run_export                                 *)

NoTakeout ==
    /\ pc \in {"precheck", "run_export"}
    /\ ~use_takeout
    /\ pc' = IF pc = "precheck" THEN "run_export" ELSE "fallback"
    /\ UNCHANGED <<config, attempt, client, cur, server, manager, world, gens,
                   faults, overlap>>

\* __aenter__ has a session: the precheck leaves its block at once, run_export
\* puts the wrapper in the place of the client and tells the manager its id.
EnterSucceeds ==
    /\ pc \in {"precheck", "run_export"} /\ use_takeout
    /\ Opens(pc)
    /\ attempt' = 0
    /\ IF pc = "precheck"
       THEN pc' = "prechecked" /\ UNCHANGED <<client, _external_takeout_id>>
       ELSE pc' = "takeout" /\ client' = opened' /\ _external_takeout_id' = opened'
    /\ UNCHANGED <<config, cur, takeout_id, _owned_takeout, worker_clients,
                   worker_sessions, world, gens, faults, overlap>>

\* The user has not confirmed yet; the last attempt ends the program in the
\* precheck and falls back to the standard API in run_export.
EnterDelayed ==
    /\ pc \in {"precheck", "run_export"} /\ use_takeout
    /\ IF attempt + 1 < max_attempts
       THEN attempt' = attempt + 1 /\ UNCHANGED pc
       ELSE attempt' = 0 /\ pc' = IF pc = "precheck" THEN "leaving" ELSE "fallback"
    /\ UNCHANGED <<config, client, cur, server, manager, world, gens, faults, overlap>>

\* Any other error: no Takeout in this run of the program.
EnterFails ==
    /\ pc \in {"precheck", "run_export"} /\ use_takeout
    /\ Fault
    /\ attempt' = 0
    /\ IF pc = "precheck"
       THEN pc' = "run_export" /\ use_takeout' = FALSE
       ELSE pc' = "fallback" /\ UNCHANGED use_takeout
    /\ UNCHANGED <<client, cur, server, manager, world, gens, client_connected, overlap>>

\* __aexit__ of the precheck.
PrecheckExit ==
    /\ pc = "prechecked"
    /\ Finishes("precheck", opened)
    /\ pc' = "run_export"
    /\ UNCHANGED <<config, attempt, client, cur, manager, world, gens, overlap>>

Exporting == pc \in {"takeout", "fallback"}
Round     == IF pc = "takeout" THEN 1 .. LastTarget ELSE LastTarget + 1 .. 2 * LastTarget
\* The exporter is done with the current fetch.
Done == cur = 0 \/ (cur # 0 /\ (cur \in left \/ fetch[cur] = "closed"))

\* Mutant of Restore: the wrapper stays in its place.
KeepingRestore == _external_takeout_id' = 0 /\ UNCHANGED client

\* finally: the client and the manager are as before.
Restore == _external_takeout_id' = 0 /\ client' = 0

\* export_all is over, with or without an exception, which it may raise after
\* its last target only; inside the Takeout block an exception leads to a second
\* export of all targets.
ExportOver ==
    /\ Exporting
    /\ Round \subseteq {f \in Fetches : fetch[f] # "none"}
    /\ Done
    /\ IF pc = "takeout"
       THEN /\ \/ pc' = "exit" /\ UNCHANGED faults
               \/ pc' = "exit_raising" /\ Fault
            /\ Restore
       ELSE pc' = "leaving" /\ UNCHANGED <<client, _external_takeout_id, faults>>
    /\ UNCHANGED <<config, attempt, cur, server, takeout_id, _owned_takeout,
                   worker_clients, worker_sessions, world, gens, overlap>>

\* __aexit__ of run_export.
WrapperExit ==
    /\ pc \in {"exit", "exit_raising"}
    /\ \E s \in 1 .. opened : opener[s] = "run_export" /\ Finishes("run_export", s)
    /\ pc' = IF pc = "exit" THEN "leaving" ELSE "fallback"
    /\ UNCHANGED <<config, attempt, client, cur, manager, world, gens, overlap>>

Disconnect ==
    /\ pc = "leaving"
    /\ client_connected' = FALSE
    /\ pc' = "ended"
    /\ overlap' = (overlap \/ \E f \in Fetches : Unclean(f))
    /\ UNCHANGED <<use_takeout, attempt, client, cur, server, manager, world,
                   gens, faults>>

-----------------------------------------------------------------------------
(* fetch_messages of the sharded manager                                   *)

\* The next target's stream; a chat with content restrictions takes the stream
\* of the base class (MessageStream), which has nothing to clean up.
Begin ==
    /\ Exporting
    /\ Done
    /\ \E f \in Round :
          /\ fetch[f] = "none" /\ \A g \in Round : g < f => fetch[g] # "none"
          /\ cur' = f
          /\ \E p \in {"setup", "closed"} : fetch' = [fetch EXCEPT ![f] = p]
          /\ overlap' = (overlap \/ \E g \in Fetches : Unclean(g))
    /\ UNCHANGED <<config, pc, attempt, client, server, manager, world, used,
                   left, closing, faults>>

Goto(p) == fetch' = [fetch EXCEPT ![cur] = p]

\* Mutant of Setup: a session of run_export counts as the manager's own.
OwningSetup ==
    /\ cur # 0 /\ fetch[cur] = "setup"
    /\ IF takeout_id # 0 THEN Goto("bounds") /\ UNCHANGED <<takeout_id, _owned_takeout>>
       ELSE IF _external_takeout_id # 0
       THEN Goto("bounds") /\ takeout_id' = _external_takeout_id /\ _owned_takeout' = TRUE
       ELSE Goto("asking") /\ UNCHANGED <<takeout_id, _owned_takeout>>
    /\ UNCHANGED <<config, pc, attempt, client, cur, server, _external_takeout_id,
                   worker_clients, worker_sessions, world, used, left, closing, faults, overlap>>

\* The id the manager already has, or the one of run_export, or a new session.
Setup ==
    /\ cur # 0 /\ fetch[cur] = "setup"
    /\ IF takeout_id # 0 THEN Goto("bounds") /\ UNCHANGED <<takeout_id, _owned_takeout>>
       ELSE IF _external_takeout_id # 0
       THEN Goto("bounds") /\ takeout_id' = _external_takeout_id /\ _owned_takeout' = FALSE
       ELSE Goto("asking") /\ UNCHANGED <<takeout_id, _owned_takeout>>
    /\ UNCHANGED <<config, pc, attempt, client, cur, server, _external_takeout_id,
                   worker_clients, worker_sessions, world, used, left, closing, faults, overlap>>

SetupAnswered ==
    /\ cur # 0 /\ fetch[cur] = "asking"
    /\ Opens("shards")
    /\ takeout_id' = opened' /\ _owned_takeout' = TRUE
    /\ Goto("bounds")
    /\ UNCHANGED <<config, pc, attempt, client, cur, _external_takeout_id,
                   worker_clients, worker_sessions, world, used, left, closing, faults, overlap>>

\* The newest id, asked for inside the session.
BoundsAnswered ==
    /\ cur # 0 /\ fetch[cur] = "bounds"
    /\ ~Finished(takeout_id)
    /\ Goto("prepare")
    /\ UNCHANGED <<config, pc, attempt, client, cur, server, manager, world, used,
                   left, closing, faults, overlap>>

\* No answer, in particular from a session that is finished: the stream of the
\* base class, inside the same try.
BoundsEmpty ==
    /\ cur # 0 /\ fetch[cur] = "bounds"
    /\ \/ Finished(takeout_id) /\ UNCHANGED faults
       \/ Fault
    /\ Goto("standard")
    /\ UNCHANGED <<config, pc, attempt, client, cur, server, manager, world, used,
                   left, closing, overlap>>

\* _prepare_workers writes all files; the list of clients starts anew.
Prepare ==
    /\ cur # 0 /\ fetch[cur] = "prepare"
    /\ files' = Workers /\ worker_sessions' = Workers
    /\ worker_clients' = <<>>
    /\ used' = [used EXCEPT ![cur] = takeout_id]
    /\ closing' = [closing EXCEPT ![cur] = 1]
    /\ Goto("connecting")
    /\ UNCHANGED <<config, pc, attempt, client, cur, server, _external_takeout_id,
                   takeout_id, _owned_takeout, connected, left, faults, overlap>>

\* The next worker client; closing[cur] counts them until the cleanup needs it.
Connect ==
    /\ cur # 0 /\ fetch[cur] = "connecting"
    /\ connected' = connected \cup {<<cur, closing[cur]>>}
    /\ worker_clients' = Append(worker_clients, <<cur, closing[cur]>>)
    /\ IF closing[cur] = WorkerCount
       THEN Goto("fetching") /\ closing' = [closing EXCEPT ![cur] = 0]
       ELSE closing' = [closing EXCEPT ![cur] = @ + 1] /\ UNCHANGED fetch
    /\ UNCHANGED <<config, pc, attempt, client, cur, server, _external_takeout_id,
                   takeout_id, _owned_takeout, worker_sessions, files, used,
                   left, faults, overlap>>

Inside(f) == fetch[f] \in {"setup", "asking", "bounds", "standard", "prepare",
                           "connecting", "fetching"}

\* A request, a copy or a connection fails, or the timeout of the target is
\* raised at an await of the generator: finally.
Raises ==
    /\ cur # 0 /\ Inside(cur) /\ fetch[cur] # "setup"
    /\ Fault
    /\ Goto("disconnecting")
    /\ closing' = [closing EXCEPT ![cur] = 1]
    /\ files' \in {files} \cup
         (IF fetch[cur] = "prepare" THEN {files \cup (1 .. n) : n \in Workers} ELSE {})
    /\ UNCHANGED <<config, pc, attempt, client, cur, server, manager, connected,
                   used, left, overlap>>

\* The stream is read to its end: finally.
Drained ==
    /\ cur # 0 /\ fetch[cur] \in {"fetching", "standard"}
    /\ Goto("disconnecting")
    /\ closing' = [closing EXCEPT ![cur] = 1]
    /\ UNCHANGED <<config, pc, attempt, client, cur, server, manager, world, used,
                   left, faults, overlap>>

\* The consumer leaves at a yield (shutdown, timeout or an error of its own).
Left ==
    /\ cur # 0 /\ fetch[cur] \in {"fetching", "standard"}
    /\ Goto("left") /\ left' = left \cup {cur}
    /\ UNCHANGED <<config, pc, attempt, client, cur, server, manager, world, used,
                   closing, faults, overlap>>

\* The task that closes a generator left behind gets its turn.
CloseLeft(f) ==
    /\ fetch[f] = "left"
    /\ fetch' = [fetch EXCEPT ![f] = "disconnecting"]
    /\ closing' = [closing EXCEPT ![f] = 1]
    /\ UNCHANGED <<config, pc, attempt, client, cur, server, manager, world, used,
                   left, faults, overlap>>

-----------------------------------------------------------------------------
(* _cleanup_sharding                                                       *)

\* The loop over worker_clients goes by index through the list as it is now.
DisconnectWorker(f) ==
    /\ fetch[f] = "disconnecting"
    /\ closing[f] <= Len(worker_clients)
    /\ connected' = connected \ {worker_clients[closing[f]]}
    /\ closing' = [closing EXCEPT ![f] = @ + 1]
    /\ UNCHANGED <<config, pc, attempt, client, cur, server, manager, files, fetch,
                   used, left, faults, overlap>>

\* Mutant of Forget: the files of the workers stay.
KeepingForget(f) ==
    /\ takeout_id' = 0 /\ _owned_takeout' = FALSE
    /\ worker_sessions' = {}
    /\ fetch' = [fetch EXCEPT ![f] = "closed"]
    /\ UNCHANGED files

\* The last part of the cleanup, without an await.
Forget(f) ==
    /\ takeout_id' = 0 /\ _owned_takeout' = FALSE
    /\ files' = files \ worker_sessions
    /\ worker_sessions' = {}
    /\ fetch' = [fetch EXCEPT ![f] = "closed"]

\* All clients of the list are disconnected; a session of one's own is finished.
ClearClients(f) ==
    /\ fetch[f] = "disconnecting"
    /\ closing[f] > Len(worker_clients)
    /\ worker_clients' = <<>>
    /\ IF takeout_id # 0 /\ _owned_takeout
       THEN /\ fetch' = [fetch EXCEPT ![f] = "finishing"]
            /\ closing' = [closing EXCEPT ![f] = takeout_id]
            /\ UNCHANGED <<takeout_id, _owned_takeout, worker_sessions, files>>
       ELSE Forget(f) /\ closing' = [closing EXCEPT ![f] = 0]
    /\ UNCHANGED <<config, pc, attempt, client, cur, server, _external_takeout_id,
                   connected, used, left, faults, overlap>>

FinishOwn(f) ==
    /\ fetch[f] = "finishing"
    /\ Finishes("shards", closing[f])
    /\ Forget(f)
    /\ closing' = [closing EXCEPT ![f] = 0]
    /\ UNCHANGED <<config, pc, attempt, client, cur, _external_takeout_id,
                   worker_clients, connected, used, left, overlap>>

\* The event loop ends and cancels what still runs of a cleanup.
Abort(f) ==
    /\ pc = "ended"
    /\ Unclean(f)
    /\ fetch' = [fetch EXCEPT ![f] = "aborted"]
    /\ UNCHANGED <<config, pc, attempt, client, cur, server, manager, world, used,
                   left, closing, faults, overlap>>

-----------------------------------------------------------------------------
Ended == pc = "ended" /\ \A f \in Fetches : ~Unclean(f)

Main  == \/ NoTakeout \/ EnterSucceeds \/ EnterDelayed \/ EnterFails
         \/ PrecheckExit \/ ExportOver \/ WrapperExit \/ Disconnect
Fetch == \/ Begin \/ Setup \/ SetupAnswered \/ BoundsAnswered \/ BoundsEmpty
         \/ Prepare \/ Connect \/ Raises \/ Drained \/ Left
Cleanup(f) == \/ CloseLeft(f) \/ DisconnectWorker(f) \/ ClearClients(f)
              \/ FinishOwn(f) \/ Abort(f)

Next == \/ Main \/ Fetch
        \/ \E f \in Fetches : Cleanup(f)
        \/ Ended /\ UNCHANGED vars

Spec == Init /\ [][Next]_vars

-----------------------------------------------------------------------------
Phases == {"none", "setup", "asking", "bounds", "standard", "prepare", "connecting",
           "fetching", "left", "disconnecting", "finishing", "closed", "aborted"}

\* Every variable has its type.
TypeOK ==
    /\ use_takeout \in BOOLEAN /\ client_connected \in BOOLEAN /\ overlap \in BOOLEAN
    /\ opened \in Ids \cup {0}
    /\ {client, _external_takeout_id, takeout_id} \subseteq 0 .. opened
    /\ _owned_takeout \in BOOLEAN
    /\ worker_clients \in Seq(Fetches \X Workers)
    /\ connected \subseteq Fetches \X Workers
    /\ worker_sessions \subseteq Workers /\ files \subseteq Workers
    /\ fetch \in [Fetches -> Phases]
    /\ left \subseteq Fetches /\ attempt \in 0 .. max_attempts - 1 /\ faults \in 0 .. MaxFaults

\* Whoever finishes a session has asked for it: the cleanup of a fetch, however
\* late, never finishes the session run_export shares with all fetches
\* (_owned_takeout, telegram_sharded_client.py:413-426).
OwnersFinish ==
    \A s \in Ids : finisher[s] \in {"nobody", opener[s]}

\* While no fetch has begun beside the cleanup of an earlier one, the session a
\* fetch works with is open and its worker clients are connected; and what goes
\* through the wrapper always goes into an open session.
SessionInUseIsOpen ==
    /\ client # 0 => finisher[client] = "nobody"
    /\ \A f \in Fetches : (fetch[f] = "fetching" /\ ~overlap) =>
         /\ used[f] # 0 => finisher[used[f]] = "nobody"
         /\ \A w \in Workers : <<f, w>> \in connected

\* At the end of the program nothing is left behind: no open session, no
\* connected worker and no copy of the user's session file, unless something
\* failed or a cleanup was not over in time.
NothingLeftBehind ==
    Ended /\ faults = 0 /\ ~overlap =>
      /\ \A s \in 1 .. opened : finisher[s] # "nobody"
      /\ connected = {} /\ files = {}

-----------------------------------------------------------------------------
\* The session that precheck_takeout calls "ready for export" is the one the
\* export uses (main.py:87-90).
PrecheckedIsUsed ==
    \A s \in 1 .. opened :
      opener[s] = "precheck" /\ finisher[s] # "nobody" => \E f \in Fetches : used[f] = s
=============================================================================
