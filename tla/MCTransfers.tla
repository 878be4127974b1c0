---------------------------- MODULE MCTransfers -----------------------------
(* Requests and downloads: the pool all requests go through                *)
(* (AdaptiveTaskPool), the queue of download tasks with its workers        *)
(* (MediaDownloadQueue) and what one download does to the files            *)
(* (MediaDownloader).  They share no state here; a behaviour is one of the *)
(* component that "which" names, and is fair when it is one of the queue.  *)
EXTENDS AdaptiveTaskPool, TLC

CONSTANTS w1, w2, t1, t2, t3, m1, m2, i1, i2, f1, f2,
          Workers, Tasks, QueueSize, MaxAttempts, Threshold, NoTask,
          Downloads, message_id, Files, FileChoices, expected_size, Received,
          MAX_PERSISTENT_ATTEMPTS, max_consecutive_failures,
          max_telegram_server_errors, max_retries, task_attempts,
          DownloadPlaces

VARIABLES which,
          request, status, begun, queue, worker, job, paused, errors, stats,
          client,
          persistent_enabled, file, disk, output, downloaded_cache, task,
          tries, attempt, consecutive_failures, server_errors, current_size,
          handle, path, exhausted

queueVars == <<request, status, begun, queue, worker, job, paused, errors,
               stats, client>>
fileVars == <<persistent_enabled, file, disk, output, downloaded_cache, task,
              tries, attempt, consecutive_failures, server_errors,
              current_size, handle, path, exhausted>>

Queue == INSTANCE MediaDownloadQueue WITH attempts <- begun
Downloader == INSTANCE MediaDownloader WITH Tasks <- Downloads,
                                            max_attempts <- task_attempts

MCWorkers == {w1, w2}
MCTasks == {t1, t2, t3}
MCIds == m1 :> i1 @@ m2 :> i2
MCFiles == {m1 :> f1 @@ m2 :> f1, m1 :> f1 @@ m2 :> f2}
MCSizes == f1 :> 20 @@ f2 :> 20

ASSUME TransfersAssumption ==
    Queue!DownloadAssumption /\ Downloader!DownloaderAssumption

(* A component that does not run rests in one of its initial states.       *)
PoolRests == max_workers = 4
FilesRest == persistent_enabled /\ file[m2] = f1

TransfersInit ==
    /\ Init /\ Queue!Init /\ Downloader!Init
    /\ \/ which = "pool" /\ FilesRest
       \/ which = "queue" /\ PoolRests /\ FilesRest
       \/ which = "downloads" /\ PoolRests

OfQueue(A) == which = "queue" /\ A /\ UNCHANGED <<which, vars, fileVars>>

TransfersNext ==
    \/ which = "pool" /\ Next /\ UNCHANGED <<which, queueVars, fileVars>>
    \/ OfQueue(Queue!Next)
    \/ which = "downloads" /\ Downloader!Next
         /\ UNCHANGED <<which, vars, queueVars>>

TransfersSpec ==
    /\ TransfersInit /\ [][TransfersNext]_<<which, vars, queueVars, fileVars>>
    /\ Queue!Fairness

(* Before the queue is stopped, an unsettled download is in one place.     *)
HeldOnce == Queue!HeldOnce

(* A download of the queue is settled in the end, but for the two ways the *)
(* queue itself can get stuck.                                             *)
EverySettles == which = "queue" => Queue!EverySettles

(* A completed download that shares nothing has its whole file, moved or   *)
(* not.                                                                    *)
CompletedIsWhole == Downloader!CompletedIsWhole

(* Of messages with one file, at least one gets it.                        *)
SharedFileSurvives == Downloader!SharedFileSurvives

(* A complete temporary file is not truncated nor thrown away.             *)
CompleteIsKept == Downloader!CompleteIsKept
=============================================================================
