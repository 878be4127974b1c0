----------------------------- MODULE MCFetching -----------------------------
(* Where an export gets its messages from: the stream of TelegramManager   *)
(* (MessageStream), its prefetching into batches (PrefetchBatchProcessor), *)
(* the fetch with several workers (ShardedFetch, which takes the sizes of  *)
(* its chunks as given) and the manager that tells those sizes (HotZones). *)
(* They share no state here; a behaviour is one of the component that      *)
(* "which" names, with fairness for that component.                        *)
EXTENDS MessageStream

CONSTANTS BatchSize, QueueSize, MaxMessages,
          NWorkers, NewestId, ChunkSizes, PageSize, SplitSpan, MaxRetries,
          MessageQueueSize,
          Defaults, Datacenters, Ranges, ShardChunkSize, CriticalSize,
          HighSize, MediumSize, DensitySizes, DensityLimits, SampleRange,
          Durations, SlowThreshold, KeptChunks, MaxSlow, MaxFetches, MaxFaults

VARIABLES which,
          shutdown_requested, timed_out, producer, fetched, prefetched,
          current_batch, batches, consumer, batch, reason, awaited, handled,
          history, min_id, current_id, task_queue, phase, todo, worker_offset,
          buffer, queue, finished, failed, main, draining, all_messages,
          file, enabled, planner, datacenter, zones, position, samples,
          planned_id, max_id, chunks, slow, fetches, faults

prefetchVars == <<shutdown_requested, timed_out, producer, fetched,
                  prefetched, current_batch, batches, consumer, batch, reason,
                  awaited, handled>>
shardedVars == <<history, min_id, current_id, task_queue, phase, todo,
                 worker_offset, buffer, queue, finished, failed, main,
                 draining, all_messages>>
zoneVars == <<file, enabled, planner, datacenter, zones, position, samples,
              planned_id, max_id, chunks, slow, fetches, faults>>

Prefetch == INSTANCE PrefetchBatchProcessor WITH kept <- prefetched,
                                                 queue <- batches
Sharded == INSTANCE ShardedFetch WITH MaxId <- NewestId, present <- history,
                                      offset <- worker_offset,
                                      QueueSize <- MessageQueueSize
HotZones == INSTANCE HotZones WITH pc <- planner, current_id <- planned_id

MCQueries == [up : BOOLEAN, min_id : {0, 2}, limit : {NoLimit, 3}]
MCDefaults == <<[start |-> 2, end |-> 3, dc |-> "DC2", size |-> 2]>>
MCRanges == {<<0, 6>>}
MCDensitySizes == <<2, 3, 4, 8>>
MCDensityLimits == <<800, 600, 300>>

ASSUME FetchingAssumption ==
  /\ Prefetch!PrefetchAssumption /\ Sharded!ShardedAssumption
  /\ HotZones!HotZonesAssumption

(* A component that does not run rests in one of its initial states.       *)
StreamRests == query.up /\ query.min_id = 0 /\ query.limit = 3
ShardedRests == history = {1} /\ min_id = 0
ZonesRest == datacenter = "DC2"

FetchingInit ==
  /\ Init /\ Prefetch!Init /\ Sharded!Init /\ HotZones!Init
  /\ \/ which = "stream" /\ ShardedRests /\ ZonesRest
     \/ which = "prefetch" /\ StreamRests /\ ShardedRests /\ ZonesRest
     \/ which = "sharded" /\ StreamRests /\ ZonesRest
     \/ which = "zones" /\ StreamRests /\ ShardedRests

OfStream(A) ==
  which = "stream" /\ A
    /\ UNCHANGED <<which, prefetchVars, shardedVars, zoneVars>>
OfPrefetch(A) ==
  which = "prefetch" /\ A /\ UNCHANGED <<which, vars, shardedVars, zoneVars>>
OfSharded(A) ==
  which = "sharded" /\ A /\ UNCHANGED <<which, vars, prefetchVars, zoneVars>>
OfZones(A) ==
  which = "zones" /\ A /\ UNCHANGED <<which, vars, prefetchVars, shardedVars>>

FetchingNext ==
  OfStream(Next) \/ OfPrefetch(Prefetch!Next) \/ OfSharded(Sharded!Next)
    \/ OfZones(HotZones!Next)

FetchingSpec ==
  /\ FetchingInit
  /\ [][FetchingNext]_<<which, vars, prefetchVars, shardedVars, zoneVars>>
  /\ WF_<<which, vars>>(OfStream(Stream))
  /\ WF_<<which, prefetchVars>>(OfPrefetch(Prefetch!Producer))
  /\ WF_<<which, prefetchVars>>(OfPrefetch(Prefetch!Consumer))
  /\ WF_<<which, shardedVars>>(OfSharded(Sharded!Generator))
  /\ \A w \in Sharded!Workers :
       WF_<<which, shardedVars>>(OfSharded(Sharded!Worker(w)))

(* The stream of a started export ends.                                    *)
StreamEnds == which = "stream" => Ends

(* A chat file that counts as complete holds exactly the kept messages.    *)
CompletedIsExact == Prefetch!CompletedIsExact

(* An export loop that is not left early comes to its end.                 *)
EndsUnlessLeftEarly == which = "prefetch" => Prefetch!EndsUnlessLeftEarly

(* What a fetch with several workers yields is the history, in order.      *)
YieldsAll == Sharded!YieldsAll

(* Draining one queue after the other never blocks for good.               *)
CollectionEnds == which = "sharded" => Sharded!CollectionEnds

(* Every chunk planned inside a known hot zone is small enough for it.     *)
HotIsSplit == HotZones!HotIsSplit

(* What a fetch has learned about slow chunks is not lost by the next one. *)
LearnedStays == HotZones!LearnedStays
=============================================================================
