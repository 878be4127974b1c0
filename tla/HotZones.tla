------------------------------ MODULE HotZones ------------------------------
(***************************************************************************)
(* The hot zones of the sharded fetch (src/src/hot_zones_manager.py and    *)
(* its callers in telegram_sharded_client.py): ranges of message ids that  *)
(* are slow at one datacenter, and how long a chunk may be there.  Every    *)
(* user of the zones makes a manager of its own, which merges the database *)
(* file with the built-in zones: the planner of a fetch, a worker that      *)
(* notes a slow chunk, and the end of the fetch, which makes zones of the   *)
(* slow chunks.  The last two write the file back.                          *)
(*                                                                         *)
(* Nothing is awaited between a load and the save after it, so each is one  *)
(* step.  A fast chunk changes nothing and is no step.  The averages of a   *)
(* zone and the texts made of the history are never read by a decision and  *)
(* are left out; of the history only the length is kept.                    *)
(***************************************************************************)
EXTENDS Integers, Sequences, FiniteSets, SequencesExt

CONSTANTS
    Defaults,        \* DC2_DEFAULT_HOT_ZONES, a sequence of zones
    Datacenters,     \* the datacenters a chat may live at
    Ranges,          \* pairs <<effective_min, max_id>> a fetch may have
    ShardChunkSize,  \* shard_chunk_size
    CriticalSize, HighSize, MediumSize,   \* 5K, 10K and 15K ids
    DensitySizes,    \* chunk sizes for density "very high" .. "low"
    DensityLimits,   \* the three thresholds, messages per 1000 ids
    SampleRange,     \* density_sample_range
    Durations,       \* seconds a slow chunk may take
    SlowThreshold,   \* slow_chunk_threshold
    SplitSpan,       \* a chunk must span more ids than this to be split
    MaxRetries,      \* slow_chunk_max_retries
    KeptChunks,      \* slow chunks kept in the file
    MaxSlow,         \* bound on the slow chunks of a fetch
    MaxFetches,      \* bound on the fetches
    MaxFaults        \* bound on failing or killed saves

\* How small a chunk a zone may ask for, and the zones there can be.
ZoneSizes == {CriticalSize, HighSize, MediumSize}
               \cup {Defaults[k].size : k \in DOMAIN Defaults}
Zones == [start : Nat, end : Nat,
          dc : Datacenters \cup {Defaults[k].dc : k \in DOMAIN Defaults},
          size : ZoneSizes]

HotZonesAssumption ==
    /\ Defaults \in Seq(Zones) /\ ZoneSizes \subseteq Nat
    /\ Ranges \subseteq Nat \X Nat
    /\ \A j, k \in DOMAIN Defaults :
         /\ Defaults[k].start <= Defaults[k].end
         /\ Defaults[j].start = Defaults[k].start => j = k
    /\ ShardChunkSize \in Nat /\ DensitySizes \in [1 .. 4 -> Nat]

VARIABLES
    file,        \* the database: missing, broken, or zones and a history
    enabled,     \* enable_hot_zones of this program run
    pc,          \* control state of the fetch
    datacenter,  \* where the chat lives
    zones,       \* hot_zones of the planner's manager
    position,    \* the sample that comes next
    samples,     \* what the samples gave: how many, and their sum
    current_id,  \* chunks are made up to here
    max_id,      \* the newest message
    chunks,      \* the chunks not known to be slow
    slow,        \* slow_chunks of the workers' statistics
    fetches,     \* fetches begun so far
    faults       \* saves that failed so far

planVars == <<datacenter, zones, position, samples, current_id, max_id>>
vars == <<file, enabled, pc, planVars, chunks, slow, fetches, faults>>

Missing == [state |-> "missing", zones |-> <<>>, history |-> 0]
Broken  == [state |-> "broken", zones |-> <<>>, history |-> 0]
Zone(from, to, dc, size) ==
    [start |-> from, end |-> to, dc |-> dc, size |-> size]

Overlaps(z, from, to) == ~(to < z.start \/ from > z.end)

Init ==
    /\ file = Missing
    /\ enabled = TRUE
    /\ pc = "idle"
    /\ datacenter \in Datacenters
    /\ zones = <<>>
    /\ position = 0 /\ samples = [count |-> 0, sum |-> 0]
    /\ current_id = 0 /\ max_id = 0
    /\ chunks = {} /\ slow = <<>>
    /\ fetches = 0 /\ faults = 0

-----------------------------------------------------------------------------
(* HotZonesManager: load, save, questions                                   *)

\* A zone z of the file: it takes the place of the first zone it overlaps that
\* starts with it, whatever the datacenters; it is dropped if it only overlaps
\* others, and new if it overlaps none.
Merge(known, z) ==
    LET over == {k \in DOMAIN known : Overlaps(known[k], z.start, z.end)}
        same == {k \in over : known[k].start = z.start}
    IN CASE over = {} -> Append(known, z)
         [] same # {} -> [known EXCEPT ![CHOOSE k \in same :
                                           \A j \in same : k <= j] = z]
         [] OTHER -> known

\* One zone of the file after the other.
MergeAll(known, zs) ==
    LET merged[n \in 0 .. Len(zs)] ==
          IF n = 0 THEN known ELSE Merge(merged[n - 1], zs[n])
    IN merged[Len(zs)]

\* The zones of a new manager.  A file that cannot be read adds nothing.
Loaded(f, hot) == MergeAll(IF hot THEN Defaults ELSE <<>>, f.zones)

\* save_database with these zones and n slow chunks.  The file is truncated
\* and written in place: a save that fails, or in which the program is killed,
\* leaves it broken, or as it was if it could not be opened.
Save(zs, n) ==
    \/ /\ file' = [state |-> "good", zones |-> zs,
                   history |-> IF n > KeptChunks THEN KeptChunks ELSE n]
       /\ UNCHANGED faults
    \/ /\ faults < MaxFaults
       /\ faults' = faults + 1
       /\ file' \in {file, Broken}

ZonesFor(zs, from, to, dc) ==
    {z \in ToSet(zs) : z.dc = dc /\ Overlaps(z, from, to)}

\* A faulty variant, for the checks only: the question is asked for the
\* position alone.
SizeAtPosition(from, to) ==
    LET hit == ZonesFor(zones, from, from, datacenter)
    IN IF ~enabled \/ hit = {}
         THEN ShardChunkSize
         ELSE CHOOSE s \in {z.size : z \in hit} : \A z \in hit : s <= z.size

\* get_optimal_chunk_size: the smallest size of a zone in the range.
OptimalChunkSize(from, to) ==
    LET hit == ZonesFor(zones, from, to, datacenter)
    IN IF ~enabled \/ hit = {}
         THEN ShardChunkSize
         ELSE CHOOSE s \in {z.size : z \in hit} : \A z \in hit : s <= z.size

\* get_chunk_size_for_density, for the average of the samples; without a
\* sample the density is taken to be the lowest limit.
DensitySize ==
    LET denser(limit) ==
          samples.sum * 1000 > limit * samples.count * SampleRange
    IN CASE samples.count = 0      -> DensitySizes[4]
         [] denser(DensityLimits[1]) -> DensitySizes[1]
         [] denser(DensityLimits[2]) -> DensitySizes[2]
         [] denser(DensityLimits[3]) -> DensitySizes[3]
         [] OTHER                    -> DensitySizes[4]

\* analyze_and_update_hot_zones: a slow chunk c where no zone of its
\* datacenter is becomes a zone if it was severe.  The code has a fourth
\* severity, which its own first condition excludes.
Analyze(known, c) ==
    LET span == c.to - c.from
        denser(limit) == span > 0 /\ c.messages * 1000 > limit * span
        size == IF c.duration > 60 \/ denser(180) THEN CriticalSize
                ELSE IF c.duration > 20 \/ denser(150) THEN HighSize
                ELSE MediumSize
    IN IF /\ ZonesFor(known, c.from, c.to, c.dc) = {}
          /\ c.duration > 10 \/ denser(150)
         THEN Append(known, Zone(c.from, c.to, c.dc, size))
         ELSE known

\* The loop over the slow chunks of a fetch.
AnalyzeAll(known, cs) ==
    LET analyzed[n \in 0 .. Len(cs)] ==
          IF n = 0 THEN known ELSE Analyze(analyzed[n - 1], cs[n])
    IN analyzed[Len(cs)]

-----------------------------------------------------------------------------
(* The planning of a fetch                                                  *)

\* A manager is made; without estimation, or if the range is too small for
\* three samples, no sample is taken.
StartFetch(dc, range, hot, estimate) ==
    /\ pc = "idle"
    /\ fetches < MaxFetches
    /\ fetches' = fetches + 1
    /\ datacenter' = dc /\ enabled' = hot
    /\ zones' = Loaded(file, hot)
    /\ current_id' = range[1] /\ max_id' = range[2]
    /\ samples' = [count |-> 0, sum |-> 0]
    /\ position' = IF estimate /\ range[2] - range[1] >= 3 * SampleRange
                     THEN 1 ELSE 4
    /\ pc' = "sampling"
    /\ chunks' = {} /\ slow' = <<>>
    /\ UNCHANGED <<file, faults>>

\* estimate_density: the messages around the start, the middle and the end.
\* A request that fails is left out of the average.
TakeSample ==
    /\ pc = "sampling" /\ position < 4
    /\ position' = position + 1
    /\ \/ \E n \in {0, SampleRange} :
            samples' = [count |-> samples.count + 1, sum |-> samples.sum + n]
       \/ UNCHANGED samples
    /\ UNCHANGED <<file, enabled, pc, datacenter, zones, current_id, max_id,
                   chunks, slow, fetches, faults>>

\* Without an answer from the zones the density decides: an answer that equals
\* shard_chunk_size counts as none.
PlanChunk ==
    /\ pc = "sampling" /\ position = 4
    /\ current_id < max_id
    /\ LET hot  == OptimalChunkSize(current_id, max_id)
           size == IF hot = ShardChunkSize THEN DensitySize ELSE hot
           end  == IF current_id + size < max_id THEN current_id + size
                                                 ELSE max_id
       IN /\ chunks' = chunks \cup
                         {[from |-> current_id, to |-> end, left |-> MaxRetries]}
          /\ current_id' = end
    /\ UNCHANGED <<file, enabled, pc, datacenter, zones, position, samples,
                   max_id, slow, fetches, faults>>

StartWorkers ==
    /\ pc = "sampling" /\ position = 4
    /\ current_id >= max_id
    /\ pc' = "fetching"
    /\ UNCHANGED <<file, enabled, planVars, chunks, slow, fetches, faults>>

-----------------------------------------------------------------------------
(* The workers                                                              *)

Note(c, duration, messages) ==
    slow' = Append(slow, [from |-> c.from, to |-> c.to, dc |-> datacenter,
                          duration |-> duration, messages |-> messages])

Parts(c) ==
    LET size == (c.to - c.from) \div 4
    IN {[from |-> c.from + k * size,
         to   |-> IF k < 3 THEN c.from + (k + 1) * size ELSE c.to,
         left |-> c.left - 1] : k \in 0 .. 3}

MayBeSlow(c) ==
    /\ pc = "fetching"
    /\ c \in chunks
    /\ Len(slow) < MaxSlow

\* A chunk above the threshold is fetched again in parts.
SplitChunk(c, duration, messages) ==
    /\ MayBeSlow(c)
    /\ duration > SlowThreshold /\ c.to - c.from > SplitSpan /\ c.left > 0
    /\ Note(c, duration, messages)
    /\ chunks' = (chunks \ {c}) \cup Parts(c)
    /\ UNCHANGED <<file, enabled, pc, planVars, fetches, faults>>

\* A slow chunk that is streamed.  Above the threshold it is also written to
\* the history in the file, with the zones of a manager made for it.
SlowChunk(c, duration, messages) ==
    /\ MayBeSlow(c)
    /\ ~(duration > SlowThreshold /\ c.to - c.from > SplitSpan /\ c.left > 0)
    /\ Note(c, duration, messages)
    /\ chunks' = chunks \ {c}
    /\ IF duration > SlowThreshold
         THEN Save(Loaded(file, enabled), file.history + 1)
         ELSE UNCHANGED <<file, faults>>
    /\ UNCHANGED <<enabled, pc, planVars, fetches>>

-----------------------------------------------------------------------------
(* The end of a fetch                                                       *)

\* The generator is gone, and its variables with it.
Over ==
    /\ pc' = "idle"
    /\ zones' = <<>> /\ position' = 0 /\ samples' = [count |-> 0, sum |-> 0]
    /\ current_id' = 0 /\ max_id' = 0
    /\ chunks' = {} /\ slow' = <<>>
    /\ UNCHANGED <<enabled, datacenter, fetches>>

\* A faulty variant, for the checks only: the manager starts from the built-in
\* zones.
StaleLearn ==
    /\ pc = "fetching"
    /\ Over
    /\ IF enabled /\ slow # <<>>
         THEN Save(AnalyzeAll(Defaults, slow), file.history)
         ELSE UNCHANGED <<file, faults>>

\* _log_slow_chunks_statistics, when all messages have been yielded.
Learn ==
    /\ pc = "fetching"
    /\ Over
    /\ IF enabled /\ slow # <<>>
         THEN Save(AnalyzeAll(Loaded(file, enabled), slow), file.history)
         ELSE UNCHANGED <<file, faults>>

\* The fetch raises, is left by its user or the program is killed: the
\* statistics of the workers are lost.
Leave ==
    /\ pc # "idle"
    /\ Over
    /\ UNCHANGED <<file, faults>>

Done == pc = "idle" /\ fetches = MaxFetches /\ UNCHANGED vars

Next ==
    \/ \E dc \in Datacenters, range \in Ranges, hot, estimate \in BOOLEAN :
         StartFetch(dc, range, hot, estimate)
    \/ TakeSample \/ PlanChunk \/ StartWorkers
    \/ \E c \in chunks, d \in Durations : \E n \in {0, c.to - c.from} :
         SplitChunk(c, d, n) \/ SlowChunk(c, d, n)
    \/ Learn \/ Leave \/ Done

Spec == Init /\ [][Next]_vars

-----------------------------------------------------------------------------
(* Properties                                                               *)

TypeOK ==
    /\ file.state \in {"missing", "broken", "good"}
    /\ file.history \in 0 .. KeptChunks
    /\ enabled \in BOOLEAN
    /\ pc \in {"idle", "sampling", "fetching"}
    /\ datacenter \in Datacenters
    /\ position \in 0 .. 4
    /\ samples.count \in 0 .. 3
    /\ current_id \in Nat /\ max_id \in Nat
    /\ Len(slow) <= MaxSlow
    /\ fetches \in 0 .. MaxFetches /\ faults \in 0 .. MaxFaults

\* A zone the planner knows is never crossed by a chunk longer than the zone
\* allows, also where the chunk begins before the zone and also when zones of
\* several severities lie ahead; an answer that equals shard_chunk_size is
\* lost (get_optimal_chunk_size and the loop of fetch_messages).
HotIsSplit ==
    enabled =>
      \A c \in chunks :
        \A z \in ZonesFor(zones, c.from, c.to, datacenter) :
          z.size # ShardChunkSize => c.to - c.from <= z.size

\* What two zones of different datacenters do to each other: neither is safe.
Crossed(z, f) ==
    \E y \in ToSet(Defaults) \cup ToSet(f.zones) :
      y.dc # z.dc /\ Overlaps(y, z.start, z.end)

\* What has been learned stays: no fetch, note of a slow chunk or second merge
\* takes away a zone a new manager would have, unless a save fails or a zone
\* of another datacenter overlaps it (_load_slow_chunk_database does not look
\* at the datacenters).
LearnedStays ==
    [][faults' = faults =>
         \A z \in ToSet(Loaded(file, TRUE)) :
           z \in ToSet(Loaded(file', TRUE)) \/ Crossed(z, file)
             \/ Crossed(z, file')]_file

\* "preferring database values for overlaps" (line 198): a zone in the file
\* is used by the next manager.
FileIsPreferred == ToSet(file.zones) \subseteq ToSet(Loaded(file, TRUE))
=============================================================================
