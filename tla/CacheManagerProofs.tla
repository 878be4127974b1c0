------------------------- MODULE CacheManagerProofs -------------------------
(***************************************************************************)
(* Proofs about the life of the program, for all keys, sizes, targets,     *)
(* workers and numbers of calls.                                           *)
(*                                                                         *)
(* CacheManager: one interruption of the saves loses no saved entry.       *)
(* OneFaultRecovers speaks of a process that is gone.  It is not           *)
(* inductive: whether an interruption does harm depends on what the backup *)
(* held when it came.  OneFaultInv adds what a save knows at each of its   *)
(* steps as long as nothing was interrupted -- the file is the last save   *)
(* until it is opened, from then on the backup is -- and that one          *)
(* interruption leaves the last save in one of the two.  Then: a clean     *)
(* cache is what is on the disk, and the cache keeps to its size.          *)
(* ProgramLifecycle (with MCProgram): progress reaches the file.           *)
(* TakeoutSession: who finishes a session, when it is open, and what is    *)
(* left of it in the end.                                                  *)
(***************************************************************************)
EXTENDS MCProgram, SequenceLemmas, FiniteSetTheorems

\* The last save is at its place, or else there is none to be read there and
\* the backup is the last save.
Recoverable ==
    saved # Absent => \/ file = saved
                      \/ file \in {Torn, Empty} /\ backup = saved

OneFaultInv ==
    /\ faults \in Nat
    /\ saved = Absent \/ saved.kind = "whole"
    /\ state \in {"down", "closed"} => saver = "idle"
    /\ saver \in {"openFile", "writeFile"} => bytes.kind = "whole"
    /\ faults <= 1 /\ saver \in {"idle", "reading", "openBackup"} => Recoverable
    /\ faults = 0 => /\ saver # "writeFile" => file = saved
                     /\ saver \in {"openBackup", "writeBackup"} => bytes = saved
                     /\ saver \in {"openFile", "writeFile"} /\ saved # Absent
                          => backup = saved

LEMMA OneFaultInit == Init => OneFaultInv
BY DEF Init, OneFaultInv, Recoverable, Absent, Content

\* An interruption of a save leaves the last save in one of the files.
LEMMA CutShortKeeps ==
    ASSUME OneFaultInv, CutShort
    PROVE  /\ faults' \in Nat /\ faults' # 0
           /\ saver' = "idle"
           /\ saved' = Absent \/ saved'.kind = "whole"
           /\ faults' <= 1 => Recoverable'
<1>1. /\ faults' = faults + 1 /\ saver' = "idle"
      /\ faults' \in Nat /\ faults' # 0
      /\ faults' <= 1 => faults = 0
  BY DEF CutShort, OneFaultInv
<1>2. CASE saver = "reading"
  BY <1>1, <1>2 DEF CutShort, OneFaultInv, Recoverable, files
<1>3. CASE saver = "openBackup"
  BY <1>1, <1>3 DEF CutShort, OneFaultInv, Recoverable
<1>4. CASE saver = "writeBackup"
  BY <1>1, <1>4 DEF CutShort, OneFaultInv, Recoverable
<1>5. CASE saver = "openFile"
  BY <1>1, <1>5 DEF CutShort, OneFaultInv, Recoverable
<1>6. CASE saver = "writeFile"
  <2>1. /\ bytes.kind = "whole"
        /\ file' \in {Empty, Torn, bytes}
        /\ saved' = IF file' = bytes THEN bytes ELSE saved
        /\ backup' = backup
    BY <1>6 DEF CutShort, OneFaultInv, Beginnings
  <2>2. CASE file' = bytes
    BY <1>1, <2>1, <2>2 DEF Recoverable
  <2>3. CASE file' # bytes
    BY <1>1, <1>6, <2>1, <2>3 DEF OneFaultInv, Recoverable
  <2>4. QED
    BY <2>2, <2>3
<1>7. QED
  BY <1>2, <1>3, <1>4, <1>5, <1>6 DEF CutShort

LEMMA OneFaultStep == OneFaultInv /\ [Next]_vars => OneFaultInv'
<1> SUFFICES ASSUME OneFaultInv, [Next]_vars
             PROVE  OneFaultInv'
  OBVIOUS
<1>1. ASSUME UNCHANGED <<saver, bytes, file, backup, saved, faults>>,
             state' \in {"down", "closed"} => saver = "idle"
      PROVE  OneFaultInv'
  BY <1>1 DEF OneFaultInv, Recoverable
<1>2. CASE Start
  BY <1>1, <1>2 DEF Start, files
<1>3. CASE Client
  <2>1. /\ UNCHANGED <<saver, bytes, file, backup, saved, faults>>
        /\ state' = "running"
    BY <1>3 DEF Client, Set, Get, Delete, Clear, files
  <2>2. QED
    BY <1>1, <2>1
<1>4. CASE Expire
  BY <1>1, <1>4 DEF Expire, files, OneFaultInv
<1>5. CASE BeginSave
  <2>1. UNCHANGED <<state, file, backup, saved, faults>>
    BY <1>5 DEF BeginSave, files
  <2>2. state \notin {"down", "closed"} /\ saver = "idle"
    BY <1>5 DEF BeginSave
  <2>3. CASE file = Absent
    <3>1. bytes'.kind = "whole" /\ saver' = "openFile"
      BY <1>5, <2>3 DEF BeginSave, TakeSnapshot, Whole
    <3>2. QED
      BY <2>1, <2>2, <2>3, <3>1 DEF OneFaultInv
  <2>4. CASE file # Absent
    BY <1>5, <2>1, <2>2, <2>4 DEF BeginSave, OneFaultInv, Recoverable
  <2>5. QED
    BY <2>3, <2>4
<1>6. CASE ReadFile
  BY <1>6 DEF ReadFile, OneFaultInv, Recoverable, files
<1>7. CASE OpenBackup
  BY <1>7 DEF OpenBackup, OneFaultInv
<1>8. CASE WriteBackup
  <2>1. bytes'.kind = "whole" /\ saver' = "openFile"
    BY <1>8 DEF WriteBackup, TakeSnapshot, Whole
  <2>2. QED
    BY <1>8, <2>1 DEF WriteBackup, OneFaultInv
<1>9. CASE OpenFile
  BY <1>9 DEF OpenFile, OneFaultInv
<1>10. CASE WriteFile
  BY <1>10 DEF WriteFile, OneFaultInv, Recoverable
<1>11. CASE SaveFails
  BY <1>11, CutShortKeeps DEF SaveFails, OneFaultInv
<1>12. CASE Shutdown
  <2>1. CASE saver = "idle" /\ UNCHANGED <<saver, bytes, files, faults>>
    BY <1>1, <2>1 DEF files
  <2>2. CASE CutShort
    BY <2>2, CutShortKeeps DEF OneFaultInv
  <2>3. QED
    BY <1>12, <2>1, <2>2 DEF Shutdown
<1>13. CASE Close
  BY <1>1, <1>13 DEF Close, files
<1>14. CASE Kill
  <2>1. CASE /\ saver = "idle" /\ faults' = faults + 1
             /\ UNCHANGED <<saver, bytes, files>>
    BY <2>1 DEF OneFaultInv, Recoverable, files
  <2>2. CASE CutShort
    BY <2>2, CutShortKeeps DEF OneFaultInv
  <2>3. QED
    BY <1>14, <2>1, <2>2 DEF Kill
<1>15. CASE UNCHANGED vars
  BY <1>1, <1>15 DEF vars, OneFaultInv
<1>16. QED
  BY <1>2, <1>3, <1>4, <1>5, <1>6, <1>7, <1>8, <1>9, <1>10, <1>11, <1>12,
     <1>13, <1>14, <1>15 DEF Next, SaveStep

LEMMA OneFaultSuffices == OneFaultInv => OneFaultRecovers
<1> SUFFICES ASSUME OneFaultInv, state \in {"down", "closed"}, faults <= 1,
                    saved # Absent
             PROVE  \/ Loaded = Unexpired(saved.entries)
                    \/ file = Empty /\ backup = saved
  BY DEF OneFaultRecovers
<1>1. Recoverable /\ saved.kind = "whole"
  BY DEF OneFaultInv
<1>2. CASE file = saved
  <2>1. file # Torn
    BY <1>1, <1>2 DEF Torn, Content
  <2>2. QED
    BY <1>2, <2>1 DEF Loaded
<1>3. CASE file = Torn /\ backup = saved
  BY <1>3 DEF Loaded
<1>4. CASE file = Empty /\ backup = saved
  BY <1>4
<1>5. QED
  BY <1>1, <1>2, <1>3, <1>4 DEF Recoverable

\* A single interruption of the life of the cache, at whatever operation of a
\* save, by a kill, an exception or the cancellation in shutdown(), loses no
\* saved entry: the file or the backup has them all (_save_cache, _load_cache).
THEOREM OneFaultRecovery == Spec => []OneFaultRecovers
<1>1. Spec => []OneFaultInv
  BY OneFaultInit, OneFaultStep, PTL DEF Spec
<1>2. QED
  BY <1>1, OneFaultSuffices, PTL

-----------------------------------------------------------------------------
(* What is in memory and on the disk.  CleanMeansSaved speaks of the time   *)
(* between two saves.  Inductive it becomes with what a save under way has  *)
(* in hand: the live entries of the cache, unless these have changed since; *)
(* and with a key having but one entry in a cache and in a file: otherwise  *)
(* a get, which removes all entries of the key and appends one, would       *)
(* change the cache without saying so.                                      *)

Sound(es) ==
    /\ es \in Seq(Entries) /\ Len(es) <= MaxSize
    /\ \A d, e \in Contained(es) : d.key = e.key => d = e

SoundContent(c) == c \in Contents /\ Sound(c.entries)

\* What the next start reads, and the entries of es whose time is not over.
Image == IF file = Torn THEN backup.entries ELSE file.entries
Live(es) == {e \in Contained(es) : Alive(e)}

CleanInv ==
    /\ Sound(cache) /\ SoundContent(bytes) /\ SoundContent(file)
    /\ SoundContent(backup)
    /\ sets \in 0 .. MaxSets
    /\ state \in {"down", "running", "closing", "closed"}
    /\ saver # "idle" => dirty
    /\ state \in {"down", "closed"} => saver = "idle"
    /\ saver \in {"openFile", "writeFile"} =>
         bytes.kind = "whole" /\ (~late => Live(bytes.entries) = Live(cache))
    /\ state # "down" /\ ~dirty /\ ~late => Live(Image) = Live(cache)

LEMMA Sizes == MaxSize \in Nat \ {0} /\ MaxSets \in Nat /\ MaxFaults \in Nat /\ TtlKeys \subseteq Keys
BY CacheAssumption

\* What the operations on sequences do to the entries.
LEMMA KeptEntries ==
    ASSUME NEW es \in Seq(Entries), NEW T
    PROVE  /\ Select(es, T) \in Seq(Entries)
           /\ Contained(Select(es, T)) = {e \in Contained(es) : e \in T}
           /\ Len(Select(es, T)) <= Len(es)
           /\ \A i \in DOMAIN es : es[i] \notin T => Len(Select(es, T)) < Len(es)
<1> DEFINE r == Select(es, T)
<1>1. r \in Seq(Entries)
  BY SelectType
<1>2. KeptOf(es, T, Len(es), r)
  BY SelectElements
<1>3. DOMAIN r = 1 .. Len(r) /\ DOMAIN es = 1 .. Len(es)
  BY <1>1
<1> HIDE DEF r
<1>4. \A x : x \in Contained(r) <=> (x \in Contained(es) /\ x \in T)
  <2>1. \A x : x \in Contained(r) <=> \E j \in 1 .. Len(r) : r[j] = x
    BY <1>3 DEF Contained
  <2>2. \A x : x \in Contained(es) <=> \E i \in 1 .. Len(es) : es[i] = x
    BY <1>3 DEF Contained
  <2> QED
    BY <1>2, <2>1, <2>2, Zenon DEF KeptOf
<1>5. Contained(r) = {e \in Contained(es) : e \in T}
  BY <1>4
<1> QED
  BY <1>1, <1>2, <1>3, <1>5 DEF r, KeptOf

LEMMA EntriesOf ==
    ASSUME NEW es \in Seq(Entries)
    PROVE  /\ \A e \in Contained(es) : e \in Entries
           /\ \A i \in DOMAIN es : es[i] \in Contained(es)
BY DEF Contained

LEMMA SelectSound ==
    ASSUME NEW es, Sound(es), NEW T PROVE Sound(Select(es, T))
BY KeptEntries, Sizes DEF Sound

LEMMA UnexpiredEntries ==
    ASSUME NEW es, Sound(es)
    PROVE  Contained(Unexpired(es)) = Live(es) /\ Sound(Unexpired(es))
<1>1. es \in Seq(Entries)
  BY DEF Sound
<1>2. Contained(Unexpired(es)) =
        {e \in Contained(es) : e \in {x \in Entries : Alive(x)}}
  BY <1>1, KeptEntries DEF Unexpired
<1>3. Contained(Unexpired(es)) = Live(es)
  BY <1>1, <1>2, EntriesOf DEF Live
<1> QED
  BY <1>3, SelectSound DEF Unexpired

LEMMA WithoutEntries ==
    ASSUME Sound(cache), NEW k
    PROVE  /\ Contained(Without(k)) = {e \in Contained(cache) : e.key # k}
           /\ Sound(Without(k))
           /\ \A i \in DOMAIN cache : cache[i].key = k => Len(Without(k)) < Len(cache)
<1> DEFINE T == {e \in Entries : e.key # k}
<1>1. cache \in Seq(Entries) /\ Without(k) = Select(cache, T)
  BY DEF Sound, Without
<1>2. Contained(Without(k)) = {e \in Contained(cache) : e \in T}
  BY <1>1, KeptEntries
<1>3. \A i \in DOMAIN cache : cache[i].key = k => cache[i] \notin T
  OBVIOUS
<1>4. Contained(Without(k)) = {e \in Contained(cache) : e.key # k}
  BY <1>1, <1>2, EntriesOf
<1> HIDE DEF T
<1> QED
  BY <1>1, <1>3, <1>4, KeptEntries, SelectSound

LEMMA AppendEntries ==
    ASSUME NEW es \in Seq(Entries), NEW e \in Entries
    PROVE  /\ Append(es, e) \in Seq(Entries) /\ Len(Append(es, e)) = Len(es) + 1
           /\ Contained(Append(es, e)) = Contained(es) \cup {e}
<1> DEFINE q == Append(es, e)
<1>1. /\ q \in Seq(Entries) /\ Len(q) = Len(es) + 1 /\ q[Len(es) + 1] = e
      /\ Len(es) \in Nat /\ DOMAIN q = 1 .. Len(q) /\ DOMAIN es = 1 .. Len(es)
      /\ \A j \in 1 .. Len(es) : q[j] = es[j]
  OBVIOUS
<1> HIDE DEF q
<1>2. \A j : j \in 1 .. Len(q) <=> (j \in 1 .. Len(es) \/ j = Len(es) + 1)
  BY <1>1
<1>3. Contained(q) = Contained(es) \cup {e}
  BY <1>1, <1>2 DEF Contained
<1> QED
  BY <1>1, <1>3 DEF q

LEMMA EvictedEntries ==
    ASSUME NEW es \in Seq(Entries), Len(es) <= MaxSize + 1
    PROVE  /\ Evicted(es) \in Seq(Entries) /\ Len(Evicted(es)) <= MaxSize
           /\ Contained(Evicted(es)) \subseteq Contained(es)
<1>1. CASE Len(es) <= MaxSize
  BY <1>1 DEF Evicted
<1>2. CASE ~(Len(es) <= MaxSize)
  <2> DEFINE q == SubSeq(es, 3, Len(es))
  <2>1. Len(es) = MaxSize + 1 /\ MaxSize \in Nat \ {0}
    BY <1>2, Sizes
  <2>2. Evicted(es) = q
    BY <1>2, <2>1 DEF Evicted
  <2>3. /\ q \in Seq(Entries) /\ Len(q) = MaxSize - 1
        /\ \A j \in 1 .. Len(q) : q[j] = es[j + 2] /\ j + 2 \in 1 .. Len(es)
    BY <2>1
  <2> HIDE DEF q
  <2>4. DOMAIN q = 1 .. Len(q) /\ DOMAIN es = 1 .. Len(es)
    BY <2>3
  <2>5. Contained(q) \subseteq Contained(es)
    BY <2>3, <2>4 DEF Contained
  <2> QED
    BY <2>1, <2>2, <2>3, <2>5
<1> QED
  BY <1>1, <1>2

LEMMA ContentsApart ==
    /\ Torn.kind = "torn" /\ Empty.kind = "empty" /\ Absent.kind = "absent"
    /\ \A es : Whole(es).kind = "whole" /\ Whole(es).entries = es
BY DEF Torn, Empty, Absent, Content, Whole

LEMMA NothingSound ==
    SoundContent(Absent) /\ SoundContent(Empty) /\ SoundContent(Torn)
<1>1. <<>> \in Seq(Entries) /\ Len(<<>>) = 0 /\ Contained(<<>>) = {} /\ 0 <= MaxSize
  BY Sizes DEF Contained
<1>2. Sound(<<>>)
  BY <1>1, Zenon DEF Sound
<1>3. \A k : Content(k).entries = <<>>
  BY DEF Content
<1> QED
  BY <1>2, <1>3 DEF SoundContent, Absent, Empty, Torn, Contents

LEMMA WholeSound ==
    ASSUME NEW es, Sound(es) PROVE SoundContent(Whole(es))
<1>1. es \in Seq(Entries)
  BY DEF Sound
<1>2. Whole(es) \in Contents
  BY <1>1 DEF Whole, Contents
<1> QED
  BY <1>2, ContentsApart DEF SoundContent

LEMMA ImageSound == CleanInv => Sound(Image)
BY DEF CleanInv, SoundContent, Image

\* An entry of k at the end of what is left without k.
LEMMA MovedSound ==
    ASSUME Sound(cache), NEW k, NEW e \in Entries, e.key = k
    PROVE  LET q == Append(Without(k), e)
           IN  /\ q \in Seq(Entries) /\ Len(q) <= MaxSize + 1
               /\ Contained(q) = {d \in Contained(cache) : d.key # k} \cup {e}
               /\ \A a, b \in Contained(q) : a.key = b.key => a = b
<1> DEFINE w == Without(k)
           q == Append(w, e)
<1>1. /\ w \in Seq(Entries) /\ Len(w) <= MaxSize /\ Len(w) \in Nat
      /\ Contained(w) = {d \in Contained(cache) : d.key # k}
  <2>1. w \in Seq(Entries) /\ Len(w) <= MaxSize
    BY WithoutEntries DEF Sound
  <2>2. Len(w) \in Nat
    BY <2>1
  <2> QED
    BY <2>1, <2>2, WithoutEntries
<1> HIDE DEF w
<1>2. /\ q \in Seq(Entries) /\ Len(q) = Len(w) + 1
      /\ Contained(q) = Contained(w) \cup {e}
  BY <1>1, AppendEntries
<1>3. Len(q) <= MaxSize + 1
  BY <1>1, <1>2, Sizes
<1> HIDE DEF q
<1>4. \A a, b \in Contained(q) : a.key = b.key => a = b
  BY <1>1, <1>2 DEF Sound
<1> QED
  BY <1>1, <1>2, <1>3, <1>4 DEF q, w

LEMMA SetSound ==
    ASSUME CleanInv, NEW k \in Keys, Set(k) PROVE Sound(cache') /\ sets' \in 0 .. MaxSets
<1> DEFINE e == [key |-> k, ver |-> sets + 1]
           q == Append(Without(k), e)
<1>1. sets + 1 \in 1 .. MaxSets /\ sets' = sets + 1
  BY Sizes DEF CleanInv, Set
<1>2. e \in Entries /\ e.key = k
  BY <1>1 DEF Entries
<1>3. cache' = Evicted(q)
  BY DEF Set
<1> HIDE DEF e
<1>4. /\ q \in Seq(Entries) /\ Len(q) <= MaxSize + 1
      /\ \A a, b \in Contained(q) : a.key = b.key => a = b
  BY <1>2, MovedSound DEF CleanInv
<1> HIDE DEF q
<1>5. Sound(cache')
  BY <1>3, <1>4, EvictedEntries DEF Sound
<1> QED
  BY <1>1, <1>5

\* get keeps the entries as they are, or says that it has changed them.
LEMMA GetEffect ==
    ASSUME CleanInv, NEW k \in Keys, Get(k)
    PROVE  /\ Sound(cache')
           /\ \/ Contained(cache') = Contained(cache) /\ UNCHANGED <<dirty, late>>
              \/ Changed
<1>1. PICK i \in DOMAIN cache :
        /\ cache[i].key = k
        /\ \/ cache' = Append(Without(k), cache[i]) /\ UNCHANGED <<dirty, late>>
           \/ cache' = Without(k) /\ Changed
  BY DEF Get
<1>2. Sound(cache) /\ cache \in Seq(Entries)
  BY DEF CleanInv, Sound
<1>3. CASE cache' = Without(k) /\ Changed
  BY <1>2, <1>3, WithoutEntries
<1>4. CASE cache' = Append(Without(k), cache[i]) /\ UNCHANGED <<dirty, late>>
  <2> DEFINE e == cache[i]
  <2>1. e \in Entries /\ e \in Contained(cache) /\ e.key = k
    BY <1>1, <1>2, EntriesOf
  <2>2. /\ cache' \in Seq(Entries)
        /\ Contained(cache') = {d \in Contained(cache) : d.key # k} \cup {e}
        /\ \A a, b \in Contained(cache') : a.key = b.key => a = b
    BY <1>2, <1>4, <2>1, MovedSound
  <2>3. Contained(cache') = Contained(cache)
    BY <1>2, <2>1, <2>2 DEF Sound
  <2>4. Len(cache') <= MaxSize
    <3>1. Len(Without(k)) < Len(cache) /\ Without(k) \in Seq(Entries)
      BY <1>1, <1>2, WithoutEntries DEF Sound
    <3>2. Len(cache') = Len(Without(k)) + 1
      BY <1>4, <2>1, <3>1, AppendEntries
    <3>3. Len(cache) <= MaxSize /\ Len(cache) \in Nat /\ Len(Without(k)) \in Nat
      BY <1>2, <3>1 DEF Sound
    <3> QED
      BY <3>1, <3>2, <3>3, Sizes
  <2> QED
    BY <1>4, <2>2, <2>3, <2>4 DEF Sound
<1> QED
  BY <1>1, <1>3, <1>4

\* An interrupted save leaves sound contents; the cache stays to be saved.
LEMMA CutShortSound ==
    ASSUME CleanInv, CutShort
    PROVE  /\ dirty /\ saver' = "idle"
           /\ SoundContent(bytes') /\ SoundContent(file') /\ SoundContent(backup')
<1>1. saver # "idle" /\ saver' = "idle" /\ bytes' = Absent
  BY DEF CutShort
<1>2. file' \in {file, Empty} \cup Beginnings(bytes)
      /\ backup' \in {backup, Empty} \cup Beginnings(bytes)
  BY DEF CutShort, files
<1>3. \A x \in Beginnings(bytes) : x \in {Empty, Torn, bytes}
  BY DEF Beginnings
<1>4. SoundContent(file') /\ SoundContent(backup')
  BY <1>2, <1>3, NothingSound DEF CleanInv
<1> QED
  BY <1>1, <1>4, NothingSound DEF CleanInv

LEMMA ClientEffect ==
    ASSUME CleanInv, Client
    PROVE  /\ Sound(cache') /\ sets' \in 0 .. MaxSets
           /\ UNCHANGED <<state, saver, bytes, file, backup, expired>>
           /\ state = "running"
           /\ \/ Contained(cache') = Contained(cache) /\ UNCHANGED <<dirty, late>>
              \/ Changed
<1>1. CASE \E k \in Keys : Set(k)
  BY <1>1, SetSound DEF Set, files
<1>2. CASE \E k \in Keys : Get(k)
  <2>1. sets' = sets /\ sets \in 0 .. MaxSets
    BY <1>2 DEF Get, CleanInv
  <2> QED
    BY <1>2, <2>1, GetEffect DEF Get, files
<1>3. CASE \E k \in Keys : Delete(k)
  <2>1. sets' = sets /\ sets \in 0 .. MaxSets
    BY <1>3 DEF Delete, CleanInv
  <2>2. Sound(cache')
    BY <1>3, WithoutEntries DEF Delete, CleanInv
  <2> QED
    BY <1>3, <2>1, <2>2 DEF Delete, files
<1>4. CASE Clear
  <2>1. sets' = sets /\ sets \in 0 .. MaxSets
    BY <1>4 DEF Clear, CleanInv
  <2>2. Sound(<<>>)
    BY NothingSound DEF SoundContent, Absent, Content
  <2> QED
    BY <1>4, <2>1, <2>2 DEF Clear, files
<1> QED
  BY <1>1, <1>2, <1>3, <1>4 DEF Client

\* The snapshot is what is alive in the cache.
LEMMA SnapshotEffect ==
    ASSUME CleanInv, TakeSnapshot, UNCHANGED <<cache, expired>>
    PROVE  /\ saver' = "openFile" /\ ~late'
           /\ SoundContent(bytes') /\ bytes'.kind = "whole"
           /\ Live(bytes'.entries) = Live(cache)
<1>1. Sound(cache) /\ bytes' = Whole(Unexpired(cache)) /\ saver' = "openFile" /\ ~late'
  BY DEF CleanInv, TakeSnapshot
<1>2. /\ Sound(Unexpired(cache)) /\ Contained(Unexpired(cache)) = Live(cache)
  BY <1>1, UnexpiredEntries
<1>3. SoundContent(bytes') /\ bytes'.kind = "whole" /\ bytes'.entries = Unexpired(cache)
  BY <1>1, <1>2, WholeSound, ContentsApart
<1>4. Live(Unexpired(cache)) = Live(cache)
  BY <1>2 DEF Live
<1> QED
  BY <1>1, <1>3, <1>4

LEMMA CleanInit == Init => CleanInv
<1> SUFFICES ASSUME Init PROVE CleanInv
  OBVIOUS
<1>1. Sound(<<>>) /\ SoundContent(Absent)
  BY NothingSound DEF SoundContent, Absent, Content
<1> QED
  BY <1>1, Sizes DEF Init, CleanInv

LEMMA CleanStep == CleanInv /\ [Next]_vars => CleanInv'
<1> SUFFICES ASSUME CleanInv, [Next]_vars PROVE CleanInv'
  OBVIOUS
<1>0. /\ Sound(cache) /\ SoundContent(bytes) /\ SoundContent(file)
      /\ SoundContent(backup) /\ sets \in 0 .. MaxSets
  BY DEF CleanInv
<1>1. CASE Start
  <2>1. /\ cache' = Unexpired(Image) /\ ~dirty' /\ saver = "idle"
        /\ UNCHANGED <<saver, bytes, file, backup, sets, expired>> /\ state' = "running"
    BY <1>1 DEF Start, Loaded, Image, files, CleanInv
  <2>2. Sound(cache') /\ Contained(cache') = Live(Image)
    BY <2>1, ImageSound, UnexpiredEntries
  <2>3. Live(Image)' = Live(cache)'
    <3>1. Image' = Image
      BY <2>1 DEF Image
    <3>2. Live(Image)' = Live(Image)
      BY <2>1, <3>1 DEF Live, Alive
    <3>3. Live(cache)' = {e \in Live(Image) : Alive(e)}
      BY <2>1, <2>2 DEF Live, Alive
    <3> QED
      BY <3>2, <3>3 DEF Live
  <2> QED
    BY <1>0, <2>1, <2>2, <2>3 DEF CleanInv, SoundContent, Sound
<1>2. CASE Client
  <2>1. /\ Sound(cache') /\ sets' \in 0 .. MaxSets /\ state = "running"
        /\ UNCHANGED <<state, saver, bytes, file, backup, expired>>
        /\ \/ Contained(cache') = Contained(cache) /\ UNCHANGED <<dirty, late>>
           \/ Changed
    BY <1>2, ClientEffect
  <2>2. Image' = Image
    BY <2>1 DEF Image
  <2>3. Live(Image)' = Live(Image) /\ Live(bytes.entries)' = Live(bytes.entries)
    BY <2>1, <2>2 DEF Live, Alive
  <2>4. SoundContent(bytes)' /\ SoundContent(file)' /\ SoundContent(backup)' /\ Sound(cache)'
    BY <1>0, <2>1 DEF SoundContent, Sound
  <2>5. CASE Contained(cache') = Contained(cache) /\ UNCHANGED <<dirty, late>>
    <3>1. Live(cache)' = Live(cache)
      BY <2>1, <2>5 DEF Live, Alive
    <3> QED
      BY <2>1, <2>3, <2>4, <2>5, <3>1 DEF CleanInv
  <2>6. CASE Changed
    BY <2>1, <2>4, <2>6 DEF CleanInv, Changed
  <2> QED
    BY <2>1, <2>5, <2>6
<1>3. CASE Expire
  <2>1. /\ UNCHANGED <<state, cache, dirty, sets, late, saver, bytes, file, backup>>
        /\ \A v : v \in expired => v \in expired'
    BY <1>3 DEF Expire, clientVars, files
  <2>2. Image' = Image
    BY <2>1 DEF Image
  <2>3. /\ Live(Image)' = {e \in Live(Image) : e.ver \notin expired'}
        /\ Live(cache)' = {e \in Live(cache) : e.ver \notin expired'}
        /\ Live(bytes.entries)' = {e \in Live(bytes.entries) : e.ver \notin expired'}
    BY <2>1, <2>2 DEF Live, Alive
  <2>4. SoundContent(bytes)' /\ SoundContent(file)' /\ SoundContent(backup)' /\ Sound(cache)'
    BY <1>0, <2>1 DEF SoundContent, Sound
  <2> QED
    BY <2>1, <2>3, <2>4 DEF CleanInv
<1>4. CASE TakeSnapshot /\ UNCHANGED <<state, cache, dirty, sets, file, expired>>
           /\ dirty /\ state \in {"running", "closing"} /\ SoundContent(backup')
  <2>1. /\ saver' = "openFile" /\ ~late' /\ SoundContent(bytes')
        /\ bytes'.kind = "whole" /\ Live(bytes'.entries) = Live(cache)
    BY <1>4, SnapshotEffect
  <2>2. Live(bytes.entries)' = Live(bytes'.entries) /\ Live(cache)' = Live(cache)
    BY <1>4 DEF Live, Alive
  <2>3. SoundContent(bytes)' /\ SoundContent(file)' /\ SoundContent(backup)' /\ Sound(cache)'
    BY <1>0, <1>4, <2>1 DEF SoundContent, Sound
  <2> QED
    BY <1>0, <1>4, <2>1, <2>2, <2>3 DEF CleanInv
<1>5. CASE BeginSave
  <2>1. /\ UNCHANGED <<state, cache, dirty, sets, file, backup, expired>>
        /\ dirty /\ state \in {"running", "closing"}
    BY <1>5 DEF BeginSave, files
  <2>2. CASE TakeSnapshot
    BY <1>0, <1>4, <2>1, <2>2
  <2>3. CASE saver' = "reading" /\ UNCHANGED <<bytes, late>>
    <3>1. SoundContent(bytes)' /\ SoundContent(file)' /\ SoundContent(backup)'
          /\ Sound(cache)'
      BY <1>0, <2>1, <2>3 DEF SoundContent, Sound
    <3> QED
      BY <1>0, <2>1, <2>3, <3>1 DEF CleanInv
  <2> QED
    BY <1>5, <2>2, <2>3 DEF BeginSave
<1>6. CASE WriteBackup
  <2>1. /\ UNCHANGED <<state, cache, dirty, sets, file, expired>> /\ TakeSnapshot
        /\ saver = "writeBackup" /\ backup' = bytes
    BY <1>6 DEF WriteBackup
  <2>2. dirty /\ state \in {"running", "closing"}
    <3>1. dirty /\ state \notin {"down", "closed"}
      BY <2>1 DEF CleanInv
    <3>2. state \in {"down", "running", "closing", "closed"}
      BY DEF CleanInv
    <3> QED
      BY <3>1, <3>2
  <2> QED
    BY <1>0, <1>4, <2>1, <2>2
<1>7. CASE ReadFile \/ OpenBackup
  <2>1. /\ UNCHANGED <<state, cache, dirty, sets, late, file, expired>>
        /\ saver \in {"reading", "openBackup"} /\ saver' \in {"openBackup", "writeBackup"}
        /\ bytes' \in {bytes, file} /\ backup' \in {backup, Empty}
    BY <1>7 DEF ReadFile, OpenBackup, clientVars, files
  <2>2. SoundContent(bytes)' /\ SoundContent(file)' /\ SoundContent(backup)' /\ Sound(cache)'
    BY <1>0, <2>1, NothingSound DEF SoundContent, Sound
  <2>3. dirty
    BY <2>1 DEF CleanInv
  <2> QED
    BY <2>1, <2>2, <2>3 DEF CleanInv
<1>8. CASE OpenFile
  <2>1. /\ UNCHANGED <<state, cache, dirty, sets, late, bytes, backup, expired>>
        /\ saver = "openFile" /\ saver' = "writeFile" /\ file' = Empty
    BY <1>8 DEF OpenFile, clientVars
  <2>2. SoundContent(bytes)' /\ SoundContent(file)' /\ SoundContent(backup)' /\ Sound(cache)'
    BY <1>0, <2>1, NothingSound DEF SoundContent, Sound
  <2>3. dirty /\ Live(bytes.entries)' = Live(bytes.entries) /\ Live(cache)' = Live(cache)
    BY <2>1 DEF CleanInv, Live, Alive
  <2> QED
    BY <2>1, <2>2, <2>3 DEF CleanInv
<1>9. CASE WriteFile
  <2>1. /\ UNCHANGED <<state, cache, sets, late, backup, expired>>
        /\ saver = "writeFile" /\ saver' = "idle" /\ file' = bytes /\ bytes' = Absent
        /\ ~dirty'
    BY <1>9 DEF WriteFile
  <2>2. SoundContent(bytes)' /\ SoundContent(file)' /\ SoundContent(backup)' /\ Sound(cache)'
    BY <1>0, <2>1, NothingSound DEF SoundContent, Sound
  <2>3. bytes.kind = "whole" /\ (~late => Live(bytes.entries) = Live(cache))
    BY <2>1 DEF CleanInv
  <2>4. Image' = bytes.entries
    BY <2>1, <2>3, ContentsApart DEF Image
  <2>5. Live(Image)' = Live(bytes.entries) /\ Live(cache)' = Live(cache)
    BY <2>1, <2>4 DEF Live, Alive
  <2>6. sets' \in 0 .. MaxSets
    BY <1>0, <2>1
  <2> QED
    BY <2>1, <2>2, <2>3, <2>5, <2>6 DEF CleanInv
<1>10. CASE CutShort /\ (SaveFails \/ Shutdown \/ Kill)
  <2>1. /\ dirty /\ saver' = "idle" /\ SoundContent(bytes')
        /\ SoundContent(file') /\ SoundContent(backup')
    BY <1>10, CutShortSound
  <2>2. /\ UNCHANGED <<sets, expired>>
        /\ \/ UNCHANGED <<cache, dirty>>
           \/ cache' = <<>> /\ state' = "down"
        /\ state' \in {"down", "running", "closing", "closed"}
    BY <1>10 DEF SaveFails, Shutdown, Kill, clientVars, CleanInv
  <2>3. Sound(<<>>)
    BY NothingSound DEF SoundContent, Absent, Content
  <2>4. SoundContent(bytes)' /\ SoundContent(file)' /\ SoundContent(backup)' /\ Sound(cache)'
    BY <1>0, <2>1, <2>2, <2>3 DEF SoundContent, Sound
  <2> QED
    BY <1>0, <2>1, <2>2, <2>4 DEF CleanInv
<1>11. CASE \/ Close \/ UNCHANGED vars
            \/ /\ Shutdown \/ Kill
               /\ saver = "idle" /\ UNCHANGED <<saver, bytes, files>>
  <2>1. /\ UNCHANGED <<saver, bytes, file, backup, sets, expired>>
        /\ \/ UNCHANGED <<cache, dirty, late>> /\ state \notin {"down"} /\ saver = "idle"
           \/ cache' = <<>> /\ state' = "down" /\ saver = "idle"
           \/ UNCHANGED <<state, cache, dirty, late>>
        /\ state' \in {"down", "running", "closing", "closed"}
    BY <1>11 DEF Close, Shutdown, Kill, vars, clientVars, files, CleanInv
  <2>2. Sound(<<>>)
    BY NothingSound DEF SoundContent, Absent, Content
  <2>3. SoundContent(bytes)' /\ SoundContent(file)' /\ SoundContent(backup)' /\ Sound(cache)'
    BY <1>0, <2>1, <2>2 DEF SoundContent, Sound
  <2>4. Image' = Image
    BY <2>1 DEF Image
  <2>5. Live(Image)' = Live(Image) /\ Live(bytes.entries)' = Live(bytes.entries)
    BY <2>1, <2>4 DEF Live, Alive
  <2>6. cache' = cache => Live(cache)' = Live(cache)
    BY <2>1 DEF Live, Alive
  <2>7. sets' \in 0 .. MaxSets
    BY <1>0, <2>1
  <2> QED
    BY <2>1, <2>3, <2>5, <2>6, <2>7 DEF CleanInv
<1> QED
  <2>1. SaveFails => CutShort
    BY DEF SaveFails
  <2>2. Shutdown \/ Kill => CutShort \/ (saver = "idle" /\ UNCHANGED <<saver, bytes, files>>)
    BY DEF Shutdown, Kill
  <2> QED
    BY <1>1, <1>2, <1>3, <1>5, <1>6, <1>7, <1>8, <1>9, <1>10, <1>11, <2>1, <2>2
       DEF Next, SaveStep

LEMMA CleanSuffices == CleanInv => CleanMeansSaved /\ Len(cache) <= MaxSize
<1> SUFFICES ASSUME CleanInv PROVE CleanMeansSaved /\ Len(cache) <= MaxSize
  OBVIOUS
<1>1. Loaded = Unexpired(Image)
  BY DEF Loaded, Image
<1>2. /\ Contained(Loaded) = Live(Image)
      /\ Contained(Unexpired(cache)) = Live(cache)
  BY <1>1, ImageSound, UnexpiredEntries DEF CleanInv
<1> QED
  BY <1>2 DEF CleanMeansSaved, CleanInv, Sound

\* When nothing is to be saved, a restart would find exactly the entries in memory: after
\* any sequence of sets, gets that delete what is over, deletes, evictions, interrupted
\* saves, kills and restores, unless the cache was changed after the last snapshot.
THEOREM CleanIsSaved == Spec => []CleanMeansSaved
<1>1. Spec => []CleanInv
  BY CleanInit, CleanStep, PTL DEF Spec
<1> QED
  BY <1>1, CleanSuffices, PTL

\* The cache never holds more than max_size entries, nor two different ones of a key,
\* whatever was loaded from the disk (_evict_if_needed, _load_cache).
THEOREM CacheBounded ==
    Spec => [](Len(cache) <= MaxSize
               /\ \A i, j \in DOMAIN cache : cache[i].key = cache[j].key
                                               => cache[i] = cache[j])
<1> DEFINE Bounded == Len(cache) <= MaxSize
               /\ \A i, j \in DOMAIN cache : cache[i].key = cache[j].key
                                               => cache[i] = cache[j]
<1>1. Spec => []CleanInv
  BY CleanInit, CleanStep, PTL DEF Spec
<1>2. CleanInv => Bounded
  BY DEF CleanInv, Sound, Contained
<1> QED
  BY <1>1, <1>2, PTL

-----------------------------------------------------------------------------
(* The program as a whole (ProgramLifecycle)                               *)

Undisturbed == how = "returns" /\ failures = 0

Starting == {"monitor", "cache", "connection"}
BeforeExport == Starting \cup {"connect", "configure", "start_media"}
AfterExport == {"stop_media", "hooks", "close_http", "disconnect", "stop_checks",
                "stop_connection", "stop_cache", "stop_monitor", "ended"}
Stopping == {"stop_connection", "stop_cache", "stop_monitor", "ended"}

\* The progress the export has made is in the cache.
Noted == memory = exported

HookNames == {"telegram", "http", "cache", "progress"}

\* The hook of the progress is the last one.
ProgressLast == hooks # <<>> /\ hooks[Len(hooks)] = "progress"

\* The systems and the hooks of a run that nothing disturbs.
SystemsOK ==
    /\ main_pc \in BeforeExport \cup {"export"} \cup AfterExport
    /\ systems \in [Life!Systems -> Life!Lives]
    /\ main_pc \notin {"monitor", "cache"} => Life!CacheUp
    /\ main_pc \notin Starting \cup {"ended"} => _initialized
    /\ main_pc \in Stopping => _task_group_runner # "running"
    /\ hooks \in Seq(HookNames)
    /\ main_pc \in {"export", "stop_media"} => ProgressLast
    /\ main_pc = "hooks" => hooks = <<>> \/ ProgressLast

\* Where the progress is, as long as nobody clears the cache.
ProgressOK ==
    /\ main_pc \in BeforeExport => exported = 0 /\ memory = 0
    /\ main_pc \in AfterExport => Noted \/ shutdown_requested
    /\ main_pc = "hooks" /\ hooks = <<>> => Noted
    /\ graceful => Noted /\ main_pc \in AfterExport
    /\ main_pc \in {"stop_monitor", "ended"} => ~unsaved

LifeInv ==
    /\ failures \in Nat
    /\ ~unsaved => cache_file = memory
    /\ Undisturbed => SystemsOK /\ (~cleared => ProgressOK)

LEMMA LifeStarts == Life!Init => LifeInv
  BY EmptySeq DEF Life!Init, LifeInv, Undisturbed, SystemsOK, ProgressOK, BeforeExport, Starting,
     AfterExport, Stopping, Life!Systems, Life!Lives, Noted

\* Nothing undoes a disturbance or the clearing of the cache.
LEMMA LifeGoesOn ==
  ASSUME LifeInv, Life!Next
  PROVE  /\ failures' \in Nat
         /\ Undisturbed' => Undisturbed
         /\ ~cleared' => ~cleared
         /\ (~unsaved => cache_file = memory)'
<1> USE DEF Life!core, Life!cache, Life!parts, Life!sig, Life!Fault
<1>1. ~unsaved => cache_file = memory
  BY DEF LifeInv
<1>2. failures \in Nat
  BY DEF LifeInv
<1>3. CASE Life!Main
  <2>1. CASE Life!StartSystem \/ Life!StartFails \/ Life!Connect \/ Life!Configure
             \/ Life!StartMedia \/ Life!Export \/ Life!ExportOver \/ Life!Raises
             \/ Life!StopMedia \/ Life!CloseHttp \/ Life!HooksDone \/ Life!Disconnect
             \/ Life!StopChecks
    BY <1>1, <1>2, <2>1 DEF Life!StartSystem, Life!StartFails, Life!Connect, Life!Configure,
       Life!StartMedia, Life!Export, Life!ExportOver, Life!Raises, Life!StopMedia,
       Life!CloseHttp, Life!HooksDone, Life!Disconnect, Life!StopChecks, Undisturbed
  <2>2. CASE Life!SaveProgress \/ Life!StopSystem \/ Life!RunHook
    <3>1. how' = how /\ cleared' = cleared /\ failures' \in {failures, failures + 1}
      BY <2>2 DEF Life!SaveProgress, Life!StopSystem, Life!RunHook
    <3>2. Life!Note \/ Life!Saved \/ UNCHANGED Life!cache
      BY <2>2 DEF Life!SaveProgress, Life!StopSystem, Life!RunHook, Life!SaveIfDirty
    <3>3. (~unsaved => cache_file = memory)'
      <4>1. CASE Life!Note
        BY <1>1, <4>1, Zenon DEF Life!Note
      <4>2. CASE Life!Saved \/ UNCHANGED Life!cache
        BY <1>1, <4>2 DEF Life!Saved
      <4> QED
        BY <3>2, <4>1, <4>2
    <3> QED
      BY <1>2, <3>1, <3>3 DEF Undisturbed
  <2> QED
    BY <1>3, <2>1, <2>2 DEF Life!Main
<1>4. CASE Life!Background \/ Life!Signal
  BY <1>1, <1>2, <1>4 DEF Life!Background, Life!HealthCheck, Life!AutoSave,
     Life!EmergencyAdaptation, Life!Saved, Life!Signal, Life!Sigint, Life!ForceShutdown,
     Undisturbed
<1>5. CASE UNCHANGED Life!vars
  BY <1>1, <1>2, <1>5 DEF Life!vars, Undisturbed
<1> QED
  BY <1>3, <1>4, <1>5 DEF Life!Next

LEMMA LastOfAppend ==
  ASSUME NEW S, NEW list \in Seq(S), NEW elt \in S
  PROVE  /\ Append(list, elt) \in Seq(S) /\ Append(list, elt) # <<>>
         /\ Append(list, elt)[Len(Append(list, elt))] = elt
  BY AppendProperties

LEMMA LastOfTail ==
  ASSUME NEW S, NEW list \in Seq(S), list # <<>>
  PROVE  /\ Tail(list) \in Seq(S)
         /\ Tail(list) = <<>> => Head(list) = list[Len(list)]
         /\ Tail(list) # <<>> => Tail(list)[Len(Tail(list))] = list[Len(list)]
<1>1. /\ Head(list) = list[1] /\ Len(list) \in Nat /\ Len(list) >= 1
      /\ Tail(list) \in Seq(S) /\ Len(Tail(list)) = Len(list) - 1
      /\ \A i \in 1 .. Len(Tail(list)) : Tail(list)[i] = list[i + 1]
  BY HeadTailProperties, EmptySeq, LenProperties
<1>2. CASE Tail(list) = <<>>
  <2>1. Len(list) = 1
    <3>1. Len(Tail(list)) = 0
      BY ONLY <1>1, <1>2, EmptySeq
    <3>2. Len(list) \in Nat /\ Len(Tail(list)) = Len(list) - 1
      BY <1>1
    <3> QED
      BY ONLY <3>1, <3>2
  <2> QED
    BY <1>1, <1>2, <2>1
<1>3. CASE Tail(list) # <<>>
  <2>1. Len(Tail(list)) # 0 /\ Len(Tail(list)) \in Nat
    BY <1>1, <1>3, EmptySeq
  <2>2. Len(Tail(list)) \in 1 .. Len(Tail(list)) /\ Len(Tail(list)) + 1 = Len(list)
    BY <1>1, <2>1
  <2> QED
    BY <1>1, <1>3, <2>2
<1> QED
  BY <1>2, <1>3

\* The steps of an undisturbed run.
LEMMA MainStarts ==
  ASSUME SystemsOK, ~cleared => ProgressOK,
         \/ Life!StartSystem \/ Life!Connect \/ Life!Configure \/ Life!StartMedia
  PROVE  SystemsOK' /\ (~cleared => ProgressOK)'
<1> USE DEF BeforeExport, Starting, AfterExport, Stopping, Life!core, Life!cache,
        Life!parts, Life!sig, Noted, Life!CacheUp, ProgressLast
<1>1. CASE Life!StartSystem
  BY <1>1 DEF SystemsOK, ProgressOK, Life!StartSystem, Life!Systems, Life!Lives
<1>2. CASE Life!Connect
  BY <1>2 DEF SystemsOK, ProgressOK, Life!Connect
<1>3. CASE Life!Configure
  <2>1. hooks' \in Seq(HookNames)
    <3>1. /\ hooks \in Seq(HookNames)
          /\ hooks' = hooks \/ hooks' = <<"telegram", "http", "cache">>
      BY <1>3 DEF SystemsOK, Life!Configure
    <3>2. <<"telegram", "http", "cache">> \in Seq(HookNames)
      BY DEF HookNames
    <3> QED
      BY <3>1, <3>2
  <2> QED
    BY <1>3, <2>1 DEF SystemsOK, ProgressOK, Life!Configure
<1>4. CASE Life!StartMedia
  <2>1. /\ main_pc = "start_media" /\ main_pc' = "export" /\ hooks \in Seq(HookNames)
        /\ hooks' = Append(hooks, "progress")
        /\ UNCHANGED <<systems, _initialized, _task_group_runner, memory, unsaved, exported,
                       shutdown_requested, graceful, cleared>>
    BY <1>4 DEF SystemsOK, Life!StartMedia
  <2>2. hooks' \in Seq(HookNames) /\ ProgressLast'
    <3>1. "progress" \in HookNames
      BY DEF HookNames
    <3>2. /\ Append(hooks, "progress") \in Seq(HookNames) /\ Append(hooks, "progress") # <<>>
          /\ Append(hooks, "progress")[Len(Append(hooks, "progress"))] = "progress"
      BY <2>1, <3>1, LastOfAppend
    <3> QED
      BY <2>1, <3>2
  <2> QED
    BY <2>1, <2>2 DEF SystemsOK, ProgressOK
<1> QED
  BY <1>1, <1>2, <1>3, <1>4

LEMMA MainExports ==
  ASSUME SystemsOK, ~cleared => ProgressOK,
         \/ Life!Export \/ Life!SaveProgress \/ Life!ExportOver
  PROVE  SystemsOK' /\ (~cleared => ProgressOK)'
<1> USE DEF BeforeExport, Starting, AfterExport, Stopping, Life!core, Life!cache,
        Life!parts, Life!sig, Noted, Life!CacheUp, ProgressLast
<1>1. CASE Life!Export
  BY <1>1 DEF SystemsOK, ProgressOK, Life!Export
<1>2. CASE Life!SaveProgress
  BY <1>2 DEF SystemsOK, ProgressOK, Life!SaveProgress, Life!Note
<1>3. CASE Life!ExportOver
  BY <1>3 DEF SystemsOK, ProgressOK, Life!ExportOver
<1> QED
  BY <1>1, <1>2, <1>3

LEMMA MainStops ==
  ASSUME SystemsOK, ~cleared => ProgressOK,
         \/ Life!StopMedia \/ Life!CloseHttp \/ Life!HooksDone \/ Life!Disconnect
         \/ Life!StopChecks \/ Life!StopSystem
  PROVE  SystemsOK' /\ (~cleared => ProgressOK)'
<1> USE DEF BeforeExport, Starting, AfterExport, Stopping, Life!core, Life!cache,
        Life!parts, Life!sig, Noted, Life!CacheUp, ProgressLast
<1>1. CASE Life!StopMedia
  BY <1>1 DEF SystemsOK, ProgressOK, Life!StopMedia
<1>2. CASE Life!CloseHttp
  BY <1>2 DEF SystemsOK, ProgressOK, Life!CloseHttp
<1>3. CASE Life!HooksDone
  BY <1>3 DEF SystemsOK, ProgressOK, Life!HooksDone
<1>4. CASE Life!Disconnect
  BY <1>4 DEF SystemsOK, ProgressOK, Life!Disconnect
<1>5. CASE Life!StopChecks
  BY <1>5 DEF SystemsOK, ProgressOK, Life!StopChecks
<1>6. CASE Life!StopSystem
  BY <1>6 DEF SystemsOK, ProgressOK, Life!StopSystem, Life!Stopped,
     Life!SaveIfDirty, Life!Saved, Life!Systems, Life!Lives
<1> QED
  BY <1>1, <1>2, <1>3, <1>4, <1>5, <1>6

\* The hooks: the one of the progress comes last, and notes it in a cache that
\* is down by then and saved once more.
LEMMA HookRuns ==
  ASSUME SystemsOK, ~cleared => ProgressOK, Life!RunHook, failures' = failures, failures \in Nat
  PROVE  SystemsOK' /\ (~cleared => ProgressOK)'
<1> USE DEF Life!core, Life!cache, Life!parts, Life!sig, Life!Fault
<1>1. /\ main_pc = "hooks" /\ hooks \in Seq(HookNames) /\ ProgressLast /\ Life!CacheUp
      /\ main_pc' = main_pc /\ hooks' = Tail(hooks)
  BY DEF Life!RunHook, SystemsOK, Starting
<1>2. /\ hooks' \in Seq(HookNames) /\ (hooks' = <<>> \/ ProgressLast')
      /\ hooks' = <<>> => Head(hooks) = "progress"
  <2>1. hooks # <<>> /\ hooks[Len(hooks)] = "progress"
    BY <1>1 DEF ProgressLast
  <2>2. /\ Tail(hooks) \in Seq(HookNames)
        /\ Tail(hooks) = <<>> => Head(hooks) = hooks[Len(hooks)]
        /\ Tail(hooks) # <<>> => Tail(hooks)[Len(Tail(hooks))] = hooks[Len(hooks)]
    BY <1>1, <2>1, LastOfTail
  <2> QED
    BY <1>1, <2>1, <2>2 DEF ProgressLast
<1>3. /\ Head(hooks) = "progress" => memory' = exported
      /\ memory' \in {memory, exported} /\ exported' = exported
      /\ UNCHANGED <<_initialized, _task_group_runner, shutdown_requested, graceful, cleared>>
      /\ systems' = systems \/ systems' = [systems EXCEPT !["cache"] = "down"]
  BY <1>1 DEF Life!RunHook, Life!Note, Life!SaveIfDirty, Life!Saved
<1>4. SystemsOK'
  BY <1>1, <1>2, <1>3 DEF SystemsOK, BeforeExport, Starting, AfterExport, Stopping,
     Life!Systems, Life!Lives, Life!CacheUp
<1>5. (~cleared => ProgressOK)'
  BY <1>1, <1>2, <1>3 DEF ProgressOK, Noted, BeforeExport, Starting, AfterExport
<1> QED
  BY <1>4, <1>5

LEMMA BesidesMain ==
  ASSUME SystemsOK, ~cleared => ProgressOK, ~unsaved => cache_file = memory,
         Life!Background \/ Life!Sigint
  PROVE  SystemsOK' /\ (~cleared => ProgressOK)'
  BY DEF SystemsOK, ProgressOK, Life!Background, Life!HealthCheck, Life!AutoSave,
     Life!EmergencyAdaptation, Life!Saved, Life!Sigint,
     Life!core, Life!cache, Life!parts, Life!sig, BeforeExport, Starting, AfterExport,
     Stopping, Noted, Life!CacheUp, ProgressLast

LEMMA LifeSteps == LifeInv /\ [Life!Next]_lifeVars => LifeInv'
<1> SUFFICES ASSUME LifeInv, [Life!Next]_lifeVars PROVE LifeInv'
  OBVIOUS
<1>1. CASE UNCHANGED lifeVars
  BY <1>1 DEF lifeVars, LifeInv, Undisturbed, SystemsOK, ProgressOK, Noted, Life!CacheUp,
     ProgressLast
<1>2. CASE Life!Next
  <2> SUFFICES ASSUME Undisturbed' PROVE SystemsOK' /\ (~cleared => ProgressOK)'
    BY <1>2, LifeGoesOn DEF LifeInv
  <2>1. /\ Undisturbed /\ SystemsOK /\ (~cleared => ProgressOK) /\ failures \in Nat
        /\ failures' = failures /\ how' = how
        /\ ~unsaved => cache_file = memory
    BY <1>2, LifeGoesOn DEF LifeInv, Undisturbed
  <2>2. ~Life!StartFails /\ ~Life!Raises /\ ~Life!ForceShutdown
    BY <2>1 DEF Life!StartFails, Life!Raises, Life!ForceShutdown, Life!Fault, Undisturbed
  <2>3. CASE UNCHANGED Life!vars
    BY <2>1, <2>3 DEF SystemsOK, ProgressOK, Noted, Life!CacheUp, ProgressLast, Life!vars, Life!core,
       Life!cache, Life!parts, Life!sig
  <2> QED
    BY <1>2, <2>1, <2>2, <2>3, MainStarts, MainExports, MainStops, HookRuns, BesidesMain
       DEF Life!Next, Life!Main, Life!Signal
<1> QED
  BY <1>1, <1>2

\* The progress of the export is in the cache file when the program has come to
\* its end without an error, whenever the user interrupted it and whatever the
\* health checks and the automatic saves did meanwhile.
THEOREM ProgressAlwaysKept == ProgramSpec => []ProgressKept
<1>1. ProgramInit => LifeInv
  BY LifeStarts DEF ProgramInit
<1>2. LifeInv /\ [ProgramNext]_<<which, vars, takeoutVars, lifeVars>> => LifeInv'
  <2> SUFFICES ASSUME [ProgramNext]_<<which, vars, takeoutVars, lifeVars>>
               PROVE  [Life!Next]_lifeVars
    BY LifeSteps
  <2> QED
    BY DEF ProgramNext, OfCache
<1>3. LifeInv => ProgressKept
  BY DEF LifeInv, Undisturbed, ProgressOK, Noted, AfterExport, ProgressKept,
     Life!ProgressKept, Life!Core
<1> QED
  BY <1>1, <1>2, <1>3, PTL DEF ProgramSpec

-----------------------------------------------------------------------------
(* The Takeout sessions (TakeoutSession)                                   *)

Askers == {"precheck", "run_export", "shards"}
MainPlaces == {"precheck", "prechecked", "run_export", "takeout", "exit", "exit_raising",
               "fallback", "leaving", "ended"}

\* Each fetch, the precheck and run_export ask for one session at most.
Asked == {f \in Takeout!Fetches : fetch[f] \notin {"none", "setup", "asking"}}
AskedByMain == IF pc = "precheck" THEN 0 ELSE IF pc \in {"prechecked", "run_export"} THEN 1 ELSE 2

PlacesTyped   == pc \in MainPlaces /\ cur \in 0 .. 2 * LastTarget /\ breaks \in Nat
SessionsTyped ==
    /\ opened \in Nat /\ opened <= AskedByMain + Cardinality(Asked)
    /\ opened <= 2 * LastTarget + 2
    /\ opener \in [Takeout!Ids -> Askers \cup {"nobody"}]
    /\ finisher \in [Takeout!Ids -> Askers \cup {"nobody"}]
KnownTyped    ==
    /\ client \in 0 .. opened /\ _external_takeout_id \in 0 .. opened /\ takeout_id \in 0 .. opened
    /\ used \in [Takeout!Fetches -> 0 .. opened]
FetchesTyped  ==
    /\ fetch \in [Takeout!Fetches -> Takeout!Phases] /\ left \subseteq Takeout!Fetches
    /\ closing \in [Takeout!Fetches -> Nat]
    /\ \A f \in Takeout!Fetches : fetch[f] = "connecting" => closing[f] \in Takeout!Workers
WorkersTyped  ==
    /\ worker_clients \in Seq(Takeout!Fetches \X Takeout!Workers)
    /\ connected \subseteq Takeout!Fetches \X Takeout!Workers

TakeoutTypes == PlacesTyped /\ SessionsTyped /\ KnownTyped /\ FetchesTyped /\ WorkersTyped

LEMMA TakeoutNumbers ==
  /\ LastTarget \in Nat /\ LastTarget >= 1 /\ WorkerCount \in Nat /\ WorkerCount >= 1
  /\ Takeout!Fetches = 1 .. 2 * LastTarget /\ Takeout!Workers = 1 .. WorkerCount
  /\ Takeout!Ids = 1 .. 2 * LastTarget + 2
  /\ IsFiniteSet(Takeout!Fetches) /\ Cardinality(Takeout!Fetches) = 2 * LastTarget
<1>1. /\ LastTarget \in Nat /\ LastTarget >= 1 /\ WorkerCount \in Nat /\ WorkerCount >= 1
  BY ProgramAssumption DEF Takeout!TakeoutAssumption
<1>2. IsFiniteSet(1 .. 2 * LastTarget) /\ Cardinality(1 .. 2 * LastTarget) = 2 * LastTarget
  BY <1>1, FS_Interval
<1> QED
  BY <1>1, <1>2 DEF Takeout!Fetches, Takeout!Workers, Takeout!Ids

LEMMA AskedBound ==
  /\ Asked \subseteq Takeout!Fetches /\ IsFiniteSet(Asked)
  /\ Cardinality(Asked) \in Nat /\ Cardinality(Asked) <= 2 * LastTarget
<1>1. Asked \subseteq Takeout!Fetches
  BY DEF Asked
<1> QED
  BY <1>1, TakeoutNumbers, FS_Subset, FS_CardinalityType

\* A fetch goes on to phase p: it counts as one that has asked for a session from
\* the moment it may have one.
LEMMA AskedGrows ==
  ASSUME FetchesTyped, NEW f \in Takeout!Fetches, NEW p \in Takeout!Phases,
         fetch' = [fetch EXCEPT ![f] = p],
         p \in {"setup", "asking"} => f \notin Asked, p # "none"
  PROVE  /\ Cardinality(Asked) <= Cardinality(Asked')
         /\ Cardinality(Asked') \in Nat /\ Cardinality(Asked') <= 2 * LastTarget
         /\ f \notin Asked /\ p \notin {"setup", "asking"} =>
              Cardinality(Asked') = Cardinality(Asked) + 1
<1>1. Asked \subseteq Asked' /\ Asked' \subseteq Takeout!Fetches
  BY DEF Asked, FetchesTyped
<1>2. IsFiniteSet(Asked') /\ Cardinality(Asked') \in Nat /\ Cardinality(Asked') <= 2 * LastTarget
  BY <1>1, TakeoutNumbers, FS_Subset, FS_CardinalityType
<1>3. Cardinality(Asked) <= Cardinality(Asked')
  BY <1>1, <1>2, FS_Subset
<1>4. ASSUME f \notin Asked, p \notin {"setup", "asking"}
      PROVE  Cardinality(Asked') = Cardinality(Asked) + 1
  <2>1. Asked' = Asked \cup {f}
    BY <1>4 DEF Asked, FetchesTyped
  <2> QED
    BY <1>4, <2>1, AskedBound, FS_AddElement
<1> QED
  BY <1>2, <1>3, <1>4

LEMMA TypesStart == Takeout!Init => TakeoutTypes
<1> SUFFICES ASSUME Takeout!Init PROVE TakeoutTypes
  OBVIOUS
<1> USE DEF Takeout!Init
<1>1. PlacesTyped
  BY TakeoutNumbers DEF PlacesTyped, MainPlaces
<1>2. SessionsTyped
  BY AskedBound, TakeoutNumbers DEF SessionsTyped, AskedByMain
<1>3. KnownTyped /\ FetchesTyped
  BY TakeoutNumbers DEF KnownTyped, FetchesTyped, Takeout!Phases
<1>4. WorkersTyped
  BY EmptySeq DEF WorkersTyped
<1> QED
  BY <1>1, <1>2, <1>3, <1>4 DEF TakeoutTypes

\* Telegram opens a session: there is an id for it.
LEMMA OpensTypes ==
  ASSUME SessionsTyped, NEW who \in Askers, Takeout!Opens(who),
         AskedByMain' + Cardinality(Asked') >= opened + 1,
         AskedByMain' \in {0, 1, 2}, Cardinality(Asked') \in Nat,
         Cardinality(Asked') <= 2 * LastTarget
  PROVE  /\ SessionsTyped'
         /\ opened' = opened + 1 /\ opened' \in Takeout!Ids /\ opened \in Nat
         /\ opener' = [opener EXCEPT ![opened + 1] = who] /\ finisher' = finisher
<1>1. /\ opened' = opened + 1 /\ opened' \in Takeout!Ids /\ opened \in Nat
      /\ opener' = [opener EXCEPT ![opened + 1] = who] /\ finisher' = finisher
  BY TakeoutNumbers DEF SessionsTyped, Takeout!Opens
<1> QED
  BY <1>1, TakeoutNumbers DEF SessionsTyped

LEMMA FinishesTypes ==
  ASSUME SessionsTyped, NEW who \in Askers, NEW s, Takeout!Finishes(who, s)
  PROVE  /\ opened' = opened /\ opener' = opener
         /\ finisher' = finisher \/ finisher' = [finisher EXCEPT ![s] = who]
         /\ finisher' \in [Takeout!Ids -> Askers \cup {"nobody"}]
  BY DEF SessionsTyped, Takeout!Finishes

LEMMA MainTypes ==
  ASSUME TakeoutTypes, Takeout!Main
  PROVE  TakeoutTypes'
<1> USE DEF Takeout!config, Takeout!server, Takeout!manager, Takeout!world, Takeout!gens
<1> USE DEF TakeoutTypes
<1>1. /\ UNCHANGED <<fetch, left, used, closing, connected, worker_clients, takeout_id, cur>>
      /\ Asked' = Asked
  BY DEF Asked, Takeout!Main, Takeout!NoTakeout, Takeout!EnterSucceeds, Takeout!EnterDelayed,
     Takeout!EnterFails, Takeout!PrecheckExit, Takeout!ExportOver, Takeout!WrapperExit,
     Takeout!Disconnect
<1>2. FetchesTyped' /\ WorkersTyped'
  BY <1>1 DEF FetchesTyped, WorkersTyped
<1>3. Cardinality(Asked) \in Nat /\ Cardinality(Asked) <= 2 * LastTarget /\ LastTarget \in Nat
  BY AskedBound, TakeoutNumbers
<1>4. CASE Takeout!EnterSucceeds
  <2>1. /\ (pc = "precheck" /\ pc' = "prechecked") \/ (pc = "run_export" /\ pc' = "takeout")
        /\ Takeout!Opens(pc) /\ pc \in Askers
        /\ \/ client' = client /\ _external_takeout_id' = _external_takeout_id
           \/ client' = opened' /\ _external_takeout_id' = opened'
        /\ breaks' = breaks
    BY <1>4 DEF Takeout!EnterSucceeds, Askers
  <2>2. AskedByMain' = AskedByMain + 1 /\ AskedByMain \in {0, 1}
    BY <2>1 DEF AskedByMain
  <2>3. SessionsTyped' /\ opened' = opened + 1 /\ opened \in Nat
    <3>1. /\ AskedByMain' \in {0, 1, 2}
          /\ AskedByMain' + Cardinality(Asked') >= opened + 1
          /\ Cardinality(Asked') \in Nat /\ Cardinality(Asked') <= 2 * LastTarget
      BY <1>1, <1>3, <2>2 DEF SessionsTyped
    <3> QED
      BY <2>1, <3>1, OpensTypes
  <2>4. KnownTyped'
    BY <1>1, <2>1, <2>3 DEF KnownTyped
  <2>5. PlacesTyped'
    BY <1>1, <2>1 DEF PlacesTyped, MainPlaces
  <2> QED
    BY <1>2, <2>3, <2>4, <2>5
<1>5. CASE Takeout!PrecheckExit \/ Takeout!WrapperExit
  <2>1. /\ pc' \in MainPlaces /\ AskedByMain' >= AskedByMain
        /\ AskedByMain \in Nat /\ AskedByMain' \in Nat
        /\ UNCHANGED <<client, _external_takeout_id>>
        /\ \E who \in Askers, s \in Nat : Takeout!Finishes(who, s)
    BY <1>5 DEF SessionsTyped, Takeout!PrecheckExit, Takeout!WrapperExit, MainPlaces, AskedByMain,
       Askers
  <2>2. PICK who \in Askers, s \in Nat : Takeout!Finishes(who, s)
    BY <2>1
  <2>3. opened' = opened /\ opener' = opener /\ finisher' \in [Takeout!Ids -> Askers \cup {"nobody"}]
    BY <2>2, FinishesTypes
  <2>4. breaks' \in Nat
    BY <2>2 DEF Takeout!Finishes, Takeout!Fault, PlacesTyped
  <2>5. SessionsTyped'
    BY <1>1, <1>3, <2>1, <2>3 DEF SessionsTyped
  <2> QED
    BY <1>1, <1>2, <2>1, <2>3, <2>4, <2>5 DEF PlacesTyped, KnownTyped
<1>6. CASE \/ Takeout!NoTakeout \/ Takeout!EnterDelayed \/ Takeout!EnterFails
           \/ Takeout!ExportOver \/ Takeout!Disconnect
  <2>1. /\ pc' \in MainPlaces /\ AskedByMain' >= AskedByMain
        /\ AskedByMain \in Nat /\ AskedByMain' \in Nat
        /\ UNCHANGED <<opened, opener, finisher>>
    BY <1>6 DEF PlacesTyped, Takeout!NoTakeout, Takeout!EnterDelayed, Takeout!EnterFails,
       Takeout!ExportOver, Takeout!Disconnect, MainPlaces, AskedByMain, Takeout!Exporting
  <2>2. /\ client' \in {client, 0} /\ _external_takeout_id' \in {_external_takeout_id, 0}
        /\ breaks' \in {breaks, breaks + 1}
    BY <1>6 DEF Takeout!NoTakeout, Takeout!EnterDelayed, Takeout!EnterFails,
       Takeout!ExportOver, Takeout!Disconnect, Takeout!Restore, Takeout!Fault
  <2>3. SessionsTyped'
    BY <1>1, <1>3, <2>1 DEF SessionsTyped
  <2>4. PlacesTyped'
    BY <1>1, <2>1, <2>2 DEF PlacesTyped
  <2>5. KnownTyped'
    BY <1>1, <2>1, <2>2 DEF KnownTyped, SessionsTyped
  <2> QED
    BY <1>2, <2>3, <2>4, <2>5
<1> QED
  BY <1>4, <1>5, <1>6 DEF Takeout!Main

\* A step that opens no session leaves what is known of them as it is when the
\* fetches that have asked for one stay such fetches.
LEMMA SessionsStay ==
  ASSUME SessionsTyped, AskedByMain' = AskedByMain, AskedByMain \in {0, 1, 2},
         UNCHANGED <<opened, opener>>,
         finisher' \in [Takeout!Ids -> Askers \cup {"nobody"}],
         Cardinality(Asked) <= Cardinality(Asked'), Cardinality(Asked') \in Nat,
         Cardinality(Asked) \in Nat
  PROVE  SessionsTyped'
  BY DEF SessionsTyped

LEMMA FetchTypes ==
  ASSUME TakeoutTypes, Takeout!Fetch
  PROVE  TakeoutTypes'
<1> USE DEF Takeout!config, Takeout!server, Takeout!manager, Takeout!world, Takeout!gens,
        Takeout!Goto, TakeoutTypes
<1>1. UNCHANGED <<pc, client, _external_takeout_id>>
  BY DEF Takeout!Fetch, Takeout!Begin, Takeout!Setup, Takeout!SetupAnswered,
     Takeout!BoundsAnswered, Takeout!BoundsEmpty, Takeout!Prepare, Takeout!Connect,
     Takeout!Raises, Takeout!Drained, Takeout!Left
<1>2. AskedByMain' = AskedByMain /\ AskedByMain \in {0, 1, 2}
  BY <1>1 DEF AskedByMain
<1>3. cur # 0 => cur \in Takeout!Fetches
  BY TakeoutNumbers DEF PlacesTyped
<1>4. PlacesTyped'
  <2>1. cur' \in 0 .. 2 * LastTarget
    <3>1. CASE Takeout!Begin
      BY <3>1, TakeoutNumbers DEF Takeout!Begin, Takeout!Round
    <3>2. CASE ~Takeout!Begin
      BY <3>2 DEF PlacesTyped, Takeout!Fetch, Takeout!Setup, Takeout!SetupAnswered,
     Takeout!BoundsAnswered, Takeout!BoundsEmpty, Takeout!Prepare, Takeout!Connect,
     Takeout!Raises, Takeout!Drained, Takeout!Left
    <3> QED
      BY <3>1, <3>2
  <2>2. breaks' \in {breaks, breaks + 1}
    BY DEF Takeout!Fault, Takeout!Fetch, Takeout!Begin, Takeout!Setup, Takeout!SetupAnswered,
     Takeout!BoundsAnswered, Takeout!BoundsEmpty, Takeout!Prepare, Takeout!Connect,
     Takeout!Raises, Takeout!Drained, Takeout!Left
  <2> QED
    BY <1>1, <2>1, <2>2 DEF PlacesTyped
\* Where the generators go.
<1>5. \E f \in Takeout!Fetches, p \in Takeout!Phases \ {"none"} :
        /\ fetch' = [fetch EXCEPT ![f] = p]
        /\ f = cur'
        /\ p \in {"setup", "asking"} => f \notin Asked
  <2>1. CASE Takeout!Begin
    <3>1. PICK f \in Takeout!Round : /\ fetch[f] = "none" /\ cur' = f
                                     /\ \E p \in {"setup", "closed"} : fetch' = [fetch EXCEPT ![f] = p]
      BY <2>1 DEF Takeout!Begin
    <3>2. f \in Takeout!Fetches /\ f \notin Asked
      BY <3>1, TakeoutNumbers DEF Takeout!Round, Asked
    <3> QED
      BY <3>1, <3>2 DEF Takeout!Phases
  <2>2. CASE Takeout!Setup
    BY <1>3, <2>2 DEF Takeout!Setup, Takeout!Phases, Asked
  <2>3. CASE Takeout!Connect
    <3>1. cur' = cur /\ cur # 0 /\ fetch[cur] = "connecting"
          /\ (fetch' = [fetch EXCEPT ![cur] = "fetching"] \/ fetch' = fetch)
      BY <2>3 DEF Takeout!Connect
    <3>2. fetch = [fetch EXCEPT ![cur] = "connecting"]
      BY <1>3, <3>1 DEF FetchesTyped
    <3> QED
      BY <1>3, <3>1, <3>2 DEF Takeout!Phases
  <2>4. CASE ~(Takeout!Begin \/ Takeout!Setup \/ Takeout!Connect)
    <3>1. cur # 0 /\ cur' = cur /\ \E p \in Takeout!Phases \ {"none", "setup", "asking"} : fetch' = [fetch EXCEPT ![cur] = p]
      BY <2>4 DEF Takeout!Fetch, Takeout!SetupAnswered, Takeout!BoundsAnswered,
         Takeout!BoundsEmpty, Takeout!Prepare, Takeout!Raises, Takeout!Drained, Takeout!Left,
         Takeout!Phases
    <3> QED
      BY <1>3, <3>1
  <2> QED
    BY <2>1, <2>2, <2>3, <2>4
<1>6. PICK f \in Takeout!Fetches, p \in Takeout!Phases \ {"none"} :
        /\ fetch' = [fetch EXCEPT ![f] = p] /\ f = cur'
        /\ p \in {"setup", "asking"} => f \notin Asked
  BY <1>5
<1>7. /\ Cardinality(Asked) <= Cardinality(Asked') /\ Cardinality(Asked) \in Nat
      /\ Cardinality(Asked') \in Nat /\ Cardinality(Asked') <= 2 * LastTarget
      /\ f \notin Asked /\ p \notin {"setup", "asking"} =>
           Cardinality(Asked') = Cardinality(Asked) + 1
  BY <1>6, AskedGrows, AskedBound
<1>8. SessionsTyped' /\ opened \in Nat /\ opened' \in {opened, opened + 1}
  <2>1. CASE Takeout!SetupAnswered
    <3>1. /\ f = cur /\ fetch[cur] = "asking" /\ Takeout!Opens("shards")
          /\ fetch' = [fetch EXCEPT ![cur] = "bounds"]
      BY <1>6, <2>1 DEF Takeout!SetupAnswered
    <3>2. p = "bounds" /\ f \notin Asked
      BY <1>6, <3>1 DEF Asked, FetchesTyped
    <3>3. AskedByMain' + Cardinality(Asked') >= opened + 1
      BY <1>2, <1>7, <3>2 DEF SessionsTyped
    <3>4. "shards" \in Askers /\ AskedByMain' \in {0, 1, 2}
      BY <1>2 DEF Askers
    <3> QED
      BY <1>7, <3>1, <3>3, <3>4, OpensTypes
  <2>2. CASE ~Takeout!SetupAnswered
    <3>1. UNCHANGED <<opened, opener, finisher>>
      BY <2>2 DEF Takeout!Fetch, Takeout!Begin, Takeout!Setup, Takeout!BoundsAnswered,
         Takeout!BoundsEmpty, Takeout!Prepare, Takeout!Connect, Takeout!Raises, Takeout!Drained,
         Takeout!Left
    <3> QED
      BY <1>2, <1>7, <3>1, SessionsStay DEF SessionsTyped
  <2> QED
    BY <2>1, <2>2
<1>9. KnownTyped'
  <2>1. takeout_id' \in {takeout_id, _external_takeout_id, opened'}
    BY DEF Takeout!Fetch, Takeout!Begin, Takeout!Setup, Takeout!SetupAnswered,
       Takeout!BoundsAnswered, Takeout!BoundsEmpty, Takeout!Prepare, Takeout!Connect,
       Takeout!Raises, Takeout!Drained, Takeout!Left
  <2>2. used' = used \/ used' = [used EXCEPT ![cur] = takeout_id]
    BY DEF Takeout!Fetch, Takeout!Begin, Takeout!Setup, Takeout!SetupAnswered,
       Takeout!BoundsAnswered, Takeout!BoundsEmpty, Takeout!Prepare, Takeout!Connect,
       Takeout!Raises, Takeout!Drained, Takeout!Left
  <2> QED
    BY <1>1, <1>8, <2>1, <2>2 DEF KnownTyped
<1>10. FetchesTyped' /\ WorkersTyped'
  <2>1. left' = left \/ (cur # 0 /\ left' = left \cup {cur})
    BY DEF Takeout!Fetch, Takeout!Begin, Takeout!Setup, Takeout!SetupAnswered,
       Takeout!BoundsAnswered, Takeout!BoundsEmpty, Takeout!Prepare, Takeout!Connect,
       Takeout!Raises, Takeout!Drained, Takeout!Left
  <2>2. fetch' \in [Takeout!Fetches -> Takeout!Phases] /\ left' \subseteq Takeout!Fetches
    BY <1>3, <1>6, <2>1 DEF FetchesTyped
  <2>3. CASE Takeout!Prepare
    <3>1. /\ cur # 0 /\ fetch' = [fetch EXCEPT ![cur] = "connecting"]
          /\ closing' = [closing EXCEPT ![cur] = 1]
          /\ worker_clients' = <<>> /\ connected' = connected
      BY <2>3 DEF Takeout!Prepare
    <3> QED
      BY <1>3, <2>2, <3>1, TakeoutNumbers, EmptySeq DEF FetchesTyped, WorkersTyped
  <2>4. CASE Takeout!Connect
    <3>1. /\ cur # 0 /\ fetch[cur] = "connecting" /\ cur \in Takeout!Fetches
          /\ connected' = connected \cup {<<cur, closing[cur]>>}
          /\ worker_clients' = Append(worker_clients, <<cur, closing[cur]>>)
          /\ IF closing[cur] = WorkerCount
             THEN fetch' = [fetch EXCEPT ![cur] = "fetching"] /\ closing' = [closing EXCEPT ![cur] = 0]
             ELSE closing' = [closing EXCEPT ![cur] = @ + 1] /\ fetch' = fetch
      BY <1>3, <2>4 DEF Takeout!Connect
    <3>2. closing[cur] \in Takeout!Workers
      BY <3>1 DEF FetchesTyped
    <3>3. <<cur, closing[cur]>> \in Takeout!Fetches \X Takeout!Workers
      BY <3>1, <3>2
    <3>4. WorkersTyped'
      BY <3>1, <3>3, AppendProperties DEF WorkersTyped
    <3>5. closing' \in [Takeout!Fetches -> Nat]
      BY <3>1, <3>2, TakeoutNumbers DEF FetchesTyped
    <3>6. ASSUME NEW g \in Takeout!Fetches, fetch'[g] = "connecting"
          PROVE  closing'[g] \in Takeout!Workers
      BY <3>1, <3>2, <3>6, TakeoutNumbers DEF FetchesTyped
    <3> QED
      BY <2>2, <3>4, <3>5, <3>6 DEF FetchesTyped
  <2>5. CASE Takeout!Raises \/ Takeout!Drained
    <3>1. /\ cur # 0 /\ fetch' = [fetch EXCEPT ![cur] = "disconnecting"]
          /\ closing' = [closing EXCEPT ![cur] = 1]
          /\ UNCHANGED <<worker_clients, connected>>
      BY <2>5 DEF Takeout!Raises, Takeout!Drained
    <3> QED
      BY <1>3, <2>2, <3>1 DEF FetchesTyped, WorkersTyped
  <2>6. CASE ~(Takeout!Prepare \/ Takeout!Connect \/ Takeout!Raises \/ Takeout!Drained)
    <3>1. UNCHANGED <<closing, worker_clients, connected>>
      BY <2>6 DEF Takeout!Fetch, Takeout!Begin, Takeout!Setup, Takeout!SetupAnswered,
         Takeout!BoundsAnswered, Takeout!BoundsEmpty, Takeout!Left
    <3>2. \A g \in Takeout!Fetches : fetch'[g] = "connecting" => fetch[g] = "connecting"
      BY <1>3, <2>6 DEF Takeout!Fetch, Takeout!Begin, Takeout!Setup, Takeout!SetupAnswered,
         Takeout!BoundsAnswered, Takeout!BoundsEmpty, Takeout!Left, FetchesTyped
    <3> QED
      BY <2>2, <3>1, <3>2 DEF FetchesTyped, WorkersTyped
  <2> QED
    BY <2>3, <2>4, <2>5, <2>6
<1> QED
  BY <1>4, <1>8, <1>9, <1>10

LEMMA CleanupTypes ==
  ASSUME TakeoutTypes, NEW f \in Takeout!Fetches, Takeout!Cleanup(f)
  PROVE  TakeoutTypes'
<1> USE DEF Takeout!config, Takeout!server, Takeout!manager, Takeout!world, Takeout!gens,
        Takeout!Forget, TakeoutTypes
<1>1. UNCHANGED <<pc, cur, client, _external_takeout_id, left, used, opened, opener>>
      /\ takeout_id' \in {takeout_id, 0}
  BY DEF Takeout!Cleanup, Takeout!CloseLeft, Takeout!DisconnectWorker, Takeout!ClearClients,
     Takeout!FinishOwn, Takeout!Abort, Takeout!Finishes
<1>2. PlacesTyped'
  <2>1. breaks' \in {breaks, breaks + 1}
    BY DEF Takeout!Cleanup, Takeout!CloseLeft, Takeout!DisconnectWorker, Takeout!ClearClients,
       Takeout!FinishOwn, Takeout!Abort, Takeout!Finishes, Takeout!Fault
  <2> QED
    BY <1>1, <2>1 DEF PlacesTyped
<1>3. KnownTyped'
  BY <1>1 DEF KnownTyped, SessionsTyped
<1>4. \E p \in {"disconnecting", "finishing", "closed", "aborted"} :
        fetch' = [fetch EXCEPT ![f] = p]
  <2>1. CASE Takeout!DisconnectWorker(f)
    <3>1. fetch' = fetch /\ fetch[f] = "disconnecting"
      BY <2>1 DEF Takeout!DisconnectWorker
    <3>2. fetch' = [fetch EXCEPT ![f] = "disconnecting"]
      BY <3>1 DEF FetchesTyped
    <3> QED
      BY <3>2
  <2>2. CASE ~Takeout!DisconnectWorker(f)
    BY <2>2 DEF Takeout!Cleanup, Takeout!CloseLeft, Takeout!ClearClients, Takeout!FinishOwn,
       Takeout!Abort
  <2> QED
    BY <2>1, <2>2
<1>5. PICK p \in {"disconnecting", "finishing", "closed", "aborted"} :
        fetch' = [fetch EXCEPT ![f] = p]
  BY <1>4
<1>6. SessionsTyped'
  <2>1. finisher' \in [Takeout!Ids -> Askers \cup {"nobody"}]
    <3>1. CASE Takeout!FinishOwn(f)
      <4>1. Takeout!Finishes("shards", closing[f]) /\ "shards" \in Askers
        BY <3>1 DEF Takeout!FinishOwn, Askers
      <4> QED
        BY <4>1, FinishesTypes
    <3>2. CASE ~Takeout!FinishOwn(f)
      <4>1. finisher' = finisher
        BY <3>2 DEF Takeout!Cleanup, Takeout!CloseLeft, Takeout!DisconnectWorker,
           Takeout!ClearClients, Takeout!Abort
      <4> QED
        BY <4>1 DEF SessionsTyped
    <3> QED
      BY <3>1, <3>2
  <2>2. AskedByMain' = AskedByMain /\ AskedByMain \in {0, 1, 2}
    BY <1>1 DEF AskedByMain
  <2>3. p \in Takeout!Phases /\ p # "none" /\ p \notin {"setup", "asking"}
    BY <1>5 DEF Takeout!Phases
  <2>4. Cardinality(Asked) <= Cardinality(Asked') /\ Cardinality(Asked') \in Nat
        /\ Cardinality(Asked) \in Nat
    BY <1>5, <2>3, AskedGrows, AskedBound
  <2> QED
    BY <1>1, <2>1, <2>2, <2>4, SessionsStay
<1>7. FetchesTyped'
  <2>1. closing' \in [Takeout!Fetches -> Nat] /\ \A g \in Takeout!Fetches : g # f => closing'[g] = closing[g]
    <3>1. \E n \in {1, 0, takeout_id, closing[f] + 1, closing[f]} : closing' = [closing EXCEPT ![f] = n]
      <4>1. closing = [closing EXCEPT ![f] = closing[f]]
        BY DEF FetchesTyped
      <4> QED
        BY <4>1 DEF Takeout!Cleanup, Takeout!CloseLeft, Takeout!DisconnectWorker,
           Takeout!ClearClients, Takeout!FinishOwn, Takeout!Abort
    <3> QED
      BY <3>1 DEF FetchesTyped, KnownTyped, SessionsTyped
  <2>2. p \in Takeout!Phases /\ p # "connecting"
    BY <1>5 DEF Takeout!Phases
  <2> QED
    BY <1>1, <1>5, <2>1, <2>2 DEF FetchesTyped
<1>8. WorkersTyped'
  <2>1. worker_clients' = worker_clients \/ worker_clients' = <<>>
    BY DEF Takeout!Cleanup, Takeout!CloseLeft, Takeout!DisconnectWorker,
       Takeout!ClearClients, Takeout!FinishOwn, Takeout!Abort
  <2>2. connected' \subseteq connected
    BY DEF Takeout!Cleanup, Takeout!CloseLeft, Takeout!DisconnectWorker,
       Takeout!ClearClients, Takeout!FinishOwn, Takeout!Abort
  <2> QED
    BY <2>1, <2>2, EmptySeq DEF WorkersTyped
<1> QED
  BY <1>2, <1>3, <1>6, <1>7, <1>8

LEMMA TypesStep ==
  ASSUME TakeoutTypes, [Takeout!Next]_takeoutVars
  PROVE  TakeoutTypes'
<1>1. CASE UNCHANGED takeoutVars
  BY <1>1 DEF takeoutVars, TakeoutTypes, PlacesTyped, SessionsTyped, KnownTyped, FetchesTyped,
     WorkersTyped, Asked, AskedByMain
<1>2. CASE Takeout!Ended /\ UNCHANGED Takeout!vars
  BY <1>2 DEF Takeout!vars, Takeout!config, Takeout!server, Takeout!manager, Takeout!world,
     Takeout!gens, TakeoutTypes, PlacesTyped, SessionsTyped, KnownTyped, FetchesTyped,
     WorkersTyped, Asked, AskedByMain
<1> QED
  BY <1>1, <1>2, MainTypes, FetchTypes, CleanupTypes DEF Takeout!Next

LEMMA TakeoutSteps ==
  ASSUME [ProgramNext]_<<which, vars, takeoutVars, lifeVars>>
  PROVE  [Takeout!Next]_takeoutVars
BY DEF ProgramNext, OfCache

LEMMA TakeoutParts ==
  ASSUME [Takeout!Next]_takeoutVars
  PROVE  \/ Takeout!Main \/ Takeout!Fetch \/ \E f \in Takeout!Fetches : Takeout!Cleanup(f)
         \/ UNCHANGED takeoutVars
BY DEF Takeout!Next, takeoutVars, Takeout!vars, Takeout!config, Takeout!server, Takeout!manager,
   Takeout!world, Takeout!gens

\* The generator that fetches is the one of the current target, and the exporter
\* is in the middle of export_all; one it has left never fetches again.
InsideIsCurrent ==
    \A f \in Takeout!Fetches :
      /\ Takeout!Inside(f) => f = cur /\ Takeout!Exporting
      /\ f \in left => ~Takeout!Inside(f) /\ fetch[f] # "none"

\* What has not happened before the export.
NotYetExported ==
    /\ pc = "precheck" => opened = 0
    /\ pc = "prechecked" => opened = 1 /\ opener[1] = "precheck"
    /\ pc \in {"precheck", "prechecked", "run_export"} =>
         /\ cur = 0 /\ \A f \in Takeout!Fetches : fetch[f] = "none"
         /\ \A s \in Takeout!Ids : opener[s] # "run_export"
    /\ client_connected <=> pc # "ended"

LEMMA WhereStarts == Takeout!Init => InsideIsCurrent /\ NotYetExported
BY TakeoutNumbers DEF Takeout!Init, InsideIsCurrent, NotYetExported, Takeout!Inside

\* The fetch that begins.
LEMMA BeginGoes ==
  ASSUME Takeout!Begin
  PROVE  \E f \in Takeout!Fetches, p \in {"setup", "closed"} :
           fetch[f] = "none" /\ cur' = f /\ fetch' = [fetch EXCEPT ![f] = p]
<1>1. PICK f \in Takeout!Round : /\ fetch[f] = "none" /\ cur' = f
                                 /\ \E p \in {"setup", "closed"} : fetch' = [fetch EXCEPT ![f] = p]
  BY DEF Takeout!Begin
<1>2. f \in Takeout!Fetches
  BY TakeoutNumbers DEF Takeout!Round
<1> QED
  BY <1>1, <1>2

LEMMA InsideStays ==
  ASSUME TakeoutTypes, InsideIsCurrent, NotYetExported, [Takeout!Next]_takeoutVars
  PROVE  InsideIsCurrent'
<1> USE DEF Takeout!config, Takeout!server, Takeout!manager, Takeout!world, Takeout!gens,
        Takeout!Inside, Takeout!Exporting
<1>1. fetch \in [Takeout!Fetches -> Takeout!Phases] /\ left \subseteq Takeout!Fetches
  BY DEF TakeoutTypes, FetchesTyped
<1>2. cur # 0 => cur \in Takeout!Fetches
  BY TakeoutNumbers DEF TakeoutTypes, PlacesTyped
<1>3. Takeout!Done => \A f \in Takeout!Fetches : ~Takeout!Inside(f)
  BY <1>1, <1>2, TakeoutNumbers DEF Takeout!Done, InsideIsCurrent
<1>4. CASE Takeout!Main
  <2>1. UNCHANGED <<fetch, left, cur>>
    BY <1>4 DEF Takeout!Main, Takeout!NoTakeout, Takeout!EnterSucceeds, Takeout!EnterDelayed,
       Takeout!EnterFails, Takeout!PrecheckExit, Takeout!ExportOver, Takeout!WrapperExit,
       Takeout!Disconnect
  <2>2. CASE Takeout!ExportOver
    BY <1>3, <2>1, <2>2 DEF Takeout!ExportOver, InsideIsCurrent
  <2>3. CASE ~Takeout!ExportOver
    <3>1. ~Takeout!Exporting
      BY <1>4, <2>3 DEF Takeout!Main, Takeout!NoTakeout, Takeout!EnterSucceeds,
         Takeout!EnterDelayed, Takeout!EnterFails, Takeout!PrecheckExit, Takeout!WrapperExit,
         Takeout!Disconnect
    <3> QED
      BY <2>1, <3>1 DEF InsideIsCurrent
  <2> QED
    BY <2>2, <2>3
<1>5. CASE Takeout!Begin
  <2>1. PICK f \in Takeout!Fetches, p \in {"setup", "closed"} :
          fetch[f] = "none" /\ cur' = f /\ fetch' = [fetch EXCEPT ![f] = p]
    BY <1>5, BeginGoes
  <2>2. Takeout!Exporting /\ Takeout!Done /\ pc' = pc /\ left' = left
    BY <1>5 DEF Takeout!Begin
  <2> QED
    BY <1>1, <1>3, <2>1, <2>2 DEF InsideIsCurrent
<1>6. CASE Takeout!Fetch /\ ~Takeout!Begin
  <2>1. /\ cur # 0 /\ Takeout!Inside(cur) /\ UNCHANGED <<pc, cur>>
        /\ fetch' = fetch \/ \E p \in Takeout!Phases \ {"none"} : fetch' = [fetch EXCEPT ![cur] = p]
        /\ left' = left \/ (left' = left \cup {cur} /\ fetch' = [fetch EXCEPT ![cur] = "left"])
    BY <1>6 DEF Takeout!Fetch, Takeout!Setup, Takeout!SetupAnswered, Takeout!BoundsAnswered,
       Takeout!BoundsEmpty, Takeout!Prepare, Takeout!Connect, Takeout!Raises, Takeout!Drained,
       Takeout!Left, Takeout!Goto, Takeout!Phases
  <2> QED
    BY <1>1, <1>2, <2>1 DEF InsideIsCurrent
<1>7. ASSUME NEW f \in Takeout!Fetches, Takeout!Cleanup(f) PROVE InsideIsCurrent'
  <2>1. /\ UNCHANGED <<pc, cur, left>>
        /\ \/ fetch' = fetch
           \/ \E p \in {"disconnecting", "finishing", "closed", "aborted"} :
                fetch' = [fetch EXCEPT ![f] = p]
    BY <1>7 DEF Takeout!Cleanup, Takeout!CloseLeft, Takeout!DisconnectWorker,
       Takeout!ClearClients, Takeout!FinishOwn, Takeout!Abort, Takeout!Forget
  <2> QED
    BY <1>1, <2>1 DEF InsideIsCurrent
<1>8. CASE UNCHANGED takeoutVars
  BY <1>8 DEF takeoutVars, InsideIsCurrent
<1> QED
  BY <1>4, <1>5, <1>6, <1>7, <1>8, TakeoutParts

LEMMA NotYetExportedStays ==
  ASSUME TakeoutTypes, InsideIsCurrent, NotYetExported, [Takeout!Next]_takeoutVars
  PROVE  NotYetExported'
<1> USE DEF Takeout!config, Takeout!server, Takeout!manager, Takeout!world, Takeout!gens,
        Takeout!Exporting
<1>1. CASE Takeout!EnterSucceeds
  <2>1. /\ UNCHANGED <<fetch, cur, client_connected>> /\ pc' \in {"prechecked", "takeout"}
        /\ pc' = "prechecked" => pc = "precheck" /\ Takeout!Opens("precheck")
    BY <1>1 DEF Takeout!EnterSucceeds
  <2>2. pc' = "prechecked" => opened' = 1 /\ opener' = [opener EXCEPT ![1] = "precheck"]
    BY <2>1 DEF Takeout!Opens, NotYetExported
  <2>3. opener \in [Takeout!Ids -> Askers \cup {"nobody"}] /\ 1 \in Takeout!Ids
    BY TakeoutNumbers DEF TakeoutTypes, SessionsTyped
  <2> QED
    BY <1>1, <2>1, <2>2, <2>3 DEF NotYetExported, Takeout!EnterSucceeds
<1>2. CASE Takeout!Main /\ ~Takeout!EnterSucceeds
  <2>1. UNCHANGED <<fetch, cur, opened, opener>>
    BY <1>2 DEF Takeout!Main, Takeout!NoTakeout, Takeout!EnterDelayed,
       Takeout!EnterFails, Takeout!PrecheckExit, Takeout!ExportOver, Takeout!WrapperExit,
       Takeout!Disconnect, Takeout!Finishes
  <2>2. /\ pc' \in {"precheck", "prechecked", "run_export"} =>
             pc \in {"precheck", "prechecked", "run_export"}
        /\ pc' = "precheck" => pc = "precheck"
        /\ pc' # "prechecked"
        /\ (pc' = "ended" /\ client_connected' = FALSE)
           \/ (pc' # "ended" /\ pc # "ended" /\ client_connected' = client_connected)
    BY <1>2 DEF Takeout!Main, Takeout!NoTakeout, Takeout!EnterDelayed,
       Takeout!EnterFails, Takeout!PrecheckExit, Takeout!ExportOver, Takeout!WrapperExit,
       Takeout!Disconnect
  <2> QED
    BY <2>1, <2>2 DEF NotYetExported
<1>3. CASE Takeout!Fetch
  <2>1. UNCHANGED <<pc, client_connected>>
    BY <1>3 DEF Takeout!Fetch, Takeout!Begin, Takeout!Setup, Takeout!SetupAnswered,
       Takeout!BoundsAnswered, Takeout!BoundsEmpty, Takeout!Prepare, Takeout!Connect,
       Takeout!Raises, Takeout!Drained, Takeout!Left
  <2>2. pc \notin {"precheck", "prechecked", "run_export"}
    <3>1. CASE Takeout!Begin
      BY <3>1 DEF Takeout!Begin
    <3>2. CASE ~Takeout!Begin
      <4>1. cur # 0
        BY <1>3, <3>2 DEF Takeout!Fetch, Takeout!Setup, Takeout!SetupAnswered,
           Takeout!BoundsAnswered, Takeout!BoundsEmpty, Takeout!Prepare, Takeout!Connect,
           Takeout!Raises, Takeout!Drained, Takeout!Left
      <4> QED
        BY <4>1 DEF NotYetExported
    <3> QED
      BY <3>1, <3>2
  <2> QED
    BY <2>1, <2>2 DEF NotYetExported
<1>4. ASSUME NEW f \in Takeout!Fetches, Takeout!Cleanup(f) PROVE NotYetExported'
  <2>1. /\ UNCHANGED <<pc, client_connected>>
        /\ fetch[f] \in {"left", "disconnecting", "finishing"}
    BY <1>4 DEF Takeout!Cleanup, Takeout!CloseLeft, Takeout!DisconnectWorker,
       Takeout!ClearClients, Takeout!FinishOwn, Takeout!Abort, Takeout!Unclean
  <2>2. pc \notin {"precheck", "prechecked", "run_export"}
    BY <2>1 DEF NotYetExported
  <2> QED
    BY <2>1, <2>2 DEF NotYetExported
<1>5. CASE UNCHANGED takeoutVars
  BY <1>5 DEF takeoutVars, NotYetExported
<1> QED
  BY <1>1, <1>2, <1>3, <1>4, <1>5, TakeoutParts

\* Sessions that are not open yet belong to nobody, all others to who asked for
\* them; run_export asks for one.
SessionsOwned ==
    /\ \A s \in Takeout!Ids : s > opened => opener[s] = "nobody" /\ finisher[s] = "nobody"
    /\ \A s \in Takeout!Ids : s <= opened => opener[s] \in Askers
    /\ \A s, u \in Takeout!Ids : opener[s] = "run_export" /\ opener[u] = "run_export" => s = u
    /\ \A s \in Takeout!Ids : finisher[s] \in {"nobody", opener[s]}

\* What the manager calls its own, and what a cleanup is about to finish, was
\* asked for by a fetch.
OwnedByFetches ==
    /\ _owned_takeout => takeout_id # 0 /\ opener[takeout_id] = "shards"
    /\ \A f \in Takeout!Fetches : fetch[f] = "finishing" =>
         closing[f] \in 1 .. opened /\ opener[closing[f]] = "shards"

\* The wrapper is that of the session of run_export, inside its block only.
WrapperOwned ==
    client # 0 => pc = "takeout" /\ opener[client] = "run_export" /\ finisher[client] = "nobody"

OwnedInv == SessionsOwned /\ OwnedByFetches /\ WrapperOwned

LEMMA OwnedStarts == Takeout!Init => OwnedInv
BY TakeoutNumbers DEF Takeout!Init, OwnedInv, SessionsOwned, OwnedByFetches, WrapperOwned

\* What a step may do to the sessions: nothing, one is opened, or one is finished
\* by who asked for it, outside the block of run_export when it is that one's.
SessionOpens(who) ==
    /\ opened' = opened + 1 /\ opener' = [opener EXCEPT ![opened + 1] = who]
    /\ finisher' = finisher
    /\ who = "run_export" => \A s \in Takeout!Ids : opener[s] # "run_export"
SessionFinishes(s) ==
    /\ opened' = opened /\ opener' = opener
    /\ s <= opened /\ finisher' = [finisher EXCEPT ![s] = opener[s]]
    /\ opener[s] = "run_export" => client = 0 /\ client' = 0

LEMMA SessionsGo ==
  ASSUME TakeoutTypes, NotYetExported, OwnedInv, [Takeout!Next]_takeoutVars
  PROVE  \/ UNCHANGED <<opened, opener, finisher>>
         \/ \E who \in Askers : SessionOpens(who)
         \/ \E s \in Takeout!Ids : SessionFinishes(s)
<1> USE DEF Takeout!config, Takeout!server, Takeout!manager, Takeout!world, Takeout!gens
<1>1. opened \in Nat /\ opened <= 2 * LastTarget + 2
  BY DEF TakeoutTypes, SessionsTyped
<1>2. CASE Takeout!EnterSucceeds
  <2>1. Takeout!Opens(pc) /\ pc \in {"precheck", "run_export"}
    BY <1>2 DEF Takeout!EnterSucceeds
  <2>2. pc = "run_export" => \A s \in Takeout!Ids : opener[s] # "run_export"
    BY DEF NotYetExported
  <2> QED
    BY <2>1, <2>2 DEF Takeout!Opens, SessionOpens, Askers
<1>3. CASE Takeout!SetupAnswered
  <2>1. Takeout!Opens("shards")
    BY <1>3 DEF Takeout!SetupAnswered
  <2> QED
    BY <2>1 DEF Takeout!Opens, SessionOpens, Askers
<1>4. ASSUME NEW who \in Askers, NEW s \in Takeout!Ids, Takeout!Finishes(who, s), opener[s] = who,
             s <= opened, who = "run_export" => client = 0 /\ client' = 0
      PROVE  \/ UNCHANGED <<opened, opener, finisher>>
             \/ \E u \in Takeout!Ids : SessionFinishes(u)
  BY <1>4 DEF Takeout!Finishes, SessionFinishes
<1>5. CASE Takeout!PrecheckExit
  <2>1. /\ Takeout!Finishes("precheck", opened) /\ opened = 1 /\ opener[1] = "precheck"
    BY <1>5 DEF Takeout!PrecheckExit, NotYetExported
  <2>2. 1 \in Takeout!Ids /\ "precheck" \in Askers
    BY TakeoutNumbers DEF Askers
  <2> QED
    BY <1>4, <2>1, <2>2
<1>6. CASE Takeout!WrapperExit
  <2>1. PICK s \in 1 .. opened : opener[s] = "run_export" /\ Takeout!Finishes("run_export", s)
    BY <1>6 DEF Takeout!WrapperExit
  <2>2. client = 0 /\ client' = 0
    BY <1>6 DEF Takeout!WrapperExit, OwnedInv, WrapperOwned
  <2>3. s \in Takeout!Ids /\ s <= opened /\ "run_export" \in Askers
    BY <1>1, TakeoutNumbers DEF Askers
  <2> QED
    BY <1>4, <2>1, <2>2, <2>3
<1>7. ASSUME NEW f \in Takeout!Fetches, Takeout!FinishOwn(f)
      PROVE  \/ UNCHANGED <<opened, opener, finisher>>
             \/ \E u \in Takeout!Ids : SessionFinishes(u)
  <2>1. fetch[f] = "finishing" /\ Takeout!Finishes("shards", closing[f])
    BY <1>7 DEF Takeout!FinishOwn
  <2>2. closing[f] \in 1 .. opened /\ opener[closing[f]] = "shards"
    BY <2>1 DEF OwnedInv, OwnedByFetches
  <2>3. closing[f] \in Takeout!Ids /\ closing[f] <= opened /\ "shards" \in Askers
    BY <1>1, <2>2, TakeoutNumbers DEF Askers
  <2> QED
    BY <1>4, <2>1, <2>2, <2>3
<1>8. CASE Takeout!Main /\ ~Takeout!EnterSucceeds /\ ~Takeout!PrecheckExit /\ ~Takeout!WrapperExit
  BY <1>8 DEF Takeout!Main, Takeout!NoTakeout, Takeout!EnterDelayed, Takeout!EnterFails,
     Takeout!ExportOver, Takeout!Disconnect
<1>9. CASE Takeout!Fetch /\ ~Takeout!SetupAnswered
  BY <1>9 DEF Takeout!Fetch, Takeout!Begin, Takeout!Setup, Takeout!BoundsAnswered,
     Takeout!BoundsEmpty, Takeout!Prepare, Takeout!Connect, Takeout!Raises, Takeout!Drained,
     Takeout!Left
<1>10. ASSUME NEW f \in Takeout!Fetches, Takeout!Cleanup(f), ~Takeout!FinishOwn(f)
       PROVE  UNCHANGED <<opened, opener, finisher>>
  BY <1>10 DEF Takeout!Cleanup, Takeout!CloseLeft, Takeout!DisconnectWorker,
     Takeout!ClearClients, Takeout!Abort
<1>11. CASE UNCHANGED takeoutVars
  BY <1>11 DEF takeoutVars
<1> QED
  BY <1>2, <1>3, <1>5, <1>6, <1>7, <1>8, <1>9, <1>10, <1>11, TakeoutParts

LEMMA SessionsOwnedStays ==
  ASSUME TakeoutTypes, NotYetExported, OwnedInv, [Takeout!Next]_takeoutVars
  PROVE  SessionsOwned'
<1>1. /\ opener \in [Takeout!Ids -> Askers \cup {"nobody"}]
      /\ finisher \in [Takeout!Ids -> Askers \cup {"nobody"}]
      /\ opened \in Nat /\ SessionsOwned /\ Takeout!Ids \subseteq Nat
  BY TakeoutNumbers DEF TakeoutTypes, SessionsTyped, OwnedInv
<1>2. CASE UNCHANGED <<opened, opener, finisher>>
  BY <1>1, <1>2 DEF SessionsOwned
<1>3. ASSUME NEW who \in Askers, SessionOpens(who) PROVE SessionsOwned'
  <2>1. opened' = opened + 1 /\ opener' = [opener EXCEPT ![opened + 1] = who] /\ finisher' = finisher
    BY <1>3 DEF SessionOpens
  <2>2. \A s \in Takeout!Ids : opener'[s] = IF s = opened + 1 THEN who ELSE opener[s]
    BY <1>1, <2>1
  <2>3. ASSUME NEW s \in Takeout!Ids
        PROVE  /\ s > opened' => opener'[s] = "nobody" /\ finisher'[s] = "nobody"
               /\ s <= opened' => opener'[s] \in Askers
               /\ finisher'[s] \in {"nobody", opener'[s]}
    BY <1>1, <2>1, <2>2 DEF SessionsOwned
  <2>4. ASSUME NEW s \in Takeout!Ids, NEW u \in Takeout!Ids,
               opener'[s] = "run_export", opener'[u] = "run_export"
        PROVE  s = u
    BY <1>1, <1>3, <2>2, <2>4 DEF SessionsOwned, SessionOpens
  <2> QED
    BY <2>3, <2>4 DEF SessionsOwned
<1>4. ASSUME NEW s \in Takeout!Ids, SessionFinishes(s) PROVE SessionsOwned'
  BY <1>1, <1>4 DEF SessionsOwned, SessionFinishes
<1> QED
  BY <1>2, <1>3, <1>4, SessionsGo

\* What is known of an open session stays: who asked for it.
LEMMA OpenerStays ==
  ASSUME TakeoutTypes, NotYetExported, OwnedInv, [Takeout!Next]_takeoutVars,
         NEW s \in 1 .. opened
  PROVE  opener'[s] = opener[s] /\ s \in 1 .. opened'
<1>1. opener \in [Takeout!Ids -> Askers \cup {"nobody"}] /\ opened \in Nat
      /\ opened <= 2 * LastTarget + 2
  BY DEF TakeoutTypes, SessionsTyped
<1>2. s \in Takeout!Ids
  BY <1>1, TakeoutNumbers
<1> QED
  BY <1>1, <1>2, SessionsGo DEF SessionOpens, SessionFinishes

LEMMA ManagerOwns ==
  ASSUME TakeoutTypes, NotYetExported, OwnedInv, [Takeout!Next]_takeoutVars
  PROVE  _owned_takeout' => takeout_id' # 0 /\ opener'[takeout_id'] = "shards"
<1> USE DEF Takeout!config, Takeout!server, Takeout!manager, Takeout!world, Takeout!gens
<1>1. /\ takeout_id \in 0 .. opened /\ opened \in Nat /\ opened <= 2 * LastTarget + 2
      /\ opener \in [Takeout!Ids -> Askers \cup {"nobody"}]
  BY DEF TakeoutTypes, KnownTyped, SessionsTyped
<1>2. ASSUME takeout_id' = takeout_id, _owned_takeout' = _owned_takeout
      PROVE  _owned_takeout' => takeout_id' # 0 /\ opener'[takeout_id'] = "shards"
  <2>1. SUFFICES ASSUME _owned_takeout PROVE takeout_id # 0 /\ opener'[takeout_id] = "shards"
    BY <1>2
  <2>2. takeout_id # 0 /\ opener[takeout_id] = "shards"
    BY <2>1 DEF OwnedInv, OwnedByFetches
  <2>3. takeout_id \in 1 .. opened
    BY <1>1, <2>2
  <2> QED
    BY <2>2, <2>3, OpenerStays
<1>3. CASE Takeout!SetupAnswered
  <2>1. Takeout!Opens("shards") /\ takeout_id' = opened'
    BY <1>3 DEF Takeout!SetupAnswered
  <2>2. TakeoutTypes'
    BY TypesStep
  <2>3. opened' = opened + 1 /\ opened + 1 \in Takeout!Ids
    BY <1>1, <2>1, <2>2, TakeoutNumbers DEF Takeout!Opens, TakeoutTypes, SessionsTyped
  <2> QED
    BY <1>1, <2>1, <2>3 DEF Takeout!Opens
<1>4. CASE Takeout!Setup
  <2>1. \/ takeout_id' = takeout_id /\ _owned_takeout' = _owned_takeout
        \/ _owned_takeout' = FALSE
    BY <1>4 DEF Takeout!Setup
  <2> QED
    BY <1>2, <2>1
<1>5. CASE Takeout!Fetch /\ ~Takeout!SetupAnswered /\ ~Takeout!Setup
  <2>1. takeout_id' = takeout_id /\ _owned_takeout' = _owned_takeout
    BY <1>5 DEF Takeout!Fetch, Takeout!Begin, Takeout!BoundsAnswered, Takeout!BoundsEmpty,
     Takeout!Prepare, Takeout!Connect, Takeout!Raises, Takeout!Drained, Takeout!Left
  <2> QED
    BY <1>2, <2>1
<1>6. CASE Takeout!Main
  <2>1. takeout_id' = takeout_id /\ _owned_takeout' = _owned_takeout
    BY <1>6 DEF Takeout!Main, Takeout!NoTakeout, Takeout!EnterSucceeds, Takeout!EnterDelayed,
       Takeout!EnterFails, Takeout!PrecheckExit, Takeout!ExportOver, Takeout!WrapperExit,
       Takeout!Disconnect
  <2> QED
    BY <1>2, <2>1
<1>7. ASSUME NEW f \in Takeout!Fetches, Takeout!Cleanup(f)
      PROVE  _owned_takeout' => takeout_id' # 0 /\ opener'[takeout_id'] = "shards"
  <2>1. \/ takeout_id' = takeout_id /\ _owned_takeout' = _owned_takeout
        \/ _owned_takeout' = FALSE
    BY <1>7 DEF Takeout!Cleanup, Takeout!CloseLeft, Takeout!DisconnectWorker,
       Takeout!ClearClients, Takeout!FinishOwn, Takeout!Abort, Takeout!Forget
  <2> QED
    BY <1>2, <2>1
<1>8. CASE UNCHANGED takeoutVars
  <2>1. takeout_id' = takeout_id /\ _owned_takeout' = _owned_takeout
    BY <1>8 DEF takeoutVars
  <2> QED
    BY <1>2, <2>1
<1> QED
  BY <1>3, <1>4, <1>5, <1>6, <1>7, <1>8, TakeoutParts

\* A fetch comes to finish a session only as the cleanup of the manager's own.
LEMMA FinishingGoes ==
  ASSUME TakeoutTypes, [Takeout!Next]_takeoutVars, NEW f \in Takeout!Fetches,
         fetch'[f] = "finishing"
  PROVE  \/ fetch[f] = "finishing" /\ closing'[f] = closing[f]
         \/ _owned_takeout /\ takeout_id # 0 /\ closing'[f] = takeout_id
            /\ takeout_id' = takeout_id /\ _owned_takeout' = _owned_takeout
<1> USE DEF Takeout!config, Takeout!server, Takeout!manager, Takeout!world, Takeout!gens,
        Takeout!Forget, Takeout!Goto
<1>1. fetch \in [Takeout!Fetches -> Takeout!Phases] /\ closing \in [Takeout!Fetches -> Nat]
  BY DEF TakeoutTypes, FetchesTyped
<1>2. CASE Takeout!Main
  BY <1>2 DEF Takeout!Main, Takeout!NoTakeout, Takeout!EnterSucceeds, Takeout!EnterDelayed,
       Takeout!EnterFails, Takeout!PrecheckExit, Takeout!ExportOver, Takeout!WrapperExit,
       Takeout!Disconnect
<1>3. CASE Takeout!Fetch
  <2>1. CASE Takeout!Begin
    <3>1. closing' = closing
      BY <2>1 DEF Takeout!Begin
    <3> QED
      BY <1>1, <2>1, <3>1, BeginGoes
  <2>2. CASE Takeout!Setup \/ Takeout!SetupAnswered \/ Takeout!BoundsAnswered
             \/ Takeout!BoundsEmpty \/ Takeout!Left
    BY <1>1, <2>2 DEF Takeout!Setup, Takeout!SetupAnswered, Takeout!BoundsAnswered,
       Takeout!BoundsEmpty, Takeout!Left
  <2>3. CASE Takeout!Prepare \/ Takeout!Raises \/ Takeout!Drained
    BY <1>1, <2>3 DEF Takeout!Prepare, Takeout!Raises, Takeout!Drained
  <2>4. CASE Takeout!Connect
    BY <1>1, <2>4 DEF Takeout!Connect
  <2> QED
    BY <1>3, <2>1, <2>2, <2>3, <2>4 DEF Takeout!Fetch
<1>4. ASSUME NEW g \in Takeout!Fetches, Takeout!Cleanup(g)
      PROVE  \/ fetch[f] = "finishing" /\ closing'[f] = closing[f]
             \/ _owned_takeout /\ takeout_id # 0 /\ closing'[f] = takeout_id
                /\ takeout_id' = takeout_id /\ _owned_takeout' = _owned_takeout
  <2>1. CASE Takeout!ClearClients(g)
    BY <1>1, <2>1 DEF Takeout!ClearClients
  <2>2. CASE Takeout!CloseLeft(g) \/ Takeout!DisconnectWorker(g)
    BY <1>1, <2>2 DEF Takeout!CloseLeft, Takeout!DisconnectWorker
  <2>3. CASE Takeout!FinishOwn(g) \/ Takeout!Abort(g)
    BY <1>1, <2>3 DEF Takeout!FinishOwn, Takeout!Abort
  <2> QED
    BY <1>4, <2>1, <2>2, <2>3 DEF Takeout!Cleanup
<1>5. CASE UNCHANGED takeoutVars
  BY <1>5 DEF takeoutVars
<1> QED
  BY <1>2, <1>3, <1>4, <1>5, TakeoutParts

LEMMA OwnedByFetchesStays ==
  ASSUME TakeoutTypes, NotYetExported, OwnedInv, [Takeout!Next]_takeoutVars
  PROVE  OwnedByFetches'
<1>1. takeout_id \in 0 .. opened /\ opened \in Nat
  BY DEF TakeoutTypes, KnownTyped, SessionsTyped
<1>2. ASSUME NEW f \in Takeout!Fetches, fetch'[f] = "finishing"
      PROVE  closing'[f] \in 1 .. opened' /\ opener'[closing'[f]] = "shards"
  <2>1. CASE fetch[f] = "finishing" /\ closing'[f] = closing[f]
    <3>1. closing[f] \in 1 .. opened /\ opener[closing[f]] = "shards"
      BY <2>1 DEF OwnedInv, OwnedByFetches
    <3> QED
      BY <2>1, <3>1, OpenerStays
  <2>2. CASE _owned_takeout /\ takeout_id # 0 /\ closing'[f] = takeout_id
    <3>1. takeout_id \in 1 .. opened /\ opener[takeout_id] = "shards"
      BY <1>1, <2>2 DEF OwnedInv, OwnedByFetches
    <3> QED
      BY <2>2, <3>1, OpenerStays
  <2> QED
    BY <1>2, <2>1, <2>2, FinishingGoes
<1> QED
  BY <1>2, ManagerOwns DEF OwnedByFetches

LEMMA WrapperOwnedStays ==
  ASSUME TakeoutTypes, NotYetExported, OwnedInv, [Takeout!Next]_takeoutVars
  PROVE  WrapperOwned'
<1> USE DEF Takeout!config, Takeout!server, Takeout!manager, Takeout!world, Takeout!gens
<1>1. /\ client \in 0 .. opened /\ opened \in Nat /\ opened <= 2 * LastTarget + 2
      /\ opener \in [Takeout!Ids -> Askers \cup {"nobody"}]
      /\ finisher \in [Takeout!Ids -> Askers \cup {"nobody"}]
  BY DEF TakeoutTypes, KnownTyped, SessionsTyped
<1>2. CASE Takeout!EnterSucceeds /\ client' # client
  <2>1. Takeout!Opens("run_export") /\ client' = opened' /\ pc' = "takeout"
    BY <1>2 DEF Takeout!EnterSucceeds
  <2>2. opened' <= 2 * LastTarget + 2
    BY TypesStep DEF TakeoutTypes, SessionsTyped
  <2>3. opened' = opened + 1 /\ opened + 1 \in Takeout!Ids
    BY <1>1, <2>1, <2>2, TakeoutNumbers DEF Takeout!Opens
  <2>4. finisher[opened + 1] = "nobody"
    BY <1>1, <2>3 DEF OwnedInv, SessionsOwned
  <2> QED
    BY <1>1, <2>1, <2>3, <2>4 DEF Takeout!Opens, WrapperOwned
<1>3. ASSUME client' = client, client # 0 => pc' = pc
      PROVE  WrapperOwned'
  <2>1. SUFFICES ASSUME client # 0
                 PROVE  pc' = "takeout" /\ opener'[client] = "run_export" /\ finisher'[client] = "nobody"
    BY <1>3 DEF WrapperOwned
  <2>2. /\ client \in 1 .. opened /\ pc = "takeout"
        /\ opener[client] = "run_export" /\ finisher[client] = "nobody"
    BY <1>1, <2>1 DEF OwnedInv, WrapperOwned
  <2>3. opener'[client] = "run_export"
    BY <2>2, OpenerStays
  <2>4. client \in Takeout!Ids
    BY <1>1, <2>2, TakeoutNumbers
  <2>5. finisher'[client] = "nobody"
    BY <1>1, <2>1, <2>2, <2>4, SessionsGo DEF SessionOpens, SessionFinishes
  <2> QED
    BY <1>3, <2>1, <2>2, <2>3, <2>5
<1>4. CASE Takeout!Main /\ ~(Takeout!EnterSucceeds /\ client' # client)
  <2>1. CASE Takeout!ExportOver /\ pc = "takeout"
    BY <2>1 DEF Takeout!ExportOver, Takeout!Restore, WrapperOwned
  <2>2. CASE ~(Takeout!ExportOver /\ pc = "takeout")
    <3>1. client' = client /\ (pc' # pc => pc # "takeout")
      BY <1>4, <2>2 DEF Takeout!Main, Takeout!NoTakeout, Takeout!EnterSucceeds, Takeout!EnterDelayed,
       Takeout!EnterFails, Takeout!PrecheckExit, Takeout!ExportOver, Takeout!WrapperExit,
       Takeout!Disconnect
    <3> QED
      BY <1>3, <3>1 DEF OwnedInv, WrapperOwned
  <2> QED
    BY <2>1, <2>2
<1>5. CASE Takeout!Fetch
  <2>1. client' = client /\ pc' = pc
    BY <1>5 DEF Takeout!Fetch, Takeout!Begin, Takeout!Setup, Takeout!SetupAnswered,
       Takeout!BoundsAnswered, Takeout!BoundsEmpty, Takeout!Prepare, Takeout!Connect,
       Takeout!Raises, Takeout!Drained, Takeout!Left
  <2> QED
    BY <1>3, <2>1
<1>6. ASSUME NEW f \in Takeout!Fetches, Takeout!Cleanup(f) PROVE WrapperOwned'
  <2>1. client' = client /\ pc' = pc
    BY <1>6 DEF Takeout!Cleanup, Takeout!CloseLeft, Takeout!DisconnectWorker,
       Takeout!ClearClients, Takeout!FinishOwn, Takeout!Abort
  <2> QED
    BY <1>3, <2>1
<1>7. CASE UNCHANGED takeoutVars
  BY <1>3, <1>7 DEF takeoutVars
<1> QED
  BY <1>2, <1>4, <1>5, <1>6, <1>7, TakeoutParts

TakeoutCore == TakeoutTypes /\ InsideIsCurrent /\ NotYetExported /\ OwnedInv

LEMMA TakeoutCoreHolds == ProgramSpec => []TakeoutCore
<1>1. ProgramInit => TakeoutCore
  BY TypesStart, WhereStarts, OwnedStarts DEF ProgramInit, TakeoutCore
<1>2. TakeoutCore /\ [ProgramNext]_<<which, vars, takeoutVars, lifeVars>> => TakeoutCore'
  <2> SUFFICES ASSUME TakeoutCore, [ProgramNext]_<<which, vars, takeoutVars, lifeVars>>
               PROVE  TakeoutCore'
    OBVIOUS
  <2>1. [Takeout!Next]_takeoutVars /\ TakeoutTypes /\ InsideIsCurrent /\ NotYetExported /\ OwnedInv
    BY TakeoutSteps DEF TakeoutCore
  <2> QED
    BY <2>1, TypesStep, InsideStays, NotYetExportedStays, SessionsOwnedStays,
       OwnedByFetchesStays, WrapperOwnedStays DEF TakeoutCore, OwnedInv
<1> QED
  BY <1>1, <1>2, PTL DEF ProgramSpec

\* Whoever finishes a Takeout session has asked for it, whatever the interleaving
\* of the fetches, the cleanups that run beside them and run_export
\* (_owned_takeout, telegram_sharded_client.py:413-426).
THEOREM OwnersAlwaysFinish == ProgramSpec => []OwnersFinish
<1>1. TakeoutCore => OwnersFinish
  BY DEF TakeoutCore, OwnedInv, SessionsOwned, OwnersFinish, Takeout!OwnersFinish
<1> QED
  BY <1>1, TakeoutCoreHolds, PTL

-----------------------------------------------------------------------------
(* While no fetch has begun beside the cleanup of an earlier one *)

Active(f) == Takeout!Inside(f) \/ Takeout!Unclean(f)

\* What holds of the state of the manager while fetch f is where it is.
Bound(f)        == fetch[f] \in {"setup", "asking"} => takeout_id = 0
NotConnected(f) == fetch[f] \in {"setup", "asking", "bounds", "standard", "prepare", "finishing"} =>
                     connected = {}
Listed(f) ==
    fetch[f] \in {"connecting", "fetching", "left"} =>
      \A c \in connected : \E i \in 1 .. Len(worker_clients) : worker_clients[i] = c
ToDisconnect(f) ==
    fetch[f] = "disconnecting" =>
      /\ closing[f] >= 1
      /\ \A c \in connected : \E i \in closing[f] .. Len(worker_clients) : worker_clients[i] = c
SessionOpen(f) ==
    /\ fetch[f] = "prepare" /\ takeout_id # 0 => finisher[takeout_id] = "nobody"
    /\ fetch[f] \in {"connecting", "fetching"} /\ used[f] # 0 => finisher[used[f]] = "nobody"
Connected(f) ==
    /\ fetch[f] = "connecting" => \A w \in Takeout!Workers : w < closing[f] => <<f, w>> \in connected
    /\ fetch[f] = "fetching" => \A w \in Takeout!Workers : <<f, w>> \in connected

FetchAlone(f) == Bound(f) /\ NotConnected(f) /\ Listed(f) /\ ToDisconnect(f) /\ SessionOpen(f)
                 /\ Connected(f)

OnlyOne   == \A f, g \in Takeout!Fetches : Active(f) /\ Active(g) => f = g
NoneLeft  == (\A f \in Takeout!Fetches : ~Active(f)) => takeout_id = 0 /\ connected = {}
EndsClean == pc = "ended" => \A f \in Takeout!Fetches : ~Active(f)

AloneInv == ~overlap => OnlyOne /\ NoneLeft /\ EndsClean
                        /\ \A f \in Takeout!Fetches : FetchAlone(f)

LEMMA AloneStarts == Takeout!Init => AloneInv
<1> SUFFICES ASSUME Takeout!Init PROVE AloneInv
  OBVIOUS
<1>1. \A f \in Takeout!Fetches : fetch[f] = "none"
  BY DEF Takeout!Init
<1>2. \A f \in Takeout!Fetches : ~Active(f)
  BY <1>1 DEF Active, Takeout!Inside, Takeout!Unclean
<1>3. OnlyOne /\ NoneLeft /\ EndsClean
  BY <1>2 DEF OnlyOne, NoneLeft, EndsClean, Takeout!Init
<1>4. ASSUME NEW f \in Takeout!Fetches PROVE FetchAlone(f)
  BY <1>1 DEF FetchAlone, Bound, NotConnected, Listed, ToDisconnect, SessionOpen, Connected
<1> QED
  BY <1>3, <1>4 DEF AloneInv

\* Nothing is said of a fetch that has not begun or is over.
LEMMA IdleAlone ==
  ASSUME NEW f \in Takeout!Fetches, ~Active(f)'
  PROVE  FetchAlone(f)'
BY DEF Active, Takeout!Inside, Takeout!Unclean, FetchAlone, Bound, NotConnected, Listed,
   ToDisconnect, SessionOpen, Connected

\* A fetch that goes on while it is alone: the others stay as they are, and what
\* holds of all fetches has to be shown of this one only.
LEMMA AloneGoesOn ==
  ASSUME TakeoutTypes, ~overlap, AloneInv, NEW f \in Takeout!Fetches, Active(f),
         \A g \in Takeout!Fetches : g # f => fetch'[g] = fetch[g],
         Active(f)' => FetchAlone(f)' /\ pc' # "ended",
         ~Active(f)' => takeout_id' = 0 /\ connected' = {}
  PROVE  AloneInv'
<1>1. \A g \in Takeout!Fetches : g # f => ~Active(g)'
  BY DEF AloneInv, OnlyOne, Active, Takeout!Inside, Takeout!Unclean
<1>2. OnlyOne'
  BY <1>1 DEF OnlyOne
<1>3. NoneLeft' /\ EndsClean'
  BY <1>1 DEF NoneLeft, EndsClean
<1>4. \A g \in Takeout!Fetches : FetchAlone(g)'
  BY <1>1, IdleAlone
<1> QED
  BY <1>2, <1>3, <1>4 DEF AloneInv

LEMMA AloneMain ==
  ASSUME TakeoutCore, AloneInv, Takeout!Main
  PROVE  AloneInv'
<1> USE DEF Takeout!config, Takeout!server, Takeout!manager, Takeout!world, Takeout!gens
<1>1. UNCHANGED <<fetch, used, closing, connected, worker_clients, takeout_id>>
  BY DEF Takeout!Main, Takeout!NoTakeout, Takeout!EnterSucceeds, Takeout!EnterDelayed,
     Takeout!EnterFails, Takeout!PrecheckExit, Takeout!ExportOver, Takeout!WrapperExit,
     Takeout!Disconnect
<1>2. finisher' = finisher \/ ~Takeout!Exporting
  BY DEF Takeout!Main, Takeout!NoTakeout, Takeout!EnterSucceeds, Takeout!EnterDelayed,
     Takeout!EnterFails, Takeout!PrecheckExit, Takeout!ExportOver, Takeout!WrapperExit,
     Takeout!Disconnect, Takeout!Opens, Takeout!Exporting
<1>3. \A f \in Takeout!Fetches : Takeout!Inside(f) => Takeout!Exporting
  BY DEF TakeoutCore, InsideIsCurrent
<1>4. \/ overlap' = overlap /\ pc' # "ended"
      \/ /\ Takeout!Disconnect
         /\ ~overlap' => ~overlap /\ \A f \in Takeout!Fetches : ~Takeout!Unclean(f)
  BY DEF Takeout!Main, Takeout!NoTakeout, Takeout!EnterSucceeds, Takeout!EnterDelayed,
     Takeout!EnterFails, Takeout!PrecheckExit, Takeout!ExportOver, Takeout!WrapperExit,
     Takeout!Disconnect
<1>5. SUFFICES ASSUME ~overlap' PROVE AloneInv'
  BY DEF AloneInv
<1>6. ~overlap
  BY <1>4, <1>5
<1>7. \A f \in Takeout!Fetches : Active(f)' <=> Active(f)
  BY <1>1 DEF Active, Takeout!Inside, Takeout!Unclean
<1>8. OnlyOne' /\ NoneLeft'
  BY <1>1, <1>6, <1>7 DEF AloneInv, OnlyOne, NoneLeft
<1>9. EndsClean'
  <2>1. CASE pc' # "ended"
    BY <2>1 DEF EndsClean
  <2>2. CASE Takeout!Disconnect
    <3>1. ~Takeout!Exporting
      BY <2>2 DEF Takeout!Disconnect, Takeout!Exporting
    <3>2. \A f \in Takeout!Fetches : ~Takeout!Unclean(f)
      <4>1. overlap' = (overlap \/ \E f \in Takeout!Fetches : Takeout!Unclean(f))
        BY <2>2 DEF Takeout!Disconnect
      <4> QED
        BY <1>5, <4>1
    <3> QED
      BY <1>3, <1>7, <3>1, <3>2 DEF EndsClean, Active
  <2> QED
    BY <1>4, <2>1, <2>2
<1>10. ASSUME NEW f \in Takeout!Fetches PROVE FetchAlone(f)'
  <2>1. FetchAlone(f)
    BY <1>6 DEF AloneInv
  <2>2. Takeout!Inside(f) => finisher' = finisher
    BY <1>2, <1>3
  <2>3. SessionOpen(f)'
    BY <1>1, <2>1, <2>2 DEF FetchAlone, SessionOpen, Takeout!Inside
  <2> QED
    BY <1>1, <2>1, <2>3 DEF FetchAlone, Bound, NotConnected, Listed, ToDisconnect, Connected
<1> QED
  BY <1>8, <1>9, <1>10 DEF AloneInv

LEMMA AloneBegin ==
  ASSUME TakeoutCore, AloneInv, Takeout!Begin
  PROVE  AloneInv'
<1> USE DEF Takeout!config, Takeout!server, Takeout!manager, Takeout!world, Takeout!gens
<1>1. SUFFICES ASSUME ~overlap' PROVE AloneInv'
  BY DEF AloneInv
<1>2. /\ ~overlap /\ \A g \in Takeout!Fetches : ~Takeout!Unclean(g)
  <2>1. overlap' = (overlap \/ \E g \in Takeout!Fetches : Takeout!Unclean(g))
    BY DEF Takeout!Begin
  <2> QED
    BY <1>1, <2>1
<1>3. /\ UNCHANGED <<pc, connected, takeout_id>> /\ pc # "ended" /\ Takeout!Done
  BY DEF Takeout!Begin, Takeout!Exporting
<1>4. \A g \in Takeout!Fetches : ~Active(g)
  BY <1>2, <1>3, TakeoutNumbers DEF Active, Takeout!Done, Takeout!Inside, TakeoutCore, InsideIsCurrent
<1>5. takeout_id' = 0 /\ connected' = {}
  BY <1>2, <1>3, <1>4 DEF AloneInv, NoneLeft
<1>6. PICK f \in Takeout!Fetches, p \in {"setup", "closed"} : fetch' = [fetch EXCEPT ![f] = p]
  BY BeginGoes
<1>7. fetch \in [Takeout!Fetches -> Takeout!Phases]
  BY DEF TakeoutCore, TakeoutTypes, FetchesTyped
<1>8. \A g \in Takeout!Fetches : g # f => ~Active(g)'
  BY <1>4, <1>6, <1>7 DEF Active, Takeout!Inside, Takeout!Unclean
<1>9. FetchAlone(f)'
  BY <1>5, <1>6, <1>7 DEF FetchAlone, Bound, NotConnected, Listed, ToDisconnect, SessionOpen, Connected
<1>10. OnlyOne' /\ NoneLeft' /\ EndsClean'
  BY <1>3, <1>5, <1>8 DEF OnlyOne, NoneLeft, EndsClean
<1> QED
  BY <1>8, <1>9, <1>10, IdleAlone DEF AloneInv

\* The manager opens a session, asks for the newest id and connects the workers,
\* all for the one fetch.
LEMMA AloneFetch ==
  ASSUME TakeoutCore, AloneInv, Takeout!Fetch, ~Takeout!Begin
  PROVE  AloneInv'
<1> USE DEF Takeout!config, Takeout!server, Takeout!manager, Takeout!world, Takeout!gens
<1>1. cur # 0 /\ Takeout!Inside(cur) /\ pc' = pc /\ overlap' = overlap /\ cur \in Takeout!Fetches
  <2>1. cur # 0 /\ Takeout!Inside(cur) /\ pc' = pc /\ overlap' = overlap
    BY DEF Takeout!Fetch, Takeout!Setup, Takeout!SetupAnswered, Takeout!BoundsAnswered,
       Takeout!BoundsEmpty, Takeout!Prepare, Takeout!Connect, Takeout!Raises, Takeout!Drained,
       Takeout!Left, Takeout!Inside
  <2> QED
    BY <2>1, TakeoutNumbers DEF TakeoutCore, TakeoutTypes, PlacesTyped
<1>2. SUFFICES ASSUME ~overlap PROVE AloneInv'
  BY <1>1 DEF AloneInv
<1>3. Active(cur) /\ pc # "ended"
  BY <1>1 DEF Active, TakeoutCore, InsideIsCurrent, Takeout!Exporting
<1>4. FetchAlone(cur)
  BY <1>1, <1>2 DEF AloneInv
<1>5. /\ fetch \in [Takeout!Fetches -> Takeout!Phases] /\ closing \in [Takeout!Fetches -> Nat]
      /\ used \in [Takeout!Fetches -> 0 .. opened]
      /\ worker_clients \in Seq(Takeout!Fetches \X Takeout!Workers)
      /\ takeout_id \in 0 .. opened /\ opened \in Nat
  BY DEF TakeoutCore, TakeoutTypes, FetchesTyped, KnownTyped, WorkersTyped, SessionsTyped
<1>6. ASSUME NEW p \in {"asking", "bounds", "standard", "prepare", "connecting", "fetching",
                        "left", "disconnecting"},
             fetch' = [fetch EXCEPT ![cur] = p], FetchAlone(cur)'
      PROVE  AloneInv'
  <2>1. \A g \in Takeout!Fetches : g # cur => fetch'[g] = fetch[g]
    BY <1>5, <1>6
  <2>2. Takeout!Inside(cur)' \/ Takeout!Unclean(cur)'
    <3>1. fetch'[cur] = p
      BY <1>1, <1>5, <1>6
    <3>2. cur' = cur
      BY DEF Takeout!Fetch, Takeout!Setup, Takeout!SetupAnswered, Takeout!BoundsAnswered,
       Takeout!BoundsEmpty, Takeout!Prepare, Takeout!Connect, Takeout!Raises, Takeout!Drained,
       Takeout!Left
    <3> QED
      BY <3>1, <3>2 DEF Takeout!Inside, Takeout!Unclean
  <2>3. cur' = cur
      BY DEF Takeout!Fetch, Takeout!Setup, Takeout!SetupAnswered, Takeout!BoundsAnswered,
       Takeout!BoundsEmpty, Takeout!Prepare, Takeout!Connect, Takeout!Raises, Takeout!Drained,
       Takeout!Left
  <2>4. PICK f \in Takeout!Fetches : f = cur
    BY <1>1
  <2>5. /\ Active(f) /\ Active(f)' /\ FetchAlone(f)'
        /\ \A g \in Takeout!Fetches : g # f => fetch'[g] = fetch[g]
    BY <1>3, <1>6, <2>1, <2>2, <2>3, <2>4 DEF Active, Takeout!Inside, Takeout!Unclean, FetchAlone,
       Bound, NotConnected, Listed, ToDisconnect, SessionOpen, Connected
  <2> QED
    BY <1>1, <1>2, <1>3, <2>5, AloneGoesOn DEF TakeoutCore
<1> USE DEF FetchAlone, Bound, NotConnected, Listed, ToDisconnect, SessionOpen, Connected,
        Takeout!Goto
<1>7. CASE Takeout!Setup \/ Takeout!SetupAnswered
  <2>1. /\ cur' = cur /\ connected' = connected
        /\ fetch[cur] \in {"setup", "asking"}
        /\ \/ fetch' = [fetch EXCEPT ![cur] = "bounds"]
           \/ fetch' = [fetch EXCEPT ![cur] = "asking"] /\ takeout_id' = takeout_id
    BY <1>7 DEF Takeout!Setup, Takeout!SetupAnswered
  <2>2. FetchAlone(cur)'
    BY <1>1, <1>4, <1>5, <2>1
  <2> QED
    BY <1>6, <2>1, <2>2
<1>8. CASE Takeout!BoundsAnswered
  <2>1. /\ UNCHANGED <<cur, connected, takeout_id, finisher>> /\ fetch[cur] = "bounds"
        /\ fetch' = [fetch EXCEPT ![cur] = "prepare"]
        /\ ~Takeout!Finished(takeout_id)
    BY <1>8 DEF Takeout!BoundsAnswered
  <2>2. takeout_id # 0 => finisher[takeout_id] = "nobody"
    BY <1>5, <2>1 DEF Takeout!Finished
  <2>3. FetchAlone(cur)'
    BY <1>1, <1>4, <1>5, <2>1, <2>2
  <2> QED
    BY <1>6, <2>1, <2>3
<1>9. CASE Takeout!BoundsEmpty
  <2>1. /\ UNCHANGED <<cur, connected>> /\ fetch[cur] = "bounds"
        /\ fetch' = [fetch EXCEPT ![cur] = "standard"]
    BY <1>9 DEF Takeout!BoundsEmpty
  <2>2. FetchAlone(cur)'
    BY <1>1, <1>4, <1>5, <2>1
  <2> QED
    BY <1>6, <2>1, <2>2
<1>10. CASE Takeout!Prepare
  <2>1. /\ UNCHANGED <<cur, connected, finisher>> /\ fetch[cur] = "prepare"
        /\ fetch' = [fetch EXCEPT ![cur] = "connecting"]
        /\ used' = [used EXCEPT ![cur] = takeout_id]
        /\ closing' = [closing EXCEPT ![cur] = 1]
    BY <1>10 DEF Takeout!Prepare
  <2>2. \A w \in Takeout!Workers : ~(w < 1)
    BY TakeoutNumbers
  <2>3. connected' = {} /\ used'[cur] = takeout_id /\ closing'[cur] = 1
    BY <1>1, <1>4, <1>5, <2>1
  <2>4. FetchAlone(cur)'
    BY <1>1, <1>4, <1>5, <2>1, <2>2, <2>3
  <2> QED
    BY <1>6, <2>1, <2>4
<1>11. CASE Takeout!Connect
  <2>1. /\ UNCHANGED <<cur, finisher, used>> /\ fetch[cur] = "connecting"
        /\ connected' = connected \cup {<<cur, closing[cur]>>}
        /\ worker_clients' = Append(worker_clients, <<cur, closing[cur]>>)
        /\ IF closing[cur] = WorkerCount
           THEN fetch' = [fetch EXCEPT ![cur] = "fetching"]
           ELSE closing' = [closing EXCEPT ![cur] = @ + 1] /\ fetch' = fetch
    BY <1>11 DEF Takeout!Connect
  <2>2. closing[cur] \in Takeout!Workers
    BY <1>1, <2>1 DEF TakeoutCore, TakeoutTypes, FetchesTyped
  <2>3. <<cur, closing[cur]>> \in Takeout!Fetches \X Takeout!Workers
    BY <1>1, <2>2
  <2>4. \A c \in connected' : \E i \in 1 .. Len(worker_clients') : worker_clients'[i] = c
    <3>1. /\ Len(worker_clients') = Len(worker_clients) + 1 /\ Len(worker_clients) \in Nat
          /\ \A i \in 1 .. Len(worker_clients) : worker_clients'[i] = worker_clients[i]
          /\ worker_clients'[Len(worker_clients) + 1] = <<cur, closing[cur]>>
      BY <1>5, <2>1, <2>3, AppendProperties
    <3>2. \A c \in connected : \E i \in 1 .. Len(worker_clients) : worker_clients[i] = c
      BY <1>1, <1>4, <2>1
    <3> QED
      BY <2>1, <3>1, <3>2
  <2>5. \A w \in Takeout!Workers : w <= closing[cur] => <<cur, w>> \in connected'
    <3>1. \A w \in Takeout!Workers : w < closing[cur] => <<cur, w>> \in connected
      BY <1>1, <1>4, <2>1
    <3> QED
      BY <2>1, <2>2, <3>1, TakeoutNumbers
  <2>6. used[cur] # 0 => finisher[used[cur]] = "nobody"
    BY <1>4, <2>1
  <2>7. CASE closing[cur] = WorkerCount
    <3>1. fetch'[cur] = "fetching" /\ \A w \in Takeout!Workers : <<cur, w>> \in connected'
      BY <1>1, <1>5, <2>1, <2>5, <2>7, TakeoutNumbers
    <3>2. FetchAlone(cur)'
      BY <2>1, <2>4, <2>6, <3>1
    <3> QED
      BY <1>6, <2>1, <2>7, <3>2
  <2>8. CASE closing[cur] # WorkerCount
    <3>1. fetch'[cur] = "connecting" /\ closing'[cur] = closing[cur] + 1
          /\ fetch' = [fetch EXCEPT ![cur] = "connecting"]
      BY <1>1, <1>5, <2>1, <2>8
    <3>2. \A w \in Takeout!Workers : w < closing'[cur] => <<cur, w>> \in connected'
      BY <2>2, <2>5, <3>1, TakeoutNumbers
    <3>3. FetchAlone(cur)'
      BY <2>1, <2>4, <2>6, <3>1, <3>2
    <3> QED
      BY <1>6, <3>1, <3>3
  <2> QED
    BY <2>7, <2>8
<1>12. CASE Takeout!Raises \/ Takeout!Drained
  <2>1. /\ UNCHANGED <<cur, connected, worker_clients>>
        /\ fetch[cur] \in {"asking", "bounds", "standard", "prepare", "connecting", "fetching"}
        /\ fetch' = [fetch EXCEPT ![cur] = "disconnecting"]
        /\ closing' = [closing EXCEPT ![cur] = 1]
    BY <1>12 DEF Takeout!Raises, Takeout!Drained, Takeout!Inside
  <2>2. fetch'[cur] = "disconnecting" /\ closing'[cur] = 1
    BY <1>1, <1>5, <2>1
  <2>3. \A c \in connected : \E i \in 1 .. Len(worker_clients) : worker_clients[i] = c
    BY <1>1, <1>4, <2>1
  <2>4. FetchAlone(cur)'
    BY <2>1, <2>2, <2>3
  <2> QED
    BY <1>6, <2>1, <2>4
<1>13. CASE Takeout!Left
  <2>1. /\ UNCHANGED <<cur, connected, worker_clients>>
        /\ fetch[cur] \in {"standard", "fetching"}
        /\ fetch' = [fetch EXCEPT ![cur] = "left"]
    BY <1>13 DEF Takeout!Left
  <2>2. fetch'[cur] = "left"
    BY <1>1, <1>5, <2>1
  <2>3. \A c \in connected : \E i \in 1 .. Len(worker_clients) : worker_clients[i] = c
    BY <1>1, <1>4, <2>1
  <2>4. FetchAlone(cur)'
    BY <2>1, <2>2, <2>3
  <2> QED
    BY <1>6, <2>1, <2>4
<1> QED
  BY <1>7, <1>8, <1>9, <1>10, <1>11, <1>12, <1>13 DEF Takeout!Fetch

LEMMA AloneCleanup ==
  ASSUME TakeoutCore, AloneInv, NEW f \in Takeout!Fetches, Takeout!Cleanup(f)
  PROVE  AloneInv'
<1> USE DEF Takeout!config, Takeout!server, Takeout!manager, Takeout!world, Takeout!gens
<1>1. fetch[f] \in {"left", "disconnecting", "finishing"} /\ pc' = pc /\ overlap' = overlap
  BY DEF Takeout!Cleanup, Takeout!CloseLeft, Takeout!DisconnectWorker, Takeout!ClearClients,
     Takeout!FinishOwn, Takeout!Abort, Takeout!Unclean
<1>2. SUFFICES ASSUME ~overlap PROVE AloneInv'
  BY <1>1 DEF AloneInv
<1>3. Active(f) /\ pc # "ended"
  BY <1>1, <1>2 DEF Active, Takeout!Unclean, AloneInv, EndsClean
<1>4. FetchAlone(f)
  BY <1>2 DEF AloneInv
<1>5. /\ fetch \in [Takeout!Fetches -> Takeout!Phases] /\ closing \in [Takeout!Fetches -> Nat]
      /\ worker_clients \in Seq(Takeout!Fetches \X Takeout!Workers)
  BY DEF TakeoutCore, TakeoutTypes, FetchesTyped, WorkersTyped
<1>6. ASSUME NEW p \in {"disconnecting", "finishing", "closed"},
             fetch' = [fetch EXCEPT ![f] = p], FetchAlone(f)',
             p = "closed" => takeout_id' = 0 /\ connected' = {}
      PROVE  AloneInv'
  <2>1. /\ \A g \in Takeout!Fetches : g # f => fetch'[g] = fetch[g]
        /\ fetch'[f] = p
    BY <1>5, <1>6
  <2>2. ~Active(f)' => takeout_id' = 0 /\ connected' = {}
    BY <1>6, <2>1 DEF Active, Takeout!Unclean
  <2> QED
    BY <1>1, <1>2, <1>3, <1>6, <2>1, <2>2, AloneGoesOn DEF TakeoutCore
<1> USE DEF FetchAlone, Bound, NotConnected, Listed, ToDisconnect, SessionOpen, Connected
<1>7. CASE Takeout!CloseLeft(f)
  <2>1. /\ UNCHANGED <<connected, worker_clients>> /\ fetch[f] = "left"
        /\ fetch' = [fetch EXCEPT ![f] = "disconnecting"]
        /\ closing' = [closing EXCEPT ![f] = 1]
    BY <1>7 DEF Takeout!CloseLeft
  <2>2. fetch'[f] = "disconnecting" /\ closing'[f] = 1
    BY <1>5, <2>1
  <2>3. FetchAlone(f)'
    BY <1>4, <2>1, <2>2
  <2> QED
    BY <1>6, <2>1, <2>3
<1>8. CASE Takeout!DisconnectWorker(f)
  <2>1. /\ worker_clients' = worker_clients /\ fetch[f] = "disconnecting" /\ fetch' = fetch
        /\ closing' = [closing EXCEPT ![f] = @ + 1]
        /\ connected' = connected \ {worker_clients[closing[f]]}
    BY <1>8 DEF Takeout!DisconnectWorker
  <2>2. closing'[f] = closing[f] + 1 /\ closing[f] \in Nat /\ fetch' = [fetch EXCEPT ![f] = "disconnecting"]
        /\ Len(worker_clients) \in Nat
    BY <1>5, <2>1
  <2>3. closing[f] >= 1 /\ \A c \in connected : \E i \in closing[f] .. Len(worker_clients) : worker_clients[i] = c
    BY <1>4, <2>1
  <2>4. \A c \in connected' : \E i \in closing[f] + 1 .. Len(worker_clients) : worker_clients[i] = c
    BY <2>1, <2>2, <2>3
  <2>5. FetchAlone(f)'
    BY <2>1, <2>2, <2>3, <2>4
  <2> QED
    BY <1>6, <2>2, <2>5
<1>9. CASE Takeout!ClearClients(f)
  <2>1. /\ connected' = connected /\ fetch[f] = "disconnecting" /\ closing[f] > Len(worker_clients)
        /\ \/ fetch' = [fetch EXCEPT ![f] = "finishing"]
           \/ fetch' = [fetch EXCEPT ![f] = "closed"] /\ takeout_id' = 0
    BY <1>9 DEF Takeout!ClearClients, Takeout!Forget
  <2>2. connected = {}
    <3>1. closing[f] \in Nat /\ Len(worker_clients) \in Nat
      BY <1>5
    <3> QED
      BY <1>4, <2>1, <3>1
  <2>3. FetchAlone(f)'
    BY <1>5, <2>1, <2>2
  <2> QED
    BY <1>6, <2>1, <2>2, <2>3
<1>10. CASE Takeout!FinishOwn(f)
  <2>1. /\ connected' = connected /\ fetch[f] = "finishing"
        /\ fetch' = [fetch EXCEPT ![f] = "closed"] /\ takeout_id' = 0
    BY <1>10 DEF Takeout!FinishOwn, Takeout!Forget
  <2>2. FetchAlone(f)' /\ connected' = {}
    BY <1>4, <1>5, <2>1
  <2> QED
    BY <1>6, <2>1, <2>2
<1>11. ~Takeout!Abort(f)
  BY <1>3 DEF Takeout!Abort
<1> QED
  BY <1>7, <1>8, <1>9, <1>10, <1>11 DEF Takeout!Cleanup

LEMMA AloneStays ==
  ASSUME TakeoutCore, AloneInv, [Takeout!Next]_takeoutVars
  PROVE  AloneInv'
<1>1. CASE UNCHANGED takeoutVars
  BY <1>1 DEF takeoutVars, AloneInv, OnlyOne, NoneLeft, EndsClean, Active, Takeout!Inside,
     Takeout!Unclean, FetchAlone, Bound, NotConnected, Listed, ToDisconnect, SessionOpen, Connected
<1> QED
  BY <1>1, AloneMain, AloneBegin, AloneFetch, AloneCleanup, TakeoutParts

LEMMA AloneHolds == ProgramSpec => [](TakeoutCore /\ AloneInv)
<1>1. ProgramInit => AloneInv
  BY AloneStarts DEF ProgramInit
<1>2. TakeoutCore /\ AloneInv /\ [ProgramNext]_<<which, vars, takeoutVars, lifeVars>> => AloneInv'
  BY TakeoutSteps, AloneStays
<1> QED
  BY <1>1, <1>2, TakeoutCoreHolds, PTL DEF ProgramSpec

\* What goes through the wrapper of run_export goes into an open session; and
\* while no fetch has begun beside the cleanup of an earlier one, the session of
\* the fetch is open and all its worker clients are connected
\* (_setup_takeout, _prepare_workers, _cleanup_sharding).
THEOREM SessionAlwaysOpen == ProgramSpec => []SessionInUseIsOpen
<1>1. TakeoutCore /\ AloneInv => SessionInUseIsOpen
  <2> SUFFICES ASSUME TakeoutCore, AloneInv PROVE SessionInUseIsOpen
    OBVIOUS
  <2>1. client # 0 => finisher[client] = "nobody"
    BY DEF TakeoutCore, OwnedInv, WrapperOwned
  <2>2. ASSUME NEW f \in Takeout!Fetches, fetch[f] = "fetching", ~overlap
        PROVE  /\ used[f] # 0 => finisher[used[f]] = "nobody"
               /\ \A w \in Takeout!Workers : <<f, w>> \in connected
    BY <2>2 DEF AloneInv, FetchAlone, SessionOpen, Connected
  <2> QED
    BY <2>1, <2>2 DEF SessionInUseIsOpen, Takeout!SessionInUseIsOpen
<1> QED
  BY <1>1, AloneHolds, PTL

-----------------------------------------------------------------------------
(* While, besides, nothing has failed *)

\* A session that is open is one that somebody is about to finish.
Pending(s) ==
    \/ opener[s] = "precheck" /\ pc = "prechecked"
    \/ opener[s] = "run_export" /\ pc \in {"takeout", "exit", "exit_raising"}
    \/ opener[s] = "shards" /\ s = takeout_id /\ _owned_takeout

AllPending   == \A s \in 1 .. opened : finisher[s] = "nobody" => Pending(s)
FinishesOwn  == \A f \in Takeout!Fetches : fetch[f] = "finishing" =>
                  closing[f] = takeout_id /\ _owned_takeout
FilesKnown   == session_files \subseteq worker_sessions
FilesRemoved == (\A f \in Takeout!Fetches : ~Active(f)) => session_files = {}

QuietInv == ~overlap /\ breaks = 0 => AllPending /\ FinishesOwn /\ FilesKnown /\ FilesRemoved

LEMMA QuietStarts == Takeout!Init => QuietInv
BY DEF Takeout!Init, QuietInv, AllPending, FinishesOwn, FilesKnown, FilesRemoved

\* A step without a fault, before which nothing has failed either.
LEMMA QuietBefore ==
  ASSUME TakeoutCore, [Takeout!Next]_takeoutVars, ~overlap', breaks' = 0
  PROVE  ~overlap /\ breaks = 0 /\ ~Takeout!Fault
<1> USE DEF Takeout!config, Takeout!server, Takeout!manager, Takeout!world, Takeout!gens
<1>1. breaks \in Nat
  BY DEF TakeoutCore, TakeoutTypes, PlacesTyped
<1>2. ~Takeout!Fault
  BY <1>1 DEF Takeout!Fault
<1>3. overlap' = overlap \/ (overlap => overlap')
  <2>1. CASE Takeout!Main
    BY <2>1 DEF Takeout!Main, Takeout!NoTakeout, Takeout!EnterSucceeds, Takeout!EnterDelayed,
     Takeout!EnterFails, Takeout!PrecheckExit, Takeout!ExportOver, Takeout!WrapperExit,
     Takeout!Disconnect
  <2>2. CASE Takeout!Fetch
    BY <2>2 DEF Takeout!Fetch, Takeout!Begin, Takeout!Setup, Takeout!SetupAnswered,
       Takeout!BoundsAnswered, Takeout!BoundsEmpty, Takeout!Prepare, Takeout!Connect,
       Takeout!Raises, Takeout!Drained, Takeout!Left
  <2>3. ASSUME NEW f \in Takeout!Fetches, Takeout!Cleanup(f) PROVE overlap' = overlap
    BY <2>3 DEF Takeout!Cleanup, Takeout!CloseLeft, Takeout!DisconnectWorker,
       Takeout!ClearClients, Takeout!FinishOwn, Takeout!Abort
  <2>4. CASE UNCHANGED takeoutVars
    BY <2>4 DEF takeoutVars
  <2> QED
    BY <2>1, <2>2, <2>3, <2>4, TakeoutParts
<1>4. breaks' = breaks \/ Takeout!Fault
  <2>1. CASE Takeout!Main
    BY <2>1 DEF Takeout!Main, Takeout!NoTakeout, Takeout!EnterSucceeds, Takeout!EnterDelayed,
     Takeout!EnterFails, Takeout!PrecheckExit, Takeout!ExportOver, Takeout!WrapperExit,
     Takeout!Disconnect, Takeout!Finishes
  <2>2. CASE Takeout!Fetch
    BY <2>2 DEF Takeout!Fetch, Takeout!Begin, Takeout!Setup, Takeout!SetupAnswered,
       Takeout!BoundsAnswered, Takeout!BoundsEmpty, Takeout!Prepare, Takeout!Connect,
       Takeout!Raises, Takeout!Drained, Takeout!Left
  <2>3. ASSUME NEW f \in Takeout!Fetches, Takeout!Cleanup(f) PROVE breaks' = breaks \/ Takeout!Fault
    BY <2>3 DEF Takeout!Cleanup, Takeout!CloseLeft, Takeout!DisconnectWorker,
       Takeout!ClearClients, Takeout!FinishOwn, Takeout!Abort, Takeout!Finishes
  <2>4. CASE UNCHANGED takeoutVars
    BY <2>4 DEF takeoutVars
  <2> QED
    BY <2>1, <2>2, <2>3, <2>4, TakeoutParts
<1> QED
  BY <1>2, <1>3, <1>4

\* Without a fault and while connected, who asks for the end of a session gets it.
LEMMA FinishWorks ==
  ASSUME TakeoutCore, ~Takeout!Fault, pc # "ended", NEW who \in Askers, NEW s \in Takeout!Ids,
         Takeout!Finishes(who, s)
  PROVE  /\ finisher' = [finisher EXCEPT ![s] = who] /\ finisher'[s] = who
         /\ UNCHANGED <<opened, opener>>
         /\ \A u \in Takeout!Ids : u # s => finisher'[u] = finisher[u]
<1>1. client_connected
  BY DEF TakeoutCore, NotYetExported
<1>2. finisher' = [finisher EXCEPT ![s] = who] /\ UNCHANGED <<opened, opener>>
  BY <1>1 DEF Takeout!Finishes
<1> QED
  BY <1>2 DEF TakeoutCore, TakeoutTypes, SessionsTyped

LEMMA QuietMain ==
  ASSUME TakeoutCore, AllPending, FinishesOwn, FilesKnown, FilesRemoved, ~Takeout!Fault,
         Takeout!Main
  PROVE  AllPending' /\ FinishesOwn' /\ FilesKnown' /\ FilesRemoved'
<1> USE DEF Takeout!config, Takeout!server, Takeout!manager, Takeout!world, Takeout!gens
<1>1. /\ UNCHANGED <<fetch, closing, takeout_id, _owned_takeout, worker_sessions, session_files>>
  BY DEF Takeout!Main, Takeout!NoTakeout, Takeout!EnterSucceeds, Takeout!EnterDelayed,
     Takeout!EnterFails, Takeout!PrecheckExit, Takeout!ExportOver, Takeout!WrapperExit,
     Takeout!Disconnect
<1>2. FinishesOwn' /\ FilesKnown' /\ FilesRemoved'
  BY <1>1 DEF FinishesOwn, FilesKnown, FilesRemoved, Active, Takeout!Inside, Takeout!Unclean
<1>3. /\ opened \in Nat /\ opened <= 2 * LastTarget + 2
      /\ opener \in [Takeout!Ids -> Askers \cup {"nobody"}]
      /\ finisher \in [Takeout!Ids -> Askers \cup {"nobody"}]
      /\ \A s \in 1 .. opened : s \in Takeout!Ids
  BY TakeoutNumbers DEF TakeoutCore, TakeoutTypes, SessionsTyped
<1>4. CASE Takeout!EnterSucceeds
  <2>1. /\ (pc = "precheck" /\ pc' = "prechecked") \/ (pc = "run_export" /\ pc' = "takeout")
        /\ opened' = opened + 1 /\ opener' = [opener EXCEPT ![opened + 1] = pc]
        /\ finisher' = finisher
    BY <1>4 DEF Takeout!EnterSucceeds, Takeout!Opens
  <2>2. opened + 1 \in Takeout!Ids
    <3>1. TakeoutTypes'
      BY MainTypes DEF TakeoutCore
    <3> QED
      BY <1>3, <2>1, <3>1, TakeoutNumbers DEF TakeoutTypes, SessionsTyped
  <2>3. ASSUME NEW s \in 1 .. opened', finisher'[s] = "nobody" PROVE Pending(s)'
    <3>1. CASE s = opened + 1
      <4>1. opener'[s] = pc
        BY <1>3, <2>1, <2>2, <3>1
      <4> QED
        BY <2>1, <4>1 DEF Pending
    <3>2. CASE s # opened + 1
      <4>1. s \in 1 .. opened /\ opener'[s] = opener[s]
        BY <1>3, <2>1, <2>3, <3>2
      <4>2. Pending(s)
        BY <2>1, <2>3, <4>1 DEF AllPending
      <4> QED
        BY <1>1, <2>1, <4>1, <4>2 DEF Pending
    <3> QED
      BY <3>1, <3>2
  <2> QED
    BY <1>2, <2>3 DEF AllPending
<1>5. CASE Takeout!PrecheckExit
  <2>1. /\ opened = 1 /\ Takeout!Finishes("precheck", 1) /\ pc # "ended"
    BY <1>5 DEF Takeout!PrecheckExit, TakeoutCore, NotYetExported
  <2>2. "precheck" \in Askers /\ 1 \in Takeout!Ids
    BY TakeoutNumbers DEF Askers
  <2>3. finisher'[1] = "precheck" /\ opened' = 1
    BY <2>1, <2>2, FinishWorks
  <2> QED
    BY <1>2, <2>3 DEF AllPending
<1>6. CASE Takeout!WrapperExit
  <2>1. PICK s \in 1 .. opened : opener[s] = "run_export" /\ Takeout!Finishes("run_export", s)
    BY <1>6 DEF Takeout!WrapperExit
  <2>2. "run_export" \in Askers /\ s \in Takeout!Ids /\ pc # "ended" /\ pc \in {"exit", "exit_raising"}
    BY <1>3, <1>6 DEF Askers, Takeout!WrapperExit
  <2>3. /\ finisher'[s] = "run_export" /\ UNCHANGED <<opened, opener>>
        /\ \A u \in Takeout!Ids : u # s => finisher'[u] = finisher[u]
    BY <2>1, <2>2, FinishWorks
  <2>4. ASSUME NEW u \in 1 .. opened, finisher'[u] = "nobody" PROVE Pending(u)'
    <3>1. u # s /\ u \in Takeout!Ids /\ finisher[u] = "nobody"
      BY <1>3, <2>3, <2>4
    <3>2. opener[u] # "run_export"
      BY <2>1, <2>2, <3>1 DEF TakeoutCore, OwnedInv, SessionsOwned
    <3>3. Pending(u)
      BY <3>1 DEF AllPending
    <3> QED
      BY <1>1, <2>2, <2>3, <3>2, <3>3 DEF Pending
  <2> QED
    BY <1>2, <2>3, <2>4 DEF AllPending
<1>7. CASE \/ Takeout!NoTakeout \/ Takeout!EnterDelayed \/ Takeout!EnterFails
           \/ Takeout!ExportOver \/ Takeout!Disconnect
  <2>1. /\ UNCHANGED <<opened, opener, finisher>> /\ pc # "prechecked"
        /\ pc \in {"takeout", "exit", "exit_raising"} => pc' \in {"exit", "exit_raising"}
    BY <1>7 DEF Takeout!NoTakeout, Takeout!EnterDelayed, Takeout!EnterFails,
       Takeout!ExportOver, Takeout!Disconnect, Takeout!Exporting
  <2> QED
    BY <1>1, <1>2, <2>1 DEF AllPending, Pending
<1> QED
  BY <1>4, <1>5, <1>6, <1>7 DEF Takeout!Main

LEMMA QuietFetch ==
  ASSUME TakeoutCore, AloneInv, ~overlap, ~overlap', ~Takeout!Fault,
         AllPending, FinishesOwn, FilesKnown, FilesRemoved, Takeout!Fetch
  PROVE  AllPending' /\ FinishesOwn' /\ FilesKnown' /\ FilesRemoved'
<1> USE DEF Takeout!config, Takeout!server, Takeout!manager, Takeout!world, Takeout!gens,
        Takeout!Goto
<1>1. /\ fetch \in [Takeout!Fetches -> Takeout!Phases]
      /\ opened \in Nat /\ opened <= 2 * LastTarget + 2
      /\ opener \in [Takeout!Ids -> Askers \cup {"nobody"}]
      /\ \A s \in 1 .. opened : s \in Takeout!Ids
  BY TakeoutNumbers DEF TakeoutCore, TakeoutTypes, SessionsTyped, FetchesTyped
\* No cleanup runs beside the step.
<1>2. \A f \in Takeout!Fetches : ~Takeout!Unclean(f)
  <2>1. CASE Takeout!Begin
    <3>1. overlap' = (overlap \/ \E f \in Takeout!Fetches : Takeout!Unclean(f))
      BY <2>1 DEF Takeout!Begin
    <3> QED
      BY <3>1
  <2>2. CASE ~Takeout!Begin
    <3>1. cur # 0 /\ Takeout!Inside(cur)
      BY <2>2 DEF Takeout!Fetch, Takeout!Setup, Takeout!SetupAnswered, Takeout!BoundsAnswered,
       Takeout!BoundsEmpty, Takeout!Prepare, Takeout!Connect, Takeout!Raises, Takeout!Drained,
       Takeout!Left, Takeout!Inside
    <3>2. cur \in Takeout!Fetches
      BY <3>1, TakeoutNumbers DEF TakeoutCore, TakeoutTypes, PlacesTyped
    <3>3. ASSUME NEW f \in Takeout!Fetches, Takeout!Unclean(f) PROVE FALSE
      <4>1. f = cur
        BY <3>1, <3>2, <3>3 DEF AloneInv, OnlyOne, Active
      <4> QED
        BY <3>1, <3>3, <4>1 DEF Takeout!Inside, Takeout!Unclean
    <3> QED
      BY <3>3
  <2> QED
    BY <2>1, <2>2
<1>3. FinishesOwn'
  <2>1. ASSUME NEW f \in Takeout!Fetches, fetch'[f] = "finishing" PROVE FALSE
    <3>1. ~(fetch[f] = "finishing")
      BY <1>2 DEF Takeout!Unclean
    <3>2. CASE Takeout!Begin
      BY <1>1, <2>1, <3>1, <3>2, BeginGoes
    <3>3. CASE ~Takeout!Begin
      BY <1>1, <2>1, <3>1, <3>3 DEF Takeout!Fetch, Takeout!Setup, Takeout!SetupAnswered,
       Takeout!BoundsAnswered, Takeout!BoundsEmpty, Takeout!Prepare, Takeout!Connect,
       Takeout!Raises, Takeout!Drained, Takeout!Left
    <3> QED
      BY <3>2, <3>3
  <2> QED
    BY <2>1 DEF FinishesOwn
<1>4. FilesKnown'
  <2>1. CASE Takeout!Prepare
    BY <2>1 DEF Takeout!Prepare, FilesKnown
  <2>2. CASE ~Takeout!Prepare
    <3>1. UNCHANGED <<session_files, worker_sessions>>
      BY <2>2 DEF Takeout!Fetch, Takeout!Begin, Takeout!Setup, Takeout!SetupAnswered,
       Takeout!BoundsAnswered, Takeout!BoundsEmpty, Takeout!Connect, Takeout!Raises,
       Takeout!Drained, Takeout!Left
    <3> QED
      BY <3>1 DEF FilesKnown
  <2> QED
    BY <2>1, <2>2
<1>5. FilesRemoved'
  <2>1. CASE Takeout!Begin
    <3>1. session_files' = session_files /\ Takeout!Done
      BY <2>1 DEF Takeout!Begin
    <3>2. \A f \in Takeout!Fetches : ~Active(f)
      BY <1>2, <3>1, TakeoutNumbers DEF Active, Takeout!Done, Takeout!Inside, TakeoutCore,
         InsideIsCurrent
    <3> QED
      BY <3>1, <3>2 DEF FilesRemoved
  <2>2. CASE ~Takeout!Begin
    <3>1. cur # 0
      BY <2>2 DEF Takeout!Fetch, Takeout!Setup, Takeout!SetupAnswered, Takeout!BoundsAnswered,
       Takeout!BoundsEmpty, Takeout!Prepare, Takeout!Connect, Takeout!Raises, Takeout!Drained,
       Takeout!Left
    <3>2. PICK f \in Takeout!Fetches : f = cur
      BY <3>1, TakeoutNumbers DEF TakeoutCore, TakeoutTypes, PlacesTyped
    <3>3. fetch'[f] \in {"setup", "asking", "bounds", "standard", "prepare",
                         "connecting", "fetching", "left", "disconnecting"}
      BY <1>1, <2>2, <3>2 DEF Takeout!Fetch, Takeout!Setup, Takeout!SetupAnswered,
         Takeout!BoundsAnswered, Takeout!BoundsEmpty, Takeout!Prepare, Takeout!Connect,
         Takeout!Raises, Takeout!Drained, Takeout!Left
    <3>4. Active(f)'
      BY <3>3 DEF Active, Takeout!Inside, Takeout!Unclean
    <3> QED
      BY <3>4 DEF FilesRemoved
  <2> QED
    BY <2>1, <2>2
<1>6. AllPending'
  <2>1. pc' = pc
    BY DEF Takeout!Fetch, Takeout!Begin, Takeout!Setup, Takeout!SetupAnswered,
       Takeout!BoundsAnswered, Takeout!BoundsEmpty, Takeout!Prepare, Takeout!Connect,
       Takeout!Raises, Takeout!Drained, Takeout!Left
  <2>2. CASE Takeout!Setup \/ Takeout!SetupAnswered
    <3>1. cur # 0 /\ fetch[cur] \in {"setup", "asking"} /\ cur \in Takeout!Fetches
      BY <2>2, TakeoutNumbers DEF Takeout!Setup, Takeout!SetupAnswered, TakeoutCore,
         TakeoutTypes, PlacesTyped
    <3>2. takeout_id = 0
      BY <3>1 DEF AloneInv, FetchAlone, Bound
    <3>3. CASE Takeout!Setup
      BY <2>1, <3>2, <3>3 DEF Takeout!Setup, AllPending, Pending
    <3>4. CASE Takeout!SetupAnswered
      <4>1. /\ opened' = opened + 1 /\ opener' = [opener EXCEPT ![opened + 1] = "shards"]
            /\ finisher' = finisher /\ takeout_id' = opened + 1 /\ _owned_takeout'
        BY <3>4 DEF Takeout!SetupAnswered, Takeout!Opens
      <4>2. opened + 1 \in Takeout!Ids
        <5>1. TakeoutTypes'
          BY FetchTypes DEF TakeoutCore
        <5> QED
          BY <1>1, <4>1, <5>1, TakeoutNumbers DEF TakeoutTypes, SessionsTyped
      <4>3. ASSUME NEW s \in 1 .. opened', finisher'[s] = "nobody" PROVE Pending(s)'
        <5>1. CASE s = opened + 1
          <6>1. opener'[s] = "shards" /\ s = takeout_id' /\ _owned_takeout'
            BY <1>1, <4>1, <4>2, <5>1
          <6> QED
            BY <6>1 DEF Pending
        <5>2. CASE s # opened + 1
          <6>1. s \in 1 .. opened /\ opener'[s] = opener[s] /\ finisher[s] = "nobody"
            BY <1>1, <4>1, <4>3, <5>2
          <6>2. Pending(s) /\ s # 0
            BY <1>1, <6>1 DEF AllPending
          <6> QED
            BY <2>1, <3>2, <6>1, <6>2 DEF Pending
        <5> QED
          BY <5>1, <5>2
      <4> QED
        BY <4>3 DEF AllPending
    <3> QED
      BY <2>2, <3>3, <3>4
  <2>3. CASE ~(Takeout!Setup \/ Takeout!SetupAnswered)
    <3>1. UNCHANGED <<opened, opener, finisher, takeout_id, _owned_takeout>>
      BY <2>3 DEF Takeout!Fetch, Takeout!Begin, Takeout!BoundsAnswered, Takeout!BoundsEmpty,
         Takeout!Prepare, Takeout!Connect, Takeout!Raises, Takeout!Drained, Takeout!Left
    <3> QED
      BY <2>1, <3>1 DEF AllPending, Pending
  <2> QED
    BY <2>2, <2>3
<1> QED
  BY <1>3, <1>4, <1>5, <1>6

LEMMA QuietCleanup ==
  ASSUME TakeoutCore, AloneInv, ~overlap, ~Takeout!Fault,
         AllPending, FinishesOwn, FilesKnown, FilesRemoved,
         NEW f \in Takeout!Fetches, Takeout!Cleanup(f)
  PROVE  AllPending' /\ FinishesOwn' /\ FilesKnown' /\ FilesRemoved'
<1> USE DEF Takeout!config, Takeout!server, Takeout!manager, Takeout!world, Takeout!gens
<1>1. /\ fetch \in [Takeout!Fetches -> Takeout!Phases] /\ closing \in [Takeout!Fetches -> Nat]
      /\ opened \in Nat /\ takeout_id \in 0 .. opened
      /\ \A s \in 1 .. opened : s \in Takeout!Ids
  BY TakeoutNumbers DEF TakeoutCore, TakeoutTypes, SessionsTyped, FetchesTyped, KnownTyped
<1>2. Takeout!Unclean(f) /\ Active(f) /\ pc # "ended" /\ pc' = pc
  <2>1. Takeout!Unclean(f) /\ pc' = pc
    BY DEF Takeout!Cleanup, Takeout!CloseLeft, Takeout!DisconnectWorker, Takeout!ClearClients,
       Takeout!FinishOwn, Takeout!Abort, Takeout!Unclean
  <2> QED
    BY <2>1 DEF Active, AloneInv, EndsClean
<1>3. \A g \in Takeout!Fetches : g # f => fetch[g] # "finishing"
  BY <1>2 DEF AloneInv, OnlyOne, Active, Takeout!Unclean
<1>4. CASE Takeout!CloseLeft(f) \/ Takeout!DisconnectWorker(f)
  <2>1. /\ UNCHANGED <<opened, opener, finisher, takeout_id, _owned_takeout, worker_sessions,
                       session_files>>
        /\ fetch'[f] = "disconnecting"
        /\ \A g \in Takeout!Fetches : g # f => fetch'[g] = fetch[g]
    BY <1>1, <1>4 DEF Takeout!CloseLeft, Takeout!DisconnectWorker
  <2>2. Active(f)'
    BY <2>1 DEF Active, Takeout!Unclean
  <2>3. AllPending'
    BY <1>2, <2>1 DEF AllPending, Pending
  <2> QED
    BY <1>3, <2>1, <2>2, <2>3 DEF FinishesOwn, FilesKnown, FilesRemoved
<1>5. ASSUME takeout_id' = 0, session_files' = session_files \ worker_sessions,
             fetch' = [fetch EXCEPT ![f] = "closed"]
      PROVE  FinishesOwn' /\ FilesKnown' /\ FilesRemoved'
  <2>1. session_files' = {}
    BY <1>5 DEF FilesKnown
  <2>2. \A g \in Takeout!Fetches : fetch'[g] # "finishing"
    BY <1>1, <1>3, <1>5
  <2> QED
    BY <2>1, <2>2 DEF FinishesOwn, FilesKnown, FilesRemoved
<1>6. CASE Takeout!ClearClients(f)
  <2>1. UNCHANGED <<opened, opener, finisher>>
    BY <1>6 DEF Takeout!ClearClients
  <2>2. CASE takeout_id # 0 /\ _owned_takeout
    <3>1. /\ UNCHANGED <<takeout_id, _owned_takeout, worker_sessions, session_files>>
          /\ fetch' = [fetch EXCEPT ![f] = "finishing"]
          /\ closing' = [closing EXCEPT ![f] = takeout_id]
      BY <1>6, <2>2 DEF Takeout!ClearClients
    <3>2. fetch'[f] = "finishing" /\ closing'[f] = takeout_id
          /\ \A g \in Takeout!Fetches : g # f => fetch'[g] = fetch[g]
      BY <1>1, <3>1
    <3>3. Active(f)'
      BY <3>2 DEF Active, Takeout!Unclean
    <3>4. AllPending'
      BY <1>2, <2>1, <3>1 DEF AllPending, Pending
    <3>5. FinishesOwn'
      BY <1>3, <2>2, <3>1, <3>2 DEF FinishesOwn
    <3> QED
      BY <3>1, <3>3, <3>4, <3>5 DEF FilesKnown, FilesRemoved
  <2>3. CASE ~(takeout_id # 0 /\ _owned_takeout)
    <3>1. /\ takeout_id' = 0 /\ session_files' = session_files \ worker_sessions
          /\ fetch' = [fetch EXCEPT ![f] = "closed"]
      BY <1>6, <2>3 DEF Takeout!ClearClients, Takeout!Forget
    <3>2. AllPending'
      BY <1>2, <2>1, <2>3 DEF AllPending, Pending
    <3> QED
      BY <1>5, <3>1, <3>2
  <2> QED
    BY <2>2, <2>3
<1>7. CASE Takeout!FinishOwn(f)
  <2>1. /\ fetch[f] = "finishing" /\ Takeout!Finishes("shards", closing[f])
        /\ takeout_id' = 0 /\ session_files' = session_files \ worker_sessions
        /\ fetch' = [fetch EXCEPT ![f] = "closed"]
    BY <1>7 DEF Takeout!FinishOwn, Takeout!Forget
  <2>2. closing[f] = takeout_id /\ closing[f] \in Takeout!Ids /\ "shards" \in Askers
    BY <1>1, <2>1 DEF FinishesOwn, TakeoutCore, OwnedInv, OwnedByFetches, Askers
  <2>3. /\ finisher'[takeout_id] = "shards" /\ UNCHANGED <<opened, opener>>
        /\ \A u \in Takeout!Ids : u # takeout_id => finisher'[u] = finisher[u]
    BY <1>2, <2>1, <2>2, FinishWorks
  <2>4. ASSUME NEW s \in 1 .. opened, finisher'[s] = "nobody" PROVE Pending(s)'
    <3>1. s # takeout_id /\ finisher[s] = "nobody"
      BY <1>1, <2>3, <2>4
    <3>2. Pending(s)
      BY <3>1 DEF AllPending
    <3> QED
      BY <1>2, <2>3, <3>1, <3>2 DEF Pending
  <2> QED
    BY <1>5, <2>1, <2>3, <2>4 DEF AllPending
<1>8. ~Takeout!Abort(f)
  BY <1>2 DEF Takeout!Abort
<1> QED
  BY <1>4, <1>6, <1>7, <1>8 DEF Takeout!Cleanup

LEMMA QuietStays ==
  ASSUME TakeoutCore, AloneInv, QuietInv, [Takeout!Next]_takeoutVars
  PROVE  QuietInv'
<1> SUFFICES ASSUME ~overlap', breaks' = 0
             PROVE  AllPending' /\ FinishesOwn' /\ FilesKnown' /\ FilesRemoved'
  BY DEF QuietInv
<1>1. ~overlap /\ breaks = 0 /\ ~Takeout!Fault
  BY QuietBefore
<1>2. AllPending /\ FinishesOwn /\ FilesKnown /\ FilesRemoved
  BY <1>1 DEF QuietInv
<1>3. CASE UNCHANGED takeoutVars
  BY <1>2, <1>3 DEF takeoutVars, AllPending, Pending, FinishesOwn, FilesKnown, FilesRemoved,
     Active, Takeout!Inside, Takeout!Unclean
<1> QED
  BY <1>1, <1>2, <1>3, QuietMain, QuietFetch, QuietCleanup, TakeoutParts

\* At the end of the program no session is open, no worker connected and no copy
\* of the user's session file left, unless something failed or a cleanup was not
\* over in time (_cleanup_sharding, TakeoutSessionWrapper.__aexit__).
THEOREM NothingStaysBehind == ProgramSpec => []NothingLeftBehind
<1>1. ProgramInit => QuietInv
  BY QuietStarts DEF ProgramInit
<1>2. TakeoutCore /\ AloneInv /\ QuietInv
        /\ [ProgramNext]_<<which, vars, takeoutVars, lifeVars>> => QuietInv'
  BY TakeoutSteps, QuietStays
<1>3. TakeoutCore /\ AloneInv /\ QuietInv => NothingLeftBehind
  <2> SUFFICES ASSUME TakeoutCore, AloneInv, QuietInv, Takeout!Ended, breaks = 0, ~overlap
               PROVE  /\ \A s \in 1 .. opened : finisher[s] # "nobody"
                      /\ connected = {} /\ session_files = {}
    BY DEF NothingLeftBehind, Takeout!NothingLeftBehind
  <2>1. pc = "ended" /\ \A f \in Takeout!Fetches : ~Active(f)
    BY DEF Takeout!Ended, AloneInv, EndsClean
  <2>2. takeout_id = 0 /\ connected = {}
    BY <2>1 DEF AloneInv, NoneLeft
  <2>3. AllPending /\ session_files = {}
    BY <2>1 DEF QuietInv, FilesRemoved
  <2>4. \A s \in 1 .. opened : ~Pending(s)
    BY <2>1, <2>2 DEF Pending, TakeoutCore, TakeoutTypes, SessionsTyped
  <2> QED
    BY <2>2, <2>3, <2>4 DEF AllPending
<1> QED
  BY <1>1, <1>2, <1>3, AloneHolds, PTL DEF ProgramSpec
=============================================================================
