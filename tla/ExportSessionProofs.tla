------------------------- MODULE ExportSessionProofs --------------------------
(***************************************************************************)
(* Proofs about an export.                                                 *)
(*                                                                         *)
(* ExportSession, for any targets, histories, batch sizes and numbers of   *)
(* runs and failures: what is in the chat files, what is reported of them, *)
(* that a finished copy of a chat stays, and that the progress of a run is *)
(* saved.                                                                  *)
(* ForumTopics (with MCExport): which of the chosen topics an export       *)
(* visits.                                                                 *)
(***************************************************************************)
EXTENDS MCExport, SequenceLemmas, FiniteSetTheorems

Writing == {"fetch", "process", "after", "rest"}
Closing == {"remove", "rename", "count", "counted", "finish"}
Working == {"target", "open", "abort", "failed"} \cup Writing \cup Closing
AtEnd   == {"end", "hooked", "unhooked", "drained", "stopped"}

\* Where the file is being written, and where there is a temporary file.
Inside   == Writing \cup {"abort"}
Keeping == Inside \cup {"remove", "rename", "counted"}

FileSet == [msgs : Seq(Nat), failed : Nat, cut : BOOLEAN]
Stored  == [final : FileSet \cup {None}, tmp : FileSet \cup {None}]
Entries == Nat \cup {NoEntity}

\* What has been formatted of ids, and of the first n messages of history h.
GoodOf(h, ids) == Select(ids, {i \in DOMAIN h : h[i] = "good"})
Formatted(h, n) == GoodOf(h, Upto(n))

\* What FinalIsExact asks of a file: the first n messages, after which a batch may
\* come again where the loop can repeat it, or those that failed writes have left of
\* them; n is all of h unless the file was cut short.
Whole(h, loop, ids, cut, n) ==
  \/ ids = Formatted(h, n)
  \/ /\ cut /\ loop = "batch" /\ n >= batch_size /\ n % batch_size = 0
     /\ ids = Formatted(h, n)
              \o GoodOf(h, [i \in 1 .. batch_size |-> n - batch_size + i])

Holed(h, loop, ids, failed, n) ==
  /\ loop = "pipeline"
  /\ \A i, j \in DOMAIN ids : i < j => ids[i] < ids[j]
  /\ \A i \in Range(ids) : i \in 1 .. n /\ h[i] = "good"
  /\ Len(ids) + failed * buffer_size >= Len(Formatted(h, n))

Shown(h, loop, ids, failed, cut) ==
  \E n \in 0 .. Len(h) :
    /\ cut \/ n = Len(h)
    /\ IF failed = 0 THEN Whole(h, loop, ids, cut, n)
                     ELSE Holed(h, loop, ids, failed, n)

\* How far the number of messages counted is from the k that are in the file.
Off(n, k, failed) ==
  k <= n + failed /\ n <= k + failed * (buffer_size - 1)

Loop    == mode.regular
History == history[File_]
Tmp     == disk[File_].tmp
Final   == disk[File_].final
Kept    == Tmp.msgs \o buffer

Recorded ==
  /\ last \in [TargetIds -> Entries] /\ pending \in [TargetIds -> Entries]
  /\ cached \in [TargetIds -> Entries] /\ saved \in [TargetIds -> Entries]

(* Types, and where the run may be.                                        *)
Places ==
  /\ mode \in Modes /\ history \in [Files -> Contents]
  /\ pc \in PCs /\ runs \in 1 .. MaxRuns /\ faults \in 0 .. MaxFaults
  /\ t \in 1 .. (Len(Targets) + 1) /\ c \in Nat \ {0}
  /\ messages \in Nat /\ results \in Seq(Nat) /\ Len(results) = t - 1
  /\ Recorded
  /\ shutdown_requested \in BOOLEAN
  /\ hooks \subseteq TargetIds /\ \A x \in hooks : x <= t /\ ~Targets[x].forum
  /\ pc \in Working => t \in TargetIds /\ c \in DOMAIN Targets[t].chats
  /\ pc \in AtEnd => t = Len(Targets) + 1
  /\ pc \in {"count", "counted", "finish"} => Regular

Contained ==
  /\ disk \in [Files -> Stored]
  /\ next \in Nat \ {0} /\ timed \in BOOLEAN
  /\ batch \in Seq(Nat) /\ written \in Seq(Nat)
  /\ buffer \in Seq(Nat) /\ Len(buffer) < buffer_size
  /\ pc \in Keeping => Tmp \in FileSet
  /\ pc \in {"count", "counted", "finish"} => Final \in FileSet

(* The batch in the making is the last of the messages the source has      *)
(* yielded; all before it are written, but for what failed writes of the   *)
(* pipeline have lost.                                                     *)
Batched ==
  LET done == next - 1 - Len(batch)
  IN  /\ ~Tmp.cut /\ done \in Nat /\ next - 1 <= Len(History)
      /\ batch = [i \in 1 .. Len(batch) |-> done + i]
      /\ IF pc = "fetch" THEN Len(batch) < BatchSize ELSE Len(batch) = BatchSize
      /\ Mode = "batch" => done % batch_size = 0
      /\ Tmp.failed # 0 => Mode = "pipeline"
      /\ Tmp.failed = 0 =>
           IF pc = "after" THEN Kept = Formatted(History, next - 1)
           ELSE /\ Kept = Formatted(History, done)
                /\ Kept \o GoodOf(History, batch) = Formatted(History, next - 1)
      /\ Mode = "pipeline" =>
           Holed(History, Loop, Kept, Tmp.failed,
                 IF pc = "after" THEN next - 1 ELSE done)

(* A file that is about to get its name, or has it, shows its history.     *)
Body ==
  /\ pc \in {"fetch", "process", "after"} => Batched
  /\ pc = "rest" => Shown(History, Loop, Kept \o GoodOf(History, batch),
                          Tmp.failed, Tmp.cut \/ shutdown_requested)
  /\ pc \in {"remove", "rename", "counted"} =>
       Shown(History, Loop, Tmp.msgs, Tmp.failed, Tmp.cut)

FilesExact ==
  \A f \in Files :
    disk[f].final # None =>
      Shown(history[f], Loop, disk[f].final.msgs, disk[f].final.failed,
            disk[f].final.cut)

ContentInv == Contained /\ Body /\ FilesExact

(* The statistics of a regular target are those of its file, give or take  *)
(* what failed writes of the pipeline have lost.                           *)
Tally ==
  pc \in Working /\ Regular =>
    /\ pc = "open" => messages = 0
    /\ pc \in Writing =>
         Off(messages, Len(Tmp.msgs) + Len(buffer), Tmp.failed)
    /\ pc \in {"remove", "rename", "counted"} => Near(messages, Tmp)
    /\ pc \in {"count", "counted", "finish"} => Near(messages, Final)

(* A finished target's progress is in the cache, and nothing older of it   *)
(* is queued.                                                              *)
Progress ==
  /\ \A x \in hooks : x < t /\ results[x] > 0 =>
       cached[x] = last[x] /\ pending[x] = NoEntity
  /\ pc \in {"hooked", "drained"} => \A x \in hooks : cached[x] = last[x]
  /\ pc \in {"drained", "stopped"} => saved = cached

-----------------------------------------------------------------------------
(* The constants                                                           *)

LEMMA Sizes ==
  /\ batch_size \in Nat \ {0} /\ buffer_size \in Nat \ {0}
  /\ SaveEvery \in Nat \ {0} /\ cache_batch_size \in Nat \ {0}
  /\ MaxRuns \in Nat \ {0} /\ MaxFaults \in Nat
  BY SessionAssumption

LEMMA TargetTypes ==
  /\ Len(Targets) \in Nat \ {0} /\ TargetIds = 1 .. Len(Targets)
  /\ \A x \in TargetIds :
       /\ Targets[x].forum \in BOOLEAN /\ Targets[x].chats \in Seq(Files)
       /\ Len(Targets[x].chats) \in Nat \ {0}
       /\ DOMAIN Targets[x].chats = 1 .. Len(Targets[x].chats)
       /\ \A i \in DOMAIN Targets[x].chats : Targets[x].chats[i] \in Files
<1>1. /\ Targets \in Seq([forum : BOOLEAN, chats : Seq(Files)]) /\ Targets # <<>>
      /\ \A x \in TargetIds : Targets[x].chats # <<>>
  BY SessionAssumption
<1>2. Len(Targets) \in Nat \ {0} /\ TargetIds = 1 .. Len(Targets)
  BY <1>1 DEF TargetIds
<1>3. ASSUME NEW x \in TargetIds
      PROVE  Targets[x].forum \in BOOLEAN /\ Targets[x].chats \in Seq(Files)
  <2>1. Targets[x] \in [forum : BOOLEAN, chats : Seq(Files)]
    BY <1>1, <1>2, ElementOfSeq
  <2> QED
    BY <2>1
<1>4. ASSUME NEW q \in Seq(Files), q # <<>>
      PROVE  /\ Len(q) \in Nat \ {0} /\ DOMAIN q = 1 .. Len(q)
             /\ \A i \in DOMAIN q : q[i] \in Files
  BY <1>4
<1> QED
  BY <1>1, <1>2, <1>3, <1>4

LEMMA HistoryTypes ==
  ASSUME Places, NEW f \in Files
  PROVE  Len(history[f]) \in Nat /\ DOMAIN history[f] = 1 .. Len(history[f])
<1>1. history[f] \in Seq({"good", "bad", "empty"})
  BY SessionAssumption DEF Places
<1> QED
  BY <1>1

LEMMA ModeTypes ==
  ASSUME Places
  PROVE  /\ mode.topic \in {"prefetch", "batch"}
         /\ mode.regular \in {"pipeline", mode.topic}
  BY SessionAssumption DEF Places

LEMMA FileInHand ==
  ASSUME Places, pc \in Working
  PROVE  /\ t \in TargetIds /\ File_ \in Files
         /\ Regular \in BOOLEAN /\ Regular = ~Targets[t].forum
  BY TargetTypes DEF Places, File_, Regular

-----------------------------------------------------------------------------
(* Places                                                                  *)

LEMMA InitPlaces == Init => Places
<1> SUFFICES ASSUME Init PROVE Places
  OBVIOUS
<1>1. /\ t \in 1 .. (Len(Targets) + 1) /\ t \in TargetIds
      /\ c \in DOMAIN Targets[t].chats
  BY TargetTypes DEF Init
<1>2. Recorded
  BY DEF Init, Entries, Recorded
<1>3. results \in Seq(Nat) /\ Len(results) = t - 1 /\ messages \in Nat
  BY DEF Init
<1>4. runs \in 1 .. MaxRuns /\ faults \in 0 .. MaxFaults
  BY Sizes DEF Init
<1>5. pc = "target" /\ pc \in PCs /\ pc \notin AtEnd
  BY DEF Init, PCs, AtEnd
<1>6. c \in Nat \ {0} /\ hooks = {}
  BY DEF Init
<1>7. shutdown_requested \in BOOLEAN
  BY Zenon DEF Init
<1>8. mode \in Modes /\ history \in [Files -> Contents]
  BY Zenon DEF Init
<1> QED
  BY <1>1, <1>2, <1>3, <1>4, <1>5, <1>6, <1>7, <1>8 DEF Places

\* How export_all goes on to the next target.
LEMMA NextTargetPlaces ==
  ASSUME Places, pc \in Working, NEW n \in Nat, NextTarget(n)
  PROVE  /\ t' \in 1 .. (Len(Targets) + 1) /\ c' \in Nat \ {0} /\ t' = t + 1
         /\ results' \in Seq(Nat) /\ Len(results') = t' - 1
         /\ pc' \in PCs /\ pc' \in {"target", "end"}
         /\ pc' = "target" => t' \in TargetIds /\ c' \in DOMAIN Targets[t'].chats
         /\ pc' = "end" => t' = Len(Targets) + 1
<1>1. t \in TargetIds /\ t' = t + 1 /\ c' = 1
  BY FileInHand DEF NextTarget
<1>2. results' \in Seq(Nat) /\ Len(results') = Len(results) + 1
  BY DEF NextTarget, Places
<1>3. t \in 1 .. Len(Targets) /\ Len(Targets) \in Nat \ {0}
  BY <1>1, TargetTypes
<1>4. t' \in 1 .. (Len(Targets) + 1) /\ c' \in Nat \ {0}
  BY <1>1, <1>3
<1>5. Len(results') = t' - 1
  BY <1>1, <1>2, <1>3 DEF Places
<1>6. pc' \in PCs /\ pc' \in {"target", "end"}
  BY DEF NextTarget, PCs
<1>7. ASSUME pc' = "target" PROVE t' \in TargetIds /\ c' \in DOMAIN Targets[t'].chats
  <2>1. t # Len(Targets)
    BY <1>7 DEF NextTarget
  <2>2. t' \in TargetIds
    BY <1>1, <1>3, <2>1, TargetTypes
  <2>3. DOMAIN Targets[t'].chats = 1 .. Len(Targets[t'].chats)
        /\ Len(Targets[t'].chats) \in Nat \ {0}
    BY <2>2, TargetTypes
  <2> QED
    BY <1>1, <2>2, <2>3
<1>8. pc' = "end" => t' = Len(Targets) + 1
  BY <1>1 DEF NextTarget
<1> QED
  BY <1>1, <1>2, <1>4, <1>5, <1>6, <1>7, <1>8

\* A step from one place in a target to another one.
LEMMA StayPlaces ==
  ASSUME Places, pc \in Working, pc' \in Working, UNCHANGED <<config, t, c, results>>,
         runs' \in 1 .. MaxRuns, faults' \in 0 .. MaxFaults, messages' \in Nat,
         shutdown_requested' \in BOOLEAN,
         Recorded',
         hooks' \subseteq hooks \cup {t}, ~Regular => hooks' = hooks,
         pc' \in {"count", "counted", "finish"} => Regular
  PROVE  Places'
<1>1. Regular' = Regular
  BY DEF Regular
<1>2. t \in TargetIds /\ t <= t /\ Regular = ~Targets[t].forum
  BY FileInHand DEF Places
<1>3. hooks' \subseteq TargetIds /\ \A x \in hooks' : x <= t /\ ~Targets[x].forum
  BY <1>2 DEF Places
<1>4. pc' \in PCs /\ pc' \notin AtEnd
  BY DEF Working, Writing, Closing, PCs, AtEnd
<1> QED
  BY <1>1, <1>3, <1>4 DEF Places, config

\* A step with which the target ends.
LEMMA LeavePlaces ==
  ASSUME Places, pc \in Working, NEW n \in Nat, NextTarget(n),
         UNCHANGED <<config, runs, hooks, shutdown_requested>>,
         faults' \in 0 .. MaxFaults, messages' \in Nat,
         Recorded'
  PROVE  Places'
<1>1. \A x \in hooks : x <= t'
  <2>1. t' = t + 1 /\ t \in Nat
    BY NextTargetPlaces, TargetTypes DEF Places
  <2>2. \A x \in hooks : x \in Nat /\ x <= t
    BY TargetTypes DEF Places
  <2> QED
    BY <2>1, <2>2
<1>2. pc' \in AtEnd => pc' = "end"
  BY NextTargetPlaces DEF AtEnd
<1>3. pc' \notin {"count", "counted", "finish"}
  BY NextTargetPlaces
<1> QED
  BY <1>1, <1>2, <1>3, NextTargetPlaces DEF Places, Working, Writing, Closing, config

\* A step after the targets, or the one that kills the run.
LEMMA EndPlaces ==
  ASSUME Places, UNCHANGED <<config, runs, t, c, messages, results, hooks>>,
         (pc' \in AtEnd /\ pc \in AtEnd) \/ pc' = "dead",
         faults' \in 0 .. MaxFaults, shutdown_requested' \in BOOLEAN, Recorded'
  PROVE  Places'
<1>1. pc' \in PCs /\ pc' \notin Working /\ pc' \notin {"count", "counted", "finish"}
  BY DEF PCs, Ended, AtEnd, Working, Writing, Closing
<1>2. pc' \in AtEnd => t' = Len(Targets) + 1
  BY DEF Places, AtEnd
<1> QED
  BY <1>1, <1>2 DEF Places, config

LEMMA FaultPlaces == ASSUME Places, Fault PROVE faults' \in 0 .. MaxFaults
  BY Sizes DEF Places, Fault

\* What a list of ids leaves as the last one.
LEMMA LastEntry ==
  ASSUME NEW ids \in Seq(Nat), ids # <<>> PROVE Last(ids) \in Entries
  BY DEF Last, Entries

LEMMA EntryChange ==
  ASSUME NEW g \in [TargetIds -> Entries], NEW x \in TargetIds, NEW e \in Entries
  PROVE  [g EXCEPT ![x] = e] \in [TargetIds -> Entries]
  OBVIOUS

LEMMA FlushedType ==
  ASSUME Recorded, NEW p \in [TargetIds -> Entries]
  PROVE  Flushed(p) \in [TargetIds -> Entries]
  BY DEF Recorded, Flushed

LEMMA GoodType ==
  ASSUME NEW f, NEW ids \in Seq(Nat) PROVE Good(f, ids) \in Seq(Nat)
  BY SelectType DEF Good

-----------------------------------------------------------------------------
(* What the steps do to the files                                          *)

\* Afterwards x is under the name of f and y in its temporary file.
OnDisk(f, x, y) ==
  /\ disk' \in [Files -> Stored]
  /\ disk'[f].final = x /\ disk'[f].tmp = y
  /\ \A g \in Files : g # f => disk'[g] = disk[g]

LEMMA FileApart ==
  /\ None \notin FileSet
  /\ \A msgs \in Seq(Nat), failed \in Nat, cut \in BOOLEAN :
       /\ File(msgs, failed, cut) \in FileSet
       /\ File(msgs, failed, cut).msgs = msgs
       /\ File(msgs, failed, cut).failed = failed
       /\ File(msgs, failed, cut).cut = cut
  BY DEF None, FileSet, File

LEMMA FileParts ==
  ASSUME NEW x \in FileSet
  PROVE  x.msgs \in Seq(Nat) /\ x.failed \in Nat /\ x.cut \in BOOLEAN
  BY DEF FileSet

LEMMA FileChange ==
  ASSUME NEW x \in FileSet
  PROVE  /\ \A msgs \in Seq(Nat) :
              /\ [x EXCEPT !.msgs = msgs] = File(msgs, x.failed, x.cut)
              /\ File(msgs, x.failed, x.cut) \in FileSet
              /\ File(msgs, x.failed + 1, x.cut) \in FileSet
         /\ [x EXCEPT !.cut = TRUE] = File(x.msgs, x.failed, TRUE)
         /\ File(x.msgs, x.failed, TRUE) \in FileSet
<1>1. PICK m \in Seq(Nat), d \in Nat, e \in BOOLEAN :
        x = [msgs |-> m, failed |-> d, cut |-> e]
  BY DEF FileSet
<1>2. x.msgs = m /\ x.failed = d /\ x.cut = e
  BY <1>1
<1>3. ASSUME NEW msgs \in Seq(Nat)
      PROVE  [x EXCEPT !.msgs = msgs] = File(msgs, d, e)
  <2>1. [[msgs |-> m, failed |-> d, cut |-> e] EXCEPT !.msgs = msgs] = File(msgs, d, e)
    BY DEF File
  <2> QED
    BY <1>1, <2>1, Zenon
<1>4. ASSUME NEW b \in BOOLEAN
      PROVE  [x EXCEPT !.cut = b] = File(m, d, b)
  BY <1>1 DEF File
<1>5. [x EXCEPT !.cut = TRUE] = File(m, d, TRUE)
  BY <1>4, Zenon
<1>6. /\ \A msgs \in Seq(Nat) : File(msgs, d, e) \in FileSet
      /\ \A msgs \in Seq(Nat) : File(msgs, d + 1, e) \in FileSet
      /\ File(m, d, TRUE) \in FileSet
  BY DEF File, FileSet
<1> QED
  BY <1>2, <1>3, <1>5, <1>6

LEMMA Replaced ==
  ASSUME disk \in [Files -> Stored], NEW f \in Files,
         NEW x \in FileSet \cup {None}, NEW y \in FileSet \cup {None},
         disk' = [disk EXCEPT ![f] = [final |-> x, tmp |-> y]]
  PROVE  OnDisk(f, x, y)
  BY DEF OnDisk, Stored

LEMMA TmpReplaced ==
  ASSUME disk \in [Files -> Stored], NEW f \in Files, NEW y \in FileSet \cup {None},
         disk' = [disk EXCEPT ![f].tmp = y]
  PROVE  OnDisk(f, disk[f].final, y)
  BY DEF OnDisk, Stored

LEMMA MoreWritten ==
  ASSUME disk \in [Files -> Stored], NEW f \in Files, disk[f].tmp \in FileSet,
         NEW ids \in Seq(Nat), disk' = [disk EXCEPT ![f].tmp.msgs = @ \o ids]
  PROVE  LET x == disk[f].tmp
         IN  OnDisk(f, disk[f].final, File(x.msgs \o ids, x.failed, x.cut))
<1> DEFINE x == disk[f].tmp
           y == File(x.msgs \o ids, x.failed, x.cut)
<1>1. x.msgs \o ids \in Seq(Nat)
  BY FileParts
<1>2. y \in FileSet /\ [x EXCEPT !.msgs = x.msgs \o ids] = y
  BY <1>1, FileChange
<1>3. disk' = [disk EXCEPT ![f].tmp = y]
  <2>1. disk' = [disk EXCEPT ![f].tmp = [x EXCEPT !.msgs = x.msgs \o ids]]
    OBVIOUS
  <2> HIDE DEF x, y
  <2> QED
    BY <1>2, <2>1
<1> QED
  BY <1>2, <1>3, TmpReplaced

\* The buffer goes to the file in multiples of its size; none is lost.
LEMMA Division ==
  ASSUME NEW n \in Nat
  PROVE  LET k == (n \div buffer_size) * buffer_size
         IN  k \in 0 .. n /\ n - k < buffer_size
  BY Sizes

LEMMA CutInTwo ==
  ASSUME NEW q \in Seq(Nat), NEW k \in 0 .. Len(q)
  PROVE  /\ SubSeq(q, 1, k) \in Seq(Nat) /\ SubSeq(q, k + 1, Len(q)) \in Seq(Nat)
         /\ SubSeq(q, 1, k) \o SubSeq(q, k + 1, Len(q)) = q
<1> DEFINE a == SubSeq(q, 1, k)
           b == SubSeq(q, k + 1, Len(q))
<1>1. /\ a \in Seq(Nat) /\ b \in Seq(Nat) /\ Len(q) \in Nat /\ k \in Nat
      /\ Len(a) = k /\ Len(b) = Len(q) - k
      /\ \A i \in 1 .. k : a[i] = q[i]
      /\ \A i \in 1 .. (Len(q) - k) : b[i] = q[k + i]
  OBVIOUS
<1> HIDE DEF a, b
<1>2. /\ a \o b \in Seq(Nat) /\ Len(a \o b) = k + (Len(q) - k)
      /\ k + (Len(q) - k) = Len(q)
      /\ \A i \in 1 .. Len(q) :
           (a \o b)[i] = IF i <= k THEN a[i] ELSE b[i - k]
  <2>1. /\ a \o b \in Seq(Nat) /\ Len(a \o b) = Len(a) + Len(b)
        /\ \A i \in 1 .. Len(a) + Len(b) :
             (a \o b)[i] = IF i <= Len(a) THEN a[i] ELSE b[i - Len(a)]
    BY <1>1, ConcatProperties
  <2>2. k + (Len(q) - k) = Len(q)
    BY <1>1
  <2> QED
    BY <1>1, <2>1, <2>2
<1>3. ASSUME NEW i \in 1 .. Len(q) PROVE (a \o b)[i] = q[i]
  <2>1. CASE i <= k
    BY <1>1, <1>2, <2>1
  <2>2. CASE ~(i <= k)
    <3>1. (a \o b)[i] = b[i - k] /\ i - k \in 1 .. (Len(q) - k) /\ k + (i - k) = i
      BY <1>1, <1>2, <2>2
    <3> QED
      BY <1>1, <3>1
  <2> QED
    BY <2>1, <2>2
<1>4. a \o b = q
  BY <1>2, <1>3, SeqEqual
<1> QED
  BY <1>1, <1>4 DEF a, b

\* What is counted of ids.
Counted(ids) ==
  /\ written' \in Seq(Nat) /\ messages' = messages + Len(ids) /\ messages' \in Nat
  /\ last' \in [TargetIds -> Entries] /\ \A x \in TargetIds : x # t => last'[x] = last[x]

LEMMA CountsEffect ==
  ASSUME Places, Contained, pc \in Writing, NEW ids \in Seq(Nat), Counts(ids)
  PROVE  Counted(ids)
<1>1. written' \in Seq(Nat)
  BY DEF Counts, Contained
<1>2. messages' = messages + Len(ids) /\ messages' \in Nat
  BY DEF Counts, Places
<1>3. /\ last' \in [TargetIds -> Entries]
      /\ \A x \in TargetIds : x # t => last'[x] = last[x]
  <2>1. last' = last \/ (ids # <<>> /\ last' = [last EXCEPT ![t] = Last(ids)])
    BY DEF Counts
  <2>2. last \in [TargetIds -> Entries]
    BY DEF Places, Recorded
  <2>3. t \in TargetIds
    BY FileInHand DEF Working
  <2> QED
    BY <2>1, <2>2, <2>3, LastEntry, EntryChange
<1> QED
  BY <1>1, <1>2, <1>3 DEF Counted

LEMMA WriteAllEffect ==
  ASSUME Places, Contained, pc \in Writing, NEW ids \in Seq(Nat), WriteAll(ids)
  PROVE  /\ \E out \in Seq(Nat) :
              /\ OnDisk(File_, Final, File(Tmp.msgs \o out, Tmp.failed, Tmp.cut))
              /\ out \o buffer' = buffer \o ids
         /\ buffer' \in Seq(Nat) /\ Len(buffer') < buffer_size
         /\ Counted(ids)
<1> DEFINE all == buffer \o ids
           k == (Len(all) \div buffer_size) * buffer_size
<1>1. all \in Seq(Nat) /\ Len(all) \in Nat
  BY DEF Contained
<1>2. k \in 0 .. Len(all) /\ Len(all) - k < buffer_size
  BY <1>1, Division
<1>3. /\ disk' = [disk EXCEPT ![File_].tmp.msgs = @ \o SubSeq(all, 1, k)]
      /\ buffer' = SubSeq(all, k + 1, Len(all)) /\ Counts(ids)
  BY DEF WriteAll
<1>4. File_ \in Files /\ t \in TargetIds
  BY FileInHand DEF Working
<1> HIDE DEF k
<1>5. /\ SubSeq(all, 1, k) \in Seq(Nat) /\ buffer' \in Seq(Nat)
      /\ SubSeq(all, 1, k) \o buffer' = all
  BY <1>1, <1>2, <1>3, CutInTwo
<1>6. Len(buffer') < buffer_size
  <2> HIDE DEF all
  <2>1. Len(SubSeq(all, k + 1, Len(all))) = Len(all) - k
    BY <1>1, <1>2
  <2> QED
    BY <1>2, <1>3, <2>1
<1>7. OnDisk(File_, Final, File(Tmp.msgs \o SubSeq(all, 1, k), Tmp.failed, Tmp.cut))
  BY <1>3, <1>4, <1>5, MoreWritten DEF Contained, Tmp, Final, Keeping, Inside
<1> QED
  BY <1>3, <1>5, <1>6, <1>7, CountsEffect

LEMMA ProcessEffect ==
  ASSUME Places, Contained, Process
  PROVE  /\ pc = "process"
         /\ \/ pc' = "after" /\ WriteAll(Good(File_, batch)) /\ timed' \in BOOLEAN
            \/ /\ pc' = "abort" /\ Mode = "batch" /\ Regular
               /\ UNCHANGED <<disk, buffer, written, messages, last, timed>>
         /\ UNCHANGED <<config, saved, cached, runs, faults, t, c, next, batch,
                        pending, results, hooks, shutdown_requested>>
<1>1. CASE ProcessBatch
  BY <1>1 DEF ProcessBatch, Contained
<1>2. CASE RegularBatch
  <2>1. timed \in BOOLEAN /\ Some(File_, batch) \in BOOLEAN
    BY DEF Contained, Some
  <2> QED
    BY <1>2, <2>1 DEF RegularBatch
<1> QED
  BY <1>1, <1>2 DEF Process, PipelineMessage, PrefetchedBatch,
     PrefetchedTopicBatch, TopicBatch

LEMMA RestEffect ==
  ASSUME Places, Contained, Rest
  PROVE  LET ids == Good(File_, batch)
             y   == File(Kept \o ids, Tmp.failed, Tmp.cut \/ shutdown_requested)
         IN  /\ pc = "rest" /\ LeaveSaver(ids) /\ ids \in Seq(Nat)
             /\ y \in FileSet /\ OnDisk(File_, Final, y)
             /\ Counted(ids)
<1> DEFINE ids == Good(File_, batch)
           y   == File(Kept \o ids, Tmp.failed, Tmp.cut \/ shutdown_requested)
<1>1. pc = "rest" /\ LeaveSaver(ids)
  BY DEF Rest, RegularRest, TopicRest, LastBatch
<1>2. ids \in Seq(Nat)
  BY GoodType DEF Contained
<1>3. File_ \in Files
  BY <1>1, FileInHand DEF Working, Writing
<1> HIDE DEF ids
<1>4. Tmp \in FileSet
  BY <1>1 DEF Contained, Keeping, Inside, Writing
<1>5. y \in FileSet
  <2>1. Tmp.msgs \in Seq(Nat) /\ buffer \in Seq(Nat) /\ Tmp.failed \in Nat
    BY <1>4, FileParts DEF Contained
  <2>2. Kept \o ids \in Seq(Nat)
    BY <1>2, <2>1, ConcatProperties DEF Kept
  <2>3. (Tmp.cut \/ shutdown_requested) \in BOOLEAN
    OBVIOUS
  <2> QED
    BY <2>1, <2>2, <2>3, FileApart
<1>6. OnDisk(File_, Final, y)
  <2>1. disk' = [disk EXCEPT ![File_].tmp = y]
    BY <1>1 DEF LeaveSaver, Tmp, Kept
  <2> HIDE DEF y
  <2> QED
    BY <1>3, <1>5, <2>1, TmpReplaced DEF Contained, Final
<1>7. Counted(ids)
  BY <1>1, <1>2, CountsEffect DEF LeaveSaver, Writing
<1> QED
  BY <1>1, <1>2, <1>5, <1>6, <1>7 DEF ids

\* A part of a buffer goes to the file and the rest of it is lost.
LEMMA PartWritten ==
  ASSUME disk \in [Files -> Stored], NEW f \in Files, disk[f].tmp \in FileSet,
         NEW all \in Seq(Nat), NEW n \in 0 .. Len(all),
         disk' = [disk EXCEPT ![f].tmp =
                    File(@.msgs \o SubSeq(all, 1, n), @.failed + 1, @.cut)]
  PROVE  LET x == disk[f].tmp
             y == File(x.msgs \o SubSeq(all, 1, n), x.failed + 1, x.cut)
         IN  y \in FileSet /\ OnDisk(f, disk[f].final, y)
<1> DEFINE x == disk[f].tmp
           y == File(x.msgs \o SubSeq(all, 1, n), x.failed + 1, x.cut)
<1>1. x.msgs \in Seq(Nat) /\ SubSeq(all, 1, n) \in Seq(Nat)
  BY CutInTwo, FileParts
<1>2. x.msgs \o SubSeq(all, 1, n) \in Seq(Nat)
  BY <1>1, ConcatProperties
<1>3. y \in FileSet
  BY <1>2, FileChange
<1>4. disk' = [disk EXCEPT ![f].tmp = y]
  OBVIOUS
<1> HIDE DEF y
<1> QED
  BY <1>3, <1>4, TmpReplaced DEF y

LEMMA Multiple ==
  ASSUME NEW n \in Nat \ {0}, n % buffer_size = 0
  PROVE  n >= buffer_size /\ (n <= buffer_size => n = buffer_size)
<1>1. buffer_size \in Nat \ {0}
  BY Sizes
<1>2. n < buffer_size => n % buffer_size = n
  BY <1>1
<1> QED
  BY <1>1, <1>2

\* The write of ids[i] fails.
LEMMA WriteFailsEffect ==
  ASSUME Places, Contained, pc \in Writing, NEW ids \in Seq(Nat),
         NEW i \in DOMAIN ids, WriteFails(ids, i)
  PROVE  /\ Len(buffer) + i >= buffer_size
         /\ i = 1 => Len(buffer) + 1 = buffer_size
         /\ \E n \in 0 .. Len(buffer) + i :
              LET y == File(Tmp.msgs \o SubSeq(buffer \o ids, 1, n), Tmp.failed + 1,
                            Tmp.cut)
              IN  y \in FileSet /\ OnDisk(File_, Final, y)
         /\ buffer' = <<>> /\ Counted(SubSeq(ids, 1, i - 1))
<1> DEFINE all == buffer \o ids
           out == Len(buffer) + i
<1>1. /\ buffer \in Seq(Nat) /\ Len(buffer) \in Nat /\ Len(ids) \in Nat
      /\ i \in 1 .. Len(ids) /\ buffer_size \in Nat \ {0} /\ Len(buffer) < buffer_size
  BY Sizes DEF Contained
<1>2. out \in Nat \ {0}
  BY <1>1
<1>3. all \in Seq(Nat) /\ Len(all) = Len(buffer) + Len(ids)
  BY <1>1, ConcatProperties
<1>4. /\ out % buffer_size = 0 /\ buffer' = <<>> /\ Counts(SubSeq(ids, 1, i - 1))
      /\ \E n \in out - buffer_size .. out :
           disk' = [disk EXCEPT ![File_].tmp =
                      File(@.msgs \o SubSeq(all, 1, n), @.failed + 1, @.cut)]
  BY DEF WriteFails
<1> HIDE DEF all
<1>5. out >= buffer_size /\ (out <= buffer_size => out = buffer_size)
  BY <1>2, <1>4, Multiple
<1>6. PICK n \in out - buffer_size .. out :
           disk' = [disk EXCEPT ![File_].tmp =
                      File(@.msgs \o SubSeq(all, 1, n), @.failed + 1, @.cut)]
  BY <1>4, Zenon
<1>7. n \in 0 .. out /\ n \in 0 .. Len(all)
  BY <1>1, <1>2, <1>3, <1>5
<1>8. File_ \in Files /\ Tmp \in FileSet /\ disk \in [Files -> Stored]
  BY FileInHand DEF Working, Contained, Keeping, Inside
<1>9. LET y == File(Tmp.msgs \o SubSeq(all, 1, n), Tmp.failed + 1, Tmp.cut)
      IN  y \in FileSet /\ OnDisk(File_, Final, y)
  <2>1. /\ disk[File_].tmp \in FileSet /\ disk \in [Files -> Stored] /\ File_ \in Files
        /\ all \in Seq(Nat) /\ n \in 0 .. Len(all)
    BY <1>3, <1>7, <1>8 DEF Tmp
  <2> QED
    BY <1>6, <2>1, PartWritten, Zenon DEF Tmp, Final
<1>10. SubSeq(ids, 1, i - 1) \in Seq(Nat)
  <2>1. i - 1 \in 0 .. Len(ids)
    BY <1>1
  <2> QED
    BY <2>1, CutInTwo
<1>11. Counted(SubSeq(ids, 1, i - 1))
  BY <1>4, <1>10, CountsEffect
<1>12. i = 1 => Len(buffer) + 1 = buffer_size
  BY <1>1, <1>5
<1> QED
  BY <1>4, <1>5, <1>7, <1>9, <1>11, <1>12 DEF all

\* The same of a flush outside write.
LEMMA FlushFailsEffect ==
  ASSUME Places, Contained, pc \in Writing, NEW all \in Seq(Nat), FlushFails(all)
  PROVE  buffer' = <<>> /\ \E y \in FileSet : OnDisk(File_, Final, y)
<1>1. PICK n \in 0 .. Len(all) :
        disk' = [disk EXCEPT ![File_].tmp =
                   File(@.msgs \o SubSeq(all, 1, n), @.failed + 1, @.cut)]
  BY DEF FlushFails
<1>2. File_ \in Files /\ Tmp \in FileSet /\ disk \in [Files -> Stored]
  BY FileInHand DEF Working, Contained, Keeping, Inside
<1> QED
  BY <1>1, <1>2, PartWritten DEF Tmp, Final, FlushFails

\* What the steps with a failing write have in common.
FailingWrite ==
  PipelineWriteFails \/ BatchWriteFails \/ AfterBatchFails \/ LeaveFails

LEMMA FailingWriteEffect ==
  ASSUME Places, Contained, FailingWrite
  PROVE  /\ pc \in Writing /\ pc' \in {"fetch", "abort", "failed"} /\ Fault
         /\ pc' = "fetch" => PipelineWriteFails
         /\ buffer' = <<>> /\ \E y \in FileSet : OnDisk(File_, Final, y)
         /\ batch' \in Seq(Nat) /\ written' \in Seq(Nat) /\ messages' \in Nat
         /\ last' \in [TargetIds -> Entries]
         /\ \A x \in TargetIds : x # t => last'[x] = last[x]
         /\ UNCHANGED <<config, saved, cached, runs, t, c, next, timed, pending,
                        results, hooks, shutdown_requested>>
<1> DEFINE ids == Good(File_, batch)
<1>1. /\ pc \in Writing /\ pc' \in {"fetch", "abort", "failed"} /\ Fault
      /\ pc' = "fetch" => PipelineWriteFails
      /\ batch' = <<>> \/ batch' = batch
  BY DEF FailingWrite, PipelineWriteFails, BatchWriteFails, AfterBatchFails, LeaveFails,
     Writing
<1>2. UNCHANGED <<config, saved, cached, runs, t, c, next, timed, pending, results, hooks,
                  shutdown_requested>>
  BY DEF FailingWrite, PipelineWriteFails, BatchWriteFails, AfterBatchFails, LeaveFails,
     progress
<1>3. \/ \E i \in DOMAIN ids : WriteFails(ids, i)
      \/ UNCHANGED <<written, messages, last>> /\ FlushFails(buffer)
      \/ Counts(ids) /\ FlushFails(buffer \o ids)
  BY DEF FailingWrite, PipelineWriteFails, BatchWriteFails, AfterBatchFails, LeaveFails,
     progress
<1>4. ids \in Seq(Nat) /\ buffer \in Seq(Nat) /\ buffer \o ids \in Seq(Nat)
  <2>1. ids \in Seq(Nat) /\ buffer \in Seq(Nat)
    BY GoodType DEF Contained
  <2> QED
    BY <2>1, ConcatProperties
<1> HIDE DEF ids
<1>5. buffer' = <<>> /\ \E y \in FileSet : OnDisk(File_, Final, y)
  <2>1. ASSUME NEW i \in DOMAIN ids, WriteFails(ids, i)
        PROVE  buffer' = <<>> /\ \E y \in FileSet : OnDisk(File_, Final, y)
    BY <1>1, <1>4, <2>1, WriteFailsEffect
  <2> QED
    BY <1>1, <1>3, <1>4, <2>1, FlushFailsEffect
<1>6. (\E n \in Seq(Nat) : Counted(n)) \/ UNCHANGED <<written, messages, last>>
  <2>1. ASSUME NEW i \in DOMAIN ids, WriteFails(ids, i)
        PROVE  \E n \in Seq(Nat) : Counted(n)
    <3>1. i - 1 \in 0 .. Len(ids)
      BY <1>4
    <3>2. SubSeq(ids, 1, i - 1) \in Seq(Nat)
      BY <1>4, <3>1, CutInTwo
    <3> QED
      BY <1>1, <1>4, <2>1, <3>2, WriteFailsEffect
  <2> QED
    BY <1>1, <1>3, <1>4, <2>1, CountsEffect
<1>7. /\ written' \in Seq(Nat) /\ messages' \in Nat
      /\ last' \in [TargetIds -> Entries]
      /\ \A x \in TargetIds : x # t => last'[x] = last[x]
  <2>1. CASE UNCHANGED <<written, messages, last>>
    BY <2>1 DEF Contained, Places, Recorded
  <2>2. ASSUME NEW n \in Seq(Nat), Counted(n)
        PROVE  /\ written' \in Seq(Nat) /\ messages' \in Nat
               /\ last' \in [TargetIds -> Entries]
               /\ \A x \in TargetIds : x # t => last'[x] = last[x]
    BY <2>2 DEF Counted
  <2> QED
    BY <1>6, <2>1, <2>2
<1>8. batch' \in Seq(Nat)
  <2>1. <<>> \in Seq(Nat) /\ batch \in Seq(Nat)
    BY DEF Contained
  <2> QED
    BY <1>1, <2>1
<1> QED
  BY <1>1, <1>2, <1>5, <1>7, <1>8

\* A step that leaves the file under its name alone.
Touched == UNCHANGED disk \/ \E y : OnDisk(File_, Final, y)

LEMMA DiscardTouches ==
  ASSUME Places, Contained, pc \in Inside, Discard PROVE Touched
<1>1. File_ \in Files /\ Tmp \in FileSet /\ disk \in [Files -> Stored]
      /\ buffer \in Seq(Nat)
  BY FileInHand DEF Working, Contained, Keeping, Inside
<1>2. CASE disk' = [disk EXCEPT ![File_].tmp = None]
  BY <1>1, <1>2, TmpReplaced DEF Touched, Final
<1>3. ASSUME NEW n \in 0 .. Len(buffer),
             disk' = [disk EXCEPT ![File_].tmp.msgs = @ \o SubSeq(buffer, 1, n)]
      PROVE  Touched
  <2>1. SubSeq(buffer, 1, n) \in Seq(Nat)
    BY <1>1, CutInTwo
  <2> QED
    BY <1>1, <1>3, <2>1, MoreWritten DEF Touched, Final, Tmp
<1> QED
  BY <1>2, <1>3 DEF Discard

LEMMA CopyBreaksTouches ==
  ASSUME Places, Contained, CopyBreaks
  PROVE  UNCHANGED disk \/ (pc = "count" /\ \E y : OnDisk(File_, Final, y))
<1> SUFFICES ASSUME pc = "count", NEW n \in 0 .. Len(Final.msgs),
                    disk' = [disk EXCEPT ![File_].tmp =
                               [Final EXCEPT !.msgs = SubSeq(@, 1, n)]]
             PROVE  \E y : OnDisk(File_, Final, y)
  BY DEF CopyBreaks, Final
<1>1. File_ \in Files /\ Final \in FileSet /\ disk \in [Files -> Stored]
  BY FileInHand DEF Working, Closing, Contained
<1>2. SubSeq(Final.msgs, 1, n) \in Seq(Nat)
  BY <1>1, FileParts, CutInTwo
<1> DEFINE y == [Final EXCEPT !.msgs = SubSeq(Final.msgs, 1, n)]
<1>3. y \in FileSet
  BY <1>1, <1>2, FileChange
<1>4. disk' = [disk EXCEPT ![File_].tmp = y]
  OBVIOUS
<1> HIDE DEF y
<1> QED
  BY <1>1, <1>3, <1>4, TmpReplaced DEF Final

\* What a step that touches nothing but the files does to them.
LEMMA FileSteps ==
  ASSUME Places, Contained
  PROVE  /\ Open => OnDisk(File_, Final, File(<<>>, 0, FALSE))
         /\ SourceFails => \/ UNCHANGED disk
                           \/ OnDisk(File_, Final, File(Tmp.msgs, Tmp.failed, TRUE))
         /\ AfterBatchStops =>
              OnDisk(File_, Final, File(Tmp.msgs \o buffer, Tmp.failed, Tmp.cut))
         /\ RemoveOld => OnDisk(File_, None, Tmp)
         /\ Rename \/ CountRename => OnDisk(File_, Tmp, None)
         /\ RenameFails => OnDisk(File_, Final, None)
         /\ Count => OnDisk(File_, Final, Final)
         /\ CountFails \/ Abort \/ Timeout => Touched
<1>1. disk \in [Files -> Stored]
  BY DEF Contained
<1>2. ASSUME Open PROVE OnDisk(File_, Final, File(<<>>, 0, FALSE))
  <2>1. File_ \in Files
    BY <1>2, FileInHand DEF Open, Working
  <2>2. File(<<>>, 0, FALSE) \in FileSet
    BY DEF File, FileSet
  <2> QED
    BY <1>1, <1>2, <2>1, <2>2, TmpReplaced DEF Open, Final
<1>3. ASSUME SourceFails
      PROVE  \/ UNCHANGED disk
             \/ OnDisk(File_, Final, File(Tmp.msgs, Tmp.failed, TRUE))
  <2>1. File_ \in Files /\ Tmp \in FileSet
    BY <1>3, FileInHand DEF SourceFails, Working, Writing, Contained, Keeping, Inside
  <2>2. \/ UNCHANGED disk
        \/ disk' = [disk EXCEPT ![File_].tmp = [Tmp EXCEPT !.cut = TRUE]]
    BY <1>3 DEF SourceFails, Tmp
  <2>3. /\ [Tmp EXCEPT !.cut = TRUE] = File(Tmp.msgs, Tmp.failed, TRUE)
        /\ File(Tmp.msgs, Tmp.failed, TRUE) \in FileSet
    BY <2>1, FileChange
  <2> QED
    BY <1>1, <2>1, <2>2, <2>3, TmpReplaced DEF Final
<1>4. ASSUME AfterBatchStops
      PROVE  OnDisk(File_, Final, File(Tmp.msgs \o buffer, Tmp.failed, Tmp.cut))
  <2>1. File_ \in Files /\ Tmp \in FileSet /\ buffer \in Seq(Nat)
    BY <1>4, FileInHand DEF AfterBatchStops, Working, Writing, Contained, Keeping, Inside
  <2> QED
    BY <1>1, <1>4, <2>1, MoreWritten DEF AfterBatchStops, Final, Tmp
<1>5. ASSUME RemoveOld PROVE OnDisk(File_, None, Tmp)
  <2>1. File_ \in Files
    BY <1>5, FileInHand DEF RemoveOld, Working, Closing
  <2> QED
    BY <1>1, <1>5, <2>1 DEF RemoveOld, OnDisk, Stored, Tmp
<1>6. ASSUME Rename \/ CountRename PROVE OnDisk(File_, Tmp, None)
  <2>1. File_ \in Files
    BY <1>6, FileInHand DEF Rename, CountRename, Working, Closing
  <2>2. disk' = [disk EXCEPT ![File_] = [final |-> Tmp, tmp |-> None]]
    BY <1>6 DEF Rename, CountRename, Tmp
  <2>3. Tmp \in FileSet \cup {None}
    BY <1>1, <2>1 DEF Tmp, Stored
  <2> QED
    BY <1>1, <2>1, <2>2, <2>3, Replaced
<1>7. ASSUME RenameFails PROVE OnDisk(File_, Final, None)
  <2>1. File_ \in Files
    BY <1>7, FileInHand DEF RenameFails, Working, Closing
  <2> QED
    BY <1>1, <1>7, <2>1, TmpReplaced DEF RenameFails, Final
<1>8. ASSUME Count PROVE OnDisk(File_, Final, Final)
  <2>1. File_ \in Files /\ Final \in FileSet
    BY <1>8, FileInHand DEF Count, Working, Closing, Contained
  <2> QED
    BY <1>1, <1>8, <2>1, TmpReplaced DEF Count, Final
<1>9. ASSUME CountFails \/ Abort \/ Timeout PROVE Touched
  <2>1. (pc \in Inside /\ Discard) \/ CopyBreaks
    BY <1>9 DEF CountFails, Abort, Timeout, Inside, Writing
  <2> QED
    BY <2>1, DiscardTouches, CopyBreaksTouches DEF Touched
<1> QED
  BY <1>2, <1>3, <1>4, <1>5, <1>6, <1>7, <1>8, <1>9

-----------------------------------------------------------------------------
(* Places is kept                                                          *)

\* A step beside the export.
LEMMA HoldPlaces ==
  ASSUME Places, UNCHANGED <<config, pc, runs, faults, t, c, messages, results, hooks>>,
         shutdown_requested' \in BOOLEAN, Recorded'
  PROVE  Places'
<1>1. Regular' = Regular
  BY DEF Regular
<1> QED
  BY <1>1 DEF Places, config

\* The next topic of a forum.
LEMMA NextTopicPlaces ==
  ASSUME Places, pc \in Working, ~Regular,
         pc' = "open" /\ c' = c + 1 /\ c # Len(Targets[t].chats),
         UNCHANGED <<config, runs, faults, t, messages, results, hooks,
                     shutdown_requested>>,
         Recorded'
  PROVE  Places'
<1>1. t \in TargetIds /\ c \in 1 .. Len(Targets[t].chats)
  BY TargetTypes DEF Places
<1>2. c' \in Nat \ {0} /\ c' \in DOMAIN Targets[t'].chats
  BY <1>1, TargetTypes
<1>3. pc' \in PCs /\ pc' \notin AtEnd /\ pc' \notin {"count", "counted", "finish"}
  BY DEF PCs, AtEnd
<1> QED
  BY <1>1, <1>2, <1>3 DEF Places, config

\* What is queued for the cache.
LEMMA QueueTypes ==
  ASSUME Recorded, NEW x \in TargetIds, Queue(x), UNCHANGED <<last, saved>>
  PROVE  Recorded'
<1> DEFINE p == [pending EXCEPT ![x] = last[x]]
<1>1. last[x] \in Entries /\ p \in [TargetIds -> Entries]
  BY EntryChange DEF Recorded
<1>2. NoEntity \in Entries
  BY DEF Entries
<1>3. /\ cached' = Flushed(p) \/ UNCHANGED cached
      /\ pending' = p \/ pending' = [y \in TargetIds |-> NoEntity]
  BY DEF Queue
<1> HIDE DEF p
<1>4. cached' \in [TargetIds -> Entries]
  BY <1>1, <1>3, FlushedType DEF Recorded
<1>5. pending' \in [TargetIds -> Entries]
  BY <1>1, <1>2, <1>3
<1> QED
  BY <1>4, <1>5 DEF Recorded

\* Steps within a chat that leave the progress alone.
LEMMA QuietStepPlaces ==
  ASSUME Places,
         \/ Open \/ OpenFails \/ Fetch \/ FetchEnds \/ FetchStops \/ SourceFails
         \/ AfterBatchStops \/ RemoveOld \/ RenameFails \/ Count
         \/ CountRename \/ CountFails \/ Abort
  PROVE  Places'
<1>1. /\ pc \in Working /\ pc' \in Working
      /\ pc' \in {"count", "counted", "finish"} => pc \in {"count", "counted"}
  BY DEF Open, OpenFails, Fetch, FetchEnds, FetchStops, SourceFails, AfterBatchStops, RemoveOld,
     RenameFails, Count, CountRename, CountFails, Abort, Working, Writing, Closing
<1>2. UNCHANGED <<config, saved, cached, runs, t, c, progress, shutdown_requested>>
  BY DEF Open, OpenFails, Fetch, FetchEnds, FetchStops, SourceFails, AfterBatchStops, RemoveOld,
     RenameFails, Count, CountRename, CountFails, Abort, store, place
<1>3. UNCHANGED faults \/ Fault
  BY DEF Open, OpenFails, Fetch, FetchEnds, FetchStops, SourceFails, AfterBatchStops, RemoveOld,
     RenameFails, Count, CountRename, CountFails, Abort
<1>4. faults' \in 0 .. MaxFaults
  BY <1>3, FaultPlaces DEF Places
<1>5. Recorded' /\ messages' \in Nat /\ shutdown_requested' \in BOOLEAN
  BY <1>2 DEF Places, Recorded, progress
<1>6. pc' \in {"count", "counted", "finish"} => Regular
  BY <1>1 DEF Places
<1>7. UNCHANGED <<config, runs, t, c, results>> /\ hooks' = hooks
  BY <1>2 DEF progress
<1>8. runs' \in 1 .. MaxRuns
  BY <1>7 DEF Places
<1> QED
  BY <1>1, <1>4, <1>5, <1>6, <1>7, <1>8, StayPlaces

\* Steps within a chat that write messages or queue progress.
LEMMA WritingStepPlaces ==
  ASSUME Places, Contained, StartTarget \/ Process \/ AfterBatch \/ Rest \/ FailingWrite
  PROVE  Places'
<1>1. runs' \in 1 .. MaxRuns /\ faults' \in 0 .. MaxFaults /\ shutdown_requested' \in BOOLEAN
  <2>1. UNCHANGED <<runs, shutdown_requested>> /\ (UNCHANGED faults \/ Fault)
    BY RestEffect, ProcessEffect, FailingWriteEffect DEF StartTarget, AfterBatch, LeaveSaver
  <2> QED
    BY <2>1, FaultPlaces DEF Places
<1>2. CASE StartTarget
  <2>1. pc \in Working /\ pc' \in Working /\ pc' \notin {"count", "counted", "finish"}
    BY <1>2 DEF StartTarget, Working
  <2>2. t \in TargetIds /\ last \in [TargetIds -> Entries] /\ 0 \in Entries
    BY <2>1, FileInHand DEF Places, Recorded, Entries
  <2>3. last' \in [TargetIds -> Entries]
    BY <1>2, <2>2 DEF StartTarget
  <2>4. Recorded' /\ messages' \in Nat
    BY <1>2, <2>3 DEF StartTarget, Places, Recorded, store
  <2>5. UNCHANGED <<config, t, c, results>>
    BY <1>2 DEF StartTarget, place
  <2>6. hooks' \subseteq hooks \cup {t} /\ (~Regular => hooks' = hooks)
    BY <1>2 DEF StartTarget
  <2> QED
    BY <1>1, <2>1, <2>4, <2>5, <2>6, StayPlaces
<1>3. CASE Process
  <2>1. pc \in Working /\ pc \in Writing /\ pc' \in Working
        /\ pc' \notin {"count", "counted", "finish"}
    BY <1>3, ProcessEffect DEF Working, Writing
  <2>2. UNCHANGED <<config, t, c, results, saved, cached, pending, hooks>>
    BY <1>3, ProcessEffect
  <2>3. messages' \in Nat /\ last' \in [TargetIds -> Entries]
    <3>1. CASE WriteAll(Good(File_, batch))
      <4>1. Good(File_, batch) \in Seq(Nat)
        BY GoodType DEF Contained
      <4> QED
        BY <2>1, <3>1, <4>1, WriteAllEffect DEF Counted
    <3>2. CASE UNCHANGED <<messages, last>>
      BY <3>2 DEF Places, Recorded
    <3> QED
      BY <1>3, <3>1, <3>2, ProcessEffect
  <2>4. Recorded'
    BY <2>2, <2>3 DEF Places, Recorded
  <2> QED
    BY <1>1, <2>1, <2>2, <2>3, <2>4, StayPlaces
<1>4. CASE AfterBatch
  <2>1. pc \in Working /\ pc' \in Working /\ pc' \notin {"count", "counted", "finish"}
    BY <1>4 DEF AfterBatch, Working, Writing
  <2>2. UNCHANGED <<config, t, c, results, saved, last, hooks, messages>>
    BY <1>4 DEF AfterBatch
  <2>3. Recorded'
    <3>1. t \in TargetIds /\ Recorded
      BY <2>1, FileInHand DEF Places
    <3>2. Queue(t) \/ UNCHANGED <<cached, pending>>
      BY <1>4 DEF AfterBatch
    <3>3. CASE Queue(t)
      BY <2>2, <3>1, <3>3, QueueTypes
    <3>4. CASE UNCHANGED <<cached, pending>>
      BY <2>2, <3>1, <3>4 DEF Recorded
    <3> QED
      BY <3>2, <3>3, <3>4
  <2>4. messages' \in Nat
    BY <2>2 DEF Places
  <2> QED
    BY <1>1, <2>1, <2>2, <2>3, <2>4, StayPlaces
<1>5. CASE Rest
  <2>1. LeaveSaver(Good(File_, batch)) /\ pc = "rest" /\ pc' = "remove"
    BY <1>5, RestEffect DEF LeaveSaver
  <2>2. pc \in Working /\ pc' \in Working /\ pc' \notin {"count", "counted", "finish"}
    BY <2>1 DEF Working, Writing, Closing
  <2>3. UNCHANGED <<config, t, c, results, saved, cached, pending, hooks>>
    BY <2>1 DEF LeaveSaver
  <2>4. messages' \in Nat /\ last' \in [TargetIds -> Entries]
    BY <1>5, RestEffect DEF Counted
  <2>5. Recorded'
    BY <2>3, <2>4 DEF Places, Recorded
  <2> QED
    BY <1>1, <2>2, <2>3, <2>4, <2>5, StayPlaces
<1>6. CASE FailingWrite
  <2>1. pc \in Working /\ pc' \in Working /\ pc' \notin {"count", "counted", "finish"}
    BY <1>6, FailingWriteEffect DEF Working, Writing
  <2>2. Recorded' /\ messages' \in Nat
    BY <1>6, FailingWriteEffect DEF Places, Recorded
  <2>3. UNCHANGED <<config, t, c, results, hooks>>
    BY <1>6, FailingWriteEffect
  <2> QED
    BY <1>1, <2>1, <2>2, <2>3, StayPlaces
<1> QED
  BY <1>2, <1>3, <1>4, <1>5, <1>6

\* Steps with which a chat, and perhaps its target, ends.
LEMMA LastStepPlaces ==
  ASSUME Places, SetupFails \/ Rename \/ Finish \/ Failed \/ Timeout
  PROVE  Places'
<1>1. /\ pc \in Working /\ UNCHANGED <<config, runs, hooks, shutdown_requested>>
      /\ UNCHANGED faults \/ Fault
  BY DEF SetupFails, Rename, Finish, Failed, Timeout, Working, Writing, Closing
<1>2. /\ faults' \in 0 .. MaxFaults /\ runs' \in 1 .. MaxRuns
      /\ shutdown_requested' \in BOOLEAN
  BY <1>1, FaultPlaces DEF Places
<1>3. t \in TargetIds /\ Recorded /\ NoEntity \in Entries /\ 0 \in Entries
  BY <1>1, FileInHand DEF Places, Entries
<1>4. Recorded' /\ messages' \in Nat
  <2>1. last' = last \/ last' = [last EXCEPT ![t] = 0]
    BY DEF SetupFails, Rename, Finish, Failed, Timeout
  <2>2. pending' = pending \/ pending' = [x \in TargetIds |-> NoEntity]
    BY DEF SetupFails, Rename, Finish, Failed, Timeout
  <2>3. \/ UNCHANGED cached
        \/ cached' = [cached EXCEPT ![t] = 0] \/ cached' = [cached EXCEPT ![t] = last[t]]
        \/ cached' = [Flushed(pending) EXCEPT ![t] = last[t]]
    BY DEF SetupFails, Rename, Finish, Failed, Timeout
  <2>4. saved' = saved /\ (messages' = messages \/ messages' = 0)
    BY DEF SetupFails, Rename, Finish, Failed, Timeout
  <2>5. Flushed(pending) \in [TargetIds -> Entries] /\ last[t] \in Entries
    BY <1>3, FlushedType DEF Recorded
  <2>6. cached' \in [TargetIds -> Entries]
    BY <1>3, <2>3, <2>5, EntryChange DEF Recorded
  <2>7. last' \in [TargetIds -> Entries] /\ pending' \in [TargetIds -> Entries]
    BY <1>3, <2>1, <2>2 DEF Recorded
  <2> QED
    BY <1>3, <2>4, <2>6, <2>7 DEF Places, Recorded
<1>5. \/ NextTarget(0) \/ NextTarget(messages)
      \/ /\ Rename /\ Regular /\ pc' = "count" /\ UNCHANGED <<t, c, results>>
      \/ /\ ~Regular /\ pc' = "open" /\ c' = c + 1 /\ c # Len(Targets[t].chats)
         /\ UNCHANGED <<t, results, faults, messages>>
  BY DEF SetupFails, Rename, Finish, Failed, Timeout, TopicDone
<1>6. CASE NextTarget(0) \/ NextTarget(messages)
  <2>1. messages \in Nat /\ 0 \in Nat
    BY DEF Places
  <2> QED
    BY <1>1, <1>2, <1>4, <1>6, <2>1, LeavePlaces
<1>7. CASE Rename /\ Regular /\ pc' = "count" /\ UNCHANGED <<t, c, results>>
  <2>1. pc' \in Working
    BY <1>7 DEF Working, Closing
  <2> QED
    BY <1>1, <1>2, <1>4, <1>7, <2>1, StayPlaces
<1>8. CASE /\ ~Regular /\ pc' = "open" /\ c' = c + 1 /\ c # Len(Targets[t].chats)
           /\ UNCHANGED <<t, results, faults, messages>>
  BY <1>1, <1>4, <1>8, NextTopicPlaces
<1> QED
  BY <1>5, <1>6, <1>7, <1>8

\* Steps beside the export, and after it.
LEMMA OuterStepPlaces ==
  ASSUME Places, RequestShutdown \/ AutoSave \/ RunHooks \/ Stop \/ Kill \/ Restart
  PROVE  Places'
<1>1. CASE RequestShutdown
  BY <1>1, HoldPlaces DEF RequestShutdown, Places, Recorded, store, place, progress
<1>2. CASE AutoSave
  <2>1. Recorded'
    BY <1>2 DEF AutoSave, Places, Recorded, progress
  <2> QED
    BY <1>2, <2>1, HoldPlaces DEF AutoSave, Places, place, progress
<1>3. CASE RunHooks \/ Stop
  <2>1. Recorded
    BY DEF Places
  <2>2. UNCHANGED <<last, pending>> /\ (saved' = cached \/ UNCHANGED saved)
    BY <1>3 DEF RunHooks, Stop, progress
  <2>3. UNCHANGED cached \/ cached' = [x \in TargetIds |-> SavedOnShutdown(x)]
    BY <1>3 DEF RunHooks, Stop
  <2>4. [x \in TargetIds |-> SavedOnShutdown(x)] \in [TargetIds -> Entries]
    BY <2>1 DEF SavedOnShutdown, Recorded
  <2>5. Recorded'
    BY <2>1, <2>2, <2>3, <2>4 DEF Recorded
  <2>6. pc \in AtEnd /\ pc' \in AtEnd
    BY <1>3 DEF RunHooks, Stop, AtEnd
  <2> QED
    BY <1>3, <2>5, <2>6, EndPlaces DEF RunHooks, Stop, Places, place, progress
<1>4. CASE Kill
  <2>1. Recorded' /\ faults' \in 0 .. MaxFaults
    BY <1>4, FaultPlaces DEF Kill, Places, Recorded, store, progress
  <2> QED
    BY <1>4, <2>1, EndPlaces DEF Kill, Places, place, progress
<1>5. CASE Restart
  <2>1. runs' \in 1 .. MaxRuns
    BY <1>5, Sizes DEF Restart, Places
  <2>2. /\ t' \in 1 .. (Len(Targets) + 1) /\ t' \in TargetIds
        /\ c' \in DOMAIN Targets[t'].chats /\ c' \in Nat \ {0}
    BY <1>5, TargetTypes DEF Restart
  <2>3. Recorded'
    BY <1>5 DEF Restart, LoadCache, Entries, Places, Recorded
  <2>4. messages' \in Nat /\ results' \in Seq(Nat) /\ Len(results') = t' - 1
    BY <1>5 DEF Restart
  <2>5. pc' \in PCs /\ pc' \notin AtEnd /\ pc' \notin {"count", "counted", "finish"}
    BY <1>5 DEF Restart, PCs, AtEnd
  <2>6. UNCHANGED <<config, faults>> /\ hooks' = {}
    BY <1>5 DEF Restart
  <2>7. shutdown_requested' \in BOOLEAN
    BY <1>5, Zenon DEF Restart
  <2> QED
    BY <2>1, <2>2, <2>3, <2>4, <2>5, <2>6, <2>7 DEF Places, config
<1> QED
  BY <1>1, <1>2, <1>3, <1>4, <1>5

\* Nothing changes.
LEMMA SamePlaces == Places /\ UNCHANGED vars => Places'
<1> SUFFICES ASSUME Places, UNCHANGED vars PROVE Places'
  OBVIOUS
<1>1. Recorded' /\ shutdown_requested' \in BOOLEAN
  BY DEF vars, Places, Recorded, store, progress
<1> QED
  BY <1>1, HoldPlaces DEF vars, place, progress

LEMMA PlacesStep == Places /\ Contained /\ [Next]_vars => Places'
  BY QuietStepPlaces, WritingStepPlaces, LastStepPlaces, OuterStepPlaces, SamePlaces
     DEF Next, Export, Over, FailingWrite

-----------------------------------------------------------------------------
(* Contained is kept                                                       *)

Locals ==
  /\ next \in Nat \ {0} /\ timed \in BOOLEAN
  /\ batch \in Seq(Nat) /\ written \in Seq(Nat)
  /\ buffer \in Seq(Nat) /\ Len(buffer) < buffer_size

LEMMA EmptyBuffer == <<>> \in Seq(Nat) /\ Len(<<>>) < buffer_size
  BY Sizes

LEMMA LocalsStep == Places /\ Contained /\ [Next]_vars => Locals'
<1> SUFFICES ASSUME Places, Contained, [Next]_vars PROVE Locals'
  OBVIOUS
<1>1. Locals
  BY DEF Contained, Locals
<1>2. CASE UNCHANGED <<next, timed, batch, buffer, written>>
  BY <1>1, <1>2 DEF Locals
<1>3. CASE Open \/ Restart
  <2>1. /\ next' = 1 /\ batch' = <<>> /\ timed' = FALSE
        /\ buffer' = <<>> /\ written' = <<>>
    BY <1>3 DEF Open, Restart
  <2>2. timed' \in BOOLEAN
    BY <2>1, Zenon
  <2>3. next' \in Nat \ {0} /\ <<>> \in Seq(Nat)
    BY <2>1
  <2> QED
    BY <2>1, <2>2, <2>3, EmptyBuffer, Zenon DEF Locals
<1>4. CASE Fetch
  <2>1. next \in Nat \ {0} /\ batch \in Seq(Nat)
    BY <1>1 DEF Locals
  <2>2. next' \in Nat \ {0} /\ batch' \in Seq(Nat)
    BY <1>4, <2>1 DEF Fetch
  <2> QED
    BY <1>1, <1>4, <2>2 DEF Fetch, Locals
<1>5. CASE FetchStops \/ SourceFails \/ AfterBatchStops \/ AfterBatch
  <2>1. batch' = <<>> \/ batch' = batch
    BY <1>5 DEF FetchStops, SourceFails, AfterBatchStops, AfterBatch
  <2>2. buffer' = <<>> \/ buffer' = buffer
    BY <1>5 DEF FetchStops, SourceFails, AfterBatchStops, AfterBatch
  <2>3. UNCHANGED <<next, timed, written>>
    BY <1>5 DEF FetchStops, SourceFails, AfterBatchStops, AfterBatch
  <2> QED
    BY <1>1, <2>1, <2>2, <2>3, EmptyBuffer, Zenon DEF Locals
<1>6. CASE Process
  <2>1. UNCHANGED <<next, batch>>
    BY <1>6, ProcessEffect
  <2>2. CASE UNCHANGED <<buffer, written, timed>>
    BY <1>1, <2>1, <2>2 DEF Locals
  <2>3. CASE WriteAll(Good(File_, batch)) /\ timed' \in BOOLEAN
    <3>1. pc \in Writing /\ Good(File_, batch) \in Seq(Nat)
      BY <1>6, ProcessEffect, GoodType DEF Writing, Contained
    <3>2. buffer' \in Seq(Nat) /\ Len(buffer') < buffer_size /\ written' \in Seq(Nat)
      BY <2>3, <3>1, WriteAllEffect DEF Counted
    <3> QED
      BY <1>1, <2>1, <2>3, <3>2 DEF Locals
  <2> QED
    BY <1>6, <2>2, <2>3, ProcessEffect
<1>7. CASE Rest
  <2>1. buffer' = <<>> /\ batch' = <<>> /\ UNCHANGED <<next, timed>>
    BY <1>7, RestEffect DEF LeaveSaver
  <2>2. written' \in Seq(Nat)
    BY <1>7, RestEffect DEF Counted
  <2> QED
    BY <1>1, <2>1, <2>2, EmptyBuffer, Zenon DEF Locals
<1>9. CASE FailingWrite
  <2>1. /\ buffer' = <<>> /\ batch' \in Seq(Nat) /\ written' \in Seq(Nat)
        /\ UNCHANGED <<next, timed>>
    BY <1>9, FailingWriteEffect
  <2> QED
    BY <1>1, <2>1, EmptyBuffer, Zenon DEF Locals
<1>8. \/ UNCHANGED <<next, timed, batch, buffer, written>>
      \/ Open \/ Restart \/ Fetch \/ FetchStops \/ SourceFails \/ AfterBatchStops
      \/ AfterBatch \/ Process \/ Rest \/ FailingWrite
  <2>1. CASE UNCHANGED vars
    BY <2>1 DEF vars, place
  <2>2. CASE \/ StartTarget \/ FetchEnds \/ RemoveOld \/ Rename \/ Count \/ CountRename
             \/ Finish \/ Abort \/ Failed \/ RunHooks \/ Stop
    BY <2>2 DEF StartTarget, FetchEnds, RemoveOld, Rename, Count, CountRename, Finish,
       Abort, Failed, RunHooks, Stop, place
  <2>3. CASE \/ RequestShutdown \/ SetupFails \/ OpenFails \/ RenameFails \/ CountFails
             \/ Timeout \/ AutoSave \/ Kill
    BY <2>3 DEF RequestShutdown, SetupFails, OpenFails, RenameFails, CountFails, Timeout, AutoSave,
       Kill, place
  <2> QED
    BY <2>1, <2>2, <2>3 DEF Next, Export, Over, FailingWrite
<1> QED
  BY <1>2, <1>3, <1>4, <1>5, <1>6, <1>7, <1>8, <1>9

NeedTmp   == Keeping
NeedFinal == {"count", "counted", "finish"}

LEMMA SameDisk ==
  ASSUME Contained, Locals', UNCHANGED disk,
         pc' \in NeedTmp => pc \in NeedTmp /\ File_' = File_,
         pc' \in NeedFinal => pc \in NeedFinal /\ File_' = File_
  PROVE  Contained'
<1>1. pc' \in NeedTmp => Tmp' \in FileSet
  BY DEF Contained, NeedTmp, Tmp
<1>2. pc' \in NeedFinal => Final' \in FileSet
  BY DEF Contained, NeedFinal, Final
<1> QED
  BY <1>1, <1>2 DEF Contained, Locals, NeedTmp, NeedFinal

LEMMA OtherDisk ==
  ASSUME Contained, Locals', NEW x, NEW y, OnDisk(File_, x, y),
         pc' \in NeedTmp => y \in FileSet /\ File_' = File_,
         pc' \in NeedFinal => x \in FileSet /\ File_' = File_
  PROVE  Contained'
<1>1. pc' \in NeedTmp => Tmp' \in FileSet
  BY DEF OnDisk, Tmp
<1>2. pc' \in NeedFinal => Final' \in FileSet
  BY DEF OnDisk, Final
<1> QED
  BY <1>1, <1>2 DEF Contained, Locals, NeedTmp, NeedFinal, OnDisk

LEMMA SameFile == UNCHANGED <<t, c>> => File_' = File_
  BY DEF File_

LEMMA ContainedStep == Places /\ Contained /\ [Next]_vars => Contained'
<1> SUFFICES ASSUME Places, Contained, [Next]_vars PROVE Contained'
  OBVIOUS
<1>1. Locals'
  BY LocalsStep
<1>2. CASE UNCHANGED vars
  BY <1>1, <1>2, SameDisk, SameFile DEF vars, place, store
<1>3. CASE \/ StartTarget \/ Fetch \/ FetchEnds \/ FetchStops \/ AfterBatch
           \/ RequestShutdown \/ AutoSave
  <2>1. UNCHANGED <<disk, t, c>>
    BY <1>3 DEF StartTarget, Fetch, FetchEnds, FetchStops, AfterBatch,
       RequestShutdown, AutoSave, store, place
  <2>2. /\ pc' \in NeedTmp => pc \in NeedTmp
        /\ pc' \in NeedFinal => pc \in NeedFinal
    BY <1>3 DEF StartTarget, Fetch, FetchEnds, FetchStops, AfterBatch,
       RequestShutdown, AutoSave, NeedTmp, NeedFinal, Keeping, Inside, Writing
  <2> QED
    BY <1>1, <2>1, <2>2, SameDisk, SameFile
<1>4. CASE SetupFails \/ OpenFails \/ Finish \/ Failed \/ RunHooks \/ Stop \/ Kill \/ Restart
  <2>1. UNCHANGED disk
    BY <1>4 DEF SetupFails, OpenFails, Finish, Failed, RunHooks, Stop, Kill, Restart, store
  <2>2. pc' \notin NeedTmp /\ pc' \notin NeedFinal
    BY <1>4 DEF SetupFails, OpenFails, Finish, Failed, RunHooks, Stop, Kill, Restart,
       NextTarget, TopicDone, NeedTmp, NeedFinal, Keeping, Inside, Writing
  <2> QED
    BY <1>1, <2>1, <2>2, SameDisk
<1>5. CASE Open
  <2>1. pc' = "fetch" /\ UNCHANGED <<t, c>>
    BY <1>5 DEF Open
  <2>2. File(<<>>, 0, FALSE) \in FileSet
    BY DEF File, FileSet
  <2> QED
    BY <1>1, <1>5, <2>1, <2>2, FileSteps, OtherDisk, SameFile DEF NeedFinal
<1>6. CASE SourceFails
  <2>1. pc = "fetch" /\ pc' \in {"rest", "abort"} /\ UNCHANGED <<t, c>>
    BY <1>6 DEF SourceFails
  <2>2. Tmp \in FileSet /\ File(Tmp.msgs, Tmp.failed, TRUE) \in FileSet
    BY <2>1, FileChange DEF Contained, Keeping, Inside, Writing
  <2>3. CASE UNCHANGED disk
    BY <1>1, <2>1, <2>3, SameDisk, SameFile DEF NeedTmp, NeedFinal, Keeping, Inside, Writing
  <2>4. CASE OnDisk(File_, Final, File(Tmp.msgs, Tmp.failed, TRUE))
    BY <1>1, <2>1, <2>2, <2>4, OtherDisk, SameFile DEF NeedFinal
  <2> QED
    BY <1>6, <2>3, <2>4, FileSteps
<1>7. CASE Process
  <2>1. pc = "process" /\ pc' \in {"after", "abort"} /\ UNCHANGED <<t, c>>
    BY <1>7, ProcessEffect
  <2>2. CASE UNCHANGED disk
    BY <1>1, <2>1, <2>2, SameDisk, SameFile DEF NeedTmp, NeedFinal, Keeping, Inside, Writing
  <2>3. CASE WriteAll(Good(File_, batch))
    <3>1. pc \in Writing /\ Tmp \in FileSet /\ Good(File_, batch) \in Seq(Nat)
      BY <2>1, GoodType DEF Contained, Keeping, Inside, Writing
    <3>2. PICK out \in Seq(Nat) :
            OnDisk(File_, Final, File(Tmp.msgs \o out, Tmp.failed, Tmp.cut))
      BY <2>3, <3>1, WriteAllEffect
    <3>3. Tmp.msgs \o out \in Seq(Nat)
      BY <3>1, FileParts
    <3>4. File(Tmp.msgs \o out, Tmp.failed, Tmp.cut) \in FileSet
      BY <3>1, <3>3, FileChange
    <3> QED
      BY <1>1, <2>1, <3>2, <3>4, OtherDisk, SameFile DEF NeedFinal
  <2> QED
    BY <1>7, <2>2, <2>3, ProcessEffect
<1>8. CASE AfterBatchStops
  <2>1. pc = "after" /\ pc' = "rest" /\ UNCHANGED <<t, c>>
    BY <1>8 DEF AfterBatchStops
  <2>2. Tmp \in FileSet /\ buffer \in Seq(Nat)
    BY <2>1 DEF Contained, Keeping, Inside, Writing
  <2>3. Tmp.msgs \o buffer \in Seq(Nat)
    BY <2>2, FileParts
  <2>4. File(Tmp.msgs \o buffer, Tmp.failed, Tmp.cut) \in FileSet
    BY <2>2, <2>3, FileChange
  <2> QED
    BY <1>1, <1>8, <2>1, <2>4, FileSteps, OtherDisk, SameFile DEF NeedFinal
<1>9. CASE Rest
  <2>1. pc = "rest" /\ pc' = "remove" /\ UNCHANGED <<t, c>>
    BY <1>9, RestEffect DEF LeaveSaver
  <2>2. \E y \in FileSet : OnDisk(File_, Final, y)
    BY <1>9, RestEffect
  <2> QED
    BY <1>1, <2>1, <2>2, OtherDisk, SameFile DEF NeedFinal
<1>10. CASE RemoveOld
  <2>1. pc = "remove" /\ pc' = "rename" /\ UNCHANGED <<t, c>> /\ Tmp \in FileSet
    BY <1>10 DEF RemoveOld, place, Contained, Keeping
  <2> QED
    BY <1>1, <1>10, <2>1, FileSteps, OtherDisk, SameFile DEF NeedFinal
<1>11. CASE Rename \/ CountRename
  <2>1. pc \in {"rename", "counted"} /\ Tmp \in FileSet
    BY <1>11 DEF Rename, CountRename, Contained, Keeping
  <2>2. pc' \notin NeedTmp /\ (pc' \in NeedFinal => UNCHANGED <<t, c>>)
    BY <1>11 DEF Rename, CountRename, TopicDone, NextTarget, NeedTmp, NeedFinal,
       Keeping, Inside, Writing, place
  <2> QED
    BY <1>1, <1>11, <2>1, <2>2, FileSteps, OtherDisk, SameFile
<1>12. CASE RenameFails \/ Abort \/ Timeout
  <2>1. pc' \notin NeedTmp /\ pc' \notin NeedFinal
    BY <1>12 DEF RenameFails, Abort, Timeout, NextTarget, NeedTmp, NeedFinal, Keeping,
       Inside, Writing
  <2>2. Touched
    BY <1>12, FileSteps DEF Touched
  <2> QED
    BY <1>1, <2>1, <2>2, SameDisk, OtherDisk DEF Touched
<1>13. CASE Count
  <2>1. pc = "count" /\ pc' = "counted" /\ UNCHANGED <<t, c>> /\ Final \in FileSet
    BY <1>13 DEF Count, place, Contained
  <2> QED
    BY <1>1, <1>13, <2>1, FileSteps, OtherDisk, SameFile
<1>14. CASE CountFails
  <2>1. /\ pc \in NeedFinal /\ pc' = "finish" /\ pc' \notin NeedTmp
        /\ UNCHANGED <<t, c>> /\ Final \in FileSet
    BY <1>14 DEF CountFails, place, Contained, NeedFinal, NeedTmp, Keeping, Inside, Writing
  <2>2. Touched
    BY <1>14, FileSteps
  <2> QED
    BY <1>1, <2>1, <2>2, SameDisk, OtherDisk, SameFile DEF Touched
<1>15. CASE FailingWrite
  <2>1. pc' \notin NeedFinal /\ UNCHANGED <<t, c>>
    BY <1>15, FailingWriteEffect DEF NeedFinal
  <2>2. \E y \in FileSet : OnDisk(File_, Final, y)
    BY <1>15, FailingWriteEffect
  <2> QED
    BY <1>1, <2>1, <2>2, OtherDisk, SameFile
<1> QED
  BY <1>2, <1>3, <1>4, <1>5, <1>6, <1>7, <1>8, <1>9, <1>10, <1>11, <1>12, <1>13, <1>14,
     <1>15 DEF Next, Export, Over, FailingWrite

-----------------------------------------------------------------------------
(* What is formatted of a history                                          *)

LEMMA UptoType == ASSUME NEW n \in Nat PROVE Upto(n) \in Seq(Nat)
  BY DEF Upto

LEMMA FormattedType ==
  ASSUME NEW h, NEW n \in Nat PROVE Formatted(h, n) \in Seq(Nat)
  BY UptoType, SelectType DEF Formatted, GoodOf

LEMMA GoodIsOf == ASSUME NEW ids PROVE Good(File_, ids) = GoodOf(History, ids)
  BY DEF Good, GoodOf, History

LEMMA GoodOfEmpty == ASSUME NEW h PROVE GoodOf(h, <<>>) = <<>>
  BY SelectEmpty DEF GoodOf

LEMMA GoodOfType ==
  ASSUME NEW h, NEW ids \in Seq(Nat) PROVE GoodOf(h, ids) \in Seq(Nat)
  BY SelectType DEF GoodOf

LEMMA FormattedZero == ASSUME NEW h PROVE Formatted(h, 0) = <<>>
<1>1. Upto(0) = <<>>
  BY DEF Upto
<1> QED
  BY <1>1, GoodOfEmpty DEF Formatted

\* A message more of the whole.
LEMMA OneFormatted ==
  ASSUME NEW h, NEW n \in Nat \ {0}
  PROVE  Formatted(h, n) = IF n \in DOMAIN h /\ h[n] = "good"
                           THEN Append(Formatted(h, n - 1), n)
                           ELSE Formatted(h, n - 1)
<1> DEFINE T == {i \in DOMAIN h : h[i] = "good"}
<1>1. Upto(n) = Append(Upto(n - 1), n) /\ Upto(n - 1) \in Seq(Nat)
  <2>1. n - 1 \in Nat /\ (n - 1) + 1 = n
    OBVIOUS
  <2>2. Upto(n - 1) \in Seq(Nat) /\ Len(Upto(n - 1)) = n - 1
    BY <2>1, UptoType DEF Upto
  <2>3. Append(Upto(n - 1), n) \in Seq(Nat) /\ Upto(n) \in Seq(Nat)
    BY <2>2, UptoType
  <2>4. /\ Len(Append(Upto(n - 1), n)) = n /\ Len(Upto(n)) = n
        /\ \A i \in 1 .. n : Append(Upto(n - 1), n)[i] = i /\ Upto(n)[i] = i
    BY <2>1, <2>2 DEF Upto
  <2> QED
    BY <2>2, <2>3, <2>4, SeqEqual
<1>2. n \in T <=> n \in DOMAIN h /\ h[n] = "good"
  OBVIOUS
<1>3. Formatted(h, n) = Select(Upto(n), T) /\ Formatted(h, n - 1) = Select(Upto(n - 1), T)
  BY DEF Formatted, GoodOf, T
<1> HIDE DEF T
<1>4. Select(Append(Upto(n - 1), n), T) =
        IF n \in T THEN Append(Select(Upto(n - 1), T), n) ELSE Select(Upto(n - 1), T)
  BY <1>1, SelectAppend
<1> QED
  BY <1>1, <1>2, <1>3, <1>4

LEMMA OneGood ==
  ASSUME NEW h, NEW n \in Nat \ {0}, NEW ids \in Seq(Nat)
  PROVE  GoodOf(h, Append(ids, n)) = IF n \in DOMAIN h /\ h[n] = "good"
                                     THEN Append(GoodOf(h, ids), n) ELSE GoodOf(h, ids)
<1> DEFINE T == {i \in DOMAIN h : h[i] = "good"}
<1>1. n \in T <=> n \in DOMAIN h /\ h[n] = "good"
  OBVIOUS
<1>2. \A q : GoodOf(h, q) = Select(q, T)
  BY DEF GoodOf
<1> HIDE DEF T
<1>3. Select(Append(ids, n), T) = IF n \in T THEN Append(Select(ids, T), n) ELSE Select(ids, T)
  BY SelectAppend
<1> QED
  BY <1>1, <1>2, <1>3

\* A message more, of a batch and of the whole.
LEMMA OneMore ==
  ASSUME NEW h, NEW done \in Nat, NEW ids \in Seq(Nat), NEW n \in Nat \ {0},
         Formatted(h, done) \o GoodOf(h, ids) = Formatted(h, n - 1)
  PROVE  Formatted(h, done) \o GoodOf(h, Append(ids, n)) = Formatted(h, n)
<1> DEFINE a == Formatted(h, done)
           b == GoodOf(h, ids)
<1>1. a \in Seq(Nat) /\ b \in Seq(Nat)
  BY FormattedType, GoodOfType
<1>2. a \o b = Formatted(h, n - 1)
  OBVIOUS
<1>3. GoodOf(h, Append(ids, n)) = IF n \in DOMAIN h /\ h[n] = "good" THEN Append(b, n) ELSE b
  BY OneGood
<1> HIDE DEF a, b
<1>4. a \o Append(b, n) = Append(a \o b, n)
  <2>1. n \in Nat
    OBVIOUS
  <2> QED
    BY <1>1, <2>1, AppendedLast
<1>5. a \o GoodOf(h, Append(ids, n)) = Formatted(h, n)
  BY <1>2, <1>3, <1>4, OneFormatted
<1> QED
  BY <1>5 DEF a

LEMMA NoneMore ==
  ASSUME NEW h, NEW n \in Nat
  PROVE  Formatted(h, n) \o GoodOf(h, <<>>) = Formatted(h, n)
  BY GoodOfEmpty, FormattedType, ConcatEmptySeq

\* A prefix of the chat that ends with a message yielded may be shown as cut; the
\* whole chat may always be shown.
LEMMA PrefixShown ==
  ASSUME NEW h, Len(h) \in Nat, NEW n \in 0 .. Len(h), NEW loop
  PROVE  /\ Shown(h, loop, Formatted(h, n), 0, TRUE)
         /\ \A cut \in BOOLEAN : Shown(h, loop, Formatted(h, Len(h)), 0, cut)
  BY DEF Shown, Whole

LEMMA HoledShown ==
  ASSUME NEW h, Len(h) \in Nat, NEW n \in 0 .. Len(h), NEW loop, NEW ids, NEW failed,
         failed # 0, Holed(h, loop, ids, failed, n)
  PROVE  /\ Shown(h, loop, ids, failed, TRUE)
         /\ n = Len(h) => \A cut \in BOOLEAN : Shown(h, loop, ids, failed, cut)
  BY DEF Shown

LEMMA CutShown ==
  ASSUME NEW h, Len(h) \in Nat, NEW loop, NEW ids, NEW failed, NEW cut,
         Shown(h, loop, ids, failed, cut)
  PROVE  Shown(h, loop, ids, failed, TRUE)
  BY DEF Shown, Whole

\* After the regular batch loop was left, its last batch is written once more.
LEMMA RepeatShown ==
  ASSUME NEW h, Len(h) \in Nat, NEW n \in 0 .. Len(h), NEW batch_,
         batch_ = [i \in 1 .. batch_size |-> n - batch_size + i],
         n - batch_size \in Nat, (n - batch_size) % batch_size = 0
  PROVE  Shown(h, "batch", Formatted(h, n) \o GoodOf(h, batch_), 0, TRUE)
<1>1. n >= batch_size /\ n % batch_size = 0
  <2> DEFINE k == (n - batch_size) \div batch_size
  <2>1. k \in Nat /\ n - batch_size = k * batch_size
    BY Sizes
  <2> HIDE DEF k
  <2>2. n = (k + 1) * batch_size /\ n >= batch_size
    BY <2>1, Sizes
  <2>3. ((k + 1) * batch_size) % batch_size = 0
    BY <2>1, Sizes
  <2> QED
    BY <2>2, <2>3
<1> QED
  BY <1>1 DEF Shown, Whole

\* The pipeline writes a message more.
LEMMA HoledMore ==
  ASSUME NEW h, NEW loop, NEW ids \in Seq(Nat), NEW failed \in Nat, NEW n \in Nat \ {0},
         n \in DOMAIN h, Holed(h, loop, ids, failed, n - 1)
  PROVE  Holed(h, loop, ids \o GoodOf(h, <<n>>), failed, n)
<1> DEFINE lost == failed * buffer_size
<1>1. lost \in Nat /\ Len(ids) \in Nat
  BY Sizes
<1>2. /\ loop = "pipeline"
      /\ \A i, j \in DOMAIN ids : i < j => ids[i] < ids[j]
      /\ \A i \in Range(ids) : i \in 1 .. n - 1 /\ h[i] = "good"
      /\ Len(ids) + lost >= Len(Formatted(h, n - 1))
  BY DEF Holed
<1>3. Formatted(h, n - 1) \in Seq(Nat) /\ Len(Formatted(h, n - 1)) \in Nat
  BY FormattedType
<1>4. <<>> \in Seq(Nat) /\ Append(<<>>, n) = <<n>> /\ GoodOf(h, <<>>) = <<>>
  BY GoodOfEmpty
<1>5. GoodOf(h, <<n>>) = IF h[n] = "good" THEN <<n>> ELSE <<>>
  BY <1>4, OneGood
<1>6. \A i \in 1 .. n - 1 : i \in 1 .. n
  OBVIOUS
<1>7. CASE h[n] # "good"
  <2>1. ids \o GoodOf(h, <<n>>) = ids
    BY <1>5, <1>7, ConcatEmptySeq
  <2>2. Formatted(h, n) = Formatted(h, n - 1)
    BY <1>7, OneFormatted
  <2> QED
    BY <1>2, <1>6, <2>1, <2>2 DEF Holed
<1>8. CASE h[n] = "good"
  <2> DEFINE more == Append(ids, n)
  <2>1. ids \o GoodOf(h, <<n>>) = more
    BY <1>5, <1>8, AppendIsConcat
  <2>2. /\ Len(more) = Len(ids) + 1 /\ DOMAIN more = 1 .. Len(ids) + 1
        /\ DOMAIN ids = 1 .. Len(ids)
        /\ \A i \in 1 .. Len(ids) : more[i] = ids[i]
        /\ more[Len(ids) + 1] = n
    OBVIOUS
  <2> HIDE DEF more
  <2>3. \A i \in 1 .. Len(ids) : ids[i] \in 1 .. n - 1 /\ h[ids[i]] = "good"
    BY <1>2, <2>2 DEF Range
  <2>4. ASSUME NEW i \in DOMAIN more, NEW j \in DOMAIN more, i < j
        PROVE  more[i] < more[j]
    <3>1. i \in 1 .. Len(ids)
      BY <1>1, <2>2, <2>4
    <3>2. CASE j \in 1 .. Len(ids)
      BY <1>2, <2>2, <2>4, <3>1, <3>2
    <3>3. CASE j = Len(ids) + 1
      <4>1. ids[i] \in 1 .. n - 1
        BY <2>3, <3>1
      <4> QED
        BY <2>2, <3>1, <3>3, <4>1
    <3> QED
      BY <1>1, <2>2, <3>2, <3>3
  <2>5. ASSUME NEW x \in Range(more) PROVE x \in 1 .. n /\ h[x] = "good"
    <3>1. PICK i \in DOMAIN more : x = more[i]
      BY <2>5 DEF Range
    <3>2. CASE i \in 1 .. Len(ids)
      BY <1>6, <2>2, <2>3, <3>1, <3>2
    <3>3. CASE i = Len(ids) + 1
      BY <1>8, <2>2, <3>1, <3>3
    <3> QED
      BY <1>1, <2>2, <3>1, <3>2, <3>3
  <2>6. Len(more) + lost >= Len(Formatted(h, n))
    <3>1. Len(Formatted(h, n)) = Len(Formatted(h, n - 1)) + 1
      BY <1>3, <1>8, OneFormatted
    <3> HIDE DEF lost
    <3> QED
      BY <1>1, <1>2, <1>3, <2>2, <3>1
  <2> QED
    BY <1>2, <2>1, <2>4, <2>5, <2>6 DEF Holed
<1> QED
  BY <1>7, <1>8

\* A failed write loses an end of what would be there, of a buffer's size at most.
LEMMA HoledShorter ==
  ASSUME NEW h, NEW loop, NEW ids \in Seq(Nat), NEW failed \in Nat, NEW n,
         Holed(h, loop, ids, failed, n), Len(Formatted(h, n)) \in Nat,
         NEW less \in Seq(Nat), Len(less) <= Len(ids),
         \A i \in 1 .. Len(less) : less[i] = ids[i],
         Len(ids) <= Len(less) + buffer_size
  PROVE  Holed(h, loop, less, failed + 1, n)
<1>1. /\ loop = "pipeline"
      /\ \A i, j \in DOMAIN ids : i < j => ids[i] < ids[j]
      /\ \A i \in Range(ids) : i \in 1 .. n /\ h[i] = "good"
      /\ Len(ids) + failed * buffer_size >= Len(Formatted(h, n))
  BY DEF Holed
<1>2. /\ Len(ids) \in Nat /\ Len(less) \in Nat /\ DOMAIN ids = 1 .. Len(ids)
      /\ DOMAIN less = 1 .. Len(less)
  OBVIOUS
<1>3. \A i \in DOMAIN less : i \in DOMAIN ids /\ less[i] = ids[i]
  BY <1>2
<1>4. \A i, j \in DOMAIN less : i < j => less[i] < less[j]
  BY <1>1, <1>3
<1>5. \A i \in Range(less) : i \in 1 .. n /\ h[i] = "good"
  BY <1>1, <1>3 DEF Range
<1>6. Len(less) + (failed + 1) * buffer_size >= Len(Formatted(h, n))
  <2> DEFINE lost == failed * buffer_size
  <2>1. lost \in Nat /\ (failed + 1) * buffer_size = lost + buffer_size
        /\ buffer_size \in Nat
    BY Sizes
  <2>2. Len(ids) + lost >= Len(Formatted(h, n))
    BY <1>1
  <2> HIDE DEF lost
  <2> QED
    BY <1>2, <2>1, <2>2
<1> QED
  BY <1>1, <1>4, <1>5, <1>6 DEF Holed

-----------------------------------------------------------------------------
(* FilesExact is kept                                                      *)

LEMMA SameConfig == [Next]_vars => UNCHANGED <<mode, history>>
<1> SUFFICES ASSUME [Next]_vars PROVE UNCHANGED <<mode, history>>
  OBVIOUS
<1>1. CASE Process
  BY <1>1 DEF Process, PipelineMessage, PrefetchedBatch, PrefetchedTopicBatch, TopicBatch,
     RegularBatch, ProcessBatch, config
<1>2. CASE Rest
  BY <1>2 DEF Rest, RegularRest, TopicRest, LastBatch, LeaveSaver, config
<1>3. CASE \/ StartTarget \/ Open \/ Fetch \/ FetchEnds \/ FetchStops \/ AfterBatchStops
           \/ AfterBatch \/ RemoveOld \/ Rename \/ Count \/ CountRename \/ Finish
  BY <1>3 DEF StartTarget, Open, Fetch, FetchEnds, FetchStops, AfterBatchStops, AfterBatch,
     RemoveOld, Rename, Count, CountRename, Finish, config
<1>4. CASE \/ Abort \/ Failed \/ RunHooks \/ Stop \/ RequestShutdown \/ SetupFails
           \/ OpenFails \/ SourceFails \/ RenameFails \/ CountFails \/ Timeout
           \/ AutoSave \/ Kill \/ Restart \/ UNCHANGED vars
  BY <1>4 DEF Abort, Failed, RunHooks, Stop, RequestShutdown, SetupFails, OpenFails,
     SourceFails, RenameFails, CountFails, Timeout, AutoSave, Kill, Restart, config, vars
<1>5. CASE PipelineWriteFails \/ BatchWriteFails \/ AfterBatchFails \/ LeaveFails
  BY <1>5 DEF PipelineWriteFails, BatchWriteFails, AfterBatchFails, LeaveFails, config
<1> QED
  BY <1>1, <1>2, <1>3, <1>4, <1>5 DEF Next, Export, Over

\* A step changes the file in hand only: it leaves what is under its name, removes
\* it, or puts the temporary file there.
LEMMA FinalSteps ==
  ASSUME Places, Contained, [Next]_vars
  PROVE  \/ UNCHANGED disk
         \/ \E y : OnDisk(File_, Final, y)
         \/ RemoveOld /\ OnDisk(File_, None, Tmp)
         \/ /\ pc \in {"rename", "counted"} /\ (Rename \/ CountRename)
            /\ OnDisk(File_, Tmp, None)
<1>1. CASE Process
  <2>1. CASE WriteAll(Good(File_, batch))
    <3>1. pc \in Writing /\ Good(File_, batch) \in Seq(Nat)
      BY <1>1, ProcessEffect, GoodType DEF Contained, Writing
    <3> QED
      BY <2>1, <3>1, WriteAllEffect
  <2> QED
    BY <1>1, <2>1, ProcessEffect
<1>2. CASE Rest
  BY <1>2, RestEffect
<1>3. CASE Open \/ SourceFails \/ AfterBatchStops \/ RenameFails \/ Count
  BY <1>3, FileSteps
<1>4. CASE Rename \/ CountRename
  BY <1>4, FileSteps DEF Rename, CountRename
<1>5. CASE RemoveOld
  BY <1>5, FileSteps
<1>6. CASE \/ StartTarget \/ Fetch \/ FetchEnds \/ FetchStops \/ AfterBatch \/ Finish
           \/ Failed \/ RunHooks \/ Stop \/ RequestShutdown \/ SetupFails \/ OpenFails
           \/ AutoSave \/ Kill \/ Restart \/ UNCHANGED vars
  BY <1>6 DEF StartTarget, Fetch, FetchEnds, FetchStops, AfterBatch, Finish, Failed,
     RunHooks, Stop, RequestShutdown, SetupFails, OpenFails, AutoSave, Kill, Restart,
     vars, store
<1>7. CASE CountFails \/ Abort \/ Timeout
  BY <1>7, FileSteps DEF Touched
<1>8. CASE FailingWrite
  BY <1>8, FailingWriteEffect
<1> QED
  BY <1>1, <1>2, <1>3, <1>4, <1>5, <1>6, <1>7, <1>8 DEF Next, Export, Over, FailingWrite

LEMMA FilesExactStep ==
  Places /\ Contained /\ Body /\ FilesExact /\ [Next]_vars => FilesExact'
<1> SUFFICES ASSUME Places, Contained, Body, FilesExact, [Next]_vars,
                    NEW f \in Files, disk'[f].final # None
             PROVE  Shown(history[f], Loop, disk'[f].final.msgs, disk'[f].final.failed,
                          disk'[f].final.cut)
  BY SameConfig DEF FilesExact, Loop
<1>1. CASE disk'[f].final = disk[f].final
  BY <1>1 DEF FilesExact
<1>2. CASE /\ pc \in {"rename", "counted"} /\ f = File_ /\ disk'[f].final = Tmp
  BY <1>2 DEF Body, History
<1> QED
  BY <1>1, <1>2, FinalSteps DEF OnDisk, Final

-----------------------------------------------------------------------------
(* Body is kept                                                            *)

LEMMA LoopTypes ==
  ASSUME Places
  PROVE  /\ Mode \in {"pipeline", "prefetch", "batch"} /\ Regular \in BOOLEAN
         /\ BatchSize \in Nat \ {0} /\ (Mode = "batch" => BatchSize = batch_size)
         /\ Mode = "pipeline" => BatchSize = 1 /\ Loop = "pipeline"
<1>1. /\ Mode \in {"pipeline", "prefetch", "batch"}
      /\ Mode = "pipeline" => Loop = "pipeline"
  BY ModeTypes DEF Mode, Loop
<1> QED
  BY <1>1, Sizes DEF BatchSize, Regular

LEMMA SameLoop ==
  ASSUME UNCHANGED <<mode, history, t, c>>
  PROVE  /\ Regular' = Regular /\ Mode' = Mode /\ BatchSize' = BatchSize
         /\ Loop' = Loop /\ File_' = File_ /\ History' = History
<1>1. Regular' = Regular /\ File_' = File_
  BY DEF Regular, File_
<1>2. Mode' = Mode
  BY <1>1 DEF Mode
<1> QED
  BY <1>1, <1>2 DEF BatchSize, Loop, History

\* Batched in terms of a position, where the last batch begins.
LEMMA BatchedAt ==
  ASSUME Places, Contained, Batched, pc \in {"fetch", "process", "after"}
  PROVE  LET done == next - 1 - Len(batch)
         IN  /\ done \in 0 .. Len(History) /\ next - 1 \in 0 .. Len(History)
             /\ Len(History) \in Nat /\ Len(batch) \in Nat
<1>1. File_ \in Files
  BY FileInHand DEF Working, Writing
<1>2. Len(History) \in Nat
  BY <1>1, HistoryTypes DEF History
<1>3. Len(batch) \in Nat /\ next \in Nat \ {0}
  BY DEF Contained
<1> QED
  BY <1>2, <1>3 DEF Batched

LEMMA BodyOpen == ASSUME Places, Contained, UNCHANGED <<mode, history>>, Open PROVE Body'
<1>1. /\ pc' = "fetch" /\ next' = 1 /\ batch' = <<>> /\ buffer' = <<>>
      /\ written' = <<>> /\ UNCHANGED <<t, c>> /\ pc \in Working
  BY DEF Open, Working
<1>2. Tmp' = File(<<>>, 0, FALSE)
  BY <1>1, FileSteps, SameLoop DEF OnDisk, Tmp
<1>3. Tmp'.msgs = <<>> /\ Tmp'.failed = 0 /\ ~Tmp'.cut
  BY <1>2 DEF File
<1>4. Len(History) \in Nat
  BY <1>1, FileInHand, HistoryTypes DEF History
<1>5. Batched'
  <2>1. /\ next' - 1 - Len(batch') = 0 /\ next' - 1 = 0 /\ Len(batch') = 0
        /\ batch' = [i \in 1 .. Len(batch') |-> 0 + i]
    <3>1. Len(<<>>) = 0 /\ <<>> \in Seq(Nat)
      OBVIOUS
    <3>2. next' = 1 /\ Len(batch') = 0
      BY <1>1, <3>1, Zenon
    <3>3. next' - 1 - Len(batch') = 0 /\ next' - 1 = 0
      BY <3>2
    <3>4. <<>> = [i \in 1 .. 0 |-> 0 + i]
      OBVIOUS
    <3> QED
      BY <1>1, <3>2, <3>3, <3>4, Zenon
  <2>2. 0 < BatchSize /\ 0 % batch_size = 0
    BY Sizes, LoopTypes
  <2>3. /\ Kept' = Formatted(History, 0)
        /\ Kept' \o GoodOf(History, batch') = Formatted(History, 0)
    <3>1. Kept' = <<>>
      BY <1>1, <1>3 DEF Kept
    <3> QED
      BY <1>1, <3>1, FormattedZero, NoneMore
  <2>4. Mode = "pipeline" => Holed(History, Loop, Kept', 0, 0)
    <3>1. Kept' = <<>> /\ Formatted(History, 0) = <<>> /\ Range(<<>>) = {}
      BY <1>1, <1>3, FormattedZero DEF Kept, Range
    <3>2. DOMAIN <<>> = {} /\ Len(<<>>) + 0 * buffer_size >= Len(<<>>)
      BY Sizes
    <3> QED
      BY <3>1, <3>2, LoopTypes DEF Holed
  <2> QED
    BY <1>1, <1>3, <1>4, <2>1, <2>2, <2>3, <2>4, SameLoop DEF Batched
<1> QED
  BY <1>1, <1>5 DEF Body

LEMMA BodyFetch ==
  ASSUME Places, Contained, Body, UNCHANGED <<mode, history>>, Fetch PROVE Body'
<1> DEFINE done == next - 1 - Len(batch)
<1>1. /\ pc = "fetch" /\ next <= Len(History) /\ next' = next + 1
      /\ batch' = Append(batch, next) /\ UNCHANGED <<disk, buffer, written, t, c>>
      /\ pc' = IF Len(batch') = BatchSize THEN "process" ELSE "fetch"
  BY DEF Fetch, History, store
<1>2. Batched
  BY <1>1 DEF Body
<1>3. /\ done \in 0 .. Len(History) /\ Len(History) \in Nat /\ next \in Nat \ {0}
      /\ batch \in Seq(Nat) /\ Len(batch) \in Nat /\ BatchSize \in Nat
  BY <1>1, <1>2, BatchedAt, LoopTypes DEF Contained
<1>4. Tmp' = Tmp /\ Kept' = Kept
  BY <1>1, SameLoop DEF Tmp, Kept
<1>5. /\ Len(batch') = Len(batch) + 1 /\ next' - 1 - Len(batch') = done
      /\ next' - 1 = next
  BY <1>1, <1>3
<1>6. batch' = [i \in 1 .. Len(batch') |-> done + i]
  <2>1. \A i \in 1 .. Len(batch) : batch[i] = done + i
    <3> HIDE DEF done
    <3>1. batch = [i \in 1 .. Len(batch) |-> done + i]
      BY <1>2 DEF Batched, done
    <3> QED
      BY <3>1
  <2>2. next = done + Len(batch')
    BY <1>3, <1>5
  <2> HIDE DEF done
  <2>3. ASSUME NEW i \in 1 .. Len(batch') PROVE batch'[i] = done + i
    <3>1. CASE i \in 1 .. Len(batch)
      BY <1>1, <1>3, <2>1, <3>1
    <3>2. CASE i = Len(batch')
      BY <1>1, <1>3, <1>5, <2>2, <3>2
    <3> QED
      BY <1>3, <1>5, <3>1, <3>2
  <2>4. batch' \in Seq(Nat) /\ [i \in 1 .. Len(batch') |-> done + i] \in Seq(Nat)
    BY <1>1, <1>3
  <2> QED
    BY <1>3, <1>5, <2>3, <2>4, SeqEqual
<1>7. Len(batch) < BatchSize /\ (pc' = "fetch" => Len(batch') < BatchSize)
      /\ (pc' # "fetch" => Len(batch') = BatchSize)
  BY <1>1, <1>2, <1>3, <1>5 DEF Batched
<1>8. Tmp.failed = 0 => Kept \o GoodOf(History, batch') = Formatted(History, next)
  <2> SUFFICES ASSUME Tmp.failed = 0
               PROVE  Kept \o GoodOf(History, batch') = Formatted(History, next)
    OBVIOUS
  <2>1. /\ Kept = Formatted(History, done)
        /\ Kept \o GoodOf(History, batch) = Formatted(History, next - 1)
    BY <1>1, <1>2 DEF Batched
  <2>2. done \in Nat
    BY <1>3
  <2> HIDE DEF done
  <2> QED
    BY <1>1, <1>3, <2>1, <2>2, OneMore
<1>9. Batched'
  <2>1. /\ ~Tmp.cut /\ (Tmp.failed = 0 => Kept = Formatted(History, done))
        /\ Tmp.failed # 0 => Mode = "pipeline"
        /\ Mode = "batch" => done % batch_size = 0
        /\ Mode = "pipeline" => Holed(History, Loop, Kept, Tmp.failed, done)
    BY <1>1, <1>2 DEF Batched
  <2>2. done \in Nat /\ pc' # "after"
    BY <1>1, <1>3
  <2> HIDE DEF done
  <2> QED
    BY <1>1, <1>4, <1>5, <1>6, <1>7, <1>8, <2>1, <2>2, SameLoop DEF Batched
<1>10. pc' \notin {"rest", "remove", "rename", "counted"}
  BY <1>1
<1> QED
  BY <1>9, <1>10 DEF Body

\* Where the loop is left, what is written of the chat, with or without the batch in
\* the making, is a prefix; with it, all that the source has yielded.
LEMMA StoppedShown ==
  ASSUME Places, Contained, Batched, pc = "fetch", NEW b \in {<<>>, batch}
  PROVE  /\ Shown(History, Loop, Kept \o GoodOf(History, b), Tmp.failed, TRUE)
         /\ b = batch /\ next - 1 = Len(History) =>
              \A cut \in BOOLEAN :
                Shown(History, Loop, Kept \o GoodOf(History, b), Tmp.failed, cut)
<1> DEFINE done == next - 1 - Len(batch)
<1>1. /\ done \in 0 .. Len(History) /\ next - 1 \in 0 .. Len(History)
      /\ Len(History) \in Nat /\ Len(batch) \in Nat
  BY BatchedAt
<1>2. Tmp \in FileSet /\ buffer \in Seq(Nat) /\ batch \in Seq(Nat) /\ next \in Nat
  BY DEF Contained, Keeping, Inside, Writing
<1>3. Kept \in Seq(Nat)
  BY <1>2, FileParts, ConcatProperties DEF Kept
<1>4. CASE Tmp.failed = 0
  <2>1. /\ Kept = Formatted(History, done)
        /\ Kept \o GoodOf(History, batch) = Formatted(History, next - 1)
    BY <1>4 DEF Batched
  <2> HIDE DEF done
  <2>2. Kept \o GoodOf(History, <<>>) = Formatted(History, done)
    BY <1>1, <2>1, NoneMore
  <2> QED
    BY <1>1, <1>4, <2>1, <2>2, PrefixShown
<1>5. CASE Tmp.failed # 0
  <2>1. /\ Mode = "pipeline" /\ Len(batch) < 1
        /\ Holed(History, Loop, Kept, Tmp.failed, done)
    BY <1>5, LoopTypes DEF Batched
  <2>2. batch = <<>> /\ done = next - 1
    <3>1. Len(batch) = 0
      BY <1>1, <2>1
    <3>2. batch = <<>>
      BY <1>2, <3>1, EmptySeq
    <3> QED
      BY <1>1, <1>2, <3>1, <3>2
  <2>3. Kept \o GoodOf(History, b) = Kept
    BY <1>3, <2>2, GoodOfEmpty, ConcatEmptySeq
  <2> QED
    BY <1>1, <1>5, <2>1, <2>2, <2>3, HoledShown
<1> QED
  BY <1>4, <1>5

LEMMA BodyFetchEnds ==
  ASSUME Places, Contained, Body, UNCHANGED <<mode, history>>, FetchEnds PROVE Body'
<1>1. /\ pc = "fetch" /\ next > Len(History) /\ pc' = "rest"
      /\ UNCHANGED <<disk, next, batch, buffer, written, t, c, shutdown_requested>>
  BY DEF FetchEnds, History, store, place
<1>2. Batched
  BY <1>1 DEF Body
<1>3. next - 1 = Len(History)
  <2>1. next - 1 \in 0 .. Len(History) /\ Len(History) \in Nat
    BY <1>1, <1>2, BatchedAt
  <2>2. next \in Nat
    BY DEF Contained
  <2> QED
    BY <1>1, <2>1, <2>2
<1>4. (Tmp.cut \/ shutdown_requested) \in BOOLEAN
  OBVIOUS
<1>5. Shown(History, Loop, Kept \o GoodOf(History, batch), Tmp.failed,
            Tmp.cut \/ shutdown_requested)
  BY <1>1, <1>2, <1>3, <1>4, StoppedShown
<1>6. Tmp' = Tmp /\ Kept' = Kept
  BY <1>1, SameLoop DEF Tmp, Kept
<1> QED
  BY <1>1, <1>5, <1>6, SameLoop DEF Body

LEMMA BodyFetchStops ==
  ASSUME Places, Contained, Body, UNCHANGED <<mode, history>>, FetchStops PROVE Body'
<1>1. /\ pc = "fetch" /\ shutdown_requested /\ pc' = "rest"
      /\ UNCHANGED <<disk, next, buffer, written, t, c, shutdown_requested>>
      /\ batch' \in {<<>>, batch}
  BY DEF FetchStops, SeesShutdown, store
<1>2. Batched
  BY <1>1 DEF Body
<1>3. Shown(History, Loop, Kept \o GoodOf(History, batch'), Tmp.failed, TRUE)
  BY <1>1, <1>2, StoppedShown
<1>4. Tmp' = Tmp /\ Kept' = Kept
  BY <1>1, SameLoop DEF Tmp, Kept
<1>5. (Tmp.cut \/ shutdown_requested) = TRUE
  BY <1>1
<1> QED
  BY <1>1, <1>3, <1>4, <1>5, SameLoop DEF Body

LEMMA BodySourceFails ==
  ASSUME Places, Contained, Body, UNCHANGED <<mode, history>>, SourceFails, pc' = "rest"
  PROVE  Body'
<1>1. /\ pc = "fetch" /\ batch' = <<>>
      /\ disk' = [disk EXCEPT ![File_].tmp.cut = TRUE]
      /\ UNCHANGED <<next, buffer, written, t, c, shutdown_requested>>
  BY DEF SourceFails
<1>2. Batched
  BY <1>1 DEF Body
<1>3. Tmp' = File(Tmp.msgs, Tmp.failed, TRUE)
  <2>1. File_ \in Files /\ Tmp \in FileSet /\ disk \in [Files -> Stored]
    BY <1>1, FileInHand DEF Working, Writing, Contained, Keeping, Inside
  <2>2. [Tmp EXCEPT !.cut = TRUE] = File(Tmp.msgs, Tmp.failed, TRUE)
        /\ File(Tmp.msgs, Tmp.failed, TRUE) \in FileSet
    BY <2>1, FileChange
  <2>3. disk' = [disk EXCEPT ![File_].tmp = [Tmp EXCEPT !.cut = TRUE]]
    BY <1>1 DEF Tmp
  <2>4. OnDisk(File_, Final, File(Tmp.msgs, Tmp.failed, TRUE))
    BY <2>1, <2>2, <2>3, TmpReplaced DEF Final
  <2> QED
    BY <1>1, <2>4, SameLoop DEF OnDisk, Tmp
<1>4. Tmp'.msgs = Tmp.msgs /\ Tmp'.failed = Tmp.failed /\ Tmp'.cut = TRUE
  BY <1>3 DEF File
<1>5. Kept' = Kept
  BY <1>1, <1>4 DEF Kept
<1>6. Shown(History, Loop, Kept \o GoodOf(History, batch'), Tmp.failed, TRUE)
  BY <1>1, <1>2, StoppedShown
<1>7. (Tmp'.cut \/ shutdown_requested') = TRUE
  BY <1>4
<1> QED
  BY <1>1, <1>4, <1>5, <1>6, <1>7, SameLoop DEF Body

\* A batch of the pipeline is one message.
LEMMA PipelineBatch ==
  ASSUME Places, Contained, Batched, pc = "process", Mode = "pipeline"
  PROVE  /\ batch = <<next - 1>> /\ next - 1 \in Nat \ {0} /\ next - 1 \in DOMAIN History
         /\ Len(batch) = 1 /\ Holed(History, Loop, Kept, Tmp.failed, next - 2)
         /\ (next - 1) - 1 = next - 2 /\ Len(History) \in Nat
<1>1. /\ next - 1 \in 0 .. Len(History) /\ Len(History) \in Nat /\ next \in Nat
      /\ next - 1 - Len(batch) \in Nat
  BY BatchedAt DEF Contained
<1>2. Len(batch) = 1 /\ Len(batch) \in Nat
  BY LoopTypes DEF Batched
<1>3. next - 1 - Len(batch) = next - 2 /\ (next - 1) - 1 = next - 2
  BY <1>1, <1>2
<1>4. next - 1 \in 1 .. Len(History)
  BY <1>1, <1>2, <1>3
<1>5. /\ batch = [i \in 1 .. 1 |-> (next - 2) + i]
      /\ Holed(History, Loop, Kept, Tmp.failed, next - 2)
  BY <1>2, <1>3 DEF Batched
<1>6. batch = <<next - 1>>
  <2>1. (next - 2) + 1 = next - 1
    BY <1>1
  <2>2. [i \in 1 .. 1 |-> (next - 2) + i] = <<(next - 2) + 1>>
    OBVIOUS
  <2> QED
    BY <1>5, <2>1, <2>2
<1>7. DOMAIN History = 1 .. Len(History)
  BY FileInHand, HistoryTypes DEF History, Working, Writing
<1> QED
  BY <1>1, <1>2, <1>3, <1>4, <1>5, <1>6, <1>7

LEMMA OneAtATime ==
  ASSUME Places, Contained, Batched, pc = "process", Mode = "pipeline",
         Good(File_, batch) # <<>>
  PROVE  Good(File_, batch) = <<next - 1>>
<1>1. batch = <<next - 1>> /\ next - 1 \in Nat \ {0} /\ next - 1 \in DOMAIN History
  BY PipelineBatch
<1>2. <<>> \in Seq(Nat) /\ Append(<<>>, next - 1) = <<next - 1>>
      /\ GoodOf(History, <<>>) = <<>>
  BY GoodOfEmpty
<1>3. GoodOf(History, <<next - 1>>) \in {<<>>, <<next - 1>>}
  BY <1>1, <1>2, OneGood
<1> QED
  BY <1>1, <1>3, GoodIsOf

LEMMA BodyProcess ==
  ASSUME Places, Contained, Body, UNCHANGED <<mode, history>>, Process, pc' = "after"
  PROVE  Body'
<1> DEFINE ids  == Good(File_, batch)
           done == next - 1 - Len(batch)
<1>1. /\ pc = "process" /\ pc \in Writing /\ WriteAll(ids)
      /\ UNCHANGED <<next, batch, t, c>>
  BY ProcessEffect DEF Writing
<1>2. Batched /\ Tmp \in FileSet /\ buffer \in Seq(Nat)
  BY <1>1 DEF Body, Contained, Keeping, Inside
<1>3. ids \in Seq(Nat) /\ ids = GoodOf(History, batch)
  BY GoodType, GoodIsOf DEF Contained
<1> HIDE DEF ids
<1>4. PICK out \in Seq(Nat) :
        /\ OnDisk(File_, Final, File(Tmp.msgs \o out, Tmp.failed, Tmp.cut))
        /\ out \o buffer' = buffer \o ids
  BY <1>1, <1>3, WriteAllEffect
<1>5. buffer' \in Seq(Nat)
  BY <1>1, <1>3, WriteAllEffect
<1>6. Tmp' = File(Tmp.msgs \o out, Tmp.failed, Tmp.cut)
  BY <1>1, <1>4, SameLoop DEF OnDisk, Tmp
<1>7. Tmp'.msgs = Tmp.msgs \o out /\ Tmp'.failed = Tmp.failed /\ Tmp'.cut = Tmp.cut
  BY <1>6 DEF File
<1>8. Kept' = Kept \o ids
  <2>1. Tmp.msgs \in Seq(Nat) /\ out \in Seq(Nat)
    BY <1>2, FileParts
  <2>2. (Tmp.msgs \o out) \o buffer' = Tmp.msgs \o (out \o buffer')
    BY <1>5, <2>1, Regroup, Zenon
  <2>3. (Tmp.msgs \o buffer) \o ids = Tmp.msgs \o (buffer \o ids)
    BY <1>2, <1>3, <2>1, Regroup, Zenon
  <2> QED
    BY <1>4, <1>7, <2>2, <2>3 DEF Kept
<1>9. Mode = "pipeline" => Holed(History, Loop, Kept', Tmp.failed, next - 1)
  <2> SUFFICES ASSUME Mode = "pipeline"
               PROVE  Holed(History, Loop, Kept', Tmp.failed, next - 1)
    OBVIOUS
  <2>1. /\ batch = <<next - 1>> /\ next - 1 \in Nat \ {0} /\ next - 1 \in DOMAIN History
        /\ Holed(History, Loop, Kept, Tmp.failed, (next - 1) - 1)
    BY <1>1, <1>2, PipelineBatch
  <2>2. Kept \in Seq(Nat) /\ Tmp.failed \in Nat
    BY <1>2, FileParts, ConcatProperties DEF Kept
  <2> QED
    BY <1>3, <1>8, <2>1, <2>2, HoledMore
<1>10. Batched'
  <2>1. /\ ~Tmp.cut /\ done \in Nat /\ next - 1 <= Len(History)
        /\ batch = [i \in 1 .. Len(batch) |-> done + i]
        /\ Len(batch) = BatchSize /\ (Mode = "batch" => done % batch_size = 0)
        /\ Tmp.failed # 0 => Mode = "pipeline"
        /\ Tmp.failed = 0 => Kept \o ids = Formatted(History, next - 1)
    BY <1>1, <1>2, <1>3 DEF Batched
  <2>2. /\ next' - 1 - Len(batch') = done /\ next' - 1 = next - 1
    BY <1>1
  <2> HIDE DEF done
  <2> QED
    BY <1>1, <1>7, <1>8, <1>9, <2>1, <2>2, SameLoop DEF Batched
<1> QED
  BY <1>10 DEF Body

LEMMA FrontOf ==
  ASSUME NEW s \in Seq(Nat), NEW k \in 0 .. Len(s)
  PROVE  /\ SubSeq(s, 1, k) \in Seq(Nat) /\ Len(SubSeq(s, 1, k)) = k
         /\ \A i \in 1 .. k : SubSeq(s, 1, k)[i] = s[i]
  OBVIOUS

LEMMA Within ==
  ASSUME NEW a \in Nat, NEW k \in Nat, NEW b \in Nat, k <= b, NEW i \in 1 .. a + k
  PROVE  i \in 1 .. a + b
  OBVIOUS

LEMMA JoinOf ==
  ASSUME NEW s \in Seq(Nat), NEW u \in Seq(Nat)
  PROVE  /\ s \o u \in Seq(Nat) /\ Len(s \o u) = Len(s) + Len(u)
         /\ \A i \in 1 .. Len(s) + Len(u) :
              (s \o u)[i] = IF i <= Len(s) THEN s[i] ELSE u[i - Len(s)]
  BY ConcatProperties

\* The flush of a message fails, and the pipeline goes on with the next one.
LEMMA BodyPipelineFails ==
  ASSUME Places, Contained, Body, UNCHANGED <<mode, history>>, PipelineWriteFails
  PROVE  Body'
<1> DEFINE ids == Good(File_, batch)
<1>1. /\ pc = "process" /\ Mode = "pipeline" /\ pc' = "fetch" /\ batch' = <<>>
      /\ pc \in Writing /\ UNCHANGED <<next, t, c>>
      /\ \E i \in DOMAIN ids : WriteFails(ids, i)
  BY DEF PipelineWriteFails, Writing
<1>2. /\ Batched /\ Tmp \in FileSet /\ buffer \in Seq(Nat) /\ Tmp.msgs \in Seq(Nat)
      /\ Tmp.failed \in Nat /\ Kept = Tmp.msgs \o buffer /\ Kept \in Seq(Nat)
  <2>1. Batched /\ Tmp \in FileSet /\ buffer \in Seq(Nat)
    BY <1>1 DEF Body, Contained, Keeping, Inside
  <2> QED
    BY <2>1, FileParts, ConcatProperties DEF Kept
<1>3. /\ batch = <<next - 1>> /\ next - 1 \in Nat \ {0} /\ next - 1 \in DOMAIN History
      /\ Holed(History, Loop, Kept, Tmp.failed, (next - 1) - 1)
      /\ next - 1 <= Len(History)
  BY <1>1, <1>2, PipelineBatch DEF Batched
<1>4. ids \in Seq(Nat) /\ ids = GoodOf(History, batch)
  BY GoodType, GoodIsOf DEF Contained
<1>5. ids = <<next - 1>>
  <2>1. ids # <<>>
    BY <1>1
  <2> QED
    BY <1>1, <1>2, <2>1, OneAtATime
<1> HIDE DEF ids
<1>6. WriteFails(ids, 1) /\ 1 \in DOMAIN ids
  BY <1>1, <1>5
<1>7. /\ Len(buffer) + 1 = buffer_size /\ buffer' = <<>>
      /\ \E k \in 0 .. Len(buffer) + 1 :
           OnDisk(File_, Final, File(Tmp.msgs \o SubSeq(buffer \o ids, 1, k),
                                     Tmp.failed + 1, Tmp.cut))
  BY <1>1, <1>4, <1>6, WriteFailsEffect
<1>8. PICK k \in 0 .. Len(buffer) + 1 :
        OnDisk(File_, Final, File(Tmp.msgs \o SubSeq(buffer \o ids, 1, k),
                                  Tmp.failed + 1, Tmp.cut))
  BY <1>7, Zenon
<1> DEFINE all == buffer \o ids
           part == SubSeq(all, 1, k)
           less == Tmp.msgs \o part
           more == Tmp.msgs \o all
<1>9. /\ Len(ids) = 1 /\ all \in Seq(Nat)
      /\ Len(all) = Len(buffer) + 1 /\ Len(buffer) \in Nat
  BY <1>2, <1>4, <1>5, ConcatProperties
<1>10. /\ part \in Seq(Nat) /\ Len(part) = k
       /\ \A i \in 1 .. k : part[i] = all[i]
  <2> HIDE DEF all
  <2>1. k \in 0 .. Len(all) /\ k \in Nat
    BY <1>9
  <2> QED
    BY <1>9, <2>1, FrontOf
<1>11. /\ less \in Seq(Nat) /\ Len(less) = Len(Tmp.msgs) + k
       /\ \A i \in 1 .. Len(Tmp.msgs) + k :
            less[i] = IF i <= Len(Tmp.msgs) THEN Tmp.msgs[i] ELSE part[i - Len(Tmp.msgs)]
  <2> HIDE DEF all, part
  <2> QED
    BY <1>2, <1>10, JoinOf
<1>12. /\ more \in Seq(Nat) /\ Len(more) = Len(Tmp.msgs) + (Len(buffer) + 1)
       /\ \A i \in 1 .. Len(Tmp.msgs) + (Len(buffer) + 1) :
            more[i] = IF i <= Len(Tmp.msgs) THEN Tmp.msgs[i]
                                            ELSE all[i - Len(Tmp.msgs)]
  <2> HIDE DEF all
  <2>1. Len(Tmp.msgs \o all) = Len(Tmp.msgs) + Len(all)
        /\ (Tmp.msgs \o all) \in Seq(Nat)
        /\ \A i \in 1 .. Len(Tmp.msgs) + Len(all) :
             (Tmp.msgs \o all)[i] = IF i <= Len(Tmp.msgs) THEN Tmp.msgs[i]
                                                          ELSE all[i - Len(Tmp.msgs)]
    BY <1>2, <1>9, JoinOf
  <2>2. Len(all) = Len(buffer) + 1
    BY <1>9
  <2> QED
    BY <2>1, <2>2, Zenon
<1>13. Holed(History, Loop, more, Tmp.failed, next - 1)
  <2>1. Kept \o ids = more
    BY <1>2, <1>4, Regroup, Zenon
  <2> QED
    BY <1>2, <1>3, <1>4, <2>1, HoledMore
<1>14. Holed(History, Loop, less, Tmp.failed + 1, next - 1)
  <2> HIDE DEF all, part, less, more
  <2>1. Len(Tmp.msgs) \in Nat /\ buffer_size \in Nat
    BY <1>2, Sizes
  <2>5. k \in Nat /\ k <= Len(buffer) + 1 /\ Len(buffer) + 1 = buffer_size
    BY <1>7, <1>9
  <2>6. Len(less) = Len(Tmp.msgs) + k /\ Len(more) = Len(Tmp.msgs) + buffer_size
    BY <1>11, <1>12, <2>5
  <2>2. Len(less) <= Len(more) /\ Len(more) <= Len(less) + buffer_size
    BY <2>1, <2>5, <2>6
  <2>3. ASSUME NEW i \in 1 .. Len(less) PROVE less[i] = more[i]
    <3>1. i \in 1 .. Len(Tmp.msgs) + k /\ i \in 1 .. Len(Tmp.msgs) + (Len(buffer) + 1)
      <4>1. i \in 1 .. Len(Tmp.msgs) + k
        BY <2>6
      <4>2. Len(buffer) + 1 \in Nat
        BY <1>9
      <4> QED
        BY <2>1, <2>5, <4>1, <4>2, Within
    <3>2. CASE i <= Len(Tmp.msgs)
      BY <1>11, <1>12, <3>1, <3>2
    <3>3. CASE ~(i <= Len(Tmp.msgs))
      <4>1. i - Len(Tmp.msgs) \in 1 .. k
        BY <2>1, <2>5, <3>1, <3>3
      <4> QED
        BY <1>10, <1>11, <1>12, <3>1, <3>3, <4>1
    <3> QED
      BY <3>2, <3>3
  <2>4. Len(Formatted(History, next - 1)) \in Nat
    BY <1>3, FormattedType
  <2> QED
    BY <1>2, <1>11, <1>12, <1>13, <2>2, <2>3, <2>4, HoledShorter
<1>15. Tmp' = File(less, Tmp.failed + 1, Tmp.cut)
  BY <1>1, <1>8, SameLoop DEF OnDisk, Tmp
<1>16. /\ Tmp'.failed = Tmp.failed + 1 /\ Tmp'.failed # 0 /\ Tmp'.cut = Tmp.cut
       /\ Kept' = less
  <2> HIDE DEF part, less, more
  <2>1. Tmp'.failed = Tmp.failed + 1 /\ Tmp'.msgs = less /\ Tmp'.cut = Tmp.cut
    BY <1>15 DEF File
  <2>2. less \o <<>> = less
    BY <1>11, ConcatEmptySeq
  <2> QED
    BY <1>2, <1>7, <2>1, <2>2 DEF Kept
<1> HIDE DEF part, less, more
<1>17. Batched'
  <2>1. Len(<<>>) = 0 /\ <<>> = [i \in 1 .. 0 |-> (next - 1) + i]
    OBVIOUS
  <2>2. /\ Len(batch') = 0 /\ next' - 1 = next - 1 /\ next' - 1 - Len(batch') = next - 1
        /\ batch' = [i \in 1 .. Len(batch') |-> (next - 1) + i]
    BY <1>1, <1>3, <2>1
  <2>3. 0 < BatchSize /\ ~Tmp.cut
    BY <1>2, LoopTypes DEF Batched
  <2> QED
    BY <1>1, <1>3, <1>14, <1>16, <2>2, <2>3, SameLoop DEF Batched
<1> QED
  BY <1>1, <1>17 DEF Body

LEMMA BodyAfterStops ==
  ASSUME Places, Contained, Body, UNCHANGED <<mode, history>>, AfterBatchStops
  PROVE  Body'
<1>1. /\ pc = "after" /\ shutdown_requested /\ Mode # "pipeline" /\ pc' = "rest"
      /\ Regular \/ Mode = "prefetch"
      /\ batch' = IF Mode = "prefetch" THEN <<>> ELSE batch
      /\ buffer' = <<>> /\ UNCHANGED <<next, written, t, c, shutdown_requested>>
  BY DEF AfterBatchStops, SeesShutdown
<1>2. Batched /\ Tmp \in FileSet /\ buffer \in Seq(Nat)
  BY <1>1 DEF Body, Contained, Keeping, Inside, Writing
<1>3. Tmp' = File(Kept, Tmp.failed, Tmp.cut) /\ Kept \in Seq(Nat)
  <2>1. Tmp' = File(Kept, Tmp.failed, Tmp.cut)
    BY <1>1, FileSteps, SameLoop DEF OnDisk, Tmp, Kept
  <2> QED
    BY <1>2, <2>1, FileParts, ConcatProperties DEF Kept
<1>4. Kept' = Kept /\ Tmp'.failed = 0 /\ Tmp'.cut = Tmp.cut
  <2>1. Tmp'.msgs = Kept /\ Tmp'.failed = Tmp.failed /\ Tmp'.cut = Tmp.cut
    BY <1>3 DEF File
  <2>2. Tmp.failed = 0
    BY <1>1, <1>2 DEF Batched
  <2>3. Kept \o <<>> = Kept
    BY <1>3, ConcatEmptySeq
  <2>4. Kept' = Tmp'.msgs \o buffer'
    BY DEF Kept
  <2> QED
    BY <1>1, <2>1, <2>2, <2>3, <2>4
<1>5. /\ next - 1 \in 0 .. Len(History) /\ Len(History) \in Nat
      /\ Kept = Formatted(History, next - 1)
  <2>1. Tmp.failed = 0
    BY <1>1, <1>2 DEF Batched
  <2> QED
    BY <1>1, <1>2, <2>1, BatchedAt DEF Batched
<1>6. Shown(History, Loop, Kept \o GoodOf(History, batch'), 0, TRUE)
  <2>1. CASE Mode = "prefetch"
    <3>1. Kept \o GoodOf(History, batch') = Formatted(History, next - 1)
      BY <1>1, <1>5, <2>1, NoneMore
    <3> QED
      BY <1>5, <3>1, PrefixShown
  <2>2. CASE Mode # "prefetch"
    <3>1. Mode = "batch" /\ Regular /\ Loop = "batch" /\ batch' = batch
      BY <1>1, <2>2, LoopTypes DEF Mode, Loop
    <3>2. /\ Len(batch) = batch_size /\ (next - 1 - Len(batch)) % batch_size = 0
          /\ batch = [i \in 1 .. Len(batch) |-> (next - 1 - Len(batch)) + i]
          /\ next - 1 - Len(batch) \in Nat
      BY <1>1, <1>2, <3>1, LoopTypes DEF Batched
    <3> QED
      BY <1>5, <3>1, <3>2, RepeatShown
  <2> QED
    BY <2>1, <2>2
<1>7. (Tmp'.cut \/ shutdown_requested') = TRUE
  BY <1>1
<1> QED
  BY <1>1, <1>4, <1>6, <1>7, SameLoop DEF Body

LEMMA BodyAfter ==
  ASSUME Places, Contained, Body, UNCHANGED <<mode, history>>, AfterBatch
  PROVE  Body'
<1>1. /\ pc = "after" /\ pc' = "fetch" /\ batch' = <<>>
      /\ UNCHANGED <<disk, next, buffer, written, t, c>>
  BY DEF AfterBatch
<1>2. Batched
  BY <1>1 DEF Body
<1>3. /\ next - 1 \in Nat /\ next - 1 <= Len(History)
      /\ next - 1 - Len(batch) \in Nat /\ next \in Nat
  <2>1. next - 1 \in 0 .. Len(History) /\ Len(History) \in Nat
    BY <1>1, <1>2, BatchedAt
  <2> QED
    BY <1>2, <2>1 DEF Batched, Contained
<1>4. /\ ~Tmp.cut /\ Len(batch) = BatchSize
      /\ Tmp.failed = 0 => Kept = Formatted(History, next - 1)
      /\ Tmp.failed # 0 => Mode = "pipeline"
      /\ Mode = "pipeline" => Holed(History, Loop, Kept, Tmp.failed, next - 1)
      /\ (Mode = "batch" => (next - 1 - Len(batch)) % batch_size = 0)
  BY <1>1, <1>2 DEF Batched
<1>5. Mode = "batch" => (next - 1) % batch_size = 0
  <2> SUFFICES ASSUME Mode = "batch" PROVE (next - 1) % batch_size = 0
    OBVIOUS
  <2> DEFINE m == next - 1 - Len(batch)
             k == m \div batch_size
  <2>1. m \in Nat /\ m % batch_size = 0 /\ Len(batch) = batch_size
    BY <1>3, <1>4, LoopTypes
  <2>2. next - 1 = m + batch_size
    BY <1>3, <2>1, Sizes
  <2> HIDE DEF m
  <2>3. k \in Nat /\ m = k * batch_size
    BY <2>1, Sizes
  <2> HIDE DEF k
  <2>4. next - 1 = (k + 1) * batch_size
    BY <2>2, <2>3, Sizes
  <2>5. ((k + 1) * batch_size) % batch_size = 0
    BY <2>3, Sizes
  <2> QED
    BY <2>4, <2>5
<1>6. Tmp' = Tmp /\ Kept' = Kept
  BY <1>1, SameLoop DEF Tmp, Kept
<1>7. Batched'
  <2>1. Len(<<>>) = 0 /\ <<>> = [i \in 1 .. 0 |-> (next - 1) + i]
    OBVIOUS
  <2>2. /\ Len(batch') = 0 /\ next' - 1 = next - 1 /\ next' - 1 - Len(batch') = next - 1
        /\ batch' = [i \in 1 .. Len(batch') |-> (next - 1) + i]
    BY <1>1, <1>3, <2>1
  <2>3. 0 < BatchSize
    BY LoopTypes
  <2>4. Tmp.failed = 0 => Kept \o GoodOf(History, <<>>) = Formatted(History, next - 1)
    BY <1>3, <1>4, NoneMore
  <2> QED
    BY <1>1, <1>3, <1>4, <1>5, <1>6, <2>2, <2>3, <2>4, SameLoop DEF Batched
<1> QED
  BY <1>1, <1>7 DEF Body

LEMMA BodyRest ==
  ASSUME Places, Contained, Body, UNCHANGED <<mode, history>>, Rest PROVE Body'
<1> DEFINE ids == Good(File_, batch)
           y   == File(Kept \o ids, Tmp.failed, Tmp.cut \/ shutdown_requested)
<1>1. /\ pc = "rest" /\ pc' = "remove" /\ UNCHANGED <<t, c>> /\ ids \in Seq(Nat)
      /\ OnDisk(File_, Final, y)
  BY RestEffect DEF LeaveSaver
<1>2. Shown(History, Loop, Kept \o ids, Tmp.failed, Tmp.cut \/ shutdown_requested)
  BY <1>1, GoodIsOf DEF Body
<1> HIDE DEF ids
<1>3. Tmp' = y
  BY <1>1, SameLoop DEF OnDisk, Tmp
<1>4. Shown(History, Loop, Tmp'.msgs, Tmp'.failed, Tmp'.cut)
  BY <1>2, <1>3 DEF File
<1> QED
  BY <1>1, <1>4, SameLoop DEF Body

\* The other steps that stay with a file, or leave it.
LEMMA BodyOther ==
  ASSUME Places, Contained, Body, FilesExact, UNCHANGED <<mode, history>>,
         \/ RemoveOld \/ Count \/ RequestShutdown \/ AutoSave \/ UNCHANGED vars
         \/ pc' \notin Writing \cup {"remove", "rename", "counted"}
  PROVE  Body'
<1>1. CASE RemoveOld
  <2>1. pc = "remove" /\ pc' = "rename" /\ UNCHANGED <<t, c>>
    BY <1>1 DEF RemoveOld, place
  <2>2. Tmp' = Tmp
    BY <1>1, <2>1, FileSteps, SameLoop DEF OnDisk, Tmp
  <2> QED
    BY <2>1, <2>2, SameLoop DEF Body
<1>2. CASE Count
  <2>1. pc = "count" /\ pc' = "counted" /\ UNCHANGED <<t, c>>
    BY <1>2 DEF Count, place
  <2>2. Final \in FileSet /\ File_ \in Files
    BY <2>1, FileInHand DEF Contained, Working, Closing
  <2>3. Shown(History, Loop, Final.msgs, Final.failed, Final.cut)
    BY <2>2, FileApart DEF FilesExact, Final, History
  <2>4. Tmp' = Final
    BY <1>2, <2>1, FileSteps, SameLoop DEF OnDisk, Tmp
  <2> QED
    BY <2>1, <2>3, <2>4, SameLoop DEF Body
<1>3. CASE RequestShutdown \/ AutoSave \/ UNCHANGED vars
  <2>1. /\ UNCHANGED <<pc, disk, t, c, next, batch, buffer, written>>
        /\ UNCHANGED shutdown_requested \/ shutdown_requested' = TRUE
    BY <1>3 DEF RequestShutdown, AutoSave, vars, place, store
  <2>2. Tmp' = Tmp /\ Kept' = Kept
    BY <2>1, SameLoop DEF Tmp, Kept
  <2>3. Batched' <=> Batched
    BY <2>1, <2>2, SameLoop DEF Batched
  <2>4. pc = "rest" => Shown(History, Loop, Kept \o GoodOf(History, batch),
                             Tmp.failed, Tmp.cut \/ shutdown_requested')
    <3> SUFFICES ASSUME pc = "rest"
                 PROVE  Shown(History, Loop, Kept \o GoodOf(History, batch),
                              Tmp.failed, Tmp.cut \/ shutdown_requested')
      OBVIOUS
    <3>1. Shown(History, Loop, Kept \o GoodOf(History, batch),
                Tmp.failed, Tmp.cut \/ shutdown_requested)
      BY DEF Body
    <3>2. Len(History) \in Nat
      BY FileInHand, HistoryTypes DEF Working, Writing, History
    <3>3. CASE shutdown_requested' = TRUE
      <4>1. (Tmp.cut \/ shutdown_requested') = TRUE
        BY <3>3
      <4> QED
        BY <3>1, <3>2, <4>1, CutShown
    <3>4. CASE shutdown_requested' = shutdown_requested
      BY <3>1, <3>4
    <3> QED
      BY <2>1, <3>3, <3>4
  <2> QED
    BY <2>1, <2>2, <2>3, <2>4, SameLoop DEF Body
<1>4. CASE pc' \notin Writing \cup {"remove", "rename", "counted"}
  BY <1>4 DEF Body, Writing
<1> QED
  BY <1>1, <1>2, <1>3, <1>4

LEMMA BodyStep ==
  Places /\ Contained /\ Body /\ FilesExact /\ [Next]_vars => Body'
<1> SUFFICES ASSUME Places, Contained, Body, FilesExact, [Next]_vars PROVE Body'
  OBVIOUS
<1>1. UNCHANGED <<mode, history>>
  BY SameConfig
<1>2. CASE \/ Open \/ Fetch \/ FetchEnds \/ FetchStops \/ AfterBatchStops \/ AfterBatch
           \/ Rest
  BY <1>1, <1>2, BodyOpen, BodyFetch, BodyFetchEnds, BodyFetchStops, BodyAfterStops,
     BodyAfter, BodyRest
<1>3. CASE SourceFails \/ Process
  <2>1. (pc' = "rest" /\ SourceFails) \/ (pc' = "after" /\ Process) \/ pc' = "abort"
    BY <1>3, ProcessEffect DEF SourceFails
  <2> QED
    BY <1>1, <2>1, BodySourceFails, BodyProcess, BodyOther DEF Writing
<1>4. CASE \/ RemoveOld \/ Count \/ RequestShutdown \/ AutoSave \/ UNCHANGED vars
  BY <1>1, <1>4, BodyOther
<1>6. CASE FailingWrite
  <2>1. PipelineWriteFails \/ pc' \notin Writing \cup {"remove", "rename", "counted"}
    BY <1>6, FailingWriteEffect DEF Writing
  <2> QED
    BY <1>1, <2>1, BodyPipelineFails, BodyOther
<1>5. CASE \/ StartTarget \/ Rename \/ CountRename \/ Finish \/ Abort \/ Failed \/ RunHooks
           \/ Stop \/ SetupFails \/ OpenFails \/ RenameFails \/ CountFails \/ Timeout \/ Kill \/ Restart
  <2>1. pc' \notin Writing \cup {"remove", "rename", "counted"}
    BY <1>5 DEF StartTarget, Rename, CountRename, Finish, Abort, Failed, RunHooks, Stop,
       SetupFails, OpenFails, RenameFails, CountFails, Timeout, Kill, Restart, TopicDone, NextTarget,
       Writing
  <2> QED
    BY <1>1, <2>1, BodyOther
<1> QED
  BY <1>2, <1>3, <1>4, <1>5, <1>6 DEF Next, Export, Over, FailingWrite

-----------------------------------------------------------------------------
(* The chat files                                                          *)

LEMMA InitContent == Init => ContentInv
<1> SUFFICES ASSUME Init PROVE ContentInv
  OBVIOUS
<1>1. /\ disk = [f \in Files |-> [final |-> None, tmp |-> None]] /\ pc = "target"
      /\ next = 1 /\ batch = <<>> /\ buffer = <<>> /\ written = <<>> /\ timed = FALSE
  BY DEF Init
<1>2. Contained
  <2>1. disk \in [Files -> Stored]
    BY <1>1 DEF Stored
  <2>2. timed \in BOOLEAN
    BY <1>1, Zenon
  <2>3. next \in Nat \ {0} /\ buffer \in Seq(Nat) /\ Len(buffer) < buffer_size
        /\ batch \in Seq(Nat) /\ written \in Seq(Nat)
    BY <1>1, EmptyBuffer
  <2>4. pc \notin Keeping /\ pc \notin {"count", "counted", "finish"}
    BY <1>1 DEF Keeping, Inside, Writing
  <2> QED
    BY <2>1, <2>2, <2>3, <2>4, Zenon DEF Contained
<1>3. Body
  BY <1>1 DEF Body, Writing
<1>4. FilesExact
  BY <1>1 DEF FilesExact
<1> QED
  BY <1>2, <1>3, <1>4 DEF ContentInv

LEMMA ContentInductive ==
  /\ Init => Places /\ ContentInv
  /\ Places /\ ContentInv /\ [Next]_vars => (Places /\ ContentInv)'
  BY InitPlaces, InitContent, PlacesStep, ContainedStep, BodyStep, FilesExactStep
     DEF ContentInv

LEMMA ContentAlways == Spec => [](Places /\ ContentInv)
  BY ContentInductive, PTL DEF Spec

\* What FinalIsExact asks of a file, by the messages in it.
ShownOf(f, x) == Shown(history[f], Loop, x.msgs, x.failed, x.cut)

LEMMA GoodHere == \A f, ids : Good(f, ids) = GoodOf(history[f], ids)
  BY DEF Good, GoodOf

LEMMA ExactShown ==
  ASSUME NEW f, NEW x PROVE Exact(f, x) <=> ShownOf(f, x)
<1>1. \A n : Tells(f, x, n) <=> Whole(history[f], Loop, x.msgs, x.cut, n)
  BY GoodHere, Zenon DEF Tells, Whole, Formatted, Loop
<1>2. \A n : TellsMost(f, x, n) <=> Holed(history[f], Loop, x.msgs, x.failed, n)
  BY GoodHere, Zenon DEF TellsMost, Holed, Formatted, Loop
<1> QED
  BY <1>1, <1>2, Zenon DEF Exact, ShownOf, Shown

LEMMA ShownAsFinal ==
  Places /\ ContentInv => FinalIsExact
  BY ExactShown, Zenon DEF ContentInv, FilesExact, FinalIsExact, ShownOf

\* Whatever is shut down, fails, times out or dies in whatever order, over any number of
\* runs, failing writes, flushes and renames among them: a chat file under its own name
\* tells every formatted message of the chat once and in order, unless a shutdown or the
\* swallowed failure of a source cut it short; then it is a prefix, after which the
\* regular batch loop may have written its last batch twice.  A write that failed in the
\* pipeline (pipeline.py goes on with the next message) has taken at most a buffer of
\* messages away, none of those left is changed, repeated or out of order, and no other
\* loop finishes such a file.
THEOREM FinalIsExactAlways == Spec => []FinalIsExact
  BY ContentAlways, ShownAsFinal, PTL

\* A step that changes a temporary file: what writes it, renames it or copies to it.
LEMMA TmpSteps ==
  ASSUME Places, Contained, [Next]_vars
  PROVE  \/ UNCHANGED disk \/ pc \in Inside \cup {"count"}
         \/ Open \/ RemoveOld \/ Rename \/ CountRename \/ RenameFails
<1>1. CASE Process \/ Rest \/ SourceFails \/ AfterBatchStops \/ Count \/ FailingWrite
           \/ Abort
  BY <1>1 DEF Process, Rest, SourceFails, AfterBatchStops, Count, FailingWrite, Abort,
     PipelineWriteFails, BatchWriteFails, AfterBatchFails, LeaveFails, Inside, Writing
<1>2. CASE \/ StartTarget \/ Fetch \/ FetchEnds \/ FetchStops \/ AfterBatch \/ Finish
           \/ Failed \/ RunHooks \/ Stop \/ RequestShutdown \/ SetupFails \/ OpenFails
           \/ AutoSave \/ Kill \/ Restart \/ UNCHANGED vars
  BY <1>2 DEF StartTarget, Fetch, FetchEnds, FetchStops, AfterBatch, Finish, Failed,
     RunHooks, Stop, RequestShutdown, SetupFails, OpenFails, AutoSave, Kill, Restart,
     vars, store
<1>3. CASE CountFails \/ Timeout
  BY <1>3 DEF CountFails, Timeout, CopyBreaks, Inside, Writing
<1> QED
  BY <1>1, <1>2, <1>3 DEF Next, Export, Over, FailingWrite

\* The body of the saver is entered by opening the file.
LEMMA InsideSteps ==
  ASSUME Places, Contained, [Next]_vars, pc' \in Inside
  PROVE  UNCHANGED <<t, c>> /\ (pc \in Inside \/ Open)
<1>1. CASE Process
  BY <1>1, ProcessEffect DEF Inside, Writing
<1>2. CASE Rest
  BY <1>2, RestEffect DEF LeaveSaver, Inside, Writing
<1>3. CASE FailingWrite
  BY <1>3, FailingWriteEffect DEF Inside
<1>4. CASE \/ Open \/ Fetch \/ FetchEnds \/ FetchStops \/ SourceFails \/ AfterBatchStops
           \/ AfterBatch \/ RequestShutdown \/ AutoSave \/ UNCHANGED vars
  BY <1>4 DEF Open, Fetch, FetchEnds, FetchStops, SourceFails, AfterBatchStops,
     AfterBatch, RequestShutdown, AutoSave, vars, place, Inside, Writing
<1>5. CASE \/ StartTarget \/ RemoveOld \/ Rename \/ Count \/ CountRename \/ Finish
           \/ Abort \/ Failed \/ RunHooks \/ Stop \/ SetupFails \/ OpenFails
           \/ RenameFails \/ CountFails \/ Timeout \/ Kill \/ Restart
  BY <1>5 DEF StartTarget, RemoveOld, Rename, Count, CountRename, Finish, Abort, Failed,
     RunHooks, Stop, SetupFails, OpenFails, RenameFails, CountFails, Timeout, Kill,
     Restart, TopicDone, NextTarget, Inside, Writing
<1> QED
  BY <1>1, <1>2, <1>3, <1>4, <1>5 DEF Next, Export, Over, FailingWrite

\* A file that is finished.
Finished(f, x) == x # None /\ ShownOf(f, x)

LEMMA SafeFinished ==
  ASSUME NEW f
  PROVE  Safe(f) <=> \/ Finished(f, disk[f].final)
                     \/ Finished(f, disk[f].tmp) /\ ~(pc \in Inside /\ f = File_)
<1>1. InBody(f) <=> pc \in Inside /\ f = File_
  BY DEF InBody, Inside, Writing
<1> QED
  BY <1>1, ExactShown, Zenon DEF Safe, Finished

LEMMA CopyStep ==
  ASSUME Places, Contained, Body, FilesExact, FilesExact', [Next]_vars,
         NEW f \in Files,
         \/ disk[f].final # None
         \/ Finished(f, disk[f].tmp) /\ ~(pc \in Inside /\ f = File_),
         disk'[f].final = None,
         ~(Finished(f, disk'[f].tmp) /\ ~(pc' \in Inside /\ f = File_'))
  PROVE  /\ f = File_
         /\ \/ pc = "rename" /\ pc' = "failed"
            \/ pc = "open" /\ disk[f].final = None
<1>1. CASE disk[f].final # None
  <2>1. RemoveOld /\ f = File_ /\ disk'[f].tmp = Tmp
    <3>1. CASE pc \in {"rename", "counted"} /\ OnDisk(File_, Tmp, None)
      <4>1. Tmp # None
        BY <3>1, FileApart DEF Contained, Keeping
      <4> QED
        BY <1>1, <3>1, <4>1 DEF OnDisk
    <3> QED
      BY <1>1, <3>1, FinalSteps DEF OnDisk, Final
  <2>2. pc = "remove" /\ pc' = "rename" /\ Tmp \in FileSet
        /\ Shown(History, Loop, Tmp.msgs, Tmp.failed, Tmp.cut)
    BY <2>1 DEF RemoveOld, Contained, Keeping, Body
  <2>3. Finished(f, disk'[f].tmp)
    BY <2>1, <2>2, FileApart DEF Finished, ShownOf, History
  <2>4. pc' \notin Inside
    BY <2>2 DEF Inside, Writing
  <2> QED
    BY <2>3, <2>4
<1>2. CASE disk[f].final = None
  <2>1. Finished(f, disk[f].tmp) /\ ~(pc \in Inside /\ f = File_)
    BY <1>2
  <2>2. CASE disk'[f].tmp = disk[f].tmp
    <3>1. pc' \in Inside /\ f = File_'
      BY <2>1, <2>2
    <3>2. f = File_ /\ Open
      BY <2>1, <3>1, InsideSteps, SameFile
    <3> QED
      BY <1>2, <3>2 DEF Open
  <2>3. CASE disk'[f].tmp # disk[f].tmp
    <3>1. f = File_
      BY <2>3, FinalSteps DEF OnDisk
    <3>2. pc # "count"
      BY <1>2, <3>1, FileApart DEF Contained, Final
    <3>3. CASE Open
      BY <1>2, <3>1, <3>3 DEF Open
    <3>4. CASE RenameFails
      BY <3>1, <3>4 DEF RenameFails
    <3>5. CASE Rename \/ CountRename
      <4>1. disk'[f].final = disk[f].tmp
        BY <3>1, <3>5, FileSteps DEF OnDisk, Tmp
      <4> QED
        BY <2>1, <4>1 DEF Finished
    <3>6. CASE RemoveOld
      BY <2>3, <3>1, <3>6, FileSteps DEF OnDisk, Tmp
    <3> QED
      BY <2>1, <2>3, <3>1, <3>2, <3>3, <3>4, <3>5, <3>6, TmpSteps
  <2> QED
    BY <2>2, <2>3
<1> QED
  BY <1>1, <1>2

\* Once a chat has been exported, a finished copy of it is under its name or, between the
\* removal of the old file and the rename, in the temporary file beside it
\* (AsyncBufferedSaver's __aexit__, _update_message_count), whatever fails, times out or
\* dies, and whatever the next runs do.  Two steps may lose it: the rename that fails
\* after the old file has been removed, and the opening of the .tmp file in which a
\* timeout or kill at that moment has left it.
THEOREM CopyAlwaysStays == Spec => CopyStays
<1> DEFINE Step == \A f \in Files :
                     Safe(f) /\ ~Safe(f)' =>
                       /\ f = File_
                       /\ \/ pc = "rename" /\ pc' = "failed"
                          \/ pc = "open" /\ disk[f].final = None
<1>1. Places /\ ContentInv /\ (Places /\ ContentInv)' /\ [Next]_vars => Step
  <2> SUFFICES ASSUME Places, ContentInv, ContentInv', [Next]_vars, NEW f \in Files,
                      Safe(f), ~Safe(f)'
               PROVE  /\ f = File_
                      /\ \/ pc = "rename" /\ pc' = "failed"
                         \/ pc = "open" /\ disk[f].final = None
    OBVIOUS
  <2>1. Contained /\ Body /\ FilesExact /\ FilesExact'
    BY DEF ContentInv
  <2>2. UNCHANGED <<mode, history>>
    BY SameConfig
  <2>3. \/ disk[f].final # None
        \/ Finished(f, disk[f].tmp) /\ ~(pc \in Inside /\ f = File_)
    BY SafeFinished DEF Finished
  <2>4. ~( \/ Finished(f, disk[f].final)
           \/ Finished(f, disk[f].tmp) /\ ~(pc \in Inside /\ f = File_))'
    <3>1. (Safe(f) <=> \/ Finished(f, disk[f].final)
                       \/ Finished(f, disk[f].tmp) /\ ~(pc \in Inside /\ f = File_))'
      BY SafeFinished, PTL
    <3> QED
      BY <3>1
  <2>5. disk'[f].final = None
    BY <2>1, <2>4 DEF FilesExact, Finished, ShownOf
  <2>6. ~(Finished(f, disk'[f].tmp) /\ ~(pc' \in Inside /\ f = File_'))
    BY <2>2, <2>4 DEF Finished, ShownOf, Loop
  <2> QED
    BY <2>1, <2>3, <2>5, <2>6, CopyStep
<1>2. (Places /\ ContentInv) /\ (Places /\ ContentInv)' /\ [Next]_vars => [Step]_vars
  BY <1>1
<1> QED
  BY <1>2, ContentAlways, PTL DEF Spec, CopyStays

\* Types: the places of the code, the progress of each target, the files.
THEOREM ExportTypes == Spec => []TypeOK
<1>1. Places /\ ContentInv => TypeOK
  <2> SUFFICES ASSUME Places, Contained PROVE TypeOK
    BY DEF ContentInv
  <2>1. ASSUME NEW f \in Files, NEW x \in Range(disk[f]) PROVE x = None \/ Saved(x)
    <3>1. disk[f] \in Stored
      BY DEF Contained
    <3>2. x \in FileSet \cup {None}
      BY <2>1, <3>1 DEF Stored, Range
    <3> QED
      BY <3>2 DEF FileSet, Saved
  <2>2. pc \notin {"end", "hooked", "unhooked"} \cup Ended => pc \in Working
    BY DEF Places, PCs, Ended, Working, Writing, Closing
  <2>3. hooks \subseteq 1 .. t
    BY TargetTypes DEF Places
  <2>4. \A x \in TargetIds : {last[x], pending[x], cached[x], saved[x]}
                              \subseteq Nat \cup {NoEntity}
    BY DEF Places, Recorded, Entries
  <2> QED
    BY <2>1, <2>2, <2>3, <2>4 DEF TypeOK, Places
<1> QED
  BY <1>1, ContentAlways, PTL

-----------------------------------------------------------------------------
(* The progress                                                            *)

\* How the step changes what is queued and cached of a target that is over.
LEMMA QueuedStays ==
  ASSUME Recorded, NEW x \in TargetIds, pending[x] = NoEntity
  PROVE  /\ Flushed(pending)[x] = cached[x]
         /\ \A y \in TargetIds \ {x} : Queue(y) => UNCHANGED <<cached[x], pending[x]>>
<1>1. Flushed(pending)[x] = cached[x]
  BY DEF Flushed
<1>2. ASSUME NEW y \in TargetIds \ {x}, Queue(y)
      PROVE  UNCHANGED <<cached[x], pending[x]>>
  <2> DEFINE p == [pending EXCEPT ![y] = last[y]]
  <2>1. p[x] = NoEntity
    BY DEF Recorded
  <2>2. \/ cached' = Flushed(p) /\ pending' = [z \in TargetIds |-> NoEntity]
        \/ pending' = p /\ UNCHANGED cached
    BY <1>2 DEF Queue
  <2> HIDE DEF p
  <2> QED
    BY <2>1, <2>2 DEF Flushed
<1> QED
  BY <1>1, <1>2

\* What a step appends to the results.
LEMMA ResultSteps ==
  ASSUME Places, Contained, [Next]_vars
  PROVE  \/ UNCHANGED <<t, results>>
         \/ results' = <<>> /\ t' = 1
         \/ /\ pc \in Working /\ NextTarget(0)
         \/ /\ pc \in Working /\ NextTarget(messages)
            /\ (pc = "finish" /\ Finish) \/ ~Regular
<1>1. CASE \/ SetupFails \/ Finish \/ Failed \/ Timeout \/ Rename
  BY <1>1 DEF SetupFails, Finish, Failed, Timeout, Rename, TopicDone, Working, Writing,
     Closing
<1>2. CASE Restart
  BY <1>2 DEF Restart
<1>3. CASE Process \/ Rest
  <2>1. CASE Process
    BY <2>1 DEF Process, PipelineMessage, PrefetchedBatch, PrefetchedTopicBatch,
       TopicBatch, RegularBatch, ProcessBatch
  <2>2. CASE Rest
    BY <2>2 DEF Rest, RegularRest, TopicRest, LastBatch, LeaveSaver
  <2> QED
    BY <1>3, <2>1, <2>2
<1>4. CASE \/ StartTarget \/ Open \/ Fetch \/ FetchEnds \/ FetchStops \/ AfterBatchStops
           \/ AfterBatch \/ RemoveOld \/ Count \/ CountRename \/ Abort \/ OpenFails
  BY <1>4 DEF StartTarget, Open, Fetch, FetchEnds, FetchStops, AfterBatchStops, AfterBatch,
     RemoveOld, Count, CountRename, Abort, OpenFails, place, progress
<1>5. CASE \/ RunHooks \/ Stop \/ RequestShutdown \/ SourceFails \/ RenameFails
           \/ CountFails \/ AutoSave \/ Kill \/ UNCHANGED vars
  BY <1>5 DEF RunHooks, Stop, RequestShutdown, SourceFails, RenameFails, CountFails,
     AutoSave, Kill, vars, place, progress
<1>6. CASE FailingWrite
  BY <1>6, FailingWriteEffect
<1> QED
  BY <1>1, <1>2, <1>3, <1>4, <1>5, <1>6 DEF Next, Export, Over, FailingWrite

\* What a step does to the progress of the targets: of those before the one in hand,
\* nothing of `last`; what is cached or queued of them only by way of what is queued.
LEMMA ProgressSteps ==
  ASSUME Places, Contained, [Next]_vars, ~Restart
  PROVE  /\ \A x \in TargetIds : x # t => last'[x] = last[x]
         /\ hooks' \subseteq hooks \cup {t}
         /\ \/ UNCHANGED <<cached, pending>>
            \/ Queue(t) /\ t \in TargetIds
            \/ Finish
            \/ /\ SetupFails \/ Failed
               /\ UNCHANGED pending /\ \A x \in TargetIds : x # t => cached'[x] = cached[x]
            \/ /\ RunHooks /\ UNCHANGED pending
               /\ cached' = [x \in TargetIds |-> SavedOnShutdown(x)]
<1>1. Recorded
  BY DEF Places
<1>2. CASE Process
  <2>1. UNCHANGED <<cached, pending, hooks>>
    BY <1>2, ProcessEffect
  <2>2. CASE WriteAll(Good(File_, batch))
    <3>1. pc \in Writing /\ Good(File_, batch) \in Seq(Nat)
      BY <1>2, ProcessEffect, GoodType DEF Contained, Writing
    <3> QED
      BY <2>1, <2>2, <3>1, WriteAllEffect DEF Counted
  <2> QED
    BY <1>2, <2>1, <2>2, ProcessEffect
<1>3. CASE Rest
  BY <1>3, RestEffect DEF LeaveSaver, Counted
<1>4. CASE StartTarget
  <2>1. UNCHANGED <<cached, pending>> /\ hooks' \subseteq hooks \cup {t}
    BY <1>4 DEF StartTarget, store
  <2>2. last' = last \/ last' = [last EXCEPT ![t] = 0]
    BY <1>4 DEF StartTarget
  <2> QED
    BY <1>1, <2>1, <2>2 DEF Recorded
<1>5. CASE AfterBatch
  <2>1. t \in TargetIds
    BY <1>5, FileInHand DEF AfterBatch, Working, Writing
  <2> QED
    BY <1>5, <2>1 DEF AfterBatch
<1>6. CASE SetupFails \/ Failed
  <2>1. UNCHANGED <<pending, hooks>>
    BY <1>6 DEF SetupFails, Failed
  <2>2. last' = last \/ last' = [last EXCEPT ![t] = 0]
    BY <1>6 DEF SetupFails, Failed
  <2>3. \/ cached' = cached \/ cached' = [cached EXCEPT ![t] = 0]
        \/ cached' = [cached EXCEPT ![t] = last[t]]
    BY <1>6 DEF SetupFails, Failed
  <2> QED
    BY <1>1, <1>6, <2>1, <2>2, <2>3 DEF Recorded
<1>7. CASE Finish
  BY <1>7 DEF Finish
<1>8. CASE RunHooks
  BY <1>8 DEF RunHooks, progress
<1>9. CASE \/ Open \/ Fetch \/ FetchEnds \/ FetchStops \/ AfterBatchStops
           \/ RemoveOld \/ Rename \/ Count \/ CountRename \/ Abort \/ OpenFails
  BY <1>9 DEF Open, Fetch, FetchEnds, FetchStops, AfterBatchStops, RemoveOld, Rename, Count,
     CountRename, Abort, OpenFails, progress, store
<1>10. CASE \/ Stop \/ RequestShutdown \/ SourceFails \/ RenameFails \/ CountFails
            \/ Timeout \/ AutoSave \/ Kill \/ UNCHANGED vars
  BY <1>10 DEF Stop, RequestShutdown, SourceFails, RenameFails, CountFails, Timeout,
     AutoSave, Kill, progress, store, vars
<1>11. CASE FailingWrite
  BY <1>11, FailingWriteEffect
<1> QED
  BY <1>2, <1>3, <1>4, <1>5, <1>6, <1>7, <1>8, <1>9, <1>10, <1>11
     DEF Next, Export, Over, FailingWrite

LEMMA AppendKeeps ==
  ASSUME NEW s \in Seq(Nat), NEW n \in Nat
  PROVE  /\ \A i \in 1 .. Len(s) : Append(s, n)[i] = s[i]
         /\ Append(s, n)[Len(s) + 1] = n
  OBVIOUS

\* A target that was counted keeps its progress.
LEMMA CountedKept ==
  ASSUME Places, Contained, Progress, [Next]_vars
  PROVE  \A x \in hooks' : x < t' /\ results'[x] > 0 =>
           cached'[x] = last'[x] /\ pending'[x] = NoEntity
<1> SUFFICES ASSUME NEW x \in hooks', x < t', results'[x] > 0
             PROVE  cached'[x] = last'[x] /\ pending'[x] = NoEntity
  OBVIOUS
<1>1. ~Restart
  BY DEF Restart
<1>2. Places' /\ x \in TargetIds /\ ~Targets[x].forum
  BY PlacesStep DEF Places
<1>3. Recorded /\ Recorded' /\ t \in Nat
  BY <1>2 DEF Places
<1>4. CASE x = t
  <2>1. /\ pc \in Working /\ NextTarget(messages) /\ Finish
    <3>1. Regular
      BY <1>2, <1>4 DEF Regular
    <3>2. t' # t
      BY <1>3, <1>4
    <3>3. ~(results' = <<>> /\ t' = 1)
      BY <1>2, <1>3, <1>4, TargetTypes
    <3>4. NextTarget(0) => results'[x] = 0
      BY <1>4 DEF NextTarget, Places
    <3> QED
      BY <3>1, <3>2, <3>3, <3>4, ResultSteps
  <2>2. /\ cached' = [Flushed(pending) EXCEPT ![t] = last[t]] /\ last' = last
        /\ pending' = [y \in TargetIds |-> NoEntity]
    BY <2>1 DEF Finish
  <2>3. Flushed(pending) \in [TargetIds -> Entries]
    BY <1>3, FlushedType DEF Recorded
  <2> QED
    BY <1>2, <1>4, <2>2, <2>3
<1>5. CASE x # t
  <2>1. x \in hooks /\ last'[x] = last[x]
    BY <1>1, <1>2, <1>5, ProgressSteps
  <2>2. x < t /\ results[x] > 0
    <3>1. x \in Nat /\ x <= t
      <4>1. x \in TargetIds /\ x <= t
        BY <1>2, <2>1, Zenon DEF Places
      <4> QED
        BY <4>1, TargetTypes
    <3>2. x < t
      BY <1>3, <1>5, <3>1
    <3>3. CASE UNCHANGED results
      BY <3>2, <3>3
    <3>4. CASE NextTarget(0) \/ NextTarget(messages)
      <4>1. /\ results \in Seq(Nat) /\ messages \in Nat /\ 0 \in Nat
            /\ Len(results) = t - 1 /\ x \in Nat \ {0}
        BY <1>2, TargetTypes DEF Places
      <4>2. x \in 1 .. Len(results)
        BY <1>3, <3>2, <4>1
      <4>3. PICK n \in Nat : results' = Append(results, n)
        BY <3>4, <4>1 DEF NextTarget
      <4>4. results'[x] = results[x]
        BY <4>1, <4>2, <4>3, AppendKeeps, Zenon
      <4> QED
        BY <3>2, <4>4
    <3>5. CASE results' = <<>> /\ t' = 1
      BY <1>2, <3>5, TargetTypes
    <3> QED
      BY <3>3, <3>4, <3>5, ResultSteps
  <2>3. cached[x] = last[x] /\ pending[x] = NoEntity
    BY <2>1, <2>2 DEF Progress
  <2>4. CASE UNCHANGED <<cached, pending>>
    BY <2>1, <2>3, <2>4
  <2>5. CASE Queue(t) /\ t \in TargetIds
    BY <1>2, <1>3, <1>5, <2>1, <2>3, <2>5, QueuedStays
  <2>6. CASE Finish
    <3>1. /\ cached' = [Flushed(pending) EXCEPT ![t] = last[t]]
          /\ pending' = [y \in TargetIds |-> NoEntity]
      BY <2>6 DEF Finish
    <3>2. Flushed(pending) \in [TargetIds -> Entries] /\ Flushed(pending)[x] = cached[x]
      BY <1>2, <1>3, <2>3, FlushedType, QueuedStays DEF Recorded
    <3> QED
      BY <1>2, <1>5, <2>1, <2>3, <3>1, <3>2
  <2>7. CASE UNCHANGED pending /\ cached'[x] = cached[x]
    BY <2>1, <2>3, <2>7
  <2>8. CASE UNCHANGED pending /\ cached' = [y \in TargetIds |-> SavedOnShutdown(y)]
    BY <1>2, <2>1, <2>3, <2>8 DEF SavedOnShutdown
  <2> QED
    BY <1>1, <1>2, <1>5, <2>4, <2>5, <2>6, <2>7, <2>8, ProgressSteps
<1> QED
  BY <1>4, <1>5

LEMMA ProgressStep == Places /\ Contained /\ Progress /\ [Next]_vars => Progress'
<1> SUFFICES ASSUME Places, Contained, Progress, [Next]_vars PROVE Progress'
  OBVIOUS
<1>1. pc' \in {"hooked", "drained"} => \A x \in hooks' : cached'[x] = last'[x]
  <2> SUFFICES ASSUME pc' \in {"hooked", "drained"}, NEW x \in hooks'
               PROVE  cached'[x] = last'[x]
    OBVIOUS
  <2>1. /\ UNCHANGED <<last, hooks>>
        /\ \/ RunHooks /\ cached' = [y \in TargetIds |-> SavedOnShutdown(y)]
           \/ pc \in {"hooked", "drained"} /\ UNCHANGED cached
    <3>1. CASE RunHooks \/ Stop
      BY <3>1 DEF RunHooks, Stop, progress
    <3>2. CASE RequestShutdown \/ AutoSave \/ UNCHANGED vars
      BY <3>2 DEF RequestShutdown, AutoSave, vars, progress, store
    <3>3. CASE Process \/ Rest
      BY <3>3, ProcessEffect, RestEffect DEF LeaveSaver
    <3>4. CASE \/ StartTarget \/ Open \/ Fetch \/ FetchEnds \/ FetchStops
               \/ AfterBatchStops \/ AfterBatch \/ RemoveOld \/ Rename \/ Count
               \/ CountRename \/ Finish \/ Abort \/ Failed
      BY <3>4 DEF StartTarget, Open, Fetch, FetchEnds, FetchStops, AfterBatchStops,
         AfterBatch, RemoveOld, Rename, Count, CountRename, Finish, Abort, Failed,
         TopicDone, NextTarget
    <3>5. CASE \/ SetupFails \/ OpenFails \/ SourceFails \/ RenameFails \/ CountFails
               \/ Timeout \/ Kill \/ Restart
      BY <3>5 DEF SetupFails, OpenFails, SourceFails, RenameFails, CountFails, Timeout,
         Kill, Restart, NextTarget
    <3>6. CASE FailingWrite
      BY <3>6, FailingWriteEffect
    <3> QED
      BY <3>1, <3>2, <3>3, <3>4, <3>5, <3>6 DEF Next, Export, Over, FailingWrite
  <2>2. CASE RunHooks /\ cached' = [y \in TargetIds |-> SavedOnShutdown(y)]
    BY <2>1, <2>2 DEF SavedOnShutdown, Places
  <2>3. CASE pc \in {"hooked", "drained"} /\ UNCHANGED cached
    BY <2>1, <2>3 DEF Progress
  <2> QED
    BY <2>1, <2>2, <2>3
<1>2. pc' \in {"drained", "stopped"} => saved' = cached'
  <2> SUFFICES ASSUME pc' \in {"drained", "stopped"} PROVE saved' = cached'
    OBVIOUS
  <2>1. CASE Stop \/ AutoSave
    BY <2>1 DEF Stop, AutoSave
  <2>2. CASE RequestShutdown \/ UNCHANGED vars
    BY <2>2 DEF RequestShutdown, vars, store, Progress
  <2>3. CASE Process \/ Rest
    BY <2>3, ProcessEffect, RestEffect DEF LeaveSaver
  <2>4. CASE \/ StartTarget \/ Open \/ Fetch \/ FetchEnds \/ FetchStops
             \/ AfterBatchStops \/ AfterBatch \/ RemoveOld \/ Rename \/ Count
             \/ CountRename \/ Finish \/ Abort \/ Failed
    BY <2>4 DEF StartTarget, Open, Fetch, FetchEnds, FetchStops, AfterBatchStops,
       AfterBatch, RemoveOld, Rename, Count, CountRename, Finish, Abort, Failed,
       TopicDone, NextTarget
  <2>5. CASE \/ SetupFails \/ OpenFails \/ SourceFails \/ RenameFails \/ CountFails
             \/ Timeout \/ Kill \/ Restart \/ RunHooks
    BY <2>5 DEF SetupFails, OpenFails, SourceFails, RenameFails, CountFails, Timeout, Kill,
       Restart, RunHooks, NextTarget
  <2>6. CASE FailingWrite
    BY <2>6, FailingWriteEffect
  <2> QED
    BY <2>1, <2>2, <2>3, <2>4, <2>5, <2>6 DEF Next, Export, Over, FailingWrite
<1> QED
  BY <1>1, <1>2, CountedKept DEF Progress

\* After a graceful end the cache file holds the progress of every regular target that
\* was finished, and after a requested shutdown of every one that was begun, whatever was
\* queued, flushed in part or cut short on the way (_queue_cache_update,
\* _flush_cache_batch, _save_progress_on_shutdown, core_manager.shutdown).
THEOREM ProgressIsAlwaysSaved == Spec => []ProgressIsSaved
<1>1. Init => Progress
  BY DEF Init, Progress
<1>2. (Places /\ ContentInv) /\ Progress /\ [Next]_vars => Progress'
  BY ProgressStep DEF ContentInv
<1>3. (Places /\ ContentInv) /\ Progress => ProgressIsSaved
  <2> SUFFICES ASSUME Places, Progress, NEW x \in hooks,
                      pc = "drained" \/ (pc = "stopped" /\ results[x] > 0)
               PROVE  saved[x] = last[x]
    BY DEF ProgressIsSaved
  <2>1. saved = cached
    BY DEF Progress
  <2>2. x \in 1 .. Len(Targets) /\ t = Len(Targets) + 1
    BY TargetTypes DEF Places, AtEnd
  <2>3. x < t
    BY <2>2, TargetTypes
  <2> QED
    BY <2>1, <2>3 DEF Progress
<1> QED
  BY <1>1, <1>2, <1>3, ContentAlways, PTL DEF Spec

-----------------------------------------------------------------------------
(* The results                                                             *)

\* The file of a target that is over keeps what is under its name.
LEMMA OverStays ==
  ASSUME OwnFiles, Places, Contained, [Next]_vars,
         NEW x \in TargetIds, x < t, ~Targets[x].forum
  PROVE  LET f == Targets[x].chats[1]
         IN  f \in Files /\ disk'[f].final = disk[f].final
<1> DEFINE f == Targets[x].chats[1]
<1>1. f \in Files
  BY TargetTypes
<1>2. pc \in Working => f # File_
  <2> SUFFICES ASSUME pc \in Working PROVE f # File_
    OBVIOUS
  <2>1. t \in TargetIds /\ c \in DOMAIN Targets[t].chats
    BY DEF Places
  <2>2. f \notin Range(Targets[t].chats)
    BY <2>1 DEF OwnFiles
  <2>3. File_ \in Range(Targets[t].chats)
    BY <2>1 DEF File_, Range
  <2> QED
    BY <2>2, <2>3
<1> HIDE DEF f
<1>3. disk'[f].final = disk[f].final
  <2>1. CASE UNCHANGED disk
    BY <2>1
  <2>2. CASE \E y : OnDisk(File_, Final, y)
    BY <1>1, <2>2 DEF OnDisk, Final
  <2>3. CASE OnDisk(File_, None, Tmp) /\ RemoveOld
    BY <1>1, <1>2, <2>3 DEF OnDisk, RemoveOld, Working, Closing
  <2>4. CASE OnDisk(File_, Tmp, None) /\ pc \in {"rename", "counted"}
    BY <1>1, <1>2, <2>4 DEF OnDisk, Working, Closing
  <2> QED
    BY <2>1, <2>2, <2>3, <2>4, FinalSteps
<1> QED
  BY <1>1, <1>3 DEF f

\* The number of messages counted, when m more are counted and written, and when a part
\* of a full buffer and a message that is not counted is lost.
LEMMA OffMore ==
  ASSUME NEW n \in Nat, NEW k \in Nat, NEW failed \in Nat, NEW m \in Nat,
         Off(n, k, failed)
  PROVE  Off(n + m, k + m, failed)
<1>1. failed * (buffer_size - 1) \in Nat
  BY Sizes
<1> DEFINE p == failed * (buffer_size - 1)
<1> HIDE DEF p
<1>2. p \in Nat /\ k <= n + failed /\ n <= k + p
  BY <1>1 DEF Off, p
<1>3. k + m <= (n + m) + failed /\ n + m <= (k + m) + p
  BY <1>2
<1> QED
  BY <1>3 DEF Off, p

LEMMA OffLess ==
  ASSUME NEW n \in Nat, NEW k \in Nat, NEW b \in Nat, NEW failed \in Nat,
         b + 1 = buffer_size, NEW j \in 0 .. b + 1, Off(n, k + b, failed)
  PROVE  Off(n, k + j, failed + 1)
<1>1. /\ buffer_size - 1 = b /\ failed * b \in Nat
      /\ (failed + 1) * b = failed * b + b
  BY Sizes
<1> DEFINE p == failed * b
<1> HIDE DEF p
<1>2. p \in Nat /\ k + b <= n + failed /\ n <= (k + b) + p
  BY <1>1 DEF Off, p
<1>3. k + j <= n + (failed + 1) /\ n <= (k + j) + (p + b)
  BY <1>2
<1> QED
  BY <1>1, <1>3 DEF Off, p

LEMMA TallyWrites ==
  ASSUME Places, Contained, Body, Tally, UNCHANGED <<mode, history>>, Regular',
         \/ Open \/ Fetch \/ FetchEnds \/ FetchStops \/ SourceFails \/ AfterBatchStops
         \/ AfterBatch \/ (Process /\ pc' = "after") \/ PipelineWriteFails,
         pc' \in Writing
  PROVE  Off(messages', Len(Tmp'.msgs) + Len(buffer'), Tmp'.failed)
<1>1. UNCHANGED <<t, c>> /\ pc \in Working
  <2>1. CASE Process
    BY <2>1, ProcessEffect DEF Working, Writing
  <2> QED
    BY <2>1 DEF Open, Fetch, FetchEnds, FetchStops, SourceFails, AfterBatchStops,
       AfterBatch, PipelineWriteFails, place, Working, Writing
<1>2. Regular /\ \A x : OnDisk(File_, Final, x) => Tmp' = x
  BY <1>1, SameLoop DEF OnDisk, Tmp
<1>3. buffer \in Seq(Nat) /\ Len(buffer) \in Nat /\ messages \in Nat
  BY DEF Contained, Places
<1>4. CASE Open
  <2>1. pc = "open" /\ buffer' = <<>> /\ messages' = messages
    BY <1>4 DEF Open, progress
  <2>2. messages = 0
    BY <1>1, <1>2, <2>1 DEF Tally
  <2>3. Tmp' = File(<<>>, 0, FALSE)
    BY <1>2, <1>4, FileSteps
  <2>4. Len(Tmp'.msgs) = 0 /\ Tmp'.failed = 0 /\ Len(buffer') = 0
    BY <2>1, <2>3 DEF File
  <2>5. 0 * (buffer_size - 1) = 0
    BY Sizes
  <2> QED
    BY <2>1, <2>2, <2>4, <2>5 DEF Off
<1>5. ASSUME pc \in Writing
      PROVE  /\ Tmp \in FileSet /\ Tmp.msgs \in Seq(Nat) /\ Len(Tmp.msgs) \in Nat
             /\ Tmp.failed \in Nat
             /\ Off(messages, Len(Tmp.msgs) + Len(buffer), Tmp.failed)
  <2>1. Tmp \in FileSet
    BY <1>5 DEF Contained, Keeping, Inside
  <2>2. Tmp.msgs \in Seq(Nat) /\ Tmp.failed \in Nat
    BY <2>1, FileParts
  <2> QED
    BY <1>1, <1>2, <1>5, <2>1, <2>2 DEF Tally
<1>6. CASE Fetch \/ FetchEnds \/ FetchStops \/ AfterBatch
  <2>1. pc \in Writing /\ UNCHANGED <<disk, messages, buffer>>
    BY <1>6 DEF Fetch, FetchEnds, FetchStops, AfterBatch, progress, place, store, Writing
  <2>2. Tmp' = Tmp
    BY <1>1, <2>1, SameLoop DEF Tmp
  <2> QED
    BY <1>5, <2>1, <2>2
<1>7. CASE SourceFails
  <2>1. pc \in Writing /\ UNCHANGED <<messages, buffer>>
    BY <1>7 DEF SourceFails, progress, Writing
  <2>2. Tmp' = Tmp \/ Tmp' = File(Tmp.msgs, Tmp.failed, TRUE)
    BY <1>1, <1>2, <1>7, FileSteps, SameLoop DEF Tmp
  <2>3. Tmp'.msgs = Tmp.msgs /\ Tmp'.failed = Tmp.failed
    BY <2>2 DEF File
  <2> QED
    BY <1>5, <2>1, <2>3
<1>8. CASE AfterBatchStops
  <2>1. pc \in Writing /\ messages' = messages /\ buffer' = <<>>
    BY <1>8 DEF AfterBatchStops, progress, Writing
  <2>2. Tmp' = File(Tmp.msgs \o buffer, Tmp.failed, Tmp.cut)
    BY <1>2, <1>8, FileSteps
  <2>3. Tmp'.msgs = Tmp.msgs \o buffer /\ Tmp'.failed = Tmp.failed
    BY <2>2 DEF File
  <2>4. Len(Tmp'.msgs) = Len(Tmp.msgs) + Len(buffer)
    BY <1>3, <1>5, <2>1, <2>3, ConcatProperties
  <2>5. Len(Tmp'.msgs) + Len(buffer') = Len(Tmp.msgs) + Len(buffer)
    BY <1>3, <1>5, <2>1, <2>4
  <2> QED
    BY <1>5, <2>1, <2>3, <2>5
<1>9. CASE Process /\ pc' = "after"
  <2> DEFINE ids == Good(File_, batch)
  <2>1. pc \in Writing /\ WriteAll(ids) /\ ids \in Seq(Nat)
    BY <1>9, ProcessEffect, GoodType DEF Writing, Contained
  <2> HIDE DEF ids
  <2>2. PICK out \in Seq(Nat) :
          /\ OnDisk(File_, Final, File(Tmp.msgs \o out, Tmp.failed, Tmp.cut))
          /\ out \o buffer' = buffer \o ids
    BY <2>1, WriteAllEffect
  <2>3. buffer' \in Seq(Nat) /\ messages' = messages + Len(ids)
    BY <2>1, WriteAllEffect DEF Counted
  <2>4. Tmp'.msgs = Tmp.msgs \o out /\ Tmp'.failed = Tmp.failed
    BY <1>2, <2>2 DEF File
  <2>5. /\ Len(out) + Len(buffer') = Len(buffer) + Len(ids)
        /\ Len(Tmp'.msgs) = Len(Tmp.msgs) + Len(out)
        /\ Len(out) \in Nat /\ Len(buffer') \in Nat /\ Len(ids) \in Nat
    <3>1. Len(out \o buffer') = Len(out) + Len(buffer')
      BY <2>2, <2>3, ConcatProperties
    <3>2. Len(buffer \o ids) = Len(buffer) + Len(ids)
      BY <1>3, <2>1, ConcatProperties
    <3>3. Len(Tmp.msgs \o out) = Len(Tmp.msgs) + Len(out)
      BY <1>5, <2>1, <2>2, ConcatProperties
    <3> QED
      BY <2>1, <2>2, <2>3, <2>4, <3>1, <3>2, <3>3
  <2>6. Off(messages + Len(ids), (Len(Tmp.msgs) + Len(buffer)) + Len(ids), Tmp.failed)
    <3>1. /\ messages \in Nat /\ Len(Tmp.msgs) + Len(buffer) \in Nat
          /\ Tmp.failed \in Nat /\ Len(ids) \in Nat
          /\ Off(messages, Len(Tmp.msgs) + Len(buffer), Tmp.failed)
      BY <1>3, <1>5, <2>1, <2>5
    <3> QED
      BY <3>1, OffMore, Zenon
  <2>7. (Len(Tmp.msgs) + Len(buffer)) + Len(ids) = Len(Tmp'.msgs) + Len(buffer')
    <3>1. Len(Tmp.msgs) \in Nat
      BY <1>5, <2>1
    <3>2. /\ Len(out) \in Nat /\ Len(buffer') \in Nat /\ Len(ids) \in Nat
          /\ Len(buffer) \in Nat /\ Len(out) + Len(buffer') = Len(buffer) + Len(ids)
      BY <1>3, <2>5
    <3>3. (Len(Tmp.msgs) + Len(buffer)) + Len(ids) = (Len(Tmp.msgs) + Len(out)) + Len(buffer')
      <4> DEFINE a == Len(Tmp.msgs)
                 b == Len(buffer)
                 m == Len(ids)
                 o == Len(out)
                 d == Len(buffer')
      <4>1. a \in Nat /\ b \in Nat /\ m \in Nat /\ o \in Nat /\ d \in Nat /\ o + d = b + m
        BY <3>1, <3>2
      <4> HIDE DEF a, b, m, o, d
      <4>2. (a + b) + m = (a + o) + d
        BY <4>1
      <4> QED
        BY <4>2 DEF a, b, m, o, d
    <3> QED
      BY <2>5, <3>3, Zenon
  <2> QED
    BY <2>3, <2>4, <2>6, <2>7
<1>10. CASE PipelineWriteFails
  <2> DEFINE ids == Good(File_, batch)
  <2>1. /\ pc = "process" /\ Mode = "pipeline" /\ pc \in Writing
        /\ \E i \in DOMAIN ids : WriteFails(ids, i)
    BY <1>10 DEF PipelineWriteFails, Writing
  <2>2. Batched /\ ids \in Seq(Nat)
    BY <2>1, GoodType DEF Body, Contained
  <2>3. ids = <<next - 1>>
    BY <2>1, <2>2, OneAtATime
  <2> HIDE DEF ids
  <2>4. Len(ids) = 1 /\ WriteFails(ids, 1) /\ 1 \in DOMAIN ids
    BY <2>1, <2>3
  <2>5. /\ Len(buffer) + 1 = buffer_size /\ buffer' = <<>>
        /\ \E k \in 0 .. Len(buffer) + 1 :
             OnDisk(File_, Final, File(Tmp.msgs \o SubSeq(buffer \o ids, 1, k),
                                       Tmp.failed + 1, Tmp.cut))
        /\ Counted(SubSeq(ids, 1, 1 - 1))
    BY <2>1, <2>2, <2>4, WriteFailsEffect
  <2>6. messages' = messages
    <3>1. Len(SubSeq(ids, 1, 1 - 1)) = 0
      BY <2>2, <2>4
    <3> QED
      BY <1>3, <2>5, <3>1 DEF Counted
  <2>7. PICK k \in 0 .. Len(buffer) + 1 :
          OnDisk(File_, Final, File(Tmp.msgs \o SubSeq(buffer \o ids, 1, k),
                                    Tmp.failed + 1, Tmp.cut))
    BY <2>5, Zenon
  <2> DEFINE part == SubSeq(buffer \o ids, 1, k)
  <2>8. part \in Seq(Nat) /\ Len(part) = k
    <3>1. buffer \o ids \in Seq(Nat) /\ k \in 0 .. Len(buffer \o ids)
      BY <1>3, <2>2, <2>4, JoinOf
    <3> QED
      BY <3>1, FrontOf
  <2> HIDE DEF part
  <2>9. Tmp'.msgs = Tmp.msgs \o part /\ Tmp'.failed = Tmp.failed + 1
    <3>1. Tmp' = File(Tmp.msgs \o part, Tmp.failed + 1, Tmp.cut)
      BY <1>2, <2>7 DEF part
    <3> QED
      BY <3>1 DEF File
  <2>10. Len(Tmp'.msgs) + Len(buffer') = Len(Tmp.msgs) + k
    <3>1. Len(Tmp.msgs \o part) = Len(Tmp.msgs) + k /\ Len(buffer') = 0
      BY <1>5, <2>1, <2>5, <2>8, JoinOf
    <3> QED
      BY <1>3, <1>5, <2>1, <2>9, <3>1
  <2>11. Off(messages, Len(Tmp.msgs) + k, Tmp.failed + 1)
    BY <1>3, <1>5, <2>1, <2>5, OffLess
  <2> QED
    BY <2>6, <2>9, <2>10, <2>11
<1> QED
  BY <1>4, <1>6, <1>7, <1>8, <1>9, <1>10

LEMMA TallyStep == Places /\ Contained /\ Body /\ Tally /\ [Next]_vars => Tally'
<1> SUFFICES ASSUME Places, Contained, Body, Tally, [Next]_vars,
                    pc' \in Working, Regular'
             PROVE  /\ pc' = "open" => messages' = 0
                    /\ pc' \in Writing =>
                         Off(messages', Len(Tmp'.msgs) + Len(buffer'), Tmp'.failed)
                    /\ pc' \in {"remove", "rename", "counted"} => Near(messages', Tmp')
                    /\ pc' \in {"count", "counted", "finish"} => Near(messages', Final')
  BY DEF Tally, Off, Near
<1>0. UNCHANGED <<mode, history>>
  BY SameConfig
<1>1. CASE pc' \in {"target", "abort", "failed"}
  BY <1>1 DEF Writing
<1>2. CASE StartTarget
  BY <1>2 DEF StartTarget, Writing
<1>3. CASE \/ Open \/ Fetch \/ FetchEnds \/ FetchStops \/ SourceFails \/ AfterBatchStops
           \/ AfterBatch \/ (Process /\ pc' = "after") \/ PipelineWriteFails
  <2>1. CASE pc' \in Writing
    BY <1>0, <1>3, <2>1, TallyWrites DEF Writing
  <2>2. pc' \in Writing \cup {"abort"}
    BY <1>3 DEF Open, Fetch, FetchEnds, FetchStops, SourceFails, AfterBatchStops,
       AfterBatch, PipelineWriteFails, Writing
  <2> QED
    BY <1>1, <2>1, <2>2
<1>6. CASE Rest
  <2> DEFINE ids == Good(File_, batch)
             y   == File(Kept \o ids, Tmp.failed, Tmp.cut \/ shutdown_requested)
  <2>1. /\ pc = "rest" /\ pc' = "remove" /\ UNCHANGED <<t, c>> /\ ids \in Seq(Nat)
        /\ OnDisk(File_, Final, y) /\ messages' = messages + Len(ids)
    BY <1>6, RestEffect DEF LeaveSaver, Counted
  <2>2. /\ Tmp.msgs \in Seq(Nat) /\ Tmp.failed \in Nat /\ buffer \in Seq(Nat)
        /\ messages \in Nat /\ Len(Tmp.msgs) \in Nat /\ Len(buffer) \in Nat
    BY <2>1, FileParts DEF Contained, Keeping, Inside, Writing, Places
  <2> HIDE DEF ids
  <2>3. Tmp'.msgs = Kept \o ids /\ Tmp'.failed = Tmp.failed
    <3>1. Tmp' = y
      BY <1>0, <2>1, SameLoop DEF OnDisk, Tmp
    <3> QED
      BY <3>1 DEF File
  <2>4. Len(Kept \o ids) = (Len(Tmp.msgs) + Len(buffer)) + Len(ids) /\ Len(ids) \in Nat
    BY <2>1, <2>2, JoinOf DEF Kept
  <2>5. Off(messages, Len(Tmp.msgs) + Len(buffer), Tmp.failed)
    BY <1>0, <2>1, SameLoop DEF Tally, Working, Writing
  <2>6. Off(messages + Len(ids), (Len(Tmp.msgs) + Len(buffer)) + Len(ids), Tmp.failed)
    <3>1. Len(Tmp.msgs) + Len(buffer) \in Nat
      BY <2>2
    <3> QED
      BY <2>2, <2>4, <2>5, <3>1, OffMore, Zenon
  <2>7. Near(messages', Tmp')
    BY <2>1, <2>3, <2>4, <2>6 DEF Off, Near
  <2> QED
    BY <2>1, <2>7 DEF Writing
<1>7. CASE RemoveOld
  <2>1. pc = "remove" /\ pc' = "rename" /\ UNCHANGED <<t, c, messages>>
    BY <1>7 DEF RemoveOld, place, progress
  <2>2. Tmp' = Tmp
    BY <1>0, <1>7, <2>1, FileSteps, SameLoop DEF OnDisk, Tmp
  <2>3. Near(messages, Tmp)
    BY <1>0, <2>1, SameLoop DEF Tally, Working, Closing
  <2>4. Near(messages', Tmp')
    BY <2>1, <2>2, <2>3, Zenon
  <2> QED
    BY <2>1, <2>4 DEF Writing
<1>8. CASE Rename /\ pc' # "open" /\ pc' # "target"
  <2>1. pc = "rename" /\ pc' = "count" /\ UNCHANGED <<t, c, messages>>
    BY <1>8 DEF Rename, TopicDone, NextTarget, Working, Writing, Closing
  <2>2. Final' = Tmp
    BY <1>0, <1>8, <2>1, FileSteps, SameLoop DEF OnDisk, Final
  <2>3. Near(messages, Tmp)
    BY <1>0, <2>1, SameLoop DEF Tally, Working, Closing
  <2>4. Near(messages', Final')
    BY <2>1, <2>2, <2>3, Zenon
  <2> QED
    BY <2>1, <2>4 DEF Writing
<1>9. CASE Count
  <2>1. pc = "count" /\ pc' = "counted" /\ UNCHANGED <<t, c, messages>>
    BY <1>9 DEF Count, place, progress
  <2>2. Final' = Final /\ Tmp' = Final
    BY <1>0, <1>9, <2>1, FileSteps, SameLoop DEF OnDisk, Final, Tmp
  <2>3. Near(messages, Final)
    BY <1>0, <2>1, SameLoop DEF Tally, Working, Closing
  <2>4. Near(messages', Final') /\ Near(messages', Tmp')
    BY <2>1, <2>2, <2>3, Zenon
  <2> QED
    BY <2>1, <2>4 DEF Writing
<1>10. CASE CountRename
  <2>1. pc = "counted" /\ pc' = "finish" /\ UNCHANGED <<t, c, messages>>
    BY <1>10 DEF CountRename, place, progress
  <2>2. Final' = Tmp
    BY <1>0, <1>10, <2>1, FileSteps, SameLoop DEF OnDisk, Final
  <2>3. Near(messages, Tmp)
    BY <1>0, <2>1, SameLoop DEF Tally, Working, Closing
  <2>4. Near(messages', Final')
    BY <2>1, <2>2, <2>3, Zenon
  <2> QED
    BY <2>1, <2>4 DEF Writing
<1>11. CASE CountFails
  <2>1. /\ pc \in {"count", "counted"} /\ pc' = "finish"
        /\ UNCHANGED <<t, c, messages>>
    BY <1>11 DEF CountFails, place, progress
  <2>2. Final' = Final
    BY <1>0, <1>11, <2>1, FileSteps, SameLoop DEF Touched, OnDisk, Final
  <2>3. Near(messages, Final)
    BY <1>0, <2>1, SameLoop DEF Tally, Working, Closing
  <2>4. Near(messages', Final')
    BY <2>1, <2>2, <2>3, Zenon
  <2> QED
    BY <2>1, <2>4 DEF Writing
<1>12. CASE RequestShutdown \/ AutoSave \/ UNCHANGED vars
  <2>1. UNCHANGED <<pc, disk, t, c, messages, buffer>>
    BY <1>12 DEF RequestShutdown, AutoSave, vars, place, progress, store
  <2>2. Tmp' = Tmp /\ Final' = Final
    BY <1>0, <2>1, SameLoop DEF Tmp, Final
  <2> QED
    BY <1>0, <2>1, <2>2, SameLoop DEF Tally
<1>13. CASE pc' = "open" /\ (Rename \/ Failed)
  <2>1. ~Regular /\ t' = t
    BY <1>13 DEF Rename, Failed, TopicDone, NextTarget
  <2>2. Regular' = Regular
    BY <2>1 DEF Regular
  <2> QED
    BY <2>1, <2>2
<1>14. \/ pc' \in {"target", "abort", "failed"} \/ pc' \notin Working
       \/ StartTarget \/ Open \/ Fetch \/ FetchEnds \/ FetchStops \/ SourceFails
       \/ AfterBatchStops \/ AfterBatch \/ (Process /\ pc' = "after")
       \/ PipelineWriteFails \/ Rest \/ RemoveOld
       \/ (Rename /\ pc' # "open" /\ pc' # "target") \/ Count \/ CountRename \/ CountFails
       \/ RequestShutdown \/ AutoSave \/ UNCHANGED vars
       \/ (pc' = "open" /\ (Rename \/ Failed))
  <2>1. Process => pc' \in {"after", "abort"}
    BY ProcessEffect
  <2>2. Failed /\ pc' # "open" => pc' \notin Working \/ pc' = "target"
    BY DEF Failed, TopicDone, NextTarget, Working, Writing, Closing
  <2>3. \/ Finish \/ Timeout \/ SetupFails \/ Restart \/ RenameFails \/ Abort
        => pc' \notin Working \/ pc' \in {"target", "failed"}
    BY DEF Finish, Timeout, SetupFails, Restart, RenameFails, Abort, NextTarget,
       Working, Writing, Closing
  <2>4. RunHooks \/ Stop \/ Kill => pc' \notin Working
    BY DEF RunHooks, Stop, Kill, Working, Writing, Closing
  <2>5. OpenFails \/ BatchWriteFails \/ AfterBatchFails \/ LeaveFails
        => pc' \in {"abort", "failed"}
    BY DEF OpenFails, BatchWriteFails, AfterBatchFails, LeaveFails
  <2> QED
    BY <2>1, <2>2, <2>3, <2>4, <2>5 DEF Next, Export, Over
<1> QED
  BY <1>1, <1>2, <1>3, <1>6, <1>7, <1>8, <1>9, <1>10, <1>11, <1>12, <1>13, <1>14

LEMMA ResultsStep ==
  OwnFiles /\ Places /\ Contained /\ Tally /\ ResultsTell /\ [Next]_vars => ResultsTell'
<1> SUFFICES ASSUME OwnFiles, Places, Contained, Tally, ResultsTell, [Next]_vars,
                    NEW x \in DOMAIN results', ~Targets[x].forum, results'[x] # 0
             PROVE  LET f == Targets[x].chats[1]
                    IN  /\ disk'[f].final # None
                        /\ Near(results'[x], disk'[f].final)
  BY DEF ResultsTell
<1> DEFINE f == Targets[x].chats[1]
<1>1. results \in Seq(Nat) /\ Len(results) = t - 1 /\ t \in Nat /\ messages \in Nat
  BY DEF Places
<1>2. ASSUME x \in DOMAIN results, results'[x] = results[x]
      PROVE  disk'[f].final # None /\ Near(results'[x], disk'[f].final)
  <2>1. x \in TargetIds /\ x < t
    <3>1. x \in 1 .. Len(results)
      BY <1>1, <1>2
    <3> QED
      BY <1>1, <3>1, TargetTypes DEF Places
  <2>2. disk'[f].final = disk[f].final
    BY <2>1, OverStays
  <2> QED
    BY <1>2, <2>2 DEF ResultsTell
<1>3. CASE UNCHANGED results
  BY <1>2, <1>3
<1>4. CASE results' = <<>>
  BY <1>4
<1>5. ASSUME NEW n \in Nat, results' = Append(results, n), x # t
      PROVE  disk'[f].final # None /\ Near(results'[x], disk'[f].final)
  <2>1. x \in 1 .. Len(results)
    BY <1>1, <1>5
  <2> QED
    BY <1>1, <1>2, <1>5, <2>1, AppendKeeps
<1>6. ASSUME NEW n \in Nat, results' = Append(results, n), x = t PROVE results'[x] = n
  <2>1. x = Len(results) + 1
    BY <1>1, <1>6
  <2> QED
    BY <1>1, <1>6, <2>1, AppendKeeps
<1>7. CASE NextTarget(0)
  BY <1>5, <1>6, <1>7 DEF NextTarget
<1>8. CASE NextTarget(messages) /\ x # t
  BY <1>1, <1>5, <1>8 DEF NextTarget
<1>9. CASE NextTarget(messages) /\ x = t /\ ((pc = "finish" /\ Finish) \/ ~Regular)
  <2>1. Regular /\ pc = "finish" /\ Finish
    BY <1>9 DEF Regular
  <2>2. t \in TargetIds /\ c \in DOMAIN Targets[t].chats /\ UNCHANGED disk
    BY <2>1 DEF Places, Working, Closing, Finish
  <2>3. f = File_
    <3>1. Len(Targets[t].chats) = 1
      BY <1>9, <2>2, SessionAssumption
    <3>2. c = 1
      BY <2>2, <3>1, TargetTypes
    <3> QED
      BY <1>9, <3>2 DEF File_
  <2>4. Near(messages, Final) /\ Final \in FileSet
    BY <2>1 DEF Tally, Working, Closing, Contained
  <2>5. results'[x] = messages
    BY <1>1, <1>6, <1>9 DEF NextTarget
  <2>6. Final # None
    BY <2>4, FileApart
  <2> QED
    BY <2>2, <2>3, <2>4, <2>5, <2>6 DEF Final
<1> QED
  BY <1>3, <1>4, <1>7, <1>8, <1>9, ResultSteps

\* What export_all reports of a finished regular target is the number of messages in its
\* file, unless writes have failed in the pipeline: each of them counted what it lost, at
\* most a buffer less the message being written, or wrote that one message uncounted.  A
\* failed target counts nothing.  It stays so whatever happens to the targets after it,
\* provided that these write files of their own: chats of one title share a file.
THEOREM ResultsAlwaysTell == OwnFiles => (Spec => []ResultsTell)
<1> SUFFICES ASSUME OwnFiles PROVE Spec => []ResultsTell
  OBVIOUS
<1>1. Init => Tally /\ ResultsTell
  BY DEF Init, Tally, ResultsTell, Writing
<1>2. (Places /\ ContentInv) /\ Tally /\ ResultsTell /\ [Next]_vars
      => Tally' /\ ResultsTell'
  BY TallyStep, ResultsStep DEF ContentInv
<1> QED
  BY <1>1, <1>2, ContentAlways, PTL DEF Spec

-----------------------------------------------------------------------------
(* Which of the chosen topics are exported (ForumTopics)                   *)

\* Where the list is read at once, a forum is one target at most, and the menu and the
\* export deal with that one.
OneTarget ==
  /\ newest \in Nat /\ refusals \in Nat /\ offset = 0 /\ page \in Seq(Nat)
  /\ targets = <<>> \/ \E x : targets = <<x>>
  /\ menu_pc # "next" /\ (menu_pc # "over" => at = 1)
  /\ purpose = "export" => targets # <<>>

\* As long as no request has failed, one list is made and is taken ever after; the
\* target was chosen from it.
OneList ==
  /\ menu_pc \notin {"told to wait", "backing off"}
  /\ cache # <<>> => menu_pc \notin {"asking", "counting"}
  /\ menu_pc = "listed" => cache # <<>> /\ topics = cache[1]
  /\ targets # <<>> /\ targets[1] # Forum!All
       => cache # <<>> /\ targets[1] \in ToSet(cache[1])
  /\ menu_pc = "over" /\ targets[1] # Forum!All => targets[1] \in exported

ForumInv == ~lazy => OneTarget /\ (refusals = 0 => OneList)

USE DEF Forum!All

LEMMA ForumStart == Forum!Init => ForumInv
<1> SUFFICES ASSUME Forum!Init PROVE OneTarget /\ OneList
  BY DEF ForumInv
<1>1. newest \in Nat
  BY ExportAssumption DEF Forum!Init, Forum!ForumAssumption
<1> QED
  BY <1>1 DEF Forum!Init, OneTarget, OneList

\* What does not touch the target leaves the one there is.
LEMMA TargetKept ==
  ASSUME OneTarget, menu_pc # "over", menu_pc' # "next", refusals' \in Nat,
         newest' = newest, offset' = offset, page' = page, targets' = targets,
         purpose' = purpose, at' = at
  PROVE  OneTarget'
<1>1. newest' \in Nat /\ offset' = 0 /\ page' \in Seq(Nat)
  BY Zenon DEF OneTarget
<1>2. targets' = <<>> \/ \E x : targets' = <<x>>
  BY Zenon DEF OneTarget
<1>3. purpose' = "export" => targets' # <<>>
  BY Zenon DEF OneTarget
<1>4. menu_pc' # "over" => at' = 1
  BY Zenon DEF OneTarget
<1> QED
  BY <1>1, <1>2, <1>3, <1>4, Zenon DEF OneTarget

LEMMA SameToSet == \A s : Forum!ToSet(s) = ToSet(s)
  BY DEF ToSet, Forum!ToSet

\* GetTopics takes the list that is there, or asks for one.
LEMMA GetTopicsKeeps ==
  ASSUME ~lazy, OneTarget, refusals = 0 => OneList, menu_pc = "menu",
         NEW who \in {"menu", "export"}, Forum!GetTopics(who),
         UNCHANGED <<newest, lazy, cache, targets, at, exported, refusals>>,
         who = "export" => targets # <<>>
  PROVE  ForumInv'
<1>1. /\ purpose' = who /\ offset' = 0 /\ page' = <<>>
      /\ \/ menu_pc' = "asking" /\ cache = <<>>
         \/ menu_pc' = "listed" /\ cache # <<>> /\ topics' = cache[1]
  BY DEF Forum!GetTopics
<1>2. OneTarget'
  BY <1>1 DEF OneTarget
<1>3. ASSUME refusals' = 0 PROVE OneList'
  BY <1>1, <1>3 DEF OneList
<1> QED
  BY <1>2, <1>3 DEF ForumInv

\* A request that fails is counted, whatever it was for.
LEMMA FailureKeeps ==
  ASSUME OneTarget, OneTarget', refusals' = refusals + 1 PROVE ForumInv'
<1>1. refusals' # 0
  BY DEF OneTarget
<1> QED
  BY <1>1 DEF ForumInv

\* What Telegram answers, and what is counted of it, is finite.
LEMMA AnswerType ==
  ASSUME newest \in Nat, NEW limit \in Nat PROVE Forum!Answer(0, limit) \in Seq(Nat)
<1>1. PICK n \in Nat : n <= newest /\ n = IF newest < limit THEN newest ELSE limit
  OBVIOUS
<1>2. PICK a : a = [i \in 1 .. n |-> newest + 1 - i]
  OBVIOUS
<1>3. \A i \in 1 .. n : newest + 1 - i \in Nat
  BY <1>1
<1>4. a \in [1 .. n -> Nat]
  BY <1>2, <1>3
<1>5. a \in Seq(Nat)
  BY <1>4, SeqDef
<1> QED
  BY <1>1, <1>2, <1>5 DEF Forum!Answer

LEMMA CountType ==
  ASSUME page \in Seq(Nat), refusals \in Nat, Forum!CountMessages
  PROVE  refusals' \in Nat /\ (refusals' = 0 => refusals = 0)
<1> DEFINE listed == ToSet(Select(page, Forum!Topics \ deleted))
<1>1. IsFiniteSet(listed)
  <2> DEFINE s == Select(page, Forum!Topics \ deleted)
  <2>1. s \in Seq(Nat)
    BY SelectType
  <2> HIDE DEF s
  <2>2. DOMAIN s = 1 .. Len(s) /\ s \in Seq(ToSet(s))
    BY <2>1 DEF ToSet
  <2>3. IsFiniteSet(ToSet(s))
    BY <2>2 DEF IsFiniteSet, ToSet
  <2> QED
    BY <2>3 DEF s
<1>2. Forum!Live(page) = Select(page, Forum!Topics \ deleted)
  BY DEF Forum!Live, Forum!Select, Select
<1>3. PICK failing \in SUBSET listed : refusals' = refusals + Cardinality(failing)
  <2>1. \E failing : failing \subseteq Forum!ToSet(Forum!Live(page))
                       /\ refusals' = refusals + Cardinality(failing)
    <3>1. PICK failing \in SUBSET Forum!Asked :
                 refusals' = refusals + Forum!Cardinality(failing)
      BY Zenon DEF Forum!CountMessages
    <3>2. Forum!Asked \subseteq Forum!ToSet(Forum!Live(page))
      BY DEF Forum!Asked
    <3>3. Forum!Cardinality(failing) = Cardinality(failing)
      BY DEF Cardinality, Forum!Cardinality
    <3> QED
      BY <3>1, <3>2, <3>3
  <2>2. Forum!ToSet(Forum!Live(page)) = listed
    BY <1>2, SameToSet, Zenon
  <2> HIDE DEF listed
  <2> QED
    BY <2>1, <2>2, Zenon
<1>4. Cardinality(failing) \in Nat
  <2>1. IsFiniteSet(failing)
    BY <1>1, <1>3, FS_Subset
  <2> QED
    BY <2>1, FS_CardinalityType
<1> QED
  BY <1>3, <1>4

LEMMA RequestKeeps == ASSUME ~lazy, ForumInv, Forum!Request PROVE ForumInv'
<1>1. OneTarget /\ (refusals = 0 => OneList)
  BY DEF ForumInv
<1>2. /\ menu_pc = "asking" /\ menu_pc' = "counting"
      /\ UNCHANGED <<newest, lazy, offset, cache, targets, purpose, at, exported, refusals>>
  BY DEF Forum!Request, Forum!forumVars, Forum!userVars
<1>3. page' \in Seq(Nat)
  <2>1. Forum!FetchLimit = ApiLimit /\ ApiLimit \in Nat
    BY ExportAssumption DEF Forum!FetchLimit, Forum!ForumAssumption
  <2>2. page' = Forum!Answer(0, ApiLimit)
    BY <1>1, <2>1 DEF Forum!Request, OneTarget
  <2> QED
    BY <1>1, <2>1, <2>2, AnswerType DEF OneTarget
<1>4. OneTarget'
  BY <1>1, <1>2, <1>3 DEF OneTarget
<1>5. ASSUME refusals' = 0 PROVE OneList'
  BY <1>1, <1>2, <1>5 DEF OneList
<1> QED
  BY <1>4, <1>5 DEF ForumInv

LEMMA RequestFailsKeeps == ASSUME ~lazy, ForumInv, Forum!RequestFails PROVE ForumInv'
<1>1. /\ menu_pc = "asking" /\ menu_pc' \in {"told to wait", "backing off"}
      /\ newest' = newest /\ offset' = offset /\ page' = page /\ targets' = targets
      /\ purpose' = purpose /\ at' = at
  BY DEF Forum!RequestFails, Forum!forumVars, Forum!listVars, Forum!userVars
<1>2. refusals' = refusals + 1
  BY DEF Forum!RequestFails
<1>3. OneTarget
  BY DEF ForumInv
<1>4. refusals' \in Nat
  BY <1>2, <1>3 DEF OneTarget
<1>5. menu_pc # "over" /\ menu_pc' # "next"
  BY <1>1
<1>6. OneTarget'
  BY <1>1, <1>3, <1>4, <1>5, TargetKept, Zenon
<1> QED
  BY <1>2, <1>3, <1>6, FailureKeeps

LEMMA TryAgainKeeps ==
  ASSUME ~lazy, ForumInv, NEW waiting \in {"told to wait", "backing off"},
         Forum!TryAgain(waiting)
  PROVE  ForumInv'
<1>1. /\ menu_pc = waiting /\ menu_pc' \in {"asking", "listed"}
      /\ newest' = newest /\ offset' = offset /\ page' = page /\ targets' = targets
      /\ purpose' = purpose /\ at' = at /\ refusals' = refusals
  BY DEF Forum!TryAgain, Forum!forumVars, Forum!userVars
<1>2. OneTarget /\ (refusals = 0 => OneList)
  BY DEF ForumInv
<1>3. refusals' # 0
  BY <1>1, <1>2 DEF OneList
<1>4. menu_pc # "over" /\ menu_pc' # "next"
  BY <1>1
<1>5. refusals' \in Nat
  BY <1>1, <1>2, Zenon DEF OneTarget
<1>6. OneTarget'
  BY <1>1, <1>2, <1>4, <1>5, TargetKept, Zenon
<1> QED
  BY <1>3, <1>6 DEF ForumInv

\* The first list is kept: there was none, so nothing had been chosen from one.
LEMMA ListReadKeeps == ASSUME ~lazy, ForumInv, Forum!ListRead PROVE ForumInv'
<1>1. OneTarget /\ (refusals = 0 => OneList)
  BY DEF ForumInv
<1>2. /\ menu_pc = "counting" /\ menu_pc' = "listed" /\ cache' = <<topics'>>
      /\ Forum!CountMessages
      /\ UNCHANGED <<newest, lazy, offset, page, targets, purpose, at, exported>>
  BY DEF Forum!ListRead, Forum!forumVars, Forum!userVars
<1>3. refusals' \in Nat /\ (refusals' = 0 => refusals = 0)
  BY <1>1, <1>2, CountType DEF OneTarget
<1>4. OneTarget'
  BY <1>1, <1>2, <1>3 DEF OneTarget
<1>5. ASSUME refusals' = 0 PROVE OneList'
  <2>1. cache' # <<>> /\ cache'[1] = topics'
    BY <1>2
  <2> QED
    BY <1>1, <1>2, <1>3, <1>5, <2>1 DEF OneList
<1> QED
  BY <1>4, <1>5 DEF ForumInv

LEMMA OpenForumKeeps == ASSUME ~lazy, ForumInv, Forum!OpenForum PROVE ForumInv'
<1>1. /\ menu_pc = "menu" /\ Forum!GetTopics("menu")
      /\ UNCHANGED <<newest, lazy, cache, targets, at, exported, refusals>>
  BY DEF Forum!OpenForum, Forum!forumVars
<1> QED
  BY <1>1, GetTopicsKeeps DEF ForumInv

\* A choice is a topic of the list, or the whole forum; a target that is there stays.
LEMMA ChooseKeeps ==
  ASSUME ~lazy, ForumInv, Forum!ChooseAll \/ Forum!ChooseTopics \/ Forum!Cancel
  PROVE  ForumInv'
<1>1. OneTarget /\ (refusals = 0 => OneList)
  BY DEF ForumInv
<1>2. /\ menu_pc = "listed" /\ menu_pc' = "menu"
      /\ UNCHANGED <<newest, lazy, offset, page, purpose, cache, at, exported, refusals>>
  BY DEF Forum!ChooseAll, Forum!ChooseTopics, Forum!Cancel, Forum!forumVars, Forum!listVars
<1>3. \/ targets' = targets
      \/ \E x : targets = <<>> /\ targets' = <<x>> /\ (x = 0 \/ x \in ToSet(topics))
  <2>1. CASE Forum!ChooseAll
    BY <2>1 DEF Forum!ChooseAll, Forum!AddTarget
  <2>2. CASE Forum!ChooseTopics
    BY <2>2, SameToSet DEF Forum!ChooseTopics, Forum!AddTarget
  <2>3. CASE Forum!Cancel
    BY <2>3 DEF Forum!Cancel, Forum!userVars
  <2> QED
    BY <2>1, <2>2, <2>3
<1>4. OneTarget'
  BY <1>1, <1>2, <1>3 DEF OneTarget
<1>5. ASSUME refusals' = 0 PROVE OneList'
  <2>1. OneList
    BY <1>1, <1>2, <1>5
  <2>2. CASE targets' = targets
    BY <1>2, <2>1, <2>2 DEF OneList
  <2>3. ASSUME NEW x, targets' = <<x>>, x = 0 \/ x \in ToSet(topics) PROVE OneList'
    <3>1. targets'[1] = x
      BY <2>3
    <3>2. cache' # <<>> /\ (x # 0 => x \in ToSet(cache'[1]))
      BY <1>2, <2>1, <2>3 DEF OneList
    <3> QED
      BY <1>2, <3>1, <3>2 DEF OneList
  <2> QED
    BY <1>3, <2>2, <2>3
<1> QED
  BY <1>4, <1>5 DEF ForumInv

LEMMA ExportForumKeeps == ASSUME ~lazy, ForumInv, Forum!ExportForum PROVE ForumInv'
<1>1. OneTarget /\ (refusals = 0 => OneList)
  BY DEF ForumInv
<1>2. /\ menu_pc = "menu" /\ targets # <<>>
      /\ UNCHANGED <<newest, lazy, cache, targets, at, exported>>
  <2>1. menu_pc = "menu" /\ at = 1 /\ at <= Len(targets)
    BY <1>1 DEF Forum!ExportForum, OneTarget
  <2>2. targets # <<>>
    BY <2>1
  <2> QED
    BY <2>1, <2>2 DEF Forum!ExportForum, Forum!forumVars, Forum!userVars
<1>3. CASE Forum!GetTopics("export") /\ UNCHANGED refusals
  BY <1>1, <1>2, <1>3, GetTopicsKeeps
<1>4. CASE /\ refusals' = refusals + 1 /\ menu_pc' = "listed" /\ purpose' = "export"
           /\ UNCHANGED <<offset, page>>
  <2>1. OneTarget'
    BY <1>1, <1>2, <1>4 DEF OneTarget
  <2> QED
    BY <1>1, <1>4, <2>1, FailureKeeps
<1> QED
  BY <1>3, <1>4 DEF Forum!ExportForum

LEMMA SelectTopicsKeeps == ASSUME ~lazy, ForumInv, Forum!SelectTopics PROVE ForumInv'
<1>1. OneTarget /\ (refusals = 0 => OneList)
  BY DEF ForumInv
<1>2. /\ menu_pc = "listed" /\ purpose = "export" /\ at' = at + 1
      /\ exported' = exported \cup {x \in ToSet(topics) : targets[at] \in {0, x}}
      /\ menu_pc' = IF at' > Len(targets) THEN "over" ELSE "next"
      /\ UNCHANGED <<newest, lazy, offset, page, purpose, cache, targets, refusals>>
  BY SameToSet DEF Forum!SelectTopics, Forum!forumVars, Forum!listVars, Forum!userVars
<1>3. at = 1 /\ Len(targets) = 1 /\ targets # <<>> /\ menu_pc' = "over"
  <2>1. at = 1 /\ \E x : targets = <<x>>
    BY <1>1, <1>2 DEF OneTarget
  <2>2. Len(targets) = 1 /\ targets # <<>>
    BY <2>1
  <2> QED
    BY <1>2, <2>1, <2>2
<1>4. OneTarget'
  BY <1>1, <1>2, <1>3 DEF OneTarget
<1>5. ASSUME refusals' = 0 PROVE OneList'
  <2>1. OneList /\ topics = cache[1]
    BY <1>1, <1>2, <1>5 DEF OneList
  <2>2. targets[1] # 0 => targets[1] \in exported'
    BY <1>2, <1>3, <2>1 DEF OneList
  <2> QED
    BY <1>2, <1>3, <2>1, <2>2 DEF OneList
<1> QED
  BY <1>4, <1>5 DEF ForumInv

LEMMA ForumStep == ForumInv /\ [Forum!Next]_forumVars => ForumInv'
<1> SUFFICES ASSUME ForumInv, [Forum!Next]_forumVars, ~lazy' PROVE ForumInv'
  BY DEF ForumInv
<1>1. CASE UNCHANGED forumVars
  BY <1>1 DEF forumVars, ForumInv, OneTarget, OneList
<1>2. CASE Forum!Program
  <2>1. ~lazy
    BY <1>2 DEF Forum!Program, Forum!Request, Forum!RequestFails, Forum!HandleTelegramError,
       Forum!Backoff, Forum!TryAgain, Forum!PageRead, Forum!ListRead, Forum!ExportForum,
       Forum!SelectTopics, Forum!OpenForum, Forum!ChooseAll, Forum!ChooseTopics,
       Forum!Cancel, Forum!forumVars
  <2>2. ~Forum!PageRead
    BY <2>1 DEF Forum!PageRead
  <2> QED
    BY <1>2, <2>1, <2>2, RequestKeeps, RequestFailsKeeps, TryAgainKeeps, ListReadKeeps,
       ExportForumKeeps, SelectTopicsKeeps, OpenForumKeeps, ChooseKeeps
       DEF Forum!Program, Forum!HandleTelegramError, Forum!Backoff
<1>3. CASE Forum!CreateTopic
  <2>1. /\ newest' = newest + 1
        /\ UNCHANGED <<lazy, menu_pc, purpose, offset, page, topics, cache, targets, at,
                       exported, refusals>>
    BY <1>3 DEF Forum!CreateTopic, Forum!listVars, Forum!userVars
  <2>2. OneTarget /\ (refusals = 0 => OneList)
    BY <2>1 DEF ForumInv
  <2>3. OneTarget'
    BY <2>1, <2>2 DEF OneTarget
  <2>4. refusals' = 0 => OneList'
    BY <2>1, <2>2 DEF OneList
  <2> QED
    BY <2>3, <2>4 DEF ForumInv
<1>4. CASE Forum!Done
  BY <1>1, <1>4 DEF Forum!Done, Forum!vars, Forum!forumVars, Forum!listVars, Forum!userVars,
     forumVars
<1> QED
  BY <1>1, <1>2, <1>3, <1>4 DEF Forum!Next

\* A topic that was chosen from an unbroken list and became the target is exported, for
\* any number of topics, limits of a request, attempts and visits of the menu, although
\* topics are created in between: the second call takes the list of the first
\* (topics_cache of get_forum_topics; topics_to_export of _export_forum).
THEOREM ChoiceIsAlwaysFound == ExportSpec => []ChoiceIsFound
<1>1. ExportInit => ForumInv
  BY ForumStart DEF ExportInit
<1>2. ForumInv /\ [ExportNext]_<<which, vars, forumVars>> => ForumInv'
  <2>1. [ExportNext]_<<which, vars, forumVars>> => [Forum!Next]_forumVars
    BY DEF ExportNext, OfSession, OfForum
  <2> QED
    BY <2>1, ForumStep
<1>3. ForumInv => ChoiceIsFound
  BY DEF ForumInv, OneList, ChoiceIsFound, Forum!ChoiceIsFound
<1> QED
  BY <1>1, <1>2, <1>3, PTL DEF ExportSpec
=============================================================================
