------------------------- MODULE MessageNotesProofs --------------------------
(***************************************************************************)
(* Proofs about MessageNotes, for any messages, loops, batches, limits of  *)
(* the queue, numbers of workers and failures: what the notes say of the   *)
(* media.                                                                  *)
(***************************************************************************)
EXTENDS MCNotes, SequenceLemmas

Occurs(m, s) == \E i \in 1 .. Len(s) : s[i] = m

Types ==
  /\ first \in 1 .. N + 1
  /\ \A m \in 1 .. N : message[m].media \in Notes!Media
  /\ pc \in [1 .. N -> {"idle", "waiting", "media", "result", "transcribe", "done"}]
  /\ reference \in [1 .. N -> {"none", "type", "path", "nothing"}]
  /\ file \in [1 .. N -> Notes!FileStates]
  /\ queue \in Seq(1 .. N) /\ _pending_tasks \in Seq(1 .. N)
  /\ {retrying, working, gave_up} \subseteq SUBSET (1 .. N)

\* How far a message has come, and what its note says by then.
NoteOf(m) ==
  /\ m < first => pc[m] = "done"
  /\ pc[m] \in {"idle", "waiting", "media", "result"} => reference[m] = "none"
  /\ pc[m] \in {"media", "result"} => Notes!HasMedia(m)
  /\ pc[m] = "transcribe" => reference[m] = "path"
  /\ pc[m] = "done" /\ Notes!HasMedia(m) /\ config.media_download
       => reference[m] \in {"path", "nothing"}
  /\ reference[m] = "nothing" => message[m].media # "kept"
  /\ m \in gave_up => reference[m] = "nothing"

Downloading(m) == Occurs(m, queue) \/ m \in retrying

\* Who has the file of a message in hand, and what may lie there: a path is in the
\* note once its file is there or somebody has it in hand, and nobody else brings one
\* but the worker who was not waited for.
FileOf(m) ==
  /\ Downloading(m) \/ m \in working \/ Occurs(m, _pending_tasks)
       => message[m].media = "voice"
  /\ Downloading(m) \/ Occurs(m, _pending_tasks) => reference[m] = "path"
  /\ m \in working => reference[m] = "path" \/ pc[m] = "result" \/ m \in gave_up
  /\ message[m].media = "kept" => file[m] = "there"
  /\ reference[m] = "path" => file[m] \in {"there", "failed"} \/ Downloading(m) \/ m \in working
  /\ file[m] = "part" => m \in working \/ reference[m] = "nothing"
  /\ reference[m] # "path" /\ pc[m] # "result" /\ message[m].media # "kept"
       => file[m] \in {"none", "part"} \/ m \in gave_up

NotesInv ==
  /\ Types
  /\ \A m \in 1 .. N : NoteOf(m) /\ FileOf(m)
  /\ notes_written \in Seq(1 .. N) /\ \A i \in 1 .. Len(notes_written) : notes_written[i] < first

USE DEF Notes!Messages

-----------------------------------------------------------------------------
(* Sequences and batches                                                   *)

LEMMA AppendOccurs ==
  ASSUME NEW S, NEW s \in Seq(S), NEW e \in S
  PROVE  /\ Append(s, e) \in Seq(S)
         /\ \A k : Occurs(k, Append(s, e)) <=> Occurs(k, s) \/ k = e
<1>1. /\ Append(s, e) \in Seq(S) /\ Len(s) \in Nat /\ Len(Append(s, e)) = Len(s) + 1
      /\ Append(s, e)[Len(s) + 1] = e
      /\ \A i \in 1 .. Len(s) : Append(s, e)[i] = s[i]
  OBVIOUS
<1>2. \A i : i \in 1 .. Len(s) + 1 <=> i \in 1 .. Len(s) \/ i = Len(s) + 1
  BY <1>1
<1> QED
  BY <1>1, <1>2 DEF Occurs

LEMMA TailOccurs ==
  ASSUME NEW S, NEW s \in Seq(S), s # <<>>
  PROVE  /\ Head(s) \in S /\ Tail(s) \in Seq(S) /\ Occurs(Head(s), s)
         /\ \A k : k # Head(s) => (Occurs(k, Tail(s)) <=> Occurs(k, s))
         /\ \A k : Occurs(k, Tail(s)) => Occurs(k, s)
<1>1. /\ Head(s) \in S /\ Tail(s) \in Seq(S) /\ Len(s) \in Nat /\ Len(s) > 0
      /\ Len(Tail(s)) = Len(s) - 1 /\ s[1] = Head(s)
      /\ \A i \in 1 .. Len(s) - 1 : Tail(s)[i] = s[i + 1]
  OBVIOUS
<1>2. ASSUME NEW k, Occurs(k, Tail(s)) PROVE Occurs(k, s)
  <2>1. \A i \in 1 .. Len(s) - 1 : i + 1 \in 1 .. Len(s)
    BY <1>1
  <2> QED
    BY <1>1, <1>2, <2>1 DEF Occurs
<1>3. ASSUME NEW k, Occurs(k, s), k # Head(s) PROVE Occurs(k, Tail(s))
  <2>1. PICK i \in 1 .. Len(s) : s[i] = k
    BY <1>3 DEF Occurs
  <2>2. i - 1 \in 1 .. Len(s) - 1 /\ i - 1 + 1 = i
    BY <1>1, <1>3, <2>1
  <2>3. i - 1 \in 1 .. Len(Tail(s)) /\ Tail(s)[i - 1] = k
    BY <1>1, <2>1, <2>2
  <2> QED
    BY <2>3 DEF Occurs
<1>4. Occurs(Head(s), s)
  BY <1>1 DEF Occurs
<1> QED
  BY <1>1, <1>2, <1>3, <1>4

\* The last message of a batch is one of the messages; a batch has no gap.
LEMMA BatchBounds ==
  ASSUME Types
  PROVE  /\ N \in Nat /\ first \in Nat /\ Notes!BatchEnd \in Int /\ Notes!BatchEnd <= N
         /\ \A k \in Notes!Batch : k \in 1 .. N /\ k >= first
         /\ \A k \in 1 .. N : k >= first /\ k <= Notes!BatchEnd => k \in Notes!Batch
<1>1. N \in Nat /\ batch_size \in Nat /\ first \in Nat /\ first >= 1
  BY NotesBounds DEF Notes!NotesAssumption, Types
<1>2. PICK size \in Nat : Notes!BatchEnd = IF first + size - 1 < N THEN first + size - 1 ELSE N
  BY <1>1 DEF Notes!BatchEnd
<1>3. Notes!BatchEnd \in Int /\ Notes!BatchEnd <= N
  BY <1>1, <1>2
<1> QED
  BY <1>1, <1>3 DEF Notes!Batch

-----------------------------------------------------------------------------
(* The steps                                                               *)

LEMMA NotesStart == Notes!Init => NotesInv
<1> SUFFICES ASSUME Notes!Init PROVE NotesInv
  OBVIOUS
<1>1. N \in Nat
  BY NotesBounds DEF Notes!NotesAssumption
<1>2. Types
  BY <1>1 DEF Notes!Init, Types, Notes!FileStates
<1>3. ASSUME NEW m \in 1 .. N PROVE NoteOf(m) /\ FileOf(m)
  BY <1>1, <1>3 DEF Notes!Init, NoteOf, FileOf, Downloading, Occurs
<1>4. notes_written \in Seq(1 .. N) /\ \A i \in 1 .. Len(notes_written) : notes_written[i] < first
  BY DEF Notes!Init
<1> QED
  BY <1>2, <1>3, <1>4 DEF NotesInv

\* Nothing of k changes.
Same(k) ==
  /\ pc'[k] = pc[k] /\ reference'[k] = reference[k] /\ file'[k] = file[k]
  /\ Occurs(k, queue)' <=> Occurs(k, queue)
  /\ Occurs(k, _pending_tasks)' <=> Occurs(k, _pending_tasks)
  /\ k \in retrying' <=> k \in retrying
  /\ k \in working' <=> k \in working
  /\ k \in gave_up' <=> k \in gave_up

Frame == UNCHANGED <<message, config, first, notes_written>>

\* What happens to one message does not disturb what is noted of the others.
LEMMA NoteAlone ==
  ASSUME NotesInv, NEW m \in 1 .. N, Frame, Types',
         \A k \in 1 .. N : k # m => Same(k),
         NoteOf(m)', FileOf(m)'
  PROVE  NotesInv'
<1>1. ASSUME NEW k \in 1 .. N, k # m PROVE NoteOf(k)' /\ FileOf(k)'
  <2>1. NoteOf(k) /\ FileOf(k) /\ Same(k)
    BY <1>1 DEF NotesInv
  <2>2. Notes!HasMedia(k)' <=> Notes!HasMedia(k)
    BY DEF Notes!HasMedia, Frame
  <2>3. NoteOf(k)'
    BY <2>1, <2>2 DEF NoteOf, Same, Frame
  <2>4. FileOf(k)'
    BY <2>1 DEF FileOf, Downloading, Same, Frame
  <2> QED
    BY <2>3, <2>4
<1>2. (notes_written \in Seq(1 .. N) /\ \A i \in 1 .. Len(notes_written) : notes_written[i] < first)'
  BY DEF NotesInv, Frame
<1> QED
  BY <1>1, <1>2 DEF NotesInv

\* A message that has not come to its reference has nobody working for it but the
\* worker it waits for, and its batch has not been written.
LEMMA OnItsWay ==
  ASSUME NotesInv, NEW m \in 1 .. N, pc[m] \notin {"done", "transcribe"}
  PROVE  /\ ~(m < first) /\ reference[m] = "none" /\ m \notin gave_up
         /\ ~Downloading(m) /\ ~Occurs(m, _pending_tasks)
         /\ pc[m] # "result" => /\ m \notin working
                                /\ message[m].media # "kept" => file[m] = "none"
<1>1. Types /\ NoteOf(m) /\ FileOf(m)
  BY DEF NotesInv
<1>2. pc[m] \in {"idle", "waiting", "media", "result"}
  BY <1>1 DEF Types
<1>3. ~(m < first) /\ reference[m] = "none" /\ m \notin gave_up
  BY <1>1, <1>2 DEF NoteOf
<1> QED
  BY <1>1, <1>3 DEF FileOf

LEMMA BeginKeeps ==
  ASSUME NotesInv, NEW m \in 1 .. N, Notes!Begin(m) PROVE NotesInv'
<1>1. Types /\ pc[m] = "waiting" /\ NoteOf(m) /\ FileOf(m)
  BY DEF Notes!Begin, Notes!MayBegin, NotesInv
<1>2. ~(m < first) /\ reference[m] = "none" /\ m \notin working
  BY <1>1, OnItsWay
<1>3. Frame /\ UNCHANGED Notes!media
  BY DEF Notes!Begin, Notes!static, Frame
<1>4. PICK p \in {"media", "done"}, r \in {"none", "type"} :
        /\ pc' = [pc EXCEPT ![m] = p] /\ reference' = [reference EXCEPT ![m] = r]
        /\ p = "media" => r = "none" /\ Notes!HasMedia(m)
        /\ p = "done" => ~(Notes!HasMedia(m) /\ config.media_download)
  <2>1. CASE Notes!HasMedia(m) /\ config.media_download
    <3>1. reference = [reference EXCEPT ![m] = "none"]
      BY <1>1, <1>2 DEF Types
    <3> QED
      BY <2>1, <3>1 DEF Notes!Begin, Notes!Goto
  <2>2. CASE ~(Notes!HasMedia(m) /\ config.media_download)
    BY <2>2 DEF Notes!Begin, Notes!Goto
  <2> QED
    BY <2>1, <2>2
<1>5. /\ pc'[m] = p /\ reference'[m] = r
      /\ \A k \in 1 .. N : k # m => pc'[k] = pc[k] /\ reference'[k] = reference[k]
  BY <1>1, <1>4 DEF Types
<1>6. \A k \in 1 .. N : k # m => Same(k)
  BY <1>3, <1>5 DEF Same, Notes!media, Occurs
<1>7. Types'
  BY <1>1, <1>3, <1>4 DEF Types, Frame, Notes!media
<1>8. Notes!HasMedia(m)' <=> Notes!HasMedia(m)
  BY <1>3 DEF Notes!HasMedia, Frame
<1>9. NoteOf(m)'
  BY <1>1, <1>2, <1>3, <1>4, <1>5, <1>8 DEF NoteOf, Frame, Notes!media
<1>10. FileOf(m)'
  BY <1>1, <1>2, <1>3, <1>5 DEF FileOf, Downloading, Occurs, Frame, Notes!media
<1> QED
  BY <1>3, <1>6, <1>7, <1>9, <1>10, NoteAlone

\* The ways to come to a reference, by what they leave of the file.
LEMMA ReferKeeps ==
  ASSUME NotesInv, NEW m \in 1 .. N,
         pc[m] \in {"media", "result", "transcribe"},
         Frame, Types', \A k \in 1 .. N : k # m =>
           /\ file'[k] = file[k]
           /\ Occurs(k, queue)' <=> Occurs(k, queue)
           /\ Occurs(k, _pending_tasks)' <=> Occurs(k, _pending_tasks)
           /\ k \in retrying' <=> k \in retrying
           /\ k \in working' <=> k \in working
           /\ k \in gave_up' <=> k \in gave_up,
         NEW p \in {"transcribe", "done"}, NEW r \in {"path", "nothing"},
         pc' = [pc EXCEPT ![m] = p], reference' = [reference EXCEPT ![m] = r],
         p = "transcribe" => r = "path",
         r = "nothing" => message[m].media # "kept", m \in gave_up' => r = "nothing",
         FileOf(m)'
  PROVE  NotesInv'
<1>1. Types /\ NoteOf(m)
  BY DEF NotesInv
<1>2. ~(m < first)
  BY <1>1 DEF NoteOf
<1>3. /\ pc'[m] = p /\ reference'[m] = r
      /\ \A k \in 1 .. N : k # m => pc'[k] = pc[k] /\ reference'[k] = reference[k]
  BY <1>1 DEF Types
<1>4. NoteOf(m)'
  BY <1>2, <1>3 DEF NoteOf, Frame
<1>5. \A k \in 1 .. N : k # m => Same(k)
  BY <1>3 DEF Same
<1> QED
  BY <1>4, <1>5, NoteAlone

\* Exclude, TakeKept, Enqueue, Defer and MediaFails decide what is referred to.
LEMMA MediaKeeps ==
  ASSUME NotesInv, NEW m \in 1 .. N,
         \/ Notes!Exclude(m) \/ Notes!TakeKept(m) \/ Notes!Enqueue(m) \/ Notes!Defer(m) \/ Notes!MediaFails(m)
  PROVE  NotesInv'
<1>1. /\ Types /\ NoteOf(m) /\ FileOf(m) /\ pc[m] = "media" /\ Frame
      /\ UNCHANGED <<working, retrying, gave_up>>
  BY DEF Notes!Exclude, Notes!TakeKept, Notes!Enqueue, Notes!Defer, Notes!MediaFails, Notes!AtMedia, NotesInv, Notes!static, Frame, Notes!media
<1>2. /\ reference[m] = "none" /\ m \notin gave_up /\ ~Downloading(m)
      /\ ~Occurs(m, _pending_tasks) /\ m \notin working
      /\ message[m].media # "kept" => file[m] = "none"
  BY <1>1, OnItsWay
<1>3. /\ queue \in Seq(1 .. N) /\ _pending_tasks \in Seq(1 .. N)
      /\ file \in [1 .. N -> Notes!FileStates] /\ m \in 1 .. N
  BY <1>1 DEF Types
<1>4. ASSUME NEW p \in {"transcribe", "done"}, NEW r \in {"path", "nothing"},
             pc' = [pc EXCEPT ![m] = p], reference' = [reference EXCEPT ![m] = r],
             file' \in [1 .. N -> Notes!FileStates],
             queue' \in Seq(1 .. N), _pending_tasks' \in Seq(1 .. N)
      PROVE  Types' /\ pc'[m] = p /\ reference'[m] = r
  BY <1>1, <1>4 DEF Types, Frame
<1>5. CASE Notes!Exclude(m) \/ Notes!MediaFails(m)
  <2>1. /\ pc' = [pc EXCEPT ![m] = "done"]
        /\ reference' = [reference EXCEPT ![m] = "nothing"]
        /\ message[m].media \in {"voice", "excluded"}
        /\ file' = file \/ file' = [file EXCEPT ![m] = "part"]
        /\ UNCHANGED <<queue, _pending_tasks>>
    BY <1>5 DEF Notes!Exclude, Notes!MediaFails, Notes!AtMedia, Notes!NothingDownloaded, Notes!Goto, Notes!media
  <2>2. /\ file' \in [1 .. N -> Notes!FileStates] /\ file'[m] \in {"none", "part"}
        /\ \A k \in 1 .. N : k # m => file'[k] = file[k]
    BY <1>2, <1>3, <2>1 DEF Notes!FileStates
  <2>3. Types' /\ pc'[m] = "done" /\ reference'[m] = "nothing"
    BY <1>3, <1>4, <2>1, <2>2
  <2>4. FileOf(m)'
    BY <1>1, <1>2, <2>1, <2>2, <2>3 DEF FileOf, Downloading, Occurs, Frame
  <2>5. \A k : (Occurs(k, queue)' <=> Occurs(k, queue))
               /\ (Occurs(k, _pending_tasks)' <=> Occurs(k, _pending_tasks))
    BY <2>1 DEF Occurs
  <2> QED
    BY <1>1, <1>2, <2>1, <2>2, <2>3, <2>4, <2>5, ReferKeeps
<1>6. CASE Notes!TakeKept(m) \/ Notes!Enqueue(m) \/ Notes!Defer(m)
  <2>1. PICK p \in {"transcribe", "done"} :
          pc' = [pc EXCEPT ![m] = p] /\ reference' = [reference EXCEPT ![m] = "path"]
    <3>1. Notes!Refer(m)
      BY <1>6 DEF Notes!TakeKept, Notes!Enqueue, Notes!Defer
    <3> QED
      BY <3>1 DEF Notes!Refer, Notes!Goto
  <2>2. /\ file' \in [1 .. N -> Notes!FileStates] /\ queue' \in Seq(1 .. N)
        /\ _pending_tasks' \in Seq(1 .. N)
        /\ \A k \in 1 .. N : k # m => /\ file'[k] = file[k]
                                      /\ Occurs(k, queue)' <=> Occurs(k, queue)
                                      /\ Occurs(k, _pending_tasks)' <=> Occurs(k, _pending_tasks)
        /\ file'[m] = "there" \/ Occurs(m, queue)'
        /\ Occurs(m, queue)' \/ Occurs(m, _pending_tasks)' => message[m].media = "voice"
        /\ message[m].media = "kept" => file'[m] = "there"
        /\ file'[m] # "part"
    <3>1. CASE Notes!TakeKept(m)
      <4>1. UNCHANGED <<file, queue, _pending_tasks>> /\ file[m] = "there"
        BY <1>1, <3>1 DEF Notes!TakeKept, Notes!AtMedia, Notes!media, FileOf
      <4> QED
        BY <1>2, <1>3, <4>1 DEF Occurs, Downloading
    <3>2. CASE Notes!Enqueue(m)
      <4>1. /\ UNCHANGED <<file, _pending_tasks>> /\ queue' = Append(queue, m)
            /\ message[m].media = "voice"
        BY <3>2 DEF Notes!Enqueue, Notes!AtMedia
      <4>2. queue' \in Seq(1 .. N) /\ \A k : Occurs(k, queue') <=> Occurs(k, queue) \/ k = m
        BY <1>3, <4>1, AppendOccurs
      <4> QED
        BY <1>2, <1>3, <4>1, <4>2 DEF Occurs
    <3>3. CASE Notes!Defer(m)
      <4>1. /\ UNCHANGED queue /\ _pending_tasks' = Append(_pending_tasks, m)
            /\ file' = [file EXCEPT ![m] = "there"] /\ message[m].media = "voice"
        BY <3>3 DEF Notes!Defer, Notes!AtMedia
      <4>2. /\ _pending_tasks' \in Seq(1 .. N)
            /\ \A k : Occurs(k, _pending_tasks') <=> Occurs(k, _pending_tasks) \/ k = m
        BY <1>3, <4>1, AppendOccurs
      <4>3. /\ file' \in [1 .. N -> Notes!FileStates] /\ file'[m] = "there"
            /\ \A k \in 1 .. N : k # m => file'[k] = file[k]
        BY <1>3, <4>1 DEF Notes!FileStates
      <4> QED
        BY <1>2, <1>3, <4>1, <4>2, <4>3 DEF Occurs
    <3> QED
      BY <1>6, <3>1, <3>2, <3>3
  <2>3. Types' /\ pc'[m] = p /\ reference'[m] = "path"
    BY <1>4, <2>1, <2>2
  <2>4. FileOf(m)'
    BY <1>1, <1>2, <2>2, <2>3 DEF FileOf, Downloading, Frame
  <2> QED
    BY <1>1, <1>2, <2>1, <2>2, <2>3, <2>4, ReferKeeps
<1> QED
  BY <1>5, <1>6

\* A worker has the file in hand from now on.
LEMMA SubmitKeeps ==
  ASSUME NotesInv, NEW m \in 1 .. N, Notes!Submit(m) PROVE NotesInv'
<1>1. /\ Types /\ NoteOf(m) /\ FileOf(m) /\ pc[m] = "media" /\ Frame
      /\ message[m].media = "voice"
      /\ UNCHANGED <<reference, queue, retrying, _pending_tasks, gave_up, file>>
      /\ pc' = [pc EXCEPT ![m] = "result"] /\ working' = working \cup {m}
  BY DEF Notes!Submit, Notes!AtMedia, NotesInv, Notes!static, Frame, Notes!Goto
<1>2. /\ ~(m < first) /\ reference[m] = "none" /\ m \notin gave_up /\ ~Downloading(m)
      /\ ~Occurs(m, _pending_tasks)
  BY <1>1, OnItsWay
<1>3. pc'[m] = "result" /\ \A k \in 1 .. N : k # m => pc'[k] = pc[k]
  BY <1>1 DEF Types
<1>4. Types'
  BY <1>1 DEF Types, Frame
<1>5. \A k \in 1 .. N : k # m => Same(k)
  BY <1>1, <1>3 DEF Same, Occurs
<1>6. Notes!HasMedia(m)
  BY <1>1 DEF Notes!HasMedia
<1>7. NoteOf(m)'
  BY <1>1, <1>2, <1>3, <1>6 DEF NoteOf, Frame, Notes!HasMedia
<1>8. FileOf(m)'
  BY <1>1, <1>2, <1>3 DEF FileOf, Downloading, Occurs, Frame
<1> QED
  BY <1>1, <1>4, <1>5, <1>7, <1>8, NoteAlone

\* The end of the wait for that worker.
LEMMA ResultKeeps ==
  ASSUME NotesInv, NEW m \in 1 .. N, Notes!TakeResult(m) \/ Notes!GiveUp(m) PROVE NotesInv'
<1>1. /\ Types /\ NoteOf(m) /\ FileOf(m) /\ pc[m] = "result" /\ Frame
      /\ UNCHANGED <<queue, retrying, working, _pending_tasks, file>>
  BY DEF Notes!TakeResult, Notes!GiveUp, NotesInv, Notes!static, Frame, Notes!media
<1>2. \A k : (Occurs(k, queue)' <=> Occurs(k, queue))
             /\ (Occurs(k, _pending_tasks)' <=> Occurs(k, _pending_tasks))
  BY <1>1 DEF Occurs
<1>3. /\ reference[m] = "none" /\ m \notin gave_up
      /\ ~Downloading(m) /\ ~Occurs(m, _pending_tasks)
  BY <1>1, OnItsWay
<1>4. CASE Notes!TakeResult(m)
  <2>1. PICK p \in {"transcribe", "done"} :
          pc' = [pc EXCEPT ![m] = p] /\ reference' = [reference EXCEPT ![m] = "path"]
    BY <1>4 DEF Notes!TakeResult, Notes!Refer, Notes!Goto
  <2>2. UNCHANGED gave_up /\ file[m] \in {"part", "there", "failed"}
    BY <1>4 DEF Notes!TakeResult, Notes!media
  <2>3. Types' /\ pc'[m] = p /\ reference'[m] = "path"
    BY <1>1, <2>1, <2>2 DEF Types, Frame
  <2>4. FileOf(m)'
    BY <1>1, <1>2, <1>3, <2>2, <2>3 DEF FileOf, Downloading, Frame
  <2> QED
    BY <1>1, <1>2, <1>3, <2>1, <2>2, <2>3, <2>4, ReferKeeps
<1>5. CASE Notes!GiveUp(m)
  <2>1. /\ pc' = [pc EXCEPT ![m] = "done"]
        /\ reference' = [reference EXCEPT ![m] = "nothing"]
        /\ gave_up' = gave_up \cup {m} /\ file[m] \in {"none", "failed"}
    BY <1>5 DEF Notes!GiveUp, Notes!NothingDownloaded, Notes!Goto
  <2>2. Types' /\ pc'[m] = "done" /\ reference'[m] = "nothing"
    BY <1>1, <2>1 DEF Types, Frame
  <2>3. FileOf(m)'
    BY <1>1, <1>2, <1>3, <2>1, <2>2 DEF FileOf, Downloading, Frame
  <2>4. message[m].media # "kept"
    BY <1>1, <2>1 DEF FileOf
  <2> QED
    BY <1>1, <1>2, <2>1, <2>2, <2>3, <2>4, ReferKeeps
<1> QED
  BY <1>4, <1>5

LEMMA TranscribeKeeps ==
  ASSUME NotesInv, NEW m \in 1 .. N, Notes!Transcribe(m) PROVE NotesInv'
<1>1. /\ Types /\ NoteOf(m) /\ FileOf(m) /\ pc[m] = "transcribe" /\ Frame
      /\ UNCHANGED <<reference, Notes!media>> /\ pc' = [pc EXCEPT ![m] = "done"]
  BY DEF Notes!Transcribe, NotesInv, Notes!static, Frame, Notes!Goto
<1>2. reference[m] = "path" /\ reference' = [reference EXCEPT ![m] = "path"] /\ m \notin gave_up
  BY <1>1 DEF NoteOf, Types
<1>3. \A k : (Occurs(k, queue)' <=> Occurs(k, queue))
             /\ (Occurs(k, _pending_tasks)' <=> Occurs(k, _pending_tasks))
  BY <1>1 DEF Occurs, Notes!media
<1>4. Types' /\ pc'[m] = "done" /\ reference'[m] = "path"
  BY <1>1, <1>2 DEF Types, Frame, Notes!media
<1>5. FileOf(m)'
  BY <1>1, <1>2, <1>3, <1>4 DEF FileOf, Downloading, Frame, Notes!media
<1> QED
  BY <1>1, <1>2, <1>3, <1>4, <1>5, ReferKeeps DEF Notes!media

LEMMA StartBatchKeeps == ASSUME NotesInv, Notes!StartBatch PROVE NotesInv'
<1>1. Types
  BY DEF NotesInv
<1>2. /\ Frame /\ UNCHANGED <<reference, Notes!media>>
      /\ pc' = [k \in 1 .. N |-> IF k \in Notes!Batch THEN "waiting" ELSE pc[k]]
      /\ \A k \in Notes!Batch : pc[k] = "idle"
  BY DEF Notes!StartBatch, Notes!static, Frame
<1>3. Types'
  BY <1>1, <1>2 DEF Types, Frame, Notes!media
<1>4. ASSUME NEW m \in 1 .. N PROVE NoteOf(m)' /\ FileOf(m)'
  <2>1. NoteOf(m) /\ FileOf(m)
    BY DEF NotesInv
  <2>2. Notes!HasMedia(m)' <=> Notes!HasMedia(m)
    BY <1>2 DEF Notes!HasMedia, Frame
  <2>3. pc'[m] = IF m \in Notes!Batch THEN "waiting" ELSE pc[m]
    BY <1>2
  <2>4. CASE m \in Notes!Batch
    <3>1. ~(m < first) /\ pc[m] = "idle" /\ reference[m] = "none"
      BY <1>2, <2>4, OnItsWay
    <3> QED
      BY <1>2, <2>1, <2>3, <2>4, <3>1 DEF NoteOf, FileOf, Downloading, Occurs, Frame, Notes!media
  <2>5. CASE m \notin Notes!Batch
    BY <1>2, <2>1, <2>2, <2>3, <2>5 DEF NoteOf, FileOf, Downloading, Occurs, Frame, Notes!media
  <2> QED
    BY <2>4, <2>5
<1>5. (notes_written \in Seq(1 .. N) /\ \A i \in 1 .. Len(notes_written) : notes_written[i] < first)'
  BY <1>2 DEF NotesInv, Frame
<1> QED
  BY <1>3, <1>4, <1>5 DEF NotesInv

LEMMA WriteBatchKeeps == ASSUME NotesInv, Notes!WriteBatch PROVE NotesInv'
<1>1. /\ Types /\ notes_written \in Seq(1 .. N)
      /\ \A i \in 1 .. Len(notes_written) : notes_written[i] < first
  BY DEF NotesInv
<1>2. /\ UNCHANGED <<message, config, pc, reference, Notes!media>>
      /\ Notes!Batch # {} /\ \A k \in Notes!Batch : pc[k] = "done"
  BY DEF Notes!WriteBatch, Notes!static
<1>3. PICK e : e = Notes!BatchEnd
  OBVIOUS
<1>4. /\ N \in Nat /\ first \in Nat /\ first >= 1 /\ e \in Int /\ e <= N /\ first <= e
      /\ \A k \in 1 .. N : k >= first /\ k <= e => pc[k] = "done"
  BY <1>1, <1>2, <1>3, BatchBounds DEF Notes!Batch, Types
<1>5. first' = e + 1 /\ notes_written' = notes_written \o [i \in 1 .. e + 1 - first |-> first + i - 1]
  BY <1>3 DEF Notes!WriteBatch
<1>6. PICK b : b = [i \in 1 .. e + 1 - first |-> first + i - 1]
  OBVIOUS
<1>7. /\ b \in Seq(1 .. N) /\ Len(b) = e + 1 - first /\ Len(b) \in Nat
      /\ \A i \in 1 .. Len(b) : b[i] = first + i - 1 /\ b[i] < e + 1
  <2>1. e + 1 - first \in Nat
    BY <1>4
  <2>2. \A i \in 1 .. e + 1 - first : first + i - 1 \in 1 .. N /\ first + i - 1 < e + 1
    BY <1>4
  <2>3. b \in Seq(1 .. N) /\ Len(b) = e + 1 - first
    <3>1. PICK n \in Nat : n = e + 1 - first
      BY <2>1
    <3>2. b \in [1 .. n -> 1 .. N]
      BY <1>6, <2>2, <3>1
    <3>3. b \in Seq(1 .. N)
      BY <3>1, <3>2, SeqDef
    <3> QED
      BY <3>1, <3>2, <3>3
  <2>4. \A i \in 1 .. e + 1 - first : b[i] = first + i - 1
    BY <1>6
  <2> QED
    BY <2>1, <2>2, <2>3, <2>4
<1>8. /\ notes_written' \in Seq(1 .. N) /\ Len(notes_written') = Len(notes_written) + Len(b)
      /\ \A i \in 1 .. Len(notes_written') :
           notes_written'[i] = IF i <= Len(notes_written) THEN notes_written[i] ELSE b[i - Len(notes_written)]
  <2>1. notes_written' = notes_written \o b
    BY <1>5, <1>6
  <2>2. /\ notes_written \o b \in Seq(1 .. N) /\ Len(notes_written \o b) = Len(notes_written) + Len(b)
        /\ \A i \in 1 .. Len(notes_written) + Len(b) :
             (notes_written \o b)[i] = IF i <= Len(notes_written) THEN notes_written[i] ELSE b[i - Len(notes_written)]
    <3>1. notes_written \in Seq(1 .. N) /\ b \in Seq(1 .. N)
      BY <1>1, <1>7
    <3> QED
      BY <3>1, ConcatProperties, Zenon
  <2> QED
    BY <2>1, <2>2, Zenon
<1>9. ASSUME NEW i \in 1 .. Len(notes_written') PROVE notes_written'[i] < first'
  <2>1. Len(notes_written) \in Nat
    BY <1>1
  <2>2. CASE i <= Len(notes_written)
    <3>1. i \in 1 .. Len(notes_written) /\ notes_written'[i] = notes_written[i] /\ notes_written[i] \in 1 .. N
      <4>1. i \in 1 .. Len(notes_written)
        BY <1>7, <1>8, <2>1, <2>2
      <4> QED
        BY <1>1, <1>8, <2>2, <4>1, ElementOfSeq
    <3> QED
      BY <1>1, <1>4, <1>5, <3>1
  <2>3. CASE ~(i <= Len(notes_written))
    <3>1. i - Len(notes_written) \in 1 .. Len(b)
      BY <1>7, <1>8, <2>1, <2>3
    <3> QED
      BY <1>5, <1>7, <1>8, <2>3, <3>1
  <2> QED
    BY <2>2, <2>3
<1>10. Types'
  <2>1. first' \in 1 .. N + 1
    BY <1>4, <1>5
  <2> QED
    BY <1>1, <1>2, <2>1 DEF Types, Notes!media
<1>11. ASSUME NEW m \in 1 .. N PROVE NoteOf(m)' /\ FileOf(m)'
  <2>1. NoteOf(m) /\ FileOf(m)
    BY DEF NotesInv
  <2>2. Notes!HasMedia(m)' <=> Notes!HasMedia(m)
    BY <1>2 DEF Notes!HasMedia
  <2>3. m < first' => pc[m] = "done"
    <3>1. m < first' => m < first \/ (m >= first /\ m <= e)
      BY <1>4, <1>5
    <3> QED
      BY <1>4, <2>1, <3>1 DEF NoteOf
  <2>4. NoteOf(m)'
    BY <1>2, <2>1, <2>2, <2>3 DEF NoteOf, Notes!media
  <2>5. FileOf(m)'
    BY <1>2, <2>1 DEF FileOf, Downloading, Occurs, Notes!media
  <2> QED
    BY <2>4, <2>5
<1> QED
  BY <1>8, <1>9, <1>10, <1>11 DEF NotesInv

-----------------------------------------------------------------------------
(* In the background                                                       *)

\* A worker may change the file of a message that refers to its path, or does not
\* wait for it any more, or waits for it.
LEMMA BackgroundKeeps ==
  ASSUME NotesInv, NEW m \in 1 .. N, Frame, Types',
         UNCHANGED <<pc, reference, gave_up>>,
         \A k \in 1 .. N : k # m => Same(k), FileOf(m)'
  PROVE  NotesInv'
<1>1. NoteOf(m)
  BY DEF NotesInv
<1>2. NoteOf(m)'
  BY <1>1 DEF NoteOf, Frame, Notes!HasMedia
<1> QED
  BY <1>2, NoteAlone

LEMMA DownloadKeeps == ASSUME NotesInv, Notes!Download PROVE NotesInv'
<1>1. Types /\ queue \in Seq(1 .. N) /\ queue # <<>>
  BY DEF Notes!Download, NotesInv, Types
<1>2. /\ Frame /\ UNCHANGED <<pc, reference, gave_up, working, _pending_tasks>>
      /\ queue' = Tail(queue)
  BY DEF Notes!Download, Notes!BackgroundOnly, Notes!static, Notes!notes, Frame
<1>3. PICK h \in 1 .. N :
        /\ h = Head(queue) /\ queue' \in Seq(1 .. N) /\ Occurs(h, queue)
        /\ \A k : k # h => (Occurs(k, queue') <=> Occurs(k, queue))
  BY <1>1, <1>2, TailOccurs
<1>4. NoteOf(h) /\ FileOf(h) /\ reference[h] = "path" /\ message[h].media = "voice"
  BY <1>3 DEF NotesInv, FileOf, Downloading
<1>5. /\ file' \in [1 .. N -> Notes!FileStates] /\ retrying' \in SUBSET (1 .. N)
      /\ \A k \in 1 .. N : k # h => file'[k] = file[k] /\ (k \in retrying' <=> k \in retrying)
      /\ file'[h] \in {"there", "failed"} \/ (h \in retrying' /\ file'[h] = file[h])
  <2>1. CASE UNCHANGED retrying /\ \E o \in {"there", "failed"} : file' = [file EXCEPT ![h] = o]
    BY <1>1, <2>1 DEF Types, Notes!FileStates
  <2>2. CASE UNCHANGED file /\ retrying' = retrying \cup {h}
    BY <1>1, <2>2 DEF Types
  <2> QED
    BY <1>3, <2>1, <2>2 DEF Notes!Download
<1>6. Types'
  BY <1>1, <1>2, <1>3, <1>5 DEF Types, Frame
<1>7. \A k \in 1 .. N : k # h => Same(k)
  BY <1>2, <1>3, <1>5 DEF Same, Occurs
<1>8. FileOf(h)'
  BY <1>2, <1>4, <1>5 DEF FileOf, Downloading, Occurs, Frame
<1> QED
  BY <1>2, <1>6, <1>7, <1>8, BackgroundKeeps

LEMMA RequeueKeeps == ASSUME NotesInv, NEW m \in 1 .. N, Notes!Requeue(m) PROVE NotesInv'
<1>1. /\ Types /\ FileOf(m) /\ queue \in Seq(1 .. N) /\ m \in retrying
  BY DEF Notes!Requeue, NotesInv, Types
<1>2. /\ Frame /\ UNCHANGED <<pc, reference, gave_up, working, _pending_tasks, file>>
      /\ queue' = Append(queue, m) /\ retrying' = retrying \ {m}
  BY DEF Notes!Requeue, Notes!BackgroundOnly, Notes!static, Notes!notes, Frame
<1>3. queue' \in Seq(1 .. N) /\ \A k : Occurs(k, queue') <=> Occurs(k, queue) \/ k = m
  BY <1>1, <1>2, AppendOccurs
<1>4. Types'
  BY <1>1, <1>2, <1>3 DEF Types, Frame
<1>5. \A k \in 1 .. N : k # m => Same(k)
  BY <1>2, <1>3 DEF Same, Occurs
<1>6. FileOf(m)'
  BY <1>1, <1>2, <1>3 DEF FileOf, Downloading, Occurs, Frame
<1> QED
  BY <1>2, <1>4, <1>5, <1>6, BackgroundKeeps

LEMMA WorkKeeps == ASSUME NotesInv, NEW m \in 1 .. N, Notes!Work(m) PROVE NotesInv'
<1>1. Types /\ NoteOf(m) /\ FileOf(m) /\ m \in working
  BY DEF Notes!Work, NotesInv
<1>2. /\ Frame /\ UNCHANGED <<pc, reference, gave_up, queue, retrying, _pending_tasks>>
  BY DEF Notes!Work, Notes!BackgroundOnly, Notes!static, Notes!notes, Frame
<1>3. /\ file' \in [1 .. N -> Notes!FileStates] /\ working' \in SUBSET (1 .. N)
      /\ \A k \in 1 .. N : k # m => file'[k] = file[k] /\ (k \in working' <=> k \in working)
      /\ file'[m] \in {"there", "failed"} \/ (file'[m] = "part" /\ m \in working')
  <2>1. CASE UNCHANGED working /\ file' = [file EXCEPT ![m] = "part"]
    BY <1>1, <2>1 DEF Types, Notes!FileStates
  <2>2. CASE /\ working' = working \ {m}
             /\ \E o \in {"there", "failed"} : file' = [file EXCEPT ![m] = o]
    BY <1>1, <2>2 DEF Types, Notes!FileStates
  <2> QED
    BY <2>1, <2>2 DEF Notes!Work
<1>4. Types'
  BY <1>1, <1>2, <1>3 DEF Types, Frame
<1>5. \A k \in 1 .. N : k # m => Same(k)
  BY <1>2, <1>3 DEF Same, Occurs
<1>6. message[m].media # "kept" /\ (reference[m] = "path" \/ pc[m] = "result" \/ m \in gave_up)
  BY <1>1 DEF FileOf
<1>7. FileOf(m)'
  BY <1>1, <1>2, <1>3, <1>6 DEF FileOf, Downloading, Occurs, Frame
<1> QED
  BY <1>2, <1>4, <1>5, <1>7, BackgroundKeeps

LEMMA ProcessPendingKeeps == ASSUME NotesInv, Notes!ProcessPending PROVE NotesInv'
<1>1. Types /\ _pending_tasks \in Seq(1 .. N) /\ _pending_tasks # <<>>
  BY DEF Notes!ProcessPending, NotesInv, Types
<1>2. /\ Frame /\ UNCHANGED <<pc, reference, gave_up, queue, retrying>>
      /\ _pending_tasks' = Tail(_pending_tasks)
  BY DEF Notes!ProcessPending, Notes!static, Notes!notes, Frame
<1>3. PICK h \in 1 .. N :
        /\ h = Head(_pending_tasks) /\ _pending_tasks' \in Seq(1 .. N)
        /\ Occurs(h, _pending_tasks)
        /\ \A k : k # h => (Occurs(k, _pending_tasks') <=> Occurs(k, _pending_tasks))
  BY <1>1, <1>2, TailOccurs
<1>4. NoteOf(h) /\ FileOf(h) /\ reference[h] = "path" /\ message[h].media = "voice"
  BY <1>3 DEF NotesInv, FileOf
<1>5. /\ file' \in [1 .. N -> Notes!FileStates] /\ working' \in SUBSET (1 .. N)
      /\ \A k \in 1 .. N : k # h => file'[k] = file[k] /\ (k \in working' <=> k \in working)
      /\ \/ file'[h] = "moved" /\ h \in working'
         \/ file'[h] = file[h] /\ (h \in working' <=> h \in working)
  <2>1. CASE file' = [file EXCEPT ![h] = "moved"] /\ working' = working \cup {h}
    BY <1>1, <2>1 DEF Types, Notes!FileStates
  <2>2. CASE UNCHANGED <<working, file>>
    BY <1>1, <2>2 DEF Types
  <2> QED
    BY <1>3, <2>1, <2>2 DEF Notes!ProcessPending
<1>6. Types'
  BY <1>1, <1>2, <1>3, <1>5 DEF Types, Frame
<1>7. \A k \in 1 .. N : k # h => Same(k)
  BY <1>2, <1>3, <1>5 DEF Same, Occurs
<1>8. FileOf(h)'
  BY <1>2, <1>4, <1>5 DEF FileOf, Downloading, Occurs, Frame
<1> QED
  BY <1>2, <1>6, <1>7, <1>8, BackgroundKeeps

\* Where nothing but the phase of the export and the number of failures changes.
LEMMA NothingElse ==
  ASSUME NotesInv, UNCHANGED <<Notes!static, Notes!notes, Notes!media>> PROVE NotesInv'
<1>1. UNCHANGED <<message, config, first, pc, reference, notes_written, queue, retrying, working,
                  _pending_tasks, gave_up, file>>
  BY DEF Notes!static, Notes!notes, Notes!media
<1>2. Types'
  BY <1>1 DEF NotesInv, Types
<1>3. \A m \in 1 .. N : (NoteOf(m) /\ FileOf(m))'
  BY <1>1 DEF NotesInv, NoteOf, FileOf, Downloading, Occurs, Notes!HasMedia
<1>4. (notes_written \in Seq(1 .. N) /\ \A i \in 1 .. Len(notes_written) : notes_written[i] < first)'
  BY <1>1 DEF NotesInv
<1> QED
  BY <1>2, <1>3, <1>4 DEF NotesInv

LEMMA NotesStep == NotesInv /\ [Notes!Next]_Notes!vars => NotesInv'
<1> SUFFICES ASSUME NotesInv, [Notes!Next]_Notes!vars PROVE NotesInv'
  OBVIOUS
<1>1. CASE Notes!ExportEnds \/ Notes!PendingEnds \/ UNCHANGED Notes!vars
  BY <1>1, NothingElse DEF Notes!ExportEnds, Notes!PendingEnds, Notes!vars
<1>2. CASE Notes!Main
  BY <1>1, <1>2, StartBatchKeeps, WriteBatchKeeps, ProcessPendingKeeps DEF Notes!Main
<1>3. ASSUME NEW m \in 1 .. N, Notes!Process(m) PROVE NotesInv'
  BY <1>3, BeginKeeps, MediaKeeps, SubmitKeeps, ResultKeeps, TranscribeKeeps DEF Notes!Process
<1>4. CASE Notes!Background
  BY <1>4, DownloadKeeps, RequeueKeeps, WorkKeeps DEF Notes!Background
<1> QED
  BY <1>1, <1>2, <1>3, <1>4 DEF Notes!Next

LEMMA NotesTell == NotesInv => NoteTellsFile
<1> SUFFICES ASSUME NotesInv, NEW m \in Notes!Range(notes_written), Notes!HasMedia(m), config.media_download
             PROVE  \/ reference[m] = "path" <=> file[m] = "there"
                    \/ reference[m] = "path" /\ (file[m] = "failed" \/ m \in Notes!Unsettled)
                    \/ reference[m] # "path" /\ m \in gave_up
  BY DEF NoteTellsFile, Notes!NoteTellsFile
<1>1. PICK i \in 1 .. Len(notes_written) : notes_written[i] = m
  BY DEF Notes!Range, NotesInv
<1>2. m \in 1 .. N /\ m < first
  BY <1>1, ElementOfSeq DEF NotesInv
<1>3. Types /\ NoteOf(m) /\ FileOf(m)
  BY <1>2 DEF NotesInv
<1>4. pc[m] = "done" /\ reference[m] \in {"path", "nothing"}
  BY <1>2, <1>3 DEF NoteOf
<1>5. CASE reference[m] = "path"
  <2>1. Occurs(m, queue) => m \in Notes!Range(queue)
    BY <1>3 DEF Occurs, Notes!Range, Types
  <2> QED
    BY <1>3, <1>5, <2>1 DEF FileOf, Downloading, Notes!Unsettled
<1>6. CASE reference[m] = "nothing"
  <2>1. message[m].media # "kept"
    BY <1>3, <1>6 DEF NoteOf
  <2> QED
    BY <1>3, <1>4, <1>6, <2>1 DEF FileOf
<1> QED
  BY <1>4, <1>5, <1>6

\* At the end of an export a note that names a file has one, unless a worker failed after
\* the note was written or was not waited for any longer, and any other note has none,
\* unless its message had given up waiting: for any messages, loops, limits of the
\* download queue, numbers of its workers, failures and timeouts.
THEOREM NoteAlwaysTells == Notes!Spec => []NoteTellsFile
<1>1. Notes!Spec => []NotesInv
  BY NotesStart, NotesStep, PTL DEF Notes!Spec
<1> QED
  BY <1>1, NotesTell, PTL
=============================================================================
