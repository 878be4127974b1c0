------------------------ MODULE MediaProcessingProofs ------------------------
(***************************************************************************)
(* Proofs about what is made of the files, for any messages, files shared  *)
(* between them, workers, threads, attempts, failures and kills.           *)
(*                                                                         *)
(* MediaProcessing: an output that has been written whole is never touched *)
(* again.                                                                  *)
(* MediaConversion (with MCMedia): only a whole output counts as success,  *)
(* and a task fails only when its copies have failed.                      *)
(* Transcription: a text is that of the file which was asked for.          *)
(***************************************************************************)
EXTENDS MCMedia, SequenceLemmas

Calls == {"start", "downloading", "got", "waiting", "result", "ok", "none"}
Steps == {"idle", "process", "open", "writing", "copy", "reopen", "copying"}

\* The part of TypeOK the argument needs, with what a call knows of its file.
Types ==
    /\ file \in [Messages -> Files]
    /\ output \in [Messages -> FileStates] /\ temp \in [Messages -> FileStates]
    /\ cached \in [Files -> Messages \cup {NoMessage}]
    /\ call \in [Messages -> Calls]
    /\ input \in [Messages -> Messages \cup {NoMessage, "aside"}]
    /\ queue \in Seq(Messages) /\ pending \in Seq(Messages)
    /\ worker \in [Workers -> Steps]
    /\ item \in [Workers -> Messages \cup {NoMessage}]
    /\ written \subseteq Messages
    /\ \A m \in Messages : call[m] = "got" => input[m] \in Messages
    /\ \A w \in Busy : item[w] \in Messages

\* Messages whose call may still make a task; those whose task a worker has.
Fresh == {m \in Messages : call[m] \in {"start", "downloading", "got"}}
Held  == {item[w] : w \in Busy}

\* A message has one task at most: still to be made, deferred, queued or in the
\* hands of one worker.
OneTask ==
    /\ Fresh \cap (ToSet(pending) \cup ToSet(queue) \cup Held) = {}
    /\ ToSet(pending) \cap (ToSet(queue) \cup Held) = {}
    /\ ToSet(queue) \cap Held = {}
    /\ Once(pending) /\ Once(queue)
    /\ \A v, w \in Busy : item[v] = item[w] => v = w

\* A written output has no task any more, and no call will make one.
Settled ==
    /\ written \cap (ToSet(pending) \cup ToSet(queue) \cup Held) = {}
    /\ \A m \in written : call[m] \notin {"downloading", "got"}

IInv == Types /\ OneTask /\ Settled /\ WrittenStays

-----------------------------------------------------------------------------
LEMMA Sizes ==
    /\ Whole \in FileStates /\ Part \in FileStates /\ NoFile \in FileStates
    /\ Old \in FileStates /\ Whole.size > 0
  BY DEF Whole, Part, NoFile, Old, FileStates, FullSize

-----------------------------------------------------------------------------
LEMMA InitIInv == Init => IInv
<1> SUFFICES ASSUME Init PROVE IInv
  OBVIOUS
<1>1. Busy = {} /\ Held = {} /\ written = {} /\ queue = <<>> /\ pending = <<>>
  BY DEF Init, Busy, Held
<1>2. Types
  BY <1>1, Sizes, ProcessingAssumption
     DEF Init, Types, Calls, Steps, ProcessingAssumption
<1> QED
  BY <1>1, <1>2, NothingIn DEF Init, IInv, OneTask, Settled, WrittenStays

\* A step that only moves calls on, and makes none fresh.
LEMMA CallStep ==
  ASSUME IInv, Types', NEW m \in Messages, NEW p \in Calls,
         call' = [call EXCEPT ![m] = p],
         UNCHANGED <<queue, pending, worker, item, written, output>>,
         m \in Fresh \/ p \notin {"start", "downloading", "got"},
         m \in written => p \notin {"downloading", "got"}
  PROVE  IInv'
<1>1. Fresh' \subseteq Fresh /\ Held' = Held /\ Busy' = Busy
  BY DEF IInv, Types, Fresh, Held, Busy
<1>2. OneTask'
  BY <1>1 DEF IInv, OneTask
<1>3. Settled'
  BY <1>1 DEF IInv, Settled, Types
<1> QED
  BY <1>2, <1>3 DEF IInv, WrittenStays

LEMMA CallIInv ==
  ASSUME IInv, NEW m \in Messages, Call(m)
  PROVE  IInv'
<1>1. CASE Check(m)
  <2>1. m \in written => OutputAccepted(m)
    BY <1>1, Sizes DEF IInv, WrittenStays, OutputAccepted
  <2>2. PICK p \in {"ok", "downloading"} :
          call' = [call EXCEPT ![m] = p] /\ (m \in written => p = "ok")
    BY <1>1, <2>1 DEF Check
  <2>3. Types'
    BY <1>1, <2>2 DEF IInv, Types, Check, configVars, workVars, historyVars, Calls,
                      Busy
  <2> QED
    BY <1>1, <2>2, <2>3, CallStep
       DEF Check, workVars, historyVars, Calls, Fresh
<1>2. CASE Download(m)
  <2>1. m \notin written
    BY <1>2 DEF IInv, Settled, Download
  <2>2. PICK p \in {"got", "none"} :
          call' = [call EXCEPT ![m] = p]
          /\ (p = "got" => \E k \in Messages : input' = [input EXCEPT ![m] = k])
          /\ (p = "none" => input' = input)
    BY <1>2 DEF IInv, Types, Download
  <2>3. /\ temp' = temp \/ \E f \in FileStates : temp' = [temp EXCEPT ![m] = f]
        /\ cached' = cached \/ cached' = [cached EXCEPT ![file[m]] = m]
        /\ UNCHANGED <<file, output, queue, pending, worker, item, written>>
    BY <1>2, Sizes DEF Download, configVars, workVars, historyVars
  <2>4. Types'
    <3>1. temp' \in [Messages -> FileStates]
      BY <2>3 DEF IInv, Types
    <3>2. cached' \in [Files -> Messages \cup {NoMessage}]
      BY <2>3 DEF IInv, Types
    <3>3. input' \in [Messages -> Messages \cup {NoMessage, "aside"}]
      BY <2>2 DEF IInv, Types
    <3>4. call' \in [Messages -> Calls]
      BY <2>2 DEF IInv, Types, Calls
    <3>5. \A n \in Messages : call'[n] = "got" => input'[n] \in Messages
      BY <2>2 DEF IInv, Types
    <3> QED
      BY <2>3, <3>1, <3>2, <3>3, <3>4, <3>5 DEF IInv, Types, Busy
  <2> QED
    BY <1>2, <2>1, <2>2, <2>4, CallStep
       DEF Download, workVars, historyVars, Calls, Fresh
<1>3. CASE Submit(m)
  <2>1. /\ m \in Fresh /\ m \notin written
        /\ queue' = Append(queue, m) /\ call' = [call EXCEPT ![m] = "waiting"]
        /\ UNCHANGED <<pending, worker, item, written, output>>
    BY <1>3 DEF Submit, IInv, Settled, historyVars, Fresh
  <2>2. /\ queue' \in Seq(Messages) /\ ToSet(queue') = ToSet(queue) \cup {m}
        /\ Once(queue')
    BY <2>1, Appended DEF IInv, Types, OneTask
  <2>3. Types'
    BY <1>3, <2>1, <2>2 DEF IInv, Types, Submit, configVars, historyVars, Calls, Busy
  <2>4. Fresh' = Fresh \ {m} /\ Held' = Held /\ Busy' = Busy
    BY <2>1 DEF IInv, Types, Fresh, Held, Busy
  <2>5. OneTask'
    BY <2>1, <2>2, <2>4 DEF IInv, OneTask
  <2>6. Settled' /\ WrittenStays'
    BY <2>1, <2>2, <2>4 DEF IInv, Types, Settled, WrittenStays
  <2> QED
    BY <2>3, <2>5, <2>6 DEF IInv
<1>4. CASE Defer(m)
  <2>1. CASE InputExists(m)
    <3>1. /\ m \in Fresh /\ m \notin written /\ input[m] \in Messages
          /\ output' = [output EXCEPT ![m] = temp[input[m]]]
          /\ temp' = [temp EXCEPT ![input[m]] = NoFile]
          /\ pending' = Append(pending, m) /\ call' = [call EXCEPT ![m] = "ok"]
          /\ UNCHANGED <<queue, worker, item, written>>
      BY <1>4, <2>1 DEF Defer, IInv, Types, Settled, workVars, Fresh
    <3>2. /\ pending' \in Seq(Messages) /\ ToSet(pending') = ToSet(pending) \cup {m}
          /\ Once(pending')
      BY <3>1, Appended DEF IInv, Types, OneTask
    <3>3. Types'
      BY <1>4, <3>1, <3>2, Sizes DEF IInv, Types, Defer, configVars, Calls, Busy
    <3>4. Fresh' = Fresh \ {m} /\ Held' = Held /\ Busy' = Busy
      BY <3>1 DEF IInv, Types, Fresh, Held, Busy
    <3>5. OneTask'
      BY <3>1, <3>2, <3>4 DEF IInv, OneTask
    <3>6. Settled' /\ WrittenStays'
      BY <3>1, <3>2, <3>4 DEF IInv, Types, Settled, WrittenStays
    <3> QED
      BY <3>3, <3>5, <3>6 DEF IInv
  <2>2. CASE ~InputExists(m)
    <3>1. Types' /\ call' = [call EXCEPT ![m] = "none"]
      BY <1>4, <2>2 DEF IInv, Types, Defer, configVars, workVars, Calls, Busy
    <3> QED
      BY <1>4, <2>2, <3>1, CallStep DEF Defer, workVars, Calls
  <2> QED
    BY <2>1, <2>2
<1>5. CASE Poll(m) \/ WaitEnds(m) \/ Return(m)
  <2>1. PICK p \in {"waiting", "result", "ok", "none"} :
          call' = [call EXCEPT ![m] = p]
    BY <1>5 DEF Poll, WaitEnds, Return
  <2>2. temp' \in [Messages -> FileStates]
    BY <1>5, Sizes DEF IInv, Types, Poll, WaitEnds, Return
  <2>3. UNCHANGED <<configVars, output, cached, input, queue, pending, worker,
                    item, written>>
    BY <1>5 DEF Poll, WaitEnds, Return, workVars, historyVars
  <2>4. Types'
    BY <2>1, <2>2, <2>3 DEF IInv, Types, configVars, Calls, Busy
  <2> QED
    BY <2>1, <2>3, <2>4, CallStep DEF Calls
<1> QED
  BY <1>1, <1>2, <1>3, <1>4, <1>5 DEF Call

-----------------------------------------------------------------------------
(* The worker gives its task back or lets it go.                           *)
LEMMA ReleaseStep ==
  ASSUME IInv, NEW w \in Busy, NEW back \in BOOLEAN, Release(w, back),
         UNCHANGED <<call, pending>>
  PROVE  /\ Busy' = Busy \ {w} /\ Held' = Held \ {item[w]}
         /\ queue' \in Seq(Messages)
         /\ worker' \in [Workers -> Steps]
         /\ item' \in [Workers -> Messages \cup {NoMessage}]
         /\ ToSet(queue') = IF back THEN ToSet(queue) \cup {item[w]} ELSE ToSet(queue)
         /\ OneTask'
<1> DEFINE m == item[w]
<1>1. /\ w \in Workers /\ m \in Messages /\ m \in Held /\ m \notin ToSet(queue)
      /\ m \notin ToSet(pending) /\ m \notin Fresh
  BY DEF IInv, Types, OneTask, Busy, Held
<1>2. /\ worker' = [worker EXCEPT ![w] = "idle"]
      /\ item' = [item EXCEPT ![w] = NoMessage]
      /\ back => queue' = Append(queue, m)
      /\ ~back => queue' = queue
  BY DEF Release
<1>3. worker' \in [Workers -> Steps] /\ item' \in [Workers -> Messages \cup {NoMessage}]
  BY <1>2 DEF IInv, Types, Steps
<1>4. Busy' = Busy \ {w}
  BY <1>1, <1>2 DEF IInv, Types, Busy
<1>5. \A v \in Busy' : item'[v] = item[v] /\ item[v] # m
  BY <1>1, <1>2, <1>4 DEF IInv, Types, OneTask, Busy
<1>6. Held' = Held \ {m}
  BY <1>4, <1>5 DEF Held
<1>7. /\ queue' \in Seq(Messages) /\ Once(queue')
      /\ ToSet(queue') = IF back THEN ToSet(queue) \cup {m} ELSE ToSet(queue)
  <2>1. CASE back
    <3>1. queue' = Append(queue, m) /\ queue \in Seq(Messages) /\ Once(queue)
      BY <1>2, <2>1 DEF IInv, Types, OneTask
    <3>2. /\ Append(queue, m) \in Seq(Messages)
          /\ ToSet(Append(queue, m)) = ToSet(queue) \cup {m}
          /\ Once(Append(queue, m))
      BY <1>1, <3>1, Appended
    <3> QED
      BY <2>1, <3>1, <3>2
  <2>2. CASE ~back
    BY <1>2, <2>2 DEF IInv, Types, OneTask
  <2> QED
    BY <2>1, <2>2
<1>8. OneTask'
  <2>1. Fresh' = Fresh
    BY DEF Fresh
  <2>2. \A u, v \in Busy' : item'[u] = item'[v] => u = v
    BY <1>4, <1>5 DEF IInv, OneTask
  <2> QED
    BY <1>1, <1>6, <1>7, <2>1, <2>2 DEF IInv, OneTask
<1> QED
  BY <1>3, <1>4, <1>6, <1>7, <1>8

\* A worker goes on with its task: only the output of this task may change.
LEMMA GoingOn ==
  ASSUME IInv, NEW w \in Busy, NEW p \in Steps \ {"idle"},
         worker' = [worker EXCEPT ![w] = p],
         output' = output \/ \E f \in FileStates : output' = [output EXCEPT ![item[w]] = f],
         UNCHANGED <<file, temp, cached, call, input, queue, item, pending, written>>
  PROVE  IInv'
<1>1. w \in Workers /\ item[w] \in Messages /\ item[w] \notin written
  BY DEF IInv, Types, Settled, Busy, Held
<1>2. Busy' = Busy /\ worker' \in [Workers -> Steps]
  BY <1>1 DEF IInv, Types, Busy
<1>3. output' \in [Messages -> FileStates]
  BY <1>1 DEF IInv, Types
<1>4. Fresh' = Fresh /\ Held' = Held
  BY <1>2 DEF Fresh, Held
<1>5. Types'
  BY <1>2, <1>3 DEF IInv, Types
<1>6. OneTask'
  BY <1>2, <1>4 DEF IInv, OneTask
<1>7. Settled' /\ WrittenStays'
  BY <1>1, <1>4 DEF IInv, Types, Settled, WrittenStays
<1> QED
  BY <1>5, <1>6, <1>7 DEF IInv

\* A task fails: it is put back or given up.
LEMMA FailedStep ==
  ASSUME IInv, NEW w \in Busy, Failed(w),
         UNCHANGED <<file, output, temp, cached, call, input, pending, written>>
  PROVE  IInv'
<1> DEFINE back == attempts[item[w]] + 1 < max_attempts
<1>1. back \in BOOLEAN /\ Release(w, back)
  BY DEF Failed
<1> HIDE DEF back
<1>2. /\ Busy' = Busy \ {w} /\ Held' = Held \ {item[w]}
      /\ queue' \in Seq(Messages)
      /\ worker' \in [Workers -> Steps]
      /\ item' \in [Workers -> Messages \cup {NoMessage}]
      /\ ToSet(queue') \subseteq ToSet(queue) \cup {item[w]}
      /\ OneTask'
  BY <1>1, ReleaseStep
<1>3. item' = [item EXCEPT ![w] = NoMessage]
  BY <1>1 DEF Release
<1>4. Types'
  BY <1>2, <1>3 DEF IInv, Types, Busy
<1>5. Settled' /\ WrittenStays'
  <2>1. item[w] \in Held
    BY DEF Held
  <2> QED
    BY <1>2, <2>1 DEF IInv, Settled, WrittenStays
<1> QED
  BY <1>2, <1>4, <1>5 DEF IInv

LEMMA WorkIInv ==
  ASSUME IInv, NEW w \in Workers, Work(w)
  PROVE  IInv'
<1>1. CASE Take(w)
  <2> DEFINE m == Head(queue)
  <2>1. /\ w \notin Busy /\ queue # <<>>
        /\ item' = [item EXCEPT ![w] = m] /\ queue' = Tail(queue)
        /\ worker' = [worker EXCEPT ![w] = "process"]
        /\ UNCHANGED <<file, output, temp, cached, call, input, pending, written>>
    BY <1>1 DEF Take, Busy, configVars, historyVars
  <2>2. /\ queue' \in Seq(Messages) /\ m \in Messages /\ m \in ToSet(queue)
        /\ ToSet(queue') \subseteq ToSet(queue) \ {m} /\ Once(queue')
    BY <2>1, Dequeued DEF IInv, Types, OneTask
  <2>3. /\ Busy' = Busy \cup {w}
        /\ \A v \in Busy : item'[v] = item[v] /\ item[v] # m
        /\ item'[w] = m
    BY <2>1, <2>2 DEF IInv, Types, OneTask, Busy, Held
  <2>4. Held' = Held \cup {m} /\ Fresh' = Fresh
    BY <2>1, <2>3 DEF Held, Fresh
  <2>5. Types'
    <3>1. worker' \in [Workers -> Steps] /\ item' \in [Workers -> Messages \cup {NoMessage}]
      BY <2>1, <2>2 DEF IInv, Types, Steps
    <3>2. \A v \in Busy' : item'[v] \in Messages
      BY <2>2, <2>3 DEF IInv, Types
    <3> QED
      BY <2>1, <2>2, <3>1, <3>2 DEF IInv, Types
  <2>6. OneTask'
    BY <2>1, <2>2, <2>3, <2>4 DEF IInv, OneTask
  <2>7. Settled' /\ WrittenStays'
    BY <2>1, <2>2, <2>4 DEF IInv, Settled, WrittenStays
  <2> QED
    BY <2>5, <2>6, <2>7 DEF IInv
<1>2. CASE BeginWrite(w)
  <2>1. w \in Busy
    BY <1>2 DEF BeginWrite, Busy
  <2>2. CASE InputExists(item[w])
    <3>1. PICK p \in {"open", "reopen"} : worker' = [worker EXCEPT ![w] = p]
      BY <1>2, <2>2 DEF BeginWrite
    <3> QED
      BY <1>2, <2>1, <2>2, <3>1, GoingOn, Sizes
         DEF BeginWrite, configVars, historyVars, Steps
  <2>3. CASE ~InputExists(item[w])
    BY <1>2, <2>1, <2>3, FailedStep DEF BeginWrite, configVars, historyVars
  <2> QED
    BY <2>2, <2>3
<1>3. CASE Open(w)
  <2>1. w \in Busy
    BY <1>3 DEF Open, Busy
  <2>2. CASE InputExists(item[w])
    <3>1. PICK p \in {"writing", "copying"} : worker' = [worker EXCEPT ![w] = p]
      BY <1>3, <2>2 DEF Open
    <3> QED
      BY <1>3, <2>1, <2>2, <3>1, GoingOn, Sizes
         DEF Open, configVars, historyVars, Steps
  <2>3. CASE ~InputExists(item[w])
    BY <1>3, <2>1, <2>3, FailedStep DEF Open, configVars, historyVars
  <2> QED
    BY <2>2, <2>3
<1>4. CASE Written(w)
  <2> DEFINE m == item[w]
  <2>1. /\ w \in Busy /\ Release(w, FALSE)
        /\ output' = [output EXCEPT ![m] = Whole] /\ written' = written \cup {m}
        /\ UNCHANGED <<file, temp, cached, call, input, pending>>
    BY <1>4 DEF Written, Busy, configVars
  <2>2. /\ Busy' = Busy \ {w} /\ Held' = Held \ {m}
        /\ queue' \in Seq(Messages)
        /\ worker' \in [Workers -> Steps]
        /\ item' \in [Workers -> Messages \cup {NoMessage}]
        /\ ToSet(queue') = ToSet(queue)
        /\ OneTask'
    BY <2>1, ReleaseStep
  <2>3. item' = [item EXCEPT ![w] = NoMessage]
    BY <2>1 DEF Release
  <2>4. /\ m \in Messages /\ m \in Held /\ m \notin Fresh
        /\ m \notin ToSet(queue) /\ m \notin ToSet(pending)
    BY <2>1 DEF IInv, Types, OneTask, Held
  <2>5. Types'
    <3>1. output' \in [Messages -> FileStates]
      BY <2>1, <2>4, Sizes DEF IInv, Types
    <3>2. \A v \in Busy' : item'[v] \in Messages
      BY <2>2, <2>3 DEF IInv, Types, Busy
    <3> QED
      BY <2>1, <2>2, <2>4, <3>1, <3>2 DEF IInv, Types
  <2>6. Settled'
    BY <2>1, <2>2, <2>4 DEF IInv, Settled, Fresh
  <2>7. WrittenStays'
    BY <2>1, <2>4 DEF IInv, Types, WrittenStays
  <2> QED
    BY <2>2, <2>5, <2>6, <2>7 DEF IInv
<1>5. CASE Breaks(w)
  <2>1. w \in Busy
    BY <1>5 DEF Breaks, Busy
  <2>2. CASE worker[w] = "writing"
    BY <1>5, <2>1, <2>2, GoingOn DEF Breaks, configVars, historyVars, Steps
  <2>3. CASE worker[w] = "copying"
    BY <1>5, <2>1, <2>3, FailedStep DEF Breaks, configVars, historyVars
  <2> QED
    BY <1>5, <2>2, <2>3 DEF Breaks
<1> QED
  BY <1>1, <1>2, <1>3, <1>4, <1>5 DEF Work

LEMMA PrepareIInv ==
  ASSUME IInv, Prepare
  PROVE  IInv'
<1> DEFINE m == Head(pending)
<1>1. /\ pending # <<>> /\ pending' = Tail(pending)
      /\ UNCHANGED <<file, temp, cached, call, worker, item, written>>
  BY DEF Prepare, configVars, historyVars
<1>2. /\ pending' \in Seq(Messages) /\ m \in Messages /\ m \in ToSet(pending)
      /\ ToSet(pending') \subseteq ToSet(pending) \ {m} /\ Once(pending')
  BY <1>1, Dequeued DEF IInv, Types, OneTask
<1>3. m \notin Fresh /\ m \notin ToSet(queue) /\ m \notin Held /\ m \notin written
  BY <1>2 DEF IInv, OneTask, Settled
<1>4. Busy' = Busy /\ Held' = Held /\ Fresh' = Fresh
  BY <1>1 DEF Busy, Held, Fresh
<1>5. CASE Exists(output[m])
  <2>1. /\ output' = [output EXCEPT ![m] = NoFile]
        /\ input' = [input EXCEPT ![m] = "aside"]
        /\ queue' = Append(queue, m)
    BY <1>5 DEF Prepare
  <2>2. /\ queue' \in Seq(Messages) /\ ToSet(queue') = ToSet(queue) \cup {m}
        /\ Once(queue')
    BY <1>2, <1>3, <2>1, Appended DEF IInv, Types, OneTask
  <2>3. Types'
    <3>1. output' \in [Messages -> FileStates]
      BY <2>1, Sizes DEF IInv, Types
    <3>2. /\ input' \in [Messages -> Messages \cup {NoMessage, "aside"}]
          /\ \A n \in Messages : call'[n] = "got" => input'[n] \in Messages
      BY <1>1, <1>3, <2>1 DEF IInv, Types, Fresh
    <3> QED
      BY <1>1, <1>2, <1>4, <2>2, <3>1, <3>2 DEF IInv, Types
  <2>4. OneTask'
    BY <1>1, <1>2, <1>3, <1>4, <2>2 DEF IInv, OneTask
  <2>5. Settled' /\ WrittenStays'
    BY <1>1, <1>2, <1>3, <1>4, <2>1, <2>2 DEF IInv, Types, Settled, WrittenStays
  <2> QED
    BY <2>3, <2>4, <2>5 DEF IInv
<1>6. CASE ~Exists(output[m])
  <2>1. UNCHANGED <<output, input, queue>>
    BY <1>6 DEF Prepare
  <2>2. Types'
    BY <1>1, <1>2, <1>4, <2>1 DEF IInv, Types
  <2>3. OneTask'
    BY <1>1, <1>2, <1>4, <2>1 DEF IInv, OneTask
  <2>4. Settled' /\ WrittenStays'
    BY <1>1, <1>2, <1>4, <2>1 DEF IInv, Settled, WrittenStays
  <2> QED
    BY <2>2, <2>3, <2>4 DEF IInv
<1> QED
  BY <1>5, <1>6

\* The calls of a new run meet written outputs, and accept them (Check).
LEMMA KillIInv ==
  ASSUME IInv, Kill
  PROVE  IInv'
<1>1. /\ Busy' = {} /\ Held' = {} /\ queue' = <<>> /\ pending' = <<>>
      /\ UNCHANGED <<file, output, temp, written>>
      /\ call' = [m \in Messages |-> "start"]
  BY DEF Kill, Busy, Held, configVars
<1>2. Types'
  <2>1. cached' \in [Files -> Messages \cup {NoMessage}]
    BY DEF Kill, IInv, Types
  <2>2. input' \in [Messages -> Messages \cup {NoMessage, "aside"}]
    BY DEF Kill
  <2>3. /\ worker' \in [Workers -> Steps]
        /\ item' \in [Workers -> Messages \cup {NoMessage}]
    BY DEF Kill, Steps
  <2> QED
    BY <1>1, <2>1, <2>2, <2>3 DEF IInv, Types, Calls
<1>3. OneTask'
  BY <1>1, NothingIn DEF OneTask
<1>4. Settled' /\ WrittenStays'
  BY <1>1, NothingIn DEF IInv, Types, Settled, WrittenStays
<1> QED
  BY <1>2, <1>3, <1>4 DEF IInv

LEMMA StepIInv == IInv /\ [Next]_vars => IInv'
<1> SUFFICES ASSUME IInv, [Next]_vars PROVE IInv'
  OBVIOUS
<1>1. CASE \E m \in Messages : Call(m)
  BY <1>1, CallIInv
<1>2. CASE \E w \in Workers : Work(w)
  BY <1>2, WorkIInv
<1>3. CASE Prepare
  BY <1>3, PrepareIInv
<1>4. CASE Kill
  BY <1>4, KillIInv
<1>5. CASE ExportEnds \/ Prepared \/ Idle \/ Finished \/ UNCHANGED vars
  <2>1. UNCHANGED <<file, output, temp, cached, call, input, queue, pending,
                    worker, item, written>>
    BY <1>5 DEF ExportEnds, Prepared, Idle, Finished, vars, configVars, workVars,
                historyVars
  <2>2. Busy' = Busy /\ Held' = Held /\ Fresh' = Fresh
    BY <2>1 DEF Busy, Held, Fresh
  <2> QED
    BY <2>1, <2>2 DEF IInv, Types, OneTask, Settled, WrittenStays
<1> QED
  BY <1>1, <1>2, <1>3, <1>4, <1>5 DEF Next, Main

-----------------------------------------------------------------------------
(* An output that was written whole stays whole: no retry, no other message *)
(* with the same temporary file, no deferred task and no later run of the   *)
(* program touches it, for any messages, files, workers and kills.          *)
THEOREM WrittenOutputs == Spec => []WrittenStays
<1>1. Init => IInv
  BY InitIInv
<1>2. IInv /\ [Next]_vars => IInv'
  BY StepIInv
<1>3. IInv => WrittenStays
  BY DEF IInv
<1> QED
  BY <1>1, <1>2, <1>3, PTL DEF Spec

(* A message has one processing task at most: still to be made by its call, *)
(* deferred, queued, or with one worker.  Two would write one output.       *)
THEOREM SingleTask == Spec => []OneTask
<1>1. Init => IInv
  BY InitIInv
<1>2. IInv /\ [Next]_vars => IInv'
  BY StepIInv
<1>3. IInv => OneTask
  BY DEF IInv
<1> QED
  BY <1>1, <1>2, <1>3, PTL DEF Spec

-----------------------------------------------------------------------------
(* What a processor does to one file (MediaConversion)                      *)

Places == {"start", "process", "run", "run_hardware", "hardware", "encoding",
           "software", "check", "check_software", "copy", "last_copy",
           "sendfile", "aiofiles", "verify", "claimed", "done"}

ConversionTypes ==
    /\ source \in {"whole", "gone"} /\ product \in [Tasks -> Conversion!Outputs]
    /\ pc \in [Tasks -> Places] /\ attempt \in [Tasks -> 0 .. 3]
    /\ result \in [Tasks -> {"none", "success", "failure"}]
    /\ broken \in [Tasks -> Nat]

\* What may be at the output path, by where the task is: an encoder that has come
\* to its end leaves nothing cut short, and only a checked output is claimed.
Sound(p, o, r) ==
    /\ r # "none" => p = "done"
    /\ r = "success" => o \in {"copy", "converted"}
    /\ p \in {"check", "check_software"} => o \in {"empty", "small", "converted"}
    /\ p = "claimed" => o \in {"small", "converted", "copy"}
    /\ p = "verify" => o = "copy"

\* While the input is there an attempt is counted for a broken copy only, and a
\* task fails with the last of its attempts.
Counted(r, a, b) ==
    /\ a # 3 => a <= b
    /\ r = "failure" => b >= IF a = 3 THEN 1 ELSE 3

ConversionInv ==
    /\ ConversionTypes
    /\ \A t \in Tasks : Sound(pc[t], product[t], result[t])
    /\ source = "whole" => \A t \in Tasks : Counted(result[t], attempt[t], broken[t])

LEMMA ConversionStarts == Conversion!Init => ConversionInv
  BY DEF Conversion!Init, ConversionInv, ConversionTypes, Places, Sound, Counted,
         Conversion!Outputs

LEMMA ConversionHolds == ConversionInv => SuccessIsWhole /\ CopiesRescue
  BY DEF ConversionInv, ConversionTypes, Sound, Counted, SuccessIsWhole, CopiesRescue,
         Conversion!SuccessIsWhole, Conversion!CopiesRescue, Conversion!Max_attempts

\* A step of task t leaves what belongs to the other tasks alone.
LEMMA OneMoves ==
  ASSUME NEW t \in Tasks, ConversionInv,
         NEW p \in Places, NEW o \in Conversion!Outputs, NEW a \in 0 .. 3,
         NEW r \in {"none", "success", "failure"}, NEW b \in Nat,
         source' = source,
         pc' = [pc EXCEPT ![t] = p], product' = [product EXCEPT ![t] = o],
         attempt' = [attempt EXCEPT ![t] = a], result' = [result EXCEPT ![t] = r],
         broken' = [broken EXCEPT ![t] = b],
         Sound(p, o, r), source = "whole" => Counted(r, a, b)
  PROVE  ConversionInv'
<1>1. ConversionTypes'
  BY DEF ConversionInv, ConversionTypes
<1>2. ASSUME NEW u \in Tasks PROVE Sound(pc'[u], product'[u], result'[u])
  BY <1>2 DEF ConversionInv, ConversionTypes
<1>3. ASSUME source = "whole", NEW u \in Tasks
      PROVE  Counted(result'[u], attempt'[u], broken'[u])
  BY <1>3 DEF ConversionInv, ConversionTypes
<1> QED
  BY <1>1, <1>2, <1>3 DEF ConversionInv

\* The steps that leave output, attempts and results alone.
LEMMA OnlyMoves ==
  ASSUME NEW t \in Tasks, ConversionInv, NEW p \in Places,
         pc' = [pc EXCEPT ![t] = p], Sound(p, product[t], result[t]),
         UNCHANGED <<source, product, attempt, result, broken>>
  PROVE  ConversionInv'
  BY DEF ConversionInv, ConversionTypes, Counted

\* The steps that return.
LEMMA Returns ==
  ASSUME NEW t \in Tasks, ConversionInv, NEW r \in {"success", "failure"},
         Conversion!Return(t, r), Sound("done", product[t], r),
         r = "failure" => source = "gone",
         UNCHANGED <<source, product, attempt, broken>>
  PROVE  ConversionInv'
<1>1. "done" \in Places
  BY DEF Places
<1>2. /\ pc' = [pc EXCEPT ![t] = "done"]
      /\ result' = [result EXCEPT ![t] = r]
  BY DEF Conversion!Return, Conversion!Goto
<1>3. ConversionTypes'
  BY <1>1, <1>2 DEF ConversionInv, ConversionTypes
<1>4. ASSUME NEW u \in Tasks PROVE Sound(pc'[u], product'[u], result'[u])
  BY <1>2, <1>4 DEF ConversionInv, ConversionTypes
<1>5. ASSUME source' = "whole", NEW u \in Tasks
      PROVE  Counted(result'[u], attempt'[u], broken'[u])
  BY <1>2, <1>5 DEF ConversionInv, ConversionTypes, Counted
<1> QED
  BY <1>3, <1>4, <1>5 DEF ConversionInv

LEMMA ConversionMoves ==
  ASSUME NEW t \in Tasks, ConversionInv, Conversion!Conversion(t)
  PROVE  ConversionInv'
<1> USE DEF Conversion!Goto, Sound, Places, ConversionInv, ConversionTypes
<1>1. CASE Conversion!ProcessVideo(t)
  BY <1>1, OnlyMoves DEF Conversion!ProcessVideo
<1>2. CASE Conversion!ProcessAudio(t)
  BY <1>2, OnlyMoves DEF Conversion!ProcessAudio
<1>3. CASE Conversion!ProcessImage(t)
  BY <1>3, OnlyMoves DEF Conversion!ProcessImage
<1>4. CASE Conversion!RunVideo(t) \/ Conversion!RunAudio(t) \/ Conversion!RunImage(t)
  BY <1>4 DEF Conversion!RunVideo, Conversion!RunAudio, Conversion!RunImage, Conversion!Open, Conversion!Outputs
<1>5. CASE Conversion!Grows(t)
  BY <1>5 DEF Conversion!Grows, Conversion!Encoding, Conversion!Outputs
<1>6. CASE Conversion!Encoded(t)
  BY <1>6 DEF Conversion!Encoded, Conversion!Encoding, Conversion!Outputs
<1>7. CASE Conversion!CheckVideo(t)
  BY <1>7, OnlyMoves DEF Conversion!CheckVideo, Conversion!TooSmall
<1>8. CASE Conversion!CheckAudio(t)
  BY <1>8, OnlyMoves DEF Conversion!CheckAudio, Conversion!TooSmall
<1>9. CASE Conversion!CheckImage(t)
  BY <1>9, OnlyMoves DEF Conversion!CheckImage, Conversion!TooSmall
<1>10. CASE Conversion!HardwareFails(t)
  BY <1>10 DEF Conversion!HardwareFails, Conversion!Outputs
<1>11. CASE Conversion!EncoderFails(t)
  BY <1>11, OnlyMoves DEF Conversion!EncoderFails, Conversion!Encoding
<1> QED
  BY <1>1, <1>2, <1>3, <1>4, <1>5, <1>6, <1>7, <1>8, <1>9, <1>10, <1>11
     DEF Conversion!Conversion

LEMMA CopyMoves ==
  ASSUME NEW t \in Tasks, ConversionInv, Conversion!Copy(t)
  PROVE  ConversionInv'
<1> USE DEF Conversion!Goto, Conversion!Max_attempts, Sound, Places, ConversionInv, ConversionTypes
<1>1. CASE Conversion!StartCopy(t) /\ source = "gone"
  BY <1>1, Returns DEF Conversion!StartCopy
<1>2. CASE Conversion!StartCopy(t) /\ source = "whole"
  BY <1>2 DEF Conversion!StartCopy, Conversion!Outputs, Counted
<1>3. CASE Conversion!Copied(t)
  BY <1>3 DEF Conversion!Copied, Conversion!Outputs
<1>4. CASE Conversion!SendfileFails(t)
  BY <1>4 DEF Conversion!SendfileFails, Conversion!Outputs, Conversion!CopyFails, Conversion!VideoCopyAgain, Conversion!AudioCopyAgain, Conversion!ImageCopyAgain, Conversion!Return
<1>5. CASE Conversion!AiofilesFails(t)
  BY <1>5 DEF Conversion!AiofilesFails, Conversion!Outputs, Conversion!CopyFails, Conversion!VideoCopyAgain, Conversion!AudioCopyAgain, Conversion!ImageCopyAgain, Conversion!Return, Counted
<1>6. CASE Conversion!Verify(t) /\ attempt[t] = 3
  BY <1>6, Returns DEF Conversion!Verify
<1>7. CASE Conversion!Verify(t) /\ attempt[t] # 3
  BY <1>7, OnlyMoves DEF Conversion!Verify
<1> QED
  BY <1>1, <1>2, <1>3, <1>4, <1>5, <1>6, <1>7 DEF Conversion!Copy

LEMMA ConversionSteps == ConversionInv /\ [Conversion!Next]_conversionVars => ConversionInv'
<1> SUFFICES ASSUME ConversionInv, [Conversion!Next]_conversionVars PROVE ConversionInv'
  OBVIOUS
<1>1. ASSUME NEW t \in Tasks, Conversion!Execute(t) PROVE ConversionInv'
  <2>1. CASE source = "gone"
    BY <1>1, <2>1, Returns DEF Conversion!Execute, Sound
  <2>2. CASE source = "whole"
    BY <1>1, <2>2, OnlyMoves
       DEF Conversion!Execute, Conversion!Goto, Sound, Places, ConversionInv, ConversionTypes
  <2> QED
    BY <2>1, <2>2 DEF ConversionInv, ConversionTypes
<1>2. ASSUME NEW t \in Tasks, Conversion!Claimed(t) PROVE ConversionInv'
  <2>1. CASE Conversion!TooSmall(t) \/ product[t] = "none"
    BY <1>2, <2>1, OnlyMoves
       DEF Conversion!Claimed, Conversion!Goto, Sound, Places, ConversionInv, ConversionTypes
  <2>2. CASE ~(Conversion!TooSmall(t) \/ product[t] = "none")
    BY <1>2, <2>2, Returns
       DEF Conversion!Claimed, Conversion!TooSmall, Sound, ConversionInv, ConversionTypes
  <2> QED
    BY <2>1, <2>2
<1>3. ASSUME NEW t \in Tasks, Conversion!Conversion(t) PROVE ConversionInv'
  BY <1>3, ConversionMoves
<1>4. ASSUME NEW t \in Tasks, Conversion!Copy(t) PROVE ConversionInv'
  BY <1>4, CopyMoves
<1>5. CASE Conversion!Unlink
  BY <1>5 DEF Conversion!Unlink, ConversionInv, ConversionTypes
<1>6. CASE UNCHANGED conversionVars
  BY <1>6 DEF conversionVars, ConversionInv, ConversionTypes
<1> QED
  BY <1>1, <1>2, <1>3, <1>4, <1>5, <1>6
     DEF Conversion!Next, Conversion!Step, conversionVars, Conversion!vars

LEMMA MediaConversionInv == MediaInit /\ [][MediaNext]_<<which, vars, conversionVars, voiceVars>>
                              => []ConversionInv
<1>1. MediaInit => ConversionInv
  BY ConversionStarts DEF MediaInit
<1>2. ConversionInv /\ [MediaNext]_<<which, vars, conversionVars, voiceVars>> => ConversionInv'
  <2> SUFFICES ASSUME ConversionInv, [MediaNext]_<<which, vars, conversionVars, voiceVars>>
               PROVE  [Conversion!Next]_conversionVars
    BY ConversionSteps
  <2> QED
    BY DEF MediaNext
<1> QED
  BY <1>1, <1>2, PTL

(* Whatever encoders, copies and a removed input do to any number of tasks   *)
(* with one input file: a task that succeeds has left a whole copy or a      *)
(* checked conversion at its output path.                                    *)
THEOREM SuccessIsAlwaysWhole == MediaSpec => []SuccessIsWhole
  BY MediaConversionInv, ConversionHolds, PTL DEF MediaSpec

(* While its input is there, a task fails only after its three attempts at a *)
(* copy, or the one of the worker, have broken; an encoder never decides.    *)
THEOREM CopiesAlwaysRescue == MediaSpec => []CopiesRescue
  BY MediaConversionInv, ConversionHolds, PTL DEF MediaSpec

-----------------------------------------------------------------------------
(* The transcription of voice messages (Transcription)                      *)

Doing == {"begin", "loading", "batching", "look", "lookup", "measure", "hear", "open",
          "write"}

VoiceTypes ==
    /\ voice \in [VoiceFiles -> 0 .. MaxVersions]
    /\ versions \in 0 .. MaxVersions
    /\ cache_dir \in [Voice!Keys -> 0 .. MaxVersions + 1]
    /\ at \in [Threads -> Doing \cup {"idle", "done"}]
    /\ path \in [Threads -> VoiceFiles]
    /\ heard \in [Threads -> 0 .. MaxVersions]
    /\ entry \in [Threads -> Voice!Keys \cup {<<>>}]
    /\ text \in [Threads -> 0 .. MaxVersions]
    /\ asked \in [Threads -> 0 .. MaxVersions]

\* A call writes the entry of its own path only, whatever the version; one whose
\* file has never changed under a call works for the version it was asked for.
CallInv(c) ==
    /\ at[c] = "write" => \E v \in 0 .. MaxVersions : entry[c] = <<path[c], v>>
    /\ path[c] \notin disturbed =>
         /\ at[c] \in Doing => asked[c] = voice[path[c]]
         /\ at[c] \in {"open", "write"} => heard[c] = voice[path[c]]
         /\ at[c] = "write" => entry[c] = <<path[c], voice[path[c]]>>
         /\ at[c] = "done" => text[c] \in {0, asked[c]}

\* The entries of such a file hold the text of their version, if any.
CacheInv ==
    \A f \in VoiceFiles : f \notin disturbed =>
        \A v \in 0 .. MaxVersions : cache_dir[<<f, v>>] \in {0, v, MaxVersions + 1}

VoiceInv == VoiceTypes /\ (\A c \in Threads : CallInv(c)) /\ CacheInv

LEMMA VoiceStarts == Voice!Init => VoiceInv
<1> SUFFICES ASSUME Voice!Init PROVE VoiceInv
  OBVIOUS
<1> USE DEF Voice!Init
<1>1. MaxVersions \in Nat
  BY VoiceAssumption DEF Voice!TranscriptionAssumption
<1>2. /\ voice \in [VoiceFiles -> 0 .. MaxVersions] /\ versions \in 0 .. MaxVersions
      /\ path \in [Threads -> VoiceFiles] /\ heard \in [Threads -> 0 .. MaxVersions]
      /\ text \in [Threads -> 0 .. MaxVersions] /\ asked \in [Threads -> 0 .. MaxVersions]
      /\ cache_dir \in [Voice!Keys -> 0 .. MaxVersions + 1]
  BY <1>1 DEF Voice!NoText, Voice!Missing
<1>3. at \in [Threads -> Doing \cup {"idle", "done"}]
  BY DEF Doing
<1>4. entry \in [Threads -> Voice!Keys \cup {<<>>}]
  BY DEF Voice!None
<1>5. ASSUME NEW c \in Threads PROVE CallInv(c)
  BY <1>5 DEF CallInv, Doing
<1>6. CacheInv
  BY <1>1 DEF CacheInv, Voice!Keys, Voice!Missing
<1> QED
  BY <1>2, <1>3, <1>4, <1>5, <1>6 DEF VoiceInv, VoiceTypes

LEMMA VoiceHolds == VoiceInv => AnswerIsOfFile
  BY DEF VoiceInv, VoiceTypes, CallInv, AnswerIsOfFile, Voice!AnswerIsOfFile, Voice!NoText

\* A call that goes from one step to another, its entry still to be made.
LEMMA VoiceGoes ==
  ASSUME VoiceInv, NEW c \in Threads, NEW p \in Doing \ {"open", "write"},
         at[c] \in Doing, at' = [at EXCEPT ![c] = p],
         UNCHANGED <<voice, versions, cache_dir, path, heard, entry, text, asked, disturbed>>
  PROVE  VoiceInv'
<1> USE DEF VoiceInv, Doing
<1>1. VoiceTypes'
  BY DEF VoiceTypes
<1>2. ASSUME NEW d \in Threads PROVE CallInv(d)'
  BY <1>2 DEF CallInv, VoiceTypes
<1>3. CacheInv'
  BY DEF CacheInv
<1> QED
  BY <1>1, <1>2, <1>3

\* A call that returns no text, or the text of its file if this did not change.
LEMMA VoiceReturns ==
  ASSUME VoiceInv, NEW c \in Threads, NEW r \in 0 .. MaxVersions, Voice!Return(c, r),
         path[c] \notin disturbed => r \in {0, asked[c]},
         cache_dir' \in [Voice!Keys -> 0 .. MaxVersions + 1], CacheInv',
         UNCHANGED <<voice, versions, path, asked, disturbed>>
  PROVE  VoiceInv'
<1> USE DEF VoiceInv, Voice!Return, Voice!Goto, Voice!NoText, Voice!None
<1>1. MaxVersions \in Nat
  BY VoiceAssumption DEF Voice!TranscriptionAssumption
<1>2. VoiceTypes'
  <2>1. entry' \in [Threads -> Voice!Keys \cup {<<>>}]
    BY DEF VoiceTypes
  <2>2. at' \in [Threads -> Doing \cup {"idle", "done"}]
    BY DEF VoiceTypes
  <2> QED
    BY <1>1, <2>1, <2>2 DEF VoiceTypes
<1>3. ASSUME NEW d \in Threads PROVE CallInv(d)'
  <2>1. CASE d = c
    BY <1>3, <2>1 DEF CallInv, VoiceTypes, Doing
  <2>2. CASE d # c
    <3>1. UNCHANGED <<at[d], heard[d], entry[d], text[d], path, asked, voice, disturbed>>
      BY <1>3, <2>2 DEF VoiceTypes
    <3> QED
      BY <1>3, <3>1 DEF CallInv
  <2> QED
    BY <2>1, <2>2
<1> QED
  BY <1>2, <1>3

LEMMA CacheStays ==
  ASSUME VoiceInv, UNCHANGED <<cache_dir, disturbed>>
  PROVE  cache_dir' \in [Voice!Keys -> 0 .. MaxVersions + 1] /\ CacheInv'
  BY DEF VoiceInv, VoiceTypes, CacheInv

\* One entry is broken, or gets the text of its version if its file never changed.
LEMMA CacheWritten ==
  ASSUME VoiceInv, NEW f \in VoiceFiles, NEW v \in 0 .. MaxVersions,
         NEW x \in 0 .. MaxVersions + 1,
         f \notin disturbed => x \in {v, MaxVersions + 1},
         cache_dir' = [cache_dir EXCEPT ![<<f, v>>] = x], disturbed' = disturbed
  PROVE  cache_dir' \in [Voice!Keys -> 0 .. MaxVersions + 1] /\ CacheInv'
<1> USE DEF Voice!Keys
<1>1. cache_dir \in [Voice!Keys -> 0 .. MaxVersions + 1] /\ <<f, v>> \in Voice!Keys
  BY DEF VoiceInv, VoiceTypes
<1>2. cache_dir' \in [Voice!Keys -> 0 .. MaxVersions + 1]
  BY <1>1
<1>3. ASSUME NEW g \in VoiceFiles, g \notin disturbed, NEW w \in 0 .. MaxVersions
      PROVE  cache_dir'[<<g, w>>] \in {0, w, MaxVersions + 1}
  <2>1. <<g, w>> \in Voice!Keys /\ cache_dir[<<g, w>>] \in {0, w, MaxVersions + 1}
    BY <1>3 DEF VoiceInv, CacheInv
  <2>2. CASE <<g, w>> = <<f, v>>
    <3>1. cache_dir'[<<g, w>>] = x /\ g = f /\ w = v
      BY <1>1, <2>1, <2>2
    <3> QED
      BY <1>3, <3>1
  <2>3. CASE <<g, w>> # <<f, v>>
    BY <1>1, <2>1, <2>3
  <2> QED
    BY <2>2, <2>3
<1> QED
  BY <1>2, <1>3 DEF CacheInv

LEMMA VoiceLooks ==
  ASSUME VoiceInv, NEW c \in Threads,
         Voice!Begin(c) \/ Voice!LoadModel(c) \/ Voice!LoadBatched(c) \/ Voice!LoadFails(c)
           \/ Voice!Look(c) \/ Voice!Lookup(c) \/ Voice!Measure(c) \/ Voice!HearFails(c)
  PROVE  VoiceInv'
<1> USE DEF Voice!Goto, Voice!NoText, Doing
<1>1. MaxVersions \in Nat /\ 0 \in 0 .. MaxVersions
  BY VoiceAssumption DEF Voice!TranscriptionAssumption
<1>2. VoiceTypes /\ CallInv(c) /\ CacheInv
  BY DEF VoiceInv
<1>3. CASE Voice!Begin(c)
  BY <1>2, <1>3, VoiceGoes DEF Voice!Begin, Voice!config, Voice!disk, Voice!model, VoiceTypes
<1>4. CASE Voice!LoadModel(c)
  BY <1>2, <1>4, VoiceGoes DEF Voice!LoadModel, Voice!config, Voice!disk, VoiceTypes
<1>5. CASE Voice!LoadBatched(c)
  BY <1>2, <1>5, VoiceGoes DEF Voice!LoadBatched, Voice!config, Voice!disk, VoiceTypes
<1>6. CASE Voice!LoadFails(c)
  BY <1>1, <1>6, VoiceReturns, CacheStays DEF Voice!LoadFails, Voice!disk
<1>7. CASE Voice!Look(c)
  <2>1. CASE voice[path[c]] = 0
    BY <1>1, <1>7, <2>1, VoiceReturns, CacheStays DEF Voice!Look, Voice!disk
  <2>2. CASE voice[path[c]] # 0
    BY <1>2, <1>7, <2>2, VoiceGoes DEF Voice!Look, Voice!disk
  <2> QED
    BY <2>1, <2>2
<1>8. CASE Voice!Lookup(c)
  <2> DEFINE found == cache_dir[Voice!Key(path[c])]
  <2>1. CASE found \in Voice!Versions
    <3>1. found \in 0 .. MaxVersions
      BY <1>1, <2>1 DEF Voice!Versions
    <3>2. ASSUME path[c] \notin disturbed PROVE found = asked[c]
      <4>1. path[c] \in VoiceFiles /\ voice[path[c]] \in 0 .. MaxVersions
            /\ asked[c] = voice[path[c]]
        BY <1>2, <1>8, <3>2 DEF VoiceTypes, CallInv, Voice!Lookup
      <4>2. found \in {0, voice[path[c]], MaxVersions + 1}
        BY <1>2, <3>2, <4>1 DEF CacheInv, Voice!Key
      <4> QED
        BY <1>1, <2>1, <4>1, <4>2 DEF Voice!Versions
    <3>3. Voice!Return(c, found)
      BY <1>8, <2>1 DEF Voice!Lookup
    <3> HIDE DEF found
    <3> QED
      BY <1>8, <3>1, <3>2, <3>3, VoiceReturns, CacheStays DEF Voice!Lookup, Voice!disk
  <2>2. CASE found \notin Voice!Versions
    BY <1>2, <1>8, <2>2, VoiceGoes DEF Voice!Lookup, Voice!disk
  <2> QED
    BY <2>1, <2>2
<1>9. CASE Voice!Measure(c)
  <2>1. CASE Voice!Return(c, 0)
    BY <1>1, <1>9, <2>1, VoiceReturns, CacheStays DEF Voice!Measure, Voice!disk
  <2>2. CASE Voice!Goto(c, "hear") /\ UNCHANGED <<heard, entry, text>>
    BY <1>2, <1>9, <2>2, VoiceGoes DEF Voice!Measure, Voice!disk
  <2> QED
    BY <1>9, <2>1, <2>2 DEF Voice!Measure
<1>10. CASE Voice!HearFails(c)
  BY <1>1, <1>10, VoiceReturns, CacheStays DEF Voice!HearFails, Voice!disk
<1> QED
  BY <1>3, <1>4, <1>5, <1>6, <1>7, <1>8, <1>9, <1>10

LEMMA VoiceHears ==
  ASSUME VoiceInv, NEW c \in Threads, Voice!Hear(c)
  PROVE  VoiceInv'
<1> USE DEF Doing
<1>1. /\ at[c] = "hear" /\ path[c] \in VoiceFiles /\ voice[path[c]] \in 0 .. MaxVersions
      /\ path[c] \notin disturbed => asked[c] = voice[path[c]]
  BY DEF VoiceInv, VoiceTypes, CallInv, Voice!Hear
<1>2. CASE ~enable_cache
  BY <1>1, <1>2, VoiceReturns, CacheStays DEF Voice!Hear, Voice!disk
<1>3. CASE enable_cache
  <2>1. /\ heard' = [heard EXCEPT ![c] = voice[path[c]]] /\ at' = [at EXCEPT ![c] = "open"]
        /\ UNCHANGED <<voice, versions, cache_dir, path, entry, text, asked, disturbed>>
    BY <1>3 DEF Voice!Hear, Voice!Goto, Voice!disk
  <2>2. VoiceTypes'
    BY <1>1, <2>1 DEF VoiceInv, VoiceTypes
  <2>3. ASSUME NEW d \in Threads PROVE CallInv(d)'
    BY <1>1, <2>1, <2>3 DEF VoiceInv, VoiceTypes, CallInv
  <2> QED
    BY <2>1, <2>2, <2>3, CacheStays DEF VoiceInv
<1> QED
  BY <1>2, <1>3

LEMMA VoiceSaves ==
  ASSUME VoiceInv, NEW c \in Threads,
         Voice!OpenEntry(c) \/ Voice!WriteEntry(c) \/ Voice!SaveFails(c)
  PROVE  VoiceInv'
<1> USE DEF Doing
<1>1. MaxVersions \in Nat /\ MaxVersions + 1 \in 0 .. MaxVersions + 1
  BY VoiceAssumption DEF Voice!TranscriptionAssumption
<1>2. VoiceTypes /\ CallInv(c) /\ CacheInv
  BY DEF VoiceInv
<1>3. /\ path[c] \in VoiceFiles /\ voice[path[c]] \in 0 .. MaxVersions
      /\ heard[c] \in 0 .. MaxVersions /\ heard[c] \in 0 .. MaxVersions + 1
  BY <1>1, <1>2 DEF VoiceTypes
<1>4. CASE Voice!OpenEntry(c)
  <2> DEFINE v == voice[path[c]]
  <2>1. /\ entry' = [entry EXCEPT ![c] = <<path[c], v>>] /\ at' = [at EXCEPT ![c] = "write"]
        /\ cache_dir' = [cache_dir EXCEPT ![<<path[c], v>>] = MaxVersions + 1]
        /\ at[c] = "open"
        /\ UNCHANGED <<voice, versions, path, heard, text, asked, disturbed>>
    BY <1>4 DEF Voice!OpenEntry, Voice!Goto, Voice!Key, Voice!Broken, Voice!disk
  <2>2. cache_dir' \in [Voice!Keys -> 0 .. MaxVersions + 1] /\ CacheInv'
    BY <1>1, <1>3, <2>1, CacheWritten
  <2>3. <<path[c], v>> \in Voice!Keys
    BY <1>3 DEF Voice!Keys
  <2>4. VoiceTypes'
    BY <1>2, <2>1, <2>2, <2>3 DEF VoiceTypes
  <2>5. ASSUME NEW d \in Threads PROVE CallInv(d)'
    <3>1. CASE d = c
      BY <1>2, <1>3, <2>1, <3>1 DEF CallInv, VoiceTypes
    <3>2. CASE d # c
      <4>1. CallInv(d) /\ UNCHANGED <<at[d], entry[d], heard[d], text[d], path, asked, voice, disturbed>>
        BY <1>2, <2>1, <2>5, <3>2 DEF VoiceInv, VoiceTypes
      <4> QED
        BY <4>1 DEF CallInv
    <3> QED
      BY <3>1, <3>2
  <2> QED
    BY <2>2, <2>4, <2>5 DEF VoiceInv
<1>5. ASSUME at[c] = "write", NEW x \in {heard[c], MaxVersions + 1},
             cache_dir' = [cache_dir EXCEPT ![entry[c]] = x], disturbed' = disturbed
      PROVE  cache_dir' \in [Voice!Keys -> 0 .. MaxVersions + 1] /\ CacheInv'
  <2>1. PICK v \in 0 .. MaxVersions : entry[c] = <<path[c], v>>
    BY <1>2, <1>5 DEF CallInv
  <2>2. ASSUME path[c] \notin disturbed PROVE heard[c] = v
    BY <1>2, <1>3, <1>5, <2>1, <2>2 DEF CallInv
  <2>3. cache_dir' = [cache_dir EXCEPT ![<<path[c], v>>] = x]
    BY <1>5, <2>1
  <2>4. x \in 0 .. MaxVersions + 1 /\ (path[c] \notin disturbed => x \in {v, MaxVersions + 1})
    BY <1>1, <1>3, <2>2
  <2> QED
    BY <1>3, <1>5, <2>3, <2>4, CacheWritten
<1>6. CASE Voice!WriteEntry(c)
  <2>1. /\ at[c] = "write" /\ Voice!Return(c, heard[c])
        /\ UNCHANGED <<voice, versions, path, asked, disturbed>>
        /\ \E x \in {heard[c], MaxVersions + 1} :
             cache_dir' = [cache_dir EXCEPT ![entry[c]] = x]
    BY <1>6 DEF Voice!WriteEntry, Voice!Broken, Voice!disk
  <2>2. path[c] \notin disturbed => heard[c] \in {0, asked[c]}
    BY <1>2, <2>1 DEF CallInv
  <2> QED
    BY <1>3, <1>5, <2>1, <2>2, VoiceReturns
<1>7. CASE Voice!SaveFails(c)
  <2>1. /\ at[c] \in {"open", "write"} /\ Voice!Return(c, heard[c])
        /\ UNCHANGED <<voice, versions, path, asked, disturbed>>
    BY <1>7 DEF Voice!SaveFails, Voice!disk
  <2>2. path[c] \notin disturbed => heard[c] \in {0, asked[c]}
    BY <1>2, <2>1 DEF CallInv
  <2>3. \/ UNCHANGED cache_dir
        \/ at[c] = "write" /\ cache_dir' = [cache_dir EXCEPT ![entry[c]] = MaxVersions + 1]
    BY <1>7 DEF Voice!SaveFails, Voice!Broken
  <2>4. cache_dir' \in [Voice!Keys -> 0 .. MaxVersions + 1] /\ CacheInv'
    BY <1>5, <2>1, <2>3, CacheStays
  <2> QED
    BY <1>3, <2>1, <2>2, <2>4, VoiceReturns
<1> QED
  BY <1>4, <1>6, <1>7

LEMMA VoiceBegins ==
  ASSUME VoiceInv, NEW c \in Threads, Voice!TranscribeAudio(c)
  PROVE  VoiceInv'
<1> USE DEF Doing
<1>1. VoiceTypes /\ 0 \in 0 .. MaxVersions
  BY VoiceAssumption DEF Voice!TranscriptionAssumption, VoiceInv
<1>2. PICK f \in VoiceFiles : /\ path' = [path EXCEPT ![c] = f]
                              /\ asked' = [asked EXCEPT ![c] = voice[f]]
  BY DEF Voice!TranscribeAudio
<1>3. /\ at' = [at EXCEPT ![c] = "begin"] /\ text' = [text EXCEPT ![c] = 0]
      /\ UNCHANGED <<voice, versions, cache_dir, heard, entry, disturbed>>
  BY DEF Voice!TranscribeAudio, Voice!Goto, Voice!NoText, Voice!disk
<1>4. VoiceTypes'
  BY <1>1, <1>2, <1>3 DEF VoiceTypes
<1>5. ASSUME NEW d \in Threads PROVE CallInv(d)'
  <2>1. CASE d = c
    BY <1>1, <1>2, <1>3, <2>1 DEF CallInv, VoiceTypes
  <2>2. CASE d # c
    <3>1. CallInv(d) /\ UNCHANGED <<at[d], path[d], asked[d], text[d], entry, heard, voice, disturbed>>
      BY <1>1, <1>2, <1>3, <1>5, <2>2 DEF VoiceInv, VoiceTypes
    <3> QED
      BY <3>1 DEF CallInv
  <2> QED
    BY <2>1, <2>2
<1> QED
  BY <1>3, <1>4, <1>5, CacheStays DEF VoiceInv

\* A file that changes under no call has no call to which the change matters.
LEMMA VoiceChanges ==
  ASSUME VoiceInv, NEW f \in VoiceFiles, Voice!Change(f)
  PROVE  VoiceInv'
<1> USE DEF Voice!Active, Doing
<1>1. MaxVersions \in Nat
  BY VoiceAssumption DEF Voice!TranscriptionAssumption
<1>2. VoiceTypes /\ CacheInv
  BY DEF VoiceInv
<1>3. /\ UNCHANGED <<cache_dir, at, path, heard, entry, text, asked>>
      /\ disturbed \subseteq disturbed'
      /\ (\E d \in Threads : Voice!Active(d) /\ path[d] = f) => f \in disturbed'
  BY DEF Voice!Change
<1>4. /\ versions' \in 0 .. MaxVersions
      /\ \E v \in 0 .. MaxVersions : voice' = [voice EXCEPT ![f] = v]
  BY <1>1, <1>2 DEF Voice!Change, VoiceTypes
<1>5. VoiceTypes'
  BY <1>2, <1>3, <1>4 DEF VoiceTypes
<1>6. ASSUME NEW d \in Threads PROVE CallInv(d)'
  <2>1. CASE at[d] \in Doing /\ path[d] = f
    BY <1>2, <1>3, <1>6, <2>1 DEF VoiceInv, CallInv
  <2>2. CASE at[d] \in Doing /\ path[d] # f
    <3>1. voice'[path[d]] = voice[path[d]]
      BY <1>2, <1>4, <1>6, <2>2 DEF VoiceTypes
    <3> QED
      BY <1>3, <1>6, <2>2, <3>1 DEF VoiceInv, CallInv
  <2>3. CASE at[d] \notin Doing
    BY <1>3, <1>6, <2>3 DEF VoiceInv, CallInv
  <2> QED
    BY <2>1, <2>2, <2>3
<1>7. CacheInv'
  BY <1>2, <1>3 DEF CacheInv
<1> QED
  BY <1>5, <1>6, <1>7 DEF VoiceInv

LEMMA VoiceSteps == VoiceInv /\ [Voice!Next]_voiceVars => VoiceInv'
<1> SUFFICES ASSUME VoiceInv, [Voice!Next]_voiceVars PROVE VoiceInv'
  OBVIOUS
<1>1. ASSUME NEW c \in Threads, Voice!TranscribeAudio(c) \/ Voice!Transcribe(c)
      PROVE  VoiceInv'
  BY <1>1, VoiceBegins, VoiceLooks, VoiceHears, VoiceSaves DEF Voice!Transcribe
<1>2. ASSUME NEW f \in VoiceFiles, Voice!Change(f) PROVE VoiceInv'
  BY <1>2, VoiceChanges
<1>3. CASE Voice!Kill
  <2>1. 0 \in 0 .. MaxVersions
    BY VoiceAssumption DEF Voice!TranscriptionAssumption
  <2>2. /\ at' = [c \in Threads |-> "idle"]
        /\ heard' = [c \in Threads |-> 0] /\ entry' = [c \in Threads |-> <<>>]
        /\ text' = [c \in Threads |-> 0]
        /\ UNCHANGED <<voice, versions, disturbed, cache_dir, path, asked>>
    BY <1>3 DEF Voice!Kill, Voice!NoText, Voice!None, Voice!disk
  <2>3. entry' \in [Threads -> Voice!Keys \cup {<<>>}]
    BY <2>2
  <2>4. VoiceTypes'
    BY <2>1, <2>2, <2>3 DEF VoiceInv, VoiceTypes
  <2>5. ASSUME NEW d \in Threads PROVE CallInv(d)'
    BY <2>2, <2>5 DEF CallInv, Doing
  <2> QED
    BY <2>2, <2>4, <2>5, CacheStays DEF VoiceInv
<1>4. CASE UNCHANGED voiceVars
  BY <1>4 DEF voiceVars, VoiceInv, VoiceTypes, CallInv, CacheInv, Voice!Keys
<1> QED
  BY <1>1, <1>2, <1>3, <1>4
     DEF Voice!Next, voiceVars, Voice!vars, Voice!config, Voice!disk, Voice!model

(* Whatever threads, failing writes, kills and later runs leave in the cache *)
(* of transcriptions: a text that is returned is the text of the file it was *)
(* asked for, unless the file changed while a call was at work on its path.  *)
THEOREM AnswerIsAlwaysOfFile == MediaSpec => []AnswerIsOfFile
<1>1. MediaInit => VoiceInv
  BY VoiceStarts DEF MediaInit
<1>2. VoiceInv /\ [MediaNext]_<<which, vars, conversionVars, voiceVars>> => VoiceInv'
  <2> SUFFICES ASSUME VoiceInv, [MediaNext]_<<which, vars, conversionVars, voiceVars>>
               PROVE  [Voice!Next]_voiceVars
    BY VoiceSteps
  <2> QED
    BY DEF MediaNext
<1> QED
  BY <1>1, <1>2, VoiceHolds, PTL DEF MediaSpec
=============================================================================
