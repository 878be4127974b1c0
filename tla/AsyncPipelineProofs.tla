------------------------- MODULE AsyncPipelineProofs -------------------------
(***************************************************************************)
(* Theorems about AsyncPipeline, for every number of workers, every size   *)
(* of the two queues and every number of messages: the types, the order    *)
(* and the completeness of the output, the exact hand-over of each message *)
(* between the stages, and the implementation of OrderedDelivery.  They    *)
(* all follow from one inductive invariant, IInv.                          *)
(***************************************************************************)
EXTENDS AsyncPipeline, FiniteSetTheorems, SequenceTheorems, TLAPS

-----------------------------------------------------------------------------
(* The inductive invariant                                                  *)

Early == {"fetching", "joining_fetch"}    \* no sentinel is in fetch_q yet
Known == {"value", "none", "error"}       \* process_fn has ended

\* Messages that reached fetch_q: 1 .. Queued.
Queued == IF fetcher = "putting" THEN fetched - 1 ELSE fetched

\* Messages that left fetch_q again: 1 .. Taken.
Taken == IF main \in Early THEN Queued - Len(fetch_q) ELSE fetched

\* The least number the writer has not yet taken up.
Low == IF writer = "writing" THEN expected_seq + 1 ELSE expected_seq

Busy == {w \in Workers : worker[w] \in {"processing", "putting"}}

\* Messages whose failure errors counts already: all that failed but those
\* whose marker a worker is still putting into write_q.
Counted == {s \in Messages : /\ outcome[s] = "error"
                             /\ \A w \in Workers : item[w] # s}

\* The counters agree with what they count.
Counting ==
    /\ fetch_unfinished = Len(fetch_q) + Cardinality(Busy)
    /\ write_unfinished = Len(write_q)
          + (IF writer \in {"flushing", "writing"} THEN 1 ELSE 0)
    /\ errors = Cardinality(Counted)

\* fetch_q holds the messages after Taken, in order, and later sentinels.
FetchOrder ==
    /\ fetcher = "putting" => fetched > 0
    /\ Taken >= 0
    /\ \A i \in 1 .. Len(fetch_q) :
          fetch_q[i] = IF main \in Early THEN Taken + i ELSE Sentinel

\* No message is in two places, and none is where it should not be yet or
\* any more.
Apart ==
    /\ \A w \in Workers : item[w] # Sentinel <=> w \in Busy
    /\ \A v, w \in Workers : item[v] = item[w] /\ item[v] # Sentinel => v = w
    /\ \A w \in Workers : item[w] # Sentinel =>
          /\ item[w] \in Low .. Taken
          /\ item[w] \notin buffer
          /\ \A i \in 1 .. Len(write_q) : write_q[i] # item[w]
    /\ \A i, j \in 1 .. Len(write_q) : write_q[i] = write_q[j] => i = j
    /\ \A i \in 1 .. Len(write_q) : write_q[i] # Sentinel =>
          /\ write_q[i] \in Low .. Taken
          /\ write_q[i] \notin buffer
    /\ buffer \subseteq Low .. Taken

\* A message between the two is in some place.
Covered ==
    /\ Low <= Taken + 1
    /\ \A s \in Low .. Taken :
          \/ \E w \in Workers : item[w] = s
          \/ \E i \in 1 .. Len(write_q) : write_q[i] = s
          \/ s \in buffer

\* The outcome of a message follows from its place.
Results ==
    /\ \A s \in Messages : s > Taken => outcome[s] = "unknown"
    /\ \A w \in Workers : worker[w] = "processing" => outcome[item[w]] = "unknown"
    /\ \A w \in Workers : worker[w] = "putting" => outcome[item[w]] \in Known
    /\ \A i \in 1 .. Len(write_q) :
          write_q[i] # Sentinel => outcome[write_q[i]] \in Known
    /\ \A s \in buffer : outcome[s] \in Known
    /\ writer = "writing" => outcome[expected_seq] = "value"

\* What each phase of run() has established.
Phases ==
    /\ fetcher # "cancelled"
    /\ fetcher # "done" => main = "fetching"
    /\ \A w \in Workers : worker[w] # "cancelled"
    /\ main \in {"joining_write", "stopping_writer", "returned"} =>
          \A w \in Workers : worker[w] = "done"
    /\ writer # "cancelled"
    /\ writer = "getting" => expected_seq \notin buffer
    /\ main \notin {"stopping_writer", "returned"} =>
          /\ writer # "done"
          /\ \A i \in 1 .. Len(write_q) : write_q[i] # Sentinel
    /\ main \in {"stopping_writer", "returned"} =>
          /\ expected_seq = fetched + 1
          /\ \/ writer = "done" /\ write_q = <<>>
             \/ writer = "getting" /\ main # "returned"
                  /\ write_q = <<Sentinel>>

Live == Counting /\ FetchOrder /\ Apart /\ Covered /\ Results /\ Phases

\* After an abort no task is left to do anything.
Quiet ==
    /\ fetcher \in {"done", "failed", "cancelled"}
    /\ \A w \in Workers : worker[w] \in {"done", "cancelled"}
    /\ writer \in {"done", "cancelled"}

IInv == /\ TypeOK
        /\ InOrderNoGaps
        /\ main # "raised" => Live
        /\ main = "raised" => Quiet

-----------------------------------------------------------------------------
(* Counting workers and messages                                            *)

LEMMA BusyFinite == IsFiniteSet(Busy) /\ Cardinality(Busy) \in Nat
<1>1. IsFiniteSet(Workers)
  BY PipelineAssumption DEF PipelineAssumption
<1>2. Busy \subseteq Workers
  BY DEF Busy
<1> QED
  BY <1>1, <1>2, FS_Subset, FS_CardinalityType

LEMMA CountedFinite == IsFiniteSet(Counted) /\ Cardinality(Counted) \in Nat
<1>1. MaxMessages \in Int /\ 1 \in Int
  BY PipelineAssumption DEF PipelineAssumption
<1>2. IsFiniteSet(Messages)
  BY <1>1, FS_Interval DEF Messages
<1>3. Counted \subseteq Messages
  BY DEF Counted
<1> QED
  BY <1>2, <1>3, FS_Subset, FS_CardinalityType

\* A live state from which an action other than an abort is taken.
Before == TypeOK /\ InOrderNoGaps /\ main # "raised" /\ Live

-----------------------------------------------------------------------------
(* One lemma per action: the step preserves the inductive invariant         *)

LEMMA Bounds ==
  ASSUME Before
  PROVE  Taken \in 0 .. MaxMessages /\ Low \in 1 .. MaxMessages + 2
<1>1. Taken \in Int /\ Taken <= fetched
  BY DEF Before, TypeOK, Taken, Queued
<1> QED
  BY <1>1, PipelineAssumption
     DEF Before, TypeOK, Live, FetchOrder, Low, PipelineAssumption

LEMMA RequestShutdownStep == ASSUME Before, RequestShutdown PROVE IInv'
<1>1. Taken' = Taken /\ Low' = Low /\ Busy' = Busy /\ Counted' = Counted
  BY DEF Taken, Low, Queued, Busy, Counted, RequestShutdown, fetchVars,
         fetchQVars, workerVars, writerVars, mainVars
<1>2. TypeOK' /\ InOrderNoGaps' /\ main' # "raised"
  BY DEF Before, TypeOK, InOrderNoGaps, RequestShutdown, fetchVars, fetchQVars,
         workerVars, writeQVars, writerVars, mainVars
<1>3. Counting' /\ FetchOrder'
  BY <1>1 DEF Before, Live, Counting, FetchOrder, RequestShutdown, fetchVars,
         fetchQVars, workerVars, writeQVars, writerVars, mainVars
<1>4. Apart' /\ Covered' /\ Results'
  BY <1>1 DEF Before, Live, Apart, Covered, Results, RequestShutdown,
         workerVars, writeQVars, writerVars
<1>5. Phases'
  BY DEF Before, Live, Phases, RequestShutdown, fetchVars, workerVars,
         writeQVars, writerVars, mainVars
<1> QED
  BY <1>2, <1>3, <1>4, <1>5 DEF IInv, Live

LEMMA FetchMessageStep == ASSUME Before, FetchMessage PROVE IInv'
<1>1. main = "fetching"
  BY DEF Before, Live, Phases, FetchMessage
<1>2. Taken' = Taken /\ Low' = Low /\ Busy' = Busy /\ Counted' = Counted
  <2>1. Taken' = Taken
    BY <1>1 DEF Before, TypeOK, Taken, Queued, FetchMessage, Early, fetchQVars, mainVars
  <2> QED
    BY <2>1 DEF Low, Busy, Counted, FetchMessage, workerVars, writerVars
<1>3. TypeOK' /\ InOrderNoGaps' /\ main' # "raised"
  BY PipelineAssumption
     DEF Before, TypeOK, InOrderNoGaps, FetchMessage, PipelineAssumption,
         fetchQVars, workerVars, writeQVars, writerVars, mainVars
<1>4. Counting' /\ FetchOrder'
  BY <1>1, <1>2 DEF Before, TypeOK, Live, Counting, FetchOrder, FetchMessage,
         fetchQVars, workerVars, writeQVars, writerVars, mainVars
<1>5. Apart' /\ Covered' /\ Results'
  BY <1>2 DEF Before, Live, Apart, Covered, Results, FetchMessage,
         workerVars, writeQVars, writerVars
<1>6. Phases'
  BY <1>1 DEF Before, Live, Phases, FetchMessage, workerVars, writeQVars,
         writerVars, mainVars
<1> QED
  BY <1>3, <1>4, <1>5, <1>6 DEF IInv, Live

LEMMA FetchPutStep == ASSUME Before, FetchPut PROVE IInv'
<1>1. /\ main = "fetching" /\ main' = main
      /\ fetched \in Messages
  BY DEF Before, TypeOK, Live, Phases, FetchOrder, FetchPut, mainVars, Messages
<1>2. /\ fetch_q' \in Seq(Messages \cup {Sentinel})
      /\ Len(fetch_q') = Len(fetch_q) + 1
      /\ \A i \in 1 .. Len(fetch_q) : fetch_q'[i] = fetch_q[i]
      /\ fetch_q'[Len(fetch_q) + 1] = fetched
      /\ Len(fetch_q) \in Nat
  BY <1>1 DEF FetchPut, Before, TypeOK
<1>3. /\ Taken' = Taken /\ Taken = fetched - 1 - Len(fetch_q)
      /\ Low' = Low /\ Busy' = Busy /\ Counted' = Counted
  BY <1>1, <1>2 DEF Before, TypeOK, Taken, Low, Queued, Early, Busy, Counted,
         FetchPut, workerVars, writerVars, mainVars
<1>4. TypeOK' /\ InOrderNoGaps' /\ main' # "raised"
  BY <1>1, <1>2, PipelineAssumption
     DEF Before, TypeOK, InOrderNoGaps, FetchPut, PipelineAssumption,
         workerVars, writeQVars, writerVars, mainVars
<1>5. Counting'
  BY <1>2, <1>3, BusyFinite DEF Before, Live, Counting, FetchPut, workerVars,
         writeQVars, writerVars
<1>6. FetchOrder'
  BY <1>1, <1>2, <1>3 DEF Before, TypeOK, Live, FetchOrder, FetchPut, Early
<1>7. Apart' /\ Covered' /\ Results'
  BY <1>3 DEF Before, Live, Apart, Covered, Results, FetchPut, workerVars,
         writeQVars, writerVars
<1>8. Phases'
  BY <1>1 DEF Before, Live, Phases, FetchPut, workerVars, writeQVars,
         writerVars
<1> QED
  BY <1>4, <1>5, <1>6, <1>7, <1>8 DEF IInv, Live

LEMMA FetchStopStep == ASSUME Before, FetchStop PROVE IInv'
<1>1. main = "fetching"
  BY DEF Before, Live, Phases, FetchStop
<1>2. Taken' = Taken /\ Low' = Low /\ Busy' = Busy /\ Counted' = Counted
  BY DEF Taken, Low, Queued, Busy, Counted, FetchStop, fetchQVars, workerVars,
         writerVars, mainVars
<1>3. TypeOK' /\ InOrderNoGaps' /\ main' # "raised"
  BY DEF Before, TypeOK, InOrderNoGaps, FetchStop, fetchQVars, workerVars,
         writeQVars, writerVars, mainVars
<1>4. Counting' /\ FetchOrder'
  BY <1>2 DEF Before, Live, Counting, FetchOrder, FetchStop, fetchQVars,
         workerVars, writeQVars, writerVars, mainVars
<1>5. Apart' /\ Covered' /\ Results'
  BY <1>2 DEF Before, Live, Apart, Covered, Results, FetchStop, workerVars,
         writeQVars, writerVars
<1>6. Phases'
  BY <1>1 DEF Before, Live, Phases, FetchStop, workerVars, writeQVars,
         writerVars, mainVars
<1> QED
  BY <1>3, <1>4, <1>5, <1>6 DEF IInv, Live

LEMMA WorkerTopStep ==
  ASSUME Before, NEW w \in Workers, WorkerTop(w)
  PROVE  IInv'
<1>1. Taken' = Taken /\ Low' = Low /\ Busy' = Busy /\ Counted' = Counted
  BY DEF Before, TypeOK, Taken, Low, Queued, Busy, Counted, WorkerTop,
         fetchVars, fetchQVars, writerVars, mainVars
<1>2. TypeOK' /\ InOrderNoGaps' /\ main' # "raised"
  BY DEF Before, TypeOK, InOrderNoGaps, WorkerTop, fetchVars, fetchQVars,
         writeQVars, writerVars, mainVars
<1>3. Counting' /\ FetchOrder'
  BY <1>1 DEF Before, Live, Counting, FetchOrder, WorkerTop, fetchVars,
         fetchQVars, writeQVars, writerVars, mainVars
<1>4. Apart' /\ Covered'
  BY <1>1 DEF Before, Live, Apart, Covered, WorkerTop, writeQVars, writerVars
<1>5. Results'
  BY <1>1 DEF Before, TypeOK, Live, Results, WorkerTop, writeQVars, writerVars
<1>6. Phases'
  BY DEF Before, TypeOK, Live, Phases, WorkerTop, fetchVars, writeQVars,
         writerVars, mainVars
<1> QED
  BY <1>2, <1>3, <1>4, <1>5, <1>6 DEF IInv, Live

LEMMA WorkerGetStep ==
  ASSUME Before, NEW w \in Workers, WorkerGet(w)
  PROVE  IInv'
<1> DEFINE m == Head(fetch_q)
<1>1. /\ m \in Messages \cup {Sentinel} /\ m = fetch_q[1]
      /\ fetch_q' \in Seq(Messages \cup {Sentinel})
      /\ Len(fetch_q) \in Nat \ {0}
      /\ Len(fetch_q') = Len(fetch_q) - 1
      /\ \A i \in 1 .. Len(fetch_q') : fetch_q'[i] = fetch_q[i + 1]
  BY HeadTailProperties DEF Before, TypeOK, WorkerGet
<1>2. w \notin Busy /\ item[w] = Sentinel
  BY DEF Before, Live, Apart, WorkerGet, Busy
<1>3. item' = [item EXCEPT ![w] = m] /\ Low' = Low
  BY DEF WorkerGet, Low, writerVars
<1>4. CASE m = Sentinel
  <2>1. main \notin Early
    BY <1>1, <1>4, Bounds DEF Before, Live, FetchOrder, Sentinel
  <2>2. worker' = [worker EXCEPT ![w] = "done"] /\ item' = item
        /\ fetch_unfinished' = fetch_unfinished - 1
    BY <1>2, <1>4 DEF WorkerGet, Before, TypeOK
  <2>3. Taken' = Taken /\ Busy' = Busy /\ Counted' = Counted
    BY <2>1, <2>2 DEF Before, TypeOK, Taken, Busy, Counted, WorkerGet, fetchVars, mainVars
  <2>4. Counting' /\ TypeOK'
    <3>1. fetch_unfinished' = Len(fetch_q') + Cardinality(Busy')
      BY <1>1, <2>2, <2>3, BusyFinite DEF Before, Live, Counting
    <3>2. Counting'
      BY <2>3, <3>1 DEF Before, Live, Counting, WorkerGet, writeQVars, writerVars
    <3>3. fetch_unfinished' \in Nat
      BY <1>1, <2>3, <3>1, BusyFinite DEF Before, TypeOK
    <3>4. TypeOK'
      BY <1>1, <2>2, <3>3, PipelineAssumption
         DEF Before, TypeOK, WorkerGet, PipelineAssumption, fetchVars,
             writeQVars, writerVars, mainVars
    <3> QED
      BY <3>2, <3>4
  <2>5. FetchOrder'
    BY <1>1, <2>1, <2>3, Bounds
       DEF Before, Live, FetchOrder, WorkerGet, fetchVars, mainVars
  <2>6. Apart' /\ Covered'
    BY <1>3, <2>2, <2>3 DEF Before, Live, Apart, Covered, WorkerGet, writeQVars, writerVars
  <2>7. Results'
    BY <1>3, <2>2, <2>3 DEF Before, TypeOK, Live, Results, WorkerGet, writeQVars, writerVars
  <2>8. Phases'
    BY <2>2 DEF Before, TypeOK, Live, Phases, WorkerGet, fetchVars, writeQVars,
         writerVars, mainVars
  <2>9. InOrderNoGaps' /\ main' # "raised"
    BY DEF Before, InOrderNoGaps, WorkerGet, writerVars, mainVars
  <2> QED
    BY <2>4, <2>5, <2>6, <2>7, <2>8, <2>9 DEF IInv, Live
<1>5. CASE m # Sentinel
  <2>1. main \in Early /\ m = Taken + 1 /\ m \in Messages
    BY <1>1, <1>5, Bounds DEF Before, Live, FetchOrder, Sentinel
  <2>2. worker' = [worker EXCEPT ![w] = "processing"]
        /\ fetch_unfinished' = fetch_unfinished
    BY <1>5 DEF WorkerGet
  <2>3. Taken' = Taken + 1
    BY <1>1, <2>1 DEF Before, TypeOK, Taken, Queued, WorkerGet, fetchVars, mainVars
  <2>4. Busy' = Busy \cup {w} /\ Cardinality(Busy') = Cardinality(Busy) + 1
    <3>1. Busy' = Busy \cup {w}
      BY <2>2 DEF Busy, Before, TypeOK
    <3> QED
      BY <1>2, <3>1, BusyFinite, FS_AddElement
  <2>5. outcome[m] = "unknown"
    BY <2>1, Bounds DEF Before, Live, Results
  <2>6. Counted' = Counted
    BY <1>2, <1>3, <2>1, <2>5 DEF Before, TypeOK, Counted, WorkerGet, Messages, Sentinel
  <2>7. Counting' /\ TypeOK'
    <3>1. Counting'
      BY <1>1, <2>2, <2>4, <2>6, BusyFinite
         DEF Before, TypeOK, Live, Counting, WorkerGet, writeQVars, writerVars
    <3>2. TypeOK'
      BY <1>1, <1>3, <2>1, <2>2, PipelineAssumption
         DEF Before, TypeOK, WorkerGet, PipelineAssumption, fetchVars,
             writeQVars, writerVars, mainVars
    <3> QED
      BY <3>1, <3>2
  <2>8. FetchOrder'
    <3>1. main' \in Early
      BY <2>1 DEF WorkerGet, mainVars, Early
    <3>2. ASSUME NEW i \in 1 .. Len(fetch_q')
          PROVE  fetch_q'[i] = Taken' + i
      <4>1. i + 1 \in 1 .. Len(fetch_q) /\ fetch_q'[i] = fetch_q[i + 1]
        BY <1>1
      <4>2. fetch_q[i + 1] = Taken + (i + 1)
        BY <2>1, <4>1 DEF Before, Live, FetchOrder
      <4> QED
        BY <2>3, <4>1, <4>2, Bounds
    <3> QED
      BY <2>3, <3>1, <3>2, Bounds DEF Before, Live, FetchOrder, WorkerGet, fetchVars
  <2>9. Apart'
    <3>1. m \in Low' .. Taken'
      BY <1>3, <2>1, <2>3, Bounds DEF Before, Live, Covered
    <3>2. \A s \in Low .. Taken : s # m /\ s \in Low' .. Taken'
      BY <1>3, <2>1, <2>3, Bounds
    <3>3. buffer' = buffer /\ write_q' = write_q
      BY DEF WorkerGet, writeQVars, writerVars
    <3>4. /\ m # Sentinel /\ m \notin buffer
          /\ \A i \in 1 .. Len(write_q) : write_q[i] # m
          /\ \A v \in Workers : item[v] # m
      BY <1>5, <3>2 DEF Before, Live, Apart
    <3>5. /\ \A v \in Workers : item'[v] = IF v = w THEN m ELSE item[v]
          /\ Busy' = Busy \cup {w}
      BY <1>3, <2>2 DEF Before, TypeOK, Busy
    <3> QED
      BY <3>1, <3>2, <3>3, <3>4, <3>5, <1>2, <1>5 DEF Before, Live, Apart
  <2>10. Covered'
    <3>1. Low' <= Taken' + 1
      BY <1>3, <2>3, Bounds DEF Before, Live, Covered
    <3>2. \A v \in Workers : item'[v] = IF v = w THEN m ELSE item[v]
      BY <1>3 DEF Before, TypeOK
    <3>3. \A s \in Low' .. Taken' : s = m \/ s \in Low .. Taken
      BY <1>3, <2>1, <2>3, Bounds
    <3>4. \A s \in Low .. Taken :
             \/ \E v \in Workers : item[v] = s /\ v # w
             \/ \E i \in 1 .. Len(write_q) : write_q[i] = s
             \/ s \in buffer
      BY <1>2, Bounds DEF Before, Live, Covered, Sentinel
    <3> QED
      BY <3>1, <3>2, <3>3, <3>4 DEF Covered, WorkerGet, writeQVars, writerVars
  <2>11. Results'
    <3>1. \A s \in Messages : s > Taken' => s > Taken
      BY <2>3, Bounds DEF Messages
    <3> QED
      BY <1>3, <2>1, <2>2, <2>5, <3>1 DEF Before, TypeOK, Live, Results,
         WorkerGet, writeQVars, writerVars
  <2>12. Phases'
    BY <2>1, <2>2 DEF Before, TypeOK, Live, Phases, Early, WorkerGet, fetchVars,
         writeQVars, writerVars, mainVars
  <2>13. InOrderNoGaps' /\ main' # "raised"
    BY DEF Before, InOrderNoGaps, WorkerGet, writerVars, mainVars
  <2> QED
    BY <2>7, <2>8, <2>9, <2>10, <2>11, <2>12, <2>13 DEF IInv, Live
<1> QED
  BY <1>4, <1>5

LEMMA WorkerProcessStep ==
  ASSUME Before, NEW w \in Workers, WorkerProcess(w)
  PROVE  IInv'
<1>1. /\ item[w] \in Messages /\ item[w] \in Low .. Taken
      /\ outcome[item[w]] = "unknown"
      /\ \A v \in Workers : v # w => item[v] # item[w]
  BY DEF Before, TypeOK, Live, Apart, Results, WorkerProcess, Busy, Sentinel
<1>2. PICK o \in Known : outcome' = [outcome EXCEPT ![item[w]] = o]
  BY DEF WorkerProcess, Known
<1>3. /\ worker' = [worker EXCEPT ![w] = "putting"] /\ item' = item
      /\ Taken' = Taken /\ Low' = Low
  BY DEF WorkerProcess, Taken, Low, Queued, fetchVars, fetchQVars, writerVars, mainVars
<1>4. Busy' = Busy /\ Counted' = Counted
  BY <1>1, <1>2, <1>3 DEF Before, TypeOK, Busy, Counted, WorkerProcess
<1>5. TypeOK' /\ main' # "raised"
  BY <1>1, <1>2, <1>3 DEF Before, TypeOK, Known, Outcomes, WorkerProcess,
         fetchVars, fetchQVars, writeQVars, writerVars, mainVars
<1>6. InOrderNoGaps'
  BY <1>1, <1>2 DEF Before, TypeOK, InOrderNoGaps, Low, WorkerProcess,
         writerVars, Messages
<1>7. Counting' /\ FetchOrder'
  BY <1>3, <1>4 DEF Before, Live, Counting, FetchOrder, WorkerProcess, fetchVars,
         fetchQVars, writeQVars, writerVars, mainVars
<1>8. Apart' /\ Covered'
  BY <1>3, <1>4 DEF Before, Live, Apart, Covered, WorkerProcess, writeQVars, writerVars
<1>9. Results'
  <2>1. \A s \in Messages : outcome'[s] = outcome[s] \/ s = item[w]
    BY <1>1, <1>2 DEF Before, TypeOK
  <2>2. outcome'[item[w]] \in Known
    BY <1>1, <1>2 DEF Before, TypeOK
  <2>3. \A s \in Messages : s > Taken => s # item[w]
    BY <1>1, Bounds
  <2>4. \A v \in Workers : v # w /\ v \in Busy => item[v] \in Messages
    BY DEF Before, TypeOK, Live, Apart
  <2>5. /\ \A s \in buffer : s \in Messages /\ s # item[w]
        /\ \A i \in 1 .. Len(write_q) : write_q[i] # Sentinel =>
              write_q[i] \in Messages /\ write_q[i] # item[w]
    BY <1>1 DEF Before, TypeOK, Live, Apart, WorkerProcess, Messages, Sentinel
  <2>6. writer = "writing" => expected_seq \in Messages /\ expected_seq # item[w]
    BY <1>1, Bounds, PipelineAssumption
       DEF Before, TypeOK, Live, Covered, Low, Messages, PipelineAssumption
  <2> QED
    BY <1>1, <1>3, <2>1, <2>2, <2>3, <2>4, <2>5, <2>6
       DEF Before, TypeOK, Live, Results, Busy, WorkerProcess, writeQVars, writerVars
<1>10. Phases'
  BY <1>3 DEF Before, TypeOK, Live, Phases, WorkerProcess, fetchVars, writeQVars,
         writerVars, mainVars
<1> QED
  BY <1>5, <1>6, <1>7, <1>8, <1>9, <1>10 DEF IInv, Live

LEMMA WorkerPutStep ==
  ASSUME Before, NEW w \in Workers, WorkerPut(w)
  PROVE  IInv'
<1>1. /\ item[w] \in Messages
      /\ w \in Busy
      /\ \A v \in Workers : v # w => item[v] # item[w]
      /\ item' = [item EXCEPT ![w] = 0]
  BY DEF Before, Live, Apart, WorkerPut, TypeOK, Busy, Sentinel
<1>2. /\ write_q' \in Seq(Messages \cup {0})
      /\ Len(write_q') = Len(write_q) + 1
      /\ \A i \in 1 .. Len(write_q) : write_q'[i] = write_q[i]
      /\ write_q'[Len(write_q) + 1] = item[w]
      /\ Len(write_q) \in Nat
  BY <1>1 DEF WorkerPut, Before, TypeOK, Sentinel
<1>3. Taken' = Taken /\ Low' = Low
  BY DEF Taken, Low, Queued, WorkerPut, fetchVars, writerVars, mainVars
<1>4. Busy' = Busy \ {w} /\ Cardinality(Busy') = Cardinality(Busy) - 1
  <2>1. Busy' = Busy \ {w}
    BY DEF Busy, WorkerPut, Before, TypeOK
  <2> QED
    BY <1>1, <2>1, BusyFinite, FS_RemoveElement
<1>5. Counting'
  <2>1. Counted' = IF outcome[item[w]] = "error" THEN Counted \cup {item[w]}
                                                 ELSE Counted
    BY <1>1 DEF Counted, WorkerPut, Before, TypeOK, Sentinel, Messages
  <2>2. item[w] \notin Counted
    BY DEF Counted
  <2>3. errors' = Cardinality(Counted')
    BY <2>1, <2>2, CountedFinite, FS_AddElement
       DEF WorkerPut, Before, Live, Counting
  <2>4. fetch_unfinished' = Len(fetch_q') + Cardinality(Busy')
    BY <1>4, BusyFinite DEF WorkerPut, Before, TypeOK, Live, Counting
  <2>5. write_unfinished' = Len(write_q')
          + (IF writer' \in {"flushing", "writing"} THEN 1 ELSE 0)
    BY <1>2 DEF WorkerPut, Before, Live, Counting, writerVars
  <2> QED
    BY <2>3, <2>4, <2>5 DEF Counting
<1>6. TypeOK'
  <2>1. fetch_unfinished' \in Nat
    <3>1. fetch_unfinished' = Len(fetch_q) + Cardinality(Busy')
      BY <1>5 DEF Counting, WorkerPut
    <3>2. Cardinality(Busy) > 0
      BY <1>1, BusyFinite, FS_EmptySet
    <3> QED
      BY <1>4, <3>1, <3>2, BusyFinite DEF Before, TypeOK
  <2> QED
    BY <1>1, <1>2, <2>1, PipelineAssumption
       DEF Before, TypeOK, WorkerPut, PipelineAssumption, fetchVars, writerVars,
           mainVars, Sentinel
<1>7. InOrderNoGaps'
  BY DEF Before, InOrderNoGaps, WorkerPut, writerVars
<1>8. Apart'
  BY <1>1, <1>3 DEF Before, TypeOK, Live, Apart, WorkerPut, Busy, writerVars, Sentinel
<1>9. Covered'
  <2> SUFFICES ASSUME NEW s \in Low .. Taken
               PROVE  \/ \E v \in Workers : item'[v] = s
                      \/ \E i \in 1 .. Len(write_q') : write_q'[i] = s
                      \/ s \in buffer'
    BY <1>3 DEF Before, Live, Covered
  <2>1. CASE \E v \in Workers : item[v] = s /\ v # w
    BY <1>1, <2>1 DEF Before, TypeOK
  <2>2. CASE item[w] = s
    BY <1>2, <2>2
  <2>3. CASE \E i \in 1 .. Len(write_q) : write_q[i] = s
    BY <1>2, <2>3
  <2>4. CASE s \in buffer
    BY <2>4 DEF WorkerPut, writerVars
  <2> QED
    BY <2>1, <2>2, <2>3, <2>4 DEF Before, Live, Covered
<1>10. Results'
  BY <1>1, <1>3 DEF Before, TypeOK, Live, Results, WorkerPut, Busy, writerVars, Sentinel
<1>11. FetchOrder'
  BY <1>3 DEF Before, Live, FetchOrder, WorkerPut, fetchVars, mainVars
<1>12. Phases'
  <2>1. main \notin {"joining_write", "stopping_writer", "returned"}
    BY DEF WorkerPut, Before, Live, Phases
  <2>2. \A i \in 1 .. Len(write_q') : write_q'[i] # 0
    BY <1>1, <1>2, <2>1 DEF Before, Live, Phases, Messages, Sentinel
  <2> QED
    BY <2>1, <2>2 DEF Before, TypeOK, Live, Phases, WorkerPut, fetchVars, writerVars, mainVars, Sentinel
<1> QED
  BY <1>5, <1>6, <1>7, <1>8, <1>9, <1>10, <1>11, <1>12
     DEF Before, IInv, Live, WorkerPut, mainVars

-----------------------------------------------------------------------------
(* Writer steps                                                             *)

LEMMA WriterGetStep == ASSUME Before, WriterGet PROVE IInv'
<1> DEFINE m == Head(write_q)
<1>1. /\ m \in Messages \cup {Sentinel} /\ m = write_q[1]
      /\ write_q' \in Seq(Messages \cup {Sentinel})
      /\ Len(write_q) \in Nat \ {0}
      /\ Len(write_q') = Len(write_q) - 1
      /\ \A i \in 1 .. Len(write_q') : write_q'[i] = write_q[i + 1]
  BY HeadTailProperties DEF Before, TypeOK, WriterGet
<1>2. Taken' = Taken /\ Low' = Low /\ Busy' = Busy /\ Counted' = Counted
  BY DEF Taken, Low, Queued, Busy, Counted, WriterGet, fetchVars, fetchQVars,
         workerVars, mainVars
<1>3. InOrderNoGaps' /\ main' # "raised"
  BY DEF Before, InOrderNoGaps, WriterGet, workerVars, mainVars
<1>4. FetchOrder'
  BY <1>2 DEF Before, Live, FetchOrder, WriterGet, fetchVars, fetchQVars, mainVars
<1>5. CASE m = Sentinel
  <2>1. /\ main = "stopping_writer" /\ write_q = <<Sentinel>>
        /\ expected_seq = fetched + 1
    BY <1>1, <1>5 DEF Before, TypeOK, Live, Phases, WriterGet, Ended
  <2>2. /\ write_q' = <<>> /\ writer' = "done"
        /\ write_unfinished' = write_unfinished - 1 /\ buffer' = buffer
    BY <1>5, <2>1 DEF WriterGet
  <2>3. Counting'
    BY <1>1, <1>2, <2>2 DEF Before, TypeOK, Live, Counting, WriterGet,
         fetchQVars, workerVars
  <2>4. TypeOK'
    <3>1. write_unfinished' \in Nat
      BY <2>2, <2>3 DEF Counting
    <3> QED
      BY <2>2, <3>1, PipelineAssumption
         DEF Before, TypeOK, WriterGet, PipelineAssumption, fetchVars, fetchQVars,
             workerVars, mainVars
  <2>5. Apart' /\ Results'
    BY <1>2, <2>1, <2>2 DEF Before, Live, Apart, Results, WriterGet, workerVars
  <2>6. Covered'
    <3>1. Low = fetched + 1 /\ Taken = fetched
      BY <2>1 DEF Low, Taken, Early, WriterGet
    <3>2. Low' <= Taken' + 1 /\ Low' .. Taken' = {}
      BY <1>2, <3>1 DEF Before, TypeOK
    <3> QED
      BY <3>2 DEF Covered
  <2>7. Phases'
    BY <2>1, <2>2 DEF Before, Live, Phases, WriterGet, fetchVars, workerVars, mainVars
  <2> QED
    BY <1>3, <1>4, <2>3, <2>4, <2>5, <2>6, <2>7 DEF IInv, Live
<1>6. CASE m # Sentinel
  <2>1. /\ m \in Messages /\ m \in Low .. Taken /\ m \notin buffer
        /\ outcome[m] \in Known
        /\ \A i \in 1 .. Len(write_q') : write_q'[i] # m
        /\ \A w \in Workers : item[w] # m
    <3>1. \A i \in 1 .. Len(write_q') : write_q[i + 1] # write_q[1]
      BY <1>1 DEF Before, Live, Apart
    <3> QED
      BY <1>1, <1>6, <3>1 DEF Before, Live, Apart, Results
  <2>2. /\ writer = "getting" /\ writer' = "flushing" /\ buffer' = buffer \cup {m}
        /\ write_unfinished' = write_unfinished
        /\ main \notin {"stopping_writer", "returned"}
    BY <1>1, <1>6 DEF Before, Live, Phases, WriterGet
  <2>3. Counting'
    BY <1>1, <1>2, <2>2 DEF Before, TypeOK, Live, Counting, WriterGet,
         fetchQVars, workerVars
  <2>4. TypeOK'
    BY <1>1, <2>1, <2>2, PipelineAssumption
       DEF Before, TypeOK, WriterGet, PipelineAssumption, fetchVars, fetchQVars,
           workerVars, mainVars
  <2>5. \A i \in 1 .. Len(write_q') : i + 1 \in 1 .. Len(write_q)
    BY <1>1
  <2>6. Apart'
    <3>1. \A i, j \in 1 .. Len(write_q') : write_q'[i] = write_q'[j] => i = j
      <4> SUFFICES ASSUME NEW i \in 1 .. Len(write_q'), NEW j \in 1 .. Len(write_q'),
                          write_q'[i] = write_q'[j]
                   PROVE  i = j
        OBVIOUS
      <4>1. write_q[i + 1] = write_q[j + 1]
        BY <1>1
      <4>2. i + 1 = j + 1
        BY <2>5, <4>1 DEF Before, Live, Apart
      <4> QED
        BY <1>1, <4>2
    <3>2. \A i \in 1 .. Len(write_q') : write_q'[i] # Sentinel =>
             write_q'[i] \in Low .. Taken /\ write_q'[i] \notin buffer'
      BY <1>1, <2>1, <2>2, <2>5 DEF Before, Live, Apart
    <3>3. \A w \in Workers : item[w] # Sentinel =>
             /\ item[w] \notin buffer'
             /\ \A i \in 1 .. Len(write_q') : write_q'[i] # item[w]
      BY <1>1, <2>1, <2>2, <2>5 DEF Before, Live, Apart
    <3> QED
      BY <1>2, <2>1, <2>2, <3>1, <3>2, <3>3
         DEF Before, Live, Apart, WriterGet, workerVars
  <2>7. Covered'
    <3>1. \A i \in 1 .. Len(write_q) : write_q[i] = m
                 \/ \E j \in 1 .. Len(write_q') : write_q'[j] = write_q[i]
      <4> SUFFICES ASSUME NEW i \in 1 .. Len(write_q), i # 1
                   PROVE  \E j \in 1 .. Len(write_q') : write_q'[j] = write_q[i]
        BY <1>1
      <4> i - 1 \in 1 .. Len(write_q') /\ (i - 1) + 1 = i
        BY <1>1
      <4> QED
        BY <1>1
    <3> QED
      BY <1>2, <2>2, <3>1 DEF Before, Live, Covered, WriterGet, workerVars
  <2>8. Results'
    BY <1>1, <1>2, <2>1, <2>2, <2>5 DEF Before, Live, Results, WriterGet, workerVars
  <2>9. Phases'
    BY <1>1, <2>1, <2>2, <2>5
       DEF Before, Live, Phases, WriterGet, fetchVars, workerVars, mainVars
  <2> QED
    BY <1>3, <1>4, <2>3, <2>4, <2>6, <2>7, <2>8, <2>9 DEF IInv, Live
<1> QED
  BY <1>5, <1>6

LEMMA WriterFlushStep == ASSUME Before, WriterFlush PROVE IInv'
<1> DEFINE s == expected_seq
<1>1. /\ s \in Messages /\ s \in buffer /\ s <= Taken /\ Low = s
      /\ outcome[s] \in Known /\ writer = "flushing"
      /\ buffer' = buffer \ {s}
      /\ main \notin {"stopping_writer", "returned"}
  BY Bounds DEF Before, TypeOK, Live, Apart, Low, Results, Phases, WriterFlush
<1>2. Taken' = Taken /\ Low' = s + 1 /\ Busy' = Busy /\ Counted' = Counted
  BY <1>1 DEF Taken, Low, Queued, Busy, Counted, WriterFlush, fetchVars,
         fetchQVars, workerVars, mainVars
<1>3. Counting' /\ FetchOrder'
  BY <1>1, <1>2 DEF Before, Live, Counting, FetchOrder, WriterFlush,
         fetchVars, fetchQVars, workerVars, writeQVars, mainVars
<1>4. TypeOK' /\ main' # "raised"
  BY <1>1, PipelineAssumption
     DEF Before, TypeOK, WriterFlush, PipelineAssumption, fetchVars, fetchQVars,
         workerVars, writeQVars, mainVars, Messages
<1>5. InOrderNoGaps'
  <2>1. CASE outcome[s] = "value"
    BY <2>1 DEF Before, InOrderNoGaps, WriterFlush, workerVars
  <2>2. CASE outcome[s] # "value"
    <3>1. expected_seq' = s + 1 /\ written' = written /\ outcome' = outcome
      BY <2>2 DEF WriterFlush, workerVars
    <3>2. s \notin Elements(written)
      BY <1>1 DEF Before, InOrderNoGaps, Messages
    <3> QED
      BY <1>1, <2>2, <3>1, <3>2 DEF Before, InOrderNoGaps, Messages, Known
  <2> QED
    BY <2>1, <2>2
<1>6. \A k \in Low .. Taken : k = s \/ k \in Low' .. Taken'
  BY <1>1, <1>2, Bounds
<1>7. Apart'
  <2>1. \A w \in Workers : item[w] # s
    BY <1>1 DEF Before, Live, Apart, Messages, Sentinel
  <2>2. \A i \in 1 .. Len(write_q) : write_q[i] # s
    BY <1>1 DEF Before, Live, Apart, Messages, Sentinel
  <2> QED
    BY <1>1, <1>2, <1>6, <2>1, <2>2
       DEF Before, Live, Apart, WriterFlush, workerVars, writeQVars
<1>8. Covered'
  <2>1. \A k \in Low' .. Taken' : k # s /\ k \in Low .. Taken
    BY <1>1, <1>2, Bounds
  <2>2. Low' <= Taken' + 1
    BY <1>1, <1>2, Bounds
  <2> QED
    BY <1>1, <2>1, <2>2
       DEF Before, Live, Covered, WriterFlush, workerVars, writeQVars
<1>9. Results'
  BY <1>1, <1>2 DEF Before, Live, Results, WriterFlush, workerVars, writeQVars
<1>10. Phases'
  BY <1>1 DEF Before, Live, Phases, WriterFlush, fetchVars, workerVars,
         writeQVars, mainVars
<1> QED
  BY <1>3, <1>4, <1>5, <1>7, <1>8, <1>9, <1>10 DEF IInv, Live

LEMMA WriterWriteStep == ASSUME Before, WriterWrite PROVE IInv'
<1> DEFINE s == expected_seq
<1>1. /\ s \in Messages /\ s <= Taken /\ Low = s + 1
      /\ outcome[s] = "value" /\ writer = "writing" /\ writer' = "flushing"
      /\ expected_seq' = s + 1
      /\ main \notin {"stopping_writer", "returned"}
  BY Bounds, PipelineAssumption
     DEF Before, TypeOK, Live, Covered, Low, Results, Phases, WriterWrite,
         Messages, PipelineAssumption
<1>2. Taken' = Taken /\ Low' = Low /\ Busy' = Busy
  BY <1>1 DEF Taken, Low, Queued, Busy, WriterWrite, fetchVars, fetchQVars, mainVars
<1>3. \/ outcome' = outcome /\ written' = Append(written, s)
      \/ outcome' = [outcome EXCEPT ![s] = "lost"] /\ written' = written
  BY DEF WriterWrite
<1>4. \A k \in Messages : k # s => outcome'[k] = outcome[k]
  BY <1>1, <1>3 DEF Before, TypeOK
<1>5. /\ outcome' \in [Messages -> Outcomes]
      /\ outcome'[s] \in {"value", "lost"}
  BY <1>1, <1>3 DEF Before, TypeOK, Outcomes
<1>6. Counted' = Counted
  BY <1>1, <1>4, <1>5 DEF Counted, WriterWrite
<1>7. Counting' /\ FetchOrder'
  BY <1>1, <1>2, <1>6 DEF Before, Live, Counting, FetchOrder, WriterWrite,
         fetchVars, fetchQVars, writeQVars, mainVars
<1>8. TypeOK' /\ main' # "raised"
  <2>1. written' \in Seq(Messages)
    <3>1. written \in Seq(Messages)
      BY DEF Before, TypeOK
    <3>2. Append(written, s) \in Seq(Messages)
      BY <1>1, <3>1
    <3> QED
      BY <1>3, <3>1, <3>2
  <2>2. expected_seq' \in 1 .. MaxMessages + 1
    BY <1>1, PipelineAssumption DEF Messages, PipelineAssumption
  <2> QED
    BY <1>1, <1>5, <2>1, <2>2
       DEF Before, TypeOK, WriterWrite, fetchVars, fetchQVars, writeQVars, mainVars
<1>9. InOrderNoGaps'
  <2>1. CASE written' = Append(written, s) /\ outcome' = outcome
    <3>1. /\ DOMAIN written = 1 .. Len(written) /\ Len(written) \in Nat
          /\ DOMAIN written' = 1 .. Len(written) + 1
          /\ \A i \in 1 .. Len(written) : written'[i] = written[i]
          /\ written'[Len(written) + 1] = s
      BY <1>1, <2>1 DEF Before, TypeOK
    <3>2. Elements(written') = Elements(written) \cup {s}
      BY <3>1 DEF Elements
    <3>3. \A i \in 1 .. Len(written) : written[i] \in 1 .. s - 1
      BY <3>1 DEF Before, InOrderNoGaps, Elements
    <3>4. \A i, j \in DOMAIN written' : i < j => written'[i] < written'[j]
      BY <1>1, <3>1, <3>3 DEF Before, InOrderNoGaps, Messages
    <3>5. \A k \in Messages : k < expected_seq' => k < s \/ k = s
      BY <1>1 DEF Messages
    <3> QED
      BY <1>1, <2>1, <3>2, <3>4, <3>5 DEF Before, InOrderNoGaps, Messages
  <2>2. CASE written' = written /\ outcome' = [outcome EXCEPT ![s] = "lost"]
    <3>1. s \notin Elements(written)
      BY <1>1 DEF Before, InOrderNoGaps, Messages
    <3>2. \A k \in Messages : k < expected_seq' => k < s \/ k = s
      BY <1>1 DEF Messages
    <3>3. outcome'[s] = "lost"
      BY <1>1, <2>2 DEF Before, TypeOK
    <3> QED
      BY <1>1, <1>4, <2>2, <3>1, <3>2, <3>3 DEF Before, InOrderNoGaps, Messages
  <2> QED
    BY <1>3, <2>1, <2>2
<1>10. \A k \in Low .. Taken : k \in Messages /\ k # s
  BY <1>1, Bounds, PipelineAssumption DEF Messages, PipelineAssumption
<1>11. Apart' /\ Covered'
  BY <1>2 DEF Before, Live, Apart, Covered, WriterWrite, writeQVars
<1>12. Results'
  <2>1. \A k \in Messages : k > Taken => outcome'[k] = "unknown"
    BY <1>1, <1>4, Bounds DEF Before, Live, Results
  <2>2. \A w \in Workers : worker[w] \in {"processing", "putting"} =>
           outcome'[item[w]] = outcome[item[w]]
    BY <1>4, <1>10 DEF Before, Live, Apart, Busy
  <2>3. \A k \in buffer : outcome'[k] = outcome[k]
    BY <1>4, <1>10 DEF Before, Live, Apart
  <2>4. \A i \in 1 .. Len(write_q) :
           write_q[i] # Sentinel => outcome'[write_q[i]] = outcome[write_q[i]]
    BY <1>4, <1>10 DEF Before, Live, Apart
  <2> QED
    BY <1>1, <1>2, <2>1, <2>2, <2>3, <2>4
       DEF Before, Live, Results, WriterWrite, writeQVars
<1>13. Phases'
  BY <1>1 DEF Before, Live, Phases, WriterWrite, fetchVars, writeQVars, mainVars
<1> QED
  BY <1>7, <1>8, <1>9, <1>11, <1>12, <1>13 DEF IInv, Live

LEMMA WriterWaitStep == ASSUME Before, WriterWait PROVE IInv'
<1>1. Taken' = Taken /\ Low' = Low /\ Busy' = Busy /\ Counted' = Counted
  BY DEF Taken, Low, Queued, Busy, Counted, WriterWait, fetchVars, fetchQVars,
         workerVars, mainVars
<1>2. Counting' /\ FetchOrder'
  BY <1>1 DEF Before, TypeOK, Live, Counting, FetchOrder, WriterWait,
         fetchVars, fetchQVars, workerVars, mainVars
<1>3. TypeOK' /\ InOrderNoGaps' /\ main' # "raised"
  <2>1. write_unfinished' \in Nat
    BY DEF Before, TypeOK, Live, Counting, WriterWait
  <2> QED
    BY <2>1 DEF Before, TypeOK, InOrderNoGaps, WriterWait, fetchVars, fetchQVars,
         workerVars, mainVars
<1>4. Apart' /\ Covered' /\ Results'
  BY <1>1 DEF Before, Live, Apart, Covered, Results, WriterWait, workerVars
<1>5. Phases'
  BY DEF Before, Live, Phases, WriterWait, fetchVars, workerVars, mainVars
<1> QED
  BY <1>2, <1>3, <1>4, <1>5 DEF IInv, Live

-----------------------------------------------------------------------------
(* Steps of run()                                                           *)

LEMMA MainFetchedStep == ASSUME Before, MainFetched PROVE IInv'
<1>1. Taken' = Taken /\ Low' = Low /\ Busy' = Busy /\ Counted' = Counted
  BY DEF Taken, Low, Queued, Early, Busy, Counted, MainFetched, fetchVars,
         fetchQVars, workerVars, writerVars
<1>2. TypeOK' /\ InOrderNoGaps' /\ main' # "raised"
  BY DEF Before, TypeOK, InOrderNoGaps, MainFetched, fetchVars, fetchQVars,
         workerVars, writeQVars, writerVars
<1>3. Counting' /\ FetchOrder'
  BY <1>1 DEF Before, Live, Counting, FetchOrder, MainFetched, Early,
         fetchVars, fetchQVars, workerVars, writeQVars, writerVars
<1>4. Apart' /\ Covered' /\ Results'
  BY <1>1 DEF Before, Live, Apart, Covered, Results, MainFetched, workerVars,
         writeQVars, writerVars
<1>5. Phases'
  BY DEF Before, Live, Phases, MainFetched, fetchVars, workerVars, writeQVars,
         writerVars
<1> QED
  BY <1>2, <1>3, <1>4, <1>5 DEF IInv, Live

\* The join on fetch_q tells that nothing is queued and no worker is busy.
LEMMA MainFetchJoinedStep == ASSUME Before, MainFetchJoined PROVE IInv'
<1>1. Len(fetch_q) = 0
  BY BusyFinite DEF Before, TypeOK, Live, Counting, MainFetchJoined
<1>2. fetcher = "done"
  BY DEF Before, Live, Phases, MainFetchJoined
<1>3. Taken' = Taken /\ Low' = Low /\ Busy' = Busy /\ Counted' = Counted
  BY <1>1, <1>2 DEF Before, TypeOK, Taken, Low, Queued, Early, Busy, Counted,
         MainFetchJoined, fetchVars, fetchQVars, workerVars, writerVars
<1>4. TypeOK' /\ InOrderNoGaps' /\ main' # "raised"
  BY DEF Before, TypeOK, InOrderNoGaps, MainFetchJoined, fetchVars, fetchQVars,
         workerVars, writeQVars, writerVars
<1>5. Counting' /\ FetchOrder'
  BY <1>1, <1>3 DEF Before, Live, Counting, FetchOrder, MainFetchJoined,
         fetchVars, fetchQVars, workerVars, writeQVars, writerVars
<1>6. Apart' /\ Covered' /\ Results'
  BY <1>3 DEF Before, Live, Apart, Covered, Results, MainFetchJoined,
         workerVars, writeQVars, writerVars
<1>7. Phases'
  BY <1>2 DEF Before, Live, Phases, MainFetchJoined, fetchVars, workerVars,
         writeQVars, writerVars
<1> QED
  BY <1>4, <1>5, <1>6, <1>7 DEF IInv, Live

LEMMA MainStopWorkerStep == ASSUME Before, MainStopWorker PROVE IInv'
<1>1. /\ fetch_q' \in Seq(Messages \cup {Sentinel})
      /\ Len(fetch_q') = Len(fetch_q) + 1
      /\ \A i \in 1 .. Len(fetch_q) : fetch_q'[i] = fetch_q[i]
      /\ fetch_q'[Len(fetch_q) + 1] = Sentinel
      /\ Len(fetch_q) \in Nat
  BY DEF MainStopWorker, Before, TypeOK
<1>2. main = "stopping_workers" /\ main' = main /\ main \notin Early
  BY DEF MainStopWorker, Early
<1>3. Taken' = Taken /\ Low' = Low /\ Busy' = Busy /\ Counted' = Counted
  BY <1>2 DEF Taken, Low, Busy, Counted, MainStopWorker, fetchVars,
         workerVars, writerVars
<1>4. TypeOK' /\ InOrderNoGaps' /\ main' # "raised"
  <2>1. sentinels' \in 0 .. Cardinality(Workers)
    BY PipelineAssumption, FS_CardinalityType
       DEF Before, TypeOK, MainStopWorker, PipelineAssumption
  <2> QED
    BY <1>1, <1>2, <2>1, PipelineAssumption
       DEF Before, TypeOK, InOrderNoGaps, MainStopWorker, PipelineAssumption,
           fetchVars, workerVars, writeQVars, writerVars
<1>5. Counting'
  BY <1>1, <1>3, BusyFinite DEF Before, Live, Counting, MainStopWorker,
         workerVars, writeQVars, writerVars
<1>6. FetchOrder'
  BY <1>1, <1>2, <1>3 DEF Before, Live, FetchOrder, MainStopWorker, fetchVars
<1>7. Apart' /\ Covered' /\ Results'
  BY <1>3 DEF Before, Live, Apart, Covered, Results, MainStopWorker,
         workerVars, writeQVars, writerVars
<1>8. Phases'
  BY <1>2 DEF Before, Live, Phases, MainStopWorker, fetchVars, workerVars,
         writeQVars, writerVars
<1> QED
  BY <1>4, <1>5, <1>6, <1>7, <1>8 DEF IInv, Live

LEMMA MainWorkersToldStep == ASSUME Before, MainWorkersTold PROVE IInv'
<1>1. Taken' = Taken /\ Low' = Low /\ Busy' = Busy /\ Counted' = Counted
  BY DEF Taken, Low, Queued, Early, Busy, Counted, MainWorkersTold, fetchVars,
         fetchQVars, workerVars, writerVars
<1>2. TypeOK' /\ InOrderNoGaps' /\ main' # "raised"
  BY DEF Before, TypeOK, InOrderNoGaps, MainWorkersTold, fetchVars, fetchQVars,
         workerVars, writeQVars, writerVars
<1>3. Counting' /\ FetchOrder'
  BY <1>1 DEF Before, Live, Counting, FetchOrder, MainWorkersTold, Early,
         fetchVars, fetchQVars, workerVars, writeQVars, writerVars
<1>4. Apart' /\ Covered' /\ Results'
  BY <1>1 DEF Before, Live, Apart, Covered, Results, MainWorkersTold,
         workerVars, writeQVars, writerVars
<1>5. Phases'
  BY DEF Before, Live, Phases, MainWorkersTold, fetchVars, workerVars,
         writeQVars, writerVars
<1> QED
  BY <1>2, <1>3, <1>4, <1>5 DEF IInv, Live

LEMMA MainGatheredStep == ASSUME Before, MainGathered PROVE IInv'
<1>1. Taken' = Taken /\ Low' = Low /\ Busy' = Busy /\ Counted' = Counted
  BY DEF Taken, Low, Queued, Early, Busy, Counted, MainGathered, fetchVars,
         fetchQVars, workerVars, writerVars
<1>2. TypeOK' /\ InOrderNoGaps' /\ main' # "raised"
  BY DEF Before, TypeOK, InOrderNoGaps, MainGathered, fetchVars, fetchQVars,
         workerVars, writeQVars, writerVars
<1>3. Counting' /\ FetchOrder'
  BY <1>1 DEF Before, Live, Counting, FetchOrder, MainGathered, Early,
         fetchVars, fetchQVars, workerVars, writeQVars, writerVars
<1>4. Apart' /\ Covered' /\ Results'
  BY <1>1 DEF Before, Live, Apart, Covered, Results, MainGathered, workerVars,
         writeQVars, writerVars
<1>5. Phases'
  BY DEF Before, Live, Phases, MainGathered, fetchVars, workerVars, writeQVars,
         writerVars
<1> QED
  BY <1>2, <1>3, <1>4, <1>5 DEF IInv, Live

\* Workers gone, write_q joined: the message in turn is nowhere, so there is
\* none, and the writer has settled all that was fetched.
LEMMA MainWriteJoinedStep == ASSUME Before, MainWriteJoined PROVE IInv'
<1>1. /\ main = "joining_write" /\ main' = "stopping_writer"
      /\ \A w \in Workers : worker[w] = "done"
      /\ write_q = <<>> /\ writer = "getting" /\ expected_seq \notin buffer
  BY DEF Before, TypeOK, Live, Counting, Phases, MainWriteJoined
<1>2. write_q' = <<Sentinel>> /\ write_unfinished' = 1
  BY <1>1 DEF MainWriteJoined
<1>3. Taken' = Taken /\ Low' = Low /\ Busy' = Busy /\ Counted' = Counted
  BY <1>1 DEF Taken, Low, Early, Busy, Counted, MainWriteJoined, fetchVars,
         workerVars, writerVars
<1>4. expected_seq = fetched + 1
  <2>1. Low = expected_seq /\ Taken = fetched
    BY <1>1 DEF Low, Taken, Early
  <2>2. \A w \in Workers : item[w] = Sentinel
    BY <1>1 DEF Before, Live, Apart, Busy
  <2>3. expected_seq \notin Low .. Taken
    BY <1>1, <2>1, <2>2 DEF Before, TypeOK, Live, Covered, Sentinel
  <2> QED
    BY <2>1, <2>3 DEF Before, TypeOK, Live, Covered
<1>5. TypeOK' /\ InOrderNoGaps' /\ main' # "raised"
  BY <1>1, <1>2, PipelineAssumption
     DEF Before, TypeOK, InOrderNoGaps, MainWriteJoined, PipelineAssumption,
         fetchVars, fetchQVars, workerVars, writerVars
<1>6. Counting'
  BY <1>1, <1>2, <1>3 DEF Before, Live, Counting, MainWriteJoined, fetchQVars,
         workerVars, writerVars
<1>7. FetchOrder'
  BY <1>1, <1>3 DEF Before, Live, FetchOrder, MainWriteJoined, Early, fetchVars,
         fetchQVars
<1>8. Apart' /\ Results'
  BY <1>1, <1>2, <1>3 DEF Before, Live, Apart, Results, MainWriteJoined,
         workerVars, writerVars
<1>9. Covered'
  BY <1>1, <1>2, <1>3 DEF Before, Live, Covered, MainWriteJoined, workerVars, writerVars
<1>10. Phases'
  BY <1>1, <1>2, <1>4 DEF Before, Live, Phases, MainWriteJoined, fetchVars,
         workerVars, writerVars
<1> QED
  BY <1>5, <1>6, <1>7, <1>8, <1>9, <1>10 DEF IInv, Live

LEMMA MainReturnStep == ASSUME Before, MainReturn PROVE IInv'
<1>1. Taken' = Taken /\ Low' = Low /\ Busy' = Busy /\ Counted' = Counted
  BY DEF Taken, Low, Queued, Early, Busy, Counted, MainReturn, fetchVars,
         fetchQVars, workerVars, writerVars
<1>2. TypeOK' /\ InOrderNoGaps' /\ main' # "raised"
  BY DEF Before, TypeOK, InOrderNoGaps, MainReturn, Ended, fetchVars, fetchQVars,
         workerVars, writeQVars, writerVars
<1>3. Counting' /\ FetchOrder'
  BY <1>1 DEF Before, Live, Counting, FetchOrder, MainReturn, Early,
         fetchVars, fetchQVars, workerVars, writeQVars, writerVars
<1>4. Apart' /\ Covered' /\ Results'
  BY <1>1 DEF Before, Live, Apart, Covered, Results, MainReturn, workerVars,
         writeQVars, writerVars
<1>5. Phases'
  BY DEF Before, Live, Phases, MainReturn, fetchVars, workerVars, writeQVars,
         writerVars
<1> QED
  BY <1>2, <1>3, <1>4, <1>5 DEF IInv, Live

\* An abort leaves the counter of fetch_q at the length of the queue.
LEMMA CancelTasksStep == ASSUME Before, CancelTasks PROVE IInv'
<1>1. fetch_unfinished' = Len(fetch_q)
  BY BusyFinite DEF Before, TypeOK, Live, Counting, CancelTasks, Busy
<1>2. TypeOK' /\ InOrderNoGaps'
  BY <1>1 DEF Before, TypeOK, InOrderNoGaps, CancelTasks, Ended, Sentinel, writeQVars
<1>3. Quiet'
  BY DEF CancelTasks, Quiet
<1> QED
  BY <1>2, <1>3 DEF IInv, CancelTasks

-----------------------------------------------------------------------------
(* The invariant                                                            *)

LEMMA InitIInv == Init => IInv
<1> SUFFICES ASSUME Init PROVE IInv
  OBVIOUS
<1>1. /\ Busy = {} /\ Counted = {}
      /\ Taken = 0 /\ Low = 1 /\ Len(fetch_q) = 0 /\ Len(write_q) = 0
  <2>1. Busy = {} /\ Counted = {}
    BY DEF Init, Busy, Counted
  <2>2. Len(fetch_q) = 0 /\ Len(write_q) = 0
    BY EmptySeq DEF Init
  <2>3. Queued = 0 /\ fetched = 0
    BY DEF Init, Queued
  <2>4. Taken = 0
    BY <2>2, <2>3 DEF Taken
  <2>5. Low = 1
    BY DEF Init, Low
  <2> QED
    BY <2>1, <2>2, <2>4, <2>5
<1>2. TypeOK
  <2>1. 0 \in 0 .. Cardinality(Workers)
    BY PipelineAssumption, FS_CardinalityType DEF PipelineAssumption
  <2>2. outcome \in [Messages -> Outcomes] /\ item \in [Workers -> Messages \cup {Sentinel}]
    BY DEF Init, Outcomes
  <2>3. /\ <<>> \in Seq(Messages \cup {Sentinel}) /\ <<>> \in Seq(Messages)
        /\ Len(fetch_q) <= FetchQueueSize /\ Len(write_q) <= ProcessQueueSize
    BY <1>1, EmptySeq, PipelineAssumption DEF PipelineAssumption
  <2>4. fetched \in 0 .. MaxMessages /\ expected_seq \in 1 .. MaxMessages + 1
    BY PipelineAssumption DEF Init, PipelineAssumption
  <2> QED
    BY <2>1, <2>2, <2>3, <2>4 DEF Init, TypeOK
<1>3. InOrderNoGaps
  BY DEF Init, InOrderNoGaps, Elements, Messages
<1>4. Counting /\ FetchOrder
  BY <1>1, FS_EmptySet DEF Init, Counting, FetchOrder
<1>5. Apart /\ Covered
  BY <1>1 DEF Init, Apart, Covered
<1>6. Results /\ Phases
  BY <1>1 DEF Init, Results, Phases
<1> QED
  BY <1>2, <1>3, <1>4, <1>5, <1>6 DEF IInv, Live, Init

\* After an abort the system only stutters.
LEMMA QuietStutters ==
  ASSUME IInv, main = "raised", Next
  PROVE  UNCHANGED vars
  BY DEF IInv, Quiet, Next, RequestShutdown, Ended, Fetcher, FetchMessage,
         FetchPut, FetchStop, Worker, WorkerTop, WorkerGet, WorkerProcess,
         WorkerPut, Writer, WriterGet, WriterFlush, WriterWrite, WriterWait,
         Main, MainFetched, MainFetchJoined, MainStopWorker, MainWorkersTold,
         MainGathered, MainWriteJoined, MainReturn, MainFetchFailed,
         MainCancelled, Done

LEMMA StutterIInv == IInv /\ UNCHANGED vars => IInv'
<1> SUFFICES ASSUME IInv, UNCHANGED vars
             PROVE  IInv'
  OBVIOUS
<1> USE DEF vars, fetchVars, fetchQVars, workerVars, writeQVars, writerVars,
            mainVars
<1>1. Taken' = Taken /\ Low' = Low /\ Busy' = Busy /\ Counted' = Counted
  BY DEF Taken, Low, Queued, Busy, Counted
<1>2. TypeOK' /\ InOrderNoGaps'
  BY DEF IInv, TypeOK, InOrderNoGaps
<1>3. Live => Live'
  <2>1. Counting => Counting'
    BY <1>1 DEF Counting
  <2>2. FetchOrder => FetchOrder'
    BY <1>1 DEF FetchOrder
  <2>3. Apart => Apart'
    BY <1>1 DEF Apart
  <2>4. Covered => Covered'
    BY <1>1 DEF Covered
  <2>5. Results => Results'
    BY <1>1 DEF Results
  <2>6. Phases => Phases'
    BY DEF Phases
  <2> QED
    BY <2>1, <2>2, <2>3, <2>4, <2>5, <2>6 DEF Live
<1>4. Quiet => Quiet'
  BY DEF Quiet
<1> QED
  BY <1>2, <1>3, <1>4 DEF IInv

LEMMA NextIInv == IInv /\ [Next]_vars => IInv'
<1> SUFFICES ASSUME IInv, [Next]_vars PROVE IInv'
  OBVIOUS
<1>1. CASE UNCHANGED vars
  BY <1>1, StutterIInv
<1>2. CASE main = "raised" /\ Next
  BY <1>2, QuietStutters, StutterIInv
<1>3. CASE main # "raised" /\ Next
  <2> Before
    BY <1>3 DEF Before, IInv
  <2>1. CASE RequestShutdown
    BY <2>1, RequestShutdownStep
  <2>2. CASE Fetcher
    BY <2>2, FetchMessageStep, FetchPutStep, FetchStopStep DEF Fetcher
  <2>3. CASE \E w \in Workers : Worker(w)
    BY <2>3, WorkerTopStep, WorkerGetStep, WorkerProcessStep, WorkerPutStep
       DEF Worker
  <2>4. CASE Writer
    BY <2>4, WriterGetStep, WriterFlushStep, WriterWriteStep, WriterWaitStep
       DEF Writer
  <2>5. CASE Main
    BY <2>5, MainFetchedStep, MainFetchJoinedStep, MainStopWorkerStep,
       MainWorkersToldStep, MainGatheredStep, MainWriteJoinedStep,
       MainReturnStep, CancelTasksStep DEF Main, MainFetchFailed
  <2>6. CASE MainCancelled
    BY <2>6, CancelTasksStep DEF MainCancelled
  <2>7. CASE Done
    BY <2>7, StutterIInv DEF Done
  <2> QED
    BY <1>3, <2>1, <2>2, <2>3, <2>4, <2>5, <2>6, <2>7 DEF Next
<1> QED
  BY <1>1, <1>2, <1>3

LEMMA Invariance == Spec => []IInv
  BY InitIInv, NextIInv, PTL DEF Spec

-----------------------------------------------------------------------------
(* The theorems                                                             *)

\* The types, among them that no counter of unfinished items goes below zero
\* (asyncio's task_done would raise) and no queue exceeds its maxsize.
THEOREM TypeCorrect == Spec => []TypeOK
<1>1. IInv => TypeOK
  BY DEF IInv
<1> QED
  BY <1>1, Invariance, PTL

\* The output is in order and has no gap, also after an abort.
THEOREM OrderedOutput == Spec => []InOrderNoGaps
<1>1. IInv => InOrderNoGaps
  BY DEF IInv
<1> QED
  BY <1>1, Invariance, PTL

\* A run that returns has settled all it fetched and counted all failures.
THEOREM CompleteReturn == Spec => []CompleteOnReturn
<1>1. IInv => SettledOnReturn
  BY DEF IInv, SettledOnReturn, Live, Phases
<1>2. IInv => ErrorsOnReturn
  <2> SUFFICES ASSUME IInv, main = "returned" 
               PROVE  errors = Cardinality({s \in Messages : outcome[s] = "error"})
    BY DEF ErrorsOnReturn
  <2>1. \A w \in Workers : item[w] = Sentinel
    BY DEF IInv, Live, Phases, Apart, Busy
  <2>2. Counted = {s \in Messages : outcome[s] = "error"}
    BY <2>1 DEF Counted, Messages, Sentinel
  <2> QED
    BY <2>2 DEF IInv, Live, Counting
<1> QED
  BY <1>1, <1>2, Invariance, PTL DEF CompleteOnReturn

\* Where a message can be follows from how far it is in the order.
LEMMA OnePlace ==
  ASSUME Before, NEW s \in Messages
  PROVE  IF s \in expected_seq .. fetched
           THEN \E h \in Holders(s) : Holders(s) = {h}
           ELSE Holders(s) = {}
<1> DEFINE inFetcher == fetcher = "putting" /\ s = fetched
           inFetchQ  == \E i \in DOMAIN fetch_q : fetch_q[i] = s
           inWorker  == \E w \in Workers : item[w] = s
           inWriteQ  == \E i \in DOMAIN write_q : write_q[i] = s
           inBuffer  == s \in buffer
           inWriter  == writer = "writing" /\ s = expected_seq
<1>1. /\ DOMAIN fetch_q = 1 .. Len(fetch_q) /\ DOMAIN write_q = 1 .. Len(write_q)
      /\ s \in Int /\ s # Sentinel /\ fetched \in Int /\ expected_seq \in Int
      /\ Len(fetch_q) \in Nat
  BY DEF Before, TypeOK, Messages, Sentinel
<1>2. inFetcher => s > Queued /\ s = fetched
  BY <1>1 DEF Queued
<1>3. /\ Queued <= fetched /\ Queued \in Int /\ Taken <= fetched
      /\ main \in Early => Taken = Queued - Len(fetch_q)
      /\ main \notin Early => Taken = fetched /\ Queued = fetched
  BY <1>1 DEF Before, Live, Phases, Queued, Taken, Early
<1>4. inFetchQ <=> s \in Taken + 1 .. Queued
  <2>1. CASE main \in Early
    <3>1. \A i \in 1 .. Len(fetch_q) : fetch_q[i] = Taken + i
      BY <2>1 DEF Before, Live, FetchOrder
    <3>2. ASSUME s \in Taken + 1 .. Queued PROVE inFetchQ
      <4> s - Taken \in 1 .. Len(fetch_q)
        BY <1>1, <1>3, <2>1, <3>2, Bounds
      <4> fetch_q[s - Taken] = s
        BY <1>1, <3>1, Bounds
      <4> QED
        BY <1>1
    <3>3. ASSUME inFetchQ PROVE s \in Taken + 1 .. Queued
      BY <1>1, <1>3, <2>1, <3>1, <3>3, Bounds
    <3> QED
      BY <3>2, <3>3
  <2>2. CASE main \notin Early
    BY <1>1, <1>3, <2>2, Bounds DEF Before, Live, FetchOrder
  <2> QED
    BY <2>1, <2>2
<1>5. \A i, j \in DOMAIN fetch_q : fetch_q[i] = s /\ fetch_q[j] = s => i = j
  BY <1>1, Bounds DEF Before, Live, FetchOrder
<1>6. inWorker \/ inWriteQ \/ inBuffer <=> s \in Low .. Taken
  BY <1>1 DEF Before, Live, Apart, Covered
<1>7. /\ ~(inWorker /\ inWriteQ) /\ ~(inWorker /\ inBuffer)
      /\ ~(inWriteQ /\ inBuffer)
  BY <1>1 DEF Before, Live, Apart
<1>8. /\ \A v, w \in Workers : item[v] = s /\ item[w] = s => v = w
      /\ \A i, j \in DOMAIN write_q : write_q[i] = s /\ write_q[j] = s => i = j
  BY <1>1 DEF Before, Live, Apart
<1>9. /\ inWriter <=> writer = "writing" /\ s = Low - 1
      /\ expected_seq = IF writer = "writing" THEN Low - 1 ELSE Low
      /\ Low <= Taken + 1
  BY <1>1 DEF Before, Live, Covered, Low
<1>10. Holders(s) =
        (IF inFetcher THEN {<<"fetcher", s>>} ELSE {})
        \cup {<<"fetch_q", i>> : i \in {j \in DOMAIN fetch_q : fetch_q[j] = s}}
        \cup {<<"worker", w>> : w \in {v \in Workers : item[v] = s}}
        \cup {<<"write_q", i>> : i \in {j \in DOMAIN write_q : write_q[j] = s}}
        \cup (IF inBuffer THEN {<<"buffer", s>>} ELSE {})
        \cup (IF inWriter THEN {<<"writer", s>>} ELSE {})
  BY DEF Holders
<1>11. CASE inFetcher
  <2>1. ~inFetchQ /\ ~inWorker /\ ~inWriteQ /\ ~inBuffer /\ ~inWriter
    BY <1>1, <1>2, <1>3, <1>4, <1>6, <1>9, <1>11, Bounds, SMTT(30)
  <2>2. s \in expected_seq .. fetched
    BY <1>1, <1>2, <1>3, <1>9, <1>11, Bounds DEF Queued
  <2>3. Holders(s) = {<<"fetcher", s>>}
    BY <1>10, <1>11, <2>1
  <2> QED
    BY <2>2, <2>3
<1>12. CASE inFetchQ
  <2>1. ~inFetcher /\ ~inWorker /\ ~inWriteQ /\ ~inBuffer /\ ~inWriter
    BY <1>1, <1>2, <1>3, <1>4, <1>6, <1>9, <1>12, Bounds, SMTT(30)
  <2>2. s \in expected_seq .. fetched
    BY <1>1, <1>3, <1>4, <1>9, <1>12, Bounds, SMTT(30)
  <2>3. PICK i \in DOMAIN fetch_q : fetch_q[i] = s
    BY <1>12
  <2>4. {j \in DOMAIN fetch_q : fetch_q[j] = s} = {i}
    BY <1>5, <2>3
  <2>5. Holders(s) = {<<"fetch_q", i>>}
    BY <1>10, <2>1, <2>4
  <2> QED
    BY <2>2, <2>5
<1>13. CASE inWorker
  <2>1. ~inFetcher /\ ~inFetchQ /\ ~inWriteQ /\ ~inBuffer /\ ~inWriter
    BY <1>1, <1>2, <1>3, <1>4, <1>6, <1>7, <1>9, <1>13, Bounds, SMTT(30)
  <2>2. s \in expected_seq .. fetched
    BY <1>1, <1>3, <1>6, <1>9, <1>13, Bounds, SMTT(30)
  <2>3. PICK w \in Workers : item[w] = s
    BY <1>13
  <2>4. {v \in Workers : item[v] = s} = {w}
    BY <1>8, <2>3
  <2>5. Holders(s) = {<<"worker", w>>}
    BY <1>10, <2>1, <2>4
  <2> QED
    BY <2>2, <2>5
<1>14. CASE inWriteQ
  <2>1. ~inFetcher /\ ~inFetchQ /\ ~inWorker /\ ~inBuffer /\ ~inWriter
    BY <1>1, <1>2, <1>3, <1>4, <1>6, <1>7, <1>9, <1>14, Bounds, SMTT(30)
  <2>2. s \in expected_seq .. fetched
    BY <1>1, <1>3, <1>6, <1>9, <1>14, Bounds, SMTT(30)
  <2>3. PICK i \in DOMAIN write_q : write_q[i] = s
    BY <1>14
  <2>4. {j \in DOMAIN write_q : write_q[j] = s} = {i}
    BY <1>8, <2>3
  <2>5. Holders(s) = {<<"write_q", i>>}
    BY <1>10, <2>1, <2>4
  <2> QED
    BY <2>2, <2>5
<1>15. CASE inBuffer
  <2>1. ~inFetcher /\ ~inFetchQ /\ ~inWorker /\ ~inWriteQ /\ ~inWriter
    BY <1>1, <1>2, <1>3, <1>4, <1>6, <1>7, <1>9, <1>15, Bounds, SMTT(30)
  <2>2. s \in expected_seq .. fetched
    BY <1>1, <1>3, <1>6, <1>9, <1>15, Bounds, SMTT(30)
  <2>3. Holders(s) = {<<"buffer", s>>}
    BY <1>10, <1>15, <2>1
  <2> QED
    BY <2>2, <2>3
<1>16. CASE inWriter
  <2>1. ~inFetcher /\ ~inFetchQ /\ ~inWorker /\ ~inWriteQ /\ ~inBuffer
    BY <1>1, <1>2, <1>3, <1>4, <1>6, <1>9, <1>16, Bounds, SMTT(30)
  <2>2. s \in expected_seq .. fetched
    BY <1>1, <1>3, <1>9, <1>16, Bounds, SMTT(30)
  <2>3. Holders(s) = {<<"writer", s>>}
    BY <1>10, <1>16, <2>1
  <2> QED
    BY <2>2, <2>3
<1>17. CASE ~(inFetcher \/ inFetchQ \/ inWorker \/ inWriteQ \/ inBuffer \/ inWriter)
  <2>1. s \notin expected_seq .. fetched
    <3>1. s \notin Low .. Taken /\ s \notin Taken + 1 .. Queued
      BY <1>4, <1>6, <1>17
    <3>2. s \notin Queued + 1 .. fetched
      BY <1>1, <1>17 DEF Queued
    <3>3. s \notin expected_seq .. Low - 1
      BY <1>1, <1>9, <1>17, Bounds, SMTT(30)
    <3> QED
      BY <1>1, <1>3, <1>9, <3>1, <3>2, <3>3, Bounds, SMTT(30)
  <2>2. Holders(s) = {}
    BY <1>10, <1>17
  <2> QED
    BY <2>1, <2>2
<1> QED
  BY <1>11, <1>12, <1>13, <1>14, <1>15, <1>16, <1>17

\* Each numbered message is in exactly one place until it is settled.
THEOREM SinglePlace == Spec => []EachResultOnce
<1>1. IInv => EachResultOnce
  BY OnePlace DEF IInv, Before, EachResultOnce
<1> QED
  BY <1>1, Invariance, PTL

\* One step of the pipeline is one step of OrderedDelivery, or none.
LEMMA StepSimulation ==
  ASSUME IInv, IInv', [Next]_vars
  PROVE  [Ordered!Next]_(Ordered!vars)
<1> DEFINE status == IF main \in Ended THEN main ELSE "running"
<1> USE DEF Ordered!Next, Ordered!vars
<1>1. CASE UNCHANGED vars
  BY <1>1 DEF vars, fetchVars, writerVars, mainVars
<1>2. CASE main = "raised" /\ Next
  BY <1>1, <1>2, QuietStutters
<1>3. CASE main # "raised" /\ Next
  <2> Before
    BY <1>3 DEF Before, IInv
  <2>1. CASE FetchMessage
    <3>1. main = "fetching" /\ main' = main
      BY <2>1 DEF Before, Live, Phases, FetchMessage, mainVars
    <3>2. Ordered!Fetch
      BY <2>1, <3>1 DEF Ordered!Fetch, FetchMessage, writerVars, Ended
    <3> QED
      BY <3>2
  <2>2. CASE WriterFlush
    <3>1. /\ main \notin Ended /\ main' = main /\ fetched' = fetched
          /\ written' = written
      BY <2>2 DEF Before, Live, Phases, WriterFlush, Ended, mainVars, fetchVars
    <3>2. expected_seq \in Nat /\ expected_seq <= fetched
      BY <2>2, Bounds DEF Before, TypeOK, Live, Apart, Taken, Queued, WriterFlush
    <3>3. CASE expected_seq' = expected_seq
      BY <3>1, <3>3
    <3>4. CASE expected_seq' = expected_seq + 1
      BY <3>1, <3>2, <3>4 DEF Before, TypeOK, Ordered!Settle
    <3> QED
      BY <2>2, <3>3, <3>4 DEF WriterFlush
  <2>3. CASE WriterWrite
    <3>1. /\ main \notin Ended /\ main' = main /\ fetched' = fetched
          /\ expected_seq' = expected_seq + 1
          /\ written' \in {written, Append(written, expected_seq)}
      BY <2>3 DEF Before, Live, Phases, WriterWrite, Ended, mainVars, fetchVars
    <3>2. expected_seq \in Nat /\ expected_seq <= fetched
      BY <2>3, Bounds DEF Before, TypeOK, Live, Covered, Low, Taken, Queued, WriterWrite
    <3>3. Ordered!Settle
      BY <3>1, <3>2 DEF Before, TypeOK, Ordered!Settle
    <3> QED
      BY <3>3
  <2>4. CASE MainReturn
    <3>1. Ordered!Return
      BY <2>4 DEF MainReturn, Before, Live, Phases, TypeOK, Ordered!Return, Ended,
                  fetchVars, writerVars
    <3> QED
      BY <3>1
  <2>5. CASE MainFetchFailed \/ MainCancelled
    <3>1. Ordered!Raise
      BY <2>5 DEF MainFetchFailed, MainCancelled, CancelTasks, Ended, Ordered!Raise
    <3> QED
      BY <3>1
  <2>6. CASE \/ RequestShutdown \/ FetchPut \/ FetchStop
             \/ \E w \in Workers : Worker(w)
             \/ WriterGet \/ WriterWait
    <3>1. /\ fetched' = fetched /\ expected_seq' = expected_seq
          /\ written' = written /\ main' = main
      BY <2>6 DEF RequestShutdown, FetchPut, FetchStop, Worker, WorkerTop,
                  WorkerGet, WorkerProcess, WorkerPut, WriterGet, WriterWait,
                  fetchVars, writerVars, mainVars
    <3> QED
      BY <3>1
  <2>7. CASE \/ MainFetched \/ MainFetchJoined \/ MainStopWorker
             \/ MainWorkersTold \/ MainGathered \/ MainWriteJoined
    <3>1. /\ fetched' = fetched /\ expected_seq' = expected_seq
          /\ written' = written /\ main \notin Ended /\ main' \notin Ended
      BY <2>7 DEF MainFetched, MainFetchJoined, MainStopWorker, MainWorkersTold,
                  MainGathered, MainWriteJoined, Ended, fetchVars, writerVars
    <3> QED
      BY <3>1
  <2>8. CASE Done
    BY <1>1, <2>8 DEF Done
  <2> QED
    BY <1>3, <2>1, <2>2, <2>3, <2>4, <2>5, <2>6, <2>7, <2>8
       DEF Next, Fetcher, Writer, Main
<1> QED
  BY <1>1, <1>2, <1>3

\* The pipeline implements OrderedDelivery.
THEOREM Refinement == Spec => ImplementsOrderedDelivery
<1>1. Init => Ordered!Init
  BY DEF Init, Ordered!Init, Ended
<1> QED
  BY <1>1, StepSimulation, Invariance, PTL
     DEF Spec, ImplementsOrderedDelivery, Ordered!Spec
=============================================================================
