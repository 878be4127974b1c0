----------------------- MODULE AdaptiveTaskPoolProofs -----------------------
(***************************************************************************)
(* Proofs about the way of a file to the disk, for any numbers of callers, *)
(* tasks, workers and attempts and any sizes.                              *)
(*                                                                         *)
(* AdaptiveTaskPool: the type invariant, the counters, the capacity left   *)
(* by every resize, and that a lost place never comes back.                *)
(* MediaDownloadQueue (with MCTransfers): a download is in one place until *)
(* it is settled.                                                          *)
(* MediaDownloader: a download that completes has its whole file; one that *)
(* shares its file with another does not lose it; a complete file is not   *)
(* thrown away.                                                            *)
(***************************************************************************)
EXTENDS MCTransfers, FiniteSetTheorems, SequenceTheorems, SequenceLemmas

States == {"idle", "waiting", "woken", "running", "done", "failed"}

\* The calls counted by queued_tasks.
Queueing == Waiting \cup Woken

\* Who is in a semaphore's queue waits, for this semaphore, and once.
QueueOK ==
    \A s \in Semaphores :
        /\ \A i \in DOMAIN waiters[s] :
              call[waiters[s][i]] = "waiting" /\ place[waiters[s][i]] = s
        /\ \A i, j \in DOMAIN waiters[s] : waiters[s][i] = waiters[s][j] => i = j

\* Nobody is on a semaphore that does not exist yet.
NoneAhead == \A c \in Callers : place[c] <= semaphore

IInv == TypeOK /\ QueueOK /\ NoneAhead /\ CountersCover /\ CapacityLeft

-----------------------------------------------------------------------------

LEMMA Finite ==
  /\ \A S \in SUBSET Callers : IsFiniteSet(S) /\ Cardinality(S) \in Nat
  /\ Running \subseteq Callers /\ Queueing \subseteq Callers
  /\ \A s : HolderOf(s) \subseteq Callers
<1>1. \A S \in SUBSET Callers : IsFiniteSet(S) /\ Cardinality(S) \in Nat
  BY PoolAssumption, FS_Subset, FS_CardinalityType DEF PoolAssumption
<1> QED
  BY <1>1 DEF Running, Queueing, Waiting, Woken, HolderOf

\* One element more, one element less.
LEMMA AddOne ==
  ASSUME NEW S \in SUBSET Callers, NEW c \in Callers, c \notin S
  PROVE  Cardinality(S \cup {c}) = Cardinality(S) + 1
  BY Finite, FS_AddElement

LEMMA RemoveOne ==
  ASSUME NEW S \in SUBSET Callers, NEW c \in S
  PROVE  Cardinality(S \ {c}) = Cardinality(S) - 1
  BY Finite, FS_RemoveElement

LEMMA Numbers ==
  /\ Semaphores \subseteq Nat
  /\ MinSize \in Nat /\ MinSize >= 2 /\ MaxSize \in Nat /\ GrowBy \in Nat
  /\ GrowBy >= 1 /\ MinSize <= MaxSize /\ max_attempts \in Nat
  BY PoolAssumption DEF PoolAssumption, Semaphores

\* The hand-over of a semaphore: at most the first waiter changes its state,
\* and the free places account for it.
HandedOver(s, values, states) ==
    \/ value' = values /\ call' = states
    \/ \E h \in Callers :
          /\ call[h] = "waiting" /\ place[h] = s
          /\ values[s] > 0
          /\ value' = [values EXCEPT ![s] = @ - 1]
          /\ call' = [states EXCEPT ![h] = "woken"]

LEMMA WakeOne ==
  ASSUME TypeOK, QueueOK, NEW s \in Semaphores,
         NEW values \in [Semaphores -> Nat],
         NEW states \in [Callers -> States],
         \A d \in Callers : call[d] = "waiting" => states[d] = "waiting",
         place' = place,
         WakeNext(s, values, states)
  PROVE  /\ waiters' \in [Semaphores -> Seq(Callers)]
         /\ QueueOK'
         /\ HandedOver(s, values, states)
<1>1. waiters[s] \in Seq(Callers)
  BY DEF TypeOK
<1>2. CASE values[s] > 0 /\ waiters[s] # <<>>
  <2> DEFINE h == Head(waiters[s])
  <2>1. /\ h = waiters[s][1] /\ h \in Callers
        /\ Tail(waiters[s]) \in Seq(Callers)
        /\ Len(Tail(waiters[s])) = Len(waiters[s]) - 1
        /\ \A i \in 1 .. Len(Tail(waiters[s])) : Tail(waiters[s])[i] = waiters[s][i + 1]
        /\ Len(waiters[s]) \in Nat /\ Len(waiters[s]) > 0
    BY <1>1, <1>2, HeadTailProperties, EmptySeq
  <2>2. call[h] = "waiting" /\ place[h] = s
    BY <2>1, <1>1 DEF QueueOK
  <2>3. /\ value' = [values EXCEPT ![s] = @ - 1]
        /\ waiters' = [waiters EXCEPT ![s] = Tail(@)]
        /\ call' = [states EXCEPT ![h] = "woken"]
    BY <1>2 DEF WakeNext
  <2>4. /\ waiters' \in [Semaphores -> Seq(Callers)]
        /\ waiters'[s] = Tail(waiters[s])
        /\ \A t \in Semaphores : t # s => waiters'[t] = waiters[t]
        /\ DOMAIN waiters[s] = 1 .. Len(waiters[s])
        /\ DOMAIN Tail(waiters[s]) = 1 .. Len(Tail(waiters[s]))
    BY <1>1, <2>1, <2>3 DEF TypeOK
  <2>5. ASSUME NEW t \in Semaphores, NEW i \in DOMAIN waiters'[t]
        PROVE  call'[waiters'[t][i]] = "waiting" /\ place'[waiters'[t][i]] = t
    <3>1. CASE t = s
      <4>1. i \in 1 .. Len(Tail(waiters[s])) /\ waiters'[t][i] = waiters[s][i + 1]
            /\ i + 1 \in DOMAIN waiters[s] /\ i + 1 # 1 /\ 1 \in DOMAIN waiters[s]
        <5>1. waiters'[t] = Tail(waiters[s])
          BY <2>4, <3>1
        <5> QED
          BY <2>1, <2>4, <5>1
      <4>2. waiters[s][i + 1] # h /\ call[waiters[s][i + 1]] = "waiting"
            /\ place[waiters[s][i + 1]] = s /\ waiters[s][i + 1] \in Callers
        BY <2>1, <4>1, <1>1, <2>4 DEF QueueOK
      <4> QED
        BY <2>3, <3>1, <4>1, <4>2
    <3>2. CASE t # s
      <4>1. waiters'[t] = waiters[t] /\ i \in DOMAIN waiters[t]
        BY <2>4, <3>2
      <4>2. call[waiters[t][i]] = "waiting" /\ place[waiters[t][i]] = t
            /\ waiters[t][i] \in Callers
        BY <4>1 DEF QueueOK, TypeOK
      <4> QED
        BY <2>2, <2>3, <3>2, <4>1, <4>2
    <3> QED
      BY <3>1, <3>2
  <2>6. ASSUME NEW t \in Semaphores, NEW i \in DOMAIN waiters'[t],
               NEW j \in DOMAIN waiters'[t], waiters'[t][i] = waiters'[t][j]
        PROVE  i = j
    <3>1. CASE t = s
      <4>1. /\ i \in 1 .. Len(Tail(waiters[s])) /\ waiters'[t][i] = waiters[s][i + 1]
            /\ j \in 1 .. Len(Tail(waiters[s])) /\ waiters'[t][j] = waiters[s][j + 1]
            /\ i + 1 \in DOMAIN waiters[s] /\ j + 1 \in DOMAIN waiters[s]
        <5>1. waiters'[t] = Tail(waiters[s])
          BY <2>4, <3>1
        <5> QED
          BY <2>1, <2>4, <5>1
      <4>2. \A a, b \in DOMAIN waiters[s] : waiters[s][a] = waiters[s][b] => a = b
        BY DEF QueueOK
      <4>3. i + 1 = j + 1
        BY <2>6, <4>1, <4>2
      <4> QED
        BY <4>1, <4>3
    <3>2. CASE t # s
      BY <2>4, <2>6, <3>2 DEF QueueOK
    <3> QED
      BY <3>1, <3>2
  <2>7. QueueOK'
    BY <2>5, <2>6 DEF QueueOK
  <2> QED
    BY <1>2, <2>1, <2>2, <2>3, <2>4, <2>7 DEF HandedOver
<1>3. CASE ~(values[s] > 0 /\ waiters[s] # <<>>)
  <2>1. value' = values /\ call' = states
    BY <1>3 DEF WakeNext
  <2>2. waiters' = waiters
    BY <1>3 DEF WakeNext
  <2>3. QueueOK'
    <3>1. ASSUME NEW t \in Semaphores, NEW i \in DOMAIN waiters[t]
          PROVE  states[waiters[t][i]] = "waiting"
      <4>1. waiters[t][i] \in Callers
        BY DEF TypeOK
      <4>2. call[waiters[t][i]] = "waiting"
        BY DEF QueueOK
      <4> QED
        BY <4>1, <4>2
    <3> QED
      BY <2>1, <2>2, <3>1 DEF QueueOK
  <2> QED
    BY <2>1, <2>2, <2>3 DEF TypeOK, HandedOver
<1> QED
  BY <1>2, <1>3

-----------------------------------------------------------------------------
(* The steps                                                               *)

\* What a step that keeps the semaphore establishes.
Kept == IInv' /\ Capacity' = Capacity /\ max_workers' = max_workers

LEMMA InitIInv == Init => IInv
<1> SUFFICES ASSUME Init
             PROVE  IInv
  OBVIOUS
<1> USE DEF Init
<1>1. TypeOK
  BY PoolAssumption, EmptySeq DEF PoolAssumption, TypeOK, Semaphores
<1>2. QueueOK /\ NoneAhead
  BY DEF QueueOK, NoneAhead
<1>3. /\ Running = {} /\ Waiting \cup Woken = {} /\ HolderOf(0) = {}
  BY DEF Running, Waiting, Woken, HolderOf
<1>7. /\ Cardinality(Running) = 0 /\ Cardinality(Waiting \cup Woken) = 0
      /\ Cardinality(HolderOf(0)) = 0
  BY <1>3, FS_EmptySet
<1>4. CountersCover
  BY <1>7 DEF CountersCover
<1>5. value[0] = max_workers
  BY Numbers, PoolAssumption DEF Semaphores, PoolAssumption
<1>6. CapacityLeft
  BY <1>7, <1>5, PoolAssumption DEF CapacityLeft, Capacity, PoolAssumption
<1> QED
  BY <1>1, <1>2, <1>4, <1>6 DEF IInv

\* A call that enters at once takes a free place.
LEMMA SubmitAtOnce ==
  ASSUME IInv, NEW c \in Callers, Submit(c), ~Locked(semaphore)
  PROVE  Kept
<1> USE DEF IInv
<1>1. /\ value' = [value EXCEPT ![semaphore] = @ - 1]
      /\ call' = [call EXCEPT ![c] = "running"]
      /\ place' = [place EXCEPT ![c] = semaphore]
      /\ active_tasks' = active_tasks + 1
      /\ call[c] = "idle" /\ attempts[c] < max_attempts
      /\ attempts' = [attempts EXCEPT ![c] = @ + 1]
      /\ UNCHANGED <<waiters, queued_tasks, max_workers, semaphore>>
  BY DEF Submit
<1>2. value[semaphore] \in Nat /\ value[semaphore] # 0
  BY DEF Locked, TypeOK
<1>3. TypeOK'
  BY <1>1, <1>2, Numbers DEF TypeOK
<1>4. QueueOK' /\ NoneAhead'
  <2>1. \A s \in Semaphores : \A i \in DOMAIN waiters[s] :
           waiters[s][i] \in Callers /\ waiters[s][i] # c
    BY <1>1 DEF QueueOK, TypeOK
  <2>2. QueueOK'
    BY <1>1, <2>1 DEF QueueOK, TypeOK
  <2>3. NoneAhead'
    BY <1>1, Numbers DEF NoneAhead, TypeOK
  <2> QED
    BY <2>2, <2>3
<1>5. /\ Running' = Running \cup {c} /\ c \notin Running
      /\ Waiting' = Waiting /\ Woken' = Woken
      /\ HolderOf(semaphore)' = HolderOf(semaphore) \cup {c}
      /\ c \notin HolderOf(semaphore)
  BY <1>1 DEF Running, Waiting, Woken, HolderOf, TypeOK
<1>6. /\ Cardinality(Running') = Cardinality(Running) + 1
      /\ Cardinality(HolderOf(semaphore)') = Cardinality(HolderOf(semaphore)) + 1
  BY <1>5, Finite, AddOne
<1>7. CountersCover'
  BY <1>1, <1>5, <1>6 DEF CountersCover
<1>8. Capacity' = Capacity
  <2>1. value'[semaphore'] = value[semaphore] - 1
    BY <1>1 DEF TypeOK
  <2>2. Cardinality(HolderOf(semaphore)') = Cardinality(HolderOf(semaphore)) + 1
    BY <1>6
  <2>3. Cardinality(HolderOf(semaphore)) \in Nat
    BY Finite
  <2> QED
    BY <1>2, <2>1, <2>2, <2>3 DEF Capacity
<1> QED
  BY <1>1, <1>3, <1>4, <1>7, <1>8 DEF Kept, CapacityLeft

\* A call that has to wait joins the end of the queue.
LEMMA SubmitAndWait ==
  ASSUME IInv, NEW c \in Callers, Submit(c), Locked(semaphore)
  PROVE  Kept
<1> USE DEF IInv
<1>1. /\ waiters' = [waiters EXCEPT ![semaphore] = Append(@, c)]
      /\ call' = [call EXCEPT ![c] = "waiting"]
      /\ place' = [place EXCEPT ![c] = semaphore]
      /\ queued_tasks' = queued_tasks + 1
      /\ call[c] = "idle" /\ attempts[c] < max_attempts
      /\ attempts' = [attempts EXCEPT ![c] = @ + 1]
      /\ UNCHANGED <<value, active_tasks, max_workers, semaphore>>
  BY DEF Submit
<1> DEFINE q == waiters[semaphore]
<1>2. /\ q \in Seq(Callers) /\ Append(q, c) \in Seq(Callers)
      /\ DOMAIN Append(q, c) = 1 .. Len(q) + 1 /\ DOMAIN q = 1 .. Len(q)
      /\ Len(q) \in Nat
      /\ Append(q, c)[Len(q) + 1] = c
      /\ \A i \in DOMAIN q : Append(q, c)[i] = q[i]
  BY AppendProperties, SMTT(30) DEF TypeOK
<1>3. TypeOK'
  BY <1>1, <1>2, Numbers DEF TypeOK
<1>4. \A s \in Semaphores : \A i \in DOMAIN waiters[s] :
         waiters[s][i] \in Callers /\ waiters[s][i] # c
  BY <1>1 DEF QueueOK, TypeOK
<1>5. /\ waiters'[semaphore] = Append(q, c)
      /\ \A s \in Semaphores : s # semaphore => waiters'[s] = waiters[s]
      /\ \A d \in Callers : d # c => call'[d] = call[d] /\ place'[d] = place[d]
      /\ call'[c] = "waiting" /\ place'[c] = semaphore
  BY <1>1 DEF TypeOK
<1>6. QueueOK'
  <2>1. ASSUME NEW s \in Semaphores, s # semaphore
        PROVE  /\ \A i \in DOMAIN waiters'[s] :
                     call'[waiters'[s][i]] = "waiting" /\ place'[waiters'[s][i]] = s
               /\ \A i, j \in DOMAIN waiters'[s] : waiters'[s][i] = waiters'[s][j] => i = j
    BY <1>4, <1>5, <2>1 DEF QueueOK
  <2>2. \A i \in DOMAIN q : /\ call'[q[i]] = "waiting" /\ place'[q[i]] = semaphore
                            /\ q[i] # c
    BY <1>4, <1>5 DEF QueueOK, TypeOK
  <2>3. \A i \in 1 .. Len(q) + 1 :
           /\ call'[Append(q, c)[i]] = "waiting"
           /\ place'[Append(q, c)[i]] = semaphore
    BY <1>2, <1>5, <2>2
  <2>4. \A i, j \in 1 .. Len(q) + 1 : Append(q, c)[i] = Append(q, c)[j] => i = j
    <3>1. \A i, j \in DOMAIN q : q[i] = q[j] => i = j
      BY DEF QueueOK, TypeOK
    <3> QED
      BY <1>2, <2>2, <3>1
  <2>5. DOMAIN waiters'[semaphore] = 1 .. Len(q) + 1
    BY <1>2, <1>5
  <2>6. /\ \A i \in DOMAIN waiters'[semaphore] :
              /\ call'[waiters'[semaphore][i]] = "waiting"
              /\ place'[waiters'[semaphore][i]] = semaphore
        /\ \A i, j \in DOMAIN waiters'[semaphore] :
              waiters'[semaphore][i] = waiters'[semaphore][j] => i = j
    BY <1>5, <2>3, <2>4, <2>5
  <2> QED
    BY <2>1, <2>6 DEF QueueOK
<1>7. NoneAhead'
  BY <1>1, Numbers DEF NoneAhead, TypeOK
<1>8. /\ Running' = Running
      /\ Queueing' = Queueing \cup {c} /\ c \notin Queueing
      /\ HolderOf(semaphore)' = HolderOf(semaphore)
  BY <1>1 DEF Running, Queueing, Waiting, Woken, HolderOf, TypeOK
<1>9. Cardinality(Queueing') = Cardinality(Queueing) + 1
  BY <1>8, Finite, AddOne
<1>10. CountersCover'
  <2>1. Cardinality(Queueing) \in Nat /\ queued_tasks >= Cardinality(Queueing)
    BY Finite DEF CountersCover, Queueing
  <2>2. queued_tasks' >= Cardinality(Queueing')
    BY <1>1, <1>9, <2>1 DEF TypeOK
  <2> QED
    BY <1>1, <1>8, <2>2 DEF CountersCover, Queueing
<1>11. Capacity' = Capacity
  BY <1>1, <1>8 DEF Capacity
<1> QED
  BY <1>1, <1>3, <1>6, <1>7, <1>10, <1>11 DEF Kept, CapacityLeft

\* A call that holds a place gives it back: the place is free again or goes to
\* a waiter, and the capacity stays as it was.
LEMMA HandBack ==
  ASSUME IInv, NEW c \in Callers, call[c] \in {"woken", "running"},
         NEW outcome \in {"idle", "failed", "done"},
         UNCHANGED <<place, semaphore, max_workers>>,
         WakeNext(place[c], [value EXCEPT ![place[c]] = @ + 1],
                  [call EXCEPT ![c] = outcome])
  PROVE  /\ value' \in [Semaphores -> Nat]
         /\ waiters' \in [Semaphores -> Seq(Callers)]
         /\ call' \in [Callers -> States]
         /\ QueueOK'
         /\ Running' = Running \ {c}
         /\ Queueing' = Queueing \ {c}
         /\ Capacity' = Capacity
<1> USE DEF IInv
<1> DEFINE s == place[c]
           states == [call EXCEPT ![c] = outcome]
           values == [value EXCEPT ![s] = @ + 1]
           H == HolderOf(semaphore)
<1>1. /\ s \in Semaphores /\ semaphore \in Semaphores
      /\ states \in [Callers -> States]
      /\ values \in [Semaphores -> Nat]
      /\ \A d \in Callers : call[d] = "waiting" => states[d] = "waiting"
  BY DEF TypeOK, States
<1>2. waiters' \in [Semaphores -> Seq(Callers)] /\ QueueOK' /\ HandedOver(s, values, states)
  <2>1. TypeOK /\ QueueOK /\ place' = place /\ WakeNext(s, values, states)
    OBVIOUS
  <2> HIDE DEF states, values, s
  <2> QED
    BY ONLY <1>1, <2>1, WakeOne
<1>3. H \subseteq Callers /\ Cardinality(H) \in Nat /\ value[semaphore] \in Nat
  BY Finite DEF TypeOK
<1>4. CASE value' = values /\ call' = states
  <2>1. value' \in [Semaphores -> Nat] /\ call' \in [Callers -> States]
    BY <1>1, <1>4
  <2>2. Running' = Running \ {c} /\ Queueing' = Queueing \ {c}
    BY <1>4 DEF Running, Queueing, Waiting, Woken, TypeOK
  <2>3. Capacity' = Capacity
    <3>1. CASE s = semaphore
      <4>1. H' = H \ {c} /\ c \in H
        BY <1>4, <3>1 DEF HolderOf, Running, Woken, TypeOK
      <4>2. Cardinality(H') = Cardinality(H) - 1
        BY <1>3, <4>1, RemoveOne
      <4>3. value'[semaphore'] = value[semaphore] + 1
        BY <1>1, <1>4, <3>1 DEF TypeOK
      <4> QED
        BY <1>3, <4>2, <4>3 DEF Capacity
    <3>2. CASE s # semaphore
      <4>1. H' = H
        BY <1>4, <3>2 DEF HolderOf, Running, Woken, TypeOK
      <4>2. value'[semaphore'] = value[semaphore]
        BY <1>1, <1>4, <3>2 DEF TypeOK
      <4> QED
        BY <4>1, <4>2 DEF Capacity
    <3> QED
      BY <3>1, <3>2
  <2> QED
    BY <1>2, <2>1, <2>2, <2>3
<1>5. ASSUME NEW h \in Callers, call[h] = "waiting", place[h] = s, values[s] > 0,
             value' = [values EXCEPT ![s] = @ - 1],
             call' = [states EXCEPT ![h] = "woken"]
      PROVE  /\ value' \in [Semaphores -> Nat]
             /\ call' \in [Callers -> States]
             /\ Running' = Running \ {c}
             /\ Queueing' = Queueing \ {c}
             /\ Capacity' = Capacity
  <2>1. value' \in [Semaphores -> Nat] /\ call' \in [Callers -> States] /\ h # c
    BY <1>1, <1>5 DEF States
  <2>2. Running' = Running \ {c} /\ Queueing' = Queueing \ {c}
    BY <1>5, <2>1 DEF Running, Queueing, Waiting, Woken, TypeOK
  <2>3. value' = value
    BY <1>1, <1>5 DEF TypeOK
  <2>4. Capacity' = Capacity
    <3>1. CASE s = semaphore
      <4>1. /\ H' = (H \ {c}) \cup {h} /\ c \in H /\ h \notin H \ {c}
        BY <1>5, <2>1, <3>1 DEF HolderOf, Running, Woken, TypeOK
      <4>2. Cardinality(H') = Cardinality(H)
        <5>1. Cardinality(H \ {c}) = Cardinality(H) - 1
          BY <1>3, <4>1, RemoveOne
        <5>2. Cardinality((H \ {c}) \cup {h}) = Cardinality(H \ {c}) + 1
          BY <1>3, <4>1, AddOne
        <5> QED
          BY <1>3, <4>1, <5>1, <5>2
      <4> QED
        BY <2>3, <4>2 DEF Capacity
    <3>2. CASE s # semaphore
      <4>1. H' = H
        BY <1>5, <2>1, <3>2 DEF HolderOf, Running, Woken, TypeOK
      <4> QED
        BY <2>3, <4>1 DEF Capacity
    <3> QED
      BY <3>1, <3>2
  <2> QED
    BY <2>1, <2>2, <2>4
<1> QED
  BY <1>2, <1>4, <1>5 DEF HandedOver

\* A woken call begins to run, and may wake the next one.
LEMMA EnterStep ==
  ASSUME IInv, NEW c \in Callers, Enter(c)
  PROVE  Kept
<1> USE DEF IInv
<1> DEFINE s == place[c]
           states == [call EXCEPT ![c] = "running"]
           H == HolderOf(semaphore)
<1>1. /\ WakeNext(s, value, states) /\ place' = place /\ call[c] = "woken"
      /\ queued_tasks' = queued_tasks - 1 /\ active_tasks' = active_tasks + 1
      /\ UNCHANGED <<max_workers, semaphore, attempts>>
  BY DEF Enter
<1>2. /\ s \in Semaphores /\ semaphore \in Semaphores
      /\ states \in [Callers -> States]
      /\ value \in [Semaphores -> Nat]
      /\ \A d \in Callers : call[d] = "waiting" => states[d] = "waiting"
  BY <1>1 DEF TypeOK, States
<1>3. waiters' \in [Semaphores -> Seq(Callers)] /\ QueueOK' /\ HandedOver(s, value, states)
  <2> HIDE DEF states, s
  <2> QED
    BY <1>1, <1>2, WakeOne
<1>4. H \subseteq Callers /\ Cardinality(H) \in Nat /\ value[semaphore] \in Nat
  BY Finite DEF TypeOK
<1>5. ASSUME value' = value, call' = states
      PROVE  /\ value' \in [Semaphores -> Nat]
             /\ call' \in [Callers -> States]
             /\ Running' = Running \cup {c}
             /\ Queueing' = Queueing \ {c}
             /\ Capacity' = Capacity
  <2>1. /\ Running' = Running \cup {c} /\ Queueing' = Queueing \ {c} /\ H' = H
    BY <1>1, <1>5 DEF Running, Queueing, Waiting, Woken, HolderOf, TypeOK
  <2>2. call' \in [Callers -> States] /\ value' \in [Semaphores -> Nat]
    BY <1>2, <1>5
  <2>3. Capacity' = Capacity
    BY <1>1, <1>5, <2>1 DEF Capacity
  <2> QED
    BY <2>1, <2>2, <2>3
<1>6. ASSUME NEW h \in Callers, call[h] = "waiting", place[h] = s, value[s] > 0,
             value' = [value EXCEPT ![s] = @ - 1],
             call' = [states EXCEPT ![h] = "woken"]
      PROVE  /\ value' \in [Semaphores -> Nat]
             /\ call' \in [Callers -> States]
             /\ Running' = Running \cup {c}
             /\ Queueing' = Queueing \ {c}
             /\ Capacity' = Capacity
  <2>1. value' \in [Semaphores -> Nat] /\ call' \in [Callers -> States] /\ h # c
    BY <1>1, <1>2, <1>6 DEF States
  <2>2. Running' = Running \cup {c} /\ Queueing' = Queueing \ {c}
    BY <1>1, <1>6, <2>1 DEF Running, Queueing, Waiting, Woken, TypeOK
  <2>3. Capacity' = Capacity
    <3>1. CASE s = semaphore
      <4>1. H' = H \cup {h} /\ h \notin H
        BY <1>1, <1>6, <2>1, <3>1 DEF HolderOf, Running, Woken, TypeOK
      <4>2. Cardinality(H') = Cardinality(H) + 1
        BY <1>4, <4>1, AddOne
      <4>3. value'[semaphore'] = value[semaphore] - 1
        BY <1>1, <1>6, <3>1 DEF TypeOK
      <4> QED
        BY <1>4, <4>2, <4>3 DEF Capacity
    <3>2. CASE s # semaphore
      <4>1. H' = H /\ value'[semaphore'] = value[semaphore]
        BY <1>1, <1>6, <2>1, <3>2 DEF HolderOf, Running, Woken, TypeOK
      <4> QED
        BY <4>1 DEF Capacity
    <3> QED
      BY <3>1, <3>2
  <2> QED
    BY <2>1, <2>2, <2>3
<1>7. /\ value' \in [Semaphores -> Nat]
      /\ call' \in [Callers -> States]
      /\ Running' = Running \cup {c}
      /\ Queueing' = Queueing \ {c}
      /\ Capacity' = Capacity
  BY <1>3, <1>5, <1>6 DEF HandedOver
<1>8. c \in Queueing /\ c \notin Running
  BY <1>1 DEF Queueing, Woken, Running
<1>9. /\ Cardinality(Running') = Cardinality(Running) + 1
      /\ Cardinality(Queueing') = Cardinality(Queueing) - 1
      /\ Cardinality(Queueing) \in Nat /\ Cardinality(Queueing) > 0
  <2>1. Cardinality(Queueing \ {c}) = Cardinality(Queueing) - 1
    BY <1>8, Finite, RemoveOne
  <2>2. Cardinality(Running \cup {c}) = Cardinality(Running) + 1
    BY <1>8, Finite, AddOne
  <2>3. Cardinality(Queueing \ {c}) \in Nat /\ Cardinality(Queueing) \in Nat
    BY Finite
  <2> QED
    BY <1>7, <2>1, <2>2, <2>3
<1>10. CountersCover' /\ queued_tasks' \in Nat /\ active_tasks' \in Nat
  BY <1>1, <1>9 DEF CountersCover, Queueing, TypeOK
<1>11. TypeOK'
  BY <1>1, <1>3, <1>7, <1>10 DEF TypeOK, States
<1>12. NoneAhead'
  BY <1>1 DEF NoneAhead
<1> QED
  BY <1>1, <1>3, <1>7, <1>10, <1>11, <1>12 DEF Kept, CapacityLeft

\* A task that ends without a resize, whatever its outcome.
LEMMA ReleaseStep ==
  ASSUME IInv, NEW c \in Callers, call[c] = "running",
         NEW outcome \in {"idle", "failed", "done"}, Release(c, outcome),
         UNCHANGED <<max_workers, semaphore>>
  PROVE  Kept
<1> USE DEF IInv
<1>1. /\ WakeNext(place[c], [value EXCEPT ![place[c]] = @ + 1],
                  [call EXCEPT ![c] = outcome])
      /\ active_tasks' = active_tasks - 1
      /\ UNCHANGED <<place, attempts, queued_tasks>>
  BY DEF Release
<1>2. /\ value' \in [Semaphores -> Nat]
      /\ waiters' \in [Semaphores -> Seq(Callers)]
      /\ call' \in [Callers -> States]
      /\ QueueOK'
      /\ Running' = Running \ {c}
      /\ Queueing' = Queueing \ {c}
      /\ Capacity' = Capacity
  BY <1>1, HandBack
<1>3. c \in Running /\ c \notin Queueing /\ Queueing' = Queueing
  BY <1>2 DEF Running, Queueing, Waiting, Woken
<1>4. /\ Cardinality(Running') = Cardinality(Running) - 1
      /\ Cardinality(Running') \in Nat /\ Cardinality(Running) \in Nat
  BY <1>2, <1>3, Finite, RemoveOne
<1>5. CountersCover' /\ active_tasks' \in Nat
  BY <1>1, <1>3, <1>4 DEF CountersCover, Queueing, TypeOK
<1>6. TypeOK'
  BY <1>1, <1>2, <1>5 DEF TypeOK, States
<1>7. NoneAhead'
  BY <1>1 DEF NoneAhead
<1> QED
  BY <1>2, <1>5, <1>6, <1>7 DEF Kept, CapacityLeft

\* A handed-over place that its owner never uses.
LEMMA TimeoutWokenStep ==
  ASSUME IInv, NEW c \in Callers, TimeoutWoken(c)
  PROVE  Kept
<1> USE DEF IInv
<1>1. /\ call[c] = "woken" /\ AfterFailure(c) \in {"idle", "failed", "done"}
      /\ WakeNext(place[c], [value EXCEPT ![place[c]] = @ + 1],
                  [call EXCEPT ![c] = AfterFailure(c)])
      /\ UNCHANGED <<max_workers, semaphore, place, attempts, queued_tasks,
                     active_tasks>>
  BY DEF TimeoutWoken, AfterFailure
<1>2. /\ value' \in [Semaphores -> Nat]
      /\ waiters' \in [Semaphores -> Seq(Callers)]
      /\ call' \in [Callers -> States]
      /\ QueueOK'
      /\ Running' = Running \ {c}
      /\ Queueing' = Queueing \ {c}
      /\ Capacity' = Capacity
  BY <1>1, HandBack
<1>3. c \in Queueing /\ c \notin Running /\ Running' = Running
  BY <1>1, <1>2 DEF Running, Queueing, Waiting, Woken
<1>4. /\ Cardinality(Queueing') = Cardinality(Queueing) - 1
      /\ Cardinality(Queueing) \in Nat
  BY <1>2, <1>3, Finite, RemoveOne
<1>5. CountersCover'
  BY <1>1, <1>3, <1>4 DEF CountersCover, Queueing, TypeOK
<1>6. TypeOK'
  BY <1>1, <1>2 DEF TypeOK, States
<1>7. NoneAhead'
  BY <1>1 DEF NoneAhead
<1> QED
  BY <1>1, <1>2, <1>5, <1>6, <1>7 DEF Kept, CapacityLeft

\* The timeout of a call that still waits.
LEMMA TimeoutWaitingStep ==
  ASSUME IInv, NEW c \in Callers, TimeoutWaiting(c)
  PROVE  Kept
<1> USE DEF IInv
<1> DEFINE s == place[c]
           q == waiters[s]
<1>1. PICK i \in DOMAIN q : q[i] = c /\ waiters' = [waiters EXCEPT ![s] = RemoveAt(@, i)]
  BY DEF TimeoutWaiting
<1>2. /\ call[c] = "waiting" /\ call' = [call EXCEPT ![c] = AfterFailure(c)]
      /\ AfterFailure(c) \in {"idle", "failed"}
      /\ UNCHANGED <<max_workers, semaphore, value, place, attempts,
                     queued_tasks, active_tasks>>
  BY DEF TimeoutWaiting, AfterFailure
<1>3. s \in Semaphores /\ q \in Seq(Callers) /\ DOMAIN q = 1 .. Len(q) /\ Len(q) \in Nat
  BY DEF TypeOK
<1> DEFINE r == RemoveAt(q, i)
           Old(j) == IF j < i THEN j ELSE j + 1
<1>4. /\ r \in Seq(Callers)
      /\ Len(r) = Len(q) - 1
      /\ \A j \in 1 .. Len(r) : r[j] = q[Old(j)] /\ Old(j) \in DOMAIN q /\ Old(j) # i
  <2> DEFINE a == SubSeq(q, 1, i - 1)
             b == SubSeq(q, i + 1, Len(q))
  <2>1. /\ a \in Seq(Callers) /\ Len(a) = i - 1
        /\ \A j \in 1 .. i - 1 : a[j] = q[j]
    BY <1>3, SubSeqProperties
  <2>2. /\ b \in Seq(Callers) /\ Len(b) = Len(q) - i
        /\ \A j \in 1 .. Len(q) - i : b[j] = q[i + j]
    BY <1>3, SubSeqProperties
  <2>3. r = a \o b
    BY DEF RemoveAt
  <2>4. /\ a \o b \in Seq(Callers) /\ Len(a \o b) = Len(a) + Len(b)
        /\ \A j \in 1 .. Len(a) + Len(b) :
              (a \o b)[j] = IF j <= Len(a) THEN a[j] ELSE b[j - Len(a)]
    <3> HIDE DEF a, b
    <3> QED
      BY <2>1, <2>2, ConcatProperties
  <2> HIDE DEF a, b, r
  <2>5. ASSUME NEW j \in 1 .. Len(q) - 1
        PROVE  (a \o b)[j] = q[Old(j)] /\ Old(j) \in 1 .. Len(q) /\ Old(j) # i
    <3>1. CASE j < i
      <4>1. j \in 1 .. i - 1 /\ j \in 1 .. Len(a) + Len(b) /\ j <= Len(a)
        BY <1>3, <2>1, <2>2, <3>1
      <4>2. (a \o b)[j] = a[j] /\ a[j] = q[j]
        BY <2>1, <2>4, <4>1
      <4> QED
        BY <1>3, <3>1, <4>1, <4>2
    <3>2. CASE ~(j < i)
      <4>1. /\ i \in 1 .. Len(q) /\ Len(q) \in Nat /\ j \in Nat /\ ~(j <= Len(a))
            /\ j \in 1 .. Len(a) + Len(b) /\ j - Len(a) \in 1 .. Len(q) - i
            /\ i + (j - Len(a)) = j + 1
        BY <1>3, <2>1, <2>2, <3>2
      <4>2. (a \o b)[j] = b[j - Len(a)]
        BY <2>4, <4>1
      <4>3. b[j - Len(a)] = q[j + 1]
        BY <2>2, <4>1
      <4>4. Old(j) = j + 1 /\ j + 1 \in 1 .. Len(q) /\ j + 1 # i
        BY <3>2, <4>1
      <4> QED
        BY <4>2, <4>3, <4>4
    <3> QED
      BY <3>1, <3>2
  <2>6. Len(r) = Len(q) - 1
    BY <1>3, <2>1, <2>2, <2>3, <2>4
  <2>7. \A j \in 1 .. Len(q) - 1 : r[j] = q[Old(j)] /\ Old(j) \in 1 .. Len(q) /\ Old(j) # i
    BY <2>3, <2>5
  <2> QED
    BY <1>3, <2>3, <2>4, <2>6, <2>7
<1> HIDE DEF r
<1>5. /\ waiters'[s] = r /\ waiters' \in [Semaphores -> Seq(Callers)]
      /\ \A t \in Semaphores : t # s => waiters'[t] = waiters[t]
      /\ DOMAIN r = 1 .. Len(r)
  BY <1>1, <1>3, <1>4 DEF r, TypeOK
<1>6. \A t \in Semaphores : \A j \in DOMAIN waiters[t] :
         /\ waiters[t][j] \in Callers /\ call[waiters[t][j]] = "waiting"
         /\ place[waiters[t][j]] = t
  BY DEF QueueOK, TypeOK
<1>13. \A d \in Callers : d # c => call'[d] = call[d] /\ place'[d] = place[d]
  BY <1>2 DEF TypeOK
<1>7. QueueOK'
  <2>1. ASSUME NEW t \in Semaphores, t # s
        PROVE  /\ \A j \in DOMAIN waiters'[t] :
                     call'[waiters'[t][j]] = "waiting" /\ place'[waiters'[t][j]] = t
               /\ \A j, k \in DOMAIN waiters'[t] : waiters'[t][j] = waiters'[t][k] => j = k
    <3>1. \A j \in DOMAIN waiters[t] : waiters[t][j] # c
      BY <1>6, <2>1
    <3> QED
      BY <1>13, <1>5, <1>6, <2>1, <3>1 DEF QueueOK
  <2>2. \A j \in DOMAIN q : j # i => q[j] # c
    BY <1>1, <1>3 DEF QueueOK
  <2>3. \A j \in 1 .. Len(r) : call'[r[j]] = "waiting" /\ place'[r[j]] = s
    <3>1. ASSUME NEW j \in 1 .. Len(r)
          PROVE  call'[r[j]] = "waiting" /\ place'[r[j]] = s
      <4>1. r[j] = q[Old(j)] /\ Old(j) \in DOMAIN q /\ Old(j) # i
        BY <1>4
      <4>2. r[j] \in Callers /\ r[j] # c /\ call[r[j]] = "waiting" /\ place[r[j]] = s
        BY <1>3, <1>6, <2>2, <4>1
      <4> QED
        BY <1>13, <4>2
    <3> QED
      BY <3>1
  <2>4. \A j, k \in 1 .. Len(r) : r[j] = r[k] => j = k
    <3>1. \A j, k \in DOMAIN q : q[j] = q[k] => j = k
      BY <1>3 DEF QueueOK
    <3>2. ASSUME NEW j \in 1 .. Len(r), NEW k \in 1 .. Len(r), r[j] = r[k]
          PROVE  j = k
      <4>1. Old(j) = Old(k)
        BY <1>4, <3>1, <3>2
      <4>2. i \in Nat /\ j \in Nat /\ k \in Nat
        BY <1>3, <1>4
      <4> QED
        BY <4>1, <4>2
    <3> QED
      BY <3>2
  <2>5. /\ \A j \in DOMAIN waiters'[s] :
              call'[waiters'[s][j]] = "waiting" /\ place'[waiters'[s][j]] = s
        /\ \A j, k \in DOMAIN waiters'[s] : waiters'[s][j] = waiters'[s][k] => j = k
    BY <1>5, <2>3, <2>4
  <2> QED
    BY <2>1, <2>5 DEF QueueOK
<1>8. /\ Running' = Running /\ HolderOf(semaphore)' = HolderOf(semaphore)
      /\ Queueing' = Queueing \ {c} /\ c \in Queueing
  BY <1>2 DEF Running, Queueing, Waiting, Woken, HolderOf, TypeOK
<1>9. /\ Cardinality(Queueing') = Cardinality(Queueing) - 1
      /\ Cardinality(Queueing) \in Nat
  BY <1>8, Finite, RemoveOne
<1>10. CountersCover'
  BY <1>2, <1>8, <1>9 DEF CountersCover, Queueing, TypeOK
<1>11. TypeOK'
  BY <1>2, <1>5 DEF TypeOK
<1>12. NoneAhead' /\ Capacity' = Capacity
  BY <1>2, <1>8 DEF NoneAhead, Capacity
<1> QED
  BY <1>2, <1>7, <1>10, <1>11, <1>12 DEF Kept, CapacityLeft

\* The arithmetic of a resize: at least one place is left, and no more places
\* are announced than before over those there really are.
LEMMA NewSizeBounds ==
  ASSUME IInv, NEW n \in NewSizes
  PROVE  /\ n \in 1 .. MaxSize
         /\ PlacesAfter(n) \in Nat
         /\ PlacesAfter(n) >= 1 /\ PlacesAfter(n) <= n
         /\ n - PlacesAfter(n) >= max_workers - Capacity
<1> DEFINE v == value[semaphore]
<1>1. /\ v \in Nat /\ max_workers \in 1 .. MaxSize
      /\ active_tasks \in Nat /\ queued_tasks \in Nat
  BY DEF IInv, TypeOK
<1>2. Cardinality(HolderOf(semaphore)) \in Nat
  BY Finite
<1>3. Capacity \in Nat /\ v <= Capacity /\ v <= max_workers
  BY <1>1, <1>2 DEF IInv, CapacityLeft, Capacity
<1>4. CASE Overloaded /\ n = Smaller(max_workers + GrowBy, MaxSize)
  <2>1. n \in 1 .. MaxSize /\ n >= max_workers + 1
    BY <1>1, <1>4, Numbers DEF Smaller, Overloaded
  <2>2. PlacesAfter(n) = n - (max_workers - v)
    BY <1>1, <1>3, <2>1 DEF PlacesAfter, Smaller
  <2> QED
    BY <1>1, <1>3, <2>1, <2>2, Numbers
<1>5. CASE Underused /\ n = Larger(max_workers - 1, MinSize)
  <2>1. active_tasks >= 1 /\ v >= 3
    BY <1>1, <1>5 DEF Underused, Total
  <2>2. n = max_workers - 1 /\ n \in 1 .. MaxSize
    BY <1>1, <1>5, Numbers DEF Larger, Underused
  <2>3. PlacesAfter(n) = v - 1
    BY <1>1, <1>3, <2>1, <2>2, Numbers DEF PlacesAfter, Smaller
  <2> QED
    BY <1>1, <1>3, <2>1, <2>2, <2>3, Numbers
<1> QED
  BY <1>4, <1>5 DEF NewSizes

LEMMA ResizeStep ==
  ASSUME IInv, NEW c \in Callers, NEW n \in NewSizes, SucceedAndResize(c, n)
  PROVE  IInv' /\ max_workers' - Capacity' >= max_workers - Capacity
<1> USE DEF IInv
<1> DEFINE new == semaphore + 1
           s == place[c]
           values == [value EXCEPT ![new] = PlacesAfter(n), ![s] = @ + 1]
           states == [call EXCEPT ![c] = "done"]
<1>1. /\ call[c] = "running" /\ new \in Semaphores
      /\ max_workers' = n /\ semaphore' = new
      /\ WakeNext(s, values, states)
      /\ active_tasks' = active_tasks - 1
      /\ UNCHANGED <<place, attempts, queued_tasks>>
  BY DEF SucceedAndResize
<1>2. /\ semaphore \in Nat /\ s \in Semaphores /\ s <= semaphore
      /\ new # s
  BY Numbers DEF NoneAhead, TypeOK
<1>3. /\ values \in [Semaphores -> Nat] /\ values[new] = PlacesAfter(n)
      /\ states \in [Callers -> States]
      /\ \A d \in Callers : call[d] = "waiting" => states[d] = "waiting"
  <2>1. PlacesAfter(n) \in Nat /\ value \in [Semaphores -> Nat]
    BY NewSizeBounds DEF TypeOK
  <2>2. values \in [Semaphores -> Nat] /\ values[new] = PlacesAfter(n)
    BY <1>1, <1>2, <2>1
  <2>3. states \in [Callers -> States]
    BY DEF TypeOK, States
  <2>4. \A d \in Callers : call[d] = "waiting" => states[d] = "waiting"
    BY <1>1 DEF TypeOK
  <2> QED
    BY <2>2, <2>3, <2>4
<1>4. waiters' \in [Semaphores -> Seq(Callers)] /\ QueueOK' /\ HandedOver(s, values, states)
  <2>1. TypeOK /\ QueueOK /\ place' = place
    BY <1>1
  <2> HIDE DEF states, values, s
  <2> QED
    BY ONLY <1>1, <1>2, <1>3, <2>1, WakeOne
<1>5. /\ value' \in [Semaphores -> Nat] /\ value'[new] = PlacesAfter(n)
      /\ call' \in [Callers -> States]
      /\ Running' = Running \ {c} /\ Queueing' = Queueing
  <2>1. CASE value' = values /\ call' = states
    <3>1. Running' = Running \ {c} /\ Queueing' = Queueing
      BY <1>1, <2>1 DEF Running, Queueing, Waiting, Woken, TypeOK
    <3> QED
      BY <1>3, <2>1, <3>1
  <2>2. ASSUME NEW h \in Callers, call[h] = "waiting", values[s] > 0,
               value' = [values EXCEPT ![s] = @ - 1],
               call' = [states EXCEPT ![h] = "woken"]
        PROVE  /\ value' \in [Semaphores -> Nat] /\ value'[new] = PlacesAfter(n)
               /\ call' \in [Callers -> States]
               /\ Running' = Running \ {c} /\ Queueing' = Queueing
    <3>1. Running' = Running \ {c} /\ Queueing' = Queueing
      BY <1>1, <2>2 DEF Running, Queueing, Waiting, Woken, TypeOK
    <3>2. call' \in [Callers -> States]
      BY <1>3, <2>2 DEF States
    <3> HIDE DEF values, new, s
    <3>3. value' \in [Semaphores -> Nat] /\ value'[new] = PlacesAfter(n)
      BY <1>1, <1>2, <1>3, <2>2
    <3> QED
      BY <3>1, <3>2, <3>3
  <2> QED
    BY <1>4, <2>1, <2>2 DEF HandedOver
<1>6. HolderOf(semaphore)' = {}
  <2>1. \A d \in Callers : place[d] # new
    BY <1>2, Numbers DEF NoneAhead, TypeOK
  <2> QED
    BY <1>1, <2>1 DEF HolderOf, Woken, Running
<1>7. Capacity' = PlacesAfter(n)
  <2>1. Cardinality({}) = 0
    BY FS_EmptySet
  <2> QED
    <3>1. Capacity' = value'[semaphore'] + Cardinality(HolderOf(semaphore)')
      BY DEF Capacity
    <3>2. Capacity' = value'[new] + Cardinality({})
      BY <1>1, <1>6, <3>1
    <3> QED
      BY <1>5, <2>1, <3>2, NewSizeBounds
<1>8. CapacityLeft' /\ max_workers' - Capacity' >= max_workers - Capacity
  BY <1>1, <1>7, NewSizeBounds DEF CapacityLeft
<1>9. /\ c \in Running
      /\ Cardinality(Running') = Cardinality(Running) - 1
      /\ Cardinality(Running') \in Nat /\ Cardinality(Running) \in Nat
  <2>1. c \in Running
    BY <1>1 DEF Running
  <2> QED
    BY <1>5, <2>1, Finite, RemoveOne
<1>10. CountersCover' /\ active_tasks' \in Nat
  BY <1>1, <1>5, <1>9 DEF CountersCover, Queueing, TypeOK
<1>11. TypeOK'
  <2>1. semaphore' \in Semaphores /\ max_workers' \in 1 .. MaxSize
    BY <1>1, NewSizeBounds
  <2>2. /\ place' \in [Callers -> Semaphores]
        /\ attempts' \in [Callers -> 0 .. max_attempts]
        /\ queued_tasks' \in Nat
    BY <1>1 DEF TypeOK
  <2> HIDE DEF IInv
  <2> QED
    BY <1>4, <1>5, <1>10, <2>1, <2>2 DEF TypeOK, States
<1>12. NoneAhead'
  <2>1. \A d \in Callers : place[d] \in Nat /\ place[d] <= semaphore
    BY Numbers DEF NoneAhead, TypeOK
  <2> QED
    BY <1>1, <1>2, <2>1 DEF NoneAhead
<1> QED
  BY <1>4, <1>8, <1>10, <1>11, <1>12

-----------------------------------------------------------------------------
(* The theorems                                                            *)

LEMMA StepIInv ==
  ASSUME IInv, [Next]_vars
  PROVE  IInv' /\ max_workers' - Capacity' >= max_workers - Capacity
<1>1. \A k, l : Kept /\ Capacity = k /\ max_workers = l
                  => IInv' /\ max_workers' - Capacity' = l - k
  BY DEF Kept
<1>2. Capacity \in Nat /\ max_workers \in Nat
  <2>1. Cardinality(HolderOf(semaphore)) \in Nat
    BY Finite
  <2> QED
    BY <2>1, Numbers DEF IInv, TypeOK, Capacity
<1>3. Kept => IInv' /\ max_workers' - Capacity' >= max_workers - Capacity
  BY <1>2 DEF Kept
<1>4. CASE UNCHANGED vars
  <2>1. IInv'
    BY <1>4 DEF vars, IInv, TypeOK, QueueOK, NoneAhead, CountersCover,
                CapacityLeft, Capacity, HolderOf, Running, Waiting, Woken
  <2>2. Capacity' = Capacity /\ max_workers' = max_workers
    BY <1>4 DEF vars, Capacity, HolderOf, Running, Woken
  <2> QED
    BY <1>2, <2>1, <2>2
<1>5. ASSUME NEW c \in Callers, Submit(c)
      PROVE  Kept
  BY <1>5, SubmitAtOnce, SubmitAndWait
<1>6. ASSUME NEW c \in Callers, Enter(c)
      PROVE  Kept
  BY <1>6, EnterStep
<1>7. ASSUME NEW c \in Callers, Fail(c) \/ Succeed(c)
      PROVE  Kept
  <2>1. AfterFailure(c) \in {"idle", "failed", "done"}
    BY DEF AfterFailure
  <2> QED
    BY <1>7, <2>1, ReleaseStep DEF Fail, Succeed
<1>8. ASSUME NEW c \in Callers, TimeoutWaiting(c) \/ TimeoutWoken(c)
      PROVE  Kept
  BY <1>8, TimeoutWaitingStep, TimeoutWokenStep
<1>9. ASSUME NEW c \in Callers, NEW n \in NewSizes, SucceedAndResize(c, n)
      PROVE  IInv' /\ max_workers' - Capacity' >= max_workers - Capacity
  BY <1>9, ResizeStep
<1> QED
  BY <1>3, <1>4, <1>5, <1>6, <1>7, <1>8, <1>9 DEF Next, Ends, Finished

\* Every reachable state of the pool has a consistent type, exact counters and
\* a current semaphore with at least one and at most max_workers places.
THEOREM PoolInvariant == Spec => [](TypeOK /\ CountersCover /\ CapacityLeft)
<1>1. Init => IInv
  BY InitIInv
<1>2. IInv /\ [Next]_vars => IInv'
  BY StepIInv
<1>3. IInv => TypeOK /\ CountersCover /\ CapacityLeft
  BY DEF IInv
<1> QED
  BY <1>1, <1>2, <1>3, PTL DEF Spec

\* The places lost by the resizes of _resize_pool are never found again.
THEOREM LostForGood == Spec => PlacesNeverComeBack
<1>1. Init => IInv
  BY InitIInv
<1>2. IInv /\ [Next]_vars => IInv'
  BY StepIInv
<1>3. IInv /\ [Next]_vars => [max_workers' - Capacity' >= max_workers - Capacity]_vars
  BY StepIInv
<1> QED
  BY <1>1, <1>2, <1>3, PTL DEF Spec, PlacesNeverComeBack

-----------------------------------------------------------------------------
(* The download queue (MediaDownloadQueue)                                  *)

Statuses == {"PENDING", "IN_PROGRESS", "COMPLETED", "FAILED", "CANCELLED"}
Requests == {"none", "putting", "returned", "abandoned"}
AtWork   == {"downloading", "cancelled", "retrying"}

QueueTypes ==
    /\ request \in [Tasks -> Requests] /\ status \in [Tasks -> Statuses]
    /\ queue \in Seq(Tasks)
    /\ worker \in [Workers -> AtWork \cup {"top", "getting", "ended"}]
    /\ job \in [Workers -> Tasks \cup {NoTask}]
    /\ \A w \in Workers : worker[w] \in AtWork <=> job[w] \in Tasks

\* The tasks in the queue are pending, each of them is in it once.
QueuedOK ==
    /\ Once(queue)
    /\ \A t \in ToSet(queue) : request[t] = "returned" /\ status[t] = "PENDING"

\* A worker has its task alone, while it works on it, holds it back for another
\* attempt or has not yet learned of its end.
JobOK(w) ==
    /\ job[w] \in Tasks =>
         /\ request[job[w]] = "returned" /\ job[w] \notin ToSet(queue)
         /\ \A v \in Workers : job[v] = job[w] => v = w
    /\ worker[w] = "downloading" => status[job[w]] = "IN_PROGRESS"
    /\ worker[w] = "retrying" => status[job[w]] = "PENDING"
    /\ worker[w] = "cancelled" => status[job[w]] = "CANCELLED"

\* A task that has come into the queue is in it, with a worker or settled.
TaskOK(t) ==
    /\ request[t] # "returned" => status[t] = "PENDING"
    /\ request[t] = "returned" /\ status[t] \in {"PENDING", "IN_PROGRESS"} =>
         t \in ToSet(queue) \/ \E w \in Workers : job[w] = t

Placed ==
    /\ QueuedOK
    /\ \A w \in Workers : JobOK(w)
    /\ \A t \in Tasks : TaskOK(t)

QueueInv == QueueTypes /\ (client # "stopped" => Placed)

LEMMA QueueStarts == Queue!Init => QueueInv
<1> SUFFICES ASSUME Queue!Init PROVE QueueInv
  OBVIOUS
<1> USE DEF Queue!Init
<1>1. QueueTypes
  BY TransfersAssumption DEF QueueTypes, Statuses, Requests, AtWork, Queue!DownloadAssumption
<1>2. QueuedOK
  BY NothingIn DEF QueuedOK
<1>3. ASSUME NEW w \in Workers PROVE JobOK(w)
  BY <1>3, TransfersAssumption DEF JobOK, AtWork, Queue!DownloadAssumption
<1>4. ASSUME NEW t \in Tasks PROVE TaskOK(t)
  BY <1>4 DEF TaskOK
<1> QED
  BY <1>1, <1>2, <1>3, <1>4 DEF QueueInv, Placed

\* Of a queue without repetition, and of workers that share no task, at most one
\* place or worker has a given task.
LEMMA OnePlace ==
  ASSUME QueueTypes, Placed, NEW t \in Tasks
  PROVE  /\ Cardinality({i \in DOMAIN queue : queue[i] = t})
              = IF t \in ToSet(queue) THEN 1 ELSE 0
         /\ Cardinality({w \in Workers : job[w] = t})
              = IF \E w \in Workers : job[w] = t THEN 1 ELSE 0
<1> DEFINE I == {i \in DOMAIN queue : queue[i] = t}
           J == {w \in Workers : job[w] = t}
<1>1. ASSUME t \in ToSet(queue) PROVE Cardinality(I) = 1
  <2>1. PICK i \in DOMAIN queue : queue[i] = t
    BY <1>1 DEF ToSet
  <2>2. I = {i}
    BY <2>1 DEF Placed, QueuedOK, Once
  <2> QED
    BY <2>2, FS_Singleton
<1>2. ASSUME t \notin ToSet(queue) PROVE Cardinality(I) = 0
  <2>1. I = {}
    BY <1>2 DEF ToSet
  <2> QED
    BY <2>1, FS_EmptySet
<1>3. ASSUME \E w \in Workers : job[w] = t PROVE Cardinality(J) = 1
  <2>1. PICK w \in Workers : job[w] = t
    BY <1>3
  <2>2. J = {w}
    BY <2>1 DEF Placed, JobOK
  <2> QED
    BY <2>2, FS_Singleton
<1>4. ASSUME ~\E w \in Workers : job[w] = t PROVE Cardinality(J) = 0
  <2>1. J = {}
    BY <1>4
  <2> QED
    BY <2>1, FS_EmptySet
<1> QED
  BY <1>1, <1>2, <1>3, <1>4

LEMMA SameCardinality == \A S : Queue!Cardinality(S) = Cardinality(S)
  BY DEF Queue!Cardinality, Cardinality

LEMMA QueueHolds == QueueInv => HeldOnce
<1> SUFFICES ASSUME QueueInv, client # "stopped" PROVE HeldOnce
  BY DEF HeldOnce, Queue!HeldOnce
<1>1. QueueTypes /\ Placed
  BY DEF QueueInv
<1>2. ASSUME NEW t \in Tasks
      PROVE  LET queued == t \in ToSet(queue)
                 held == \E w \in Workers : job[w] = t
                 learning == \E w \in Workers : job[w] = t /\ worker[w] = "cancelled"
             IN /\ request[t] \in Requests /\ status[t] \in Statuses
                /\ queued => request[t] = "returned" /\ status[t] = "PENDING" /\ ~held
                /\ held => request[t] = "returned"
                /\ held => (status[t] \in Queue!Settled <=> learning)
                /\ learning => held
                /\ request[t] # "returned" => status[t] = "PENDING"
                /\ request[t] = "returned" /\ status[t] \notin Queue!Settled => queued \/ held
  <2>1. request[t] \in Requests /\ status[t] \in Statuses /\ TaskOK(t)
    BY <1>1, <1>2 DEF QueueTypes, Placed
  <2>2. \A w \in Workers :
           JobOK(w) /\ (worker[w] \in AtWork <=> job[w] \in Tasks)
             /\ worker[w] \in AtWork \cup {"top", "getting", "ended"}
    BY <1>1 DEF QueueTypes, Placed
  <2>3. QueuedOK
    BY <1>1 DEF Placed
  <2> QED
    BY <1>2, <2>1, <2>2, <2>3
       DEF QueuedOK, JobOK, TaskOK, Queue!Settled, Statuses, AtWork
<1>3. ASSUME NEW t \in Tasks
      PROVE  LET places == Cardinality({i \in DOMAIN queue : queue[i] = t})
                           + Cardinality({w \in Workers : job[w] = t})
                           + (IF request[t] = "putting" THEN 1 ELSE 0)
                 learning == \E w \in Workers : job[w] = t /\ worker[w] = "cancelled"
             IN places = IF \/ request[t] \in {"none", "abandoned"}
                            \/ status[t] \in Queue!Settled /\ ~learning
                         THEN 0 ELSE 1
  <2> DEFINE q == Cardinality({i \in DOMAIN queue : queue[i] = t})
             j == Cardinality({w \in Workers : job[w] = t})
             held == \E w \in Workers : job[w] = t
             learning == \E w \in Workers : job[w] = t /\ worker[w] = "cancelled"
  <2>1. /\ q = IF t \in ToSet(queue) THEN 1 ELSE 0
        /\ j = IF held THEN 1 ELSE 0
    BY <1>1, <1>3, OnePlace
  <2>2. /\ request[t] \in Requests /\ status[t] \in Statuses
        /\ t \in ToSet(queue) => request[t] = "returned" /\ status[t] = "PENDING" /\ ~held
        /\ held => request[t] = "returned"
        /\ held => (status[t] \in Queue!Settled <=> learning)
        /\ learning => held
        /\ request[t] # "returned" => status[t] = "PENDING"
        /\ request[t] = "returned" /\ status[t] \notin Queue!Settled
             => t \in ToSet(queue) \/ held
    BY <1>2, <1>3
  <2>3. "PENDING" \notin Queue!Settled
    BY DEF Queue!Settled
  <2> HIDE DEF q, j, held, learning
  <2>4. q + j + (IF request[t] = "putting" THEN 1 ELSE 0)
          = IF \/ request[t] \in {"none", "abandoned"}
               \/ status[t] \in Queue!Settled /\ ~learning
            THEN 0 ELSE 1
    BY <2>1, <2>2, <2>3 DEF Requests
  <2> QED
    BY <2>4 DEF q, j, learning
<1> QED
  BY <1>3, SameCardinality DEF HeldOnce, Queue!HeldOnce

LEMMA QueueTypesStep == QueueTypes /\ [Queue!Next]_queueVars => QueueTypes'
<1> SUFFICES ASSUME QueueTypes, [Queue!Next]_queueVars PROVE QueueTypes'
  OBVIOUS
<1> USE DEF QueueTypes, Statuses, Requests, AtWork, Queue!taskVars, Queue!workerVars,
            Queue!pauseVars
<1>1. ASSUME NEW t \in Tasks,
             Queue!Enqueue(t) \/ Queue!EnqueuePut(t) \/ Queue!EnqueueCancelled(t)
      PROVE  QueueTypes'
  <2>1. queue' \in Seq(Tasks)
    BY <1>1 DEF Queue!Enqueue, Queue!EnqueuePut, Queue!EnqueueCancelled
  <2> QED
    BY <1>1, <2>1 DEF Queue!Enqueue, Queue!EnqueuePut, Queue!EnqueueCancelled
<1>2. ASSUME NEW w \in Workers, Queue!WorkerTop(w) \/ Queue!WorkerGetTimeout(w)
      PROVE  QueueTypes'
  BY <1>2 DEF Queue!WorkerTop, Queue!WorkerGetTimeout
<1>3. ASSUME NEW w \in Workers, Queue!WorkerGet(w) PROVE QueueTypes'
  <2>1. queue # <<>> /\ queue' = Tail(queue)
    BY <1>3 DEF Queue!WorkerGet
  <2>2. queue' \in Seq(Tasks) /\ Head(queue) \in Tasks
    BY <2>1
  <2> QED
    BY <1>3, <2>2 DEF Queue!WorkerGet
<1>4. ASSUME NEW w \in Workers, Queue!Complete(w) \/ Queue!TaskTimeout(w)
                \/ Queue!TelegramError(w) \/ Queue!Fail(w) \/ Queue!WorkerCancelled(w)
      PROVE  QueueTypes'
  BY <1>4, TransfersAssumption DEF Queue!DownloadAssumption, Queue!Complete, Queue!TaskTimeout, Queue!TelegramError, Queue!Fail,
              Queue!WorkerCancelled, Queue!Settle, Queue!Count
<1>5. ASSUME NEW w \in Workers, Queue!Requeue(w) PROVE QueueTypes'
  <2>1. job[w] \in Tasks
    BY <1>5 DEF Queue!Requeue
  <2>2. queue' \in Seq(Tasks)
    BY <1>5, <2>1 DEF Queue!Requeue
  <2> QED
    BY <1>5, <2>2, TransfersAssumption DEF Queue!Requeue, Queue!DownloadAssumption
<1>6. CASE Queue!Unpause \/ Queue!WaitStart \/ Queue!WaitIdle \/ Queue!StopStart
             \/ Queue!Done \/ UNCHANGED queueVars
  BY <1>6 DEF Queue!Unpause, Queue!WaitStart, Queue!WaitIdle, Queue!StopStart, Queue!Done,
              Queue!vars, queueVars
<1>7. CASE Queue!StopIdle
  BY <1>7, TransfersAssumption DEF Queue!DownloadAssumption, Queue!StopIdle
<1>8. CASE Queue!WaitTimeout
  BY <1>8 DEF Queue!WaitTimeout, Queue!Active
<1> QED
  BY <1>1, <1>2, <1>3, <1>4, <1>5, <1>6, <1>7, <1>8
     DEF Queue!Next, Queue!Worker, Queue!Attempt, Queue!Client, queueVars, Queue!vars

LEMMA EnqueuePlaced ==
  ASSUME QueueTypes, Placed, NEW t \in Tasks,
         Queue!Enqueue(t) \/ Queue!EnqueuePut(t) \/ Queue!EnqueueCancelled(t)
  PROVE  Placed'
<1> USE DEF QueueTypes, Queue!taskVars, Queue!workerVars
<1>1. /\ status[t] = "PENDING" /\ request[t] # "returned" /\ t \notin ToSet(queue)
      /\ \A w \in Workers : job[w] # t
  BY DEF Placed, TaskOK, QueuedOK, JobOK, Queue!Enqueue, Queue!EnqueuePut,
         Queue!EnqueueCancelled
<1>2. UNCHANGED <<status, worker, job>>
  BY DEF Queue!Enqueue, Queue!EnqueuePut, Queue!EnqueueCancelled
<1>3. CASE Queue!EnqueuePut(t)
  <2>1. request' = [request EXCEPT ![t] = "returned"] /\ queue' = Append(queue, t)
    BY <1>3 DEF Queue!EnqueuePut
  <2>2. Once(queue') /\ ToSet(queue') = ToSet(queue) \cup {t}
    BY <1>1, <2>1, Appended DEF Placed, QueuedOK
  <2>3. QueuedOK'
    BY <1>1, <1>2, <2>1, <2>2 DEF Placed, QueuedOK
  <2>4. ASSUME NEW w \in Workers PROVE JobOK(w)'
    BY <1>1, <1>2, <2>1, <2>2, <2>4 DEF Placed, JobOK
  <2>5. ASSUME NEW u \in Tasks PROVE TaskOK(u)'
    BY <1>1, <1>2, <2>1, <2>2, <2>5 DEF Placed, TaskOK
  <2> QED
    BY <2>3, <2>4, <2>5 DEF Placed
<1>4. CASE Queue!Enqueue(t) \/ Queue!EnqueueCancelled(t)
  <2>1. /\ \E r \in {"putting", "abandoned"} : request' = [request EXCEPT ![t] = r]
        /\ queue' = queue
    BY <1>4 DEF Queue!Enqueue, Queue!EnqueueCancelled
  <2>2. /\ request'[t] # "returned"
        /\ \A u \in Tasks \ {t} : request'[u] = request[u]
    BY <2>1
  <2>3. QueuedOK'
    <3>1. \A u \in ToSet(queue) : u \in Tasks /\ u # t
      BY <1>1 DEF ToSet
    <3> QED
      BY <1>2, <2>1, <2>2, <3>1 DEF Placed, QueuedOK
  <2>4. ASSUME NEW w \in Workers PROVE JobOK(w)'
    BY <1>1, <1>2, <2>1, <2>2, <2>4 DEF Placed, JobOK
  <2>5. ASSUME NEW u \in Tasks PROVE TaskOK(u)'
    BY <1>1, <1>2, <2>1, <2>2, <2>5 DEF Placed, TaskOK
  <2> QED
    BY <2>3, <2>4, <2>5 DEF Placed
<1> QED
  BY <1>3, <1>4

LEMMA IdlePlaced ==
  ASSUME QueueTypes, Placed, NEW w \in Workers, NEW p \in {"top", "getting"},
         worker[w] \in {"top", "getting"}, worker' = [worker EXCEPT ![w] = p],
         UNCHANGED <<request, status, queue, job>>
  PROVE  Placed'
<1>1. QueuedOK' /\ \A t \in Tasks : TaskOK(t)'
  BY DEF Placed, QueuedOK, TaskOK
<1>2. ASSUME NEW v \in Workers PROVE JobOK(v)'
  BY <1>2 DEF Placed, JobOK, QueueTypes
<1> QED
  BY <1>1, <1>2 DEF Placed

LEMMA GetPlaced ==
  ASSUME QueueTypes, Placed, NEW w \in Workers, Queue!WorkerGet(w)
  PROVE  Placed'
<1> DEFINE t == Head(queue)
<1>1. /\ worker[w] = "getting" /\ queue # <<>> /\ queue' = Tail(queue)
      /\ job' = [job EXCEPT ![w] = t] /\ status' = [status EXCEPT ![t] = "IN_PROGRESS"]
      /\ worker' = [worker EXCEPT ![w] = "downloading"] /\ request' = request
  BY DEF Queue!WorkerGet
<1>2. /\ t \in Tasks /\ t \in ToSet(queue) /\ Once(queue') /\ t \notin ToSet(queue')
      /\ ToSet(queue) = {t} \cup ToSet(queue') /\ queue' \in Seq(Tasks)
  BY <1>1, Dequeued DEF QueueTypes, Placed, QueuedOK
<1>3. request[t] = "returned" /\ \A v \in Workers : job[v] # t
  BY <1>2 DEF Placed, QueuedOK, JobOK
<1> HIDE DEF t
<1>4. QueuedOK'
  <2>1. \A u \in ToSet(queue') : u \in Tasks /\ u # t /\ status'[u] = status[u]
    BY <1>1, <1>2 DEF ToSet, QueueTypes
  <2> QED
    BY <1>1, <1>2, <2>1 DEF Placed, QueuedOK
<1>5. ASSUME NEW v \in Workers PROVE JobOK(v)'
  <2>1. CASE v = w
    BY <1>1, <1>2, <1>3, <2>1 DEF JobOK, QueueTypes
  <2>2. CASE v # w
    <3>1. /\ JobOK(v) /\ job'[v] = job[v] /\ worker'[v] = worker[v] /\ job[v] # t
          /\ (worker[v] \in AtWork <=> job[v] \in Tasks)
      BY <1>1, <1>3, <1>5, <2>2 DEF Placed, QueueTypes
    <3>2. job[v] \in Tasks => status'[job[v]] = status[job[v]]
      BY <1>1, <3>1 DEF QueueTypes
    <3>3. job[v] \in Tasks => \A x \in Workers : job'[x] = job[v] => x = v
      BY <1>1, <2>2, <3>1, <1>5 DEF QueueTypes, JobOK
    <3> QED
      BY <1>1, <1>2, <3>1, <3>2, <3>3 DEF JobOK, AtWork
  <2> QED
    BY <2>1, <2>2
<1>6. ASSUME NEW u \in Tasks PROVE TaskOK(u)'
  <2>1. CASE u = t
    BY <1>1, <1>3, <2>1 DEF TaskOK, QueueTypes
  <2>2. CASE u # t
    <3>1. TaskOK(u) /\ status'[u] = status[u]
      BY <1>1, <1>6, <2>2 DEF Placed, QueueTypes
    <3>2. job[w] \notin Tasks
      BY <1>1 DEF QueueTypes, AtWork
    <3> QED
      BY <1>1, <1>2, <1>6, <2>2, <3>1, <3>2 DEF TaskOK, QueueTypes
  <2> QED
    BY <2>1, <2>2
<1> QED
  BY <1>4, <1>5, <1>6 DEF Placed

\* A worker is done with its task, whose status is a last one.
LEMMA SettledPlaced ==
  ASSUME QueueTypes, Placed, NEW w \in Workers, worker[w] \in {"downloading", "cancelled"},
         NEW s \in {"COMPLETED", "FAILED", "CANCELLED"}, Queue!Settle(w, s),
         NEW p \in {"top", "ended"}, worker' = [worker EXCEPT ![w] = p],
         UNCHANGED <<request, queue>>
  PROVE  Placed'
<1> DEFINE t == job[w]
<1>1. /\ t \in Tasks /\ request[t] = "returned" /\ t \notin ToSet(queue)
      /\ \A v \in Workers : job[v] = t => v = w
  BY DEF QueueTypes, Placed, JobOK, AtWork
<1>2. status' = [status EXCEPT ![t] = s] /\ job' = [job EXCEPT ![w] = NoTask]
  BY DEF Queue!Settle
<1>3. NoTask \notin Tasks
  BY TransfersAssumption DEF Queue!DownloadAssumption
<1> HIDE DEF t
<1>4. QueuedOK'
  <2>1. \A u \in ToSet(queue) : u \in Tasks /\ status'[u] = status[u]
    BY <1>1, <1>2 DEF ToSet, QueueTypes
  <2> QED
    BY <2>1 DEF Placed, QueuedOK
<1>5. ASSUME NEW v \in Workers PROVE JobOK(v)'
  <2>1. CASE v = w
    BY <1>2, <1>3, <2>1 DEF JobOK, QueueTypes
  <2>2. CASE v # w
    <3>1. /\ JobOK(v) /\ job'[v] = job[v] /\ worker'[v] = worker[v] /\ job[v] # t
          /\ (worker[v] \in AtWork <=> job[v] \in Tasks)
      BY <1>1, <1>2, <1>5, <2>2 DEF Placed, QueueTypes
    <3>2. job[v] \in Tasks => status'[job[v]] = status[job[v]]
      BY <1>2, <3>1 DEF QueueTypes
    <3>3. job[v] \in Tasks => \A x \in Workers : job'[x] = job[v] => x = v
      BY <1>2, <1>3, <1>5, <3>1 DEF QueueTypes, JobOK
    <3> QED
      BY <3>1, <3>2, <3>3 DEF JobOK, AtWork
  <2> QED
    BY <2>1, <2>2
<1>6. ASSUME NEW u \in Tasks PROVE TaskOK(u)'
  <2>1. CASE u = t
    BY <1>1, <1>2, <2>1 DEF TaskOK, QueueTypes
  <2>2. CASE u # t
    <3>1. TaskOK(u) /\ status'[u] = status[u]
      BY <1>2, <1>6, <2>2 DEF Placed, QueueTypes
    <3>2. \A v \in Workers : job[v] = u => job'[v] = u
      BY <1>1, <1>2, <2>2 DEF QueueTypes, t
    <3> QED
      BY <3>1, <3>2 DEF TaskOK
  <2> QED
    BY <2>1, <2>2
<1> QED
  BY <1>4, <1>5, <1>6 DEF Placed

LEMMA FailPlaced ==
  ASSUME QueueTypes, Placed, NEW w \in Workers, Queue!Fail(w)
  PROVE  Placed'
<1>1. CASE begun[job[w]] < MaxAttempts
  <2> DEFINE t == job[w]
  <2>1. /\ t \in Tasks /\ request[t] = "returned" /\ t \notin ToSet(queue)
        /\ \A v \in Workers : job[v] = t => v = w
    BY DEF QueueTypes, Placed, JobOK, AtWork, Queue!Fail
  <2>2. /\ status' = [status EXCEPT ![t] = "PENDING"] /\ job' = job /\ queue' = queue
        /\ worker' = [worker EXCEPT ![w] = "retrying"] /\ request' = request
    BY <1>1 DEF Queue!Fail
  <2>3. QueuedOK'
    <3>1. \A u \in ToSet(queue) : u \in Tasks /\ status'[u] = status[u]
      BY <2>1, <2>2 DEF ToSet, QueueTypes
    <3> QED
      BY <2>2, <3>1 DEF Placed, QueuedOK
  <2>4. ASSUME NEW v \in Workers PROVE JobOK(v)'
    <3>1. CASE v = w
      BY <2>1, <2>2, <3>1 DEF JobOK, QueueTypes
    <3>2. CASE v # w
      BY <2>1, <2>2, <2>4, <3>2 DEF Placed, JobOK, QueueTypes, AtWork
    <3> QED
      BY <3>1, <3>2
  <2>5. ASSUME NEW u \in Tasks PROVE TaskOK(u)'
    BY <2>1, <2>2, <2>5 DEF Placed, TaskOK, QueueTypes
  <2> QED
    BY <2>3, <2>4, <2>5 DEF Placed
<1>2. CASE ~(begun[job[w]] < MaxAttempts)
  BY <1>2, SettledPlaced DEF Queue!Fail
<1> QED
  BY <1>1, <1>2

LEMMA RequeuePlaced ==
  ASSUME QueueTypes, Placed, NEW w \in Workers, Queue!Requeue(w)
  PROVE  Placed'
<1> DEFINE t == job[w]
<1>1. /\ worker[w] = "retrying" /\ queue' = Append(queue, t)
      /\ job' = [job EXCEPT ![w] = NoTask] /\ worker' = [worker EXCEPT ![w] = "top"]
      /\ UNCHANGED <<request, status>>
  BY DEF Queue!Requeue, Queue!taskVars
<1>2. /\ t \in Tasks /\ request[t] = "returned" /\ t \notin ToSet(queue)
      /\ status[t] = "PENDING" /\ \A v \in Workers : job[v] = t => v = w
  BY <1>1 DEF QueueTypes, Placed, JobOK, AtWork
<1>3. NoTask \notin Tasks
  BY TransfersAssumption DEF Queue!DownloadAssumption
<1> HIDE DEF t
<1>4. Once(queue') /\ ToSet(queue') = ToSet(queue) \cup {t}
  BY <1>1, <1>2, Appended DEF QueueTypes, Placed, QueuedOK
<1>5. QueuedOK'
  BY <1>1, <1>2, <1>4 DEF Placed, QueuedOK
<1>6. ASSUME NEW v \in Workers PROVE JobOK(v)'
  <2>1. CASE v = w
    BY <1>1, <1>3, <2>1 DEF JobOK, QueueTypes
  <2>2. CASE v # w
    <3>1. /\ JobOK(v) /\ job'[v] = job[v] /\ worker'[v] = worker[v] /\ job[v] # t
      BY <1>1, <1>2, <1>6, <2>2 DEF Placed, QueueTypes
    <3>2. job[v] \in Tasks => \A x \in Workers : job'[x] = job[v] => x = v
      BY <1>1, <1>3, <1>6, <3>1 DEF QueueTypes, JobOK
    <3> QED
      BY <1>1, <1>4, <3>1, <3>2 DEF JobOK
  <2> QED
    BY <2>1, <2>2
<1>7. ASSUME NEW u \in Tasks PROVE TaskOK(u)'
  <2>1. CASE u = t
    BY <1>1, <1>2, <1>4, <2>1 DEF TaskOK
  <2>2. CASE u # t
    <3>1. \A v \in Workers : job[v] = u => job'[v] = u
      BY <1>1, <2>2 DEF QueueTypes, t
    <3> QED
      BY <1>1, <1>4, <1>7, <3>1 DEF Placed, TaskOK
  <2> QED
    BY <2>1, <2>2
<1> QED
  BY <1>5, <1>6, <1>7 DEF Placed

LEMMA TimeoutPlaced ==
  ASSUME QueueTypes, Placed, Queue!WaitTimeout
  PROVE  Placed'
<1>1. /\ worker' = [w \in Workers |-> IF worker[w] = "downloading" THEN "cancelled" ELSE worker[w]]
      /\ status' = [t \in Tasks |->
                      IF \E w \in Workers : worker[w] = "downloading" /\ job[w] = t
                      THEN "CANCELLED" ELSE status[t]]
      /\ UNCHANGED <<request, queue, job>>
  BY DEF Queue!WaitTimeout, Queue!Active
<1>2. \A w \in Workers : JobOK(w) /\ (worker[w] \in AtWork <=> job[w] \in Tasks)
  BY DEF QueueTypes, Placed
<1>3. QueuedOK'
  <2>1. \A u \in ToSet(queue) : u \in Tasks /\ status'[u] = status[u]
    BY <1>1, <1>2 DEF ToSet, QueueTypes, JobOK
  <2> QED
    BY <1>1, <2>1 DEF Placed, QueuedOK
<1>4. ASSUME NEW w \in Workers PROVE JobOK(w)'
  BY <1>1, <1>2, <1>4 DEF JobOK, AtWork
<1>5. ASSUME NEW u \in Tasks PROVE TaskOK(u)'
  BY <1>1, <1>2, <1>5 DEF Placed, TaskOK, JobOK
<1> QED
  BY <1>3, <1>4, <1>5 DEF Placed

LEMMA QueueSteps == QueueInv /\ [Queue!Next]_queueVars => QueueInv'
<1> SUFFICES ASSUME QueueInv, [Queue!Next]_queueVars PROVE QueueInv'
  OBVIOUS
<1>1. QueueTypes /\ QueueTypes'
  BY QueueTypesStep DEF QueueInv
<1>2. CASE client = "stopped"
  <2>1. client' = "stopped"
    BY <1>2 DEF Queue!Next, Queue!Worker, Queue!Attempt, Queue!Client, Queue!Enqueue,
       Queue!EnqueuePut, Queue!EnqueueCancelled, Queue!WorkerTop, Queue!WorkerGetTimeout,
       Queue!WorkerGet, Queue!Complete, Queue!TaskTimeout, Queue!TelegramError, Queue!Fail,
       Queue!Requeue, Queue!WorkerCancelled, Queue!Unpause, Queue!WaitStart, Queue!WaitIdle,
       Queue!WaitTimeout, Queue!StopStart, Queue!StopIdle, Queue!Done, Queue!vars, queueVars
  <2> QED
    BY <1>1, <2>1 DEF QueueInv
<1>3. CASE client # "stopped"
  <2>1. Placed
    BY <1>3 DEF QueueInv
  <2>2. ASSUME NEW t \in Tasks,
               Queue!Enqueue(t) \/ Queue!EnqueuePut(t) \/ Queue!EnqueueCancelled(t)
        PROVE  Placed'
    BY <1>1, <2>1, <2>2, EnqueuePlaced
  <2>3. ASSUME NEW w \in Workers, Queue!Worker(w) PROVE Placed'
    <3>1. CASE Queue!WorkerTop(w) \/ Queue!WorkerGetTimeout(w)
      BY <1>1, <2>1, <3>1, IdlePlaced
         DEF Queue!WorkerTop, Queue!WorkerGetTimeout, Queue!taskVars
    <3>2. CASE Queue!Complete(w) \/ Queue!TaskTimeout(w) \/ Queue!TelegramError(w)
                 \/ Queue!WorkerCancelled(w)
      BY <1>1, <2>1, <3>2, SettledPlaced
         DEF Queue!Complete, Queue!TaskTimeout, Queue!TelegramError, Queue!WorkerCancelled
    <3> QED
      BY <1>1, <2>1, <2>3, <3>1, <3>2, GetPlaced, FailPlaced, RequeuePlaced
         DEF Queue!Worker, Queue!Attempt
  <2>4. CASE Queue!WaitTimeout
    BY <1>1, <2>1, <2>4, TimeoutPlaced DEF QueueInv
  <2>5. CASE Queue!StopIdle
    BY <1>1, <2>5 DEF QueueInv, Queue!StopIdle
  <2>6. CASE Queue!Unpause \/ Queue!WaitStart \/ Queue!WaitIdle \/ Queue!StopStart
               \/ Queue!Done \/ UNCHANGED queueVars
    <3>1. UNCHANGED <<request, status, queue, worker, job>>
      BY <2>6 DEF Queue!Unpause, Queue!WaitStart, Queue!WaitIdle, Queue!StopStart, Queue!Done,
                  Queue!vars, queueVars, Queue!taskVars, Queue!workerVars
    <3> QED
      BY <2>1, <1>1, <3>1 DEF QueueInv, Placed, QueuedOK, JobOK, TaskOK
  <2> QED
    BY <1>1, <2>2, <2>3, <2>4, <2>5, <2>6
       DEF QueueInv, Queue!Next, Queue!Client, queueVars, Queue!vars
<1> QED
  BY <1>2, <1>3

(* Of every download that was asked for and not yet settled there is, until  *)
(* the queue is stopped, exactly one reference: with the caller that waits   *)
(* for a free place, in the queue, or with one worker -- for any workers,    *)
(* tasks, capacity, attempts and threshold, through retries, pauses and the  *)
(* timeout of the wait.                                                      *)
THEOREM DownloadsHeldOnce == TransfersSpec => []HeldOnce
<1>1. TransfersInit => QueueInv
  BY QueueStarts DEF TransfersInit
<1>2. QueueInv /\ [TransfersNext]_<<which, vars, queueVars, fileVars>> => QueueInv'
  <2> SUFFICES ASSUME QueueInv, [TransfersNext]_<<which, vars, queueVars, fileVars>>
               PROVE  [Queue!Next]_queueVars
    BY QueueSteps
  <2> QED
    BY DEF TransfersNext, OfQueue
<1> QED
  BY <1>1, <1>2, QueueHolds, PTL DEF TransfersSpec

-----------------------------------------------------------------------------
(* What a download does to the files (MediaDownloader)                      *)

Numbered == 1 .. task_attempts

\* The temporary files a message may have.
Own(t) == {<<message_id[t], 0>>} \cup {<<t, n>> : n \in Numbered}

\* Path p is one of a message with the Telegram file f.
Belongs(p, f) == \E t \in Downloads : file[t] = f /\ p \in Own(t)

\* The tasks that have a result of download_media in their hands.
HasResult == {"downloaded", "returned", "moving"}

FileTypes ==
    /\ file \in [Downloads -> Files] /\ exhausted \subseteq Downloads
    /\ disk \in [Downloader!Paths -> Downloader!FileStates]
    /\ output \in [Downloads -> Downloader!FileStates]
    /\ downloaded_cache \in [Files -> Downloader!Paths \cup {<<>>}]
    /\ task \in [Downloads -> Downloader!Places]
    /\ tries \in [Downloads -> 0 .. task_attempts]
    /\ handle \in [Downloads -> Downloader!Paths \cup Downloads \cup {<<>>}]
    /\ path \in [Downloads -> Downloader!Paths \cup {<<>>}]

\* Where a task is tells whether it may be tried again, has a result, or writes.
StateOK(t) ==
    /\ task[t] = "queued" => tries[t] < task_attempts
    /\ task[t] # "queued" => tries[t] >= 1
    /\ task[t] \in HasResult => path[t] # <<>>
    /\ path[t] # <<>> => task[t] \in HasResult \cup {"completed"}
    /\ handle[t] # <<>> => task[t] = "downloading"

\* A download writes into a file of its message, or one that was moved to the
\* output of a message; its result is a file of a message with its Telegram file.
PlaceOK(t) ==
    /\ handle[t] \in Downloader!Paths => handle[t] \in Own(t)
    /\ path[t] # <<>> => Belongs(path[t], file[t])
    /\ task[t] = "downloaded" => path[t] \in Own(t)

CacheOK == \A f \in Files : downloaded_cache[f] # <<>> => Belongs(downloaded_cache[f], f)

DiskInv ==
    /\ FileTypes /\ CacheOK
    /\ \A t \in Downloads : StateOK(t) /\ PlaceOK(t)

LEMMA DownloaderNumbers ==
  /\ task_attempts \in Nat /\ task_attempts >= 1
  /\ Received \subseteq Nat
  /\ expected_size \in [Files -> Nat \ {0}]
  /\ FileChoices \subseteq [Downloads -> Files]
  /\ Downloads \cap Downloader!Paths = {} /\ <<>> \notin Downloads
  /\ <<>> \notin Downloader!Paths
<1>1. Downloader!DownloaderAssumption
  BY TransfersAssumption
<1>2. <<>> \notin Downloader!Paths
  BY DEF Downloader!Paths, Downloader!Ids
<1> QED
  BY <1>1, <1>2 DEF Downloader!DownloaderAssumption, Downloader!NoPath

LEMMA OwnPaths ==
  /\ \A t \in Downloads : Own(t) \subseteq Downloader!Paths
  /\ \A t, u \in Downloads :
       message_id[t] # message_id[u] => Own(t) \cap Own(u) = {}
  BY DEF Own, Numbered, Downloader!Paths, Downloader!Ids

LEMMA TempPathIsOwn ==
  ASSUME FileTypes, NEW t \in Downloads, tries[t] >= 1
  PROVE  Downloader!TempPath(t) \in Own(t)
  BY DownloaderNumbers DEF FileTypes, Downloader!TempPath, Own, Numbered

LEMMA FileFacts ==
  /\ Downloader!NoFile \in Downloader!FileStates
  /\ \A f \in Files, n \in Nat :
       /\ [of |-> f, size |-> n] \in Downloader!FileStates
       /\ [of |-> f, size |-> n] # Downloader!NoFile
  /\ \A x \in Downloader!FileStates :
       /\ x # Downloader!NoFile => x.of \in Files /\ x.size \in Nat
       /\ x.size > -1 => x # Downloader!NoFile
       /\ x.size \in Int
  BY DEF Downloader!FileStates, Downloader!NoFile

LEMMA DiskStarts == Downloader!Init => DiskInv
<1> SUFFICES ASSUME Downloader!Init PROVE DiskInv
  OBVIOUS
<1> USE DEF Downloader!Init, Downloader!NoPath
<1>1. FileTypes
  BY DownloaderNumbers, FileFacts DEF FileTypes, Downloader!Places
<1>2. ASSUME NEW t \in Downloads PROVE StateOK(t) /\ PlaceOK(t)
  BY <1>2, DownloaderNumbers DEF StateOK, PlaceOK, HasResult
<1> QED
  BY <1>1, <1>2 DEF DiskInv, CacheOK

\* The steps of a task that leave its writing and its result behind: it goes to
\* place l with result p.  They change no file, but for one that is started from
\* scratch.
Leaves(t, l, p) ==
    /\ task' = [task EXCEPT ![t] = l] /\ path' = [path EXCEPT ![t] = p]
    /\ handle' = [handle EXCEPT ![t] = <<>>]
    /\ exhausted \subseteq exhausted' /\ exhausted' \subseteq Downloads
    /\ UNCHANGED <<persistent_enabled, file, output, downloaded_cache, tries>>

\* A whole file in the sense of the downloader: more than nine tenths of the
\* bytes, unless Telethon had given up.
Enough(t, f, given_up) ==
    f # Downloader!NoFile /\ (10 * f.size > 9 * expected_size[file[t]] \/ t \in given_up)

FromScratch(t) ==
    /\ task[t] = "downloading"
    /\ 10 * Downloader!Size(t) <= 9 * Downloader!Expected(t)
    /\ disk' = [disk EXCEPT ![Downloader!TempPath(t)] = Downloader!NoFile]

Ending(t) ==
    \/ \E l \in {"queued", "failed", "head"} :
         /\ task[t] \in {"head", "waiting", "downloading", "downloaded"}
         /\ l = "queued" => tries[t] < task_attempts
         /\ Leaves(t, l, <<>>)
         /\ disk' = disk \/ (l = "head" /\ FromScratch(t))
    \/ /\ task[t] = "returned" /\ disk[path[t]] = Downloader!NoFile /\ disk' = disk
       /\ \E l \in {"queued", "failed"} :
            Leaves(t, l, <<>>) /\ (l = "queued" => tries[t] < task_attempts)
    \/ /\ task[t] \in {"head", "downloading"} /\ disk' = disk
       /\ Leaves(t, "downloaded", Downloader!TempPath(t))
       /\ Enough(t, disk[Downloader!TempPath(t)], exhausted')
    \/ /\ task[t] = "head" /\ disk' = disk
       /\ Leaves(t, "waiting", <<>>)
       /\ persistent_enabled => ~Downloader!IsComplete(t)
    \/ /\ task[t] = "waiting" /\ disk' = disk
       /\ Leaves(t, "downloading", <<>>)

LEMMA NoHandle ==
  ASSUME DiskInv, NEW t \in Downloads, task[t] # "downloading"
  PROVE  handle = [handle EXCEPT ![t] = <<>>]
  BY DEF DiskInv, FileTypes, StateOK

LEMMA NoResult ==
  ASSUME DiskInv, NEW t \in Downloads, task[t] \notin HasResult \cup {"completed"}
  PROVE  path = [path EXCEPT ![t] = <<>>]
  BY DEF DiskInv, FileTypes, StateOK

LEMMA Sizes ==
  ASSUME DiskInv, NEW t \in Downloads, tries[t] >= 1
  PROVE  /\ Downloader!TempPath(t) \in Downloader!Paths
         /\ disk[Downloader!TempPath(t)] \in Downloader!FileStates
         /\ Downloader!Size(t) \in Int
         /\ Downloader!Size(t) > -1 => disk[Downloader!TempPath(t)] # Downloader!NoFile
         /\ expected_size[file[t]] \in Nat /\ expected_size[file[t]] > 0
  BY OwnPaths, TempPathIsOwn, FileFacts, DownloaderNumbers
     DEF DiskInv, FileTypes, Downloader!Size

LEMMA ErrorEnds ==
  ASSUME DiskInv, NEW t \in Downloads,
         task[t] \in {"head", "waiting", "downloading", "downloaded"},
         NEW l \in {"queued", "failed"}, l = "queued" => tries[t] < task_attempts,
         Downloader!Leave(t, l, <<>>), disk' = disk,
         exhausted \subseteq exhausted', exhausted' \subseteq Downloads,
         UNCHANGED <<persistent_enabled, file, output, downloaded_cache, tries>>
  PROVE  Ending(t)
  BY DEF Ending, Leaves, Downloader!Leave, Downloader!NoPath

LEMMA SuccessEnds ==
  ASSUME DiskInv, NEW t \in Downloads,
         task[t] \in {"head", "downloading"},
         Downloader!Leave(t, "downloaded", Downloader!TempPath(t)), disk' = disk,
         exhausted \subseteq exhausted', exhausted' \subseteq Downloads,
         Enough(t, disk[Downloader!TempPath(t)], exhausted'),
         UNCHANGED <<persistent_enabled, file, output, downloaded_cache, tries>>
  PROVE  Ending(t)
  BY DEF Ending, Leaves, Downloader!Leave, Downloader!NoPath

LEMMA HeadEnds ==
  ASSUME DiskInv, NEW t \in Downloads, Downloader!Head(t) PROVE Ending(t)
<1>1. task[t] = "head" /\ tries[t] >= 1 /\ disk' = disk /\ exhausted' = exhausted
      /\ exhausted \subseteq Downloads
      /\ UNCHANGED <<persistent_enabled, file, output, downloaded_cache, tries>>
  BY DEF Downloader!Head, Downloader!given, DiskInv, FileTypes, StateOK
<1>2. CASE Downloader!Leave(t, Downloader!AfterError(t), Downloader!NoPath)
  BY <1>1, <1>2, ErrorEnds DEF Downloader!AfterError, Downloader!NoPath
<1>3. CASE /\ persistent_enabled /\ Downloader!IsComplete(t)
           /\ Downloader!Leave(t, "downloaded", Downloader!TempPath(t))
  <2>1. Enough(t, disk[Downloader!TempPath(t)], exhausted')
    BY <1>1, <1>3, Sizes DEF Enough, Downloader!IsComplete, Downloader!Expected, Downloader!Size
  <2> QED
    BY <1>1, <1>3, <2>1, SuccessEnds
<1>4. CASE /\ ~(persistent_enabled /\ Downloader!IsComplete(t))
           /\ task' = [task EXCEPT ![t] = "waiting"] /\ UNCHANGED <<handle, path>>
  <2>1. handle' = [handle EXCEPT ![t] = <<>>] /\ path' = [path EXCEPT ![t] = <<>>]
    BY <1>1, <1>4, NoHandle, NoResult DEF HasResult
  <2> QED
    BY <1>1, <1>4, <2>1 DEF Ending, Leaves
<1> QED
  BY <1>2, <1>3, <1>4 DEF Downloader!Head

LEMMA DecideEnds ==
  ASSUME DiskInv, NEW t \in Downloads, task[t] = "downloading", NEW n,
         Downloader!Decide(t, n)
  PROVE  Ending(t)
<1> DEFINE size == Downloader!Size(t)
           TooMany == n >= max_consecutive_failures
           Restart == /\ TooMany /\ size >= 0
                      /\ 10 * size <= 9 * Downloader!Expected(t)
                      /\ 10 * attempt[t] < 8 * MAX_PERSISTENT_ATTEMPTS
<1>1. tries[t] >= 1 /\ exhausted' = exhausted /\ exhausted \subseteq Downloads
      /\ UNCHANGED <<persistent_enabled, file, output, downloaded_cache, tries>>
      /\ disk' = IF Restart THEN [disk EXCEPT ![Downloader!TempPath(t)] = Downloader!NoFile]
                 ELSE disk
  BY DEF Downloader!Decide, Downloader!given, DiskInv, FileTypes, StateOK
<1>2. CASE TooMany /\ size >= 0 /\ ~Restart
  <2>1. CASE 10 * size > 9 * Downloader!Expected(t)
    <3>1. Downloader!Leave(t, "downloaded", Downloader!TempPath(t))
      BY <1>2, <2>1 DEF Downloader!Decide
    <3>2. Enough(t, disk[Downloader!TempPath(t)], exhausted')
      BY <1>1, <1>2, <2>1, Sizes DEF Enough, Downloader!Expected, Downloader!Size
    <3> QED
      BY <1>1, <1>2, <3>1, <3>2, SuccessEnds
  <2>2. CASE ~(10 * size > 9 * Downloader!Expected(t))
    <3>1. Downloader!Leave(t, Downloader!AfterError(t), <<>>)
      BY <1>2, <2>2 DEF Downloader!Decide, Downloader!NoPath
    <3> QED
      BY <1>1, <1>2, <3>1, ErrorEnds DEF Downloader!AfterError
  <2> QED
    BY <2>1, <2>2
<1>3. CASE ~(TooMany /\ size >= 0 /\ ~Restart)
  <2>1. /\ task' = [task EXCEPT ![t] = "head"] /\ handle' = [handle EXCEPT ![t] = <<>>]
        /\ path' = path
    BY <1>3 DEF Downloader!Decide, Downloader!NoPath
  <2>2. path' = [path EXCEPT ![t] = <<>>]
    BY <2>1, NoResult DEF HasResult
  <2>3. Restart => FromScratch(t)
    BY <1>1 DEF FromScratch
  <2> HIDE DEF Restart
  <2> QED
    BY <1>1, <2>1, <2>2, <2>3 DEF Ending, Leaves
<1> QED
  BY <1>2, <1>3

\* The task has a result that exists, the move is next.
Accepting(t) ==
    /\ task[t] = "returned" /\ disk[path[t]] # Downloader!NoFile
    /\ task' = [task EXCEPT ![t] = "moving"]
    /\ UNCHANGED <<persistent_enabled, file, disk, output, downloaded_cache, tries,
                   handle, path, exhausted>>

LEMMA OthersEnd ==
  ASSUME DiskInv, NEW t \in Downloads,
         Downloader!Acquire(t) \/ Downloader!Ends(t) \/ Downloader!TaskTimeout(t)
  PROVE  Ending(t)
<1> USE DEF Downloader!given, Downloader!counters
<1>1. exhausted \subseteq Downloads
  BY DEF DiskInv, FileTypes
<1>2. CASE Downloader!Acquire(t)
  <2>1. handle' = [handle EXCEPT ![t] = <<>>] /\ path' = [path EXCEPT ![t] = <<>>]
    BY <1>2, NoHandle, NoResult DEF HasResult, Downloader!Acquire
  <2> QED
    BY <1>1, <1>2, <2>1 DEF Downloader!Acquire, Ending, Leaves
<1>3. CASE Downloader!AttemptReturns(t)
  BY <1>3, DecideEnds DEF Downloader!AttemptReturns
<1>4. CASE Downloader!AttemptFails(t)
  BY <1>4, DecideEnds DEF Downloader!AttemptFails
<1>5. CASE Downloader!TelethonExhausted(t)
  <2>1. CASE Downloader!Size(t) > 0
    <3>1. tries[t] >= 1
      BY <1>5 DEF Downloader!TelethonExhausted, DiskInv, StateOK
    <3>2. Enough(t, disk[Downloader!TempPath(t)], exhausted')
      BY <1>5, <2>1, <3>1, Sizes DEF Enough, Downloader!TelethonExhausted
    <3> QED
      BY <1>1, <1>5, <2>1, <3>2, SuccessEnds DEF Downloader!TelethonExhausted
  <2>2. CASE ~(Downloader!Size(t) > 0)
    BY <1>1, <1>5, <2>2, ErrorEnds
       DEF Downloader!TelethonExhausted, Downloader!AfterError, Downloader!NoPath
  <2> QED
    BY <2>1, <2>2
<1>6. ASSUME task[t] = "downloading", disk' = disk, exhausted' = exhausted,
             task' = [task EXCEPT ![t] = "head"], handle' = [handle EXCEPT ![t] = <<>>],
             UNCHANGED <<persistent_enabled, file, output, downloaded_cache, tries, path>>
      PROVE  Ending(t)
  <2>1. path' = [path EXCEPT ![t] = <<>>]
    BY <1>6, NoResult DEF HasResult
  <2> QED
    BY <1>1, <1>6, <2>1 DEF Ending, Leaves
<1>7. CASE Downloader!ServerError(t)
  <2>1. CASE server_errors[t] + 1 >= max_telegram_server_errors
    BY <1>1, <1>7, <2>1, ErrorEnds DEF Downloader!ServerError, Downloader!NoPath
  <2>2. CASE ~(server_errors[t] + 1 >= max_telegram_server_errors)
    BY <1>6, <1>7, <2>2 DEF Downloader!ServerError, Downloader!NoPath
  <2> QED
    BY <2>1, <2>2
<1>8. CASE Downloader!StandardReturns(t)
  <2>1. CASE 100 * Downloader!Size(t) >= 95 * Downloader!Expected(t)
    <3>1. tries[t] >= 1
      BY <1>8 DEF Downloader!StandardReturns, DiskInv, StateOK
    <3>2. Enough(t, disk[Downloader!TempPath(t)], exhausted')
      BY <1>8, <2>1, <3>1, Sizes DEF Enough, Downloader!Size, Downloader!Expected
    <3> QED
      BY <1>1, <1>8, <2>1, <3>2, SuccessEnds DEF Downloader!StandardReturns
  <2>2. CASE ~(100 * Downloader!Size(t) >= 95 * Downloader!Expected(t))
    BY <1>6, <1>8, <2>2 DEF Downloader!StandardReturns, Downloader!NoPath
  <2> QED
    BY <2>1, <2>2
<1>9. CASE Downloader!StandardFails(t)
  BY <1>6, <1>9 DEF Downloader!StandardFails, Downloader!NoPath
<1>10. CASE Downloader!TaskTimeout(t)
  BY <1>1, <1>10, ErrorEnds DEF Downloader!TaskTimeout, Downloader!NoPath
<1> QED
  BY <1>2, <1>3, <1>4, <1>5, <1>7, <1>8, <1>9, <1>10 DEF Downloader!Ends

LEMMA CompleteEnds ==
  ASSUME DiskInv, NEW t \in Downloads, Downloader!Complete(t)
  PROVE  Ending(t) \/ Accepting(t)
<1> USE DEF Downloader!given, Downloader!counters, Downloader!Exists
<1>1. CASE disk[path[t]] # Downloader!NoFile
  BY <1>1 DEF Downloader!Complete, Accepting
<1>2. CASE disk[path[t]] = Downloader!NoFile
  <2>1. handle' = [handle EXCEPT ![t] = <<>>]
    BY NoHandle DEF Downloader!Complete
  <2>2. exhausted \subseteq Downloads
    BY DEF DiskInv, FileTypes
  <2> QED
    BY <1>2, <2>1, <2>2
       DEF Downloader!Complete, Ending, Leaves, Downloader!AfterError, Downloader!NoPath
<1> QED
  BY <1>1, <1>2

\* A move that fails: the task keeps its result, its output may get any part.
FailedMove(t) ==
    /\ task[t] = "moving" /\ task' = [task EXCEPT ![t] = "completed"]
    /\ UNCHANGED <<persistent_enabled, file, disk, handle, downloaded_cache, tries,
                   path, exhausted>>
    /\ \/ UNCHANGED output
       \/ /\ disk[path[t]] # Downloader!NoFile
          /\ \E n \in Nat :
               output' = [output EXCEPT ![t] = [of |-> disk[path[t]].of, size |-> n]]

LEMMA MoveFailsEffect ==
  ASSUME DiskInv, NEW t \in Downloads, Downloader!MoveFails(t)
  PROVE  FailedMove(t)
<1> USE DEF Downloader!given, Downloader!counters
<1>1. /\ FileTypes /\ StateOK(t) /\ PlaceOK(t) /\ task[t] = "moving"
      /\ path[t] \in Downloader!Paths /\ disk[path[t]] \in Downloader!FileStates
  BY DEF DiskInv, FileTypes, StateOK, HasResult, Downloader!MoveFails
<1>2. /\ UNCHANGED <<persistent_enabled, file, disk, handle, downloaded_cache, tries,
                     exhausted>>
      /\ task' = [task EXCEPT ![t] = "completed"]
      /\ path' = [path EXCEPT ![t] = path[t]]
  BY DEF Downloader!MoveFails, Downloader!Completed
<1>3. path' = path
  BY <1>1, <1>2 DEF FileTypes
<1>4. ASSUME NEW n \in Received \cup {0}, n <= disk[path[t]].size,
             output' = [output EXCEPT ![t] = [disk[path[t]] EXCEPT !.size = n]]
      PROVE  /\ disk[path[t]] # Downloader!NoFile
             /\ \E k \in Nat :
                  output' = [output EXCEPT ![t] = [of |-> disk[path[t]].of, size |-> k]]
  <2>1. n \in Nat
    BY DownloaderNumbers
  <2>2. disk[path[t]] # Downloader!NoFile
    BY <1>4, <2>1 DEF Downloader!NoFile
  <2>3. disk[path[t]] \in [of : Files, size : Nat]
    BY <1>1, <2>2 DEF Downloader!FileStates
  <2>4. [disk[path[t]] EXCEPT !.size = n] = [of |-> disk[path[t]].of, size |-> n]
    BY <2>1, <2>3
  <2> QED
    BY <1>4, <2>1, <2>2, <2>4
<1> QED
  BY <1>1, <1>2, <1>3, <1>4 DEF Downloader!MoveFails, FailedMove

\* What a step of the downloader comes to.
FileStep(t) ==
    \/ Ending(t) \/ Accepting(t)
    \/ Downloader!Start(t) \/ Downloader!Note(t) \/ Downloader!Open(t)
    \/ \E s \in Received : Downloader!Write(t, s)
    \/ Downloader!Move(t) \/ FailedMove(t)

LEMMA FileSteps ==
  ASSUME DiskInv, [Downloader!Next]_fileVars
  PROVE  UNCHANGED fileVars \/ \E t \in Downloads : FileStep(t)
<1>1. ASSUME NEW t \in Downloads, Downloader!Step(t) PROVE FileStep(t)
  BY <1>1, HeadEnds, OthersEnd, CompleteEnds, MoveFailsEffect DEF Downloader!Step, FileStep
<1> QED
  BY <1>1 DEF Downloader!Next, Downloader!Finished, Downloader!vars, fileVars,
     Downloader!given, Downloader!counters

LEMMA SameFile ==
  ASSUME file' = file
  PROVE  \A p, f : Belongs(p, f)' <=> Belongs(p, f)
  BY DEF Belongs, Own

LEMMA EndingDisk ==
  ASSUME DiskInv, NEW t \in Downloads, Ending(t)
  PROVE  DiskInv'
<1>1. tries[t] >= 1 /\ StateOK(t) /\ PlaceOK(t) /\ FileTypes /\ CacheOK
  BY DEF DiskInv, StateOK, Ending
<1>2. /\ Downloader!TempPath(t) \in Own(t) /\ Downloader!TempPath(t) \in Downloader!Paths
      /\ Downloader!TempPath(t) # <<>>
  BY <1>1, TempPathIsOwn, OwnPaths, DownloaderNumbers
<1>3. Belongs(Downloader!TempPath(t), file[t])
  BY <1>2 DEF Belongs
<1>4. /\ UNCHANGED <<persistent_enabled, file, output, downloaded_cache, tries>>
      /\ exhausted' \subseteq Downloads
      /\ handle' = [handle EXCEPT ![t] = <<>>]
      /\ disk' = disk \/ disk' = [disk EXCEPT ![Downloader!TempPath(t)] = Downloader!NoFile]
  BY DEF Ending, Leaves, FromScratch
<1>5. PICK l \in {"queued", "failed", "head", "downloaded", "waiting", "downloading"},
           p \in {<<>>, Downloader!TempPath(t)} :
         /\ task' = [task EXCEPT ![t] = l] /\ path' = [path EXCEPT ![t] = p]
         /\ l = "queued" => tries[t] < task_attempts
         /\ l = "downloaded" <=> p # <<>>
  BY <1>2 DEF Ending, Leaves
<1>6. FileTypes'
  BY <1>1, <1>2, <1>4, <1>5, FileFacts DEF FileTypes, Downloader!Places
<1>7. CacheOK'
  BY <1>1, <1>4, SameFile DEF CacheOK
<1>8. ASSUME NEW u \in Downloads PROVE StateOK(u)' /\ PlaceOK(u)'
  <2>1. CASE u = t
    <3>1. task'[t] = l /\ path'[t] = p /\ handle'[t] = <<>> /\ tries'[t] = tries[t]
      BY <1>1, <1>4, <1>5 DEF FileTypes
    <3>2. StateOK(t)'
      BY <1>1, <1>5, <3>1 DEF StateOK, HasResult
    <3>3. PlaceOK(t)'
      BY <1>2, <1>3, <1>4, <1>5, <3>1, SameFile, DownloaderNumbers DEF PlaceOK, Own
    <3> QED
      BY <2>1, <3>2, <3>3
  <2>2. CASE u # t
    <3>1. UNCHANGED <<task[u], path[u], handle[u], tries[u], file[u]>>
      BY <1>1, <1>4, <1>5, <1>8, <2>2 DEF FileTypes
    <3>2. StateOK(u) /\ PlaceOK(u)
      BY <1>8 DEF DiskInv
    <3>3. Own(u)' = Own(u)
      BY DEF Own
    <3> QED
      BY <1>4, <3>1, <3>2, <3>3, SameFile DEF StateOK, PlaceOK, HasResult
  <2> QED
    BY <2>1, <2>2
<1> QED
  BY <1>6, <1>7, <1>8 DEF DiskInv

LEMMA OthersStay ==
  ASSUME DiskInv, file' = file, NEW u \in Downloads,
         UNCHANGED <<task[u], path[u], handle[u], tries[u]>>
  PROVE  StateOK(u)' /\ PlaceOK(u)'
<1>1. StateOK(u) /\ PlaceOK(u) /\ Own(u)' = Own(u)
  BY DEF DiskInv, Own
<1> QED
  BY <1>1, SameFile DEF StateOK, PlaceOK, HasResult

LEMMA StartDisk ==
  ASSUME DiskInv, NEW t \in Downloads, Downloader!Start(t)
  PROVE  DiskInv'
<1> DEFINE known == downloaded_cache[file[t]]
<1>1. /\ FileTypes /\ CacheOK /\ StateOK(t) /\ task[t] = "queued"
      /\ file[t] \in Files /\ known \in Downloader!Paths \cup {<<>>}
  BY DEF DiskInv, FileTypes, Downloader!Start
<1>2. /\ tries' = [tries EXCEPT ![t] = @ + 1]
      /\ UNCHANGED <<file, disk, output, downloaded_cache, handle, exhausted>>
      /\ \/ /\ known # <<>> /\ task' = [task EXCEPT ![t] = "returned"]
            /\ path' = [path EXCEPT ![t] = known]
         \/ task' = [task EXCEPT ![t] = "head"] /\ path' = path
  BY DEF Downloader!Start, Downloader!given, Downloader!NoPath
<1>3. known # <<>> => Belongs(known, file[t])
  BY <1>1 DEF CacheOK
<1> HIDE DEF known
<1>4. tries[t] < task_attempts /\ path[t] = <<>> /\ handle[t] = <<>>
  BY <1>1 DEF StateOK, HasResult
<1>5. FileTypes'
  <2>1. tries' \in [Downloads -> 0 .. task_attempts]
    <3>1. tries[t] + 1 \in 0 .. task_attempts
      BY <1>1, <1>4, DownloaderNumbers DEF FileTypes
    <3> QED
      BY <1>1, <1>2, <3>1 DEF FileTypes
  <2>2. task' \in [Downloads -> Downloader!Places]
    BY <1>1, <1>2 DEF FileTypes, Downloader!Places
  <2>3. path' \in [Downloads -> Downloader!Paths \cup {<<>>}]
    BY <1>1, <1>2 DEF FileTypes
  <2> QED
    BY <1>1, <1>2, <2>1, <2>2, <2>3 DEF FileTypes
<1>6. CacheOK'
  BY <1>1, <1>2, SameFile DEF CacheOK
<1>7. ASSUME NEW u \in Downloads PROVE StateOK(u)' /\ PlaceOK(u)'
  <2>1. CASE u = t
    <3>1. /\ tries'[t] >= 1 /\ handle'[t] = <<>>
          /\ \/ task'[t] = "returned" /\ path'[t] = known /\ known # <<>>
             \/ task'[t] = "head" /\ path'[t] = <<>>
      BY <1>1, <1>2, <1>4 DEF FileTypes
    <3> QED
      BY <1>2, <1>3, <2>1, <3>1, SameFile, DownloaderNumbers DEF StateOK, PlaceOK, HasResult
  <2>2. CASE u # t
    <3>1. UNCHANGED <<task[u], path[u], handle[u], tries[u]>>
      BY <1>1, <1>2, <1>7, <2>2 DEF FileTypes
    <3> QED
      BY <1>2, <1>7, <3>1, OthersStay
  <2> QED
    BY <2>1, <2>2
<1> QED
  BY <1>5, <1>6, <1>7 DEF DiskInv

LEMMA NoteDisk ==
  ASSUME DiskInv, NEW t \in Downloads, Downloader!Note(t) \/ Accepting(t)
  PROVE  DiskInv'
<1>1. /\ FileTypes /\ CacheOK /\ StateOK(t) /\ PlaceOK(t) /\ task[t] \in HasResult
      /\ file[t] \in Files /\ path[t] \in Downloader!Paths /\ handle[t] = <<>>
  BY DEF DiskInv, FileTypes, StateOK, HasResult, Downloader!Note, Accepting
<1>2. /\ UNCHANGED <<file, disk, output, tries, handle, path, exhausted>>
      /\ \E l \in {"returned", "moving"} : task' = [task EXCEPT ![t] = l]
      /\ \/ downloaded_cache' = downloaded_cache
         \/ downloaded_cache' = [downloaded_cache EXCEPT ![file[t]] = path[t]]
  <2>1. CASE Downloader!Note(t) /\ Downloader!Exists(disk[path[t]])
    BY <2>1 DEF Downloader!Note, Downloader!given
  <2>2. CASE Downloader!Note(t) /\ ~Downloader!Exists(disk[path[t]])
    <3>1. downloaded_cache' = downloaded_cache
      BY <1>1, <2>2 DEF Downloader!Note, FileTypes
    <3> QED
      BY <2>2, <3>1 DEF Downloader!Note, Downloader!given
  <2>3. CASE Accepting(t)
    BY <2>3 DEF Accepting
  <2> QED
    BY <2>1, <2>2, <2>3
<1>3. FileTypes'
  BY <1>1, <1>2 DEF FileTypes, Downloader!Places
<1>4. CacheOK'
  <2>1. Belongs(path[t], file[t])
    BY <1>1, DownloaderNumbers DEF PlaceOK
  <2>2. ASSUME NEW f \in Files
        PROVE  (downloaded_cache[f] # <<>> => Belongs(downloaded_cache[f], f))'
    <3>1. CASE downloaded_cache'[f] = downloaded_cache[f]
      BY <1>1, <1>2, <2>2, <3>1, SameFile DEF CacheOK
    <3>2. CASE f = file[t] /\ downloaded_cache'[f] = path[t]
      BY <1>2, <2>1, <3>2, SameFile
    <3> QED
      BY <1>1, <1>2, <2>2, <3>1, <3>2 DEF FileTypes
  <2> QED
    BY <2>2 DEF CacheOK
<1>5. ASSUME NEW u \in Downloads PROVE StateOK(u)' /\ PlaceOK(u)'
  <2>1. CASE u = t
    <3>1. task'[t] \in {"returned", "moving"} /\ UNCHANGED <<tries[t], handle[t], path[t]>>
      BY <1>1, <1>2 DEF FileTypes
    <3> QED
      BY <1>1, <1>2, <2>1, <3>1, SameFile, DownloaderNumbers DEF StateOK, PlaceOK, HasResult
  <2>2. CASE u # t
    <3>1. UNCHANGED <<task[u], path[u], handle[u], tries[u]>>
      BY <1>1, <1>2, <1>5, <2>2 DEF FileTypes
    <3> QED
      BY <1>2, <1>5, <3>1, OthersStay
  <2> QED
    BY <2>1, <2>2
<1> QED
  BY <1>3, <1>4, <1>5 DEF DiskInv

\* Telethon opens its file anew, or writes into the one it has.
LEMMA WriteDisk ==
  ASSUME DiskInv, NEW t \in Downloads,
         Downloader!Open(t) \/ \E s \in Received : Downloader!Write(t, s)
  PROVE  DiskInv'
<1> USE DEF Downloader!given, Downloader!counters
<1>1. /\ FileTypes /\ CacheOK /\ StateOK(t) /\ PlaceOK(t) /\ task[t] = "downloading"
      /\ file[t] \in Files /\ tries[t] >= 1
  BY DEF DiskInv, FileTypes, StateOK, Downloader!Open, Downloader!Write
<1>2. UNCHANGED <<file, downloaded_cache, task, tries, path, exhausted>>
  BY DEF Downloader!Open, Downloader!Write
<1>3. CacheOK'
  BY <1>1, <1>2, SameFile DEF CacheOK
<1>4. CASE Downloader!Open(t)
  <2> DEFINE p == Downloader!TempPath(t)
  <2>1. p \in Own(t) /\ p \in Downloader!Paths
    BY <1>1, TempPathIsOwn, OwnPaths
  <2>2. /\ disk' = [disk EXCEPT ![p] = [of |-> file[t], size |-> 0]]
        /\ handle' = [handle EXCEPT ![t] = p] /\ output' = output
    BY <1>4 DEF Downloader!Open
  <2>3. [of |-> file[t], size |-> 0] \in Downloader!FileStates
    BY <1>1, FileFacts
  <2> HIDE DEF p
  <2>4. FileTypes'
    BY <1>1, <1>2, <2>1, <2>2, <2>3 DEF FileTypes
  <2>5. ASSUME NEW u \in Downloads PROVE StateOK(u)' /\ PlaceOK(u)'
    <3>1. CASE u = t
      <4>1. handle'[t] = p
        BY <1>1, <2>2 DEF FileTypes
      <4>2. Own(t)' = Own(t)
        BY DEF Own
      <4> QED
        BY <1>1, <1>2, <2>1, <3>1, <4>1, <4>2, SameFile DEF StateOK, PlaceOK, HasResult
    <3>2. CASE u # t
      <4>1. UNCHANGED handle[u]
        BY <1>1, <2>2, <2>5, <3>2 DEF FileTypes
      <4> QED
        BY <1>2, <2>5, <4>1, OthersStay
    <3> QED
      BY <3>1, <3>2
  <2> QED
    BY <1>3, <2>4, <2>5 DEF DiskInv
<1>5. ASSUME NEW s \in Received, Downloader!Write(t, s) PROVE DiskInv'
  <2>1. [of |-> file[t], size |-> s] \in Downloader!FileStates
    BY <1>1, FileFacts, DownloaderNumbers
  <2>2. handle' = handle
    BY <1>5 DEF Downloader!Write
  <2>3. \/ disk' = [disk EXCEPT ![handle[t]] = [of |-> file[t], size |-> s]]
           /\ output' = output
        \/ output' = [output EXCEPT ![handle[t]] = [of |-> file[t], size |-> s]]
           /\ disk' = disk
    BY <1>5 DEF Downloader!Write
  <2>5. /\ disk' \in [Downloader!Paths -> Downloader!FileStates]
        /\ output' \in [Downloads -> Downloader!FileStates]
    BY <1>1, <2>1, <2>3 DEF FileTypes
  <2>6. FileTypes'
    BY <1>1, <1>2, <2>2, <2>5 DEF FileTypes
  <2>4. ASSUME NEW u \in Downloads PROVE StateOK(u)' /\ PlaceOK(u)'
    BY <1>2, <2>2, <2>4, OthersStay
  <2> QED
    BY <1>3, <2>6, <2>4 DEF DiskInv
<1> QED
  BY <1>4, <1>5

LEMMA MoveDisk ==
  ASSUME DiskInv, NEW t \in Downloads, Downloader!Move(t)
  PROVE  DiskInv'
<1> USE DEF Downloader!given, Downloader!counters, Downloader!NoPath
<1>1. /\ FileTypes /\ CacheOK /\ StateOK(t) /\ PlaceOK(t) /\ task[t] = "moving"
      /\ path[t] \in Downloader!Paths /\ handle[t] = <<>> /\ tries[t] >= 1
      /\ disk[path[t]] \in Downloader!FileStates
  BY DEF DiskInv, FileTypes, StateOK, HasResult, Downloader!Move
<1>2. /\ UNCHANGED <<file, downloaded_cache, tries, exhausted>>
      /\ task' = [task EXCEPT ![t] = "completed"] /\ path' = [path EXCEPT ![t] = <<>>]
  BY DEF Downloader!Move, Downloader!Completed
<1>3. /\ output' = [output EXCEPT ![t] = disk[path[t]]]
      /\ disk' = [disk EXCEPT ![path[t]] = Downloader!NoFile]
      /\ \E goes \in {t, <<>>} :
           handle' = [u \in Downloads |-> IF handle[u] = path[t] THEN goes ELSE handle[u]]
  BY DEF Downloader!Move, Downloader!Completed
<1>4. FileTypes'
  <2>1. handle' \in [Downloads -> Downloader!Paths \cup Downloads \cup {<<>>}]
    <3> DEFINE S == Downloader!Paths \cup Downloads \cup {<<>>}
    <3>1. handle \in [Downloads -> S] /\ t \in S /\ <<>> \in S
      BY <1>1 DEF FileTypes
    <3> HIDE DEF S
    <3>2. ASSUME NEW goes \in S,
                 handle' = [u \in Downloads |->
                              IF handle[u] = path[t] THEN goes ELSE handle[u]]
          PROVE  handle' \in [Downloads -> S]
      BY <3>1, <3>2
    <3> QED
      BY <1>3, <3>1, <3>2 DEF S
  <2>2. /\ disk' \in [Downloader!Paths -> Downloader!FileStates]
        /\ output' \in [Downloads -> Downloader!FileStates]
    BY <1>1, <1>3, FileFacts DEF FileTypes
  <2>3. task' \in [Downloads -> Downloader!Places]
    BY <1>1, <1>2 DEF FileTypes, Downloader!Places
  <2>4. path' \in [Downloads -> Downloader!Paths \cup {<<>>}]
    BY <1>1, <1>2 DEF FileTypes
  <2> QED
    BY <1>1, <1>2, <2>1, <2>2, <2>3, <2>4 DEF FileTypes
<1>5. CacheOK'
  BY <1>1, <1>2, SameFile DEF CacheOK
<1>6. ASSUME NEW u \in Downloads PROVE StateOK(u)' /\ PlaceOK(u)'
  <2>1. handle'[u] = handle[u] \/ (handle[u] = path[t] /\ handle'[u] \in {t, <<>>})
    BY <1>3, <1>6
  <2>2. handle'[u] \in Downloader!Paths => handle'[u] = handle[u]
    BY <2>1, DownloaderNumbers
  <2>3. handle'[u] # <<>> => handle[u] # <<>>
    BY <1>1, <2>1, DownloaderNumbers
  <2>4. StateOK(u) /\ PlaceOK(u) /\ Own(u)' = Own(u)
    BY <1>6 DEF DiskInv, Own
  <2>5. CASE u = t
    <3>1. task'[t] = "completed" /\ path'[t] = <<>> /\ tries'[t] = tries[t]
      BY <1>1, <1>2 DEF FileTypes
    <3>2. handle'[t] = <<>>
      BY <1>1, <2>1, <2>5, DownloaderNumbers
    <3> QED
      BY <1>1, <2>5, <3>1, <3>2, DownloaderNumbers DEF StateOK, PlaceOK, HasResult
  <2>6. CASE u # t
    <3>1. UNCHANGED <<task[u], path[u], tries[u], file[u]>>
      BY <1>1, <1>2, <1>6, <2>6 DEF FileTypes
    <3> QED
      BY <1>2, <2>2, <2>3, <2>4, <3>1, SameFile DEF StateOK, PlaceOK, HasResult
  <2> QED
    BY <2>5, <2>6
<1> QED
  BY <1>4, <1>5, <1>6 DEF DiskInv

LEMMA FailedMoveDisk ==
  ASSUME DiskInv, NEW t \in Downloads, FailedMove(t)
  PROVE  DiskInv'
<1>1. FileTypes /\ CacheOK /\ StateOK(t) /\ PlaceOK(t) /\ path[t] \in Downloader!Paths
  BY DEF DiskInv, FileTypes, StateOK, HasResult, FailedMove
<1>2. output' \in [Downloads -> Downloader!FileStates]
  <2>1. disk[path[t]] # Downloader!NoFile => disk[path[t]].of \in Files
    BY <1>1, FileFacts DEF FileTypes
  <2>2. \A n \in Nat : disk[path[t]].of \in Files =>
          [of |-> disk[path[t]].of, size |-> n] \in Downloader!FileStates
    BY FileFacts
  <2> QED
    BY <1>1, <2>1, <2>2 DEF FileTypes, FailedMove
<1>3. FileTypes'
  BY <1>1, <1>2 DEF FileTypes, FailedMove, Downloader!Places
<1>4. CacheOK'
  BY <1>1, SameFile DEF CacheOK, FailedMove
<1>5. ASSUME NEW u \in Downloads PROVE StateOK(u)' /\ PlaceOK(u)'
  <2>1. CASE u = t
    <3>1. task'[t] = "completed" /\ task[t] = "moving"
      BY <1>1 DEF FailedMove, FileTypes
    <3>2. UNCHANGED <<file, path, handle, tries>> /\ Own(t)' = Own(t)
      BY DEF FailedMove, Own
    <3>3. Belongs(path[t], file[t])'
      BY <1>1, <3>1, <3>2, SameFile DEF PlaceOK, StateOK, HasResult
    <3>4. StateOK(t)'
      BY <1>1, <3>1, <3>2 DEF StateOK, HasResult
    <3>5. PlaceOK(t)'
      BY <1>1, <3>1, <3>2, <3>3 DEF PlaceOK
    <3> QED
      BY <2>1, <3>4, <3>5
  <2>2. CASE u # t
    BY <1>1, <1>5, <2>2, OthersStay DEF FailedMove, FileTypes
  <2> QED
    BY <2>1, <2>2
<1> QED
  BY <1>3, <1>4, <1>5 DEF DiskInv

LEMMA DiskSteps == DiskInv /\ [Downloader!Next]_fileVars => DiskInv'
<1> SUFFICES ASSUME DiskInv, [Downloader!Next]_fileVars PROVE DiskInv'
  OBVIOUS
<1>1. CASE UNCHANGED fileVars
  BY <1>1 DEF fileVars, DiskInv, FileTypes, CacheOK, StateOK, PlaceOK, Belongs, Own,
     Downloader!Paths, Downloader!Ids, Downloader!FileStates, Downloader!NoFile,
     Downloader!Places, HasResult, Numbered
<1>2. ASSUME NEW t \in Downloads, FileStep(t) PROVE DiskInv'
  BY <1>2, EndingDisk, StartDisk, NoteDisk, WriteDisk, MoveDisk, FailedMoveDisk DEF FileStep
<1> QED
  BY <1>1, <1>2, FileSteps

\* When an id tells the Telegram file, so does the place of a temporary file.
NamesOK ==
    /\ \A p \in Downloader!Paths :
         disk[p] # Downloader!NoFile => Belongs(p, disk[p].of)
    /\ \A t \in Downloads :
         /\ handle[t] \in Downloads => file[handle[t]] = file[t]
         /\ output[t] # Downloader!NoFile => output[t].of = file[t]

NamesInv == Downloader!IdsTellFiles => NamesOK

LEMMA OneOwner ==
  ASSUME Downloader!IdsTellFiles, NEW p, NEW f, NEW g, Belongs(p, f), Belongs(p, g)
  PROVE  f = g
  BY DEF Downloader!IdsTellFiles, Belongs, Own, Numbered

LEMMA NamesStart == Downloader!Init => NamesInv
<1> SUFFICES ASSUME Downloader!Init PROVE NamesOK
  BY DEF NamesInv
<1> QED
  BY DownloaderNumbers DEF Downloader!Init, Downloader!NoPath, NamesOK

LEMMA NamesSteps ==
  ASSUME DiskInv, NamesInv, [Downloader!Next]_fileVars
  PROVE  NamesInv'
<1> USE DEF Downloader!given, Downloader!counters
<1>1. file' = file
  <2>1. ASSUME NEW t \in Downloads, FileStep(t) PROVE file' = file
    BY <2>1 DEF FileStep, Ending, Leaves, Accepting, Downloader!Start, Downloader!Note,
       Downloader!Open, Downloader!Write, Downloader!Move, Downloader!Completed, FailedMove
  <2> QED
    BY <2>1, FileSteps DEF fileVars
<1> SUFFICES ASSUME Downloader!IdsTellFiles PROVE NamesOK'
  BY <1>1 DEF NamesInv, Downloader!IdsTellFiles
<1>2. NamesOK /\ FileTypes
  BY DEF NamesInv, DiskInv
<1>3. ASSUME UNCHANGED <<file, disk, output, handle>> PROVE NamesOK'
  <2>1. Downloader!Paths' = Downloader!Paths /\ Downloader!NoFile' = Downloader!NoFile
    BY DEF Downloader!Paths, Downloader!Ids, Downloader!NoFile
  <2> QED
    BY <1>2, <1>3, <2>1, SameFile DEF NamesOK
<1>4. ASSUME NEW t \in Downloads, Ending(t) PROVE NamesOK'
  <2>1. /\ output' = output /\ handle' = [handle EXCEPT ![t] = <<>>]
        /\ disk' = disk \/ disk' = [disk EXCEPT ![Downloader!TempPath(t)] = Downloader!NoFile]
    BY <1>4 DEF Ending, Leaves, FromScratch
  <2>2. ASSUME NEW p \in Downloader!Paths
        PROVE  (disk[p] # Downloader!NoFile => Belongs(p, disk[p].of))'
    BY <1>1, <1>2, <2>1, <2>2, SameFile DEF NamesOK, FileTypes
  <2>3. ASSUME NEW u \in Downloads
        PROVE  /\ handle'[u] \in Downloads => file[handle'[u]] = file[u]
               /\ output'[u] # Downloader!NoFile => output'[u].of = file[u]
    BY <1>2, <2>1, <2>3, DownloaderNumbers DEF NamesOK, FileTypes
  <2> QED
    BY <1>1, <2>2, <2>3 DEF NamesOK
<1>5. ASSUME NEW t \in Downloads, Downloader!Open(t) PROVE NamesOK'
  <2> DEFINE p == Downloader!TempPath(t)
  <2>1. /\ output' = output /\ handle' = [handle EXCEPT ![t] = p]
        /\ disk' = [disk EXCEPT ![p] = [of |-> file[t], size |-> 0]]
        /\ p \in Downloader!Paths /\ p \in Own(t)
    BY <1>2, <1>5, TempPathIsOwn, OwnPaths DEF Downloader!Open, DiskInv, StateOK
  <2>2. Belongs(p, file[t])
    BY <2>1 DEF Belongs
  <2> HIDE DEF p
  <2>3. ASSUME NEW q \in Downloader!Paths
        PROVE  (disk[q] # Downloader!NoFile => Belongs(q, disk[q].of))'
    <3>1. CASE q = p
      <4>1. disk'[q].of = file[t]
        BY <1>2, <2>1, <3>1 DEF FileTypes
      <4> QED
        BY <1>1, <2>2, <3>1, <4>1, SameFile
    <3>2. CASE q # p
      <4>1. disk'[q] = disk[q]
        BY <1>2, <2>1, <2>3, <3>2 DEF FileTypes
      <4> QED
        BY <1>1, <1>2, <2>3, <4>1, SameFile DEF NamesOK
    <3> QED
      BY <3>1, <3>2
  <2>4. ASSUME NEW u \in Downloads
        PROVE  /\ handle'[u] \in Downloads => file[handle'[u]] = file[u]
               /\ output'[u] # Downloader!NoFile => output'[u].of = file[u]
    BY <1>2, <2>1, <2>4, DownloaderNumbers DEF NamesOK, FileTypes
  <2> QED
    BY <1>1, <2>3, <2>4 DEF NamesOK
<1>6. ASSUME NEW t \in Downloads, NEW s \in Received, Downloader!Write(t, s) PROVE NamesOK'
  <2>1. handle' = handle
    BY <1>6 DEF Downloader!Write
  <2>2. CASE /\ handle[t] \in Downloader!Paths /\ output' = output
             /\ disk' = [disk EXCEPT ![handle[t]] = [of |-> file[t], size |-> s]]
    <3>1. Belongs(handle[t], file[t])
      BY <2>2 DEF DiskInv, PlaceOK, Belongs
    <3>2. ASSUME NEW q \in Downloader!Paths
          PROVE  (disk[q] # Downloader!NoFile => Belongs(q, disk[q].of))'
      <4>1. CASE q = handle[t]
        <5>1. disk'[q].of = file[t]
          BY <1>2, <2>2, <4>1 DEF FileTypes
        <5> QED
          BY <1>1, <3>1, <4>1, <5>1, SameFile
      <4>2. CASE q # handle[t]
        <5>1. disk'[q] = disk[q]
          BY <1>2, <2>2, <3>2, <4>2 DEF FileTypes
        <5> QED
          BY <1>1, <1>2, <3>2, <5>1, SameFile DEF NamesOK
      <4> QED
        BY <4>1, <4>2
    <3> QED
      BY <1>1, <1>2, <2>1, <2>2, <3>2 DEF NamesOK
  <2>3. CASE /\ handle[t] \in Downloads /\ disk' = disk
             /\ output' = [output EXCEPT ![handle[t]] = [of |-> file[t], size |-> s]]
    <3>1. file[handle[t]] = file[t]
      BY <1>2, <2>3 DEF NamesOK
    <3>2. ASSUME NEW q \in Downloader!Paths
          PROVE  (disk[q] # Downloader!NoFile => Belongs(q, disk[q].of))'
      BY <1>1, <1>2, <2>3, <3>2, SameFile DEF NamesOK
    <3>3. ASSUME NEW u \in Downloads
          PROVE  output'[u] # Downloader!NoFile => output'[u].of = file[u]
      BY <1>2, <2>3, <3>1, <3>3 DEF NamesOK, FileTypes
    <3> QED
      BY <1>1, <1>2, <2>1, <3>2, <3>3 DEF NamesOK
  <2> QED
    BY <1>6, <2>2, <2>3 DEF Downloader!Write
<1>7. ASSUME NEW t \in Downloads, Downloader!Move(t) PROVE NamesOK'
  <2>1. /\ path[t] \in Downloader!Paths /\ Belongs(path[t], file[t])
        /\ disk[path[t]] # Downloader!NoFile
    BY <1>2, <1>7, DownloaderNumbers
       DEF DiskInv, FileTypes, StateOK, PlaceOK, HasResult, Downloader!Move, Downloader!Exists
  <2>2. disk[path[t]].of = file[t]
    BY <1>2, <2>1, OneOwner DEF NamesOK
  <2>3. /\ output' = [output EXCEPT ![t] = disk[path[t]]]
        /\ disk' = [disk EXCEPT ![path[t]] = Downloader!NoFile]
        /\ \A u \in Downloads :
             handle'[u] = handle[u] \/ (handle[u] = path[t] /\ handle'[u] \in {t, <<>>})
    BY <1>7 DEF Downloader!Completed, Downloader!Move, Downloader!NoPath
  <2>4. ASSUME NEW q \in Downloader!Paths
        PROVE  (disk[q] # Downloader!NoFile => Belongs(q, disk[q].of))'
    BY <1>1, <1>2, <2>3, <2>4, SameFile DEF NamesOK, FileTypes
  <2>5. ASSUME NEW u \in Downloads PROVE handle'[u] \in Downloads => file[handle'[u]] = file[u]
    <3>1. CASE handle'[u] = handle[u]
      BY <1>2, <2>5, <3>1 DEF NamesOK
    <3>2. CASE handle[u] = path[t] /\ handle'[u] \in {t, <<>>}
      <4>1. Belongs(path[t], file[u])
        BY <2>1, <2>5, <3>2 DEF DiskInv, PlaceOK, Belongs
      <4>2. file[u] = file[t]
        BY <2>1, <4>1, OneOwner
      <4> QED
        BY <3>2, <4>2, DownloaderNumbers
    <3> QED
      BY <2>3, <2>5, <3>1, <3>2
  <2>6. ASSUME NEW u \in Downloads
        PROVE  output'[u] # Downloader!NoFile => output'[u].of = file[u]
    BY <1>2, <2>2, <2>3, <2>6 DEF NamesOK, FileTypes
  <2> QED
    BY <1>1, <2>4, <2>5, <2>6 DEF NamesOK
<1>11. ASSUME NEW t \in Downloads, FailedMove(t) PROVE NamesOK'
  <2>1. UNCHANGED <<file, disk, handle>>
    BY <1>11 DEF FailedMove
  <2>2. ASSUME NEW u \in Downloads
        PROVE  output'[u] # Downloader!NoFile => output'[u].of = file[u]
    <3>1. CASE disk[path[t]] = Downloader!NoFile
      BY <1>2, <1>11, <2>2, <3>1 DEF FailedMove, NamesOK
    <3>2. CASE disk[path[t]] # Downloader!NoFile
      <4>1. path[t] \in Downloader!Paths /\ Belongs(path[t], file[t])
        BY <1>2, <1>11 DEF DiskInv, FileTypes, StateOK, PlaceOK, HasResult, FailedMove
      <4>2. disk[path[t]].of = file[t]
        BY <1>2, <3>2, <4>1, OneOwner DEF NamesOK
      <4> QED
        BY <1>2, <1>11, <2>2, <4>2 DEF FailedMove, NamesOK, FileTypes
    <3> QED
      BY <3>1, <3>2
  <2>3. Downloader!Paths' = Downloader!Paths /\ Downloader!NoFile' = Downloader!NoFile
    BY DEF Downloader!Paths, Downloader!Ids, Downloader!NoFile
  <2>4. \A q, f : Belongs(q, f)' <=> Belongs(q, f)
    BY <2>1, SameFile
  <2> QED
    BY <1>2, <2>1, <2>2, <2>3, <2>4 DEF NamesOK
<1>8. ASSUME NEW t \in Downloads, Accepting(t) \/ Downloader!Start(t) \/ Downloader!Note(t)
      PROVE  NamesOK'
  BY <1>3, <1>8 DEF Accepting, Downloader!Start, Downloader!Note
<1>9. CASE UNCHANGED fileVars
  BY <1>3, <1>9 DEF fileVars
<1>10. ASSUME NEW t \in Downloads, FileStep(t) PROVE NamesOK'
  BY <1>4, <1>5, <1>6, <1>7, <1>8, <1>10, <1>11 DEF FileStep
<1> QED
  BY <1>9, <1>10, FileSteps

\* A message that shares neither its file nor its id: nobody else writes to its
\* output, what it has is its own and whole, and its file is in the cache only for itself.
OfAlone(a) ==
    /\ output[a] # Downloader!NoFile => output[a].of = file[a]
    /\ \A p \in Own(a) : disk[p] # Downloader!NoFile => disk[p].of = file[a]
AloneOK(a) ==
    /\ OfAlone(a)
    /\ \A u \in Downloads : handle[u] # a
    /\ task[a] \in HasResult => path[a] \in Own(a) /\ Enough(a, disk[path[a]], exhausted)
    /\ task[a] = "completed" =>
         /\ path[a] = <<>> => Enough(a, output[a], exhausted)
         /\ path[a] # <<>> => path[a] \in Own(a) /\ Enough(a, disk[path[a]], exhausted)
    /\ downloaded_cache[file[a]] # <<>> => task[a] \in {"returned", "moving", "completed"}

AloneInv == \A a \in Downloads : Downloader!Alone(a) => AloneOK(a)

LEMMA AlonePaths ==
  ASSUME NEW a \in Downloads, Downloader!Alone(a)
  PROVE  /\ \A p : Belongs(p, file[a]) => p \in Own(a)
         /\ \A u \in Downloads \ {a} :
              /\ Own(u) \cap Own(a) = {} /\ file[u] # file[a]
              /\ \A p : Belongs(p, file[u]) => p \notin Own(a)
  BY OwnPaths DEF Downloader!Alone, Belongs

LEMMA AloneStart == Downloader!Init => AloneInv
<1> SUFFICES ASSUME Downloader!Init, NEW a \in Downloads, Downloader!Alone(a)
             PROVE  AloneOK(a)
  BY DEF AloneInv
<1>1. OfAlone(a)
  BY OwnPaths DEF Downloader!Init, OfAlone
<1> QED
  BY <1>1, DownloaderNumbers DEF Downloader!Init, Downloader!NoPath, AloneOK, HasResult

\* What another task does, it does elsewhere.
LEMMA AloneStays ==
  ASSUME DiskInv, NEW a \in Downloads, Downloader!Alone(a), AloneOK(a), file' = file,
         \A p \in Own(a) : disk'[p] = disk[p],
         UNCHANGED <<task[a], path[a], output[a], downloaded_cache[file[a]]>>,
         \A u \in Downloads : handle'[u] # a,
         exhausted \subseteq exhausted'
  PROVE  AloneOK(a)'
<1>1. Own(a)' = Own(a)
  BY DEF Own
<1> QED
  BY <1>1 DEF AloneOK, OfAlone, HasResult, Enough, Downloader!NoFile

LEMMA AloneOther ==
  ASSUME DiskInv, NEW a \in Downloads, Downloader!Alone(a), AloneOK(a),
         NEW t \in Downloads \ {a}, FileStep(t)
  PROVE  AloneOK(a)'
<1> USE DEF Downloader!given, Downloader!counters
<1>1. /\ FileTypes /\ StateOK(t) /\ PlaceOK(t) /\ a # t
      /\ Own(t) \cap Own(a) = {} /\ file[t] # file[a]
      /\ Own(t) \subseteq Downloader!Paths /\ Own(a) \subseteq Downloader!Paths
      /\ file[t] \in Files /\ file[a] \in Files
  BY AlonePaths, OwnPaths DEF DiskInv, FileTypes
<1>2. CASE Ending(t)
  <2>1. tries[t] >= 1 /\ Downloader!TempPath(t) \in Own(t)
    BY <1>1, <1>2, TempPathIsOwn DEF Ending, StateOK
  <2>2. /\ UNCHANGED <<file, output, downloaded_cache>>
        /\ exhausted \subseteq exhausted'
        /\ handle' = [handle EXCEPT ![t] = <<>>]
        /\ disk' = disk \/ disk' = [disk EXCEPT ![Downloader!TempPath(t)] = Downloader!NoFile]
        /\ \E l, p : task' = [task EXCEPT ![t] = l] /\ path' = [path EXCEPT ![t] = p]
    BY <1>2 DEF Ending, Leaves, FromScratch
  <2>3. \A p \in Own(a) : disk'[p] = disk[p]
    BY <1>1, <2>1, <2>2 DEF FileTypes
  <2>4. \A u \in Downloads : handle'[u] # a
    BY <1>1, <2>2, DownloaderNumbers DEF FileTypes, AloneOK
  <2>5. UNCHANGED <<task[a], path[a]>>
    BY <1>1, <2>2 DEF FileTypes
  <2> QED
    BY <2>2, <2>3, <2>4, <2>5, AloneStays
<1>3. CASE Accepting(t) \/ Downloader!Start(t) \/ Downloader!Note(t)
  <2>1. /\ UNCHANGED <<file, disk, output, handle, exhausted>>
        /\ \E l, p : task' = [task EXCEPT ![t] = l] /\ (path' = path \/ path' = [path EXCEPT ![t] = p])
        /\ \E p : downloaded_cache' = downloaded_cache
                    \/ downloaded_cache' = [downloaded_cache EXCEPT ![file[t]] = p]
    BY <1>3 DEF Accepting, Downloader!Start, Downloader!Note
  <2>2. UNCHANGED <<task[a], path[a], downloaded_cache[file[a]]>>
    BY <1>1, <2>1 DEF FileTypes
  <2> QED
    BY <2>1, <2>2, AloneStays DEF AloneOK
<1>4. CASE Downloader!Open(t)
  <2>1. tries[t] >= 1 /\ Downloader!TempPath(t) \in Own(t) /\ Downloader!TempPath(t) \in Downloader!Paths
    BY <1>1, <1>4, TempPathIsOwn DEF Downloader!Open, StateOK
  <2>2. /\ UNCHANGED <<file, output, downloaded_cache, task, path, exhausted>>
        /\ handle' = [handle EXCEPT ![t] = Downloader!TempPath(t)]
        /\ disk' = [disk EXCEPT ![Downloader!TempPath(t)] = [of |-> file[t], size |-> 0]]
    BY <1>4 DEF Downloader!Open
  <2>3. \A p \in Own(a) : disk'[p] = disk[p]
    BY <1>1, <2>1, <2>2 DEF FileTypes
  <2>4. \A u \in Downloads : handle'[u] # a
    BY <1>1, <2>1, <2>2, DownloaderNumbers DEF FileTypes, AloneOK
  <2> QED
    BY <2>2, <2>3, <2>4, AloneStays
<1>5. ASSUME NEW s \in Received, Downloader!Write(t, s) PROVE AloneOK(a)'
  <2>1. UNCHANGED <<file, downloaded_cache, task, path, exhausted, handle>>
    BY <1>5 DEF Downloader!Write
  <2>2. \A p \in Own(a) : disk'[p] = disk[p]
    BY <1>1, <1>5 DEF Downloader!Write, FileTypes, PlaceOK
  <2>3. output'[a] = output[a]
    BY <1>1, <1>5 DEF Downloader!Write, FileTypes, AloneOK
  <2> QED
    BY <2>1, <2>2, <2>3, AloneStays DEF AloneOK
<1>6. CASE Downloader!Move(t)
  <2>1. path[t] \in Downloader!Paths /\ path[t] \notin Own(a)
    BY <1>1, <1>6, AlonePaths DEF Downloader!Completed, Downloader!Move, StateOK, PlaceOK, HasResult, FileTypes
  <2>2. /\ UNCHANGED <<file, downloaded_cache, exhausted>>
        /\ task' = [task EXCEPT ![t] = "completed"] /\ path' = [path EXCEPT ![t] = <<>>]
    BY <1>6 DEF Downloader!Completed, Downloader!Move, Downloader!NoPath
  <2>3. /\ output' = [output EXCEPT ![t] = disk[path[t]]]
        /\ disk' = [disk EXCEPT ![path[t]] = Downloader!NoFile]
        /\ \A u \in Downloads : handle'[u] \in {handle[u], t, <<>>}
    BY <1>6 DEF Downloader!Completed, Downloader!Move, Downloader!NoPath
  <2>4. \A p \in Own(a) : disk'[p] = disk[p]
    BY <1>1, <2>1, <2>3 DEF FileTypes
  <2>5. \A u \in Downloads : handle'[u] # a
    BY <1>1, <2>3, DownloaderNumbers DEF AloneOK
  <2>6. UNCHANGED <<task[a], path[a], output[a]>>
    BY <1>1, <2>2, <2>3 DEF FileTypes
  <2> QED
    BY <2>2, <2>4, <2>5, <2>6, AloneStays
<1>7. CASE FailedMove(t)
  <2>1. UNCHANGED <<task[a], path[a], output[a]>>
    BY <1>1, <1>7 DEF FailedMove, FileTypes
  <2>2. /\ UNCHANGED <<file, disk, handle, downloaded_cache, exhausted>>
        /\ \A u \in Downloads : handle[u] # a
    BY <1>7 DEF FailedMove, AloneOK
  <2> QED
    BY <2>1, <2>2, AloneStays
<1> QED
  BY <1>2, <1>3, <1>4, <1>5, <1>6, <1>7 DEF FileStep

LEMMA FileStays ==
  ASSUME NEW t \in Downloads, FileStep(t)
  PROVE  file' = file /\ \A u \in Downloads : Own(u)' = Own(u)
<1>1. file' = file
  BY DEF FileStep, Ending, Leaves, Accepting, Downloader!Start, Downloader!Note,
     Downloader!Open, Downloader!Write, Downloader!Move, Downloader!Completed, FailedMove,
     Downloader!given
<1> QED
  BY <1>1 DEF Own

LEMMA OfSelf ==
  ASSUME DiskInv, NEW a \in Downloads, Downloader!Alone(a), AloneOK(a), FileStep(a)
  PROVE  OfAlone(a)'
<1> USE DEF Downloader!given, Downloader!counters, Downloader!NoPath
<1>1. /\ FileTypes /\ StateOK(a) /\ PlaceOK(a) /\ OfAlone(a)
      /\ Own(a) \subseteq Downloader!Paths
  BY OwnPaths DEF DiskInv, AloneOK
<1>2. file' = file /\ Own(a)' = Own(a)
  BY FileStays
<1>3. (output'[a] # Downloader!NoFile => output'[a].of = file[a])
  <2>1. CASE output'[a] = output[a]
    BY <1>1, <2>1 DEF OfAlone
  <2>2. CASE Downloader!Move(a)
    <3>1. path[a] \in Own(a) /\ output'[a] = disk[path[a]]
      BY <1>1, <2>2 DEF Downloader!Move, AloneOK, HasResult, FileTypes
    <3> QED
      BY <1>1, <3>1 DEF OfAlone
  <2>3. CASE FailedMove(a)
    <3>1. path[a] \in Own(a)
      BY <1>1, <2>3 DEF FailedMove, AloneOK, HasResult
    <3>2. disk[path[a]] # Downloader!NoFile => disk[path[a]].of = file[a]
      BY <1>1, <3>1 DEF OfAlone
    <3> QED
      BY <1>1, <2>1, <2>3, <3>2 DEF FailedMove, FileTypes
  <2>4. ASSUME NEW s \in Received, Downloader!Write(a, s) PROVE output'[a] = output[a]
    BY <1>1, <2>4 DEF Downloader!Write, FileTypes, AloneOK
  <2> QED
    BY <2>1, <2>2, <2>3, <2>4 DEF FileStep, Ending, Leaves, Accepting, Downloader!Start,
       Downloader!Note, Downloader!Open
<1>4. ASSUME NEW p \in Own(a), disk'[p] # Downloader!NoFile PROVE disk'[p].of = file[a]
  <2>1. CASE disk'[p] = disk[p]
    BY <1>1, <1>4, <2>1 DEF OfAlone
  <2>2. CASE Ending(a)
    <3>1. disk' = disk \/ disk' = [disk EXCEPT ![Downloader!TempPath(a)] = Downloader!NoFile]
      BY <2>2 DEF Ending, FromScratch
    <3> QED
      BY <1>1, <1>4, <2>1, <3>1 DEF FileTypes
  <2>3. CASE Downloader!Open(a)
    BY <1>1, <1>4, <2>1, <2>3 DEF Downloader!Open, FileTypes
  <2>4. ASSUME NEW s \in Received, Downloader!Write(a, s) PROVE disk'[p].of = file[a]
    BY <1>1, <1>4, <2>1, <2>4 DEF Downloader!Write, FileTypes
  <2>5. CASE Downloader!Move(a)
    BY <1>1, <1>4, <2>1, <2>5 DEF Downloader!Move, FileTypes
  <2> QED
    BY <2>1, <2>2, <2>3, <2>4, <2>5 DEF FileStep, FailedMove, Accepting, Downloader!Start,
       Downloader!Note
<1> QED
  BY <1>2, <1>3, <1>4 DEF OfAlone, Downloader!NoFile

LEMMA AloneSelf ==
  ASSUME DiskInv, NEW a \in Downloads, Downloader!Alone(a), AloneOK(a), FileStep(a)
  PROVE  AloneOK(a)'
<1> USE DEF Downloader!given, Downloader!counters, Downloader!NoPath
<1>1. /\ FileTypes /\ CacheOK /\ StateOK(a) /\ PlaceOK(a) /\ file[a] \in Files
      /\ Own(a) \subseteq Downloader!Paths
  BY OwnPaths DEF DiskInv, FileTypes
<1>0. OfAlone(a)'
  BY OfSelf
<1>2. ASSUME file' = file PROVE Own(a)' = Own(a)
  BY <1>2 DEF Own
<1>3. CASE Ending(a)
  <2>1. tries[a] >= 1 /\ Downloader!TempPath(a) \in Own(a)
    BY <1>1, <1>3, TempPathIsOwn DEF Ending, StateOK
  <2>2. /\ UNCHANGED <<file, output, downloaded_cache>>
        /\ handle' = [handle EXCEPT ![a] = <<>>]
    BY <1>3 DEF Ending, Leaves
  <2>3. \A u \in Downloads : handle'[u] # a
    BY <1>1, <2>2, DownloaderNumbers DEF FileTypes, AloneOK
  <2>4. downloaded_cache[file[a]] = <<>> /\ task[a] # "returned"
    <3>1. task[a] # "returned"
      BY <1>3 DEF Ending, AloneOK, HasResult, Enough
    <3> QED
      BY <1>3, <3>1 DEF Ending, AloneOK
  <2>5. \/ task'[a] \notin HasResult /\ task'[a] # "completed"
        \/ /\ task'[a] = "downloaded" /\ path'[a] = Downloader!TempPath(a) /\ disk' = disk
           /\ Enough(a, disk[Downloader!TempPath(a)], exhausted')
    BY <1>1, <1>3, <2>4 DEF Ending, Leaves, FileTypes, HasResult
  <2>6. CASE task'[a] \notin HasResult /\ task'[a] # "completed"
    BY <1>0, <2>2, <2>3, <2>4, <2>6 DEF AloneOK, HasResult
  <2>7. CASE /\ task'[a] = "downloaded" /\ path'[a] = Downloader!TempPath(a) /\ disk' = disk
             /\ Enough(a, disk[Downloader!TempPath(a)], exhausted')
    <3>1. Enough(a, disk[path[a]], exhausted)'
      BY <2>2, <2>7 DEF Enough, Downloader!NoFile
    <3>2. path'[a] \in Own(a)'
      BY <1>2, <2>1, <2>2, <2>7
    <3> QED
      BY <1>0, <2>2, <2>3, <2>4, <2>7, <3>1, <3>2 DEF AloneOK, HasResult
  <2> QED
    BY <2>5, <2>6, <2>7
<1>4. CASE Downloader!Start(a)
  <2>1. downloaded_cache[file[a]] = <<>>
    BY <1>4 DEF AloneOK, Downloader!Start
  <2>2. task' = [task EXCEPT ![a] = "head"]
        /\ UNCHANGED <<file, disk, output, downloaded_cache, handle, exhausted>>
    BY <1>4, <2>1 DEF Downloader!Start
  <2>3. task'[a] = "head"
    BY <1>1, <2>2 DEF FileTypes
  <2> QED
    BY <1>0, <2>1, <2>2, <2>3 DEF AloneOK, HasResult
<1>5. CASE Downloader!Note(a) \/ Accepting(a)
  <2>1. /\ UNCHANGED <<file, disk, output, handle, path, exhausted>>
        /\ task[a] \in HasResult
        /\ \E l \in {"returned", "moving"} : task' = [task EXCEPT ![a] = l]
    BY <1>5 DEF Downloader!Note, Accepting, HasResult
  <2>2. task'[a] \in {"returned", "moving"}
    BY <1>1, <2>1 DEF FileTypes
  <2> QED
    BY <1>0, <1>2, <2>1, <2>2 DEF AloneOK, HasResult, Enough, Downloader!NoFile
<1>6. CASE Downloader!Open(a)
  <2>1. tries[a] >= 1 /\ Downloader!TempPath(a) \in Downloader!Paths
    BY <1>1, <1>6, TempPathIsOwn DEF Downloader!Open, StateOK
  <2>2. /\ UNCHANGED <<file, output, downloaded_cache, task, path, exhausted>>
        /\ handle' = [handle EXCEPT ![a] = Downloader!TempPath(a)] /\ task[a] = "downloading"
    BY <1>6 DEF Downloader!Open
  <2>3. \A u \in Downloads : handle'[u] # a
    BY <1>1, <2>1, <2>2, DownloaderNumbers DEF FileTypes, AloneOK
  <2> QED
    BY <1>0, <2>2, <2>3 DEF AloneOK, HasResult
<1>7. ASSUME NEW s \in Received, Downloader!Write(a, s) PROVE AloneOK(a)'
  BY <1>0, <1>7 DEF AloneOK, HasResult, Downloader!Write
<1>8. CASE Downloader!Move(a)
  <2>1. /\ path[a] \in Downloader!Paths /\ path[a] \in Own(a) /\ task[a] = "moving"
        /\ Enough(a, disk[path[a]], exhausted)
    BY <1>1, <1>8 DEF Downloader!Completed, Downloader!Move, AloneOK, HasResult
  <2>2. /\ UNCHANGED <<file, downloaded_cache, exhausted>>
        /\ task' = [task EXCEPT ![a] = "completed"]
        /\ output' = [output EXCEPT ![a] = disk[path[a]]]
        /\ \A u \in Downloads :
             handle'[u] = handle[u] \/ (handle[u] = path[a] /\ handle'[u] \in {a, <<>>})
    BY <1>8, <2>1 DEF Downloader!Completed, Downloader!Move, Downloader!Exists, Enough
  <2>3. \A u \in Downloads : handle[u] # path[a]
    <3>1. handle[a] = <<>> /\ path[a] # <<>>
      BY <1>1, <2>1, DownloaderNumbers DEF StateOK
    <3>2. ASSUME NEW u \in Downloads \ {a}, handle[u] = path[a] PROVE FALSE
      BY <2>1, <3>2, AlonePaths DEF DiskInv, PlaceOK
    <3> QED
      BY <3>1, <3>2
  <2>4. \A u \in Downloads : handle'[u] # a
    BY <2>2, <2>3 DEF AloneOK
  <2>5. task'[a] = "completed" /\ output'[a] = disk[path[a]] /\ path'[a] = <<>>
    BY <1>1, <1>8, <2>2 DEF FileTypes, Downloader!Move, Downloader!Completed
  <2> QED
    BY <1>0, <2>1, <2>2, <2>4, <2>5 DEF AloneOK, HasResult, Enough, Downloader!NoFile
<1>9. CASE FailedMove(a)
  <2>1. /\ path[a] # <<>> /\ path[a] \in Own(a) /\ Enough(a, disk[path[a]], exhausted)
        /\ \A u \in Downloads : handle[u] # a
        /\ UNCHANGED <<file, disk, handle, downloaded_cache, path, exhausted>>
    BY <1>1, <1>9 DEF FailedMove, AloneOK, HasResult, StateOK
  <2>2. task'[a] = "completed"
    BY <1>1, <1>9 DEF FailedMove, FileTypes
  <2> QED
    BY <1>0, <1>2, <2>1, <2>2 DEF AloneOK, HasResult, Enough, Downloader!NoFile
<1> QED
  BY <1>3, <1>4, <1>5, <1>6, <1>7, <1>8, <1>9 DEF FileStep

LEMMA AloneSteps ==
  ASSUME DiskInv, AloneInv, [Downloader!Next]_fileVars
  PROVE  AloneInv'
<1>1. CASE UNCHANGED fileVars
  BY <1>1 DEF fileVars, AloneInv, AloneOK, OfAlone, Downloader!Alone, Own, Numbered, Enough, HasResult,
     Downloader!NoFile
<1>2. ASSUME NEW t \in Downloads, FileStep(t), NEW a \in Downloads, Downloader!Alone(a)'
      PROVE  AloneOK(a)'
  <2>1. file' = file
    BY <1>2 DEF FileStep, Ending, Leaves, Accepting, Downloader!Start, Downloader!Note,
       Downloader!Open, Downloader!Write, Downloader!Move, Downloader!Completed, FailedMove,
     Downloader!given
  <2>2. Downloader!Alone(a) /\ AloneOK(a)
    BY <1>2, <2>1 DEF Downloader!Alone, AloneInv
  <2> QED
    BY <1>2, <2>2, AloneOther, AloneSelf
<1> QED
  BY <1>1, <1>2, FileSteps DEF AloneInv

LEMMA CompletedHolds == DiskInv /\ NamesInv /\ AloneInv => CompletedIsWhole
<1> SUFFICES ASSUME DiskInv, NamesInv, AloneInv, NEW t \in Downloads, task[t] = "completed"
             PROVE  /\ Downloader!IdsTellFiles /\ Downloader!Exists(output[t]) =>
                         output[t].of = file[t]
                    /\ Downloader!Alone(t) =>
                         /\ Downloader!Result(t).of = file[t]
                         /\ \/ 10 * Downloader!Result(t).size > 9 * Downloader!Expected(t)
                            \/ t \in exhausted
  BY DEF CompletedIsWhole, Downloader!CompletedIsWhole
<1>1. Downloader!IdsTellFiles /\ Downloader!Exists(output[t]) => output[t].of = file[t]
  BY DEF NamesInv, NamesOK, Downloader!Exists
<1>2. ASSUME Downloader!Alone(t)
      PROVE  /\ Enough(t, Downloader!Result(t), exhausted)
             /\ Downloader!Result(t).of = file[t]
  <2>1. Enough(t, Downloader!Result(t), exhausted) /\ OfAlone(t)
    BY <1>2 DEF AloneInv, AloneOK, Downloader!Result, Downloader!NoPath
  <2>2. Downloader!Result(t) # Downloader!NoFile /\ (path[t] # <<>> => path[t] \in Own(t))
    BY <1>2, <2>1 DEF Enough, AloneInv, AloneOK
  <2> QED
    BY <2>1, <2>2 DEF OfAlone, Downloader!Result, Downloader!NoPath
<1> QED
  BY <1>1, <1>2 DEF Enough, Downloader!Expected

\* A download that is completed and shares nothing has its file as its result, at
\* the output or, after a failing move, still as the temporary file, and nobody
\* finds another message's file at its output: for any number of messages, any
\* files and sizes and any limits of the downloader.
THEOREM CompletedAlwaysWhole == TransfersSpec => []CompletedIsWhole
<1> DEFINE Inv == DiskInv /\ NamesInv /\ AloneInv
<1>1. TransfersInit => Inv
  BY DiskStarts, NamesStart, AloneStart DEF TransfersInit
<1>2. Inv /\ [TransfersNext]_<<which, vars, queueVars, fileVars>> => Inv'
  <2> SUFFICES ASSUME Inv, [TransfersNext]_<<which, vars, queueVars, fileVars>>
               PROVE  Inv'
    OBVIOUS
  <2>1. [Downloader!Next]_fileVars
    BY DEF TransfersNext, OfQueue
  <2> QED
    BY <2>1, DiskSteps, NamesSteps, AloneSteps
<1>3. Inv => CompletedIsWhole
  BY CompletedHolds DEF DiskInv
<1> QED
  BY <1>1, <1>2, <1>3, PTL DEF TransfersSpec

-----------------------------------------------------------------------------
(* Messages that share a file                                              *)

\* The file f has been moved to the output of a message.
Out(f) == \E u \in Downloads : /\ file[u] = f /\ output[u] # Downloader!NoFile
                               /\ task[u] = "completed" /\ path[u] = <<>>

\* The temporary file p is there, and the message it is named after has it for
\* its result: it does not write any more.
Settled(t) == task[t] \in {"returned", "moving", "completed"}
Secure(f, p) ==
    /\ disk[p] # Downloader!NoFile
    /\ \E t \in Downloads : file[t] = f /\ p \in Own(t) /\ Settled(t)

\* Until it has been moved to an output, every path to it, in the cache or in the
\* hands of a task, is good; a task whose move failed keeps such a path.
SharedOK(f) ==
    /\ downloaded_cache[f] # <<>> => Secure(f, downloaded_cache[f])
    /\ \A t \in Downloads : file[t] = f =>
          /\ Settled(t) => Secure(f, path[t])
          /\ task[t] = "downloaded" => disk[path[t]] # Downloader!NoFile

SharedInv == \A f \in Files : Out(f) \/ SharedOK(f)

LEMMA SharedStart == Downloader!Init => SharedInv
  BY DownloaderNumbers
     DEF Downloader!Init, Downloader!NoPath, SharedInv, SharedOK, Settled

LEMMA OutStays ==
  ASSUME DiskInv, NEW t \in Downloads, FileStep(t), NEW f, Out(f)
  PROVE  Out(f)'
<1> USE DEF Downloader!given, Downloader!counters
<1>1. file' = file /\ FileTypes
  BY DEF DiskInv, FileStep, Ending, Leaves, Accepting, Downloader!Start, Downloader!Note,
     Downloader!Open, Downloader!Write, Downloader!Move, Downloader!Completed, FailedMove,
     Downloader!given
<1>2. PICK u \in Downloads : /\ file[u] = f /\ output[u] # Downloader!NoFile
                             /\ task[u] = "completed" /\ path[u] = <<>>
  BY DEF Out
<1>3. output'[u] # Downloader!NoFile
  <2>1. CASE output' = output
    BY <1>2, <2>1 DEF Downloader!NoFile
  <2>2. ASSUME NEW s \in Received, Downloader!Write(t, s), output' # output
        PROVE  output'[u] # Downloader!NoFile
    <3>1. /\ output' = [output EXCEPT ![handle[t]] = [of |-> file[t], size |-> s]]
          /\ file[t] \in Files /\ s \in Nat
      BY <1>1, <2>2, DownloaderNumbers DEF Downloader!Write, FileTypes
    <3>2. [of |-> file[t], size |-> s] # Downloader!NoFile
      BY <3>1, FileFacts
    <3> QED
      BY <1>1, <1>2, <3>1, <3>2 DEF FileTypes
  <2>4. CASE FailedMove(t) /\ output' # output
    BY <1>1, <1>2, <2>4 DEF FailedMove, FileTypes
  <2>3. CASE Downloader!Move(t) /\ output' # output
    BY <1>1, <1>2, <2>3 DEF Downloader!Completed, Downloader!Move, Downloader!Exists, FileTypes
  <2> QED
    BY <2>1, <2>2, <2>3, <2>4 DEF FileStep, Ending, Leaves, Accepting, Downloader!Start,
       Downloader!Note, Downloader!Open
<1>4. task'[u] = task[u] /\ path'[u] = path[u]
  BY <1>1, <1>2 DEF FileTypes, FileStep, Ending, Leaves, Accepting, Downloader!Start,
     Downloader!Note, Downloader!Open, Downloader!Write, Downloader!Move,
     Downloader!Completed, FailedMove
<1> QED
  BY <1>1, <1>2, <1>3, <1>4 DEF Out, Downloader!NoFile

\* Messages of one chat have files of their own, so that a task leaves those of
\* another one alone, but for the one it moves.
LEMMA OthersFiles ==
  ASSUME DiskInv, Downloader!DistinctIds, NEW t \in Downloads, FileStep(t),
         NEW u \in Downloads \ {t}, NEW p \in Own(u),
         ~(Downloader!Move(t) /\ file[t] = file[u])
  PROVE  disk'[p] = disk[p] /\ task'[u] = task[u] /\ path'[u] = path[u]
<1> USE DEF Downloader!given, Downloader!counters
<1>1. /\ FileTypes /\ StateOK(t) /\ PlaceOK(t) /\ u # t
      /\ Own(t) \cap Own(u) = {} /\ p \in Downloader!Paths /\ p \notin Own(t)
  BY OwnPaths DEF DiskInv, Downloader!DistinctIds
<1>2. /\ task'[u] = task[u] /\ path'[u] = path[u]
  BY <1>1 DEF FileTypes, FileStep, Ending, Leaves, Accepting, Downloader!Start,
     Downloader!Note, Downloader!Open, Downloader!Write, Downloader!Move,
     Downloader!Completed, FailedMove
<1>3. CASE Ending(t)
  <2>1. Downloader!TempPath(t) \in Own(t)
    BY <1>1, <1>3, TempPathIsOwn DEF Ending, StateOK
  <2> QED
    BY <1>1, <1>2, <1>3, <2>1 DEF Ending, FromScratch, FileTypes
<1>4. CASE Accepting(t) \/ Downloader!Start(t) \/ Downloader!Note(t)
  BY <1>2, <1>4 DEF Accepting, Downloader!Start, Downloader!Note
<1>5. CASE Downloader!Open(t)
  <2>1. Downloader!TempPath(t) \in Own(t)
    BY <1>1, <1>5, TempPathIsOwn DEF Downloader!Open, StateOK
  <2> QED
    BY <1>1, <1>2, <1>5, <2>1 DEF Downloader!Open, FileTypes
<1>6. ASSUME NEW s \in Received, Downloader!Write(t, s) PROVE disk'[p] = disk[p]
  BY <1>1, <1>6 DEF Downloader!Write, FileTypes, PlaceOK
<1>7. CASE Downloader!Move(t)
  <2>1. Belongs(path[t], file[t])
    BY <1>1, <1>7 DEF Downloader!Completed, Downloader!Move, StateOK, PlaceOK, HasResult
  <2>2. p # path[t]
    BY <1>7, <2>1, OwnPaths DEF Belongs, Downloader!DistinctIds
  <2> QED
    BY <1>1, <1>2, <1>7, <2>2 DEF Downloader!Completed, Downloader!Move, FileTypes
<1>8. CASE FailedMove(t)
  BY <1>2, <1>8 DEF FailedMove
<1> QED
  BY <1>2, <1>3, <1>4, <1>5, <1>6, <1>7, <1>8 DEF FileStep

LEMMA SecureStays ==
  ASSUME DiskInv, Downloader!DistinctIds, NEW t \in Downloads, FileStep(t),
         NEW f, SharedOK(f), ~(Downloader!Move(t) /\ file[t] = f),
         NEW p, Secure(f, p)
  PROVE  Secure(f, p)'
<1>1. PICK u \in Downloads : file[u] = f /\ p \in Own(u) /\ Settled(u)
  BY DEF Secure
<1>2. disk[p] # Downloader!NoFile /\ FileTypes
  BY DEF Secure, DiskInv
<1>3. CASE u # t
  <2>1. disk'[p] = disk[p] /\ task'[u] = task[u]
    BY <1>1, <1>3, OthersFiles
  <2> QED
    BY <1>1, <1>2, <2>1, FileStays DEF Secure, Settled, Downloader!NoFile
<1>4. CASE u = t
  <2>1. ~Ending(t)
    BY <1>1, <1>4 DEF Ending, SharedOK, Settled, Secure
  <2>2. Accepting(t) \/ FailedMove(t)
    BY <1>1, <1>4, <2>1 DEF FileStep, Settled, Downloader!Start, Downloader!Note,
       Downloader!Open, Downloader!Write, Downloader!Move
  <2>3. task'[t] \in {"moving", "completed"} /\ disk' = disk
    BY <1>2, <2>2 DEF Accepting, FailedMove, FileTypes
  <2> QED
    BY <1>1, <1>2, <1>4, <2>3, FileStays DEF Secure, Settled, Downloader!NoFile
<1> QED
  BY <1>3, <1>4

LEMMA SharedSelf ==
  ASSUME DiskInv, Downloader!DistinctIds, NEW t \in Downloads, FileStep(t),
         ~Downloader!Move(t), NEW f, f = file[t], SharedOK(f)
  PROVE  /\ Settled(t)' => Secure(f, path[t])'
         /\ task'[t] = "downloaded" => (disk[path[t]] # Downloader!NoFile)'
<1> USE DEF Downloader!given, Downloader!counters, Downloader!NoPath
<1>1. FileTypes /\ StateOK(t) /\ PlaceOK(t)
  BY DEF DiskInv, SharedOK
<1>2. \A p : Secure(f, p) => Secure(f, p)'
  BY SecureStays
<1>3. CASE Ending(t)
  <2>1. task'[t] \notin {"completed", "returned", "moving"}
    BY <1>1, <1>3 DEF Ending, Leaves, FileTypes
  <2>2. task'[t] = "downloaded" => (disk[path[t]] # Downloader!NoFile)'
    BY <1>1, <1>3 DEF Ending, Leaves, FileTypes, Enough, Downloader!NoFile
  <2> QED
    BY <2>1, <2>2 DEF Settled
<1>4. CASE Accepting(t)
  <2>1. task'[t] = "moving" /\ path'[t] = path[t] /\ Secure(f, path[t])
    BY <1>1, <1>4 DEF Accepting, FileTypes, SharedOK, Settled
  <2>2. Secure(f, path[t])'
    BY <1>2, <2>1 DEF Secure
  <2> QED
    BY <2>1, <2>2
<1>5. CASE Downloader!Start(t)
  <2>1. CASE task' = [task EXCEPT ![t] = "head"]
    BY <1>1, <2>1 DEF FileTypes, Settled
  <2>2. CASE ~(task' = [task EXCEPT ![t] = "head"])
    <3>1. /\ task' = [task EXCEPT ![t] = "returned"]
          /\ path' = [path EXCEPT ![t] = downloaded_cache[f]] /\ downloaded_cache[f] # <<>>
      BY <1>5, <2>2 DEF Downloader!Start
    <3>2. task'[t] = "returned" /\ path'[t] = downloaded_cache[f] /\ Secure(f, downloaded_cache[f])
      BY <1>1, <3>1 DEF FileTypes, SharedOK
    <3>3. Secure(f, path[t])'
      BY <1>2, <3>2 DEF Secure
    <3> QED
      BY <3>2, <3>3
  <2> QED
    BY <2>1, <2>2
<1>6. CASE Downloader!Note(t)
  <2>1. /\ path[t] \in Own(t) /\ disk[path[t]] # Downloader!NoFile
    BY <1>1, <1>6 DEF Downloader!Note, PlaceOK, SharedOK
  <2>2. task'[t] = "returned" /\ path' = path /\ disk' = disk
    BY <1>1, <1>6 DEF Downloader!Note, FileTypes
  <2> QED
    BY <2>1, <2>2, FileStays DEF Secure, Settled, Downloader!NoFile
<1>7. CASE Downloader!Open(t) \/ \E s \in Received : Downloader!Write(t, s)
  <2>1. task'[t] = "downloading"
    BY <1>7 DEF Downloader!Open, Downloader!Write
  <2> QED
    BY <2>1 DEF Settled
<1>8. CASE FailedMove(t)
  <2>1. task'[t] = "completed" /\ path'[t] = path[t] /\ Secure(f, path[t])
    BY <1>1, <1>8 DEF FailedMove, FileTypes, SharedOK, Settled
  <2>2. Secure(f, path[t])'
    BY <1>2, <2>1 DEF Secure
  <2> QED
    BY <2>1, <2>2
<1> QED
  BY <1>3, <1>4, <1>5, <1>6, <1>7, <1>8 DEF FileStep

LEMMA SharedStep ==
  ASSUME DiskInv, Downloader!DistinctIds, NEW t \in Downloads, FileStep(t),
         NEW f \in Files, SharedOK(f), ~Out(f)'
  PROVE  SharedOK(f)'
<1> USE DEF Downloader!given, Downloader!counters
<1>1. FileTypes /\ StateOK(t) /\ PlaceOK(t) /\ file' = file
  BY FileStays DEF DiskInv
<1>2. ~(Downloader!Move(t) /\ file[t] = f)
  <2> SUFFICES ASSUME Downloader!Move(t), file[t] = f PROVE FALSE
    OBVIOUS
  <2>1. disk[path[t]] # Downloader!NoFile
    BY DEF SharedOK, Settled, Secure, Downloader!Move
  <2>2. output'[t] # Downloader!NoFile
    BY <1>1, <2>1 DEF Downloader!Completed, Downloader!Move, Downloader!Exists, FileTypes
  <2>3. task'[t] = "completed" /\ path'[t] = <<>>
    BY <1>1 DEF Downloader!Completed, Downloader!Move, Downloader!NoPath, FileTypes
  <2> QED
    BY <1>1, <2>2, <2>3 DEF Out, Downloader!NoFile
<1>3. \A p : Secure(f, p) => Secure(f, p)'
  BY <1>2, SecureStays
<1>4. (downloaded_cache[f] # <<>> => Secure(f, downloaded_cache[f]))'
  <2>1. CASE downloaded_cache'[f] = downloaded_cache[f]
    <3>1. \A p : p = downloaded_cache[f] /\ p # <<>> => Secure(f, p)'
      BY <1>3 DEF SharedOK
    <3> QED
      BY <2>1, <3>1
  <2>2. CASE downloaded_cache'[f] # downloaded_cache[f]
    <3>1. Downloader!Note(t)
      BY <2>2 DEF FileStep, Ending, Leaves, Accepting, Downloader!Start, Downloader!Note,
         Downloader!Open, Downloader!Write, Downloader!Move, Downloader!Completed,
         FailedMove
    <3>2. f = file[t] /\ downloaded_cache'[f] = path[t]
      BY <1>1, <2>2, <3>1 DEF Downloader!Note, FileTypes
    <3>3. task'[t] = "returned" /\ path'[t] = path[t]
      BY <1>1, <3>1 DEF Downloader!Note, FileTypes
    <3>4. Secure(f, path[t])'
      BY <1>2, <3>2, <3>3, SharedSelf DEF Settled
    <3> QED
      BY <3>2, <3>3, <3>4 DEF Secure
  <2> QED
    BY <2>1, <2>2
<1>5. ASSUME NEW u \in Downloads, file'[u] = f
      PROVE  /\ Settled(u)' => Secure(f, path[u])'
             /\ task'[u] = "downloaded" => (disk[path[u]] # Downloader!NoFile)'
  <2>1. CASE u = t
    <3>1. f = file[t] /\ f = file'[t]
      BY <1>1, <1>5, <2>1
    <3> QED
      BY <1>1, <1>2, <2>1, <3>1, SharedSelf
  <2>2. CASE u # t
    <3>1. /\ task'[u] = task[u] /\ path'[u] = path[u]
          /\ \A p \in Own(u) : disk'[p] = disk[p]
      <4>1. Own(u) # {}
        BY DEF Own
      <4> QED
        BY <1>1, <1>2, <1>5, <2>2, <4>1, OthersFiles
    <3>2. /\ Settled(u) => Secure(f, path[u])
          /\ task[u] = "downloaded" => disk[path[u]] # Downloader!NoFile /\ path[u] \in Own(u)
      BY <1>1, <1>5 DEF SharedOK, DiskInv, PlaceOK
    <3>3. \A p : p = path[u] /\ Settled(u) => Secure(f, p)'
      BY <1>3, <3>2
    <3> QED
      BY <3>1, <3>2, <3>3 DEF Settled, Downloader!NoFile
  <2> QED
    BY <2>1, <2>2
<1> QED
  BY <1>4, <1>5 DEF SharedOK

LEMMA SharedSteps ==
  ASSUME DiskInv, Downloader!DistinctIds, SharedInv, [Downloader!Next]_fileVars
  PROVE  SharedInv'
<1>1. CASE UNCHANGED fileVars
  BY <1>1 DEF fileVars, SharedInv, SharedOK, Out, Secure, Settled, Own, Numbered,
     Downloader!NoFile
<1>2. ASSUME NEW t \in Downloads, FileStep(t), NEW f \in Files
      PROVE  (Out(f) \/ SharedOK(f))'
  BY <1>2, OutStays, SharedStep DEF SharedInv
<1> QED
  BY <1>1, <1>2, FileSteps DEF SharedInv

LEMMA SharedHolds == DiskInv /\ SharedInv => SharedFileSurvives
<1> SUFFICES ASSUME DiskInv, SharedInv, NEW t \in Downloads, task[t] = "completed"
             PROVE  \E u \in Downloads : /\ file[u] = file[t] /\ task[u] = "completed"
                                        /\ Downloader!Exists(Downloader!Result(u))
  BY DEF SharedFileSurvives, Downloader!SharedFileSurvives
<1>1. CASE Out(file[t])
  BY <1>1 DEF Out, Downloader!Exists, Downloader!Result, Downloader!NoPath
<1>2. CASE ~Out(file[t])
  <2>1. file[t] \in Files
    BY DEF DiskInv, FileTypes
  <2>2. Secure(file[t], path[t])
    BY <1>2, <2>1 DEF SharedInv, SharedOK, Settled
  <2>3. path[t] # <<>>
    BY <2>2, OwnPaths, DownloaderNumbers DEF Secure
  <2> QED
    BY <2>2, <2>3 DEF Secure, Downloader!Exists, Downloader!Result, Downloader!NoPath
<1> QED
  BY <1>1, <1>2

\* Of the messages of one chat that share a file one has it as its result as soon
\* as any of them is completed, whoever took whose file from the cache and
\* whichever moves fail.  Messages of two chats with one id break it: they write
\* to one temporary file.
THEOREM SharedFileAlwaysSurvives ==
  Downloader!DistinctIds => (TransfersSpec => []SharedFileSurvives)
<1> SUFFICES ASSUME Downloader!DistinctIds PROVE TransfersSpec => []SharedFileSurvives
  OBVIOUS
<1> DEFINE Inv == DiskInv /\ SharedInv
<1>1. TransfersInit => Inv
  BY DiskStarts, SharedStart DEF TransfersInit
<1>2. Inv /\ [TransfersNext]_<<which, vars, queueVars, fileVars>> => Inv'
  <2> SUFFICES ASSUME Inv, [TransfersNext]_<<which, vars, queueVars, fileVars>>
               PROVE  Inv'
    OBVIOUS
  <2>1. [Downloader!Next]_fileVars
    BY DEF TransfersNext, OfQueue
  <2> QED
    BY <2>1, DiskSteps, SharedSteps
<1>3. Inv => SharedFileSurvives
  BY SharedHolds
<1> QED
  BY <1>1, <1>2, <1>3, PTL DEF TransfersSpec

-----------------------------------------------------------------------------
(* What a persistent download has finished                                 *)

Persistent(t) == <<message_id[t], 0>>

\* Who is about to open the file of a persistent download has found it short
\* (what is written into the opened file is not looked at), and nothing stands
\* at an output before it is completed.
OpenOK(t) ==
    persistent_enabled /\ task[t] \in {"waiting", "downloading"} /\ handle[t] # Persistent(t)
    => disk[Persistent(t)].size < expected_size[file[t]]
FreshOK(t) ==
    task[t] # "completed" => output[t] = Downloader!NoFile /\ \A u \in Downloads : handle[u] # t

KeptInv == \A t \in Downloads : OpenOK(t) /\ FreshOK(t)

LEMMA KeptStart == Downloader!Init => KeptInv
  BY DownloaderNumbers
     DEF Downloader!Init, Downloader!NoPath, KeptInv, OpenOK, FreshOK

LEMMA ModeStays ==
  ASSUME NEW t \in Downloads, FileStep(t)
  PROVE  persistent_enabled' = persistent_enabled
  BY DEF FileStep, Ending, Leaves, Accepting, Downloader!Start, Downloader!Note,
     Downloader!Open, Downloader!Write, Downloader!Move, Downloader!Completed, FailedMove,
     Downloader!given

LEMMA FreshStep ==
  ASSUME DiskInv, NEW t \in Downloads, FileStep(t), NEW u \in Downloads, FreshOK(u)
  PROVE  FreshOK(u)'
<1> USE DEF Downloader!given, Downloader!counters
<1>1. FileTypes /\ file' = file
  BY FileStays DEF DiskInv
<1> SUFFICES ASSUME task'[u] # "completed"
             PROVE  (output[u] = Downloader!NoFile /\ \A v \in Downloads : handle[v] # u)'
  BY DEF FreshOK
<1>2. task[u] # "completed"
  BY <1>1 DEF FileTypes, FileStep, Ending, Leaves, Accepting, Downloader!Start,
     Downloader!Note, Downloader!Open, Downloader!Write, Downloader!Move,
     Downloader!Completed, FailedMove
<1>3. output[u] = Downloader!NoFile /\ \A v \in Downloads : handle[v] # u
  BY <1>2 DEF FreshOK
<1>4. CASE output' = output /\ \A v \in Downloads : handle'[v] = handle[v] \/ handle'[v] = <<>>
  BY <1>3, <1>4, DownloaderNumbers DEF Downloader!NoFile
<1>5. CASE Ending(t) \/ Accepting(t) \/ Downloader!Start(t) \/ Downloader!Note(t)
  <2>1. output' = output /\ (handle' = handle \/ handle' = [handle EXCEPT ![t] = <<>>])
    BY <1>5 DEF Ending, Leaves, Accepting, Downloader!Start, Downloader!Note
  <2> QED
    BY <1>1, <1>4, <2>1 DEF FileTypes
<1>6. CASE Downloader!Open(t)
  <2>1. /\ output' = output /\ handle' = [handle EXCEPT ![t] = Downloader!TempPath(t)]
        /\ Downloader!TempPath(t) \in Downloader!Paths
    BY <1>6, TempPathIsOwn, OwnPaths DEF DiskInv, StateOK, Downloader!Open
  <2> QED
    BY <1>1, <1>3, <2>1, DownloaderNumbers DEF FileTypes, Downloader!NoFile
<1>7. ASSUME NEW s \in Received, Downloader!Write(t, s)
      PROVE  output'[u] = Downloader!NoFile /\ handle' = handle
  BY <1>1, <1>3, <1>7 DEF Downloader!Write, FileTypes
<1>8. CASE Downloader!Move(t)
  <2>1. t # u
    BY <1>1, <1>8 DEF Downloader!Completed, Downloader!Move, FileTypes
  <2>2. \A v \in Downloads : handle'[v] \in {handle[v], t, <<>>}
    BY <1>1, <1>8 DEF Downloader!Completed, Downloader!Move, Downloader!NoPath, FileTypes
  <2>3. output'[u] = output[u]
    BY <1>1, <1>8, <2>1 DEF Downloader!Completed, Downloader!Move, FileTypes
  <2> QED
    BY <1>3, <2>1, <2>2, <2>3, DownloaderNumbers DEF Downloader!NoFile
<1>9. CASE FailedMove(t)
  <2>1. t # u /\ handle' = handle
    BY <1>1, <1>9 DEF FailedMove, FileTypes
  <2>2. output'[u] = output[u]
    BY <1>1, <1>9, <2>1 DEF FailedMove, FileTypes
  <2> QED
    BY <1>3, <2>1, <2>2 DEF Downloader!NoFile
<1> QED
  BY <1>3, <1>5, <1>6, <1>7, <1>8, <1>9 DEF FileStep, Downloader!NoFile

LEMMA OpenStep ==
  ASSUME DiskInv, Downloader!DistinctIds, NEW t \in Downloads, FileStep(t),
         NEW u \in Downloads, OpenOK(u)
  PROVE  OpenOK(u)'
<1> USE DEF Downloader!given, Downloader!counters
<1> DEFINE p == Persistent(u)
<1>1. /\ FileTypes /\ file' = file /\ persistent_enabled' = persistent_enabled
      /\ StateOK(u) /\ PlaceOK(u) /\ StateOK(t) /\ PlaceOK(t)
  BY FileStays, ModeStays DEF DiskInv
<1>2. /\ p \in Own(u) /\ p \in Downloader!Paths /\ p # <<>>
      /\ disk[p] \in Downloader!FileStates
      /\ expected_size[file[u]] \in Nat /\ expected_size[file[u]] > 0
      /\ Downloader!NoFile.size < expected_size[file[u]]
  <2>1. p \in Own(u) /\ p \in Downloader!Paths
    BY OwnPaths DEF Own, Persistent
  <2> QED
    BY <1>1, <2>1, DownloaderNumbers DEF FileTypes, Downloader!NoFile
<1> SUFFICES ASSUME persistent_enabled, task'[u] \in {"waiting", "downloading"},
                    handle'[u] # p, disk'[p] # Downloader!NoFile
             PROVE  disk'[p].size < expected_size[file[u]]
  BY <1>1, <1>2 DEF OpenOK, Persistent
<1>3. ASSUME task[u] \in {"waiting", "downloading"}, handle[u] # p
      PROVE  disk[p].size < expected_size[file[u]]
  BY <1>3 DEF OpenOK
<1>4. CASE t = u
  <2>1. CASE Ending(t)
    <3>1. CASE task[u] = "head"
      <4>1. disk' = disk /\ ~Downloader!IsComplete(u)
        BY <1>1, <1>4, <2>1, <3>1 DEF Ending, Leaves, FileTypes
      <4>2. Downloader!TempPath(u) = p
        BY DEF Downloader!TempPath, Persistent
      <4>3. disk[p].size \in Int
        BY <1>2, FileFacts
      <4> QED
        BY <1>2, <4>1, <4>2, <4>3
           DEF Downloader!IsComplete, Downloader!Size, Downloader!Expected
    <3>2. CASE task[u] # "head"
      <4>1. task[u] = "waiting" /\ disk' = disk
        BY <1>1, <1>4, <2>1, <3>2 DEF Ending, Leaves, FileTypes
      <4>2. handle[u] = <<>>
        BY <1>1, <4>1 DEF StateOK
      <4> QED
        BY <1>2, <1>3, <4>1, <4>2
    <3> QED
      BY <3>1, <3>2
  <2>2. /\ ~Accepting(t) /\ ~Downloader!Start(t) /\ ~Downloader!Note(t)
        /\ ~Downloader!Move(t) /\ ~FailedMove(t)
    BY <1>1, <1>4 DEF Accepting, Downloader!Start, Downloader!Note, Downloader!Move,
       Downloader!Completed, FailedMove, FileTypes
  <2>3. ~Downloader!Open(t)
    BY <1>1, <1>4 DEF Downloader!Open, Downloader!TempPath, Persistent, FileTypes
  <2>4. ASSUME NEW s \in Received, Downloader!Write(t, s)
        PROVE  disk'[p].size < expected_size[file[u]]
    <3>1. task[u] = "downloading" /\ handle[u] # p
      BY <1>4, <2>4 DEF Downloader!Write
    <3>2. disk'[p] = disk[p]
      BY <1>1, <1>2, <1>4, <2>4, <3>1 DEF Downloader!Write, FileTypes
    <3> QED
      BY <1>3, <3>1, <3>2
  <2> QED
    BY <2>1, <2>2, <2>3, <2>4 DEF FileStep
<1>5. CASE t # u
  <2>1. task'[u] = task[u]
    BY <1>1, <1>5 DEF FileTypes, FileStep, Ending, Leaves, Accepting, Downloader!Start,
       Downloader!Note, Downloader!Open, Downloader!Write, Downloader!Move,
       Downloader!Completed, FailedMove
  <2>2. disk'[p] = disk[p]
    <3>1. CASE Downloader!Move(t)
      BY <1>1, <1>2, <3>1 DEF Downloader!Completed, Downloader!Move, FileTypes
    <3>2. CASE ~Downloader!Move(t)
      BY <1>2, <1>5, <3>2, OthersFiles
    <3> QED
      BY <3>1, <3>2
  <2>3. handle[u] # p
    <3>1. CASE Downloader!Move(t)
      BY <1>1, <1>2, <2>2, <3>1, DownloaderNumbers DEF Downloader!Completed, Downloader!Move, Downloader!Exists, FileTypes
    <3>2. CASE ~Downloader!Move(t)
      BY <1>1, <1>5, <3>2 DEF FileTypes, FileStep, Ending, Leaves, Accepting,
         Downloader!Start, Downloader!Note, Downloader!Open, Downloader!Write, FailedMove
    <3> QED
      BY <3>1, <3>2
  <2> QED
    BY <1>3, <2>1, <2>2, <2>3
<1> QED
  BY <1>4, <1>5

LEMMA KeptSteps ==
  ASSUME DiskInv, Downloader!DistinctIds, KeptInv, [Downloader!Next]_fileVars
  PROVE  KeptInv'
<1>1. CASE UNCHANGED fileVars
  BY <1>1 DEF fileVars, KeptInv, OpenOK, FreshOK, Persistent, Downloader!NoFile
<1>2. ASSUME NEW t \in Downloads, FileStep(t) PROVE KeptInv'
  BY <1>2, FreshStep, OpenStep DEF KeptInv
<1> QED
  BY <1>1, <1>2, FileSteps

\* A file nobody writes into and that is complete leaves its place only for the
\* output of a message.
LEMMA CompleteStays ==
  ASSUME DiskInv, Downloader!DistinctIds, KeptInv, NEW t \in Downloads, FileStep(t),
         persistent_enabled, NEW u \in Downloads,
         disk[Persistent(u)].size >= expected_size[file[u]],
         \A v \in Downloads : handle[v] # Persistent(u)
  PROVE  \/ disk'[Persistent(u)] = disk[Persistent(u)]
         \/ \E v \in Downloads : /\ output'[v] = disk[Persistent(u)]
                                 /\ output[v] # disk[Persistent(u)]
<1> USE DEF Downloader!given, Downloader!counters
<1> DEFINE p == Persistent(u)
<1>1. FileTypes /\ StateOK(t) /\ PlaceOK(t)
  BY DEF DiskInv
<1>2. /\ p \in Own(u) /\ p \in Downloader!Paths
      /\ expected_size[file[u]] \in Nat /\ expected_size[file[u]] > 0
      /\ disk[p].size \in Int /\ disk[p] # Downloader!NoFile
  <2>1. p \in Own(u) /\ p \in Downloader!Paths
    BY OwnPaths DEF Own, Persistent
  <2>2. expected_size[file[u]] \in Nat /\ expected_size[file[u]] > 0
    BY <1>1, DownloaderNumbers DEF FileTypes
  <2>3. disk[p].size \in Int /\ disk[p].size > -1
    BY <1>1, <2>1, <2>2, FileFacts DEF FileTypes
  <2> QED
    BY <2>1, <2>2, <2>3 DEF Downloader!NoFile
<1>3. CASE Downloader!Move(t)
  <2>1. CASE path[t] = p
    <3>1. output' = [output EXCEPT ![t] = disk[p]]
      BY <1>2, <1>3, <2>1 DEF Downloader!Completed, Downloader!Move, Downloader!Exists
    <3>2. output[t] = Downloader!NoFile
      BY <1>3 DEF KeptInv, FreshOK, Downloader!Move
    <3> QED
      BY <1>1, <1>2, <3>1, <3>2 DEF FileTypes
  <2>2. CASE path[t] # p
    BY <1>1, <1>2, <1>3, <2>2 DEF Downloader!Completed, Downloader!Move, FileTypes
  <2> QED
    BY <2>1, <2>2
<1>4. CASE ~Downloader!Move(t) /\ t # u
  BY <1>2, <1>4, OthersFiles
<1>5. CASE ~Downloader!Move(t) /\ t = u
  <2>1. Downloader!TempPath(t) = p
    BY <1>5 DEF Downloader!TempPath, Persistent
  <2>2. ~FromScratch(t)
    <3>1. ~(10 * disk[p].size <= 9 * expected_size[file[u]])
      BY <1>2
    <3> QED
      BY <1>5, <2>1, <3>1 DEF FromScratch, Downloader!Size, Downloader!Expected
  <2>3. ~Downloader!Open(t)
    <3>1. OpenOK(u) /\ ~(disk[p].size < expected_size[file[u]])
      BY <1>2 DEF KeptInv
    <3>2. task[u] # "downloading"
      BY <3>1 DEF OpenOK
    <3> QED
      BY <1>5, <3>2 DEF Downloader!Open
  <2>4. ASSUME NEW s \in Received, Downloader!Write(t, s) PROVE disk'[p] = disk[p]
    BY <1>1, <1>2, <1>5, <2>4 DEF Downloader!Write, FileTypes
  <2> QED
    BY <1>5, <2>2, <2>3, <2>4 DEF FileStep, Ending, Accepting, FailedMove, Downloader!Start,
       Downloader!Note
<1> QED
  BY <1>3, <1>4, <1>5

\* A file that a persistent download has completed is never truncated nor thrown
\* away, whatever the other downloads do.
THEOREM CompleteIsAlwaysKept ==
  Downloader!DistinctIds => (TransfersSpec => CompleteIsKept)
<1> SUFFICES ASSUME Downloader!DistinctIds PROVE TransfersSpec => CompleteIsKept
  OBVIOUS
<1> DEFINE Inv == DiskInv /\ KeptInv
<1>1. TransfersInit => Inv
  BY DiskStarts, KeptStart DEF TransfersInit
<1>2. ASSUME [TransfersNext]_<<which, vars, queueVars, fileVars>>
      PROVE  [Downloader!Next]_fileVars
  BY <1>2 DEF TransfersNext, OfQueue
<1>3. Inv /\ [TransfersNext]_<<which, vars, queueVars, fileVars>> => Inv'
  BY <1>2, DiskSteps, KeptSteps
<1>4. Inv /\ [TransfersNext]_<<which, vars, queueVars, fileVars>> =>
        [\A t \in Downloads :
           LET p == Downloader!TempPath(t) IN
           /\ persistent_enabled /\ Downloader!IdsTellFiles
           /\ disk[p].of = file[t] /\ disk[p].size >= Downloader!Expected(t)
           /\ \A u \in Downloads : handle[u] # p
           => \/ disk'[p] = disk[p]
              \/ \E u \in Downloads : output'[u] = disk[p] /\ output[u] # disk[p]]_(Downloader!vars)
  <2> SUFFICES ASSUME Inv, [Downloader!Next]_fileVars, ~UNCHANGED Downloader!vars,
                      NEW u \in Downloads, persistent_enabled,
                      disk[Persistent(u)].size >= expected_size[file[u]],
                      \A v \in Downloads : handle[v] # Persistent(u)
               PROVE  \/ disk'[Persistent(u)] = disk[Persistent(u)]
                      \/ \E v \in Downloads : /\ output'[v] = disk[Persistent(u)]
                                              /\ output[v] # disk[Persistent(u)]
    BY <1>2 DEF Downloader!TempPath, Persistent, Downloader!Expected
  <2>1. \E t \in Downloads : FileStep(t)
    BY FileSteps DEF fileVars, Downloader!vars, Downloader!given, Downloader!counters
  <2> QED
    BY <2>1, CompleteStays
<1> QED
  BY <1>1, <1>3, <1>4, PTL DEF TransfersSpec, CompleteIsKept, Downloader!CompleteIsKept
=============================================================================
