--------------------------- MODULE FetchingProofs ---------------------------
(***************************************************************************)
(* Proofs about how messages are fetched (MCFetching), for every history,  *)
(* page size, limit, number of workers, chunk size, capacity of the queues *)
(* and number of failures.                                                 *)
(*                                                                         *)
(* MessageStream: a stream yields in order, without a gap.                 *)
(* PrefetchBatchProcessor: what counts as completed is exactly what was    *)
(* fetched.                                                                *)
(* ShardedFetch: what is yielded is in order, nothing but what was asked   *)
(* for, and all of it if no worker failed.                                 *)
(* HotZones: a chunk in a hot zone is as small as the zone asks for, and   *)
(* what was learned about slow chunks stays.                               *)
(***************************************************************************)
EXTENDS MCFetching, SequenceLemmas

-----------------------------------------------------------------------------
(* MessageStream                                                           *)

(* i lies beyond the offset.                                               *)
After(i) == (~query.up /\ offset = 0) \/ Before(offset, i)

Paging == pc \in {"yield", "left"}

(* What has been yielded lies behind the offset, and while a page is being *)
(* yielded also behind what is left of it.                                 *)
Behind ==
  /\ Paging =>
       /\ page_end \in 1..top
       /\ \A i \in page : ~Before(page_end, i)
       /\ \A k \in Given : ~Before(page_end, k)
       /\ \A k \in Given : \A i \in page : Before(k, i)
  /\ ~Paging => \A k \in Given : ~After(k)

(* What the stream still owes is in the page or ahead of it, unless the    *)
(* limit has been reached.                                                 *)
Ahead(i) == IF Paging THEN i \in page \/ Before(page_end, i) ELSE After(i)

Owed ==
  query.up \/ query.min_id = 0 =>
    \A i \in Wanted :
      \/ i \in Given
      \/ /\ \A k \in Given : Before(k, i)
         /\ Reached \/ Ahead(i)
         /\ pc = "ended" => Reached

(* A call is only made while it may be repeated.                           *)
Retries == pc # "raised" => retry_count < max_retries

IInv == TypeOK /\ InOrder /\ Behind /\ Owed /\ Retries

-----------------------------------------------------------------------------
(* The ids and the bounds are integers.                                    *)
LEMMA Ints ==
  ASSUME TypeOK
  PROVE  /\ query.up \in BOOLEAN /\ query.min_id \in Nat
         /\ query.limit \in Nat \cup {NoLimit}
         /\ top \in Nat /\ offset \in Nat /\ page_end \in Nat
         /\ page \subseteq Nat /\ present \subseteq Nat /\ kept \subseteq Nat
         /\ yielded \in Seq(Nat) /\ Len(yielded) \in Nat
         /\ Given \subseteq Nat
<1>1. query \in [up : BOOLEAN, min_id : Nat, limit : Nat \cup {NoLimit}]
  BY StreamAssumption DEF TypeOK
<1>2. top \in Nat
  BY StreamAssumption DEF TypeOK
<1>3. yielded \in Seq(1..top)
  BY DEF TypeOK
<1>4. \A n \in DOMAIN yielded : yielded[n] \in 1..top
  BY <1>2, <1>3
<1>5. yielded \in Seq(Nat)
  BY <1>2, <1>3, <1>4
<1> QED BY <1>1, <1>2, <1>4, <1>5 DEF TypeOK, Given

LEMMA SeqOfLarger ==
  ASSUME NEW S, NEW T, S \subseteq T, NEW s \in Seq(S)
  PROVE  s \in Seq(T)
<1>1. \A n \in DOMAIN s : s[n] \in T
  OBVIOUS
<1> QED BY <1>1

(* Yielding one more message adds it to what was given.                    *)
LEMMA GivenAppend ==
  ASSUME yielded \in Seq(Nat), NEW c \in Nat, yielded' = Append(yielded, c)
  PROVE  Given' = Given \cup {c}
<1>1. Len(yielded') = Len(yielded) + 1 /\ Len(yielded) \in Nat
  OBVIOUS
<1>2. DOMAIN yielded = 1..Len(yielded) /\ DOMAIN yielded' = 1..(Len(yielded) + 1)
  BY <1>1
<1>3. \A n \in 1..Len(yielded) : yielded'[n] = yielded[n]
  OBVIOUS
<1>4. yielded'[Len(yielded) + 1] = c
  OBVIOUS
<1> QED BY <1>1, <1>2, <1>3, <1>4 DEF Given

(* A page that get_messages returns: beyond the offset, newer than min_id, *)
(* and nothing nearer is left out.                                         *)
LEMMA PageOf ==
  ASSUME NEW s \in Answers
  PROVE  /\ \A i \in s : i \in present /\ i > query.min_id /\ After(i)
         /\ \A i \in present :
              i > query.min_id /\ After(i) =>
                i \in s \/ \A j \in s : Before(j, i)
         /\ s = {} => \A i \in present : i > query.min_id => ~After(i)
BY DEF Answers, Beyond, After

-----------------------------------------------------------------------------
THEOREM InitInv == Init => IInv
<1> SUFFICES ASSUME Init PROVE IInv
  OBVIOUS
<1>1. Given = {} /\ yielded = <<>>
  BY DEF Init, Given
<1>2. TypeOK
  BY StreamAssumption DEF Init, TypeOK
<1>3. InOrder
  BY <1>1 DEF InOrder
<1>4. Behind
  BY <1>1 DEF Init, Behind, Paging
<1>5. Owed
  <2> SUFFICES ASSUME query.up \/ query.min_id = 0, NEW i \in Wanted
               PROVE  After(i) /\ ~Paging /\ pc # "ended"
    BY <1>1 DEF Owed, Ahead
  <2>1. offset = 0 /\ i > 0 /\ pc = "ask"
    BY Ints, <1>2 DEF Init, Wanted
  <2> QED BY <2>1 DEF After, Before, Paging
<1>6. Retries
  BY StreamAssumption DEF Init, Retries
<1> QED BY <1>2, <1>3, <1>4, <1>5, <1>6 DEF IInv

LEMMA RetriesKept == TypeOK /\ Retries /\ [Next]_vars => Retries'
<1> SUFFICES ASSUME TypeOK, Retries, [Next]_vars PROVE Retries'
  OBVIOUS
<1>1. retry_count \in Nat /\ max_retries \in Nat \ {0}
  BY StreamAssumption DEF TypeOK
<1>2. CASE Ask
  BY <1>1, <1>2 DEF Ask, Retries
<1>3. CASE AskFails
  BY <1>1, <1>3 DEF AskFails, Retries
<1>4. CASE UNCHANGED <<retry_count, pc>>
  BY <1>4 DEF Retries
<1>5. CASE LimitReached \/ AskEmpty \/ Wake \/ Yield \/ PageDone \/ Leave
  BY <1>5 DEF LimitReached, AskEmpty, Wake, Yield, PageDone, Leave, Retries
<1> QED BY <1>2, <1>3, <1>4, <1>5 DEF Next, Stream, Arrive, Delete, Over, vars

THEOREM NextInv == IInv /\ [Next]_vars => IInv'
<1> SUFFICES ASSUME IInv, [Next]_vars
             PROVE  TypeOK' /\ InOrder' /\ Behind' /\ Owed'
  BY RetriesKept DEF IInv
<1>0. TypeOK /\ InOrder /\ Behind /\ Owed /\ Retries
  BY DEF IInv
<1>1. CASE UNCHANGED vars
  BY <1>0, <1>1 DEF vars, chat, TypeOK, InOrder, Behind, Owed, Given,
     Wanted, Reached, Ahead, After, Before, Paging
<1>2. CASE LimitReached
  <2>1. ~Paging /\ ~Paging' /\ Reached /\ Reached'
    BY <1>2 DEF LimitReached, Paging, Reached
  <2> QED BY <1>0, <1>2, <2>1 DEF LimitReached, chat, TypeOK, InOrder, Behind,
        Owed, Given, Wanted, Ahead, After, Before
<1>3. CASE Ask
  <2>1. page' \in Answers /\ page' # {} /\ ~Reached /\ ~Paging /\ Paging'
    BY <1>3 DEF Ask, Paging
  <2>2. /\ page_end' \in page' /\ \A j \in page' : ~Before(page_end', j)
    BY <1>3 DEF Ask
  <2>3. UNCHANGED <<query, top, present, kept, deletions, offset, failures,
                    yielded>> /\ pc' = "yield" /\ retry_count' = 0
    BY <1>3 DEF Ask, chat
  <2>4. page' \subseteq present
    BY <2>1, PageOf
  <2>5. TypeOK'
    BY <1>0, <2>2, <2>3, <2>4, StreamAssumption DEF TypeOK
  <2>6. InOrder'
    BY <1>0, <2>3 DEF InOrder, Before
  <2>7. Given' = Given /\ Wanted' = Wanted /\ ~Reached'
    BY <2>1, <2>3 DEF Given, Wanted, Reached
  <2>8. \A k \in Given : \A i \in page' : Before(k, i)
    <3> SUFFICES ASSUME NEW k \in Given, NEW i \in page' PROVE Before(k, i)
      OBVIOUS
    <3>1. ~After(k) /\ After(i)
      BY <1>0, <2>1, PageOf DEF Behind
    <3>2. k \in Nat /\ i \in Nat /\ offset \in Nat /\ query.up \in BOOLEAN
      BY <1>0, <2>4, Ints
    <3> QED BY <3>1, <3>2 DEF After, Before
  <2>9. Behind'
    <3>1. page_end' \in 1..top
      BY <1>0, <2>2, <2>4 DEF TypeOK
    <3>2. \A k \in Given : ~Before(page_end', k)
      <4> SUFFICES ASSUME NEW k \in Given PROVE ~Before(page_end', k)
        OBVIOUS
      <4>1. Before(k, page_end') /\ k \in Nat /\ page_end' \in Nat
        BY <1>0, <2>2, <2>8, <3>1, Ints
      <4> QED BY <4>1 DEF Before
    <3> QED BY <2>1, <2>2, <2>3, <2>7, <2>8, <3>1, <3>2 DEF Behind, Before
  <2>10. Owed'
    <3> SUFFICES ASSUME query.up \/ query.min_id = 0,
                        NEW i \in Wanted, i \notin Given
                 PROVE  /\ \A k \in Given : Before(k, i)
                        /\ i \in page' \/ Before(page_end', i)
      BY <2>1, <2>3, <2>7 DEF Owed, Ahead, Before
    <3>1. (\A k \in Given : Before(k, i)) /\ After(i)
      BY <1>0, <2>1 DEF Owed, Ahead
    <3>2. i \in present /\ i > query.min_id
      BY <1>0 DEF Wanted, TypeOK
    <3> QED BY <2>1, <2>2, <3>1, <3>2, PageOf
  <2> QED BY <2>5, <2>6, <2>9, <2>10
<1>4. CASE AskEmpty
  <2>1. {} \in Answers /\ ~Reached /\ ~Reached' /\ ~Paging /\ ~Paging'
    BY <1>4 DEF AskEmpty, Paging, Reached
  <2>2. \A i \in present : i > query.min_id => ~After(i)
    BY <2>1, PageOf
  <2>3. UNCHANGED <<query, top, present, kept, deletions, offset, failures, page,
                    page_end, retry_count, yielded>> /\ pc' = "ended"
    BY <1>4 DEF AskEmpty, chat
  <2>4. Given' = Given /\ Wanted' = Wanted
    BY <2>3 DEF Given, Wanted
  <2>5. Owed'
    <3> SUFFICES ASSUME query.up \/ query.min_id = 0, NEW i \in Wanted
                 PROVE  i \in Given
      BY <2>3, <2>4 DEF Owed
    <3>1. i \in present /\ i > query.min_id
      BY <1>0 DEF Wanted, TypeOK
    <3> QED BY <1>0, <2>1, <2>2, <3>1 DEF Owed, Ahead
  <2> QED BY <1>0, <2>1, <2>3, <2>4, <2>5 DEF TypeOK, InOrder, Behind, After,
        Before
<1>5. CASE AskFails \/ Wake
  <2>1. /\ ~Paging /\ ~Paging' /\ pc' # "ended" /\ (Reached' <=> Reached)
        /\ UNCHANGED <<query, chat, offset, page, page_end, yielded>>
    BY <1>5 DEF AskFails, Wake, Paging, Reached
  <2>2. TypeOK'
    BY <1>0, <1>5, <2>1, StreamAssumption DEF AskFails, Wake, TypeOK, chat,
       Retries
  <2> QED BY <1>0, <2>1, <2>2 DEF chat, InOrder, Behind, Owed, Given, Wanted,
        Ahead, After, Before
<1>6. CASE Yield
  <2>1. PICK c \in page :
          /\ \A j \in page : ~Before(j, c)
          /\ page' = page \ {c}
          /\ yielded' = IF c \in Hidden THEN yielded ELSE Append(yielded, c)
    BY <1>6 DEF Yield
  <2>2. UNCHANGED <<query, chat, offset, page_end, retry_count, failures, pc>>
        /\ ~Reached /\ Paging /\ Paging'
    BY <1>6 DEF Yield, Paging
  <2>3. c \in 1..top /\ c \in Nat /\ page \subseteq Nat /\ page_end \in Nat
        /\ Given \subseteq Nat /\ yielded \in Seq(Nat) /\ query.up \in BOOLEAN
        /\ kept \subseteq Nat
    BY <1>0, <2>1, Ints DEF TypeOK
  <2>4. Given' = IF c \in Hidden THEN Given ELSE Given \cup {c}
    BY <2>1, <2>3, GivenAppend DEF Given
  <2>5. TypeOK'
    <3>1. yielded' \in Seq(1..top)
      <4>1. yielded \in Seq(1..top) /\ c \in 1..top
        BY <1>0, <2>3 DEF TypeOK
      <4>2. Append(yielded, c) \in Seq(1..top)
        BY <4>1
      <4> QED BY <2>1, <4>1, <4>2
    <3> QED BY <1>0, <2>1, <2>2, <3>1 DEF TypeOK, chat
  <2>6. \A k \in Given : Before(k, c)
    BY <1>0, <2>1, <2>2 DEF Behind
  <2>7. InOrder'
    <3>1. CASE c \in Hidden
      BY <1>0, <2>1, <2>2, <3>1 DEF InOrder, Before
    <3>2. CASE c \notin Hidden
      <4>1. yielded' = Append(yielded, c)
        BY <2>1, <3>2
      <4> SUFFICES ASSUME NEW n \in 1..(Len(yielded) + 1),
                          NEW k \in 1..(Len(yielded) + 1), n < k
                   PROVE  Before(yielded'[n], yielded'[k])
        BY <2>2, <2>3, <4>1 DEF InOrder, Before
      <4>2. n \in 1..Len(yielded) /\ yielded'[n] = yielded[n]
            /\ yielded[n] \in Given
        BY <2>3, <4>1 DEF Given
      <4>3. CASE k = Len(yielded) + 1
        BY <2>3, <2>6, <4>1, <4>2, <4>3
      <4>4. CASE k \in 1..Len(yielded)
        BY <1>0, <2>3, <4>1, <4>2, <4>4 DEF InOrder
      <4> QED BY <2>3, <4>3, <4>4
    <3> QED BY <3>1, <3>2
  <2>8. \A j \in page \ {c} : Before(c, j)
    BY <2>1, <2>3 DEF Before
  <2>9. Behind'
    BY <1>0, <2>1, <2>2, <2>4, <2>8 DEF Behind, Before, chat
  <2>10. Owed'
    <3> SUFFICES ASSUME query.up \/ query.min_id = 0,
                        NEW i \in Wanted, i \notin Given'
                 PROVE  /\ \A k \in Given' : Before(k, i)
                        /\ i \in page' \/ Before(page_end, i)
      BY <1>6, <2>2 DEF Owed, Ahead, Before, Wanted, chat, Yield
    <3>1. i \notin Given /\ i # c /\ i \in Nat
      BY <2>3, <2>4 DEF Wanted
    <3>2. (\A k \in Given : Before(k, i)) /\ (i \in page \/ Before(page_end, i))
      BY <1>0, <2>2, <3>1 DEF Owed, Ahead
    <3>3. Before(c, i)
      <4>1. CASE i \in page
        BY <2>8, <3>1, <4>1
      <4>2. CASE Before(page_end, i)
        <5>1. ~Before(page_end, c)
          BY <1>0, <2>1, <2>2 DEF Behind
        <5> QED BY <2>3, <3>1, <4>2, <5>1 DEF Before
      <4> QED BY <3>2, <4>1, <4>2
    <3> QED BY <2>1, <2>4, <3>1, <3>2, <3>3
  <2> QED BY <2>5, <2>7, <2>9, <2>10
<1>7. CASE PageDone
  <2>1. /\ Paging /\ ~Paging' /\ (page = {} \/ Reached) /\ pc' = "ask"
        /\ offset' = page_end /\ page' = {}
        /\ UNCHANGED <<query, chat, page_end, retry_count, failures, yielded>>
    BY <1>7 DEF PageDone, Paging
  <2>2. Given' = Given /\ Wanted' = Wanted /\ (Reached' <=> Reached)
    BY <2>1 DEF Given, Wanted, Reached, chat
  <2>3. page_end \in 1..top /\ top \in Nat
    BY <1>0, <2>1, Ints DEF Behind
  <2>4. \A i : After(i)' <=> Before(page_end, i)
    BY <2>1, <2>3 DEF After, Before
  <2>5. TypeOK'
    BY <1>0, <2>1, <2>3 DEF TypeOK, chat
  <2>6. InOrder'
    BY <1>0, <2>1 DEF InOrder, Before
  <2>7. Behind'
    BY <1>0, <2>1, <2>2, <2>4 DEF Behind
  <2>8. Owed'
    BY <1>0, <2>1, <2>2, <2>4 DEF Owed, Ahead, Before
  <2> QED BY <2>5, <2>6, <2>7, <2>8
<1>8. CASE Leave
  <2>1. Paging /\ Paging' /\ pc' # "ended" /\ (Reached' <=> Reached)
        /\ UNCHANGED <<query, chat, offset, page, page_end, retry_count,
                       failures, yielded>>
    BY <1>8 DEF Leave, Paging, Reached
  <2> QED BY <1>0, <1>8, <2>1 DEF Leave, chat, TypeOK, InOrder, Behind, Owed,
        Given, Wanted, Ahead, After, Before
<1>9. CASE Arrive \/ Delete
  <2>1. /\ kept' \subseteq kept /\ top' >= top /\ top' \in Nat
        /\ (Paging' <=> Paging) /\ (Reached' <=> Reached)
        /\ UNCHANGED <<query, offset, page, page_end, retry_count, failures,
                       yielded, pc>>
    BY <1>0, <1>9, Ints DEF Arrive, Delete, Paging, Reached
  <2>2. Wanted' \subseteq Wanted /\ Given' = Given
    BY <2>1 DEF Wanted, Given
  <2>3. TypeOK'
    <3>1. top \in Nat /\ 1..top \subseteq 1..top'
      BY <1>0, <2>1, Ints
    <3>2. yielded \in Seq(1..top')
      <4>1. yielded \in Seq(1..top)
        BY <1>0 DEF TypeOK
      <4> QED BY <3>1, <4>1, SeqOfLarger
    <3>3. CASE Arrive
      BY <1>0, <2>1, <3>1, <3>2, <3>3, StreamAssumption DEF Arrive, TypeOK
    <3>4. CASE Delete
      BY <1>0, <2>1, <3>1, <3>2, <3>4, StreamAssumption DEF Delete, TypeOK
    <3> QED BY <1>9, <3>3, <3>4
  <2>4. InOrder'
    BY <1>0, <2>1 DEF InOrder, Before
  <2>5. Behind'
    <3>1. page_end \in 1..top => page_end \in 1..top'
      BY <1>0, <2>1, Ints
    <3> QED BY <1>0, <2>1, <2>2, <3>1 DEF Behind, After, Before
  <2>6. Owed'
    BY <1>0, <2>1, <2>2 DEF Owed, Ahead, After, Before
  <2> QED BY <2>3, <2>4, <2>5, <2>6
<1>10. CASE Over
  BY <1>1, <1>10 DEF Over
<1> QED BY <1>1, <1>2, <1>3, <1>4, <1>5, <1>6, <1>7, <1>8, <1>9, <1>10
     DEF Next, Stream

(* The messages of a stream come in the order of its direction and none is *)
(* passed over, however calls fail and the chat changes between two pages  *)
(* (fetch_messages, get_topic_messages_stream).                            *)
THEOREM StreamOrder == Spec => [](TypeOK /\ InOrder /\ NoGap)
<1>1. IInv => TypeOK /\ InOrder /\ NoGap
  BY DEF IInv, Owed, NoGap
<1> QED BY <1>1, InitInv, NextInv, PTL DEF Spec

-----------------------------------------------------------------------------
(* The prefetching into batches                                            *)

PrefetchTypes ==
  /\ fetched \in Nat /\ prefetched \in Seq(Nat) /\ current_batch \in Seq(Nat)
  /\ batches \in Seq(Seq(Nat))
  /\ batch \in Seq(Nat) /\ handled \in Seq(Nat)

(* What the places of the two tasks say: only stop() cancels the producer, *)
(* there is no batch in hand outside of its processing, and a producer     *)
(* about to put one has one.                                               *)
PrefetchPlaces ==
  /\ reason = "none" <=> consumer \in {"top", "getting", "processing"}
  /\ reason = "none" => producer \notin {"cancelling", "cancelled"}
  /\ reason = "none" /\ consumer # "processing" => batch = <<>>
  /\ producer \in {"putting", "putting_last"} => current_batch # <<>>
  /\ producer \in {"putting_none", "done"} => current_batch = <<>>

(* While the loop runs the sentinel is the last in the queue and comes     *)
(* from a producer that is over.                                           *)
SentinelLast ==
  reason = "none" =>
    \A i \in 1 .. Len(batches) :
      batches[i] = <<>> => i = Len(batches) /\ producer \in {"done", "failed"}

(* What was written, what is processed, each queued batch and the one      *)
(* being filled follow each other in the kept messages; b tells where the  *)
(* queued ones begin.                                                      *)
FollowsFrom(b) ==
  /\ Slice(handled, prefetched, 0) /\ Slice(batch, prefetched, Len(handled))
  /\ b[1] = Len(handled) + Len(batch)
  /\ \A i \in 1 .. Len(batches) : /\ Slice(batches[i], prefetched, b[i])
                                  /\ b[i + 1] = b[i] + Len(batches[i])
  /\ Slice(current_batch, prefetched, b[Len(batches) + 1])
  /\ b[Len(batches) + 1] + Len(current_batch) = Len(prefetched)

InTransit ==
  reason = "none" => \E b \in [1 .. Len(batches) + 1 -> Nat] : FollowsFrom(b)

PrefetchInv ==
  PrefetchTypes /\ PrefetchPlaces /\ SentinelLast /\ InTransit /\ CompletedIsExact

LEMMA PrefetchStarts == FetchingInit => PrefetchInv
<1> SUFFICES ASSUME Prefetch!Init PROVE PrefetchInv
  BY DEF FetchingInit
<1> USE DEF Prefetch!Init
<1>1. PrefetchTypes
  BY DEF PrefetchTypes
<1>2. PrefetchPlaces /\ SentinelLast /\ CompletedIsExact
  BY DEF PrefetchPlaces, SentinelLast, CompletedIsExact, Prefetch!CompletedIsExact
<1>3. InTransit
  <2> DEFINE b == [i \in 1 .. 1 |-> 0]
  <2>1. b \in [1 .. Len(batches) + 1 -> Nat] /\ b[1] = 0
    OBVIOUS
  <2>2. FollowsFrom(b)
    BY <2>1 DEF FollowsFrom, Slice
  <2> HIDE DEF b
  <2> QED
    BY <2>1, <2>2 DEF InTransit
<1> QED
  BY <1>1, <1>2, <1>3 DEF PrefetchInv

\* The same messages at the same places: only who is where may have changed.
LEMMA NothingMoves ==
  ASSUME InTransit, reason' = "none" => reason = "none",
         UNCHANGED <<prefetched, current_batch, batches, batch, handled>>
  PROVE  InTransit'
<1> SUFFICES ASSUME reason = "none"
             PROVE  \E b \in [1 .. Len(batches) + 1 -> Nat] : FollowsFrom(b)'
  BY DEF InTransit
<1>1. PICK b \in [1 .. Len(batches) + 1 -> Nat] : FollowsFrom(b)
  BY DEF InTransit
<1>2. FollowsFrom(b)'
  BY <1>1 DEF FollowsFrom
<1> QED
  BY <1>2

LEMMA PrefetchRests ==
  ASSUME PrefetchInv,
         UNCHANGED <<producer, fetched, prefetched, current_batch, batches, consumer,
                     batch, reason, handled>>
  PROVE  PrefetchInv'
<1>1. PrefetchTypes'
  BY DEF PrefetchInv, PrefetchTypes
<1>2. PrefetchPlaces' /\ SentinelLast'
  BY DEF PrefetchInv, PrefetchPlaces, SentinelLast
<1>3. CompletedIsExact'
  BY DEF PrefetchInv, CompletedIsExact, Prefetch!CompletedIsExact
<1>4. InTransit'
  BY NothingMoves DEF PrefetchInv
<1> QED
  BY <1>1, <1>2, <1>3, <1>4 DEF PrefetchInv

\* Whatever leaves the loop early has nothing more to tell.
LEMMA LeftEarly ==
  ASSUME NEW why \in {"shutdown", "error"}, PrefetchInv,
         Prefetch!Stop(why), UNCHANGED current_batch
  PROVE  PrefetchPlaces' /\ SentinelLast' /\ InTransit' /\ CompletedIsExact'
<1>1. reason' \notin {"none", "completed"} /\ consumer' = "stopping"
  BY DEF Prefetch!Stop
<1>2. /\ producer' \notin {"putting", "putting_last", "putting_none"}
      /\ producer' = "done" => producer = "done"
  BY DEF Prefetch!Stop, Prefetch!Over
<1>3. PrefetchPlaces'
  BY <1>1, <1>2 DEF PrefetchPlaces, PrefetchInv
<1> QED
  BY <1>1, <1>3 DEF SentinelLast, InTransit, CompletedIsExact,
                    Prefetch!CompletedIsExact

LEMMA PrefetchFetch == PrefetchInv /\ Prefetch!Fetch => PrefetchInv'
<1> SUFFICES ASSUME PrefetchInv, Prefetch!Fetch PROVE PrefetchInv'
  OBVIOUS
<1>0. /\ producer = "fetching" /\ fetched' = fetched + 1
      /\ UNCHANGED <<batches, consumer, batch, reason, awaited, handled>>
  BY DEF Prefetch!Fetch, Prefetch!consumerVars
<1>1. PrefetchTypes /\ fetched' \in Nat
  BY <1>0 DEF PrefetchInv, PrefetchTypes
<1>2. CASE UNCHANGED <<prefetched, current_batch, producer>>
  <2>1. PrefetchTypes' /\ PrefetchPlaces' /\ SentinelLast' /\ CompletedIsExact'
    BY <1>0, <1>1, <1>2 DEF PrefetchInv, PrefetchTypes, PrefetchPlaces, SentinelLast,
       CompletedIsExact, Prefetch!CompletedIsExact
  <2> QED
    BY <1>0, <1>2, <2>1, NothingMoves DEF PrefetchInv
<1>3. CASE /\ prefetched' = Append(prefetched, fetched')
           /\ current_batch' = Append(current_batch, fetched')
           /\ producer' \in {"putting", "fetching"}
  <2>1. PrefetchTypes' /\ current_batch' # <<>>
    BY <1>0, <1>1, <1>3 DEF PrefetchTypes
  <2>2. PrefetchPlaces' /\ SentinelLast' /\ CompletedIsExact'
    BY <1>0, <1>3, <2>1 DEF PrefetchInv, PrefetchPlaces, SentinelLast,
       CompletedIsExact, Prefetch!CompletedIsExact
  <2>3. ASSUME reason = "none"
        PROVE  \E b \in [1 .. Len(batches) + 1 -> Nat] : FollowsFrom(b)'
    <3>1. PICK b \in [1 .. Len(batches) + 1 -> Nat] : FollowsFrom(b)
      BY <2>3 DEF PrefetchInv, InTransit
    <3>2. /\ Len(batches) \in Nat /\ Len(handled) \in Nat
          /\ \A i \in 1 .. Len(batches) : b[i] \in Nat /\ batches[i] \in Seq(Nat)
          /\ b[Len(batches) + 1] \in Nat
      <4>1. Len(batches) \in Nat /\ Len(handled) \in Nat
        BY <1>1 DEF PrefetchTypes
      <4>2. /\ Len(batches) + 1 \in 1 .. Len(batches) + 1
            /\ \A i \in 1 .. Len(batches) : i \in 1 .. Len(batches) + 1
        BY <4>1
      <4>3. \A i \in 1 .. Len(batches) : batches[i] \in Seq(Nat)
        BY <1>1 DEF PrefetchTypes
      <4> QED
        BY <4>1, <4>2, <4>3
    <3>3. Slice(handled, prefetched', 0) /\ Slice(batch, prefetched', Len(handled))
      BY <1>1, <1>3, <3>1, <3>2, SliceGrows DEF FollowsFrom, PrefetchTypes
    <3>4. \A i \in 1 .. Len(batches) : Slice(batches[i], prefetched', b[i])
      BY <1>1, <1>3, <3>1, <3>2, SliceGrows DEF FollowsFrom, PrefetchTypes
    <3>5. /\ Slice(current_batch', prefetched', b[Len(batches) + 1])
          /\ b[Len(batches) + 1] + Len(current_batch') = Len(prefetched')
      <4>1. PICK m \in Nat : m = b[Len(batches) + 1]
        BY <3>2
      <4>2. /\ Slice(current_batch, prefetched, m)
            /\ m + Len(current_batch) = Len(prefetched)
        BY <3>1, <4>1 DEF FollowsFrom
      <4>3. prefetched \in Seq(Nat) /\ current_batch \in Seq(Nat)
        BY <1>1 DEF PrefetchTypes
      <4>4. /\ Slice(Append(current_batch, fetched'), Append(prefetched, fetched'), m)
            /\ m + Len(Append(current_batch, fetched')) = Len(Append(prefetched, fetched'))
        BY <1>1, <4>2, <4>3, SliceAppended
      <4> QED
        BY <1>3, <4>1, <4>4
    <3>6. FollowsFrom(b)'
      BY <1>0, <3>1, <3>3, <3>4, <3>5 DEF FollowsFrom
    <3> QED
      BY <3>6
  <2>4. InTransit'
    BY <1>0, <2>3 DEF InTransit
  <2> QED
    BY <2>1, <2>2, <2>4 DEF PrefetchInv
<1> QED
  BY <1>2, <1>3 DEF Prefetch!Fetch

\* A batch that is put begins where the queue ends.
LEMMA PrefetchPut ==
  PrefetchInv /\ (Prefetch!Put \/ Prefetch!PutLast) => PrefetchInv'
<1> SUFFICES ASSUME PrefetchInv, Prefetch!Put \/ Prefetch!PutLast PROVE PrefetchInv'
  OBVIOUS
<1>0. /\ producer \in {"putting", "putting_last"}
      /\ producer' \in {"fetching", "putting_none"}
      /\ batches' = Append(batches, current_batch) /\ current_batch' = <<>>
      /\ UNCHANGED <<fetched, prefetched, consumer, batch, reason, awaited, handled>>
  BY DEF Prefetch!Put, Prefetch!PutLast, Prefetch!consumerVars
<1> DEFINE n == Len(batches)
<1>1. PrefetchTypes /\ n \in Nat
  BY DEF PrefetchInv, PrefetchTypes
<1>2. /\ Len(batches') = n + 1 /\ batches'[n + 1] = current_batch
      /\ \A i \in 1 .. n : batches'[i] = batches[i]
  BY <1>0, <1>1 DEF PrefetchTypes
<1>3. PrefetchTypes'
  BY <1>0, <1>1 DEF PrefetchTypes
<1> HIDE DEF n
<1>4. current_batch # <<>> /\ producer \notin {"done", "failed"}
  BY <1>0 DEF PrefetchInv, PrefetchPlaces
<1>5. PrefetchPlaces'
  BY <1>0 DEF PrefetchInv, PrefetchPlaces
<1>6. SentinelLast'
  <2>1. \A i \in 1 .. n + 1 : i \in 1 .. n \/ i = n + 1
    BY <1>1
  <2>2. reason = "none" => \A i \in 1 .. n : batches[i] # <<>>
    BY <1>4 DEF PrefetchInv, SentinelLast, n
  <2> QED
    BY <1>0, <1>2, <1>4, <2>1, <2>2 DEF SentinelLast
<1>7. CompletedIsExact'
  BY <1>0, <1>4 DEF PrefetchInv, CompletedIsExact, Prefetch!CompletedIsExact
<1>8. ASSUME reason = "none"
      PROVE  \E d \in [1 .. n + 2 -> Nat] : FollowsFrom(d)'
  <2>1. PICK b \in [1 .. n + 1 -> Nat] : FollowsFrom(b)
    BY <1>8 DEF PrefetchInv, InTransit, n
  <2>2. PICK m : m = Len(prefetched)
    OBVIOUS
  <2>3. PICK k : k = n
    OBVIOUS
  <2>4. k \in Nat /\ m \in Nat /\ b \in [1 .. k + 1 -> Nat]
    BY <1>1, <2>1, <2>2, <2>3 DEF PrefetchTypes
  <2> DEFINE d == [i \in 1 .. k + 2 |-> IF i = k + 2 THEN m ELSE b[i]]
  <2>0. /\ k + 2 \in 1 .. k + 2 /\ k + 1 \in 1 .. k + 2 /\ k + 1 # k + 2
        /\ k + 1 \in 1 .. k + 1 /\ 1 \in 1 .. k + 2 /\ 1 # k + 2
        /\ \A i \in 1 .. k : /\ i \in 1 .. k + 2 /\ i + 1 \in 1 .. k + 2
                             /\ i # k + 2 /\ i + 1 # k + 2
        /\ \A i \in 1 .. k + 2 : i # k + 2 => i \in 1 .. k + 1
    BY <2>4
  <2>5. /\ d \in [1 .. k + 2 -> Nat] /\ d[k + 2] = m /\ d[k + 1] = b[k + 1]
        /\ \A i \in 1 .. k : d[i] = b[i] /\ d[i + 1] = b[i + 1]
        /\ d[1] = b[1]
    BY <2>4, <2>0
  <2> HIDE DEF d
  <2>6. /\ \A i \in 1 .. k : /\ Slice(batches[i], prefetched, b[i])
                             /\ b[i + 1] = b[i] + Len(batches[i])
        /\ Slice(current_batch, prefetched, b[k + 1])
        /\ b[k + 1] + Len(current_batch) = m
    BY <2>1, <2>2, <2>3 DEF FollowsFrom, n
  <2>7. ASSUME NEW i \in 1 .. k + 1
        PROVE  /\ Slice(batches'[i], prefetched, d[i])
               /\ d[i + 1] = d[i] + Len(batches'[i])
    <3>1. CASE i \in 1 .. k
      BY <1>2, <2>3, <2>5, <2>6, <3>1
    <3>2. CASE i = k + 1
      <4>1. i + 1 = k + 2
        BY <2>4, <3>2
      <4> QED
        BY <1>2, <2>3, <2>5, <2>6, <3>2, <4>1
    <3> QED
      BY <2>4, <3>1, <3>2
  <2>8. Slice(<<>>, prefetched, d[k + 2]) /\ d[k + 2] + Len(<<>>) = Len(prefetched)
    BY <2>2, <2>4, <2>5, SliceOfNone
  <2>9. FollowsFrom(d)'
    <3>1. /\ Slice(handled, prefetched, 0) /\ Slice(batch, prefetched, Len(handled))
          /\ d[1] = Len(handled) + Len(batch)
      BY <2>1, <2>5 DEF FollowsFrom
    <3>2. Len(batches') = k + 1 /\ Len(batches') + 1 = k + 2
      BY <1>2, <2>3, <2>4
    <3> QED
      BY <1>0, <2>7, <2>8, <3>1, <3>2 DEF FollowsFrom
  <2> QED
    BY <2>3, <2>5, <2>9
<1>9. InTransit'
  <2>1. Len(batches') + 1 = n + 2
    BY <1>1, <1>2
  <2> QED
    BY <1>0, <1>8, <2>1 DEF InTransit
<1> QED
  BY <1>3, <1>5, <1>6, <1>7, <1>9 DEF PrefetchInv

\* The sentinel stands where a batch would begin.
LEMMA PrefetchPutNone == PrefetchInv /\ Prefetch!PutNone => PrefetchInv'
<1> SUFFICES ASSUME PrefetchInv, Prefetch!PutNone PROVE PrefetchInv'
  OBVIOUS
<1>0. /\ producer \in {"putting_none", "failing", "cancelling"}
      /\ producer = "putting_none" => producer' = "done"
      /\ producer = "failing" => producer' = "failed"
      /\ producer = "cancelling" => producer' = "cancelled"
      /\ batches' = Append(batches, <<>>)
      /\ UNCHANGED <<fetched, prefetched, current_batch, consumer, batch, reason,
                     awaited, handled>>
  BY DEF Prefetch!PutNone, Prefetch!consumerVars, Prefetch!sourceVars, Prefetch!None
<1> DEFINE n == Len(batches)
<1>1. PrefetchTypes /\ n \in Nat
  BY DEF PrefetchInv, PrefetchTypes
<1>2. /\ Len(batches') = n + 1 /\ batches'[n + 1] = <<>>
      /\ \A i \in 1 .. n : batches'[i] = batches[i]
  BY <1>0, <1>1 DEF PrefetchTypes
<1>3. PrefetchTypes'
  BY <1>0, <1>1 DEF PrefetchTypes
<1> HIDE DEF n
<1>4. reason = "none" => producer' \in {"done", "failed"}
  BY <1>0 DEF PrefetchInv, PrefetchPlaces
<1>5. PrefetchPlaces'
  BY <1>0, <1>4 DEF PrefetchInv, PrefetchPlaces
<1>6. SentinelLast'
  <2>1. \A i \in 1 .. n + 1 : i \in 1 .. n \/ i = n + 1
    BY <1>1
  <2>2. reason = "none" => \A i \in 1 .. n : batches[i] # <<>>
    BY <1>0 DEF PrefetchInv, SentinelLast, n
  <2> QED
    BY <1>0, <1>2, <1>4, <2>1, <2>2 DEF SentinelLast
<1>7. CompletedIsExact'
  BY <1>0 DEF PrefetchInv, CompletedIsExact, Prefetch!CompletedIsExact
<1>8. ASSUME reason = "none"
      PROVE  \E d \in [1 .. n + 2 -> Nat] : FollowsFrom(d)'
  <2>1. PICK b \in [1 .. n + 1 -> Nat] : FollowsFrom(b)
    BY <1>8 DEF PrefetchInv, InTransit, n
  <2>3. PICK k : k = n
    OBVIOUS
  <2>4. k \in Nat /\ b \in [1 .. k + 1 -> Nat]
    BY <1>1, <2>1, <2>3
  <2> DEFINE d == [i \in 1 .. k + 2 |-> IF i = k + 2 THEN b[k + 1] ELSE b[i]]
  <2>0. /\ k + 2 \in 1 .. k + 2 /\ k + 1 \in 1 .. k + 2 /\ k + 1 # k + 2
        /\ k + 1 \in 1 .. k + 1 /\ 1 \in 1 .. k + 2 /\ 1 # k + 2
        /\ \A i \in 1 .. k : /\ i \in 1 .. k + 2 /\ i + 1 \in 1 .. k + 2
                             /\ i # k + 2 /\ i + 1 # k + 2
        /\ \A i \in 1 .. k + 2 : i # k + 2 => i \in 1 .. k + 1
    BY <2>4
  <2>5. /\ d \in [1 .. k + 2 -> Nat] /\ d[k + 2] = b[k + 1] /\ d[k + 1] = b[k + 1]
        /\ \A i \in 1 .. k : d[i] = b[i] /\ d[i + 1] = b[i + 1]
        /\ d[1] = b[1] /\ b[k + 1] \in Nat
    BY <2>4, <2>0
  <2> HIDE DEF d
  <2>6. /\ \A i \in 1 .. k : /\ Slice(batches[i], prefetched, b[i])
                             /\ b[i + 1] = b[i] + Len(batches[i])
        /\ Slice(current_batch, prefetched, b[k + 1])
        /\ b[k + 1] + Len(current_batch) = Len(prefetched)
    BY <2>1, <2>3 DEF FollowsFrom, n
  <2>7. Slice(<<>>, prefetched, b[k + 1]) /\ b[k + 1] + Len(<<>>) = b[k + 1]
    <3>1. Len(current_batch) \in Nat /\ Len(prefetched) \in Nat
      BY <1>1 DEF PrefetchTypes
    <3> QED
      BY <2>5, <2>6, <3>1, SliceOfNone
  <2>8. ASSUME NEW i \in 1 .. k + 1
        PROVE  /\ Slice(batches'[i], prefetched, d[i])
               /\ d[i + 1] = d[i] + Len(batches'[i])
    <3>1. CASE i \in 1 .. k
      BY <1>2, <2>3, <2>5, <2>6, <3>1
    <3>2. CASE i = k + 1
      <4>1. i + 1 = k + 2
        BY <2>4, <3>2
      <4> QED
        BY <1>2, <2>3, <2>5, <2>7, <3>2, <4>1
    <3> QED
      BY <2>4, <3>1, <3>2
  <2>9. FollowsFrom(d)'
    <3>1. /\ Slice(handled, prefetched, 0) /\ Slice(batch, prefetched, Len(handled))
          /\ d[1] = Len(handled) + Len(batch)
      BY <2>1, <2>5 DEF FollowsFrom
    <3>2. Len(batches') = k + 1 /\ Len(batches') + 1 = k + 2
      BY <1>2, <2>3, <2>4
    <3> QED
      BY <1>0, <2>5, <2>6, <2>8, <3>1, <3>2 DEF FollowsFrom
  <2> QED
    BY <2>3, <2>5, <2>9
<1>9. InTransit'
  <2>1. Len(batches') + 1 = n + 2
    BY <1>1, <1>2
  <2> QED
    BY <1>0, <1>8, <2>1 DEF InTransit
<1> QED
  BY <1>3, <1>5, <1>6, <1>7, <1>9 DEF PrefetchInv

\* The other steps of the producer move no message.
LEMMA PrefetchProducer == PrefetchInv /\ Prefetch!Producer => PrefetchInv'
<1> SUFFICES ASSUME PrefetchInv,
                    Prefetch!ProducerStarts \/ Prefetch!SourceEnds \/ Prefetch!SourceFails
             PROVE  PrefetchInv'
  BY PrefetchFetch, PrefetchPut, PrefetchPutNone DEF Prefetch!Producer
<1>1. /\ producer \in {"created", "fetching"}
      /\ producer' \in {"fetching", "putting_last", "putting_none", "failing"}
      /\ producer' = "putting_last" => current_batch # <<>>
      /\ producer' = "putting_none" => current_batch = <<>>
      /\ UNCHANGED <<fetched, prefetched, current_batch, batches, consumer, batch,
                     reason, awaited, handled>>
  BY DEF Prefetch!ProducerStarts, Prefetch!SourceEnds, Prefetch!SourceFails,
         Prefetch!sourceVars, Prefetch!consumerVars
<1>2. PrefetchTypes' /\ PrefetchPlaces' /\ SentinelLast' /\ CompletedIsExact'
  BY <1>1 DEF PrefetchInv, PrefetchTypes, PrefetchPlaces, SentinelLast,
              CompletedIsExact, Prefetch!CompletedIsExact
<1> QED
  BY <1>1, <1>2, NothingMoves DEF PrefetchInv

LEMMA PrefetchTop == PrefetchInv /\ Prefetch!Top => PrefetchInv'
<1> SUFFICES ASSUME PrefetchInv, Prefetch!Top PROVE PrefetchInv'
  OBVIOUS
<1>0. /\ consumer = "top"
      /\ UNCHANGED <<fetched, prefetched, current_batch, batches, batch, handled>>
  BY DEF Prefetch!Top, Prefetch!sourceVars
<1>1. PrefetchTypes'
  BY <1>0 DEF PrefetchInv, PrefetchTypes
<1>2. CASE Prefetch!Stop("shutdown")
  BY <1>0, <1>1, <1>2, LeftEarly DEF PrefetchInv
<1>3. CASE consumer' = "getting" /\ UNCHANGED <<producer, reason, awaited>>
  <2>1. PrefetchPlaces' /\ SentinelLast' /\ CompletedIsExact'
    BY <1>0, <1>3 DEF PrefetchInv, PrefetchPlaces, SentinelLast, CompletedIsExact,
                      Prefetch!CompletedIsExact
  <2> QED
    BY <1>0, <1>1, <1>3, <2>1, NothingMoves DEF PrefetchInv
<1> QED
  BY <1>2, <1>3 DEF Prefetch!Top

\* The sentinel is taken when all that was put has been written.
LEMMA SentinelTaken ==
  ASSUME PrefetchInv, consumer = "getting", batches # <<>>, Head(batches) = <<>>
  PROVE  /\ producer \in {"done", "failed"}
         /\ handled = SubSeq(prefetched, 1, Len(prefetched) - Len(current_batch))
<1>1. PrefetchTypes /\ reason = "none" /\ batch = <<>>
  BY DEF PrefetchInv, PrefetchPlaces
<1>2. Len(batches) \in Nat /\ 1 \in 1 .. Len(batches) /\ batches[1] = <<>>
  BY <1>1 DEF PrefetchTypes
<1>3. Len(batches) = 1 /\ producer \in {"done", "failed"}
  BY <1>1, <1>2 DEF PrefetchInv, SentinelLast
<1>4. PICK b \in [1 .. Len(batches) + 1 -> Nat] : FollowsFrom(b)
  BY <1>1 DEF PrefetchInv, InTransit
<1>5. /\ Slice(handled, prefetched, 0)
      /\ b[1] = Len(handled) + Len(batch)
      /\ b[1 + 1] = b[1] + Len(batches[1])
      /\ b[1 + 1] + Len(current_batch) = Len(prefetched)
  BY <1>2, <1>3, <1>4 DEF FollowsFrom
<1>6. /\ Len(handled) \in Nat /\ Len(current_batch) \in Nat
      /\ Len(prefetched) \in Nat /\ Len(batch) = 0 /\ Len(batches[1]) = 0
  BY <1>1, <1>2 DEF PrefetchTypes
<1>7. Len(handled) = Len(prefetched) - Len(current_batch)
  BY <1>5, <1>6
<1>8. handled = SubSeq(prefetched, 1, Len(handled))
  BY <1>1, <1>5, SliceFromStart DEF PrefetchTypes
<1> QED
  BY <1>3, <1>7, <1>8

LEMMA PrefetchGet == PrefetchInv /\ Prefetch!Get => PrefetchInv'
<1> SUFFICES ASSUME PrefetchInv, Prefetch!Get PROVE PrefetchInv'
  OBVIOUS
<1>0. /\ consumer = "getting" /\ batches # <<>> /\ batches' = Tail(batches)
      /\ UNCHANGED <<fetched, prefetched, current_batch, handled>>
  BY DEF Prefetch!Get, Prefetch!sourceVars
<1>1. PrefetchTypes /\ reason = "none" /\ batch = <<>>
  BY <1>0 DEF PrefetchInv, PrefetchPlaces
<1>2. CASE /\ Head(batches) = <<>> /\ Prefetch!Stop("completed") /\ UNCHANGED batch
  <2>1. /\ producer \in {"done", "failed"}
        /\ handled = SubSeq(prefetched, 1, Len(prefetched) - Len(current_batch))
        /\ producer = "done" => current_batch = <<>>
    BY <1>0, <1>2, SentinelTaken DEF PrefetchInv, PrefetchPlaces
  <2>2. producer' = producer /\ consumer' = "stopping" /\ reason' = "completed"
    BY <1>2, <2>1 DEF Prefetch!Stop, Prefetch!Over
  <2>3. PrefetchTypes'
    BY <1>0, <1>1, <1>2 DEF PrefetchTypes
  <2>4. PrefetchPlaces' /\ SentinelLast' /\ InTransit'
    BY <1>0, <2>1, <2>2 DEF PrefetchPlaces, SentinelLast, InTransit
  <2>5. CompletedIsExact'
    BY <1>0, <2>1, <2>2 DEF CompletedIsExact, Prefetch!CompletedIsExact
  <2> QED
    BY <2>3, <2>4, <2>5 DEF PrefetchInv
<1>3. CASE /\ Head(batches) # <<>>
           /\ batch' = Head(batches) /\ consumer' = "processing"
           /\ UNCHANGED <<producer, reason, awaited>>
  <2>1. PICK k : k = Len(batches) - 1
    OBVIOUS
  <2>2. /\ k \in Nat /\ Len(batches) = k + 1 /\ Len(batches') = k
        /\ batch' = batches[1]
        /\ \A i \in 1 .. k : batches'[i] = batches[i + 1]
    BY <1>0, <1>1, <1>3, <2>1 DEF PrefetchTypes
  <2>3. PrefetchTypes'
    BY <1>0, <1>1, <1>3 DEF PrefetchTypes
  <2>4. PrefetchPlaces' /\ CompletedIsExact'
    BY <1>0, <1>1, <1>3 DEF PrefetchInv, PrefetchPlaces, CompletedIsExact,
                            Prefetch!CompletedIsExact
  <2>5. SentinelLast'
    <3>1. \A i \in 1 .. k : i + 1 \in 1 .. k + 1 /\ (i + 1 = k + 1 => i = k)
      BY <2>2
    <3> QED
      BY <1>1, <1>3, <2>2, <3>1 DEF PrefetchInv, SentinelLast
  <2>6. PICK b \in [1 .. k + 2 -> Nat] : FollowsFrom(b)
    <3>1. Len(batches) + 1 = k + 2
      BY <2>2
    <3> QED
      BY <1>1, <3>1 DEF PrefetchInv, InTransit
  <2> DEFINE d == [i \in 1 .. k + 1 |-> b[i + 1]]
  <2>7. /\ d \in [1 .. k + 1 -> Nat] /\ d[1] = b[2] /\ d[k + 1] = b[k + 2]
        /\ \A i \in 1 .. k : d[i] = b[i + 1] /\ d[i + 1] = b[(i + 1) + 1]
    BY <2>2
  <2> HIDE DEF d
  <2>8. /\ Slice(handled, prefetched, 0)
        /\ b[1] = Len(handled) + Len(batch) /\ Len(batch) = 0 /\ Len(handled) \in Nat
        /\ \A i \in 1 .. k + 1 : /\ Slice(batches[i], prefetched, b[i])
                                 /\ b[i + 1] = b[i] + Len(batches[i])
        /\ Slice(current_batch, prefetched, b[k + 2])
        /\ b[k + 2] + Len(current_batch) = Len(prefetched)
    <3>1. (k + 1) + 1 = k + 2
      BY <2>2
    <3> QED
      BY <1>1, <2>2, <2>6, <3>1 DEF FollowsFrom, PrefetchTypes
  <2>9. /\ b[1] = Len(handled) /\ 1 \in 1 .. k + 1
        /\ Slice(batches[1], prefetched, b[1]) /\ b[2] = b[1] + Len(batches[1])
    <3>1. 1 \in 1 .. k + 1 /\ 1 + 1 = 2 /\ b[1] = Len(handled)
      BY <2>2, <2>8
    <3>2. Slice(batches[1], prefetched, b[1]) /\ b[1 + 1] = b[1] + Len(batches[1])
      BY <2>8, <3>1, Zenon
    <3> QED
      BY <3>1, <3>2
  <2>10. ASSUME NEW i \in 1 .. k
         PROVE  /\ Slice(batches'[i], prefetched, d[i])
                /\ d[i + 1] = d[i] + Len(batches'[i])
    <3>1. i + 1 \in 1 .. k + 1
      BY <2>2
    <3> QED
      BY <2>2, <2>7, <2>8, <3>1
  <2>11. FollowsFrom(d)'
    BY <1>0, <2>2, <2>7, <2>8, <2>9, <2>10 DEF FollowsFrom
  <2>12. InTransit'
    BY <2>2, <2>7, <2>11 DEF InTransit
  <2> QED
    BY <2>3, <2>4, <2>5, <2>12 DEF PrefetchInv
<1> QED
  BY <1>2, <1>3 DEF Prefetch!Get, Prefetch!None

LEMMA PrefetchProcess == PrefetchInv /\ Prefetch!Process => PrefetchInv'
<1> SUFFICES ASSUME PrefetchInv, Prefetch!Process PROVE PrefetchInv'
  OBVIOUS
<1>0. /\ consumer = "processing" /\ batch' = <<>>
      /\ UNCHANGED <<fetched, prefetched, current_batch, batches>>
  BY DEF Prefetch!Process, Prefetch!sourceVars
<1>1. PrefetchTypes /\ reason = "none"
  BY <1>0 DEF PrefetchInv, PrefetchPlaces
<1>2. handled' \in {handled, handled \o batch}
  BY DEF Prefetch!Process
<1>3. PrefetchTypes'
  <2>0. handled \in Seq(Nat) /\ handled \o batch \in Seq(Nat)
    <3>1. handled \in Seq(Nat) /\ batch \in Seq(Nat)
      BY <1>1 DEF PrefetchTypes
    <3> QED
      BY <3>1, ConcatProperties
  <2>1. handled' \in Seq(Nat)
    BY <1>2, <2>0, Zenon
  <2>2. batch' \in Seq(Nat)
    BY <1>0
  <2> QED
    BY <1>0, <1>1, <2>1, <2>2 DEF PrefetchTypes
<1>4. CASE Prefetch!Stop("shutdown") \/ Prefetch!Stop("error")
  BY <1>0, <1>3, <1>4, LeftEarly DEF PrefetchInv
<1>5. CASE /\ handled' = handled \o batch /\ consumer' = "top"
           /\ UNCHANGED <<producer, reason, awaited>>
  <2>1. PrefetchPlaces' /\ SentinelLast' /\ CompletedIsExact'
    BY <1>0, <1>1, <1>5 DEF PrefetchInv, PrefetchPlaces, SentinelLast,
                            CompletedIsExact, Prefetch!CompletedIsExact
  <2>2. PICK b \in [1 .. Len(batches) + 1 -> Nat] : FollowsFrom(b)
    BY <1>1 DEF PrefetchInv, InTransit
  <2>3. /\ Slice(handled', prefetched, 0)
        /\ Len(handled') = Len(handled) + Len(batch)
    <3>1. Slice(handled, prefetched, 0) /\ Slice(batch, prefetched, 0 + Len(handled))
      BY <1>1, <2>2 DEF FollowsFrom, PrefetchTypes
    <3> QED
      BY <1>1, <1>5, <3>1, SlicesJoined DEF PrefetchTypes
  <2>4. Slice(<<>>, prefetched, Len(handled')) /\ Len(handled') + Len(<<>>) = Len(handled')
    <3>1. Len(handled') \in Nat /\ Len(handled') <= Len(prefetched)
      BY <1>3, <2>3 DEF PrefetchTypes, Slice
    <3> QED
      BY <3>1, SliceOfNone
  <2>5. FollowsFrom(b)'
    BY <1>0, <2>2, <2>3, <2>4 DEF FollowsFrom
  <2>6. InTransit'
    BY <1>0, <2>5 DEF InTransit
  <2> QED
    BY <1>3, <2>1, <2>6 DEF PrefetchInv
<1> QED
  BY <1>4, <1>5 DEF Prefetch!Process

\* What happens once the loop is left touches nothing of it.
LEMMA PrefetchStopped == PrefetchInv /\ Prefetch!Stopped => PrefetchInv'
<1> SUFFICES ASSUME PrefetchInv, Prefetch!Stopped PROVE PrefetchInv'
  OBVIOUS
<1>0. /\ consumer = "stopping" /\ consumer' \in {"raised", "returned"}
      /\ batches' \in {batches, <<>>}
      /\ UNCHANGED <<fetched, prefetched, current_batch, producer, batch, reason,
                     awaited, handled>>
  BY DEF Prefetch!Stopped, Prefetch!sourceVars
<1>1. PrefetchTypes' /\ reason # "none"
  <2>1. PrefetchTypes /\ <<>> \in Seq(Seq(Nat))
    BY DEF PrefetchInv
  <2>2. batches' \in Seq(Seq(Nat))
    BY <1>0, <2>1 DEF PrefetchTypes
  <2> QED
    BY <1>0, <2>1, <2>2 DEF PrefetchInv, PrefetchTypes, PrefetchPlaces
<1>2. PrefetchPlaces' /\ SentinelLast' /\ InTransit' /\ CompletedIsExact'
  BY <1>0, <1>1 DEF PrefetchInv, PrefetchPlaces, SentinelLast, InTransit,
                    CompletedIsExact, Prefetch!CompletedIsExact
<1> QED
  BY <1>1, <1>2 DEF PrefetchInv

LEMMA PrefetchTimeout == PrefetchInv /\ Prefetch!Timeout => PrefetchInv'
<1> SUFFICES ASSUME PrefetchInv, Prefetch!Timeout PROVE PrefetchInv'
  OBVIOUS
<1>0. UNCHANGED <<fetched, prefetched, current_batch, batches, handled>>
  BY DEF Prefetch!Timeout, Prefetch!sourceVars
<1>1. CASE Prefetch!Stop("error") /\ batch' = <<>>
  <2>1. PrefetchTypes'
    BY <1>0, <1>1 DEF PrefetchInv, PrefetchTypes
  <2> QED
    BY <1>0, <1>1, <2>1, LeftEarly DEF PrefetchInv
<1>2. CASE /\ consumer = "stopping" /\ producer = "cancelling"
           /\ producer' = "cancelled"
           /\ UNCHANGED <<consumer, reason, awaited, batch>>
  <2>1. PrefetchTypes' /\ reason # "none"
    BY <1>0, <1>2 DEF PrefetchInv, PrefetchTypes, PrefetchPlaces
  <2>2. PrefetchPlaces' /\ SentinelLast' /\ InTransit' /\ CompletedIsExact'
    BY <1>0, <1>2, <2>1 DEF PrefetchInv, PrefetchPlaces, SentinelLast, InTransit,
                            CompletedIsExact, Prefetch!CompletedIsExact
  <2> QED
    BY <2>1, <2>2 DEF PrefetchInv
<1> QED
  BY <1>1, <1>2 DEF Prefetch!Timeout

LEMMA PrefetchNext == PrefetchInv /\ Prefetch!Next => PrefetchInv'
<1> SUFFICES ASSUME PrefetchInv, Prefetch!RequestShutdown \/ Prefetch!Done
             PROVE  PrefetchInv'
  BY PrefetchProducer, PrefetchTop, PrefetchGet, PrefetchProcess,
     PrefetchStopped, PrefetchTimeout DEF Prefetch!Next, Prefetch!Consumer
<1>1. UNCHANGED <<producer, fetched, prefetched, current_batch, batches, consumer,
                  batch, reason, handled>>
  BY DEF Prefetch!RequestShutdown, Prefetch!Done, Prefetch!vars,
         Prefetch!sourceVars, Prefetch!consumerVars
<1> QED
  BY <1>1, PrefetchRests

LEMMA PrefetchStep ==
  PrefetchInv /\ [FetchingNext]_<<which, vars, prefetchVars, shardedVars, zoneVars>>
    => PrefetchInv'
<1> SUFFICES ASSUME PrefetchInv,
                    [FetchingNext]_<<which, vars, prefetchVars, shardedVars, zoneVars>>
             PROVE  PrefetchInv'
  OBVIOUS
<1>1. Prefetch!Next \/ UNCHANGED prefetchVars
  BY DEF FetchingNext, OfStream, OfPrefetch, OfSharded, OfZones
<1>2. CASE UNCHANGED prefetchVars
  BY <1>2, PrefetchRests DEF prefetchVars
<1> QED
  BY <1>1, <1>2, PrefetchNext

(* An export with prefetching that ends on the sentinel has written all    *)
(* messages that were not skipped, or all in full batches if the source    *)
(* failed -- for any sizes of batch and queue and any history, however the *)
(* two tasks interleave (PrefetchBatchProcessor, _export_with_prefetch).   *)
THEOREM CompletedAlwaysExact == FetchingSpec => []CompletedIsExact
<1>1. PrefetchInv => CompletedIsExact
  BY DEF PrefetchInv
<1> QED
  BY <1>1, PrefetchStarts, PrefetchStep, PTL DEF FetchingSpec

-----------------------------------------------------------------------------
(* ShardedFetch                                                            *)

\* The instance counts as the module does.
LEMMA SameCardinality == \A S : Sharded!Cardinality(S) = Cardinality(S)
  BY Zenon DEF Sharded!Cardinality, Cardinality

(* Sorting numbers that are all different: they are in ascending order, no *)
(* one is lost and none is new.                                            *)
LEMMA SortedFacts ==
  ASSUME NEW S \in SUBSET Nat, NEW s \in Seq(S), Once(s),
         NEW r, r = Sharded!Sorted(s)
  PROVE  Sorts(r, s, S)
<1> DEFINE D == 1 .. Len(s)
           p == [k \in 1 .. Cardinality(D) |->
                   CHOOSE j \in D : Cardinality({i \in D : s[i] < s[j]}) = k - 1]
<1>1. /\ Len(s) \in Nat /\ IsFiniteSet(D) /\ Cardinality(D) = Len(s)
      /\ DOMAIN s = D /\ \A i \in D : s[i] \in Nat
      /\ \A i, j \in D : s[i] = s[j] => i = j
  <2>1. Len(s) \in Nat /\ DOMAIN s = D /\ \A i \in D : s[i] \in S
    OBVIOUS
  <2>2. /\ IsFiniteSet(1 .. Len(s))
        /\ Cardinality(1 .. Len(s)) = IF 1 > Len(s) THEN 0 ELSE Len(s) - 1 + 1
    BY <2>1, FS_Interval
  <2>3. Len(s) = IF 1 > Len(s) THEN 0 ELSE Len(s) - 1 + 1
    BY <2>1
  <2>4. \A i \in D : s[i] \in Nat
    BY <2>1
  <2> QED
    BY <2>1, <2>2, <2>3, <2>4 DEF Once
<1>2. \A j \in D : {i \in D : Sharded!Before(s, i, j)} = {i \in D : s[i] < s[j]}
  <2> HIDE DEF D
  <2>1. \A i, j \in D : Sharded!Before(s, i, j) <=> s[i] < s[j]
    BY <1>1 DEF Sharded!Before
  <2> QED
    BY <2>1
<1>3. Sharded!Sorted(s) = [k \in D |-> s[p[k]]]
  <2> DEFINE Earlier(j) == Sharded!Cardinality({i \in D : Sharded!Before(s, i, j)})
             Smaller(j) == Cardinality({i \in D : s[i] < s[j]})
  <2>1. Sharded!Sorted(s) = [k \in D |-> s[CHOOSE j \in D : Earlier(j) = k - 1]]
    BY DEF Sharded!Sorted
  <2>2. \A j \in D : Earlier(j) = Smaller(j)
    <3> HIDE DEF D
    <3> QED
      BY <1>2, SameCardinality
  <2>3. p = [k \in 1 .. Cardinality(D) |-> CHOOSE j \in D : Smaller(j) = k - 1]
    OBVIOUS
  <2>4. D = 1 .. Cardinality(D)
    BY <1>1
  <2> HIDE DEF D, Earlier, Smaller, p
  <2>5. \A k \in D : (CHOOSE j \in D : Earlier(j) = k - 1)
                     = CHOOSE j \in D : Smaller(j) = k - 1
    BY <2>2
  <2> QED
    BY <2>1, <2>3, <2>4, <2>5
<1>4. RankingOf(p, D, s)
  BY DEF RankingOf
<1> HIDE DEF p
<1>5. RankingOf(p, 1 .. Len(s), s) /\ r = [k \in 1 .. Len(s) |-> s[p[k]]]
  BY <1>3, <1>4
<1> QED
  BY <1>5, SortedByRank

\* What the assumption says of the constants of the sharded fetch.
LEMMA ShardedConstants ==
  /\ NWorkers \in Nat \ {0} /\ NewestId \in Nat \ {0}
  /\ ChunkSizes \subseteq Nat \ {0}
  /\ PageSize \in Nat \ {0} /\ MessageQueueSize \in Nat \ {0}
  /\ SplitSpan \in Nat /\ SplitSpan >= 3
  /\ MaxRetries \in Nat
  BY FetchingAssumption DEF Sharded!ShardedAssumption

\* A page holds the newest of what was asked for, all of it if it is the last.
LEMMA PageFacts ==
  ASSUME Sharded!TypeOK, NEW w \in Sharded!Workers,
         NEW D, D = Sharded!Asked(w), NEW s, s = Sharded!Page(w)
  PROVE  /\ D \subseteq history /\ s \in Seq(D) /\ Once(s)
         /\ Sharded!LastPage(w, s) => ToSet(s) = D
         /\ ~Sharded!LastPage(w, s) =>
              Sharded!Last(s) \in D /\ ToSet(s) = {i \in D : Sharded!Last(s) <= i}
<1>1. D \subseteq history /\ D \in SUBSET (0 .. NewestId) /\ NewestId \in Nat
  <2>1. NewestId \in Nat /\ history \in SUBSET (1 .. NewestId)
    BY ShardedConstants DEF Sharded!TypeOK, Sharded!Ids
  <2>2. D \subseteq history
    BY DEF Sharded!Asked
  <2>3. \A i \in 1 .. NewestId : i \in 0 .. NewestId
    BY <2>1
  <2> HIDE DEF Sharded!TypeOK
  <2> QED
    BY <2>1, <2>2, <2>3
<1>2. IsFiniteSet(D) /\ Cardinality(D) \in Nat
  <2>1. IsFiniteSet(0 .. NewestId)
    BY <1>1, FS_Interval
  <2> QED
    BY <1>1, <2>1, FS_Subset, FS_CardinalityType
<1> DEFINE size == Cardinality(D)
           m == IF size < PageSize THEN size ELSE PageSize
           pick(k) == CHOOSE i \in D : Cardinality({j \in D : j > i}) = k - 1
           p == [k \in 1 .. size |-> pick(k)]
<1>3. s = [k \in 1 .. m |-> pick(k)]
  <2> DEFINE chosen(k) ==
        CHOOSE i \in D : Sharded!Cardinality({j \in D : j > i}) = k - 1
  <2>1. s = [k \in 1 .. (IF Sharded!Cardinality(D) < PageSize
                           THEN Sharded!Cardinality(D) ELSE PageSize) |-> chosen(k)]
    BY DEF Sharded!Page
  <2>2. \A k : chosen(k) = pick(k)
    BY SameCardinality
  <2> HIDE DEF pick, chosen
  <2> QED
    BY <2>1, <2>2, SameCardinality
<1>4. Descending(p, D)
  BY DEF Descending
<1>5. m \in Nat /\ m <= size /\ (m # size => m = PageSize) /\ PageSize \in Nat \ {0}
  BY <1>2, ShardedConstants
<1>6. s = [k \in 1 .. m |-> p[k]]
  <2> HIDE DEF pick
  <2>1. \A k \in 1 .. m : k \in 1 .. size
    <3> HIDE DEF m
    <3> QED
      BY <1>2, <1>5
  <2> HIDE DEF m
  <2> QED
    BY <1>3, <2>1
<1> HIDE DEF p
<1>7. Largest(s, D, m)
  BY <1>1, <1>4, <1>5, <1>6, LargestFirst
<1>8. s \in Seq(D) /\ Len(s) = m /\ Once(s)
  BY <1>7 DEF Largest
<1>9. Sharded!LastPage(w, s) => m = size
  <2>1. s = <<>> => m = 0
    BY <1>8
  <2> QED
    BY <1>2, <1>5, <1>8, <2>1 DEF Sharded!LastPage
<1>10. ~Sharded!LastPage(w, s) => m > 0 /\ Sharded!Last(s) = s[m]
  <2>1. ~Sharded!LastPage(w, s) => m >= PageSize
    BY <1>5, <1>8 DEF Sharded!LastPage
  <2> QED
    BY <1>5, <1>8, <2>1 DEF Sharded!Last
<1> HIDE DEF m, size
<1> QED
  BY <1>1, <1>7, <1>8, <1>9, <1>10 DEF Largest, size

-----------------------------------------------------------------------------
\* Chunks <<start, end, ...>> that follow each other upwards from m.
Chain(m, cs) ==
  /\ \A k \in DOMAIN cs : m <= cs[k][1] /\ cs[k][1] <= cs[k][2]
  /\ \A k, l \in DOMAIN cs : k < l => cs[k][2] <= cs[l][1]

\* Which of the ids in W are in a chunk, in one of several chunks.
IdsOf(W, c) == {i \in W : c[1] < i /\ i <= c[2]}
IdsOfAll(W, cs) == {i \in W : \E k \in DOMAIN cs : cs[k][1] < i /\ i <= cs[k][2]}

\* Without chunks there are no ids in them.
LEMMA NoChunks ==
  ASSUME NEW W, NEW m PROVE Chain(m, <<>>) /\ IdsOfAll(W, <<>>) = {}
  BY DEF Chain, IdsOfAll

\* A chunk behind the others goes on with them.
LEMMA ChunkAppended ==
  ASSUME NEW C, NEW cs \in Seq(C), NEW c \in C, NEW W, NEW m, Chain(m, cs),
         m <= c[1], c[1] <= c[2], \A k \in DOMAIN cs : cs[k][2] <= c[1]
  PROVE  /\ IdsOfAll(W, Append(cs, c)) = IdsOfAll(W, cs) \cup IdsOf(W, c)
         /\ Chain(m, Append(cs, c))
<1> DEFINE r == Append(cs, c)
<1>1. /\ Len(cs) \in Nat /\ DOMAIN cs = 1 .. Len(cs) /\ DOMAIN r = 1 .. (Len(cs) + 1)
      /\ \A k \in 1 .. Len(cs) : r[k] = cs[k]
      /\ r[Len(cs) + 1] = c
  OBVIOUS
<1> HIDE DEF r
<1>2. \A k : k \in DOMAIN r <=> k \in DOMAIN cs \/ k = Len(cs) + 1
  BY <1>1
<1>3. IdsOfAll(W, r) = IdsOfAll(W, cs) \cup IdsOf(W, c)
  BY <1>1, <1>2 DEF IdsOfAll, IdsOf
<1>4. Chain(m, r)
  <2>1. \A k \in DOMAIN r : m <= r[k][1] /\ r[k][1] <= r[k][2]
    BY <1>1, <1>2 DEF Chain
  <2>2. ASSUME NEW k \in DOMAIN r, NEW l \in DOMAIN r, k < l PROVE r[k][2] <= r[l][1]
    <3>1. k \in DOMAIN cs
      BY <1>1, <2>2
    <3>2. CASE l = Len(cs) + 1
      BY <1>1, <3>1, <3>2
    <3>3. CASE l \in DOMAIN cs
      BY <1>1, <2>2, <3>1, <3>3 DEF Chain
    <3> QED
      BY <1>2, <3>2, <3>3
  <2> QED
    BY <2>1, <2>2 DEF Chain
<1> QED
  BY <1>3, <1>4 DEF r

\* The first chunk has its ids, the others have the rest.
LEMMA ChunkTaken ==
  ASSUME NEW C, \A x \in C : x[1] \in Nat /\ x[2] \in Nat, NEW cs \in Seq(C), cs # <<>>,
         NEW W \in SUBSET Nat, NEW m, Chain(m, cs)
  PROVE  /\ Head(cs) \in C /\ Tail(cs) \in Seq(C)
         /\ IdsOfAll(W, cs) = IdsOf(W, Head(cs)) \cup IdsOfAll(W, Tail(cs))
         /\ Chain(m, Tail(cs))
         /\ m <= Head(cs)[1] /\ Head(cs)[1] <= Head(cs)[2]
         /\ \A k \in DOMAIN Tail(cs) : Head(cs)[2] <= Tail(cs)[k][1]
         /\ IdsOf(W, Head(cs)) \cap IdsOfAll(W, Tail(cs)) = {}
<1> DEFINE r == Tail(cs)
           c == Head(cs)
<1>1. /\ r \in Seq(C) /\ c \in C /\ c = cs[1]
      /\ DOMAIN cs \subseteq Nat /\ DOMAIN r \subseteq Nat
      /\ 1 \in DOMAIN cs
      /\ \A k \in DOMAIN r : k + 1 \in DOMAIN cs /\ k + 1 > 1 /\ r[k] = cs[k + 1]
      /\ \A k \in DOMAIN cs : k = 1 \/ (k - 1 \in DOMAIN r /\ r[k - 1] = cs[k])
  BY TailAt
<1>2. \A k \in DOMAIN cs : cs[k] \in C /\ cs[k][1] \in Nat /\ cs[k][2] \in Nat
  <2>1. \A k \in DOMAIN cs : cs[k] \in C
    OBVIOUS
  <2> QED
    BY <2>1
<1> HIDE DEF r, c
<1>3. \A k \in DOMAIN r : k + 1 \in DOMAIN cs /\ k + 1 > 1 /\ r[k] = cs[k + 1]
  BY <1>1
<1>4. \A k \in DOMAIN cs : k = 1 \/ (k - 1 \in DOMAIN r /\ r[k - 1] = cs[k])
  BY <1>1
<1>5. 1 \in DOMAIN cs
  BY <1>1
<1>6. IdsOfAll(W, cs) = IdsOf(W, c) \cup IdsOfAll(W, r)
  <2>1. IdsOfAll(W, cs) \subseteq IdsOf(W, c) \cup IdsOfAll(W, r)
    BY <1>1, <1>4 DEF IdsOfAll, IdsOf
  <2>2. IdsOf(W, c) \cup IdsOfAll(W, r) \subseteq IdsOfAll(W, cs)
    BY <1>1, <1>3, <1>5 DEF IdsOfAll, IdsOf
  <2> QED
    BY <2>1, <2>2
<1>7. /\ Chain(m, r) /\ m <= c[1] /\ c[1] <= c[2]
      /\ \A k \in DOMAIN r : c[2] <= r[k][1]
      /\ IdsOf(W, c) \cap IdsOfAll(W, r) = {}
  <2>1. m <= c[1] /\ c[1] <= c[2]
    BY <1>1, <1>5 DEF Chain
  <2>2. \A k \in DOMAIN r : c[2] <= r[k][1]
    BY <1>1, <1>3, <1>5 DEF Chain
  <2>3. Chain(m, r)
    <3>1. \A k \in DOMAIN r : m <= r[k][1] /\ r[k][1] <= r[k][2]
      BY <1>3 DEF Chain
    <3>2. \A k, l \in DOMAIN r : k < l => k + 1 < l + 1
      BY <1>1
    <3>3. \A k, l \in DOMAIN r : k < l => r[k][2] <= r[l][1]
      BY <1>3, <3>2 DEF Chain
    <3> QED
      BY <3>1, <3>3 DEF Chain
  <2>4. ASSUME NEW i \in IdsOf(W, c), i \in IdsOfAll(W, r) PROVE FALSE
    <3>1. PICK k \in DOMAIN r : r[k][1] < i /\ i <= r[k][2]
      BY <2>4 DEF IdsOfAll
    <3>2. i \in Nat /\ i <= c[2]
      BY <2>4 DEF IdsOf
    <3>3. c[2] <= r[k][1]
      BY <2>2
    <3>4. c[2] \in Nat /\ r[k][1] \in Nat
      BY <1>1, <1>2, <1>3, <1>5
    <3> QED
      BY <3>1, <3>2, <3>3, <3>4
  <2> QED
    BY <2>1, <2>2, <2>3, <2>4
<1> QED
  BY <1>1, <1>6, <1>7 DEF r, c

\* Chunks that lie behind others go on with them.
LEMMA ChainsJoined ==
  ASSUME NEW C, NEW s \in Seq(C), NEW t \in Seq(C), NEW W, NEW m,
         Chain(m, s), Chain(m, t),
         \A k \in DOMAIN s, l \in DOMAIN t : s[k][2] <= t[l][1]
  PROVE  /\ s \o t \in Seq(C) /\ Chain(m, s \o t)
         /\ IdsOfAll(W, s \o t) = IdsOfAll(W, s) \cup IdsOfAll(W, t)
<1> DEFINE r == s \o t
<1>1. /\ r \in Seq(C) /\ Len(s) \in Nat /\ DOMAIN r \subseteq Nat
      /\ \A k \in DOMAIN s : k \in DOMAIN r /\ r[k] = s[k]
      /\ \A k \in DOMAIN t : Len(s) + k \in DOMAIN r /\ r[Len(s) + k] = t[k]
      /\ \A k \in DOMAIN r : \/ k \in DOMAIN s /\ k <= Len(s) /\ r[k] = s[k]
                             \/ k - Len(s) \in DOMAIN t /\ k > Len(s) /\ r[k] = t[k - Len(s)]
  BY JoinedAt
<1> HIDE DEF r
<1>2. \A k \in DOMAIN s : k \in DOMAIN r /\ r[k] = s[k]
  BY <1>1
<1>3. \A k \in DOMAIN t : Len(s) + k \in DOMAIN r /\ r[Len(s) + k] = t[k]
  BY <1>1
<1>4. \A k \in DOMAIN r : \/ k \in DOMAIN s /\ k <= Len(s) /\ r[k] = s[k]
                          \/ k - Len(s) \in DOMAIN t /\ k > Len(s) /\ r[k] = t[k - Len(s)]
  BY <1>1
<1>5. IdsOfAll(W, r) = IdsOfAll(W, s) \cup IdsOfAll(W, t)
  <2>1. IdsOfAll(W, r) \subseteq IdsOfAll(W, s) \cup IdsOfAll(W, t)
    BY <1>4 DEF IdsOfAll
  <2>2. IdsOfAll(W, s) \cup IdsOfAll(W, t) \subseteq IdsOfAll(W, r)
    BY <1>2, <1>3 DEF IdsOfAll
  <2> QED
    BY <2>1, <2>2
<1>6. Chain(m, r)
  <2>1. \A k \in DOMAIN r : m <= r[k][1] /\ r[k][1] <= r[k][2]
    BY <1>4 DEF Chain
  <2>2. ASSUME NEW k \in DOMAIN r, NEW l \in DOMAIN r, k < l PROVE r[k][2] <= r[l][1]
    <3>0. k \in Int /\ l \in Int
      BY <1>1
    <3>1. CASE k <= Len(s) /\ l <= Len(s)
      <4>1. k \in DOMAIN s /\ l \in DOMAIN s /\ r[k] = s[k] /\ r[l] = s[l]
        BY <1>1, <1>4, <3>1
      <4> QED
        BY <2>2, <4>1 DEF Chain
    <3>2. CASE k <= Len(s) /\ l > Len(s)
      <4>1. k \in DOMAIN s /\ r[k] = s[k]
        BY <1>1, <1>4, <3>2
      <4>2. l - Len(s) \in DOMAIN t /\ r[l] = t[l - Len(s)]
        BY <1>1, <1>4, <3>2
      <4> QED
        BY <4>1, <4>2
    <3>3. CASE k > Len(s) /\ l > Len(s)
      <4>1. /\ k - Len(s) \in DOMAIN t /\ r[k] = t[k - Len(s)]
            /\ l - Len(s) \in DOMAIN t /\ r[l] = t[l - Len(s)]
        BY <1>1, <1>4, <3>3
      <4>2. k - Len(s) < l - Len(s)
        BY <1>1, <2>2, <3>0
      <4> QED
        BY <4>1, <4>2 DEF Chain
    <3> QED
      BY <1>1, <2>2, <3>0, <3>1, <3>2, <3>3
  <2> QED
    BY <2>1, <2>2 DEF Chain
<1> QED
  BY <1>1, <1>5, <1>6 DEF r

-----------------------------------------------------------------------------
\* What worker w has still to stream: the ids of its chunks; of the current one,
\* once it is read, those in the buffer.
Mine(w) ==
  IF phase[w] = "fetching" THEN IdsOfAll(Sharded!Wanted, todo[w])
  ELSE IF phase[w] = "streaming"
    THEN ToSet(buffer[w]) \cup IdsOfAll(Sharded!Wanted, Tail(todo[w]))
    ELSE {}

\* Where an id that is asked for can be, and the ids that are there.
FetchPlaces ==
  ({"planned", "tasks", "out"} \X {0}) \cup ({"mine", "queue"} \X Sharded!Workers)
Holds ==
  [p \in FetchPlaces |->
     CASE p[1] = "planned" -> {i \in Sharded!Wanted : i > current_id}
       [] p[1] = "tasks"   -> IdsOfAll(Sharded!Wanted, task_queue)
       [] p[1] = "mine"    -> Mine(p[2])
       [] p[1] = "queue"   -> ToSet(queue[p[2]])
       [] p[1] = "out"     -> ToSet(all_messages)]

\* No id is in two places; each one is somewhere.
KeptApart(H, P, W) ==
  /\ \A p \in P : H[p] \subseteq W
  /\ \A p, q \in P : p # q => H[p] \cap H[q] = {}
AllKept(H, P, W) == \A i \in W : \E p \in P : i \in H[p]

\* The messages of a chat with ids from l to u.
MessagesIn(H, l, u) == {i \in H : l <= i /\ i <= u}

\* The state of a worker: its chunks follow each other, and what is read of the
\* current one is what the chat has from the offset to its end.
WorkerOK(w) ==
  /\ Chain(min_id, todo[w])
  /\ phase[w] \in {"fetching", "streaming"} => todo[w] # <<>>
  /\ phase[w] = "fetching" =>
       /\ Head(todo[w])[1] < worker_offset[w]
       /\ worker_offset[w] <= Head(todo[w])[2] + 1
       /\ Once(buffer[w])
       /\ ToSet(buffer[w]) = MessagesIn(history, worker_offset[w], Head(todo[w])[2])
  /\ phase[w] = "streaming" =>
       /\ Once(buffer[w])
       /\ ToSet(buffer[w]) \subseteq IdsOf(Sharded!Wanted, Head(todo[w]))
  /\ Once(queue[w])
  /\ finished[w] => phase[w] = "over"
  /\ phase[w] = "over" /\ ~failed[w] => main # "planning" /\ task_queue = <<>>

PlanOK ==
  /\ history # {} /\ min_id <= current_id
  /\ Chain(min_id, task_queue)
  /\ \A k \in DOMAIN task_queue : task_queue[k][2] <= current_id
  /\ main # "planning" => \A i \in history : i <= current_id

OutOK ==
  /\ \A w \in Sharded!Workers : w < draining => finished[w] /\ queue[w] = <<>>
  /\ main \in {"yielding", "raised"} => draining > NWorkers
  /\ Once(all_messages)
  /\ main = "yielding" =>
       \A k, l \in DOMAIN all_messages : k < l => all_messages[k] < all_messages[l]

IdsKept ==
  /\ KeptApart(Holds, FetchPlaces, Sharded!Wanted)
  /\ Sharded!NoFailure => AllKept(Holds, FetchPlaces, Sharded!Wanted)

ShardedInv ==
  /\ Sharded!TypeOK /\ PlanOK /\ OutOK /\ IdsKept
  /\ \A w \in Sharded!Workers : WorkerOK(w)

-----------------------------------------------------------------------------
\* The ids in M move from place p to place q.
Moved(H, G, P, p, q, M) ==
  /\ p \in P /\ q \in P /\ p # q /\ M \subseteq H[p]
  /\ G[p] = H[p] \ M /\ G[q] = H[q] \cup M
  /\ \A r \in P : r # p /\ r # q => G[r] = H[r]

\* What moves from one place to another stays in one place, and is not lost.
LEMMA MovedApart ==
  ASSUME NEW P, NEW W, NEW H, NEW G, KeptApart(H, P, W),
         NEW p, NEW q, NEW M, Moved(H, G, P, p, q, M)
  PROVE  KeptApart(G, P, W) /\ (AllKept(H, P, W) => AllKept(G, P, W))
<1>1. /\ \A r \in P : H[r] \subseteq W
      /\ \A r, s \in P : r # s => H[r] \cap H[s] = {}
  BY DEF KeptApart
<1>0. /\ p \in P /\ q \in P /\ p # q /\ M \subseteq H[p]
      /\ G[p] = H[p] \ M /\ G[q] = H[q] \cup M
      /\ \A r \in P : r # p /\ r # q => G[r] = H[r]
  BY DEF Moved
<1>2. \A r \in P : G[r] \subseteq W
  BY <1>0, <1>1
<1>3. \A r, s \in P : r # s => G[r] \cap G[s] = {}
  <2> SUFFICES ASSUME NEW r \in P, NEW s \in P, r # s, NEW x, x \in G[r], x \in G[s]
               PROVE  FALSE
    OBVIOUS
  <2>1. CASE x \in M
    <3>1. x \in H[p] /\ \A o \in P : o # p => x \notin H[o]
      BY <1>0, <1>1, <2>1
    <3>2. \A o \in P : x \in G[o] => o = q
      BY <1>0, <2>1, <3>1
    <3> QED
      BY <3>2
  <2>2. CASE x \notin M
    <3>1. \A o \in P : x \in G[o] => x \in H[o]
      BY <1>0, <2>2
    <3> QED
      BY <1>1, <3>1
  <2> QED
    BY <2>1, <2>2
<1>4. ASSUME AllKept(H, P, W) PROVE AllKept(G, P, W)
  <2> SUFFICES ASSUME NEW i \in W PROVE \E r \in P : i \in G[r]
    BY DEF AllKept
  <2>1. PICK r \in P : i \in H[r]
    BY <1>4 DEF AllKept
  <2>2. CASE i \in M
    BY <1>0, <2>2
  <2>3. CASE i \notin M
    BY <1>0, <2>1, <2>3
  <2> QED
    BY <2>2, <2>3
<1> QED
  BY <1>2, <1>3, <1>4 DEF KeptApart

\* Ids stay where they are, or are lost.
LEMMA LostApart ==
  ASSUME NEW P, NEW W, NEW H, NEW G, KeptApart(H, P, W),
         \A r \in P : G[r] \subseteq H[r]
  PROVE  KeptApart(G, P, W)
  BY DEF KeptApart

\* Where nothing moves nothing is lost.
LEMMA StayedApart ==
  ASSUME NEW P, NEW W, NEW H, NEW G, KeptApart(H, P, W),
         \A r \in P : G[r] = H[r]
  PROVE  KeptApart(G, P, W) /\ (AllKept(H, P, W) => AllKept(G, P, W))
<1>1. KeptApart(G, P, W)
  BY LostApart
<1> QED
  BY <1>1 DEF AllKept

-----------------------------------------------------------------------------
\* What the places hold.
HoldsThere ==
  /\ Holds[<<"planned", 0>>] = {i \in Sharded!Wanted : i > current_id}
  /\ Holds[<<"tasks", 0>>] = IdsOfAll(Sharded!Wanted, task_queue)
  /\ Holds[<<"out", 0>>] = ToSet(all_messages)
  /\ \A v \in Sharded!Workers : /\ Holds[<<"mine", v>>] = Mine(v)
                                /\ Holds[<<"queue", v>>] = ToSet(queue[v])

PlacesThere ==
  /\ <<"planned", 0>> \in FetchPlaces /\ <<"tasks", 0>> \in FetchPlaces
  /\ <<"out", 0>> \in FetchPlaces
  /\ \A v \in Sharded!Workers : /\ <<"mine", v>> \in FetchPlaces
                                /\ <<"queue", v>> \in FetchPlaces
  /\ \A p \in FetchPlaces :
       \/ p = <<"planned", 0>> \/ p = <<"tasks", 0>> \/ p = <<"out", 0>>
       \/ \E v \in Sharded!Workers : p = <<"mine", v>> \/ p = <<"queue", v>>

\* The places there are.
LEMMA PlacesAre == PlacesThere
  BY DEF PlacesThere, FetchPlaces

\* What each place holds, before and after a step.
LEMMA HoldsAre == HoldsThere /\ HoldsThere'
<1>1. HoldsThere
  BY PlacesAre DEF PlacesThere, HoldsThere, Holds
<1>2. HoldsThere'
  BY PlacesAre DEF PlacesThere, HoldsThere, Holds
<1> QED
  BY <1>1, <1>2

\* The chat and min_id stay what they are.
LEMMA SameWanted ==
  ASSUME UNCHANGED <<history, min_id>> PROVE Sharded!Wanted' = Sharded!Wanted
  BY DEF Sharded!Wanted

\* A worker that does nothing keeps its ids and its state.
Untouched(v) ==
  /\ phase'[v] = phase[v] /\ todo'[v] = todo[v]
  /\ worker_offset'[v] = worker_offset[v] /\ buffer'[v] = buffer[v]

\* A worker that does nothing still has to stream what it had to.
LEMMA MineUntouched ==
  ASSUME UNCHANGED <<history, min_id>>, NEW v, Untouched(v)
  PROVE  Mine(v)' = Mine(v)
  BY SameWanted DEF Untouched, Mine

\* A worker that does nothing keeps its state.
LEMMA WorkerUntouched ==
  ASSUME UNCHANGED <<history, min_id>>, NEW v, Untouched(v), WorkerOK(v),
         queue'[v] = queue[v], finished'[v] = finished[v], failed'[v] = failed[v],
         main # "planning" => main' # "planning",
         task_queue = <<>> /\ main # "planning" => task_queue' = <<>>
  PROVE  WorkerOK(v)'
<1>1. Sharded!Wanted' = Sharded!Wanted
  BY SameWanted
<1>2. /\ phase'[v] = phase[v] /\ todo'[v] = todo[v]
      /\ worker_offset'[v] = worker_offset[v] /\ buffer'[v] = buffer[v]
  BY DEF Untouched
<1> QED
  BY <1>1, <1>2, Zenon DEF WorkerOK

-----------------------------------------------------------------------------
\* The bounds of a chunk are numbers.
LEMMA ChunkNumbers ==
  /\ NewestId \in Nat /\ MaxRetries \in Nat
  /\ \A c \in Sharded!Chunks : /\ c[1] \in 0 .. NewestId /\ c[2] \in 0 .. NewestId
                               /\ c[3] \in 0 .. MaxRetries
                               /\ c[1] \in Nat /\ c[2] \in Nat /\ c[3] \in Nat
<1>1. NewestId \in Nat /\ MaxRetries \in Nat
  BY ShardedConstants
<1>2. \A c \in Sharded!Chunks : /\ c[1] \in 0 .. NewestId /\ c[2] \in 0 .. NewestId
                                /\ c[3] \in 0 .. MaxRetries
  BY DEF Sharded!Chunks
<1> QED
  BY <1>1, <1>2

\* The four parts of a chunk follow each other and have its ids.
LEMMA SubChunksFacts ==
  ASSUME NEW c \in Sharded!Chunks, c[1] <= c[2], c[3] > 0,
         NEW m \in Nat, m <= c[1], NEW W \in SUBSET Nat,
         NEW s, s = Sharded!SubChunks(c)
  PROVE  /\ s \in Seq(Sharded!Chunks) /\ s # <<>>
         /\ Chain(m, s) /\ IdsOfAll(W, s) = IdsOf(W, c)
         /\ \A k \in DOMAIN s : s[k][2] <= c[2]
<1> DEFINE size == (c[2] - c[1]) \div 4
<1>1. /\ c[1] \in Nat /\ c[2] \in Nat /\ c[3] \in Nat
      /\ c[2] <= NewestId /\ c[3] <= MaxRetries /\ NewestId \in Nat /\ MaxRetries \in Nat
  BY ChunkNumbers
<1>2. size \in Nat /\ c[1] + size + size + size + size <= c[2]
  BY <1>1
<1> HIDE DEF size
<1> DEFINE a == c[1]
           part(k) == <<a + (k - 1) * size,
                        IF k < 4 THEN a + k * size ELSE c[2], c[3] - 1>>
<1>3. s = [k \in 1 .. 4 |-> part(k)]
  BY DEF Sharded!SubChunks, size
<1>4. /\ part(1) = <<a, a + size, c[3] - 1>>
      /\ part(2) = <<a + size, a + size + size, c[3] - 1>>
      /\ part(3) = <<a + size + size, a + size + size + size, c[3] - 1>>
      /\ part(4) = <<a + size + size + size, c[2], c[3] - 1>>
  BY <1>1, <1>2
<1> HIDE DEF part
<1>5. \A k \in 1 .. 4 : k = 1 \/ k = 2 \/ k = 3 \/ k = 4
  OBVIOUS
<1>6. DOMAIN s = 1 .. 4 /\ s[1] = part(1) /\ s[2] = part(2) /\ s[3] = part(3) /\ s[4] = part(4)
  BY <1>3
<1>7. \A k \in 1 .. 4 : part(k) \in Sharded!Chunks
  <2>1. /\ a \in 0 .. NewestId /\ a + size \in 0 .. NewestId
        /\ a + size + size \in 0 .. NewestId /\ a + size + size + size \in 0 .. NewestId
        /\ c[2] \in 0 .. NewestId /\ c[3] - 1 \in 0 .. MaxRetries
    BY <1>1, <1>2
  <2> QED
    BY <1>4, <1>5, <2>1 DEF Sharded!Chunks
<1>8. s \in Seq(Sharded!Chunks) /\ s # <<>>
  <2>1. s \in [1 .. 4 -> Sharded!Chunks]
    BY <1>3, <1>7
  <2>2. s \in Seq(Sharded!Chunks)
    BY <2>1, 4 \in Nat, SeqDef, Zenon
  <2>3. Len(s) = 4
    BY <1>6, <2>2
  <2> QED
    BY <2>2, <2>3
<1>9. /\ s[1][1] = a /\ s[1][2] = a + size /\ s[2][1] = a + size /\ s[2][2] = a + size + size
      /\ s[3][1] = a + size + size /\ s[3][2] = a + size + size + size
      /\ s[4][1] = a + size + size + size /\ s[4][2] = c[2]
  BY <1>4, <1>6
<1>10. \A k \in 1 .. 4 : m <= s[k][1] /\ s[k][1] <= s[k][2] /\ s[k][2] <= c[2]
  BY <1>1, <1>2, <1>5, <1>9
<1>11. \A k, l \in 1 .. 4 : k < l => s[k][2] <= s[l][1]
  BY <1>1, <1>2, <1>5, <1>9
<1>12. Chain(m, s)
  BY <1>6, <1>10, <1>11 DEF Chain
<1>13. IdsOfAll(W, s) = IdsOf(W, c)
  <2>1. \A i \in Nat : a < i /\ i <= c[2] =>
          \/ s[1][1] < i /\ i <= s[1][2]
          \/ s[2][1] < i /\ i <= s[2][2]
          \/ s[3][1] < i /\ i <= s[3][2]
          \/ s[4][1] < i /\ i <= s[4][2]
    BY <1>1, <1>2, <1>9
  <2>2. \A i \in Nat, k \in 1 .. 4 : s[k][1] < i /\ i <= s[k][2] => a < i /\ i <= c[2]
    BY <1>1, <1>2, <1>5, <1>9
  <2>3. 1 \in DOMAIN s /\ 2 \in DOMAIN s /\ 3 \in DOMAIN s /\ 4 \in DOMAIN s
    BY <1>6
  <2>4. IdsOf(W, c) \subseteq IdsOfAll(W, s)
    BY <2>1, <2>3 DEF IdsOf, IdsOfAll
  <2>5. IdsOfAll(W, s) \subseteq IdsOf(W, c)
    BY <1>6, <2>2 DEF IdsOf, IdsOfAll
  <2> QED
    BY <2>4, <2>5
<1> QED
  BY <1>6, <1>8, <1>10, <1>12, <1>13

-----------------------------------------------------------------------------
\* The newest message is not older than any other.
LEMMA NewestIsLast ==
  ASSUME Sharded!TypeOK, history # {}
  PROVE  /\ Sharded!Newest \in history /\ \A j \in history : j <= Sharded!Newest
         /\ Sharded!Newest \in 0 .. NewestId
<1>1. NewestId \in Nat /\ \A i \in history : i \in 1 .. NewestId
  BY ShardedConstants DEF Sharded!TypeOK, Sharded!Ids
<1> DEFINE T == {NewestId - i : i \in history}
<1>2. T \in SUBSET Nat /\ T # {}
  BY <1>1
<1>3. PICK n \in T : \A m \in T : n <= m
  <2> HIDE DEF T
  <2> QED
    BY <1>2, Least
<1>4. PICK i \in history : n = NewestId - i
  OBVIOUS
<1>5. \A j \in history : j <= i
  <2> TAKE j \in history
  <2>1. NewestId - i <= NewestId - j
    BY <1>3, <1>4
  <2> QED
    BY <1>1, <2>1
<1>6. Sharded!Newest \in history /\ \A j \in history : j <= Sharded!Newest
  BY <1>5 DEF Sharded!Newest
<1> QED
  BY <1>1, <1>6

\* The state of a worker that goes on with some chunks.
LEMMA Begun ==
  ASSUME Sharded!TypeOK, NEW w \in Sharded!Workers, NEW cs \in Seq(Sharded!Chunks),
         Sharded!Begin(w, cs)
  PROVE  /\ todo' \in [Sharded!Workers -> Seq(Sharded!Chunks)] /\ todo'[w] = cs
         /\ buffer' \in [Sharded!Workers -> Seq(Sharded!Ids)] /\ buffer'[w] = <<>>
         /\ phase' \in [Sharded!Workers -> {"idle", "fetching", "streaming", "over"}]
         /\ phase'[w] = IF cs = <<>> THEN "idle" ELSE "fetching"
         /\ worker_offset' \in [Sharded!Workers -> 0 .. NewestId + 1]
         /\ cs # <<>> => worker_offset'[w] = Head(cs)[2] + 1
         /\ \A v \in Sharded!Workers : v # w => Untouched(v)
<1>1. /\ todo \in [Sharded!Workers -> Seq(Sharded!Chunks)]
      /\ buffer \in [Sharded!Workers -> Seq(Sharded!Ids)]
      /\ phase \in [Sharded!Workers -> {"idle", "fetching", "streaming", "over"}]
      /\ worker_offset \in [Sharded!Workers -> 0 .. NewestId + 1]
  BY DEF Sharded!TypeOK
<1>2. /\ todo' = [todo EXCEPT ![w] = cs] /\ buffer' = [buffer EXCEPT ![w] = <<>>]
      /\ cs = <<>> => /\ phase' = [phase EXCEPT ![w] = "idle"]
                      /\ worker_offset' = worker_offset
      /\ cs # <<>> => /\ phase' = [phase EXCEPT ![w] = "fetching"]
                      /\ worker_offset' = [worker_offset EXCEPT ![w] = Head(cs)[2] + 1]
  BY DEF Sharded!Begin
<1>3. cs # <<>> => Head(cs)[2] + 1 \in 0 .. NewestId + 1
  <2>1. cs # <<>> => Head(cs) \in Sharded!Chunks
    OBVIOUS
  <2>2. cs # <<>> => Head(cs)[2] \in 0 .. NewestId
    BY <2>1, ChunkNumbers
  <2> QED
    BY <2>2, ChunkNumbers
<1>4. <<>> \in Seq(Sharded!Ids)
  OBVIOUS
<1>5. /\ todo' \in [Sharded!Workers -> Seq(Sharded!Chunks)] /\ todo'[w] = cs
      /\ buffer' \in [Sharded!Workers -> Seq(Sharded!Ids)] /\ buffer'[w] = <<>>
  BY <1>1, <1>2, <1>4
<1>6. /\ phase' \in [Sharded!Workers -> {"idle", "fetching", "streaming", "over"}]
      /\ phase'[w] = IF cs = <<>> THEN "idle" ELSE "fetching"
  BY <1>1, <1>2
<1>7. /\ worker_offset' \in [Sharded!Workers -> 0 .. NewestId + 1]
      /\ cs # <<>> => worker_offset'[w] = Head(cs)[2] + 1
  BY <1>1, <1>2, <1>3
<1>8. \A v \in Sharded!Workers : v # w => Untouched(v)
  BY <1>1, <1>2 DEF Untouched
<1> QED
  BY <1>5, <1>6, <1>7, <1>8

-----------------------------------------------------------------------------
\* The variables of each group are the same after the step.
LEMMA WantedIds ==
  ASSUME Sharded!TypeOK
  PROVE  /\ Sharded!Wanted \in SUBSET Nat /\ Sharded!Wanted \subseteq history
         /\ min_id \in Nat /\ current_id \in Nat /\ NewestId \in Nat
         /\ history \in SUBSET (1 .. NewestId)
<1>1. NewestId \in Nat /\ history \in SUBSET (1 .. NewestId)
      /\ min_id \in Nat /\ current_id \in Nat
  BY ShardedConstants DEF Sharded!TypeOK, Sharded!Ids
<1>2. Sharded!Wanted \subseteq history
  BY DEF Sharded!Wanted
<1>3. \A i \in 1 .. NewestId : i \in Nat
  BY <1>1
<1> QED
  BY <1>1, <1>2, <1>3

\* A step that moves ids from one place to another keeps them all.
LEMMA OneMoved ==
  ASSUME IdsKept, UNCHANGED <<history, min_id, failed>>,
         NEW p, NEW q, NEW M, Moved(Holds, Holds', FetchPlaces, p, q, M)
  PROVE  IdsKept'
<1>1. Sharded!Wanted' = Sharded!Wanted
  BY SameWanted
<1>2. Sharded!NoFailure' = Sharded!NoFailure
  BY DEF Sharded!NoFailure
<1>3. /\ KeptApart(Holds', FetchPlaces, Sharded!Wanted)
      /\ AllKept(Holds, FetchPlaces, Sharded!Wanted)
           => AllKept(Holds', FetchPlaces, Sharded!Wanted)
  BY MovedApart DEF IdsKept
<1> QED
  BY <1>1, <1>2, <1>3 DEF IdsKept

\* A step that moves no id keeps them all.
LEMMA NothingMoved ==
  ASSUME IdsKept, UNCHANGED <<history, min_id, current_id, failed>>,
         IdsOfAll(Sharded!Wanted, task_queue') = IdsOfAll(Sharded!Wanted, task_queue),
         ToSet(all_messages') = ToSet(all_messages),
         \A v \in Sharded!Workers : /\ Mine(v)' = Mine(v)
                                    /\ ToSet(queue'[v]) = ToSet(queue[v])
  PROVE  IdsKept'
<1>1. Sharded!Wanted' = Sharded!Wanted
  BY SameWanted
<1>2. Sharded!NoFailure' = Sharded!NoFailure
  BY DEF Sharded!NoFailure
<1>3. \A p \in FetchPlaces : Holds'[p] = Holds[p]
  BY <1>1, HoldsAre, PlacesAre DEF HoldsThere, PlacesThere
<1>4. /\ KeptApart(Holds', FetchPlaces, Sharded!Wanted)
      /\ AllKept(Holds, FetchPlaces, Sharded!Wanted)
           => AllKept(Holds', FetchPlaces, Sharded!Wanted)
  BY <1>3, StayedApart DEF IdsKept
<1> QED
  BY <1>1, <1>2, <1>4 DEF IdsKept

-----------------------------------------------------------------------------
\* A new chunk takes over the ids up to its end from those not planned yet.
LEMMA PlanChunkStep ==
  ASSUME ShardedInv, Sharded!PlanChunk PROVE ShardedInv'
<1>1. /\ Sharded!TypeOK /\ PlanOK /\ OutOK /\ IdsKept
      /\ \A w \in Sharded!Workers : WorkerOK(w)
  BY DEF ShardedInv
<1>2. /\ main = "planning" /\ main' = main
      /\ UNCHANGED <<history, min_id, phase, todo, worker_offset, buffer, queue, finished,
                     failed, draining, all_messages>>
      /\ current_id < Sharded!Newest
  BY DEF Sharded!PlanChunk, Sharded!workerVars, Sharded!queueVars, Sharded!mainVars
<1>3. PICK size \in ChunkSizes :
        LET end == IF current_id + size < Sharded!Newest THEN current_id + size
                                                         ELSE Sharded!Newest
        IN /\ task_queue' = Append(task_queue, <<current_id, end, MaxRetries>>)
           /\ current_id' = end
  BY DEF Sharded!PlanChunk
<1> DEFINE c == <<current_id, current_id', MaxRetries>>
<1>4. /\ task_queue' = Append(task_queue, c)
      /\ current_id' \in 0 .. NewestId /\ current_id < current_id'
      /\ current_id \in 0 .. NewestId
  <2>1. size \in Nat \ {0} /\ current_id \in 0 .. NewestId /\ NewestId \in Nat
    BY <1>1, ShardedConstants DEF Sharded!TypeOK
  <2>2. Sharded!Newest \in 0 .. NewestId
    BY <1>1, NewestIsLast DEF PlanOK
  <2> QED
    BY <1>2, <1>3, <2>1, <2>2
<1>5. c \in Sharded!Chunks
  BY <1>4, ShardedConstants DEF Sharded!Chunks
<1>6. /\ Sharded!Wanted' = Sharded!Wanted /\ Sharded!Wanted \in SUBSET Nat
      /\ min_id \in Nat /\ current_id \in Nat /\ NewestId \in Nat
  BY <1>1, <1>2, SameWanted, WantedIds
<1>7. /\ task_queue \in Seq(Sharded!Chunks) /\ task_queue' \in Seq(Sharded!Chunks)
      /\ \A x \in Sharded!Chunks : x[1] \in Nat /\ x[2] \in Nat
  BY <1>1, <1>4, <1>5, ChunkNumbers DEF Sharded!TypeOK
<1>8. c[1] = current_id /\ c[2] = current_id'
  OBVIOUS
<1> HIDE DEF c
<1>9. /\ IdsOfAll(Sharded!Wanted, task_queue')
           = IdsOfAll(Sharded!Wanted, task_queue) \cup IdsOf(Sharded!Wanted, c)
      /\ Chain(min_id, task_queue')
  <2>1. Chain(min_id, task_queue) /\ \A k \in DOMAIN task_queue : task_queue[k][2] <= c[1]
    BY <1>1, <1>8 DEF PlanOK
  <2>2. min_id <= c[1] /\ c[1] <= c[2]
    BY <1>1, <1>4, <1>6, <1>8 DEF PlanOK
  <2> QED
    <3>1. /\ IdsOfAll(Sharded!Wanted, Append(task_queue, c))
               = IdsOfAll(Sharded!Wanted, task_queue) \cup IdsOf(Sharded!Wanted, c)
          /\ Chain(min_id, Append(task_queue, c))
      BY <1>5, <1>7, <2>1, <2>2, ChunkAppended, Zenon
    <3> QED
      BY <1>4, <3>1
<1>10. Sharded!TypeOK'
  BY <1>1, <1>2, <1>4, <1>7 DEF Sharded!TypeOK
<1>11. PlanOK'
  <2>1. \A k \in DOMAIN task_queue' : task_queue'[k][2] <= current_id'
    <3> TAKE k \in DOMAIN task_queue'
    <3>1. CASE k \in DOMAIN task_queue
      <4>1. task_queue'[k] = task_queue[k] /\ task_queue[k][2] <= current_id
        BY <1>1, <1>4, <1>5, <1>7, <3>1 DEF PlanOK
      <4>2. task_queue[k][2] \in Nat
        BY <1>7, <3>1
      <4> QED
        BY <1>4, <1>6, <4>1, <4>2
    <3>2. CASE k \notin DOMAIN task_queue
      <4>1. k = Len(task_queue) + 1 /\ task_queue'[k] = c
        BY <1>4, <1>5, <1>7, <3>2
      <4> QED
        BY <1>4, <1>8, <4>1
    <3> QED
      BY <3>1, <3>2
  <2>2. min_id <= current_id'
    BY <1>1, <1>4, <1>6 DEF PlanOK
  <2> QED
    BY <1>1, <1>2, <1>9, <2>1, <2>2 DEF PlanOK
<1>12. OutOK'
  BY <1>1, <1>2 DEF OutOK
<1>13. \A v \in Sharded!Workers : WorkerOK(v)'
  BY <1>1, <1>2, WorkerUntouched DEF Untouched
<1>14. IdsKept'
  <2> DEFINE p == <<"planned", 0>>
             q == <<"tasks", 0>>
             M == IdsOf(Sharded!Wanted, c)
  <2>1. \A v \in Sharded!Workers : Mine(v)' = Mine(v)
    BY <1>2, MineUntouched DEF Untouched
  <2>2. \A r \in FetchPlaces : r # p /\ r # q => Holds'[r] = Holds[r]
    BY <1>2, <2>1, HoldsAre, PlacesAre DEF HoldsThere, PlacesThere
  <2>3. M \in SUBSET Holds[p] /\ Holds'[p] = Holds[p] \ M
    <3>1. Holds[p] = {i \in Sharded!Wanted : i > current_id}
      BY HoldsAre DEF HoldsThere
    <3>2. Holds'[p] = {i \in Sharded!Wanted : i > current_id'}
      BY <1>6, HoldsAre DEF HoldsThere
    <3>3. M = {i \in Sharded!Wanted : current_id < i /\ i <= current_id'}
      BY <1>8 DEF IdsOf
    <3> HIDE DEF p, M
    <3>4. \A i \in Sharded!Wanted : i > current_id' <=> i > current_id /\ ~(i <= current_id')
      BY <1>4, <1>6
    <3>5. \A i \in Sharded!Wanted : current_id < i <=> i > current_id
      BY <1>6
    <3> QED
      BY <3>1, <3>2, <3>3, <3>4, <3>5
  <2>4. Holds'[q] = Holds[q] \cup M
    <3>1. Holds[q] = IdsOfAll(Sharded!Wanted, task_queue)
      BY HoldsAre DEF HoldsThere
    <3>2. Holds'[q] = IdsOfAll(Sharded!Wanted, task_queue')
      BY <1>6, HoldsAre DEF HoldsThere
    <3> HIDE DEF q
    <3> QED
      BY <1>9, <3>1, <3>2
  <2>5. p \in FetchPlaces /\ q \in FetchPlaces /\ p # q
    BY PlacesAre DEF PlacesThere
  <2> HIDE DEF p, q, M
  <2> QED
    <3>1. Moved(Holds, Holds', FetchPlaces, p, q, M)
      BY <2>2, <2>3, <2>4, <2>5 DEF Moved
    <3> QED
      BY <1>1, <1>2, <3>1, OneMoved
<1> QED
  BY <1>10, <1>11, <1>12, <1>13, <1>14 DEF ShardedInv

\* When the workers start, every id is planned.
LEMMA StartWorkersStep ==
  ASSUME ShardedInv, Sharded!StartWorkers PROVE ShardedInv'
<1>1. /\ Sharded!TypeOK /\ PlanOK /\ OutOK /\ IdsKept
      /\ \A w \in Sharded!Workers : WorkerOK(w)
  BY DEF ShardedInv
<1>2. /\ main = "planning" /\ main' = "collecting" /\ current_id >= Sharded!Newest
      /\ UNCHANGED <<history, min_id, current_id, task_queue, phase, todo, worker_offset,
                     buffer, queue, finished, failed, draining, all_messages>>
  BY DEF Sharded!StartWorkers, Sharded!planVars, Sharded!workerVars, Sharded!queueVars
<1>3. Sharded!TypeOK'
  BY <1>1, <1>2 DEF Sharded!TypeOK
<1>4. PlanOK'
  <2>1. \A i \in history : i <= current_id
    <3>1. \A i \in history : i <= Sharded!Newest /\ i \in Nat
      BY <1>1, NewestIsLast, WantedIds DEF PlanOK
    <3>2. Sharded!Newest \in Nat /\ current_id \in Nat
      BY <1>1, NewestIsLast, WantedIds DEF PlanOK
    <3> QED
      BY <1>2, <3>1, <3>2
  <2> QED
    BY <1>1, <1>2, <2>1 DEF PlanOK
<1>5. OutOK'
  BY <1>1, <1>2 DEF OutOK
<1>6. \A v \in Sharded!Workers : WorkerOK(v)'
  BY <1>1, <1>2, WorkerUntouched DEF Untouched
<1>7. IdsKept'
  <2>1. \A v \in Sharded!Workers : Mine(v)' = Mine(v)
    BY <1>2, MineUntouched DEF Untouched
  <2> QED
    BY <1>1, <1>2, <2>1, NothingMoved
<1> QED
  BY <1>3, <1>4, <1>5, <1>6, <1>7 DEF ShardedInv

-----------------------------------------------------------------------------
\* A worker that goes on with chunks has to do what is in them.
LEMMA BegunOK ==
  ASSUME Sharded!TypeOK, UNCHANGED <<history, min_id>>,
         NEW w \in Sharded!Workers, WorkerOK(w), phase[w] # "over",
         NEW cs \in Seq(Sharded!Chunks), Chain(min_id, cs), Sharded!Begin(w, cs),
         queue'[w] = queue[w], finished'[w] = finished[w]
  PROVE  WorkerOK(w)' /\ Mine(w)' = IdsOfAll(Sharded!Wanted, cs)
<1>1. /\ todo'[w] = cs /\ buffer'[w] = <<>>
      /\ phase'[w] = IF cs = <<>> THEN "idle" ELSE "fetching"
      /\ cs # <<>> => worker_offset'[w] = Head(cs)[2] + 1
  BY Begun
<1>2. Sharded!Wanted' = Sharded!Wanted
  BY SameWanted
<1>3. Mine(w)' = IdsOfAll(Sharded!Wanted, cs)
  <2>1. CASE cs = <<>>
    BY <1>1, <2>1, NoChunks DEF Mine
  <2>2. CASE cs # <<>>
    BY <1>1, <1>2, <2>2 DEF Mine
  <2> QED
    BY <2>1, <2>2
<1>4. cs # <<>> => /\ Head(cs)[1] < worker_offset'[w]
                   /\ worker_offset'[w] <= Head(cs)[2] + 1
                   /\ MessagesIn(history, worker_offset'[w], Head(cs)[2]) = {}
  <2> SUFFICES ASSUME cs # <<>>
               PROVE  /\ Head(cs)[1] < worker_offset'[w]
                      /\ worker_offset'[w] <= Head(cs)[2] + 1
                      /\ MessagesIn(history, worker_offset'[w], Head(cs)[2]) = {}
    OBVIOUS
  <2>1. Head(cs) \in Sharded!Chunks
    OBVIOUS
  <2>2. Head(cs)[1] \in Nat /\ Head(cs)[2] \in Nat
    BY <2>1, ChunkNumbers
  <2>4. Head(cs)[1] <= Head(cs)[2]
    <3>1. 1 \in DOMAIN cs /\ cs[1] = Head(cs)
      OBVIOUS
    <3> QED
      BY <3>1 DEF Chain
  <2>3. \A i \in history : i \in Nat
    BY WantedIds
  <2> QED
    BY <1>1, <2>2, <2>3, <2>4 DEF MessagesIn
<1>5. ToSet(<<>>) = {} /\ Once(<<>>)
  BY NothingIn
<1>6. ~finished[w] /\ Once(queue[w])
  BY DEF WorkerOK
<1> QED
  BY <1>1, <1>3, <1>4, <1>5, <1>6 DEF WorkerOK

-----------------------------------------------------------------------------
\* A chunk alone.
LEMMA OneChunk ==
  ASSUME NEW C, NEW c \in C, NEW W, NEW m, m <= c[1], c[1] <= c[2]
  PROVE  <<c>> \in Seq(C) /\ Chain(m, <<c>>) /\ IdsOfAll(W, <<c>>) = IdsOf(W, c)
<1>1. <<c>> \in Seq(C) /\ DOMAIN <<c>> = {1} /\ <<c>>[1] = c
  OBVIOUS
<1>2. Chain(m, <<c>>)
  BY <1>1 DEF Chain
<1>3. IdsOfAll(W, <<c>>) = IdsOf(W, c)
  BY <1>1 DEF IdsOfAll, IdsOf
<1> QED
  BY <1>1, <1>2, <1>3

\* The chunks of a worker that has some.
LEMMA FirstChunk ==
  ASSUME Sharded!TypeOK, NEW cs \in Seq(Sharded!Chunks), cs # <<>>, Chain(min_id, cs)
  PROVE  /\ Head(cs) \in Sharded!Chunks /\ Tail(cs) \in Seq(Sharded!Chunks)
         /\ Head(cs)[1] \in Nat /\ Head(cs)[2] \in Nat /\ Head(cs)[3] \in Nat
         /\ IdsOfAll(Sharded!Wanted, cs)
              = IdsOf(Sharded!Wanted, Head(cs)) \cup IdsOfAll(Sharded!Wanted, Tail(cs))
         /\ Chain(min_id, Tail(cs))
         /\ min_id <= Head(cs)[1] /\ Head(cs)[1] <= Head(cs)[2]
         /\ \A k \in DOMAIN Tail(cs) : Head(cs)[2] <= Tail(cs)[k][1]
         /\ IdsOf(Sharded!Wanted, Head(cs)) \cap IdsOfAll(Sharded!Wanted, Tail(cs)) = {}
<1>1. Sharded!Wanted \in SUBSET Nat
  BY WantedIds
<1>2. \A x \in Sharded!Chunks : x[1] \in Nat /\ x[2] \in Nat /\ x[3] \in Nat
  BY ChunkNumbers
<1>3. Head(cs) \in Sharded!Chunks
  OBVIOUS
<1> QED
  BY <1>1, <1>2, <1>3, ChunkTaken

\* A worker takes over the ids of a chunk, or is over when no chunk is left.
LEMMA TakeChunkStep ==
  ASSUME ShardedInv, NEW w \in Sharded!Workers, Sharded!TakeChunk(w) PROVE ShardedInv'
<1>1. /\ Sharded!TypeOK /\ PlanOK /\ OutOK /\ IdsKept
      /\ \A v \in Sharded!Workers : WorkerOK(v)
  BY DEF ShardedInv
<1>2. /\ main # "planning" /\ phase[w] = "idle"
      /\ UNCHANGED <<history, min_id, current_id, queue, failed, main, draining,
                     all_messages>>
  BY DEF Sharded!TakeChunk, Sharded!planVars, Sharded!mainVars
<1>3. CASE task_queue = <<>>
  <2>1. /\ phase' = [phase EXCEPT ![w] = "over"] /\ finished' = [finished EXCEPT ![w] = TRUE]
        /\ UNCHANGED <<task_queue, todo, worker_offset, buffer>>
    BY <1>3 DEF Sharded!TakeChunk
  <2>2. /\ phase'[w] = "over" /\ finished'[w] = TRUE
        /\ \A v \in Sharded!Workers :
             v # w => phase'[v] = phase[v] /\ finished'[v] = finished[v]
    BY <1>1, <2>1 DEF Sharded!TypeOK
  <2>3. Sharded!TypeOK'
    BY <1>1, <1>2, <2>1 DEF Sharded!TypeOK
  <2>4. PlanOK' /\ OutOK'
    BY <1>1, <1>2, <2>1, <2>2 DEF PlanOK, OutOK
  <2>5. \A v \in Sharded!Workers : v # w => WorkerOK(v)' /\ Mine(v)' = Mine(v)
    BY <1>1, <1>2, <2>1, <2>2, WorkerUntouched, MineUntouched DEF Untouched
  <2>6. WorkerOK(w)'
    BY <1>1, <1>2, <1>3, <2>1, <2>2 DEF WorkerOK
  <2>7. Mine(w)' = Mine(w)
    BY <1>2, <2>2 DEF Mine
  <2>8. IdsKept'
    BY <1>1, <1>2, <2>1, <2>5, <2>7, NothingMoved
  <2> QED
    BY <2>3, <2>4, <2>5, <2>6, <2>8 DEF ShardedInv
<1>4. CASE task_queue # <<>>
  <2> DEFINE c == Head(task_queue)
  <2>1. /\ Sharded!Begin(w, <<c>>) /\ task_queue' = Tail(task_queue) /\ finished' = finished
    BY <1>4 DEF Sharded!TakeChunk
  <2>2. /\ c \in Sharded!Chunks /\ task_queue' \in Seq(Sharded!Chunks)
        /\ IdsOfAll(Sharded!Wanted, task_queue)
             = IdsOf(Sharded!Wanted, c) \cup IdsOfAll(Sharded!Wanted, task_queue')
        /\ Chain(min_id, task_queue') /\ min_id <= c[1] /\ c[1] <= c[2]
        /\ IdsOf(Sharded!Wanted, c) \cap IdsOfAll(Sharded!Wanted, task_queue') = {}
    BY <1>1, <1>4, <2>1, FirstChunk DEF PlanOK, Sharded!TypeOK
  <2> HIDE DEF c
  <2>3. /\ <<c>> \in Seq(Sharded!Chunks) /\ Chain(min_id, <<c>>)
        /\ IdsOfAll(Sharded!Wanted, <<c>>) = IdsOf(Sharded!Wanted, c)
    BY <2>2, OneChunk
  <2>4. WorkerOK(w)' /\ Mine(w)' = IdsOf(Sharded!Wanted, c)
    BY <1>1, <1>2, <2>1, <2>3, BegunOK
  <2>5. Sharded!TypeOK'
    BY <1>1, <1>2, <2>1, <2>2, <2>3, Begun DEF Sharded!TypeOK
  <2>6. PlanOK'
    <3>1. \A k \in DOMAIN task_queue' : task_queue'[k][2] <= current_id
      <4>1. task_queue \in Seq(Sharded!Chunks)
        BY <1>1 DEF Sharded!TypeOK
      <4>2. \A k \in DOMAIN task_queue' : /\ k + 1 \in DOMAIN task_queue
                                          /\ task_queue'[k] = task_queue[k + 1]
        BY <1>4, <2>1, <4>1, TailAt
      <4> QED
        BY <1>1, <4>2 DEF PlanOK
    <3> QED
      BY <1>1, <1>2, <2>2, <3>1 DEF PlanOK
  <2>7. OutOK'
    BY <1>1, <1>2, <2>1 DEF OutOK
  <2>8. \A v \in Sharded!Workers : v # w => Untouched(v)
    BY <1>1, <2>1, <2>3, Begun
  <2>9. \A v \in Sharded!Workers : v # w => WorkerOK(v)' /\ Mine(v)' = Mine(v)
    BY <1>1, <1>2, <1>4, <2>1, <2>8, WorkerUntouched, MineUntouched
  <2>10. Moved(Holds, Holds', FetchPlaces, <<"tasks", 0>>, <<"mine", w>>,
               IdsOf(Sharded!Wanted, c))
    <3> DEFINE p == <<"tasks", 0>>
               q == <<"mine", w>>
               M == IdsOf(Sharded!Wanted, c)
    <3>0. Sharded!Wanted' = Sharded!Wanted
      BY <1>2, SameWanted
    <3>1. \A r \in FetchPlaces : r # p /\ r # q => Holds'[r] = Holds[r]
      <4>1. /\ Holds'[<<"planned", 0>>] = Holds[<<"planned", 0>>]
            /\ Holds'[<<"out", 0>>] = Holds[<<"out", 0>>]
        BY <1>2, <3>0, HoldsAre DEF HoldsThere
      <4>2. \A v \in Sharded!Workers : Holds'[<<"queue", v>>] = Holds[<<"queue", v>>]
        BY <1>2, HoldsAre DEF HoldsThere
      <4>3. \A v \in Sharded!Workers : v # w => Holds'[<<"mine", v>>] = Holds[<<"mine", v>>]
        BY <2>9, HoldsAre DEF HoldsThere
      <4> QED
        BY <4>1, <4>2, <4>3, PlacesAre DEF PlacesThere
    <3>2. M \subseteq Holds[p] /\ Holds'[p] = Holds[p] \ M
      BY <2>2, <3>0, HoldsAre DEF HoldsThere
    <3>3. Holds'[q] = Holds[q] \cup M
      <4>1. Mine(w) = {}
        BY <1>2 DEF Mine
      <4> QED
        BY <2>4, <4>1, HoldsAre DEF HoldsThere
    <3>4. p \in FetchPlaces /\ q \in FetchPlaces /\ p # q
      BY PlacesAre DEF PlacesThere
    <3> HIDE DEF p, q, M
    <3>5. Moved(Holds, Holds', FetchPlaces, p, q, M)
      BY <3>1, <3>2, <3>3, <3>4 DEF Moved
    <3> QED
      BY <3>5 DEF p, q, M
  <2>11. IdsKept'
    BY <1>1, <1>2, <2>10, OneMoved
  <2> QED
    BY <2>4, <2>5, <2>6, <2>7, <2>9, <2>11 DEF ShardedInv
<1> QED
  BY <1>3, <1>4

-----------------------------------------------------------------------------
\* After a page the buffer goes down to the last message of it, after the last one
\* down to the start of the chunk.
LEMMA BufferFacts ==
  ASSUME ShardedInv, NEW w \in Sharded!Workers, phase[w] = "fetching",
         NEW c, c = Head(todo[w]), NEW s, s = Sharded!Page(w), NEW b, b = buffer[w] \o s
  PROVE  /\ b \in Seq(Sharded!Ids) /\ Once(b)
         /\ Sharded!LastPage(w, s) => ToSet(b) = IdsOf(Sharded!Wanted, c)
         /\ ~Sharded!LastPage(w, s) =>
              /\ Sharded!Last(s) \in Sharded!Ids /\ Sharded!Last(s) < worker_offset[w]
              /\ c[1] < Sharded!Last(s)
              /\ ToSet(b) = MessagesIn(history, Sharded!Last(s), c[2])
<1>1. Sharded!TypeOK /\ WorkerOK(w)
  BY DEF ShardedInv
<1>2. /\ todo[w] \in Seq(Sharded!Chunks) /\ todo[w] # <<>> /\ Chain(min_id, todo[w])
      /\ buffer[w] \in Seq(Sharded!Ids) /\ Once(buffer[w])
      /\ worker_offset[w] \in Nat /\ worker_offset[w] <= c[2] + 1 /\ c[1] < worker_offset[w]
      /\ ToSet(buffer[w]) = {i \in history : worker_offset[w] <= i /\ i <= c[2]}
  <2>1. /\ todo[w] \in Seq(Sharded!Chunks) /\ buffer[w] \in Seq(Sharded!Ids)
        /\ worker_offset[w] \in 0 .. NewestId + 1 /\ NewestId \in Nat
    BY <1>1, ShardedConstants DEF Sharded!TypeOK
  <2> QED
    BY <1>1, <2>1 DEF WorkerOK, MessagesIn
<1>3. c[1] \in Nat /\ c[2] \in Nat /\ min_id <= c[1] /\ c[1] <= c[2]
  BY <1>1, <1>2, FirstChunk
<1> DEFINE D == Sharded!Asked(w)
<1>4. D = {i \in history : c[1] < i /\ i < worker_offset[w]}
  BY DEF Sharded!Asked
<1>5. /\ history \subseteq Sharded!Ids /\ \A i \in history : i \in Nat
      /\ min_id \in Nat
  BY <1>1, WantedIds DEF Sharded!TypeOK
<1>6. /\ D \subseteq history /\ s \in Seq(D) /\ Once(s)
      /\ Sharded!LastPage(w, s) => ToSet(s) = D
      /\ ~Sharded!LastPage(w, s) =>
           Sharded!Last(s) \in D /\ ToSet(s) = {i \in D : Sharded!Last(s) <= i}
  BY <1>1, PageFacts
<1> HIDE DEF D
<1>7. s \in Seq(Sharded!Ids) /\ ToSet(s) \subseteq D
  <2>1. \A k \in DOMAIN s : s[k] \in D
    BY <1>6
  <2>2. \A k \in DOMAIN s : s[k] \in Sharded!Ids
    BY <1>5, <1>6, <2>1
  <2> QED
    BY <1>6, <2>1, <2>2 DEF ToSet
<1>8. ToSet(buffer[w]) \cap ToSet(s) = {}
  BY <1>2, <1>4, <1>5, <1>7
<1>9. b \in Seq(Sharded!Ids) /\ Once(b) /\ ToSet(b) = ToSet(buffer[w]) \cup ToSet(s)
  <2> DEFINE u == buffer[w]
  <2>1. /\ u \in Seq(Sharded!Ids) /\ Once(u) /\ s \in Seq(Sharded!Ids) /\ Once(s)
        /\ ToSet(u) \cap ToSet(s) = {} /\ b = u \o s
    BY <1>2, <1>6, <1>7, <1>8
  <2> HIDE DEF u
  <2>2. /\ u \o s \in Seq(Sharded!Ids) /\ Once(u \o s)
        /\ ToSet(u \o s) = ToSet(u) \cup ToSet(s)
    BY <2>1, OnceJoined
  <2> QED
    BY <2>1, <2>2 DEF u
<1>10. Sharded!LastPage(w, s) => ToSet(b) = IdsOf(Sharded!Wanted, c)
  <2>1. D \cup ToSet(buffer[w]) = {i \in history : c[1] < i /\ i <= c[2]}
    <3> DEFINE o == worker_offset[w]
    <3>1. o \in Nat /\ c[1] < o /\ o <= c[2] + 1
      BY <1>2
    <3> HIDE DEF o
    <3>2. \A i \in history : (c[1] < i /\ i < o) \/ (o <= i /\ i <= c[2])
                              <=> c[1] < i /\ i <= c[2]
      BY <1>3, <1>5, <3>1
    <3>3. /\ D = {i \in history : c[1] < i /\ i < o}
          /\ ToSet(buffer[w]) = {i \in history : o <= i /\ i <= c[2]}
      BY <1>2, <1>4 DEF o
    <3> QED
      BY <3>2, <3>3
  <2>2. IdsOf(Sharded!Wanted, c) = {i \in history : c[1] < i /\ i <= c[2]}
    BY <1>3, <1>5 DEF IdsOf, Sharded!Wanted
  <2> QED
    BY <1>6, <1>9, <2>1, <2>2
<1>11. ASSUME ~Sharded!LastPage(w, s)
       PROVE  /\ Sharded!Last(s) \in Sharded!Ids /\ Sharded!Last(s) < worker_offset[w]
              /\ c[1] < Sharded!Last(s)
              /\ ToSet(b) = MessagesIn(history, Sharded!Last(s), c[2])
  <2> DEFINE l == Sharded!Last(s)
  <2>1. l \in D /\ ToSet(s) = {i \in D : l <= i}
    BY <1>6, <1>11
  <2> HIDE DEF l
  <2>2. l \in history /\ c[1] < l /\ l < worker_offset[w] /\ l \in Nat
    BY <1>4, <1>5, <2>1
  <2>3. ToSet(b) = {i \in history : l <= i /\ i <= c[2]}
    <3> DEFINE o == worker_offset[w]
    <3>1. o \in Nat /\ c[1] < o /\ o <= c[2] + 1 /\ l < o
      BY <1>2, <2>2
    <3>2. /\ D = {i \in history : c[1] < i /\ i < o}
          /\ ToSet(buffer[w]) = {i \in history : o <= i /\ i <= c[2]}
      BY <1>2, <1>4
    <3> HIDE DEF o
    <3>3. \A i \in history : (c[1] < i /\ i < o /\ l <= i) \/ (o <= i /\ i <= c[2])
                              <=> l <= i /\ i <= c[2]
      <4> TAKE i \in history
      <4>1. i \in Nat /\ c[1] \in Nat /\ c[2] \in Nat /\ l \in Nat /\ o \in Nat
        BY <1>3, <1>5, <2>2, <3>1
      <4>2. c[1] < l /\ l < o /\ o <= c[2] + 1
        BY <2>2, <3>1
      <4> QED
        BY <4>1, <4>2
    <3> QED
      BY <1>9, <2>1, <3>2, <3>3
  <2> QED
    BY <1>5, <2>2, <2>3 DEF l, MessagesIn
<1> QED
  BY <1>9, <1>10, <1>11

-----------------------------------------------------------------------------
\* A step in which a worker changes its own state only, and has to do what it had.
OwnStep(w) ==
  /\ UNCHANGED <<history, min_id, current_id, task_queue, queue, finished, failed, main,
                 draining, all_messages>>
  /\ \A v \in Sharded!Workers : v # w => Untouched(v)

\* Such a step keeps all ids where they are.
LEMMA OwnStepKeeps ==
  ASSUME ShardedInv, NEW w \in Sharded!Workers, OwnStep(w), Sharded!TypeOK',
         WorkerOK(w)', Mine(w)' = Mine(w)
  PROVE  ShardedInv'
<1>1. /\ Sharded!TypeOK /\ PlanOK /\ OutOK /\ IdsKept
      /\ \A v \in Sharded!Workers : WorkerOK(v)
  BY DEF ShardedInv
<1>2. /\ UNCHANGED <<history, min_id, current_id, task_queue, queue, finished, failed, main,
                     draining, all_messages>>
      /\ \A v \in Sharded!Workers : v # w => Untouched(v)
  BY DEF OwnStep
<1>3. PlanOK' /\ OutOK'
  BY <1>1, <1>2 DEF PlanOK, OutOK
<1>4. \A v \in Sharded!Workers : v # w => WorkerOK(v)' /\ Mine(v)' = Mine(v)
  BY <1>1, <1>2, WorkerUntouched, MineUntouched
<1>5. IdsKept'
  BY <1>1, <1>2, <1>4, NothingMoved
<1> QED
  BY <1>3, <1>4, <1>5 DEF ShardedInv

\* The same for a step that goes on with chunks.
LEMMA BeginKeeps ==
  ASSUME ShardedInv, NEW w \in Sharded!Workers, phase[w] # "over",
         NEW cs \in Seq(Sharded!Chunks), Chain(min_id, cs), Sharded!Begin(w, cs),
         IdsOfAll(Sharded!Wanted, cs) = Mine(w),
         UNCHANGED <<history, min_id, current_id, task_queue, queue, finished, failed, main,
                     draining, all_messages>>
  PROVE  ShardedInv'
<1>1. Sharded!TypeOK /\ WorkerOK(w)
  BY DEF ShardedInv
<1>2. WorkerOK(w)' /\ Mine(w)' = Mine(w)
  BY <1>1, BegunOK
<1>3. OwnStep(w)
  BY <1>1, Begun DEF OwnStep
<1>4. Sharded!TypeOK'
  BY <1>1, Begun DEF Sharded!TypeOK
<1> QED
  BY <1>2, <1>3, <1>4, OwnStepKeeps

\* A page that is not the last one makes the buffer go down further.
LEMMA NextPageStep ==
  ASSUME ShardedInv, NEW w \in Sharded!Workers, Sharded!NextPage(w) PROVE ShardedInv'
<1> DEFINE s == Sharded!Page(w)
           b == buffer[w] \o s
           l == Sharded!Last(s)
           c == Head(todo[w])
<1>1. Sharded!TypeOK /\ WorkerOK(w)
  BY DEF ShardedInv
<1>2. /\ phase[w] = "fetching" /\ ~Sharded!LastPage(w, s)
      /\ buffer' = [buffer EXCEPT ![w] = b]
      /\ worker_offset' = [worker_offset EXCEPT ![w] = l]
      /\ UNCHANGED <<history, min_id, current_id, task_queue, phase, todo, queue, finished,
                     failed, main, draining, all_messages>>
  BY DEF Sharded!NextPage, Sharded!planVars, Sharded!queueVars, Sharded!mainVars
<1>3. /\ b \in Seq(Sharded!Ids) /\ Once(b)
      /\ l \in Sharded!Ids /\ l < worker_offset[w] /\ c[1] < l
      /\ ToSet(b) = MessagesIn(history, l, c[2])
  <2>1. phase[w] = "fetching" /\ c = Head(todo[w]) /\ s = Sharded!Page(w) /\ b = buffer[w] \o s
        /\ l = Sharded!Last(s)
    BY <1>2
  <2> HIDE DEF s, b, l, c
  <2>2. ~Sharded!LastPage(w, s)
    BY <1>2
  <2> QED
    BY <2>1, <2>2, BufferFacts
<1>4. /\ todo[w] \in Seq(Sharded!Chunks) /\ todo[w] # <<>> /\ Chain(min_id, todo[w])
      /\ worker_offset[w] \in 0 .. NewestId + 1 /\ worker_offset[w] <= c[2] + 1
  BY <1>1, <1>2 DEF Sharded!TypeOK, WorkerOK
<1>5. c[1] \in Nat /\ c[2] \in Nat
  BY <1>1, <1>4, FirstChunk
<1>6. l \in 0 .. NewestId + 1 /\ l <= c[2] + 1 /\ NewestId \in Nat
  <2>1. NewestId \in Nat /\ l \in 1 .. NewestId
    BY <1>3, ShardedConstants DEF Sharded!Ids
  <2> QED
    BY <1>3, <1>4, <1>5, <2>1
<1> HIDE DEF s, b, l, c
<1>7. /\ buffer'[w] = b /\ worker_offset'[w] = l
      /\ \A v \in Sharded!Workers : v # w => Untouched(v)
  BY <1>1, <1>2 DEF Sharded!TypeOK, Untouched
<1>8. Sharded!TypeOK'
  BY <1>1, <1>2, <1>3, <1>6 DEF Sharded!TypeOK
<1>9. WorkerOK(w)'
  BY <1>1, <1>2, <1>3, <1>4, <1>6, <1>7 DEF WorkerOK, c
<1>10. Mine(w)' = Mine(w)
  BY <1>2, SameWanted DEF Mine
<1>11. OwnStep(w)
  BY <1>2, <1>7 DEF OwnStep
<1> QED
  BY <1>8, <1>9, <1>10, <1>11, OwnStepKeeps

\* After the last page the buffer has the ids of the chunk.
LEMMA FetchChunkStep ==
  ASSUME ShardedInv, NEW w \in Sharded!Workers, Sharded!FetchChunk(w) PROVE ShardedInv'
<1> DEFINE s == Sharded!Page(w)
           b == buffer[w] \o s
           c == Head(todo[w])
<1>1. Sharded!TypeOK /\ WorkerOK(w)
  BY DEF ShardedInv
<1>2. /\ phase[w] = "fetching" /\ Sharded!LastPage(w, s)
      /\ buffer' = [buffer EXCEPT ![w] = b]
      /\ phase' = [phase EXCEPT ![w] = "streaming"]
      /\ UNCHANGED <<history, min_id, current_id, task_queue, todo, worker_offset, queue,
                     finished, failed, main, draining, all_messages>>
  BY DEF Sharded!FetchChunk, Sharded!planVars, Sharded!queueVars, Sharded!mainVars
<1>3. b \in Seq(Sharded!Ids) /\ Once(b) /\ ToSet(b) = IdsOf(Sharded!Wanted, c)
  BY <1>2, BufferFacts
<1>4. todo[w] \in Seq(Sharded!Chunks) /\ todo[w] # <<>> /\ Chain(min_id, todo[w])
  BY <1>1, <1>2 DEF Sharded!TypeOK, WorkerOK
<1>5. IdsOfAll(Sharded!Wanted, todo[w])
        = IdsOf(Sharded!Wanted, c) \cup IdsOfAll(Sharded!Wanted, Tail(todo[w]))
  BY <1>1, <1>4, FirstChunk
<1> HIDE DEF s, b, c
<1>6. /\ buffer'[w] = b /\ phase'[w] = "streaming" /\ todo'[w] = todo[w]
      /\ \A v \in Sharded!Workers : v # w => Untouched(v)
  BY <1>1, <1>2 DEF Sharded!TypeOK, Untouched
<1>7. Sharded!Wanted' = Sharded!Wanted
  BY <1>2, SameWanted
<1>8. Sharded!TypeOK'
  BY <1>1, <1>2, <1>3 DEF Sharded!TypeOK
<1>9. WorkerOK(w)'
  BY <1>1, <1>2, <1>3, <1>4, <1>6, <1>7 DEF WorkerOK, c
<1>10. Mine(w)' = Mine(w)
  BY <1>2, <1>3, <1>5, <1>6, <1>7 DEF Mine
<1>11. OwnStep(w)
  BY <1>2, <1>6 DEF OwnStep
<1> QED
  BY <1>8, <1>9, <1>10, <1>11, OwnStepKeeps

\* Four parts take over the ids of a slow chunk, and its buffer is dropped.
LEMMA SplitChunkStep ==
  ASSUME ShardedInv, NEW w \in Sharded!Workers, Sharded!SplitChunk(w) PROVE ShardedInv'
<1> DEFINE c == Head(todo[w])
           s == Sharded!SubChunks(c)
           t == Tail(todo[w])
<1>1. Sharded!TypeOK /\ WorkerOK(w)
  BY DEF ShardedInv
<1>2. /\ phase[w] = "fetching" /\ c[3] > 0 /\ Sharded!Begin(w, s \o t)
      /\ UNCHANGED <<history, min_id, current_id, task_queue, queue, finished, failed, main,
                     draining, all_messages>>
  BY DEF Sharded!SplitChunk, Sharded!planVars, Sharded!queueVars, Sharded!mainVars
<1>3. todo[w] \in Seq(Sharded!Chunks) /\ todo[w] # <<>> /\ Chain(min_id, todo[w])
  BY <1>1, <1>2 DEF Sharded!TypeOK, WorkerOK
<1>4. /\ c \in Sharded!Chunks /\ t \in Seq(Sharded!Chunks) /\ Chain(min_id, t)
      /\ c[1] \in Nat /\ c[2] \in Nat /\ min_id <= c[1] /\ c[1] <= c[2]
      /\ \A k \in DOMAIN t : c[2] <= t[k][1]
      /\ IdsOfAll(Sharded!Wanted, todo[w])
           = IdsOf(Sharded!Wanted, c) \cup IdsOfAll(Sharded!Wanted, t)
  BY <1>1, <1>3, FirstChunk
<1>5. min_id \in Nat /\ Sharded!Wanted \in SUBSET Nat
  BY <1>1, WantedIds
<1> HIDE DEF c, t
<1>6. /\ s \in Seq(Sharded!Chunks) /\ Chain(min_id, s)
      /\ IdsOfAll(Sharded!Wanted, s) = IdsOf(Sharded!Wanted, c)
      /\ \A k \in DOMAIN s : s[k][2] <= c[2]
  BY <1>2, <1>4, <1>5, SubChunksFacts
<1> HIDE DEF s
<1>7. \A k \in DOMAIN s, l \in DOMAIN t : s[k][2] <= t[l][1]
  <2> TAKE k \in DOMAIN s, l \in DOMAIN t
  <2>1. s[k] \in Sharded!Chunks /\ t[l] \in Sharded!Chunks
    BY <1>4, <1>6
  <2>2. s[k][2] \in Nat /\ t[l][1] \in Nat
    BY <2>1, ChunkNumbers
  <2>3. s[k][2] <= c[2] /\ c[2] <= t[l][1]
    BY <1>4, <1>6
  <2> QED
    BY <1>4, <2>2, <2>3
<1>8. /\ s \o t \in Seq(Sharded!Chunks) /\ Chain(min_id, s \o t)
      /\ IdsOfAll(Sharded!Wanted, s \o t)
           = IdsOfAll(Sharded!Wanted, s) \cup IdsOfAll(Sharded!Wanted, t)
  BY <1>4, <1>6, <1>7, ChainsJoined
<1>9. IdsOfAll(Sharded!Wanted, s \o t) = Mine(w)
  BY <1>2, <1>4, <1>6, <1>8 DEF Mine
<1> QED
  BY <1>2, <1>8, <1>9, BeginKeeps

\* A chunk whose buffer is streamed has no id left.
LEMMA ChunkDoneStep ==
  ASSUME ShardedInv, NEW w \in Sharded!Workers, Sharded!ChunkDone(w) PROVE ShardedInv'
<1>1. Sharded!TypeOK /\ WorkerOK(w)
  BY DEF ShardedInv
<1>2. /\ phase[w] = "streaming" /\ buffer[w] = <<>> /\ Sharded!Begin(w, Tail(todo[w]))
      /\ UNCHANGED <<history, min_id, current_id, task_queue, queue, finished, failed, main,
                     draining, all_messages>>
  BY DEF Sharded!ChunkDone, Sharded!planVars, Sharded!queueVars, Sharded!mainVars
<1>3. todo[w] \in Seq(Sharded!Chunks) /\ todo[w] # <<>> /\ Chain(min_id, todo[w])
  BY <1>1, <1>2 DEF Sharded!TypeOK, WorkerOK
<1>4. Tail(todo[w]) \in Seq(Sharded!Chunks) /\ Chain(min_id, Tail(todo[w]))
  BY <1>1, <1>3, FirstChunk
<1>5. IdsOfAll(Sharded!Wanted, Tail(todo[w])) = Mine(w)
  BY <1>2, NothingIn DEF Mine
<1> QED
  BY <1>2, <1>4, <1>5, BeginKeeps

-----------------------------------------------------------------------------
\* The bound on the queues after one is changed.
LEMMA QueueBound ==
  ASSUME Sharded!TypeOK, NEW w \in Sharded!Workers, NEW q \in Seq(Sharded!Ids),
         Len(q) <= MessageQueueSize, queue' = [queue EXCEPT ![w] = q]
  PROVE  /\ queue' \in [Sharded!Workers -> Seq(Sharded!Ids)] /\ queue'[w] = q
         /\ \A v \in Sharded!Workers : v # w => queue'[v] = queue[v]
         /\ \A v \in Sharded!Workers : Len(queue'[v]) <= MessageQueueSize
<1>1. /\ queue \in [Sharded!Workers -> Seq(Sharded!Ids)]
      /\ \A v \in Sharded!Workers : Len(queue[v]) <= MessageQueueSize
  BY DEF Sharded!TypeOK
<1> QED
  BY <1>1

\* A message goes from the buffer of a worker to its queue.
LEMMA StreamStep ==
  ASSUME ShardedInv, NEW w \in Sharded!Workers, Sharded!Stream(w) PROVE ShardedInv'
<1> DEFINE x == Head(buffer[w])
           b == Tail(buffer[w])
           o == Append(queue[w], x)
           p == <<"mine", w>>
           q == <<"queue", w>>
<1>1. /\ Sharded!TypeOK /\ PlanOK /\ OutOK /\ IdsKept
      /\ \A v \in Sharded!Workers : WorkerOK(v)
  BY DEF ShardedInv
<1>2. /\ phase[w] = "streaming" /\ buffer[w] # <<>> /\ Len(queue[w]) < MessageQueueSize
      /\ queue' = [queue EXCEPT ![w] = o] /\ buffer' = [buffer EXCEPT ![w] = b]
      /\ UNCHANGED <<history, min_id, current_id, task_queue, phase, todo, worker_offset,
                     finished, failed, main, draining, all_messages>>
  BY DEF Sharded!Stream, Sharded!planVars, Sharded!mainVars
<1>3. /\ buffer[w] \in Seq(Sharded!Ids) /\ queue[w] \in Seq(Sharded!Ids)
      /\ todo[w] \in Seq(Sharded!Chunks) /\ MessageQueueSize \in Nat
      /\ Once(buffer[w]) /\ Once(queue[w]) /\ todo[w] # <<>> /\ Chain(min_id, todo[w])
      /\ ToSet(buffer[w]) \subseteq IdsOf(Sharded!Wanted, Head(todo[w]))
  BY <1>1, <1>2, ShardedConstants DEF Sharded!TypeOK, WorkerOK
<1>4. /\ b \in Seq(Sharded!Ids) /\ x \in Sharded!Ids
      /\ ToSet(buffer[w]) = {x} \cup ToSet(b) /\ x \notin ToSet(b) /\ Once(b)
  BY <1>2, <1>3, Dequeued
<1> HIDE DEF x, b
<1>5. IdsOf(Sharded!Wanted, Head(todo[w])) \cap IdsOfAll(Sharded!Wanted, Tail(todo[w])) = {}
  <2>1. /\ Head(todo[w])[2] \in Nat /\ Tail(todo[w]) \in Seq(Sharded!Chunks)
        /\ \A k \in DOMAIN Tail(todo[w]) : Head(todo[w])[2] <= Tail(todo[w])[k][1]
    BY <1>1, <1>3, FirstChunk
  <2>2. \A k \in DOMAIN Tail(todo[w]) : Tail(todo[w])[k][1] \in Nat
    BY <2>1, ChunkNumbers
  <2>3. \A i \in Sharded!Wanted : i \in Nat
    BY <1>1, WantedIds
  <2> QED
    BY <2>1, <2>2, <2>3 DEF IdsOf, IdsOfAll
<1>6. x \notin IdsOfAll(Sharded!Wanted, Tail(todo[w]))
  BY <1>3, <1>4, <1>5
<1>7. Sharded!Wanted' = Sharded!Wanted
  BY <1>2, SameWanted
<1>8. /\ Mine(w) = ToSet(buffer[w]) \cup IdsOfAll(Sharded!Wanted, Tail(todo[w]))
      /\ Mine(w)' = ToSet(b) \cup IdsOfAll(Sharded!Wanted, Tail(todo[w]))
      /\ buffer'[w] = b
  BY <1>1, <1>2, <1>7 DEF Mine, Sharded!TypeOK
<1>9. x \in Mine(w) /\ Mine(w)' = Mine(w) \ {x}
  BY <1>4, <1>6, <1>8
<1>10. x \notin ToSet(queue[w])
  <2>1. p \in FetchPlaces /\ q \in FetchPlaces /\ p # q
    BY PlacesAre DEF PlacesThere
  <2>2. Holds[p] = Mine(w) /\ Holds[q] = ToSet(queue[w])
    BY HoldsAre DEF HoldsThere
  <2>3. Holds[p] \cap Holds[q] = {}
    BY <1>1, <2>1 DEF IdsKept, KeptApart
  <2> QED
    BY <1>9, <2>2, <2>3
<1>11. /\ o \in Seq(Sharded!Ids) /\ ToSet(o) = ToSet(queue[w]) \cup {x} /\ Once(o)
       /\ Len(o) <= MessageQueueSize
  <2>1. Len(o) = Len(queue[w]) + 1 /\ Len(queue[w]) \in Nat
    BY <1>3, <1>4
  <2> QED
    BY <1>2, <1>3, <1>4, <1>10, <2>1, Appended
<1> HIDE DEF o
<1>12. /\ queue' \in [Sharded!Workers -> Seq(Sharded!Ids)] /\ queue'[w] = o
       /\ \A v \in Sharded!Workers : v # w => queue'[v] = queue[v]
       /\ \A v \in Sharded!Workers : Len(queue'[v]) <= MessageQueueSize
  BY <1>1, <1>2, <1>11, QueueBound
<1>13. \A v \in Sharded!Workers : v # w => Untouched(v)
  BY <1>1, <1>2 DEF Untouched, Sharded!TypeOK
<1>14. \A v \in Sharded!Workers : v # w => WorkerOK(v)' /\ Mine(v)' = Mine(v)
  BY <1>1, <1>2, <1>12, <1>13, WorkerUntouched, MineUntouched
<1>15. WorkerOK(w)'
  <2>1. ~finished[w] /\ ToSet(b) \subseteq IdsOf(Sharded!Wanted, Head(todo[w]))
    BY <1>1, <1>2, <1>3, <1>4 DEF WorkerOK
  <2> QED
    BY <1>2, <1>3, <1>4, <1>7, <1>8, <1>11, <1>12, <2>1 DEF WorkerOK
<1>16. Sharded!TypeOK'
  BY <1>1, <1>2, <1>4, <1>12 DEF Sharded!TypeOK
<1>17. PlanOK'
  BY <1>1, <1>2 DEF PlanOK
<1>18. OutOK'
  <2>1. ~finished[w]
    BY <1>1, <1>2 DEF WorkerOK
  <2> QED
    BY <1>1, <1>2, <1>12, <2>1 DEF OutOK
<1>19. Moved(Holds, Holds', FetchPlaces, p, q, {x})
  <2>1. \A r \in FetchPlaces : r # p /\ r # q => Holds'[r] = Holds[r]
    <3>1. /\ Holds'[<<"planned", 0>>] = Holds[<<"planned", 0>>]
          /\ Holds'[<<"tasks", 0>>] = Holds[<<"tasks", 0>>]
          /\ Holds'[<<"out", 0>>] = Holds[<<"out", 0>>]
      BY <1>2, <1>7, HoldsAre DEF HoldsThere
    <3>2. \A v \in Sharded!Workers :
            v # w => /\ Holds'[<<"mine", v>>] = Holds[<<"mine", v>>]
                     /\ Holds'[<<"queue", v>>] = Holds[<<"queue", v>>]
      BY <1>12, <1>14, HoldsAre DEF HoldsThere
    <3> QED
      BY <3>1, <3>2, PlacesAre DEF PlacesThere
  <2>2. Holds[p] = Mine(w) /\ Holds'[p] = Mine(w)'
    BY HoldsAre DEF HoldsThere
  <2>3. Holds[q] = ToSet(queue[w]) /\ Holds'[q] = ToSet(o)
    BY <1>12, HoldsAre DEF HoldsThere
  <2>4. p \in FetchPlaces /\ q \in FetchPlaces /\ p # q
    BY PlacesAre DEF PlacesThere
  <2> HIDE DEF p, q
  <2> QED
    BY <1>9, <1>11, <2>1, <2>2, <2>3, <2>4 DEF Moved
<1> HIDE DEF p, q
<1>20. IdsKept'
  BY <1>1, <1>2, <1>19, OneMoved
<1> QED
  BY <1>14, <1>15, <1>16, <1>17, <1>18, <1>20 DEF ShardedInv

\* A worker that fails keeps nothing, and from then on ids may be missing.
LEMMA WorkerFailsStep ==
  ASSUME ShardedInv, NEW w \in Sharded!Workers, Sharded!WorkerFails(w) PROVE ShardedInv'
<1>1. /\ Sharded!TypeOK /\ PlanOK /\ OutOK /\ IdsKept
      /\ \A v \in Sharded!Workers : WorkerOK(v)
  BY DEF ShardedInv
<1>2. /\ phase[w] = "fetching" /\ phase' = [phase EXCEPT ![w] = "over"]
      /\ finished' = [finished EXCEPT ![w] = TRUE]
      /\ failed' = [failed EXCEPT ![w] = TRUE]
      /\ UNCHANGED <<history, min_id, current_id, task_queue, todo, worker_offset, buffer,
                     queue, main, draining, all_messages>>
  BY DEF Sharded!WorkerFails, Sharded!planVars, Sharded!mainVars
<1>3. /\ phase'[w] = "over" /\ failed'[w] /\ finished'[w]
      /\ \A v \in Sharded!Workers : v # w => /\ phase'[v] = phase[v]
                                             /\ finished'[v] = finished[v]
                                             /\ failed'[v] = failed[v]
  BY <1>1, <1>2 DEF Sharded!TypeOK
<1>4. \A v \in Sharded!Workers : v # w => WorkerOK(v)' /\ Mine(v)' = Mine(v)
  <2>1. \A v \in Sharded!Workers : v # w => Untouched(v)
    BY <1>2, <1>3 DEF Untouched
  <2> QED
    BY <1>1, <1>2, <1>3, <2>1, WorkerUntouched, MineUntouched
<1>5. WorkerOK(w)'
  BY <1>1, <1>2, <1>3 DEF WorkerOK
<1>6. Sharded!TypeOK'
  BY <1>1, <1>2 DEF Sharded!TypeOK
<1>7. PlanOK'
  BY <1>1, <1>2 DEF PlanOK
<1>8. OutOK'
  BY <1>1, <1>2, <1>3 DEF OutOK
<1>9. IdsKept'
  <2>1. Sharded!Wanted' = Sharded!Wanted
    BY <1>2, SameWanted
  <2>2. Mine(w)' = {}
    BY <1>3 DEF Mine
  <2>3. /\ Holds'[<<"planned", 0>>] = Holds[<<"planned", 0>>]
        /\ Holds'[<<"tasks", 0>>] = Holds[<<"tasks", 0>>]
        /\ Holds'[<<"out", 0>>] = Holds[<<"out", 0>>]
    BY <1>2, <2>1, HoldsAre DEF HoldsThere
  <2>4. \A v \in Sharded!Workers : /\ Holds'[<<"mine", v>>] \subseteq Holds[<<"mine", v>>]
                                   /\ Holds'[<<"queue", v>>] = Holds[<<"queue", v>>]
    BY <1>2, <1>4, <2>2, HoldsAre DEF HoldsThere
  <2>5. \A p \in FetchPlaces : Holds'[p] \subseteq Holds[p]
    BY <2>3, <2>4, PlacesAre DEF PlacesThere
  <2>6. KeptApart(Holds', FetchPlaces, Sharded!Wanted)
    BY <1>1, <2>5, LostApart DEF IdsKept
  <2>7. ~Sharded!NoFailure'
    BY <1>3 DEF Sharded!NoFailure
  <2> QED
    BY <2>1, <2>6, <2>7 DEF IdsKept
<1> QED
  BY <1>4, <1>5, <1>6, <1>7, <1>8, <1>9 DEF ShardedInv

-----------------------------------------------------------------------------
\* A message goes from the queue that is drained to the output.
LEMMA CollectStep ==
  ASSUME ShardedInv, Sharded!Collect PROVE ShardedInv'
<1>0. SUFFICES ASSUME NEW w \in Sharded!Workers, w = draining PROVE ShardedInv'
  <2>1. draining \in 1 .. NWorkers + 1 /\ NWorkers \in Nat /\ draining <= NWorkers
    BY ShardedConstants DEF Sharded!Collect, ShardedInv, Sharded!TypeOK
  <2>2. draining \in Sharded!Workers
    BY <2>1 DEF Sharded!Workers
  <2> QED
    BY <2>2
<1> DEFINE x == Head(queue[w])
           o == Tail(queue[w])
           out == Append(all_messages, x)
           p == <<"queue", w>>
           q == <<"out", 0>>
<1>1. /\ Sharded!TypeOK /\ PlanOK /\ OutOK /\ IdsKept
      /\ \A v \in Sharded!Workers : WorkerOK(v)
  BY DEF ShardedInv
<1>2. /\ main = "collecting" /\ draining <= NWorkers /\ queue[w] # <<>>
      /\ queue' = [queue EXCEPT ![w] = o] /\ all_messages' = out
      /\ UNCHANGED <<history, min_id, current_id, task_queue, phase, todo, worker_offset,
                     buffer, finished, failed, main, draining>>
  BY <1>0 DEF Sharded!Collect, Sharded!planVars, Sharded!workerVars
<1>3. w \in Sharded!Workers /\ NWorkers \in Nat /\ w \in Nat
  BY <1>0, ShardedConstants DEF Sharded!Workers
<1>4. /\ queue[w] \in Seq(Sharded!Ids) /\ Len(queue[w]) <= MessageQueueSize
      /\ MessageQueueSize \in Nat
      /\ all_messages \in Seq(Sharded!Ids) /\ Once(queue[w]) /\ Once(all_messages)
  BY <1>1, <1>3, ShardedConstants DEF Sharded!TypeOK, WorkerOK, OutOK
<1>5. /\ o \in Seq(Sharded!Ids) /\ x \in Sharded!Ids /\ x \in ToSet(queue[w])
      /\ ToSet(queue[w]) = {x} \cup ToSet(o) /\ x \notin ToSet(o) /\ Once(o)
  BY <1>2, <1>4, Dequeued
<1>6. Len(o) <= MessageQueueSize
  BY <1>2, <1>4
<1> HIDE DEF x, o
<1>7. /\ queue' \in [Sharded!Workers -> Seq(Sharded!Ids)] /\ queue'[w] = o
      /\ \A v \in Sharded!Workers : v # w => queue'[v] = queue[v]
      /\ \A v \in Sharded!Workers : Len(queue'[v]) <= MessageQueueSize
  BY <1>1, <1>2, <1>3, <1>5, <1>6, QueueBound
<1>8. p \in FetchPlaces /\ q \in FetchPlaces /\ p # q
  BY <1>3, PlacesAre DEF PlacesThere
<1>9. /\ Holds[p] = ToSet(queue[w]) /\ Holds'[p] = ToSet(o)
      /\ Holds[q] = ToSet(all_messages) /\ Holds'[q] = ToSet(all_messages')
  BY <1>3, <1>7, HoldsAre DEF HoldsThere
<1>10. x \notin ToSet(all_messages)
  <2>1. Holds[p] \cap Holds[q] = {}
    BY <1>1, <1>8 DEF IdsKept, KeptApart
  <2> QED
    BY <1>5, <1>9, <2>1
<1>11. /\ out \in Seq(Sharded!Ids) /\ ToSet(out) = ToSet(all_messages) \cup {x} /\ Once(out)
  BY <1>4, <1>5, <1>10, Appended
<1> HIDE DEF out
<1>12. Sharded!Wanted' = Sharded!Wanted
  BY <1>2, SameWanted
<1>13. \A v \in Sharded!Workers : Untouched(v) /\ Mine(v)' = Mine(v)
  BY <1>2, MineUntouched DEF Untouched
<1>14. \A v \in Sharded!Workers : v # w => WorkerOK(v)'
  BY <1>1, <1>2, <1>7, <1>13, WorkerUntouched
<1>15. WorkerOK(w)'
  BY <1>1, <1>2, <1>3, <1>5, <1>7, <1>12 DEF WorkerOK
<1>16. Sharded!TypeOK'
  BY <1>1, <1>2, <1>7, <1>11 DEF Sharded!TypeOK
<1>17. PlanOK'
  BY <1>1, <1>2 DEF PlanOK
<1>18. OutOK'
  <2>1. \A v \in Sharded!Workers : v < draining => finished'[v] /\ queue'[v] = <<>>
    <3> TAKE v \in Sharded!Workers
    <3> HAVE v < draining
    <3>1. v # w
      BY <1>0, <1>3 DEF Sharded!Workers
    <3> QED
      BY <1>1, <1>2, <1>7, <3>1 DEF OutOK
  <2> QED
    BY <1>1, <1>2, <1>11, <2>1 DEF OutOK
<1>19. Moved(Holds, Holds', FetchPlaces, p, q, {x})
  <2>1. \A r \in FetchPlaces : r # p /\ r # q => Holds'[r] = Holds[r]
    <3>1. /\ Holds'[<<"planned", 0>>] = Holds[<<"planned", 0>>]
          /\ Holds'[<<"tasks", 0>>] = Holds[<<"tasks", 0>>]
      BY <1>2, <1>12, HoldsAre DEF HoldsThere
    <3>2. \A v \in Sharded!Workers :
            /\ Holds'[<<"mine", v>>] = Holds[<<"mine", v>>]
            /\ v # w => Holds'[<<"queue", v>>] = Holds[<<"queue", v>>]
      BY <1>7, <1>13, HoldsAre DEF HoldsThere
    <3> QED
      BY <3>1, <3>2, PlacesAre DEF PlacesThere
  <2>2. Holds'[q] = Holds[q] \cup {x} /\ {x} \subseteq Holds[p] /\ Holds'[p] = Holds[p] \ {x}
    BY <1>2, <1>5, <1>9, <1>11
  <2> HIDE DEF p, q
  <2> QED
    BY <1>8, <2>1, <2>2 DEF Moved
<1> HIDE DEF p, q
<1>20. IdsKept'
  BY <1>1, <1>2, <1>19, OneMoved
<1> QED
  BY <1>14, <1>15, <1>16, <1>17, <1>18, <1>20 DEF ShardedInv

\* A step of the generator that leaves the workers and all ids alone.
LEMMA GeneratorKeeps ==
  ASSUME ShardedInv, Sharded!TypeOK', OutOK', main # "planning", main' # "planning",
         UNCHANGED <<history, min_id, current_id, task_queue, phase, todo, worker_offset,
                     buffer, queue, finished, failed>>,
         ToSet(all_messages') = ToSet(all_messages)
  PROVE  ShardedInv'
<1>1. PlanOK /\ IdsKept /\ \A v \in Sharded!Workers : WorkerOK(v)
  BY DEF ShardedInv
<1>2. PlanOK'
  BY <1>1 DEF PlanOK
<1>3. \A v \in Sharded!Workers : WorkerOK(v)' /\ Mine(v)' = Mine(v)
  BY <1>1, WorkerUntouched, MineUntouched DEF Untouched
<1>4. IdsKept'
  BY <1>1, <1>3, NothingMoved
<1> QED
  BY <1>2, <1>3, <1>4 DEF ShardedInv

\* The next queue is drained when this one is empty and stays so.
LEMMA NextWorkerStep ==
  ASSUME ShardedInv, Sharded!NextWorker PROVE ShardedInv'
<1>1. Sharded!TypeOK /\ OutOK
  BY DEF ShardedInv
<1>2. /\ main = "collecting" /\ draining <= NWorkers
      /\ queue[draining] = <<>> /\ finished[draining] /\ draining' = draining + 1
      /\ UNCHANGED <<history, min_id, current_id, task_queue, phase, todo, worker_offset,
                     buffer, queue, finished, failed, main, all_messages>>
  BY DEF Sharded!NextWorker, Sharded!planVars, Sharded!workerVars, Sharded!queueVars
<1>3. draining \in Nat /\ draining \in 1 .. NWorkers + 1 /\ NWorkers \in Nat
  BY <1>1, ShardedConstants DEF Sharded!TypeOK
<1>4. draining' \in 1 .. NWorkers + 1
  BY <1>2, <1>3
<1>5. Sharded!TypeOK'
  BY <1>1, <1>2, <1>4 DEF Sharded!TypeOK
<1>6. OutOK'
  <2>1. \A v \in Sharded!Workers : v < draining' => v < draining \/ v = draining
    BY <1>2, <1>3 DEF Sharded!Workers
  <2> QED
    BY <1>1, <1>2, <2>1 DEF OutOK
<1> QED
  BY <1>2, <1>5, <1>6, GeneratorKeeps

\* Sorting keeps the messages, each once.
LEMMA SortMessagesStep ==
  ASSUME ShardedInv, Sharded!SortMessages PROVE ShardedInv'
<1> DEFINE s == all_messages
           r == Sharded!Sorted(s)
<1>1. Sharded!TypeOK /\ OutOK
  BY DEF ShardedInv
<1>2. /\ main = "collecting" /\ draining > NWorkers /\ all_messages' = r
      /\ main' = IF s = <<>> THEN "raised" ELSE "yielding"
      /\ UNCHANGED <<history, min_id, current_id, task_queue, phase, todo, worker_offset,
                     buffer, queue, finished, failed, draining>>
  BY DEF Sharded!SortMessages, Sharded!planVars, Sharded!workerVars, Sharded!queueVars
<1>3. s \in Seq(Sharded!Ids) /\ Once(s) /\ Sharded!Ids \in SUBSET Nat
  BY <1>1, ShardedConstants DEF Sharded!TypeOK, OutOK, Sharded!Ids
<1>4. Sorts(r, s, Sharded!Ids)
  <2> HIDE DEF s
  <2> QED
    BY <1>3, SortedFacts
<1> HIDE DEF r
<1>5. /\ r \in Seq(Sharded!Ids) /\ ToSet(r) = ToSet(s)
      /\ \A k, l \in DOMAIN r : k < l => r[k] < r[l]
  BY <1>4 DEF Sorts
<1>6. Once(r)
  <2> SUFFICES ASSUME NEW k \in DOMAIN r, NEW l \in DOMAIN r, k < l, r[k] = r[l] PROVE FALSE
    <3>1. \A k, l \in DOMAIN r : k = l \/ k < l \/ l < k
      BY <1>5
    <3> QED
      BY <3>1 DEF Once
  <2>1. r[k] \in Sharded!Ids /\ r[k] < r[l]
    BY <1>5
  <2>2. r[k] \in Nat
    BY <1>3, <2>1
  <2> QED
    BY <2>1, <2>2
<1>7. Sharded!TypeOK'
  BY <1>1, <1>2, <1>5 DEF Sharded!TypeOK
<1>8. OutOK'
  BY <1>1, <1>2, <1>5, <1>6 DEF OutOK
<1>9. main # "planning" /\ main' # "planning"
  BY <1>2
<1> QED
  BY <1>2, <1>5, <1>7, <1>8, <1>9, GeneratorKeeps

-----------------------------------------------------------------------------
\* In the beginning every id is to be planned.
LEMMA ShardedInit == ASSUME FetchingInit PROVE ShardedInv
<1>1. /\ history \in SUBSET Sharded!Ids /\ history # {} /\ min_id \in 0 .. NewestId
      /\ current_id = min_id /\ task_queue = <<>>
      /\ phase = [w \in Sharded!Workers |-> "idle"]
      /\ todo = [w \in Sharded!Workers |-> <<>>]
      /\ worker_offset = [w \in Sharded!Workers |-> 0]
      /\ buffer = [w \in Sharded!Workers |-> <<>>]
      /\ queue = [w \in Sharded!Workers |-> <<>>]
      /\ finished = [w \in Sharded!Workers |-> FALSE]
      /\ failed = [w \in Sharded!Workers |-> FALSE]
      /\ main = "planning" /\ draining = 1 /\ all_messages = <<>>
  BY DEF FetchingInit, Sharded!Init
<1>2. /\ NewestId \in Nat /\ NWorkers \in Nat \ {0} /\ MessageQueueSize \in Nat
  BY ShardedConstants
<1>3. Sharded!TypeOK
  <2>1. 0 \in 0 .. NewestId + 1 /\ 1 \in 1 .. NWorkers + 1 /\ 0 <= MessageQueueSize
    BY <1>2
  <2> QED
    BY <1>1, <2>1 DEF Sharded!TypeOK
<1>4. PlanOK
  <2>1. min_id \in Nat
    BY <1>1, <1>2
  <2> QED
    BY <1>1, <2>1, NoChunks DEF PlanOK
<1>5. OutOK
  <2>1. \A w \in Sharded!Workers : ~(w < 1)
    BY <1>2 DEF Sharded!Workers
  <2> QED
    BY <1>1, <2>1, NothingIn DEF OutOK
<1>6. \A w \in Sharded!Workers : WorkerOK(w)
  BY <1>1, NoChunks, NothingIn DEF WorkerOK
<1>7. IdsKept
  <2>1. /\ Holds[<<"planned", 0>>] = Sharded!Wanted
        /\ Holds[<<"tasks", 0>>] = {} /\ Holds[<<"out", 0>>] = {}
    BY <1>1, HoldsAre, NoChunks, NothingIn DEF HoldsThere, Sharded!Wanted
  <2>2. \A v \in Sharded!Workers : Holds[<<"mine", v>>] = {} /\ Holds[<<"queue", v>>] = {}
    BY <1>1, HoldsAre, NothingIn DEF HoldsThere, Mine
  <2>3. \A p \in FetchPlaces : Holds[p] = IF p = <<"planned", 0>> THEN Sharded!Wanted ELSE {}
    BY <2>1, <2>2, PlacesAre DEF PlacesThere
  <2>4. KeptApart(Holds, FetchPlaces, Sharded!Wanted)
    BY <2>3 DEF KeptApart
  <2>5. AllKept(Holds, FetchPlaces, Sharded!Wanted)
    BY <2>3, PlacesAre DEF AllKept, PlacesThere
  <2> QED
    BY <2>4, <2>5 DEF IdsKept
<1> QED
  BY <1>3, <1>4, <1>5, <1>6, <1>7 DEF ShardedInv

\* The other components change nothing here.
LEMMA ShardedStands ==
  ASSUME ShardedInv, UNCHANGED shardedVars PROVE ShardedInv'
<1>1. /\ UNCHANGED <<history, min_id, current_id, task_queue, phase, todo, worker_offset,
                     buffer, queue, finished, failed, main, draining, all_messages>>
  BY DEF shardedVars
<1>2. /\ Sharded!TypeOK /\ PlanOK /\ OutOK /\ IdsKept
      /\ \A v \in Sharded!Workers : WorkerOK(v)
  BY DEF ShardedInv
<1>3. Sharded!TypeOK' /\ PlanOK' /\ OutOK'
  BY <1>1, <1>2 DEF Sharded!TypeOK, PlanOK, OutOK
<1>4. \A v \in Sharded!Workers : WorkerOK(v)' /\ Mine(v)' = Mine(v)
  BY <1>1, <1>2, WorkerUntouched, MineUntouched DEF Untouched
<1>5. IdsKept'
  BY <1>1, <1>2, <1>4, NothingMoved
<1> QED
  BY <1>3, <1>4, <1>5 DEF ShardedInv

\* Each step of the fetch keeps the invariant.
LEMMA ShardedNext == ASSUME ShardedInv, Sharded!Next PROVE ShardedInv'
<1>1. CASE Sharded!PlanChunk
  BY <1>1, PlanChunkStep
<1>2. CASE Sharded!StartWorkers
  BY <1>2, StartWorkersStep
<1>3. CASE Sharded!Collect
  BY <1>3, CollectStep
<1>4. CASE Sharded!NextWorker
  BY <1>4, NextWorkerStep
<1>5. CASE Sharded!SortMessages
  BY <1>5, SortMessagesStep
<1>6. ASSUME NEW w \in Sharded!Workers, Sharded!Worker(w) PROVE ShardedInv'
  <2>1. CASE Sharded!TakeChunk(w)
    BY <2>1, TakeChunkStep
  <2>2. CASE Sharded!NextPage(w)
    BY <2>2, NextPageStep
  <2>3. CASE Sharded!FetchChunk(w)
    BY <2>3, FetchChunkStep
  <2>4. CASE Sharded!SplitChunk(w)
    BY <2>4, SplitChunkStep
  <2>5. CASE Sharded!Stream(w)
    BY <2>5, StreamStep
  <2>6. CASE Sharded!ChunkDone(w)
    BY <2>6, ChunkDoneStep
  <2>7. CASE Sharded!WorkerFails(w)
    BY <2>7, WorkerFailsStep
  <2> QED
    BY <1>6, <2>1, <2>2, <2>3, <2>4, <2>5, <2>6, <2>7 DEF Sharded!Worker
<1>7. CASE Sharded!Done
  BY <1>7, ShardedStands
     DEF Sharded!Done, Sharded!vars, Sharded!planVars, Sharded!workerVars,
         Sharded!queueVars, Sharded!mainVars, shardedVars
<1> QED
  BY <1>1, <1>2, <1>3, <1>4, <1>5, <1>6, <1>7 DEF Sharded!Next, Sharded!Generator

\* And so does each step of the composition.
LEMMA ShardedStep ==
  ASSUME ShardedInv, [FetchingNext]_<<which, vars, prefetchVars, shardedVars, zoneVars>>
  PROVE  ShardedInv'
<1>1. CASE OfSharded(Sharded!Next)
  BY <1>1, ShardedNext DEF OfSharded
<1>2. CASE UNCHANGED shardedVars
  BY <1>2, ShardedStands
<1> QED
  BY <1>1, <1>2 DEF FetchingNext, OfStream, OfPrefetch, OfZones

\* When the generator yields, every id that was asked for is out, unless a worker
\* failed, and the ids that are out are among those.
LEMMA AllIsYielded == ShardedInv => YieldsAll
<1> SUFFICES ASSUME ShardedInv, main = "yielding" PROVE YieldsAll
  BY DEF YieldsAll, Sharded!YieldsAll
<1>1. /\ Sharded!TypeOK /\ PlanOK /\ OutOK /\ IdsKept
      /\ \A v \in Sharded!Workers : WorkerOK(v)
  BY DEF ShardedInv
<1>2. Sharded!Elements(all_messages) = ToSet(all_messages)
  BY DEF Sharded!Elements, ToSet
<1>3. Holds[<<"out", 0>>] = ToSet(all_messages) /\ <<"out", 0>> \in FetchPlaces
  BY HoldsAre, PlacesAre DEF HoldsThere, PlacesThere
<1>4. ToSet(all_messages) \subseteq Sharded!Wanted
  BY <1>1, <1>3 DEF IdsKept, KeptApart
<1>5. \A i, j \in DOMAIN all_messages : i < j => all_messages[i] < all_messages[j]
  BY <1>1 DEF OutOK
<1>6. ASSUME Sharded!NoFailure PROVE ToSet(all_messages) = Sharded!Wanted
  <2>1. \A v \in Sharded!Workers : finished[v] /\ queue[v] = <<>> /\ phase[v] = "over"
    <3>1. draining > NWorkers /\ draining \in Nat /\ NWorkers \in Nat
      BY <1>1, ShardedConstants DEF OutOK, Sharded!TypeOK
    <3>2. \A v \in Sharded!Workers : v < draining
      BY <3>1 DEF Sharded!Workers
    <3> QED
      BY <1>1, <3>2 DEF OutOK, WorkerOK
  <2>2. task_queue = <<>>
    <3>1. 1 \in Sharded!Workers
      BY ShardedConstants DEF Sharded!Workers
    <3> QED
      BY <1>1, <1>6, <2>1, <3>1 DEF WorkerOK, Sharded!NoFailure
  <2>3. Holds[<<"tasks", 0>>] = {}
    BY <2>2, HoldsAre, NoChunks DEF HoldsThere
  <2>4. Holds[<<"planned", 0>>] = {}
    <3>1. \A i \in Sharded!Wanted : i \in Nat /\ i <= current_id /\ ~(i > current_id)
      <4>1. \A i \in history : i <= current_id
        BY <1>1 DEF PlanOK
      <4>2. \A i \in Sharded!Wanted : i \in history /\ i \in Nat
        BY <1>1, WantedIds
      <4> QED
        BY <1>1, <4>1, <4>2, WantedIds
    <3> QED
      BY <3>1, HoldsAre DEF HoldsThere
  <2>5. \A v \in Sharded!Workers : Holds[<<"mine", v>>] = {} /\ Holds[<<"queue", v>>] = {}
    BY <2>1, HoldsAre, NothingIn DEF HoldsThere, Mine
  <2>6. \A p \in FetchPlaces : p # <<"out", 0>> => Holds[p] = {}
    BY <2>3, <2>4, <2>5, PlacesAre DEF PlacesThere
  <2>7. AllKept(Holds, FetchPlaces, Sharded!Wanted)
    BY <1>1, <1>6 DEF IdsKept
  <2> QED
    BY <1>3, <1>4, <2>6, <2>7 DEF AllKept
<1> QED
  BY <1>2, <1>4, <1>5, <1>6 DEF YieldsAll, Sharded!YieldsAll

(* What a fetch with several workers yields (fetch_messages of the sharded *)
(* client) is in chronological order, nothing but what was asked for, and  *)
(* all of it if no worker failed: whatever the chunk sizes, the splits of  *)
(* slow chunks, the page size, the size of the queues and the number of    *)
(* workers.                                                                *)
THEOREM YieldsAllAlways == FetchingSpec => []YieldsAll
<1>1. FetchingInit => ShardedInv
  BY ShardedInit
<1>2. ShardedInv /\ [FetchingNext]_<<which, vars, prefetchVars, shardedVars, zoneVars>>
        => ShardedInv'
  BY ShardedStep
<1>3. ShardedInv => YieldsAll
  BY AllIsYielded
<1> QED
  BY <1>1, <1>2, <1>3, PTL DEF FetchingSpec

-----------------------------------------------------------------------------
(* HotZones                                                                *)

\* What is assumed of the constants.
LEMMA ZoneConstants ==
  /\ Defaults \in Seq(HotZones!Zones) /\ HotZones!ZoneSizes \subseteq Nat
  /\ Ranges \subseteq Nat \X Nat
  /\ ShardChunkSize \in Nat /\ DensitySizes \in [1 .. 4 -> Nat]
  BY FetchingAssumption DEF HotZones!HotZonesAssumption

\* The parts of a zone.
LEMMA ZoneFacts ==
  \A z \in HotZones!Zones : /\ z.start \in Nat /\ z.end \in Nat
                            /\ z.size \in HotZones!ZoneSizes /\ z.size \in Nat
  BY ZoneConstants DEF HotZones!Zones

\* The slow chunks of a fetch, as they are noted.
SlowChunks ==
  {c \in [from : Nat, to : Nat, dc : Datacenters, duration : Durations, messages : Nat] :
     c.from <= c.to}

\* Merging a zone gives zones.
LEMMA MergeType ==
  ASSUME NEW known \in Seq(HotZones!Zones), NEW z \in HotZones!Zones
  PROVE  HotZones!Merge(known, z) \in Seq(HotZones!Zones)
<1> DEFINE over == {k \in DOMAIN known : HotZones!Overlaps(known[k], z.start, z.end)}
           same == {k \in over : known[k].start = z.start}
           k == CHOOSE k \in same : \A j \in same : k <= j
<1>1. /\ Append(known, z) \in Seq(HotZones!Zones)
      /\ [known EXCEPT ![k] = z] \in Seq(HotZones!Zones)
  <2> HIDE DEF k
  <2> DEFINE r == [known EXCEPT ![k] = z]
  <2>1. known \in [1 .. Len(known) -> HotZones!Zones] /\ Len(known) \in Nat
    OBVIOUS
  <2>2. r \in [1 .. Len(known) -> HotZones!Zones]
    BY <2>1
  <2> HIDE DEF r
  <2>3. r \in Seq(HotZones!Zones)
    BY <2>1, <2>2, SeqDef, Zenon
  <2>4. Append(known, z) \in Seq(HotZones!Zones)
    OBVIOUS
  <2> QED
    BY <2>3, <2>4 DEF r
<1>2. HotZones!Merge(known, z) \in {Append(known, z), [known EXCEPT ![k] = z], known}
  BY Zenon DEF HotZones!Merge
<1> QED
  BY <1>1, <1>2, Zenon

\* So does looking at a slow chunk.
LEMMA AnalyzeType ==
  ASSUME NEW known \in Seq(HotZones!Zones), NEW c \in SlowChunks
  PROVE  HotZones!Analyze(known, c) \in Seq(HotZones!Zones)
<1>1. \A size \in {CriticalSize, HighSize, MediumSize} :
        Append(known, HotZones!Zone(c.from, c.to, c.dc, size)) \in Seq(HotZones!Zones)
  <2> TAKE size \in {CriticalSize, HighSize, MediumSize}
  <2>1. HotZones!Zone(c.from, c.to, c.dc, size) \in HotZones!Zones
    BY DEF HotZones!Zone, HotZones!Zones, HotZones!ZoneSizes, SlowChunks
  <2> QED
    BY <2>1
<1> DEFINE denser(limit) == c.to - c.from > 0 /\ c.messages * 1000 > limit * (c.to - c.from)
           size == IF c.duration > 60 \/ denser(180) THEN CriticalSize
                   ELSE IF c.duration > 20 \/ denser(150) THEN HighSize
                   ELSE MediumSize
<1>2. size \in {CriticalSize, HighSize, MediumSize}
  OBVIOUS
<1>3. HotZones!Analyze(known, c)
        \in {Append(known, HotZones!Zone(c.from, c.to, c.dc, size)), known}
  BY Zenon DEF HotZones!Analyze
<1> HIDE DEF size
<1> QED
  BY <1>1, <1>2, <1>3, Zenon

-----------------------------------------------------------------------------
\* What is true of the zones before the first merge, and after each one if it was
\* before, is true after the last one: T has for each n what there may be then.
LEMMA MergedThrough ==
  ASSUME NEW known \in Seq(HotZones!Zones), NEW zs \in Seq(HotZones!Zones),
         NEW T, known \in T[0],
         \A i \in 1 .. Len(zs) : \A x \in Seq(HotZones!Zones) :
            x \in T[i - 1] => HotZones!Merge(x, zs[i]) \in T[i]
  PROVE  /\ HotZones!MergeAll(known, zs) \in Seq(HotZones!Zones)
         /\ HotZones!MergeAll(known, zs) \in T[Len(zs)]
<1> DEFINE S == Seq(HotZones!Zones)
           n == Len(zs)
           G == [p \in S \X (1 .. n) |-> HotZones!Merge(p[1], zs[p[2]])]
           Through(f) == f = [i \in 0 .. n |-> IF i = 0 THEN known
                                               ELSE HotZones!Merge(f[i - 1], zs[i])]
           f == CHOOSE f : Through(f)
<1>1. n \in Nat /\ \A i \in 1 .. n : zs[i] \in HotZones!Zones
  OBVIOUS
<1>2. \A x \in S, i \in 1 .. n : HotZones!Merge(x, zs[i]) \in S
  BY <1>1, MergeType
<1> HIDE DEF S, n
<1>3. /\ G \in [S \X (1 .. n) -> S]
      /\ \A x \in S, i \in 1 .. n : G[<<x, i>>] = HotZones!Merge(x, zs[i])
  BY <1>2
<1> HIDE DEF G
<1>4. PICK g : StepByStep(g, S, known, n, G)
  BY <1>1, <1>3, StepsExist DEF S
<1>5. /\ g \in [0 .. n -> S] /\ g[0] = known
      /\ \A i \in 1 .. n : g[i] = G[<<g[i - 1], i>>]
  BY <1>4 DEF StepByStep
<1>6. \A i \in 1 .. n : g[i - 1] \in S /\ g[i] = HotZones!Merge(g[i - 1], zs[i])
  <2> TAKE i \in 1 .. n
  <2>1. i - 1 \in 0 .. n
    BY <1>1
  <2> QED
    BY <1>3, <1>5, <2>1
<1>7. Through(g)
  <2> DEFINE h == [i \in 0 .. n |-> IF i = 0 THEN known
                                    ELSE HotZones!Merge(g[i - 1], zs[i])]
  <2>1. \A i \in 0 .. n : g[i] = h[i]
    <3> TAKE i \in 0 .. n
    <3>1. i = 0 \/ i \in 1 .. n
      BY <1>1
    <3> QED
      BY <1>1, <1>5, <1>6, <3>1
  <2>2. g = h
    BY <1>5, <2>1
  <2> QED
    BY <2>2
<1>8. Through(f)
  <2> HIDE DEF Through
  <2> QED
    BY <1>7
<1>9. HotZones!MergeAll(known, zs) = f[n]
  BY DEF HotZones!MergeAll, n
<1> HIDE DEF f
<1>10. f[0] = known /\ \A i \in 1 .. n : f[i] = HotZones!Merge(f[i - 1], zs[i])
  <2>1. 0 \in 0 .. n
    BY <1>1
  <2>2. \A i \in 1 .. n : i \in 0 .. n /\ i # 0
    BY <1>1
  <2> QED
    BY <1>8, <2>1, <2>2
<1> DEFINE P == {m \in Nat : m <= n => f[m] \in S /\ f[m] \in T[m]}
<1>11. 0 \in P
  BY <1>10 DEF S
<1>12. ASSUME NEW m \in Nat, m \in P PROVE m + 1 \in P
  <2> SUFFICES ASSUME m + 1 <= n PROVE f[m + 1] \in S /\ f[m + 1] \in T[m + 1]
    OBVIOUS
  <2>1. /\ f[m] \in S /\ f[m] \in T[m] /\ m + 1 \in 1 .. n /\ (m + 1) - 1 = m
    BY <1>1, <1>12
  <2>2. f[m + 1] = HotZones!Merge(f[m], zs[m + 1])
    BY <1>10, <2>1
  <2>3. HotZones!Merge(f[m], zs[m + 1]) \in T[m + 1]
    BY <2>1 DEF S, n
  <2> QED
    BY <1>2, <2>1, <2>2, <2>3
<1> HIDE DEF P
<1>13. n \in P
  BY <1>1, <1>11, <1>12, Induction
<1>14. f[n] \in S /\ f[n] \in T[n]
  BY <1>1, <1>13 DEF P
<1> QED
  BY <1>9, <1>14 DEF S, n

-----------------------------------------------------------------------------
\* The same for the slow chunks of a fetch.
LEMMA AnalyzedThrough ==
  ASSUME NEW known \in Seq(HotZones!Zones), NEW cs \in Seq(SlowChunks),
         NEW T, known \in T[0],
         \A i \in 1 .. Len(cs) : \A x \in Seq(HotZones!Zones) :
            x \in T[i - 1] => HotZones!Analyze(x, cs[i]) \in T[i]
  PROVE  /\ HotZones!AnalyzeAll(known, cs) \in Seq(HotZones!Zones)
         /\ HotZones!AnalyzeAll(known, cs) \in T[Len(cs)]
<1> DEFINE S == Seq(HotZones!Zones)
           n == Len(cs)
           G == [p \in S \X (1 .. n) |-> HotZones!Analyze(p[1], cs[p[2]])]
           Through(f) == f = [i \in 0 .. n |-> IF i = 0 THEN known
                                               ELSE HotZones!Analyze(f[i - 1], cs[i])]
           f == CHOOSE f : Through(f)
<1>1. n \in Nat /\ \A i \in 1 .. n : cs[i] \in SlowChunks
  OBVIOUS
<1>2. \A x \in S, i \in 1 .. n : HotZones!Analyze(x, cs[i]) \in S
  BY <1>1, AnalyzeType
<1> HIDE DEF S, n
<1>3. /\ G \in [S \X (1 .. n) -> S]
      /\ \A x \in S, i \in 1 .. n : G[<<x, i>>] = HotZones!Analyze(x, cs[i])
  BY <1>2
<1> HIDE DEF G
<1>4. PICK g : StepByStep(g, S, known, n, G)
  BY <1>1, <1>3, StepsExist DEF S
<1>5. /\ g \in [0 .. n -> S] /\ g[0] = known
      /\ \A i \in 1 .. n : g[i] = G[<<g[i - 1], i>>]
  BY <1>4 DEF StepByStep
<1>6. \A i \in 1 .. n : g[i - 1] \in S /\ g[i] = HotZones!Analyze(g[i - 1], cs[i])
  <2> TAKE i \in 1 .. n
  <2>1. i - 1 \in 0 .. n
    BY <1>1
  <2> QED
    BY <1>3, <1>5, <2>1
<1>7. Through(g)
  <2> DEFINE h == [i \in 0 .. n |-> IF i = 0 THEN known
                                    ELSE HotZones!Analyze(g[i - 1], cs[i])]
  <2>1. \A i \in 0 .. n : g[i] = h[i]
    <3> TAKE i \in 0 .. n
    <3>1. i = 0 \/ i \in 1 .. n
      BY <1>1
    <3> QED
      BY <1>1, <1>5, <1>6, <3>1
  <2>2. g = h
    BY <1>5, <2>1
  <2> QED
    BY <2>2
<1>8. Through(f)
  <2> HIDE DEF Through
  <2> QED
    BY <1>7
<1>9. HotZones!AnalyzeAll(known, cs) = f[n]
  BY DEF HotZones!AnalyzeAll, n
<1> HIDE DEF f
<1>10. f[0] = known /\ \A i \in 1 .. n : f[i] = HotZones!Analyze(f[i - 1], cs[i])
  <2>1. 0 \in 0 .. n
    BY <1>1
  <2>2. \A i \in 1 .. n : i \in 0 .. n /\ i # 0
    BY <1>1
  <2> QED
    BY <1>8, <2>1, <2>2
<1> DEFINE P == {m \in Nat : m <= n => f[m] \in S /\ f[m] \in T[m]}
<1>11. 0 \in P
  BY <1>10 DEF S
<1>12. ASSUME NEW m \in Nat, m \in P PROVE m + 1 \in P
  <2> SUFFICES ASSUME m + 1 <= n PROVE f[m + 1] \in S /\ f[m + 1] \in T[m + 1]
    OBVIOUS
  <2>1. /\ f[m] \in S /\ f[m] \in T[m] /\ m + 1 \in 1 .. n /\ (m + 1) - 1 = m
    BY <1>1, <1>12
  <2>2. f[m + 1] = HotZones!Analyze(f[m], cs[m + 1])
    BY <1>10, <2>1
  <2>3. HotZones!Analyze(f[m], cs[m + 1]) \in T[m + 1]
    BY <2>1 DEF S, n
  <2> QED
    BY <1>2, <2>1, <2>2, <2>3
<1> HIDE DEF P
<1>13. n \in P
  BY <1>1, <1>11, <1>12, Induction
<1>14. f[n] \in S /\ f[n] \in T[n]
  BY <1>1, <1>13 DEF P
<1> QED
  BY <1>9, <1>14 DEF S, n

-----------------------------------------------------------------------------
\* The zones of a manager are zones.
LEMMA LoadedType ==
  ASSUME NEW f, f.zones \in Seq(HotZones!Zones), NEW hot
  PROVE  HotZones!Loaded(f, hot) \in Seq(HotZones!Zones)
<1> DEFINE base == IF hot THEN Defaults ELSE <<>>
           T == [i \in 0 .. Len(f.zones) |-> Seq(HotZones!Zones)]
<1>1. base \in Seq(HotZones!Zones)
  BY ZoneConstants
<1>2. /\ Len(f.zones) \in Nat /\ \A i \in 1 .. Len(f.zones) : f.zones[i] \in HotZones!Zones
      /\ 0 \in 0 .. Len(f.zones)
  OBVIOUS
<1>3. base \in T[0]
  BY <1>1, <1>2
<1>4. \A i \in 1 .. Len(f.zones) : T[i] = Seq(HotZones!Zones)
  BY <1>2
<1> HIDE DEF T, base
<1>5. \A i \in 1 .. Len(f.zones) : \A x \in Seq(HotZones!Zones) :
        x \in T[i - 1] => HotZones!Merge(x, f.zones[i]) \in T[i]
  BY <1>2, <1>4, MergeType
<1>6. HotZones!MergeAll(base, f.zones) \in Seq(HotZones!Zones)
  BY <1>1, <1>3, <1>5, MergedThrough
<1> QED
  BY <1>6 DEF HotZones!Loaded, base

\* So are those with what the slow chunks of a fetch add.
LEMMA AnalyzedType ==
  ASSUME NEW known \in Seq(HotZones!Zones), NEW cs \in Seq(SlowChunks)
  PROVE  HotZones!AnalyzeAll(known, cs) \in Seq(HotZones!Zones)
<1> DEFINE T == [i \in 0 .. Len(cs) |-> Seq(HotZones!Zones)]
<1>1. /\ Len(cs) \in Nat /\ \A i \in 1 .. Len(cs) : cs[i] \in SlowChunks
      /\ 0 \in 0 .. Len(cs)
  OBVIOUS
<1>2. known \in T[0]
  BY <1>1
<1>3. \A i \in 1 .. Len(cs) : T[i] = Seq(HotZones!Zones)
  BY <1>1
<1> HIDE DEF T
<1>4. \A i \in 1 .. Len(cs) : \A x \in Seq(HotZones!Zones) :
        x \in T[i - 1] => HotZones!Analyze(x, cs[i]) \in T[i]
  BY <1>1, <1>3, AnalyzeType
<1> QED
  BY <1>2, <1>4, AnalyzedThrough

-----------------------------------------------------------------------------
\* Where the answer of the zones is taken for none, the density must not ask for a
\* larger chunk than any zone allows.
AnswerIsKept ==
  ShardChunkSize \in HotZones!ZoneSizes =>
    \A s \in HotZones!ZoneSizes, k \in 1 .. 4 : s > ShardChunkSize => DensitySizes[k] <= s

\* The state of a fetch with hot zones; a chunk is a range of ids.
ZonesInv ==
  /\ file.zones \in Seq(HotZones!Zones) /\ zones \in Seq(HotZones!Zones)
  /\ datacenter \in Datacenters
  /\ planned_id \in Nat /\ max_id \in Nat
  /\ \A c \in chunks : c.from \in Nat /\ c.to \in Nat /\ c.from <= c.to
  /\ slow \in Seq(SlowChunks)
  /\ AnswerIsKept => HotIsSplit

\* In the beginning there are no chunks.
LEMMA ZonesInit == ASSUME FetchingInit PROVE ZonesInv
<1>1. /\ file = HotZones!Missing /\ zones = <<>> /\ datacenter \in Datacenters
      /\ planned_id = 0 /\ max_id = 0 /\ chunks = {} /\ slow = <<>>
  BY DEF FetchingInit, HotZones!Init
<1>2. file.zones = <<>>
  BY <1>1 DEF HotZones!Missing
<1> QED
  BY <1>1, <1>2 DEF ZonesInv, HotIsSplit, HotZones!HotIsSplit

\* However a save ends, the file has zones.
LEMMA SaveKeeps ==
  ASSUME ZonesInv, NEW zs \in Seq(HotZones!Zones), NEW n, HotZones!Save(zs, n)
  PROVE  file'.zones \in Seq(HotZones!Zones)
<1>1. \/ \E h : file' = [state |-> "good", zones |-> zs, history |-> h]
      \/ file' = file
      \/ file' = HotZones!Broken
  BY DEF HotZones!Save
<1>2. <<>> \in Seq(HotZones!Zones) /\ HotZones!Broken.zones = <<>>
  BY DEF HotZones!Broken
<1>3. CASE \E h : file' = [state |-> "good", zones |-> zs, history |-> h]
  BY <1>3
<1>4. CASE file' = file
  BY <1>4 DEF ZonesInv
<1>5. CASE file' = HotZones!Broken
  BY <1>2, <1>5
<1> QED
  BY <1>1, <1>3, <1>4, <1>5

-----------------------------------------------------------------------------
\* The answer is as small as each zone in the range asks for.
LEMMA SizeFacts ==
  ASSUME ZonesInv, NEW from \in Nat, NEW to \in Nat
  PROVE  /\ HotZones!OptimalChunkSize(from, to) \in Nat
         /\ enabled => \A z \in HotZones!ZonesFor(zones, from, to, datacenter) :
              /\ HotZones!OptimalChunkSize(from, to) <= z.size
              /\ HotZones!OptimalChunkSize(from, to) \in HotZones!ZoneSizes
<1> DEFINE hit == HotZones!ZonesFor(zones, from, to, datacenter)
           T == {z.size : z \in hit}
<1>1. hit \subseteq HotZones!Zones
  BY DEF HotZones!ZonesFor, HotZones!ToSet, ZonesInv
<1> HIDE DEF hit
<1>2. T \in SUBSET Nat /\ T \subseteq HotZones!ZoneSizes
  BY <1>1, ZoneFacts
<1>3. CASE ~enabled \/ hit = {}
  BY <1>3, ZoneConstants DEF HotZones!OptimalChunkSize, hit
<1>4. CASE enabled /\ hit # {}
  <2> DEFINE m == CHOOSE s \in T : \A z \in hit : s <= z.size
  <2>1. T # {}
    BY <1>4
  <2> HIDE DEF T
  <2>2. PICK s \in T : \A t \in T : s <= t
    BY <1>2, <2>1, Least
  <2>3. \A z \in hit : z.size \in T
    BY DEF T
  <2>4. m \in T /\ \A z \in hit : m <= z.size
    BY <2>2, <2>3
  <2>5. HotZones!OptimalChunkSize(from, to) = m
    BY <1>4 DEF HotZones!OptimalChunkSize, hit, T
  <2> HIDE DEF m
  <2> QED
    BY <1>2, <2>4, <2>5 DEF hit
<1> QED
  BY <1>3, <1>4

\* The density answers with one of its four sizes.
LEMMA DensityFacts ==
  HotZones!DensitySize \in Nat /\ \E k \in 1 .. 4 : HotZones!DensitySize = DensitySizes[k]
<1>1. HotZones!DensitySize \in {DensitySizes[1], DensitySizes[2], DensitySizes[3],
                                DensitySizes[4]}
  BY SMTT(60) DEF HotZones!DensitySize
<1>2. 1 \in 1 .. 4 /\ 2 \in 1 .. 4 /\ 3 \in 1 .. 4 /\ 4 \in 1 .. 4
  OBVIOUS
<1>3. \A k \in 1 .. 4 : DensitySizes[k] \in Nat
  BY ZoneConstants
<1> QED
  BY <1>1, <1>2, <1>3

\* A zone that a part of a range touches is touched by the range.
LEMMA PartTouches ==
  ASSUME NEW zs \in Seq(HotZones!Zones), NEW dc, NEW from \in Nat, NEW to \in Nat,
         NEW a \in Nat, NEW b \in Nat, from <= a, b <= to
  PROVE  HotZones!ZonesFor(zs, a, b, dc) \subseteq HotZones!ZonesFor(zs, from, to, dc)
<1> SUFFICES ASSUME NEW z \in HotZones!ZonesFor(zs, a, b, dc)
             PROVE  z \in HotZones!ZonesFor(zs, from, to, dc)
  OBVIOUS
<1>1. z \in HotZones!ToSet(zs) /\ z.dc = dc /\ ~(b < z.start \/ a > z.end)
  BY DEF HotZones!ZonesFor, HotZones!Overlaps
<1>2. z.start \in Nat /\ z.end \in Nat
  BY <1>1, ZoneFacts DEF HotZones!ToSet
<1>3. ~(to < z.start \/ from > z.end)
  BY <1>1, <1>2
<1> QED
  BY <1>1, <1>3 DEF HotZones!ZonesFor, HotZones!Overlaps

\* A planned chunk is as small as each zone it touches asks for.
LEMMA PlanZonesStep ==
  ASSUME ZonesInv, HotZones!PlanChunk PROVE ZonesInv'
<1> DEFINE hot  == HotZones!OptimalChunkSize(planned_id, max_id)
           size == IF hot = ShardChunkSize THEN HotZones!DensitySize ELSE hot
           end  == IF planned_id + size < max_id THEN planned_id + size ELSE max_id
           d    == [from |-> planned_id, to |-> end, left |-> MaxRetries]
<1>1. /\ planned_id < max_id /\ chunks' = chunks \cup {d} /\ planned_id' = end
      /\ UNCHANGED <<file, enabled, datacenter, zones, max_id, slow>>
  BY DEF HotZones!PlanChunk
<1>2. /\ hot \in Nat
      /\ enabled => \A z \in HotZones!ZonesFor(zones, planned_id, max_id, datacenter) :
           hot <= z.size /\ hot \in HotZones!ZoneSizes
  BY SizeFacts DEF ZonesInv
<1>3. planned_id \in Nat /\ max_id \in Nat /\ zones \in Seq(HotZones!Zones)
  BY DEF ZonesInv
<1> HIDE DEF hot
<1>4. size \in Nat
  BY <1>2, DensityFacts
<1>5. end \in Nat /\ planned_id <= end /\ end <= max_id /\ end - planned_id <= size
  <2> HIDE DEF size
  <2> QED
    BY <1>1, <1>3, <1>4
<1>6. ASSUME AnswerIsKept, enabled, NEW z \in HotZones!ZonesFor(zones, d.from, d.to, datacenter),
             z.size # ShardChunkSize
      PROVE  d.to - d.from <= z.size
  <2>1. z \in HotZones!ZonesFor(zones, planned_id, max_id, datacenter)
    <3>1. d.from = planned_id /\ d.to = end
      OBVIOUS
    <3> HIDE DEF d, end
    <3> QED
      BY <1>3, <1>5, <1>6, <3>1, PartTouches
  <2>2. z.size \in Nat /\ z.size \in HotZones!ZoneSizes
    BY <1>3, <2>1, ZoneFacts DEF HotZones!ZonesFor, HotZones!ToSet
  <2>3. hot <= z.size
    BY <1>2, <1>6, <2>1
  <2>4. size <= z.size
    <3>1. CASE hot # ShardChunkSize
      BY <2>3, <3>1
    <3>2. CASE hot = ShardChunkSize
      <4>1. z.size > ShardChunkSize
        BY <1>6, <2>2, <2>3, <3>2, ZoneConstants
      <4>2. ShardChunkSize \in HotZones!ZoneSizes
        BY <1>2, <1>6, <2>1, <3>2
      <4>3. PICK k \in 1 .. 4 : HotZones!DensitySize = DensitySizes[k]
        BY DensityFacts
      <4>4. DensitySizes[k] <= z.size
        BY <1>6, <2>2, <4>1, <4>2 DEF AnswerIsKept
      <4> QED
        BY <3>2, <4>3, <4>4
    <3> QED
      BY <3>1, <3>2
  <2> QED
    <3> HIDE DEF size, end
    <3> QED
      BY <1>3, <1>4, <1>5, <2>2, <2>4
<1>7. d.from = planned_id /\ d.to = end /\ d.from \in Nat /\ d.to \in Nat /\ d.from <= d.to
  BY <1>3, <1>5
<1> HIDE DEF d, end
<1>8. \A c \in chunks' : c.from \in Nat /\ c.to \in Nat /\ c.from <= c.to
  BY <1>1, <1>7 DEF ZonesInv
<1>9. AnswerIsKept => HotIsSplit'
  <2> SUFFICES ASSUME AnswerIsKept, enabled, NEW c \in chunks',
                      NEW z \in HotZones!ZonesFor(zones, c.from, c.to, datacenter),
                      z.size # ShardChunkSize
               PROVE  c.to - c.from <= z.size
    BY <1>1 DEF HotIsSplit, HotZones!HotIsSplit
  <2>2. CASE c = d
    BY <1>6, <2>2
  <2>3. CASE c \in chunks
    BY <2>3 DEF ZonesInv, HotIsSplit, HotZones!HotIsSplit
  <2> QED
    BY <1>1, <2>2, <2>3
<1> QED
  BY <1>1, <1>3, <1>5, <1>8, <1>9 DEF ZonesInv

-----------------------------------------------------------------------------
\* A chunk inside another one.
PartOf(c, d) ==
  /\ c.from \in Nat /\ c.to \in Nat /\ c.from <= c.to
  /\ d.from <= c.from /\ c.to <= d.to

\* The planner knows the same zones, and no chunk is larger than it was.
LEMMA SmallerChunks ==
  ASSUME ZonesInv, UNCHANGED <<enabled, datacenter, zones, planned_id, max_id>>,
         file'.zones \in Seq(HotZones!Zones), slow' \in Seq(SlowChunks),
         \A c \in chunks' : \E d \in chunks : PartOf(c, d)
  PROVE  ZonesInv'
<1>1. \A c \in chunks' : c.from \in Nat /\ c.to \in Nat /\ c.from <= c.to
  BY DEF PartOf
<1>2. AnswerIsKept => HotIsSplit'
  <2> SUFFICES ASSUME AnswerIsKept, enabled, NEW c \in chunks',
                      NEW z \in HotZones!ZonesFor(zones, c.from, c.to, datacenter),
                      z.size # ShardChunkSize
               PROVE  c.to - c.from <= z.size
    BY DEF HotIsSplit, HotZones!HotIsSplit
  <2>1. PICK d \in chunks : PartOf(c, d)
    OBVIOUS
  <2>2. /\ c.from \in Nat /\ c.to \in Nat /\ d.from \in Nat /\ d.to \in Nat
        /\ d.from <= c.from /\ c.to <= d.to /\ zones \in Seq(HotZones!Zones)
    BY <2>1 DEF PartOf, ZonesInv
  <2>3. z \in HotZones!ZonesFor(zones, d.from, d.to, datacenter)
    BY <2>2, PartTouches
  <2>4. d.to - d.from <= z.size
    BY <2>3 DEF ZonesInv, HotIsSplit, HotZones!HotIsSplit
  <2>5. z.size \in Nat
    BY <2>2, ZoneFacts DEF HotZones!ZonesFor, HotZones!ToSet
  <2> QED
    BY <2>2, <2>4, <2>5
<1> QED
  BY <1>1, <1>2 DEF ZonesInv

\* A slow chunk is noted with the place the chat lives at.
LEMMA NoteKeeps ==
  ASSUME ZonesInv, NEW c \in chunks, NEW d \in Durations, NEW n \in Nat,
         HotZones!Note(c, d, n)
  PROVE  slow' \in Seq(SlowChunks)
<1>1. [from |-> c.from, to |-> c.to, dc |-> datacenter, duration |-> d, messages |-> n]
        \in SlowChunks
  BY DEF SlowChunks, ZonesInv
<1> QED
  BY <1>1 DEF HotZones!Note, ZonesInv

\* The parts of a chunk lie inside it.
LEMMA PartsFacts ==
  ASSUME NEW d, d.from \in Nat, d.to \in Nat, d.from <= d.to,
         NEW c \in HotZones!Parts(d)
  PROVE  PartOf(c, d)
<1> DEFINE size == (d.to - d.from) \div 4
<1>1. PICK k \in 0 .. 3 : c = [from |-> d.from + k * size,
                               to |-> IF k < 3 THEN d.from + (k + 1) * size ELSE d.to,
                               left |-> d.left - 1]
  BY DEF HotZones!Parts
<1>2. size \in Nat /\ 4 * size <= d.to - d.from
  OBVIOUS
<1>3. c.from = d.from + k * size /\ c.to = IF k < 3 THEN d.from + (k + 1) * size ELSE d.to
  BY <1>1
<1> HIDE DEF size
<1>4. CASE k = 0
  BY <1>2, <1>3, <1>4 DEF PartOf
<1>5. CASE k = 1
  BY <1>2, <1>3, <1>5 DEF PartOf
<1>6. CASE k = 2
  BY <1>2, <1>3, <1>6 DEF PartOf
<1>7. CASE k = 3
  BY <1>2, <1>3, <1>7 DEF PartOf
<1> QED
  BY <1>4, <1>5, <1>6, <1>7

\* A slow chunk is split into smaller ones or is streamed.
LEMMA SlowStep ==
  ASSUME ZonesInv, NEW c \in chunks, NEW d \in Durations, NEW n \in Nat,
         HotZones!SplitChunk(c, d, n) \/ HotZones!SlowChunk(c, d, n)
  PROVE  ZonesInv'
<1>1. \A x \in chunks : x.from \in Nat /\ x.to \in Nat /\ x.from <= x.to
  BY DEF ZonesInv
<1>2. \A x \in chunks : PartOf(x, x)
  BY <1>1 DEF PartOf
<1>3. slow' \in Seq(SlowChunks) /\ UNCHANGED <<enabled, datacenter, zones, planned_id, max_id>>
  BY NoteKeeps DEF HotZones!SplitChunk, HotZones!SlowChunk, HotZones!planVars
<1>4. \A x \in chunks' : \E y \in chunks : PartOf(x, y)
  <2>1. chunks' \subseteq chunks \cup HotZones!Parts(c)
    BY DEF HotZones!SplitChunk, HotZones!SlowChunk
  <2>2. \A x \in HotZones!Parts(c) : PartOf(x, c)
    BY <1>1, PartsFacts
  <2> QED
    BY <1>2, <2>1, <2>2
<1>5. file'.zones \in Seq(HotZones!Zones)
  <2>1. HotZones!Loaded(file, enabled) \in Seq(HotZones!Zones)
    BY LoadedType DEF ZonesInv
  <2>2. CASE UNCHANGED file
    BY <2>2 DEF ZonesInv
  <2>3. CASE HotZones!Save(HotZones!Loaded(file, enabled), file.history + 1)
    BY <2>1, <2>3, SaveKeeps
  <2> QED
    BY <2>2, <2>3 DEF HotZones!SplitChunk, HotZones!SlowChunk
<1> QED
  BY <1>3, <1>4, <1>5, SmallerChunks

\* A fetch that is over leaves no chunk.
LEMMA OverKeeps ==
  ASSUME ZonesInv, HotZones!Over, file'.zones \in Seq(HotZones!Zones) PROVE ZonesInv'
  BY DEF HotZones!Over, ZonesInv, HotIsSplit, HotZones!HotIsSplit

\* A fetch starts with the zones of the file and without chunks.
LEMMA StartFetchStep ==
  ASSUME ZonesInv, NEW dc \in Datacenters, NEW range \in Ranges, NEW hot \in BOOLEAN,
         NEW estimate \in BOOLEAN, HotZones!StartFetch(dc, range, hot, estimate)
  PROVE  ZonesInv'
<1>1. /\ file' = file /\ datacenter' = dc /\ zones' = HotZones!Loaded(file, hot)
      /\ planned_id' = range[1] /\ max_id' = range[2] /\ chunks' = {} /\ slow' = <<>>
  BY DEF HotZones!StartFetch
<1>2. range[1] \in Nat /\ range[2] \in Nat
  BY ZoneConstants
<1>3. HotZones!Loaded(file, hot) \in Seq(HotZones!Zones)
  BY LoadedType DEF ZonesInv
<1>4. HotIsSplit'
  BY <1>1 DEF HotIsSplit, HotZones!HotIsSplit
<1> QED
  BY <1>1, <1>2, <1>3, <1>4 DEF ZonesInv

\* A step that changes none of these.
LEMMA ZonesStand ==
  ASSUME ZonesInv, UNCHANGED <<file, enabled, datacenter, zones, planned_id, max_id,
                               chunks, slow>>
  PROVE  ZonesInv'
  BY DEF ZonesInv, HotIsSplit, HotZones!HotIsSplit, HotZones!ZonesFor

\* Each step of a fetch with hot zones keeps the invariant.
LEMMA ZonesNext == ASSUME ZonesInv, HotZones!Next PROVE ZonesInv'
<1>1. ASSUME NEW dc \in Datacenters, NEW range \in Ranges, NEW hot \in BOOLEAN,
             NEW estimate \in BOOLEAN, HotZones!StartFetch(dc, range, hot, estimate)
      PROVE  ZonesInv'
  BY <1>1, StartFetchStep
<1>2. CASE HotZones!TakeSample
  BY <1>2, ZonesStand DEF HotZones!TakeSample
<1>3. CASE HotZones!PlanChunk
  BY <1>3, PlanZonesStep
<1>4. CASE HotZones!StartWorkers
  BY <1>4, ZonesStand DEF HotZones!StartWorkers, HotZones!planVars
<1>5. ASSUME NEW c \in chunks, NEW d \in Durations, NEW n \in {0, c.to - c.from},
             HotZones!SplitChunk(c, d, n) \/ HotZones!SlowChunk(c, d, n)
      PROVE  ZonesInv'
  <2>1. n \in Nat
    BY DEF ZonesInv
  <2> QED
    BY <1>5, <2>1, SlowStep
<1>6. CASE HotZones!Learn
  <2>1. file'.zones \in Seq(HotZones!Zones)
    <3>1. HotZones!AnalyzeAll(HotZones!Loaded(file, enabled), slow) \in Seq(HotZones!Zones)
      BY LoadedType, AnalyzedType DEF ZonesInv
    <3>2. CASE UNCHANGED file
      BY <3>2 DEF ZonesInv
    <3>3. CASE HotZones!Save(HotZones!AnalyzeAll(HotZones!Loaded(file, enabled), slow),
                             file.history)
      BY <3>1, <3>3, SaveKeeps
    <3> QED
      BY <1>6, <3>2, <3>3 DEF HotZones!Learn
  <2> QED
    BY <1>6, <2>1, OverKeeps DEF HotZones!Learn
<1>7. CASE HotZones!Leave
  BY <1>7, OverKeeps DEF HotZones!Leave, ZonesInv
<1>8. CASE HotZones!Done
  BY <1>8, ZonesStand DEF HotZones!Done, HotZones!vars, HotZones!planVars
<1> QED
  BY <1>1, <1>2, <1>3, <1>4, <1>5, <1>6, <1>7, <1>8 DEF HotZones!Next

(* Every chunk that is planned or split inside a hot zone of its           *)
(* datacenter is as small as the zone asks for (get_optimal_chunk_size and *)
(* its caller), for all zones in the file, all ranges and all densities;   *)
(* for constants that keep the answer of the zones.                        *)
THEOREM HotIsSplitAlways ==
  ASSUME AnswerIsKept PROVE FetchingSpec => []HotIsSplit
<1>1. FetchingInit => ZonesInv
  BY ZonesInit
<1>2. ZonesInv /\ [FetchingNext]_<<which, vars, prefetchVars, shardedVars, zoneVars>>
        => ZonesInv'
  <2> SUFFICES ASSUME ZonesInv,
                      [FetchingNext]_<<which, vars, prefetchVars, shardedVars, zoneVars>>
               PROVE  ZonesInv'
    OBVIOUS
  <2>1. CASE OfZones(HotZones!Next)
    BY <2>1, ZonesNext DEF OfZones
  <2>2. CASE UNCHANGED zoneVars
    BY <2>2, ZonesStand DEF zoneVars
  <2> QED
    BY <2>1, <2>2 DEF FetchingNext, OfStream, OfPrefetch, OfSharded
<1>3. ZonesInv => HotIsSplit
  BY DEF ZonesInv
<1> QED
  BY <1>1, <1>2, <1>3, PTL DEF FetchingSpec

-----------------------------------------------------------------------------
(* What was learned stays while hot zones are on                           *)

\* Zones of one datacenter that have an id in common.
Touch(y, z) == y.dc = z.dc /\ HotZones!Overlaps(y, z.start, z.end)

\* What a manager with hot zones has: for each built-in zone one that starts with
\* it, then what was learned, which touches nothing.
Grown(x) ==
  /\ x \in Seq(HotZones!Zones)
  /\ \A k \in DOMAIN x : x[k].start <= x[k].end
  /\ Len(Defaults) <= Len(x)
  /\ \A k \in DOMAIN Defaults : x[k].start = Defaults[k].start
  /\ \A j, k \in DOMAIN x : k > Len(Defaults) /\ j # k => ~Touch(x[j], x[k])

\* To touch is mutual.
LEMMA TouchBoth ==
  ASSUME NEW y \in HotZones!Zones, NEW z \in HotZones!Zones
  PROVE  /\ Touch(y, z) <=> Touch(z, y)
         /\ y.start <= y.end => Touch(y, y)
<1>1. y.start \in Nat /\ y.end \in Nat /\ z.start \in Nat /\ z.end \in Nat
  BY ZoneFacts
<1> QED
  BY <1>1 DEF Touch, HotZones!Overlaps

\* The built-in zones are such zones.
LEMMA DefaultsGrown == Grown(Defaults)
<1>1. /\ Defaults \in Seq(HotZones!Zones)
      /\ \A k \in DOMAIN Defaults : Defaults[k].start <= Defaults[k].end
  BY FetchingAssumption DEF HotZones!HotZonesAssumption
<1>2. Len(Defaults) \in Nat /\ DOMAIN Defaults = 1 .. Len(Defaults)
  BY <1>1
<1> QED
  BY <1>1, <1>2 DEF Grown

\* The three things a merge can do.
LEMMA MergeCases ==
  ASSUME NEW x \in Seq(HotZones!Zones), NEW z
  PROVE  LET over(k) == HotZones!Overlaps(x[k], z.start, z.end)
         IN \/ /\ \A k \in DOMAIN x : ~over(k)
               /\ HotZones!Merge(x, z) = Append(x, z)
            \/ \E k \in DOMAIN x : /\ over(k) /\ x[k].start = z.start
                                   /\ HotZones!Merge(x, z) = [x EXCEPT ![k] = z]
            \/ /\ \E k \in DOMAIN x : over(k)
               /\ \A k \in DOMAIN x : over(k) => x[k].start # z.start
               /\ HotZones!Merge(x, z) = x
<1> DEFINE over == {k \in DOMAIN x : HotZones!Overlaps(x[k], z.start, z.end)}
           same == {k \in over : x[k].start = z.start}
           first == CHOOSE k \in same : \A j \in same : k <= j
<1>1. CASE over = {}
  <2>1. HotZones!Merge(x, z) = Append(x, z)
    BY <1>1, Zenon DEF HotZones!Merge
  <2> QED
    BY <1>1, <2>1
<1>2. CASE same # {}
  <2>1. over # {}
    BY <1>2
  <2>2. HotZones!Merge(x, z) = [x EXCEPT ![first] = z]
    BY <1>2, <2>1, Zenon DEF HotZones!Merge
  <2>3. same \in SUBSET Nat
    OBVIOUS
  <2>4. \E k \in same : \A j \in same : k <= j
    <3> HIDE DEF same
    <3> QED
      BY <1>2, <2>3, Least
  <2>5. first \in same
    <3> HIDE DEF same
    <3> QED
      BY <2>4
  <2> HIDE DEF first
  <2> QED
    BY <2>2, <2>5
<1>3. CASE over # {} /\ same = {}
  <2>1. HotZones!Merge(x, z) = x
    BY <1>3, Zenon DEF HotZones!Merge
  <2> QED
    BY <1>3, <2>1
<1> QED
  BY <1>1, <1>2, <1>3, Zenon

-----------------------------------------------------------------------------
\* No zone of another datacenter in F lies where z does.
Uncrossed(z, F) ==
  \A y \in ToSet(F) : y.dc # z.dc => ~HotZones!Overlaps(y, z.start, z.end)

\* The built-in zones, of which the first i are those of F.
Replaced(x, F, i) ==
  /\ x \in Seq(HotZones!Zones) /\ Len(x) = Len(Defaults)
  /\ \A k \in DOMAIN Defaults : x[k] = IF k <= i THEN F[k] ELSE Defaults[k]

\* After i zones of F, more than the built-in ones: nothing but zones of F, and each
\* of them no other datacenter crosses.
Merged(x, F, i) ==
  /\ Grown(x)
  /\ \A k \in DOMAIN x : \E p \in 1 .. i : x[k] = F[p]
  /\ \A p \in 1 .. i : Uncrossed(F[p], F) => F[p] \in ToSet(x)

\* A zone of F that starts with a built-in one takes its place.
LEMMA ReplaceStep ==
  ASSUME NEW F, Grown(F), NEW i \in 1 .. Len(Defaults), NEW x, Replaced(x, F, i - 1)
  PROVE  Replaced(HotZones!Merge(x, F[i]), F, i)
<1> DEFINE z == F[i]
<1>1. /\ Defaults \in Seq(HotZones!Zones) /\ F \in Seq(HotZones!Zones)
      /\ x \in Seq(HotZones!Zones)
      /\ Len(x) = Len(Defaults) /\ Len(Defaults) \in Nat /\ Len(F) \in Nat
      /\ Len(Defaults) <= Len(F)
  BY DefaultsGrown DEF Grown, Replaced
<1>2. i \in DOMAIN Defaults /\ i \in DOMAIN F /\ i \in DOMAIN x /\ i - 1 \in Int /\ i \in Int
  BY <1>1
<1>3. z \in HotZones!Zones /\ x[i] = Defaults[i] /\ Defaults[i] \in HotZones!Zones
  BY <1>1, <1>2 DEF Replaced
<1>4. /\ z.start = Defaults[i].start /\ z.start <= z.end
      /\ Defaults[i].start <= Defaults[i].end
  BY <1>2, DefaultsGrown DEF Grown
<1>5. HotZones!Overlaps(x[i], z.start, z.end) /\ x[i].start = z.start
  <2>1. z.start \in Nat /\ z.end \in Nat /\ Defaults[i].start \in Nat /\ Defaults[i].end \in Nat
    BY <1>3, ZoneFacts
  <2> HIDE DEF z
  <2> QED
    BY <1>3, <1>4, <2>1 DEF HotZones!Overlaps
<1>6. \A k \in DOMAIN x : x[k].start = z.start => k = i
  <2> SUFFICES ASSUME NEW k \in DOMAIN x, x[k].start = z.start PROVE k = i
    OBVIOUS
  <2>1. k \in DOMAIN Defaults
    BY <1>1
  <2>2. x[k].start = Defaults[k].start
    BY <2>1 DEF Replaced, Grown
  <2> QED
    BY <1>2, <1>4, <2>1, <2>2, FetchingAssumption DEF HotZones!HotZonesAssumption
<1> HIDE DEF z
<1>7. HotZones!Merge(x, z) = [x EXCEPT ![i] = z]
  BY <1>1, <1>2, <1>5, <1>6, MergeCases
<1>8. HotZones!Merge(x, z) \in Seq(HotZones!Zones)
  BY <1>1, <1>3, MergeType
<1> DEFINE y == [x EXCEPT ![i] = z]
<1>9. Len(y) = Len(Defaults)
  BY <1>1
<1>10. \A k \in DOMAIN Defaults : y[k] = IF k <= i THEN F[k] ELSE Defaults[k]
  <2> SUFFICES ASSUME NEW k \in DOMAIN Defaults
               PROVE  y[k] = IF k <= i THEN F[k] ELSE Defaults[k]
    OBVIOUS
  <2>1. k \in DOMAIN x /\ k \in Int
    BY <1>1
  <2>2. x[k] = IF k <= i - 1 THEN F[k] ELSE Defaults[k]
    BY DEF Replaced
  <2>3. CASE k = i
    BY <1>2, <2>1, <2>3 DEF z
  <2>4. CASE k # i
    <3>1. y[k] = x[k]
      BY <2>1, <2>4
    <3> HIDE DEF y
    <3> QED
      BY <1>2, <2>1, <2>2, <2>4, <3>1
  <2> QED
    BY <2>3, <2>4
<1> HIDE DEF y
<1> QED
  BY <1>7, <1>8, <1>9, <1>10 DEF Replaced, y, z

\* After those nothing but zones of F is left.
LEMMA AllReplaced ==
  ASSUME NEW F, Grown(F), NEW x, Replaced(x, F, Len(Defaults))
  PROVE  Merged(x, F, Len(Defaults))
<1>1. /\ Defaults \in Seq(HotZones!Zones) /\ F \in Seq(HotZones!Zones)
      /\ x \in Seq(HotZones!Zones)
      /\ Len(x) = Len(Defaults) /\ Len(Defaults) \in Nat /\ Len(Defaults) <= Len(F)
  BY DefaultsGrown DEF Grown, Replaced
<1>2. \A k \in 1 .. Len(Defaults) :
        k \in DOMAIN x /\ k \in DOMAIN F /\ k \in DOMAIN Defaults /\ x[k] = F[k]
  BY <1>1 DEF Replaced
<1>3. Grown(x)
  BY <1>1, <1>2 DEF Grown
<1>4. \A p \in 1 .. Len(Defaults) : F[p] \in ToSet(x)
  BY <1>2 DEF ToSet
<1> QED
  BY <1>1, <1>2, <1>3, <1>4 DEF Merged

-----------------------------------------------------------------------------
\* A zone that touches none before it, behind the others.
LEMMA GrownAppend ==
  ASSUME NEW x, Grown(x), NEW z \in HotZones!Zones, z.start <= z.end,
         \A k \in DOMAIN x : ~Touch(x[k], z)
  PROVE  Grown(Append(x, z))
<1> DEFINE y == Append(x, z)
           d == Len(Defaults)
<1>1. /\ x \in Seq(HotZones!Zones) /\ Len(x) \in Nat /\ d \in Nat /\ d <= Len(x)
      /\ DOMAIN Defaults = 1 .. d /\ DOMAIN x = 1 .. Len(x)
  BY DefaultsGrown DEF Grown
<1>2. y \in Seq(HotZones!Zones) /\ Len(y) = Len(x) + 1 /\ y[Len(x) + 1] = z
      /\ \A k \in DOMAIN x : y[k] = x[k]
  BY <1>1
<1>3. \A k \in DOMAIN y : k = Len(x) + 1 \/ k \in DOMAIN x
  BY <1>1, <1>2
<1> HIDE DEF y, d
<1>4. \A k \in DOMAIN y : y[k].start <= y[k].end
  BY <1>2, <1>3 DEF Grown
<1>5. \A k \in DOMAIN Defaults : y[k].start = Defaults[k].start
  BY <1>1, <1>2 DEF Grown
<1>6. ASSUME NEW j \in DOMAIN y, NEW k \in DOMAIN y, k > d, j # k
      PROVE  ~Touch(y[j], y[k])
  <2>1. CASE k \in DOMAIN x /\ j \in DOMAIN x
    BY <1>2, <1>6, <2>1 DEF Grown, d
  <2>2. CASE k = Len(x) + 1 /\ j \in DOMAIN x
    BY <1>2, <2>2
  <2>3. CASE k \in DOMAIN x /\ j = Len(x) + 1
    <3>1. x[k] \in HotZones!Zones /\ ~Touch(x[k], z)
      BY <1>1, <2>3
    <3>2. ~Touch(z, x[k])
      BY <3>1, TouchBoth
    <3> QED
      BY <1>2, <2>3, <3>2
  <2> QED
    BY <1>3, <1>6, <2>1, <2>2, <2>3
<1>7. d <= Len(y)
  BY <1>1, <1>2
<1> QED
  BY <1>2, <1>4, <1>5, <1>6, <1>7 DEF Grown, y, d

\* A zone in the place of one that starts with it.
LEMMA GrownReplace ==
  ASSUME NEW x, Grown(x), NEW z \in HotZones!Zones, z.start <= z.end,
         NEW i \in DOMAIN x, x[i].start = z.start,
         \A k \in DOMAIN x : k # i => ~Touch(x[k], z)
  PROVE  Grown([x EXCEPT ![i] = z])
<1> DEFINE y == [x EXCEPT ![i] = z]
           d == Len(Defaults)
<1>1. /\ x \in Seq(HotZones!Zones) /\ Len(x) \in Nat /\ d \in Nat /\ d <= Len(x)
      /\ DOMAIN Defaults = 1 .. d /\ DOMAIN x = 1 .. Len(x)
      /\ x \in [1 .. Len(x) -> HotZones!Zones]
  BY DefaultsGrown DEF Grown
<1>2. /\ y \in [1 .. Len(x) -> HotZones!Zones] /\ DOMAIN y = DOMAIN x /\ y[i] = z
      /\ \A k \in DOMAIN x : k # i => y[k] = x[k]
  BY <1>1
<1> HIDE DEF y
<1>3. y \in Seq(HotZones!Zones)
  BY <1>1, <1>2, SeqDef, Zenon
<1>4. Len(y) = Len(x)
  BY <1>1, <1>2, <1>3
<1> HIDE DEF d
<1>5. \A k \in DOMAIN y : y[k].start <= y[k].end
  BY <1>2 DEF Grown
<1>6. \A k \in DOMAIN Defaults : y[k].start = Defaults[k].start
  <2> SUFFICES ASSUME NEW k \in DOMAIN Defaults PROVE y[k].start = Defaults[k].start
    OBVIOUS
  <2>1. k \in DOMAIN x /\ x[k].start = Defaults[k].start
    BY <1>1 DEF Grown
  <2> QED
    BY <1>2, <2>1
<1>7. ASSUME NEW j \in DOMAIN y, NEW k \in DOMAIN y, k > d, j # k
      PROVE  ~Touch(y[j], y[k])
  <2>1. CASE k # i /\ j # i
    BY <1>2, <1>7, <2>1 DEF Grown, d
  <2>2. CASE k = i
    BY <1>2, <1>7, <2>2
  <2>3. CASE j = i
    <3>1. x[k] \in HotZones!Zones /\ ~Touch(x[k], z)
      BY <1>1, <1>2, <1>7, <2>3
    <3>2. ~Touch(z, x[k])
      BY <3>1, TouchBoth
    <3> QED
      BY <1>2, <1>7, <2>3, <3>2
  <2> QED
    BY <2>1, <2>2, <2>3
<1>8. d <= Len(y)
  BY <1>1, <1>4
<1> QED
  BY <1>3, <1>5, <1>6, <1>7, <1>8 DEF Grown, y, d

-----------------------------------------------------------------------------
\* A learned zone of F meets those before it only across datacenters.
LEMMA LearnedMeets ==
  ASSUME NEW F, Grown(F), NEW i \in DOMAIN F, i > Len(Defaults),
         NEW p \in 1 .. (i - 1)
  PROVE  /\ F[p] \in ToSet(F) /\ F[i] \in ToSet(F) /\ ~Touch(F[p], F[i])
         /\ HotZones!Overlaps(F[p], F[i].start, F[i].end) =>
              ~Uncrossed(F[p], F) /\ ~Uncrossed(F[i], F)
<1>1. /\ F \in Seq(HotZones!Zones) /\ p \in DOMAIN F /\ p # i
      /\ F[p] \in HotZones!Zones /\ F[i] \in HotZones!Zones
  BY DEF Grown
<1>2. F[p] \in ToSet(F) /\ F[i] \in ToSet(F)
  BY <1>1 DEF ToSet
<1>3. ~Touch(F[p], F[i])
  BY <1>1 DEF Grown
<1>4. ASSUME HotZones!Overlaps(F[p], F[i].start, F[i].end)
      PROVE  ~Uncrossed(F[p], F) /\ ~Uncrossed(F[i], F)
  <2>1. F[p].dc # F[i].dc
    BY <1>3, <1>4 DEF Touch
  <2>2. HotZones!Overlaps(F[i], F[p].start, F[p].end)
    <3>1. F[p].start \in Nat /\ F[p].end \in Nat /\ F[i].start \in Nat /\ F[i].end \in Nat
      BY <1>1, ZoneFacts
    <3> QED
      BY <1>4, <3>1 DEF HotZones!Overlaps
  <2> QED
    BY <1>2, <1>4, <2>1, <2>2 DEF Uncrossed
<1> QED
  BY <1>2, <1>3, <1>4

\* A learned zone is added, or takes the place of a crossed one.
LEMMA MergedStep ==
  ASSUME NEW F, Grown(F), NEW i \in DOMAIN F, i > Len(Defaults),
         NEW x, Merged(x, F, i - 1)
  PROVE  Merged(HotZones!Merge(x, F[i]), F, i)
<1> DEFINE z == F[i]
           y == HotZones!Merge(x, z)
<1>1. /\ F \in Seq(HotZones!Zones) /\ x \in Seq(HotZones!Zones) /\ Grown(x)
      /\ z \in HotZones!Zones /\ z.start <= z.end /\ i \in Nat /\ Len(Defaults) \in Nat
      /\ i - 1 \in Nat
  BY DefaultsGrown DEF Grown, Merged
<1>2. \A k \in DOMAIN x : \E p \in 1 .. (i - 1) : x[k] = F[p]
  BY DEF Merged
<1>3. \A k \in DOMAIN x :
        /\ ~Touch(x[k], z)
        /\ HotZones!Overlaps(x[k], z.start, z.end) =>
             ~Uncrossed(x[k], F) /\ ~Uncrossed(z, F)
  BY <1>2, LearnedMeets
<1>4. \A p \in 1 .. i : p = i \/ p \in 1 .. (i - 1)
  BY <1>1
<1>5. \A p \in 1 .. (i - 1) : p \in 1 .. i
  BY <1>1
<1>6. i \in 1 .. i
  BY <1>1
<1>7. \A p \in 1 .. (i - 1) : Uncrossed(F[p], F) => F[p] \in ToSet(x)
  BY DEF Merged
<1>0. z = F[i]
  OBVIOUS
<1> HIDE DEF y, z
<1>8. ASSUME \A k \in DOMAIN x : ~HotZones!Overlaps(x[k], z.start, z.end),
             y = Append(x, z)
      PROVE  Merged(y, F, i)
  <2>1. Grown(y)
    BY <1>1, <1>3, <1>8, GrownAppend
  <2>2. /\ \A k \in DOMAIN y : (k \in DOMAIN x /\ y[k] = x[k]) \/ y[k] = z
        /\ z \in ToSet(y) /\ ToSet(x) \subseteq ToSet(y)
    <3> DEFINE a == Append(x, z)
    <3>1. /\ DOMAIN x = 1 .. Len(x) /\ DOMAIN a = 1 .. (Len(x) + 1) /\ Len(x) \in Nat
          /\ a[Len(x) + 1] = z /\ \A k \in DOMAIN x : a[k] = x[k]
      BY <1>1
    <3>2. \A k \in DOMAIN a : (k \in DOMAIN x /\ a[k] = x[k]) \/ a[k] = z
      BY <3>1
    <3>3. Len(x) + 1 \in DOMAIN a /\ \A k \in DOMAIN x : k \in DOMAIN a
      BY <3>1
    <3> HIDE DEF a
    <3>4. z \in ToSet(a) /\ ToSet(x) \subseteq ToSet(a)
      BY <3>1, <3>3 DEF ToSet
    <3> QED
      BY <1>8, <3>2, <3>4 DEF a
  <2>3. \A k \in DOMAIN y : \E p \in 1 .. i : y[k] = F[p]
    BY <1>0, <1>2, <1>5, <1>6, <2>2
  <2>4. \A p \in 1 .. i : Uncrossed(F[p], F) => F[p] \in ToSet(y)
    BY <1>0, <1>4, <1>7, <2>2
  <2> QED
    BY <2>1, <2>3, <2>4 DEF Merged
<1>9. ASSUME NEW q \in DOMAIN x, HotZones!Overlaps(x[q], z.start, z.end),
             x[q].start = z.start, y = [x EXCEPT ![q] = z]
      PROVE  Merged(y, F, i)
  <2>1. Grown(y)
    BY <1>1, <1>3, <1>9, GrownReplace
  <2>2. /\ DOMAIN y = DOMAIN x /\ y[q] = z
        /\ \A k \in DOMAIN x : k # q => y[k] = x[k]
    BY <1>1, <1>9
  <2>3. \A k \in DOMAIN y : \E p \in 1 .. i : y[k] = F[p]
    BY <1>0, <1>2, <1>5, <1>6, <2>2
  <2>4. ASSUME NEW p \in 1 .. i, Uncrossed(F[p], F) PROVE F[p] \in ToSet(y)
    <3>1. CASE p = i
      BY <1>0, <1>9, <2>2, <3>1 DEF ToSet
    <3>2. CASE p \in 1 .. (i - 1)
      <4>1. PICK k \in DOMAIN x : x[k] = F[p]
        BY <1>7, <2>4, <3>2 DEF ToSet
      <4>2. k # q
        BY <1>3, <1>9, <2>4, <4>1
      <4> QED
        BY <2>2, <4>1, <4>2 DEF ToSet
    <3> QED
      BY <1>4, <3>1, <3>2
  <2> QED
    BY <2>1, <2>3, <2>4 DEF Merged
<1>10. ASSUME NEW k \in DOMAIN x, HotZones!Overlaps(x[k], z.start, z.end), y = x
       PROVE  Merged(y, F, i)
  <2>1. ~Uncrossed(z, F)
    BY <1>3, <1>10
  <2>2. \A p \in 1 .. i : Uncrossed(F[p], F) => F[p] \in ToSet(x)
    BY <1>0, <1>4, <1>7, <2>1
  <2> QED
    BY <1>1, <1>2, <1>5, <1>10, <2>2 DEF Merged
<1> QED
  <2>1. Merged(y, F, i)
    BY <1>1, <1>8, <1>9, <1>10, MergeCases DEF y
  <2> QED
    BY <2>1 DEF y, z

-----------------------------------------------------------------------------
\* A manager made from zones that one has written has them all, but those crossed.
LEMMA ManagerHas ==
  ASSUME NEW F, Grown(F)
  PROVE  /\ Grown(HotZones!MergeAll(Defaults, F))
         /\ \A z \in ToSet(F) : Uncrossed(z, F) =>
              z \in ToSet(HotZones!MergeAll(Defaults, F))
<1> DEFINE d == Len(Defaults)
           M == HotZones!MergeAll(Defaults, F)
           T == [i \in 0 .. Len(F) |->
                   {x \in Seq(HotZones!Zones) :
                      IF i <= d THEN Replaced(x, F, i) ELSE Merged(x, F, i)}]
<1>1. /\ Defaults \in Seq(HotZones!Zones) /\ F \in Seq(HotZones!Zones)
      /\ Len(F) \in Nat /\ d \in Nat /\ d <= Len(F)
      /\ DOMAIN Defaults = 1 .. d /\ DOMAIN F = 1 .. Len(F)
  BY DefaultsGrown DEF Grown
<1>2. \A i \in 0 .. Len(F) : \A x : x \in T[i] <=>
         /\ x \in Seq(HotZones!Zones)
         /\ IF i <= d THEN Replaced(x, F, i) ELSE Merged(x, F, i)
  OBVIOUS
<1> HIDE DEF T, d
<1>3. Defaults \in T[0]
  <2>1. 0 \in 0 .. Len(F) /\ 0 <= d
    BY <1>1
  <2>2. \A k \in DOMAIN Defaults : ~(k <= 0)
    BY <1>1
  <2>3. Replaced(Defaults, F, 0)
    BY <1>1, <2>2 DEF Replaced
  <2> QED
    BY <1>1, <1>2, <2>1, <2>3
<1>4. ASSUME NEW i \in 1 .. Len(F), NEW x \in Seq(HotZones!Zones), x \in T[i - 1]
      PROVE  HotZones!Merge(x, F[i]) \in T[i]
  <2>1. /\ i \in 0 .. Len(F) /\ i - 1 \in 0 .. Len(F) /\ i \in DOMAIN F
        /\ HotZones!Merge(x, F[i]) \in Seq(HotZones!Zones)
    BY <1>1, MergeType
  <2>2. IF i - 1 <= d THEN Replaced(x, F, i - 1) ELSE Merged(x, F, i - 1)
    BY <1>2, <1>4, <2>1
  <2>3. CASE i <= d
    <3>1. i \in 1 .. d /\ i - 1 <= d
      BY <1>1, <2>3
    <3>2. Replaced(HotZones!Merge(x, F[i]), F, i)
      BY <2>2, <3>1, ReplaceStep DEF d
    <3> QED
      BY <1>2, <2>1, <2>3, <3>2
  <2>4. CASE i > d
    <3>1. ~(i <= d) /\ (i - 1 <= d => i - 1 = d)
      BY <1>1, <2>4
    <3>2. Merged(x, F, i - 1)
      BY <2>2, <3>1, AllReplaced DEF d
    <3>3. Merged(HotZones!Merge(x, F[i]), F, i)
      BY <2>1, <2>4, <3>2, MergedStep DEF d
    <3> QED
      BY <1>2, <2>1, <3>1, <3>3
  <2> QED
    BY <1>1, <2>3, <2>4
<1>5. M \in Seq(HotZones!Zones) /\ M \in T[Len(F)]
  BY <1>1, <1>3, <1>4, MergedThrough
<1> HIDE DEF M
<1>6. Merged(M, F, Len(F))
  <2>1. Len(F) \in 0 .. Len(F)
    BY <1>1
  <2>2. IF Len(F) <= d THEN Replaced(M, F, Len(F)) ELSE Merged(M, F, Len(F))
    BY <1>2, <1>5, <2>1
  <2>3. Len(F) <= d => Len(F) = d
    <3>1. Len(F) \in Nat /\ d \in Nat /\ d <= Len(F)
      BY <1>1
    <3>2. \A m, n \in Nat : m <= n /\ n <= m => n = m
      OBVIOUS
    <3> QED
      BY <3>1, <3>2, Zenon
  <2>4. Replaced(M, F, d) => Merged(M, F, d)
    BY AllReplaced, Zenon DEF d
  <2> QED
    BY <2>2, <2>3, <2>4
<1>7. \A z \in ToSet(F) : \E p \in 1 .. Len(F) : z = F[p]
  BY <1>1 DEF ToSet
<1>8. Grown(M) /\ \A z \in ToSet(F) : Uncrossed(z, F) => z \in ToSet(M)
  BY <1>6, <1>7 DEF Merged
<1> QED
  BY <1>8 DEF M

\* A file is empty, or such a manager wrote it.
FileOK == file.zones = <<>> \/ Grown(file.zones)

\* What a manager with hot zones has, reading such a file.
LEMMA ManagerGrown ==
  ASSUME FileOK PROVE Grown(HotZones!Loaded(file, TRUE))
<1>1. HotZones!Loaded(file, TRUE) = HotZones!MergeAll(Defaults, file.zones)
  BY DEF HotZones!Loaded
<1>2. CASE Grown(file.zones)
  BY <1>1, <1>2, ManagerHas
<1>3. CASE file.zones = <<>>
  <2> DEFINE T == [i \in 0 .. 0 |-> {Defaults}]
  <2>1. <<>> \in Seq(HotZones!Zones) /\ Len(<<>>) = 0 /\ Defaults \in T[0]
    OBVIOUS
  <2>2. T[0] = {Defaults}
    OBVIOUS
  <2> HIDE DEF T
  <2>3. \A i \in 1 .. Len(<<>>) : FALSE
    BY <2>1
  <2>4. HotZones!MergeAll(Defaults, <<>>) \in T[Len(<<>>)]
    BY <2>1, <2>3, ZoneConstants, MergedThrough
  <2> QED
    BY <1>1, <1>3, <2>1, <2>2, <2>4, DefaultsGrown
<1> QED
  BY <1>2, <1>3 DEF FileOK

\* What a slow chunk can do.
LEMMA AnalyzeCases ==
  ASSUME NEW y, NEW c
  PROVE  \/ HotZones!Analyze(y, c) = y
         \/ /\ HotZones!ZonesFor(y, c.from, c.to, c.dc) = {}
            /\ \E size \in {CriticalSize, HighSize, MediumSize} :
                 HotZones!Analyze(y, c) = Append(y, HotZones!Zone(c.from, c.to, c.dc, size))
<1> DEFINE denser(limit) == c.to - c.from > 0 /\ c.messages * 1000 > limit * (c.to - c.from)
           size == IF c.duration > 60 \/ denser(180) THEN CriticalSize
                   ELSE IF c.duration > 20 \/ denser(150) THEN HighSize
                   ELSE MediumSize
<1>1. size \in {CriticalSize, HighSize, MediumSize}
  OBVIOUS
<1>2. \/ HotZones!Analyze(y, c) = y
      \/ /\ HotZones!ZonesFor(y, c.from, c.to, c.dc) = {}
         /\ HotZones!Analyze(y, c) = Append(y, HotZones!Zone(c.from, c.to, c.dc, size))
  BY Zenon DEF HotZones!Analyze
<1> HIDE DEF size
<1> QED
  BY <1>1, <1>2

\* The slow chunks of a fetch add zones and take none away.
LEMMA AnalyzedGrown ==
  ASSUME NEW x, Grown(x), NEW cs \in Seq(SlowChunks)
  PROVE  /\ Grown(HotZones!AnalyzeAll(x, cs))
         /\ ToSet(x) \subseteq ToSet(HotZones!AnalyzeAll(x, cs))
<1> DEFINE G == {y \in Seq(HotZones!Zones) : Grown(y) /\ ToSet(x) \subseteq ToSet(y)}
           T == [i \in 0 .. Len(cs) |-> G]
<1>1. /\ x \in Seq(HotZones!Zones) /\ Len(cs) \in Nat /\ x \in G
      /\ \A i \in 1 .. Len(cs) : cs[i] \in SlowChunks
  BY DEF Grown
<1> HIDE DEF G
<1>2. \A i \in 0 .. Len(cs) : T[i] = G
  OBVIOUS
<1> HIDE DEF T
<1>3. ASSUME NEW y \in G, NEW c \in SlowChunks PROVE HotZones!Analyze(y, c) \in G
  <2>1. Grown(y) /\ ToSet(x) \subseteq ToSet(y) /\ y \in Seq(HotZones!Zones)
    BY DEF G
  <2>2. CASE HotZones!Analyze(y, c) = y
    BY <2>2
  <2>3. ASSUME NEW size \in {CriticalSize, HighSize, MediumSize},
               HotZones!ZonesFor(y, c.from, c.to, c.dc) = {},
               HotZones!Analyze(y, c) = Append(y, HotZones!Zone(c.from, c.to, c.dc, size))
        PROVE  HotZones!Analyze(y, c) \in G
    <3> DEFINE z == HotZones!Zone(c.from, c.to, c.dc, size)
    <3>1. /\ z \in HotZones!Zones /\ z.start <= z.end
          /\ z.start = c.from /\ z.end = c.to /\ z.dc = c.dc
      BY DEF HotZones!Zone, HotZones!Zones, HotZones!ZoneSizes, SlowChunks
    <3> HIDE DEF z
    <3>2. \A k \in DOMAIN y : ~Touch(y[k], z)
      BY <2>3, <3>1 DEF Touch, HotZones!ZonesFor, HotZones!ToSet
    <3>3. Grown(Append(y, z))
      BY <2>1, <3>1, <3>2, GrownAppend
    <3>4. ToSet(y) \subseteq ToSet(Append(y, z))
      <4>1. \A k \in DOMAIN y : k \in DOMAIN Append(y, z) /\ Append(y, z)[k] = y[k]
        BY <2>1
      <4> QED
        BY <4>1 DEF ToSet
    <3>5. Append(y, z) \in G
      BY <2>1, <3>3, <3>4 DEF G, Grown
    <3> QED
      BY <2>3, <3>5 DEF z
  <2> QED
    BY <2>2, <2>3, AnalyzeCases
<1>4. \A i \in 1 .. Len(cs) : \A y \in Seq(HotZones!Zones) :
        y \in T[i - 1] => HotZones!Analyze(y, cs[i]) \in T[i]
  <2> TAKE i \in 1 .. Len(cs)
  <2>1. i \in 0 .. Len(cs) /\ i - 1 \in 0 .. Len(cs)
    BY <1>1
  <2>2. T[i] = G /\ T[i - 1] = G /\ cs[i] \in SlowChunks
    BY <1>1, <1>2, <2>1
  <2> QED
    BY <1>3, <2>2
<1>5. HotZones!AnalyzeAll(x, cs) \in T[Len(cs)]
  <2>1. x \in T[0]
    BY <1>1, <1>2
  <2> QED
    BY <1>1, <1>4, <2>1, AnalyzedThrough
<1>6. HotZones!AnalyzeAll(x, cs) \in G
  BY <1>1, <1>2, <1>5
<1> QED
  BY <1>6 DEF G

-----------------------------------------------------------------------------
\* A new manager reading g has what one reading f has, but for what is crossed.
Kept(f, g) ==
  \A z \in ToSet(HotZones!Loaded(f, TRUE)) :
    \/ z \in ToSet(HotZones!Loaded(g, TRUE))
    \/ HotZones!Crossed(z, f) \/ HotZones!Crossed(z, g)

LearnedInv == ZonesInv /\ FileOK /\ faults \in Nat

\* A save of what a manager had, and of more.
LEMMA SaveLearned ==
  ASSUME LearnedInv, NEW zs, Grown(zs),
         ToSet(HotZones!Loaded(file, TRUE)) \subseteq ToSet(zs),
         NEW n, HotZones!Save(zs, n)
  PROVE  FileOK' /\ faults' \in Nat /\ (faults' = faults => Kept(file, file') \/ file' = file)
<1>1. CASE /\ file' = [state |-> "good", zones |-> zs,
                       history |-> IF n > KeptChunks THEN KeptChunks ELSE n]
           /\ UNCHANGED faults
  <2>1. file'.zones = zs
    BY <1>1
  <2>2. HotZones!Loaded(file', TRUE) = HotZones!MergeAll(Defaults, zs)
    BY <2>1 DEF HotZones!Loaded
  <2>3. \A z \in ToSet(zs) : Uncrossed(z, zs) => z \in ToSet(HotZones!Loaded(file', TRUE))
    BY <2>2, ManagerHas
  <2>4. \A z : ~Uncrossed(z, zs) => HotZones!Crossed(z, file')
    BY <2>1 DEF Uncrossed, HotZones!Crossed, ToSet, HotZones!ToSet
  <2>5. Kept(file, file')
    BY <2>3, <2>4 DEF Kept
  <2>6. FileOK'
    BY <2>1 DEF FileOK
  <2> QED
    BY <1>1, <2>5, <2>6 DEF LearnedInv
<1>2. CASE /\ faults < MaxFaults /\ faults' = faults + 1
           /\ file' \in {file, HotZones!Broken}
  <2>1. HotZones!Broken.zones = <<>>
    BY DEF HotZones!Broken
  <2>2. FileOK'
    BY <1>2, <2>1 DEF FileOK, LearnedInv
  <2>3. faults' \in Nat /\ faults' # faults
    BY <1>2 DEF LearnedInv
  <2> QED
    BY <2>2, <2>3
<1> QED
  BY <1>1, <1>2 DEF HotZones!Save

\* With hot zones a save writes what the manager read, and what was learned.
LEMMA LearnedSteps ==
  ASSUME LearnedInv, enabled, HotZones!Next
  PROVE  FileOK' /\ faults' \in Nat /\ (faults' = faults => Kept(file, file') \/ file' = file)
<1> DEFINE L == HotZones!Loaded(file, TRUE)
           Goal == /\ FileOK' /\ faults' \in Nat
                   /\ faults' = faults => Kept(file, file') \/ file' = file
<1>1. Grown(L)
  BY ManagerGrown DEF LearnedInv
<1>2. HotZones!Loaded(file, enabled) = L
  BY DEF HotZones!Loaded
<1>3. CASE UNCHANGED <<file, faults>>
  BY <1>3 DEF FileOK, LearnedInv
<1>4. ASSUME NEW zs, zs = L \/ zs = HotZones!AnalyzeAll(L, slow),
             HotZones!Save(zs, file.history + 1) \/ HotZones!Save(zs, file.history)
      PROVE  Goal
  <2>1. slow \in Seq(SlowChunks)
    BY DEF LearnedInv, ZonesInv
  <2> HIDE DEF L
  <2>2. Grown(zs) /\ ToSet(L) \subseteq ToSet(zs)
    BY <1>1, <1>4, <2>1, AnalyzedGrown
  <2> QED
    BY <1>4, <2>2, SaveLearned DEF L
<1>5. ASSUME NEW dc, NEW range, NEW hot, NEW estimate,
             HotZones!StartFetch(dc, range, hot, estimate)
      PROVE  UNCHANGED <<file, faults>>
  BY <1>5 DEF HotZones!StartFetch
<1>6. HotZones!TakeSample \/ HotZones!PlanChunk \/ HotZones!StartWorkers \/ HotZones!Leave
        \/ HotZones!Done => UNCHANGED <<file, faults>>
  BY DEF HotZones!TakeSample, HotZones!PlanChunk, HotZones!StartWorkers, HotZones!Leave,
         HotZones!Done, HotZones!vars
<1>7. ASSUME NEW c, NEW d, NEW n, HotZones!SplitChunk(c, d, n) \/ HotZones!SlowChunk(c, d, n)
      PROVE  UNCHANGED <<file, faults>> \/ HotZones!Save(L, file.history + 1)
  BY <1>2, <1>7 DEF HotZones!SplitChunk, HotZones!SlowChunk
<1>8. HotZones!Learn => \/ UNCHANGED <<file, faults>>
                        \/ HotZones!Save(HotZones!AnalyzeAll(L, slow), file.history)
  BY <1>2 DEF HotZones!Learn
<1> HIDE DEF L, Goal
<1>9. Goal
  BY <1>3, <1>4, <1>5, <1>6, <1>7, <1>8 DEF HotZones!Next, Goal
<1> QED
  BY <1>9 DEF Goal

(* While no run switches the hot zones off, a zone that was learned stays: *)
(* every later manager has it (_load_slow_chunk_database merges the file   *)
(* with the built-in zones), unless a save fails or a zone of another      *)
(* datacenter overlaps it.  For all zones in the file, slow chunks, ranges *)
(* and numbers of fetches.                                                 *)
THEOREM LearnedStaysWhileOn ==
  FetchingSpec /\ []enabled => LearnedStays
<1> DEFINE all == <<which, vars, prefetchVars, shardedVars, zoneVars>>
           step == faults' = faults =>
                     \A z \in HotZones!ToSet(HotZones!Loaded(file, TRUE)) :
                       z \in HotZones!ToSet(HotZones!Loaded(file', TRUE))
                         \/ HotZones!Crossed(z, file) \/ HotZones!Crossed(z, file')
<1>1. FetchingInit => LearnedInv
  <2> SUFFICES ASSUME FetchingInit PROVE LearnedInv
    OBVIOUS
  <2>1. file.zones = <<>> /\ faults = 0
    BY DEF FetchingInit, HotZones!Init, HotZones!Missing
  <2> QED
    BY <2>1, ZonesInit DEF LearnedInv, FileOK
<1>2. LearnedInv /\ enabled /\ [FetchingNext]_all => LearnedInv' /\ [step]_file
  <2> SUFFICES ASSUME LearnedInv, enabled, [FetchingNext]_all
               PROVE  LearnedInv' /\ (Kept(file, file') \/ faults' # faults \/ file' = file)
    BY DEF Kept, ToSet, HotZones!ToSet
  <2>1. CASE OfZones(HotZones!Next)
    <3>1. HotZones!Next
      BY <2>1 DEF OfZones
    <3>2. ZonesInv'
      BY <3>1, ZonesNext DEF LearnedInv
    <3> QED
      BY <3>1, <3>2, LearnedSteps DEF LearnedInv
  <2>2. CASE UNCHANGED zoneVars
    <3>1. ZonesInv'
      BY <2>2, ZonesStand DEF zoneVars, LearnedInv
    <3>2. FileOK' /\ faults' = faults /\ file' = file
      BY <2>2 DEF zoneVars, FileOK, LearnedInv
    <3> QED
      BY <3>1, <3>2 DEF LearnedInv
  <2> QED
    BY <2>1, <2>2 DEF FetchingNext, OfStream, OfPrefetch, OfSharded
<1> QED
  BY <1>1, <1>2, PTL DEF FetchingSpec, LearnedStays, HotZones!LearnedStays

-----------------------------------------------------------------------------
(* What was learned stays at one datacenter, also if a run has none        *)

\* All chats and all built-in zones are at one datacenter.
OneDatacenter ==
  \A a, b \in Datacenters \cup {Defaults[k].dc : k \in DOMAIN Defaults} : a = b

\* Where z lies S has no other zone.
Alone(z, S) == \A y \in S : HotZones!Overlaps(y, z.start, z.end) => y = z

\* Zones that are built in, or alone among these and the built-in ones.
LieApart(x) ==
  /\ x \in Seq(HotZones!Zones)
  /\ \A z \in ToSet(x) :
       /\ z.start <= z.end
       /\ z \in ToSet(Defaults) \/ Alone(z, ToSet(Defaults) \cup ToSet(x))

\* The zones in x, with z.
LEMMA AppendedSet ==
  ASSUME NEW x \in Seq(HotZones!Zones), NEW z
  PROVE  ToSet(Append(x, z)) = ToSet(x) \cup {z}
<1> DEFINE a == Append(x, z)
<1>1. /\ DOMAIN x = 1 .. Len(x) /\ DOMAIN a = 1 .. (Len(x) + 1) /\ Len(x) \in Nat
      /\ a[Len(x) + 1] = z /\ \A k \in DOMAIN x : a[k] = x[k]
  OBVIOUS
<1>2. \A k \in DOMAIN a : k \in DOMAIN x \/ k = Len(x) + 1
  BY <1>1
<1>3. Len(x) + 1 \in DOMAIN a /\ \A k \in DOMAIN x : k \in DOMAIN a
  BY <1>1
<1> HIDE DEF a
<1>4. ToSet(a) = ToSet(x) \cup {z}
  BY <1>1, <1>2, <1>3 DEF ToSet
<1> QED
  BY <1>4 DEF a

\* Of zones that lie apart none takes the place of another.
LEMMA ApartMeet ==
  ASSUME NEW F, LieApart(F), NEW z \in ToSet(F),
         NEW y \in ToSet(Defaults) \cup ToSet(F),
         HotZones!Overlaps(y, z.start, z.end), y.start = z.start
  PROVE  y = z
<1>1. CASE Alone(z, ToSet(Defaults) \cup ToSet(F))
  BY <1>1 DEF Alone
<1>2. CASE z \in ToSet(Defaults) /\ y \in ToSet(Defaults)
  <2>1. PICK j \in DOMAIN Defaults, k \in DOMAIN Defaults :
          y = Defaults[j] /\ z = Defaults[k]
    BY <1>2 DEF ToSet
  <2> QED
    BY <2>1, FetchingAssumption DEF HotZones!HotZonesAssumption
<1>3. CASE z \in ToSet(Defaults) /\ y \in ToSet(F)
             /\ Alone(y, ToSet(Defaults) \cup ToSet(F))
  <2>1. y \in HotZones!Zones /\ z \in HotZones!Zones
    BY <1>3 DEF LieApart, ToSet
  <2>2. y.start \in Nat /\ y.end \in Nat /\ z.start \in Nat /\ z.end \in Nat
    BY <2>1, ZoneFacts
  <2>3. HotZones!Overlaps(z, y.start, y.end)
    BY <2>2 DEF HotZones!Overlaps
  <2> QED
    BY <1>3, <2>3 DEF Alone
<1> QED
  BY <1>1, <1>2, <1>3 DEF LieApart

\* However a manager begins, reading F it has what is not built in.
LEMMA ApartMerged ==
  ASSUME NEW F, LieApart(F), NEW B \in {Defaults, <<>>}
  PROVE  LET M == HotZones!MergeAll(B, F)
         IN /\ M \in Seq(HotZones!Zones)
            /\ ToSet(B) \subseteq ToSet(M)
            /\ ToSet(M) \subseteq ToSet(Defaults) \cup ToSet(F)
            /\ ToSet(F) \subseteq ToSet(Defaults) \cup ToSet(M)
<1> DEFINE All == ToSet(Defaults) \cup ToSet(F)
           Has(x, i) == /\ ToSet(B) \subseteq ToSet(x) /\ ToSet(x) \subseteq All
                        /\ \A p \in 1 .. i : F[p] \in ToSet(Defaults) \cup ToSet(x)
           T == [i \in 0 .. Len(F) |-> {x \in Seq(HotZones!Zones) : Has(x, i)}]
<1>1. /\ F \in Seq(HotZones!Zones) /\ Len(F) \in Nat /\ B \in Seq(HotZones!Zones)
      /\ DOMAIN F = 1 .. Len(F)
  <2>1. F \in Seq(HotZones!Zones)
    BY DEF LieApart
  <2>2. <<>> \in Seq(HotZones!Zones)
    OBVIOUS
  <2>3. B \in Seq(HotZones!Zones)
    BY <2>2, ZoneConstants, Zenon
  <2> QED
    BY <2>1, <2>3
<1>2. \A i \in 0 .. Len(F) : \A x : x \in T[i] <=> x \in Seq(HotZones!Zones) /\ Has(x, i)
  <2> HIDE DEF Has
  <2> QED
    OBVIOUS
<1> HIDE DEF T
<1>3. B \in T[0]
  <2>1. 0 \in 0 .. Len(F) /\ \A p \in 1 .. 0 : FALSE
    BY <1>1
  <2>2. ToSet(B) \subseteq ToSet(Defaults)
    BY DEF ToSet
  <2> QED
    BY <1>1, <1>2, <2>1, <2>2
<1>4. ASSUME NEW i \in 1 .. Len(F), NEW x \in Seq(HotZones!Zones), x \in T[i - 1]
      PROVE  HotZones!Merge(x, F[i]) \in T[i]
  <2> DEFINE z == F[i]
             y == HotZones!Merge(x, z)
  <2>1. /\ i \in 0 .. Len(F) /\ i - 1 \in 0 .. Len(F) /\ i \in DOMAIN F
        /\ \A p \in 1 .. i : p = i \/ p \in 1 .. (i - 1)
    BY <1>1
  <2>2. y \in Seq(HotZones!Zones)
    BY <1>1, <2>1, MergeType
  <2>3. Has(x, i - 1)
    BY <1>2, <1>4, <2>1
  <2>4. z \in ToSet(F) /\ z = F[i]
    BY <2>1 DEF ToSet
  <2> HIDE DEF All, z
  <2>5. ToSet(x) \subseteq All /\ \A k \in DOMAIN x : x[k] \in All
    BY <2>3 DEF ToSet
  <2>6. ToSet(x) \subseteq ToSet(y) /\ ToSet(y) \subseteq ToSet(x) \cup {z}
          /\ z \in ToSet(Defaults) \cup ToSet(y)
    <3>1. CASE y = Append(x, z)
      <4> HIDE DEF y
      <4> QED
        BY <3>1, AppendedSet
    <3>2. ASSUME NEW k \in DOMAIN x, HotZones!Overlaps(x[k], z.start, z.end),
                 x[k].start = z.start, y = [x EXCEPT ![k] = z]
          PROVE  y = x /\ z \in ToSet(x)
      <4>1. x[k] = z
        BY <2>4, <2>5, <3>2, ApartMeet DEF All
      <4>2. x = [x EXCEPT ![k] = x[k]]
        OBVIOUS
      <4> HIDE DEF y
      <4> QED
        BY <3>2, <4>1, <4>2 DEF ToSet
    <3>3. ASSUME NEW k \in DOMAIN x, HotZones!Overlaps(x[k], z.start, z.end), y = x
          PROVE  z \in ToSet(Defaults) \cup ToSet(x)
      <4>1. CASE Alone(z, All)
        BY <2>5, <3>3, <4>1 DEF Alone, ToSet
      <4>2. CASE z \in ToSet(Defaults)
        BY <4>2
      <4> QED
        BY <2>4, <4>1, <4>2 DEF LieApart, All
    <3>4. \/ y = Append(x, z)
          \/ \E k \in DOMAIN x : /\ HotZones!Overlaps(x[k], z.start, z.end)
                                 /\ x[k].start = z.start /\ y = [x EXCEPT ![k] = z]
          \/ \E k \in DOMAIN x : HotZones!Overlaps(x[k], z.start, z.end) /\ y = x
      BY MergeCases
    <3> HIDE DEF y
    <3> QED
      BY <3>1, <3>2, <3>3, <3>4
  <2> HIDE DEF y
  <2>7. z \in All
    BY <2>4 DEF All
  <2>8. \A p \in 1 .. i : F[p] \in ToSet(Defaults) \cup ToSet(y)
    BY <2>1, <2>3, <2>4, <2>6
  <2>9. Has(y, i)
    BY <2>3, <2>5, <2>6, <2>7, <2>8
  <2>10. y \in T[i]
    <3> HIDE DEF Has
    <3> QED
      BY <1>2, <2>1, <2>2, <2>9
  <2> QED
    BY <2>10 DEF y, z
<1> DEFINE M == HotZones!MergeAll(B, F)
<1>5. M \in Seq(HotZones!Zones) /\ M \in T[Len(F)]
  BY <1>1, <1>3, <1>4, MergedThrough
<1> HIDE DEF M
<1>6. Has(M, Len(F))
  <2>1. Len(F) \in 0 .. Len(F)
    BY <1>1
  <2> HIDE DEF Has
  <2> QED
    BY <1>2, <1>5, <2>1
<1>7. \A z \in ToSet(F) : \E p \in 1 .. Len(F) : z = F[p]
  BY <1>1 DEF ToSet
<1>8. ToSet(F) \subseteq ToSet(Defaults) \cup ToSet(M)
  BY <1>6, <1>7
<1> QED
  BY <1>5, <1>6, <1>8 DEF M

-----------------------------------------------------------------------------
\* Fewer zones that lie apart.
LEMMA ApartLess ==
  ASSUME NEW F, LieApart(F), NEW x \in Seq(HotZones!Zones),
         ToSet(x) \subseteq ToSet(Defaults) \cup ToSet(F)
  PROVE  LieApart(x)
<1> SUFFICES ASSUME NEW z \in ToSet(x)
             PROVE  /\ z.start <= z.end
                    /\ z \in ToSet(Defaults)
                         \/ Alone(z, ToSet(Defaults) \cup ToSet(x))
  BY DEF LieApart
<1>1. CASE z \in ToSet(Defaults)
  <2>1. PICK k \in DOMAIN Defaults : z = Defaults[k]
    BY <1>1 DEF ToSet
  <2> QED
    BY <1>1, <2>1, FetchingAssumption DEF HotZones!HotZonesAssumption
<1>2. CASE z \in ToSet(F) /\ z \notin ToSet(Defaults)
  <2>1. z.start <= z.end /\ Alone(z, ToSet(Defaults) \cup ToSet(F))
    BY <1>2 DEF LieApart
  <2> QED
    BY <2>1 DEF Alone
<1> QED
  BY <1>1, <1>2

\* What the slow chunks of a fetch add lies apart, at one datacenter.
LEMMA ApartAnalyzed ==
  ASSUME OneDatacenter, NEW x, LieApart(x), ToSet(Defaults) \subseteq ToSet(x),
         NEW cs \in Seq(SlowChunks)
  PROVE  /\ LieApart(HotZones!AnalyzeAll(x, cs))
         /\ ToSet(x) \subseteq ToSet(HotZones!AnalyzeAll(x, cs))
<1> DEFINE G == {y \in Seq(HotZones!Zones) : LieApart(y) /\ ToSet(x) \subseteq ToSet(y)}
           T == [i \in 0 .. Len(cs) |-> G]
<1>1. /\ x \in Seq(HotZones!Zones) /\ Len(cs) \in Nat /\ x \in G
      /\ \A i \in 1 .. Len(cs) : cs[i] \in SlowChunks
  <2>1. x \in Seq(HotZones!Zones)
    BY DEF LieApart
  <2> QED
    BY <2>1
<1> HIDE DEF G
<1>2. \A i \in 0 .. Len(cs) : T[i] = G
  OBVIOUS
<1> HIDE DEF T
<1>3. ASSUME NEW y \in G, NEW c \in SlowChunks PROVE HotZones!Analyze(y, c) \in G
  <2>1. LieApart(y) /\ ToSet(x) \subseteq ToSet(y) /\ y \in Seq(HotZones!Zones)
    BY DEF G
  <2>2. CASE HotZones!Analyze(y, c) = y
    BY <2>2
  <2>3. ASSUME NEW size \in {CriticalSize, HighSize, MediumSize},
               HotZones!ZonesFor(y, c.from, c.to, c.dc) = {},
               HotZones!Analyze(y, c) = Append(y, HotZones!Zone(c.from, c.to, c.dc, size))
        PROVE  HotZones!Analyze(y, c) \in G
    <3> DEFINE z == HotZones!Zone(c.from, c.to, c.dc, size)
               a == Append(y, z)
    <3>1. /\ z \in HotZones!Zones /\ z.start <= z.end
          /\ z.start = c.from /\ z.end = c.to /\ z.dc = c.dc
      BY DEF HotZones!Zone, HotZones!Zones, HotZones!ZoneSizes, SlowChunks
    <3> HIDE DEF z
    <3>2. \A w \in ToSet(y) : w \in HotZones!Zones /\ w.dc = z.dc
      <4> TAKE w \in ToSet(y)
      <4>1. w \in HotZones!Zones
        BY <2>1 DEF ToSet
      <4> QED
        BY <3>1, <4>1 DEF OneDatacenter, HotZones!Zones
    <3>3. \A w \in ToSet(y) : /\ ~HotZones!Overlaps(w, z.start, z.end)
                              /\ ~HotZones!Overlaps(z, w.start, w.end)
      <4> TAKE w \in ToSet(y)
      <4>1. ~HotZones!Overlaps(w, z.start, z.end)
        BY <2>3, <3>1, <3>2 DEF HotZones!ZonesFor, ToSet, HotZones!ToSet
      <4>2. w.start \in Nat /\ w.end \in Nat /\ z.start \in Nat /\ z.end \in Nat
        BY <3>1, <3>2, ZoneFacts
      <4> QED
        BY <4>1, <4>2 DEF HotZones!Overlaps
    <3>4. a \in Seq(HotZones!Zones) /\ ToSet(a) = ToSet(y) \cup {z}
      BY <2>1, <3>1, AppendedSet
    <3> HIDE DEF a
    <3>5. ToSet(Defaults) \subseteq ToSet(y)
      BY <2>1
    <3>6. ASSUME NEW w \in ToSet(a)
          PROVE  /\ w.start <= w.end
                 /\ w \in ToSet(Defaults) \/ Alone(w, ToSet(Defaults) \cup ToSet(a))
      <4>1. CASE w = z
        BY <3>1, <3>3, <3>4, <3>5, <4>1 DEF Alone
      <4>2. CASE w \in ToSet(y)
        <5>1. w.start <= w.end
          BY <2>1, <4>2 DEF LieApart
        <5>2. CASE Alone(w, ToSet(Defaults) \cup ToSet(y))
          BY <3>3, <3>4, <4>2, <5>1, <5>2 DEF Alone
        <5> QED
          BY <2>1, <4>2, <5>1, <5>2 DEF LieApart
      <4> QED
        BY <3>4, <4>1, <4>2
    <3>7. LieApart(a)
      BY <3>4, <3>6 DEF LieApart
    <3>8. a \in G
      BY <2>1, <3>4, <3>7 DEF G
    <3> QED
      BY <2>3, <3>8 DEF a, z
  <2> QED
    BY <2>2, <2>3, AnalyzeCases
<1>4. \A i \in 1 .. Len(cs) : \A y \in Seq(HotZones!Zones) :
        y \in T[i - 1] => HotZones!Analyze(y, cs[i]) \in T[i]
  <2> TAKE i \in 1 .. Len(cs)
  <2>1. i \in 0 .. Len(cs) /\ i - 1 \in 0 .. Len(cs)
    BY <1>1
  <2>2. T[i] = G /\ T[i - 1] = G /\ cs[i] \in SlowChunks
    BY <1>1, <1>2, <2>1
  <2> QED
    BY <1>3, <2>2
<1>5. HotZones!AnalyzeAll(x, cs) \in T[Len(cs)]
  <2>1. x \in T[0]
    BY <1>1, <1>2
  <2> QED
    BY <1>1, <1>4, <2>1, AnalyzedThrough
<1>6. HotZones!AnalyzeAll(x, cs) \in G
  BY <1>1, <1>2, <1>5
<1> QED
  BY <1>6 DEF G

-----------------------------------------------------------------------------
ApartInv == ZonesInv /\ LieApart(file.zones) /\ faults \in Nat

\* What any manager that reads the file has.
LEMMA ReadApart ==
  ASSUME NEW f, LieApart(f.zones), NEW hot
  PROVE  LET L == HotZones!Loaded(f, hot)
         IN /\ LieApart(L)
            /\ ToSet(L) \subseteq ToSet(Defaults) \cup ToSet(f.zones)
            /\ ToSet(f.zones) \subseteq ToSet(Defaults) \cup ToSet(L)
            /\ hot => ToSet(Defaults) \subseteq ToSet(L)
<1> DEFINE B == IF hot THEN Defaults ELSE <<>>
           L == HotZones!MergeAll(B, f.zones)
<1>1. B \in {Defaults, <<>>} /\ (hot => B = Defaults)
  OBVIOUS
<1>2. HotZones!Loaded(f, hot) = L
  BY DEF HotZones!Loaded
<1> HIDE DEF B
<1>3. /\ L \in Seq(HotZones!Zones)
      /\ ToSet(B) \subseteq ToSet(L)
      /\ ToSet(L) \subseteq ToSet(Defaults) \cup ToSet(f.zones)
      /\ ToSet(f.zones) \subseteq ToSet(Defaults) \cup ToSet(L)
  BY <1>1, ApartMerged
<1> HIDE DEF L
<1>4. LieApart(L)
  BY <1>3, ApartLess
<1> QED
  BY <1>1, <1>2, <1>3, <1>4

\* A save of all that was learned.
LEMMA SaveApart ==
  ASSUME ApartInv, NEW zs, LieApart(zs),
         ToSet(file.zones) \subseteq ToSet(Defaults) \cup ToSet(zs),
         NEW n, HotZones!Save(zs, n)
  PROVE  /\ LieApart(file.zones)' /\ faults' \in Nat
         /\ faults' = faults => Kept(file, file')
<1>1. CASE /\ file' = [state |-> "good", zones |-> zs,
                       history |-> IF n > KeptChunks THEN KeptChunks ELSE n]
           /\ UNCHANGED faults
  <2>1. file'.zones = zs
    BY <1>1
  <2>2. /\ ToSet(HotZones!Loaded(file, TRUE)) \subseteq
             ToSet(Defaults) \cup ToSet(file.zones)
        /\ ToSet(Defaults) \subseteq ToSet(HotZones!Loaded(file', TRUE))
        /\ ToSet(zs) \subseteq ToSet(Defaults) \cup ToSet(HotZones!Loaded(file', TRUE))
    BY <2>1, ReadApart DEF ApartInv
  <2>3. ToSet(HotZones!Loaded(file, TRUE)) \subseteq ToSet(HotZones!Loaded(file', TRUE))
    BY <2>2
  <2>4. Kept(file, file')
    BY <2>3 DEF Kept
  <2> QED
    BY <1>1, <2>1, <2>4 DEF ApartInv
<1>2. CASE /\ faults < MaxFaults /\ faults' = faults + 1
           /\ file' \in {file, HotZones!Broken}
  <2>1. HotZones!Broken.zones = <<>>
    BY DEF HotZones!Broken
  <2>2. LieApart(<<>>)
    BY DEF LieApart, ToSet
  <2>3. LieApart(file.zones)'
    BY <1>2, <2>1, <2>2 DEF ApartInv
  <2>4. faults' \in Nat /\ faults' # faults
    BY <1>2 DEF ApartInv
  <2> QED
    BY <2>3, <2>4
<1> QED
  BY <1>1, <1>2 DEF HotZones!Save

\* At one datacenter no save loses what was learned, hot zones or not.
LEMMA ApartSteps ==
  ASSUME OneDatacenter, ApartInv, HotZones!Next
  PROVE  /\ LieApart(file.zones)' /\ faults' \in Nat
         /\ faults' = faults => Kept(file, file') \/ file' = file
<1> DEFINE L == HotZones!Loaded(file, enabled)
           Goal == /\ LieApart(file.zones)' /\ faults' \in Nat
                   /\ faults' = faults => Kept(file, file') \/ file' = file
<1>1. /\ LieApart(L)
      /\ ToSet(file.zones) \subseteq ToSet(Defaults) \cup ToSet(L)
      /\ enabled => ToSet(Defaults) \subseteq ToSet(L)
  BY ReadApart DEF ApartInv
<1>2. slow \in Seq(SlowChunks)
  BY DEF ApartInv, ZonesInv
<1> HIDE DEF L
<1>3. CASE UNCHANGED <<file, faults>>
  BY <1>3 DEF ApartInv
<1>4. CASE HotZones!Save(L, file.history + 1)
  BY <1>1, <1>4, SaveApart
<1>5. CASE enabled /\ HotZones!Save(HotZones!AnalyzeAll(L, slow), file.history)
  <2>1. /\ LieApart(HotZones!AnalyzeAll(L, slow))
        /\ ToSet(L) \subseteq ToSet(HotZones!AnalyzeAll(L, slow))
    BY <1>1, <1>2, <1>5, ApartAnalyzed
  <2>2. ToSet(file.zones) \subseteq
          ToSet(Defaults) \cup ToSet(HotZones!AnalyzeAll(L, slow))
    BY <1>1, <2>1
  <2> QED
    BY <1>5, <2>1, <2>2, SaveApart
<1>6. ASSUME NEW dc, NEW range, NEW hot, NEW estimate,
             HotZones!StartFetch(dc, range, hot, estimate)
      PROVE  UNCHANGED <<file, faults>>
  BY <1>6 DEF HotZones!StartFetch
<1>7. HotZones!TakeSample \/ HotZones!PlanChunk \/ HotZones!StartWorkers \/ HotZones!Leave
        \/ HotZones!Done => UNCHANGED <<file, faults>>
  BY DEF HotZones!TakeSample, HotZones!PlanChunk, HotZones!StartWorkers, HotZones!Leave,
         HotZones!Done, HotZones!vars
<1>8. ASSUME NEW c, NEW d, NEW n, HotZones!SplitChunk(c, d, n) \/ HotZones!SlowChunk(c, d, n)
      PROVE  UNCHANGED <<file, faults>> \/ HotZones!Save(L, file.history + 1)
  BY <1>8 DEF HotZones!SplitChunk, HotZones!SlowChunk, L
<1>9. HotZones!Learn =>
        \/ UNCHANGED <<file, faults>>
        \/ enabled /\ HotZones!Save(HotZones!AnalyzeAll(L, slow), file.history)
  BY DEF HotZones!Learn, L
<1> HIDE DEF Goal
<1>10. Goal
  BY <1>3, <1>4, <1>5, <1>6, <1>7, <1>8, <1>9 DEF HotZones!Next, Goal
<1> QED
  BY <1>10 DEF Goal

(* At one datacenter what was learned stays also if a run is started       *)
(* without hot zones in between, whose manager has the zones of the file   *)
(* only (enable_hot_zones), unless a save fails.                           *)
THEOREM LearnedStaysAtOne ==
  ASSUME OneDatacenter PROVE FetchingSpec => LearnedStays
<1> DEFINE all == <<which, vars, prefetchVars, shardedVars, zoneVars>>
           step == faults' = faults =>
                     \A z \in HotZones!ToSet(HotZones!Loaded(file, TRUE)) :
                       z \in HotZones!ToSet(HotZones!Loaded(file', TRUE))
                         \/ HotZones!Crossed(z, file) \/ HotZones!Crossed(z, file')
<1>1. FetchingInit => ApartInv
  <2> SUFFICES ASSUME FetchingInit PROVE ApartInv
    OBVIOUS
  <2>1. file.zones = <<>> /\ faults = 0
    BY DEF FetchingInit, HotZones!Init, HotZones!Missing
  <2>2. LieApart(<<>>)
    BY DEF LieApart, ToSet
  <2> QED
    BY <2>1, <2>2, ZonesInit DEF ApartInv
<1>2. ApartInv /\ [FetchingNext]_all => ApartInv' /\ [step]_file
  <2> SUFFICES ASSUME ApartInv, [FetchingNext]_all
               PROVE  ApartInv' /\ (Kept(file, file') \/ faults' # faults \/ file' = file)
    BY DEF Kept, ToSet, HotZones!ToSet
  <2>1. CASE OfZones(HotZones!Next)
    <3>1. HotZones!Next
      BY <2>1 DEF OfZones
    <3>2. ZonesInv'
      BY <3>1, ZonesNext DEF ApartInv
    <3> QED
      BY <3>1, <3>2, ApartSteps DEF ApartInv
  <2>2. CASE UNCHANGED zoneVars
    <3>1. ZonesInv'
      BY <2>2, ZonesStand DEF zoneVars, ApartInv
    <3>2. LieApart(file.zones)' /\ faults' = faults /\ file' = file
      BY <2>2 DEF zoneVars, ApartInv
    <3> QED
      BY <3>1, <3>2 DEF ApartInv
  <2> QED
    BY <2>1, <2>2 DEF FetchingNext, OfStream, OfPrefetch, OfSharded
<1> QED
  BY <1>1, <1>2, PTL DEF FetchingSpec, LearnedStays, HotZones!LearnedStays
=============================================================================
