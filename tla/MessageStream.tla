--------------------------- MODULE MessageStream ----------------------------
(***************************************************************************)
(* The two generators of TelegramManager (src/src/telegram_client.py) that *)
(* page through a history while it changes: fetch_messages goes up from    *)
(* the oldest message, get_topic_messages_stream down from the newest one. *)
(* Each page is asked for at most max_retries times, with a sleep after a  *)
(* flood wait or an error; a loop elsewhere takes the messages one by one  *)
(* and may leave at any of them.                                           *)
(*                                                                         *)
(* Telegram's answer to one get_messages call is modelled from its use: at *)
(* most as many messages as asked for, none nearer to the offset left out, *)
(* and at least one while there are any.                                   *)
(***************************************************************************)
EXTENDS Integers, Sequences, FiniteSets

CONSTANTS
  Queries,        \* the calls checked: [up, min_id, limit]
  FirstTop,       \* ids given before the stream starts
  MaxId,          \* bound: the last message id that will be given
  Hidden,         \* ids of service messages, or the id of the topic itself
  batch_size,     \* batch_fetch_size
  max_retries,    \* 3 in the code
  MaxFailures,    \* bound: calls that fail
  MaxDeletions    \* bound: messages deleted while the stream runs

NoLimit == -1

ASSUME StreamAssumption ==
  /\ MaxId \in Nat /\ FirstTop \in 0..MaxId
  /\ batch_size \in Nat \ {0} /\ max_retries \in Nat \ {0}
  /\ MaxFailures \in Nat /\ MaxDeletions \in Nat
  /\ Queries \subseteq [up : BOOLEAN, min_id : Nat,
                        limit : Nat \cup {NoLimit}]

VARIABLES
  query,                \* which generator runs, and its arguments
  top, present,         \* the history: last id given, ids not deleted
  kept,                 \* ids present since the stream started
  deletions,
  offset,               \* current_offset_id
  page,                 \* what is left of batch_messages
  page_end,             \* batch_messages[-1].id
  retry_count, failures,
  yielded,              \* what the consumer has been given
  pc

chat == <<top, present, kept, deletions>>
vars == <<query, chat, offset, page, page_end, retry_count, failures,
          yielded, pc>>

(* The order in which the generator meets two messages.                    *)
Before(a, b) == IF query.up THEN a < b ELSE a > b

(* The topic stream starts at its min_id.                                  *)
Init ==
  /\ query \in Queries
  /\ top = FirstTop /\ present = 1..FirstTop /\ kept = present
  /\ deletions = 0
  /\ offset = (IF query.up THEN 0 ELSE query.min_id)
  /\ page = {} /\ page_end = 0
  /\ retry_count = 0 /\ failures = 0
  /\ yielded = <<>> /\ pc = "ask"

Reached == query.limit # NoLimit /\ Len(yielded) >= query.limit
Asked == IF query.limit # NoLimit /\ query.limit - Len(yielded) < batch_size
         THEN query.limit - Len(yielded) ELSE batch_size

(* The ids one call may return: newer than min_id and beyond the offset,   *)
(* where the offset 0 of the downward direction stands for the newest.     *)
Beyond ==
  {i \in present : /\ i > query.min_id
                   /\ (~query.up /\ offset = 0) \/ Before(offset, i)}

Answers ==
  {s \in SUBSET Beyond :
     /\ Cardinality(s) <= Asked
     /\ s = {} => Beyond = {}
     /\ \A i \in s : \A j \in Beyond \ s : Before(i, j)}

(* The loop head: the limit has been reached.                              *)
LimitReached ==
  /\ pc = "ask" /\ Reached
  /\ pc' = "ended"
  /\ UNCHANGED <<query, chat, offset, page, page_end, retry_count, failures,
                 yielded>>

(* get_messages returns a page.                                            *)
Ask ==
  /\ pc = "ask" /\ ~Reached
  /\ page' \in Answers \ {{}}
  /\ page_end' \in {i \in page' : \A j \in page' : ~Before(i, j)}
  /\ retry_count' = 0
  /\ pc' = "yield"
  /\ UNCHANGED <<query, chat, offset, failures, yielded>>

(* Mutant: a page without a message to yield is taken for the last one.    *)
HastyAskEmpty ==
  /\ pc = "ask" /\ ~Reached
  /\ \E s \in Answers : s \subseteq Hidden
  /\ pc' = "ended"
  /\ UNCHANGED <<query, chat, offset, page, page_end, retry_count, failures,
                 yielded>>

(* It returns nothing: the stream ends.                                    *)
AskEmpty ==
  /\ pc = "ask" /\ ~Reached /\ {} \in Answers
  /\ pc' = "ended"
  /\ UNCHANGED <<query, chat, offset, page, page_end, retry_count, failures,
                 yielded>>

(* It raises, FloodWaitError or another: sleep and ask again, or give up.  *)
AskFails ==
  /\ pc = "ask" /\ ~Reached /\ failures < MaxFailures
  /\ failures' = failures + 1
  /\ retry_count' = retry_count + 1
  /\ pc' = IF retry_count' < max_retries THEN "sleep" ELSE "raised"
  /\ UNCHANGED <<query, chat, offset, page, page_end, yielded>>

Wake ==
  /\ pc = "sleep" /\ pc' = "ask"
  /\ UNCHANGED <<query, chat, offset, page, page_end, retry_count, failures,
                 yielded>>

(* The next message of the page: hidden ones are passed over.              *)
Yield ==
  /\ pc = "yield" /\ ~Reached
  /\ \E i \in page :
       /\ \A j \in page : ~Before(j, i)
       /\ page' = page \ {i}
       /\ yielded' = IF i \in Hidden THEN yielded ELSE Append(yielded, i)
  /\ UNCHANGED <<query, chat, offset, page_end, retry_count, failures, pc>>

(* Mutant of PageDone: the offset is the last id that was yielded, which a *)
(* page of hidden messages leaves where it was.                            *)
YieldedPageDone ==
  /\ pc = "yield" /\ (page = {} \/ Reached)
  /\ offset' = IF yielded = <<>> THEN offset ELSE yielded[Len(yielded)]
  /\ page' = {} /\ pc' = "ask"
  /\ UNCHANGED <<query, chat, page_end, retry_count, failures, yielded>>

(* The page is used up, or the limit reached in it: the offset moves to the*)
(* page's last id.                                                         *)
PageDone ==
  /\ pc = "yield" /\ (page = {} \/ Reached)
  /\ offset' = page_end /\ page' = {} /\ pc' = "ask"
  /\ UNCHANGED <<query, chat, page_end, retry_count, failures, yielded>>

(* The consumer does not come back after a message.                        *)
Leave ==
  /\ pc = "yield" /\ yielded # <<>>
  /\ pc' = "left"
  /\ UNCHANGED <<query, chat, offset, page, page_end, retry_count, failures,
                 yielded>>

(* The chat goes on meanwhile.                                             *)
Arrive ==
  /\ top < MaxId
  /\ top' = top + 1 /\ present' = present \cup {top'}
  /\ UNCHANGED <<query, kept, deletions, offset, page, page_end, retry_count,
                 failures, yielded, pc>>

Delete ==
  /\ deletions < MaxDeletions /\ deletions' = deletions + 1
  /\ \E i \in present : present' = present \ {i} /\ kept' = kept \ {i}
  /\ UNCHANGED <<query, top, offset, page, page_end, retry_count, failures,
                 yielded, pc>>

Over == pc \in {"ended", "raised", "left"} /\ UNCHANGED vars

Stream == LimitReached \/ Ask \/ AskEmpty \/ Wake \/ Yield \/ PageDone
Next == Stream \/ AskFails \/ Leave \/ Arrive \/ Delete \/ Over

Spec == Init /\ [][Next]_vars /\ WF_vars(Stream)

-----------------------------------------------------------------------------
Given == {yielded[n] : n \in DOMAIN yielded}
Wanted == {i \in kept : i > query.min_id /\ i \notin Hidden}

TypeOK ==
  /\ query \in Queries
  /\ top \in FirstTop..MaxId /\ present \subseteq 1..top
  /\ kept \subseteq present /\ deletions \in 0..MaxDeletions
  /\ offset \in Nat /\ page \subseteq 1..top /\ page_end \in 0..top
  /\ retry_count \in 0..max_retries /\ failures \in 0..MaxFailures
  /\ yielded \in Seq(1..top)
  /\ pc \in {"ask", "sleep", "yield", "ended", "raised", "left"}

(* The messages are given in the order of the direction, none twice,       *)
(* whatever is retried, deleted or added meanwhile.                        *)
InOrder ==
  \A n \in DOMAIN yielded : \A k \in DOMAIN yielded :
    n < k => Before(yielded[n], yielded[k])

(* No message that was there all the time is passed over: what lies before *)
(* a message that was given has been given as well, across the borders of  *)
(* the pages, and a stream that ends without having reached its limit has  *)
(* given all of them.  A topic stream with a min_id gives nothing at all.  *)
NoGap ==
  query.up \/ query.min_id = 0 =>
    \A i \in Wanted :
      \/ i \in Given
      \/ /\ \A k \in Given : Before(k, i)
         /\ pc = "ended" => Reached

(* Each stream ends, raises or is left, under fairness of its own steps:   *)
(* the sleeps and calls end, and the chat gets finitely many messages.     *)
Ends == <>(pc \in {"ended", "raised", "left"})
=============================================================================
