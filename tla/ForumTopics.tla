----------------------------- MODULE ForumTopics -----------------------------
(***************************************************************************)
(* The topics of a forum: from the list the user chooses from, over the    *)
(* targets of the configuration, to the topics an export visits            *)
(* (get_forum_topics of src/src/telegram_client.py with the retries of     *)
(* src/src/core/connection.py, the forum menu of ui/interactive.py,        *)
(* add_export_target of config.py and the head of _export_forum).          *)
(*                                                                         *)
(* A topic is a number; Telegram lists the highest first.  A deleted topic *)
(* keeps its place in Telegram's list and is skipped by the program.  Of    *)
(* a wait between two attempts only the reason is kept.                     *)
(***************************************************************************)
EXTENDS Integers, Sequences, FiniteSets, SequencesExt, Selection

CONSTANTS
    MaxTopics,     \* bound on the topics of the forum
    ApiLimit,      \* topics of a request at most (100)
    PageSize,      \* lazy_topic_page_size
    MaxAttempts,   \* max_attempts of execute_with_retry
    MaxMenus,      \* bound on the visits of the menu
    MaxFaults      \* bound on the failing requests

ForumAssumption ==
    /\ {MaxTopics, MaxMenus, MaxFaults} \subseteq Nat
    /\ {ApiLimit, PageSize, MaxAttempts} \subseteq Nat \ {0}

VARIABLES
    newest,        \* the topics 1 .. newest have been created
    deleted,       \* those of them that were deleted
    lazy,          \* enable_lazy_loading and lazy_topic_pagination
    pc,            \* control state
    purpose,       \* who asked for the list: the menu or the export
    attempt,       \* attempts made for the current request
    offset,        \* current_offset, 0 at the start
    page,          \* what Telegram answered, still to be counted
    topics,        \* the list made so far
    intact,        \* no request for this list has failed for good
    cache,         \* topics_cache: no list, or one
    counts,        \* cached message counts
    announced,     \* topics the menu told the user it has added
    targets,       \* export_targets: the forum or a topic of it
    at,            \* the target being exported
    exported,      \* topics visited by the export
    menus, faults  \* visits and failures so far

forumVars == <<newest, deleted, lazy>>
listVars  == <<attempt, offset, page, topics, intact>>
userVars  == <<announced, targets, menus>>
vars == <<forumVars, pc, purpose, listVars, cache, counts, userVars, at,
          exported, faults>>

Topics == 1 .. MaxTopics
All == 0          \* a target that is the whole forum
\* The answer to a request: the topics after the one given, deleted or not.
Answer(after, limit) ==
    LET first == IF after = 0 THEN newest ELSE after - 1
        count == IF first < limit THEN first ELSE limit
    IN [i \in 1 .. count |-> first + 1 - i]

Live(s) == Select(s, Topics \ deleted)

Init ==
    /\ newest \in 0 .. MaxTopics
    /\ deleted \in SUBSET (1 .. newest)
    /\ lazy \in BOOLEAN
    /\ pc = "menu" /\ purpose = "menu"
    /\ attempt = 0 /\ offset = 0 /\ page = <<>> /\ topics = <<>>
    /\ intact = TRUE
    /\ cache = <<>>
    /\ counts = [t \in Topics |-> "none"]
    /\ announced = {} /\ targets = <<>>
    /\ at = 1 /\ exported = {}
    /\ menus = 0 /\ faults = 0

-----------------------------------------------------------------------------
(* get_forum_topics                                                         *)

\* A faulty variant, for the checks only: the list is asked for every time.
RefreshingGetTopics(who) ==
    /\ purpose' = who
    /\ attempt' = 1 /\ offset' = 0 /\ page' = <<>> /\ topics' = <<>>
    /\ intact' = TRUE
    /\ pc' = "asking"

\* The list of an earlier call is taken, unless it is read in pages.
GetTopics(who) ==
    /\ purpose' = who
    /\ offset' = 0 /\ page' = <<>>
    /\ intact' = TRUE
    /\ IF ~lazy /\ cache # <<>>
         THEN pc' = "listed" /\ topics' = cache[1] /\ attempt' = 0
         ELSE pc' = "asking" /\ topics' = <<>> /\ attempt' = 1

FetchLimit ==
    LET remaining == PageSize - Len(topics)
    IN IF ~lazy \/ remaining > ApiLimit THEN ApiLimit ELSE remaining

Request ==
    /\ pc = "asking"
    /\ page' = Answer(offset, FetchLimit)
    /\ pc' = "counting"
    /\ UNCHANGED <<forumVars, purpose, attempt, offset, topics, intact, cache,
                   counts, userVars, at, exported, faults>>

\* A request fails.  An error of Telegram says how long to wait, another one
\* is waited for by the schedule of the connection manager.
RequestFails ==
    /\ pc = "asking"
    /\ faults < MaxFaults
    /\ faults' = faults + 1
    /\ pc' \in {"told to wait", "backing off"}
    /\ UNCHANGED <<forumVars, purpose, listVars, cache, counts, userVars, at,
                   exported>>

\* The next attempt; after the last one the call ends with what it has, and
\* nothing is cached.
TryAgain(waiting) ==
    /\ pc = waiting
    /\ IF attempt < MaxAttempts
         THEN /\ attempt' = attempt + 1 /\ pc' = "asking"
              /\ UNCHANGED intact
         ELSE /\ pc' = "listed" /\ intact' = FALSE
              /\ UNCHANGED attempt
    /\ UNCHANGED <<forumVars, purpose, offset, page, topics, cache, counts,
                   userVars, at, exported, faults>>

HandleTelegramError == TryAgain("told to wait")
Backoff == TryAgain("backing off")

\* _get_topic_message_count_via_api for the live topics of a page: a request
\* that fails counts as no message and is cached like an answer.
Asked == {t \in ToSet(Live(page)) : counts[t] = "none"}
CountMessages ==
    \E failing \in SUBSET Asked :
      /\ faults + Cardinality(failing) <= MaxFaults
      /\ faults' = faults + Cardinality(failing)
      /\ counts' = [t \in Topics |-> IF t \in failing THEN "zero"
                                     ELSE IF t \in Asked THEN "counted"
                                     ELSE counts[t]]

\* _get_forum_topics_paginated: the next page is asked for while topics are
\* missing and the page was full.  A deleted topic makes it look short.
PageRead ==
    /\ pc = "counting" /\ lazy
    /\ CountMessages
    /\ topics' = topics \o Live(page)
    /\ IF Len(Live(page)) < FetchLimit \/ Len(topics') >= PageSize
         THEN pc' = "listed" /\ UNCHANGED <<offset, attempt>>
         ELSE pc' = "asking" /\ attempt' = 1 /\ offset' = Last(Live(page))
    /\ UNCHANGED <<forumVars, purpose, page, intact, cache, userVars, at,
                   exported>>

\* get_forum_topics without pages: one request, and the list is kept.
ListRead ==
    /\ pc = "counting" /\ ~lazy
    /\ CountMessages
    /\ topics' = Live(page)
    /\ cache' = <<topics'>>
    /\ pc' = "listed"
    /\ UNCHANGED <<forumVars, purpose, attempt, offset, page, intact, userVars,
                   at, exported>>

-----------------------------------------------------------------------------
(* The menu and the targets                                                 *)

OpenForum ==
    /\ pc = "menu"
    /\ menus < MaxMenus
    /\ menus' = menus + 1
    /\ GetTopics("menu")
    /\ UNCHANGED <<forumVars, cache, counts, announced, targets, at, exported,
                   faults>>

\* add_export_target: a target whose chat id is there is not added, and all
\* targets of a forum have the id of the forum.
AddTarget(ts, target) == IF ts = <<>> THEN <<target>> ELSE ts

ChooseAll ==
    /\ pc = "listed" /\ purpose = "menu"
    /\ topics # <<>>
    /\ targets' = AddTarget(targets, All)
    /\ announced' = announced \cup ToSet(topics)
    /\ pc' = "menu"
    /\ UNCHANGED <<forumVars, purpose, listVars, cache, counts, menus, at,
                   exported, faults>>

\* The chosen topics are added one by one, in the order in which they were typed,
\* and all are named to the user; AddTarget takes only the first of them.
ChooseTopics ==
    /\ pc = "listed" /\ purpose = "menu"
    /\ \E chosen \in SUBSET ToSet(topics) \ {{}} :
         /\ \E typed \in chosen : targets' = AddTarget(targets, typed)
         /\ announced' = announced \cup chosen
    /\ pc' = "menu"
    /\ UNCHANGED <<forumVars, purpose, listVars, cache, counts, menus, at,
                   exported, faults>>

\* "cancel", an invalid answer, or there is nothing to choose from.
Cancel ==
    /\ pc = "listed" /\ purpose = "menu"
    /\ pc' = "menu"
    /\ UNCHANGED <<forumVars, purpose, listVars, cache, counts, userVars, at,
                   exported, faults>>

-----------------------------------------------------------------------------
(* The export                                                               *)

\* _export_forum resolves the forum again.  A failure gives no entity: the
\* request for its topics fails until the attempts are used up, and the list
\* is empty.
ExportForum ==
    /\ pc = "menu" \/ pc = "next"
    /\ at <= Len(targets)
    /\ \/ /\ GetTopics("export")
          /\ UNCHANGED faults
       \/ /\ faults < MaxFaults
          /\ faults' = faults + 1
          /\ pc' = "listed" /\ purpose' = "export"
          /\ topics' = <<>> /\ intact' = FALSE
          /\ UNCHANGED <<attempt, offset, page>>
    /\ UNCHANGED <<forumVars, cache, counts, userVars, at, exported>>

\* topics_to_export.
SelectTopics ==
    /\ pc = "listed" /\ purpose = "export"
    /\ exported' = exported \cup {t \in ToSet(topics) :
                                    targets[at] \in {All, t}}
    /\ at' = at + 1
    /\ pc' = IF at' > Len(targets) THEN "over" ELSE "next"
    /\ UNCHANGED <<forumVars, purpose, listVars, cache, counts, userVars,
                   faults>>

-----------------------------------------------------------------------------
(* The others: a topic is created, between the calls                        *)

CreateTopic ==
    /\ pc \in {"menu", "next"}
    /\ newest < MaxTopics
    /\ newest' = newest + 1
    /\ UNCHANGED <<deleted, lazy, pc, purpose, listVars, cache, counts,
                   userVars, at, exported, faults>>

Done ==
    /\ pc = "over" \/ (pc = "menu" /\ targets = <<>> /\ menus = MaxMenus)
    /\ UNCHANGED vars

Program ==
    \/ Request \/ RequestFails \/ HandleTelegramError \/ Backoff
    \/ PageRead \/ ListRead \/ ExportForum \/ SelectTopics
    \/ OpenForum \/ ChooseAll \/ ChooseTopics \/ Cancel

Next == Program \/ CreateTopic \/ Done

Spec == Init /\ [][Next]_vars

\* The user answers, and every request is answered or fails.
FairSpec == Spec /\ WF_vars(Program)

-----------------------------------------------------------------------------
(* Properties                                                               *)

TypeOK ==
    /\ newest \in 0 .. MaxTopics /\ deleted \subseteq 1 .. newest
    /\ lazy \in BOOLEAN /\ intact \in BOOLEAN
    /\ pc \in {"menu", "asking", "told to wait", "backing off", "counting",
               "listed", "next", "over"}
    /\ purpose \in {"menu", "export"}
    /\ attempt \in 0 .. MaxAttempts
    /\ offset \in 0 .. MaxTopics
    /\ topics \in Seq(Topics) /\ page \in Seq(Topics)
    /\ cache \in Seq(Seq(Topics))
    /\ counts \in [Topics -> {"none", "counted", "zero"}]
    /\ announced \subseteq Topics /\ exported \subseteq Topics
    /\ at \in 1 .. Len(targets) + 1

\* A list is in Telegram's order, without repetition and without deleted
\* topics; when no request failed it holds every live topic of one request, or
\* of the pages asked for as long as none was deleted, whether or not the
\* messages of a topic could be counted (get_forum_topics, both ways).
ListIsWhole ==
    pc = "listed" /\ attempt > 0 =>
      /\ \A i, j \in DOMAIN topics : i < j => topics[i] > topics[j]
      /\ ToSet(topics) \cap deleted = {}
      /\ intact /\ ~lazy => topics = Live(Answer(0, ApiLimit))
      /\ intact /\ lazy /\ deleted = {} => topics = Answer(0, PageSize)

\* What was chosen from an unbroken list is exported, although the list is
\* asked for again and new topics, which have come in between, would push it
\* out of a new list: the list is kept for the second call (topics_cache).  It
\* is kept only where lists are not read in pages; no request fails here.
ChoiceIsFound ==
    pc = "over" /\ ~lazy /\ cache # <<>> /\ faults = 0
      /\ targets[1] # All => targets[1] \in exported

\* However the requests fail, pages are cut or topics are deleted, a list is
\* made in the end.
ListingEnds == pc = "asking" ~> pc = "listed"

\* "Added {len(added_topics)} topic(s)" (src/src/ui/interactive.py): what the
\* user was told is added is exported when no request fails.
AnnouncedIsExported ==
    pc = "over" /\ faults = 0 /\ ~lazy => announced \subseteq exported
=============================================================================
