------------------------------ MODULE MCExport ------------------------------
(* An export over its targets (ExportSession: one chat and one forum of    *)
(* two topics) and the choice of those targets in a forum (ForumTopics).   *)
(* They share no state here; a behaviour is one of the component that      *)
(* "which" names, with fairness for that component.                        *)
EXTENDS ExportSession

CONSTANTS MaxTopics, ApiLimit, PageSize, MaxAttempts, MaxMenus, MaxRefusals

VARIABLES which,
          newest, deleted, lazy, menu_pc, purpose, attempt, offset, page,
          topics, intact, cache, counts, announced, targets, at, exported,
          menus, refusals

forumVars == <<newest, deleted, lazy, menu_pc, purpose, attempt, offset, page,
               topics, intact, cache, counts, announced, targets, at,
               exported, menus, refusals>>

Forum == INSTANCE ForumTopics WITH pc <- menu_pc, faults <- refusals,
                                   MaxFaults <- MaxRefusals

MCTargets == <<[forum |-> TRUE, chats |-> <<"topic1", "topic2">>],
               [forum |-> FALSE, chats |-> <<"chat">>]>>
MCContents == {<<"empty", "empty", "good">>, <<"good", "bad", "good", "good">>}
MCModes == [regular : {"pipeline"}, topic : {"prefetch", "batch"}]
           \cup {[regular |-> m, topic |-> m] : m \in {"prefetch", "batch"}}

ASSUME DifferentTitles == OwnFiles
ASSUME ExportAssumption == Forum!ForumAssumption

(* A component that does not run rests in one of its initial states.       *)
SessionRests == /\ mode = [regular |-> "batch", topic |-> "batch"]
                /\ history = [f \in Files |-> <<"empty", "empty", "good">>]
ForumRests == newest = 0 /\ lazy

ExportInit ==
  /\ Init /\ Forum!Init
  /\ \/ which = "session" /\ ForumRests
     \/ which = "forum" /\ SessionRests

OfSession(A) == which = "session" /\ A /\ UNCHANGED <<which, forumVars>>
OfForum(A)   == which = "forum" /\ A /\ UNCHANGED <<which, vars>>

ExportNext == OfSession(Next) \/ OfForum(Forum!Next)

ExportSpec ==
  /\ ExportInit /\ [][ExportNext]_<<which, vars, forumVars>>
  /\ WF_<<which, vars>>(OfSession(Export))

(* Every run that is not killed tries all its targets, whatever fails.     *)
SessionTriesAll == which = "session" => AllTargetsTried

(* A topic chosen from an unbroken list is exported.                       *)
ChoiceIsFound == Forum!ChoiceIsFound
=============================================================================
