----------------------------- MODULE MCContent ------------------------------
(***************************************************************************)
(* Five components that share no state, model-checked in one run: what     *)
(* users say to the built-in bots, sticker sets, paging, threads, and      *)
(* privacy.  A behaviour is one of one component (which).  Conversations   *)
(* has its own variables; those of the others take the places v1, v2, ...; *)
(* what is not used is None.                                               *)
(***************************************************************************)
EXTENDS Conversations, Integers, TLC

CONSTANT Pair   \* users, or groups

\* Two stickers of a new set, and its icon, take nine messages.
Turns == [b \in DOMAIN Handlers |-> IF b = "stickers" THEN 9 ELSE 7]

VARIABLES which, v1, v2, v3, v4, v5, v6, v7, v8, v9, v10, v11, v12, v13

StickerSets == INSTANCE StickerSets WITH
    MaxStickers <- 3, MaxFiles <- 5, Budgets <- {[writers |-> 2, readers |-> 1]},
    set <- v1, thumb <- v2, files <- v3, infos <- v4, answers <- v5, task <- v6, client <- v7,
    cause <- v8, left <- v9

\* Messages of the kinds that requests tell apart, and the requests.
Text == [type |-> "regular", media |-> "none", file |-> "none", url |-> FALSE, pinned |-> FALSE,
         mentions |-> FALSE, saved |-> FALSE, mine |-> FALSE, reply_to |-> 0, top |-> 0]
Reply == [Text EXCEPT !.media = "photo", !.mentions = TRUE, !.saved = TRUE, !.top = 1]
Later == [Text EXCEPT !.type = "scheduled", !.media = "photo", !.mine = TRUE]
Joined == [Text EXCEPT !.type = "joined"]

Page == INSTANCE History WITH
    MaxLimit <- 2, Peers <- {1, 2, 3}, MaxId <- 4, Budgets <- {},
    of <- v1, sent <- v2, gone <- v3, floor <- v4, dialog <- v5, req <- v6, client <- v7, left <- v8

Paging ==
    {[of |-> "messages", sorts |-> {Text, Reply, Later},
      asks |-> {Page!GetHistory, Page!GetReplies(1), Page!Search("photos"),
                Page!GetSearchResultsPositions("photos"), Page!GetSearchResultsCalendar("photos")},
      changes |-> 0, jumps |-> 1, pages |-> 0],
     [of |-> "messages", sorts |-> {Text, Reply, Joined},
      asks |-> {Page!GetHistory, Page!Search("empty"), Page!GetSavedHistory, Page!GetUnreadMentions},
      changes |-> 2, jumps |-> 0, pages |-> 1],
     [of |-> "dialogs", sorts |-> {Text}, asks |-> {}, changes |-> 1, jumps |-> 0, pages |-> 1]}

History == INSTANCE History WITH
    MaxLimit <- 2, Peers <- {1, 2, 3}, MaxId <- 4, Budgets <- Paging,
    of <- v1, sent <- v2, gone <- v3, floor <- v4, dialog <- v5, req <- v6, client <- v7, left <- v8

Threads == INSTANCE Threads WITH
    Groups <- Pair, MaxRefs <- 5,
    Budgets <- {[of |-> "discussion", handlers |-> 3, crashes |-> 0],
                [of |-> "forum", handlers |-> 4, crashes |-> 0],
                [of |-> "forum", handlers |-> 3, crashes |-> 1],
                [of |-> "views", handlers |-> 3, crashes |-> 0]},
    of <- v1, ref <- v2, gone <- v3, linked <- v4, forum <- v5, topic <- v6, next <- v7, lock <- v8,
    read <- v9, post <- v10, task <- v11, cause <- v12, left <- v13

Privacy == INSTANCE Privacy WITH
    Users <- Pair, MaxVersion <- 1, Budgets <- {[checks |-> 2, writes |-> 1]},
    rule <- v1, contact <- v2, nextId <- v3, cache <- v4, task <- v5, left <- v6

NoConversation ==
    bot = None /\ row = None /\ owned = None /\ drafts = None /\ task = None /\ raced = None /\ left = None
NoneFrom10 == v10 = None /\ v11 = None /\ v12 = None /\ v13 = None
NoneFrom9 == v9 = None /\ NoneFrom10
NoneFrom7 == v7 = None /\ v8 = None /\ NoneFrom9
NoneFrom1 == v1 = None /\ v2 = None /\ v3 = None /\ v4 = None /\ v5 = None /\ v6 = None /\ NoneFrom7
from10 == <<v10, v11, v12, v13>>
from9 == <<v9, from10>>
from7 == <<v7, v8, from9>>
from1 == <<v1, v2, v3, v4, v5, v6, from7>>

ContentInit ==
    \/ which = "conversation" /\ Init /\ NoneFrom1
    \/ which = "stickers" /\ StickerSets!Init /\ NoConversation /\ NoneFrom10
    \/ which = "history" /\ History!Init /\ NoConversation /\ NoneFrom9
    \/ which = "threads" /\ Threads!Init /\ NoConversation
    \/ which = "privacy" /\ Privacy!Init /\ NoConversation /\ NoneFrom7

ContentNext ==
    \/ which = "conversation" /\ Next /\ UNCHANGED <<which, from1>>
    \/ which = "stickers" /\ StickerSets!Next /\ UNCHANGED <<which, vars, from10>>
    \/ which = "history" /\ History!Next /\ UNCHANGED <<which, vars, from9>>
    \/ which = "threads" /\ Threads!Next /\ UNCHANGED <<which, vars>>
    \/ which = "privacy" /\ Privacy!Next /\ UNCHANGED <<which, vars, from7>>

ContentSpec == ContentInit /\ [][ContentNext]_<<which, vars, from1>>

Symmetry == Permutations(Tasks) \cup Permutations(Pair)

-----------------------------------------------------------------------------
(* The properties of the components, which say more about them *)

\* What the bot waits for and the data it has kept agree, a set, a bot or a
\* message to users that was begun is carried out once, and with every sticker
\* the bot said it has added, unless messages of the user were handled at once
\* and one wrote over what the other had read (BotInteractionHandler).
ConversationsHold == which = "conversation" => DataFits /\ CarriedOutOnce /\ ConfirmedIsPublished

\* A client that is told its set is not modified has the set, and the count of
\* stickers is right when all is done (get_stickerset, add_sticker_to_set).
StickerSetsAreTrue == which = "stickers" => StickerSets!NotModifiedIsTrue /\ StickerSets!CountsAreRight

\* A page is the window of the list that was asked for, and what is counted for
\* it fits, if nothing changes between the statements; and a client that pages
\* to the end gets all that was there all the time once, whatever arrives and is
\* deleted meanwhile (get_messages_internal, format_messages_internal, get_dialogs).
PagesAreRight ==
    which = "history" => History!PageIsWindow /\ History!CountsFitPages /\ History!PagedOnce

\* However a comment thread is named, it is the same; a forum has its topics;
\* and a view of a post counts once (resolve_read_discussion_target,
\* ensure_general_topic, get_messages_views).
ThreadsAreWhole ==
    which = "threads" => Threads!ThreadsAgree /\ Threads!TopicsAreWhole /\ Threads!ViewsCountedOnce

\* The user's read state of a thread or a topic goes back only when the handler
\* that sets it had read it before another set it (read_discussion).
ThreadReadsGoUp == [][which = "threads" => Threads!ReadsGoUpStep]_v9

\* What a check of a privacy rule answers, from the cache or not, is what the
\* rule and the contacts said at some moment of it (has_access_to_bulk).
AccessAsRule == which = "privacy" => Privacy!AccessAsRule
=============================================================================
