----------------------------- MODULE MCServices -----------------------------
(***************************************************************************)
(* Components that share no state, model-checked in one run: members of a  *)
(* channel, what is cached and told of an entity, lists of a user,         *)
(* uploads, what bots are told over HTTP, auth keys, and salts.  A         *)
(* behaviour is one of one component (which).  Entities has its own        *)
(* variables; those of the others take the places v1, v2, ...; what is not *)
(* used is None.                                                           *)
(***************************************************************************)
EXTENDS Entities, FiniteSets, TLC

CONSTANTS
    Users,          \* users of a channel, items of a list, tasks of uploads, what bots are told
    NoUser,
    Apps, InviteByAll, MaxInvites, MaxRequests,     \* of ChannelMembers
    MaxKeys, KeyBudgets,                            \* of AuthKeys
    MaxTime, MaxLists, MaxSet, Ahead                \* of Salts

ASSUME SetsAssumption == IsFiniteSet(Users) /\ IsFiniteSet(Tasks) /\ Tasks # {} /\ NoUser \notin Users

ASSUME BoundsAssumption ==
    MaxInvites \in Nat /\ MaxRequests \in Nat /\ MaxKeys \in Nat /\ MaxTime \in Nat /\ Ahead \in Nat

VARIABLES which, v1, v2, v3, v4, v5, v6, v7, v8, v9, v10, v11, v12, v13, v14, v15

\* Two members and admins at most; and a channel that is full with its creator:
\* nobody can be added, but join_channel and import_chat_invite let one more in.
Channels ==
    {[members |-> 2, admins |-> 2, grants |-> {{}, {"add_admins", "invite_users", "ban_users"}},
      bans |-> {{"invite_users"}, {"view_messages"}}],
     [members |-> 1, admins |-> 1, grants |-> {{}}, bans |-> {{"view_messages"}}]}
Members == INSTANCE ChannelMembers WITH
    row <- v1, creator <- v2, deleted <- v3, public <- v4, joinRequest <- v5, adminsCount <- v6,
    invite <- v7, request <- v8, task <- v9, begun <- v10, stale <- v11, strays <- v12,
    disturbed <- v13, crowd <- v14, app <- v15

ASSUME AppsAssumption ==
    \A a \in Apps :
        /\ a.members \in Nat /\ a.admins \in Nat
        /\ a.grants \subseteq SUBSET Members!AllRights
        /\ a.bans \subseteq SUBSET Members!BannedRights

UserLists == INSTANCE UserLists WITH
    Items <- Users, PinnedLimit <- 3, MaxOrder <- 2, Handlers <- 3,
    kind <- v1, place <- v2, archived <- v3, blank <- v4, task <- v5, told <- v6, asked <- v7,
    cause <- v8, left <- v9

Files ==
    {[parts |-> 3, last |-> 1, big |-> TRUE, saves |-> 4, uses |-> 1, mishaps |-> 0],
     [parts |-> 2, last |-> 1, big |-> FALSE, saves |-> 3, uses |-> 2, mishaps |-> 0]}
    \cup {[parts |-> 2, last |-> n, big |-> b, saves |-> 3, uses |-> 1, mishaps |-> 1] :
            n \in 1..2, b \in BOOLEAN}

Uploads == INSTANCE Uploads WITH
    Tasks <- Users, Mb <- 4, Kb <- 1, Uploads <- Files,
    upload <- v1, row <- v2, size <- v3, disk <- v4, stored <- v5, files <- v6, told <- v7,
    task <- v8, cause <- v9, left <- v10

BotApi == INSTANCE BotApi WITH
    Events <- Users, Pollers <- Tasks, Cap <- 1, Attempts <- 2,
    Budgets <- {[messages |-> 2, queries |-> 0, hooks |-> 2, mishaps |-> 0],
                [messages |-> 2, queries |-> 0, hooks |-> 1, mishaps |-> 1],
                [messages |-> 0, queries |-> 2, hooks |-> 0, mishaps |-> 0],
                [messages |-> 0, queries |-> 1, hooks |-> 0, mishaps |-> 1]},
    store <- v1, event <- v2, poll <- v3, post <- v4, ask <- v5, topics <- v6, answer <- v7,
    cached <- v8, seen <- v9, left <- v10

\* The second lets a key be deleted and made again.
Handshakes == {[repeats |-> 2, binds |-> 1, mishaps |-> 0], [repeats |-> 1, binds |-> 3, mishaps |-> 1]}
AuthKeys == INSTANCE AuthKeys WITH
    Conns <- Tasks, Budgets <- KeyBudgets,
    row <- v1, unknown <- v2, ses <- v3, made <- v4, conn <- v5, inbox <- v6, client <- v7,
    asked <- v8, told <- v9, binds <- v10, cause <- v11, left <- v12

Salts == INSTANCE Salts WITH
    now <- v1, at <- v2, client <- v3, sent <- v4, answer <- v5, refusals <- v6, left <- v7

None == "none"
NoEntity ==
    row = None /\ side = None /\ cache = None /\ task = None /\ told = None /\ cause = None /\ left = None
from13 == <<v13, v14, v15>>
from11 == <<v11, v12, from13>>
from10 == <<v10, from11>>
from8 == <<v8, v9, from10>>
from1 == <<v1, v2, v3, v4, v5, v6, v7, from8>>
NoneFrom13 == v13 = None /\ v14 = None /\ v15 = None
NoneFrom11 == v11 = None /\ v12 = None /\ NoneFrom13
NoneFrom10 == v10 = None /\ NoneFrom11
NoneFrom8 == v8 = None /\ v9 = None /\ NoneFrom10
NoneFrom1 ==
    v1 = None /\ v2 = None /\ v3 = None /\ v4 = None /\ v5 = None /\ v6 = None /\ v7 = None /\ NoneFrom8

ServicesInit ==
    \/ which = "entity" /\ Init /\ NoneFrom1
    \/ which = "members" /\ Members!Init /\ NoEntity
    \/ which = "lists" /\ UserLists!Init /\ NoEntity /\ NoneFrom10
    \/ which = "uploads" /\ Uploads!Init /\ NoEntity /\ NoneFrom11
    \/ which = "bot_api" /\ BotApi!Init /\ NoEntity /\ NoneFrom11
    \/ which = "keys" /\ AuthKeys!Init /\ NoEntity /\ NoneFrom13
    \/ which = "salts" /\ Salts!Init /\ NoEntity /\ NoneFrom8

ServicesNext ==
    \/ which = "entity" /\ Next /\ UNCHANGED <<which, from1>>
    \/ which = "members" /\ Members!Next /\ UNCHANGED <<which, vars>>
    \/ which = "lists" /\ UserLists!Next /\ UNCHANGED <<which, vars, from10>>
    \/ which = "uploads" /\ Uploads!Next /\ UNCHANGED <<which, vars, from11>>
    \/ which = "bot_api" /\ BotApi!Next /\ UNCHANGED <<which, vars, from11>>
    \/ which = "keys" /\ AuthKeys!Next /\ UNCHANGED <<which, vars, from13>>
    \/ which = "salts" /\ Salts!Next /\ UNCHANGED <<which, vars, from8>>

ServicesSpec == ServicesInit /\ [][ServicesNext]_<<which, vars, from1>>

Symmetry == Permutations(Users) \cup Permutations(Tasks)

-----------------------------------------------------------------------------
(* The properties of the components, which say more about them *)

\* However requests overlap, a channel has no more members than allowed and
\* those who were entering at once, the count of its admins is right once one
\* has been counted since, its creator is an admin whom nobody bans, and whoever
\* asks to join is outside (join_channel, sync_admins_count, edit_banned).
MembersAreInOrder ==
    which = "members" =>
        Members!LimitsBounded /\ Members!AdminsCountSettled /\ Members!CreatorSafe /\ Members!RequestersAreOutside

\* Who is outside becomes a member only by entering (edit_banned, import_chat_invite).
OnlyEntryReadmits == [][which = "members" => Members!OnlyEntryStep]_v1

\* What is cached of an entity under its version is the entity, and so is what
\* clients were last sent, unless handlers overlapped or one forgot the version
\* or the clients (update_user, update_channel, update_chat).
EntityIsAsTold == which = "entity" => CacheIsTrue /\ ClientsAreTold

\* Clients that follow the updates have the list, in the order that was asked
\* for; and a folder can be made (reorder_pinned_dialogs, update_dialog_filter).
ListsAreAsTold == which = "lists" => UserLists!ListsAreAsTold /\ UserLists!FoldersCanBeMade

\* A file that was uploaded is whole, and read in pieces comes whole; and an
\* upload that was said to be saved can be used (finalize_upload, get_file).
UploadsAreWhole == which = "uploads" => Uploads!FilesAreWhole /\ Uploads!UploadsCanBeUsed

\* An update is handed to the bot once, no request sleeps while there is one,
\* and a user who waits for the bot gets the answer to his own query if it came
\* in time (get_updates, set_webhook, get_bot_callback_answer).
BotIsTold ==
    which = "bot_api" => BotApi!EachUpdateOnce /\ BotApi!NobodySleepsOnUpdates /\ BotApi!AnswersArrive

\* A key that the client was told is made is stored as such, is not one the
\* gateway takes for unknown, unless its row was made again, and stays bound
\* until another one is; and a client that does as it is told of its salt is
\* soon accepted (set_client_dh_params, _get_auth_data, bind_temp_auth_key,
\* is_message_bad).
KeysAndSaltsHold ==
    /\ which = "keys" =>
          AuthKeys!KeysAreAgreed /\ AuthKeys!StoredIsNotUnknown /\ AuthKeys!LastBindHolds
    /\ which = "salts" => Salts!RefusedTwiceAtMost
=============================================================================
