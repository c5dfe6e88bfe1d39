------------------------------ MODULE Entities ------------------------------
(***************************************************************************)
(* What clients are shown of a user, chat, channel, poll or message, and   *)
(* the cache it is taken from.                                             *)
(*                                                                         *)
(* An entity is a row with a version, and rows of other tables (usernames, *)
(* photos, votes, reactions ...).  The object that clients get is built    *)
(* from both and cached under the entity's id and version, so whoever      *)
(* changes the entity has to change its version, or delete the key.  The   *)
(* row is loaded into memory, changed and saved without a lock; between    *)
(* any two statements other tasks run.                                     *)
(*                                                                         *)
(* A handler is the set of the ways it can go, for each entity it changes: *)
(* sequences of these statements.                                          *)
(*   "val"    the field is saved            "val+"  with the version + 1   *)
(*   "val="   with the version in memory    "+"     the version + 1 alone  *)
(*   "F"      UPDATE version = version + 1  "valF"  and of the field       *)
(*   "side"   a row of another table is written                            *)
(*   "side+", "sideF"   both in a transaction                              *)
(*   "get"    the row is read again         "ver"   its version is         *)
(*   "mem"    the version in memory + 1     "drop"  the key is deleted     *)
(*   "tell"   to_tl, and the object is sent to clients                     *)
(*   "anew"   the same without a look at the cache                         *)
(*   "show"   to_tl for a request           "peek"  the cache, or "get"    *)
(* Requests that are refused, or that would change nothing (NOT_MODIFIED), *)
(* end before the first statement.  Left out: what expires from the cache, *)
(* deleted entities, which are shown without it, admin logs and messages.  *)
(***************************************************************************)
EXTENDS Integers, Sequences

CONSTANTS
    Tasks,      \* handlers that can run at once
    Writings,   \* bound: how many that change the entity are run
    Readings    \* bound: how many that show it are run

VARIABLES
    row,      \* the entity's row: a field, and the version
    side,     \* the rows in other tables
    cache,    \* version -> the object, or Nothing
    task,     \* task -> the handler it runs, and how far it is
    told,     \* the object that was last sent to clients, and if it must be right
    cause,    \* what has gone wrong that the properties below make allowance for
    left      \* handlers that can still be run

vars == <<row, side, cache, task, told, cause, left>>

Vers == 1..(Writings + 1)
Nothing == [val |-> 0, side |-> 0]
Idle == [prog |-> <<>>, pc |-> 0, own |-> [val |-> 0, ver |-> 0], fill |-> Nothing, crossed |-> FALSE]
Now == [val |-> row.val, side |-> side]
Other(v) == 3 - v     \* the field and the rows have one of two values, 1 and 2

Init ==
    /\ row = [val |-> 1, ver |-> 1]
    /\ side = 1
    /\ cache \in {[v \in Vers |-> Nothing], [v \in Vers |-> IF v = 1 THEN Now ELSE Nothing]}
    /\ task = [t \in Tasks |-> Idle]
    /\ told = [obj |-> Now, sure |-> TRUE]
    /\ cause = [clash |-> FALSE, crossed |-> {}, unkeyed |-> {}]
    /\ left = [writers |-> Writings, readers |-> Readings]

-----------------------------------------------------------------------------
(* Channels *)

Saved == <<"val+", "tell">>     \* most handlers: the field and the version in a save

\* ChatBase.update, with a title, a description, a photo or a period
ChatUpdate == <<"val+">>

EditChannelTitle == {ChatUpdate \o <<"tell">>}
EditChannelPhoto == {ChatUpdate \o <<"tell">>}
ToggleSignatures == {Saved}
SetChatAvailableReactions == {Saved, <<"side", "val+", "tell">>}
TogglePreHistoryHidden == {Saved}
ToggleJoinToSend == {Saved}
ToggleJoinRequest == {Saved}
ToggleSlowmode == {Saved}
ToggleParticipantsHidden == {Saved}
SetStickers == {Saved}
SetChannelWallpaper == {Saved}
SetDiscussionGroup == {Saved}     \* the channel, its old group and the new one
UpdateColor == {<<"val", "tell">>}
\* The channel, and its discussion group.
UpdateUsername == {<<"side", "F", "ver", "tell">>, <<"side", "val", "F", "ver", "tell">>, Saved}
\* The linked channel or group is unlinked.
UnlinkChannelMaybe == {<<"val">>}
DeleteChannel == {Saved} \cup UnlinkChannelMaybe
EnableForum == {<<"val", "F", "ver", "tell">>}
ToggleForum == {<<"val", "F", "ver", "tell">>} \cup EnableForum
SetHistoryTtl == {ChatUpdate \o <<"tell">>}
\* A call begins or ends.
FreshGroupCallChat == {<<"side", "drop", "tell">>}

-----------------------------------------------------------------------------
(* Basic groups *)

EditChatTitle == {ChatUpdate \o <<"tell">>}
EditChatAbout == {ChatUpdate \o <<"tell">>}
EditChatPhoto == {ChatUpdate \o <<"tell">>}
AddChatUser == {<<"valF", "get", "tell">>}
DeleteChatUser == {<<"valF", "get", "tell">>}
EditChatAdmin == {<<"side", "+", "tell">>}
ToggleNoForwards == {Saved}
EditChatDefaultBannedRights == {Saved}
MigrateChat == {<<"valF", "get", "tell">>}
DeleteChat == {<<"valF", "get", "tell">>}

-----------------------------------------------------------------------------
(* Users *)

\* Mutant: the key is deleted when the object has been sent.
UpdateUserTellsFirst == <<"tell", "drop">>

UpdateUser == <<"drop", "tell">>     \* upd.update_user
IncVersion == <<"F", "ver">>

UpdateUserUsername == {<<"side+", "tell">>, <<"side", "+", "tell">>}
UpdateProfile == {Saved, <<"val+">> \o UpdateUser}
UpdateBirthday == {<<"val+">> \o UpdateUser}
ChangePhone == {Saved}
DeleteAccount == {<<"valF">>}
UpdateUserColor == {<<"side", "val+">> \o UpdateUser}
UpdatePersonalChannel == {UpdateUser}     \* it is not part of the object
UpdateEmojiStatus == {<<"side">> \o IncVersion \o <<"tell">>}
\* Of a bot's photo the owner's version changes, not the bot's.
UploadProfilePhoto == {<<"side+">> \o UpdateUser, <<"side">> \o UpdateUser}
DeletePhotos == {<<"side+">> \o UpdateUser}
UpdateProfilePhoto == {<<"side+">> \o UpdateUser, <<"side">> \o UpdateUser}

-----------------------------------------------------------------------------
(* Administration *)

SetUserSupport == {<<"val">> \o IncVersion \o <<"drop">> \o UpdateUser}
SetUserVerified == {<<"val", "drop">> \o IncVersion \o UpdateUser}
SetChatVerified == {Saved}
SetChannelVerified == {Saved}
SetUserSpamBlocked == {<<"val">> \o IncVersion \o UpdateUser}
SetUserAdmin == {<<"val">> \o IncVersion \o UpdateUser}

SetUserUsername == {<<"side+", "get", "tell">>, <<"get", "tell">>}
SetChannelUsername == {<<"side", "F", "ver", "tell">>}
ApplyUserFieldValue == SetUserUsername \cup {<<"val+", "get", "tell">>, <<"val+">> \o UpdateUser}
ApplyChannelFieldValue == {ChatUpdate \o <<"tell">>} \cup SetChannelUsername
ApplyGroupFieldValue == {ChatUpdate \o <<"tell">>}

SetBotFirstName == {<<"val=">> \o IncVersion \o UpdateUser}
SetBotLastName == {<<"val=">> \o IncVersion \o UpdateUser}
SetBotAbout == {<<"val=">> \o IncVersion \o UpdateUser}
SetBotDescription == {<<"F", "side", "get">> \o UpdateUser}
SetBotPrivacyPolicy == {<<"F", "side", "get">> \o UpdateUser}
SetBotUsername == {<<"side+", "tell">>}
ApplyBotFieldValue ==
    UNION {SetBotFirstName, SetBotLastName, SetBotAbout, SetBotDescription,
           SetBotPrivacyPolicy, SetBotUsername}
ToggleBotSystem == {<<"val=">> \o IncVersion \o UpdateUser}

KickChatMember == {<<"valF">>}
KickChannelMember == {<<"valF">>}
TransferChatOwner == {<<"val=", "tell">>}
TransferChannelOwner == {Saved}
DeleteChannelAdmin == {Saved}
AdminDeleteBot == {<<"val=">> \o IncVersion \o UpdateUser \o <<"side">>, <<"val=">> \o IncVersion \o <<"side">>}
AdminDeleteUser == {<<"valF">>}
AdminRestoreUser == {<<"valF", "get">> \o UpdateUser}
AdminRestoreBot == {<<"valF", "side", "get">> \o UpdateUser}

\* BotFather: nobody is told of what the owner changes.
EditbotName == {<<"valF">>}
EditbotAbout == {<<"valF">>}
EditbotDescription == {<<"sideF">>}
EditbotPhoto == {<<"sideF">>}
EditbotPrivacy == {<<"sideF">>}
EditbotCommands == {<<"sideF">>}
\* The settings of a bot are part of the object by the version of its BotInfo.
BotSettings == {<<"side">>}

-----------------------------------------------------------------------------
(* Polls and messages *)

SendVote == {<<"side", "F", "mem", "anew">>}
SendReaction == {<<"side", "F", "ver", "tell">>}
ReadReactions == {<<"F">>}
ReadMentions == {<<"side", "get", "drop">>, <<"sideF">>}
ReadMessageContents == {<<"side", "drop">>}

-----------------------------------------------------------------------------
Writers ==
    UNION {EditChannelTitle, EditChannelPhoto, ToggleSignatures, SetChatAvailableReactions,
           TogglePreHistoryHidden, ToggleJoinToSend, ToggleJoinRequest, ToggleSlowmode,
           ToggleParticipantsHidden, SetStickers, SetChannelWallpaper, SetDiscussionGroup,
           UpdateColor, UpdateUsername, DeleteChannel, ToggleForum, SetHistoryTtl,
           FreshGroupCallChat, EditChatTitle, EditChatAbout, EditChatPhoto, AddChatUser,
           DeleteChatUser, EditChatAdmin, ToggleNoForwards, EditChatDefaultBannedRights,
           MigrateChat, DeleteChat, UpdateUserUsername, UpdateProfile, UpdateBirthday,
           ChangePhone, DeleteAccount, UpdateUserColor, UpdatePersonalChannel,
           UpdateEmojiStatus, UploadProfilePhoto, DeletePhotos, UpdateProfilePhoto,
           SetUserSupport, SetUserVerified, SetChatVerified, SetChannelVerified,
           SetUserSpamBlocked, SetUserAdmin, ApplyUserFieldValue, ApplyChannelFieldValue,
           ApplyGroupFieldValue, ApplyBotFieldValue, ToggleBotSystem, KickChatMember,
           KickChannelMember, TransferChatOwner, TransferChannelOwner, DeleteChannelAdmin,
           AdminDeleteBot, AdminDeleteUser, AdminRestoreUser, AdminRestoreBot, EditbotName,
           EditbotAbout, EditbotDescription, EditbotPhoto, EditbotPrivacy, EditbotCommands,
           BotSettings, SendVote, SendReaction, ReadReactions, ReadMentions,
           ReadMessageContents}

\* The object is shown; with only the id and the version at hand the row is
\* read if it is not cached.
ChatToTl == {<<"show">>}
ChatToTlBulk == {<<"show">>}
ChannelToTlBulk == {<<"show">>}
ChannelToTlMaybecached == {<<"peek", "show">>}
UserToTl == {<<"show">>}
UserToTlBulk == {<<"show">>}
UserToTlMaybecached == {<<"peek", "show">>}
PollToTlResults == {<<"show">>}
PollToTlResultsBulk == {<<"show">>}
MessageToTlRefBulk == {<<"show">>}
MessageToTlContent == {<<"show">>}
MessageToTlContentBulk == {<<"show">>}
MessageToTlReactions == {<<"show">>}
MessageToTlReactionsBulk == {<<"show">>}
MessageToTlReplies == {<<"show">>}
MessageToTlRepliesBulk == {<<"show">>}

Readers ==
    UNION {ChatToTl, ChatToTlBulk, ChannelToTlBulk, ChannelToTlMaybecached, UserToTl, UserToTlBulk,
           UserToTlMaybecached, PollToTlResults, PollToTlResultsBulk, MessageToTlRefBulk,
           MessageToTlContent, MessageToTlContentBulk, MessageToTlReactions,
           MessageToTlReactionsBulk, MessageToTlReplies, MessageToTlRepliesBulk}

\* After the last change of these, neither the version nor the key changes.
Forgetful == UNION {UpdateColor, UnlinkChannelMaybe, TransferChatOwner, AdminDeleteBot, BotSettings}

\* These tell nobody.
Silent ==
    UNION {UnlinkChannelMaybe, DeleteAccount, KickChatMember, KickChannelMember, AdminDeleteUser,
           EditbotName, EditbotDescription, BotSettings, ReadReactions, ReadMentions,
           ReadMessageContents}

-----------------------------------------------------------------------------
(* The statements *)

Running(t) == task[t].pc # 0
Statement(t) == IF Running(t) THEN task[t].prog[task[t].pc] ELSE "none"

\* Mutant: a save of a field leaves the version alone.
NewRowUnversioned(t) ==
    LET s == Statement(t)
        v == IF s \in {"val", "val+", "val=", "valF"} THEN Other(row.val) ELSE row.val
    IN  [val |-> v, ver |-> CASE s \in {"+", "side+"} -> task[t].own.ver + 1
                              [] s \in {"F", "valF", "sideF"} -> row.ver + 1
                              [] OTHER -> row.ver]
\* What task t's statement makes of the row.
NewRow(t) ==
    LET s == Statement(t)
        v == IF s \in {"val", "val+", "val=", "valF"} THEN Other(row.val) ELSE row.val
    IN  [val |-> v, ver |-> CASE s \in {"val+", "+", "side+"} -> task[t].own.ver + 1
                              [] s = "val=" -> task[t].own.ver
                              [] s \in {"F", "valF", "sideF"} -> row.ver + 1
                              [] OTHER -> row.ver]

\* And of the row in memory.
NewOwn(t) ==
    LET s == Statement(t)
        own == task[t].own
    IN  CASE s = "val" -> [own EXCEPT !.val = Other(row.val)]
          [] s \in {"val+", "val=", "+", "side+"} -> [val |-> IF s \in {"val+", "val="} THEN Other(row.val) ELSE own.val,
                                                      ver |-> NewRow(t).ver]
          [] s \in {"get", "peek"} -> row
          [] s = "ver" -> [own EXCEPT !.ver = row.ver]
          [] s = "mem" -> [own EXCEPT !.ver = @ + 1]
          [] OTHER -> own

Sides == {"side", "side+", "sideF"}
Versioned == {"val+", "val=", "+", "side+"}
Changes == {"val", "val+", "val=", "valF"} \cup Sides

\* Task t goes on; what it has done crossed the others.
Continues(t, r, crossing) ==
    task' = [u \in Tasks |->
                IF u = t THEN IF r.pc > Len(r.prog) THEN Idle ELSE r
                ELSE IF Running(u) /\ crossing THEN [task[u] EXCEPT !.crossed = TRUE] ELSE task[u]]

Following(t) == [task[t] EXCEPT !.pc = @ + 1, !.fill = Nothing]

Begin(t, kind, prog) ==
    /\ task' = [task EXCEPT ![t] = [Idle EXCEPT !.prog = prog, !.pc = 1, !.own = row]]
    /\ left' = [left EXCEPT ![kind] = @ - 1]
    /\ UNCHANGED <<row, side, cache, told, cause>>

\* Statements on the tables.
Write(t) ==
    LET s == Statement(t) IN
    /\ s \in Changes \cup {"+", "F"}
    /\ row' = NewRow(t)
    /\ side' = IF s \in Sides THEN Other(side) ELSE side
    /\ Continues(t, [Following(t) EXCEPT !.own = NewOwn(t)], TRUE)
    /\ cause' = [cause EXCEPT !.clash = @ \/ (s \in Versioned /\ task[t].own.ver # row.ver),
                              !.unkeyed = IF task[t].prog \in Forgetful THEN @ \cup {row'.ver} ELSE @]
    /\ told' = [told EXCEPT !.sure = @ /\ task[t].prog \notin Silent \cup AdminDeleteBot]
    /\ UNCHANGED <<cache, left>>

Read(t) ==
    LET s == Statement(t)
        hit == s = "peek" /\ cache[task[t].own.ver] # Nothing
    IN  /\ s \in {"get", "ver", "mem", "peek"}
        /\ Continues(t, IF hit THEN Idle
                        ELSE [Following(t) EXCEPT !.own = NewOwn(t),
                                                  !.crossed = @ /\ s \in {"ver", "mem"}], FALSE)
        /\ UNCHANGED <<row, side, cache, told, cause, left>>

\* The version in memory may have changed meanwhile.
StaleKey(t) ==
    cause' = [cause EXCEPT !.crossed = IF task[t].own.ver # row.ver THEN @ \cup {row.ver} ELSE @]

Drop(t) ==
    /\ Statement(t) = "drop"
    /\ cache' = [cache EXCEPT ![task[t].own.ver] = Nothing]
    /\ Continues(t, Following(t), TRUE)
    /\ StaleKey(t)
    /\ UNCHANGED <<row, side, told, left>>

-----------------------------------------------------------------------------
(* to_tl *)

Objects == {"tell", "anew", "show"}

Tell(t, obj) ==
    told' = IF Statement(t) = "show" THEN told
            ELSE [obj |-> obj,
                  sure |-> /\ ~task[t].crossed /\ ~cause.clash
                           /\ \A u \in Tasks \ {t} : task[u].prog \notin Writers
                           /\ task[t].own.ver \notin cause.crossed \cup cause.unkeyed
                           /\ task[t].prog \notin Forgetful]

\* The cache has the object; a user's is saved again if the last seen time changed.
Lookup(t) ==
    LET k == task[t]
        obj == IF Statement(t) = "anew" THEN Nothing ELSE cache[k.own.ver]
    IN  /\ Statement(t) \in Objects /\ k.fill = Nothing
        /\ \/ /\ obj # Nothing
              /\ Tell(t, obj)
              /\ Continues(t, Following(t), FALSE)
           \/ /\ obj # Nothing /\ UNCHANGED told
              /\ Continues(t, [k EXCEPT !.fill = obj], FALSE)
           \/ /\ obj = Nothing /\ UNCHANGED told
              /\ Continues(t, [k EXCEPT !.fill = [val |-> k.own.val, side |-> side]], FALSE)
        /\ UNCHANGED <<row, side, cache, cause, left>>

\* The object is built from the row in memory and what was read beside it.
Fill(t) ==
    LET k == task[t] IN
    /\ Statement(t) \in Objects /\ k.fill # Nothing
    /\ cache' = [cache EXCEPT ![k.own.ver] = k.fill]
    /\ cause' = [cause EXCEPT !.crossed = IF k.crossed THEN @ \cup {k.own.ver} ELSE @]
    /\ Tell(t, k.fill)
    /\ Continues(t, Following(t), FALSE)
    /\ UNCHANGED <<row, side, left>>

Next ==
    \E t \in Tasks :
        \/ ~Running(t) /\ left["writers"] > 0 /\ \E prog \in Writers : Begin(t, "writers", prog)
        \/ ~Running(t) /\ left["readers"] > 0 /\ \E prog \in Readers : Begin(t, "readers", prog)
        \/ Write(t) \/ Read(t) \/ Drop(t) \/ Lookup(t) \/ Fill(t)

Spec == Init /\ [][Next]_vars

-----------------------------------------------------------------------------
(* Properties *)

\* Once no handler runs, what is cached under the entity's version is the
\* entity, unless a save wrote a version computed from one that had changed, a
\* key was deleted of a version that had changed, an object built before a
\* change was cached after it, or one of the handlers that forget the version
\* came last (to_tl, _cache_key).
CacheIsTrue ==
    (\A t \in Tasks : ~Running(t)) =>
        \/ cause.clash
        \/ row.ver \in cause.crossed \cup cause.unkeyed
        \/ cache[row.ver] \in {Nothing, Now}

\* Once no handler runs, the object clients were last sent is the entity,
\* unless the handler that sent it ran into another one, its object came from
\* such a cache, or a handler that tells nobody came after it (update_user,
\* update_channel, update_chat).
ClientsAreTold ==
    (\A t \in Tasks : ~Running(t)) /\ told.sure => told.obj = Now

=============================================================================
