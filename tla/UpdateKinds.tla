---------------------------- MODULE UpdateKinds ----------------------------
(***************************************************************************)
(* What each function of app/utils/updates_manager.py does to the log of   *)
(* one of its recipients, and what becomes of its rows in a difference     *)
(* (Update.to_tl, ChannelUpdate.to_tl).                                    *)
(*                                                                         *)
(* A function is the set of emissions it can make: the log it writes, how  *)
(* many pts it takes, the rows it stores at an offset below the last of    *)
(* them, and the order of its steps after it took the pts.  The contents   *)
(* of an update and the users, chats and channels sent with it are left    *)
(* out.                                                                    *)
(***************************************************************************)
EXTENDS Integers, Sequences, TLC

CONSTANT Items  \* bound: how many messages, dialogs ... one update may be about

ASSUME ItemsAssumption == Items \subseteq Nat

-----------------------------------------------------------------------------
(* Rendering.  "plain": always shown; "owned": refers to an object by a    *)
(* foreign key, so the row is deleted with it; "named": looked up when it  *)
(* is rendered, and shown only if it is found (and visible); "message" and *)
(* "edit" are owned rows of a channel's message, "secret" of a secret chat *)

\* to_tl: messages, dialogs and users.
ShownDialogs ==
    [MESSAGE_DELETE |-> "plain", MESSAGE_EDIT |-> "owned", DIALOG_PIN |-> "owned",
     DIALOG_PIN_REORDER |-> "plain", DRAFT_UPDATE |-> "owned", USER_UPDATE |-> "plain",
     CHAT_CREATE |-> "named", USER_UPDATE_NAME |-> "named", UPDATE_CONTACT |-> "owned",
     UPDATE_BLOCK |-> "owned", UPDATE_CHAT |-> "plain",
     UPDATE_DIALOG_UNREAD_MARK |-> "owned"]

\* to_tl: reading, folders, channels and polls.
ShownReads ==
    [READ_INBOX |-> "owned", READ_INBOX_CHANNEL |-> "plain", READ_OUTBOX |-> "owned",
     READ_OUTBOX_CHANNEL |-> "plain", FOLDER_PEERS |-> "plain", UPDATE_CHANNEL |-> "plain",
     UPDATE_POLL |-> "named", UPDATE_FOLDER |-> "plain", FOLDERS_ORDER |-> "plain"]

\* to_tl: what a user's sessions share; scheduled messages.
ShownAccount ==
    [UPDATE_ENCRYPTION |-> "secret", UPDATE_CONFIG |-> "plain",
     UPDATE_RECENT_REACTIONS |-> "plain", NEW_AUTHORIZATION |-> "owned",
     NEW_STICKERSET |-> "owned", UPDATE_STICKERSETS |-> "plain",
     UPDATE_STICKERSETS_ORDER |-> "plain", UPDATE_CHAT_WALLPAPER |-> "plain",
     READ_MESSAGES_CONTENTS |-> "plain", NEW_SCHEDULED_MESSAGE |-> "owned",
     DELETE_SCHEDULED_MESSAGE |-> "owned", UPDATE_HISTORY_TTL |-> "owned"]

\* to_tl: queries to bots, settings, calls, pins.
ShownSettings ==
    [BOT_CALLBACK_QUERY |-> "named", BOT_PRECHECKOUT_QUERY |-> "named",
     UPDATE_PHONE |-> "named", UPDATE_PEER_NOTIFY_SETTINGS |-> "named",
     SAVED_GIFS |-> "plain", BOT_INLINE_QUERY |-> "named",
     UPDATE_RECENT_STICKERS |-> "plain", UPDATE_FAVED_STICKERS |-> "plain",
     SAVED_DIALOG_PIN |-> "named", SAVED_DIALOG_PIN_REORDER |-> "plain",
     UPDATE_PRIVACY |-> "named"]

ShownRest ==
    [NEW_MESSAGE |-> "owned", UPDATE_MESSAGE_ID |-> "plain", PHONE_CALL |-> "named",
     UPDATE_CHANNEL_MIN_AVAILABLE_ID |-> "plain", PIN_MESSAGES |-> "owned",
     EMOJI_STATUS |-> "plain"]

\* ChannelUpdate.to_tl
ShownChannel ==
    [CHANNEL_UPDATE |-> "plain", CHANNEL_NEW |-> "message", CHANNEL_EDIT |-> "edit",
     CHANNEL_DELETE |-> "plain", CHANNEL_MIN_AVAILABLE_ID |-> "plain",
     CHANNEL_PIN |-> "plain"]

Shown == ShownDialogs @@ ShownReads @@ ShownAccount @@ ShownSettings @@ ShownRest
            @@ ShownChannel

\* The length of additional_data that to_tl insists on.
Arguments ==
    [READ_INBOX |-> 2, READ_INBOX_CHANNEL |-> 2, READ_OUTBOX |-> 1,
     READ_OUTBOX_CHANNEL |-> 1]

\* A type without a case, or with data of another length, is never shown.
Class(type, args) ==
    IF \/ type \notin DOMAIN Shown
       \/ type \in DOMAIN Arguments /\ Arguments[type] # args
    THEN "hidden" ELSE Shown[type]

Classes == {"plain", "owned", "named", "message", "edit", "secret", "hidden"}
Owned == {"owned", "message", "edit", "secret"}

-----------------------------------------------------------------------------
(* Emissions *)

Row(off, type) == [off |-> off, class |-> Class(type, 0)]
RowWith(off, type, args) == [off |-> off, class |-> Class(type, args)]
One(type) == {Row(0, type)}
Each(n, type) == {Row(k, type) : k \in 0 .. n - 1}

User(n, R, todo) == [log |-> "user", count |-> n, rows |-> R, todo |-> todo]
Channel(n, R, todo) == [log |-> "channel", count |-> n, rows |-> R, todo |-> todo]

StorePush == <<"store", "push">>
PushStore == <<"push", "store">>

\* Most functions: one pts, one row, stored before the push.
Stored(type) == {User(1, One(type), StorePush)}
Live == {}    \* pushed to the sessions that are connected, and never logged

(* Messages *)

\* A message with a random_id takes two pts.
send_message ==
    {User(1, One("NEW_MESSAGE"), StorePush),
     User(2, {Row(1, "UPDATE_MESSAGE_ID"), Row(0, "NEW_MESSAGE")}, StorePush)}
send_message_channel_user == {Channel(1, One("CHANNEL_NEW"), StorePush)}
send_message_channel == {Channel(1, One("CHANNEL_NEW"), StorePush)}
send_messages ==
    send_message \cup {User(n, Each(n, "NEW_MESSAGE"), StorePush) : n \in Items \ {0}}
\* The pts are taken and the rows stored in one transaction.
send_messages_channel ==
    {Channel(n, Each(n, "CHANNEL_NEW"), <<"within", "push">>) : n \in Items \ {0}}
delete_messages == {User(n, One("MESSAGE_DELETE"), PushStore) : n \in Items \ {0}}
\* The caller of delete_history may have nothing left to delete.
delete_messages_channel ==
    {Channel(n, One("CHANNEL_DELETE"), <<"store", "sweep", "push">>) : n \in Items}
edit_message == {User(1, One("MESSAGE_EDIT"), PushStore)}
edit_message_channel == {Channel(1, One("CHANNEL_EDIT"), StorePush)}

\* Pinned and unpinned messages have a row each, if there are any.
pin_messages ==
    UNION {{User(n, One("PIN_MESSAGES"), PushStore),
            User(n, Each(n, "PIN_MESSAGES"), PushStore)} : n \in Items \ {0}}
pin_channel_messages ==
    UNION {{Channel(n, One("CHANNEL_PIN"), PushStore),
            Channel(n, Each(n, "CHANNEL_PIN"), PushStore)} : n \in Items \ {0}}
new_scheduled_message == Stored("NEW_SCHEDULED_MESSAGE")
delete_scheduled_messages ==
    {User(n, One("DELETE_SCHEDULED_MESSAGE"), StorePush) : n \in Items}
update_history_ttl == Stored("UPDATE_HISTORY_TTL")
update_message_poll == Stored("UPDATE_POLL")
update_reactions == Live
read_messages_contents ==
    {User(n, One("READ_MESSAGES_CONTENTS"), StorePush) : n \in Items \ {0}}
read_channel_messages_contents == Live

(* Reading.  broadcast=False leaves out the push. *)
update_read_history_inbox ==
    {User(1, {RowWith(0, "READ_INBOX", 2)}, todo) : todo \in {StorePush, <<"store">>}}
update_read_history_inbox_channel ==
    {User(1, {RowWith(0, "READ_INBOX_CHANNEL", 2)}, todo)
        : todo \in {StorePush, <<"store">>}}
update_read_channel_discussion_inbox ==
    {User(1, {RowWith(0, "READ_INBOX_CHANNEL", 3)}, StorePush)}
update_read_channel_discussion_outbox ==
    {User(1, {RowWith(0, "READ_OUTBOX_CHANNEL", 2)}, StorePush)}
update_read_history_outbox_channel ==
    {User(1, {RowWith(0, "READ_OUTBOX_CHANNEL", 1)}, PushStore)}
update_read_history_outbox == {User(1, {RowWith(0, "READ_OUTBOX", 1)}, PushStore)}

(* Dialogs and folders *)
pin_dialog == Stored("DIALOG_PIN")
update_draft == Stored("DRAFT_UPDATE")
update_drafts == {User(n, Each(n, "DRAFT_UPDATE"), StorePush) : n \in Items}
reorder_pinned_dialogs == Stored("DIALOG_PIN_REORDER")
update_dialog_unread_mark == Stored("UPDATE_DIALOG_UNREAD_MARK")
\* edit_peer_folders may have changed no dialog.
update_folder_peers == {User(n, One("FOLDER_PEERS"), StorePush) : n \in Items}
update_folder == Stored("UPDATE_FOLDER")
update_folders_order == {User(n, One("FOLDERS_ORDER"), StorePush) : n \in Items \ {0}}
pin_saved_dialog == Stored("SAVED_DIALOG_PIN")
reorder_pinned_saved_dialogs == Stored("SAVED_DIALOG_PIN_REORDER")

(* Users *)
update_user == {User(1, One("USER_UPDATE"), PushStore)}
notify_user_deleted == {User(1, One("USER_UPDATE"), PushStore)}
update_status == Live
update_user_name == {User(1, One("USER_UPDATE_NAME"), PushStore)}
add_remove_contact == {User(n, Each(n, "UPDATE_CONTACT"), StorePush) : n \in Items}
block_unblock_user == Stored("UPDATE_BLOCK")
update_user_phone == Stored("UPDATE_PHONE")
update_user_emoji_status == Stored("EMOJI_STATUS")
update_privacy == Stored("UPDATE_PRIVACY")
update_peer_notify_settings == Stored("UPDATE_PEER_NOTIFY_SETTINGS")
new_auth == Stored("NEW_AUTHORIZATION")
update_config == Stored("UPDATE_CONFIG")
update_stars_balance == Live

(* Chats and channels *)
update_chat_participants == Stored("CHAT_CREATE")
update_chat == Stored("UPDATE_CHAT")
update_chat_default_banned_rights == Stored("UPDATE_CHAT_BANNED_RIGHTS")
migrate_chat == {User(2, {Row(1, "UPDATE_CHAT"), Row(0, "UPDATE_CHANNEL")}, StorePush)}
update_channel == {Channel(1, One("CHANNEL_UPDATE"), StorePush)}
update_channel_for_user == Stored("UPDATE_CHANNEL")
update_channel_available_messages ==
    {Channel(1, One("CHANNEL_MIN_AVAILABLE_ID"), StorePush)}
update_channel_participant_available_message ==
    Stored("UPDATE_CHANNEL_MIN_AVAILABLE_ID")

(* Stickers, gifs, reactions, wallpapers *)
new_stickerset == Stored("NEW_STICKERSET")
update_stickersets == Stored("UPDATE_STICKERSETS")
update_stickersets_order == Stored("UPDATE_STICKERSETS_ORDER")
update_recent_stickers == Stored("UPDATE_RECENT_STICKERS")
update_faved_stickers == Stored("UPDATE_FAVED_STICKERS")
update_saved_gifs == Stored("SAVED_GIFS")
update_recent_reactions == Stored("UPDATE_RECENT_REACTIONS")
update_chat_wallpaper == Stored("UPDATE_CHAT_WALLPAPER")

(* Secret chats, calls and bots *)

\* Earlier updates about the chat are deleted before the new one is stored.
encryption_update ==
    {User(1, One("UPDATE_ENCRYPTION"), <<"sweep", "store", "push">>)}
send_encrypted_update == Live
send_encrypted_typing == Live
phone_call_update == Stored("PHONE_CALL")
phone_signaling_update == Live
bot_precheckout_query == Stored("BOT_PRECHECKOUT_QUERY")
bot_callback_query == Stored("BOT_CALLBACK_QUERY")
bot_inline_query == Stored("BOT_INLINE_QUERY")

-----------------------------------------------------------------------------
\* The functions that announce a change of something that exists and stays.
Announcements ==
    UNION {
        send_message_channel_user, pin_messages, pin_channel_messages,
        new_scheduled_message, delete_scheduled_messages, update_history_ttl,
        update_message_poll, update_reactions, read_messages_contents,
        read_channel_messages_contents, update_read_history_inbox,
        update_read_history_inbox_channel, update_read_channel_discussion_inbox,
        update_read_channel_discussion_outbox, update_read_history_outbox_channel,
        update_read_history_outbox, pin_dialog, update_draft, update_drafts,
        reorder_pinned_dialogs, update_dialog_unread_mark, update_folder_peers,
        update_folder, update_folders_order, pin_saved_dialog,
        reorder_pinned_saved_dialogs, update_user, notify_user_deleted, update_status,
        update_user_name, add_remove_contact, block_unblock_user, update_user_phone,
        update_user_emoji_status, update_privacy, update_peer_notify_settings,
        new_auth, update_config, update_stars_balance, update_chat_participants,
        update_chat, update_chat_default_banned_rights, migrate_chat, update_channel,
        update_channel_for_user, update_channel_available_messages,
        update_channel_participant_available_message, new_stickerset,
        update_stickersets, update_stickersets_order, update_recent_stickers,
        update_faved_stickers, update_saved_gifs, update_recent_reactions,
        update_chat_wallpaper, encryption_update, send_encrypted_update,
        send_encrypted_typing, phone_call_update, phone_signaling_update,
        bot_precheckout_query, bot_callback_query, bot_inline_query}

=============================================================================
