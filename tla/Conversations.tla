--------------------------- MODULE Conversations ---------------------------
(***************************************************************************)
(* The conversations of a user with the built-in bots that ask questions:  *)
(* @stickers, @botfather and the admin bot.                                *)
(*                                                                         *)
(* What a bot waits for is a row of the user: a state and some data, whose *)
(* layout depends on the state.  Every message is a task of its own: it    *)
(* reads the row, finds the handler that is registered for the state (or   *)
(* the command), does what the handler does and saves the state, or both   *)
(* columns, or deletes the row.  A second message may be in between.       *)
(*                                                                         *)
(* A handler that was registered is a record:                              *)
(*   in      the states it is registered for (a command: any, or no row)   *)
(*   reads   the data it deserialises, or None                             *)
(*   acts    what it does beside the row                                   *)
(*   writes  the kind of data it saves, or what it does to the data it has *)
(*           read; "keep" saves the state alone                            *)
(*   to      the state it saves; End deletes the row, Stay leaves it       *)
(*   how     "save" of the row that was read, or "put" (update_or_create)  *)
(* Messages that are refused (wrong name, not an emoji, no image) leave    *)
(* everything as it is, and are not modelled; nor is what bots answer.     *)
(***************************************************************************)
EXTENDS Naturals, Sequences, FiniteSets

CONSTANTS
    Tasks,         \* messages that can be handled at once
    MaxMessages,   \* bound: bot -> messages in a behaviour
    Overlaps,      \* bound: how many of them come before another is handled
    MaxDrafts,     \* bound: things that are begun
    MaxBots        \* APP_CONFIG.max_bots_per_user

VARIABLES
    bot,      \* the bot the user talks to
    row,      \* the row, or NoRow
    owned,    \* the sticker sets, or bots, of the user
    drafts,   \* draft -> the stickers that were confirmed, and how often it was carried out
    task,     \* task -> the handler it runs and the row it has read
    raced,    \* what tasks did with a row that had changed since they read it
    left      \* messages that can still come, and overlaps of them

vars == <<bot, row, owned, drafts, task, raced, left>>

None == "none"
End == "end"
Stay == "stay"
NoData == [kind |-> None, draft |-> 0, stickers |-> <<>>, target |-> 0]
NoRow == [state |-> None, data |-> NoData]

On(states, reads, acts, writes, to) ==
    [in |-> states, reads |-> reads, acts |-> acts, writes |-> writes, to |-> to, how |-> "save"]
Put(states, reads, acts, writes, to) ==
    [On(states, reads, acts, writes, to) EXCEPT !.how = "put"]
Always == {"any"}
Idle == [h |-> On({}, None, None, None, Stay), at |-> "idle", data |-> NoData, stale |-> FALSE, gone |-> FALSE]

-----------------------------------------------------------------------------
(* @stickers *)

NewPack == Put(Always, None, None, None, "NEWPACK_WAIT_NAME")
NewVideo == Put(Always, None, None, None, "NEWVIDEO_WAIT_NAME")
NewEmojiPack == Put(Always, None, None, None, "NEWEMOJIPACK_WAIT_TYPE")
AddSticker == Put(Always, None, "owns", None, "ADDSTICKER_WAIT_PACK")
AddEmoji == Put(Always, None, "owns", None, "ADDEMOJI_WAIT_PACK")
EditSticker == Put(Always, None, "owns", None, "EDITSTICKER_WAIT_PACK_OR_STICKER")
ReplaceSticker == Put(Always, None, "owns", None, "REPLACESTICKER_WAIT_PACK_OR_STICKER")
DelPack == Put(Always, None, "owns", None, "DELPACK_WAIT_PACK")
RenamePack == Put(Always, None, "owns", None, "RENAMEPACK_WAIT_PACK")
Cancel == Put(Always, None, None, None, End)

NewpackName == On({"NEWPACK_WAIT_NAME"}, None, None, "newpack", "NEWPACK_WAIT_IMAGE")
NewvideoName == On({"NEWVIDEO_WAIT_NAME"}, None, None, "newpack", "NEWVIDEO_WAIT_VIDEO")
NewemojipackType == On({"NEWEMOJIPACK_WAIT_TYPE"}, None, None, "emojipack", "NEWEMOJIPACK_WAIT_NAME")
NewemojipackName ==
    On({"NEWEMOJIPACK_WAIT_NAME"}, "emojipack", None, "name", "NEWEMOJIPACK_WAIT_IMAGE")
NewpackImage == On({"NEWPACK_WAIT_IMAGE"}, "newpack", None, "append", "NEWPACK_WAIT_EMOJI")
NewvideoVideo == On({"NEWVIDEO_WAIT_VIDEO"}, "newpack", None, "append", "NEWVIDEO_WAIT_EMOJI")
NewemojipackImage ==
    On({"NEWEMOJIPACK_WAIT_IMAGE"}, "emojipack", None, "append", "NEWEMOJIPACK_WAIT_EMOJI")
NewpackEmoji == On({"NEWPACK_WAIT_EMOJI"}, "newpack", None, "emoji", "NEWPACK_WAIT_IMAGE")
NewvideoEmoji == On({"NEWVIDEO_WAIT_EMOJI"}, "newpack", None, "emoji", "NEWVIDEO_WAIT_VIDEO")
NewemojipackEmoji ==
    On({"NEWEMOJIPACK_WAIT_EMOJI"}, "emojipack", None, "emoji", "NEWEMOJIPACK_WAIT_IMAGE")

PublishNewpack ==
    On({"NEWPACK_WAIT_IMAGE", "NEWPACK_WAIT_EMOJI"}, "newpack", "publishable", "keep",
       "NEWPACK_WAIT_ICON")
PublishNewvideo ==
    On({"NEWVIDEO_WAIT_VIDEO", "NEWVIDEO_WAIT_EMOJI"}, "newpack", "publishable", "keep",
       "NEWVIDEO_WAIT_ICON")
PublishNewemojipack ==
    On({"NEWEMOJIPACK_WAIT_IMAGE", "NEWEMOJIPACK_WAIT_EMOJI"}, "emojipack", "publishable", "keep",
       "NEWEMOJIPACK_WAIT_ICON")

\* An icon was sent (it is not used), or /skip.
SkipNewpack == On({"NEWPACK_WAIT_ICON"}, None, None, "keep", "NEWPACK_WAIT_SHORT_NAME")
SkipNewvideo == On({"NEWVIDEO_WAIT_ICON"}, None, None, "keep", "NEWVIDEO_WAIT_SHORT_NAME")
SkipNewemojipack ==
    On({"NEWEMOJIPACK_WAIT_ICON"}, None, None, "keep", "NEWEMOJIPACK_WAIT_SHORT_NAME")
Skip == {SkipNewpack, SkipNewvideo, SkipNewemojipack}

NewpackShortName == On({"NEWPACK_WAIT_SHORT_NAME"}, "newpack", "carry out", None, End)
NewvideoShortName == On({"NEWVIDEO_WAIT_SHORT_NAME"}, "newpack", "carry out", None, End)
NewemojipackShortName == On({"NEWEMOJIPACK_WAIT_SHORT_NAME"}, "emojipack", "carry out", None, End)

AddstickerPack == On({"ADDSTICKER_WAIT_PACK"}, None, "owns", "add", "ADDSTICKER_WAIT_IMAGE")
AddemojiPack == On({"ADDEMOJI_WAIT_PACK"}, None, "owns", "add", "ADDEMOJI_WAIT_IMAGE")
AddstickerImage == On({"ADDSTICKER_WAIT_IMAGE"}, "add", None, "name", "ADDSTICKER_WAIT_EMOJI")
AddemojiImage == On({"ADDEMOJI_WAIT_IMAGE"}, "add", None, "name", "ADDEMOJI_WAIT_EMOJI")
AddstickerEmoji == On({"ADDSTICKER_WAIT_EMOJI"}, "add", "change", "name", "ADDSTICKER_WAIT_IMAGE")
AddemojiEmoji == On({"ADDEMOJI_WAIT_EMOJI"}, "add", "change", "name", "ADDEMOJI_WAIT_IMAGE")
Done ==
    On({"ADDSTICKER_WAIT_IMAGE", "ADDSTICKER_WAIT_EMOJI", "ADDEMOJI_WAIT_IMAGE",
        "ADDEMOJI_WAIT_EMOJI"}, None, None, None, End)

\* A sticker is sent, or the name of a set and then a sticker.
EditstickerPackOrSticker ==
    {On({"EDITSTICKER_WAIT_PACK_OR_STICKER"}, None, "owns", "file", "EDITSTICKER_WAIT_EMOJI"),
     On({"EDITSTICKER_WAIT_PACK_OR_STICKER"}, None, "owns", "pack", "EDITSTICKER_WAIT_STICKER")}
EditstickerSticker == On({"EDITSTICKER_WAIT_STICKER"}, None, "owns", "file", "EDITSTICKER_WAIT_EMOJI")
EditstickerEmoji == On({"EDITSTICKER_WAIT_EMOJI"}, "file", None, None, End)
ReplacestickerPackOrSticker ==
    {On({"REPLACESTICKER_WAIT_PACK_OR_STICKER"}, None, "owns", "file", "REPLACESTICKER_WAIT_IMAGE"),
     On({"REPLACESTICKER_WAIT_PACK_OR_STICKER"}, None, "owns", "pack", "REPLACESTICKER_WAIT_STICKER")}
ReplacestickerSticker ==
    On({"REPLACESTICKER_WAIT_STICKER"}, None, "owns", "file", "REPLACESTICKER_WAIT_IMAGE")
ReplacestickerImage ==
    On({"REPLACESTICKER_WAIT_IMAGE"}, "file", "change", "pack", "REPLACESTICKER_WAIT_STICKER")
DelpackPack == On({"DELPACK_WAIT_PACK"}, None, "owns", "set", "DELPACK_WAIT_CONFIRM")
DelpackConfirm == On({"DELPACK_WAIT_CONFIRM"}, "set", "delete", None, Stay)
RenamepackPack == On({"RENAMEPACK_WAIT_PACK"}, None, "owns", "set", "RENAMEPACK_WAIT_NAME")
RenamepackName == On({"RENAMEPACK_WAIT_NAME"}, "set", None, None, End)

Stickers ==
    UNION {{NewPack, NewVideo, NewEmojiPack, AddSticker, AddEmoji, EditSticker, ReplaceSticker,
            DelPack, RenamePack, Cancel, NewpackName, NewvideoName, NewemojipackType,
            NewemojipackName, NewpackImage, NewvideoVideo, NewemojipackImage, NewpackEmoji,
            NewvideoEmoji, NewemojipackEmoji, PublishNewpack, PublishNewvideo,
            PublishNewemojipack, NewpackShortName, NewvideoShortName, NewemojipackShortName,
            AddstickerPack, AddemojiPack, AddstickerImage, AddemojiImage, AddstickerEmoji,
            AddemojiEmoji, Done, EditstickerSticker, EditstickerEmoji, ReplacestickerSticker,
            ReplacestickerImage, DelpackPack, DelpackConfirm, RenamepackPack, RenamepackName},
           Skip, EditstickerPackOrSticker, ReplacestickerPackOrSticker}

-----------------------------------------------------------------------------
(* @botfather *)

NewBot == Put(Always, None, "below limit", None, "NEWBOT_WAIT_NAME")
NewbotName == On({"NEWBOT_WAIT_NAME"}, None, None, "newbot", "NEWBOT_WAIT_USERNAME")
NewbotUsername == On({"NEWBOT_WAIT_USERNAME"}, "newbot", "carry out", None, End)

\* The buttons of a bot: a question, or the bot is deleted.
BotsEditName == Put(Always, None, "owns", "editbot", "EDITBOT_WAIT_NAME")
BotsEditAbout == Put(Always, None, "owns", "editbot", "EDITBOT_WAIT_ABOUT")
BotsEditDesc == Put(Always, None, "owns", "editbot", "EDITBOT_WAIT_DESCRIPTION")
BotsEditPic == Put(Always, None, "owns", "editbot", "EDITBOT_WAIT_PHOTO")
BotsEditPrivacy == Put(Always, None, "owns", "editbot", "EDITBOT_WAIT_PRIVACY")
BotsEditCommands == Put(Always, None, "owns", "editbot", "EDITBOT_WAIT_COMMANDS")
OwnerDeleteBot == Put(Always, None, "delete any", "editbot", Stay)

\* In a transaction with the row, or (a photo, /empty) before it.
EditbotName == On({"EDITBOT_WAIT_NAME"}, "editbot", "change and end", None, End)
EditbotAbout == On({"EDITBOT_WAIT_ABOUT"}, "editbot", "change and end", None, End)
EditbotDescription == On({"EDITBOT_WAIT_DESCRIPTION"}, "editbot", "change and end", None, End)
EditbotPhoto == On({"EDITBOT_WAIT_PHOTO"}, "editbot", "change", None, End)
EditbotPrivacy == On({"EDITBOT_WAIT_PRIVACY"}, "editbot", "change and end", None, End)
EditbotCommands == On({"EDITBOT_WAIT_COMMANDS"}, "editbot", "change and end", None, End)
EmptyPrivacy == On({"EDITBOT_WAIT_PRIVACY"}, "editbot", "change", None, End)
EmptyCommands == On({"EDITBOT_WAIT_COMMANDS"}, "editbot", "change", None, End)
CancelBot == Put(Always, None, None, None, End)

BotFather ==
    {NewBot, NewbotName, NewbotUsername, BotsEditName, BotsEditAbout, BotsEditDesc, BotsEditPic,
     BotsEditPrivacy, BotsEditCommands, OwnerDeleteBot, EditbotName, EditbotAbout,
     EditbotDescription, EditbotPhoto, EditbotPrivacy, EditbotCommands, EmptyPrivacy,
     EmptyCommands, CancelBot}

-----------------------------------------------------------------------------
(* The admin bot.  The answers of five questions leave the row: what is sent *)
(* next is taken for another answer.                                         *)

System == {"WAIT_SYSTEM_TARGET", "WAIT_SYSTEM_TEXT"}

BeginCustomStarsInput == Put(Always, None, None, "stars", "WAIT_STARS_AMOUNT")
BeginSearchInput == Put(Always, None, None, "search", "WAIT_SEARCH")
ToggleSearchFilter == Put({"WAIT_SEARCH"}, "search", None, "search", "WAIT_SEARCH")
BeginTransferOwnerInput == Put(Always, None, None, "transfer", "WAIT_TRANSFER_OWNER")
BeginBotEditInput == Put(Always, None, None, "bot edit", "WAIT_BOT_EDIT")
BeginEntityEditInput == Put(Always, None, None, "entity edit", "WAIT_ENTITY_EDIT")
BeginNotifyTarget == Put(Always, None, None, "target", "WAIT_SYSTEM_TARGET")
BeginSrvnotifTarget == Put(Always, None, None, "target", "WAIT_SYSTEM_TARGET")
BeginFunTarget == Put(Always, None, None, "fun", "WAIT_SYSTEM_TARGET")
BeginNotifyBroadcast == Put(Always, None, None, "text", "WAIT_SYSTEM_TEXT")
BeginSrvnotifBroadcast == Put(Always, None, None, "text", "WAIT_SYSTEM_TEXT")
AdmHome == Put(Always, None, None, None, End)
\* DELETE of the row if it is in one of these states.
ClearSystemInputState == Put(System, None, None, None, End)
BeginSrvnotifMenu == ClearSystemInputState
ClearBotField == Put({"WAIT_BOT_EDIT"}, None, None, None, End)
ClearEntityField == Put({"WAIT_ENTITY_EDIT"}, None, None, None, End)

CustomStarsAmount == On({"WAIT_STARS_AMOUNT"}, "stars", None, None, Stay)
SearchQuery == On({"WAIT_SEARCH"}, "search", None, None, Stay)
TransferOwner == On({"WAIT_TRANSFER_OWNER"}, "transfer", None, None, Stay)
BotEdit == On({"WAIT_BOT_EDIT"}, "bot edit", None, None, Stay)
EntityEdit == On({"WAIT_ENTITY_EDIT"}, "entity edit", None, None, Stay)
\* A message is to be written to the target; a fake code is sent at once.
HandleSystemTargetInput ==
    {Put({"WAIT_SYSTEM_TARGET"}, "target", None, "text", "WAIT_SYSTEM_TEXT"),
     On({"WAIT_SYSTEM_TARGET"}, "fun", None, None, End)}
HandleSystemTextInput == On({"WAIT_SYSTEM_TEXT"}, "text", "carry out", None, End)

Admin ==
    {BeginCustomStarsInput, BeginSearchInput, ToggleSearchFilter, BeginTransferOwnerInput,
     BeginBotEditInput, BeginEntityEditInput, BeginNotifyTarget, BeginSrvnotifTarget,
     BeginFunTarget, BeginNotifyBroadcast, BeginSrvnotifBroadcast, AdmHome,
     ClearSystemInputState, BeginSrvnotifMenu, ClearBotField, ClearEntityField,
     CustomStarsAmount, SearchQuery, TransferOwner, BotEdit, EntityEdit,
     HandleSystemTextInput} \cup HandleSystemTargetInput

Handlers == [stickers |-> Stickers, botfather |-> BotFather, admin |-> Admin]

-----------------------------------------------------------------------------
Init ==
    /\ bot \in DOMAIN Handlers
    /\ row = NoRow
    /\ owned \in {{}, {1}}
    /\ drafts = <<>>
    /\ task = [t \in Tasks |-> Idle]
    /\ raced = {}
    /\ left = [messages |-> MaxMessages[bot], overlaps |-> Overlaps]

Begun == {"newpack", "emojipack", "newbot", "text"}     \* data that begins a draft
Confirmed(data) == Cardinality({i \in DOMAIN data.stickers : data.stickers[i]})

\* Mutant: the emoji is given to the first sticker.
EmojiOfFirst(stickers) == [stickers EXCEPT ![1] = TRUE]

\* stickers[-1].emoji = emoji
EmojiOfLast(stickers) == [stickers EXCEPT ![Len(stickers)] = TRUE]

\* The data that a handler has in its hands when it has read the row.
DataOf(h, target) ==
    CASE h.writes = "append" -> [row.data EXCEPT !.stickers = Append(@, FALSE)]
      [] h.writes = "emoji" -> [row.data EXCEPT !.stickers = EmojiOfLast(@)]
      [] h.writes \in {"keep", "name"} -> row.data
      [] h.writes = None -> IF h.how = "save" THEN row.data ELSE NoData
      [] OTHER -> [kind |-> h.writes, stickers |-> <<>>,
                   draft |-> IF h.writes \in Begun THEN Len(drafts) + 1 ELSE 0,
                   target |-> IF h.reads = None THEN target ELSE row.data.target]

\* What is checked before anything is changed.
MayAct(h) ==
    CASE h.acts \in {"owns", "delete any"} -> owned # {}
      [] h.acts = "below limit" -> Cardinality(owned) < MaxBots
      [] h.acts = "publishable" -> row.data.stickers \notin {<<>>, <<FALSE>>}
      [] OTHER -> TRUE

Handling == \E t \in Tasks : task[t].at # "idle"

\* handle_text, handle_command, or a button: the row is read, the handler found.
Receive(t, h) ==
    /\ h.in = Always \/ row.state \in h.in
    /\ h.reads # None => row.data.kind = h.reads       \* or deserialize raises
    /\ h.writes = "emoji" => row.data.stickers # <<>>
    /\ MayAct(h)
    /\ h.writes \in Begun => Len(drafts) < MaxDrafts
    /\ \E x \in IF h.acts \in {"owns", "delete any"} THEN owned ELSE {0} :
          task' = [task EXCEPT ![t] =
                     [h |-> h, data |-> DataOf(h, x), stale |-> FALSE, gone |-> FALSE,
                      at |-> IF h.acts \in {None, "owns", "below limit", "publishable"}
                             THEN "save" ELSE "act"]]
    /\ drafts' = IF h.writes \in Begun THEN Append(drafts, [confirmed |-> 0, done |-> 0, whole |-> TRUE])
                 ELSE drafts
    /\ left' = [left EXCEPT !.messages = @ - 1, !.overlaps = IF Handling THEN @ - 1 ELSE @]
    /\ UNCHANGED <<bot, row, owned, raced>>

\* The row is written or deleted: what the other tasks have read is out of date.
Rewritten(t, new, tasks) ==
    /\ row' = new
    /\ task' = [u \in Tasks |->
                  IF u = t \/ task[u].at = "idle" \/ new = row THEN tasks[u]
                  ELSE [tasks[u] EXCEPT !.stale = TRUE, !.gone = @ \/ new = NoRow]]

Free(t) == [task EXCEPT ![t] = Idle]

\* Mutant: the row outlives the transaction.
RowLeft(t) == row

RowDeleted(t) == IF task[t].gone THEN row ELSE NoRow     \* state.delete()

-----------------------------------------------------------------------------
(* What handlers do beside the row *)

\* _publish_set, the transaction of _handler_newbot_username, and a message to
\* users: nobody looks if the row is still there.
CarryOut(t) ==
    LET k == task[t].data.draft
    IN  /\ task[t].at = "act"
        /\ task[t].h.acts = "carry out"
        /\ drafts' = [drafts EXCEPT ![k] =
                        [@ EXCEPT !.done = @ + 1,
                                  !.whole = Confirmed(task[t].data) >= drafts[k].confirmed]]
        /\ owned' = owned \cup IF bot = "admin" THEN {} ELSE {3 * k + drafts[k].done}
        /\ raced' = raced \cup IF task[t].stale THEN {"carried out"} ELSE {}
        /\ Rewritten(t, RowDeleted(t), Free(t))
        /\ UNCHANGED <<bot, left>>

\* A set, a sticker or a bot of the user is changed; if it is his no more he is told.
Change(t) ==
    LET still == task[t].data.target \in owned
    IN  /\ task[t].at = "act"
        /\ task[t].h.acts \in {"change", "change and end"}
        /\ IF still /\ task[t].h.acts = "change"
           THEN /\ task' = [task EXCEPT ![t].at = "save"]
                /\ UNCHANGED row
           ELSE Rewritten(t, IF still THEN RowDeleted(t) ELSE row, Free(t))
        /\ UNCHANGED <<bot, owned, drafts, raced, left>>

\* A set, or a bot, is deleted.  When the set is gone already the question is dropped.
Delete(t) ==
    LET x == task[t].data.target
    IN  /\ task[t].at = "act"
        /\ task[t].h.acts \in {"delete", "delete any"}
        /\ owned' = owned \ {x}
        /\ Rewritten(t, IF task[t].h.acts = "delete" /\ x \notin owned THEN RowDeleted(t) ELSE row, Free(t))
        /\ UNCHANGED <<bot, drafts, raced, left>>

-----------------------------------------------------------------------------
(* The row *)

\* Mutant: update_state saves the data it was given, even None.
SavedDataless(t) == [state |-> task[t].h.to, data |-> IF task[t].h.writes = "keep" THEN NoData ELSE task[t].data]

\* update_state: the state, and the data if there is some.  An UPDATE of a row
\* that was deleted changes nothing.
Saved(t) == [state |-> task[t].h.to, data |-> IF task[t].h.writes = "keep" THEN row.data ELSE task[t].data]

SaveState(t) ==
    LET h == task[t].h
        k == task[t].data.draft
    IN  /\ task[t].at = "save"
        /\ h.how = "save"
        /\ Rewritten(t, CASE h.to = Stay \/ task[t].gone -> row
                          [] h.to = End -> NoRow
                          [] OTHER -> Saved(t),
                     Free(t))
        /\ drafts' = IF h.writes = "emoji" THEN [drafts EXCEPT ![k].confirmed = @ + 1] ELSE drafts
        /\ raced' = raced \cup IF ~task[t].stale \/ h.to = Stay THEN {}
                               ELSE IF h.writes = "keep" THEN {"state alone"} ELSE {"data"}
        /\ UNCHANGED <<bot, owned, left>>

\* set_state and the commands (update_or_create), and DELETEs by user and state.
PutState(t) ==
    LET h == task[t].h
    IN  /\ task[t].at = "save"
        /\ h.how = "put"
        /\ Rewritten(t, CASE h.to = Stay -> row
                          [] h.to = End -> IF h.in = Always \/ row.state \in h.in THEN NoRow ELSE row
                          [] OTHER -> [state |-> h.to, data |-> task[t].data],
                     Free(t))
        /\ raced' = raced \cup IF task[t].stale /\ h.acts = "below limit" THEN {"limit"} ELSE {}
        /\ UNCHANGED <<bot, owned, drafts, left>>

Next ==
    \E t \in Tasks :
        \/ /\ left.messages > 0 /\ task[t].at = "idle" /\ (Handling => left.overlaps > 0)
           /\ \E h \in Handlers[bot] : Receive(t, h)
        \/ CarryOut(t)
        \/ Change(t)
        \/ Delete(t)
        \/ SaveState(t)
        \/ PutState(t)

Spec == Init /\ [][Next]_vars

-----------------------------------------------------------------------------
(* Properties *)

\* What the bot waits for and the data it has kept agree: the handler of the
\* state can read the data, an emoji is asked for a sticker that is there, and
\* a set that is to be named has a sticker to show.  The exception: the state
\* alone was saved (/publish, /skip) over a row that had changed since.
DataFits ==
    LET kinds == {h.reads : h \in {h \in Handlers[bot] : row.state \in h.in}} \ {None}
    IN  "state alone" \notin raced =>
          /\ kinds # {} => row.data.kind \in kinds
          /\ row.state \in {"NEWPACK_WAIT_EMOJI", "NEWVIDEO_WAIT_EMOJI", "NEWEMOJIPACK_WAIT_EMOJI"}
               => row.data.stickers # <<>>
          /\ row.state \in {"NEWPACK_WAIT_SHORT_NAME", "NEWVIDEO_WAIT_SHORT_NAME",
                            "NEWEMOJIPACK_WAIT_SHORT_NAME"} => Confirmed(row.data) > 0

\* A set, a bot or a message to users that was begun is carried out at most
\* once, and a user has no more bots than allowed.  The exceptions: two names
\* were sent at once and both tasks had read the row before one was done, and
\* the number of bots was checked before another was made.
CarriedOutOnce ==
    /\ \A k \in DOMAIN drafts : drafts[k].done > 1 => "carried out" \in raced
    /\ bot = "botfather" /\ Cardinality(owned) > MaxBots => raced \cap {"carried out", "limit"} # {}

\* Every sticker that the bot said it has added is in the set that is published,
\* unless two messages changed the draft at once.
ConfirmedIsPublished ==
    \A k \in DOMAIN drafts : ~drafts[k].whole => "data" \in raced

=============================================================================
