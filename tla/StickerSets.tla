---------------------------- MODULE StickerSets ----------------------------
(***************************************************************************)
(* A sticker set: its row, its stickers (files with a position and an      *)
(* emoji), the hash that tells clients whether it has changed, and the     *)
(* cache of answers.                                                       *)
(*                                                                         *)
(* A handler loads the row, writes the stickers, reads them again for the  *)
(* new hash, saves the hash and answers, without a lock; between any two   *)
(* statements other handlers run.  The answer is cached under the hash in  *)
(* memory, and never expires: clients that have that hash are told that    *)
(* nothing is modified.                                                    *)
(*                                                                         *)
(* A handler is the sequence of its statements, each an action below.      *)
(* The hash is what it is made from (no collisions).  Left out: the order  *)
(* the database gives stickers with equal positions, masks, which no       *)
(* handler can turn on, and what the bytes of a file are checked for.      *)
(***************************************************************************)
EXTENDS Integers, Sequences, FiniteSets

CONSTANTS
    Tasks,          \* handlers that can run at once
    MaxStickers,    \* stickers_count a set may have (120)
    MaxFiles,       \* bound: stickers that are ever made
    Budgets         \* bound: how many handlers are run, [writers, readers]

VARIABLES
    set,       \* the Stickerset row
    thumb,     \* its StickersetThumb
    files,     \* File rows of stickers
    infos,     \* cached by id and hash: to_tl_info
    answers,   \* cached by id and hash: to_tl_messages
    task,      \* task -> the handler it runs, and how far it is
    client,    \* the last answer that a client has got
    cause,     \* what has gone wrong that the properties below make allowance for
    left       \* handlers that can still be run

vars == <<set, thumb, files, infos, answers, task, client, cause, left>>

Ids == 1..MaxFiles
NoPos == -9
NotFetched == -1
Hash(title, stickers) == [title |-> title, stickers |-> stickers]
NoHash == Hash(0, {})
NoInfo == [title |-> 0, count |-> 0, thumb |-> 0]
NoAnswer == [hash |-> NoHash, info |-> NoInfo, stickers |-> {}]
NoFile == [in |-> FALSE, pos |-> NoPos, alt |-> 0]
Row == [at |-> "none", owned |-> FALSE, emoji |-> FALSE, title |-> 0, hash |-> NoHash, count |-> 0]
Idle == [prog |-> <<>>, own |-> Row, pic |-> NotFetched, id |-> 0, val |-> 0, pos |-> 0, docs |-> {},
         dirty |-> FALSE, passed |-> FALSE]

In == {i \in Ids : files[i].in}
\* documents_query
Stickers == {[id |-> i, pos |-> files[i].pos, alt |-> files[i].alt] : i \in In}
Fresh == {i \in Ids : files[i] = NoFile}
Quiet == \A t \in Tasks : task[t] = Idle

TwoStickers == [i \in Ids |-> IF i <= 2 THEN [in |-> TRUE, pos |-> i - 1, alt |-> 1] ELSE NoFile]

Init ==
    /\ \/ files = [i \in Ids |-> NoFile] /\ set = Row
       \/ /\ files = TwoStickers
          /\ \E emoji \in BOOLEAN :
                set = [at |-> "live", owned |-> TRUE, emoji |-> emoji, title |-> 1,
                       hash |-> Hash(1, Stickers), count |-> 2]
    /\ thumb = 0
    /\ infos = {} /\ answers = {}
    /\ task = [t \in Tasks |-> Idle]
    /\ client = NoAnswer
    /\ cause = [hashes |-> {}, unhashed |-> FALSE, twice |-> FALSE]
    /\ left \in Budgets

-----------------------------------------------------------------------------
(* What is accepted as a sticker *)

Images == {"image/png", "image/webp"}
AllowedMimes == Images \cup {"video/webm", "application/x-tgsticker"}
SetTypesToMimes ==
    [static |-> Images, animated |-> {"application/x-tgsticker"}, video |-> {"video/webm"}]

\* A side of 512 and none that is longer, or 100x100 for an emoji.
Dims(file, is_emoji) ==
    IF is_emoji THEN file.dims = <<100, 100>>
    ELSE /\ 512 \in {file.dims[1], file.dims[2]}
         /\ file.dims[1] <= 512 /\ file.dims[2] <= 512

ValidatePngWebp(file, is_emoji) == file.size <= 512 /\ file.readable /\ Dims(file, is_emoji)
ValidateWebm(file, is_emoji) == file.size <= 256 /\ file.playable /\ Dims(file, is_emoji)
ValidateTgs(file) == file.size <= 64 /\ file.readable /\ file.playable

\* _get_sticker_files, of one file: it is one that can be had, is in no set
\* yet, and is of the set's type, or the first that gives the set its type.
GetStickerFile(file, set_type, is_emoji) ==
    /\ file.emoji_ok /\ file.reference_ok /\ file.free
    /\ file.mime \in SetTypesToMimes[set_type]
    /\ \/ file.mime \in Images /\ ValidatePngWebp(file, is_emoji)
       \/ file.mime = "video/webm" /\ ValidateWebm(file, is_emoji)
       \/ file.mime = "application/x-tgsticker" /\ ValidateTgs(file)

GetStickerThumb(file, set_type, is_emoji) ==
    /\ file.reference_ok /\ file.free
    /\ file.mime \in SetTypesToMimes[set_type]
    /\ \/ file.mime \in Images /\ ValidatePngWebp(file, is_emoji)
       \/ file.mime = "video/webm" /\ ValidateWebm(file, TRUE)
       \/ file.mime = "application/x-tgsticker" /\ ValidateTgs(file)

Uploads ==
    [mime : AllowedMimes \cup {"text/plain"}, size : {64, 512}, dims : {<<100, 100>>, <<512, 300>>},
     readable : BOOLEAN, playable : {TRUE}, free : BOOLEAN, emoji_ok : {TRUE}, reference_ok : {TRUE}]

-----------------------------------------------------------------------------
(* The handlers *)

CreateStickerSet == <<"row", "create", "hash", "own", "look">>
AddStickerToSet == <<"count", "make", "hash", "add", "refresh", "look">>
ReplaceSticker == <<"detach", "make", "hash", "save", "look">>
RemoveStickerFromSet == <<"remove", "hash", "take", "refresh", "look">>
ChangeSticker == <<"alt", "hash", "save", "look">>
ChangeStickerPosition == <<"max", "move", "hash", "save", "look">>
RenameStickerSet == <<"hash", "save", "look">>
SetStickerSetThumb == <<"thumb", "look">>
DeleteStickerSet == <<"drop">>
GetStickerSet == <<"look">>

\* Another handler has written stickers and has yet to save their hash.
Unsettled(t) == \E u \in Tasks \ {t} : task[u].dirty

Start(t, r) ==
    /\ task[t] = Idle
    /\ task' = [task EXCEPT ![t] = r]
    /\ UNCHANGED <<set, thumb, files, infos, answers, client, cause>>

Loaded(t, prog, pic) ==
    [Idle EXCEPT !.prog = prog, !.own = set, !.pic = pic, !.passed = Unsettled(t)]

\* check_stickerset_short_name: the short name is free.  Two requests can
\* find it so, and the second row is refused by the database.
BeginCreate(t) ==
    /\ set.at = "none" /\ left.writers > 0
    /\ \E emoji \in BOOLEAN :
        /\ \E file \in Uploads : GetStickerFile(file, "static", emoji)
        /\ Start(t, [Loaded(t, CreateStickerSet, 0) EXCEPT !.own.emoji = emoji])
    /\ left' = [left EXCEPT !.writers = @ - 1]

\* Stickerset.from_input, and the set is the user's
BeginOnSet(t) ==
    /\ set.at = "live" /\ set.owned /\ left.writers > 0
    /\ \/ /\ \E file \in Uploads : GetStickerFile(file, "static", set.emoji)
          /\ Start(t, [Loaded(t, AddStickerToSet, thumb) EXCEPT !.val = 1])
       \/ \E title \in 1..2 :     \* the title is changed in memory at once
            Start(t, [Loaded(t, RenameStickerSet, thumb) EXCEPT !.own.title = title])
       \/ /\ \E file \in Uploads : GetStickerThumb(file, "static", set.emoji)
          /\ \E val \in 0..1 : Start(t, [Loaded(t, SetStickerSetThumb, thumb) EXCEPT !.val = val])
       \/ Start(t, Loaded(t, DeleteStickerSet, NotFetched))
    /\ left' = [left EXCEPT !.writers = @ - 1]

\* _get_sticker_with_set: a sticker, not an emoji, with its set, not its thumb
BeginOnSticker(t) ==
    /\ set.at = "live" /\ set.owned /\ ~set.emoji /\ left.writers > 0
    /\ \E id \in In :
        LET own(prog) == [Loaded(t, prog, NotFetched) EXCEPT !.id = id]
        IN  \/ /\ \E file \in Uploads : GetStickerFile(file, "static", set.emoji)
               /\ Start(t, [own(ReplaceSticker) EXCEPT !.val = 1, !.pos = files[id].pos])
            \/ Start(t, [own(RemoveStickerFromSet) EXCEPT !.pos = files[id].pos])
            \/ \E alt \in 1..2 \ {files[id].alt} : Start(t, [own(ChangeSticker) EXCEPT !.val = alt])
            \/ \E pos \in {-1, 0, MaxStickers} : Start(t, [own(ChangeStickerPosition) EXCEPT !.pos = pos])
    /\ left' = [left EXCEPT !.writers = @ - 1]

BeginGet(t) ==
    /\ set.at = "live" /\ left.readers > 0
    /\ set.hash # client.hash     \* StickerSetNotModified
    /\ Start(t, Loaded(t, GetStickerSet, thumb))
    /\ left' = [left EXCEPT !.readers = @ - 1]

-----------------------------------------------------------------------------
(* Their statements *)

At(t, step) == task[t].prog # <<>> /\ Head(task[t].prog) = step

Next1(r) == IF Len(r.prog) = 1 THEN Idle ELSE [r EXCEPT !.prog = Tail(@)]

\* t goes on as r; the others were passed when it has written what a hash or
\* an answer is made of.
Go(t, r, wrote) ==
    task' = [u \in Tasks |->
        IF u = t THEN Next1(r)
        ELSE [task[u] EXCEPT !.passed = @ \/ (wrote /\ task[u] # Idle)]]

\* It has written what it has yet to save the hash of.
Wrote(t, r) == Go(t, [r EXCEPT !.dirty = TRUE], TRUE)

Doubt(t, hash) ==
    cause' = [cause EXCEPT !.hashes = IF task[t].passed THEN @ \cup {hash} ELSE @]

CreateRow(t) ==
    /\ At(t, "row")
    /\ \/ /\ set.at = "none"
          /\ set' = [Row EXCEPT !.at = "live", !.title = 1, !.emoji = task[t].own.emoji]
          /\ Wrote(t, [task[t] EXCEPT !.own = set'])
       \/ /\ set.at # "none"     \* the short name is unique
          /\ task' = [task EXCEPT ![t] = Idle]
          /\ UNCHANGED set
    /\ UNCHANGED <<thumb, files, infos, answers, client, cause, left>>

\* The stickers are made with bulk_create; when that fails, or the thumb is
\* refused, the row is deleted.
CreateFiles(t) ==
    /\ At(t, "create")
    /\ \/ /\ \E ids \in SUBSET Fresh :
            /\ Cardinality(ids) \in 1..2 /\ Cardinality(ids) <= MaxStickers
            /\ \A i \in ids, j \in Fresh \ ids : i < j
            /\ files' = [i \in Ids |-> IF i \in ids
                    THEN [in |-> TRUE, pos |-> Cardinality({j \in ids : j < i}), alt |-> 1]
                    ELSE files[i]]
          /\ Wrote(t, task[t])
          /\ UNCHANGED set
       \/ /\ set' = Row
          /\ task' = [task EXCEPT ![t] = Idle]
          /\ UNCHANGED files
    /\ UNCHANGED <<thumb, infos, answers, client, cause, left>>

\* The owner, the hash and the count are saved, the set installed.
SaveOwned(t) ==
    /\ At(t, "own")
    /\ LET r == task[t]
           h == Hash(r.own.title, r.docs)
       IN  /\ set' = [set EXCEPT !.owned = TRUE, !.hash = h, !.count = Cardinality(r.docs)]
           /\ Go(t, [r EXCEPT !.own = set', !.dirty = FALSE], FALSE)
           /\ Doubt(t, h)
    /\ UNCHANGED <<thumb, files, infos, answers, client, left>>

CountStickers(t) ==
    /\ At(t, "count")
    /\ IF Cardinality(In) >= MaxStickers THEN task' = [task EXCEPT ![t] = Idle]
       ELSE Go(t, [task[t] EXCEPT !.pos = Cardinality(In)], FALSE)
    /\ UNCHANGED <<set, thumb, files, infos, answers, client, cause, left>>

\* make_sticker_from_file.  replace_sticker passes on the position it has
\* just taken from the old sticker.
MakeStickerFromFile(t) ==
    /\ At(t, "make") /\ Fresh # {}
    /\ LET id == CHOOSE i \in Fresh : \A j \in Fresh : i <= j
       IN  files' = [files EXCEPT ![id] = [in |-> TRUE, pos |-> task[t].pos, alt |-> task[t].val]]
    /\ Wrote(t, task[t])
    /\ UNCHANGED <<set, thumb, infos, answers, client, cause, left>>

DetachOld(t) ==
    /\ At(t, "detach")
    /\ files' = [files EXCEPT ![task[t].id] = [@ EXCEPT !.in = FALSE, !.pos = NoPos]]
    /\ Wrote(t, [task[t] EXCEPT !.pos = NoPos])
    /\ cause' = [cause EXCEPT !.twice = @ \/ ~files[task[t].id].in]
    /\ UNCHANGED <<set, thumb, infos, answers, client, left>>

\* In a transaction the sticker goes and those after it move up.
RemoveSticker(t) ==
    /\ At(t, "remove")
    /\ files' = [i \in Ids |->
            IF i = task[t].id THEN [files[i] EXCEPT !.in = FALSE, !.pos = NoPos]
            ELSE IF files[i].in /\ files[i].pos > task[t].pos THEN [files[i] EXCEPT !.pos = @ - 1]
            ELSE files[i]]
    /\ Wrote(t, task[t])
    /\ cause' = [cause EXCEPT !.twice = @ \/ ~files[task[t].id].in]
    /\ UNCHANGED <<set, thumb, infos, answers, client, left>>

SaveAlt(t) ==
    /\ At(t, "alt")
    /\ files' = [files EXCEPT ![task[t].id].alt = task[t].val]
    /\ Wrote(t, task[t])
    /\ UNCHANGED <<set, thumb, infos, answers, client, cause, left>>

\* The position asked for is taken for the old one too: nothing happens when
\* it is within the set, and what is done outside it is not the move.
MaxPosition(t) ==
    /\ At(t, "max")
    /\ LET max_pos == Cardinality(In) - 1
           asked == task[t].pos
           least == IF asked < max_pos THEN asked ELSE max_pos
           new_pos == IF least > 0 THEN least ELSE 0
       IN  IF new_pos = asked
           THEN task' = [task EXCEPT ![t].prog = <<"look">>]
           ELSE Go(t, [task[t] EXCEPT !.val = new_pos], FALSE)
    /\ UNCHANGED <<set, thumb, files, infos, answers, client, cause, left>>

MoveSticker(t) ==
    /\ At(t, "move")
    /\ LET old == task[t].pos
           new == task[t].val
           shift(p) == IF p > old /\ p <= new THEN p - 1
                       ELSE IF p >= new /\ p < old THEN p + 1 ELSE p
       IN  files' = [i \in Ids |->
                IF files[i] = NoFile THEN NoFile
                ELSE IF i = task[t].id THEN [files[i] EXCEPT !.pos = new]
                ELSE IF files[i].in /\ files[i].pos # NoPos THEN [files[i] EXCEPT !.pos = shift(@)]
                ELSE files[i]]
    /\ Wrote(t, task[t])
    /\ UNCHANGED <<set, thumb, infos, answers, client, cause, left>>

\* gen_for_hash needs the stickers as they are now.
ReadForHash(t) ==
    /\ At(t, "hash")
    /\ Go(t, [task[t] EXCEPT !.docs = Stickers], FALSE)
    /\ UNCHANGED <<set, thumb, files, infos, answers, client, cause, left>>

\* Mutant: the new title is saved, and the old hash with it.
SaveTitle(t) ==
    /\ At(t, "save")
    /\ set' = [set EXCEPT !.title = IF task[t].id = 0 THEN task[t].own.title ELSE @]
    /\ Go(t, [task[t] EXCEPT !.dirty = FALSE], TRUE)
    /\ UNCHANGED <<thumb, files, infos, answers, client, cause, left>>

\* save(update_fields=["hash"]), of rename_stickerset the title too, which
\* it alone has changed in memory
SaveHash(t) ==
    /\ At(t, "save")
    /\ LET r == task[t]
           h == Hash(r.own.title, r.docs)
           renames == r.id = 0
       IN  /\ set' = [set EXCEPT !.hash = h, !.title = IF renames THEN r.own.title ELSE @]
           /\ Go(t, [r EXCEPT !.own.hash = h, !.dirty = FALSE], renames)
           /\ Doubt(t, h)
    /\ UNCHANGED <<thumb, files, infos, answers, client, left>>

\* Mutant: the count in memory, and one more or less.
CountFromMemory(t, d) == task[t].own.count + d

CountFromRow(t, d) == set.count + d

\* UPDATE hash = ..., stickers_count = stickers_count + 1 or - 1
UpdateHashAndCount(t) ==
    /\ At(t, "add") \/ At(t, "take")
    /\ LET h == Hash(task[t].own.title, task[t].docs)
           d == IF At(t, "add") THEN 1 ELSE -1
       IN  /\ set' = [set EXCEPT !.hash = h, !.count = CountFromRow(t, d)]
           /\ Go(t, [task[t] EXCEPT !.dirty = FALSE], FALSE)
           /\ Doubt(t, h)
    /\ UNCHANGED <<thumb, files, infos, answers, client, left>>

Refresh(t) ==
    /\ At(t, "refresh")
    /\ Go(t, [task[t] EXCEPT !.own.hash = set.hash, !.own.count = set.count,
                             !.passed = @ \/ Unsettled(t)], FALSE)
    /\ UNCHANGED <<set, thumb, files, infos, answers, client, cause, left>>

\* The thumb is not part of the hash.
SaveThumb(t) ==
    /\ At(t, "thumb")
    /\ thumb' = task[t].val
    /\ cause' = [cause EXCEPT !.unhashed = TRUE]
    /\ Go(t, [task[t] EXCEPT !.pic = task[t].val], FALSE)
    /\ UNCHANGED <<set, files, infos, answers, client, left>>

DropSet(t) ==
    /\ At(t, "drop")
    /\ set' = [set EXCEPT !.at = "deleted", !.owned = FALSE]
    /\ files' = [i \in Ids |-> [files[i] EXCEPT !.in = FALSE]]
    /\ Wrote(t, task[t])
    /\ UNCHANGED <<thumb, infos, answers, client, cause, left>>

-----------------------------------------------------------------------------
(* The answer *)

Of(cached, hash) == {c \in cached : c.hash = hash}

\* to_tl_messages, from the cache
LookUp(t) ==
    /\ At(t, "look")
    /\ \/ \E a \in Of(answers, task[t].own.hash) :
            /\ client' = a
            /\ task' = [task EXCEPT ![t] = Idle]
       \/ /\ Of(answers, task[t].own.hash) = {}
          /\ task' = [task EXCEPT ![t].prog = <<"fill">>, ![t].docs = Stickers,
                                  ![t].passed = @ \/ Unsettled(t)]
          /\ UNCHANGED client
    /\ Doubt(t, task[t].own.hash)
    /\ UNCHANGED <<set, thumb, files, infos, answers, left>>

\* to_tl_info, and the answer is cached.  Without the thumb in memory, and
\* without an info in the cache, it raises, though all has been saved.
Fill(t) ==
    /\ At(t, "fill")
    /\ LET r == task[t]
           known == Of(infos, r.own.hash)
           info == IF known # {} THEN (CHOOSE i \in known : TRUE).info
                   ELSE [title |-> r.own.title, count |-> r.own.count, thumb |-> r.pic]
           answer == [hash |-> r.own.hash, info |-> info, stickers |-> r.docs]
       IN  /\ \/ /\ known # {} \/ r.pic # NotFetched
                 /\ infos' = infos \cup {[hash |-> r.own.hash, info |-> info]}
                 /\ answers' = (answers \ Of(answers, r.own.hash)) \cup {answer}
                 /\ client' = answer
              \/ /\ known = {} /\ r.pic = NotFetched
                 /\ UNCHANGED <<infos, answers, client>>
           /\ Doubt(t, r.own.hash)
    /\ task' = [task EXCEPT ![t] = Idle]
    /\ UNCHANGED <<set, thumb, files, left>>

Done == Quiet /\ UNCHANGED vars     \* nobody need ask for anything

Next ==
    \/ \E t \in Tasks :
        \/ BeginCreate(t) \/ BeginOnSet(t) \/ BeginOnSticker(t) \/ BeginGet(t)
        \/ CreateRow(t) \/ CreateFiles(t) \/ SaveOwned(t)
        \/ CountStickers(t) \/ MakeStickerFromFile(t) \/ DetachOld(t) \/ RemoveSticker(t)
        \/ SaveAlt(t) \/ MaxPosition(t) \/ MoveSticker(t)
        \/ ReadForHash(t) \/ SaveHash(t) \/ UpdateHashAndCount(t) \/ Refresh(t)
        \/ SaveThumb(t) \/ DropSet(t) \/ LookUp(t) \/ Fill(t)
    \/ Done

Spec == Init /\ [][Next]_vars

-----------------------------------------------------------------------------
(* Properties *)

\* get_stickerset tells a client that has the hash of the row that nothing
\* is modified.  Then what it has is the set: the title, the stickers with
\* their positions and emojis, and their count.  Not when a handler was
\* passed by another's writes before it saved that hash or answered under
\* it; and not the thumb, which is in no hash.
NotModifiedIsTrue ==
    (Quiet /\ set.at = "live" /\ client.hash = set.hash /\ client.hash \notin cause.hashes) =>
        /\ client.stickers = Stickers
        /\ client.info.title = set.title
        /\ client.info.count = Cardinality(In) \/ cause.twice
        /\ client.info.thumb = thumb \/ cause.unhashed

\* However the handlers overlap, stickers_count is the number of stickers
\* when they are done, and adding has gone past the limit at most by one for
\* each handler that was beside; unless two handlers have taken out the same
\* sticker.
CountsAreRight ==
    (Quiet /\ set.at = "live" /\ ~cause.twice) =>
        /\ set.count = Cardinality(In)
        /\ Cardinality(In) < MaxStickers + Cardinality(Tasks)
=============================================================================
