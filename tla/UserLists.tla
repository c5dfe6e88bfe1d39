----------------------------- MODULE UserLists -----------------------------
(***************************************************************************)
(* The lists that a user keeps in order: pinned dialogs, pinned saved      *)
(* dialogs, folders (dialog filters) and installed sticker sets.           *)
(*                                                                         *)
(* A list is a column of rows: pinned_index, highest first, or position,   *)
(* lowest first.  Its handlers read rows, compute places in memory, write  *)
(* them and send an update, without a lock; between any two statements     *)
(* other handlers of the user run.                                         *)
(*                                                                         *)
(* The database may give rows of equal places in any order.  What clients  *)
(* do with the updates is external: a pinned dialog goes on top, a new     *)
(* folder to the end, an order replaces theirs.  Left out: what a folder   *)
(* says of its peers, and the two folders of dialogs.                      *)
(***************************************************************************)
EXTENDS Integers, SequencesExt

CONSTANTS
    Items,         \* dialogs, folders or sticker sets
    Tasks,         \* handlers of the user that can run at once
    PinnedLimit,   \* the highest pinned_index (10)
    MaxOrder,      \* bound: the longest order that is asked for
    Handlers       \* bound: how many handlers are run

VARIABLES
    kind,      \* which of the lists
    place,     \* item -> pinned_index, position or pos, or None
    archived,  \* sticker sets that are installed and archived
    blank,     \* there is a folder with id_for_user = -1
    task,      \* task -> the handler it runs, and how far it is
    told,      \* the list as clients have it from updates
    asked,     \* the order of the last handler, if it was to set one
    cause,     \* what has gone wrong that the properties below make allowance for
    left       \* handlers that can still be run

vars == <<kind, place, archived, blank, task, told, asked, cause, left>>

None == -1
Pins == {"dialogs", "saved"}
Idle == [at |-> "idle", flag |-> FALSE, order |-> <<>>, now |-> {}, place |-> 0, passed |-> FALSE]

Listed == {i \in Items : place[i] # None} \ archived
InOrder(i, j) == IF kind \in Pins THEN place[i] >= place[j] ELSE place[i] <= place[j]
\* the lists that get_pinned_dialogs, get_dialog_filters or get_all_stickers
\* may answer
Shown ==
    {s \in SetToSeqs(Listed) : \A m, n \in DOMAIN s : m < n => InOrder(s[m], s[n])}
Quiet == \A t \in Tasks : task[t] = Idle

Orders == UNION {SetToSeqs(S) : S \in {T \in SUBSET Items : Cardinality(T) \in 1..MaxOrder}}
Kept(s, S) == SelectSeq(s, LAMBDA i : i \in S)
\* of items that are there twice the first counts
At(s, i) == CHOOSE n \in DOMAIN s : s[n] = i /\ \A m \in 1..(n - 1) : s[m] # i
Once(s) == LET first == {n \in DOMAIN s : n = At(s, s[n])}
           IN  [n \in 1..Cardinality(first) |->
                    s[CHOOSE m \in first : Cardinality({l \in first : l <= m}) = n]]

Init ==
    /\ kind \in Pins \cup {"filters", "sets"}
    /\ place = [i \in Items |-> None]
    /\ archived = {} /\ blank = FALSE
    /\ task = [t \in Tasks |-> Idle]
    /\ told = <<>> /\ asked = <<>>
    /\ cause = [crossed |-> FALSE, refused |-> FALSE]
    /\ left = Handlers

-----------------------------------------------------------------------------
Item(t) == task[t].order[1]     \* of a handler for one

Begin(t, r) ==
    /\ task' = [task EXCEPT ![t] = r]
    /\ left' = left - 1

\* t goes on at `at'; others that have read the list were passed by a write.
Go(t, r, at, wrote) ==
    task' = [u \in Tasks |->
        IF u = t THEN [r EXCEPT !.at = at]
        ELSE [task[u] EXCEPT !.passed = @ \/ (wrote /\ task[u] # Idle)]]

\* The update has been sent.
End(t) ==
    /\ task' = [task EXCEPT ![t] = Idle]
    /\ cause' = [cause EXCEPT !.crossed = @ \/ task[t].passed]

Stop(t) == task' = [task EXCEPT ![t] = Idle]

-----------------------------------------------------------------------------
(* Pins *)

\* A saved dialog in the lowest place counts as not pinned.
IsPinned(i) == IF kind = "saved" THEN place[i] > 0 ELSE place[i] # None

TogglePin(t) ==
    /\ kind \in Pins
    /\ \E i \in Items, pinned \in BOOLEAN :
        /\ IsPinned(i) # pinned
        /\ Begin(t, [Idle EXCEPT !.at = IF pinned THEN "max" ELSE "save", !.order = <<i>>, !.place = None])
    /\ UNCHANGED <<kind, place, archived, blank, told, asked, cause>>

\* annotate(Max(...)).first(): the highest place, or that of some row when
\* rows are grouped.  None and 0 both give 0.
MaxIndex(t) ==
    /\ task[t].at = "max"
    /\ \E max_index \in {place[i] : i \in Items} :
        LET pinned_index == IF max_index \in {None, 0} THEN 0 ELSE max_index + 1
        IN  IF kind = "dialogs" /\ pinned_index > PinnedLimit THEN Stop(t)
            ELSE Go(t, [task[t] EXCEPT !.place = pinned_index], "save", FALSE)
    /\ UNCHANGED <<kind, place, archived, blank, told, asked, cause, left>>

SavePin(t) ==
    /\ task[t].at = "save"
    /\ place' = [place EXCEPT ![Item(t)] = task[t].place]
    /\ asked' = <<>>
    /\ Go(t, task[t], "tell", TRUE)
    /\ UNCHANGED <<kind, archived, blank, told, cause, left>>

TellPin(t) ==
    /\ task[t].at = "tell"
    /\ told' = (IF task[t].place = None THEN <<>> ELSE <<Item(t)>>) \o Remove(told, Item(t))
    /\ End(t)
    /\ UNCHANGED <<kind, place, archived, blank, asked, left>>

\* reorder_pinned_dialogs, reorder_pinned_saved_dialogs: without force the
\* pinned dialogs, the lowest first, come after those asked for.
ReorderPinned(t) ==
    /\ kind \in Pins
    /\ \E order \in Orders, force \in BOOLEAN :
       \E rest \in SetToSeqs(Listed) :
        /\ \A m, n \in DOMAIN rest : m < n => place[rest[m]] <= place[rest[n]]
        /\ Begin(t, [Idle EXCEPT !.at = IF force THEN "unpin" ELSE "places", !.flag = force,
                                 !.order = IF force THEN order ELSE order \o rest,
                                 !.now = Listed \ ToSet(order)])
    /\ UNCHANGED <<kind, place, archived, blank, told, asked, cause>>

\* Mutant: they stay pinned.
UnpinNone(t) ==
    /\ task[t].at = "unpin"
    /\ Go(t, task[t], "places", TRUE)
    /\ UNCHANGED <<kind, place, archived, blank, told, asked, cause, left>>

UnpinOthers(t) ==
    /\ task[t].at = "unpin"
    /\ place' = [i \in Items |-> IF i \in task[t].now THEN None ELSE place[i]]
    /\ Go(t, task[t], "places", TRUE)
    /\ UNCHANGED <<kind, archived, blank, told, asked, cause, left>>

\* bulk_update
WritePlaces(t) ==
    /\ task[t].at = "places"
    /\ LET order == task[t].order
       IN  /\ place' = [i \in Items |->
                    IF i \in ToSet(order) THEN Len(order) - At(order, i) ELSE place[i]]
           /\ asked' = IF task[t].passed THEN <<>> ELSE Once(order)
    /\ Go(t, task[t], "order", TRUE)
    /\ UNCHANGED <<kind, archived, blank, told, cause, left>>

TellOrder(t) ==
    /\ task[t].at = "order"
    /\ told' = Once(task[t].order)
    /\ End(t)
    /\ UNCHANGED <<kind, place, archived, blank, asked, left>>

-----------------------------------------------------------------------------
(* Folders *)

\* update_dialog_filter, of a folder that is not there: a row is made with
\* the id -1, which the user can have once
CreateFilter(t) ==
    /\ kind = "filters" /\ ~blank
    /\ \E i \in Items \ Listed : Begin(t, [Idle EXCEPT !.at = "fill", !.order = <<i>>])
    /\ blank' = TRUE
    /\ UNCHANGED <<kind, place, archived, told, asked, cause>>

\* fill_from_tl: a peer is not the user's, or both in and out
RefuseFilter(t) ==
    /\ task[t].at = "fill"
    /\ cause' = [cause EXCEPT !.refused = TRUE]
    /\ Stop(t)
    /\ UNCHANGED <<kind, place, archived, blank, told, asked, left>>

\* Mutant: the id of the new row is not saved.
FillWithoutId(t) ==
    /\ task[t].at = "fill"
    /\ Go(t, task[t], "add", TRUE)
    /\ UNCHANGED <<kind, place, archived, blank, told, asked, cause, left>>

\* It gets its id, unless there is a folder with that id by now.
FillFilter(t) ==
    /\ task[t].at = "fill"
    /\ \/ /\ place[Item(t)] = None
          /\ place' = [place EXCEPT ![Item(t)] = 0]
          /\ blank' = FALSE
          /\ asked' = <<>>
          /\ Go(t, task[t], "add", TRUE)
          /\ UNCHANGED cause
       \/ /\ place[Item(t)] # None
          /\ cause' = [cause EXCEPT !.refused = TRUE]
          /\ Stop(t)
          /\ UNCHANGED <<place, blank, asked>>
    /\ UNCHANGED <<kind, archived, told, left>>

\* Of one that is there only its own columns are written; when it has been
\* deleted meanwhile the handler fails.
ChangeFilter(t) ==
    /\ kind = "filters"
    /\ \E i \in Listed : Begin(t, [Idle EXCEPT !.at = "add", !.order = <<i>>])
    /\ UNCHANGED <<kind, place, archived, blank, told, asked, cause>>

TellFilter(t) ==
    /\ task[t].at = "add"
    /\ IF place[Item(t)] = None THEN Stop(t) /\ UNCHANGED <<told, cause>>
       ELSE /\ told' = IF Item(t) \in ToSet(told) THEN told ELSE Append(told, Item(t))
            /\ End(t)
    /\ UNCHANGED <<kind, place, archived, blank, asked, left>>

DeleteFilter(t) ==
    /\ kind = "filters"
    /\ \E i \in Listed :
        /\ place' = [place EXCEPT ![i] = None]
        /\ Go(t, [Idle EXCEPT !.order = <<i>>, !.place = None], "tell", TRUE)
    /\ asked' = <<>>
    /\ left' = left - 1
    /\ UNCHANGED <<kind, archived, blank, told, cause>>

-----------------------------------------------------------------------------
(* Sticker sets *)

\* install_stickerset: the row is made, or its `archived' changed.
InstallStickerSet(t) ==
    /\ kind = "sets"
    /\ \E i \in Items, archive \in BOOLEAN :
        /\ place' = [place EXCEPT ![i] = IF @ = None THEN 0 ELSE @]
        /\ archived' = IF archive THEN archived \cup {i} ELSE archived \ {i}
        /\ Go(t, [Idle EXCEPT !.order = <<i>>, !.flag = archive], "fetch", TRUE)
    /\ asked' = <<>>
    /\ left' = left - 1
    /\ UNCHANGED <<kind, blank, told, cause>>

\* uninstall_stickerset, toggle_sticker_sets
UninstallStickerSet(t) ==
    /\ kind = "sets"
    /\ \E i \in Items :
        /\ place[i] # None
        /\ place' = [place EXCEPT ![i] = None]
        /\ archived' = archived \ {i}
    /\ asked' = <<>>
    /\ Go(t, Idle, "fetch", TRUE)
    /\ left' = left - 1
    /\ UNCHANGED <<kind, blank, told, cause>>

\* The rows are read, and those that differ are written.
ToggleStickerSets(t) ==
    /\ kind = "sets"
    /\ \E sets \in SUBSET Items, archive \in BOOLEAN :
        LET changed == {i \in sets : place[i] # None /\ (i \in archived) # archive}
        IN  /\ changed # {}
            /\ Begin(t, [Idle EXCEPT !.at = "toggle", !.now = changed, !.flag = archive])
    /\ UNCHANGED <<kind, place, archived, blank, told, asked, cause>>

WriteArchived(t) ==
    /\ task[t].at = "toggle"
    /\ LET there == {i \in task[t].now : place[i] # None}
       IN  archived' = IF task[t].flag THEN archived \cup there ELSE archived \ there
    /\ asked' = <<>>
    /\ Go(t, task[t], "fetch", TRUE)
    /\ UNCHANGED <<kind, place, blank, told, cause, left>>

\* new_stickerset, update_stickersets: clients ask for the list.
FetchSets(t) ==
    /\ task[t].at = "fetch"
    /\ told' \in Shown
    /\ Stop(t)
    /\ UNCHANGED <<kind, place, archived, blank, asked, cause, left>>

\* update_dialog_filters_order, reorder_sticker_sets: those that are not
\* asked for come after, in the order they are in.
Reorder(t) ==
    /\ kind \notin Pins
    /\ \E order \in Orders, now \in Shown :
        Begin(t, [Idle EXCEPT !.at = "positions",
                    !.order = Kept(order, Listed) \o Kept(now, Listed \ ToSet(order))])
    /\ UNCHANGED <<kind, place, archived, blank, told, asked, cause>>

\* bulk_update; rows that are gone stay so.  Of sticker sets no update is
\* sent: the handler fails when it reads `installed.set', which was not
\* fetched, and the user is answered with an error.
WritePositions(t) ==
    /\ task[t].at = "positions"
    /\ LET order == task[t].order
       IN  /\ place' = [i \in Items |->
                    IF i \in ToSet(order) /\ place[i] # None THEN At(order, i) - 1 ELSE place[i]]
           /\ asked' = IF task[t].passed THEN <<>> ELSE order
    /\ Go(t, IF kind = "sets" THEN Idle ELSE task[t], IF kind = "sets" THEN "idle" ELSE "order", TRUE)
    /\ UNCHANGED <<kind, archived, blank, told, cause, left>>

Done == Quiet /\ UNCHANGED vars     \* the user need not do anything

Next ==
    \/ \E t \in Tasks :
        \/ /\ task[t] = Idle /\ left > 0
           /\ \/ TogglePin(t) \/ ReorderPinned(t)
              \/ CreateFilter(t) \/ ChangeFilter(t) \/ DeleteFilter(t)
              \/ InstallStickerSet(t) \/ UninstallStickerSet(t) \/ ToggleStickerSets(t)
              \/ Reorder(t)
        \/ MaxIndex(t) \/ SavePin(t) \/ TellPin(t)
        \/ UnpinOthers(t) \/ WritePlaces(t) \/ TellOrder(t)
        \/ RefuseFilter(t) \/ FillFilter(t) \/ TellFilter(t)
        \/ WriteArchived(t) \/ FetchSets(t) \/ WritePositions(t)
    \/ Done

Spec == Init /\ [][Next]_vars

-----------------------------------------------------------------------------
(* Properties *)

\* When no handler runs, clients that have followed the updates have what is
\* in the list, and after a handler that sets the order they have the order
\* that was asked for, and so has the database.  Not when a handler was
\* passed by another's writes; and the order of sticker sets is told to
\* nobody.
ListsAreAsTold ==
    Quiet =>
        /\ ~cause.crossed => ToSet(told) = Listed
        /\ asked # <<>> =>
            /\ cause.crossed \/ Shown = {asked}
            /\ cause.crossed \/ kind = "sets" \/ told = asked

\* A folder can be made whenever no other is being made: the row with the id
\* -1 stays only when a folder was refused, and then for good.
FoldersCanBeMade ==
    (blank /\ ~cause.refused) => \E t \in Tasks : task[t].at = "fill"
=============================================================================
