------------------------------ MODULE History ------------------------------
(***************************************************************************)
(* Reading page by page: the messages of a peer (getHistory, search,       *)
(* getReplies, getSavedHistory, getUnreadMentions) and the dialogs of a    *)
(* user (getDialogs), while messages arrive and are deleted.               *)
(*                                                                         *)
(* An answer takes several statements (messages before and after an        *)
(* offset, the messages themselves, their number), and between any two the *)
(* rows may change.  A client pages down from what it got last, or jumps   *)
(* to any offset.                                                          *)
(*                                                                         *)
(* A message is what queries ask of it.  Left out: min_id, dates, the text *)
(* and the author that are searched for, folders and pinned dialogs, and   *)
(* users and chats that come with an answer.  Dialogs without a message    *)
(* come last, as in SQLite and MySQL.                                      *)
(***************************************************************************)
EXTENDS Integers, SequencesExt

CONSTANTS
    MaxLimit,    \* the longest page (100)
    Peers,       \* the peers with a dialog, by their ids
    MaxId,       \* bound: messages ever sent
    Budgets      \* bounds, one of which a behaviour has: what is paged (of), the messages that
                 \* can be sent (sorts, see Fits), what clients ask for (asks: by, filter,
                 \* reply_to), and how many changes, jumps and pagings there are

VARIABLES
    of,      \* what is paged: messages or dialogs
    sent,    \* the messages ever sent, by id
    gone,    \* the ids of those that were deleted
    floor,   \* min_message_id of the participant
    dialog,  \* peer -> last_message_id, or 0 for None
    req,     \* the request being answered, and what was read for it
    client,  \* what the client has from paging down
    left     \* the rest of the budget

vars == <<of, sent, gone, floor, dialog, req, client, left>>

None == "none"
Ids == DOMAIN sent \ gone
Descending(S) == SetToSortSeq(S, LAMBDA i, j : i > j)
Ascending(S) == SetToSortSeq(S, LAMBDA i, j : i < j)
Least(a, b) == IF a < b THEN a ELSE b
Most(a, b) == IF a > b THEN a ELSE b
Take(s, n) == SubSeq(s, 1, Least(n, Len(s)))

-----------------------------------------------------------------------------
(* Queries *)

\* message_filter_to_query
Passes(m, filter) ==
    \/ filter = "pinned" /\ m.pinned
    \/ filter = "document" /\ m.media = "document"
    \/ filter \in {"photos", "photo_video"} /\ m.media = "photo"
    \/ filter \in {"video", "photo_video"} /\ m.file = "video"
    \/ filter = "gif" /\ m.file = "gif"
    \/ filter \in {"voice", "round_voice", "round_video"} /\ m.file = "voice"
    \/ filter \in {"round_voice", "round_video"} /\ m.file = "video_note"
    \/ filter = "music" /\ m.file = "audio"
    \/ filter = "url" /\ m.url
    \/ filter = "chat_photos" /\ m.type = "edit_photo"
    \/ filter = "my_mentions" /\ m.mentions
    \/ filter = "contacts" /\ m.media = "contact"
    \/ filter = "geo" /\ m.media = "geopoint"
    \/ filter = "phone_calls" /\ m.type = "phone_call"

\* append_channel_min_message_id_to_query_maybe
Shown(i) == i >= floor /\ (sent[i].type = "joined" => sent[i].mine)

InThread(i, q) ==
    \/ q.reply_to \in {sent[i].reply_to, sent[i].top}
    \/ q.offset_id # 0 /\ i = q.reply_to

\* get_messages_query_internal: the messages a request is about, without its
\* offset.  "empty" is a filter that asks for nothing; with another filter
\* the type of the message does not matter.
Fits(i, q) ==
    LET m == sent[i]
        plain == q.by \in {"history", "replies"} /\ q.filter = None
    IN  /\ Shown(i)
        /\ IF q.filter \notin {None, "empty"} THEN Passes(m, q.filter)
           ELSE IF plain THEN m.type # "scheduled" ELSE m.type = "regular"
        /\ q.max_id # 0 => i < q.max_id
        /\ q.by = "mentions" => m.mentions
        /\ q.by = "saved" => m.saved
        /\ q.reply_to # 0 => InThread(i, q)

\* The messages that are counted when the answer is a slice: all of the peer,
\* of the saved peer or of the thread.
Counted(i, q) ==
    Shown(i) /\ (q.by = "saved" => sent[i].saved) /\ (q.reply_to # 0 => InThread(i, q))

\* get_search_counters
SearchCounter(q) == Cardinality({i \in Ids : Shown(i) /\ Passes(sent[i], q.filter)})

\* What the handlers ask of get_messages_internal.
Asking(by, filter, reply_to) == [by |-> by, filter |-> filter, reply_to |-> reply_to]
GetHistory == Asking("history", None, 0)
GetReplies(msg_id) == Asking("replies", None, msg_id)
GetSavedHistory == Asking("saved", None, 0)
GetUnreadMentions == Asking("mentions", None, 0)
Search(filter) == Asking("search", filter, 0)     \* and SearchGlobal
GetSearchResultsPositions(filter) == Asking("positions", filter, 0)
GetSearchResultsCalendar(filter) == Asking("calendar", filter, 0)

Matching(q) == {i \in Ids : Fits(i, q)}
Slicing(q) == q.by \in {"history", "replies", "saved"}

Summaries == {"positions", "calendar"}

-----------------------------------------------------------------------------
Idle == [at |-> "idle"]
NoAnswer == [all |-> FALSE, count |-> 0, above |-> 0]
Resting == [asks |-> Idle, base |-> {}, got |-> {}, again |-> FALSE, short |-> FALSE, done |-> FALSE]

Init ==
    /\ of \in {"messages", "dialogs"}
    /\ sent = <<>> /\ gone = {}
    /\ floor \in IF of = "messages" THEN {0, 2} ELSE {0}
    /\ dialog = [p \in Peers |-> 0]
    /\ req = Idle /\ client = Resting
    /\ left \in {b \in Budgets : b.of = of}

Spend(what) == left[what] > 0 /\ left' = [left EXCEPT ![what] = @ - 1]

\* Only what changes while somebody reads is bounded.
Meanwhile == IF req # Idle \/ client.asks # Idle THEN Spend("changes") ELSE left' = left

\* What is read for a request may be out of date from now on.
Changed ==
    req' = IF req = Idle THEN req ELSE [req EXCEPT !.changed = TRUE]

Arrive(m) ==
    /\ of = "messages" /\ Len(sent) < MaxId
    /\ Meanwhile
    /\ sent' = Append(sent, m)
    /\ Changed
    /\ UNCHANGED <<of, gone, floor, dialog, client>>

Delete(i) ==
    /\ of = "messages" /\ i \in Ids
    /\ Spend("changes")
    /\ gone' = gone \cup {i}
    /\ client' = [client EXCEPT !.base = @ \ {i}]
    /\ Changed
    /\ UNCHANGED <<of, sent, floor, dialog>>

\* messages.DeleteSavedHistory: all that are saved from a peer, up to max_id
DeleteSavedHistory(max_id) ==
    LET those == {i \in Ids : sent[i].saved /\ (max_id # 0 => i <= max_id)}
    IN  /\ of = "messages" /\ those # {}
        /\ Spend("changes")
        /\ gone' = gone \cup those
        /\ client' = [client EXCEPT !.base = @ \ those]
        /\ Changed
        /\ UNCHANGED <<of, sent, floor, dialog>>

-----------------------------------------------------------------------------
(* Pages of messages *)

Request(a, max_id, offset_id, add_offset, limit) ==
    [at |-> IF a.by \in Summaries THEN "found" ELSE IF add_offset >= 0 THEN "rows" ELSE "after", by |-> a.by, filter |-> a.filter,
     reply_to |-> a.reply_to, max_id |-> max_id, offset_id |-> offset_id,
     add_offset |-> add_offset, limit |-> Most(Least(MaxLimit, limit), 1),
     after |-> {}, before |-> {}, page |-> <<>>, answer |-> NoAnswer, changed |-> FALSE]

\* messages.GetHistory, Search, SearchGlobal, GetReplies, GetSavedHistory,
\* GetUnreadMentions, for any place
Jump(a) ==
    /\ of = "messages" /\ req = Idle /\ client.asks = Idle /\ Spend("jumps")
    /\ \E offset_id \in 0..(Len(sent) + 1), limit \in 0..(MaxLimit + 1), max_id \in {0, Len(sent)} :
       \E add_offset \in (-MaxLimit - 1)..1 :
        /\ a.by \in Summaries => add_offset = 0 /\ limit = 0 /\ max_id = 0
        /\ req' = Request(a, max_id, offset_id, add_offset, limit)
    /\ UNCHANGED <<of, sent, gone, floor, dialog, client>>

\* ORDER BY -id LIMIT limit OFFSET add_offset
RowsBelow(q) ==
    LET ids == {i \in Matching(q) : q.offset_id # 0 => i < q.offset_id}
    IN  Take(SubSeq(Descending(ids), q.add_offset + 1, Cardinality(ids)), q.limit)

\* With a negative add_offset: first the ids from the offset up.
IdsAfter ==
    /\ req.at = "after"
    /\ LET ids == {i \in Matching(req) : i >= req.offset_id}
           after == ToSet(Take(Ascending(ids), Least(-req.add_offset, req.limit)))
       IN  req' = [req EXCEPT !.after = after,
                              !.at = IF Cardinality(after) >= req.limit THEN "rows" ELSE "before"]
    /\ UNCHANGED <<of, sent, gone, floor, dialog, client, left>>

\* Mutant: as many are taken from below as if none were above.
IdsBeforeAll ==
    /\ req.at = "before"
    /\ LET ids == {i \in Matching(req) : i < req.offset_id}
       IN  req' = [req EXCEPT !.before = ToSet(Take(Descending(ids), req.limit)), !.at = "rows"]
    /\ UNCHANGED <<of, sent, gone, floor, dialog, client, left>>

IdsBefore ==
    /\ req.at = "before"
    /\ LET ids == {i \in Matching(req) : i < req.offset_id}
           limit == req.limit - Cardinality(req.after)
       IN  req' = [req EXCEPT !.before = ToSet(Take(Descending(ids), limit)), !.at = "rows"]
    /\ UNCHANGED <<of, sent, gone, floor, dialog, client, left>>

\* get_messages_internal; an empty page is answered at once, and so are pages
\* of requests that do not count.
Rows ==
    /\ req.at = "rows"
    /\ LET page == IF req.add_offset >= 0 THEN RowsBelow(req)
                   ELSE Descending(Ids \cap (req.after \cup req.before))
       IN  req' = [req EXCEPT !.page = page,
                              !.answer.all = TRUE,
                              !.at = IF page # <<>> /\ Slicing(req) THEN "count" ELSE "answer"]
    /\ UNCHANGED <<of, sent, gone, floor, dialog, client, left>>

\* format_messages_internal
Count ==
    /\ req.at = "count"
    /\ LET count == Cardinality({i \in Ids : Counted(i, req)})
           all == count <= Len(req.page) /\ req.offset_id = 0
       IN  req' = [req EXCEPT !.answer = [all |-> all, count |-> count, above |-> 0],
                              !.at = IF all \/ req.offset_id = 0 THEN "answer" ELSE "above"]
    /\ UNCHANGED <<of, sent, gone, floor, dialog, client, left>>

\* offset_id_offset
CountAbove ==
    /\ req.at = "above"
    /\ req' = [req EXCEPT !.at = "answer",
                  !.answer.above = Cardinality({i \in Ids : Counted(i, req) /\ i >= req.offset_id})]
    /\ UNCHANGED <<of, sent, gone, floor, dialog, client, left>>

-----------------------------------------------------------------------------
(* messages.GetSearchResultsPositions and GetSearchResultsCalendar: how many
   messages pass a filter, how many of them from the offset on, and then the
   first below it, or the messages below it by day.  From where the user may
   read is not asked. *)

Found(q) == {i \in Ids : Passes(sent[i], q.filter)}
Day(i) == i \div 2    \* the day of a message: any that does not decrease

CountFound ==
    /\ req.at = "found"
    /\ req' = [req EXCEPT !.answer.count = Cardinality(Found(req)),
                          !.at = IF req.offset_id # 0 THEN "found above" ELSE req.by]
    /\ UNCHANGED <<of, sent, gone, floor, dialog, client, left>>

\* Mutant: the message at the offset is not counted.
FoundBeyond ==
    /\ req.at = "found above"
    /\ req' = [req EXCEPT !.answer.above = Cardinality({i \in Found(req) : i > req.offset_id}),
                          !.at = req.by]
    /\ UNCHANGED <<of, sent, gone, floor, dialog, client, left>>

FoundAbove ==
    /\ req.at = "found above"
    /\ req' = [req EXCEPT !.answer.above = Cardinality({i \in Found(req) : i >= req.offset_id}),
                          !.at = req.by]
    /\ UNCHANGED <<of, sent, gone, floor, dialog, client, left>>

FoundBelow(q) == {i \in Found(q) : q.offset_id # 0 => i < q.offset_id}

\* min(1, max(100, limit)) messages, that is one
Positions ==
    /\ req.at = "positions"
    /\ req' = [req EXCEPT !.page = Take(Descending(FoundBelow(req)), 1), !.at = "answer"]
    /\ UNCHANGED <<of, sent, gone, floor, dialog, client, left>>

\* The days, the latest first, as many as a page can have, each with its
\* lowest and highest message and their number.
Calendar ==
    /\ req.at = "calendar"
    /\ LET days == Take(Descending({Day(i) : i \in FoundBelow(req)}), MaxLimit)
       IN  req' = [req EXCEPT !.at = "answer", !.page = [n \in DOMAIN days |->
                      LET of_day == {i \in FoundBelow(req) : Day(i) = days[n]}
                      IN  [min |-> Min(of_day), max |-> Max(of_day), count |-> Cardinality(of_day)]]]
    /\ UNCHANGED <<of, sent, gone, floor, dialog, client, left>>

-----------------------------------------------------------------------------
(* Pages of dialogs *)

\* The message of a peer that is its last one now; Lower: it was deleted.
NewMessage(p) ==
    /\ of = "dialogs"
    /\ Len(sent) < MaxId
    /\ Meanwhile
    /\ \E m \in left.sorts : sent' = Append(sent, m)
    /\ dialog' = [dialog EXCEPT ![p] = Len(sent) + 1]
    /\ client' = [client EXCEPT !.base = @ \ {p}]
    /\ Changed
    /\ UNCHANGED <<of, gone, floor>>

LastDeleted(p) ==
    /\ of = "dialogs" /\ dialog[p] # 0 /\ Spend("changes")
    /\ \E i \in 0..(dialog[p] - 1) :
        /\ \A o \in Peers : dialog[o] # i \/ i = 0
        /\ dialog' = [dialog EXCEPT ![p] = i]
    /\ gone' = gone \cup {dialog[p]}
    /\ client' = [client EXCEPT !.base = @ \ {p}]
    /\ Changed
    /\ UNCHANGED <<of, sent, floor>>

\* get_dialogs_internal: what the offset means is read from the peer it is
\* given by; of one without messages its id counts.
OffsetPeer ==
    /\ req.at = "offset"
    /\ LET p == req.offset_peer
           last == dialog[p]
       IN  req' = [req EXCEPT !.at = "dialogs",
                      !.offset_id = IF last = 0 THEN 0 ELSE IF @ = 0 \/ @ > last THEN last ELSE @,
                      !.below = IF last = 0 THEN p ELSE 0,
                      !.sunk = last < req.offset_id]
    /\ UNCHANGED <<of, sent, gone, floor, dialog, client, left>>

\* Mutant: the offset counts as one of the page.
DialogsFrom(q) ==
    {p \in Peers : (q.offset_id # 0 => dialog[p] \in 1..q.offset_id) /\ (q.below # 0 => p < q.below)}

DialogsBelow(q) ==
    {p \in Peers : (q.offset_id # 0 => dialog[p] \in 1..(q.offset_id - 1)) /\ (q.below # 0 => p < q.below)}

\* order_by("-peer__last_message_id", "-id")
DialogRows ==
    /\ req.at = "dialogs"
    /\ LET rows == SetToSortSeq(DialogsBelow(req), LAMBDA p, o :
                        dialog[p] > dialog[o] \/ (dialog[p] = dialog[o] /\ p > o))
           page == Take(rows, req.limit)
       IN  req' = [req EXCEPT !.page = page, !.last = [p \in ToSet(page) |-> dialog[p]], !.at = "messages"]
    /\ UNCHANGED <<of, sent, gone, floor, dialog, client, left>>

\* format_dialogs: the last messages, if they are still there, and whether
\* the user has more dialogs
FormatDialogs ==
    /\ req.at = "messages"
    /\ req' = [req EXCEPT !.at = "answer",
                  !.top = {req.last[p] : p \in DOMAIN req.last} \cap Ids,
                  !.answer = [NoAnswer EXCEPT !.all = Cardinality(Peers) <= Len(req.page)]]
    /\ UNCHANGED <<of, sent, gone, floor, dialog, client, left>>

-----------------------------------------------------------------------------
(* The client *)

DialogsRequest(offset_id, offset_peer) ==
    [at |-> IF offset_peer = 0 THEN "dialogs" ELSE "offset", offset_id |-> offset_id,
     offset_peer |-> offset_peer, below |-> 0, limit |-> MaxLimit, page |-> <<>>, last |-> <<>>,
     top |-> {}, sunk |-> FALSE, answer |-> NoAnswer, changed |-> FALSE]

\* It starts with the newest.
StartPaging ==
    /\ req = Idle /\ client.asks = Idle /\ ~client.done /\ Spend("pages")
    /\ \/ /\ of = "messages"
          /\ \E a \in left.asks :
            /\ req' = Request(a, 0, 0, 0, MaxLimit)
            /\ client' = [client EXCEPT !.asks = a, !.base = Matching(req')]
       \/ /\ of = "dialogs"
          /\ req' = DialogsRequest(0, 0)
          /\ client' = [client EXCEPT !.asks = [by |-> "dialogs"], !.base = Peers]
    /\ UNCHANGED <<of, sent, gone, floor, dialog>>

\* It goes on from the last it got until a page is empty or said to be all.
NextPage ==
    /\ req.at = "answer" /\ client.asks # Idle
    /\ LET page == req.page
           end == Last(page)
           over == page = <<>> \/ (req.answer.all /\ (of = "dialogs" \/ Slicing(req)))
       IN  /\ client' = [client EXCEPT
                !.got = @ \cup ToSet(page),
                !.again = @ \/ client.base \cap client.got \cap ToSet(page) # {},
                !.short = @ \/ (of = "messages" /\ req.answer.all /\ Slicing(req) /\ req.changed)
                            \/ (of = "dialogs" /\ (req.sunk \/ 0 \in {dialog[p] : p \in Peers} \cup {req.last[p] : p \in DOMAIN req.last})),
                !.asks = IF over THEN Idle ELSE @, !.done = over]
           /\ req' = IF over THEN Idle
                     ELSE IF of = "dialogs" THEN DialogsRequest(req.last[end], end)
                     ELSE Request(client.asks, 0, end, 0, MaxLimit)
    /\ UNCHANGED <<of, sent, gone, floor, dialog, left>>

Answered ==
    /\ req.at = "answer" /\ client.asks = Idle
    /\ req' = Idle
    /\ UNCHANGED <<of, sent, gone, floor, dialog, client, left>>

Done == req = Idle /\ UNCHANGED vars    \* nobody need ask or write

Next ==
    \/ \E m \in left.sorts : Arrive(m)
    \/ \E i \in 1..MaxId : Delete(i)
    \/ \E max_id \in {0, 2} : DeleteSavedHistory(max_id)
    \/ \E a \in left.asks : Jump(a)
    \/ IdsAfter \/ IdsBefore \/ Rows \/ Count \/ CountAbove
    \/ CountFound \/ FoundAbove \/ Positions \/ Calendar
    \/ \E p \in Peers : NewMessage(p) \/ LastDeleted(p)
    \/ OffsetPeer \/ DialogRows \/ FormatDialogs
    \/ StartPaging \/ NextPage \/ Answered
    \/ Done

Spec == Init /\ [][Next]_vars

-----------------------------------------------------------------------------
(* Properties *)

\* The messages from the one at the offset, add_offset further down the list
\* or, if negative, up, but not beyond the newest.
Window(q) ==
    LET list == Descending(Matching(q))
        above == Cardinality({i \in Matching(q) : q.offset_id # 0 /\ i >= q.offset_id})
        start == Most(0, above + q.add_offset)
    IN  Take(SubSeq(list, start + 1, Len(list)), q.limit)

Unscheduled == \A i \in Ids : sent[i].type # "scheduled"

\* If nothing changes between its statements, a page is the window of the list
\* that was asked for: the statements above and below the offset of a negative
\* add_offset meet without a gap or an overlap.  Not so for an add_offset that
\* goes up from no offset, or further than the limit.  A history that is said
\* to be complete is, and offset_id_offset is the place of the page in the
\* list, unless messages are scheduled, which are counted and not shown.
PageIsWindow ==
    (of = "messages" /\ req.at = "answer" /\ ~req.changed /\ req.by \notin Summaries) =>
        LET page == req.page
            straight == req.add_offset >= 0 \/ (req.offset_id # 0 /\ -req.add_offset <= req.limit)
            told == Slicing(req) /\ page # <<>>
            list == Descending({i \in Ids : Counted(i, req)})
            place == Most(0, req.answer.above + req.add_offset) + 1
        IN  /\ straight => page = Window(req)
            /\ (told /\ req.answer.all) => ToSet(page) = Matching(req)
            /\ (told /\ straight /\ ~req.answer.all /\ Unscheduled /\ req.by = "history"
                    /\ req.max_id = 0) =>
                list[place] = page[1]

\* What is told of the messages that pass a filter fits together, if nothing
\* changes meanwhile: the first below the offset is in the place it is said
\* to be in, the days of a calendar that is not cut short have as many as are
\* left, in order, and a search finds as many as the counter says.
CountsFitPages ==
    (of = "messages" /\ req.at = "answer" /\ ~req.changed) =>
        LET page == req.page
            days == DOMAIN page
        IN  /\ (req.by = "positions" /\ page # <<>>) =>
                Descending(Found(req))[req.answer.above + 1] = page[1]
            /\ (req.by = "calendar" /\ Len(page) < MaxLimit) =>
                /\ FoldLeft(LAMBDA n, d : n + d.count, 0, page) = req.answer.count - req.answer.above
                /\ \A m, n \in days : m < n => page[m].min > page[n].max
            /\ (req.by = "search" /\ req.filter # "empty" /\ req.max_id = 0) =>
                Cardinality(Matching(req)) = SearchCounter(req)

\* A client that pages down to the end gets every message or dialog that was
\* there all the time once, whatever arrives and is deleted meanwhile.  A
\* history may be said to be complete when it is not if it changes before it
\* is counted; dialogs are passed over when the last message of the one they
\* are asked from was deleted (the offset sinks), or one has no messages.
PagedOnce ==
    client.done => (~client.short => client.base \subseteq client.got /\ ~client.again)
=============================================================================
