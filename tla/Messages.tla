------------------------------ MODULE Messages ------------------------------
(***************************************************************************)
(* The messages of a private dialog: two users, each with a copy of the    *)
(* dialog (a Peer with its MessageRef rows) over shared MessageContent     *)
(* rows; what each has read, and the messages scheduled for later          *)
(* (app/handlers/messages/sending.py, history.py, scheduled.py,            *)
(* app/handlers/internal.py, scheduler.py, db/models/message_ref.py,       *)
(* message_content.py, peer.py, read_state.py, dialog.py).                 *)
(*                                                                         *)
(* A task is a request between two of its queries; a transaction is one    *)
(* step.  Ids grow and are never used twice.                               *)
(***************************************************************************)
EXTENDS Integers, FiniteSets, FiniteSetsExt, Functions

CONSTANTS
    Users,          \* the two users
    Tasks,
    Randoms,        \* the random ids of requests
    Texts,
    HistoryLimit,   \* how many messages delete_history takes at once (1000)
    None,
    Ttl,            \* whether the dialog has a TTL
    Requests,       \* bound: the requests that are made
    MaxOps          \* bound: messages, requests, failures, lost jobs

ASSUME MessagesAssumption ==
    /\ IsFiniteSet(Users) /\ Cardinality(Users) = 2
    /\ None \notin Users \cup Randoms \cup Texts
    /\ HistoryLimit \in Nat \ {0} /\ Ttl \in BOOLEAN /\ MaxOps \in Nat

VARIABLES
    content,   \* id -> MessageContent
    ref,       \* the MessageRef rows
    next,      \* the next ids of a content and of a ref; top: history, the newest
               \* content that has had refs
    last,      \* user -> last_message_id of the user's peer
    readIn,    \* user -> last_message_id of the user's ReadState; -1 without one
    outMax,    \* user -> out_max_read_id of the user's peer
    visible,   \* users whose dialog is visible
    blocked,   \* users who have blocked the other one
    plan,      \* the TaskIqScheduledMessage rows
    jobs,      \* refs the scheduler has handed to the workers
    expire,    \* contents with a TaskIqScheduledDeleteMessage row
    cache,     \* contents as cached under their id and version
    task,
    ops,       \* for the bound
    sent,      \* history: <<scheduled ref, content it was sent as>>
    seen,      \* history: user -> the last message the user asked to mark read
    unsynced,  \* history: users with messages deleted after the last sync
    late,      \* history: contents that got refs after a later content
    clash,     \* history: contents saved twice under one version
    parted,    \* history: contents pinned or unpinned without a blocking user's copy
    hidden     \* history: users left with messages in a hidden dialog

rows == <<content, ref, next, last, plan>>
reads == <<readIn, outMax, seen>>
sched == <<jobs, expire, sent>>
marks == <<unsynced, late, clash, parted, hidden>>
vars == <<rows, reads, visible, blocked, sched, cache, task, ops, marks>>

Other(u) == CHOOSE v \in Users : v # u

\* org: history, the random id of the request that made it.
Contents == [author : Users, kind : {"regular", "scheduled", "service"},
             text : Texts \cup {None}, ver : Nat, org : Randoms \cup {None}]
Refs == [id : Nat, peer : Users, c : Nat, rnd : Randoms \cup {None}, pinned : BOOLEAN]
\* sent: its state is SENT; due: its scheduled_time has come.
Plans == [ref : Nat, sent : BOOLEAN, due : BOOLEAN]

\* todo, rnd: random ids still to send and of this message; peers: whom it goes
\* to; c, ref, text, ver: the rows in hand; ids: refs or contents to change;
\* yes: whether a pin is set, a history deleted whole, or a date changed;
\* over: history, the user's read state was written since ref was looked up.
IdleTask == [step |-> "idle", op |-> "none", u |-> None, todo |-> {}, rnd |-> None,
             peers |-> {}, c |-> 0, ref |-> 0, text |-> None, ver |-> 0,
             ids |-> {}, yes |-> FALSE, over |-> FALSE]
TaskStates ==
    [step : {"idle", "content", "refs", "unhide", "plan", "unread", "own",
             "save", "redate", "delete", "purge", "hide", "rsave", "receipt", "pin",
             "cache"},
     op : {"none", "send", "schedule", "forward", "pin", "silent", "edit", "delete",
           "purge", "read", "view"},
     u : Users \cup {None}, todo : SUBSET (Randoms \cup {None}),
     rnd : Randoms \cup {None}, peers : SUBSET Users, c : Nat, ref : Nat,
     text : Texts \cup {None}, ver : Nat, ids : SUBSET Nat, yes : BOOLEAN,
     over : BOOLEAN]

TypeOK ==
    /\ content \in [DOMAIN content -> Contents]
    /\ DOMAIN content \subseteq 1 .. next.c - 1
    /\ ref \subseteq Refs
    /\ next \in [c : Nat, r : Nat, top : Nat]
    /\ \A x \in ref : x.id < next.r /\ x.c \in DOMAIN content
    /\ last \in [Users -> Nat] /\ readIn \in [Users -> Nat \cup {-1}]
    /\ outMax \in [Users -> Nat] /\ seen \in [Users -> Nat]
    /\ visible \subseteq Users /\ blocked \subseteq Users
    /\ plan \subseteq Plans /\ \A p \in plan : \E x \in ref : x.id = p.ref
    /\ jobs \subseteq Nat /\ expire \subseteq DOMAIN content
    /\ cache \subseteq [c : Nat, ver : Nat, text : Texts]
    /\ task \in [Tasks -> TaskStates]
    /\ ops \in 0 .. MaxOps

-----------------------------------------------------------------------------
(* Rows *)

Ids(R) == {x.id : x \in R}
Of(R, u) == {x \in R : x.peer = u}
Copies(R, c) == {x \in R : x.c = c}
Kind(x) == content[x.c].kind
\* content with the row m under the id c.
WithRow(c, m) == [d \in DOMAIN content \cup {c} |-> IF d = c THEN m ELSE content[d]]

\* Mutant: the largest id there has ever been is kept.
SyncOnlyGrows(S, R) ==
    /\ last' = [u \in Users |-> IF u \in S THEN Max({last[u]} \cup Ids(Of(R, u))) ELSE last[u]]
    /\ unsynced' = unsynced \ S

\* sync_last_message_bulk: the last message of each peer, or what there was.
Sync(S, R) ==
    /\ last' = [u \in Users |->
           IF u \in S /\ Of(R, u) # {} THEN Max(Ids(Of(R, u))) ELSE last[u]]
    /\ unsynced' = unsynced \ S

\* Mutant: no unique index on (peer, random_id, random_user).
AnyRandom(u, rnd) == TRUE

\* The unique index on (peer, random_id, random_user).
RandomIsNew(u, rnd) == rnd = None \/ \A x \in Of(ref, u) : x.rnd # rnd

\* Refs of content c for each of the peers, the sender's first, in the place of
\* the refs in gone; bulk_create and sync_last_message_bulk in a transaction.
Inserts(c, u, peers, rnd, gone) ==
    LET R == {[id |-> next.r + (IF p = u THEN 0 ELSE 1), peer |-> p, c |-> c,
               rnd |-> IF p = u THEN rnd ELSE None, pinned |-> FALSE] : p \in peers}
    IN
    /\ ref' = (ref \ gone) \cup R
    /\ Sync(peers, ref')
    /\ late' = IF c < next.top THEN late \cup {c} ELSE late
    /\ plan' = {p \in plan : p.ref \notin Ids(gone)}

\* get_opposite leaves out the other user who has blocked u.
Audience(u) == {u} \cup ({Other(u)} \ blocked)

Unhides(S) == visible' = visible \cup S /\ hidden' = hidden \ S

\* Deleting a content deletes its refs, and they their plans; nothing is synced.
DeletesContents(C) ==
    LET R == {x \in ref : x.c \in C} IN
    /\ content' = Restrict(content, DOMAIN content \ C)
    /\ ref' = ref \ R
    /\ plan' = {p \in plan : p.ref \notin Ids(R)}
    /\ expire' = expire \ C
    /\ unsynced' = unsynced \cup {x.peer : x \in R}

Set(t, r) == task' = [task EXCEPT ![t] = r]
Goes(t, s) == Set(t, [task[t] EXCEPT !.step = s])
Ends(t) == Set(t, IdleTask)
At(t, s) == task[t].step = s
Counts(n) == ops + n <= MaxOps /\ ops' = ops + n
\* A request begins, for n messages.
BeginsMany(t, n, r) ==
    /\ At(t, "idle") /\ Counts(n)
    /\ Set(t, r)
Begins(t, r) == BeginsMany(t, 1, r)

-----------------------------------------------------------------------------
(* send_message, send_media, send_multi_media, send_inline_bot_result,      *)
(* start_bot and forward_messages                                           *)

\* A request with a random id that is already stored is answered with the
\* stored message (or refused, send_multi_media).
StartSend(t, u, S, op) ==
    /\ u \notin blocked
    /\ \A r \in S : RandomIsNew(u, r)
    /\ BeginsMany(t, Cardinality(S),
                  [IdleTask EXCEPT !.step = "content", !.op = op, !.u = u, !.todo = S])
    /\ UNCHANGED <<rows, reads, visible, blocked, sched, cache, marks>>

\* One message; whom it goes to is looked up before it is cloned.
StartForward(t, u, x, r) ==
    /\ u \notin blocked
    /\ RandomIsNew(u, r) /\ Kind(x) = "regular"
    /\ Begins(t, [IdleTask EXCEPT !.step = "content", !.op = "forward", !.u = u,
                     !.todo = {r}, !.peers = Audience(u), !.text = content[x.c].text])
    /\ UNCHANGED <<rows, reads, visible, blocked, sched, cache, marks>>

\* MessageContent.create_for_peer or clone_forward_bulk, then get_opposite.  The
\* service message of a pin replies to the message, which must still be there.
CreateContent(t) ==
    LET k == task[t] IN
    /\ At(t, "content")
    /\ IF k.op = "pin" /\ k.ref \notin Ids(ref)
       THEN Ends(t) /\ UNCHANGED <<content, next>>
       ELSE \E r \in k.todo, x \in IF k.op = "forward" THEN {k.text}
                                    ELSE IF k.op = "pin" THEN {None} ELSE Texts :
            /\ content' = WithRow(next.c,
                   [author |-> k.u, text |-> x, ver |-> 0, org |-> r,
                    kind |-> CASE k.op = "schedule" -> "scheduled"
                               [] k.op = "pin" -> "service"
                               [] OTHER -> "regular"])
            /\ next' = [next EXCEPT !.c = @ + 1]
            /\ Set(t, [k EXCEPT !.step = "refs", !.rnd = r, !.todo = @ \ {r},
                     !.c = next.c, !.text = None, !.ref = 0,
                     !.peers = CASE k.op = "forward" -> @
                                 [] k.op = "schedule" -> {k.u}
                                 [] OTHER -> Audience(k.u)])
    /\ UNCHANGED <<ref, last, plan, reads, visible, blocked, sched, cache, ops, marks>>

\* bulk_create fails on a random id that was stored meanwhile.
CreateRefs(t) ==
    LET k == task[t] IN
    /\ At(t, "refs")
    /\ \/ /\ RandomIsNew(k.u, k.rnd)
          /\ Inserts(k.c, k.u, k.peers, k.rnd, {})
          /\ next' = [next EXCEPT !.r = @ + 2, !.top = Max({@, k.c})]
          /\ Set(t, [k EXCEPT !.step = "unhide", !.ref = next.r])
       \/ /\ ~RandomIsNew(k.u, k.rnd)
          /\ Ends(t)
          /\ UNCHANGED <<ref, last, plan, next, unsynced, late>>
    /\ UNCHANGED <<content, reads, visible, blocked, sched, cache, ops, clash, parted, hidden>>

\* Dialog.create_or_unhide_bulk; a forwarded message is done.
Unhide(t) ==
    /\ At(t, "unhide")
    /\ Unhides(task[t].peers)
    /\ IF task[t].op = "forward" THEN Ends(t)
       ELSE Goes(t, IF task[t].op = "schedule" THEN "plan" ELSE "unread")
    /\ UNCHANGED <<rows, reads, blocked, sched, cache, ops, unsynced, late, clash, parted>>

\* The next message of send_multi_media, or the end.
NextSend(t) ==
    IF task[t].todo = {} THEN IdleTask
    ELSE [IdleTask EXCEPT !.step = "content", !.op = task[t].op, !.u = task[t].u,
                          !.todo = task[t].todo]

\* TaskIqScheduledMessage.create refers to the ref, if it is still there.
CreatePlan(t) ==
    /\ At(t, "plan")
    /\ \/ /\ task[t].ref \in Ids(ref)
          /\ plan' = plan \cup {[ref |-> task[t].ref, sent |-> FALSE, due |-> FALSE]}
          /\ Set(t, NextSend(t))
       \/ /\ task[t].ref \notin Ids(ref)
          /\ UNCHANGED plan
          /\ Ends(t)
    /\ UNCHANGED <<content, ref, next, last, reads, visible, blocked, sched, cache, ops, marks>>

HasUnread(u) == \E x \in Of(ref, u) : x.id > readIn[u] /\ content[x.c].author # u

\* send_created_messages_internal: in a dialog with a TTL the deletion is put
\* down, if the content is still there (the updates are UpdateLog's).  Then
\* get_in_out_ids_and_unread counts what the other user sent since.
CountUnread(t) ==
    LET u == task[t].u IN
    /\ At(t, "unread")
    /\ expire' = IF Ttl THEN expire \cup ({task[t].c} \cap DOMAIN content) ELSE expire
    /\ readIn' = [readIn EXCEPT ![u] = Max({@, 0})]
    /\ IF HasUnread(u)
       THEN Set(t, NextSend(t)) ELSE Goes(t, "own")
    /\ UNCHANGED <<rows, outMax, seen, visible, blocked, jobs, sent, cache, ops, marks>>

\* A task writes its user's read state and goes on as r.
Reads(t, id, r) ==
    LET u == task[t].u IN
    /\ readIn' = [readIn EXCEPT ![u] = id]
    /\ task' = [s \in Tasks |->
          IF s = t THEN r
          ELSE IF task[s].u = u /\ task[s].step \in {"unhide", "unread", "own", "rsave"}
          THEN [task[s] EXCEPT !.over = TRUE]
          ELSE task[s]]

\* Mutant: the newest message counts as read, not the one just sent.
ReadLast(t) ==
    /\ At(t, "own")
    /\ Reads(t, last[task[t].u], NextSend(t))
    /\ UNCHANGED <<rows, outMax, seen, visible, blocked, sched, cache, ops, marks>>

\* With nothing unread the message just sent is the last one read.
ReadOwn(t) ==
    /\ At(t, "own")
    /\ Reads(t, task[t].ref, NextSend(t))
    /\ UNCHANGED <<rows, outMax, seen, visible, blocked, sched, cache, ops, marks>>

-----------------------------------------------------------------------------
(* edit_message *)

\* A new text, or the old one again when only the date is given.
StartEdit(t, u, x) ==
    /\ u \notin blocked
    /\ Kind(x) \in {"regular", "scheduled"} /\ content[x.c].author = u
    /\ \E s \in Texts, d \in BOOLEAN :
          /\ d => Kind(x) = "scheduled"
          /\ Begins(t, [IdleTask EXCEPT !.step = "save", !.op = "edit", !.u = u, !.c = x.c,
                           !.ref = x.id, !.text = s, !.ver = content[x.c].ver + 1, !.yes = d])
    /\ UNCHANGED <<rows, reads, visible, blocked, sched, cache, marks>>

\* Mutant: the version is not raised.
SaveSameVersion(t) ==
    LET k == task[t] IN
    /\ At(t, "save")
    /\ content' = IF k.c \in DOMAIN content
                  THEN [content EXCEPT ![k.c].text = k.text, ![k.c].ver = k.ver - 1] ELSE content
    /\ UNCHANGED clash
    /\ IF k.yes THEN Goes(t, "redate") ELSE Ends(t)
    /\ UNCHANGED <<ref, next, last, plan, reads, visible, blocked, sched, cache, ops,
                   unsynced, late, parted, hidden>>

\* What was read is changed and saved as it is; a deleted row stays deleted.
Save(t) ==
    LET k == task[t] IN
    /\ At(t, "save")
    /\ content' = IF k.c \in DOMAIN content
                  THEN [content EXCEPT ![k.c].text = k.text, ![k.c].ver = k.ver] ELSE content
    /\ clash' = IF k.c \in DOMAIN content /\ content[k.c].ver >= k.ver
                THEN clash \cup {k.c} ELSE clash
    /\ IF k.yes THEN Goes(t, "redate") ELSE Ends(t)
    /\ UNCHANGED <<ref, next, last, plan, reads, visible, blocked, sched, cache, ops,
                   unsynced, late, parted, hidden>>

\* The plan gets the new time; what the scheduler took up stays taken up.
Redate(t) ==
    /\ At(t, "redate")
    /\ plan' = {IF p.ref = task[t].ref THEN [p EXCEPT !.due = FALSE] ELSE p : p \in plan}
    /\ Ends(t)
    /\ UNCHANGED <<content, ref, next, last, reads, visible, blocked, sched, cache, ops, marks>>

-----------------------------------------------------------------------------
(* delete_messages, delete_history and delete_scheduled_messages *)

\* With revoke the copies of the other user go too.
StartDelete(t, u, x, revoke) ==
    /\ Begins(t, [IdleTask EXCEPT !.step = "delete", !.op = "delete", !.u = u,
                     !.ids = IF revoke THEN Ids(Copies(ref, x.c)) ELSE {x.id}])
    /\ UNCHANGED <<rows, reads, visible, blocked, sched, cache, marks>>

DeleteRefs(t) ==
    LET R == {x \in ref : x.id \in task[t].ids} IN
    /\ At(t, "delete")
    /\ ref' = ref \ R
    /\ Sync({x.peer : x \in R}, ref')
    /\ plan' = {p \in plan : p.ref \notin Ids(R)}
    /\ Ends(t)
    /\ UNCHANGED <<content, next, reads, visible, blocked, sched, cache, ops, late, clash,
                   parted, hidden>>

\* The newest messages up to max; yes: none is left over below them.
StartDeleteHistory(t, u, max) ==
    LET R == {x \in Of(ref, u) : x.id <= max}
        Newest == {x \in R : Cardinality({y \in R : y.id > x.id}) < HistoryLimit}
    IN
    /\ R # {}
    /\ Begins(t, [IdleTask EXCEPT !.step = "purge", !.op = "purge", !.u = u,
                     !.ids = {x.c : x \in Newest}, !.yes = (Newest = R)])
    /\ UNCHANGED <<rows, reads, visible, blocked, sched, cache, marks>>

StartDeleteScheduled(t, u, x) ==
    /\ Kind(x) = "scheduled"
    /\ Begins(t, [IdleTask EXCEPT !.step = "purge", !.op = "purge", !.u = u, !.ids = {x.c}])
    /\ UNCHANGED <<rows, reads, visible, blocked, sched, cache, marks>>

\* The contents go, and with them the other user's copies, revoke or not.
Purge(t) ==
    /\ At(t, "purge")
    /\ DeletesContents(task[t].ids)
    /\ IF task[t].yes THEN Goes(t, "hide") ELSE Ends(t)
    /\ UNCHANGED <<next, last, reads, visible, blocked, jobs, sent, cache, ops, late, clash,
                   parted, hidden>>

\* The dialog is hidden even if it has newer messages.
HideDialog(t) ==
    LET u == task[t].u IN
    /\ At(t, "hide")
    /\ visible' = visible \ {u}
    /\ hidden' = IF Of(ref, u) # {} THEN hidden \cup {u} ELSE hidden
    /\ Ends(t)
    /\ UNCHANGED <<rows, reads, blocked, sched, cache, ops, unsynced, late, clash, parted>>

-----------------------------------------------------------------------------
(* read_history *)

BeginsRead(u, m) == [IdleTask EXCEPT !.step = "rsave", !.op = "read", !.u = u,
                                     !.ref = m.id, !.c = m.c]

\* Mutant: what has been read already is not compared.
StartReadUnchecked(t, u, max) ==
    LET R == {x \in Of(ref, u) : x.id <= max}
        m == CHOOSE x \in R : \A y \in R : y.id <= x.id
    IN
    /\ R # {}
    /\ Begins(t, BeginsRead(u, m))
    /\ readIn' = [readIn EXCEPT ![u] = Max({@, 0})]
    /\ UNCHANGED <<rows, outMax, seen, visible, blocked, sched, cache, marks>>

\* The last message up to max, unless that much has been read; without any
\* message the request fails.  The read state is created at least.
StartRead(t, u, max) ==
    LET R == {x \in Of(ref, u) : x.id <= max}
        m == CHOOSE x \in R : \A y \in R : y.id <= x.id
    IN
    /\ IF R # {} /\ m.id > readIn[u]
       THEN Begins(t, BeginsRead(u, m))
       ELSE Begins(t, IdleTask)
    /\ readIn' = [readIn EXCEPT ![u] = Max({@, 0})]
    /\ UNCHANGED <<rows, outMax, seen, visible, blocked, sched, cache, marks>>

SaveRead(t) ==
    LET u == task[t].u IN
    /\ At(t, "rsave")
    /\ Reads(t, task[t].ref, [task[t] EXCEPT !.step = "receipt", !.over = FALSE])
    /\ seen' = [seen EXCEPT ![u] = Max({@, task[t].ref})]
    /\ UNCHANGED <<rows, outMax, visible, blocked, sched, cache, ops, marks>>

\* Mutant: everything the other user has sent so far.
AllCopies(v, c) == {x \in Of(ref, v) : x.id > outMax[v]}

\* The other user's copies of what was read: those of this content and of
\* earlier ones, above the old mark.
ReadCopies(v, c) == {x \in Of(ref, v) : x.id > outMax[v] /\ x.c <= c}

\* update_max_read_id of the other user's peer, which only grows.
Receipt(t) ==
    LET v == Other(task[t].u)
        R == ReadCopies(v, task[t].c)
    IN
    /\ At(t, "receipt")
    /\ outMax' = [outMax EXCEPT ![v] = IF readIn[v] < 0 \/ R = {} THEN @ ELSE Max(Ids(R))]
    /\ Ends(t)
    /\ UNCHANGED <<rows, readIn, seen, visible, blocked, sched, cache, ops, marks>>

-----------------------------------------------------------------------------
(* update_pinned_message and unpin_all_messages *)

\* What unpin_all_messages takes: the pinned messages of both copies.
AllPinned(u) == {x \in ref : x.pinned /\ Kind(x) = "regular"}

\* The copy of a user who has blocked u is left out.
StartPin(t, u, x, on, op) ==
    /\ Kind(x) = "regular"
    /\ Begins(t, [IdleTask EXCEPT !.step = "pin", !.op = op, !.u = u, !.ref = x.id, !.yes = on,
                     !.ids = Ids({y \in Copies(ref, x.c) : y.peer \in Audience(u)})])
    /\ parted' = IF \E y \in Copies(ref, x.c) : y.peer \notin Audience(u)
                 THEN parted \cup {x.c} ELSE parted
    /\ UNCHANGED <<rows, reads, visible, blocked, sched, cache, unsynced, late, clash, hidden>>

StartUnpinAll(t, u) ==
    /\ AllPinned(u) # {}
    /\ Begins(t, [IdleTask EXCEPT !.step = "pin", !.op = "silent", !.u = u,
                     !.ids = Ids(AllPinned(u))])
    /\ UNCHANGED <<rows, reads, visible, blocked, sched, cache, marks>>

\* A pin is followed by a service message, unless it is silent.
SetPinned(t) ==
    LET k == task[t]
        R == {x \in ref : x.id \in k.ids}
    IN
    /\ At(t, "pin")
    /\ ref' = (ref \ R) \cup {[x EXCEPT !.pinned = k.yes] : x \in R}
    /\ IF k.yes /\ k.op = "pin"
       THEN Set(t, [IdleTask EXCEPT !.step = "content", !.op = "pin", !.u = k.u,
                                    !.ref = k.ref, !.todo = {None}])
       ELSE Ends(t)
    /\ UNCHANGED <<content, next, last, plan, reads, visible, blocked, sched, cache, ops, marks>>

-----------------------------------------------------------------------------
(* Scheduled messages *)

Clone(c) == [content[c] EXCEPT !.kind = "regular", !.ver = 0, !.org = None]

\* Mutant: the job leaves the scheduled ref where it is.
SendScheduledKeeps(x, C) ==
    LET u == x.peer IN
    /\ content' = Restrict(WithRow(next.c, Clone(x.c)), (DOMAIN content \ C) \cup {next.c})
    /\ Inserts(next.c, u, Audience(u), None, IF C = {} THEN {} ELSE {x})
    /\ next' = [c |-> next.c + 1, r |-> next.r + 2, top |-> next.c]
    /\ Unhides(Audience(u))
    /\ sent' = sent \cup {<<x.id, next.c>>}

\* send_scheduled and the deletion of the ref and of the contents C, in one
\* transaction: the clone has no random id.
SendScheduled(x, C) ==
    LET u == x.peer IN
    /\ content' = Restrict(WithRow(next.c, Clone(x.c)), (DOMAIN content \ C) \cup {next.c})
    /\ Inserts(next.c, u, Audience(u), None, {x})
    /\ next' = [c |-> next.c + 1, r |-> next.r + 2, top |-> next.c]
    /\ Unhides(Audience(u))
    /\ sent' = sent \cup {<<x.id, next.c>>}

\* A worker runs the job: internal send_scheduled_message.  Its content is left
\* behind without refs.  Without the ref there is nothing to do.
RunJob(a) ==
    /\ a \in jobs
    /\ jobs' = jobs \ {a}
    /\ \/ /\ a \notin Ids(ref)
          /\ UNCHANGED <<rows, expire, sent, visible, unsynced, late, hidden>>
       \/ \E x \in ref :
          /\ x.id = a
          /\ SendScheduled(x, {})
          /\ expire' = IF Ttl THEN expire \cup {next.c} ELSE expire
    /\ UNCHANGED <<reads, blocked, cache, task, ops, clash, parted>>

\* send_scheduled_messages of the user: the same, and the content goes too.  A
\* message without a plan fails.  (The query names content__reply_to, which
\* MessageContent lacks; the request may fail on it.)
SendByHand(u, x) ==
    /\ \E p \in plan : p.ref = x.id
    /\ Counts(1)
    /\ SendScheduled(x, {x.c})
    /\ expire' = IF Ttl THEN expire \cup {next.c} ELSE expire
    /\ UNCHANGED <<reads, blocked, jobs, cache, task, clash, parted>>

ComesDue(p) ==
    /\ ~p.due
    /\ plan' = (plan \ {p}) \cup {[p EXCEPT !.due = TRUE]}
    /\ UNCHANGED <<content, ref, next, last, reads, visible, blocked, sched, cache, task,
                   ops, marks>>

\* _get_scheduled_to_send_messages: what is due becomes SENT and is handed over.
Poll ==
    LET D == {p \in plan : p.due /\ ~p.sent} IN
    /\ D # {}
    /\ plan' = (plan \ D) \cup {[p EXCEPT !.sent = TRUE] : p \in D}
    /\ jobs' = jobs \cup {p.ref : p \in D}
    /\ UNCHANGED <<content, ref, next, last, reads, visible, blocked, expire, sent, cache,
                   task, ops, marks>>

\* Mutant: what has been handed over is never taken up again.
NeverUnstick(p) == FALSE /\ UNCHANGED vars

\* _reset_scheduled_to_send_stuck_messages: SENT for five minutes.
Unstick(p) ==
    /\ p.sent
    /\ plan' = (plan \ {p}) \cup {[p EXCEPT !.sent = FALSE]}
    /\ UNCHANGED <<content, ref, next, last, reads, visible, blocked, sched, cache, task,
                   ops, marks>>

\* The scheduler or the worker stops with the job in hand.
LoseJob(a) ==
    /\ a \in jobs /\ Counts(1)
    /\ jobs' = jobs \ {a}
    /\ UNCHANGED <<rows, reads, visible, blocked, expire, sent, cache, task, marks>>

\* internal delete_scheduled_message: the TTL of a message is over.
Expire(c) ==
    /\ c \in expire
    /\ DeletesContents({c})
    /\ UNCHANGED <<next, last, reads, visible, blocked, jobs, sent, cache, task, ops, late,
                   clash, parted, hidden>>

-----------------------------------------------------------------------------
(* The rest *)

\* A message is shown: its row is read, and then cached under its version.
StartView(t, x) ==
    /\ Kind(x) # "service"
    /\ Begins(t, [IdleTask EXCEPT !.step = "cache", !.op = "view", !.c = x.c,
                     !.text = content[x.c].text, !.ver = content[x.c].ver])
    /\ UNCHANGED <<rows, reads, visible, blocked, sched, cache, marks>>

CacheContent(t) ==
    LET k == task[t] IN
    /\ At(t, "cache")
    /\ cache' = IF \E e \in cache : e.c = k.c /\ e.ver = k.ver THEN cache
                ELSE cache \cup {[c |-> k.c, ver |-> k.ver, text |-> k.text]}
    /\ Ends(t)
    /\ UNCHANGED <<rows, reads, visible, blocked, sched, ops, marks>>

\* contacts.block and contacts.unblock.
Block(u) ==
    /\ Counts(1)
    /\ blocked' = IF u \in blocked THEN blocked \ {u} ELSE blocked \cup {u}
    /\ UNCHANGED <<rows, reads, visible, sched, cache, task, marks>>

\* A query fails, or the worker stops: the rest of the request does not happen.
Fail(t) ==
    /\ ~At(t, "idle") /\ Counts(1)
    /\ hidden' = IF At(t, "unhide") THEN hidden \cup (task[t].peers \ visible) ELSE hidden
    /\ Ends(t)
    /\ UNCHANGED <<rows, reads, visible, blocked, sched, cache, unsynced, late, clash, parted>>

Init ==
    /\ content = <<>> /\ ref = {} /\ next = [c |-> 1, r |-> 1, top |-> 0]
    /\ last = [u \in Users |-> 0] /\ plan = {}
    /\ readIn = [u \in Users |-> -1] /\ outMax = [u \in Users |-> 0]
    /\ seen = [u \in Users |-> 0]
    /\ visible = {} /\ blocked = {}
    /\ jobs = {} /\ expire = {} /\ sent = {} /\ cache = {}
    /\ task = [t \in Tasks |-> IdleTask] /\ ops = 0
    /\ unsynced = {} /\ late = {} /\ clash = {} /\ parted = {} /\ hidden = {}

Step(t) ==
    \/ CreateContent(t) \/ CreateRefs(t) \/ Unhide(t) \/ CreatePlan(t) \/ CountUnread(t)
    \/ ReadOwn(t)
    \/ Save(t) \/ Redate(t)
    \/ DeleteRefs(t) \/ Purge(t) \/ HideDialog(t)
    \/ SaveRead(t) \/ Receipt(t) \/ SetPinned(t) \/ CacheContent(t)

Request(t, u) ==
    \/ \E S \in SUBSET Randoms \ {{}}, op \in {"send", "schedule"} \cap Requests :
          StartSend(t, u, S, op)
    \/ "pin" \in Requests /\ StartUnpinAll(t, u)
    \/ \E m \in Ids(Of(ref, u)) :
          \/ "read" \in Requests /\ StartRead(t, u, m)
          \/ "purge" \in Requests /\ StartDeleteHistory(t, u, m)
    \/ \E x \in Of(ref, u) :
          \/ "forward" \in Requests /\ \E r \in Randoms : StartForward(t, u, x, r)
          \/ "edit" \in Requests /\ StartEdit(t, u, x)
          \/ "delete" \in Requests /\ \E revoke \in BOOLEAN : StartDelete(t, u, x, revoke)
          \/ "schedule" \in Requests /\ StartDeleteScheduled(t, u, x)
          \/ "pin" \in Requests
             /\ \E on \in BOOLEAN, op \in {"pin", "silent"} : StartPin(t, u, x, on, op)
          \/ "view" \in Requests /\ StartView(t, x)

Scheduler ==
    \/ \E p \in plan : ComesDue(p) \/ Unstick(p)
    \/ Poll
    \/ \E a \in jobs : RunJob(a) \/ LoseJob(a)
    \/ \E c \in expire : Expire(c)

Next ==
    \/ \E t \in Tasks : Step(t) \/ Fail(t)
    \/ \E t \in Tasks, u \in Users : Request(t, u)
    \/ \E u \in Users : "block" \in Requests /\ Block(u)
    \/ \E u \in Users : \E x \in Of(ref, u) : SendByHand(u, x)
    \/ Scheduler

Spec == Init /\ [][Next]_vars

\* The scheduler polls every second and workers take up what they are handed;
\* requests owe nothing.
FairSpec ==
    /\ Spec
    /\ WF_vars(\E p \in plan : ComesDue(p))
    /\ WF_vars(\E p \in plan : Unstick(p))
    /\ WF_vars(Poll)
    /\ WF_vars(\E a \in jobs : RunJob(a))

-----------------------------------------------------------------------------
(* Properties *)

\* A message scheduled for later is sent at most once, whatever the scheduler,
\* its resets, lost jobs, the sender's own send_scheduled_messages, edits and
\* deletions do at the same time.
ScheduledSentOnce == \A a, b \in sent : a[1] = b[1] => a = b

\* A retried request does not double a message while the sender keeps the
\* first one: no dialog holds two messages of one random id unless the
\* sender's copy of one of them was deleted.  (A scheduled message loses its
\* random id when it is sent.)
RetriesDoNotDouble ==
    \A x, y \in ref :
        LET a == content[x.c]
            b == content[y.c]
        IN  (/\ x.peer = y.peer /\ x.c # y.c
             /\ a.author = b.author /\ a.org = b.org /\ a.org # None)
            => \E d \in {x.c, y.c} : Of(Copies(ref, d), a.author) = {}

\* No message of the other user counts as read (ReadState) that the reader has
\* not marked with read_history: sending marks one's own message only when
\* nothing before it was unread.
OnlySeenIsRead ==
    \A x \in ref : (content[x.c].author # x.peer /\ x.id <= readIn[x.peer]) => x.id <= seen[x.peer]

\* A message is reported as read to its sender (out_max_read_id) only once the
\* other user has marked it read, unless its refs, or those of a content before
\* it, were created after those of a later content: read_history takes the
\* order of the contents for the order of the messages.
ReceiptsAreTrue ==
    \A x, y \in ref :
        (/\ x.c = y.c /\ x.peer = content[x.c].author /\ y.peer # x.peer
         /\ x.id <= outMax[x.peer] /\ \A d \in late : d > x.c)
        => y.id <= seen[y.peer]

\* The read state of a user goes back only by a request that another one of
\* the user overtook after it had looked up its message.
ReadsOnlyGoBackOvertaken ==
    [][\A u \in Users : readIn'[u] < readIn[u] =>
          \E t \in Tasks : task[t].u = u /\ task[t].over /\ task'[t] # task[t]]_vars

\* last_message_id is the last message of the dialog, unless messages were
\* deleted by their content (delete_history, delete_scheduled_messages, the
\* TTL) since it was computed.
LastMessageIsLast ==
    \A u \in Users :
        (Of(ref, u) # {} /\ u \notin unsynced) => last[u] = Max(Ids(Of(ref, u)))

\* A dialog with messages is visible, or a request is about to show it, unless
\* delete_history hid it with newer messages in it or the request that sent
\* the message failed before it showed the dialog.
MessagesAreShown ==
    \A u \in Users :
        (Of(ref, u) # {} /\ u \notin visible /\ u \notin hidden)
        => \E t \in Tasks : At(t, "unhide") /\ u \in task[t].peers

\* What is cached for a message's current version is its text, unless two
\* overlapping edits saved it under one version.
CacheIsCurrent ==
    \A e \in cache : (e.c \in DOMAIN content /\ e.c \notin clash /\ content[e.c].ver = e.ver)
                     => content[e.c].text = e.text

\* Both copies of a message are pinned or neither, unless it was pinned while
\* one user had blocked the other.
PinsAgree ==
    \A x, y \in ref : (x.c = y.c /\ x.c \notin parted) => x.pinned = y.pinned

\* What a user sees of the dialog itself, its last message, whether it is
\* listed and what is pinned, agrees with the messages.
DialogsAreCurrent == LastMessageIsLast /\ MessagesAreShown /\ PinsAgree

\* Together, of who has read what (send_message_internal, read_history).
ReadsAreTrue == OnlySeenIsRead /\ ReceiptsAreTrue

\* Together, of what is written later (get_scheduled_messages, edit_message).
PlansAreKept == ScheduledSentOnce /\ CacheIsCurrent

\* No message stays planned for ever: once nothing more is scheduled, all that
\* was is sent or deleted, even when jobs are lost.
PlansEnd == []<>(plan = {})
=============================================================================
