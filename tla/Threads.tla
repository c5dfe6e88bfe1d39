------------------------------ MODULE Threads ------------------------------
(***************************************************************************)
(* Threads of messages: the comments on a channel's posts in its           *)
(* discussion group, and the topics of a forum; how far a user has read    *)
(* them; and the views of a post.                                          *)
(*                                                                         *)
(* A post has its thread under a mirror of it in the discussion group,     *)
(* which is made when the post is sent or first asked for.  Clients name a *)
(* thread by the post or by the mirror, in the channel or in the group.  A *)
(* topic has its messages under an anchor.  The ids of messages are those  *)
(* of one table.  Handlers are tasks that take a step per statement, or    *)
(* per transaction that holds a row's lock.                                *)
(*                                                                         *)
(* Left out: rights, titles and icons, pinned topics (nothing reads their  *)
(* order), and updates.                                                    *)
(***************************************************************************)
EXTENDS Integers, Sequences, FiniteSetsExt

CONSTANTS
    Tasks,       \* handlers that can run at once
    Groups,      \* supergroups that can be discussion groups
    MaxRefs,     \* bound: messages ever made
    Budgets      \* bounds, one of which a behaviour has: what it is about, and the handlers

VARIABLES
    of,       \* discussion, forum or views
    ref,      \* the rows of MessageRef ever made, by id
    gone,     \* the ids of those that were deleted
    linked,   \* discussion_id of the channel
    forum,    \* the flag of the channel
    topic,    \* topic_id -> the topic's row, for those there are
    next,     \* next_topic_id
    lock,     \* the task that holds the lock of the channel's row
    read,     \* thread -> last_message_id of the user's read state, or 0
    post,     \* views of a post and whether there is a row of the user's view
    task,     \* task -> the handler it runs, and how far it is
    cause,    \* what has gone wrong that the properties below make allowance for
    left      \* the rest of the budget

vars == <<of, ref, gone, linked, forum, topic, next, lock, read, post, task, cause, left>>
discussing == <<ref, gone, linked>>
topics == <<forum, topic, next, lock>>

None == "none"
Channel == "channel"
Live == DOMAIN ref \ gone
Message == [in |-> Channel, reply_to |-> 0, top |-> 0, discussion |-> 0, discussion_top |-> 0, mirrors |-> 0]
Idle == [at |-> "idle", id |-> 0, thread |-> 0, flag |-> FALSE, passed |-> FALSE]
Quiet == \A t \in Tasks : task[t] = Idle
General == 1

Init ==
    /\ left \in Budgets /\ of = left.of
    /\ ref = <<>> /\ gone = {}
    /\ linked \in IF of = "discussion" THEN Groups \cup {None} ELSE {None}
    /\ forum = FALSE /\ topic = <<>> /\ next = 2 /\ lock = None
    /\ read = [i \in 1..MaxRefs |-> 0]
    /\ post = [views |-> 0, viewed |-> FALSE]
    /\ task = [t \in Tasks |-> Idle]
    /\ cause = [lost |-> FALSE, crossed |-> FALSE]

Spend == left.handlers > 0 /\ left' = [left EXCEPT !.handlers = @ - 1]
Begin(t, r) == task[t] = Idle /\ Spend /\ task' = [task EXCEPT ![t] = r]
Go(t, at) == task' = [task EXCEPT ![t].at = at]
Stop(t) == task' = [task EXCEPT ![t] = Idle]
Made(m) == Len(ref) < MaxRefs /\ ref' = Append(ref, m)

\* Deleted rows are no longer referred to (ON DELETE SET NULL); of mirrors
\* the posts keep the id in discussion_top_message_id.
Without(S) ==
    [i \in DOMAIN ref |-> [ref[i] EXCEPT
        !.reply_to = IF @ \in S THEN 0 ELSE @,
        !.top = IF @ \in S THEN 0 ELSE @,
        !.discussion_top = IF ref[i].discussion \in S THEN ref[i].discussion ELSE @,
        !.discussion = IF @ \in S THEN 0 ELSE @]]

-----------------------------------------------------------------------------
(* Discussions *)

SendPost ==
    /\ of = "discussion"
    /\ Made(Message)
    /\ UNCHANGED <<of, gone, linked, topics, read, post, task, cause, left>>

\* A message of the group.  The thread of one that it answers is not looked
\* at: the branch for it is taken only when no message is answered.
SendComment(i) ==
    /\ of = "discussion" /\ linked # None
    /\ i = 0 \/ (i \in Live /\ ref[i].in = linked)
    /\ Made([Message EXCEPT !.in = linked, !.reply_to = i])
    /\ UNCHANGED <<of, gone, linked, topics, read, post, task, cause, left>>

SetDiscussionGroup(g) ==
    /\ of = "discussion" /\ g # linked /\ Spend
    /\ linked' = g
    /\ UNCHANGED <<of, ref, gone, topics, read, post, task, cause>>

Posted(i) == i \in Live /\ ref[i].in = Channel

discussion_thread_id(i) == IF ref[i].discussion # 0 THEN ref[i].discussion ELSE ref[i].discussion_top

\* ensure_discussion_thread, under the lock of the post: the rows after it,
\* and the mirror it returns, or 0
MakesThread(i) == Posted(i) /\ linked # None /\ discussion_thread_id(i) = 0
Ensured(i) ==
    IF MakesThread(i)
    THEN LET mirror == Len(ref) + 1
         IN  Append([ref EXCEPT ![i].discussion = mirror, ![i].discussion_top = mirror],
                    [Message EXCEPT !.in = linked, !.mirrors = i])
    ELSE ref
ensure_discussion_thread(i) ==
    IF MakesThread(i) THEN Len(ref) + 1
    ELSE IF Posted(i) /\ linked # None /\ discussion_thread_id(i) \in Live THEN discussion_thread_id(i)
    ELSE 0

\* The posts of a thread: there is one, or none.
broadcast_post_for_discussion_thread(m) ==
    {i \in Live : Posted(i) /\ m # 0 /\ m \in {ref[i].discussion, ref[i].discussion_top}}

IsMirror(i, place) == i \in Live /\ ref[i].in = place /\ ref[i].mirrors # 0

resolve_get_replies_target(place, i) ==
    LET thread == ensure_discussion_thread(i)
        discussed == place = Channel \/ (place = linked /\ ~IsMirror(i, place))
    IN  IF discussed /\ Posted(i) /\ thread # 0 THEN <<linked, thread>> ELSE <<place, i>>

\* Mutant: in the group a thread is known by its mirror only.
TargetOfMirror(place, i) ==
    LET thread == IF ensure_discussion_thread(i) # 0 THEN ensure_discussion_thread(i)
                  ELSE discussion_thread_id(i)
        posts == broadcast_post_for_discussion_thread(i)
    IN  IF place = Channel /\ Posted(i) /\ thread # 0 THEN {<<i, thread>>}
        ELSE {<<p, i>> : p \in posts}

\* The post and the thread, in a set that may be empty.  The id of a thread
\* that is gone counts as one where no mirror is found.
resolve_read_discussion_target(place, i) ==
    LET thread == IF ensure_discussion_thread(i) # 0 THEN ensure_discussion_thread(i)
                  ELSE discussion_thread_id(i)
        posts == broadcast_post_for_discussion_thread(i)
    IN  IF place \in {Channel, linked} /\ Posted(i) /\ thread # 0 THEN {<<i, thread>>}
        ELSE IF place = Channel \/ IsMirror(i, place) THEN {<<p, i>> : p \in posts}
        ELSE {}

\* CreateDiscussionThread, getReplies, getDiscussionMessage: what they answer
\* is read; they make the thread.
EnsureThread(i) ==
    /\ of = "discussion" /\ MakesThread(i) /\ Len(ref) < MaxRefs
    /\ ref' = Ensured(i)
    /\ UNCHANGED <<of, gone, linked, topics, read, post, task, cause, left>>

\* channels.DeleteMessages, in one transaction; a topic goes with its anchor.
DeleteMessage(i) ==
    /\ of # "views" /\ i \in Live /\ Spend
    /\ gone' = gone \cup {i}
    /\ ref' = Without({i})
    /\ topic' = [n \in {m \in DOMAIN topic : topic[m].top # i} |-> topic[n]]
    /\ cause' = [cause EXCEPT !.lost = @ \/ (General \in DOMAIN topic /\ topic[General].top = i)]
    /\ UNCHANGED <<of, linked, forum, next, lock, read, post, task>>

-----------------------------------------------------------------------------
(* Read states of discussions and of topics *)

Thread(m) == {i \in Live : m \in {ref[i].reply_to, ref[i].top}}

\* messages.ReadDiscussion up to read_max_id, or all of it if that is 0
ReadDiscussion(t) ==
    /\ of = "discussion" /\ Len(ref) < MaxRefs /\ task[t] = Idle
    /\ \E place \in {Channel, linked} \ {None}, i \in Live, read_max_id \in 0..Len(ref) :
       \E target \in resolve_read_discussion_target(place, i) :
        /\ Begin(t, [Idle EXCEPT !.at = "last", !.thread = target[2], !.id = read_max_id])
        /\ ref' = Ensured(target[1])
    /\ UNCHANGED <<of, gone, linked, topics, read, post, cause>>

\* The last message of the thread, or the mirror
ReadLast(t) ==
    /\ task[t].at = "last"
    /\ LET m == task[t].thread
           max == task[t].id
           upto == {i \in Thread(m) : max # 0 => i <= max}
       IN  IF m \notin Live THEN Stop(t)
           ELSE task' = [task EXCEPT ![t].at = "state", ![t].id = IF upto = {} THEN m ELSE Max(upto)]
    /\ UNCHANGED <<of, discussing, topics, read, post, cause, left>>

\* update_forum_topic_read_state: of the topic of the last message that the
\* user has read in the channel
ReadTopic(t) ==
    /\ of = "forum"
    /\ \E i \in Live :
        LET anchor == IF ref[i].top # 0 THEN ref[i].top ELSE i
        IN  /\ \E n \in DOMAIN topic : topic[n].top = anchor
            /\ Begin(t, [Idle EXCEPT !.at = "state", !.thread = anchor, !.id = i])
    /\ UNCHANGED <<of, discussing, topics, read, post, cause>>

\* A write of the state of a thread passes those who have read it.
Passing(t, m, r) ==
    [u \in Tasks |->
        IF u = t THEN r
        ELSE IF task[u].at = "up" /\ task[u].thread = m THEN [task[u] EXCEPT !.passed = TRUE]
        ELSE task[u]]

\* Mutant: the state is set to what was read last.
ReadStateAnyway(t) ==
    LET m == task[t].thread
    IN  /\ task[t].at = "state"
        /\ IF read[m] = 0 THEN read' = [read EXCEPT ![m] = task[t].id] /\ task' = Passing(t, m, Idle)
           ELSE read' = read /\ Go(t, "up")
        /\ UNCHANGED <<of, discussing, topics, post, cause, left>>

\* get_or_create
ReadState(t) ==
    LET m == task[t].thread
    IN  /\ task[t].at = "state"
        /\ IF read[m] = 0 THEN read' = [read EXCEPT ![m] = task[t].id] /\ task' = Passing(t, m, Idle)
           ELSE read' = read /\ IF task[t].id > read[m] THEN Go(t, "up") ELSE Stop(t)
        /\ UNCHANGED <<of, discussing, topics, post, cause, left>>

ReadUp(t) ==
    /\ task[t].at = "up"
    /\ read' = [read EXCEPT ![task[t].thread] = task[t].id]
    /\ task' = Passing(t, task[t].thread, Idle)
    /\ UNCHANGED <<of, discussing, topics, post, cause, left>>

-----------------------------------------------------------------------------
(* Topics *)

\* channels.ToggleForum
ToggleForum(t) ==
    /\ of = "forum"
    /\ \E enabled \in BOOLEAN :
        /\ enabled # forum
        /\ Begin(t, [Idle EXCEPT !.at = "forum", !.flag = enabled])
    /\ UNCHANGED <<of, discussing, topics, read, post, cause>>

SaveForum(t) ==
    /\ task[t].at = "forum"
    /\ forum' = task[t].flag
    /\ IF task[t].flag THEN Go(t, "general") ELSE Stop(t)
    /\ UNCHANGED <<of, discussing, topic, next, lock, read, post, cause, left>>

\* Mutant: a forum that has topics is taken to have the general one.
AnyTopic(t) ==
    /\ task[t].at = "general"
    /\ IF DOMAIN topic # {} THEN Stop(t) ELSE task' = [task EXCEPT ![t].at = "lock", ![t].id = General]
    /\ UNCHANGED <<of, discussing, topics, read, post, cause, left>>

ensure_general_topic(t) ==
    /\ task[t].at = "general"
    /\ IF General \in DOMAIN topic THEN Stop(t)
       ELSE task' = [task EXCEPT ![t].at = "lock", ![t].id = General]
    /\ UNCHANGED <<of, discussing, topics, read, post, cause, left>>

CreateForumTopic(t) ==
    /\ of = "forum" /\ forum
    /\ Begin(t, [Idle EXCEPT !.at = "lock"])
    /\ UNCHANGED <<of, discussing, topics, read, post, cause>>

\* create_forum_topic_record: its transaction has the lock of the channel.
TopicId(t) ==
    /\ task[t].at = "lock" /\ lock = None
    /\ lock' = t
    /\ IF task[t].id = 0
       THEN next' = next + 1 /\ task' = [task EXCEPT ![t].at = "create", ![t].id = next]
       ELSE next' = next /\ Go(t, "create")
    /\ UNCHANGED <<of, discussing, forum, topic, read, post, cause, left>>

\* The anchor and the topic are made; an id that is taken is refused.
CreateTopicRecord(t) ==
    /\ task[t].at = "create"
    /\ LET n == task[t].id
           row == [top |-> Len(ref) + 1, closed |-> FALSE]
       IN  IF n \in DOMAIN topic THEN UNCHANGED <<ref, topic>>
           ELSE /\ Made(Message)
                /\ topic' = [m \in DOMAIN topic \cup {n} |-> IF m = n THEN row ELSE topic[m]]
    /\ lock' = None
    /\ Stop(t)
    /\ UNCHANGED <<of, gone, linked, forum, next, read, post, cause, left>>

\* The server stops while it makes a forum of the channel.
Crash(t) ==
    /\ of = "forum" /\ task[t] # Idle /\ left.crashes > 0
    /\ left' = [left EXCEPT !.crashes = @ - 1]
    /\ cause' = [cause EXCEPT !.lost = TRUE]
    /\ lock' = IF lock = t THEN None ELSE lock
    /\ Stop(t)
    /\ UNCHANGED <<of, discussing, forum, topic, next, read, post>>

\* channels.EditForumTopic, when it closes or opens one: a service message
\* goes into the topic.
EditForumTopic(n) ==
    /\ of = "forum" /\ forum /\ n \in DOMAIN topic /\ Spend
    /\ topic' = [topic EXCEPT ![n].closed = ~@]
    /\ Made([Message EXCEPT !.top = topic[n].top])
    /\ UNCHANGED <<of, gone, linked, forum, next, lock, read, post, task, cause>>

\* send_message_internal with the top message n of a topic, which is not
\* closed (resolve_topic_top_message), or 0: the general topic, if there is one
SendToTopic(t) ==
    /\ of = "forum" /\ forum
    /\ \/ \E n \in DOMAIN topic :
            /\ ~topic[n].closed
            /\ Begin(t, [Idle EXCEPT !.at = "send", !.thread = topic[n].top])
       \/ Begin(t, [Idle EXCEPT !.at = "send",
                    !.thread = IF General \in DOMAIN topic THEN topic[General].top ELSE 0])
    /\ UNCHANGED <<of, discussing, topics, read, post, cause>>

\* It is refused if the anchor is gone.
Send(t) ==
    /\ task[t].at = "send"
    /\ IF task[t].thread \in gone THEN ref' = ref
       ELSE Made([Message EXCEPT !.top = task[t].thread])
    /\ Stop(t)
    /\ UNCHANGED <<of, gone, linked, topics, read, post, cause, left>>

\* channels.DeleteTopicHistory: all but the anchor
DeleteTopicHistory(n) ==
    /\ of = "forum" /\ forum /\ n \in DOMAIN topic /\ Spend
    /\ LET those == {i \in Live : ref[i].top = topic[n].top}
       IN  gone' = gone \cup those /\ ref' = Without(those)
    /\ UNCHANGED <<of, linked, topics, read, post, task, cause>>

-----------------------------------------------------------------------------
(* messages.GetMessagesViews of a user, with increment *)

GetMessagesViews(t) ==
    /\ of = "views"
    /\ Begin(t, [Idle EXCEPT !.at = "view", !.flag = post.viewed])
    /\ UNCHANGED <<of, discussing, topics, read, post, cause>>

\* Mutant: the views are counted whether or not there is a row.
ViewAgain(t) ==
    /\ task[t].at = "view"
    /\ post' = [views |-> post.views + 1, viewed |-> TRUE]
    /\ cause' = [cause EXCEPT !.crossed = @ \/ (post.viewed /\ ~task[t].flag)]
    /\ Stop(t)
    /\ UNCHANGED <<of, discussing, topics, read, left>>

\* bulk_create(ignore_conflicts=True), update(views=F("views") + 1)
View(t) ==
    /\ task[t].at = "view"
    /\ post' = IF task[t].flag THEN post ELSE [views |-> post.views + 1, viewed |-> TRUE]
    /\ cause' = [cause EXCEPT !.crossed = @ \/ (post.viewed /\ ~task[t].flag)]
    /\ Stop(t)
    /\ UNCHANGED <<of, discussing, topics, read, left>>

Done == Quiet /\ UNCHANGED vars     \* nobody need do anything

Next ==
    \/ SendPost
    \/ \E i \in 0..MaxRefs : SendComment(i)
    \/ \E g \in Groups \cup {None} : SetDiscussionGroup(g)
    \/ \E i \in Live : EnsureThread(i) \/ DeleteMessage(i)
    \/ \E n \in DOMAIN topic : EditForumTopic(n) \/ DeleteTopicHistory(n)
    \/ \E t \in Tasks :
        \/ ReadDiscussion(t) \/ ReadLast(t) \/ ReadTopic(t) \/ ReadState(t) \/ ReadUp(t)
        \/ ToggleForum(t) \/ SaveForum(t) \/ ensure_general_topic(t)
        \/ CreateForumTopic(t) \/ TopicId(t) \/ CreateTopicRecord(t) \/ Crash(t)
        \/ SendToTopic(t) \/ Send(t)
        \/ GetMessagesViews(t) \/ View(t)
    \/ Done

Spec == Init /\ [][Next]_vars

-----------------------------------------------------------------------------
(* Properties *)

\* A post is mirrored once, also when its mirror was deleted or the channel
\* got another group meanwhile.  However a thread is named (by the post or the
\* mirror, in the channel or in the group), replies to it and its read state
\* are those of the mirror, while the group is the one it was made in.
ThreadsAgree ==
    \A i \in Live : Posted(i) =>
        /\ Cardinality({m \in DOMAIN ref : ref[m].mirrors = i}) <= 1
        /\ \A m \in Live : (ref[m].mirrors = i /\ ref[m].in = linked) =>
            /\ \A named \in {<<Channel, i>>, <<linked, i>>, <<linked, m>>} :
                /\ resolve_get_replies_target(named[1], named[2]) = <<linked, m>>
                /\ resolve_read_discussion_target(named[1], named[2]) = {<<i, m>>}
            /\ resolve_read_discussion_target(Channel, m) = {<<i, m>>}

\* The user's read state of a thread or a topic goes back only when the
\* handler that sets it had read it before another set it.
ReadsGoUpStep ==
    \A m \in DOMAIN read : read'[m] < read[m] =>
        \E t \in Tasks : task[t].at = "up" /\ task[t].thread = m /\ task[t].passed /\ task'[t] = Idle
ThreadReadsGoUp == [][ReadsGoUpStep]_vars

\* A forum that is not being made one has its general topic, unless its anchor
\* was deleted or the server stopped meanwhile; and the ids of the other topics
\* go up with their anchors, so that paging by topic_id over topics in the order
\* of their anchors (build_topics_filter) passes over none of them.  The general
\* topic, the lowest id, is passed over if it was made after another.
TopicsAreWhole ==
    /\ (Quiet /\ forum /\ ~cause.lost) => General \in DOMAIN topic
    /\ \A m, n \in DOMAIN topic \ {General} : m < n => topic[m].top < topic[n].top

\* A user's view of a post is counted once, unless two requests overlap.
ViewsCountedOnce == ~cause.crossed => post.views = IF post.viewed THEN 1 ELSE 0
=============================================================================
