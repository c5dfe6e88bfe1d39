------------------------------- MODULE BotApi -------------------------------
(***************************************************************************)
(* What bots are told over HTTP, and the questions that wait for a bot.    *)
(*                                                                         *)
(* The updates of a bot are kept in memory: in a list that getUpdates      *)
(* empties, where a request may wait for the first one, or, while there is *)
(* a webhook, in a list of those that a task of their own is posting.  A   *)
(* user who presses a button or types an inline query waits for the bot's  *)
(* answer as the only listener of a topic; answers come from sessions of   *)
(* the bot and over HTTP.                                                  *)
(*                                                                         *)
(* One bot, which polls with no offset or with the one after the last      *)
(* update it got.  What an update says is left out, only its type counts.  *)
(***************************************************************************)
EXTENDS Integers, Sequences, FiniteSets, SequencesExt

CONSTANTS
    Events,    \* messages the bot is to be told of, or buttons and queries it is asked
    Pollers,   \* getUpdates requests that can run at once
    Cap,       \* MAX_UPDATES_PER_BOT
    Attempts,  \* WEBHOOK_MAX_RETRIES
    Budgets    \* bounds: messages, queries, changes of the webhook and mishaps in a behaviour

VARIABLES
    store,     \* BotApiUpdatesStore, of the bot
    event,     \* event -> what became of it
    poll,      \* poller -> the request it runs
    post,      \* event -> the attempts of the task that posts it, 0: none
    ask,       \* event -> the request that waits for the bot's answer
    topics,    \* InMemoryPubSub.waiters: the topics that are listened to
    answer,    \* event -> how far the bot's answer is
    cached,    \* an inline answer is cached
    seen,      \* the last update id the bot has got
    left       \* the budget that is left

vars == <<store, event, poll, post, ask, topics, answer, cached, seen, left>>

None == "none"
Types == {"message", "channel_post", "callback_query"}
All == Types \cup {"any"}     \* no list of allowed updates
Allowed == {All, {"message"}}
NoUpdates == [updates |-> <<>>, next |-> 1, hook |-> FALSE, hookAllows |-> All,
              pollAllows |-> All, pending |-> {}]
NewEvent == [type |-> None, at |-> None, id |-> 0, old |-> FALSE, got |-> 0, excused |-> FALSE]
NoPoll == [at |-> None, limit |-> 0]
NoAsk == [kind |-> None, at |-> None, row |-> FALSE, result |-> None, intime |-> FALSE, http |-> FALSE, cut |-> FALSE]

Init ==
    /\ store = NoUpdates
    /\ event = [e \in Events |-> NewEvent]
    /\ poll = [p \in Pollers |-> NoPoll]
    /\ post = [e \in Events |-> 0]
    /\ ask = [e \in Events |-> NoAsk]
    /\ topics = {}
    /\ answer = [e \in Events |-> None]
    /\ cached = FALSE
    /\ seen = 0
    /\ left \in Budgets

Spend(what) == left[what] > 0 /\ left' = [left EXCEPT ![what] = @ - 1]

asking == <<ask, topics, answer, cached>>

-----------------------------------------------------------------------------
(* The updates *)

\* A message of a private chat, or one that should_deliver_group_message: the
\* bot reads everything, or the message is a command, mentions it or replies to it.
ShouldDeliver(chat, addressed, privacy) == chat = "user" \/ ~privacy \/ addressed

\* send_message schedules a task, which finds the bots among the recipients.
ScheduleNotification(e) ==
    /\ event[e].at = None /\ ask[e].at = None
    /\ \E chat \in {"user", "group", "channel"}, addressed, privacy \in BOOLEAN :
          /\ ShouldDeliver(chat, addressed, privacy)
          /\ event' = [event EXCEPT ![e].at = "due",
                                    ![e].type = IF chat = "channel" THEN "channel_post" ELSE "message"]
    /\ Spend("messages")
    /\ UNCHANGED <<store, poll, post, asking, seen>>

\* Those of the last day, and of these the newest.
Prune(updates) ==
    LET young == SelectSeq(updates, LAMBDA e : ~event[e].old)
    IN  IF Len(young) > Cap THEN SubSeq(young, Len(young) - Cap + 1, Len(young)) ELSE young

\* Mutant: one waiter is woken for one update.
NotifyOne == LET w == {p \in Pollers : poll[p].at = "waiting"}
             IN  [poll EXCEPT ![CHOOSE p \in Pollers : w # {} => p \in w].at =
                    IF @ = "waiting" THEN "woken" ELSE @]

\* Every waiter is woken, and forgotten.
NotifyWaiters == [p \in Pollers |-> IF poll[p].at = "waiting" THEN [poll[p] EXCEPT !.at = "woken"] ELSE poll[p]]

\* _enqueue_update: e gets the next id; it is posted, queued, or not wanted.
EnqueueUpdate(e) ==
    LET type == event[e].type
        kept == Prune(store.updates)
        taken == [event[e] EXCEPT !.at = "in", !.id = store.next,
                                  !.excused = store.next <= seen]     \* ids began anew
        gone == ToSet(store.updates) \ ToSet(kept)
        Others(t) == [x \in Events |-> IF x = e THEN t
                                       ELSE IF x \in gone THEN [event[x] EXCEPT !.excused = TRUE]
                                       ELSE event[x]]
        numbered == [store EXCEPT !.next = @ + 1, !.updates = kept]
    IN  \/ /\ store.hook /\ type \in store.hookAllows
           /\ store' = [numbered EXCEPT !.pending = @ \cup {e}]
           /\ post' = [post EXCEPT ![e] = 1]
           /\ event' = Others(taken)
           /\ UNCHANGED poll
        \/ /\ type \notin IF store.hook THEN store.hookAllows ELSE store.pollAllows
           /\ store' = numbered
           /\ event' = Others([taken EXCEPT !.at = "out"])
           /\ UNCHANGED <<poll, post>>
        \/ /\ ~store.hook /\ type \in store.pollAllows
           /\ store' = [numbered EXCEPT !.updates = Append(kept, e)]
           /\ poll' = NotifyWaiters
           /\ event' = Others(taken)
           /\ UNCHANGED post

EnqueueIncomingMessage(e) ==
    /\ event[e].at = "due" /\ ask[e].at = None
    /\ EnqueueUpdate(e)
    /\ UNCHANGED <<asking, seen, left>>

\* A day passes.
Age(e) ==
    /\ event[e].at = "in" /\ ~event[e].old
    /\ event' = [event EXCEPT ![e].old = TRUE]
    /\ Spend("mishaps")
    /\ UNCHANGED <<store, poll, post, asking, seen>>

-----------------------------------------------------------------------------
(* getUpdates *)

\* Mutant: the list is left as it was when the answer is built.
RestKept(updates, n) == updates

Rest(updates, n) == SubSeq(updates, n + 1, Len(updates))

\* The first of the list are answered and taken out of it.  The bot has got
\* them, or its connection has broken and they are lost.
Answer(s, limit) ==
    LET n == IF limit < Len(s.updates) THEN limit ELSE Len(s.updates)
        head == {s.updates[i] : i \in 1..n}
    IN  /\ store' = [s EXCEPT !.updates = Rest(@, n)]
        /\ \E arrives \in BOOLEAN :
              /\ IF arrives THEN UNCHANGED left ELSE Spend("mishaps")
              /\ event' = [e \in Events |-> IF e \notin head THEN event[e]
                                            ELSE IF arrives THEN [event[e] EXCEPT !.got = @ + 1]
                                            ELSE [event[e] EXCEPT !.excused = TRUE]]
              /\ seen' = IF arrives /\ n > 0 THEN event[s.updates[n]].id ELSE seen

\* What an offset confirms is dropped.
Unconfirmed(offset) == SelectSeq(store.updates, LAMBDA e : event[e].id >= offset)

\* With a timeout a request waits for the first update.
GetUpdates(p) ==
    /\ poll[p].at = None
    /\ ~store.hook                        \* _BotApiConflict
    /\ \E offset \in {0, seen + 1}, limit \in 1..Cap, allowed \in Allowed \cup {{}} :
          LET s == [store EXCEPT !.pollAllows = IF allowed = {} THEN @ ELSE allowed,
                                 !.updates = Unconfirmed(offset)]
          IN  \/ /\ Answer(s, limit)
                 /\ UNCHANGED poll
              \/ /\ s.updates = <<>>
                 /\ store' = s
                 /\ poll' = [poll EXCEPT ![p] = [at |-> "waiting", limit |-> limit]]
                 /\ UNCHANGED <<event, seen, left>>
    /\ UNCHANGED <<post, asking>>

\* It was woken, or the time is up.
EndPoll(p) ==
    /\ poll[p].at # None
    /\ Answer(store, poll[p].limit)
    /\ poll' = [poll EXCEPT ![p] = NoPoll]
    /\ UNCHANGED <<post, asking>>

-----------------------------------------------------------------------------
(* Webhooks *)

Excuse(es) == [e \in Events |-> IF e \in es THEN [event[e] EXCEPT !.excused = TRUE] ELSE event[e]]
Held == ToSet(store.updates) \cup store.pending \cup {e \in Events : post[e] # 0}

\* Updates that wait to be polled stay in their list.
Hooked(url, allowed, drop) ==
    [store EXCEPT !.hook = url, !.hookAllows = allowed,
                  !.updates = IF drop THEN <<>> ELSE @, !.pending = IF drop THEN {} ELSE @]

SetWebhook ==
    \E url, drop \in BOOLEAN, allowed \in Allowed :
        /\ store' = Hooked(url, allowed, drop)
        /\ event' = Excuse(IF drop THEN Held ELSE {})
        /\ Spend("hooks")
        /\ UNCHANGED <<poll, post, asking, seen>>

DeleteWebhook ==
    \E drop \in BOOLEAN :
        /\ store' = [Hooked(FALSE, All, drop) EXCEPT !.pollAllows = All]
        /\ event' = Excuse(IF drop THEN Held ELSE {})
        /\ Spend("hooks")
        /\ UNCHANGED <<poll, post, asking, seen>>

\* The bot has got e: it will not ask for those before, which may still wait to
\* be polled.
GotPosted(e, again) ==
    /\ seen' = IF event[e].id > seen THEN event[e].id ELSE seen
    /\ event' = [Excuse(again \cup {x \in ToSet(store.updates) : event[x].id < event[e].id})
                   EXCEPT ![e].got = IF @ < 2 THEN @ + 1 ELSE @]

\* The bot answers 200; or it fails, or its answer is lost after it got the
\* update, and the next attempt follows.  After the last the update is pending.
DeliverWebhook(e) ==
    /\ post[e] # 0
    /\ \/ /\ post' = [post EXCEPT ![e] = 0]
          /\ store' = [store EXCEPT !.pending = @ \ {e}]
          /\ GotPosted(e, {})
       \/ /\ post' = [post EXCEPT ![e] = IF @ = Attempts THEN 0 ELSE @ + 1]
          /\ store' = [store EXCEPT !.pending = IF post[e] = Attempts THEN @ \cup {e} ELSE @]
          /\ \/ UNCHANGED <<event, seen>>
             \/ GotPosted(e, {e})
    /\ UNCHANGED <<poll, asking, left>>

-----------------------------------------------------------------------------
(* Buttons and inline queries *)

Queries == {e \in Events : ask[e].kind # None}
Waiting(e) == ask[e].at \in {"listening", "expired"}

\* Mutant: one topic for all queries of the bot.
TopicOfBot(e) == None

Topic(e) == e

\* The query is a row, and its topic is listened to before the bot is told.  An
\* inline answer that is still cached is given at once.
GetBotCallbackAnswer(e) ==
    /\ event[e].at = None /\ ask[e].at = None
    /\ ask' = [ask EXCEPT ![e] = [NoAsk EXCEPT !.kind = "callback", !.at = "asked", !.row = TRUE]]
    /\ event' = [event EXCEPT ![e].at = "due", ![e].type = "callback_query"]
    /\ topics' = topics \cup {Topic(e)}
    /\ Spend("queries")
    /\ UNCHANGED <<store, poll, post, answer, cached, seen>>

GetInlineBotResults(e) ==
    /\ event[e].at = None /\ ask[e].at = None
    /\ \/ /\ cached
          /\ ask' = [ask EXCEPT ![e] = [NoAsk EXCEPT !.kind = "inline", !.at = "done"]]
          /\ UNCHANGED topics
       \/ /\ ask' = [ask EXCEPT ![e] = [NoAsk EXCEPT !.kind = "inline", !.at = "asked", !.row = TRUE]]
          /\ topics' = topics \cup {Topic(e)}
    /\ Spend("queries")
    /\ UNCHANGED <<store, event, poll, post, answer, cached, seen>>

\* The update is sent to the bot's sessions, and then queued for HTTP.
BotQueryPushed(e) ==
    /\ ask[e].at = "asked"
    /\ ask' = [ask EXCEPT ![e].at = "told"]
    /\ UNCHANGED <<store, event, poll, post, topics, answer, cached, seen, left>>

EnqueueCallbackQuery(e) ==
    /\ ask[e].at = "told" /\ event[e].at = "due"
    /\ EnqueueUpdate(e)
    /\ UNCHANGED <<asking, seen, left>>

\* pubsub.listen(topic, 15) makes a new entry when the first one is gone.
Listen(e) ==
    /\ ask[e].at = "told" /\ event[e].at # "due"
    /\ ask' = [ask EXCEPT ![e].at = "listening"]
    /\ topics' = topics \cup {Topic(e)}
    /\ UNCHANGED <<store, event, poll, post, answer, cached, seen, left>>

\* The 15 seconds are over: the future is cancelled, then its entry removed.
Expire(e) ==
    /\ ask[e].at = "listening" /\ ask[e].result = None
    /\ ask' = [ask EXCEPT ![e].at = "expired"]
    /\ UNCHANGED <<store, event, poll, post, topics, answer, cached, seen, left>>

TimeOut(e) ==
    /\ ask[e].at = "expired"
    /\ ask' = [ask EXCEPT ![e].at = "late"]
    /\ topics' = topics \ {Topic(e)}
    /\ UNCHANGED <<store, event, poll, post, answer, cached, seen, left>>

\* The row is deleted and the user gets BOT_RESPONSE_TIMEOUT, or the answer.
EndQuery(e) ==
    /\ \/ ask[e].at = "late" /\ ask' = [ask EXCEPT ![e].at = "done", ![e].row = FALSE]
       \/ /\ ask[e].at = "listening" /\ ask[e].result # None
          /\ ask' = [ask EXCEPT ![e].at = "done"]
    /\ UNCHANGED <<store, event, poll, post, topics, answer, cached, seen, left>>

\* notify: the entry is taken out and its future set, which fails when it was
\* cancelled.  Asked for query e, it is heard by whoever listens to its topic.
Cancelled(e) == \E q \in Queries : ask[q].at = "expired" /\ Topic(q) = Topic(e) /\ Topic(e) \in topics

Notify(e, row, http) ==
    LET heard(q) == Topic(e) \in topics /\ ask[q].at = "listening" /\ ask[q].result = None /\ Topic(q) = Topic(e)
        hearer == CHOOSE q \in Events : (\E x \in Queries : heard(x)) => heard(q)
        new == [ask EXCEPT ![e].row = row, ![e].http = @ \/ http,
                           ![e].intime = @ \/ (ask[e].at = "listening" /\ ask[e].result = None)]
    IN  /\ topics' = topics \ {Topic(e)}
        /\ ask' = IF \E q \in Queries : heard(q) THEN [new EXCEPT ![hearer].result = e] ELSE new

\* The row is there and not older than 15 seconds.
BeginAnswer(e) ==
    /\ e \in Queries /\ answer[e] = None
    /\ ask[e].at \in {"told", "listening"} /\ ask[e].row
    /\ answer' = [answer EXCEPT ![e] = "found"]
    /\ UNCHANGED <<store, event, poll, post, ask, topics, cached, seen, left>>

\* notify, and the row is deleted; or the transaction is rolled back.
SetBotCallbackAnswer(e) ==
    /\ answer[e] = "found" /\ ask[e].kind = "callback"
    /\ IF Cancelled(e) THEN topics' = topics \ {Topic(e)} /\ UNCHANGED ask ELSE Notify(e, FALSE, FALSE)
    /\ answer' = [answer EXCEPT ![e] = "given"]
    /\ UNCHANGED <<store, event, poll, post, cached, seen, left>>

\* Results with an item are refused by the database (the item has no result);
\* no results are cached, once for a query.
SetInlineBotResults(e) ==
    /\ answer[e] = "found" /\ ask[e].kind = "inline"
    /\ \E items \in 0..1 :
          \/ items > 0 /\ UNCHANGED <<ask, topics, cached>>
          \/ /\ items = 0 /\ Cancelled(e)
             /\ topics' = topics \ {Topic(e)}
             /\ UNCHANGED <<ask, cached>>
          \/ /\ items = 0 /\ ~Cancelled(e)
             /\ Notify(e, ask[e].row, FALSE)
             /\ cached' = TRUE
    /\ answer' = [answer EXCEPT ![e] = "given"]
    /\ UNCHANGED <<store, event, poll, post, seen, left>>

\* answerCallbackQuery over HTTP looks at no row.
AnswerCallbackQuery(e) ==
    /\ e \in Queries /\ ask[e].kind = "callback" /\ event[e].got > 0 /\ ~ask[e].http
    /\ IF Cancelled(e) THEN topics' = topics \ {Topic(e)} /\ ask' = [ask EXCEPT ![e].http = TRUE]
       ELSE Notify(e, ask[e].row, TRUE)
    /\ UNCHANGED <<store, event, poll, post, answer, cached, seen, left>>

-----------------------------------------------------------------------------
\* Nothing but the rows outlives the server.
Restart ==
    /\ Spend("mishaps")
    /\ store' = NoUpdates
    /\ poll' = [p \in Pollers |-> NoPoll]
    /\ post' = [e \in Events |-> 0]
    /\ ask' = [e \in Events |-> IF ask[e].at = None THEN NoAsk
                                ELSE [ask[e] EXCEPT !.at = "done", !.intime = FALSE, !.cut = TRUE]]
    /\ answer' = [e \in Events |-> IF answer[e] = "found" THEN "given" ELSE answer[e]]
    /\ topics' = {}
    /\ event' = [e \in Events |-> IF event[e].at = None THEN event[e]
                                  ELSE [event[e] EXCEPT !.at = "out", !.excused = TRUE]]
    /\ UNCHANGED <<cached, seen>>

Next ==
    \/ \E e \in Events :
          \/ ScheduleNotification(e) \/ EnqueueIncomingMessage(e) \/ Age(e) \/ DeliverWebhook(e)
          \/ GetBotCallbackAnswer(e) \/ GetInlineBotResults(e) \/ BotQueryPushed(e)
          \/ EnqueueCallbackQuery(e) \/ Listen(e) \/ Expire(e) \/ TimeOut(e) \/ EndQuery(e)
          \/ BeginAnswer(e) \/ SetBotCallbackAnswer(e) \/ SetInlineBotResults(e) \/ AnswerCallbackQuery(e)
    \/ \E p \in Pollers : GetUpdates(p) \/ EndPoll(p)
    \/ SetWebhook \/ DeleteWebhook \/ Restart

Spec == Init /\ [][Next]_vars

-----------------------------------------------------------------------------
(* Properties *)

\* An update the bot wants is handed to it once, and until then it is in the
\* list that is polled, pending or being posted.  The exceptions: the list was
\* dropped or had grown too long or old, an answer was lost on its way to the
\* bot or on the way back, a webhook overtook what was left to be polled, or
\* the server was restarted and began its ids anew (get_updates, set_webhook).
EachUpdateOnce ==
    \A e \in Events : event[e].at = "in" /\ ~event[e].excused =>
        /\ event[e].got + Cardinality({e} \cap Held) = 1
        /\ Cardinality({i \in DOMAIN store.updates : store.updates[i] = e}) <= 1

\* No request sleeps while there is an update it could answer with
\* (get_updates, _notify_waiters).
NobodySleepsOnUpdates ==
    store.updates # <<>> => \A p \in Pollers : poll[p].at # "waiting"

\* A user who waits for a bot gets the answer to his own query, and he is told
\* that there was none only if none came after he began to listen and before
\* the time was up.  The row of a button is deleted then, unless the bot
\* answered over HTTP or the server was restarted (get_bot_callback_answer).
AnswersArrive ==
    \A e \in Events :
        /\ ask[e].result \in {None, e}
        /\ ask[e].at = "done" =>
              /\ ask[e].intime => ask[e].result = e
              /\ ask[e].kind = "callback" /\ ask[e].row => ask[e].http \/ ask[e].cut
=============================================================================
