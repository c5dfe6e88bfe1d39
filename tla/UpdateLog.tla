----------------------------- MODULE UpdateLog -----------------------------
(***************************************************************************)
(* The update log of one user (State.pts and the Update rows) or of one    *)
(* channel (Channel.pts and the ChannelUpdate rows), and a client that     *)
(* follows it with updates.getDifference or updates.getChannelDifference.  *)
(*                                                                         *)
(* Handlers emit updates concurrently (app/utils/updates_manager.py): one  *)
(* takes new pts in a transaction of its own, later stores its rows, and   *)
(* pushes the update to the sessions before or after that.  A difference   *)
(* (app/handlers/updates.py) is several queries, with emitters running in  *)
(* between.  Each action below is one query or transaction.                *)
(*                                                                         *)
(* What a function emits, and what of a row a difference shows, is in      *)
(* UpdateKinds.  A row is [pts, class, msg, took]: msg stands for the      *)
(* message or other object it is about, and took says whether it has a pts *)
(* of its own (an update about nothing is stored at the pts of another)    *)
(***************************************************************************)
EXTENDS UpdateKinds, FiniteSets

CONSTANTS
    Logs,       \* the kinds of log looked at: "user", "channel" or both
    Emitters,   \* the tasks that emit updates
    Msgs,       \* the messages, and other objects, updates are about
    NoMsg,      \* no message
    UserLimits, \* what pts_limit of a request may be; 0 is absent
    ChannelLimits, \* what limit of a channel's request may be
    SliceMax,   \* the 500 updates of a slice
    MaxPts,     \* bound: pts taken in a behaviour
    MaxEmpty    \* bound: rows without a pts of their own

ASSUME LogAssumption == Logs \subseteq {"user", "channel"} /\ NoMsg \notin Msgs
\* What is stored can be read back, except three types of which a client that
\* was away never hears (Update.to_tl).
ASSUME HiddenAssumption ==
    {k \in Announcements : \E r \in k.rows : r.class = "hidden"}
        = update_read_channel_discussion_inbox \cup update_read_channel_discussion_outbox
            \cup update_chat_default_banned_rights
ASSUME LimitsAssumption ==
    /\ UserLimits \subseteq Nat
    /\ ChannelLimits \subseteq Nat
    /\ SliceMax \in Nat \ {0}
    /\ MaxPts \in Nat
    /\ MaxEmpty \in Nat

VARIABLES
    log,       \* whose log it is
    pts,       \* State.pts, or Channel.pts
    em,        \* emitter -> its update and how far it is
    rows,      \* the stored updates
    exists,    \* messages that exist
    gone,      \* messages that were deleted: an id is not used again
    at,        \* the client's pts
    req        \* the client's request in progress

vars == <<log, pts, em, rows, exists, gone, at, req>>

Rows == [pts : Nat, class : Classes, msg : Msgs, took : BOOLEAN]
NoEmission == [step |-> "idle", count |-> 0, rows |-> {}, todo |-> <<>>, msg |-> NoMsg,
               pts |-> 0]
NoRequest == [step |-> "none", limit |-> 0, base |-> 0, server |-> 0,
              found |-> {}, old |-> {}]

PtsOf(R) == {r.pts : r \in R}
MaxOf(S) == CHOOSE n \in S : \A k \in S : k <= n
LastPts(R) == IF R = {} THEN 0 ELSE MaxOf(PtsOf(R))
Above(R, p) == {r \in R : r.pts > p}
\* order_by("pts").limit(n): n rows of R with the least pts; rows of equal pts
\* come in any order.
Firsts(R, n) ==
    {S \in SUBSET R : /\ Cardinality(S) = IF Cardinality(R) < n THEN Cardinality(R) ELSE n
                      /\ \A r \in S, k \in R \ S : r.pts <= k.pts}

TypeOK ==
    /\ log \in Logs
    /\ pts \in 0 .. MaxPts
    /\ \A e \in Emitters : em[e].step \in {"idle", "begun", "taken"} /\ em[e].msg \in Msgs \cup {NoMsg}
    /\ rows \subseteq Rows
    /\ exists \subseteq Msgs
    /\ gone \subseteq Msgs
    /\ at \in Nat
    /\ req.step \in {"none", "max", "rows", "answer"} /\ req.found \subseteq Rows

Init ==
    /\ log \in Logs
    /\ pts = 0
    /\ em = [e \in Emitters |-> NoEmission]
    /\ rows = {}
    /\ exists \in SUBSET Msgs
    /\ gone = {}
    /\ at = 0
    /\ req = NoRequest

client == <<log, at, req>>

-----------------------------------------------------------------------------
(* Emitters *)

\* Whether a row is shown does not change the log: of its class only what it
\* is deleted with matters.
Kept(R) ==
    {[r EXCEPT !.class = IF @ \in {"named", "hidden"} THEN "plain" ELSE @] : r \in R}

\* A push that comes last leaves nothing of the emission to be lost.
Steps(todo) ==
    IF todo[Len(todo)] = "push" THEN SubSeq(todo, 1, Len(todo) - 1) ELSE todo

\* The emission k about m, before it has its pts.
Emission(k, m) ==
    [NoEmission EXCEPT !.step = "begun", !.count = k.count, !.rows = Kept(k.rows),
                       !.todo = Steps(k.todo), !.msg = m]

\* A handler has changed the message and goes on to emit k.
Begin(e, k, m) ==
    /\ em[e].step = "idle"
    /\ k.log = log
    /\ em' = [em EXCEPT ![e] = Emission(k, m)]
    /\ UNCHANGED <<pts, client>>

SendMessage(e, k, m) ==
    /\ m \notin exists \cup gone
    /\ exists' = exists \cup {m}
    /\ UNCHANGED <<rows, gone>>
    /\ Begin(e, k, m)

\* Deleting a message deletes the rows that refer to it (ON DELETE CASCADE).
DeleteMessages(e, k, m) ==
    /\ m \in exists
    /\ exists' = exists \ {m}
    /\ gone' = gone \cup {m}
    /\ rows' = {r \in rows : r.msg # m \/ r.class \notin Owned}
    /\ Begin(e, k, m)

\* The Update rows of emission r, whose last pts is p.
NewRows(r, p) ==
    {[pts |-> p - row.off, class |-> row.class, msg |-> r.msg, took |-> r.count > 0]
        : row \in r.rows}

\* What is left of emission r when it has done the first thing it has to do.
Done(r) == IF Len(r.todo) = 1 THEN NoEmission ELSE [r EXCEPT !.todo = Tail(@)]

\* A row that refers to a deleted message cannot be stored.
CanStore(r) == r.msg \in exists \/ \A row \in r.rows : row.class \notin Owned

\* Mutant: without the lock another handler may have written the counter since.
StaleCounter == {pts, pts - 1} \cap Nat

\* add_pts reads the counter with select_for_update.
Counter == {pts}

\* add_pts: e takes the pts of r in one transaction; with the rows, if they are
\* stored within it.  For an update about nothing the counter is only read.
TakePts(e, r) ==
    \E p \in Counter :
        LET q == p + r.count IN
        /\ q <= MaxPts
        /\ r.count = 0 => Cardinality({k \in rows : ~k.took}) < MaxEmpty
        /\ pts' = IF r.count = 0 THEN pts ELSE q
        /\ IF Head(r.todo) = "within"
           THEN /\ CanStore(r)
                /\ rows' = rows \cup NewRows(r, q)
                /\ em' = [em EXCEPT ![e] = Done(r)]
           ELSE /\ em' = [em EXCEPT ![e] = [r EXCEPT !.step = "taken", !.pts = q]]
                /\ UNCHANGED rows
        /\ UNCHANGED <<exists, gone, client>>

AddPts(e) == em[e].step = "begun" /\ TakePts(e, em[e])

\* An edit, or any other function of updates_manager: what was changed before it
\* is called is not in the log.
Announce(e, k, m) ==
    /\ em[e].step = "idle"
    /\ k.log = log
    /\ m \in exists
    /\ TakePts(e, Emission(k, m))

Doing(e, do) == em[e].step = "taken" /\ Head(em[e].todo) = do

Store(e) ==
    /\ Doing(e, "store")
    /\ CanStore(em[e])
    /\ rows' = rows \cup NewRows(em[e], em[e].pts)
    /\ em' = [em EXCEPT ![e] = Done(@)]
    /\ UNCHANGED <<pts, exists, gone, client>>

\* delete_messages_channel deletes the earlier updates about the messages,
\* encryption_update those about the chat.
Sweep(e) ==
    /\ Doing(e, "sweep")
    /\ LET swept == IF log = "channel" THEN {"message", "edit"} ELSE {"secret"}
       IN  rows' = {r \in rows : r.msg # em[e].msg \/ r.class \notin swept}
    /\ em' = [em EXCEPT ![e] = Done(@)]
    /\ UNCHANGED <<pts, exists, gone, client>>

PushUpdate(e) ==
    /\ Doing(e, "push")
    /\ em' = [em EXCEPT ![e] = Done(@)]
    /\ UNCHANGED <<pts, rows, exists, gone, client>>

\* The handler fails between two queries; a transaction is rolled back.
Fail(e) ==
    /\ em[e].step # "idle"
    /\ em' = [em EXCEPT ![e] = NoEmission]
    /\ UNCHANGED <<pts, rows, exists, gone, client>>

-----------------------------------------------------------------------------
(* Differences *)

\* The end of a request: the client's pts is p now.
Respond(p) ==
    /\ at' = p
    /\ req' = NoRequest
    /\ UNCHANGED <<log, pts, em, rows, exists, gone>>

\* The next query of a request.
Ask(r) ==
    /\ req' = r
    /\ UNCHANGED <<log, pts, em, rows, exists, gone, at>>

\* GetDifference: the largest pts of a row.
UserDifferenceBegins(n) ==
    /\ log = "user" /\ req.step = "none"
    /\ Ask([NoRequest EXCEPT !.step = "rows", !.limit = n, !.server = LastPts(rows),
                             !.old = {r \in Above(rows, at) : r.took}])

UserRows ==
    LET max == IF req.limit = 0 THEN req.server ELSE at + req.limit
    IN  Firsts({r \in rows : r.pts > at /\ r.pts <= max}, SliceMax)

\* The rows are read, and the secret updates of the session: without either
\* the answer is DifferenceEmpty, which has no pts.
UserDifferenceReads(found, secret) ==
    /\ log = "user" /\ req.step = "rows"
    /\ IF found = {} /\ ~secret
       THEN Respond(at)
       ELSE Ask([req EXCEPT !.step = "answer", !.found = found])

\* Mutant: a slice answers with the pts of the request.
UserDifferenceStays ==
    /\ log = "user" /\ req.step = "answer"
    /\ IF req.found = {} \/ LastPts(req.found) >= req.server
       THEN Respond(pts) ELSE Respond(at)

\* Difference with State.pts, or DifferenceSlice with the pts of its last row.
UserDifferenceEnds ==
    /\ log = "user" /\ req.step = "answer"
    /\ IF req.found = {} \/ LastPts(req.found) >= req.server
       THEN Respond(pts) ELSE Respond(LastPts(req.found))

\* GetDifference with a pts_total_limit (of 1) the log exceeds:
\* DifferenceTooLong; the client starts anew from the last pts.
UserDifferenceTooLong ==
    /\ log = "user" /\ req.step = "none"
    /\ LastPts(rows) > at + 1
    /\ Respond(LastPts(rows))

\* GetChannelDifference: the channel, with its pts, is read first.
ChannelDifferenceBegins(n) ==
    /\ log = "channel" /\ req.step = "none"
    /\ Ask([NoRequest EXCEPT !.step = "max", !.limit = n, !.base = pts,
                             !.old = {r \in Above(rows, at) : r.took}])

\* The largest pts of a row decides whether the difference is too long; the
\* client then starts anew from the channel's pts.
ChannelDifferenceMeasures ==
    /\ log = "channel" /\ req.step = "max"
    /\ IF LastPts(rows) > at + req.limit
       THEN Respond(req.base)
       ELSE Ask([req EXCEPT !.step = "rows"])

\* Mutant: the difference begins one update too late.
ChannelDifferenceSkips ==
    /\ log = "channel" /\ req.step = "rows"
    /\ \E found \in Firsts(Above(rows, at + 1), req.limit) :
           IF found = {} THEN Respond(req.base)
           ELSE Ask([req EXCEPT !.step = "answer", !.found = found])

\* Without rows the answer is ChannelDifferenceEmpty.
ChannelDifferenceReads ==
    /\ log = "channel" /\ req.step = "rows"
    /\ \E found \in Firsts(Above(rows, at), req.limit) :
           IF found = {} THEN Respond(req.base)
           ELSE Ask([req EXCEPT !.step = "answer", !.found = found])

\* What ChannelDifference shows of the rows R: a message is among the new ones
\* if its last row in R is "message"; an edit is left out if R has the message
\* itself, which shows it as well if it is among the new ones.
ChannelContent(R) ==
    LET Newer(r) == {k \in R : /\ k.class \in {"message", "edit"}
                               /\ k.msg = r.msg /\ k.pts > r.pts}
        new      == {r \in R : r.class = "message"}
        listed   == {r.msg : r \in {k \in new : Newer(k) = {}}}
        edited   == Msgs \ {r.msg : r \in new}
    IN  {r \in R : r.class \in {"message", "edit"} => r.msg \in listed \cup edited}

ChannelDifferenceEnds ==
    /\ log = "channel" /\ req.step = "answer"
    /\ Respond(LastPts(req.found))

-----------------------------------------------------------------------------
Sent == send_message \cup send_messages \cup send_message_channel \cup send_messages_channel
Edited == edit_message \cup edit_message_channel
Deleted == delete_messages \cup delete_messages_channel

EmitterStep(e) ==
    \/ \E m \in Msgs :
          \/ \E k \in Sent : SendMessage(e, k, m)
          \/ \E k \in Deleted : DeleteMessages(e, k, m)
          \/ \E k \in Edited \cup Announcements : Announce(e, k, m)
    \/ AddPts(e) \/ Store(e) \/ Sweep(e) \/ PushUpdate(e) \/ Fail(e)

ClientStep ==
    \/ \E n \in UserLimits : UserDifferenceBegins(n)
    \/ \E n \in ChannelLimits : ChannelDifferenceBegins(n)
    \/ \E found \in UserRows, secret \in BOOLEAN : UserDifferenceReads(found, secret)
    \/ UserDifferenceEnds \/ UserDifferenceTooLong
    \/ ChannelDifferenceMeasures \/ ChannelDifferenceReads \/ ChannelDifferenceEnds

Next == (\E e \in Emitters : EmitterStep(e)) \/ ClientStep

Spec == Init /\ [][Next]_vars

-----------------------------------------------------------------------------
(* Safety *)

\* The pts an emitter has taken and may still store.
InFlight(e) ==
    IF em[e].step = "taken" /\ \E i \in DOMAIN em[e].todo : em[e].todo[i] = "store"
    THEN (em[e].pts - em[e].count + 1) .. em[e].pts ELSE {}

\* No pts is given to two updates, however handlers interleave and fail, and
\* none is above the counter (State.add_pts, Channel.add_pts); only an update
\* about nothing shares the pts of another.
PtsTakenOnce ==
    /\ \A r, s \in rows : r.took /\ s.took /\ r.pts = s.pts => r = s
    /\ \A r \in rows : /\ r.pts \in 0 .. pts
                       /\ r.took => \A e \in Emitters : r.pts \notin InFlight(e)
    /\ \A e, f \in Emitters : e # f => InFlight(e) \cap InFlight(f) = {}

\* A client that follows its differences is not moved past an update that was
\* stored when it asked and is still there, unless it starts anew.  The only
\* ones it can miss were taken, and not yet stored, when a difference read the
\* counter, or share their pts with an update about nothing, from which a slice
\* cuts them off.
MissesOnlyRaced ==
    [][req.step \in {"rows", "answer"} /\ at' # at =>
         \A r \in req.old \cap rows : r.pts <= at' =>
            r \in req.found \/ \E k \in req.found : ~k.took /\ k.pts = r.pts]_vars

\* Whatever a difference found is in its response in some form.
FoundIsShown ==
    log = "channel" /\ req.step = "answer" => req.found \subseteq ChannelContent(req.found)

(* Liveness.  Handlers run; the client goes on asking. *)
Fairness ==
    /\ \A e \in Emitters : WF_vars(AddPts(e) \/ Store(e) \/ Sweep(e) \/ PushUpdate(e))
    /\ WF_vars(ClientStep)

FairSpec == Spec /\ Fairness

\* A client that keeps asking gets to the end of the log, slice by slice.
CatchesUp == <>[](\A r \in rows : r.took => r.pts <= at)

=============================================================================
