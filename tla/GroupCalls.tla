----------------------------- MODULE GroupCalls -----------------------------
(***************************************************************************)
(* The group calls of one chat: the GroupCall and GroupCallParticipant     *)
(* rows, the room the SFU keeps for a call, and the timer that takes a     *)
(* user without a connection out of the calls.                             *)
(*                                                                         *)
(* A request (app/handlers/group_calls.py, app/utils/group_calls.py) reads *)
(* the call, reads a participant, writes some fields of what it read and   *)
(* goes on to the SFU, over HTTP; each of these is a step here, and the    *)
(* steps of requests and timers interleave.  Left out: titles, versions    *)
(* and invite links of calls (clients apply participants unconditionally,  *)
(* versioned=False), SSRCs, the video of a participant, hands raised, and  *)
(* rows with the silent volume that normalize_admin_mute_db_state          *)
(* converts.                                                               *)
(***************************************************************************)
EXTENDS Integers, FiniteSets

CONSTANTS
    Users,       \* the members of the chat
    Managers,    \* those for whom ensure_can_manage_call succeeds
    Requests,    \* requests that can be handled at once
    Timers,      \* _delayed_leave tasks that can exist at once
    Calls,       \* the calls that can be made: a set of numbers
    Budgets      \* bound: pairs of how many requests a behaviour has, and how many
                 \* disconnections and failed requests to the SFU

VARIABLES
    call,    \* call -> "none", "scheduled", "live" or "over"; and join_muted
    part,    \* call -> user -> the participant's row
    task,    \* request or timer -> what it is doing
    sfu,     \* call -> user -> "none", "playing" or "paused": the peer in the room
    last,    \* call -> user -> _last_sfu_pause_state: "none", "playing" or "paused"
    posts,   \* HTTP requests on their way to the SFU
    online,  \* users with a connected session
    reg,     \* user -> _pending_group_call_leave_tasks
    cause,   \* what has gone wrong that the properties below make allowance for
    made,    \* requests that can still be made
    breaks   \* disconnections and failures that can still happen

vars == <<call, part, task, sfu, last, posts, online, reg, cause, made, breaks>>
db == <<call, part>>
media == <<sfu, last, posts>>
grace == <<online, reg, breaks>>

None == "none"
NoRow == [in |-> "never", muted |-> FALSE, admin |-> FALSE]
Rows == [in : {"never", "yes", "left"}, muted : BOOLEAN, admin : BOOLEAN]
Idle == [op |-> None, u |-> None, t |-> None, c |-> 0, step |-> None, row |-> NoRow,
         arg |-> None, todo |-> {}, lost |-> FALSE]
\* A request is cut short; two creations overlapped; a call was discarded under
\* a request; a pause of the peer, or its leaving, went wrong.
NoCause == [cut |-> FALSE, twice |-> FALSE, late |-> {}, astray |-> {}]

\* The chat has no call yet, or one in which nobody or everybody takes part.
Init ==
    /\ \E state \in {"none", "live"}, in \in {{}, Users} :
          LET there(c, u) == state = "live" /\ c = 1 /\ u \in in
              heard(c, u) == IF there(c, u) THEN "playing" ELSE "none"
          IN  /\ state = "none" => in = {}
              /\ call = [c \in Calls |-> [state |-> IF c = 1 THEN state ELSE "none",
                                          join_muted |-> FALSE]]
              /\ part = [c \in Calls |-> [u \in Users |->
                            IF there(c, u) THEN [NoRow EXCEPT !.in = "yes"] ELSE NoRow]]
              /\ sfu = [c \in Calls |-> [u \in Users |-> heard(c, u)]]
              /\ last = sfu
    /\ task = [x \in Requests \cup Timers |-> Idle]
    /\ posts = {}
    /\ online = Users
    /\ reg = [u \in Users |-> None]
    /\ cause = NoCause
    /\ \E b \in Budgets : made = b[1] /\ breaks = b[2]

-----------------------------------------------------------------------------
(* The rows *)

Unmade == {c \in Calls : call[c].state = "none"}
Open == {c \in Calls : call[c].state \in {"scheduled", "live"}}
In(c) == {u \in Users : part[c][u].in = "yes"}

\* is_admin_muted, should_pause_sfu_audio
Sound(row) == IF row.muted \/ row.admin THEN "paused" ELSE "playing"

\* Mutant: who joins anew is no longer muted by an admin.
JoinedAnew(row, r, muted) ==
    [row EXCEPT !.in = "yes", !.muted = muted, !.admin = FALSE]

\* join_group_call, of a row that was read as r: an admin's mute is kept.
Joined(row, r, muted) ==
    [row EXCEPT !.in = "yes", !.muted = muted \/ r.admin]

Left(row) == [row EXCEPT !.in = "left"]

\* edit_group_call_participant ignores a participant's own unmuting then.
Ignored(x) == x.arg = "unmute" /\ x.u = x.t /\ x.row.admin

\* edit_group_call_participant writes only the fields that the edit is about;
\* "quiet" and "loud" are volumes up to and above the threshold.
Edited(row, x) ==
    CASE x.arg = "mute"   -> [row EXCEPT !.muted = TRUE, !.admin = @ \/ x.u # x.t]
      [] x.arg = "unmute" -> [row EXCEPT !.muted = FALSE, !.admin = FALSE]
      [] x.arg = "quiet"  -> [row EXCEPT !.muted = TRUE, !.admin = TRUE]
      [] x.arg = "loud"   -> IF x.row.admin THEN [row EXCEPT !.muted = FALSE, !.admin = FALSE]
                             ELSE row

Edits == {"mute", "unmute", "quiet", "loud"}
\* The edits that request u may make of t's row.
Allowed(u, t) ==
    IF u = t THEN Edits \ {"quiet", "loud"} ELSE IF u \in Managers THEN Edits ELSE {}

-----------------------------------------------------------------------------
(* The SFU *)

\* sync_sfu_participant_audio_state: nothing is sent if the state was sent before.
Sync(c, u, s) ==
    IF last[c][u] = s THEN UNCHANGED <<last, posts>>
    ELSE /\ last' = [last EXCEPT ![c][u] = s]
         /\ posts' = posts \cup {[do |-> s, c |-> c, u |-> u]}

AstrayIf(P, c, u) ==
    cause' = IF P THEN [cause EXCEPT !.astray = @ \cup {<<c, u>>}] ELSE cause

\* Each request is a task with a connection of its own: any may be the next.
Arrives(p) == posts' = posts \ {p}
Races(p) == \E q \in posts \ {p} : q.c = p.c /\ q.u = p.u

\* setPeerAudioPaused ignores a peer that is not in the room.
StateArrives(p) ==
    LET there == sfu[p.c][p.u] # "none"
    IN  /\ p.do \in {"playing", "paused"}
        /\ Arrives(p)
        /\ IF there THEN sfu' = [sfu EXCEPT ![p.c][p.u] = p.do] ELSE UNCHANGED sfu
        /\ AstrayIf(Races(p) \/ (~there /\ p.do = "paused"), p.c, p.u)
        /\ UNCHANGED <<db, task, last, grace, made>>

\* /api/leave
LeaveArrives(p) ==
    /\ p.do = "leave"
    /\ Arrives(p)
    /\ sfu' = [sfu EXCEPT ![p.c][p.u] = "none"]
    /\ AstrayIf(Races(p), p.c, p.u)
    /\ UNCHANGED <<db, task, last, grace, made>>

\* httpx.HTTPError: a warning is logged, and that is all.
PostFails(p) ==
    /\ breaks > 0
    /\ Arrives(p)
    /\ AstrayIf(TRUE, p.c, p.u)
    /\ breaks' = breaks - 1
    /\ UNCHANGED <<db, task, sfu, last, online, reg, made>>

\* /api/join: a peer that is there keeps the state of its audio.
MediaJoin(c, u) ==
    sfu' = [sfu EXCEPT ![c][u] = IF @ = "none" THEN "playing" ELSE @]

-----------------------------------------------------------------------------
(* Requests *)

Goes(x, step) ==
    task' = [task EXCEPT ![x].step = step, ![x].row = NoRow, ![x].arg = None]
Ends(x) == task' = [task EXCEPT ![x] = Idle]
\* A timer goes on with the user's other calls.
Leaves(x) == IF task[x].op = "grace" THEN Goes(x, "next") ELSE Ends(x)

\* A request by u that found call c (get_from_input_raise).
Begins(x, u, c, op, t, arg, step) ==
    /\ task' = [task EXCEPT ![x] = [Idle EXCEPT !.op = op, !.u = u, !.t = t, !.c = c,
                                                 !.arg = arg, !.step = step]]
    /\ made' = made - 1
    /\ UNCHANGED <<db, media, grace, cause>>

\* JoinGroupCall with an audio stream; the row is read.
JoinGroupCall(x, u, c, muted) ==
    /\ call[c].state = "live"
    /\ Begins(x, u, c, "join", u, IF call[c].join_muted THEN "muted" ELSE muted, "row")

\* JoinGroupCall with a video stream, JoinGroupCallPresentation.
JoinGroupCallVideo(x, u, c) == Begins(x, u, c, "video", u, None, "row")

LeaveGroupCall(x, u, c) == Begins(x, u, c, "leave", u, None, "row")

\* The edits of a hand raised, and of video and presentation, change no sound.
EditGroupCallParticipant(x, u, c, t, arg) ==
    arg \in Allowed(u, t) /\ Begins(x, u, c, "edit", t, arg, "row")

DiscardGroupCall(x, u, c) ==
    u \in Managers /\ Begins(x, u, c, "discard", u, None, "over")

\* get_or_none of the participant; with a video only its stream is saved.
ReadRow(x) ==
    LET k == task[x]
        r == part[k.c][k.t]
    IN  /\ k.step = "row"
        /\ \/ k.op = "video" /\ r.in = "yes" /\ Goes(x, "media")
           \/ /\ k.op = "join" \/ (k.op # "video" /\ r.in = "yes")
              /\ task' = [task EXCEPT ![x].row = r, ![x].step = "save"]
           \/ k.op # "join" /\ r.in # "yes" /\ Leaves(x)
        /\ UNCHANGED <<db, media, grace, cause, made>>

\* The row is written, and the SFU's state of the audio is to follow it; it is
\* computed from the row as it was read.
SaveJoin(x) ==
    LET k == task[x]
        new == Joined(part[k.c][k.u], k.row, k.arg = "muted")
    IN  /\ k.step = "save" /\ k.op = "join"
        /\ IF k.row.in = "never" /\ part[k.c][k.u].in # "never"
           THEN Ends(x) /\ UNCHANGED <<part, last, posts, cause>>    \* unique_together
           ELSE /\ part' = [part EXCEPT ![k.c][k.u] = new]
                /\ Sync(k.c, k.u, Sound(Joined(k.row, k.row, k.arg = "muted")))
                /\ Goes(x, "media")
                /\ AstrayIf(part[k.c][k.u] # k.row, k.c, k.u)
        /\ UNCHANGED <<call, sfu, grace, made>>

SaveEdit(x) ==
    LET k == task[x] IN
    /\ k.step = "save" /\ k.op = "edit"
    /\ IF Ignored(k) THEN UNCHANGED part
       ELSE part' = [part EXCEPT ![k.c][k.t] = Edited(@, k)]
    /\ Sync(k.c, k.t, Sound(IF Ignored(k) THEN k.row ELSE Edited(k.row, k)))
    /\ AstrayIf(part[k.c][k.t] # k.row, k.c, k.t)
    /\ Ends(x)
    /\ UNCHANGED <<call, sfu, grace, made>>

\* Mutant: clear_speaking_state is not called.
SaveLeaveKeepsState(x) ==
    LET k == task[x] IN
    /\ k.step = "save" /\ k.op \in {"leave", "grace"}
    /\ part' = [part EXCEPT ![k.c][k.u] = Left(@)]
    /\ posts' = posts \cup {[do |-> "leave", c |-> k.c, u |-> k.u]}
    /\ Goes(x, "count")
    /\ UNCHANGED <<call, sfu, last, grace, cause, made>>

\* leave_group_call
SaveLeave(x) ==
    LET k == task[x] IN
    /\ k.step = "save" /\ k.op \in {"leave", "grace"}
    /\ part' = [part EXCEPT ![k.c][k.u] = Left(@)]
    /\ last' = [last EXCEPT ![k.c][k.u] = "none"]
    /\ posts' = posts \cup {[do |-> "leave", c |-> k.c, u |-> k.u]}
    /\ Goes(x, "count")
    /\ UNCHANGED <<call, sfu, grace, cause, made>>

Leaving(c, u) == [do |-> "leave", c |-> c, u |-> u] \in posts

\* build_connection_params; without the SFU the client gets a made-up answer.
Media(x, works) ==
    LET k == task[x] IN
    /\ k.step = "media"
    /\ IF works THEN MediaJoin(k.c, k.u) /\ UNCHANGED breaks
       ELSE breaks > 0 /\ breaks' = breaks - 1 /\ UNCHANGED sfu
    /\ AstrayIf(~works \/ k.u \notin In(k.c) \/ Leaving(k.c, k.u), k.c, k.u)
    /\ Ends(x)
    /\ UNCHANGED <<db, last, posts, online, reg, made>>

\* Mutant: the timers do not discard a call.
CountByHand(x) ==
    LET k == task[x] IN
    /\ k.step = "count"
    /\ IF In(k.c) = {} /\ k.op = "leave" THEN Goes(x, "over")
       ELSE Leaves(x)
    /\ UNCHANGED <<db, media, grace, cause, made>>

\* discard_group_call_if_empty: the participants are counted.
Count(x) ==
    LET k == task[x] IN
    /\ k.step = "count"
    /\ IF In(k.c) = {} THEN Goes(x, "over")
       ELSE Leaves(x)
    /\ UNCHANGED <<db, media, grace, cause, made>>

\* Others that are at work on the call when it is discarded go on; and someone
\* may have joined since the participants were counted.
Under(x, c) ==
    \/ \E y \in DOMAIN task \ {x} : task[y].c = c \/ c \in task[y].todo
    \/ task[x].op \in {"leave", "grace"} /\ In(c) # {}
Discarded(C, x) ==
    cause' = [cause EXCEPT !.late = @ \cup {c \in C : Under(x, c)}]

\* discarded_at is saved.
Over(x) ==
    LET k == task[x] IN
    /\ k.step = "over"
    /\ call' = [call EXCEPT ![k.c].state = "over"]
    /\ Goes(x, "empty")
    /\ Discarded({k.c}, x)
    /\ UNCHANGED <<part, media, grace, made>>

\* Mutant: nobody is taken out of a discarded call.
AllStay(c) == [u \in Users |-> part[c][u]]

AllOut(c) == [u \in Users |-> IF u \in In(c) THEN [part[c][u] EXCEPT !.in = "left"] ELSE part[c][u]]
Closed == [u \in Users |-> "none"]

\* Only DiscardGroupCall marks the participants; then the room is deleted, if
\* the SFU can be reached.
Empty(x, works) ==
    LET k == task[x] IN
    /\ k.step = "empty"
    /\ IF k.op = "discard" THEN part' = [part EXCEPT ![k.c] = AllOut(k.c)] ELSE UNCHANGED part
    /\ IF works THEN sfu' = [sfu EXCEPT ![k.c] = Closed] /\ UNCHANGED <<breaks, cause>>
       ELSE /\ breaks > 0 /\ breaks' = breaks - 1
            /\ cause' = [cause EXCEPT !.late = @ \cup {k.c}]
            /\ UNCHANGED sfu
    /\ Leaves(x)
    /\ UNCHANGED <<call, last, posts, online, reg, made>>

\* CreateGroupCall: a transaction reads the chat's call, which must be the only one,
CreateGroupCall(x, u) ==
    /\ task[x] = Idle /\ made > 0
    /\ u \in Managers \cap online
    /\ Cardinality(Open) <= 1
    /\ task' = [task EXCEPT ![x] = [Idle EXCEPT !.op = "create", !.u = u, !.t = u,
                                                 !.step = "make", !.todo = Open]]
    /\ cause' = [cause EXCEPT !.twice = @ \/ \E y \in Requests : task[y].op = "create"]
    /\ made' = made - 1
    /\ UNCHANGED <<db, media, grace>>

\* discards it with its participants and its room, and makes the new one.
Make(x, state, muted) ==
    LET old == task[x].todo IN
    /\ task[x].step = "make"
    /\ \E new \in Unmade :
          /\ \A c \in Unmade : new <= c
          /\ call' = [c \in Calls |->
                         IF c = new THEN [state |-> state, join_muted |-> muted]
                         ELSE IF c \in old THEN [call[c] EXCEPT !.state = "over"] ELSE call[c]]
    /\ part' = [c \in Calls |-> IF c \in old THEN AllOut(c) ELSE part[c]]
    /\ sfu' = [c \in Calls |-> IF c \in old THEN Closed ELSE sfu[c]]
    /\ Discarded(old, x)
    /\ Ends(x)
    /\ UNCHANGED <<last, posts, grace, made>>

\* StartScheduledGroupCall and ToggleGroupCallSettings save only what they change:
\* of a call that was discarded since they read it, nothing that matters.
StartScheduledGroupCall(u, c) ==
    /\ u \in Managers \cap online
    /\ call[c].state = "scheduled"
    /\ call' = [call EXCEPT ![c].state = "live"]
    /\ UNCHANGED <<part, task, media, grace, cause, made>>

ToggleGroupCallSettings(u, c) ==
    /\ u \in Managers \cap online /\ made > 0
    /\ c \in Open
    /\ call' = [call EXCEPT ![c].join_muted = ~@]
    /\ made' = made - 1
    /\ UNCHANGED <<part, task, media, grace, cause>>

-----------------------------------------------------------------------------
(* The timer of a user without a connection *)

\* cancel_scheduled_leave_group_calls, as a change of tasks.
Cancelled(u) ==
    IF reg[u] = None THEN task ELSE [task EXCEPT ![reg[u]].step = "cancelled"]

CutShort(u) == reg[u] # None /\ task[reg[u]].step # "sleep"

\* schedule_leave_group_calls_for_user
Schedule(u) ==
    \E g \in Timers :
        /\ task[g] = Idle
        /\ task' = [Cancelled(u) EXCEPT ![g] = [Idle EXCEPT !.op = "grace", !.u = u, !.t = u,
                                                            !.step = "sleep"]]
        /\ reg' = [reg EXCEPT ![u] = g]
        /\ cause' = [cause EXCEPT !.cut = @ \/ CutShort(u)]

\* The user's last connected session disconnects; or, later, a session without
\* a connection is given up (Session.disconnect, SessionManager.finalize).
Disconnect(u) ==
    /\ u \in online /\ breaks > 0
    /\ online' = online \ {u}
    /\ breaks' = breaks - 1
    /\ Schedule(u)
    /\ UNCHANGED <<db, media, made>>

Finalize(u) ==
    /\ u \notin online /\ breaks > 0
    /\ breaks' = breaks - 1
    /\ Schedule(u)
    /\ UNCHANGED <<db, media, online, made>>

\* Mutant: connecting leaves the timer alone.
ConnectOnly(u, known) ==
    /\ u \notin online
    /\ online' = online \cup {u}
    /\ task' = IF known THEN task
               ELSE [x \in DOMAIN task |-> [task[x] EXCEPT !.lost = @ \/ (x \in Timers /\ task[x].u = u)]]
    /\ UNCHANGED <<db, media, reg, breaks, cause, made>>

\* Session.connect cancels the timer if the session knows whose it is; a new
\* session learns that with its first request.
Connect(u, known) ==
    /\ u \notin online
    /\ online' = online \cup {u}
    /\ IF known
       THEN /\ task' = Cancelled(u)
            /\ reg' = [reg EXCEPT ![u] = None]
            /\ cause' = [cause EXCEPT !.cut = @ \/ CutShort(u)]
       ELSE /\ task' = [x \in DOMAIN task |-> [task[x] EXCEPT !.lost = @ \/ (x \in Timers /\ task[x].u = u)]]
            /\ UNCHANGED <<reg, cause>>
    /\ UNCHANGED <<db, media, breaks, made>>

\* The finally of _delayed_leave: whatever task is registered is so no more.
Finishes(g) ==
    /\ task[g].step = "cancelled" \/ (task[g].op = "grace" /\ task[g].step = "next" /\ task[g].todo = {})
    /\ LET u == task[g].u
           r == reg[u]
       IN  /\ task' = [x \in DOMAIN task |->
                          IF x = g THEN Idle
                          ELSE IF x = r THEN [task[x] EXCEPT !.lost = TRUE] ELSE task[x]]
           /\ reg' = [reg EXCEPT ![u] = None]
    /\ UNCHANGED <<db, media, online, breaks, cause, made>>

\* The grace is over: leave_all_group_calls_for_user reads where the user is.
Expire(g) ==
    LET u == task[g].u IN
    /\ task[g].step = "sleep"
    /\ task' = [task EXCEPT ![g].step = "next",
                            ![g].todo = {c \in Calls : call[c].state = "live" /\ u \in In(c)}]
    /\ UNCHANGED <<db, media, grace, cause, made>>

LeaveNext(g) ==
    /\ task[g].step = "next"
    /\ \E c \in task[g].todo :
           task' = [task EXCEPT ![g].c = c, ![g].todo = @ \ {c}, ![g].step = "row"]
    /\ UNCHANGED <<db, media, grace, cause, made>>

-----------------------------------------------------------------------------
RequestStep(x) ==
    \/ ReadRow(x) \/ SaveJoin(x) \/ SaveEdit(x) \/ SaveLeave(x)
    \/ \E works \in BOOLEAN : Media(x, works) \/ Empty(x, works)
    \/ Count(x) \/ Over(x)
    \/ \E state \in {"scheduled", "live"}, muted \in BOOLEAN : Make(x, state, muted)

TimerStep(g) == Expire(g) \/ LeaveNext(g) \/ Finishes(g)

UserStep(u) ==
    \/ \E x \in Requests : CreateGroupCall(x, u)
    \/ \E x \in {y \in Requests : u \in online /\ task[y] = Idle /\ made > 0}, c \in Open :
          \/ \E muted \in {"muted", "unmuted"} : JoinGroupCall(x, u, c, muted)
          \/ JoinGroupCallVideo(x, u, c)
          \/ LeaveGroupCall(x, u, c)
          \/ \E t \in Users, arg \in Edits : EditGroupCallParticipant(x, u, c, t, arg)
          \/ DiscardGroupCall(x, u, c)
    \/ \E c \in Calls : StartScheduledGroupCall(u, c) \/ ToggleGroupCallSettings(u, c)
    \/ Disconnect(u) \/ Finalize(u)
    \/ \E known \in BOOLEAN : Connect(u, known)

Next ==
    \/ \E u \in Users : UserStep(u)
    \/ \E x \in Requests \cup Timers : RequestStep(x)
    \/ \E g \in Timers : TimerStep(g)
    \/ \E p \in posts : StateArrives(p) \/ LeaveArrives(p) \/ PostFails(p)

Spec == Init /\ [][Next]_vars

-----------------------------------------------------------------------------
(* Properties *)

AtWork(c) == \E y \in DOMAIN task : task[y].c = c \/ c \in task[y].todo

\* A chat has one open call, unless two requests to create one overlapped; and
\* a discarded call has neither participants nor a room on the SFU, unless a
\* request was at work on it or had just joined when it was discarded, the SFU
\* could not be reached, or a timer that discarded it was cancelled
\* (discard_active_call, discard_group_call_if_empty).
CallsAreTidy ==
    /\ cause.twice \/ Cardinality(Open) <= 1
    /\ \A c \in Calls : call[c].state = "over" /\ ~AtWork(c) /\ c \notin cause.late /\ ~cause.cut =>
           In(c) = {} /\ sfu[c] = Closed

\* When all is done, the SFU's room has the participants of the call, heard or
\* not as their rows say, unless a request to the SFU failed, raced with another
\* or came before the peer, or two requests about the participant overlapped.
SfuAgrees ==
    \A c \in Calls : call[c].state = "live" /\ ~AtWork(c) =>
        \A u \in Users :
            \/ <<c, u>> \in cause.astray
            \/ \E p \in posts : p.c = c /\ p.u = u
            \/ sfu[c][u] = IF u \in In(c) THEN Sound(part[c][u]) ELSE "none"

\* Whom an admin muted stays muted until an admin unmutes: no leaving and
\* joining, nor an edit of one's own helps, unless it read the row before
\* (can_self_unmute_participant).
AdminMuteSticksStep ==
    \A c \in Calls, u \in Users :
        part[c][u].admin /\ ~part'[c][u].admin =>
            \E x \in Requests :
                /\ task[x].op = "edit" /\ task[x].step = "save" /\ task[x].t = u
                /\ task[x].u \in Managers \ {u} \/ ~task[x].row.admin

\* The timer takes out of a call only users without a connection, unless they
\* came back with a session that did not know them, or the timer of an earlier
\* disconnection removed its registration (_delayed_leave).
EvictedOnlyOfflineStep ==
    \A g \in Timers :
        task[g].step = "save" /\ task'[g].step = "count" =>
            task[g].u \notin online \/ task[g].lost

\* A call that everyone has left is discarded once nobody is at work on it,
\* unless a timer was cancelled half-way: of users who leave at once, the last
\* to count finds nobody (discard_group_call_if_empty).
EmptyCallEnds ==
    \A c \in Calls :
        /\ call[c].state = "live" /\ In(c) = {} /\ ~AtWork(c)
        /\ \E u \in Users : part[c][u].in = "left"
        => cause.cut

=============================================================================
