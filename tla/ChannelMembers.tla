--------------------------- MODULE ChannelMembers ---------------------------
(***************************************************************************)
(* The members of one supergroup: participants with their bans and admin   *)
(* rights, the creator, invite links and join requests                     *)
(* (app/handlers/channels.py, app/handlers/messages/invites.py,            *)
(* db/models/chat_base.py, chat_participant.py, chat_invite*.py).          *)
(*                                                                         *)
(* A task is a request in progress.  It reads the channel and the sender's *)
(* participant, then the participant it is about, and writes what follows  *)
(* from these reads; other requests run in between.  Saves name their      *)
(* fields (update_fields), so a save changes nothing else in the row.      *)
(***************************************************************************)
EXTENDS Integers, FiniteSets

CONSTANTS
    Users,
    Tasks,        \* requests in progress
    NoUser,
    Apps,         \* limits, and what clients ask for, one of which a behaviour has:
                  \* [members, admins, grants, bans]
    InviteByAll,  \* the channel's banned_rights leave INVITE_USERS to everyone
    MaxInvites,   \* bound: invite links created in a behaviour
    MaxRequests   \* bound: requests in a behaviour

\* CREATOR_RIGHTS, without the rights that these handlers never look at.
AllRights == {"add_admins", "ban_users", "invite_users", "change_info"}
BannedRights == {"view_messages", "invite_users"}
InviteIds == 1 .. MaxInvites

VARIABLES
    app,          \* the element of Apps
    row,          \* user -> the ChatParticipant of the channel
    creator,
    deleted,
    public,       \* the channel has a username
    joinRequest,  \* Channel.join_request
    adminsCount,  \* Channel.admins_count
    invite,       \* invite id -> the ChatInvite
    request,      \* ChatInviteRequest: pairs of a user and an invite
    task,
    begun,        \* requests begun, for MaxRequests
    stale,        \* history: a request failed before sync_admins_count, and
                  \* none has synchronised since
    strays,       \* history: admins gained without a valid look at the count
    disturbed,    \* history: users about whom two requests overlapped, or a
                  \* request failed half-way
    crowd         \* history: the most users who were entering at a time

vars == <<app, row, creator, deleted, public, joinRequest, adminsCount, invite,
          request, task, begun, stale, strays, disturbed,
          crowd>>
channel == <<creator, deleted, public, joinRequest>>
admins == <<adminsCount, stale, strays>>

MemberLimit == app.members   \* APP_CONFIG.super_group_member_limit
AdminLimit == app.admins     \* APP_CONFIG.channel_admin_limit
Grants == app.grants         \* the sets of rights that edit_admin is asked for
Bans == app.bans             \* the sets of rights that edit_banned is asked to take away

NoRow == [there |-> FALSE, left |-> TRUE, banned |-> {}, admin |-> {}]
NewMember == [NoRow EXCEPT !.there = TRUE, !.left = FALSE]
Rows == [there : BOOLEAN, left : BOOLEAN, banned : SUBSET BannedRights,
         admin : SUBSET AllRights]
NoInvite == [state |-> "none", owner |-> NoUser, ask |-> FALSE]
Link(u, ask) == [state |-> "live", owner |-> u, ask |-> ask]
Invites == [state : {"none", "live", "revoked", "deleted"},
            owner : Users \cup {NoUser}, ask : BOOLEAN]

\* step: what the task does next.  boss: the sender is the creator, as read
\* at the beginning; own and count are the sender's rights and admins_count
\* then; seen is the target's row as it was read; flag: the import needs a
\* request, or the edit is not compared with the limit, for it was read to be of
\* an admin or asks for no rights (a creator gets them all the same).
Ops == {"idle", "ban", "admin", "transfer", "add", "join", "import", "approve",
        "dismiss", "leave"}
IdleTask == [op |-> "idle", step |-> "idle", who |-> NoUser, target |-> NoUser,
             rights |-> {}, inv |-> 0, flag |-> FALSE, boss |-> FALSE,
             own |-> {}, count |-> 0, seen |-> NoRow]
TaskStates == [op : Ops,
               step : {"idle", "target", "limit", "create", "write", "drop", "sync"},
               who : Users \cup {NoUser}, target : Users \cup {NoUser},
               rights : SUBSET (AllRights \cup BannedRights), inv : Nat,
               flag : BOOLEAN, boss : BOOLEAN, own : SUBSET AllRights,
               count : Nat, seen : Rows]

Member(u) == ~row[u].left
Members == {u \in Users : Member(u)}
Admins == {u \in Users : row[u].admin # {}}

TypeOK ==
    /\ row \in [Users -> Rows]
    /\ creator \in Users
    /\ deleted \in BOOLEAN /\ public \in BOOLEAN /\ joinRequest \in BOOLEAN
    /\ adminsCount \in Nat
    /\ invite \in [InviteIds -> Invites]
    /\ request \subseteq Users \X InviteIds
    /\ task \in [Tasks -> TaskStates]
    /\ begun \in 0 .. MaxRequests
    /\ stale \in BOOLEAN /\ strays \in Nat /\ crowd \in Nat /\ disturbed \subseteq Users
    \* a request that ended has left nothing behind
    /\ \A t \in Tasks : task[t].step = "idle" => task[t] = IdleTask
    \* whoever is not in the table has neither rights nor bans
    /\ \A u \in Users : ~row[u].there => row[u] = NoRow

\* create_channel gives the creator all rights.  By now users may have been
\* added, the channel given a username, and either some made admins who have
\* left since, or a user waits for admission.
Init ==
    /\ app \in Apps
    /\ creator \in Users
    /\ \E r \in [Users -> {NoRow, NewMember,
                          [NewMember EXCEPT !.admin = AllRights, !.left = TRUE]}] :
          row = [r EXCEPT ![creator] = [NewMember EXCEPT !.admin = AllRights]]
    /\ Cardinality(Members) <= MemberLimit /\ Cardinality(Admins) <= AdminLimit
    /\ deleted = FALSE
    /\ public \in BOOLEAN /\ joinRequest = FALSE
    /\ adminsCount = Cardinality(Admins)
    /\ \/ invite = [i \in InviteIds |-> NoInvite] /\ request = {}
       \/ /\ 1 \in InviteIds /\ Admins = {creator}
          /\ invite = [i \in InviteIds |-> IF i = 1 THEN Link(creator, TRUE) ELSE NoInvite]
          /\ request \in {{}} \cup {{<<u, 1>>} : u \in Users \ Members}
    /\ task = [t \in Tasks |-> IdleTask]
    /\ begun = 0
    /\ stale = FALSE /\ strays = 0 /\ disturbed = {} /\ crowd = 0

-----------------------------------------------------------------------------
(* Rights *)

\* admin_has_permission, of a participant that has not left.
AdminHasPermission(u, right) ==
    Member(u) /\ (u = creator \/ right \in row[u].admin)

\* user_has_permission(participant, INVITE_USERS) in a supergroup.
UserMayInvite(u) ==
    /\ Member(u)
    /\ \/ u = creator
       \/ row[u].admin # {}
       \/ IF row[u].banned = {} THEN InviteByAll
                                ELSE "invite_users" \notin row[u].banned

(* Tasks *)

\* The users whose participant, or requests, a task is about.
Subjects(r) == IF r.op = "transfer" THEN {r.who, r.target} ELSE {r.target}
Busy == {t \in Tasks : task[t].step # "idle"}


\* Mutant: whoever is not banned from viewing is a member.
LeftUnlessViewing(t) == "view_messages" \in task[t].rights

\* left, from the row that was read: NoRow has left, as None in the code.
LeftAfterBan(t) == task[t].seen.left \/ "view_messages" \in task[t].rights

\* The users whom a request is about to write as members, some with a row that
\* it read before.
Entering ==
    {task[t].target : t \in {s \in Tasks :
        /\ task[s].step = "write"
        /\ \/ task[s].op \in {"join", "import", "add", "approve"}
           \/ task[s].op = "ban" /\ ~LeftAfterBan(s)}}
Crowd == crowd' = IF Cardinality(Entering') > crowd THEN Cardinality(Entering') ELSE crowd

Begins(t, r) ==
    /\ begun' = begun + 1
    /\ task' = [task EXCEPT ![t] = r]
    /\ Crowd
    /\ disturbed' = disturbed \cup
                        (Subjects(r) \cap UNION {Subjects(task[s]) : s \in Busy})
Moves(t, r) ==
    /\ task' = [task EXCEPT ![t] = r]
    /\ Crowd
    /\ UNCHANGED <<begun, disturbed>>
Goto(t, step) == Moves(t, [task[t] EXCEPT !.step = step])
Ends(t) == Moves(t, IdleTask)
\* A check fails: the request ends with an error, or with nothing to do.
Refused(t) ==
    /\ Ends(t)
    /\ UNCHANGED <<row, channel, admins, invite, request>>
\* A request that one step stands for.
Immediate ==
    /\ begun' = begun + 1
    /\ UNCHANGED <<task, disturbed, crowd>>
At(t, op, step) == task[t].op = op /\ task[t].step = step
Without(u) == {q \in request : q[1] # u}
\* The request ends half-way: the worker stops or a query fails.
Fails(t) ==
    /\ t \in Busy
    /\ task' = [task EXCEPT ![t] = IdleTask]
    /\ disturbed' = IF task[t].step = "drop" THEN disturbed \cup Subjects(task[t])
                                             ELSE disturbed
    /\ stale' = (stale \/ task[t].step = "sync")
    /\ strays' = IF task[t].step = "sync" THEN strays + 1 ELSE strays
    /\ UNCHANGED <<row, channel, adminsCount, invite, request, begun, crowd>>

-----------------------------------------------------------------------------
(* Bans *)

\* edit_banned.  One cannot ban oneself: the input peer would be PeerType.SELF.
EditBanned(t, u, v, b) ==
    /\ u # v
    /\ ~deleted
    /\ AdminHasPermission(u, "ban_users")
    /\ Begins(t, [IdleTask EXCEPT !.op = "ban", !.step = "target",
                     !.target = v, !.rights = b, !.boss = (u = creator)])
    /\ UNCHANGED <<row, channel, admins, invite, request>>

ReadBanned(t) ==
    LET r == row[task[t].target] IN
    /\ At(t, "ban", "target")
    /\ IF \/ r.there /\ r.banned = task[t].rights
          \/ r.admin # {} /\ ~task[t].boss
       THEN Refused(t)
       ELSE /\ Moves(t, [task[t] EXCEPT !.step = "write", !.seen = r])
            /\ UNCHANGED <<row, channel, admins, invite, request>>

\* The row is created or saved; creating a row that another request has
\* created since fails (unique_together).
WriteBanned(t) ==
    LET v == task[t].target IN
    /\ At(t, "ban", "write")
    /\ \/ /\ ~task[t].seen.there /\ row[v].there
          /\ Refused(t)
       \/ /\ task[t].seen.there \/ ~row[v].there
          /\ row' = [row EXCEPT ![v].there = TRUE, ![v].left = LeftAfterBan(t),
                                ![v].banned = task[t].rights]
          /\ IF "view_messages" \in task[t].rights THEN Goto(t, "drop") ELSE Ends(t)
          /\ UNCHANGED <<channel, admins, invite, request>>

\* delete_for_channel with user_id: the target's requests on any invite.
DropRequests(t) ==
    /\ task[t].op \in {"ban", "approve", "dismiss"} /\ task[t].step = "drop"
    /\ request' = Without(task[t].target)
    /\ Ends(t)
    /\ UNCHANGED <<row, channel, admins, invite>>

-----------------------------------------------------------------------------
(* Admins and the creator *)

\* edit_admin, without the rank.  One may edit oneself.
EditAdmin(t, u, v, g) ==
    /\ ~deleted
    /\ AdminHasPermission(u, "add_admins")
    /\ v = creator => u = v
    /\ Begins(t, [IdleTask EXCEPT !.op = "admin", !.step = "target", !.who = u,
                     !.target = v, !.rights = g, !.boss = (u = creator),
                     !.own = row[u].admin, !.count = adminsCount])
    /\ UNCHANGED <<row, channel, admins, invite, request>>
TooManyAdmins(t) ==
    /\ task[t].rights # {} /\ row[task[t].target].admin = {}
    /\ task[t].count >= AdminLimit

ReadAdmin(t) ==
    LET r == row[task[t].target]
        new == IF task[t].boss /\ task[t].who = task[t].target
               THEN task[t].rights \cup AllRights ELSE task[t].rights
    IN
    /\ At(t, "admin", "target")
    /\ IF \/ r.left
          \/ TooManyAdmins(t)
          \/ ~task[t].boss /\ ~(new \subseteq task[t].own)
          \/ r.admin = new
       THEN Refused(t)
       ELSE /\ Moves(t, [task[t] EXCEPT !.step = "write", !.rights = new,
                                         !.flag = (r.admin # {} \/ task[t].rights = {})])
            /\ UNCHANGED <<row, channel, admins, invite, request>>

WriteAdmin(t) ==
    /\ At(t, "admin", "write")
    /\ row' = [row EXCEPT ![task[t].target].admin = task[t].rights]
    /\ strays' = IF task[t].flag /\ row[task[t].target].admin = {}
                 THEN strays + 1 ELSE strays
    /\ Goto(t, "sync")
    /\ UNCHANGED <<channel, adminsCount, stale, invite, request>>

\* Mutant: the count is not brought up to date.
Unsynced == UNCHANGED <<adminsCount, stale>>

\* sync_admins_count: the rows with rights, those that have left included.
\* To be used after row' is known.
SyncAdminsCount ==
    /\ adminsCount' = Cardinality({u \in Users : row'[u].admin # {}})
    /\ stale' = FALSE

SyncAdmins(t) ==
    /\ At(t, "admin", "sync")
    /\ Ends(t)
    /\ UNCHANGED <<row, channel, strays, invite, request>>
    /\ SyncAdminsCount

\* edit_creator; the password check only refuses.
EditCreator(t, u, v) ==
    /\ u # v
    /\ ~deleted
    /\ u = creator /\ Member(u)
    /\ Begins(t, [IdleTask EXCEPT !.op = "transfer", !.step = "target",
                     !.who = u, !.target = v])
    /\ UNCHANGED <<row, channel, admins, invite, request>>

ReadNewCreator(t) ==
    /\ At(t, "transfer", "target")
    /\ IF Member(task[t].target)
       THEN /\ Goto(t, "write")
            /\ UNCHANGED <<row, channel, admins, invite, request>>
       ELSE Refused(t)

\* One transaction: creator, both participants, the count.
WriteCreator(t) ==
    LET u == task[t].who
        v == task[t].target IN
    /\ At(t, "transfer", "write")
    /\ creator' = v
    /\ row' = [row EXCEPT ![u].admin = {}, ![v].admin = AllRights]
    /\ strays' = IF row[u].admin = {} THEN strays + 1 ELSE strays
    /\ Ends(t)
    /\ UNCHANGED <<deleted, public, joinRequest, invite, request>>
    /\ SyncAdminsCount

-----------------------------------------------------------------------------
(* Joining and leaving *)

\* invite_to_channel, for one user; that the channel is deleted is not checked.
\* Privacy rules and the limit of channels per user only refuse.
InviteToChannel(t, u, v) ==
    /\ u # v
    /\ UserMayInvite(u) \/ AdminHasPermission(u, "invite_users")
    /\ Begins(t, [IdleTask EXCEPT !.op = "add", !.step = "target", !.target = v])
    /\ UNCHANGED <<row, channel, admins, invite, request>>

ReadInvitee(t) ==
    LET v == task[t].target IN
    /\ At(t, "add", "target")
    /\ IF Member(v) \/ Cardinality(Members) >= MemberLimit
       THEN Refused(t)
       ELSE /\ Moves(t, [task[t] EXCEPT !.step = "write", !.seen = row[v]])
            /\ UNCHANGED <<row, channel, admins, invite, request>>

\* A row that appeared since it was read is left alone (ignore_conflicts).
WriteInvitee(t) ==
    LET v == task[t].target IN
    /\ At(t, "add", "write")
    /\ row' = [row EXCEPT ![v] =
                  IF task[t].seen.there THEN [@ EXCEPT !.left = FALSE]
                  ELSE IF @.there THEN @ ELSE NewMember]
    /\ request' = Without(v)
    /\ Ends(t)
    /\ UNCHANGED <<channel, admins, invite>>

\* join_channel of a channel that is no discussion group; join_request is not
\* looked at.
JoinChannel(t, u) ==
    /\ ~deleted /\ public
    /\ ~Member(u) /\ "view_messages" \notin row[u].banned
    /\ Begins(t, [IdleTask EXCEPT !.op = "join", !.step = "limit", !.target = u])
    /\ UNCHANGED <<row, channel, admins, invite, request>>

\* import_chat_invite: the link and its channel are read first.  Links with
\* an expiry date are as links that are revoked.
ImportInvite(t, u, i) ==
    /\ invite[i].state = "live"
    /\ Begins(t, [IdleTask EXCEPT !.op = "import", !.step = "target", !.target = u,
                     !.inv = i,
                     !.flag = (invite[i].ask \/ joinRequest)])
    /\ UNCHANGED <<row, channel, admins, invite, request>>

ReadImporter(t) ==
    LET u == task[t].target IN
    /\ At(t, "import", "target")
    /\ IF Member(u) \/ "view_messages" \in row[u].banned
       THEN Refused(t)
       ELSE /\ Goto(t, IF task[t].flag THEN "create" ELSE "limit")
            /\ UNCHANGED <<row, channel, admins, invite, request>>

\* One request for each user; on a link deleted meanwhile it cannot be stored.
CreateRequest(t) ==
    LET u == task[t].target
        i == task[t].inv IN
    /\ At(t, "import", "create")
    /\ request' = IF Without(u) # request \/ invite[i].state = "deleted"
                  THEN request ELSE request \cup {<<u, i>>}
    /\ Ends(t)
    /\ UNCHANGED <<row, channel, admins, invite>>

\* Mutant: the limit is not looked at.
AnyNumberOfMembers == TRUE

\* One more than invite_to_channel allows.
RoomForMember == Cardinality(Members) <= MemberLimit

CountMembers(t) ==
    /\ task[t].op \in {"join", "import"} /\ task[t].step = "limit"
    /\ IF RoomForMember
       THEN /\ Goto(t, "write")
            /\ UNCHANGED <<row, channel, admins, invite, request>>
       ELSE Refused(t)

\* Mutant: the user's requests remain.
KeepRequests(u) == request

\* delete_for_channel in the transaction that admits the user.
RequestsAfterJoin(u) == Without(u)

\* update_or_create: bans and admin rights stay.  The row cannot refer to a
\* link that is gone.
WriteJoin(t) ==
    LET u == task[t].target IN
    /\ task[t].op \in {"join", "import"} /\ task[t].step = "write"
    /\ IF task[t].op = "import" /\ invite[task[t].inv].state = "deleted"
       THEN Refused(t)
       ELSE /\ row' = [row EXCEPT ![u].there = TRUE, ![u].left = FALSE]
            /\ request' = RequestsAfterJoin(u)
            /\ Ends(t)
            /\ UNCHANGED <<channel, admins, invite>>

\* Mutant: the creator may leave as well.
MayLeave(u) == Member(u)

CanLeave(u) == Member(u) /\ u # creator

\* leave_channel; the rights of an admin stay in the row.
LeaveChannel(t, u) ==
    /\ ~deleted
    /\ CanLeave(u)
    /\ Begins(t, [IdleTask EXCEPT !.op = "leave", !.step = "write", !.target = u])
    /\ UNCHANGED <<row, channel, admins, invite, request>>

WriteLeave(t) ==
    LET u == task[t].target IN
    /\ At(t, "leave", "write")
    /\ row' = [row EXCEPT ![u].left = TRUE]
    /\ invite' = [i \in InviteIds |->
                     IF invite[i].owner = u /\ invite[i].state = "live"
                     THEN [invite[i] EXCEPT !.state = "revoked"] ELSE invite[i]]
    /\ Ends(t)
    /\ UNCHANGED <<channel, admins, request>>

-----------------------------------------------------------------------------
(* Join requests *)

\* hide_chat_join_request, approved or not.  hide_all_chat_join_requests
\* cannot approve: it does not load the users that it then looks at.
HideJoinRequest(t, u, v, op) ==
    /\ u # v
    /\ ~deleted
    /\ AdminHasPermission(u, "invite_users")
    /\ Begins(t, [IdleTask EXCEPT !.op = op, !.step = "target", !.target = v])
    /\ UNCHANGED <<row, channel, admins, invite, request>>

\* The limit counts the rows of those who have left, too.
ReadRequest(t) ==
    LET v == task[t].target
        full == Cardinality({u \in Users : row[u].there}) + 1 > MemberLimit IN
    /\ task[t].op \in {"approve", "dismiss"} /\ task[t].step = "target"
    /\ \/ /\ Without(v) = request \/ (task[t].op = "approve" /\ full)
          /\ Refused(t)
       \/ /\ task[t].op = "dismiss" /\ Without(v) # request
          /\ Goto(t, "drop")
          /\ UNCHANGED <<row, channel, admins, invite, request>>
       \/ /\ task[t].op = "approve" /\ ~full
          /\ \E q \in request \ Without(v) :
                Moves(t, [task[t] EXCEPT !.step = "write", !.inv = q[2]])
          /\ UNCHANGED <<row, channel, admins, invite, request>>

\* A user with a row, one who has left, is not admitted (ignore_conflicts).
WriteApproved(t) ==
    LET v == task[t].target IN
    /\ At(t, "approve", "write")
    /\ IF invite[task[t].inv].state = "deleted" /\ ~row[v].there
       THEN Refused(t)
       ELSE /\ row' = [row EXCEPT ![v] = IF @.there THEN @ ELSE NewMember]
            /\ Goto(t, "drop")
            /\ UNCHANGED <<channel, admins, invite, request>>

\* hide_all_chat_join_requests, dismissing: all, or those on one link.
HideAllRequests(u, links) ==
    LET gone == {q \in request : q[2] \in links} IN
    /\ Immediate
    /\ ~deleted
    /\ AdminHasPermission(u, "invite_users")
    /\ gone # {}
    /\ request' = request \ gone
    /\ UNCHANGED <<row, channel, admins, invite>>

-----------------------------------------------------------------------------
(* Invite links *)

NewInvite(u, ask) ==
    \E i \in InviteIds :
        /\ invite[i].state = "none"
        /\ \A j \in 1 .. i - 1 : invite[j].state # "none"
        /\ invite' = [j \in InviteIds |->
                         IF j = i THEN Link(u, ask) ELSE invite[j]]

\* export_chat_invite
ExportInvite(u, ask) ==
    /\ Immediate
    /\ ~deleted
    /\ AdminHasPermission(u, "invite_users")
    /\ NewInvite(u, ask)
    /\ UNCHANGED <<row, channel, admins, request>>

\* get_or_create_permanent, called by get_full_channel.
GetOrCreatePermanent(u) ==
    /\ Immediate
    /\ ~deleted
    /\ AdminHasPermission(u, "invite_users")
    /\ \A i \in InviteIds : ~(invite[i].owner = u /\ invite[i].state = "live")
    /\ NewInvite(u, FALSE)
    /\ UNCHANGED <<row, channel, admins, request>>

\* edit_exported_chat_invite with revoked; export_chat_invite with
\* legacy_revoke_permanent is this step for the sender's links, then
\* ExportInvite.
RevokeInvite(u, i) ==
    /\ Immediate
    /\ ~deleted
    /\ AdminHasPermission(u, "invite_users")
    /\ invite[i].state = "live"
    /\ invite' = [invite EXCEPT ![i].state = "revoked"]
    /\ UNCHANGED <<row, channel, admins, request>>

\* delete_exported_chat_invite, and delete_revoked_exported_chat_invites for
\* the revoked links of one or all admins; the requests go with the links.
DeleteInvites(u, links) ==
    /\ links # {}
    /\ Immediate
    /\ ~deleted
    /\ AdminHasPermission(u, "invite_users")
    /\ \A i \in links : invite[i].state \in {"live", "revoked"}
    /\ Cardinality(links) > 1 => \A i \in links : invite[i].state = "revoked"
    /\ invite' = [i \in InviteIds |->
                     IF i \in links THEN [invite[i] EXCEPT !.state = "deleted"]
                                    ELSE invite[i]]
    /\ request' = {q \in request : q[2] \notin links}
    /\ UNCHANGED <<row, channel, admins>>

-----------------------------------------------------------------------------
(* The channel *)

\* update_username: the channel gets a username, or loses it.
UpdateUsername(u) ==
    /\ Immediate
    /\ ~deleted
    /\ AdminHasPermission(u, "change_info")
    /\ public' = ~public
    /\ UNCHANGED <<row, creator, deleted, joinRequest, admins, invite, request>>

ToggleJoinRequest(u) ==
    /\ Immediate
    /\ ~deleted
    /\ AdminHasPermission(u, "change_info")
    /\ joinRequest' = ~joinRequest
    /\ UNCHANGED <<row, creator, deleted, public, admins, invite, request>>

\* delete_channel: participants, links and requests stay.
DeleteChannel(u) ==
    /\ Immediate
    /\ ~deleted
    /\ u = creator
    /\ deleted' = TRUE
    /\ UNCHANGED <<row, creator, public, joinRequest, admins, invite, request>>

-----------------------------------------------------------------------------
Request(t) ==
    /\ begun < MaxRequests
    /\ task[t].step = "idle"
    /\ \E u \in Users :
        \/ \E v \in Users :
              \/ \E b \in Bans : EditBanned(t, u, v, b)
              \/ \E g \in Grants : EditAdmin(t, u, v, g)
              \/ EditCreator(t, u, v)
              \/ InviteToChannel(t, u, v)
              \/ \E op \in {"approve", "dismiss"} : HideJoinRequest(t, u, v, op)
        \/ JoinChannel(t, u)
        \/ \E i \in InviteIds : ImportInvite(t, u, i)
        \/ LeaveChannel(t, u)

Continue(t) ==
    \/ ReadBanned(t) \/ WriteBanned(t) \/ DropRequests(t)
    \/ ReadAdmin(t) \/ WriteAdmin(t) \/ SyncAdmins(t)
    \/ ReadNewCreator(t) \/ WriteCreator(t)
    \/ ReadInvitee(t) \/ WriteInvitee(t)
    \/ ReadImporter(t) \/ CreateRequest(t) \/ CountMembers(t) \/ WriteJoin(t)
    \/ WriteLeave(t)
    \/ ReadRequest(t) \/ WriteApproved(t)
    \/ Fails(t)

AtOnce ==
    /\ begun < MaxRequests
    /\ \E u \in Users :
        \/ \E links \in SUBSET InviteIds : HideAllRequests(u, links) \/ DeleteInvites(u, links)
        \/ \E ask \in BOOLEAN : ExportInvite(u, ask)
        \/ GetOrCreatePermanent(u)
        \/ \E i \in InviteIds : RevokeInvite(u, i)
        \/ UpdateUsername(u) \/ ToggleJoinRequest(u) \/ DeleteChannel(u)

Next ==
    /\ UNCHANGED app
    /\ \/ \E t \in Tasks : Request(t) \/ Continue(t)
       \/ AtOnce

Spec == Init /\ [][Next]_vars

-----------------------------------------------------------------------------
(* Properties *)

\* Channel.admins_count, against which edit_admin holds the limit, is the
\* number of participants with rights whenever no edit_admin is between its
\* save and its sync_admins_count and none has failed there.
AdminsCountSettled ==
    (\A t \in Tasks : task[t].step # "sync") /\ ~stale
        => adminsCount = Cardinality(Admins)

\* Although edit_admin compares the limit with a count read earlier, each
\* request in progress can exceed channel_admin_limit by one at most, whatever
\* comes before; strays counts the admins gained outside of that check.
AdminsBounded ==
    Cardinality(Admins) <= AdminLimit + Cardinality(Tasks) - 1 + strays

\* The ways in look at super_group_member_limit long before they write:
\* join_channel and import_chat_invite (one above it), invite_to_channel,
\* approvals, and bans that write a stale "left".  All of them together exceed
\* it by no more than the number of users who were entering at the same time.
MembersBounded == Cardinality(Members \cup Entering) <= MemberLimit + crowd

\* Both limits of a supergroup are exceeded by what overlaps only.
LimitsBounded == AdminsBounded /\ MembersBounded

\* Bans, leaving, edits of rights and transfers never leave the channel with a
\* creator who is no member or has lost rights, unless requests about the
\* creator overlapped.
CreatorSafe ==
    creator \notin disturbed => Member(creator) /\ row[creator].admin = AllRights

\* Only a request to enter (join_channel, import_chat_invite,
\* invite_to_channel, an approval) makes a member of a user who was none; an
\* edit_banned does not, unless it overlapped another request about the user.
OnlyEntryStep ==
    \A u \in Users :
        ~Member(u) /\ Member(u)' =>
            \/ u \in disturbed
            \/ \E t \in Tasks : /\ task[t].target = u /\ task[t].step = "write"
                                /\ task[t].op \in {"join", "import", "add", "approve"}

\* Whoever waits for admission is neither a member nor banned from viewing:
\* every way in and every ban disposes of the user's join requests, whichever
\* link they were made on.
RequestersAreOutside ==
    \A q \in request :
        \/ q[1] \in disturbed
        \/ ~Member(q[1]) /\ "view_messages" \notin row[q[1]].banned
        \/ \E t \in Tasks : task[t].target = q[1] /\ task[t].step = "drop"

-----------------------------------------------------------------------------
(* Why it holds: an invariant that every step preserves *)

\* What a request has from where it began and what it has read so far.  A row
\* that it found is there still, for rows are not deleted.
Consistent(t) ==
    LET r == task[t]
        v == row[r.target] IN
    /\ r.op = "idle" <=> r.step = "idle"
    /\ r.op # "idle" => r.target \in Users
    /\ r.op = "ban" => r.rights \subseteq BannedRights
    /\ r.op = "admin" =>
          /\ r.rights \subseteq AllRights
          /\ r.step = "write" => v.there /\ (~r.flag => r.count < AdminLimit)
    /\ r.op = "transfer" =>
          /\ r.who \in Users /\ r.who # r.target /\ row[r.who].there
          /\ r.step = "write" => v.there
    /\ r.op = "import" => r.inv \in InviteIds
    /\ r.op = "leave" => v.there
    /\ r.seen.there => r.op # "idle" /\ v.there

\* A request that is the only one about its user finds the row as it has read
\* it; and if it is about the creator, it is one that a creator is safe from.
Undisturbed(t) ==
    LET r == task[t]
        v == row[r.target] IN
    (r.op # "idle" /\ r.target \notin disturbed) =>
        /\ (r.op = "ban" /\ r.step = "write") => r.seen.left = v.left
        /\ (r.op = "import" /\ r.step = "create") => v.left /\ "view_messages" \notin v.banned
        /\ (r.op = "transfer" /\ r.step = "write") => ~v.left
        /\ r.target = creator =>
              /\ r.op # "leave"
              /\ r.op = "ban" => r.step = "target" /\ ~r.boss
              /\ r.op = "admin" =>
                    r.boss /\ r.who = r.target /\ (r.step = "write" => r.rights = AllRights)

\* Two requests about one user have disturbed each other.
Apart ==
    \A s, t \in Busy :
        \A u \in Subjects(task[s]) \cap Subjects(task[t]) : u \in disturbed \/ s = t

\* The count lags behind by those who have saved an admin and not counted yet,
\* or never will.
Syncing == {t \in Tasks : task[t].step = "sync"}
CountLags == Cardinality(Admins) <= adminsCount + Cardinality(Syncing) + strays

\* Requests that may still make an admin, for they have looked at a count below
\* the limit: all together are as many as fit.
MayGain ==
    {t \in Tasks :
        /\ task[t].op = "admin" /\ task[t].count < AdminLimit
        /\ task[t].step = "target" \/ (task[t].step = "write" /\ ~task[t].flag)}
GainsBounded ==
    Cardinality(Admins) + Cardinality(MayGain) <= AdminLimit + Cardinality(Tasks) - 1 + strays

MembersInv ==
    /\ TypeOK /\ app \in Apps
    /\ \A t \in Tasks : Consistent(t) /\ Undisturbed(t)
    /\ Apart
    /\ CountLags /\ GainsBounded /\ AdminsCountSettled /\ MembersBounded
    /\ CreatorSafe /\ RequestersAreOutside
=============================================================================
