---------------------------- MODULE SessionAuth ----------------------------
(***************************************************************************)
(* Who a session acts for.  The authorizations of auth keys in the         *)
(* database, the copy of them that a gateway session keeps, the broker's   *)
(* maps that deliver updates to sessions, and the requests that change     *)
(* them (session/session.py, session/session_manager.py,                   *)
(* message_brokers/base_broker.py, gateway/client.py, worker.py,           *)
(* app/handlers/auth.py, app/handlers/account.py).                         *)
(*                                                                         *)
(* A task is a coroutine of the gateway: a receive loop that handles one   *)
(* request, from refresh_auth_maybe to the forced refresh after the        *)
(* answer, or the broker's listener that registers a session for internal  *)
(* pushes.  Reading a row and going on with it are different steps: other  *)
(* tasks run while the answer of the database is on its way.               *)
(***************************************************************************)
EXTENDS Integers, FiniteSets

CONSTANTS
    Sessions,
    Tasks,
    Users,
    Protected,   \* the users who have a password at first
    Channels,
    Keys,        \* permanent auth keys; one that no session uses is another
                 \* device
    KeyOf,       \* session -> the permanent key it uses, itself or once bound
    NoUser, NoSession,
    MaxOps       \* bound: requests that change authorizations, keys, passwords or
                 \* members, requests cancelled, sessions finalized, keys that go

ASSUME AuthAssumption ==
    /\ IsFiniteSet(Keys) /\ Protected \subseteq Users
    /\ KeyOf \in [Sessions -> Keys]
    /\ NoUser \notin Users /\ NoSession \notin Sessions
    /\ MaxOps \in Nat

VARIABLES
    auths,     \* key -> its UserAuthorization, or NoAuth
    nextAuth,  \* the next id of a UserAuthorization
    protected, \* the users who have a password
    key,       \* session -> its auth key in the database: "perm", or for a
               \* temporary key "free", "bound" or "gone"
    member,    \* pairs of a user and a channel: ChatParticipant, not left
    cache,     \* user -> what is under channels:{user_id}: one list of channels, or
               \* none
    ses,       \* session -> the Session object
    sub,       \* the maps of the broker
    news,      \* ChannelSubscribe messages on their way or being handled
    task,      \* task -> what it is doing
    ops,       \* requests so far, for the bounds
    cleared,   \* history: authorizations that needed no password, or whose
               \* password was checked
    lapsed,    \* history: session -> the ids that were gone when its
               \* authorization was last looked up
    extra,     \* history: session -> channels that came as a message
    raced      \* history: sessions with a refresh that was cancelled, came
               \* after finalize, or applied an answer while another had been
               \* applied since it began

vars == <<auths, nextAuth, protected, key, member, cache, ses, sub, news, task, ops,
          cleared, lapsed, extra, raced>>
database == <<auths, nextAuth, protected, key, member, ops, cleared>>

Others == Keys \ {KeyOf[s] : s \in Sessions}
Ids == 1 .. Cardinality(Keys) + MaxOps
NoAuth == [id |-> 0, user |-> NoUser, mfa |-> FALSE]
NewRow(a, u, mfa) == [id |-> a, user |-> u, mfa |-> mfa]
Rows == [id : Ids, user : Users, mfa : BOOLEAN] \cup {NoAuth}
Exists(a) == \E k \in Keys : auths[k].id = a
Deleted == {a \in 1 .. nextAuth - 1 : ~Exists(a)}

\* stored: it is in SessionManager.sessions.
\* perm: auth_data has the permanent key; data: there is auth_data at all.
\* loaded: channels_loaded_at is set.
NewSession(p) ==
    [stored |-> FALSE, data |-> TRUE, perm |-> p, user |-> NoUser,
     auth |-> 0, mfa |-> FALSE, chans |-> {}, loaded |-> FALSE]
SessionStates ==
    [stored : BOOLEAN, data : BOOLEAN, perm : BOOLEAN,
     user : Users \cup {NoUser}, auth : Ids \cup {0}, mfa : BOOLEAN,
     chans : SUBSET Channels, loaded : BOOLEAN]

\* call stands for every handler with a user that none of the others is.
UserOps == {"call"}                     \* with DONT_FETCH_USER or without
LoginOps == {"sign_in", "sign_up"}
Requests == UserOps \cup LoginOps \cup {"password", "log_out", "bind"}
RefreshSteps == {"begin", "apply", "clist", "cset", "capply"}

\* got is the row, list the channels a query returned; auth, user and mfa are
\* the fields of CallRpc; gone: lapsed when the refresh began.
IdleTask == [step |-> "idle", s |-> NoSession, op |-> "none", arg |-> NoUser,
             force |-> FALSE, perm |-> FALSE, oldUser |-> NoUser, oldAuth |-> 0,
             got |-> NoAuth, list |-> {}, auth |-> 0, user |-> NoUser,
             mfa |-> FALSE, pw |-> FALSE, alone |-> FALSE, gone |-> {}]
TaskStates ==
    [step : RefreshSteps \cup {"idle", "kick", "run", "exec"},
     s : Sessions \cup {NoSession}, op : Requests \cup {"register", "none"},
     arg : Users \cup {NoUser}, force : BOOLEAN,
     perm : BOOLEAN, oldUser : Users \cup {NoUser}, oldAuth : Ids \cup {0}, got : Rows,
     list : SUBSET Channels, auth : Ids \cup {0},
     user : Users \cup {NoUser}, mfa : BOOLEAN, pw : BOOLEAN, alone : BOOLEAN,
     gone : SUBSET Ids]

News == [user : Users, channel : Channels, read : BOOLEAN, all : SUBSET Sessions]
Announced(u, c) == [user |-> u, channel |-> c, read |-> FALSE, all |-> {}]

TypeOK ==
    /\ auths \in [Keys -> Rows]
    /\ nextAuth - 1 \in Ids
    /\ protected \subseteq Users
    /\ key \in [Sessions -> {"perm", "free", "bound", "gone"}]
    /\ member \subseteq Users \X Channels
    /\ cache \in [Users -> SUBSET SUBSET Channels]
    /\ ses \in [Sessions -> SessionStates]
    /\ sub \in [user : SUBSET (Users \X Sessions), auth : SUBSET (Ids \X Sessions),
                chan : SUBSET (Channels \X Sessions)]
    /\ news \subseteq News
    /\ task \in [Tasks -> TaskStates]
    /\ ops \in 0 .. MaxOps
    /\ cleared \subseteq Ids
    /\ lapsed \in [Sessions -> SUBSET Ids]
    /\ extra \in [Sessions -> SUBSET Channels]
    /\ raced \subseteq Sessions

FirstIds == CHOOSE f \in [Keys -> 1 .. Cardinality(Keys)] :
                \A j, k \in Keys : f[j] = f[k] => j = k
Counts == ops < MaxOps /\ ops' = ops + 1

Init ==
    /\ nextAuth = Cardinality(Keys) + 1
    /\ \E u \in Users, out \in SUBSET (Keys \ Others) :
          auths = [k \in Keys |-> IF k \in out THEN NoAuth
                                  ELSE NewRow(FirstIds[k], u, FALSE)]
    /\ protected = Protected
    /\ key \in [Sessions -> {"perm", "free"}]
    /\ member = {} /\ cache = [u \in Users |-> {}]
    /\ ses = [s \in Sessions |-> NewSession(key[s] = "perm")]
    /\ sub = [user |-> {}, auth |-> {}, chan |-> {}]
    /\ news = {}
    /\ task = [t \in Tasks |-> IdleTask]
    /\ ops = 0
    /\ cleared = 1 .. Cardinality(Keys) /\ lapsed = [s \in Sessions |-> {}]
    /\ extra = [s \in Sessions |-> {}] /\ raced = {}

-----------------------------------------------------------------------------
(* The broker *)

\* An entry, unless the id is None.
Pair(x, none, s) == IF x = none THEN {} ELSE {<<x, s>>}

\* subscribe: what the session has is added; nothing else is taken away.
Subscribe(m, s, S) ==
    [m EXCEPT !.user = @ \cup Pair(S.user, NoUser, s),
              !.auth = @ \cup Pair(S.auth, 0, s),
              !.chan = @ \cup (S.chans \X {s})]

\* unsubscribe, and the same three calls in _reset_auth.
Unsubscribe(m, s, S) ==
    [m EXCEPT !.user = @ \ {<<S.user, s>>}, !.auth = @ \ {<<S.auth, s>>},
              !.chan = @ \ (S.chans \X {s})]

\* channels_diff_update
ChannelsDiffUpdate(m, s, del, add) ==
    [m EXCEPT !.chan = (@ \ (del \X {s})) \cup (add \X {s})]

-----------------------------------------------------------------------------
(* refresh_auth_maybe *)

Refreshing(s) == {t \in Tasks : task[t].s = s /\ task[t].step \in RefreshSteps}

\* _reset_auth, together with Unsubscribe.
ResetSession(S) == [S EXCEPT !.user = NoUser, !.auth = 0, !.mfa = FALSE, !.chans = {}]

\* Mutant: the old entries are kept.
ResubscribedTwice(m, s, S, r) ==
    [m EXCEPT !.user = @ \cup Pair(S.user, NoUser, s),
              !.auth = @ \cup Pair(S.auth, 0, s)]

\* The last lines: the maps follow the user and the authorization if they are
\* not the ones this refresh began with.
Resubscribed(m, s, S, r) ==
    [m EXCEPT !.user = IF r.oldUser = S.user THEN @
                       ELSE (@ \ {<<r.oldUser, s>>}) \cup Pair(S.user, NoUser, s),
              !.auth = IF r.oldAuth = S.auth THEN @
                       ELSE (@ \ {<<r.oldAuth, s>>}) \cup Pair(S.auth, 0, s)]

\* After a refresh: the request is handed to the workers, or it was answered;
\* the listener subscribes the session again.
Asks(s, op, u) == [IdleTask EXCEPT !.s = s, !.op = op, !.arg = u]
AfterRefresh(r) ==
    IF r.force THEN IdleTask
    ELSE [Asks(r.s, r.op, r.arg) EXCEPT !.step = "kick", !.gone = r.gone]
MapsAfter(m, s, S, r) == IF r.op = "register" THEN Subscribe(m, s, S) ELSE m

\* A task's step: the session is S now, and the refresh goes on with r or ends.
Continues(t, S, r) ==
    /\ ses' = [ses EXCEPT ![r.s] = S]
    /\ task' = [task EXCEPT ![t] = r]
    /\ UNCHANGED sub
RefreshEnds(t, S, m, r) ==
    /\ ses' = [ses EXCEPT ![r.s] = S]
    /\ task' = [task EXCEPT ![t] = AfterRefresh(r)]
    /\ sub' = MapsAfter(m, r.s, S, r)

\* The second half: channels are loaded the first time, and when late: more
\* than five minutes passed since.  A cached list may have expired.
LoadsChannels(S, late) == S.auth # 0 /\ ~S.mfa /\ (~S.loaded \/ late)
ChannelsOrEnd(t, S, r) ==
    LET Loading == [S EXCEPT !.loaded = TRUE] IN
    \E late \in BOOLEAN :
      \/ /\ LoadsChannels(S, late)
         /\ cache' = [cache EXCEPT ![S.user] = {}]
         /\ Continues(t, Loading, [r EXCEPT !.step = "clist"])
      \/ /\ LoadsChannels(S, late)
         /\ \E list \in cache[S.user] :
               Continues(t, Loading, [r EXCEPT !.step = "capply", !.list = list])
         /\ UNCHANGED cache
      \/ /\ ~LoadsChannels(S, late)
         /\ RefreshEnds(t, S, Resubscribed(sub, r.s, S, r), r)
         /\ UNCHANGED cache

\* A forced refresh reads the key (AuthKey.get_auth_data).  One that is gone
\* leaves the session without auth_data, and the next line raises an
\* AttributeError.
RefreshWithoutData(t) ==
    LET r == task[t] IN
    /\ r.step = "begin" /\ key[r.s] = "gone"
    /\ ses' = [ses EXCEPT ![r.s].data = FALSE]
    /\ task' = [task EXCEPT ![t] = IdleTask]
    /\ UNCHANGED <<database, cache, sub, news, lapsed, extra, raced>>

\* The session as the refresh begins with it: forced, with the key just read.
WithKey(r) ==
    IF r.force THEN [ses[r.s] EXCEPT !.perm = key[r.s] \in {"perm", "bound"}] ELSE ses[r.s]
RefreshWithoutPerm(t, r) ==
    LET S == WithKey(r) IN
    /\ ~S.perm
    /\ RefreshEnds(t, ResetSession(S), Unsubscribe(sub, r.s, S), r)
    /\ UNCHANGED <<cache, lapsed>>

\* Mutant: a session that has an authorization keeps it.
NeverLate(S, r, late) == r.force \/ S.auth = 0

\* late: more than 60 s passed since the authorization was looked up.
NeedsAuth(S, r, late) == late \/ r.force \/ S.auth = 0
\* history: what a request may not rely on: after 60 s, a row that is gone; before,
\* one that was gone when it was looked up, if no other refresh is between its
\* look-up and the answer.
GoneFor(t, s, late) ==
    CASE s \in raced -> {}
      [] s \notin raced /\ late -> Deleted
      [] OTHER -> IF Refreshing(s) \subseteq {t} THEN lapsed[s] ELSE {}
Begun(t, r, late) ==
    LET S == WithKey(r) IN
    [r EXCEPT !.oldUser = S.user, !.oldAuth = S.auth, !.gone = GoneFor(t, r.s, late)]
RefreshLooksUp(t, r, late) ==
    LET S == WithKey(r) IN
    /\ S.perm /\ NeedsAuth(S, r, late)
    /\ Continues(t, S, [Begun(t, r, TRUE) EXCEPT !.step = "apply",
                                                 !.got = auths[KeyOf[r.s]]])
    /\ lapsed' = [lapsed EXCEPT ![r.s] = GoneFor(t, r.s, TRUE)]
    /\ UNCHANGED cache
RefreshTrusts(t, r, late) ==
    LET S == WithKey(r) IN
    /\ S.perm /\ ~NeedsAuth(S, r, late)
    /\ ChannelsOrEnd(t, S, Begun(t, r, late))
    /\ UNCHANGED lapsed
RefreshBegins(t, r) ==
    \/ RefreshWithoutPerm(t, r)
    \/ \E late \in BOOLEAN : RefreshLooksUp(t, r, late) \/ RefreshTrusts(t, r, late)

ForcedRefresh(t) ==
    /\ task[t].step = "begin" /\ key[task[t].s] # "gone"
    /\ RefreshBegins(t, task[t])
    /\ UNCHANGED <<database, news, extra, raced>>

\* history: another refresh was applied since this one began, or began later
\* and knows that the row is gone
Raced(r) == IF \/ ses[r.s].auth # r.oldAuth \/ ses[r.s].user # r.oldUser
               \/ r.got.id \in lapsed[r.s]
            THEN raced \cup {r.s} ELSE raced

RefreshFindsNothing(t) ==
    LET r == task[t]  S == ses[r.s] IN
    /\ r.step = "apply" /\ r.got = NoAuth
    /\ RefreshEnds(t, ResetSession(S), Unsubscribe(sub, r.s, S), r)
    /\ raced' = Raced(r)
    /\ UNCHANGED <<database, cache, news, lapsed, extra>>

RefreshFindsAuth(t) ==
    LET r == task[t]
        S == [ses[r.s] EXCEPT !.user = r.got.user, !.auth = r.got.id, !.mfa = r.got.mfa]
    IN  /\ r.step = "apply" /\ r.got # NoAuth
        /\ ChannelsOrEnd(t, S, [r EXCEPT !.got = NoAuth])
        /\ raced' = Raced(r)
        /\ UNCHANGED <<database, news, lapsed, extra>>

\* Nothing was cached: the channels of the user the session has by now.
RefreshReadsMembers(t) ==
    LET r == task[t] IN
    /\ r.step = "clist"
    /\ task' = [task EXCEPT ![t].list = {c \in Channels : <<ses[r.s].user, c>> \in member},
                            ![t].step = "cset"]
    /\ UNCHANGED <<database, cache, ses, sub, news, lapsed, extra, raced>>

\* The list is stored under the user the session has by now.
RefreshWritesCache(t) ==
    LET r == task[t]  u == ses[r.s].user IN
    /\ r.step = "cset"
    /\ cache' = IF u = NoUser THEN cache ELSE [cache EXCEPT ![u] = {r.list}]
    /\ task' = [task EXCEPT ![t].step = "capply"]
    /\ UNCHANGED <<database, ses, sub, news, lapsed, extra, raced>>

RefreshAppliesChannels(t) ==
    LET r == task[t]
        S == [ses[r.s] EXCEPT !.chans = r.list]
        m == ChannelsDiffUpdate(sub, r.s, ses[r.s].chans \ r.list, r.list \ ses[r.s].chans)
    IN  /\ r.step = "capply"
        /\ RefreshEnds(t, S, Resubscribed(m, r.s, S, r), r)
        /\ extra' = [extra EXCEPT ![r.s] = @ \ r.list]
        /\ UNCHANGED <<database, cache, news, lapsed, raced>>

-----------------------------------------------------------------------------
(* Sessions *)

Rest == <<auths, nextAuth, protected, member, cache, news, cleared, lapsed>>
Untouched == <<Rest, key, ops>>

\* get_or_create, and connect by a connection.
Connect(s) ==
    /\ ses[s].data
    /\ ses[s].stored \/ ses[s] = NewSession(ses[s].perm)
    /\ LET S == [ses[s] EXCEPT !.stored = TRUE] IN
       /\ ses' = [ses EXCEPT ![s] = S]
       /\ sub' = Subscribe(sub, s, S)
    /\ UNCHANGED <<Untouched, task, extra, raced>>

\* With its connection a receive loop is cancelled at its await, or it stops
\* waiting for a result; the workers go on with the request.
Cancel(t) ==
    LET r == task[t] IN
    /\ r.step # "idle" /\ r.op # "register" /\ ~r.alone
    /\ task' = [task EXCEPT ![t] = IF r.step \in {"run", "exec"} /\ r.op \notin UserOps
                                   THEN [r EXCEPT !.alone = TRUE] ELSE IdleTask]
    /\ raced' = IF t \in Refreshing(r.s) /\ r.step # "begin" THEN raced \cup {r.s} ELSE raced
    /\ Counts
    /\ UNCHANGED <<Rest, key, ses, sub, extra>>

\* SessionManager.finalize: the clean-up timer, or destroy_session.
Finalize(s) ==
    /\ ses[s].stored
    /\ ses' = [ses EXCEPT ![s].stored = ~ses[s].data]
    /\ sub' = IF ses[s].data THEN Unsubscribe(sub, s, ses[s]) ELSE sub
    /\ raced' = IF \E t \in Tasks : task[t].s = s THEN raced \cup {s} ELSE raced
    /\ Counts
    /\ UNCHANGED <<Rest, key, task, extra>>

\* A temporary key expires, or another one is bound to its permanent key.
KeyGoes(s) ==
    /\ key[s] \in {"free", "bound"}
    /\ key' = [key EXCEPT ![s] = "gone"]
    /\ Counts
    /\ UNCHANGED <<Rest, ses, sub, task, extra, raced>>

\* _process_channels_subscribe: the sessions are collected and the cached list is
\* deleted; when that is done, the sessions are subscribed.  Their channel_ids
\* stay as they are.
ChannelSubscribeReads(n) ==
    /\ ~n.read
    /\ news' = (news \ {n}) \cup
                  {[n EXCEPT !.read = TRUE,
                             !.all = {s \in Sessions : <<n.user, s>> \in sub.user}]}
    /\ cache' = [cache EXCEPT ![n.user] = {}]
    /\ UNCHANGED <<database, ses, sub, task, lapsed, extra, raced>>
ChannelSubscribeApplies(n) ==
    /\ n.read
    /\ news' = news \ {n}
    /\ sub' = [sub EXCEPT !.chan = @ \cup ({n.channel} \X n.all)]
    /\ extra' = [s \in Sessions |->
                   IF s \in n.all /\ (ses[s].stored => n.channel \notin ses[s].chans)
                   THEN extra[s] \cup {n.channel} ELSE extra[s]]
    /\ UNCHANGED <<database, cache, ses, task, lapsed, raced>>

-----------------------------------------------------------------------------
(* Requests of a session *)

\* A packet that passed the gate (_auth_gate): the key is registered.
Receive(t, s, op, u) ==
    /\ task[t] = IdleTask
    /\ ses[s] # NewSession(ses[s].perm) /\ ses[s].data
    /\ key[s] # "gone"
    /\ IF op \in UserOps THEN UNCHANGED ops ELSE Counts
    /\ RefreshBegins(t, Asks(s, op, u))
    /\ raced' = IF ses[s].stored THEN raced ELSE raced \cup {s}
    /\ UNCHANGED <<auths, nextAuth, protected, key, member, news, cleared, extra>>

\* The gate of _process_request, and _kiq with what the session has by then.
Kick(t) ==
    LET r == task[t]  S == ses[r.s] IN
    /\ r.step = "kick" /\ key[r.s] # "gone"
    /\ task' = [task EXCEPT ![t] = [r EXCEPT !.step = "run", !.perm = S.perm, !.auth = S.auth,
                                             !.user = S.user, !.mfa = S.mfa]]
    /\ UNCHANGED <<Untouched, ses, sub, extra, raced>>

\* _respond_auth_key_unregistered, _drop_auth_key.
Unregistered(t) ==
    LET r == task[t] IN
    /\ r.step = "kick" /\ key[r.s] = "gone"
    /\ task' = [task EXCEPT ![t] = IdleTask]
    /\ UNCHANGED <<Untouched, ses, sub, extra, raced>>

\* The worker has answered: the gateway refreshes, if the handler asks for it
\* and the gateway still waits.
Answered(r) ==
    IF r.alone \/ r.op \in UserOps THEN IdleTask
    ELSE [Asks(r.s, r.op, r.arg) EXCEPT !.step = "begin", !.force = TRUE]
Answers(t) ==
    /\ task' = [task EXCEPT ![t] = Answered(task[t])]
    /\ UNCHANGED <<member, cache, news, ops, lapsed, ses, sub, extra, raced>>

\* Mutant: mfa_pending is not looked at.
MayRunUnchecked(r) ==
    /\ r.user # NoUser
    /\ r.op # "call" => \E k \in Keys : auths[k].id = r.auth /\ auths[k].user = r.user

\* The gate of the worker (_handle_tl_rpc, get_user): a request without
\* ALLOW_MFA_PENDING is refused while the password is pending; the row is
\* looked for unless the handler has DONT_FETCH_USER.
MayRun(r) ==
    /\ r.user # NoUser
    /\ r.mfa => r.op = "password"
    /\ r.op # "call" => \E k \in Keys : auths[k].id = r.auth /\ auths[k].user = r.user
HasUser(op) == op \in UserOps \cup {"password", "log_out"}
Refused(t) ==
    LET r == task[t] IN
    /\ r.step = "run" /\ HasUser(r.op) /\ ~MayRun(r)
    /\ task' = [task EXCEPT ![t] = IdleTask]
    /\ UNCHANGED <<Untouched, ses, sub, extra, raced>>

\* Any other handler.
Call(t) ==
    LET r == task[t] IN
    /\ r.step = "run" /\ r.op \in UserOps /\ MayRun(r)
    /\ Answers(t)
    /\ UNCHANGED <<auths, nextAuth, protected, key, cleared>>

\* sign_in looks if the user has a password, deletes the row of the key, and
\* creates one; import_bot_authorization does the same for a bot, which has no
\* password; sign_up only creates.  All need a permanent key.
SignInDeletes(t) ==
    LET r == task[t] IN
    /\ r.step = "run" /\ r.op = "sign_in"
    /\ r.perm
    /\ auths' = [auths EXCEPT ![KeyOf[r.s]] = NoAuth]
    /\ task' = [task EXCEPT ![t].step = "exec",
                            ![t].pw = r.arg \in protected]
    /\ UNCHANGED <<nextAuth, protected, key, member, cache, news, ops, cleared, lapsed,
                   ses, sub, extra, raced>>

\* pw: the user has a password; the new row waits for it.
NewAuth(u, pw) == NewRow(nextAuth, u, pw)
CreatesRow(k, u, pw) ==
    /\ auths' = [auths EXCEPT ![k] = NewAuth(u, pw)]
    /\ nextAuth' = nextAuth + 1
    /\ cleared' = IF pw THEN cleared ELSE cleared \cup {nextAuth}
SignInCreates(t) ==
    LET r == task[t] IN
    /\ r.op \in LoginOps /\ r.step = IF r.op = "sign_up" THEN "run" ELSE "exec"
    /\ r.perm
    /\ auths[KeyOf[r.s]] = NoAuth
    /\ CreatesRow(KeyOf[r.s], r.arg, r.pw)
    /\ Answers(t)
    /\ UNCHANGED <<protected, key>>

\* The key has a row again (IntegrityError), or no permanent key (DoesNotExist).
SignInFails(t) ==
    LET r == task[t] IN
    /\ r.op \in LoginOps
    /\ \/ r.step = "run" /\ ~r.perm
       \/ /\ r.step = IF r.op = "sign_up" THEN "run" ELSE "exec"
          /\ auths[KeyOf[r.s]] # NoAuth
    /\ Answers(t)
    /\ UNCHANGED <<auths, nextAuth, protected, key, cleared>>

\* check_password: a wrong password, or a row that is gone, change nothing.
CheckPassword(t, right) ==
    LET r == task[t]  k == KeyOf[r.s] IN
    /\ r.step = "run" /\ r.op = "password" /\ MayRun(r)
    /\ IF right /\ auths[k].id = r.auth /\ auths[k].mfa
       THEN /\ auths' = [auths EXCEPT ![k].mfa = FALSE]
            /\ cleared' = cleared \cup {r.auth}
       ELSE UNCHANGED <<auths, cleared>>
    /\ Answers(t)
    /\ UNCHANGED <<nextAuth, protected, key>>

LogOut(t) ==
    LET r == task[t] IN
    /\ r.step = "run" /\ r.op = "log_out" /\ MayRun(r)
    /\ auths' = [auths EXCEPT ![KeyOf[r.s]] = NoAuth]
    /\ Answers(t)
    /\ UNCHANGED <<nextAuth, protected, key, cleared>>

\* bind_temp_auth_key: the other temporary keys of the permanent key go.  A
\* request that is refused stands for export_login_token too: nothing changes, but
\* the session is refreshed.
BindTempAuthKey(t) ==
    LET r == task[t] IN
    /\ r.step = "run" /\ r.op = "bind"
    /\ IF key[r.s] = "free" /\ ~r.perm
       THEN key' = [s \in Sessions |->
                      CASE s = r.s -> "bound"
                        [] s # r.s /\ key[s] = "bound" /\ KeyOf[s] = KeyOf[r.s] -> "gone"
                        [] OTHER -> key[s]]
       ELSE UNCHANGED key
    /\ Answers(t)
    /\ UNCHANGED <<auths, nextAuth, protected, cleared>>

\* register_device: the broker's listener refreshes the session by force.
RegisterDevice(t, s) ==
    /\ task[t] = IdleTask
    /\ Counts
    /\ ses[s].stored /\ ses[s].data
    /\ task' = [task EXCEPT ![t] = [Asks(s, "register", NoUser) EXCEPT !.step = "begin",
                                                                       !.force = TRUE]]
    /\ UNCHANGED <<auths, nextAuth, protected, key, member, cache, news, cleared,
                   lapsed, ses, sub, extra, raced>>

-----------------------------------------------------------------------------
(* Other devices, whose sessions are not modelled *)

Elsewhere ==
    /\ Counts
    /\ UNCHANGED <<key, cache, ses, sub, task, lapsed, extra, raced>>
SignedIn(k) == k \in Others /\ auths[k].user # NoUser

\* accept_login_token: a signed-in device creates the row of another key.
AcceptLoginToken(k, j) ==
    /\ SignedIn(k) /\ auths[j] = NoAuth
    /\ CreatesRow(j, auths[k].user, auths[k].user \in protected)
    /\ Elsewhere
    /\ UNCHANGED <<protected, member, news>>

\* reset_authorization deletes one row, reset_authorizations all but the own.
ResetAuthorizations(k, some) ==
    /\ SignedIn(k) /\ some # {} /\ k \notin some
    /\ \A j \in some : auths[j].user = auths[k].user
    /\ auths' = [j \in Keys |-> IF j \in some THEN NoAuth ELSE auths[j]]
    /\ Elsewhere
    /\ UNCHANGED <<nextAuth, protected, member, news, cleared>>

\* _delete_account, and kick_all_user_sessions of the admin bot.
DeleteAccount(u) ==
    /\ \E j \in Keys : auths[j].user = u
    /\ auths' = [j \in Keys |-> IF auths[j].user = u THEN NoAuth ELSE auths[j]]
    /\ Elsewhere
    /\ UNCHANGED <<nextAuth, protected, member, news, cleared>>

\* update_password_settings
SetPassword(k) ==
    /\ SignedIn(k) /\ auths[k].user \notin protected
    /\ protected' = protected \cup {auths[k].user}
    /\ Elsewhere
    /\ UNCHANGED <<auths, nextAuth, member, news, cleared>>
RemovePassword(k) ==
    /\ SignedIn(k) /\ auths[k].user \in protected
    /\ protected' = protected \ {auths[k].user}
    /\ auths' = [j \in Keys |-> IF auths[j].user = auths[k].user /\ auths[j].mfa
                                THEN NoAuth ELSE auths[j]]
    /\ Elsewhere
    /\ UNCHANGED <<nextAuth, member, news, cleared>>

\* A user joins a channel, which is announced to the gateway, or leaves.
JoinChannel(u, c) ==
    /\ <<u, c>> \notin member
    /\ member' = member \cup {<<u, c>>} /\ news' = news \cup {Announced(u, c)}
    /\ Elsewhere
    /\ UNCHANGED <<auths, nextAuth, protected, cleared>>
LeaveChannel(u, c) ==
    /\ <<u, c>> \in member
    /\ member' = member \ {<<u, c>>}
    /\ Elsewhere
    /\ UNCHANGED <<auths, nextAuth, protected, news, cleared>>

-----------------------------------------------------------------------------
RefreshStep(t) ==
    \/ ForcedRefresh(t) \/ RefreshWithoutData(t)
    \/ RefreshFindsNothing(t) \/ RefreshFindsAuth(t) \/ RefreshReadsMembers(t)
    \/ RefreshWritesCache(t) \/ RefreshAppliesChannels(t)
RequestStep(t) ==
    \/ Kick(t) \/ Unregistered(t) \/ Refused(t) \/ Call(t)
    \/ SignInDeletes(t) \/ SignInCreates(t) \/ SignInFails(t)
    \/ (\E right \in BOOLEAN : CheckPassword(t, right))
    \/ LogOut(t) \/ BindTempAuthKey(t)
Arguments(op) == CASE op = "sign_in" -> Users
                   [] op = "sign_up" -> Users \ protected
                   [] OTHER -> {NoUser}
TaskStep(t) ==
    \/ RefreshStep(t) \/ RequestStep(t) \/ Cancel(t)
    \/ \E s \in Sessions : \/ RegisterDevice(t, s)
                           \/ \E op \in Requests : \E u \in Arguments(op) : Receive(t, s, op, u)
SessionStep(s) ==
    \/ Connect(s) \/ Finalize(s)
    \/ KeyGoes(s)
UserStep(u) ==
    \/ DeleteAccount(u)
    \/ \E c \in Channels : JoinChannel(u, c) \/ LeaveChannel(u, c)
NewsStep(n) == ChannelSubscribeReads(n) \/ ChannelSubscribeApplies(n)
DeviceStep(k) ==
    \/ \E j \in Keys : AcceptLoginToken(k, j)
    \/ \E some \in SUBSET Keys : ResetAuthorizations(k, some)
    \/ SetPassword(k) \/ RemovePassword(k)
Next ==
    \/ \E t \in Tasks : TaskStep(t)
    \/ \E s \in Sessions : SessionStep(s)
    \/ \E u \in Users : UserStep(u)
    \/ \E n \in news : NewsStep(n)
    \/ \E k \in Keys : DeviceStep(k)

Spec == Init /\ [][Next]_vars

-----------------------------------------------------------------------------
(* Properties *)

\* The authorizations whose updates the broker delivers to a session.
AuthsOf(s) == {a \in {p[1] : p \in sub.auth} : <<a, s>> \in sub.auth}

\* While a session is known and no refresh of it is under way, the broker
\* delivers to it exactly what its user_id and auth_id say, and no channels
\* but its channel_ids and those a message brought: refresh_auth_maybe,
\* _reset_auth, connect and finalize keep the maps and the session in step.
\* This holds unless a refresh was cancelled at an await, came after finalize,
\* or overlapped another one with a different answer (raced): then the maps
\* keep what the lost or later refresh should have removed.
SubscribedAsItself ==
    \A s \in Sessions : ses[s].stored /\ Refreshing(s) = {} /\ s \notin raced =>
        /\ {u \in Users : <<u, s>> \in sub.user} = {ses[s].user} \ {NoUser}
        /\ AuthsOf(s) = {ses[s].auth} \ {0}
        /\ ses[s].chans \subseteq {c \in Channels : <<c, s>> \in sub.chan}
        /\ {c \in Channels : <<c, s>> \in sub.chan} \subseteq ses[s].chans \cup extra[s]

\* A session that is not in SessionManager.sessions, finalized or not yet
\* connected, gets no updates of a user or an authorization, and of no channel
\* but those a ChannelSubscribe message brought, which finalize does not know.
\* Again unless a refresh was cancelled or went on after finalize.
FinalizedIsForgotten ==
    \A s \in Sessions : ~ses[s].stored /\ s \notin raced =>
        /\ \A u \in Users : <<u, s>> \notin sub.user
        /\ AuthsOf(s) = {}
        /\ {c \in Channels : <<c, s>> \in sub.chan} \subseteq extra[s]

\* The maps of the broker follow the session from connect to finalize.
SubscriptionsMatch == SubscribedAsItself /\ FinalizedIsForgotten

\* No handler without ALLOW_MFA_PENDING runs for an authorization whose user had
\* a password when it was created, before that password was checked: whatever
\* the gateway's copy of mfa_pending has missed, whichever refreshes overlap
\* or are lost, the worker's gate (get_user, _handle_tl_rpc) refuses.
NoRequestBeforePassword ==
    \A t \in Tasks : task[t].step = "run" /\ task[t].op \in UserOps /\ MayRun(task[t]) =>
        task[t].auth \in cleared

\* A request carries no authorization that was already deleted when the
\* session last looked it up, and none that was deleted when the request came
\* if 60 s had passed since: log-out and reset_authorizations, of which the
\* gateway is not told, take effect within the window.  Unless a refresh was
\* cancelled (auth_loaded_at is set before the answer) or overlapped another.
LoggedOutWithinWindow ==
    \A t \in Tasks : task[t].step = "run" /\ task[t].op \in UserOps /\ task[t].s \notin raced =>
        task[t].auth \notin task[t].gone

\* Together: what the gateway keeps of a session is what it was last told
\* (refresh_auth_maybe, finalize).
SessionIsCurrent == SubscriptionsMatch /\ LoggedOutWithinWindow
=============================================================================
