-------------------------- MODULE SessionAuthProofs --------------------------
(***************************************************************************)
(* The password gate of SessionAuth, and what the broker and the requests  *)
(* know of a session, for any number of sessions, tasks, users, channels   *)
(* and keys.                                                               *)
(***************************************************************************)
EXTENDS SessionAuth, FunctionTheorems, FiniteSetTheorems, TLAPS

\* The shapes of the records, with ids that are not bounded.
Row == [id : Nat, user : Users \cup {NoUser}, mfa : BOOLEAN]
SesShape ==
    [stored : BOOLEAN, data : BOOLEAN, perm : BOOLEAN,
     user : Users \cup {NoUser}, auth : Nat, mfa : BOOLEAN,
     chans : SUBSET Channels, loaded : BOOLEAN]
TaskShape ==
    [step : RefreshSteps \cup {"idle", "kick", "run", "exec"},
     s : Sessions \cup {NoSession}, op : Requests \cup {"register", "none"},
     arg : Users \cup {NoUser}, force : BOOLEAN,
     perm : BOOLEAN, oldUser : Users \cup {NoUser}, oldAuth : Nat, got : Row,
     list : SUBSET Channels, auth : Nat,
     user : Users \cup {NoUser}, mfa : BOOLEAN, pw : BOOLEAN, alone : BOOLEAN,
     gone : SUBSET Int]

\* Who has no password to enter is in C; an authorization has a user.
Clear(u, m, a, C) ==
    /\ a # 0 => u \in Users
    /\ u # NoUser /\ ~m => a \in C
GoodRow(x, C) == x \in Row /\ Clear(x.user, x.mfa, x.id, C)
GoodSes(S, C) == S \in SesShape /\ Clear(S.user, S.mfa, S.auth, C)
\* A task at work: it has a session and a request, and a log-in has a user.
Live(r) == /\ r.s \in Sessions /\ r.op # "none"
           /\ r.op \in LoginOps => r.arg \in Users
GoodTask(r, C) ==
    /\ r \in TaskShape
    /\ r.step # "idle" => Live(r)
    /\ GoodRow(r.got, C)
    /\ Clear(r.user, r.mfa, r.auth, C)

DbInv == /\ nextAuth \in Nat
         /\ auths \in [Keys -> Row]
         /\ \A k \in Keys : GoodRow(auths[k], cleared)
SesInv == /\ ses \in [Sessions -> SesShape]
          /\ \A s \in Sessions : GoodSes(ses[s], cleared)
TaskInv == /\ task \in [Tasks -> TaskShape]
           /\ \A t \in Tasks : GoodTask(task[t], cleared)
MemInv == /\ cache \in [Users -> SUBSET SUBSET Channels]
          /\ lapsed \in [Sessions -> SUBSET Int]
PasswordInv == DbInv /\ SesInv /\ TaskInv /\ MemInv

-----------------------------------------------------------------------------
LEMMA ClearGrows ==
    ASSUME NEW u, NEW m, NEW a, NEW C, NEW D, C \subseteq D, Clear(u, m, a, C)
    PROVE  Clear(u, m, a, D)
BY DEF Clear

LEMMA DbSame ==
    ASSUME DbInv, UNCHANGED <<auths, nextAuth>>, cleared \subseteq cleared'
    PROVE  DbInv'
BY ClearGrows DEF DbInv, GoodRow

LEMMA SesSame ==
    ASSUME SesInv, UNCHANGED ses, cleared \subseteq cleared'
    PROVE  SesInv'
BY ClearGrows DEF SesInv, GoodSes

LEMMA OneSes ==
    ASSUME SesInv, cleared \subseteq cleared', NEW s \in Sessions, NEW S,
           GoodSes(S, cleared'), ses' = [ses EXCEPT ![s] = S]
    PROVE  SesInv'
<1>1. S \in SesShape  BY DEF GoodSes
<1>2. ses' \in [Sessions -> SesShape]  BY <1>1 DEF SesInv
<1>3. ASSUME NEW z \in Sessions PROVE GoodSes(ses'[z], cleared')
  <2>1. CASE z = s  BY <2>1 DEF SesInv
  <2>2. CASE z # s  BY <2>2, ClearGrows DEF SesInv, GoodSes
  <2> QED  BY <2>1, <2>2
<1> QED  BY <1>2, <1>3 DEF SesInv

LEMMA TaskGrows ==
    ASSUME NEW r, NEW C, NEW D, C \subseteq D, GoodTask(r, C)
    PROVE  GoodTask(r, D)
BY ClearGrows DEF GoodTask, GoodRow

LEMMA TaskSame ==
    ASSUME TaskInv, UNCHANGED task, cleared \subseteq cleared'
    PROVE  TaskInv'
BY TaskGrows DEF TaskInv

LEMMA OneTask ==
    ASSUME TaskInv, cleared \subseteq cleared', NEW t \in Tasks, NEW r,
           GoodTask(r, cleared'), task' = [task EXCEPT ![t] = r]
    PROVE  TaskInv'
<1>1. r \in TaskShape  BY DEF GoodTask
<1>2. task' \in [Tasks -> TaskShape]  BY <1>1 DEF TaskInv
<1>3. ASSUME NEW z \in Tasks PROVE GoodTask(task'[z], cleared')
  <2>1. CASE z = t  BY <2>1 DEF TaskInv
  <2>2. CASE z # t  BY <2>2, TaskGrows DEF TaskInv
  <2> QED  BY <2>1, <2>2
<1> QED  BY <1>2, <1>3 DEF TaskInv

LEMMA NoAuthGood == ASSUME NEW C PROVE GoodRow(NoAuth, C)
BY DEF GoodRow, Row, Clear, NoAuth

LEMMA IdleGood == ASSUME NEW C PROVE GoodTask(IdleTask, C)
<1>1. IdleTask \in TaskShape
  BY NoAuthGood DEF IdleTask, TaskShape, GoodRow, RefreshSteps, Requests, UserOps
<1> QED  BY <1>1, NoAuthGood DEF GoodTask, IdleTask, Clear

-----------------------------------------------------------------------------
(* Edits of a session and of a task *)

LEMMA SesEdits ==
    ASSUME NEW S, NEW C, GoodSes(S, C), NEW b \in BOOLEAN, NEW X \in SUBSET Channels
    PROVE  /\ GoodSes([S EXCEPT !.stored = b], C)
           /\ GoodSes([S EXCEPT !.data = b], C)
           /\ GoodSes([S EXCEPT !.perm = b], C)
           /\ GoodSes([S EXCEPT !.loaded = b], C)
           /\ GoodSes([S EXCEPT !.chans = X], C)
BY DEF GoodSes, SesShape, Clear

LEMMA ResetGood ==
    ASSUME NEW S, NEW C, GoodSes(S, C)
    PROVE  GoodSes(ResetSession(S), C)
BY DEF GoodSes, SesShape, Clear, ResetSession

LEMMA AppliedGood ==
    ASSUME NEW S, NEW C, GoodSes(S, C), NEW x, GoodRow(x, C)
    PROVE  GoodSes([S EXCEPT !.user = x.user, !.auth = x.id, !.mfa = x.mfa], C)
BY DEF GoodSes, GoodRow, Row, SesShape, Clear

LEMMA AsksGood ==
    ASSUME NEW C, NEW s \in Sessions, NEW op \in Requests \cup {"register"},
           NEW u \in Users \cup {NoUser}, op \in LoginOps => u \in Users
    PROVE  GoodTask(Asks(s, op, u), C) /\ Live(Asks(s, op, u)) /\ Asks(s, op, u).s = s
<1>1. IdleTask \in TaskShape  BY IdleGood DEF GoodTask
<1>2. Asks(s, op, u) \in TaskShape  BY <1>1 DEF Asks, TaskShape
<1> QED  BY <1>1, <1>2, NoAuthGood DEF GoodTask, Asks, IdleTask, Clear, Live, Requests, UserOps, LoginOps

\* A task at another step of the same request.
LEMMA AlikeGood ==
    ASSUME NEW C, NEW r, GoodTask(r, C), Live(r), NEW q \in TaskShape, GoodRow(q.got, C),
           q.s = r.s, q.op = r.op, q.arg = r.arg, q.user = r.user, q.mfa = r.mfa,
           q.auth = r.auth
    PROVE  GoodTask(q, C)
<1>1. Live(q)  BY DEF Live
<1>2. Clear(q.user, q.mfa, q.auth, C)  BY DEF GoodTask
<1> QED  BY <1>1, <1>2 DEF GoodTask

LEMMA StepGood ==
    ASSUME NEW C, NEW r, GoodTask(r, C), Live(r), NEW b \in BOOLEAN,
           NEW p \in RefreshSteps \cup {"idle", "kick", "run", "exec"},
           NEW g \in SUBSET Int, NEW X \in SUBSET Channels, NEW x, GoodRow(x, C)
    PROVE  /\ GoodTask([r EXCEPT !.step = p], C)
           /\ GoodTask([r EXCEPT !.step = p, !.gone = g], C)
           /\ GoodTask([r EXCEPT !.step = p, !.force = b], C)
           /\ GoodTask([r EXCEPT !.step = p, !.list = X], C)
           /\ GoodTask([r EXCEPT !.list = X, !.step = p], C)
           /\ GoodTask([r EXCEPT !.step = p, !.pw = b], C)
           /\ GoodTask([r EXCEPT !.step = p, !.got = x], C)
           /\ GoodTask([r EXCEPT !.alone = b], C)
           /\ GoodTask([r EXCEPT !.got = x], C)
<1>0. r \in TaskShape  BY DEF GoodTask
<1>1. x \in Row  BY DEF GoodRow
<1>2. GoodTask([r EXCEPT !.step = p], C)
  <2> DEFINE q == [r EXCEPT !.step = p]
  <2>1. q \in TaskShape  BY <1>0, <1>1 DEF TaskShape
  <2>2. /\ q.s = r.s /\ q.op = r.op /\ q.arg = r.arg /\ q.user = r.user /\ q.mfa = r.mfa
        /\ q.auth = r.auth /\ q.got \in {r.got, x}
    BY <1>0, <1>1 DEF TaskShape
  <2> HIDE DEF q
  <2>3. GoodRow(q.got, C)  BY <2>2 DEF GoodTask
  <2>4. GoodTask(q, C)  BY <2>1, <2>2, <2>3, AlikeGood
  <2> QED  BY <2>4 DEF q
<1>3. GoodTask([r EXCEPT !.step = p, !.gone = g], C)
  <2> DEFINE q == [r EXCEPT !.step = p, !.gone = g]
  <2>1. q \in TaskShape  BY <1>0, <1>1 DEF TaskShape
  <2>2. /\ q.s = r.s /\ q.op = r.op /\ q.arg = r.arg /\ q.user = r.user /\ q.mfa = r.mfa
        /\ q.auth = r.auth /\ q.got \in {r.got, x}
    BY <1>0, <1>1 DEF TaskShape
  <2> HIDE DEF q
  <2>3. GoodRow(q.got, C)  BY <2>2 DEF GoodTask
  <2>4. GoodTask(q, C)  BY <2>1, <2>2, <2>3, AlikeGood
  <2> QED  BY <2>4 DEF q
<1>4. GoodTask([r EXCEPT !.step = p, !.force = b], C)
  <2> DEFINE q == [r EXCEPT !.step = p, !.force = b]
  <2>1. q \in TaskShape  BY <1>0, <1>1, ZenonT(60) DEF TaskShape
  <2>2. /\ q.s = r.s /\ q.op = r.op /\ q.arg = r.arg /\ q.user = r.user /\ q.mfa = r.mfa
        /\ q.auth = r.auth /\ q.got \in {r.got, x}
    BY <1>0, <1>1 DEF TaskShape
  <2> HIDE DEF q
  <2>3. GoodRow(q.got, C)  BY <2>2 DEF GoodTask
  <2>4. GoodTask(q, C)  BY <2>1, <2>2, <2>3, AlikeGood
  <2> QED  BY <2>4 DEF q
<1>5. GoodTask([r EXCEPT !.step = p, !.list = X], C)
  <2> DEFINE q == [r EXCEPT !.step = p, !.list = X]
  <2>1. q \in TaskShape  BY <1>0, <1>1 DEF TaskShape
  <2>2. /\ q.s = r.s /\ q.op = r.op /\ q.arg = r.arg /\ q.user = r.user /\ q.mfa = r.mfa
        /\ q.auth = r.auth /\ q.got \in {r.got, x}
    BY <1>0, <1>1 DEF TaskShape
  <2> HIDE DEF q
  <2>3. GoodRow(q.got, C)  BY <2>2 DEF GoodTask
  <2>4. GoodTask(q, C)  BY <2>1, <2>2, <2>3, AlikeGood
  <2> QED  BY <2>4 DEF q
<1>6. GoodTask([r EXCEPT !.list = X, !.step = p], C)
  <2> DEFINE q == [r EXCEPT !.list = X, !.step = p]
  <2>1. q \in TaskShape  BY <1>0, <1>1 DEF TaskShape
  <2>2. /\ q.s = r.s /\ q.op = r.op /\ q.arg = r.arg /\ q.user = r.user /\ q.mfa = r.mfa
        /\ q.auth = r.auth /\ q.got \in {r.got, x}
    BY <1>0, <1>1 DEF TaskShape
  <2> HIDE DEF q
  <2>3. GoodRow(q.got, C)  BY <2>2 DEF GoodTask
  <2>4. GoodTask(q, C)  BY <2>1, <2>2, <2>3, AlikeGood
  <2> QED  BY <2>4 DEF q
<1>7. GoodTask([r EXCEPT !.step = p, !.pw = b], C)
  <2> DEFINE q == [r EXCEPT !.step = p, !.pw = b]
  <2>1. q \in TaskShape  BY <1>0, <1>1, ZenonT(60) DEF TaskShape
  <2>2. /\ q.s = r.s /\ q.op = r.op /\ q.arg = r.arg /\ q.user = r.user /\ q.mfa = r.mfa
        /\ q.auth = r.auth /\ q.got \in {r.got, x}
    BY <1>0, <1>1 DEF TaskShape
  <2> HIDE DEF q
  <2>3. GoodRow(q.got, C)  BY <2>2 DEF GoodTask
  <2>4. GoodTask(q, C)  BY <2>1, <2>2, <2>3, AlikeGood
  <2> QED  BY <2>4 DEF q
<1>8. GoodTask([r EXCEPT !.step = p, !.got = x], C)
  <2> DEFINE q == [r EXCEPT !.step = p, !.got = x]
  <2>1. q \in TaskShape  BY <1>0, <1>1 DEF TaskShape
  <2>2. /\ q.s = r.s /\ q.op = r.op /\ q.arg = r.arg /\ q.user = r.user /\ q.mfa = r.mfa
        /\ q.auth = r.auth /\ q.got \in {r.got, x}
    BY <1>0, <1>1 DEF TaskShape
  <2> HIDE DEF q
  <2>3. GoodRow(q.got, C)  BY <2>2 DEF GoodTask
  <2>4. GoodTask(q, C)  BY <2>1, <2>2, <2>3, AlikeGood
  <2> QED  BY <2>4 DEF q
<1>9. GoodTask([r EXCEPT !.alone = b], C)
  <2> DEFINE q == [r EXCEPT !.alone = b]
  <2>1. q \in TaskShape  BY <1>0, <1>1 DEF TaskShape
  <2>2. /\ q.s = r.s /\ q.op = r.op /\ q.arg = r.arg /\ q.user = r.user /\ q.mfa = r.mfa
        /\ q.auth = r.auth /\ q.got \in {r.got, x}
    BY <1>0, <1>1 DEF TaskShape
  <2> HIDE DEF q
  <2>3. GoodRow(q.got, C)  BY <2>2 DEF GoodTask
  <2>4. GoodTask(q, C)  BY <2>1, <2>2, <2>3, AlikeGood
  <2> QED  BY <2>4 DEF q
<1>10. GoodTask([r EXCEPT !.got = x], C)
  <2> DEFINE q == [r EXCEPT !.got = x]
  <2>1. q \in TaskShape  BY <1>0, <1>1 DEF TaskShape
  <2>2. /\ q.s = r.s /\ q.op = r.op /\ q.arg = r.arg /\ q.user = r.user /\ q.mfa = r.mfa
        /\ q.auth = r.auth /\ q.got \in {r.got, x}
    BY <1>0, <1>1 DEF TaskShape
  <2> HIDE DEF q
  <2>3. GoodRow(q.got, C)  BY <2>2 DEF GoodTask
  <2>4. GoodTask(q, C)  BY <2>1, <2>2, <2>3, AlikeGood
  <2> QED  BY <2>4 DEF q
<1> QED  BY <1>2, <1>3, <1>4, <1>5, <1>6, <1>7, <1>8, <1>9, <1>10

LEMMA KickGood ==
    ASSUME NEW C, NEW r, GoodTask(r, C), Live(r), NEW S, GoodSes(S, C)
    PROVE  GoodTask([r EXCEPT !.step = "run", !.perm = S.perm, !.auth = S.auth,
                              !.user = S.user, !.mfa = S.mfa], C)
BY ZenonT(60) DEF GoodTask, TaskShape, GoodSes, SesShape, Live

LEMMA AfterRefreshGood ==
    ASSUME NEW C, NEW r, GoodTask(r, C), Live(r)
    PROVE  GoodTask(AfterRefresh(r), C)
<1>1. CASE r.force  BY <1>1, IdleGood DEF AfterRefresh
<1>2. CASE ~r.force
  <2>1. /\ r.op \in Requests \cup {"register"} /\ r.arg \in Users \cup {NoUser}
        /\ r.gone \in SUBSET Int
    BY DEF GoodTask, TaskShape, Live
  <2>2. GoodTask(Asks(r.s, r.op, r.arg), C) /\ Live(Asks(r.s, r.op, r.arg))
    BY <1>2, <2>1, AsksGood DEF Live
  <2>3. GoodTask([Asks(r.s, r.op, r.arg) EXCEPT !.step = "kick", !.gone = r.gone], C)
    BY <2>1, <2>2, StepGood, NoAuthGood
  <2> QED  BY <1>2, <2>3 DEF AfterRefresh
<1> QED  BY <1>1, <1>2

\* A task that refreshes by force: after an answer, or for a registration.
LEMMA ForceGood ==
    ASSUME NEW C, NEW s \in Sessions, NEW op \in Requests \cup {"register"},
           NEW u \in Users \cup {NoUser}, op \in LoginOps => u \in Users
    PROVE  GoodTask([Asks(s, op, u) EXCEPT !.step = "begin", !.force = TRUE], C)
<1>1. GoodTask(Asks(s, op, u), C) /\ Live(Asks(s, op, u))  BY AsksGood
<1> QED  BY <1>1, StepGood, NoAuthGood DEF RefreshSteps

-----------------------------------------------------------------------------
(* The beginning and the second half of a refresh *)

LEMMA ContinuesGood ==
    ASSUME PasswordInv, UNCHANGED cleared, NEW t \in Tasks, NEW S, GoodSes(S, cleared),
           NEW r, GoodTask(r, cleared), Live(r), Continues(t, S, r)
    PROVE  SesInv' /\ TaskInv'
<1>1. SesInv'  BY OneSes DEF PasswordInv, Continues, Live
<1>2. TaskInv'  BY OneTask DEF PasswordInv, Continues
<1> QED  BY <1>1, <1>2

LEMMA RefreshEndsGood ==
    ASSUME PasswordInv, UNCHANGED cleared, NEW t \in Tasks, NEW S, GoodSes(S, cleared),
           NEW r, GoodTask(r, cleared), Live(r), NEW m, RefreshEnds(t, S, m, r)
    PROVE  SesInv' /\ TaskInv'
<1>1. SesInv'  BY OneSes DEF PasswordInv, RefreshEnds, Live
<1>2. GoodTask(AfterRefresh(r), cleared')  BY AfterRefreshGood
<1>3. TaskInv'  BY <1>2, OneTask DEF PasswordInv, RefreshEnds
<1> QED  BY <1>1, <1>3

LEMMA ChannelsOrEndGood ==
    ASSUME PasswordInv, UNCHANGED cleared, NEW t \in Tasks, NEW S, GoodSes(S, cleared),
           NEW r, GoodTask(r, cleared), Live(r), ChannelsOrEnd(t, S, r)
    PROVE  SesInv' /\ TaskInv' /\ cache' \in [Users -> SUBSET SUBSET Channels]
<1> DEFINE L == [S EXCEPT !.loaded = TRUE]
<1>1. GoodSes(L, cleared)  BY SesEdits
<1>2. PICK late \in BOOLEAN :
      \/ /\ LoadsChannels(S, late)
         /\ cache' = [cache EXCEPT ![S.user] = {}]
         /\ Continues(t, L, [r EXCEPT !.step = "clist"])
      \/ /\ LoadsChannels(S, late)
         /\ \E list \in cache[S.user] :
               Continues(t, L, [r EXCEPT !.step = "capply", !.list = list])
         /\ UNCHANGED cache
      \/ /\ ~LoadsChannels(S, late)
         /\ RefreshEnds(t, S, Resubscribed(sub, r.s, S, r), r)
         /\ UNCHANGED cache
  BY DEF ChannelsOrEnd
<1> HIDE DEF L
<1>3. CASE /\ cache' = [cache EXCEPT ![S.user] = {}]
           /\ Continues(t, L, [r EXCEPT !.step = "clist"])
  <2>1. GoodTask([r EXCEPT !.step = "clist"], cleared)
    BY StepGood, NoAuthGood DEF RefreshSteps
  <2>2. Live([r EXCEPT !.step = "clist"])  BY DEF Live, GoodTask, TaskShape
  <2>3. SesInv' /\ TaskInv'  BY <1>1, <1>3, <2>1, <2>2, ContinuesGood
  <2>4. cache' \in [Users -> SUBSET SUBSET Channels]
    BY <1>3 DEF PasswordInv, MemInv
  <2> QED  BY <2>3, <2>4
<1>4. CASE /\ LoadsChannels(S, late)
           /\ \E list \in cache[S.user] :
                 Continues(t, L, [r EXCEPT !.step = "capply", !.list = list])
           /\ UNCHANGED cache
  <2>1. PICK list \in cache[S.user] :
           Continues(t, L, [r EXCEPT !.step = "capply", !.list = list])
    BY <1>4
  <2>2. S.user \in Users  BY <1>4 DEF LoadsChannels, GoodSes, Clear
  <2>3. list \in SUBSET Channels  BY <2>1, <2>2 DEF PasswordInv, MemInv
  <2>4. GoodTask([r EXCEPT !.step = "capply", !.list = list], cleared)
    BY <2>3, StepGood, NoAuthGood DEF RefreshSteps
  <2>5. Live([r EXCEPT !.step = "capply", !.list = list])
    BY DEF Live, GoodTask, TaskShape
  <2>6. SesInv' /\ TaskInv'  BY <1>1, <2>1, <2>4, <2>5, ContinuesGood
  <2> QED  BY <1>4, <2>6 DEF PasswordInv, MemInv
<1>5. CASE RefreshEnds(t, S, Resubscribed(sub, r.s, S, r), r) /\ UNCHANGED cache
  BY <1>5, RefreshEndsGood DEF PasswordInv, MemInv
<1> QED  BY <1>2, <1>3, <1>4, <1>5

LEMMA WithKeyGood ==
    ASSUME PasswordInv, NEW r, Live(r)
    PROVE  GoodSes(WithKey(r), cleared)
<1>1. GoodSes(ses[r.s], cleared)  BY DEF PasswordInv, SesInv, Live
<1>2. (key[r.s] \in {"perm", "bound"}) \in BOOLEAN  OBVIOUS
<1>3. GoodSes([ses[r.s] EXCEPT !.perm = key[r.s] \in {"perm", "bound"}], cleared)
  BY <1>1, <1>2, SesEdits
<1> QED  BY <1>1, <1>3 DEF WithKey

LEMMA BegunGood ==
    ASSUME PasswordInv, NEW t, NEW r, GoodTask(r, cleared), Live(r), NEW late
    PROVE  /\ GoodTask(Begun(t, r, late), cleared) /\ Live(Begun(t, r, late))
           /\ Begun(t, r, late).s = r.s
           /\ GoodTask([Begun(t, r, late) EXCEPT !.step = "apply",
                                                 !.got = auths[KeyOf[r.s]]], cleared)
           /\ Live([Begun(t, r, late) EXCEPT !.step = "apply",
                                             !.got = auths[KeyOf[r.s]]])
           /\ GoneFor(t, r.s, late) \in SUBSET Int
           /\ [Begun(t, r, late) EXCEPT !.step = "apply",
                                        !.got = auths[KeyOf[r.s]]].s = r.s
<1> DEFINE S == WithKey(r)
<1>1. S \in SesShape  BY WithKeyGood DEF GoodSes
<1>2. S.user \in Users \cup {NoUser} /\ S.auth \in Nat  BY <1>1 DEF SesShape
<1>3. Deleted \in SUBSET Int /\ lapsed[r.s] \in SUBSET Int
  BY DEF Deleted, PasswordInv, DbInv, MemInv, Live
<1>4. GoneFor(t, r.s, late) \in SUBSET Int  BY <1>3 DEF GoneFor
<1> DEFINE u == S.user  a == S.auth  g == GoneFor(t, r.s, late)
<1>5. u \in Users \cup {NoUser} /\ a \in Nat /\ g \in SUBSET Int  BY <1>2, <1>4
<1>6. Begun(t, r, late) = [r EXCEPT !.oldUser = u, !.oldAuth = a, !.gone = g]
  BY DEF Begun
<1> HIDE DEF u, a, g
<1>7. /\ GoodTask([r EXCEPT !.oldUser = u, !.oldAuth = a, !.gone = g], cleared)
      /\ Live([r EXCEPT !.oldUser = u, !.oldAuth = a, !.gone = g])
      /\ [r EXCEPT !.oldUser = u, !.oldAuth = a, !.gone = g].s = r.s
  BY <1>5 DEF GoodTask, TaskShape, Live
<1>8. GoodTask(Begun(t, r, late), cleared) /\ Live(Begun(t, r, late))
      /\ Begun(t, r, late).s = r.s
  BY <1>6, <1>7
<1>9. GoodRow(auths[KeyOf[r.s]], cleared)
  BY AuthAssumption DEF PasswordInv, DbInv, Live
<1>10. GoodTask([Begun(t, r, late) EXCEPT !.step = "apply",
                                          !.got = auths[KeyOf[r.s]]], cleared)
  BY <1>8, <1>9, StepGood DEF RefreshSteps
<1>11. /\ Live([Begun(t, r, late) EXCEPT !.step = "apply", !.got = auths[KeyOf[r.s]]])
       /\ [Begun(t, r, late) EXCEPT !.step = "apply", !.got = auths[KeyOf[r.s]]].s = r.s
  BY <1>8 DEF Live, GoodTask, TaskShape
<1> QED  BY <1>4, <1>8, <1>10, <1>11

LEMMA RefreshBeginsGood ==
    ASSUME PasswordInv, UNCHANGED cleared, NEW t \in Tasks,
           NEW r, GoodTask(r, cleared), Live(r), RefreshBegins(t, r)
    PROVE  SesInv' /\ TaskInv' /\ MemInv'
<1>1. GoodSes(WithKey(r), cleared)  BY WithKeyGood
<1>2. CASE RefreshWithoutPerm(t, r)
  <2>1. GoodSes(ResetSession(WithKey(r)), cleared)  BY <1>1, ResetGood
  <2>2. SesInv' /\ TaskInv'  BY <1>2, <2>1, RefreshEndsGood DEF RefreshWithoutPerm
  <2> QED  BY <1>2, <2>2 DEF RefreshWithoutPerm, PasswordInv, MemInv
<1>3. ASSUME NEW late \in BOOLEAN, RefreshLooksUp(t, r, late)
      PROVE  SesInv' /\ TaskInv' /\ MemInv'
  <2>1. SesInv' /\ TaskInv'
    BY <1>1, <1>3, BegunGood, ContinuesGood DEF RefreshLooksUp
  <2>2. MemInv'  BY <1>3, BegunGood DEF RefreshLooksUp, PasswordInv, MemInv
  <2> QED  BY <2>1, <2>2
<1>4. ASSUME NEW late \in BOOLEAN, RefreshTrusts(t, r, late)
      PROVE  SesInv' /\ TaskInv' /\ MemInv'
  <2>1. SesInv' /\ TaskInv' /\ cache' \in [Users -> SUBSET SUBSET Channels]
    BY <1>1, <1>4, BegunGood, ChannelsOrEndGood DEF RefreshTrusts
  <2> QED  BY <1>4, <2>1 DEF RefreshTrusts, PasswordInv, MemInv
<1> QED  BY <1>2, <1>3, <1>4 DEF RefreshBegins

-----------------------------------------------------------------------------
(* Steps of a refresh *)

LEMMA BusyTask ==
    ASSUME PasswordInv, NEW t \in Tasks, task[t].step # "idle"
    PROVE  /\ GoodTask(task[t], cleared) /\ Live(task[t])
           /\ task[t].s \in Sessions /\ GoodSes(ses[task[t].s], cleared)
BY DEF PasswordInv, TaskInv, SesInv, GoodTask, Live

LEMMA RefreshStepGood ==
    ASSUME PasswordInv, NEW t \in Tasks, RefreshStep(t)
    PROVE  PasswordInv'
<1> USE DEF database
<1>1. CASE ForcedRefresh(t)
  <2>1. SesInv' /\ TaskInv' /\ MemInv'
    BY <1>1, BusyTask, RefreshBeginsGood DEF ForcedRefresh
  <2>2. DbInv'  BY <1>1, DbSame DEF ForcedRefresh, PasswordInv
  <2> QED  BY <2>1, <2>2 DEF PasswordInv
<1>2. CASE RefreshWithoutData(t)
  <2> DEFINE s == task[t].s  S == [ses[s] EXCEPT !.data = FALSE]
  <2>1. s \in Sessions /\ GoodSes(ses[s], cleared)
    BY <1>2, BusyTask DEF RefreshWithoutData
  <2>2. GoodSes(S, cleared)  BY <2>1, SesEdits
  <2>3. ses' = [ses EXCEPT ![s] = S]
    BY <1>2, <2>1 DEF RefreshWithoutData, PasswordInv, SesInv
  <2>4. UNCHANGED <<auths, nextAuth, cleared, cache, lapsed>>
        /\ task' = [task EXCEPT ![t] = IdleTask]
    BY <1>2 DEF RefreshWithoutData
  <2> HIDE DEF s, S
  <2>5. SesInv'  BY <2>1, <2>2, <2>3, <2>4, OneSes DEF PasswordInv
  <2>6. TaskInv'  BY <2>4, IdleGood, OneTask DEF PasswordInv
  <2> QED  BY <2>4, <2>5, <2>6, DbSame DEF PasswordInv, MemInv
<1>3. CASE RefreshFindsNothing(t)
  <2>1. GoodTask(task[t], cleared) /\ Live(task[t]) /\ GoodSes(ses[task[t].s], cleared)
    BY <1>3, BusyTask DEF RefreshFindsNothing
  <2>2. GoodSes(ResetSession(ses[task[t].s]), cleared)  BY <2>1, ResetGood
  <2>3. SesInv' /\ TaskInv'
    BY <1>3, <2>1, <2>2, RefreshEndsGood DEF RefreshFindsNothing
  <2> QED  BY <1>3, <2>3, DbSame DEF RefreshFindsNothing, PasswordInv, MemInv
<1>4. CASE RefreshFindsAuth(t)
  <2> DEFINE r == task[t]
             S == [ses[r.s] EXCEPT !.user = r.got.user, !.auth = r.got.id,
                                   !.mfa = r.got.mfa]
  <2>1. GoodTask(r, cleared) /\ Live(r) /\ GoodSes(ses[r.s], cleared)
    BY <1>4, BusyTask DEF RefreshFindsAuth
  <2>2. GoodSes(S, cleared)  BY <2>1, AppliedGood DEF GoodTask
  <2>3. GoodTask([r EXCEPT !.got = NoAuth], cleared)
    BY <2>1, StepGood, NoAuthGood
  <2>4. Live([r EXCEPT !.got = NoAuth])  BY <2>1 DEF Live, GoodTask, TaskShape
  <2>5. ChannelsOrEnd(t, S, [r EXCEPT !.got = NoAuth])
        /\ UNCHANGED <<auths, nextAuth, cleared, lapsed>>
    BY <1>4 DEF RefreshFindsAuth
  <2> HIDE DEF S, r
  <2>6. SesInv' /\ TaskInv' /\ cache' \in [Users -> SUBSET SUBSET Channels]
    BY <2>2, <2>3, <2>4, <2>5, ChannelsOrEndGood
  <2> QED  BY <2>5, <2>6, DbSame DEF PasswordInv, MemInv
<1>5. CASE RefreshReadsMembers(t)
  <2> DEFINE X == {c \in Channels : <<ses[task[t].s].user, c>> \in member}
             r == [task[t] EXCEPT !.list = X, !.step = "cset"]
  <2>1. GoodTask(task[t], cleared) /\ Live(task[t])
    BY <1>5, BusyTask DEF RefreshReadsMembers
  <2>2. X \in SUBSET Channels  OBVIOUS
  <2>3. UNCHANGED <<auths, nextAuth, cleared, cache, lapsed, ses>>
        /\ task' = [task EXCEPT ![t] = r]
    BY <1>5 DEF RefreshReadsMembers, PasswordInv, TaskInv
  <2> HIDE DEF X
  <2>4. GoodTask(r, cleared)  BY <2>1, <2>2, StepGood, NoAuthGood DEF RefreshSteps
  <2> HIDE DEF r
  <2>5. TaskInv'  BY <2>3, <2>4, OneTask DEF PasswordInv
  <2> QED  BY <2>3, <2>5, DbSame, SesSame DEF PasswordInv, MemInv
<1>6. CASE RefreshWritesCache(t)
  <2> DEFINE r == [task[t] EXCEPT !.step = "capply"]
  <2>1. GoodTask(task[t], cleared) /\ Live(task[t])
    BY <1>6, BusyTask DEF RefreshWritesCache
  <2>2. GoodTask(r, cleared)  BY <2>1, StepGood, NoAuthGood DEF RefreshSteps
  <2>3. UNCHANGED <<auths, nextAuth, cleared, lapsed, ses>>
        /\ task' = [task EXCEPT ![t] = r]
    BY <1>6 DEF RefreshWritesCache, PasswordInv, TaskInv
  <2>4. task[t].list \in SUBSET Channels  BY <2>1 DEF GoodTask, TaskShape
  <2>5. MemInv'
    BY <1>6, <2>3, <2>4 DEF RefreshWritesCache, PasswordInv, MemInv
  <2> HIDE DEF r
  <2>6. TaskInv'  BY <2>2, <2>3, OneTask DEF PasswordInv
  <2> QED  BY <2>3, <2>5, <2>6, DbSame, SesSame DEF PasswordInv
<1>7. CASE RefreshAppliesChannels(t)
  <2> DEFINE r == task[t]  S == [ses[r.s] EXCEPT !.chans = r.list]
  <2>1. GoodTask(r, cleared) /\ Live(r) /\ GoodSes(ses[r.s], cleared)
    BY <1>7, BusyTask DEF RefreshAppliesChannels
  <2>2. r.list \in SUBSET Channels  BY <2>1 DEF GoodTask, TaskShape
  <2>3. GoodSes(S, cleared)  BY <2>1, <2>2, SesEdits
  <2>4. UNCHANGED <<auths, nextAuth, cleared, cache, lapsed>>
        /\ \E m : RefreshEnds(t, S, m, r)
    BY <1>7 DEF RefreshAppliesChannels
  <2> HIDE DEF S, r
  <2>5. SesInv' /\ TaskInv'  BY <2>1, <2>3, <2>4, RefreshEndsGood
  <2> QED  BY <2>4, <2>5, DbSame DEF PasswordInv, MemInv
<1> QED  BY <1>1, <1>2, <1>3, <1>4, <1>5, <1>6, <1>7 DEF RefreshStep

-----------------------------------------------------------------------------
(* Steps of a request *)

LEMMA AnsweredGood ==
    ASSUME NEW C, NEW r, GoodTask(r, C), Live(r)
    PROVE  GoodTask(Answered(r), C)
<1>1. r.op \in Requests \cup {"register"} /\ r.arg \in Users \cup {NoUser}
  BY DEF GoodTask, TaskShape, Live
<1> QED  BY <1>1, ForceGood, IdleGood DEF Answered, Live

\* An answer changes at most the database.
LEMMA AnswersGood ==
    ASSUME PasswordInv, NEW t \in Tasks, task[t].step # "idle", Answers(t),
           cleared \subseteq cleared', DbInv'
    PROVE  PasswordInv'
<1>1. GoodTask(task[t], cleared') /\ Live(task[t])  BY BusyTask, TaskGrows
<1>2. GoodTask(Answered(task[t]), cleared')  BY <1>1, AnsweredGood
<1>3. TaskInv'  BY <1>2, OneTask DEF Answers, PasswordInv
<1>4. SesInv'  BY SesSame DEF Answers, PasswordInv
<1> QED  BY <1>3, <1>4 DEF Answers, PasswordInv, MemInv

\* A step of a request that leaves the database and the session alone.
LEMMA QuietGood ==
    ASSUME PasswordInv, NEW t \in Tasks, NEW r, GoodTask(r, cleared),
           task' = [task EXCEPT ![t] = r],
           UNCHANGED <<auths, nextAuth, cleared, cache, lapsed, ses>>
    PROVE  PasswordInv'
<1>1. TaskInv'  BY OneTask DEF PasswordInv
<1> QED  BY <1>1, DbSame, SesSame DEF PasswordInv, MemInv

LEMMA RowsDeletedGood ==
    ASSUME PasswordInv, UNCHANGED <<nextAuth, cleared>>, NEW gone,
           auths' = [k \in Keys |-> IF k \in gone THEN NoAuth ELSE auths[k]]
    PROVE  DbInv'
<1>1. NoAuth \in Row  BY NoAuthGood DEF GoodRow
<1>2. auths' \in [Keys -> Row]  BY <1>1 DEF PasswordInv, DbInv
<1>3. \A k \in Keys : GoodRow(auths'[k], cleared')
  BY NoAuthGood DEF PasswordInv, DbInv
<1> QED  BY <1>2, <1>3 DEF PasswordInv, DbInv

LEMMA CreatesRowGood ==
    ASSUME PasswordInv, NEW k \in Keys, NEW u \in Users, NEW pw \in BOOLEAN,
           CreatesRow(k, u, pw)
    PROVE  DbInv' /\ cleared \subseteq cleared'
<1>1. cleared \subseteq cleared'  BY DEF CreatesRow
<1>2. NewAuth(u, pw) \in Row  BY DEF NewAuth, NewRow, Row, PasswordInv, DbInv
<1>3. GoodRow(NewAuth(u, pw), cleared')
  <2>1. /\ NewAuth(u, pw).user = u /\ NewAuth(u, pw).id = nextAuth
        /\ NewAuth(u, pw).mfa = pw
    BY DEF NewAuth, NewRow
  <2>2. ~pw => nextAuth \in cleared'  BY DEF CreatesRow
  <2> QED  BY <1>2, <2>1, <2>2 DEF GoodRow, Clear
<1>4. auths' = [auths EXCEPT ![k] = NewAuth(u, pw)]  BY DEF CreatesRow
<1>5. auths' \in [Keys -> Row]  BY <1>2, <1>4 DEF PasswordInv, DbInv
<1>6. ASSUME NEW j \in Keys PROVE GoodRow(auths'[j], cleared')
  <2>1. CASE j = k  BY <1>3, <1>4, <2>1 DEF PasswordInv, DbInv
  <2>2. CASE j # k  BY <1>1, <1>4, <2>2, ClearGrows DEF PasswordInv, DbInv, GoodRow
  <2> QED  BY <2>1, <2>2
<1>7. nextAuth' \in Nat  BY DEF CreatesRow, PasswordInv, DbInv
<1> QED  BY <1>1, <1>5, <1>6, <1>7 DEF DbInv

LEMMA KeyOfTask ==
    ASSUME NEW r, Live(r)
    PROVE  KeyOf[r.s] \in Keys
BY AuthAssumption DEF Live

LEMMA RowDeletedGood ==
    ASSUME PasswordInv, UNCHANGED <<nextAuth, cleared>>, NEW k \in Keys,
           auths' = [auths EXCEPT ![k] = NoAuth]
    PROVE  DbInv'
<1>1. auths' = [j \in Keys |-> IF j \in {k} THEN NoAuth ELSE auths[j]]
  BY DEF PasswordInv, DbInv
<1> QED  BY <1>1, RowsDeletedGood

LEMMA RequestStepGood ==
    ASSUME PasswordInv, NEW t \in Tasks, RequestStep(t)
    PROVE  PasswordInv'
<1> USE DEF Untouched, Rest
<1>1. CASE Kick(t)
  <2> DEFINE r == task[t]  S == ses[r.s]
             q == [r EXCEPT !.step = "run", !.perm = S.perm, !.auth = S.auth,
                            !.user = S.user, !.mfa = S.mfa]
  <2>1. GoodTask(r, cleared) /\ Live(r) /\ GoodSes(S, cleared)
    BY <1>1, BusyTask DEF Kick
  <2>2. GoodTask(q, cleared)  BY <2>1, KickGood
  <2>3. task' = [task EXCEPT ![t] = q]
        /\ UNCHANGED <<auths, nextAuth, cleared, cache, lapsed, ses>>
    BY <1>1 DEF Kick
  <2> QED  BY <2>2, <2>3, QuietGood
<1>2. CASE Unregistered(t)  BY <1>2, IdleGood, QuietGood DEF Unregistered
<1>3. CASE Refused(t)  BY <1>3, IdleGood, QuietGood DEF Refused
<1>4. CASE Call(t)
  <2>1. /\ task[t].step # "idle" /\ Answers(t)
        /\ UNCHANGED <<auths, nextAuth, cleared>>
    BY <1>4 DEF Call
  <2>2. DbInv'  BY <2>1, DbSame DEF PasswordInv
  <2> QED  BY <2>1, <2>2, AnswersGood
<1>5. CASE SignInDeletes(t)
  <2> DEFINE p == task[t].arg \in protected
             q == [task[t] EXCEPT !.step = "exec", !.pw = p]
  <2>1. GoodTask(task[t], cleared) /\ Live(task[t])
    BY <1>5, BusyTask DEF SignInDeletes
  <2>2. p \in BOOLEAN  OBVIOUS
  <2>3. UNCHANGED <<nextAuth, cleared, cache, lapsed, ses>>
        /\ task' = [task EXCEPT ![t] = q]
        /\ auths' = [auths EXCEPT ![KeyOf[task[t].s]] = NoAuth]
    BY <1>5 DEF SignInDeletes, PasswordInv, TaskInv
  <2> HIDE DEF p
  <2>4. GoodTask(q, cleared)  BY <2>1, <2>2, StepGood, NoAuthGood
  <2> HIDE DEF q
  <2>5. TaskInv'  BY <2>3, <2>4, OneTask DEF PasswordInv
  <2>6. DbInv'  BY <2>1, <2>3, KeyOfTask, RowDeletedGood
  <2> QED  BY <2>3, <2>5, <2>6, SesSame DEF PasswordInv, MemInv
<1>6. CASE SignInCreates(t)
  <2> DEFINE r == task[t]
  <2>1. r.step # "idle"  BY <1>6 DEF SignInCreates
  <2>2. GoodTask(r, cleared) /\ Live(r)  BY <2>1, BusyTask
  <2>3. r.pw \in BOOLEAN /\ r.arg \in Users
    BY <1>6, <2>2 DEF GoodTask, TaskShape, Live, SignInCreates
  <2>4. CreatesRow(KeyOf[r.s], r.arg, r.pw) /\ Answers(t)
    BY <1>6 DEF SignInCreates
  <2>5. DbInv' /\ cleared \subseteq cleared'
    BY <2>2, <2>3, <2>4, KeyOfTask, CreatesRowGood
  <2> QED  BY <2>1, <2>4, <2>5, AnswersGood
<1>7. CASE SignInFails(t)
  <2>1. /\ task[t].step # "idle" /\ Answers(t)
        /\ UNCHANGED <<auths, nextAuth, cleared>>
    BY <1>7 DEF SignInFails
  <2>2. DbInv'  BY <2>1, DbSame DEF PasswordInv
  <2> QED  BY <2>1, <2>2, AnswersGood
<1>8. ASSUME NEW right \in BOOLEAN, CheckPassword(t, right) PROVE PasswordInv'
  <2> DEFINE r == task[t]  k == KeyOf[r.s]
  <2>1. r.step # "idle" /\ Answers(t) /\ nextAuth' = nextAuth
    BY <1>8 DEF CheckPassword
  <2>2. k \in Keys  BY <2>1, BusyTask, KeyOfTask
  <2>3. CASE UNCHANGED <<auths, cleared>>
    <3>1. DbInv'  BY <2>1, <2>3, DbSame DEF PasswordInv
    <3> QED  BY <2>1, <2>3, <3>1, AnswersGood
  <2>4. CASE /\ auths[k].id = r.auth /\ auths' = [auths EXCEPT ![k].mfa = FALSE]
             /\ cleared' = cleared \cup {r.auth}
    <3> DEFINE x == [auths[k] EXCEPT !.mfa = FALSE]
    <3>1. auths[k] \in Row /\ GoodRow(auths[k], cleared)
      BY <2>2 DEF PasswordInv, DbInv
    <3>2. x \in Row /\ x.id = auths[k].id /\ x.user = auths[k].user
      BY <3>1 DEF Row
    <3>3. auths[k].id \in cleared'  BY <2>4
    <3>4. GoodRow(x, cleared')  BY <3>1, <3>2, <3>3 DEF GoodRow, Clear
    <3>5. auths' = [auths EXCEPT ![k] = x]  BY <2>2, <2>4 DEF PasswordInv, DbInv
    <3> HIDE DEF x
    <3>6. auths' \in [Keys -> Row]  BY <3>2, <3>5 DEF PasswordInv, DbInv
    <3>7. ASSUME NEW j \in Keys PROVE GoodRow(auths'[j], cleared')
      <4>1. CASE j = k  BY <3>4, <3>5, <4>1 DEF PasswordInv, DbInv
      <4>2. CASE j # k
        BY <2>4, <3>5, <4>2, ClearGrows DEF PasswordInv, DbInv, GoodRow
      <4> QED  BY <4>1, <4>2
    <3>8. DbInv'  BY <2>1, <3>6, <3>7 DEF PasswordInv, DbInv
    <3>9. cleared \subseteq cleared'  BY <2>4
    <3> QED  BY <2>1, <3>8, <3>9, AnswersGood
  <2> QED  BY <1>8, <2>3, <2>4 DEF CheckPassword
<1>9. CASE LogOut(t)
  <2>1. /\ task[t].step # "idle" /\ Answers(t) /\ UNCHANGED <<nextAuth, cleared>>
        /\ auths' = [auths EXCEPT ![KeyOf[task[t].s]] = NoAuth]
    BY <1>9 DEF LogOut
  <2>2. KeyOf[task[t].s] \in Keys  BY <2>1, BusyTask, KeyOfTask
  <2>3. DbInv'  BY <2>1, <2>2, RowDeletedGood
  <2> QED  BY <2>1, <2>3, AnswersGood
<1>10. CASE BindTempAuthKey(t)
  <2>1. /\ task[t].step # "idle" /\ Answers(t)
        /\ UNCHANGED <<auths, nextAuth, cleared>>
    BY <1>10 DEF BindTempAuthKey
  <2>2. DbInv'  BY <2>1, DbSame DEF PasswordInv
  <2> QED  BY <2>1, <2>2, AnswersGood
<1> QED
  BY <1>1, <1>2, <1>3, <1>4, <1>5, <1>6, <1>7, <1>8, <1>9, <1>10 DEF RequestStep

-----------------------------------------------------------------------------
(* The other steps *)

\* Nothing the invariant is about changes, but for rows of other devices.
LEMMA ElsewhereGood ==
    ASSUME PasswordInv, cleared \subseteq cleared', DbInv',
           UNCHANGED <<cache, ses, task, lapsed>>
    PROVE  PasswordInv'
BY SesSame, TaskSame DEF PasswordInv, MemInv

LEMMA TaskStepGood ==
    ASSUME PasswordInv, NEW t \in Tasks, TaskStep(t)
    PROVE  PasswordInv'
<1>1. CASE RefreshStep(t)  BY <1>1, RefreshStepGood
<1>2. CASE RequestStep(t)  BY <1>2, RequestStepGood
<1>3. CASE Cancel(t)
  <2> DEFINE r == task[t]
             q == IF r.step \in {"run", "exec"} /\ r.op \notin UserOps
                  THEN [r EXCEPT !.alone = TRUE] ELSE IdleTask
  <2>1. r.step # "idle" /\ task' = [task EXCEPT ![t] = q]
        /\ UNCHANGED <<auths, nextAuth, cleared, cache, lapsed, ses>>
    BY <1>3 DEF Cancel, Rest
  <2>2. GoodTask(r, cleared) /\ Live(r)  BY <2>1, BusyTask
  <2>3. GoodTask(IdleTask, cleared)  BY IdleGood
  <2> HIDE DEF r
  <2>4. GoodTask([r EXCEPT !.alone = TRUE], cleared)
    BY <2>2, StepGood, NoAuthGood DEF RefreshSteps
  <2>5. GoodTask(q, cleared)  BY <2>3, <2>4
  <2> HIDE DEF q
  <2> QED  BY <2>1, <2>5, QuietGood
<1>4. ASSUME NEW s \in Sessions, RegisterDevice(t, s) PROVE PasswordInv'
  <2> DEFINE q == [Asks(s, "register", NoUser) EXCEPT !.step = "begin", !.force = TRUE]
  <2> DEFINE op == "register"
  <2>1. op \in Requests \cup {"register"} /\ op \notin LoginOps  BY DEF LoginOps
  <2> HIDE DEF op
  <2>2. GoodTask([Asks(s, op, NoUser) EXCEPT !.step = "begin", !.force = TRUE], cleared)
    BY <2>1, ForceGood
  <2>3. GoodTask(q, cleared)  BY <2>2 DEF op
  <2>4. task' = [task EXCEPT ![t] = q]
        /\ UNCHANGED <<auths, nextAuth, cleared, cache, lapsed, ses>>
    BY <1>4 DEF RegisterDevice
  <2> HIDE DEF q
  <2> QED  BY <2>3, <2>4, QuietGood
<1>5. ASSUME NEW s \in Sessions, NEW op \in Requests, NEW u \in Arguments(op),
             Receive(t, s, op, u)
      PROVE  PasswordInv'
  <2>1. u \in Users \cup {NoUser} /\ (op \in LoginOps => u \in Users)
    BY DEF Arguments, LoginOps
  <2>2. GoodTask(Asks(s, op, u), cleared) /\ Live(Asks(s, op, u))
    BY <2>1, AsksGood
  <2>3. RefreshBegins(t, Asks(s, op, u)) /\ UNCHANGED <<auths, nextAuth, cleared>>
    BY <1>5 DEF Receive
  <2>4. SesInv' /\ TaskInv' /\ MemInv'  BY <2>2, <2>3, RefreshBeginsGood
  <2> QED  BY <2>3, <2>4, DbSame DEF PasswordInv
<1> QED  BY <1>1, <1>2, <1>3, <1>4, <1>5 DEF TaskStep

LEMMA SessionStepGood ==
    ASSUME PasswordInv, NEW s \in Sessions, SessionStep(s)
    PROVE  PasswordInv'
<1> USE DEF Untouched, Rest
<1>1. GoodSes(ses[s], cleared) /\ ses \in [Sessions -> SesShape]
  BY DEF PasswordInv, SesInv
<1>2. ASSUME NEW S, GoodSes(S, cleared), ses' = [ses EXCEPT ![s] = S],
             UNCHANGED <<auths, nextAuth, cleared, cache, lapsed, task>>
      PROVE  PasswordInv'
  <2>1. SesInv'  BY <1>2, OneSes DEF PasswordInv
  <2> QED  BY <1>2, <2>1, DbSame, TaskSame DEF PasswordInv, MemInv
<1>3. CASE Connect(s)
  <2>1. GoodSes([ses[s] EXCEPT !.stored = TRUE], cleared)  BY <1>1, SesEdits
  <2> QED  BY <1>2, <1>3, <2>1 DEF Connect
<1>4. CASE Finalize(s)
  <2> DEFINE b == ~ses[s].data
  <2>1. b \in BOOLEAN  BY <1>1 DEF GoodSes, SesShape
  <2>2. ses' = [ses EXCEPT ![s] = [ses[s] EXCEPT !.stored = b]]
        /\ UNCHANGED <<auths, nextAuth, cleared, cache, lapsed, task>>
    BY <1>1, <1>4 DEF Finalize
  <2> HIDE DEF b
  <2>3. GoodSes([ses[s] EXCEPT !.stored = b], cleared)  BY <1>1, <2>1, SesEdits
  <2> QED  BY <1>2, <2>2, <2>3
<1>5. CASE KeyGoes(s)
  BY <1>5, DbSame, ElsewhereGood DEF KeyGoes, PasswordInv
<1> QED  BY <1>3, <1>4, <1>5 DEF SessionStep

LEMMA DeviceStepGood ==
    ASSUME PasswordInv, NEW k \in Keys, DeviceStep(k)
    PROVE  PasswordInv'
<1> USE DEF Elsewhere
<1>1. ASSUME NEW j \in Keys, AcceptLoginToken(k, j) PROVE PasswordInv'
  <2> DEFINE u == auths[k].user  pw == u \in protected
  <2>1. u \in Users
    BY <1>1 DEF AcceptLoginToken, SignedIn, PasswordInv, DbInv, Row
  <2>2. pw \in BOOLEAN  OBVIOUS
  <2>3. CreatesRow(j, u, pw) /\ UNCHANGED <<cache, ses, task, lapsed>>
    BY <1>1 DEF AcceptLoginToken
  <2> HIDE DEF u, pw
  <2>4. DbInv' /\ cleared \subseteq cleared'  BY <2>1, <2>2, <2>3, CreatesRowGood
  <2> QED  BY <2>3, <2>4, ElsewhereGood
<1>2. ASSUME NEW some \in SUBSET Keys, ResetAuthorizations(k, some) PROVE PasswordInv'
  <2>1. UNCHANGED <<nextAuth, cleared, cache, ses, task, lapsed>>
        /\ auths' = [j \in Keys |-> IF j \in some THEN NoAuth ELSE auths[j]]
    BY <1>2 DEF ResetAuthorizations
  <2> QED  BY <2>1, RowsDeletedGood, ElsewhereGood
<1>3. CASE SetPassword(k)
  BY <1>3, DbSame, ElsewhereGood DEF SetPassword, PasswordInv
<1>4. CASE RemovePassword(k)
  <2> DEFINE some == {j \in Keys : auths[j].user = auths[k].user /\ auths[j].mfa}
  <2>1. UNCHANGED <<nextAuth, cleared, cache, ses, task, lapsed>>
        /\ auths' = [j \in Keys |-> IF j \in some THEN NoAuth ELSE auths[j]]
    BY <1>4 DEF RemovePassword
  <2> HIDE DEF some
  <2> QED  BY <2>1, RowsDeletedGood, ElsewhereGood
<1> QED  BY <1>1, <1>2, <1>3, <1>4 DEF DeviceStep

LEMMA UserStepGood ==
    ASSUME PasswordInv, NEW u \in Users, UserStep(u)
    PROVE  PasswordInv'
<1> USE DEF Elsewhere
<1>1. CASE DeleteAccount(u)
  <2> DEFINE some == {j \in Keys : auths[j].user = u}
  <2>1. UNCHANGED <<nextAuth, cleared, cache, ses, task, lapsed>>
        /\ auths' = [j \in Keys |-> IF j \in some THEN NoAuth ELSE auths[j]]
    BY <1>1 DEF DeleteAccount
  <2> HIDE DEF some
  <2> QED  BY <2>1, RowsDeletedGood, ElsewhereGood
<1>2. ASSUME NEW c \in Channels, JoinChannel(u, c) \/ LeaveChannel(u, c)
      PROVE  PasswordInv'
  BY <1>2, DbSame, ElsewhereGood DEF JoinChannel, LeaveChannel, PasswordInv
<1> QED  BY <1>1, <1>2 DEF UserStep

LEMMA NewsStepGood ==
    ASSUME PasswordInv, NEW n, NewsStep(n)
    PROVE  PasswordInv'
<1>1. /\ UNCHANGED <<auths, nextAuth, cleared, ses, task, lapsed>>
      /\ cache' = cache \/ cache' = [cache EXCEPT ![n.user] = {}]
  BY DEF NewsStep, ChannelSubscribeReads, ChannelSubscribeApplies, database
<1>2. MemInv'  BY <1>1 DEF PasswordInv, MemInv
<1> QED  BY <1>1, <1>2, DbSame, SesSame, TaskSame DEF PasswordInv

-----------------------------------------------------------------------------
\* Distinct first ids exist: the keys are finite.
LEMMA FirstIdsType == FirstIds \in [Keys -> 1 .. Cardinality(Keys)]
<1>1. ExistsBijection(Keys, 1 .. Cardinality(Keys))
  BY AuthAssumption, FS_CardinalityType, Fun_ExistsBijSymmetric
<1>2. PICK f \in [Keys -> 1 .. Cardinality(Keys)] :
         \A j, k \in Keys : f[j] = f[k] => j = k
  BY <1>1 DEF ExistsBijection, Bijection, Injection, IsInjective
<1> QED  BY <1>2 DEF FirstIds

\* At first the rows that exist need no password, and nothing else has a user.
LEMMA InitGood == Init => PasswordInv
<1> SUFFICES ASSUME Init PROVE PasswordInv
  OBVIOUS
<1>1. Cardinality(Keys) \in Nat  BY AuthAssumption, FS_CardinalityType
<1>2. DbInv
  <2>1. PICK u \in Users, out \in SUBSET (Keys \ Others) :
           auths = [k \in Keys |-> IF k \in out THEN NoAuth
                                   ELSE NewRow(FirstIds[k], u, FALSE)]
    BY DEF Init
  <2>2. ASSUME NEW k \in Keys PROVE GoodRow(NewRow(FirstIds[k], u, FALSE), cleared)
    <3>1. FirstIds[k] \in cleared /\ FirstIds[k] \in Nat
      BY <1>1, FirstIdsType DEF Init
    <3> QED  BY <3>1 DEF GoodRow, Clear, NewRow, Row
  <2>3. \A k \in Keys : GoodRow(auths[k], cleared)  BY <2>1, <2>2, NoAuthGood
  <2>4. auths \in [Keys -> Row]  BY <2>1, <2>3 DEF GoodRow
  <2>5. nextAuth \in Nat  BY <1>1 DEF Init
  <2> QED  BY <2>3, <2>4, <2>5 DEF DbInv
<1>3. SesInv
  <2>1. ASSUME NEW b \in BOOLEAN PROVE GoodSes(NewSession(b), cleared)
    BY DEF GoodSes, NewSession, SesShape, Clear
  <2>2. ses = [s \in Sessions |-> NewSession(key[s] = "perm")]  BY DEF Init
  <2>3. \A s \in Sessions : (key[s] = "perm") \in BOOLEAN  OBVIOUS
  <2>4. \A s \in Sessions : GoodSes(ses[s], cleared)  BY <2>1, <2>2, <2>3
  <2> QED  BY <2>2, <2>4 DEF SesInv, GoodSes
<1>4. TaskInv
  <2>1. GoodTask(IdleTask, cleared)  BY IdleGood
  <2> QED  BY <2>1 DEF Init, TaskInv, GoodTask
<1>5. MemInv  BY DEF Init, MemInv
<1> QED  BY <1>2, <1>3, <1>4, <1>5 DEF PasswordInv

\* Every step of the gateway, the workers and the other devices keeps that
\* whatever row, copy of a row or request has a user and waits for no password
\* has an authorization that needs none.
LEMMA StepKeepsPasswordInv ==
    ASSUME PasswordInv, [Next]_vars
    PROVE  PasswordInv'
<1>1. CASE UNCHANGED vars
  BY <1>1, DbSame, ElsewhereGood DEF vars, PasswordInv
<1>2. CASE Next
  BY <1>2, TaskStepGood, SessionStepGood, UserStepGood, NewsStepGood,
     DeviceStepGood DEF Next
<1> QED  BY <1>1, <1>2

\* What the gate of the worker lets pass has a user and is not pending.
LEMMA GateIsEnough == PasswordInv => NoRequestBeforePassword
BY DEF PasswordInv, TaskInv, GoodTask, Clear, NoRequestBeforePassword, MayRun, UserOps

\* NoRequestBeforePassword for any sessions, tasks, users and keys and any
\* number of requests: a handler without ALLOW_MFA_PENDING that passes the gate
\* of the worker (get_user, _handle_tl_rpc) carries an authorization whose
\* password was checked or that never needed one, although the gateway's copy
\* of mfa_pending is refreshed late, out of order or not at all.
THEOREM PasswordFirst == Spec => []NoRequestBeforePassword
<1>1. Init => PasswordInv  BY InitGood
<1>2. PasswordInv /\ [Next]_vars => PasswordInv'  BY StepKeepsPasswordInv
<1>3. PasswordInv => NoRequestBeforePassword  BY GateIsEnough
<1> QED  BY <1>1, <1>2, <1>3, PTL DEF Spec

-----------------------------------------------------------------------------
(* What the broker delivers to a session, and what a request carries *)

\* A refresh that has applied its answer and not yet brought the maps in line.
LateSteps == {"clist", "cset", "capply"}
IsLate(r, s) == r.s = s /\ r.step \in LateSteps
OldUsers(tk, s) == {tk[t].oldUser : t \in {d \in Tasks : IsLate(tk[d], s)}}
OldAuths(tk, s) == {tk[t].oldAuth : t \in {d \in Tasks : IsLate(tk[d], s)}}

\* M delivers x to the session s, or what a late refresh will take away; x is
\* there, or a late refresh will add it.
Follows(M, x, none, s, O) ==
    /\ \A u : <<u, s>> \in M => u # none /\ (u = x \/ u \in O)
    /\ x = none \/ <<x, s>> \in M \/ \E o \in O : o # x
ChansFollow(C, X, e, s) ==
    /\ \A c : <<c, s>> \in C => c \in X \/ c \in e
    /\ \A c \in X : <<c, s>> \in C

\* The maps m, for the session s that is S, with the tasks tk.
MapsKnown(S, m, tk, e, s) ==
    /\ Follows(m.user, S.user, NoUser, s, OldUsers(tk, s))
    /\ Follows(m.auth, S.auth, 0, s, OldAuths(tk, s))
    /\ ChansFollow(m.chan, S.chans, e, s)
MapsForgotten(m, tk, e, s) ==
    /\ \A t \in Tasks : tk[t].s # s
    /\ \A u : <<u, s>> \notin m.user /\ <<u, s>> \notin m.auth
    /\ \A c : <<c, s>> \in m.chan => c \in e
MapsHold(S, m, tk, e, s) ==
    /\ S.stored => MapsKnown(S, m, tk, e, s)
    /\ ~S.stored => MapsForgotten(m, tk, e, s)

\* L was gone when an authorization was last looked up, D is gone now.
InWindow(r, S, L) ==
    /\ r.gone \subseteq L
    /\ r.step \in LateSteps \cup {"kick"} => S.auth \notin r.gone
    /\ r.step = "run" => r.auth \notin r.gone
Within(S, tk, L, D, s) ==
    /\ L \subseteq D
    /\ \A t \in Tasks : tk[t].s = s => InWindow(tk[t], S, L)
    /\ S.auth \in L => \E t \in Tasks : tk[t].s = s /\ tk[t].step = "apply"

IsMaps(m) == m = [user |-> m.user, auth |-> m.auth, chan |-> m.chan]
CurrentInv ==
    /\ PasswordInv /\ IsMaps(sub) /\ extra = [s \in Sessions |-> extra[s]]
    /\ \A s \in Sessions : s \notin raced =>
          /\ MapsHold(ses[s], sub, task, extra[s], s)
          /\ Within(ses[s], task, lapsed[s], Deleted, s)

\* The maps of the broker: a late refresh ends, an answer is applied, a reset,
\* a subscription.
Moved(M, s, old, new, none) ==
    IF old = new THEN M ELSE (M \ {<<old, s>>}) \cup Pair(new, none, s)
LEMMA FollowsAtEnd ==
    ASSUME NEW M, NEW x, NEW n, NEW s, NEW O, NEW P, NEW o,
           Follows(M, x, n, s, O), P \subseteq O, O \ {o} \subseteq P
    PROVE  Follows(Moved(M, s, o, x, n), x, n, s, P)
<1>1. CASE o = x  BY <1>1 DEF Follows, Moved
<1>2. CASE o # x
  <2> DEFINE K == (M \ {<<o, s>>}) \cup Pair(x, n, s)
  <2>1. ASSUME NEW u, <<u, s>> \in K PROVE u # n /\ (u = x \/ u \in P)
    <3>1. CASE <<u, s>> \in Pair(x, n, s)  BY <3>1 DEF Pair
    <3>2. CASE <<u, s>> \in M /\ <<u, s>> # <<o, s>>  BY <3>2 DEF Follows
    <3> QED  BY <2>1, <3>1, <3>2
  <2>2. x = n \/ <<x, s>> \in K  BY DEF Pair
  <2> HIDE DEF K
  <2>3. Follows(K, x, n, s, P)  BY <2>1, <2>2 DEF Follows
  <2> QED  BY <1>2, <2>3 DEF K, Moved
<1> QED  BY <1>1, <1>2

LEMMA FollowsApplied ==
    ASSUME NEW M, NEW x, NEW y, NEW n, NEW s, NEW O, Follows(M, x, n, s, O)
    PROVE  Follows(M, y, n, s, O \cup {x})
BY DEF Follows

LEMMA FollowsReset ==
    ASSUME NEW M, NEW x, NEW n, NEW s, NEW O, Follows(M, x, n, s, O)
    PROVE  Follows(M \ {<<x, s>>}, n, n, s, O)
BY DEF Follows

LEMMA FollowsSubscribed ==
    ASSUME NEW M, NEW x, NEW n, NEW s, NEW O, Follows(M, x, n, s, O)
    PROVE  Follows(M \cup Pair(x, n, s), x, n, s, O)
<1>1. ASSUME NEW u, <<u, s>> \in Pair(x, n, s) PROVE u = x /\ x # n
  BY <1>1 DEF Pair
<1> QED  BY <1>1 DEF Follows

\* For any other session nothing changes.
SameFor(m, k, z) ==
    \A x : /\ <<x, z>> \in m.user <=> <<x, z>> \in k.user
           /\ <<x, z>> \in m.auth <=> <<x, z>> \in k.auth
           /\ <<x, z>> \in m.chan <=> <<x, z>> \in k.chan
OthersAs(m, k, s) == \A z : z # s => SameFor(m, k, z)

LEMMA SubscribeFacts ==
    ASSUME NEW m, NEW s, NEW S, IsMaps(m)
    PROVE  /\ IsMaps(Subscribe(m, s, S)) /\ OthersAs(m, Subscribe(m, s, S), s)
           /\ Subscribe(m, s, S).user = m.user \cup Pair(S.user, NoUser, s)
           /\ Subscribe(m, s, S).auth = m.auth \cup Pair(S.auth, 0, s)
           /\ Subscribe(m, s, S).chan = m.chan \cup (S.chans \X {s})
<1> DEFINE U == m.user \cup Pair(S.user, NoUser, s)
           A == m.auth \cup Pair(S.auth, 0, s)
           C == m.chan \cup (S.chans \X {s})
           k == Subscribe(m, s, S)
<1>1. ASSUME NEW z, z # s, NEW x
      PROVE  /\ <<x, z>> \in m.user <=> <<x, z>> \in U
             /\ <<x, z>> \in m.auth <=> <<x, z>> \in A
             /\ <<x, z>> \in m.chan <=> <<x, z>> \in C
  BY <1>1 DEF Pair
<1>2. k = [m EXCEPT !.user = U, !.auth = A, !.chan = C]  BY DEF Subscribe
<1> HIDE DEF U, A, C, k
<1>3. IsMaps(k) /\ k.user = U /\ k.auth = A /\ k.chan = C  BY <1>2 DEF IsMaps
<1>4. OthersAs(m, k, s)  BY <1>1, <1>3 DEF OthersAs, SameFor
<1> QED  BY <1>3, <1>4 DEF U, A, C, k

LEMMA UnsubscribeFacts ==
    ASSUME NEW m, NEW s, NEW S, IsMaps(m)
    PROVE  /\ IsMaps(Unsubscribe(m, s, S)) /\ OthersAs(m, Unsubscribe(m, s, S), s)
           /\ Unsubscribe(m, s, S).user = m.user \ {<<S.user, s>>}
           /\ Unsubscribe(m, s, S).auth = m.auth \ {<<S.auth, s>>}
           /\ Unsubscribe(m, s, S).chan = m.chan \ (S.chans \X {s})
<1> DEFINE U == m.user \ {<<S.user, s>>}
           A == m.auth \ {<<S.auth, s>>}
           C == m.chan \ (S.chans \X {s})
           k == Unsubscribe(m, s, S)
<1>1. ASSUME NEW z, z # s, NEW x
      PROVE  /\ <<x, z>> \in m.user <=> <<x, z>> \in U
             /\ <<x, z>> \in m.auth <=> <<x, z>> \in A
             /\ <<x, z>> \in m.chan <=> <<x, z>> \in C
  BY <1>1
<1>2. k = [m EXCEPT !.user = U, !.auth = A, !.chan = C]  BY DEF Unsubscribe
<1> HIDE DEF U, A, C, k
<1>3. IsMaps(k) /\ k.user = U /\ k.auth = A /\ k.chan = C  BY <1>2 DEF IsMaps
<1>4. OthersAs(m, k, s)  BY <1>1, <1>3 DEF OthersAs, SameFor
<1> QED  BY <1>3, <1>4 DEF U, A, C, k

LEMMA ResubscribedFacts ==
    ASSUME NEW m, NEW s, NEW S, NEW r, IsMaps(m)
    PROVE  /\ IsMaps(Resubscribed(m, s, S, r)) /\ OthersAs(m, Resubscribed(m, s, S, r), s)
           /\ Resubscribed(m, s, S, r).user = Moved(m.user, s, r.oldUser, S.user, NoUser)
           /\ Resubscribed(m, s, S, r).auth = Moved(m.auth, s, r.oldAuth, S.auth, 0)
           /\ Resubscribed(m, s, S, r).chan = m.chan
<1> DEFINE U == Moved(m.user, s, r.oldUser, S.user, NoUser)
           A == Moved(m.auth, s, r.oldAuth, S.auth, 0)
           k == Resubscribed(m, s, S, r)
<1>1. ASSUME NEW z, z # s, NEW x
      PROVE  /\ <<x, z>> \in m.user <=> <<x, z>> \in U
             /\ <<x, z>> \in m.auth <=> <<x, z>> \in A
  <2>1. \A a, b, n : <<x, z>> \notin Pair(b, n, s) /\ <<x, z>> # <<a, s>>
    BY <1>1 DEF Pair
  <2> QED  BY <2>1 DEF Moved
<1>2. k = [m EXCEPT !.user = U, !.auth = A]  BY DEF Resubscribed, Moved
<1> HIDE DEF U, A, k
<1>3. IsMaps(k) /\ k.user = U /\ k.auth = A /\ k.chan = m.chan  BY <1>2 DEF IsMaps
<1>4. OthersAs(m, k, s)  BY <1>1, <1>3 DEF OthersAs, SameFor
<1> QED  BY <1>3, <1>4 DEF U, A, k

LEMMA ChannelsDiffFacts ==
    ASSUME NEW m, NEW s, NEW del, NEW add, IsMaps(m)
    PROVE  /\ IsMaps(ChannelsDiffUpdate(m, s, del, add))
           /\ OthersAs(m, ChannelsDiffUpdate(m, s, del, add), s)
           /\ ChannelsDiffUpdate(m, s, del, add).user = m.user
           /\ ChannelsDiffUpdate(m, s, del, add).auth = m.auth
           /\ ChannelsDiffUpdate(m, s, del, add).chan
                 = (m.chan \ (del \X {s})) \cup (add \X {s})
<1> DEFINE C == (m.chan \ (del \X {s})) \cup (add \X {s})
           k == ChannelsDiffUpdate(m, s, del, add)
<1>1. ASSUME NEW z, z # s, NEW x
      PROVE  <<x, z>> \in m.chan <=> <<x, z>> \in C
  BY <1>1
<1>2. k = [m EXCEPT !.chan = C]  BY DEF ChannelsDiffUpdate
<1> HIDE DEF C, k
<1>3. IsMaps(k) /\ k.user = m.user /\ k.auth = m.auth /\ k.chan = C
  BY <1>2 DEF IsMaps
<1>4. OthersAs(m, k, s)  BY <1>1, <1>3 DEF OthersAs, SameFor
<1> QED  BY <1>3, <1>4 DEF C, k

-----------------------------------------------------------------------------
(* A session and one of its tasks *)

\* Task t of session s becomes q, of the same session or none.
OfSession(r, s) == r.s = s \/ r.s = NoSession
TaskMoves(tk, k, t, q, s) ==
    /\ k = [tk EXCEPT ![t] = q] /\ DOMAIN tk = Tasks
    /\ OfSession(tk[t], s) /\ OfSession(q, s)

LEMMA SessionsAreNamed == \A s \in Sessions : s # NoSession
BY AuthAssumption

LEMMA OldsQuiet ==
    ASSUME NEW tk, NEW k, NEW t \in Tasks, NEW q, NEW s \in Sessions, TaskMoves(tk, k, t, q, s),
           \/ ~IsLate(tk[t], s) /\ ~IsLate(q, s)
           \/ /\ IsLate(tk[t], s) /\ IsLate(q, s)
              /\ q.oldUser = tk[t].oldUser /\ q.oldAuth = tk[t].oldAuth
    PROVE  OldUsers(k, s) = OldUsers(tk, s) /\ OldAuths(k, s) = OldAuths(tk, s)
<1>1. k[t] = q /\ \A d \in Tasks : d # t => k[d] = tk[d]
  BY DEF TaskMoves
<1>2. \A d \in Tasks : /\ IsLate(k[d], s) <=> IsLate(tk[d], s)
                       /\ IsLate(k[d], s) => /\ k[d].oldUser = tk[d].oldUser
                                             /\ k[d].oldAuth = tk[d].oldAuth
  BY <1>1
<1> QED  BY <1>2 DEF OldUsers, OldAuths

LEMMA OldsEnter ==
    ASSUME NEW tk, NEW k, NEW t \in Tasks, NEW q, NEW s \in Sessions, TaskMoves(tk, k, t, q, s),
           ~IsLate(tk[t], s), IsLate(q, s)
    PROVE  /\ OldUsers(k, s) = OldUsers(tk, s) \cup {q.oldUser}
           /\ OldAuths(k, s) = OldAuths(tk, s) \cup {q.oldAuth}
<1>1. k[t] = q /\ \A d \in Tasks : d # t => k[d] = tk[d]
  BY DEF TaskMoves
<1> QED  BY <1>1 DEF OldUsers, OldAuths

LEMMA OldsLeave ==
    ASSUME NEW tk, NEW k, NEW t \in Tasks, NEW q, NEW s \in Sessions, TaskMoves(tk, k, t, q, s),
           IsLate(tk[t], s), ~IsLate(q, s)
    PROVE  /\ OldUsers(k, s) \subseteq OldUsers(tk, s)
           /\ OldUsers(tk, s) \ {tk[t].oldUser} \subseteq OldUsers(k, s)
           /\ OldAuths(k, s) \subseteq OldAuths(tk, s)
           /\ OldAuths(tk, s) \ {tk[t].oldAuth} \subseteq OldAuths(k, s)
<1>1. k[t] = q /\ \A d \in Tasks : d # t => k[d] = tk[d]
  BY DEF TaskMoves
<1> QED  BY <1>1 DEF OldUsers, OldAuths

\* The other sessions.
LEMMA OthersHold ==
    ASSUME NEW tk, NEW k, NEW t \in Tasks, NEW q, NEW s \in Sessions, TaskMoves(tk, k, t, q, s),
           NEW z \in Sessions, z # s, NEW m, NEW n, SameFor(m, n, z),
           NEW S, NEW e, MapsHold(S, m, tk, e, z)
    PROVE  MapsHold(S, n, k, e, z)
<1>1. z # NoSession  BY SessionsAreNamed
<1>2. tk[t].s # z /\ q.s # z  BY <1>1 DEF TaskMoves, OfSession
<1>3. \A d \in Tasks : k[d] = tk[d] \/ (tk[d].s # z /\ k[d].s # z)
  BY <1>2 DEF TaskMoves
<1>4. OldUsers(k, z) = OldUsers(tk, z) /\ OldAuths(k, z) = OldAuths(tk, z)
  BY <1>3 DEF OldUsers, OldAuths, IsLate
<1>5. ASSUME S.stored PROVE MapsKnown(S, n, k, e, z)
  <2>1. MapsKnown(S, m, tk, e, z)  BY <1>5 DEF MapsHold
  <2> QED  BY <1>4, <2>1 DEF MapsKnown, Follows, ChansFollow, SameFor
<1>6. ASSUME ~S.stored PROVE MapsForgotten(n, k, e, z)
  <2>1. MapsForgotten(m, tk, e, z)  BY <1>6 DEF MapsHold
  <2> QED  BY <1>3, <2>1 DEF MapsForgotten, SameFor
<1> QED  BY <1>5, <1>6 DEF MapsHold

LEMMA OthersWithin ==
    ASSUME NEW tk, NEW k, NEW t \in Tasks, NEW q, NEW s \in Sessions, TaskMoves(tk, k, t, q, s),
           NEW z \in Sessions, z # s, NEW S, NEW L, NEW D, NEW E, D \subseteq E,
           Within(S, tk, L, D, z)
    PROVE  Within(S, k, L, E, z)
<1>1. z # NoSession  BY SessionsAreNamed
<1>2. tk[t].s # z /\ q.s # z  BY <1>1 DEF TaskMoves, OfSession
<1>3. \A d \in Tasks : k[d] = tk[d] \/ (tk[d].s # z /\ k[d].s # z)
  BY <1>2 DEF TaskMoves
<1> QED  BY <1>3 DEF Within

\* A step of task t for session s: the session is S after it, the maps m.
OneStep(t, s, S, m, q, L, e) ==
    /\ ses' = [ses EXCEPT ![s] = S]
    /\ sub' = m
    /\ task' = [task EXCEPT ![t] = q]
    /\ lapsed' = [lapsed EXCEPT ![s] = L]
    /\ extra' = [extra EXCEPT ![s] = e]
LEMMA OneStepCurrent ==
    ASSUME CurrentInv, PasswordInv', NEW t \in Tasks, NEW s \in Sessions,
           NEW S, NEW m, NEW q, NEW L, NEW e, OneStep(t, s, S, m, q, L, e),
           OfSession(task[t], s), OfSession(q, s), IsMaps(m), OthersAs(sub, m, s),
           Deleted \subseteq Deleted', raced \subseteq raced',
           s \notin raced' => /\ MapsHold(S, m, task', e, s)
                              /\ Within(S, task', L, Deleted', s)
    PROVE  CurrentInv'
<1>1. /\ DOMAIN task = Tasks /\ DOMAIN ses = Sessions /\ DOMAIN lapsed = Sessions
      /\ DOMAIN extra = Sessions
  BY DEF CurrentInv, PasswordInv, TaskInv, SesInv, MemInv
<1>2. TaskMoves(task, task', t, q, s)  BY <1>1 DEF TaskMoves, OneStep
<1>3. ASSUME NEW z \in Sessions, z \notin raced', z # s
      PROVE  MapsHold(ses'[z], sub', task', extra'[z], z)
             /\ Within(ses'[z], task', lapsed'[z], Deleted', z)
  <2>1. ses'[z] = ses[z] /\ extra'[z] = extra[z] /\ lapsed'[z] = lapsed[z] /\ sub' = m
    BY <1>1, <1>3 DEF OneStep
  <2>2. MapsHold(ses[z], sub, task, extra[z], z)
        /\ Within(ses[z], task, lapsed[z], Deleted, z)
    BY <1>3 DEF CurrentInv
  <2>3. SameFor(sub, m, z)  BY <1>3 DEF OthersAs
  <2>4. MapsHold(ses[z], m, task', extra[z], z)  BY <1>2, <1>3, <2>2, <2>3, OthersHold
  <2>5. Within(ses[z], task', lapsed[z], Deleted', z)
    BY <1>2, <1>3, <2>2, OthersWithin
  <2> QED  BY <2>1, <2>4, <2>5
<1>4. ASSUME s \notin raced'
      PROVE  MapsHold(ses'[s], sub', task', extra'[s], s)
             /\ Within(ses'[s], task', lapsed'[s], Deleted', s)
  <2>1. ses'[s] = S /\ extra'[s] = e /\ lapsed'[s] = L /\ sub' = m
    BY <1>1 DEF OneStep
  <2> QED  BY <1>4, <2>1
<1>5. IsMaps(sub') /\ extra' = [z \in Sessions |-> extra'[z]]
  <2>1. extra = [z \in Sessions |-> extra[z]] /\ extra' = [extra EXCEPT ![s] = e]
    BY DEF OneStep, CurrentInv
  <2> QED  BY <2>1 DEF OneStep
<1> QED  BY <1>3, <1>4, <1>5 DEF CurrentInv

-----------------------------------------------------------------------------
(* The maps of the session of a step *)

\* S2 is S1 as far as the maps are concerned.
LikeSes(S1, S2) == /\ S2.stored = S1.stored /\ S2.user = S1.user
                   /\ S2.auth = S1.auth /\ S2.chans = S1.chans

\* The task was not late and is not late.
LEMMA QuietHolds ==
    ASSUME NEW tk, NEW k, NEW t \in Tasks, NEW q, NEW s \in Sessions, TaskMoves(tk, k, t, q, s),
           NEW S, NEW S2, LikeSes(S, S2), S.stored, NEW m, NEW e, MapsHold(S, m, tk, e, s),
           \/ ~IsLate(tk[t], s) /\ ~IsLate(q, s)
           \/ /\ IsLate(tk[t], s) /\ IsLate(q, s)
              /\ q.oldUser = tk[t].oldUser /\ q.oldAuth = tk[t].oldAuth
    PROVE  MapsHold(S2, m, k, e, s)
<1>1. OldUsers(k, s) = OldUsers(tk, s) /\ OldAuths(k, s) = OldAuths(tk, s)
  BY OldsQuiet
<1>2. MapsKnown(S, m, tk, e, s)  BY DEF MapsHold
<1>3. MapsKnown(S2, m, k, e, s)  BY <1>1, <1>2 DEF MapsKnown, LikeSes
<1> QED  BY <1>3 DEF MapsHold, LikeSes

\* An answer is applied: the session may have another user and authorization.
LEMMA AppliedHolds ==
    ASSUME NEW tk, NEW k, NEW t \in Tasks, NEW q, NEW s \in Sessions, TaskMoves(tk, k, t, q, s),
           NEW S, NEW S2, S.stored, S2.stored, S2.chans = S.chans,
           NEW m, NEW e, MapsHold(S, m, tk, e, s),
           ~IsLate(tk[t], s), IsLate(q, s), q.oldUser = S.user, q.oldAuth = S.auth
    PROVE  MapsHold(S2, m, k, e, s)
<1>1. /\ OldUsers(k, s) = OldUsers(tk, s) \cup {S.user}
      /\ OldAuths(k, s) = OldAuths(tk, s) \cup {S.auth}
  BY OldsEnter
<1>2. MapsKnown(S, m, tk, e, s)  BY DEF MapsHold
<1>3. MapsKnown(S2, m, k, e, s)  BY <1>1, <1>2, FollowsApplied DEF MapsKnown
<1> QED  BY <1>3 DEF MapsHold

\* The same, and the refresh ends.
LEMMA AppliedEndHolds ==
    ASSUME NEW tk, NEW k, NEW t \in Tasks, NEW q, NEW s \in Sessions, TaskMoves(tk, k, t, q, s),
           NEW S, NEW S2, S.stored, S2.stored, S2.chans = S.chans,
           NEW m, NEW e, MapsHold(S, m, tk, e, s), IsMaps(m),
           ~IsLate(tk[t], s), ~IsLate(q, s), NEW r, r.oldUser = S.user, r.oldAuth = S.auth
    PROVE  MapsHold(S2, Resubscribed(m, s, S2, r), k, e, s)
<1> DEFINE n == Resubscribed(m, s, S2, r)
<1>1. OldUsers(k, s) = OldUsers(tk, s) /\ OldAuths(k, s) = OldAuths(tk, s)
  BY OldsQuiet
<1>2. MapsKnown(S, m, tk, e, s)  BY DEF MapsHold
<1>3. /\ n.user = Moved(m.user, s, r.oldUser, S2.user, NoUser)
      /\ n.auth = Moved(m.auth, s, r.oldAuth, S2.auth, 0)
      /\ n.chan = m.chan
  BY ResubscribedFacts
<1> HIDE DEF n
<1>4. Follows(n.user, S2.user, NoUser, s, OldUsers(k, s))
  <2> DEFINE O == OldUsers(tk, s)  P == O \cup {S.user}
  <2>1. Follows(m.user, S2.user, NoUser, s, P)
    BY <1>2, FollowsApplied DEF MapsKnown
  <2>2. O \subseteq P /\ P \ {S.user} \subseteq O  OBVIOUS
  <2> HIDE DEF O, P
  <2>3. Follows(Moved(m.user, s, S.user, S2.user, NoUser), S2.user, NoUser, s, O)
    BY <2>1, <2>2, FollowsAtEnd
  <2> QED  BY <1>1, <1>3, <2>3 DEF O
<1>5. Follows(n.auth, S2.auth, 0, s, OldAuths(k, s))
  <2> DEFINE O == OldAuths(tk, s)  P == O \cup {S.auth}
  <2>1. Follows(m.auth, S2.auth, 0, s, P)
    BY <1>2, FollowsApplied DEF MapsKnown
  <2>2. O \subseteq P /\ P \ {S.auth} \subseteq O  OBVIOUS
  <2> HIDE DEF O, P
  <2>3. Follows(Moved(m.auth, s, S.auth, S2.auth, 0), S2.auth, 0, s, O)
    BY <2>1, <2>2, FollowsAtEnd
  <2> QED  BY <1>1, <1>3, <2>3 DEF O
<1>6. ChansFollow(n.chan, S2.chans, e, s)  BY <1>2, <1>3 DEF MapsKnown
<1> QED  BY <1>4, <1>5, <1>6 DEF MapsHold, MapsKnown, n

\* A late refresh brings its channels and ends.
LEMMA LateEndHolds ==
    ASSUME NEW tk, NEW k, NEW t \in Tasks, NEW q, NEW s \in Sessions, TaskMoves(tk, k, t, q, s),
           NEW S, NEW S2, S.stored, S2.stored, S2.user = S.user, S2.auth = S.auth,
           NEW m, NEW e, MapsHold(S, m, tk, e, s), IsMaps(m),
           IsLate(tk[t], s), ~IsLate(q, s),
           NEW n, IsMaps(n), n.user = m.user, n.auth = m.auth,
           n.chan = (m.chan \ ((S.chans \ S2.chans) \X {s})) \cup ((S2.chans \ S.chans) \X {s})
    PROVE  MapsHold(S2, Resubscribed(n, s, S2, tk[t]), k, e \ S2.chans, s)
<1> DEFINE p == Resubscribed(n, s, S2, tk[t])
<1>1. /\ OldUsers(k, s) \subseteq OldUsers(tk, s)
      /\ OldUsers(tk, s) \ {tk[t].oldUser} \subseteq OldUsers(k, s)
      /\ OldAuths(k, s) \subseteq OldAuths(tk, s)
      /\ OldAuths(tk, s) \ {tk[t].oldAuth} \subseteq OldAuths(k, s)
  BY OldsLeave
<1>2. MapsKnown(S, m, tk, e, s)  BY DEF MapsHold
<1>3. /\ p.user = Moved(m.user, s, tk[t].oldUser, S.user, NoUser)
      /\ p.auth = Moved(m.auth, s, tk[t].oldAuth, S.auth, 0)
      /\ p.chan = n.chan
  BY ResubscribedFacts
<1> HIDE DEF p
<1>4. Follows(p.user, S2.user, NoUser, s, OldUsers(k, s))
  <2> DEFINE O == OldUsers(tk, s)  P == OldUsers(k, s)  o == tk[t].oldUser
  <2>1. Follows(m.user, S.user, NoUser, s, O)  BY <1>2 DEF MapsKnown
  <2>2. P \subseteq O /\ O \ {o} \subseteq P  BY <1>1
  <2> HIDE DEF O, P, o
  <2>3. Follows(Moved(m.user, s, o, S.user, NoUser), S.user, NoUser, s, P)
    BY <2>1, <2>2, FollowsAtEnd
  <2> QED  BY <1>3, <2>3 DEF P, o
<1>5. Follows(p.auth, S2.auth, 0, s, OldAuths(k, s))
  <2> DEFINE O == OldAuths(tk, s)  P == OldAuths(k, s)  o == tk[t].oldAuth
  <2>1. Follows(m.auth, S.auth, 0, s, O)  BY <1>2 DEF MapsKnown
  <2>2. P \subseteq O /\ O \ {o} \subseteq P  BY <1>1
  <2> HIDE DEF O, P, o
  <2>3. Follows(Moved(m.auth, s, o, S.auth, 0), S.auth, 0, s, P)
    BY <2>1, <2>2, FollowsAtEnd
  <2> QED  BY <1>3, <2>3 DEF P, o
<1>6. ChansFollow(p.chan, S2.chans, e \ S2.chans, s)
  <2>1. /\ \A c : <<c, s>> \in m.chan => c \in S.chans \/ c \in e
        /\ \A c \in S.chans : <<c, s>> \in m.chan
    BY <1>2 DEF MapsKnown, ChansFollow
  <2>2. \A c : <<c, s>> \in p.chan <=> \/ <<c, s>> \in m.chan /\ (c \notin S.chans \/ c \in S2.chans)
                                       \/ c \in S2.chans /\ c \notin S.chans
    BY <1>3
  <2> QED  BY <2>1, <2>2 DEF ChansFollow
<1> QED  BY <1>4, <1>5, <1>6 DEF MapsHold, MapsKnown, p

\* A reset.
LEMMA ResetHolds ==
    ASSUME NEW tk, NEW k, NEW t \in Tasks, NEW q, NEW s \in Sessions, TaskMoves(tk, k, t, q, s),
           NEW S, NEW S1, LikeSes(S, S1), NEW S2, S.stored, S2.stored,
           S2.user = NoUser, S2.auth = 0, S2.chans = {},
           NEW m, NEW e, MapsHold(S, m, tk, e, s), IsMaps(m),
           ~IsLate(tk[t], s), ~IsLate(q, s)
    PROVE  MapsHold(S2, Unsubscribe(m, s, S1), k, e, s)
<1> DEFINE n == Unsubscribe(m, s, S1)
<1>1. OldUsers(k, s) = OldUsers(tk, s) /\ OldAuths(k, s) = OldAuths(tk, s)
  BY OldsQuiet
<1>2. MapsKnown(S, m, tk, e, s)  BY DEF MapsHold
<1>3. /\ n.user = m.user \ {<<S.user, s>>} /\ n.auth = m.auth \ {<<S.auth, s>>}
      /\ n.chan = m.chan \ (S.chans \X {s})
  BY UnsubscribeFacts DEF LikeSes
<1> HIDE DEF n
<1>4. Follows(n.user, NoUser, NoUser, s, OldUsers(k, s))
  BY <1>1, <1>2, <1>3, FollowsReset DEF MapsKnown
<1>5. Follows(n.auth, 0, 0, s, OldAuths(k, s))
  BY <1>1, <1>2, <1>3, FollowsReset DEF MapsKnown
<1>6. ChansFollow(n.chan, {}, e, s)  BY <1>2, <1>3 DEF MapsKnown, ChansFollow
<1> QED  BY <1>4, <1>5, <1>6 DEF MapsHold, MapsKnown, n

LEMMA SubscribedHolds ==
    ASSUME NEW k, NEW s \in Sessions, NEW S, S.stored, NEW m, NEW e, IsMaps(m),
           MapsHold(S, m, k, e, s)
    PROVE  MapsHold(S, Subscribe(m, s, S), k, e, s)
<1> DEFINE n == Subscribe(m, s, S)
<1>1. MapsKnown(S, m, k, e, s)  BY DEF MapsHold
<1>2. /\ n.user = m.user \cup Pair(S.user, NoUser, s) /\ n.auth = m.auth \cup Pair(S.auth, 0, s)
      /\ n.chan = m.chan \cup (S.chans \X {s})
  BY SubscribeFacts
<1> HIDE DEF n
<1>3. ChansFollow(n.chan, S.chans, e, s)  BY <1>1, <1>2 DEF MapsKnown, ChansFollow
<1>4. MapsKnown(S, n, k, e, s)  BY <1>1, <1>2, <1>3, FollowsSubscribed DEF MapsKnown
<1> QED  BY <1>4 DEF MapsHold, n

-----------------------------------------------------------------------------
(* The window of the session of a step *)

\* The authorization of the session stays.
LEMMA QuietWithin ==
    ASSUME NEW tk, NEW k, NEW t \in Tasks, NEW q, NEW s \in Sessions, TaskMoves(tk, k, t, q, s),
           NEW S, NEW S2, S2.auth = S.auth, NEW L, NEW D, NEW E, D \subseteq E,
           Within(S, tk, L, D, s), q.s = s => InWindow(q, S, L),
           tk[t].s = s => tk[t].step # "apply"
    PROVE  Within(S2, k, L, E, s)
<1>1. k[t] = q /\ \A d \in Tasks : d # t => k[d] = tk[d]
  BY DEF TaskMoves
<1>2. ASSUME NEW d \in Tasks, k[d].s = s PROVE InWindow(k[d], S2, L)
  <2>1. InWindow(k[d], S, L)  BY <1>1, <1>2 DEF Within
  <2> QED  BY <2>1 DEF InWindow
<1>3. ASSUME S2.auth \in L PROVE \E d \in Tasks : k[d].s = s /\ k[d].step = "apply"
  <2>1. PICK d \in Tasks : tk[d].s = s /\ tk[d].step = "apply"
    BY <1>3 DEF Within
  <2> QED  BY <1>1, <2>1
<1>4. L \subseteq E  BY DEF Within
<1> QED  BY <1>2, <1>3, <1>4 DEF Within

\* The authorization is looked up.
LEMMA LookUpWithin ==
    ASSUME NEW tk, NEW k, NEW t \in Tasks, NEW q, NEW s \in Sessions, TaskMoves(tk, k, t, q, s),
           NEW S, NEW S2, S2.auth = S.auth, NEW L, NEW D, Within(S, tk, L, D, s),
           q.s = s, q.step = "apply", q.gone = D
    PROVE  Within(S2, k, D, D, s)
<1>1. k[t] = q /\ \A d \in Tasks : d # t => k[d] = tk[d]
  BY DEF TaskMoves
<1>2. ASSUME NEW d \in Tasks, k[d].s = s PROVE InWindow(k[d], S2, D)
  <2>1. CASE d = t  BY <1>1, <2>1 DEF InWindow, LateSteps
  <2>2. CASE d # t
    <3>1. InWindow(k[d], S, L)  BY <1>1, <1>2, <2>2 DEF Within
    <3>2. L \subseteq D  BY DEF Within
    <3> QED  BY <3>1, <3>2 DEF InWindow
  <2> QED  BY <2>1, <2>2
<1>3. \E d \in Tasks : k[d].s = s /\ k[d].step = "apply"  BY <1>1
<1> QED  BY <1>2, <1>3 DEF Within

\* The session gets an authorization that was not gone.
LEMMA NewAuthWithin ==
    ASSUME NEW tk, NEW k, NEW t \in Tasks, NEW q, NEW s \in Sessions, TaskMoves(tk, k, t, q, s),
           NEW S, NEW S2, NEW L, NEW D, Within(S, tk, L, D, s), S2.auth \notin L,
           q.s = s => q.gone \subseteq L /\ q.step # "run"
    PROVE  Within(S2, k, L, D, s)
<1>1. k[t] = q /\ \A d \in Tasks : d # t => k[d] = tk[d]
  BY DEF TaskMoves
<1>2. ASSUME NEW d \in Tasks, k[d].s = s PROVE InWindow(k[d], S2, L)
  <2>1. CASE d = t  BY <1>1, <1>2, <2>1 DEF InWindow, LateSteps
  <2>2. CASE d # t
    <3>1. InWindow(k[d], S, L)  BY <1>1, <1>2, <2>2 DEF Within
    <3> QED  BY <3>1 DEF InWindow
  <2> QED  BY <2>1, <2>2
<1>3. L \subseteq D  BY DEF Within
<1> QED  BY <1>2, <1>3 DEF Within

-----------------------------------------------------------------------------
(* What a step needs to know *)

\* A deleted authorization stays deleted: ids are not used twice.
LEMMA DeletedStays ==
    ASSUME DbInv, DbInv', nextAuth' \in {nextAuth, nextAuth + 1},
           \A k \in Keys : \/ auths'[k].id \in {0, nextAuth}
                           \/ \E j \in Keys : auths'[k].id = auths[j].id
    PROVE  Deleted \subseteq Deleted'
<1> SUFFICES ASSUME NEW a \in Deleted PROVE a \in Deleted'
  OBVIOUS
<1>1. nextAuth \in Nat /\ nextAuth' \in Nat  BY DEF DbInv
<1>2. a \in 1 .. nextAuth - 1 /\ \A j \in Keys : auths[j].id # a
  BY DEF Deleted, Exists
<1>3. a \in 1 .. nextAuth' - 1 /\ a # 0 /\ a # nextAuth
  <2>1. a \in Int /\ 1 <= a /\ a <= nextAuth - 1  BY <1>1, <1>2
  <2> DEFINE n == nextAuth  m == nextAuth'
  <2>2. n \in Nat /\ m \in Nat /\ (m = n \/ m = n + 1) /\ a <= n - 1
    BY <1>1, <2>1
  <2> HIDE DEF n, m
  <2>3. a \in 1 .. m - 1 /\ a # 0 /\ a # n  BY <2>1, <2>2
  <2> QED  BY <2>3 DEF n, m
<1>4. \A k \in Keys : auths'[k].id # a  BY <1>2, <1>3
<1> QED  BY <1>3, <1>4 DEF Deleted, Exists

LEMMA DeletedSame ==
    ASSUME UNCHANGED <<auths, nextAuth>>
    PROVE  Deleted' = Deleted
BY DEF Deleted, Exists

LEMMA NoIdZero ==
    ASSUME CurrentInv, NEW s \in Sessions, s \notin raced
    PROVE  0 \notin lapsed[s]
<1>1. lapsed[s] \subseteq Deleted  BY DEF CurrentInv, Within
<1>2. nextAuth \in Nat  BY DEF CurrentInv, PasswordInv, DbInv
<1> QED  BY <1>1, <1>2 DEF Deleted

\* A session that is not raced and has a task is in SessionManager.sessions.
LEMMA TaskStored ==
    ASSUME CurrentInv, NEW t \in Tasks, NEW s \in Sessions, task[t].s = s, s \notin raced
    PROVE  ses[s].stored
<1>1. MapsHold(ses[s], sub, task, extra[s], s)  BY DEF CurrentInv
<1>2. ses[s].stored \in BOOLEAN  BY DEF CurrentInv, PasswordInv, SesInv, SesShape
<1> QED  BY <1>1, <1>2 DEF MapsHold, MapsForgotten

\* Same session, same authorization and window.
Like(q, r) == /\ q.s = r.s /\ q.gone = r.gone /\ q.auth = r.auth /\ q.op = r.op
              /\ q.oldUser = r.oldUser /\ q.oldAuth = r.oldAuth /\ q.force = r.force
              /\ q.arg = r.arg
LEMMA IdleFacts == /\ IdleTask.s = NoSession /\ IdleTask.step = "idle"
                   /\ IdleTask.gone = {} /\ IdleTask.force = FALSE
BY DEF IdleTask

LEMMA AfterRefreshFacts ==
    ASSUME NEW r
    PROVE  /\ OfSession(AfterRefresh(r), r.s)
           /\ AfterRefresh(r).step \in {"idle", "kick"}
           /\ AfterRefresh(r).gone = {} \/ AfterRefresh(r).gone = r.gone
<1>1. CASE r.force  BY <1>1, IdleFacts DEF AfterRefresh, OfSession
<1>2. CASE ~r.force
  <2> DEFINE q == [Asks(r.s, r.op, r.arg) EXCEPT !.step = "kick", !.gone = r.gone]
  <2>1. q.s = r.s /\ q.step = "kick" /\ q.gone = r.gone  BY DEF Asks, IdleTask
  <2>2. AfterRefresh(r) = q  BY <1>2 DEF AfterRefresh
  <2> QED  BY <2>1, <2>2 DEF OfSession
<1> QED  BY <1>1, <1>2

\* The edits of a session.
LEMMA SesEditFacts ==
    ASSUME NEW S \in SesShape, NEW b, NEW X, NEW u, NEW a, NEW w
    PROVE  /\ LikeSes(S, [S EXCEPT !.loaded = b]) /\ LikeSes(S, [S EXCEPT !.data = b])
           /\ LikeSes(S, [S EXCEPT !.perm = b])
           /\ [S EXCEPT !.chans = X].stored = S.stored
           /\ [S EXCEPT !.chans = X].user = S.user /\ [S EXCEPT !.chans = X].auth = S.auth
           /\ [S EXCEPT !.chans = X].chans = X
           /\ [S EXCEPT !.user = u, !.auth = a, !.mfa = w].stored = S.stored
           /\ [S EXCEPT !.user = u, !.auth = a, !.mfa = w].user = u
           /\ [S EXCEPT !.user = u, !.auth = a, !.mfa = w].auth = a
           /\ [S EXCEPT !.user = u, !.auth = a, !.mfa = w].chans = S.chans
           /\ ResetSession(S).stored = S.stored /\ ResetSession(S).user = NoUser
           /\ ResetSession(S).auth = 0 /\ ResetSession(S).chans = {}
<1>1. /\ LikeSes(S, [S EXCEPT !.loaded = b]) /\ LikeSes(S, [S EXCEPT !.data = b])
      /\ LikeSes(S, [S EXCEPT !.perm = b])
  BY DEF LikeSes, SesShape
<1>2. /\ [S EXCEPT !.chans = X].stored = S.stored
      /\ [S EXCEPT !.chans = X].user = S.user /\ [S EXCEPT !.chans = X].auth = S.auth
      /\ [S EXCEPT !.chans = X].chans = X
  BY DEF SesShape
<1>3. /\ [S EXCEPT !.user = u, !.auth = a, !.mfa = w].stored = S.stored
      /\ [S EXCEPT !.user = u, !.auth = a, !.mfa = w].user = u
      /\ [S EXCEPT !.user = u, !.auth = a, !.mfa = w].auth = a
      /\ [S EXCEPT !.user = u, !.auth = a, !.mfa = w].chans = S.chans
  BY DEF SesShape
<1>4. /\ ResetSession(S).stored = S.stored /\ ResetSession(S).user = NoUser
      /\ ResetSession(S).auth = 0 /\ ResetSession(S).chans = {}
  BY DEF ResetSession, SesShape
<1> QED  BY <1>1, <1>2, <1>3, <1>4

LEMMA WithKeyFacts ==
    ASSUME PasswordInv, NEW r, Live(r)
    PROVE  LikeSes(ses[r.s], WithKey(r)) /\ WithKey(r) \in SesShape
<1>1. ses[r.s] \in SesShape  BY DEF PasswordInv, SesInv, Live
<1>2. WithKey(r) \in SesShape  BY WithKeyGood DEF GoodSes
<1>3. CASE r.force  BY <1>1, <1>2, <1>3, SesEditFacts DEF WithKey
<1>4. CASE ~r.force  BY <1>2, <1>4 DEF WithKey, LikeSes
<1> QED  BY <1>2, <1>3, <1>4

-----------------------------------------------------------------------------
(* Steps of a refresh keep CurrentInv *)

LEMMA LapsedSame ==
    ASSUME CurrentInv, NEW s \in Sessions
    PROVE  /\ lapsed = [lapsed EXCEPT ![s] = lapsed[s]]
           /\ extra = [extra EXCEPT ![s] = extra[s]]
           /\ ses = [ses EXCEPT ![s] = ses[s]]
<1>1. lapsed \in [Sessions -> SUBSET Int] /\ ses \in [Sessions -> SesShape]
  BY DEF CurrentInv, PasswordInv, MemInv, SesInv
<1>2. extra = [z \in Sessions |-> extra[z]]  BY DEF CurrentInv
<1> QED  BY <1>1, <1>2

LEMMA OthersTwice ==
    ASSUME NEW m, NEW n, NEW k, NEW s, OthersAs(m, n, s), OthersAs(n, k, s)
    PROVE  OthersAs(m, k, s)
BY DEF OthersAs, SameFor

LEMMA MapsAfterFacts ==
    ASSUME NEW s \in Sessions, NEW m, NEW S, NEW r, NEW k, NEW e, NEW P \in BOOLEAN,
           IsMaps(m), OthersAs(sub, m, s), P => S.stored /\ MapsHold(S, m, k, e, s)
    PROVE  /\ IsMaps(MapsAfter(m, s, S, r)) /\ OthersAs(sub, MapsAfter(m, s, S, r), s)
           /\ P => MapsHold(S, MapsAfter(m, s, S, r), k, e, s)
<1>1. CASE r.op = "register"
  <2>1. IsMaps(Subscribe(m, s, S)) /\ OthersAs(m, Subscribe(m, s, S), s)
    BY SubscribeFacts
  <2>2. P => MapsHold(S, Subscribe(m, s, S), k, e, s)  BY SubscribedHolds
  <2> QED  BY <1>1, <2>1, <2>2, OthersTwice DEF MapsAfter
<1>2. CASE r.op # "register"  BY <1>2 DEF MapsAfter
<1> QED  BY <1>1, <1>2

\* The session becomes S by the answer of the refresh r, which began with what
\* the session still is.
MayApply(t, s, S, r) ==
    /\ ses[s].stored /\ S.stored /\ S.chans = ses[s].chans
    /\ r.oldUser = ses[s].user /\ r.oldAuth = ses[s].auth
    /\ ~IsLate(task[t], s) /\ r.gone \subseteq lapsed[s]
    /\ \/ S.auth \notin lapsed[s]
       \/ /\ S.auth = ses[s].auth /\ S.auth \notin r.gone
          /\ task[t].s = s => task[t].step # "apply"

LEMMA AppliedWithin ==
    ASSUME CurrentInv, NEW t \in Tasks, NEW s \in Sessions, s \notin raced,
           NEW S, NEW r, NEW q, MayApply(t, s, S, r),
           OfSession(task[t], s), OfSession(q, s), task' = [task EXCEPT ![t] = q],
           q.step \in LateSteps \cup {"idle", "kick"}, q.gone = {} \/ q.gone = r.gone
    PROVE  Within(S, task', lapsed[s], Deleted, s)
<1>1. TaskMoves(task, task', t, q, s)
  BY DEF TaskMoves, CurrentInv, PasswordInv, TaskInv
<1>2. Within(ses[s], task, lapsed[s], Deleted, s)  BY DEF CurrentInv
<1>3. q.gone \subseteq lapsed[s] /\ q.step # "run"  BY DEF MayApply, LateSteps
<1>4. CASE S.auth \notin lapsed[s]  BY <1>1, <1>2, <1>3, <1>4, NewAuthWithin
<1>5. CASE /\ S.auth = ses[s].auth /\ S.auth \notin r.gone
           /\ task[t].s = s => task[t].step # "apply"
  <2>1. InWindow(q, ses[s], lapsed[s])  BY <1>3, <1>5 DEF InWindow
  <2> QED  BY <1>1, <1>2, <1>5, <2>1, QuietWithin
<1> QED  BY <1>4, <1>5 DEF MayApply

\* The answer is applied, and the refresh goes on as q.
LEMMA AppliedCurrent ==
    ASSUME CurrentInv, PasswordInv', NEW t \in Tasks, NEW s \in Sessions, NEW S, NEW r, NEW q,
           r.s = s, Like(q, r), q.step \in LateSteps, OfSession(task[t], s),
           Continues(t, S, q), raced \subseteq raced',
           UNCHANGED <<auths, nextAuth, lapsed, extra>>,
           s \notin raced' => MayApply(t, s, S, r)
    PROVE  CurrentInv'
<1>1. /\ ses' = [ses EXCEPT ![s] = S] /\ sub' = sub /\ task' = [task EXCEPT ![t] = q]
      /\ q.s = s
  BY DEF Continues, Like
<1>2. OneStep(t, s, S, sub, q, lapsed[s], extra[s])  BY <1>1, LapsedSame DEF OneStep
<1>3. IsMaps(sub) /\ OthersAs(sub, sub, s)  BY DEF CurrentInv, OthersAs, SameFor
<1>4. Deleted' = Deleted  BY DeletedSame
<1>5. OfSession(q, s)  BY <1>1 DEF OfSession
<1>6. ASSUME s \notin raced'
      PROVE  MapsHold(S, sub, task', extra[s], s)
             /\ Within(S, task', lapsed[s], Deleted', s)
  <2>1. MayApply(t, s, S, r) /\ s \notin raced  BY <1>6
  <2>2. TaskMoves(task, task', t, q, s)
    BY <1>1, <1>5 DEF TaskMoves, CurrentInv, PasswordInv, TaskInv
  <2>3. MapsHold(ses[s], sub, task, extra[s], s)  BY <2>1 DEF CurrentInv
  <2>4. IsLate(q, s) /\ q.oldUser = ses[s].user /\ q.oldAuth = ses[s].auth
    BY <1>1, <2>1 DEF IsLate, Like, MayApply
  <2>5. ~IsLate(task[t], s) /\ ses[s].stored /\ S.stored /\ S.chans = ses[s].chans
    BY <2>1 DEF MayApply
  <2>6. MapsHold(S, sub, task', extra[s], s)
    BY <2>2, <2>3, <2>4, <2>5, AppliedHolds
  <2>7. q.step \in LateSteps \cup {"idle", "kick"} /\ q.gone = r.gone  BY DEF Like
  <2>8. Within(S, task', lapsed[s], Deleted, s)
    BY <1>1, <1>5, <2>1, <2>7, AppliedWithin
  <2> QED  BY <1>4, <2>6, <2>8
<1> QED  BY <1>2, <1>3, <1>4, <1>5, <1>6, OneStepCurrent

\* The answer is applied, and the refresh ends.
LEMMA AppliedEndCurrent ==
    ASSUME CurrentInv, PasswordInv', NEW t \in Tasks, NEW s \in Sessions, NEW S, NEW r,
           r.s = s, OfSession(task[t], s),
           RefreshEnds(t, S, Resubscribed(sub, r.s, S, r), r), raced \subseteq raced',
           UNCHANGED <<auths, nextAuth, lapsed, extra>>,
           s \notin raced' => MayApply(t, s, S, r)
    PROVE  CurrentInv'
<1> DEFINE q == AfterRefresh(r)  m == Resubscribed(sub, s, S, r)
           n == MapsAfter(m, s, S, r)
<1>1. OfSession(q, s) /\ q.step \in {"idle", "kick"} /\ (q.gone = {} \/ q.gone = r.gone)
  BY AfterRefreshFacts
<1>2. ses' = [ses EXCEPT ![s] = S] /\ sub' = n /\ task' = [task EXCEPT ![t] = q]
  BY DEF RefreshEnds
<1>3. OneStep(t, s, S, n, q, lapsed[s], extra[s])  BY <1>2, LapsedSame DEF OneStep
<1>4. IsMaps(sub)  BY DEF CurrentInv
<1>5. IsMaps(m) /\ OthersAs(sub, m, s)  BY <1>4, ResubscribedFacts
<1> DEFINE P == s \notin raced'
<1>6. P => S.stored /\ MapsHold(S, m, task', extra[s], s)
  <2> SUFFICES ASSUME P PROVE S.stored /\ MapsHold(S, m, task', extra[s], s)
    OBVIOUS
  <2>1. MayApply(t, s, S, r) /\ s \notin raced  OBVIOUS
  <2> HIDE DEF q
  <2>2. TaskMoves(task, task', t, q, s)
    BY <1>1, <1>2 DEF TaskMoves, CurrentInv, PasswordInv, TaskInv
  <2>3. MapsHold(ses[s], sub, task, extra[s], s)  BY <2>1 DEF CurrentInv
  <2>4. ~IsLate(q, s)  BY <1>1 DEF IsLate, LateSteps
  <2>5. /\ ~IsLate(task[t], s) /\ ses[s].stored /\ S.stored /\ S.chans = ses[s].chans
        /\ r.oldUser = ses[s].user /\ r.oldAuth = ses[s].auth
    BY <2>1 DEF MayApply
  <2> QED  BY <1>4, <2>2, <2>3, <2>4, <2>5, AppliedEndHolds
<1>7. P \in BOOLEAN  OBVIOUS
<1> HIDE DEF P, m
<1>8. IsMaps(n) /\ OthersAs(sub, n, s) /\ (P => MapsHold(S, n, task', extra[s], s))
  BY <1>5, <1>6, <1>7, MapsAfterFacts
<1> HIDE DEF n, q
<1>9. ASSUME s \notin raced' PROVE Within(S, task', lapsed[s], Deleted, s)
  <2>1. MayApply(t, s, S, r) /\ s \notin raced  BY <1>9
  <2>2. q.step \in LateSteps \cup {"idle", "kick"}  BY <1>1
  <2> QED  BY <1>1, <1>2, <2>1, <2>2, AppliedWithin
<1>10. Deleted' = Deleted  BY DeletedSame
<1>11. P <=> s \notin raced'  BY DEF P
<1> QED  BY <1>1, <1>3, <1>8, <1>9, <1>10, <1>11, OneStepCurrent

\* The second half of a refresh.
LEMMA ChannelsOrEndCurrent ==
    ASSUME CurrentInv, PasswordInv', NEW t \in Tasks, NEW s \in Sessions,
           NEW S \in SesShape, NEW r \in TaskShape, r.s = s, OfSession(task[t], s),
           ChannelsOrEnd(t, S, r), raced \subseteq raced',
           UNCHANGED <<auths, nextAuth, lapsed, extra>>,
           s \notin raced' => MayApply(t, s, S, r)
    PROVE  CurrentInv'
<1> DEFINE L == [S EXCEPT !.loaded = TRUE]
<1>1. LikeSes(S, L)  BY SesEditFacts
<1>2. PICK late \in BOOLEAN :
      \/ Continues(t, L, [r EXCEPT !.step = "clist"])
      \/ \E list \in cache[S.user] : Continues(t, L, [r EXCEPT !.step = "capply", !.list = list])
      \/ RefreshEnds(t, S, Resubscribed(sub, r.s, S, r), r)
  BY DEF ChannelsOrEnd
<1> HIDE DEF L
<1>3. s \notin raced' => MayApply(t, s, L, r)  BY <1>1 DEF MayApply, LikeSes
<1>4. CASE Continues(t, L, [r EXCEPT !.step = "clist"])
  <2> DEFINE q == [r EXCEPT !.step = "clist"]
  <2>1. Like(q, r) /\ q.step \in LateSteps  BY DEF Like, TaskShape, LateSteps
  <2>2. Continues(t, L, q)  BY <1>4
  <2> HIDE DEF q
  <2> QED  BY <1>3, <2>1, <2>2, AppliedCurrent
<1>5. ASSUME NEW list, Continues(t, L, [r EXCEPT !.step = "capply", !.list = list])
      PROVE  CurrentInv'
  <2> DEFINE q == [r EXCEPT !.step = "capply", !.list = list]
  <2>1. Like(q, r) /\ q.step \in LateSteps  BY DEF Like, TaskShape, LateSteps
  <2>2. Continues(t, L, q)  BY <1>5
  <2> HIDE DEF q
  <2> QED  BY <1>3, <2>1, <2>2, AppliedCurrent
<1>6. CASE RefreshEnds(t, S, Resubscribed(sub, r.s, S, r), r)
  BY <1>6, AppliedEndCurrent
<1> QED  BY <1>2, <1>4, <1>5, <1>6

\* The session is reset: no permanent key, or no row.
LEMMA ResetCurrent ==
    ASSUME CurrentInv, PasswordInv', NEW t \in Tasks, NEW s \in Sessions, NEW S \in SesShape,
           LikeSes(ses[s], S), NEW r, r.s = s, OfSession(task[t], s),
           RefreshEnds(t, ResetSession(S), Unsubscribe(sub, r.s, S), r), raced \subseteq raced',
           UNCHANGED <<auths, nextAuth, lapsed, extra>>,
           s \notin raced' => /\ ses[s].stored /\ ~IsLate(task[t], s)
                              /\ r.gone \subseteq lapsed[s]
    PROVE  CurrentInv'
<1> DEFINE R == ResetSession(S)  q == AfterRefresh(r)  m == Unsubscribe(sub, s, S)
           n == MapsAfter(m, s, R, r)
<1>1. OfSession(q, s) /\ q.step \in {"idle", "kick"} /\ (q.gone = {} \/ q.gone = r.gone)
  BY AfterRefreshFacts
<1>2. ses' = [ses EXCEPT ![s] = R] /\ sub' = n /\ task' = [task EXCEPT ![t] = q]
  BY DEF RefreshEnds
<1>3. OneStep(t, s, R, n, q, lapsed[s], extra[s])  BY <1>2, LapsedSame DEF OneStep
<1>4. IsMaps(sub)  BY DEF CurrentInv
<1>5. IsMaps(m) /\ OthersAs(sub, m, s)  BY <1>4, UnsubscribeFacts
<1>6. R.stored = ses[s].stored /\ R.user = NoUser /\ R.auth = 0 /\ R.chans = {}
  BY SesEditFacts DEF LikeSes
<1> DEFINE P == s \notin raced'
<1> HIDE DEF q, R
<1>7. TaskMoves(task, task', t, q, s)
  BY <1>1, <1>2 DEF TaskMoves, CurrentInv, PasswordInv, TaskInv
<1>8. P => R.stored /\ MapsHold(R, m, task', extra[s], s)
  <2> SUFFICES ASSUME P PROVE R.stored /\ MapsHold(R, m, task', extra[s], s)
    OBVIOUS
  <2>1. ses[s].stored /\ ~IsLate(task[t], s) /\ s \notin raced  OBVIOUS
  <2>2. MapsHold(ses[s], sub, task, extra[s], s)  BY <2>1 DEF CurrentInv
  <2>3. ~IsLate(q, s)  BY <1>1 DEF IsLate, LateSteps
  <2> QED  BY <1>4, <1>6, <1>7, <2>1, <2>2, <2>3, ResetHolds
<1>9. P \in BOOLEAN  OBVIOUS
<1> HIDE DEF P, m
<1>10. IsMaps(n) /\ OthersAs(sub, n, s) /\ (P => MapsHold(R, n, task', extra[s], s))
  BY <1>5, <1>8, <1>9, MapsAfterFacts
<1> HIDE DEF n
<1>11. ASSUME s \notin raced' PROVE Within(R, task', lapsed[s], Deleted, s)
  <2>1. Within(ses[s], task, lapsed[s], Deleted, s)  BY <1>11 DEF CurrentInv
  <2>2. R.auth \notin lapsed[s]  BY <1>6, <1>11, NoIdZero
  <2>3. q.gone \subseteq lapsed[s] /\ q.step # "run"  BY <1>1, <1>11
  <2> QED  BY <1>7, <2>1, <2>2, <2>3, NewAuthWithin
<1>12. Deleted' = Deleted  BY DeletedSame
<1>13. P <=> s \notin raced'  BY DEF P
<1> QED  BY <1>1, <1>3, <1>10, <1>11, <1>12, <1>13, OneStepCurrent

LEMMA TaskWindow ==
    ASSUME CurrentInv, NEW t \in Tasks, task[t].s \in Sessions, task[t].s \notin raced
    PROVE  /\ InWindow(task[t], ses[task[t].s], lapsed[task[t].s])
           /\ ses[task[t].s].stored
<1>1. Within(ses[task[t].s], task, lapsed[task[t].s], Deleted, task[t].s)
  BY DEF CurrentInv
<1> QED  BY <1>1, TaskStored DEF Within

LEMMA BegunFacts ==
    ASSUME PasswordInv, NEW t, NEW r, GoodTask(r, cleared), Live(r), NEW late
    PROVE  /\ Begun(t, r, late) \in TaskShape /\ Begun(t, r, late).s = r.s
           /\ Begun(t, r, late).oldUser = WithKey(r).user
           /\ Begun(t, r, late).oldAuth = WithKey(r).auth
           /\ Begun(t, r, late).gone = GoneFor(t, r.s, late)
<1> DEFINE u == WithKey(r).user  a == WithKey(r).auth  g == GoneFor(t, r.s, late)
<1>1. Begun(t, r, late) \in TaskShape
  <2>1. GoodTask(Begun(t, r, late), cleared)  BY BegunGood
  <2> QED  BY <2>1 DEF GoodTask
<1>2. r \in TaskShape  BY DEF GoodTask
<1>3. Begun(t, r, late) = [r EXCEPT !.oldUser = u, !.oldAuth = a, !.gone = g]
  BY DEF Begun
<1> HIDE DEF u, a, g
<1>4. /\ [r EXCEPT !.oldUser = u, !.oldAuth = a, !.gone = g].oldUser = u
      /\ [r EXCEPT !.oldUser = u, !.oldAuth = a, !.gone = g].s = r.s
      /\ [r EXCEPT !.oldUser = u, !.oldAuth = a, !.gone = g].oldAuth = a
      /\ [r EXCEPT !.oldUser = u, !.oldAuth = a, !.gone = g].gone = g
  BY <1>2 DEF TaskShape
<1> QED  BY <1>1, <1>3, <1>4 DEF u, a, g

\* The answer of a refresh that looks up: what is gone by now is known.
LEMMA LooksUpCurrent ==
    ASSUME CurrentInv, PasswordInv', NEW t \in Tasks,
           NEW r, GoodTask(r, cleared), Live(r), OfSession(task[t], r.s),
           ~IsLate(task[t], r.s), NEW late \in BOOLEAN, RefreshLooksUp(t, r, late),
           raced \subseteq raced', UNCHANGED <<auths, nextAuth, extra>>,
           r.s \notin raced' => ses[r.s].stored
    PROVE  CurrentInv'
<1> DEFINE s == r.s  S == WithKey(r)  g == GoneFor(t, s, TRUE)  b == Begun(t, r, TRUE)
           x == auths[KeyOf[r.s]]
           q == [b EXCEPT !.step = "apply", !.got = x]
<1>1. s \in Sessions /\ PasswordInv  BY DEF Live, CurrentInv
<1>2. LikeSes(ses[s], S) /\ S \in SesShape  BY <1>1, WithKeyFacts
<1>3. /\ ses' = [ses EXCEPT ![q.s] = S] /\ sub' = sub /\ task' = [task EXCEPT ![t] = q]
      /\ lapsed' = [lapsed EXCEPT ![s] = g]
  BY DEF RefreshLooksUp, Continues
<1>4. b \in TaskShape /\ b.s = s /\ b.gone = g
  <2>1. \A y : /\ Begun(t, r, y) \in TaskShape /\ Begun(t, r, y).s = r.s
               /\ Begun(t, r, y).gone = GoneFor(t, r.s, y)
    BY <1>1, BegunFacts
  <2> QED  BY <2>1, Zenon
<1> HIDE DEF b, x, g
<1>5. q.s = s /\ q.step = "apply" /\ q.gone = g  BY <1>4 DEF TaskShape
<1> HIDE DEF q, S
<1>6. ses' = [ses EXCEPT ![s] = S]  BY <1>3, <1>5
<1>7. OneStep(t, s, S, sub, q, g, extra[s])
  BY <1>1, <1>3, <1>6, LapsedSame DEF OneStep
<1>8. IsMaps(sub) /\ OthersAs(sub, sub, s)  BY DEF CurrentInv, OthersAs, SameFor
<1>9. Deleted' = Deleted  BY DeletedSame
<1>10. TaskMoves(task, task', t, q, s)
  BY <1>3, <1>5 DEF TaskMoves, OfSession, CurrentInv, PasswordInv, TaskInv
<1>11. ASSUME s \notin raced'
       PROVE  MapsHold(S, sub, task', extra[s], s) /\ Within(S, task', g, Deleted, s)
  <2>1. s \notin raced /\ ses[s].stored  BY <1>11
  <2>2. /\ MapsHold(ses[s], sub, task, extra[s], s)
        /\ Within(ses[s], task, lapsed[s], Deleted, s)
    BY <1>1, <2>1 DEF CurrentInv
  <2>3. ~IsLate(q, s)  BY <1>5 DEF IsLate, LateSteps
  <2>4. MapsHold(S, sub, task', extra[s], s)
    BY <1>1, <1>2, <1>10, <2>1, <2>2, <2>3, QuietHolds
  <2>5. g = Deleted  BY <2>1 DEF GoneFor, g
  <2>6. q.gone = Deleted /\ S.auth = ses[s].auth  BY <1>2, <1>5, <2>5 DEF LikeSes
  <2> HIDE DEF s
  <2>7. Within(S, task', Deleted, Deleted, s)
    BY <1>1, <1>5, <1>10, <2>2, <2>6, LookUpWithin
  <2> QED  BY <2>4, <2>5, <2>7
<1> HIDE DEF s
<1>12. OfSession(task[t], s) /\ OfSession(q, s)  BY <1>5 DEF OfSession, s
<1> QED  BY <1>1, <1>7, <1>8, <1>9, <1>11, <1>12, OneStepCurrent

\* The other steps of a refresh begin.
LEMMA BeginsCurrent ==
    ASSUME CurrentInv, PasswordInv', NEW t \in Tasks,
           NEW r, GoodTask(r, cleared), Live(r), OfSession(task[t], r.s),
           task[t].step \in {"idle", "begin"},
           RefreshBegins(t, r), raced \subseteq raced',
           UNCHANGED <<auths, nextAuth, extra>>,
           r.s \notin raced' => ses[r.s].stored /\ r.gone \subseteq lapsed[r.s]
    PROVE  CurrentInv'
<1> DEFINE s == r.s  S == WithKey(r)
<1>1. s \in Sessions /\ PasswordInv  BY DEF Live, CurrentInv
<1>2. LikeSes(ses[s], S) /\ S \in SesShape  BY <1>1, WithKeyFacts
<1>3. ~IsLate(task[t], s)  BY DEF IsLate, LateSteps
<1>4. CASE RefreshWithoutPerm(t, r)
  <2>1. RefreshEnds(t, ResetSession(S), Unsubscribe(sub, r.s, S), r) /\ lapsed' = lapsed
    BY <1>4 DEF RefreshWithoutPerm
  <2> HIDE DEF S
  <2> QED  BY <1>1, <1>2, <1>3, <2>1, ResetCurrent
<1>5. ASSUME NEW late \in BOOLEAN, RefreshLooksUp(t, r, late) PROVE CurrentInv'
  BY <1>3, <1>5, LooksUpCurrent
<1>6. ASSUME NEW late \in BOOLEAN, RefreshTrusts(t, r, late) PROVE CurrentInv'
  <2> DEFINE b == Begun(t, r, late)
  <2>1. /\ b \in TaskShape /\ b.s = s /\ b.oldUser = S.user /\ b.oldAuth = S.auth
        /\ b.gone = GoneFor(t, s, late)
    BY <1>1, BegunFacts
  <2>2. ChannelsOrEnd(t, S, b) /\ lapsed' = lapsed /\ ~NeedsAuth(S, r, late)
    BY <1>6 DEF RefreshTrusts
  <2> HIDE DEF b, S
  <2>3. ASSUME s \notin raced' PROVE MayApply(t, s, S, b)
    <3>1. s \notin raced /\ ~late  BY <2>2, <2>3 DEF NeedsAuth
    <3>2. b.gone = IF Refreshing(s) \subseteq {t} THEN lapsed[s] ELSE {}
      BY <2>1, <3>1 DEF GoneFor
    <3>3. S.auth \notin b.gone
      <4>1. CASE Refreshing(s) \subseteq {t}
        <5>1. ~\E d \in Tasks : task[d].s = s /\ task[d].step = "apply"
          BY <4>1 DEF Refreshing, RefreshSteps
        <5>2. Within(ses[s], task, lapsed[s], Deleted, s)
          BY <1>1, <3>1 DEF CurrentInv
        <5> QED  BY <1>2, <3>2, <4>1, <5>1, <5>2 DEF Within, LikeSes
      <4>2. CASE ~(Refreshing(s) \subseteq {t})  BY <3>2, <4>2
      <4> QED  BY <4>1, <4>2
    <3>4. b.gone \subseteq lapsed[s]  BY <3>2
    <3> QED  BY <1>2, <1>3, <2>1, <2>3, <3>3, <3>4 DEF MayApply, LikeSes
  <2> HIDE DEF s
  <2>4. OfSession(task[t], s)  BY DEF s
  <2> QED  BY <1>1, <1>2, <2>1, <2>2, <2>3, <2>4, ChannelsOrEndCurrent
<1> QED  BY <1>4, <1>5, <1>6 DEF RefreshBegins

\* A task moves on and the session keeps its user, authorization and channels.
LEMMA QuietCurrent ==
    ASSUME CurrentInv, PasswordInv', NEW t \in Tasks, NEW s \in Sessions,
           NEW S, LikeSes(ses[s], S), ses' = [ses EXCEPT ![s] = S],
           NEW q, task' = [task EXCEPT ![t] = q], OfSession(task[t], s), OfSession(q, s),
           UNCHANGED <<sub, lapsed, extra>>, raced \subseteq raced',
           Deleted \subseteq Deleted',
           s \notin raced' =>
              /\ ses[s].stored
              /\ \/ ~IsLate(task[t], s) /\ ~IsLate(q, s)
                 \/ /\ IsLate(task[t], s) /\ IsLate(q, s)
                    /\ q.oldUser = task[t].oldUser /\ q.oldAuth = task[t].oldAuth
              /\ q.s = s => InWindow(q, ses[s], lapsed[s])
              /\ task[t].s = s => task[t].step # "apply"
    PROVE  CurrentInv'
<1>1. OneStep(t, s, S, sub, q, lapsed[s], extra[s])  BY LapsedSame DEF OneStep
<1>2. IsMaps(sub) /\ OthersAs(sub, sub, s)  BY DEF CurrentInv, OthersAs, SameFor
<1>3. TaskMoves(task, task', t, q, s)
  BY DEF TaskMoves, CurrentInv, PasswordInv, TaskInv
<1>4. ASSUME s \notin raced'
      PROVE  MapsHold(S, sub, task', extra[s], s)
             /\ Within(S, task', lapsed[s], Deleted', s)
  <2>1. /\ MapsHold(ses[s], sub, task, extra[s], s)
        /\ Within(ses[s], task, lapsed[s], Deleted, s)
    BY <1>4 DEF CurrentInv
  <2>2. MapsHold(S, sub, task', extra[s], s)  BY <1>3, <1>4, <2>1, QuietHolds
  <2>3. Within(S, task', lapsed[s], Deleted', s)
    BY <1>3, <1>4, <2>1, QuietWithin DEF LikeSes
  <2> QED  BY <2>2, <2>3
<1> QED  BY <1>1, <1>2, <1>4, OneStepCurrent

LEMMA BusyShape ==
    ASSUME CurrentInv, NEW t \in Tasks, task[t].step # "idle"
    PROVE  /\ task[t] \in TaskShape /\ task[t].s \in Sessions
           /\ ses[task[t].s] \in SesShape /\ GoodTask(task[t], cleared) /\ Live(task[t])
BY BusyTask DEF CurrentInv, GoodTask, GoodSes

\* A step that leaves the session alone: the task goes on as q.
LEMMA TaskOnlyCurrent ==
    ASSUME CurrentInv, PasswordInv', NEW t \in Tasks, NEW s \in Sessions,
           NEW q, task' = [task EXCEPT ![t] = q], OfSession(task[t], s), OfSession(q, s),
           UNCHANGED <<ses, sub, lapsed, extra>>, raced \subseteq raced',
           Deleted \subseteq Deleted',
           s \notin raced' =>
              /\ ses[s].stored
              /\ \/ ~IsLate(task[t], s) /\ ~IsLate(q, s)
                 \/ /\ IsLate(task[t], s) /\ IsLate(q, s)
                    /\ q.oldUser = task[t].oldUser /\ q.oldAuth = task[t].oldAuth
              /\ q.s = s => InWindow(q, ses[s], lapsed[s])
              /\ task[t].s = s => task[t].step # "apply"
    PROVE  CurrentInv'
<1> DEFINE S == ses[s]
<1>1. LikeSes(ses[s], S) /\ ses' = [ses EXCEPT ![s] = S]
  BY LapsedSame DEF LikeSes
<1> HIDE DEF S
<1> QED  BY <1>1, QuietCurrent

\* The list of channels is applied, and the maps are brought in line.
LEMMA AppliesChannelsCurrent ==
    ASSUME CurrentInv, PasswordInv', NEW t \in Tasks, RefreshAppliesChannels(t)
    PROVE  CurrentInv'
<1> USE DEF database
<1> DEFINE r == task[t]  s == r.s  X == r.list  S == [ses[s] EXCEPT !.chans = X]
           m == ChannelsDiffUpdate(sub, s, ses[s].chans \ X, X \ ses[s].chans)
           p == Resubscribed(m, s, S, r)  n == MapsAfter(p, s, S, r)
           q == AfterRefresh(r)  e == extra[s] \ X
<1>1. r.step = "capply" /\ RefreshEnds(t, S, p, r)
      /\ extra' = [extra EXCEPT ![s] = @ \ X]
      /\ UNCHANGED <<auths, nextAuth, lapsed, raced>>
  BY DEF RefreshAppliesChannels
<1>2. s \in Sessions /\ ses[s] \in SesShape  BY <1>1, BusyShape
<1>3. ses' = [ses EXCEPT ![s] = S] /\ sub' = n /\ task' = [task EXCEPT ![t] = q]
  BY <1>1 DEF RefreshEnds
<1>4. extra' = [extra EXCEPT ![s] = e]  BY <1>1, <1>2 DEF CurrentInv
<1>5. S.stored = ses[s].stored /\ S.user = ses[s].user /\ S.auth = ses[s].auth
      /\ S.chans = X
  BY <1>2, SesEditFacts
<1>6. OfSession(q, s) /\ q.step \in {"idle", "kick"} /\ (q.gone = {} \/ q.gone = r.gone)
  BY AfterRefreshFacts
<1>7. OfSession(task[t], s)  BY DEF OfSession
<1>8. IsMaps(sub)  BY DEF CurrentInv
<1>9. /\ IsMaps(m) /\ OthersAs(sub, m, s) /\ m.user = sub.user /\ m.auth = sub.auth
      /\ m.chan = (sub.chan \ ((ses[s].chans \ S.chans) \X {s}))
                     \cup ((S.chans \ ses[s].chans) \X {s})
  BY <1>5, <1>8, ChannelsDiffFacts
<1> HIDE DEF m, S, q
<1>10. IsMaps(p) /\ OthersAs(sub, p, s)
  BY <1>9, ResubscribedFacts, OthersTwice
<1> DEFINE P == s \notin raced'
<1>11. TaskMoves(task, task', t, q, s)
  BY <1>3, <1>6, <1>7 DEF TaskMoves, CurrentInv, PasswordInv, TaskInv
<1>12. P => S.stored /\ MapsHold(S, p, task', e, s)
  <2> SUFFICES ASSUME P PROVE S.stored /\ MapsHold(S, p, task', e, s)
    OBVIOUS
  <2>1. s \notin raced  BY <1>1
  <2>2. ses[s].stored /\ S.stored  BY <1>2, <1>5, <2>1, TaskStored
  <2>3. MapsHold(ses[s], sub, task, extra[s], s)  BY <1>2, <2>1 DEF CurrentInv
  <2>4. IsLate(task[t], s) /\ ~IsLate(q, s)  BY <1>1, <1>6 DEF IsLate, LateSteps
  <2>5. MapsHold(S, Resubscribed(m, s, S, task[t]), task', extra[s] \ S.chans, s)
    BY <1>2, <1>5, <1>8, <1>9, <1>11, <2>2, <2>3, <2>4, LateEndHolds
  <2> QED  BY <1>5, <2>2, <2>5
<1>13. P \in BOOLEAN  OBVIOUS
<1> HIDE DEF P, p, e
<1>14. IsMaps(n) /\ OthersAs(sub, n, s) /\ (P => MapsHold(S, n, task', e, s))
  BY <1>2, <1>10, <1>12, <1>13, MapsAfterFacts
<1> HIDE DEF n
<1>15. OneStep(t, s, S, n, q, lapsed[s], e)
  BY <1>1, <1>2, <1>3, <1>4, LapsedSame DEF OneStep
<1>16. Deleted' = Deleted  BY <1>1, DeletedSame
<1>17. ASSUME s \notin raced' PROVE Within(S, task', lapsed[s], Deleted', s)
  <2>1. s \notin raced  BY <1>1, <1>17
  <2>2. Within(ses[s], task, lapsed[s], Deleted, s)  BY <1>2, <2>1 DEF CurrentInv
  <2>3. InWindow(task[t], ses[s], lapsed[s])  BY <1>2, <2>1, TaskWindow
  <2>4. InWindow(q, ses[s], lapsed[s])
    BY <1>1, <1>6, <2>3 DEF InWindow, LateSteps
  <2>5. task[t].step # "apply"  BY <1>1
  <2> QED  BY <1>2, <1>5, <1>11, <1>16, <2>2, <2>4, <2>5, QuietWithin
<1>18. P <=> s \notin raced'  BY DEF P
<1> HIDE DEF s, r
<1> QED
  BY <1>1, <1>2, <1>6, <1>7, <1>14, <1>15, <1>16, <1>17, <1>18, OneStepCurrent

LEMMA RefreshStepCurrent ==
    ASSUME CurrentInv, PasswordInv', NEW t \in Tasks, RefreshStep(t)
    PROVE  CurrentInv'
<1> USE DEF database
<1> DEFINE r == task[t]  s == r.s
<1>0. OfSession(r, s)  BY DEF OfSession
<1>1. CASE ForcedRefresh(t)
  <2>1. /\ r.step = "begin" /\ RefreshBegins(t, r)
        /\ UNCHANGED <<auths, nextAuth, extra, raced>>
    BY <1>1 DEF ForcedRefresh
  <2>2. GoodTask(r, cleared) /\ Live(r) /\ s \in Sessions  BY <2>1, BusyShape
  <2>3. s \notin raced' => ses[s].stored /\ r.gone \subseteq lapsed[s]
    BY <2>1, <2>2, TaskWindow DEF InWindow
  <2> QED  BY <1>0, <2>1, <2>2, <2>3, BeginsCurrent
<1>2. CASE RefreshWithoutData(t)
  <2> DEFINE S == [ses[s] EXCEPT !.data = FALSE]
  <2>1. r.step = "begin"  BY <1>2 DEF RefreshWithoutData
  <2>2. s \in Sessions /\ ses[s] \in SesShape  BY <2>1, BusyShape
  <2>3. LikeSes(ses[s], S)  BY <2>2 DEF LikeSes, SesShape
  <2>4. /\ ses' = [ses EXCEPT ![s] = S] /\ task' = [task EXCEPT ![t] = IdleTask]
        /\ UNCHANGED <<auths, nextAuth, sub, lapsed, extra, raced>>
    BY <1>2, <2>2 DEF RefreshWithoutData, CurrentInv, PasswordInv, SesInv
  <2>5. OfSession(IdleTask, s) /\ ~IsLate(IdleTask, s) /\ ~IsLate(r, s)
        /\ IdleTask.s # s
    BY <2>1, <2>2, IdleFacts, SessionsAreNamed DEF OfSession, IsLate, LateSteps
  <2>6. Deleted' = Deleted  BY <2>4, DeletedSame
  <2>7. s \notin raced' => ses[s].stored  BY <2>2, <2>4, TaskStored
  <2> HIDE DEF S
  <2> QED  BY <1>0, <2>1, <2>2, <2>3, <2>4, <2>5, <2>6, <2>7, QuietCurrent
<1>3. CASE RefreshFindsNothing(t)
  <2>1. /\ r.step = "apply" /\ RefreshEnds(t, ResetSession(ses[s]), Unsubscribe(sub, r.s, ses[s]), r)
        /\ raced' = Raced(r) /\ UNCHANGED <<auths, nextAuth, lapsed, extra>>
    BY <1>3 DEF RefreshFindsNothing
  <2>2. s \in Sessions /\ ses[s] \in SesShape  BY <2>1, BusyShape
  <2>3. raced \subseteq raced'  BY <2>1 DEF Raced
  <2>4. ASSUME s \notin raced'
        PROVE  ses[s].stored /\ ~IsLate(task[t], s) /\ r.gone \subseteq lapsed[s]
    <3>1. s \notin raced  BY <2>3, <2>4
    <3> QED  BY <2>1, <2>2, <3>1, TaskWindow DEF InWindow, IsLate, LateSteps
  <2>5. LikeSes(ses[s], ses[s])  BY DEF LikeSes
  <2> QED  BY <1>0, <2>1, <2>2, <2>3, <2>4, <2>5, ResetCurrent
<1>4. CASE RefreshFindsAuth(t)
  <2> DEFINE S == [ses[s] EXCEPT !.user = r.got.user, !.auth = r.got.id, !.mfa = r.got.mfa]
             q == [r EXCEPT !.got = NoAuth]
  <2>1. /\ r.step = "apply" /\ ChannelsOrEnd(t, S, q) /\ raced' = Raced(r)
        /\ UNCHANGED <<auths, nextAuth, lapsed, extra>>
    BY <1>4 DEF RefreshFindsAuth
  <2>2. /\ s \in Sessions /\ ses[s] \in SesShape /\ r \in TaskShape
        /\ GoodTask(r, cleared) /\ GoodSes(ses[s], cleared)
    BY <2>1, BusyShape, BusyTask DEF CurrentInv
  <2>3. /\ S.stored = ses[s].stored /\ S.auth = r.got.id /\ S.chans = ses[s].chans
        /\ S \in SesShape
    <3>1. GoodRow(r.got, cleared)  BY <2>2 DEF GoodTask
    <3>2. GoodSes(S, cleared)  BY <2>2, <3>1, AppliedGood
    <3> DEFINE u == r.got.user  a == r.got.id  w == r.got.mfa
    <3>3. S = [ses[s] EXCEPT !.user = u, !.auth = a, !.mfa = w]  OBVIOUS
    <3> HIDE DEF u, a, w, S
    <3>4. S.stored = ses[s].stored /\ S.auth = a /\ S.chans = ses[s].chans
      BY <2>2, <3>3, SesEditFacts
    <3> QED  BY <3>2, <3>4 DEF GoodSes, a
  <2>4. q \in TaskShape /\ Like(q, r) /\ q.s = s
    <3>1. NoAuth \in Row  BY NoAuthGood DEF GoodRow
    <3> QED  BY <2>2, <3>1 DEF TaskShape, Like
  <2>5. raced \subseteq raced'  BY <2>1 DEF Raced
  <2> HIDE DEF S, q
  <2>6. ASSUME s \notin raced' PROVE MayApply(t, s, S, q)
    <3>1. s \notin raced  BY <2>5, <2>6
    <3>2. ses[s].auth = r.oldAuth /\ ses[s].user = r.oldUser /\ r.got.id \notin lapsed[s]
      BY <2>1, <2>6 DEF Raced
    <3>3. ses[s].stored /\ r.gone \subseteq lapsed[s]
      BY <2>2, <3>1, TaskWindow DEF InWindow
    <3> QED  BY <2>1, <2>3, <2>4, <3>2, <3>3 DEF MayApply, Like, IsLate, LateSteps
  <2> QED  BY <1>0, <2>1, <2>2, <2>3, <2>4, <2>5, <2>6, ChannelsOrEndCurrent
<1>5. CASE RefreshReadsMembers(t)
  <2> DEFINE X == {c \in Channels : <<ses[r.s].user, c>> \in member}
             q == [r EXCEPT !.list = X, !.step = "cset"]
  <2>1. /\ r.step = "clist" /\ task' = [task EXCEPT ![t] = q]
        /\ UNCHANGED <<auths, nextAuth, ses, sub, lapsed, extra, raced>>
    BY <1>5 DEF RefreshReadsMembers, CurrentInv, PasswordInv, TaskInv
  <2>2. s \in Sessions /\ r \in TaskShape  BY <2>1, BusyShape
  <2>3. Like(q, r) /\ q.step = "cset"  BY <2>2 DEF Like, TaskShape
  <2>4. OfSession(q, s) /\ IsLate(r, s) /\ IsLate(q, s)
        /\ q.oldUser = r.oldUser /\ q.oldAuth = r.oldAuth
    BY <2>1, <2>3 DEF Like, OfSession, IsLate, LateSteps
  <2> HIDE DEF q
  <2>5. ASSUME s \notin raced' PROVE ses[s].stored /\ InWindow(q, ses[s], lapsed[s])
    BY <2>1, <2>2, <2>3, <2>5, TaskWindow DEF InWindow, Like, LateSteps
  <2>6. Deleted' = Deleted  BY <2>1, DeletedSame
  <2> QED  BY <1>0, <2>1, <2>2, <2>4, <2>5, <2>6, TaskOnlyCurrent
<1>6. CASE RefreshWritesCache(t)
  <2> DEFINE q == [r EXCEPT !.step = "capply"]
  <2>1. /\ r.step = "cset" /\ task' = [task EXCEPT ![t] = q]
        /\ UNCHANGED <<auths, nextAuth, ses, sub, lapsed, extra, raced>>
    BY <1>6 DEF RefreshWritesCache, CurrentInv, PasswordInv, TaskInv
  <2>2. s \in Sessions /\ r \in TaskShape  BY <2>1, BusyShape
  <2>3. Like(q, r) /\ q.step = "capply"  BY <2>2 DEF Like, TaskShape
  <2>4. OfSession(q, s) /\ IsLate(r, s) /\ IsLate(q, s)
        /\ q.oldUser = r.oldUser /\ q.oldAuth = r.oldAuth
    BY <2>1, <2>3 DEF Like, OfSession, IsLate, LateSteps
  <2> HIDE DEF q
  <2>5. ASSUME s \notin raced' PROVE ses[s].stored /\ InWindow(q, ses[s], lapsed[s])
    BY <2>1, <2>2, <2>3, <2>5, TaskWindow DEF InWindow, Like, LateSteps
  <2>6. Deleted' = Deleted  BY <2>1, DeletedSame
  <2> QED  BY <1>0, <2>1, <2>2, <2>4, <2>5, <2>6, TaskOnlyCurrent
<1>7. CASE RefreshAppliesChannels(t)  BY <1>7, AppliesChannelsCurrent
<1> QED  BY <1>1, <1>2, <1>3, <1>4, <1>5, <1>6, <1>7 DEF RefreshStep

-----------------------------------------------------------------------------
(* The other steps keep CurrentInv *)

LEMMA IdsStay ==
    ASSUME CurrentInv, PasswordInv', UNCHANGED nextAuth,
           \A k \in Keys : \/ auths'[k].id = 0
                           \/ \E j \in Keys : auths'[k].id = auths[j].id
    PROVE  Deleted \subseteq Deleted'
BY DeletedStays DEF CurrentInv, PasswordInv

LEMMA RowsDeletedIds ==
    ASSUME CurrentInv, PasswordInv', UNCHANGED nextAuth, NEW gone,
           auths' = [k \in Keys |-> IF k \in gone THEN NoAuth ELSE auths[k]]
    PROVE  Deleted \subseteq Deleted'
<1>1. NoAuth.id = 0  BY DEF NoAuth
<1>2. ASSUME NEW k \in Keys
      PROVE  auths'[k].id = 0 \/ \E j \in Keys : auths'[k].id = auths[j].id
  BY <1>1
<1> QED  BY <1>2, IdsStay

LEMMA RowDeletedIds ==
    ASSUME CurrentInv, PasswordInv', UNCHANGED nextAuth, NEW k \in Keys,
           auths' = [auths EXCEPT ![k] = NoAuth]
    PROVE  Deleted \subseteq Deleted'
<1>1. auths' = [j \in Keys |-> IF j \in {k} THEN NoAuth ELSE auths[j]]
  BY DEF CurrentInv, PasswordInv, DbInv
<1> QED  BY <1>1, RowsDeletedIds

LEMMA CreatesRowIds ==
    ASSUME CurrentInv, PasswordInv', NEW k \in Keys, NEW u, NEW pw, CreatesRow(k, u, pw)
    PROVE  Deleted \subseteq Deleted'
<1>1. auths' = [auths EXCEPT ![k] = NewAuth(u, pw)] /\ nextAuth' = nextAuth + 1
      /\ auths \in [Keys -> Row] /\ NewAuth(u, pw).id = nextAuth
  BY DEF CreatesRow, NewAuth, NewRow, CurrentInv, PasswordInv, DbInv
<1> DEFINE x == NewAuth(u, pw)
<1> HIDE DEF x
<1>2. ASSUME NEW j \in Keys
      PROVE  \/ auths'[j].id \in {0, nextAuth}
             \/ \E i \in Keys : auths'[j].id = auths[i].id
  <2>1. CASE j = k  BY <1>1, <2>1
  <2>2. CASE j # k  BY <1>1, <2>2
  <2> QED  BY <2>1, <2>2
<1> QED  BY <1>1, <1>2, DeletedStays DEF CurrentInv, PasswordInv

\* A task that is no refresh ends, or goes on with nothing to remember.
LEMMA RequestCurrent ==
    ASSUME CurrentInv, PasswordInv', NEW t \in Tasks, task[t].step \in {"kick", "run", "exec"},
           NEW q, task' = [task EXCEPT ![t] = q], OfSession(q, task[t].s),
           q.step \in {"idle", "begin", "run", "exec"}, q.gone \in {{}, task[t].gone},
           q.step = "run" /\ task[t].s \notin raced => q.auth \notin q.gone,
           UNCHANGED <<ses, sub, lapsed, extra, raced>>, Deleted \subseteq Deleted'
    PROVE  CurrentInv'
<1> DEFINE s == task[t].s
<1>1. s \in Sessions  BY BusyShape
<1>2. ASSUME s \notin raced
      PROVE  ses[s].stored /\ InWindow(q, ses[s], lapsed[s])
  BY <1>1, <1>2, TaskWindow DEF InWindow, LateSteps
<1>3. ~IsLate(task[t], s) /\ ~IsLate(q, s) /\ task[t].step # "apply"
  BY DEF IsLate, LateSteps
<1>4. OfSession(task[t], s) /\ OfSession(q, s)  BY DEF OfSession
<1> HIDE DEF s
<1> QED  BY <1>1, <1>2, <1>3, <1>4, TaskOnlyCurrent

LEMMA AnsweredFacts ==
    ASSUME NEW r
    PROVE  /\ OfSession(Answered(r), r.s) /\ Answered(r).step \in {"idle", "begin"}
           /\ Answered(r).gone = {}
<1> DEFINE q == [Asks(r.s, r.op, r.arg) EXCEPT !.step = "begin", !.force = TRUE]
<1>1. q.s = r.s /\ q.step = "begin" /\ q.gone = {}  BY DEF Asks, IdleTask
<1>2. Answered(r) = IdleTask \/ Answered(r) = q  BY DEF Answered
<1> HIDE DEF q
<1> QED  BY <1>1, <1>2, IdleFacts DEF OfSession

LEMMA AnswersCurrent ==
    ASSUME CurrentInv, PasswordInv', NEW t \in Tasks, task[t].step \in {"kick", "run", "exec"},
           Answers(t), Deleted \subseteq Deleted'
    PROVE  CurrentInv'
<1> DEFINE q == Answered(task[t])
<1>1. OfSession(q, task[t].s) /\ q.step \in {"idle", "begin"} /\ q.gone = {}
  BY AnsweredFacts
<1>2. task' = [task EXCEPT ![t] = q] /\ UNCHANGED <<ses, sub, lapsed, extra, raced>>
  BY DEF Answers
<1> HIDE DEF q
<1> QED  BY <1>1, <1>2, RequestCurrent

\* A request that is dropped.
LEMMA DroppedCurrent ==
    ASSUME CurrentInv, PasswordInv', NEW t \in Tasks, task[t].step \in {"kick", "run", "exec"},
           task' = [task EXCEPT ![t] = IdleTask],
           UNCHANGED <<auths, nextAuth, ses, sub, lapsed, extra, raced>>
    PROVE  CurrentInv'
<1>1. OfSession(IdleTask, task[t].s)  BY IdleFacts DEF OfSession
<1>2. Deleted' = Deleted  BY DeletedSame
<1> QED  BY <1>1, <1>2, IdleFacts, RequestCurrent

LEMMA RequestStepCurrent ==
    ASSUME CurrentInv, PasswordInv', NEW t \in Tasks, RequestStep(t)
    PROVE  CurrentInv'
<1> USE DEF Untouched, Rest
<1> DEFINE r == task[t]  s == r.s
<1>1. CASE Kick(t)
  <2> DEFINE S == ses[s]  p == S.perm  a == S.auth  u == S.user  w == S.mfa
             q == [r EXCEPT !.step = "run", !.perm = p, !.auth = a, !.user = u, !.mfa = w]
  <2>1. /\ r.step = "kick" /\ task' = [task EXCEPT ![t] = q]
        /\ UNCHANGED <<auths, nextAuth, ses, sub, lapsed, extra, raced>>
    BY <1>1 DEF Kick
  <2>2. r \in TaskShape /\ s \in Sessions  BY <2>1, BusyShape
  <2> HIDE DEF p, a, u, w
  <2>3. q.s = s /\ q.step = "run" /\ q.gone = r.gone /\ q.auth = a
    BY <2>2 DEF TaskShape
  <2>4. OfSession(q, s)  BY <2>3 DEF OfSession
  <2>5. ASSUME s \notin raced PROVE a \notin r.gone
    BY <2>1, <2>2, <2>5, TaskWindow DEF InWindow, a
  <2>6. Deleted' = Deleted  BY <2>1, DeletedSame
  <2> HIDE DEF q
  <2> QED  BY <2>1, <2>3, <2>4, <2>5, <2>6, RequestCurrent
<1>2. CASE Unregistered(t)  BY <1>2, DroppedCurrent DEF Unregistered
<1>3. CASE Refused(t)  BY <1>3, DroppedCurrent DEF Refused
<1>4. CASE Call(t)
  <2>1. Deleted' = Deleted  BY <1>4, DeletedSame DEF Call
  <2> QED  BY <1>4, <2>1, AnswersCurrent DEF Call
<1>5. CASE SignInDeletes(t)
  <2> DEFINE w == r.arg \in protected
             q == [r EXCEPT !.step = "exec", !.pw = w]
  <2>1. /\ r.step = "run" /\ task' = [task EXCEPT ![t] = q]
        /\ auths' = [auths EXCEPT ![KeyOf[s]] = NoAuth]
        /\ UNCHANGED <<nextAuth, ses, sub, lapsed, extra, raced>>
    BY <1>5 DEF SignInDeletes, CurrentInv, PasswordInv, TaskInv
  <2>2. r \in TaskShape /\ s \in Sessions  BY <2>1, BusyShape
  <2> HIDE DEF w
  <2>3. q.s = s /\ q.step = "exec" /\ q.gone = r.gone  BY <2>2 DEF TaskShape
  <2>4. OfSession(q, s)  BY <2>3 DEF OfSession
  <2>5. Deleted \subseteq Deleted'
    BY <2>1, <2>2, AuthAssumption, RowDeletedIds
  <2> HIDE DEF q
  <2> QED  BY <2>1, <2>3, <2>4, <2>5, RequestCurrent
<1>6. CASE SignInCreates(t)
  <2>1. r.step \in {"run", "exec"} /\ Answers(t) /\ CreatesRow(KeyOf[s], r.arg, r.pw)
    BY <1>6 DEF SignInCreates
  <2>2. KeyOf[s] \in Keys  BY <2>1, BusyShape, AuthAssumption
  <2>3. Deleted \subseteq Deleted'  BY <2>1, <2>2, CreatesRowIds
  <2> QED  BY <2>1, <2>3, AnswersCurrent
<1>7. CASE SignInFails(t)
  <2>1. r.step \in {"run", "exec"} /\ Answers(t) /\ UNCHANGED <<auths, nextAuth>>
    BY <1>7 DEF SignInFails
  <2>2. Deleted' = Deleted  BY <2>1, DeletedSame
  <2> QED  BY <2>1, <2>2, AnswersCurrent
<1>8. ASSUME NEW right \in BOOLEAN, CheckPassword(t, right) PROVE CurrentInv'
  <2> DEFINE k == KeyOf[s]
  <2>1. /\ r.step = "run" /\ Answers(t) /\ nextAuth' = nextAuth
        /\ auths' = auths \/ auths' = [auths EXCEPT ![k].mfa = FALSE]
    BY <1>8 DEF CheckPassword
  <2>2. k \in Keys  BY <2>1, BusyShape, AuthAssumption
  <2>3. auths \in [Keys -> Row]  BY DEF CurrentInv, PasswordInv, DbInv
  <2>4. ASSUME NEW j \in Keys PROVE auths'[j].id = auths[j].id
    <3>1. CASE auths' = auths  BY <3>1
    <3>2. CASE auths' = [auths EXCEPT ![k].mfa = FALSE]
      <4> DEFINE x == [auths[k] EXCEPT !.mfa = FALSE]
      <4>1. x.id = auths[k].id  BY <2>2, <2>3 DEF Row
      <4>2. auths' = [auths EXCEPT ![k] = x]  BY <2>2, <2>3, <3>2
      <4> HIDE DEF x
      <4> QED  BY <2>2, <2>3, <4>1, <4>2
    <3> QED  BY <2>1, <3>1, <3>2
  <2>5. Deleted \subseteq Deleted'  BY <2>1, <2>4, IdsStay
  <2> QED  BY <2>1, <2>5, AnswersCurrent
<1>9. CASE LogOut(t)
  <2>1. /\ r.step = "run" /\ Answers(t) /\ nextAuth' = nextAuth
        /\ auths' = [auths EXCEPT ![KeyOf[s]] = NoAuth]
    BY <1>9 DEF LogOut
  <2>2. KeyOf[s] \in Keys  BY <2>1, BusyShape, AuthAssumption
  <2>3. Deleted \subseteq Deleted'  BY <2>1, <2>2, RowDeletedIds
  <2> QED  BY <2>1, <2>3, AnswersCurrent
<1>10. CASE BindTempAuthKey(t)
  <2>1. r.step = "run" /\ Answers(t) /\ UNCHANGED <<auths, nextAuth>>
    BY <1>10 DEF BindTempAuthKey
  <2>2. Deleted' = Deleted  BY <2>1, DeletedSame
  <2> QED  BY <2>1, <2>2, AnswersCurrent
<1> QED
  BY <1>1, <1>2, <1>3, <1>4, <1>5, <1>6, <1>7, <1>8, <1>9, <1>10 DEF RequestStep

\* A request is cancelled at an await, or goes on without its connection.
LEMMA CancelCurrent ==
    ASSUME CurrentInv, PasswordInv', NEW t \in Tasks, Cancel(t)
    PROVE  CurrentInv'
<1> USE DEF Rest
<1> DEFINE r == task[t]  s == r.s
           q == IF r.step \in {"run", "exec"} /\ r.op \notin UserOps
                THEN [r EXCEPT !.alone = TRUE] ELSE IdleTask
<1>1. /\ r.step # "idle" /\ task' = [task EXCEPT ![t] = q]
      /\ raced' = IF t \in Refreshing(s) /\ r.step # "begin" THEN raced \cup {s} ELSE raced
      /\ UNCHANGED <<auths, nextAuth, ses, sub, lapsed, extra>>
  BY DEF Cancel
<1>2. r \in TaskShape /\ s \in Sessions  BY <1>1, BusyShape
<1>3. \/ q = IdleTask
      \/ /\ q.s = s /\ q.step = r.step /\ q.gone = r.gone /\ q.auth = r.auth
         /\ r.step \in {"run", "exec"}
  BY <1>2 DEF TaskShape
<1> HIDE DEF q
<1>4. OfSession(r, s) /\ OfSession(q, s)  BY <1>3, IdleFacts DEF OfSession
<1>5. raced \subseteq raced' /\ Deleted' = Deleted  BY <1>1, DeletedSame
<1>6. ASSUME s \notin raced'
      PROVE  /\ ses[s].stored /\ ~IsLate(r, s) /\ ~IsLate(q, s)
             /\ q.s = s => InWindow(q, ses[s], lapsed[s])
             /\ r.step # "apply"
  <2>1. t \notin Refreshing(s) \/ r.step = "begin"  BY <1>1, <1>6
  <2>2. r.step \notin LateSteps /\ r.step # "apply"
    BY <2>1 DEF Refreshing, RefreshSteps, LateSteps
  <2>3. ses[s].stored /\ InWindow(r, ses[s], lapsed[s])
    BY <1>2, <1>5, <1>6, TaskWindow
  <2>4. CASE q = IdleTask
    BY <1>2, <2>2, <2>3, <2>4, IdleFacts, SessionsAreNamed DEF IsLate, LateSteps
  <2>5. CASE /\ q.s = s /\ q.step = r.step /\ q.gone = r.gone /\ q.auth = r.auth
             /\ r.step \in {"run", "exec"}
    BY <2>2, <2>3, <2>5 DEF IsLate, InWindow, LateSteps
  <2> QED  BY <1>3, <2>4, <2>5
<1> QED  BY <1>1, <1>2, <1>4, <1>5, <1>6, TaskOnlyCurrent

LEMMA TaskStepCurrent ==
    ASSUME CurrentInv, PasswordInv', NEW t \in Tasks, TaskStep(t)
    PROVE  CurrentInv'
<1>1. CASE RefreshStep(t)  BY <1>1, RefreshStepCurrent
<1>2. CASE RequestStep(t)  BY <1>2, RequestStepCurrent
<1>3. CASE Cancel(t)  BY <1>3, CancelCurrent
<1>4. ASSUME NEW s \in Sessions, RegisterDevice(t, s) PROVE CurrentInv'
  <2> DEFINE q == [Asks(s, "register", NoUser) EXCEPT !.step = "begin", !.force = TRUE]
  <2>1. q.s = s /\ q.step = "begin" /\ q.gone = {}  BY DEF Asks, IdleTask
  <2>2. /\ task[t] = IdleTask /\ ses[s].stored /\ task' = [task EXCEPT ![t] = q]
        /\ UNCHANGED <<auths, nextAuth, ses, sub, lapsed, extra, raced>>
    BY <1>4 DEF RegisterDevice
  <2> HIDE DEF q
  <2>3. /\ OfSession(task[t], s) /\ OfSession(q, s) /\ ~IsLate(task[t], s)
        /\ ~IsLate(q, s) /\ task[t].step # "apply" /\ InWindow(q, ses[s], lapsed[s])
    BY <2>1, <2>2, IdleFacts DEF OfSession, IsLate, InWindow, LateSteps
  <2>4. Deleted' = Deleted  BY <2>2, DeletedSame
  <2> QED  BY <2>2, <2>3, <2>4, TaskOnlyCurrent
<1>5. ASSUME NEW s \in Sessions, NEW op \in Requests, NEW u \in Arguments(op),
             Receive(t, s, op, u)
      PROVE  CurrentInv'
  <2> DEFINE r == Asks(s, op, u)
  <2>1. u \in Users \cup {NoUser} /\ (op \in LoginOps => u \in Users)
    BY DEF Arguments, LoginOps
  <2>2. GoodTask(r, cleared) /\ Live(r)  BY <2>1, AsksGood
  <2>3. /\ task[t] = IdleTask /\ RefreshBegins(t, r)
        /\ raced' = IF ses[s].stored THEN raced ELSE raced \cup {s}
        /\ UNCHANGED <<auths, nextAuth, extra>>
    BY <1>5 DEF Receive
  <2>4. r.s = s /\ r.gone = {}  BY DEF Asks, IdleTask
  <2>5. OfSession(task[t], s) /\ task[t].step \in {"idle", "begin"}
    BY <2>3, IdleFacts DEF OfSession
  <2>6. raced \subseteq raced' /\ (s \notin raced' => ses[s].stored)  BY <2>3
  <2> HIDE DEF r
  <2> QED  BY <2>2, <2>3, <2>4, <2>5, <2>6, BeginsCurrent
<1> QED  BY <1>1, <1>2, <1>3, <1>4, <1>5 DEF TaskStep

LEMMA MapsSame ==
    ASSUME NEW S, NEW S2, LikeSes(S, S2), NEW m, NEW n, NEW k, NEW e, NEW z, SameFor(m, n, z),
           S.stored \in BOOLEAN, MapsHold(S, m, k, e, z)
    PROVE  MapsHold(S2, n, k, e, z)
<1>1. CASE S.stored
  <2>1. MapsKnown(S, m, k, e, z)  BY <1>1 DEF MapsHold
  <2>2. MapsKnown(S2, n, k, e, z)
    BY <2>1 DEF MapsKnown, Follows, ChansFollow, SameFor, LikeSes
  <2> QED  BY <1>1, <2>2 DEF MapsHold, LikeSes
<1>2. CASE ~S.stored
  <2>1. MapsForgotten(m, k, e, z)  BY <1>2 DEF MapsHold
  <2>2. MapsForgotten(n, k, e, z)  BY <2>1 DEF MapsForgotten, SameFor
  <2> QED  BY <1>2, <2>2 DEF MapsHold, LikeSes
<1> QED  BY <1>1, <1>2

\* A step of the session itself.
LEMMA SessionOnlyCurrent ==
    ASSUME CurrentInv, PasswordInv', NEW s \in Sessions, NEW S, NEW m,
           ses' = [ses EXCEPT ![s] = S], sub' = m, S.auth = ses[s].auth,
           UNCHANGED <<auths, nextAuth, task, lapsed, extra>>, raced \subseteq raced',
           IsMaps(m), OthersAs(sub, m, s),
           s \notin raced' => MapsHold(S, m, task, extra[s], s)
    PROVE  CurrentInv'
<1>1. Deleted' = Deleted  BY DeletedSame
<1>2. ses \in [Sessions -> SesShape]  BY DEF CurrentInv, PasswordInv, SesInv
<1>3. ASSUME NEW z \in Sessions, z \notin raced'
      PROVE  MapsHold(ses'[z], sub', task', extra'[z], z)
             /\ Within(ses'[z], task', lapsed'[z], Deleted', z)
  <2>1. /\ MapsHold(ses[z], sub, task, extra[z], z)
        /\ Within(ses[z], task, lapsed[z], Deleted, z)
    BY <1>3 DEF CurrentInv
  <2>2. CASE z = s
    <3>1. ses'[z] = S  BY <1>2, <2>2
    <3>2. Within(S, task, lapsed[z], Deleted, z)
      BY <2>1, <2>2 DEF Within, InWindow
    <3> QED  BY <1>1, <1>3, <2>2, <3>1, <3>2
  <2>3. CASE z # s
    <3>1. ses'[z] = ses[z] /\ SameFor(sub, m, z) /\ LikeSes(ses[z], ses[z])
      BY <1>2, <2>3 DEF OthersAs, LikeSes
    <3>2. ses[z].stored \in BOOLEAN  BY <1>2 DEF SesShape
    <3>3. MapsHold(ses[z], m, task, extra[z], z)  BY <2>1, <3>1, <3>2, MapsSame
    <3> QED  BY <1>1, <2>1, <3>1, <3>3
  <2> QED  BY <2>2, <2>3
<1> QED  BY <1>3 DEF CurrentInv

LEMMA ConnectCurrent ==
    ASSUME CurrentInv, PasswordInv', NEW s \in Sessions, Connect(s)
    PROVE  CurrentInv'
<1> USE DEF Untouched, Rest
<1> DEFINE S == [ses[s] EXCEPT !.stored = TRUE]  m == Subscribe(sub, s, S)
<1>1. /\ ses' = [ses EXCEPT ![s] = S] /\ sub' = m
      /\ ses[s].stored \/ ses[s] = NewSession(ses[s].perm)
      /\ UNCHANGED <<auths, nextAuth, task, lapsed, extra, raced>>
  BY DEF Connect
<1>2. ses[s] \in SesShape  BY DEF CurrentInv, PasswordInv, SesInv
<1>3. /\ S.stored /\ S.user = ses[s].user /\ S.auth = ses[s].auth
      /\ S.chans = ses[s].chans
  BY <1>2 DEF SesShape
<1> HIDE DEF S
<1>4. IsMaps(sub)  BY DEF CurrentInv
<1>5. IsMaps(m) /\ OthersAs(sub, m, s)  BY <1>4, SubscribeFacts
<1>6. ASSUME s \notin raced PROVE MapsHold(S, sub, task, extra[s], s)
  <2>1. MapsHold(ses[s], sub, task, extra[s], s)  BY <1>6 DEF CurrentInv
  <2>2. CASE ses[s].stored
    <3>1. LikeSes(ses[s], S) /\ SameFor(sub, sub, s) /\ ses[s].stored \in BOOLEAN
      BY <1>2, <1>3, <2>2 DEF LikeSes, SameFor, SesShape
    <3> QED  BY <2>1, <3>1, MapsSame
  <2>3. CASE ~ses[s].stored
    <3>1. S.user = NoUser /\ S.auth = 0 /\ S.chans = {}
      <4>1. ses[s] = NewSession(ses[s].perm)  BY <1>1, <2>3
      <4> QED  BY <1>3, <4>1 DEF NewSession
    <3>2. MapsForgotten(sub, task, extra[s], s)  BY <2>1, <2>3 DEF MapsHold
    <3>3. MapsKnown(S, sub, task, extra[s], s)
      BY <3>1, <3>2 DEF MapsForgotten, MapsKnown, Follows, ChansFollow
    <3> QED  BY <1>3, <3>3 DEF MapsHold
  <2> QED  BY <2>2, <2>3
<1>7. ASSUME s \notin raced' PROVE MapsHold(S, m, task, extra[s], s)
  <2>1. MapsHold(S, sub, task, extra[s], s)  BY <1>1, <1>6, <1>7
  <2> QED  BY <1>3, <1>4, <2>1, SubscribedHolds
<1> HIDE DEF m
<1> QED  BY <1>1, <1>3, <1>5, <1>7, SessionOnlyCurrent

LEMMA FinalizeCurrent ==
    ASSUME CurrentInv, PasswordInv', NEW s \in Sessions, Finalize(s)
    PROVE  CurrentInv'
<1> USE DEF Rest
<1> DEFINE b == ~ses[s].data  S == [ses[s] EXCEPT !.stored = b]
           m == IF ses[s].data THEN Unsubscribe(sub, s, ses[s]) ELSE sub
<1>1. ses[s] \in SesShape /\ ses \in [Sessions -> SesShape]
  BY DEF CurrentInv, PasswordInv, SesInv
<1>2. /\ ses' = [ses EXCEPT ![s] = S] /\ sub' = m /\ ses[s].stored
      /\ raced' = IF \E t \in Tasks : task[t].s = s THEN raced \cup {s} ELSE raced
      /\ UNCHANGED <<auths, nextAuth, task, lapsed, extra>>
  BY <1>1 DEF Finalize
<1>3. b \in BOOLEAN /\ (ses[s].data <=> ~b)  BY <1>1 DEF SesShape
<1> HIDE DEF b
<1>4. /\ S.stored = b /\ S.user = ses[s].user /\ S.auth = ses[s].auth
      /\ S.chans = ses[s].chans
  BY <1>1 DEF SesShape
<1> HIDE DEF S
<1>5. IsMaps(sub)  BY DEF CurrentInv
<1>6. IsMaps(m) /\ OthersAs(sub, m, s)
  BY <1>5, UnsubscribeFacts DEF OthersAs, SameFor
<1>7. ASSUME s \notin raced' PROVE MapsHold(S, m, task, extra[s], s)
  <2>1. s \notin raced /\ ~\E t \in Tasks : task[t].s = s  BY <1>2, <1>7
  <2>2. MapsHold(ses[s], sub, task, extra[s], s)  BY <2>1 DEF CurrentInv
  <2>3. CASE b
    <3>1. m = sub  BY <1>3, <2>3
    <3>2. LikeSes(ses[s], S) /\ SameFor(sub, sub, s) /\ ses[s].stored \in BOOLEAN
      BY <1>1, <1>2, <1>4, <2>3 DEF LikeSes, SameFor, SesShape
    <3> HIDE DEF m
    <3> QED  BY <2>2, <3>1, <3>2, MapsSame
  <2>4. CASE ~b
    <3>1. m = Unsubscribe(sub, s, ses[s])  BY <1>3, <2>4
    <3>2. /\ m.user = sub.user \ {<<ses[s].user, s>>}
          /\ m.auth = sub.auth \ {<<ses[s].auth, s>>}
          /\ m.chan = sub.chan \ (ses[s].chans \X {s})
      BY <1>5, <3>1, UnsubscribeFacts
    <3> HIDE DEF m
    <3>3. MapsKnown(ses[s], sub, task, extra[s], s)  BY <1>2, <2>2 DEF MapsHold
    <3>4. OldUsers(task, s) = {} /\ OldAuths(task, s) = {}
      BY <2>1 DEF OldUsers, OldAuths, IsLate
    <3>5. \A u : <<u, s>> \notin m.user /\ <<u, s>> \notin m.auth
      BY <3>2, <3>3, <3>4 DEF MapsKnown, Follows
    <3>6. \A c : <<c, s>> \in m.chan => c \in extra[s]
      BY <3>2, <3>3 DEF MapsKnown, ChansFollow
    <3>7. MapsForgotten(m, task, extra[s], s)  BY <2>1, <3>5, <3>6 DEF MapsForgotten
    <3> QED  BY <1>4, <2>4, <3>7 DEF MapsHold
  <2> QED  BY <2>3, <2>4
<1>8. raced \subseteq raced'  BY <1>2
<1> HIDE DEF m
<1> QED  BY <1>2, <1>4, <1>6, <1>7, <1>8, SessionOnlyCurrent

\* Rows, keys, passwords and members change.
LEMMA ElsewhereCurrent ==
    ASSUME CurrentInv, PasswordInv', UNCHANGED <<ses, sub, task, lapsed, extra, raced>>,
           Deleted \subseteq Deleted'
    PROVE  CurrentInv'
<1>1. ASSUME NEW z \in Sessions, z \notin raced'
      PROVE  MapsHold(ses'[z], sub', task', extra'[z], z)
             /\ Within(ses'[z], task', lapsed'[z], Deleted', z)
  <2>1. /\ MapsHold(ses[z], sub, task, extra[z], z)
        /\ Within(ses[z], task, lapsed[z], Deleted, z)
    BY <1>1 DEF CurrentInv
  <2>2. Within(ses[z], task, lapsed[z], Deleted', z)  BY <2>1 DEF Within
  <2> QED  BY <2>1, <2>2
<1> QED  BY <1>1 DEF CurrentInv

LEMMA SessionStepCurrent ==
    ASSUME CurrentInv, PasswordInv', NEW s \in Sessions, SessionStep(s)
    PROVE  CurrentInv'
<1>1. CASE Connect(s)  BY <1>1, ConnectCurrent
<1>2. CASE Finalize(s)  BY <1>2, FinalizeCurrent
<1>3. CASE KeyGoes(s)
  <2>1. Deleted' = Deleted  BY <1>3, DeletedSame DEF KeyGoes, Rest
  <2> QED  BY <1>3, <2>1, ElsewhereCurrent DEF KeyGoes, Rest
<1> QED  BY <1>1, <1>2, <1>3 DEF SessionStep

LEMMA DeviceStepCurrent ==
    ASSUME CurrentInv, PasswordInv', NEW k \in Keys, DeviceStep(k)
    PROVE  CurrentInv'
<1> USE DEF Elsewhere
<1>1. ASSUME NEW j \in Keys, AcceptLoginToken(k, j) PROVE CurrentInv'
  <2>1. CreatesRow(j, auths[k].user, auths[k].user \in protected)
        /\ UNCHANGED <<ses, sub, task, lapsed, extra, raced>>
    BY <1>1 DEF AcceptLoginToken
  <2> DEFINE u == auths[k].user  pw == u \in protected
  <2>2. CreatesRow(j, u, pw)  BY <2>1
  <2> HIDE DEF u, pw
  <2>3. Deleted \subseteq Deleted'  BY <2>2, CreatesRowIds
  <2> QED  BY <2>1, <2>3, ElsewhereCurrent
<1>2. ASSUME NEW some \in SUBSET Keys, ResetAuthorizations(k, some) PROVE CurrentInv'
  <2>1. UNCHANGED <<nextAuth, ses, sub, task, lapsed, extra, raced>>
        /\ auths' = [j \in Keys |-> IF j \in some THEN NoAuth ELSE auths[j]]
    BY <1>2 DEF ResetAuthorizations
  <2>2. Deleted \subseteq Deleted'  BY <2>1, RowsDeletedIds
  <2> QED  BY <2>1, <2>2, ElsewhereCurrent
<1>3. CASE SetPassword(k)
  <2>1. Deleted' = Deleted  BY <1>3, DeletedSame DEF SetPassword
  <2> QED  BY <1>3, <2>1, ElsewhereCurrent DEF SetPassword
<1>4. CASE RemovePassword(k)
  <2> DEFINE some == {j \in Keys : auths[j].user = auths[k].user /\ auths[j].mfa}
  <2>1. UNCHANGED <<nextAuth, ses, sub, task, lapsed, extra, raced>>
        /\ auths' = [j \in Keys |-> IF j \in some THEN NoAuth ELSE auths[j]]
    BY <1>4 DEF RemovePassword
  <2> HIDE DEF some
  <2>2. Deleted \subseteq Deleted'  BY <2>1, RowsDeletedIds
  <2> QED  BY <2>1, <2>2, ElsewhereCurrent
<1> QED  BY <1>1, <1>2, <1>3, <1>4 DEF DeviceStep

LEMMA UserStepCurrent ==
    ASSUME CurrentInv, PasswordInv', NEW u \in Users, UserStep(u)
    PROVE  CurrentInv'
<1> USE DEF Elsewhere
<1>1. CASE DeleteAccount(u)
  <2> DEFINE some == {j \in Keys : auths[j].user = u}
  <2>1. UNCHANGED <<nextAuth, ses, sub, task, lapsed, extra, raced>>
        /\ auths' = [j \in Keys |-> IF j \in some THEN NoAuth ELSE auths[j]]
    BY <1>1 DEF DeleteAccount
  <2> HIDE DEF some
  <2>2. Deleted \subseteq Deleted'  BY <2>1, RowsDeletedIds
  <2> QED  BY <2>1, <2>2, ElsewhereCurrent
<1>2. ASSUME NEW c \in Channels, JoinChannel(u, c) \/ LeaveChannel(u, c)
      PROVE  CurrentInv'
  <2>1. UNCHANGED <<auths, nextAuth, ses, sub, task, lapsed, extra, raced>>
    BY <1>2 DEF JoinChannel, LeaveChannel
  <2>2. Deleted' = Deleted  BY <2>1, DeletedSame
  <2> QED  BY <2>1, <2>2, ElsewhereCurrent
<1> QED  BY <1>1, <1>2 DEF UserStep

LEMMA NewsStepCurrent ==
    ASSUME CurrentInv, PasswordInv', NEW n, NewsStep(n)
    PROVE  CurrentInv'
<1> USE DEF database
<1>1. CASE ChannelSubscribeReads(n)
  <2>1. UNCHANGED <<auths, nextAuth, ses, sub, task, lapsed, extra, raced>>
    BY <1>1 DEF ChannelSubscribeReads
  <2>2. Deleted' = Deleted  BY <2>1, DeletedSame
  <2> QED  BY <2>1, <2>2, ElsewhereCurrent
<1>2. CASE ChannelSubscribeApplies(n)
  <2> DEFINE c == n.channel  C == sub.chan \cup ({c} \X n.all)
  <2>1. UNCHANGED <<auths, nextAuth, ses, task, lapsed, raced>>
    BY <1>2 DEF ChannelSubscribeApplies
  <2>2. /\ sub' = [sub EXCEPT !.chan = C]
        /\ extra' = [s \in Sessions |->
                       IF s \in n.all /\ (ses[s].stored => c \notin ses[s].chans)
                       THEN extra[s] \cup {c} ELSE extra[s]]
    BY <1>2 DEF ChannelSubscribeApplies
  <2>3. Deleted' = Deleted  BY <2>1, DeletedSame
  <2>4. /\ IsMaps(sub') /\ sub'.user = sub.user /\ sub'.auth = sub.auth
        /\ sub'.chan = C
    <3>1. IsMaps(sub)  BY DEF CurrentInv
    <3> HIDE DEF C
    <3> QED  BY <2>2, <3>1 DEF IsMaps
  <2>5. extra' = [s \in Sessions |-> extra'[s]]  BY <2>2
  <2>6. ASSUME NEW z \in Sessions, z \notin raced
        PROVE  MapsHold(ses[z], sub', task, extra'[z], z)
               /\ Within(ses[z], task, lapsed[z], Deleted, z)
    <3>1. /\ MapsHold(ses[z], sub, task, extra[z], z)
          /\ Within(ses[z], task, lapsed[z], Deleted, z)
      BY <2>6 DEF CurrentInv
    <3>2. \A x : <<x, z>> \in C <=> <<x, z>> \in sub.chan \/ (x = c /\ z \in n.all)
      OBVIOUS
    <3>3. extra[z] \subseteq extra'[z]
      BY <2>2
    <3>4. z \in n.all /\ (ses[z].stored => c \notin ses[z].chans) => c \in extra'[z]
      BY <2>2
    <3> HIDE DEF C, c
    <3>5. ASSUME ses[z].stored PROVE MapsKnown(ses[z], sub', task, extra'[z], z)
      <4>1. MapsKnown(ses[z], sub, task, extra[z], z)  BY <3>1, <3>5 DEF MapsHold
      <4>2. ChansFollow(C, ses[z].chans, extra'[z], z)
        BY <3>2, <3>3, <3>4, <3>5, <4>1 DEF MapsKnown, ChansFollow
      <4> QED  BY <2>4, <4>1, <4>2 DEF MapsKnown
    <3>6. ASSUME ~ses[z].stored PROVE MapsForgotten(sub', task, extra'[z], z)
      <4>1. MapsForgotten(sub, task, extra[z], z)  BY <3>1, <3>6 DEF MapsHold
      <4> QED  BY <2>4, <3>2, <3>3, <3>4, <3>6, <4>1 DEF MapsForgotten
    <3> QED  BY <3>1, <3>5, <3>6 DEF MapsHold
  <2> QED  BY <2>1, <2>3, <2>4, <2>5, <2>6 DEF CurrentInv
<1> QED  BY <1>1, <1>2 DEF NewsStep

LEMMA StepKeepsCurrentInv ==
    ASSUME CurrentInv, [Next]_vars
    PROVE  CurrentInv'
<1>1. PasswordInv'  BY StepKeepsPasswordInv DEF CurrentInv
<1>2. CASE UNCHANGED vars
  <2>1. Deleted' = Deleted  BY <1>2, DeletedSame DEF vars
  <2> QED  BY <1>1, <1>2, <2>1, ElsewhereCurrent DEF vars
<1>3. CASE Next
  BY <1>1, <1>3, TaskStepCurrent, SessionStepCurrent, UserStepCurrent, NewsStepCurrent,
     DeviceStepCurrent DEF Next
<1> QED  BY <1>2, <1>3

\* At first no session is known and no task is at work.
LEMMA InitCurrent == Init => CurrentInv
<1> SUFFICES ASSUME Init PROVE CurrentInv
  OBVIOUS
<1>1. PasswordInv  BY InitGood
<1>2. /\ sub = [user |-> {}, auth |-> {}, chan |-> {}]
      /\ extra = [s \in Sessions |-> {}] /\ lapsed = [s \in Sessions |-> {}]
      /\ task = [t \in Tasks |-> IdleTask]
      /\ ses = [s \in Sessions |-> NewSession(key[s] = "perm")]
  BY DEF Init
<1>3. IsMaps(sub) /\ extra = [s \in Sessions |-> extra[s]]
  <2>1. IsMaps(sub)  BY <1>2 DEF IsMaps
  <2> QED  BY <1>2, <2>1
<1>4. ASSUME NEW s \in Sessions
      PROVE  MapsHold(ses[s], sub, task, extra[s], s)
             /\ Within(ses[s], task, lapsed[s], Deleted, s)
  <2>1. ses[s].stored = FALSE  BY <1>2 DEF NewSession
  <2>2. \A t \in Tasks : task[t].s # s  BY <1>2, IdleFacts, SessionsAreNamed
  <2>3. MapsForgotten(sub, task, extra[s], s)
    <3>1. sub.user = {} /\ sub.auth = {} /\ sub.chan = {}  BY <1>2
    <3> QED  BY <2>2, <3>1 DEF MapsForgotten
  <2>4. lapsed[s] = {}  BY <1>2
  <2>5. Within(ses[s], task, lapsed[s], Deleted, s)  BY <2>2, <2>4 DEF Within
  <2> QED  BY <2>1, <2>3, <2>5 DEF MapsHold
<1> QED  BY <1>1, <1>3, <1>4 DEF CurrentInv

\* When no refresh of a session is under way, nothing is late.
LEMMA CurrentIsEnough == CurrentInv => SessionIsCurrent
<1> SUFFICES ASSUME CurrentInv PROVE SessionIsCurrent
  OBVIOUS
<1>1. SubscribedAsItself
  <2> SUFFICES ASSUME NEW s \in Sessions, ses[s].stored, Refreshing(s) = {}, s \notin raced
               PROVE  /\ {u \in Users : <<u, s>> \in sub.user} = {ses[s].user} \ {NoUser}
                      /\ AuthsOf(s) = {ses[s].auth} \ {0}
                      /\ ses[s].chans \subseteq {c \in Channels : <<c, s>> \in sub.chan}
                      /\ {c \in Channels : <<c, s>> \in sub.chan} \subseteq ses[s].chans \cup extra[s]
    BY DEF SubscribedAsItself
  <2>1. MapsKnown(ses[s], sub, task, extra[s], s)  BY DEF CurrentInv, MapsHold
  <2>2. OldUsers(task, s) = {} /\ OldAuths(task, s) = {}
    BY DEF Refreshing, RefreshSteps, OldUsers, OldAuths, IsLate, LateSteps
  <2>3. ses[s].user \in Users \cup {NoUser} /\ ses[s].chans \subseteq Channels
    <3>1. ses[s] \in SesShape  BY DEF CurrentInv, PasswordInv, SesInv
    <3> QED  BY <3>1 DEF SesShape
  <2>4. {u \in Users : <<u, s>> \in sub.user} = {ses[s].user} \ {NoUser}
    BY <2>1, <2>2, <2>3 DEF MapsKnown, Follows
  <2>5. AuthsOf(s) = {ses[s].auth} \ {0}
    <3>1. \A a : <<a, s>> \in sub.auth <=> a = ses[s].auth /\ a # 0
      BY <2>1, <2>2 DEF MapsKnown, Follows
    <3>2. \A a : <<a, s>> \in sub.auth => a \in {p[1] : p \in sub.auth}
      OBVIOUS
    <3>3. \A a : a \in AuthsOf(s) <=> <<a, s>> \in sub.auth  BY <3>2 DEF AuthsOf
    <3> DEFINE A == AuthsOf(s)  x == ses[s].auth
    <3>4. \A a : a \in A <=> a = x /\ a # 0  BY <3>1, <3>3
    <3> HIDE DEF A, x
    <3>5. A = {x} \ {0}  BY <3>4
    <3> QED  BY <3>5 DEF A, x
  <2>6. /\ ses[s].chans \subseteq {c \in Channels : <<c, s>> \in sub.chan}
        /\ {c \in Channels : <<c, s>> \in sub.chan} \subseteq ses[s].chans \cup extra[s]
    BY <2>1, <2>3 DEF MapsKnown, ChansFollow
  <2> QED  BY <2>4, <2>5, <2>6
<1>2. FinalizedIsForgotten
  <2> SUFFICES ASSUME NEW s \in Sessions, ~ses[s].stored, s \notin raced
               PROVE  /\ \A u \in Users : <<u, s>> \notin sub.user
                      /\ AuthsOf(s) = {}
                      /\ {c \in Channels : <<c, s>> \in sub.chan} \subseteq extra[s]
    BY DEF FinalizedIsForgotten
  <2>1. MapsForgotten(sub, task, extra[s], s)  BY DEF CurrentInv, MapsHold
  <2> QED  BY <2>1 DEF MapsForgotten, AuthsOf
<1>3. LoggedOutWithinWindow
  <2> SUFFICES ASSUME NEW t \in Tasks, task[t].step = "run", task[t].s \notin raced
               PROVE  task[t].auth \notin task[t].gone
    BY DEF LoggedOutWithinWindow
  <2>1. task[t].s \in Sessions  BY BusyShape
  <2> QED  BY <2>1, TaskWindow DEF InWindow
<1> QED  BY <1>1, <1>2, <1>3 DEF SessionIsCurrent, SubscriptionsMatch

\* SessionIsCurrent for any sessions, tasks, users and keys and any number of
\* requests: the maps of the broker follow what refresh_auth_maybe, _reset_auth,
\* connect and finalize make of a session, however the steps of refreshes
\* interleave, and a request carries no authorization that was gone when its
\* session last looked; unless a refresh was lost or overtaken (raced).
THEOREM SessionCurrent == Spec => []SessionIsCurrent
<1>1. Init => CurrentInv  BY InitCurrent
<1>2. CurrentInv /\ [Next]_vars => CurrentInv'  BY StepKeepsCurrentInv
<1>3. CurrentInv => SessionIsCurrent  BY CurrentIsEnough
<1> QED  BY <1>1, <1>2, <1>3, PTL DEF Spec
=============================================================================
