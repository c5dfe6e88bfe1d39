---------------------------- MODULE MessagesProofs ----------------------------
(***************************************************************************)
(* The messages of a private dialog, for any number of tasks, random ids,  *)
(* texts and messages: retries, what counts as read, what the dialog       *)
(* shows, and what is scheduled.                                           *)
(***************************************************************************)
EXTENDS Messages, FiniteSetTheorems, WellFoundedInduction, TLAPS

\* The contents whose refs a task is about to create, and those it is not.
Pending == {task[s].c : s \in {z \in Tasks : task[z].step = "refs"}}
Settled(c, n, P) == c \in Nat /\ c < n.c /\ c \notin P
\* The id of a ref that exists or has existed.
Given(i, n) == i \in Nat /\ 1 <= i /\ i < n.r

ContentsRight ==
    /\ content = [c \in DOMAIN content |-> content[c]]
    /\ \A c \in DOMAIN content : content[c] \in Contents /\ c \in Nat /\ c < next.c
NextRight ==
    /\ next = [c |-> next.c, r |-> next.r, top |-> next.top]
    /\ next.c \in Nat /\ next.r \in Nat /\ next.top \in Nat
    /\ 1 <= next.r /\ next.top < next.c
\* A ref has an id of its own, its user no other copy, and a scheduled message
\* no other ref.
RefsRight ==
    /\ \A x \in ref : /\ x \in Refs /\ Given(x.id, next) /\ Settled(x.c, next, Pending)
                      /\ x.c \in DOMAIN content /\ x.c <= next.top
    /\ \A x, y \in ref : x.id = y.id => x = y
    /\ \A x, y \in ref : x.c = y.c /\ (x.peer = y.peer \/ Kind(x) = "scheduled") => x = y
\* Only scheduled messages are planned.
Planned(p, C, R) == p \in Plans /\ \E x \in R : x.id = p.ref /\ C[x.c].kind = "scheduled"
PlansRight == \A p \in plan : Planned(p, content, ref)
StateRight ==
    /\ last \in [Users -> Nat] /\ readIn \in [Users -> Int]
    /\ outMax \in [Users -> Nat] /\ seen \in [Users -> Nat]
    /\ blocked \subseteq Users
    /\ \A c \in expire : Settled(c, next, Pending)

\* The content of a task that is about to create its refs.
Announces(k, C) ==
    /\ k.u \in k.peers /\ k.c \in DOMAIN C
    /\ C[k.c].author = k.u /\ C[k.c].org = k.rnd
    /\ C[k.c].kind = "scheduled" => k.peers = {k.u}
    /\ k.op = "schedule" => C[k.c].kind = "scheduled"
\* A task that schedules a message: its ref, if it is still there.
Schedules(k) == k.step = "plan" \/ (k.step = "unhide" /\ k.op = "schedule")
\* What a task works on.
Holds(k, C, R, n, P) ==
    /\ k.step \notin {"idle", "cache"} => k.u \in Users
    /\ k.step = "content" /\ k.op = "forward" => k.u \in k.peers
    /\ k.step \in {"plan", "unread", "own"} => k.op # "forward"
    /\ k.step = "refs" => Announces(k, C) /\ k.c \in P
    /\ k.step \in {"unhide", "plan", "unread", "own", "rsave", "receipt"}
       => Given(k.ref, n) /\ Settled(k.c, n, P)
    /\ Schedules(k) => \A x \in R : x.id = k.ref => C[x.c].kind = "scheduled"
    /\ k.step = "purge" => \A c \in k.ids : Settled(c, n, P)
    /\ k.step = "pin" => \A i \in k.ids : Given(i, n)
TasksRight ==
    /\ task \in [Tasks -> TaskStates]
    /\ \A t \in Tasks : Holds(task[t], content, ref, next, Pending)
    /\ \A s, t \in Tasks : task[s].step = "refs" /\ task[t].step = "refs" /\ task[s].c = task[t].c
                           => s = t

RowsInv ==
    ContentsRight /\ NextRight /\ RefsRight /\ PlansRight /\ StateRight /\ TasksRight

NamesInv ==
    /\ \A x \in ref : x.peer = content[x.c].author => x.rnd = content[x.c].org
    /\ \A x, y \in ref : x.peer = y.peer /\ x.rnd = y.rnd /\ x.rnd # None => x = y

SentInv ==
    /\ \A s \in sent : Given(s[1], next) /\ s[1] \notin Ids(ref) /\ s = <<s[1], s[2]>>
    /\ ScheduledSentOnce

\* An entry of the cache: what it says of the rows C, but for those in K.
Agrees(c, v, x, C, n, K) ==
    /\ c \in Nat /\ v \in Nat /\ c < n.c
    /\ c \in DOMAIN C /\ c \notin K => v <= C[c].ver /\ (v = C[c].ver => x = C[c].text)
CacheInv ==
    /\ \A e \in cache : Agrees(e.c, e.ver, e.text, content, next, clash)
    /\ \A t \in Tasks : task[t].step = "cache" =>
           Agrees(task[t].c, task[t].ver, task[t].text, content, next, clash)

PinsTogether(k) ==
    k.step = "pin" => \A x, y \in ref : x.c = y.c /\ x.c \notin parted => (x.id \in k.ids <=> y.id \in k.ids)
PinsInv ==
    /\ \A x, y \in ref : x.c = y.c /\ x.c \notin parted => x.pinned = y.pinned
    /\ \A t \in Tasks : PinsTogether(task[t])

\* The refs are in the order of the contents, but for those of the late ones.
InOrder == \A x, y \in ref : x.c < y.c /\ x.c \notin late => x.id < y.id
\* Nothing unseen is before the message that a sender marks as read.
OwnRight(k, R, C, sn) ==
    k.step = "own" =>
        \A x \in R : x.peer = k.u /\ C[x.c].author # k.u /\ x.id <= k.ref => x.id <= sn[k.u]
\* What a reader marks covers the messages up to its content.
MarkRight(k, R, n, l, sn) ==
    /\ k.step \in {"rsave", "receipt"} =>
         /\ k.c <= n.top
         /\ \A x \in R : x.peer = k.u /\ x.c <= k.c /\ x.c \notin l => x.id <= k.ref
    /\ k.step = "receipt" => k.ref <= sn[k.u]
\* A task that nobody has overtaken marks no less than is marked.
Ahead(k, rd) ==
    k.step \in {"unhide", "unread", "own", "rsave"} /\ ~k.over => rd[k.u] <= k.ref
ReadsInv ==
    /\ \A u \in Users : readIn[u] < next.r /\ outMax[u] < next.r
    /\ late \subseteq Nat
    /\ InOrder /\ OnlySeenIsRead /\ ReceiptsAreTrue
    /\ \A t \in Tasks : /\ OwnRight(task[t], ref, content, seen)
                        /\ MarkRight(task[t], ref, next, late, seen)
                        /\ Ahead(task[t], readIn)

-----------------------------------------------------------------------------
(* The two users, and the largest of a set of ids *)

LEMMA OtherUser ==
    ASSUME NEW u \in Users
    PROVE  /\ Other(u) \in Users /\ Other(u) # u
           /\ \A v \in Users : v # u => v = Other(u)
<1>1. IsFiniteSet(Users) /\ Cardinality(Users) = 2  BY MessagesAssumption
<1>2. IsFiniteSet(Users \ {u}) /\ Cardinality(Users \ {u}) = 1
  BY <1>1, FS_RemoveElement
<1>3. PICK w : Users \ {u} = {w}  BY <1>2, FS_Singleton
<1>4. w \in Users /\ w # u /\ \A v \in Users : v # u => v = w  BY <1>3
<1> QED  BY <1>4 DEF Other

LEMMA AudienceIsUsers ==
    ASSUME NEW u \in Users
    PROVE  Audience(u) \subseteq Users /\ u \in Audience(u)
BY OtherUser DEF Audience

LEMMA LargestId ==
    ASSUME NEW S, S # {}, NEW n \in Nat, \A i \in S : i \in Nat /\ i < n
    PROVE  /\ Max(S) \in S /\ \A i \in S : i <= Max(S)
           /\ \E m \in S : \A i \in S : i <= m
<1> DEFINE D == {n - i : i \in S}
<1>1. D \subseteq Nat /\ D # {}  BY SMT
<1>2. PICK d \in D : \A e \in D : ~ (<<e, d>> \in OpToRel(<, Nat))
  BY <1>1, WFMin, NatLessThanWellFounded, Zenon
<1>3. PICK m \in S : d = n - m  BY <1>2
<1>4. \A i \in S : n - i \in D  OBVIOUS
<1>5. \A i \in S : ~(n - i < n - m)  BY <1>2, <1>3, <1>4, <1>1 DEF OpToRel
<1>6. \A i \in S : i <= m
  <2> SUFFICES ASSUME NEW i \in S PROVE i <= m  OBVIOUS
  <2>1. i \in Nat /\ m \in Nat /\ ~(n - i < n - m)  BY <1>5, <1>3
  <2> QED  BY <2>1, SMT
<1>7. \A i \in S : m >= i  BY <1>6, <1>3, SMT
<1>8. Max(S) \in S /\ \A i \in S : Max(S) >= i
  BY <1>3, <1>7, Zenon DEF Max
<1>9. \A i \in S : i <= Max(S)  BY <1>8, SMT
<1> QED  BY <1>3, <1>6, <1>8, <1>9

LEMMA MaxOfTwo ==
    ASSUME NEW a \in Int, NEW b \in Int
    PROVE  /\ Max({a, b}) \in {a, b} /\ a <= Max({a, b}) /\ b <= Max({a, b})
           /\ Max({a, b}) = IF a <= b THEN b ELSE a
<1>1. \E m \in {a, b} : \A i \in {a, b} : m >= i  BY SMT
<1>2. Max({a, b}) \in {a, b} /\ \A i \in {a, b} : Max({a, b}) >= i
  BY <1>1, Zenon DEF Max
<1> QED  BY <1>2, SMT

-----------------------------------------------------------------------------
(* What a step leaves of the rows and of the other tasks' work *)

SameRef(y, x) == y.id = x.id /\ y.peer = x.peer /\ y.c = x.c /\ y.rnd = x.rnd
SameRow(m, n) == m.author = n.author /\ m.org = n.org /\ m.kind = n.kind
Over(k) == [k EXCEPT !.over = TRUE]

\* Rows are deleted or changed in place, and none that a task still needs.
RowsFewer ==
    /\ next' = next
    /\ content' = [c \in DOMAIN content' |-> content'[c]]
    /\ \A c \in DOMAIN content' : /\ c \in DOMAIN content /\ content'[c] \in Contents
                                  /\ SameRow(content'[c], content[c])
    /\ \A c \in DOMAIN content : c \notin DOMAIN content' => c \notin Pending
    /\ \A y \in ref' : y \in Refs /\ y.c \in DOMAIN content' /\ \E x \in ref : SameRef(y, x)
    /\ \A y, z \in ref' : y.id = z.id => y = z

\* What was settled stays so, and what is pending is still there.
Later ==
    /\ \A i : Given(i, next) => Given(i, next')
    /\ \A c : Settled(c, next, Pending) => Settled(c, next', Pending')
    /\ \A c \in Pending : c \in DOMAIN content' /\ SameRow(content'[c], content[c])
    /\ \A y \in ref' : Given(y.id, next)
           => \E x \in ref : x.id = y.id /\ content'[y.c].kind = content[x.c].kind

PlansKept ==
    \A p \in plan' : /\ p \in Plans /\ \E q \in plan : q.ref = p.ref
                     /\ \E y \in ref' : y.id = p.ref

\* The other tasks, of which some may have been overtaken.
OthersKept(t) ==
    /\ task' = [s \in Tasks |-> task'[s]]
    /\ \A s \in Tasks : s # t => task'[s] = task[s] \/ task'[s] = Over(task[s])

LEMMA SetKeepsOthers ==
    ASSUME task \in [Tasks -> TaskStates], NEW t \in Tasks, NEW r, Set(t, r)
    PROVE  OthersKept(t) /\ task'[t] = r
BY DEF Set, OthersKept

LEMMA OverFields ==
    ASSUME NEW k \in TaskStates
    PROVE  /\ Over(k) \in TaskStates
           /\ Over(k).step = k.step /\ Over(k).op = k.op /\ Over(k).u = k.u
           /\ Over(k).todo = k.todo /\ Over(k).rnd = k.rnd /\ Over(k).peers = k.peers
           /\ Over(k).c = k.c /\ Over(k).ref = k.ref /\ Over(k).text = k.text
           /\ Over(k).ver = k.ver /\ Over(k).ids = k.ids /\ Over(k).yes = k.yes
           /\ Over(k).over = TRUE
BY DEF Over, TaskStates

LEMMA SameFields ==
    ASSUME NEW k \in TaskStates, NEW l, l = k \/ l = Over(k)
    PROVE  /\ l \in TaskStates
           /\ l.step = k.step /\ l.op = k.op /\ l.u = k.u /\ l.todo = k.todo /\ l.rnd = k.rnd
           /\ l.peers = k.peers /\ l.c = k.c /\ l.ref = k.ref /\ l.text = k.text
           /\ l.ver = k.ver /\ l.ids = k.ids /\ l.yes = k.yes
<1>1. CASE l = k  BY <1>1
<1>2. CASE l = Over(k)  BY <1>2, OverFields
<1> QED  BY <1>1, <1>2

LEMMA OverHolds ==
    ASSUME NEW k \in TaskStates, NEW C, NEW R, NEW n, NEW P, Holds(k, C, R, n, P)
    PROVE  Holds(Over(k), C, R, n, P)
BY OverFields, ZenonT(60) DEF Holds, Announces, Schedules

\* With the task t going to r, no other content is pending than a new one.
LEMMA PendingIs ==
    ASSUME task \in [Tasks -> TaskStates], NEW t \in Tasks, NEW r, OthersKept(t), task'[t] = r,
           NEW c
    PROVE  /\ c \in Pending' => c \in Pending \/ (r.step = "refs" /\ r.c = c)
           /\ task[t].step # "refs" /\ c \in Pending => c \in Pending'
<1>1. \A s \in Tasks : s # t => task'[s].step = task[s].step /\ task'[s].c = task[s].c
  <2> SUFFICES ASSUME NEW s \in Tasks, s # t PROVE task'[s].step = task[s].step /\ task'[s].c = task[s].c
    OBVIOUS
  <2>1. task[s] \in TaskStates /\ (task'[s] = task[s] \/ task'[s] = Over(task[s]))
    BY DEF OthersKept
  <2> QED BY <2>1, SameFields
<1> QED  BY <1>1 DEF Pending

LEMMA SettledStays ==
    ASSUME NextRight, task \in [Tasks -> TaskStates], NEW t \in Tasks, NEW r, OthersKept(t),
           task'[t] = r, r.step # "refs" \/ r.c = next.c,
           next'.c \in Nat, next.c <= next'.c, NEW c, Settled(c, next, Pending)
    PROVE  Settled(c, next', Pending')
BY PendingIs DEF Settled, NextRight

LEMMA SettledSame ==
    ASSUME NextRight, UNCHANGED task, next'.c \in Nat, next.c <= next'.c,
           NEW c, Settled(c, next, Pending)
    PROVE  Settled(c, next', Pending')
BY DEF Settled, NextRight, Pending

LEMMA SameRows ==
    ASSUME ContentsRight, RefsRight, UNCHANGED <<content, ref, next>>
    PROVE  RowsFewer
BY DEF RowsFewer, ContentsRight, RefsRight, SameRow, SameRef

LEMMA FewerRows ==
    ASSUME RowsInv, RowsFewer,
           \A c : Settled(c, next, Pending) => Settled(c, next', Pending')
    PROVE  ContentsRight' /\ NextRight' /\ RefsRight' /\ Later
<1> USE DEF RowsFewer
<1>1. ContentsRight'  BY DEF RowsInv, ContentsRight
<1>2. NextRight'  BY DEF RowsInv, NextRight
<1>3. ASSUME NEW y \in ref'
      PROVE /\ y \in Refs /\ Given(y.id, next') /\ Settled(y.c, next', Pending')
            /\ y.c \in DOMAIN content' /\ y.c <= next'.top
            /\ \E x \in ref : SameRef(y, x) /\ content'[y.c].kind = content[x.c].kind
  <2>1. PICK x \in ref : SameRef(y, x)  OBVIOUS
  <2>2. Given(x.id, next) /\ Settled(x.c, next, Pending) /\ x.c <= next.top
    BY DEF RowsInv, RefsRight
  <2>3. y \in Refs /\ y.c \in DOMAIN content' /\ content'[y.c].kind = content[x.c].kind
    BY <2>1 DEF SameRef, SameRow
  <2> QED  BY <2>1, <2>2, <2>3 DEF SameRef
<1>4. ASSUME NEW y \in ref', NEW z \in ref', y.c = z.c,
             y.peer = z.peer \/ content'[y.c].kind = "scheduled"
      PROVE y = z
  <2>1. PICK v \in ref : SameRef(y, v) /\ content'[y.c].kind = content[v.c].kind  BY <1>3
  <2>2. PICK w \in ref : SameRef(z, w) /\ content'[z.c].kind = content[w.c].kind  BY <1>3
  <2>3. v.c = w.c /\ (v.peer = w.peer \/ content[v.c].kind = "scheduled")
    BY <1>4, <2>1, <2>2 DEF SameRef
  <2>4. v = w  BY <2>3 DEF RowsInv, RefsRight, Kind
  <2>5. y.id = z.id  BY <2>1, <2>2, <2>4 DEF SameRef
  <2> QED  BY <2>5
<1>5. RefsRight'  BY <1>3, <1>4 DEF RefsRight, Kind
<1>6. \A c \in Pending : c \in DOMAIN content' /\ SameRow(content'[c], content[c])
  <2> SUFFICES ASSUME NEW c \in Pending
               PROVE c \in DOMAIN content' /\ SameRow(content'[c], content[c])
    OBVIOUS
  <2>1. PICK t \in Tasks : task[t].step = "refs" /\ task[t].c = c  BY DEF Pending
  <2>2. c \in DOMAIN content  BY <2>1 DEF RowsInv, TasksRight, Holds, Announces
  <2> QED  BY <2>2
<1>7. Later  BY <1>3, <1>6 DEF Later, SameRef
<1> QED  BY <1>1, <1>2, <1>5, <1>7

LEMMA HoldsOn ==
    ASSUME Later, NEW k, Holds(k, content, ref, next, Pending),
           k.step = "refs" => k.c \in Pending'
    PROVE  Holds(k, content', ref', next', Pending')
<1> USE DEF Holds
<1>1. k.step = "refs" => Announces(k, content')
  BY DEF Announces, Later, SameRow
<1>2. k.step \in {"unhide", "plan", "unread", "own", "rsave", "receipt"}
      => Given(k.ref, next') /\ Settled(k.c, next', Pending')
  BY DEF Later
<1>3. k.step = "purge" => \A c \in k.ids : Settled(c, next', Pending')  BY DEF Later
<1>4. k.step = "pin" => \A i \in k.ids : Given(i, next')  BY DEF Later
<1>5. ASSUME Schedules(k), NEW y \in ref', y.id = k.ref
      PROVE content'[y.c].kind = "scheduled"
  <2>1. Given(y.id, next)  BY <1>5 DEF Schedules
  <2>2. PICK x \in ref : x.id = y.id /\ content'[y.c].kind = content[x.c].kind
    BY <2>1 DEF Later
  <2> QED  BY <1>5, <2>2
<1> QED  BY <1>1, <1>2, <1>3, <1>4, <1>5

\* The task t goes to r.
LEMMA OneTask ==
    ASSUME TasksRight, Later, NEW t \in Tasks, NEW r, OthersKept(t), task'[t] = r,
           r \in TaskStates, Holds(r, content', ref', next', Pending'),
           r.step = "refs" => r.c \notin Pending
    PROVE  TasksRight'
<1>1. ASSUME NEW s \in Tasks, s # t
      PROVE /\ task'[s] \in TaskStates
            /\ task'[s].step = task[s].step /\ task'[s].c = task[s].c
  <2>1. task[s] \in TaskStates  BY DEF TasksRight
  <2>2. task'[s] = task[s] \/ task'[s] = Over(task[s])  BY <1>1 DEF OthersKept
  <2> QED  BY <2>1, <2>2, SameFields
<1>2. task' \in [Tasks -> TaskStates]  BY <1>1 DEF OthersKept
<1>3. ASSUME NEW s \in Tasks PROVE Holds(task'[s], content', ref', next', Pending')
  <2>1. CASE s = t  BY <2>1
  <2>2. CASE s # t
    <3>1. Holds(task[s], content, ref, next, Pending)  BY DEF TasksRight
    <3>2. task[s].step = "refs" => task[s].c \in Pending'  BY <2>2, <1>1 DEF Pending
    <3>3. Holds(task[s], content', ref', next', Pending')  BY <3>1, <3>2, HoldsOn
    <3>4. task[s] \in TaskStates  BY DEF TasksRight
    <3>5. Holds(Over(task[s]), content', ref', next', Pending')  BY <3>3, <3>4, OverHolds
    <3> QED  BY <2>2, <3>3, <3>5 DEF OthersKept
  <2> QED  BY <2>1, <2>2
<1>4. ASSUME NEW s \in Tasks, NEW z \in Tasks, task'[s].step = "refs", task'[z].step = "refs",
             task'[s].c = task'[z].c
      PROVE s = z
  <2>1. \A v \in Tasks : v # t /\ task'[v].step = "refs" => task'[v].c \in Pending
    BY <1>1 DEF Pending
  <2>2. CASE s # t /\ z # t  BY <2>2, <1>1, <1>4 DEF TasksRight
  <2> QED  BY <2>1, <2>2, <1>4
<1> QED  BY <1>2, <1>3, <1>4 DEF TasksRight

LEMMA SameTasks ==
    ASSUME TasksRight, Later, UNCHANGED task
    PROVE  TasksRight'
<1>1. Pending' = Pending  BY DEF Pending
<1>2. \A s \in Tasks : Holds(task[s], content', ref', next', Pending')
  BY <1>1, HoldsOn DEF TasksRight, Holds
<1> QED  BY <1>2 DEF TasksRight

LEMMA FewerPlans ==
    ASSUME RowsInv, Later, PlansKept
    PROVE  PlansRight'
<1> SUFFICES ASSUME NEW p \in plan' PROVE Planned(p, content', ref')
  BY DEF PlansRight
<1>1. PICK q \in plan, y \in ref' : q.ref = p.ref /\ y.id = p.ref  BY DEF PlansKept
<1>2. PICK x \in ref : x.id = p.ref /\ content[x.c].kind = "scheduled"
  BY <1>1 DEF RowsInv, PlansRight, Planned
<1>3. Given(y.id, next)  BY <1>1, <1>2 DEF RowsInv, RefsRight
<1>4. PICK z \in ref : z.id = y.id /\ content'[y.c].kind = content[z.c].kind
  BY <1>3 DEF Later
<1>5. z = x  BY <1>1, <1>2, <1>4 DEF RowsInv, RefsRight
<1> QED  BY <1>1, <1>2, <1>4, <1>5 DEF PlansKept, Planned

LEMMA SamePlans ==
    ASSUME RowsInv, UNCHANGED <<ref, plan>>
    PROVE  PlansKept
BY DEF PlansKept, RowsInv, PlansRight, Planned

-----------------------------------------------------------------------------
(* The steps that create no rows *)

\* What else a step writes has its type, and it expires only settled contents.
StateLater ==
    /\ last' \in [Users -> Nat] /\ readIn' \in [Users -> Int]
    /\ outMax' \in [Users -> Nat] /\ seen' \in [Users -> Nat]
    /\ blocked' \subseteq Users
    /\ \A c \in expire' : Settled(c, next, Pending)

LEMMA StateSame ==
    ASSUME RowsInv, UNCHANGED <<last, readIn, outMax, seen, blocked, expire>>
    PROVE  StateLater
BY DEF RowsInv, StateRight, StateLater

LEMMA WorkStep ==
    ASSUME RowsInv, RowsFewer, StateLater, Later => PlansRight', NEW t \in Tasks, NEW r,
           OthersKept(t), task'[t] = r, r \in TaskStates, r.step # "refs",
           Holds(r, content, ref, next, Pending)
    PROVE  RowsInv'
<1>1. /\ NextRight /\ task \in [Tasks -> TaskStates] /\ next'.c \in Nat /\ next.c <= next'.c
      /\ TasksRight
  BY DEF RowsInv, TasksRight, NextRight, RowsFewer
<1>2. \A c : Settled(c, next, Pending) => Settled(c, next', Pending')
  BY <1>1, SettledStays
<1>3. ContentsRight' /\ NextRight' /\ RefsRight' /\ Later  BY <1>2, FewerRows
<1>4. Holds(r, content', ref', next', Pending')  BY <1>3, HoldsOn
<1>5. TasksRight'  BY <1>1, <1>3, <1>4, OneTask
<1>6. StateRight'  BY <1>2 DEF StateLater, StateRight
<1> QED  BY <1>3, <1>5, <1>6 DEF RowsInv

LEMMA RowStep ==
    ASSUME RowsInv, RowsFewer, StateLater, Later => PlansRight', UNCHANGED task
    PROVE  RowsInv'
<1>1. NextRight /\ next'.c \in Nat /\ next.c <= next'.c /\ TasksRight
  BY DEF RowsInv, TasksRight, NextRight, RowsFewer
<1>2. \A c : Settled(c, next, Pending) => Settled(c, next', Pending')
  BY <1>1, SettledSame
<1>3. ContentsRight' /\ NextRight' /\ RefsRight' /\ Later  BY <1>2, FewerRows
<1>4. TasksRight'  BY <1>1, <1>3, SameTasks
<1>5. StateRight'  BY <1>2 DEF StateLater, StateRight
<1> QED  BY <1>3, <1>4, <1>5 DEF RowsInv

\* A step that only moves a task.
LEMMA OnlyTask ==
    ASSUME RowsInv, NEW t \in Tasks, NEW r, r \in TaskStates, r.step # "refs",
           Holds(r, content, ref, next, Pending), Set(t, r),
           UNCHANGED rows, StateLater
    PROVE  RowsInv'
<1>1. RowsFewer  BY SameRows DEF RowsInv, rows
<1>2. Later => PlansRight'  BY SamePlans, FewerPlans DEF rows
<1>3. task \in [Tasks -> TaskStates]  BY DEF RowsInv, TasksRight
<1>4. OthersKept(t) /\ task'[t] = r  BY <1>3, SetKeepsOthers
<1> QED  BY <1>1, <1>2, <1>4, WorkStep

LEMMA IdleFields ==
    /\ IdleTask \in TaskStates
    /\ IdleTask.step = "idle" /\ IdleTask.ids = {} /\ IdleTask.u = None
BY DEF IdleTask, TaskStates

LEMMA IdleHolds ==
    \A C, R, n, P : Holds(IdleTask, C, R, n, P)
BY IdleFields DEF Holds, Schedules

LEMMA RefFacts ==
    ASSUME RowsInv, NEW x \in ref
    PROVE  /\ x.id \in Nat /\ x.c \in Nat /\ x.peer \in Users /\ Given(x.id, next)
           /\ Settled(x.c, next, Pending) /\ x.c \in DOMAIN content
           /\ content[x.c].author \in Users /\ content[x.c].text \in Texts \cup {None}
           /\ content[x.c].ver \in Nat /\ content[x.c].org \in Randoms \cup {None}
           /\ content[x.c].kind \in {"regular", "scheduled", "service"}
<1>1. x \in Refs /\ Given(x.id, next) /\ Settled(x.c, next, Pending) /\ x.c \in DOMAIN content
  BY DEF RowsInv, RefsRight
<1>2. content[x.c] \in Contents  BY <1>1 DEF RowsInv, ContentsRight
<1> QED  BY <1>1, <1>2 DEF Refs, Contents

LEMMA StartSendRows ==
    ASSUME RowsInv, NEW t \in Tasks, NEW u \in Users, NEW S \in SUBSET Randoms,
           NEW op \in {"send", "schedule"}, StartSend(t, u, S, op)
    PROVE  RowsInv'
<1> DEFINE r == [IdleTask EXCEPT !.step = "content", !.op = op, !.u = u, !.todo = S]
<1>1. r \in TaskStates  BY DEF IdleTask, TaskStates
<1>2. r.step = "content" /\ r.u = u /\ r.op # "forward"  BY DEF IdleTask
<1>3. Set(t, r) /\ UNCHANGED <<rows, reads, blocked, sched>>  BY DEF StartSend, BeginsMany
<1> HIDE DEF r
<1>4. Holds(r, content, ref, next, Pending)  BY <1>2 DEF Holds, Schedules
<1>5. StateLater  BY <1>3, StateSame DEF rows, reads, sched
<1> QED  BY <1>1, <1>2, <1>3, <1>4, <1>5, OnlyTask

LEMMA StartForwardRows ==
    ASSUME RowsInv, NEW t \in Tasks, NEW u \in Users, NEW x \in ref, NEW rn \in Randoms,
           StartForward(t, u, x, rn)
    PROVE  RowsInv'
<1> DEFINE r == [IdleTask EXCEPT !.step = "content", !.op = "forward", !.u = u,
                     !.todo = {rn}, !.peers = Audience(u), !.text = content[x.c].text]
<1>0. Audience(u) \subseteq Users /\ u \in Audience(u) /\ content[x.c].text \in Texts \cup {None}
  BY AudienceIsUsers, RefFacts
<1>1. r \in TaskStates  BY <1>0 DEF IdleTask, TaskStates
<1>2. r.step = "content" /\ r.u = u /\ r.peers = Audience(u)  BY DEF IdleTask
<1>3. Set(t, r) /\ UNCHANGED <<rows, reads, blocked, sched>>
  BY DEF StartForward, Begins, BeginsMany
<1> HIDE DEF r
<1>4. Holds(r, content, ref, next, Pending)  BY <1>0, <1>2 DEF Holds, Schedules
<1>5. StateLater  BY <1>3, StateSame DEF rows, reads, sched
<1> QED  BY <1>1, <1>2, <1>3, <1>4, <1>5, OnlyTask

LEMMA StartEditRows ==
    ASSUME RowsInv, NEW t \in Tasks, NEW u \in Users, NEW x \in ref, StartEdit(t, u, x)
    PROVE  RowsInv'
<1>1. PICK s \in Texts, d \in BOOLEAN :
          Set(t, [IdleTask EXCEPT !.step = "save", !.op = "edit", !.u = u, !.c = x.c,
                           !.ref = x.id, !.text = s, !.ver = content[x.c].ver + 1, !.yes = d])
  BY DEF StartEdit, Begins, BeginsMany
<1> DEFINE r == [IdleTask EXCEPT !.step = "save", !.op = "edit", !.u = u, !.c = x.c,
                           !.ref = x.id, !.text = s, !.ver = content[x.c].ver + 1, !.yes = d]
<1>2. x.c \in Nat /\ x.id \in Nat /\ content[x.c].ver + 1 \in Nat  BY RefFacts
<1>3. r \in TaskStates  BY <1>2 DEF IdleTask, TaskStates
<1>4. r.step = "save" /\ r.u = u  BY DEF IdleTask
<1>5. Set(t, r) /\ UNCHANGED <<rows, reads, blocked, sched>>  BY <1>1 DEF StartEdit
<1> HIDE DEF r
<1>6. Holds(r, content, ref, next, Pending)  BY <1>4 DEF Holds, Schedules
<1>7. StateLater  BY <1>5, StateSame DEF rows, reads, sched
<1> QED  BY <1>3, <1>4, <1>5, <1>6, <1>7, OnlyTask

LEMMA StartDeleteRows ==
    ASSUME RowsInv, NEW t \in Tasks, NEW u \in Users, NEW x \in ref, NEW revoke,
           StartDelete(t, u, x, revoke)
    PROVE  RowsInv'
<1> DEFINE I == IF revoke THEN Ids(Copies(ref, x.c)) ELSE {x.id}
           r == [IdleTask EXCEPT !.step = "delete", !.op = "delete", !.u = u, !.ids = I]
<1>1. I \subseteq Nat  BY RefFacts DEF Ids, Copies
<1>2. Set(t, r) /\ UNCHANGED <<rows, reads, blocked, sched>>
  BY DEF StartDelete, Begins, BeginsMany
<1> HIDE DEF I
<1>3. r \in TaskStates  BY <1>1 DEF IdleTask, TaskStates
<1>4. r.step = "delete" /\ r.u = u  BY DEF IdleTask
<1> HIDE DEF r
<1>5. Holds(r, content, ref, next, Pending)  BY <1>4 DEF Holds, Schedules
<1>6. StateLater  BY <1>2, StateSame DEF rows, reads, sched
<1> QED  BY <1>2, <1>3, <1>4, <1>5, <1>6, OnlyTask

\* A purge of the contents I.
LEMMA StartPurge ==
    ASSUME RowsInv, NEW t \in Tasks, NEW u \in Users, NEW I, NEW y \in BOOLEAN,
           \A c \in I : Settled(c, next, Pending),
           Set(t, [IdleTask EXCEPT !.step = "purge", !.op = "purge", !.u = u, !.ids = I, !.yes = y]),
           UNCHANGED <<rows, reads, blocked, sched>>
    PROVE  RowsInv'
<1> DEFINE r == [IdleTask EXCEPT !.step = "purge", !.op = "purge", !.u = u, !.ids = I, !.yes = y]
<1>1. I \subseteq Nat  BY DEF Settled
<1>2. r \in TaskStates  BY <1>1 DEF IdleTask, TaskStates
<1>3. r.step = "purge" /\ r.u = u /\ r.ids = I  BY DEF IdleTask
<1>4. Set(t, r)  OBVIOUS
<1> HIDE DEF r
<1>5. Holds(r, content, ref, next, Pending)  BY <1>3 DEF Holds, Schedules
<1>6. StateLater  BY StateSame DEF rows, reads, sched
<1> QED  BY <1>2, <1>3, <1>4, <1>5, <1>6, OnlyTask

LEMMA StartDeleteHistoryRows ==
    ASSUME RowsInv, NEW t \in Tasks, NEW u \in Users, NEW max, StartDeleteHistory(t, u, max)
    PROVE  RowsInv'
<1> DEFINE R == {x \in Of(ref, u) : x.id <= max}
           N == {x \in R : Cardinality({y \in R : y.id > x.id}) < HistoryLimit}
           I == {x.c : x \in N}
<1>1. Set(t, [IdleTask EXCEPT !.step = "purge", !.op = "purge", !.u = u, !.ids = I,
                              !.yes = (N = R)])
  BY DEF StartDeleteHistory, Begins, BeginsMany
<1>2. N \subseteq ref  BY DEF Of
<1> HIDE DEF N, R
<1>3. \A c \in I : Settled(c, next, Pending)  BY <1>2, RefFacts
<1>4. PICK y \in BOOLEAN : y = (N = R)  OBVIOUS
<1>5. Set(t, [IdleTask EXCEPT !.step = "purge", !.op = "purge", !.u = u, !.ids = I, !.yes = y])
  BY <1>1, <1>4
<1> HIDE DEF I
<1>6. UNCHANGED <<rows, reads, blocked, sched>>  BY DEF StartDeleteHistory
<1> QED  BY <1>3, <1>5, <1>6, StartPurge

LEMMA StartDeleteScheduledRows ==
    ASSUME RowsInv, NEW t \in Tasks, NEW u \in Users, NEW x \in ref,
           StartDeleteScheduled(t, u, x)
    PROVE  RowsInv'
<1> DEFINE r == [IdleTask EXCEPT !.step = "purge", !.op = "purge", !.u = u, !.ids = {x.c}]
<1>1. Set(t, r) /\ UNCHANGED <<rows, reads, blocked, sched>>
  BY DEF StartDeleteScheduled, Begins, BeginsMany
<1>2. Settled(x.c, next, Pending) /\ x.c \in Nat  BY RefFacts
<1>3. r \in TaskStates  BY <1>2 DEF IdleTask, TaskStates
<1>4. r.step = "purge" /\ r.u = u /\ r.ids = {x.c}  BY DEF IdleTask
<1> HIDE DEF r
<1>5. Holds(r, content, ref, next, Pending)  BY <1>2, <1>4 DEF Holds, Schedules
<1>6. StateLater  BY <1>1, StateSame DEF rows, reads, sched
<1> QED  BY <1>1, <1>3, <1>4, <1>5, <1>6, OnlyTask

LEMMA StartPinRows ==
    ASSUME RowsInv, NEW t \in Tasks, NEW u \in Users, NEW x \in ref, NEW on \in BOOLEAN,
           NEW op \in {"pin", "silent"}, StartPin(t, u, x, on, op)
    PROVE  RowsInv'
<1> DEFINE I == Ids({y \in Copies(ref, x.c) : y.peer \in Audience(u)})
           r == [IdleTask EXCEPT !.step = "pin", !.op = op, !.u = u, !.ref = x.id, !.yes = on,
                     !.ids = I]
<1>1. \A i \in I : i \in Nat /\ Given(i, next)  BY RefFacts DEF Ids, Copies
<1>2. Set(t, r) /\ UNCHANGED <<rows, reads, blocked, sched>>
  BY DEF StartPin, Begins, BeginsMany
<1> HIDE DEF I
<1>3. x.id \in Nat  BY RefFacts
<1>4. r \in TaskStates  BY <1>1, <1>3 DEF IdleTask, TaskStates
<1>5. r.step = "pin" /\ r.u = u /\ r.ids = I  BY DEF IdleTask
<1> HIDE DEF r
<1>6. Holds(r, content, ref, next, Pending)  BY <1>1, <1>5 DEF Holds, Schedules
<1>7. StateLater  BY <1>2, StateSame DEF rows, reads, sched
<1> QED  BY <1>2, <1>4, <1>5, <1>6, <1>7, OnlyTask

LEMMA StartUnpinAllRows ==
    ASSUME RowsInv, NEW t \in Tasks, NEW u \in Users, StartUnpinAll(t, u)
    PROVE  RowsInv'
<1> DEFINE I == Ids(AllPinned(u))
           r == [IdleTask EXCEPT !.step = "pin", !.op = "silent", !.u = u, !.ids = I]
<1>1. \A i \in I : i \in Nat /\ Given(i, next)  BY RefFacts DEF Ids, AllPinned
<1>2. Set(t, r) /\ UNCHANGED <<rows, reads, blocked, sched>>
  BY DEF StartUnpinAll, Begins, BeginsMany
<1> HIDE DEF I
<1>3. r \in TaskStates  BY <1>1 DEF IdleTask, TaskStates
<1>4. r.step = "pin" /\ r.u = u /\ r.ids = I  BY DEF IdleTask
<1> HIDE DEF r
<1>5. Holds(r, content, ref, next, Pending)  BY <1>1, <1>4 DEF Holds, Schedules
<1>6. StateLater  BY <1>2, StateSame DEF rows, reads, sched
<1> QED  BY <1>2, <1>3, <1>4, <1>5, <1>6, OnlyTask

LEMMA StartViewRows ==
    ASSUME RowsInv, NEW t \in Tasks, NEW x \in ref, StartView(t, x)
    PROVE  RowsInv'
<1> DEFINE r == [IdleTask EXCEPT !.step = "cache", !.op = "view", !.c = x.c,
                     !.text = content[x.c].text, !.ver = content[x.c].ver]
<1>1. Set(t, r) /\ UNCHANGED <<rows, reads, blocked, sched>>
  BY DEF StartView, Begins, BeginsMany
<1>2. x.c \in Nat /\ content[x.c].text \in Texts \cup {None} /\ content[x.c].ver \in Nat
  BY RefFacts
<1>3. r \in TaskStates  BY <1>2 DEF IdleTask, TaskStates
<1>4. r.step = "cache"  BY DEF IdleTask
<1> HIDE DEF r
<1>5. Holds(r, content, ref, next, Pending)  BY <1>4 DEF Holds, Schedules
<1>6. StateLater  BY <1>1, StateSame DEF rows, reads, sched
<1> QED  BY <1>1, <1>3, <1>4, <1>5, <1>6, OnlyTask

-----------------------------------------------------------------------------
(* The steps of a task that change rows at most in place *)

LEMMA TaskFacts ==
    ASSUME RowsInv, NEW t \in Tasks
    PROVE  /\ task[t] \in TaskStates /\ task \in [Tasks -> TaskStates]
           /\ Holds(task[t], content, ref, next, Pending)
BY DEF RowsInv, TasksRight

LEMMA StepFields ==
    ASSUME NEW k \in TaskStates,
           NEW s \in {"idle", "content", "refs", "unhide", "plan", "unread", "own",
                      "save", "redate", "delete", "purge", "hide", "rsave", "receipt", "pin",
                      "cache"}
    PROVE  LET r == [k EXCEPT !.step = s] IN
           /\ r \in TaskStates /\ r.step = s
           /\ r.op = k.op /\ r.u = k.u /\ r.todo = k.todo /\ r.rnd = k.rnd
           /\ r.peers = k.peers /\ r.c = k.c /\ r.ref = k.ref /\ r.text = k.text
           /\ r.ver = k.ver /\ r.ids = k.ids /\ r.yes = k.yes /\ r.over = k.over
BY DEF TaskStates

LEMMA OwnFields ==
    ASSUME NEW k \in TaskStates
    PROVE  LET r == [k EXCEPT !.step = "own"] IN
           /\ r \in TaskStates /\ r.step = "own" /\ r.op = k.op /\ r.u = k.u
           /\ r.ref = k.ref /\ r.c = k.c
BY DEF TaskStates

LEMMA NextSendHolds ==
    ASSUME RowsInv, NEW t \in Tasks, task[t].step \in {"plan", "unread", "own"}
    PROVE  /\ NextSend(t) \in TaskStates /\ NextSend(t).step \in {"idle", "content"}
           /\ Holds(NextSend(t), content, ref, next, Pending)
<1>1. CASE task[t].todo = {}  BY <1>1, IdleFields, IdleHolds DEF NextSend
<1>2. CASE task[t].todo # {}
  <2> DEFINE o == task[t].op
             v == task[t].u
             d == task[t].todo
             r == [IdleTask EXCEPT !.step = "content", !.op = o, !.u = v, !.todo = d]
  <2>1. task[t] \in TaskStates  BY TaskFacts
  <2>2. v \in Users /\ o # "forward"  BY TaskFacts DEF Holds
  <2>3. /\ o \in {"none", "send", "schedule", "forward", "pin", "silent", "edit", "delete",
                  "purge", "read", "view"}
        /\ d \in SUBSET (Randoms \cup {None})
    BY <2>1 DEF TaskStates
  <2>4. NextSend(t) = r  BY <1>2 DEF NextSend
  <2> HIDE DEF o, v, d
  <2>5. r \in TaskStates  BY <2>2, <2>3 DEF IdleTask, TaskStates
  <2>6. r.step = "content" /\ r.u = v /\ r.op = o  BY DEF IdleTask
  <2> HIDE DEF r
  <2>7. Holds(r, content, ref, next, Pending)  BY <2>2, <2>6 DEF Holds, Schedules
  <2> QED  BY <2>4, <2>5, <2>6, <2>7
<1> QED  BY <1>1, <1>2

LEMMA MarksMax ==
    ASSUME NEW f \in [Users -> Int], NEW u \in Users, NEW i \in Int
    PROVE  [f EXCEPT ![u] = Max({@, i})] \in [Users -> Int]
<1>1. Max({f[u], i}) \in Int  BY MaxOfTwo, SMTT(40)
<1> QED  BY <1>1

LEMMA MarksMaxNat ==
    ASSUME NEW f \in [Users -> Nat], NEW u \in Users, NEW i \in Nat
    PROVE  [f EXCEPT ![u] = Max({@, i})] \in [Users -> Nat]
<1>1. f[u] \in Int /\ i \in Int  OBVIOUS
<1>2. Max({f[u], i}) \in {f[u], i}  BY <1>1, MaxOfTwo
<1> QED  BY <1>2

LEMMA StartReadRows ==
    ASSUME RowsInv, NEW t \in Tasks, NEW u \in Users, NEW max \in Ids(Of(ref, u)),
           StartRead(t, u, max)
    PROVE  RowsInv'
<1> DEFINE R == {x \in Of(ref, u) : x.id <= max}
           m == CHOOSE x \in R : \A y \in R : y.id <= x.id
<1>1. readIn' = [readIn EXCEPT ![u] = Max({@, 0})] /\ UNCHANGED <<rows, outMax, seen, blocked, sched>>
  BY DEF StartRead
<1>2. StateLater
  <2>1. readIn' \in [Users -> Int]  BY <1>1, MarksMax DEF RowsInv, StateRight
  <2> QED  BY <1>1, <2>1 DEF RowsInv, StateRight, StateLater, rows, sched
<1>3. m \in ref
  <2>1. PICK x0 \in Of(ref, u) : x0.id = max  BY DEF Ids
  <2>2. max \in Nat /\ x0 \in R  BY <2>1, RefFacts DEF Of
  <2> DEFINE S == Ids(R)
  <2>3. S # {} /\ \A i \in S : i \in Nat /\ i < next.r
    BY <2>2, RefFacts DEF Ids, Of, Given
  <2>4. next.r \in Nat  BY DEF RowsInv, NextRight
  <2> HIDE DEF S
  <2>5. PICK i \in S : \A j \in S : j <= i  BY <2>3, <2>4, LargestId
  <2>6. \E x \in R : \A y \in R : y.id <= x.id  BY <2>5 DEF S, Ids
  <2>7. m \in R  BY <2>6
  <2> QED  BY <2>7 DEF Of
<1>4. Begins(t, BeginsRead(u, m)) \/ Begins(t, IdleTask)  BY DEF StartRead
<1> HIDE DEF m
<1>5. CASE Begins(t, IdleTask)
  BY <1>1, <1>2, <1>5, IdleFields, IdleHolds, OnlyTask DEF Begins, BeginsMany
<1>6. CASE Begins(t, BeginsRead(u, m))
  <2> DEFINE r == BeginsRead(u, m)
  <2>1. Given(m.id, next) /\ Settled(m.c, next, Pending) /\ m.id \in Nat /\ m.c \in Nat
    BY <1>3, RefFacts
  <2>2. r \in TaskStates  BY <2>1 DEF BeginsRead, IdleTask, TaskStates
  <2>3. r.step = "rsave" /\ r.u = u /\ r.ref = m.id /\ r.c = m.c  BY DEF BeginsRead, IdleTask
  <2>4. Set(t, r)  BY <1>6 DEF Begins, BeginsMany
  <2> HIDE DEF r
  <2>5. Holds(r, content, ref, next, Pending)  BY <2>1, <2>3 DEF Holds, Schedules
  <2> QED  BY <1>1, <1>2, <2>2, <2>3, <2>4, <2>5, OnlyTask
<1> QED  BY <1>4, <1>5, <1>6

LEMMA UnhideRows ==
    ASSUME RowsInv, NEW t \in Tasks, Unhide(t)
    PROVE  RowsInv'
<1>1. task[t] \in TaskStates /\ Holds(task[t], content, ref, next, Pending)  BY TaskFacts
<1>2. UNCHANGED <<rows, reads, blocked, sched>> /\ task[t].step = "unhide"  BY DEF Unhide, At
<1>3. StateLater  BY <1>2, StateSame DEF rows, reads, sched
<1>4. CASE Ends(t)  BY <1>2, <1>3, <1>4, IdleFields, IdleHolds, OnlyTask DEF Ends
<1>5. CASE task[t].op # "forward"
           /\ Goes(t, IF task[t].op = "schedule" THEN "plan" ELSE "unread")
  <2>1. PICK s \in {"plan", "unread"} :
            s = IF task[t].op = "schedule" THEN "plan" ELSE "unread"
    OBVIOUS
  <2> DEFINE r == [task[t] EXCEPT !.step = s]
  <2>2. Set(t, r)  BY <1>5, <2>1 DEF Goes
  <2>3. /\ r \in TaskStates /\ r.step = s /\ r.op = task[t].op /\ r.u = task[t].u
        /\ r.ref = task[t].ref /\ r.c = task[t].c
    BY <1>1 DEF TaskStates
  <2> HIDE DEF r
  <2>4. Schedules(r) => Schedules(task[t])  BY <1>2, <2>1, <2>3 DEF Schedules
  <2>5. Holds(r, content, ref, next, Pending)  BY <1>1, <1>2, <1>5, <2>3, <2>4 DEF Holds
  <2> QED  BY <1>2, <1>3, <2>2, <2>3, <2>5, OnlyTask
<1> QED  BY <1>4, <1>5 DEF Unhide

LEMMA CreatePlanRows ==
    ASSUME RowsInv, NEW t \in Tasks, CreatePlan(t)
    PROVE  RowsInv'
<1>1. task[t] \in TaskStates /\ Holds(task[t], content, ref, next, Pending)  BY TaskFacts
<1>2. /\ UNCHANGED <<content, ref, next, last, reads, blocked, sched>>
      /\ task[t].step = "plan"
  BY DEF CreatePlan, At
<1>3. StateLater  BY <1>2, StateSame DEF reads, sched
<1>4. CASE UNCHANGED plan /\ Ends(t)
  <2>1. UNCHANGED rows  BY <1>2, <1>4 DEF rows
  <2> QED  BY <2>1, <1>3, <1>4, IdleFields, IdleHolds, OnlyTask DEF Ends
<1>5. CASE /\ task[t].ref \in Ids(ref)
           /\ plan' = plan \cup {[ref |-> task[t].ref, sent |-> FALSE, due |-> FALSE]}
           /\ Set(t, NextSend(t))
  <2>1. PICK x \in ref : x.id = task[t].ref  BY <1>5 DEF Ids
  <2>2. content[x.c].kind = "scheduled" /\ x.id \in Nat
    BY <1>1, <1>2, <2>1, RefFacts DEF Holds, Schedules
  <2>3. [ref |-> task[t].ref, sent |-> FALSE, due |-> FALSE] \in Plans  BY <2>1, <2>2 DEF Plans
  <2>4. Planned([ref |-> task[t].ref, sent |-> FALSE, due |-> FALSE], content, ref)
    BY <2>1, <2>2, <2>3 DEF Planned
  <2>5. PlansRight'  BY <1>2, <1>5, <2>4 DEF RowsInv, PlansRight, Planned
  <2>6. RowsFewer  BY <1>2, SameRows DEF RowsInv
  <2>7. /\ NextSend(t) \in TaskStates /\ NextSend(t).step # "refs"
        /\ Holds(NextSend(t), content, ref, next, Pending)
    BY <1>2, NextSendHolds
  <2>8. OthersKept(t) /\ task'[t] = NextSend(t)  BY <1>5, TaskFacts, SetKeepsOthers
  <2> QED  BY <1>3, <2>5, <2>6, <2>7, <2>8, WorkStep
<1> QED  BY <1>4, <1>5 DEF CreatePlan

LEMMA CountUnreadRows ==
    ASSUME RowsInv, NEW t \in Tasks, CountUnread(t)
    PROVE  RowsInv'
<1>1. task[t] \in TaskStates /\ Holds(task[t], content, ref, next, Pending)  BY TaskFacts
<1>2. task[t].step = "unread" /\ UNCHANGED <<rows, outMax, seen, blocked>>
  BY DEF CountUnread, At
<1>3. /\ task[t].u \in Users /\ Settled(task[t].c, next, Pending) /\ Given(task[t].ref, next)
      /\ task[t].op # "forward"
  BY <1>1, <1>2 DEF Holds
<1>4. StateLater
  <2>1. readIn' = [readIn EXCEPT ![task[t].u] = Max({@, 0})]  BY DEF CountUnread
  <2>2. readIn' \in [Users -> Int]  BY <1>3, <2>1, MarksMax, SMTT(40) DEF RowsInv, StateRight
  <2>3. expire' \subseteq expire \cup {task[t].c}  BY DEF CountUnread
  <2> QED  BY <1>2, <1>3, <2>2, <2>3 DEF RowsInv, StateRight, StateLater, rows
<1>5. CASE Set(t, NextSend(t))  BY <1>2, <1>4, <1>5, NextSendHolds, OnlyTask
<1>6. CASE Goes(t, "own")
  <2> DEFINE r == [task[t] EXCEPT !.step = "own"]
  <2>1. Set(t, r)  BY <1>6 DEF Goes
  <2>2. /\ r \in TaskStates /\ r.step = "own" /\ r.op = task[t].op /\ r.u = task[t].u
        /\ r.ref = task[t].ref /\ r.c = task[t].c
    BY <1>1, OwnFields
  <2> HIDE DEF r
  <2>3. Holds(r, content, ref, next, Pending)  BY <1>3, <2>2 DEF Holds, Schedules
  <2> QED  BY <1>2, <1>4, <2>1, <2>2, <2>3, OnlyTask
<1> QED  BY <1>5, <1>6 DEF CountUnread

LEMMA ReadsKeepsOthers ==
    ASSUME NEW t \in Tasks, NEW i, NEW r, Reads(t, i, r)
    PROVE  OthersKept(t) /\ task'[t] = r
BY DEF Reads, OthersKept, Over

\* A task that writes a read state.
LEMMA ReadsRows ==
    ASSUME RowsInv, NEW t \in Tasks, NEW r, NEW i, Reads(t, i, r), task[t].u \in Users,
           i \in Int, r \in TaskStates, r.step # "refs", Holds(r, content, ref, next, Pending),
           UNCHANGED <<rows, outMax, blocked, expire>>, seen' \in [Users -> Nat]
    PROVE  RowsInv'
<1>1. readIn' = [readIn EXCEPT ![task[t].u] = i]  BY DEF Reads
<1>2. readIn' \in [Users -> Int]  BY <1>1 DEF RowsInv, StateRight
<1>3. StateLater  BY <1>2 DEF RowsInv, StateRight, StateLater, rows
<1>4. OthersKept(t) /\ task'[t] = r  BY ReadsKeepsOthers
<1>5. RowsFewer  BY SameRows DEF RowsInv, rows
<1>6. Later => PlansRight'  BY SamePlans, FewerPlans DEF rows
<1> QED  BY <1>3, <1>4, <1>5, <1>6, WorkStep

LEMMA ReadOwnRows ==
    ASSUME RowsInv, NEW t \in Tasks, ReadOwn(t)
    PROVE  RowsInv'
<1>1. task[t].step = "own" /\ task[t].u \in Users /\ task[t].ref \in Int
  BY TaskFacts DEF ReadOwn, At, Holds, Given
<1>2. /\ Reads(t, task[t].ref, NextSend(t)) /\ UNCHANGED <<rows, outMax, seen, blocked, expire>>
  BY DEF ReadOwn, sched
<1>3. seen' \in [Users -> Nat]  BY <1>2 DEF RowsInv, StateRight
<1> QED  BY <1>1, <1>2, <1>3, NextSendHolds, ReadsRows

LEMMA SaveReadRows ==
    ASSUME RowsInv, NEW t \in Tasks, SaveRead(t)
    PROVE  RowsInv'
<1> DEFINE k == task[t]
           r == [k EXCEPT !.step = "receipt", !.over = FALSE]
<1>1. k \in TaskStates /\ Holds(k, content, ref, next, Pending)  BY TaskFacts
<1>2. k.step = "rsave"  BY DEF SaveRead, At
<1>3. k.u \in Users /\ Given(k.ref, next) /\ Settled(k.c, next, Pending)  BY <1>1, <1>2 DEF Holds
<1>4. /\ Reads(t, k.ref, r) /\ seen' = [seen EXCEPT ![k.u] = Max({@, k.ref})]
      /\ UNCHANGED <<rows, outMax, blocked, expire>>
  BY DEF SaveRead, sched
<1> HIDE DEF k
<1>5. r \in TaskStates /\ r.step = "receipt" /\ r.u = k.u /\ r.ref = k.ref /\ r.c = k.c
  BY <1>1 DEF TaskStates
<1> HIDE DEF r
<1>6. Holds(r, content, ref, next, Pending)  BY <1>3, <1>5 DEF Holds, Schedules
<1>7. seen \in [Users -> Nat] /\ k.ref \in Nat  BY <1>3 DEF RowsInv, StateRight, Given
<1>9. seen' \in [Users -> Nat]  BY <1>3, <1>4, <1>7, MarksMaxNat
<1> QED  BY <1>3, <1>4, <1>5, <1>6, <1>7, <1>9, ReadsRows DEF k

LEMMA ReceiptRows ==
    ASSUME RowsInv, NEW t \in Tasks, Receipt(t)
    PROVE  RowsInv'
<1> DEFINE v == Other(task[t].u)
           R == ReadCopies(v, task[t].c)
<1>1. task[t].step = "receipt" /\ UNCHANGED <<rows, readIn, seen, blocked, expire>> /\ Ends(t)
  BY DEF Receipt, At, sched
<1>2. v \in Users  BY <1>1, TaskFacts, OtherUser DEF Holds
<1>3. outMax' = [outMax EXCEPT ![v] = IF readIn[v] < 0 \/ R = {} THEN @ ELSE Max(Ids(R))]
  BY DEF Receipt
<1>4. R # {} => Max(Ids(R)) \in Nat
  <2> DEFINE S == Ids(R)
  <2>1. \A i \in S : i \in Nat /\ i < next.r
    BY RefFacts DEF Ids, ReadCopies, Of, Given
  <2>2. R # {} => S # {}  BY DEF Ids
  <2>3. next.r \in Nat  BY DEF RowsInv, NextRight
  <2> HIDE DEF S, R
  <2>4. S # {} => Max(S) \in S  BY <2>1, <2>3, LargestId
  <2> QED  BY <2>1, <2>2, <2>4 DEF S
<1> HIDE DEF v, R
<1>5. outMax' \in [Users -> Nat]  BY <1>2, <1>3, <1>4 DEF RowsInv, StateRight
<1>6. StateLater  BY <1>1, <1>5 DEF RowsInv, StateRight, StateLater, rows
<1> QED  BY <1>1, <1>6, IdleFields, IdleHolds, OnlyTask DEF Ends

LEMMA EndsRows ==
    ASSUME RowsInv, NEW t \in Tasks, Ends(t), UNCHANGED <<rows, reads, blocked, sched>>
    PROVE  RowsInv'
<1>1. StateLater  BY StateSame DEF rows, reads, sched
<1> QED  BY <1>1, IdleFields, IdleHolds, OnlyTask DEF Ends

LEMMA SaveInPlace ==
    ASSUME RowsInv, NEW t \in Tasks, Save(t)
    PROVE  RowsFewer
<1> DEFINE k == task[t]
<1>1. k \in TaskStates /\ Holds(k, content, ref, next, Pending)  BY TaskFacts
<1>2. k.step = "save" /\ UNCHANGED <<ref, next, last, plan, reads, blocked, sched>>
  BY DEF Save, At
<1>3. k.u \in Users /\ k.text \in Texts \cup {None} /\ k.ver \in Nat
  BY <1>1, <1>2 DEF Holds, TaskStates
<1>4. content' = IF k.c \in DOMAIN content
                 THEN [content EXCEPT ![k.c].text = k.text, ![k.c].ver = k.ver] ELSE content
  BY DEF Save
<1> HIDE DEF k
<1>5. ContentsRight /\ RefsRight  BY DEF RowsInv
<1>6. DOMAIN content' = DOMAIN content /\ content' = [c \in DOMAIN content' |-> content'[c]]
  BY <1>4, <1>5 DEF ContentsRight
<1>7. ASSUME NEW c \in DOMAIN content
      PROVE content'[c] \in Contents /\ SameRow(content'[c], content[c])
  <2>1. content[c] \in Contents  BY <1>5 DEF ContentsRight
  <2>2. CASE c = k.c
    <3> DEFINE m == [content[c] EXCEPT !.text = k.text, !.ver = k.ver]
    <3>1. content'[c] = m  BY <1>4, <2>2
    <3>2. m \in Contents /\ m.author = content[c].author /\ m.org = content[c].org
          /\ m.kind = content[c].kind
      BY <1>3, <2>1 DEF Contents
    <3> QED  BY <3>1, <3>2 DEF SameRow
  <2>3. CASE c # k.c
    <3>1. content'[c] = content[c]  BY <1>4, <2>3
    <3> QED  BY <2>1, <3>1 DEF SameRow
  <2> QED  BY <2>2, <2>3
<1> QED  BY <1>2, <1>5, <1>6, <1>7 DEF RowsFewer, RefsRight, SameRef

LEMMA SaveRows ==
    ASSUME RowsInv, NEW t \in Tasks, Save(t)
    PROVE  RowsInv'
<1> DEFINE k == task[t]
<1>1. k \in TaskStates /\ Holds(k, content, ref, next, Pending)  BY TaskFacts
<1>2. k.step = "save" /\ UNCHANGED <<ref, next, last, plan, reads, blocked, sched>>
  BY DEF Save, At
<1>3. k.u \in Users  BY <1>1, <1>2 DEF Holds
<1>8. RowsFewer  BY SaveInPlace
<1> HIDE DEF k
<1>9. StateLater  BY <1>2, StateSame DEF reads, sched
<1>10. Later => PlansRight'  BY <1>2, SamePlans, FewerPlans
<1>11. task \in [Tasks -> TaskStates]  BY TaskFacts
<1>12. CASE Goes(t, "redate")
  <2> DEFINE r == [k EXCEPT !.step = "redate"]
  <2>1. Set(t, r)  BY <1>12 DEF Goes, k
  <2>2. r \in TaskStates /\ r.step = "redate" /\ r.u = k.u  BY <1>1, StepFields, ZenonT(60)
  <2> HIDE DEF r
  <2>3. Holds(r, content, ref, next, Pending)  BY <1>3, <2>2 DEF Holds, Schedules
  <2>4. OthersKept(t) /\ task'[t] = r  BY <1>11, <2>1, SetKeepsOthers
  <2> QED  BY <1>8, <1>9, <1>10, <2>2, <2>3, <2>4, WorkStep
<1>13. CASE Ends(t)
  <2>1. OthersKept(t) /\ task'[t] = IdleTask  BY <1>11, <1>13, SetKeepsOthers DEF Ends
  <2> QED  BY <1>8, <1>9, <1>10, <2>1, IdleFields, IdleHolds, WorkStep
<1> QED  BY <1>12, <1>13 DEF Save

LEMMA RedateRows ==
    ASSUME RowsInv, NEW t \in Tasks, Redate(t)
    PROVE  RowsInv'
<1>1. UNCHANGED <<content, ref, next, last, reads, blocked, sched>> /\ Ends(t)  BY DEF Redate
<1>2. StateLater  BY <1>1, StateSame DEF reads, sched
<1>3. RowsFewer  BY <1>1, SameRows DEF RowsInv
<1>4. PlansKept
  <2> SUFFICES ASSUME NEW p \in plan'
               PROVE  /\ p \in Plans /\ \E q \in plan : q.ref = p.ref
                      /\ \E y \in ref' : y.id = p.ref
    BY DEF PlansKept
  <2>1. PICK q \in plan : p = IF q.ref = task[t].ref THEN [q EXCEPT !.due = FALSE] ELSE q
    BY DEF Redate
  <2>2. q \in Plans /\ \E x \in ref : x.id = q.ref  BY DEF RowsInv, PlansRight, Planned
  <2>3. p \in Plans /\ p.ref = q.ref  BY <2>1, <2>2 DEF Plans
  <2> QED  BY <1>1, <2>2, <2>3
<1>5. Later => PlansRight'  BY <1>4, FewerPlans
<1>6. OthersKept(t) /\ task'[t] = IdleTask  BY <1>1, TaskFacts, SetKeepsOthers DEF Ends
<1> QED  BY <1>2, <1>3, <1>5, <1>6, IdleFields, IdleHolds, WorkStep

\* sync_last_message_bulk writes ids of refs.
LEMMA SyncTyped ==
    ASSUME last \in [Users -> Nat], NEW S, NEW R, NEW n \in Nat,
           \A x \in R : x.id \in Nat /\ x.id < n, Sync(S, R)
    PROVE  last' \in [Users -> Nat]
<1>1. ASSUME NEW u \in Users, Of(R, u) # {} PROVE Max(Ids(Of(R, u))) \in Nat
  <2> DEFINE I == Ids(Of(R, u))
  <2>1. I # {} /\ \A i \in I : i \in Nat /\ i < n  BY <1>1 DEF Ids, Of
  <2> HIDE DEF I
  <2>2. Max(I) \in I  BY <2>1, LargestId
  <2> QED  BY <2>1, <2>2 DEF I
<1>2. ASSUME NEW u \in Users
      PROVE (IF u \in S /\ Of(R, u) # {} THEN Max(Ids(Of(R, u))) ELSE last[u]) \in Nat
  BY <1>1
<1> QED  BY <1>2 DEF Sync

LEMMA FewerIds ==
    ASSUME RowsInv, NEW R, R \subseteq ref
    PROVE  next.r \in Nat /\ \A x \in R : x.id \in Nat /\ x.id < next.r
BY RefFacts DEF RowsInv, NextRight, Given

LEMMA SomeRefsGo ==
    ASSUME RowsInv, NEW G, ref' = ref \ G, UNCHANGED <<content, next>>
    PROVE  RowsFewer
BY DEF RowsInv, ContentsRight, RefsRight, RowsFewer, SameRow, SameRef

LEMMA TheirPlansGo ==
    ASSUME RowsInv, NEW G, ref' = ref \ G, plan' \subseteq {p \in plan : p.ref \notin Ids(G)}
    PROVE  PlansKept
<1> SUFFICES ASSUME NEW p \in plan'
             PROVE  /\ p \in Plans /\ \E q \in plan : q.ref = p.ref
                    /\ \E y \in ref' : y.id = p.ref
  BY DEF PlansKept
<1>1. p \in plan /\ p.ref \notin Ids(G)  OBVIOUS
<1>2. PICK x \in ref : x.id = p.ref  BY <1>1 DEF RowsInv, PlansRight, Planned
<1>3. x \notin G  BY <1>1, <1>2 DEF Ids
<1> QED  BY <1>1, <1>2, <1>3 DEF RowsInv, PlansRight, Planned

LEMMA DeleteRefsRows ==
    ASSUME RowsInv, NEW t \in Tasks, DeleteRefs(t)
    PROVE  RowsInv'
<1> DEFINE R == {x \in ref : x.id \in task[t].ids}
           S == {x.peer : x \in R}
<1>1. /\ ref' = ref \ R /\ Sync(S, ref') /\ plan' = {p \in plan : p.ref \notin Ids(R)}
      /\ Ends(t) /\ UNCHANGED <<content, next, reads, blocked, sched>>
  BY DEF DeleteRefs
<1> HIDE DEF R, S
<1>2. last' \in [Users -> Nat]
  BY <1>1, FewerIds, SyncTyped DEF RowsInv, StateRight
<1>3. StateLater  BY <1>1, <1>2 DEF RowsInv, StateRight, StateLater, reads, sched
<1>4. RowsFewer  BY <1>1, SomeRefsGo
<1>5. Later => PlansRight'  BY <1>1, TheirPlansGo, FewerPlans
<1>6. OthersKept(t) /\ task'[t] = IdleTask  BY <1>1, TaskFacts, SetKeepsOthers DEF Ends
<1> QED  BY <1>3, <1>4, <1>5, <1>6, IdleFields, IdleHolds, WorkStep

\* Contents go that no task still needs.
LEMMA ContentsGo ==
    ASSUME RowsInv, NEW C, DeletesContents(C), \A c \in C : Settled(c, next, Pending),
           UNCHANGED next
    PROVE  RowsFewer /\ PlansKept /\ \A c \in expire' : Settled(c, next, Pending)
<1> DEFINE R == {x \in ref : x.c \in C}
<1>1. /\ content' = Restrict(content, DOMAIN content \ C) /\ ref' = ref \ R
      /\ plan' = {p \in plan : p.ref \notin Ids(R)} /\ expire' = expire \ C
  BY DEF DeletesContents
<1>2. /\ DOMAIN content' = DOMAIN content \ C /\ content' = [c \in DOMAIN content' |-> content'[c]]
      /\ \A c \in DOMAIN content' : content'[c] = content[c]
  BY <1>1 DEF Restrict
<1>3. \A y \in ref' : y \in ref /\ y.c \notin C  BY <1>1
<1>4. PlansKept
  <2> HIDE DEF R
  <2> QED  BY <1>1, TheirPlansGo
<1>5. RowsFewer
  BY <1>2, <1>3 DEF RowsInv, ContentsRight, RefsRight, RowsFewer, SameRow, SameRef, Settled
<1> QED  BY <1>1, <1>4, <1>5 DEF RowsInv, StateRight

LEMMA PurgeRows ==
    ASSUME RowsInv, NEW t \in Tasks, Purge(t)
    PROVE  RowsInv'
<1>1. task[t] \in TaskStates /\ Holds(task[t], content, ref, next, Pending)
      /\ task \in [Tasks -> TaskStates]
  BY TaskFacts
<1>2. /\ task[t].step = "purge" /\ DeletesContents(task[t].ids)
      /\ UNCHANGED <<next, last, reads, blocked>>
  BY DEF Purge, At
<1>3. task[t].u \in Users /\ \A c \in task[t].ids : Settled(c, next, Pending)
  BY <1>1, <1>2 DEF Holds
<1>4. RowsFewer /\ PlansKept /\ \A c \in expire' : Settled(c, next, Pending)
  BY <1>2, <1>3, ContentsGo
<1>5. StateLater  BY <1>2, <1>4 DEF RowsInv, StateRight, StateLater, reads
<1>6. Later => PlansRight'  BY <1>4, FewerPlans
<1>7. CASE Ends(t)
  <2>1. OthersKept(t) /\ task'[t] = IdleTask  BY <1>1, <1>7, SetKeepsOthers DEF Ends
  <2> QED  BY <1>4, <1>5, <1>6, <2>1, IdleFields, IdleHolds, WorkStep
<1>8. CASE Goes(t, "hide")
  <2> DEFINE r == [task[t] EXCEPT !.step = "hide"]
  <2>1. Set(t, r)  BY <1>8 DEF Goes
  <2>2. r \in TaskStates /\ r.step = "hide" /\ r.u = task[t].u  BY <1>1, StepFields, ZenonT(60)
  <2> HIDE DEF r
  <2>3. Holds(r, content, ref, next, Pending)  BY <1>3, <2>2 DEF Holds, Schedules
  <2>4. OthersKept(t) /\ task'[t] = r  BY <1>1, <2>1, SetKeepsOthers
  <2> QED  BY <1>4, <1>5, <1>6, <2>2, <2>3, <2>4, WorkStep
<1> QED  BY <1>7, <1>8 DEF Purge

\* SetPinned changes the refs in place.
LEMMA PinsInPlace ==
    ASSUME RowsInv, NEW I, NEW b \in BOOLEAN, UNCHANGED <<content, next, plan>>,
           ref' = (ref \ {x \in ref : x.id \in I})
                  \cup {[x EXCEPT !.pinned = b] : x \in {x \in ref : x.id \in I}}
    PROVE  /\ RowsFewer /\ PlansKept
           /\ \A y \in ref' : \E x \in ref :
                 SameRef(y, x) /\ y.pinned = IF x.id \in I THEN b ELSE x.pinned
<1> DEFINE New(x) == IF x.id \in I THEN [x EXCEPT !.pinned = b] ELSE x
<1>1. \A y \in ref' : \E x \in ref : y = New(x)  OBVIOUS
<1>2. \A x \in ref : New(x) \in ref'  OBVIOUS
<1>3. ASSUME NEW x \in ref
      PROVE New(x) \in Refs /\ SameRef(New(x), x)
            /\ New(x).pinned = IF x.id \in I THEN b ELSE x.pinned
  <2>1. x \in Refs  BY DEF RowsInv, RefsRight
  <2>2. [x EXCEPT !.pinned = b] \in Refs /\ SameRef([x EXCEPT !.pinned = b], x)
        /\ [x EXCEPT !.pinned = b].pinned = b
    BY <2>1 DEF Refs, SameRef
  <2> QED  BY <2>1, <2>2 DEF SameRef
<1> HIDE DEF New
<1>4. \A y \in ref' : \E x \in ref :
          y = New(x) /\ y \in Refs /\ SameRef(y, x)
          /\ y.pinned = IF x.id \in I THEN b ELSE x.pinned
  BY <1>1, <1>3
<1>5. \A y, z \in ref' : y.id = z.id => y = z
  BY <1>4 DEF RowsInv, RefsRight, SameRef
<1>6. \A y \in ref' : y.c \in DOMAIN content'
  BY <1>4 DEF RowsInv, RefsRight, SameRef
<1>7. RowsFewer
  BY <1>4, <1>5, <1>6 DEF RowsInv, ContentsRight, RowsFewer, SameRow
<1>8. PlansKept
  <2> SUFFICES ASSUME NEW p \in plan'
               PROVE  /\ p \in Plans /\ \E q \in plan : q.ref = p.ref
                      /\ \E y \in ref' : y.id = p.ref
    BY DEF PlansKept
  <2>1. p \in Plans /\ \E x \in ref : x.id = p.ref  BY DEF RowsInv, PlansRight, Planned
  <2> QED  BY <2>1, <1>2, <1>3 DEF SameRef
<1> QED  BY <1>4, <1>7, <1>8

LEMMA SetPinnedRows ==
    ASSUME RowsInv, NEW t \in Tasks, SetPinned(t)
    PROVE  RowsInv'
<1> DEFINE k == task[t]
<1>1. k \in TaskStates /\ Holds(k, content, ref, next, Pending) /\ task \in [Tasks -> TaskStates]
  BY TaskFacts
<1>2. k.step = "pin" /\ UNCHANGED <<content, next, last, plan, reads, blocked, sched>>
  BY DEF SetPinned, At
<1>3. k.u \in Users /\ k.yes \in BOOLEAN /\ k.ref \in Nat  BY <1>1, <1>2 DEF Holds, TaskStates
<1>4. ref' = (ref \ {x \in ref : x.id \in k.ids})
             \cup {[x EXCEPT !.pinned = k.yes] : x \in {x \in ref : x.id \in k.ids}}
  BY DEF SetPinned
<1>5. RowsFewer /\ PlansKept  BY <1>2, <1>3, <1>4, PinsInPlace
<1>6. Later => PlansRight'  BY <1>5, FewerPlans
<1>7. StateLater  BY <1>2, StateSame DEF reads, sched
<1>8. CASE Ends(t)
  <2>1. OthersKept(t) /\ task'[t] = IdleTask  BY <1>1, <1>8, SetKeepsOthers DEF Ends
  <2> QED  BY <1>5, <1>6, <1>7, <2>1, IdleFields, IdleHolds, WorkStep
<1>9. CASE Set(t, [IdleTask EXCEPT !.step = "content", !.op = "pin", !.u = k.u,
                                   !.ref = k.ref, !.todo = {None}])
  <2> DEFINE r == [IdleTask EXCEPT !.step = "content", !.op = "pin", !.u = k.u,
                                   !.ref = k.ref, !.todo = {None}]
  <2>1. Set(t, r)  BY <1>9
  <2> HIDE DEF k
  <2>2. r \in TaskStates  BY <1>3 DEF IdleTask, TaskStates
  <2>3. r.step = "content" /\ r.u = k.u /\ r.op # "forward"  BY DEF IdleTask
  <2> HIDE DEF r
  <2>4. Holds(r, content, ref, next, Pending)  BY <1>3, <2>3 DEF Holds, Schedules
  <2>5. OthersKept(t) /\ task'[t] = r  BY <1>1, <2>1, SetKeepsOthers
  <2> QED  BY <1>5, <1>6, <1>7, <2>2, <2>3, <2>4, <2>5, WorkStep
<1> QED  BY <1>8, <1>9 DEF SetPinned

\* The plans the scheduler marks.
LEMMA PlanStep ==
    ASSUME RowsInv, UNCHANGED <<content, ref, next, last, reads, blocked, expire, task>>,
           \A p \in plan' : p \in Plans /\ \E q \in plan : q.ref = p.ref
    PROVE  RowsInv'
<1>1. RowsFewer  BY SameRows DEF RowsInv
<1>2. StateLater  BY StateSame DEF reads
<1>3. PlansKept
  <2> SUFFICES ASSUME NEW p \in plan'
               PROVE  /\ p \in Plans /\ \E q \in plan : q.ref = p.ref
                      /\ \E y \in ref' : y.id = p.ref
    BY DEF PlansKept
  <2>1. PICK q \in plan : q.ref = p.ref  OBVIOUS
  <2>2. \E x \in ref : x.id = q.ref  BY DEF RowsInv, PlansRight, Planned
  <2> QED  BY <2>1, <2>2
<1>4. Later => PlansRight'  BY <1>3, FewerPlans
<1> QED  BY <1>1, <1>2, <1>4, RowStep

LEMMA PlanEdits ==
    ASSUME NEW q \in Plans
    PROVE  /\ [q EXCEPT !.due = TRUE] \in Plans /\ [q EXCEPT !.due = TRUE].ref = q.ref
           /\ [q EXCEPT !.sent = TRUE] \in Plans /\ [q EXCEPT !.sent = TRUE].ref = q.ref
           /\ [q EXCEPT !.sent = FALSE] \in Plans /\ [q EXCEPT !.sent = FALSE].ref = q.ref
BY DEF Plans

LEMMA SchedulerRows ==
    ASSUME RowsInv,
           \/ \E p \in plan : ComesDue(p) \/ Unstick(p)
           \/ Poll
           \/ \E a \in jobs : LoseJob(a)
    PROVE  RowsInv'
<1>1. UNCHANGED <<content, ref, next, last, reads, blocked, expire, task>>
  BY DEF ComesDue, Unstick, Poll, LoseJob, rows, sched
<1>2. \A q \in plan : q \in Plans  BY DEF RowsInv, PlansRight, Planned
<1>3. \A p \in plan' : p \in plan \/ \E q \in plan : \/ p = [q EXCEPT !.due = TRUE]
                                                      \/ p = [q EXCEPT !.sent = TRUE]
                                                      \/ p = [q EXCEPT !.sent = FALSE]
  BY DEF ComesDue, Unstick, Poll, LoseJob, rows
<1>4. ASSUME NEW p \in plan'
      PROVE p \in Plans /\ \E q \in plan : q.ref = p.ref
  <2>1. CASE p \in plan  BY <1>2, <2>1
  <2>2. ASSUME NEW q \in plan, p = [q EXCEPT !.due = TRUE]
        PROVE p \in Plans /\ p.ref = q.ref
    BY <1>2, <2>2, PlanEdits
  <2>3. ASSUME NEW q \in plan, p = [q EXCEPT !.sent = TRUE]
        PROVE p \in Plans /\ p.ref = q.ref
    BY <1>2, <2>3, PlanEdits
  <2>4. ASSUME NEW q \in plan, p = [q EXCEPT !.sent = FALSE]
        PROVE p \in Plans /\ p.ref = q.ref
    BY <1>2, <2>4, PlanEdits
  <2> QED  BY <1>3, <2>1, <2>2, <2>3, <2>4, Zenon
<1> QED  BY <1>1, <1>4, PlanStep

LEMMA ExpireRows ==
    ASSUME RowsInv, NEW c \in expire, Expire(c)
    PROVE  RowsInv'
<1>1. /\ DeletesContents({c}) /\ UNCHANGED <<next, last, reads, blocked, task>>
      /\ Settled(c, next, Pending)
  BY DEF Expire, RowsInv, StateRight
<1>2. RowsFewer /\ PlansKept /\ \A d \in expire' : Settled(d, next, Pending)
  BY <1>1, ContentsGo
<1>3. StateLater  BY <1>1, <1>2 DEF RowsInv, StateRight, StateLater, reads
<1>4. Later => PlansRight'  BY <1>2, FewerPlans
<1> QED  BY <1>1, <1>2, <1>3, <1>4, RowStep

LEMMA BlockRows ==
    ASSUME RowsInv, NEW u \in Users, Block(u)
    PROVE  RowsInv'
<1>1. /\ blocked' \subseteq blocked \cup {u}
      /\ UNCHANGED <<rows, reads, expire, task>>
  BY DEF Block, sched
<1>2. RowsFewer  BY <1>1, SameRows DEF RowsInv, rows
<1>3. StateLater  BY <1>1 DEF RowsInv, StateRight, StateLater, rows, reads
<1>4. Later => PlansRight'  BY <1>1, SamePlans, FewerPlans DEF rows
<1> QED  BY <1>1, <1>2, <1>3, <1>4, RowStep

-----------------------------------------------------------------------------
(* The steps that create rows *)

\* A new content, for which the task t will create refs.
LEMMA NewContent ==
    ASSUME RowsInv, NEW t \in Tasks, NEW m \in Contents, NEW r,
           content' = WithRow(next.c, m), next' = [next EXCEPT !.c = @ + 1],
           UNCHANGED <<ref, last, plan, reads, blocked, sched>>,
           Set(t, r), r \in TaskStates, r.step = "refs", r.c = next.c,
           m.author = r.u, m.org = r.rnd, r.u \in Users, r.u \in r.peers,
           m.kind = "scheduled" => r.peers = {r.u}, r.op = "schedule" => m.kind = "scheduled"
    PROVE  RowsInv'
<1>1. /\ next = [c |-> next.c, r |-> next.r, top |-> next.top]
      /\ next.c \in Nat /\ next.r \in Nat /\ next.top \in Nat /\ 1 <= next.r /\ next.top < next.c
  BY DEF RowsInv, NextRight
<1>2. next'.c = next.c + 1 /\ next'.r = next.r /\ next'.top = next.top
      /\ next' = [c |-> next'.c, r |-> next'.r, top |-> next'.top]
  BY <1>1
<1>3. /\ DOMAIN content' = DOMAIN content \cup {next.c} /\ content'[next.c] = m
      /\ content' = [d \in DOMAIN content' |-> content'[d]]
      /\ next.c \notin DOMAIN content
      /\ \A d \in DOMAIN content : content'[d] = content[d] /\ d \in Nat /\ d < next.c
                                   /\ content[d] \in Contents
  <2>1. next.c \notin DOMAIN content /\ \A d \in DOMAIN content : d \in Nat /\ d < next.c
                                                                 /\ content[d] \in Contents
    BY <1>1 DEF RowsInv, ContentsRight
  <2>2. /\ DOMAIN content' = DOMAIN content \cup {next.c} /\ content'[next.c] = m
        /\ \A d \in DOMAIN content : d # next.c => content'[d] = content[d]
    BY DEF WithRow
  <2>3. content' = [d \in DOMAIN content' |-> content'[d]]
    BY Zenon DEF WithRow
  <2> QED  BY <2>1, <2>2, <2>3
<1>4. ContentsRight'  BY <1>1, <1>2, <1>3 DEF ContentsRight
<1>5. NextRight'  BY <1>1, <1>2 DEF NextRight
<1>6. OthersKept(t) /\ task'[t] = r /\ TasksRight /\ task \in [Tasks -> TaskStates]
  BY TaskFacts, SetKeepsOthers DEF RowsInv
<1>7. \A c : Settled(c, next, Pending) => Settled(c, next', Pending')
  BY <1>1, <1>2, <1>6, SettledStays DEF RowsInv
<1>8. \A c \in Pending : c \in DOMAIN content /\ c < next.c
  BY <1>3, ZenonT(60) DEF Pending, RowsInv, TasksRight, Holds, Announces
<1>9. /\ \A x \in ref : Given(x.id, next) /\ x.c \in DOMAIN content
      /\ \A i : Given(i, next) => Given(i, next')
  BY <1>2, RefFacts DEF Given
<1>10. Later  BY <1>3, <1>7, <1>8, <1>9 DEF Later, SameRow
<1>11. RefsRight'  BY <1>2, <1>3, <1>7, <1>9 DEF RowsInv, RefsRight, Kind
<1>12. Announces(r, content')  BY <1>3 DEF Announces
<1>13. next.c \in Pending'  BY <1>6 DEF Pending
<1>14. Holds(r, content', ref', next', Pending')
  BY <1>12, <1>13 DEF Holds, Schedules
<1>15. r.c \notin Pending  BY <1>3, <1>8
<1>16. TasksRight'  BY <1>6, <1>10, <1>14, <1>15, OneTask
<1>17. PlansRight'  BY <1>10, SamePlans, FewerPlans
<1>18. StateRight'  BY <1>7 DEF RowsInv, StateRight, reads, sched
<1> QED  BY <1>4, <1>5, <1>11, <1>16, <1>17, <1>18 DEF RowsInv

LEMMA CreateContentRows ==
    ASSUME RowsInv, NEW t \in Tasks, CreateContent(t)
    PROVE  RowsInv'
<1> DEFINE k == task[t]
<1>1. k \in TaskStates /\ Holds(k, content, ref, next, Pending)  BY TaskFacts
<1>2. k.step = "content"  BY DEF CreateContent, At
<1>3. k.u \in Users /\ (k.op = "forward" => k.u \in k.peers)  BY <1>1, <1>2 DEF Holds
<1>4. CASE Ends(t) /\ UNCHANGED <<content, next>>
  <2>1. UNCHANGED <<rows, reads, blocked, sched>>  BY <1>4 DEF CreateContent, rows
  <2> QED  BY <1>4, <2>1, EndsRows
<1>5. CASE ~(Ends(t) /\ UNCHANGED <<content, next>>)
  <2> DEFINE kind == CASE k.op = "schedule" -> "scheduled"
                       [] k.op = "pin" -> "service"
                       [] OTHER -> "regular"
             peers == CASE k.op = "forward" -> k.peers
                        [] k.op = "schedule" -> {k.u}
                        [] OTHER -> Audience(k.u)
  <2>1. PICK rn \in k.todo, x \in IF k.op = "forward" THEN {k.text}
                                  ELSE IF k.op = "pin" THEN {None} ELSE Texts :
            /\ content' = WithRow(next.c, [author |-> k.u, text |-> x, ver |-> 0, org |-> rn,
                                           kind |-> kind])
            /\ next' = [next EXCEPT !.c = @ + 1]
            /\ Set(t, [k EXCEPT !.step = "refs", !.rnd = rn, !.todo = @ \ {rn},
                     !.c = next.c, !.text = None, !.ref = 0, !.peers = peers])
    BY <1>5 DEF CreateContent
  <2> DEFINE m == [author |-> k.u, text |-> x, ver |-> 0, org |-> rn, kind |-> kind]
             r == [k EXCEPT !.step = "refs", !.rnd = rn, !.todo = @ \ {rn},
                     !.c = next.c, !.text = None, !.ref = 0, !.peers = peers]
  <2>2. content' = WithRow(next.c, m) /\ Set(t, r)  BY <2>1
  <2>3. rn \in Randoms \cup {None} /\ x \in Texts \cup {None}
    BY <1>1 DEF TaskStates
  <2>4. /\ kind \in {"regular", "scheduled", "service"}
        /\ kind = "scheduled" <=> k.op = "schedule"
    OBVIOUS
  <2>5. /\ peers \subseteq Users /\ k.u \in peers
        /\ k.op = "schedule" => peers = {k.u}
    <3>1. k.peers \subseteq Users  BY <1>1 DEF TaskStates
    <3> QED  BY <1>3, <3>1, AudienceIsUsers
  <2>6. next.c \in Nat  BY DEF RowsInv, NextRight
  <2> HIDE DEF kind, peers, k
  <2>7. m \in Contents  BY <1>3, <2>3, <2>4 DEF Contents
  <2>8. /\ r \in TaskStates /\ r.step = "refs" /\ r.c = next.c /\ r.u = k.u /\ r.rnd = rn
        /\ r.peers = peers /\ r.op = k.op
    BY <1>1, <2>3, <2>5, <2>6 DEF TaskStates
  <2>9. m.author = k.u /\ m.org = rn /\ m.kind = kind  OBVIOUS
  <2> HIDE DEF m, r
  <2>10. UNCHANGED <<ref, last, plan, reads, blocked, sched>>  BY DEF CreateContent
  <2> QED  BY <1>3, <2>1, <2>2, <2>4, <2>5, <2>7, <2>8, <2>9, <2>10, NewContent
<1> QED  BY <1>4, <1>5

\* What Inserts adds, in the place of the refs in G.
NewRefs(c, u, S, rn) ==
    {[id |-> next.r + (IF p = u THEN 0 ELSE 1), peer |-> p, c |-> c,
      rnd |-> IF p = u THEN rn ELSE None, pinned |-> FALSE] : p \in S}

LEMMA NewRefEach ==
    ASSUME next.r \in Nat, 1 <= next.r, NEW c \in Nat, NEW u \in Users, NEW S \in SUBSET Users,
           NEW rn \in Randoms \cup {None}, NEW y \in NewRefs(c, u, S, rn)
    PROVE  /\ y \in Refs /\ y.c = c /\ y.peer \in S /\ ~y.pinned
           /\ next.r <= y.id /\ y.id < next.r + 2
           /\ y.peer = u => y.rnd = rn /\ y.id = next.r
           /\ y.peer # u => y.rnd = None /\ y.id = next.r + 1
<1>1. PICK p \in S :
          y = [id |-> next.r + (IF p = u THEN 0 ELSE 1), peer |-> p, c |-> c,
               rnd |-> IF p = u THEN rn ELSE None, pinned |-> FALSE]
  BY DEF NewRefs
<1> QED  BY <1>1 DEF Refs

LEMMA NewRefFacts ==
    ASSUME next.r \in Nat, 1 <= next.r, NEW c \in Nat, NEW u \in Users, NEW S \in SUBSET Users,
           NEW rn \in Randoms \cup {None},
           NEW y \in NewRefs(c, u, S, rn), NEW z \in NewRefs(c, u, S, rn),
           y.peer = z.peer \/ y.id = z.id
    PROVE  y = z
<1> DEFINE Ref(p) == [id |-> next.r + (IF p = u THEN 0 ELSE 1), peer |-> p, c |-> c,
                      rnd |-> IF p = u THEN rn ELSE None, pinned |-> FALSE]
<1>1. PICK p \in S, q \in S : y = Ref(p) /\ z = Ref(q)  BY DEF NewRefs
<1>2. /\ y.peer = p /\ y.id = next.r + (IF p = u THEN 0 ELSE 1)
      /\ z.peer = q /\ z.id = next.r + (IF q = u THEN 0 ELSE 1)
  BY <1>1
<1> HIDE DEF Ref
<1>3. p = u <=> q = u  BY <1>2
<1>4. \A v, w \in Users : v # u /\ w # u => v = w  BY OtherUser
<1>5. p = q  BY <1>3, <1>4
<1> QED  BY <1>1, <1>5

LEMMA PendingRows ==
    ASSUME RowsInv
    PROVE  /\ \A c \in Pending : c \in DOMAIN content /\ c \in Nat /\ c < next.c
           /\ next.c \in Nat /\ next.r \in Nat /\ next.top \in Nat
           /\ 1 <= next.r /\ next.top < next.c
<1>1. ASSUME NEW c \in Pending PROVE c \in DOMAIN content
  <2>1. PICK s \in Tasks : task[s].step = "refs" /\ task[s].c = c  BY DEF Pending
  <2>2. Holds(task[s], content, ref, next, Pending)  BY DEF RowsInv, TasksRight
  <2> QED  BY <2>1, <2>2 DEF Holds, Announces
<1>2. \A c \in DOMAIN content : c \in Nat /\ c < next.c  BY DEF RowsInv, ContentsRight
<1> QED  BY <1>1, <1>2 DEF RowsInv, NextRight

\* The refs G go and refs of the content c come, of which there were none.
LEMMA RefsCome ==
    ASSUME RowsInv, NEW c \in Nat, NEW u \in Users, NEW S \in SUBSET Users,
           NEW rn \in Randoms \cup {None}, NEW G,
           Inserts(c, u, S, rn, G), next'.r = next.r + 2, next'.c \in Nat,
           next' = [c |-> next'.c, r |-> next'.r, top |-> next'.top],
           next.c <= next'.c, next'.top \in Nat, next.top <= next'.top, c <= next'.top,
           next'.top < next'.c, \A x \in ref : x.c # c,
           content' = [d \in DOMAIN content' |-> content'[d]],
           \A d \in DOMAIN content' : content'[d] \in Contents /\ d \in Nat /\ d < next'.c,
           c \in DOMAIN content', content'[c].kind = "scheduled" => S = {u},
           \A x \in ref \ G : x.c \in DOMAIN content',
           \A d \in DOMAIN content : d \in DOMAIN content' => SameRow(content'[d], content[d]),
           \A d \in Pending : d \in DOMAIN content',
           Settled(c, next', Pending'),
           \A d : Settled(d, next, Pending) => Settled(d, next', Pending')
    PROVE  /\ ContentsRight' /\ NextRight' /\ RefsRight' /\ PlansRight' /\ Later
           /\ last' \in [Users -> Nat]
           /\ \A y \in ref' : y \in ref \/ (y \in NewRefs(c, u, S, rn) /\ y.c = c /\ next.r <= y.id)
<1> DEFINE R == NewRefs(c, u, S, rn)
<1>1. NextRight /\ ContentsRight  BY DEF RowsInv
<1>2. /\ ref' = (ref \ G) \cup R /\ Sync(S, ref')
      /\ plan' = {p \in plan : p.ref \notin Ids(G)}
  BY DEF Inserts, NewRefs
<1>3. NextRight' /\ ContentsRight'
  <2>1. next'.r \in Nat /\ 1 <= next'.r  BY <1>1 DEF NextRight
  <2>2. NextRight'  BY <2>1 DEF NextRight
  <2>3. ContentsRight'  BY DEF ContentsRight
  <2> QED  BY <2>2, <2>3
<1>4. /\ \A y \in R : /\ y \in Refs /\ y.c = c /\ y.peer \in S
                      /\ next.r <= y.id /\ y.id < next.r + 2
      /\ \A y, z \in R : y.peer = z.peer \/ y.id = z.id => y = z
  <2>1. next.r \in Nat /\ 1 <= next.r  BY <1>1 DEF NextRight
  <2>2. ASSUME NEW y \in R
        PROVE y \in Refs /\ y.c = c /\ y.peer \in S /\ next.r <= y.id /\ y.id < next.r + 2
    BY <2>1, NewRefEach
  <2>3. ASSUME NEW y \in R, NEW z \in R, y.peer = z.peer \/ y.id = z.id PROVE y = z
    BY <2>1, <2>3, NewRefFacts, Zenon
  <2> QED  BY <2>2, <2>3
<1> HIDE DEF R
<1>5. next.r \in Nat /\ 1 <= next.r /\ \A i : Given(i, next) => Given(i, next')
  BY <1>1 DEF NextRight, Given
<1>6. \A y \in R : Given(y.id, next') /\ ~Given(y.id, next)
  BY <1>4, <1>5 DEF Given, Refs
<1>7. \A x \in ref \ G : /\ x \in Refs /\ Given(x.id, next) /\ Settled(x.c, next', Pending')
                         /\ x.c \in DOMAIN content' /\ x.c <= next'.top
                         /\ content'[x.c].kind = content[x.c].kind
  <2> SUFFICES ASSUME NEW x \in ref \ G
               PROVE  /\ x \in Refs /\ Given(x.id, next) /\ Settled(x.c, next', Pending')
                      /\ x.c \in DOMAIN content' /\ x.c <= next'.top
                      /\ content'[x.c].kind = content[x.c].kind
    OBVIOUS
  <2>1. /\ x \in Refs /\ Given(x.id, next) /\ Settled(x.c, next, Pending)
        /\ x.c \in DOMAIN content /\ x.c <= next.top /\ x.c \in Nat
    BY DEF RowsInv, RefsRight, Settled
  <2>2. x.c <= next'.top  BY <1>1, <2>1 DEF NextRight
  <2> QED  BY <2>1, <2>2 DEF SameRow
<1>8. \A y \in ref' : /\ y \in Refs /\ Given(y.id, next') /\ Settled(y.c, next', Pending')
                      /\ y.c \in DOMAIN content' /\ y.c <= next'.top
  BY <1>2, <1>4, <1>5, <1>6, <1>7
<1>9. \A y, z \in ref' : y.id = z.id => y = z
  BY <1>2, <1>4, <1>6, <1>7 DEF RowsInv, RefsRight
<1>10. ASSUME NEW y \in ref', NEW z \in ref', y.c = z.c,
              y.peer = z.peer \/ content'[y.c].kind = "scheduled"
       PROVE y = z
  <2>1. CASE y \in R /\ z \in R
    <3>1. y.peer \in S /\ z.peer \in S /\ y.c = c  BY <1>4, <2>1
    <3>2. y.peer = z.peer  BY <1>10, <3>1
    <3> QED  BY <1>4, <2>1, <3>2
  <2>2. CASE y \in ref \ G /\ z \in ref \ G
    BY <1>7, <1>10, <2>2 DEF RowsInv, RefsRight, Kind
  <2> QED  BY <1>2, <1>4, <1>10, <2>1, <2>2
<1>11. RefsRight'  BY <1>8, <1>9, <1>10 DEF RefsRight, Kind
<1>12. \A d \in Pending : d \in DOMAIN content
  BY PendingRows
<1>13. Later  BY <1>2, <1>5, <1>6, <1>7, <1>12 DEF Later
<1>14. last' \in [Users -> Nat]
  <2>1. \A y \in ref' : y.id \in Nat /\ y.id < next'.r  BY <1>8 DEF Given
  <2>2. next'.r \in Nat  BY <1>3 DEF NextRight
  <2> QED  BY <1>2, <2>1, <2>2, SyncTyped DEF RowsInv, StateRight
<1>15. PlansKept
  <2> SUFFICES ASSUME NEW p \in plan'
               PROVE  /\ p \in Plans /\ \E q \in plan : q.ref = p.ref
                      /\ \E y \in ref' : y.id = p.ref
    BY DEF PlansKept
  <2>1. p \in plan /\ p.ref \notin Ids(G)  BY <1>2
  <2>2. PICK x \in ref : x.id = p.ref  BY <2>1 DEF RowsInv, PlansRight, Planned
  <2>3. x \notin G  BY <2>1, <2>2 DEF Ids
  <2> QED  BY <1>2, <2>1, <2>2, <2>3 DEF RowsInv, PlansRight, Planned
<1>16. PlansRight'  BY <1>13, <1>15, FewerPlans
<1> QED  BY <1>2, <1>3, <1>4, <1>11, <1>13, <1>14, <1>16 DEF R

LEMMA CreateRefsRows ==
    ASSUME RowsInv, NEW t \in Tasks, CreateRefs(t)
    PROVE  RowsInv'
<1> DEFINE k == task[t]
<1>1. k \in TaskStates /\ Holds(k, content, ref, next, Pending) /\ task \in [Tasks -> TaskStates]
      /\ TasksRight
  BY TaskFacts DEF RowsInv
<1>2. k.step = "refs" /\ UNCHANGED <<content, reads, blocked, sched>>  BY DEF CreateRefs, At
<1>3. /\ k.u \in Users /\ Announces(k, content) /\ k.c \in Pending
      /\ k.peers \in SUBSET Users /\ k.rnd \in Randoms \cup {None} /\ k.c \in Nat
  BY <1>1, <1>2 DEF Holds, TaskStates
<1>4. CASE Ends(t) /\ UNCHANGED <<ref, last, plan, next>>
  <2>1. UNCHANGED rows  BY <1>2, <1>4 DEF rows
  <2> QED  BY <1>2, <1>4, <2>1, EndsRows
<1>5. CASE ~(Ends(t) /\ UNCHANGED <<ref, last, plan, next>>)
  <2> DEFINE r == [k EXCEPT !.step = "unhide", !.ref = next.r]
             m == Max({next.top, k.c})
  <2>1. /\ Inserts(k.c, k.u, k.peers, k.rnd, {})
        /\ next' = [next EXCEPT !.r = @ + 2, !.top = m]
        /\ Set(t, r)
    BY <1>5 DEF CreateRefs
  <2>2. /\ next.c \in Nat /\ next.r \in Nat /\ next.top \in Nat
        /\ 1 <= next.r /\ next.top < next.c /\ k.c < next.c
        /\ next = [c |-> next.c, r |-> next.r, top |-> next.top]
    BY <1>3, PendingRows DEF RowsInv, NextRight
  <2>3. m \in Nat /\ next.top <= m /\ k.c <= m /\ m < next.c
    <3>1. m \in {next.top, k.c} /\ next.top <= m /\ k.c <= m
      BY <1>3, <2>2, MaxOfTwo
    <3> HIDE DEF m
    <3> QED  BY <1>3, <2>2, <3>1
  <2> HIDE DEF m
  <2>4. /\ next'.c = next.c /\ next'.r = next.r + 2 /\ next'.top = m
        /\ next' = [c |-> next'.c, r |-> next'.r, top |-> next'.top]
    BY <2>1, <2>2
  <2> HIDE DEF k
  <2>5. /\ r \in TaskStates /\ r.step = "unhide" /\ r.u = k.u /\ r.c = k.c /\ r.op = k.op
        /\ r.ref = next.r
    BY <1>1, <2>2 DEF TaskStates
  <2> HIDE DEF r
  <2>6. OthersKept(t) /\ task'[t] = r  BY <1>1, <2>1, SetKeepsOthers
  <2>7. \A d : Settled(d, next, Pending) => Settled(d, next', Pending')
    BY <1>1, <2>2, <2>4, <2>5, <2>6, SettledStays DEF RowsInv
  <2>8. k.c \notin Pending'
    <3>1. \A s \in Tasks : s # t => ~(task[s].step = "refs" /\ task[s].c = k.c)
      BY <1>1, <1>2 DEF TasksRight, k
    <3>2. ASSUME NEW s \in Tasks PROVE ~(task'[s].step = "refs" /\ task'[s].c = k.c)
      <4>1. CASE s = t  BY <2>5, <2>6, <4>1
      <4>2. CASE s # t
        <5>1. task[s] \in TaskStates  BY <1>1
        <5>2. task'[s] = task[s] \/ task'[s] = Over(task[s])  BY <2>6, <4>2 DEF OthersKept
        <5>3. task'[s].step = task[s].step /\ task'[s].c = task[s].c
          BY <5>1, <5>2, SameFields
        <5> QED  BY <3>1, <4>2, <5>3
      <4> QED  BY <4>1, <4>2
    <3> QED  BY <3>2 DEF Pending
  <2>9. Settled(k.c, next', Pending')  BY <1>3, <2>2, <2>4, <2>8 DEF Settled
  <2>10. \A x \in ref : x.c # k.c  BY <1>3, RefFacts DEF Settled
  <2>11. /\ content' = [d \in DOMAIN content' |-> content'[d]]
         /\ \A d \in DOMAIN content' : content'[d] \in Contents /\ d \in Nat /\ d < next'.c
         /\ k.c \in DOMAIN content' /\ (content'[k.c].kind = "scheduled" => k.peers = {k.u})
         /\ \A x \in ref \ {} : x.c \in DOMAIN content'
         /\ \A d \in DOMAIN content : d \in DOMAIN content' => SameRow(content'[d], content[d])
         /\ \A d \in Pending : d \in DOMAIN content'
    BY <1>2, <1>3, <2>4, PendingRows, RefFacts
       DEF RowsInv, ContentsRight, Announces, SameRow
  <2>12. /\ next'.c \in Nat /\ next.c <= next'.c /\ next'.top \in Nat /\ next.top <= next'.top
         /\ k.c <= next'.top /\ next'.top < next'.c
    BY <2>2, <2>3, <2>4
  <2>13. /\ ContentsRight' /\ NextRight' /\ RefsRight' /\ PlansRight' /\ Later
         /\ last' \in [Users -> Nat]
         /\ \A y \in ref' : y \in ref \/ (y.c = k.c /\ next.r <= y.id)
    BY <1>3, <2>1, <2>4, <2>7, <2>9, <2>10, <2>11, <2>12, RefsCome
  <2>14. Given(next.r, next')  BY <2>2, <2>4 DEF Given
  <2>15. Schedules(r) => \A x \in ref' : x.id = r.ref => content'[x.c].kind = "scheduled"
    <3> SUFFICES ASSUME Schedules(r), NEW x \in ref', x.id = r.ref
                 PROVE content'[x.c].kind = "scheduled"
      OBVIOUS
    <3>1. k.op = "schedule"  BY <2>5 DEF Schedules
    <3>2. x \notin ref  BY <2>2, <2>5, RefFacts DEF Given
    <3>3. x.c = k.c  BY <2>13, <3>2
    <3> QED  BY <1>2, <1>3, <3>1, <3>3 DEF Announces
  <2>16. Holds(r, content', ref', next', Pending')
    BY <1>3, <2>5, <2>9, <2>14, <2>15 DEF Holds
  <2>17. TasksRight'  BY <1>1, <2>5, <2>6, <2>13, <2>16, OneTask
  <2>18. StateRight'  BY <1>2, <2>7, <2>13 DEF RowsInv, StateRight, reads, sched
  <2> QED  BY <2>13, <2>17, <2>18 DEF RowsInv
<1> QED  BY <1>4, <1>5

\* What SendScheduled does to the contents.
LEMMA CloneAdded ==
    ASSUME RowsInv, NEW x \in ref, NEW C,
           content' = Restrict(WithRow(next.c, Clone(x.c)), (DOMAIN content \ C) \cup {next.c}),
           next' = [c |-> next.c + 1, r |-> next.r + 2, top |-> next.c]
    PROVE  /\ content' = [d \in DOMAIN content' |-> content'[d]]
           /\ DOMAIN content' = (DOMAIN content \ C) \cup {next.c}
           /\ next.c \notin DOMAIN content
           /\ \A d \in DOMAIN content \ C : content'[d] = content[d]
           /\ \A d \in DOMAIN content' : content'[d] \in Contents /\ d \in Nat /\ d < next'.c
           /\ content'[next.c].kind = "regular" /\ content'[next.c].org = None
           /\ content'[next.c].author = content[x.c].author
           /\ content'[next.c].ver = 0
<1>1. next.c \in Nat /\ next'.c = next.c + 1  BY PendingRows
<1>2. \A d \in DOMAIN content : d \in Nat /\ d < next.c /\ content[d] \in Contents
  BY DEF RowsInv, ContentsRight
<1>3. next.c \notin DOMAIN content  BY <1>1, <1>2
<1>4. /\ content' = [d \in DOMAIN content' |-> content'[d]]
      /\ DOMAIN content' = (DOMAIN content \ C) \cup {next.c}
      /\ content'[next.c] = Clone(x.c)
      /\ \A d \in DOMAIN content \ C : content'[d] = content[d]
  BY <1>3 DEF Restrict, WithRow
<1>5. content[x.c] \in Contents  BY <1>2, RefFacts
<1> DEFINE o == content[x.c]
           m == [o EXCEPT !.kind = "regular", !.ver = 0, !.org = None]
<1>6. Clone(x.c) = m  BY DEF Clone
<1>7. o \in Contents  BY <1>5
<1> HIDE DEF o
<1>8. /\ m \in Contents /\ m.kind = "regular" /\ m.ver = 0 /\ m.org = None
      /\ m.author = o.author
  BY <1>7 DEF Contents
<1> HIDE DEF m
<1>9. \A d \in DOMAIN content' : content'[d] \in Contents /\ d \in Nat /\ d < next'.c
  <2> SUFFICES ASSUME NEW d \in DOMAIN content'
               PROVE content'[d] \in Contents /\ d \in Nat /\ d < next'.c
    OBVIOUS
  <2>1. CASE d = next.c  BY <1>1, <1>4, <1>6, <1>8, <2>1
  <2>2. CASE d \in DOMAIN content \ C
    <3>1. content'[d] = content[d] /\ d \in Nat /\ d < next.c  BY <1>2, <1>4, <2>2
    <3> QED  BY <1>1, <1>2, <2>2, <3>1
  <2> QED  BY <1>4, <2>1, <2>2
<1> QED  BY <1>3, <1>4, <1>6, <1>8, <1>9 DEF o

LEMMA SendScheduledRows ==
    ASSUME RowsInv, NEW x \in ref, NEW C, C = {} \/ (C = {x.c} /\ Kind(x) = "scheduled"),
           SendScheduled(x, C), UNCHANGED <<reads, blocked, task>>,
           expire' \subseteq expire \cup {next.c}
    PROVE  /\ RowsInv'
           /\ \A y \in ref' : y \in ref \/ (y.c = next.c /\ next.r <= y.id)
<1>1. /\ content' = Restrict(WithRow(next.c, Clone(x.c)), (DOMAIN content \ C) \cup {next.c})
      /\ Inserts(next.c, x.peer, Audience(x.peer), None, {x})
      /\ next' = [c |-> next.c + 1, r |-> next.r + 2, top |-> next.c]
  BY DEF SendScheduled
<1>2. /\ content' = [d \in DOMAIN content' |-> content'[d]]
      /\ DOMAIN content' = (DOMAIN content \ C) \cup {next.c}
      /\ next.c \notin DOMAIN content
      /\ \A d \in DOMAIN content \ C : content'[d] = content[d]
      /\ \A d \in DOMAIN content' : content'[d] \in Contents /\ d \in Nat /\ d < next'.c
      /\ content'[next.c].kind = "regular"
  BY <1>1, CloneAdded
<1>3. /\ next.c \in Nat /\ next.r \in Nat /\ next.top \in Nat
      /\ 1 <= next.r /\ next.top < next.c
      /\ next'.c = next.c + 1 /\ next'.r = next.r + 2 /\ next'.top = next.c
      /\ next' = [c |-> next'.c, r |-> next'.r, top |-> next'.top]
  BY <1>1, PendingRows
<1>4. /\ next'.c \in Nat /\ next.c <= next'.c /\ next'.top \in Nat /\ next.top <= next'.top
      /\ next.c <= next'.top /\ next'.top < next'.c
  BY <1>3
<1>5. \A d : Settled(d, next, Pending) => Settled(d, next', Pending')
  BY <1>4, SettledSame DEF RowsInv
<1>6. Pending' = Pending  BY DEF Pending
<1>7. \A d \in Pending : d \in DOMAIN content /\ d < next.c  BY PendingRows
<1>8. Settled(next.c, next', Pending')  BY <1>3, <1>6, <1>7 DEF Settled
<1>9. \A d \in C : Settled(d, next, Pending) /\ \A y \in ref \ {x} : y.c # d
  <2>1. Settled(x.c, next, Pending)  BY RefFacts
  <2>2. Kind(x) = "scheduled" => \A y \in ref : y.c = x.c => y = x
    BY DEF RowsInv, RefsRight
  <2> QED  BY <2>1, <2>2
<1>10. \A y \in ref \ {x} : y.c \in DOMAIN content'  BY <1>2, <1>9, RefFacts
<1>11. \A d \in Pending : d \in DOMAIN content'  BY <1>2, <1>7, <1>9 DEF Settled
<1>12. \A d \in DOMAIN content : d \in DOMAIN content' => SameRow(content'[d], content[d])
  BY <1>2 DEF SameRow
<1>13. \A y \in ref : y.c # next.c  BY <1>2, RefFacts
<1>14. x.peer \in Users /\ Audience(x.peer) \in SUBSET Users  BY RefFacts, AudienceIsUsers
<1>15. /\ ContentsRight' /\ NextRight' /\ RefsRight' /\ PlansRight' /\ Later
       /\ last' \in [Users -> Nat]
       /\ \A y \in ref' : y \in ref \/ (y.c = next.c /\ next.r <= y.id)
  <2> DEFINE c == next.c
             u == x.peer
             S == Audience(x.peer)
             G == {x}
  <2>1. /\ c \in Nat /\ u \in Users /\ S \in SUBSET Users /\ Inserts(c, u, S, None, G)
        /\ next'.r = next.r + 2 /\ next'.c \in Nat
        /\ next' = [c |-> next'.c, r |-> next'.r, top |-> next'.top]
        /\ next.c <= next'.c /\ next'.top \in Nat /\ next.top <= next'.top /\ c <= next'.top
        /\ next'.top < next'.c /\ \A y \in ref : y.c # c
    BY <1>1, <1>3, <1>4, <1>13, <1>14
  <2>2. /\ content' = [d \in DOMAIN content' |-> content'[d]]
        /\ \A d \in DOMAIN content' : content'[d] \in Contents /\ d \in Nat /\ d < next'.c
        /\ c \in DOMAIN content' /\ (content'[c].kind = "scheduled" => S = {u})
        /\ \A y \in ref \ G : y.c \in DOMAIN content'
        /\ \A d \in DOMAIN content : d \in DOMAIN content' => SameRow(content'[d], content[d])
    BY <1>2, <1>10, <1>12
  <2>3. /\ \A d \in Pending : d \in DOMAIN content'
        /\ Settled(c, next', Pending')
        /\ \A d : Settled(d, next, Pending) => Settled(d, next', Pending')
    BY <1>5, <1>8, <1>11
  <2> HIDE DEF c, u, S, G
  <2>4. /\ ContentsRight' /\ NextRight' /\ RefsRight' /\ PlansRight' /\ Later
        /\ last' \in [Users -> Nat]
        /\ \A y \in ref' : y \in ref \/ (y \in NewRefs(c, u, S, None) /\ y.c = c /\ next.r <= y.id)
    BY <2>1, <2>2, <2>3, RefsCome
  <2> QED  BY <2>4 DEF c
<1>16. TasksRight'  BY <1>15, SameTasks DEF RowsInv
<1>17. StateRight'  BY <1>5, <1>8, <1>15 DEF RowsInv, StateRight, reads
<1> QED  BY <1>15, <1>16, <1>17 DEF RowsInv

LEMMA RunJobRows ==
    ASSUME RowsInv, NEW a \in jobs, RunJob(a)
    PROVE  RowsInv'
<1>1. CASE UNCHANGED <<rows, expire>>
  <2>1. UNCHANGED <<rows, reads, blocked, expire, task>>  BY <1>1 DEF RunJob
  <2>2. RowsFewer  BY <2>1, SameRows DEF RowsInv, rows
  <2>3. StateLater  BY <2>1, StateSame DEF rows, reads
  <2>4. Later => PlansRight'  BY <2>1, SamePlans, FewerPlans DEF rows
  <2> QED  BY <2>1, <2>2, <2>3, <2>4, RowStep
<1>2. CASE ~UNCHANGED <<rows, expire>>
  <2>1. PICK x \in ref : SendScheduled(x, {})
                         /\ expire' = IF Ttl THEN expire \cup {next.c} ELSE expire
    BY <1>2 DEF RunJob
  <2>2. UNCHANGED <<reads, blocked, task>> /\ expire' \subseteq expire \cup {next.c}
    BY <2>1 DEF RunJob
  <2> QED  BY <2>1, <2>2, SendScheduledRows
<1> QED  BY <1>1, <1>2

LEMMA SendByHandRows ==
    ASSUME RowsInv, NEW u, NEW x \in ref, SendByHand(u, x)
    PROVE  RowsInv'
<1>1. /\ SendScheduled(x, {x.c}) /\ UNCHANGED <<reads, blocked, task>>
      /\ expire' \subseteq expire \cup {next.c}
  BY DEF SendByHand
<1>2. PICK p \in plan : p.ref = x.id  BY DEF SendByHand
<1>3. PICK y \in ref : y.id = p.ref /\ Kind(y) = "scheduled"
  BY DEF RowsInv, PlansRight, Planned, Kind
<1>4. y = x  BY <1>2, <1>3 DEF RowsInv, RefsRight
<1> QED  BY <1>1, <1>3, <1>4, SendScheduledRows

-----------------------------------------------------------------------------
LEMMA InitRows == ASSUME Init PROVE RowsInv
<1>1. content = <<>> /\ ref = {} /\ next = [c |-> 1, r |-> 1, top |-> 0] /\ plan = {}
  BY DEF Init
<1>2. task = [t \in Tasks |-> IdleTask]  BY DEF Init
<1>3. ContentsRight  BY <1>1 DEF ContentsRight
<1>4. NextRight  BY <1>1 DEF NextRight
<1>5. RefsRight  BY <1>1 DEF RefsRight
<1>6. PlansRight  BY <1>1 DEF PlansRight
<1>7. StateRight
  <2>1. /\ last = [u \in Users |-> 0] /\ readIn = [u \in Users |-> -1]
        /\ outMax = [u \in Users |-> 0] /\ seen = [u \in Users |-> 0]
        /\ blocked = {} /\ expire = {}
    BY DEF Init
  <2>2. -1 \in Int /\ 0 \in Nat  OBVIOUS
  <2> QED  BY <2>1, <2>2 DEF StateRight
<1>8. TasksRight
  <2>1. task \in [Tasks -> TaskStates] /\ \A t \in Tasks : task[t] = IdleTask
    BY <1>2, IdleFields
  <2> QED  BY <2>1, IdleFields, IdleHolds DEF TasksRight
<1> QED  BY <1>3, <1>4, <1>5, <1>6, <1>7, <1>8 DEF RowsInv

LEMMA StutterRows == ASSUME RowsInv, UNCHANGED vars PROVE RowsInv'
<1>1. UNCHANGED <<rows, reads, blocked, expire, task>>  BY DEF vars, sched
<1>2. RowsFewer  BY <1>1, SameRows DEF RowsInv, rows
<1>3. StateLater  BY <1>1, StateSame DEF rows, reads
<1>4. Later => PlansRight'  BY <1>1, SamePlans, FewerPlans DEF rows
<1> QED  BY <1>1, <1>2, <1>3, <1>4, RowStep

LEMMA StepRows ==
    ASSUME RowsInv, NEW t \in Tasks, Step(t) \/ Fail(t)
    PROVE  RowsInv'
<1>1. CASE HideDialog(t)
  BY <1>1, EndsRows DEF HideDialog
<1>2. CASE CacheContent(t)
  BY <1>2, EndsRows DEF CacheContent
<1>3. CASE Fail(t)
  BY <1>3, EndsRows DEF Fail
<1> QED
  BY <1>1, <1>2, <1>3, CreateContentRows, CreateRefsRows, UnhideRows, CreatePlanRows,
     CountUnreadRows, ReadOwnRows, SaveRows, RedateRows, DeleteRefsRows, PurgeRows,
     SaveReadRows, ReceiptRows, SetPinnedRows DEF Step

LEMMA RequestRows ==
    ASSUME RowsInv, NEW t \in Tasks, NEW u \in Users, Request(t, u)
    PROVE  RowsInv'
<1>1. \A x \in Of(ref, u) : x \in ref  BY DEF Of
<1>2. CASE \E S \in SUBSET Randoms \ {{}}, op \in {"send", "schedule"} : StartSend(t, u, S, op)
  BY <1>2, StartSendRows
<1>3. CASE StartUnpinAll(t, u)  BY <1>3, StartUnpinAllRows
<1>4. CASE \E m \in Ids(Of(ref, u)) : StartRead(t, u, m)  BY <1>4, StartReadRows
<1>5. CASE \E m \in Ids(Of(ref, u)) : StartDeleteHistory(t, u, m)
  BY <1>5, StartDeleteHistoryRows
<1>6. CASE \E x \in Of(ref, u), rn \in Randoms : StartForward(t, u, x, rn)
  BY <1>1, <1>6, StartForwardRows
<1>7. CASE \E x \in Of(ref, u) : StartEdit(t, u, x)  BY <1>1, <1>7, StartEditRows
<1>8. CASE \E x \in Of(ref, u), revoke \in BOOLEAN : StartDelete(t, u, x, revoke)
  BY <1>1, <1>8, StartDeleteRows
<1>9. CASE \E x \in Of(ref, u) : StartDeleteScheduled(t, u, x)
  BY <1>1, <1>9, StartDeleteScheduledRows
<1>10. CASE \E x \in Of(ref, u), on \in BOOLEAN, op \in {"pin", "silent"} :
                StartPin(t, u, x, on, op)
  BY <1>1, <1>10, StartPinRows
<1>11. CASE \E x \in Of(ref, u) : StartView(t, x)  BY <1>1, <1>11, StartViewRows
<1> QED  BY <1>2, <1>3, <1>4, <1>5, <1>6, <1>7, <1>8, <1>9, <1>10, <1>11 DEF Request

LEMMA NextRows == ASSUME RowsInv, [Next]_vars PROVE RowsInv'
<1>1. CASE \E t \in Tasks : Step(t) \/ Fail(t)  BY <1>1, StepRows
<1>2. CASE \E t \in Tasks, u \in Users : Request(t, u)  BY <1>2, RequestRows
<1>3. CASE \E u \in Users : Block(u)  BY <1>3, BlockRows
<1>4. CASE \E u \in Users : \E x \in Of(ref, u) : SendByHand(u, x)
  BY <1>4, SendByHandRows DEF Of
<1>5. CASE Scheduler
  BY <1>5, SchedulerRows, RunJobRows, ExpireRows DEF Scheduler
<1>6. CASE UNCHANGED vars  BY <1>6, StutterRows
<1> QED  BY <1>1, <1>2, <1>3, <1>4, <1>5, <1>6 DEF Next

LEMMA RowsHold == Spec => []RowsInv
<1>1. Init => RowsInv  BY InitRows
<1>2. RowsInv /\ [Next]_vars => RowsInv'  BY NextRows
<1> QED  BY <1>1, <1>2, PTL DEF Spec

\* What a request leaves alone when it begins.
LEMMA RequestFrame ==
    ASSUME NEW t \in Tasks, NEW u \in Users, Request(t, u)
    PROVE  UNCHANGED <<rows, visible, blocked, sched, cache, outMax, seen, unsynced, late, clash,
                       hidden>>
<1> USE DEF marks, reads
<1>1. CASE \E S \in SUBSET Randoms \ {{}}, op \in {"send", "schedule"} : StartSend(t, u, S, op)
  BY <1>1, Zenon DEF StartSend
<1>2. CASE StartUnpinAll(t, u)  BY <1>2, Zenon DEF StartUnpinAll
<1>3. CASE \E m \in Ids(Of(ref, u)) : StartRead(t, u, m)  BY <1>3, Zenon DEF StartRead
<1>4. CASE \E m \in Ids(Of(ref, u)) : StartDeleteHistory(t, u, m)
  BY <1>4, Zenon DEF StartDeleteHistory
<1>5. CASE \E x \in Of(ref, u), rn \in Randoms : StartForward(t, u, x, rn)
  BY <1>5, Zenon DEF StartForward
<1>6. CASE \E x \in Of(ref, u) : StartEdit(t, u, x)  BY <1>6, Zenon DEF StartEdit
<1>7. CASE \E x \in Of(ref, u), revoke \in BOOLEAN : StartDelete(t, u, x, revoke)
  BY <1>7, Zenon DEF StartDelete
<1>8. CASE \E x \in Of(ref, u) : StartDeleteScheduled(t, u, x)
  BY <1>8, Zenon DEF StartDeleteScheduled
<1>9. CASE \E x \in Of(ref, u), on \in BOOLEAN, op \in {"pin", "silent"} :
                StartPin(t, u, x, on, op)
  BY <1>9, Zenon DEF StartPin
<1>10. CASE \E x \in Of(ref, u) : StartView(t, x)  BY <1>10, Zenon DEF StartView
<1> QED  BY <1>1, <1>2, <1>3, <1>4, <1>5, <1>6, <1>7, <1>8, <1>9, <1>10 DEF Request

\* How a step changes the rows.
LEMMA StepKinds ==
    ASSUME RowsInv, [Next]_vars
    PROVE  \/ RowsFewer
           \/ \E t \in Tasks : CreateContent(t) \/ CreateRefs(t)
           \/ \E x \in ref : \E C : /\ C = {} \/ (C = {x.c} /\ Kind(x) = "scheduled")
                                /\ SendScheduled(x, C)
<1>1. ContentsRight /\ RefsRight  BY DEF RowsInv
<1>2. CASE UNCHANGED <<content, ref, next>>  BY <1>1, <1>2, SameRows
<1>3. CASE \E t \in Tasks : Step(t) \/ Fail(t)
  <2>1. PICK t \in Tasks : Step(t) \/ Fail(t)  BY <1>3
  <2>2. CASE Save(t)  BY <2>2, SaveInPlace
  <2>3. CASE DeleteRefs(t)  BY <2>3, SomeRefsGo DEF DeleteRefs
  <2>4. CASE Purge(t)
    <3>1. Holds(task[t], content, ref, next, Pending) /\ task[t].step = "purge"
      BY <2>4, TaskFacts DEF Purge, At
    <3>2. \A c \in task[t].ids : Settled(c, next, Pending)  BY <3>1 DEF Holds
    <3>3. DeletesContents(task[t].ids) /\ UNCHANGED next  BY <2>4 DEF Purge
    <3> QED  BY <3>2, <3>3, ContentsGo
  <2>5. CASE SetPinned(t)
    <3>1. task[t].yes \in BOOLEAN  BY TaskFacts DEF TaskStates
    <3> QED  BY <2>5, <3>1, PinsInPlace DEF SetPinned
  <2>6. CASE \/ Unhide(t) \/ CreatePlan(t) \/ CountUnread(t) \/ ReadOwn(t) \/ Redate(t)
             \/ HideDialog(t) \/ SaveRead(t) \/ Receipt(t) \/ CacheContent(t) \/ Fail(t)
    <3>1. UNCHANGED <<content, ref, next>>
      BY <2>6 DEF rows, Unhide, CreatePlan, CountUnread, ReadOwn, Redate, HideDialog, SaveRead,
                  Receipt, CacheContent, Fail
    <3> QED  BY <1>2, <3>1
  <2> QED  BY <2>1, <2>2, <2>3, <2>4, <2>5, <2>6 DEF Step
<1>4. CASE \E t \in Tasks, u \in Users : Request(t, u)
  <2>1. UNCHANGED <<content, ref, next>>  BY <1>4, RequestFrame DEF rows
  <2> QED  BY <1>2, <2>1
<1>5. CASE \E u \in Users : Block(u)
  BY <1>2, <1>5 DEF Block, rows
<1>6. CASE \E u \in Users : \E x \in Of(ref, u) : SendByHand(u, x)
  <2>1. PICK u \in Users, x \in ref : SendByHand(u, x)  BY <1>6 DEF Of
  <2>2. PICK p \in plan : p.ref = x.id  BY <2>1 DEF SendByHand
  <2>3. PICK y \in ref : y.id = p.ref /\ Kind(y) = "scheduled"
    BY DEF RowsInv, PlansRight, Planned, Kind
  <2>4. y = x  BY <2>2, <2>3 DEF RowsInv, RefsRight
  <2>5. SendScheduled(x, {x.c})  BY <2>1 DEF SendByHand
  <2> QED  BY <2>3, <2>4, <2>5
<1>7. CASE Scheduler
  <2>1. CASE \E a \in jobs : RunJob(a)
    <3>1. CASE UNCHANGED rows  BY <1>2, <3>1 DEF rows
    <3>2. CASE ~UNCHANGED rows  BY <2>1, <3>2 DEF RunJob
    <3> QED  BY <3>1, <3>2
  <2>2. CASE \E c \in expire : Expire(c)
    <3>1. PICK c \in expire : Expire(c)  BY <2>2
    <3>2. /\ DeletesContents({c}) /\ UNCHANGED next /\ Settled(c, next, Pending)
      BY <3>1 DEF Expire, RowsInv, StateRight
    <3> QED  BY <3>2, ContentsGo
  <2>3. CASE \/ \E p \in plan : ComesDue(p) \/ Unstick(p)
             \/ Poll
             \/ \E a \in jobs : LoseJob(a)
    <3>1. UNCHANGED <<content, ref, next>>  BY <2>3 DEF ComesDue, Unstick, Poll, LoseJob, rows
    <3> QED  BY <1>2, <3>1
  <2> QED  BY <1>7, <2>1, <2>2, <2>3 DEF Scheduler
<1>8. CASE UNCHANGED vars  BY <1>2, <1>8 DEF vars, rows
<1> QED  BY <1>3, <1>4, <1>5, <1>6, <1>7, <1>8 DEF Next

LEMMA ContentsStay ==
    ASSUME RowsInv, NEW t \in Tasks, CreateContent(t)
    PROVE  \A c \in DOMAIN content : c \in DOMAIN content' /\ content'[c] = content[c]
<1>1. CASE UNCHANGED content  BY <1>1
<1>2. CASE ~UNCHANGED content
  <2>1. PICK m : content' = WithRow(next.c, m)  BY <1>2 DEF CreateContent
  <2>2. next.c \notin DOMAIN content  BY PendingRows DEF RowsInv, ContentsRight
  <2> QED  BY <2>1, <2>2 DEF WithRow
<1> QED  BY <1>1, <1>2

-----------------------------------------------------------------------------
(* Random ids *)

LEMMA NamesFewer == ASSUME RowsInv, NamesInv, RowsFewer PROVE NamesInv'
<1>1. \A y \in ref' : \E x \in ref : SameRef(y, x) /\ SameRow(content'[y.c], content[x.c])
  BY DEF RowsFewer, SameRef
<1>2. ASSUME NEW y \in ref', y.peer = content'[y.c].author
      PROVE y.rnd = content'[y.c].org
  <2>1. PICK x \in ref : SameRef(y, x) /\ SameRow(content'[y.c], content[x.c])  BY <1>1
  <2> QED  BY <1>2, <2>1 DEF SameRef, SameRow, NamesInv
<1>3. ASSUME NEW y \in ref', NEW z \in ref', y.peer = z.peer, y.rnd = z.rnd, y.rnd # None
      PROVE y = z
  <2>1. PICK v \in ref, w \in ref : SameRef(y, v) /\ SameRef(z, w)  BY <1>1
  <2>2. v = w  BY <1>3, <2>1 DEF SameRef, NamesInv
  <2>3. y.id = z.id  BY <2>1, <2>2 DEF SameRef
  <2> QED  BY <2>3 DEF RowsFewer
<1> QED  BY <1>2, <1>3 DEF NamesInv

\* New refs, in the place of G, whose random id was new.
LEMMA NamesCome ==
    ASSUME RowsInv, RowsInv', NamesInv, NEW c \in Nat, NEW u \in Users, NEW S \in SUBSET Users,
           NEW rn \in Randoms \cup {None}, NEW G, ref' = (ref \ G) \cup NewRefs(c, u, S, rn),
           RandomIsNew(u, rn),
           \A x \in ref \ G : SameRow(content'[x.c], content[x.c]),
           content'[c].org = rn, content'[c].author = u \/ rn = None
    PROVE  NamesInv'
<1>1. next.r \in Nat /\ 1 <= next.r  BY DEF RowsInv, NextRight
<1>2. ASSUME NEW y \in NewRefs(c, u, S, rn)
      PROVE /\ y.c = c
            /\ y.peer = u => y.rnd = rn
            /\ y.peer # u => y.rnd = None
  BY <1>1, NewRefEach
<1>3. \A y \in ref' : y \in ref \ G \/ y \in NewRefs(c, u, S, rn)  OBVIOUS
<1>4. ASSUME NEW y \in ref', y.peer = content'[y.c].author
      PROVE y.rnd = content'[y.c].org
  <2>1. CASE y \in ref \ G  BY <1>4, <2>1 DEF NamesInv, SameRow
  <2>2. CASE y \in NewRefs(c, u, S, rn)  BY <1>2, <1>4, <2>2
  <2> QED  BY <1>3, <2>1, <2>2
<1>5. ASSUME NEW y \in ref', NEW z \in ref', y.peer = z.peer, y.rnd = z.rnd, y.rnd # None
      PROVE y = z
  <2>1. CASE y \in ref \ G /\ z \in ref \ G  BY <1>5, <2>1 DEF NamesInv
  <2>2. CASE y \in NewRefs(c, u, S, rn) /\ z \in NewRefs(c, u, S, rn)
    BY <1>1, <1>5, <2>2, NewRefFacts
  <2>3. CASE y \in NewRefs(c, u, S, rn) /\ z \in ref \ G
    BY <1>2, <1>5, <2>3 DEF RandomIsNew, Of
  <2>4. CASE y \in ref \ G /\ z \in NewRefs(c, u, S, rn)
    BY <1>2, <1>5, <2>4 DEF RandomIsNew, Of
  <2> QED  BY <1>3, <2>1, <2>2, <2>3, <2>4
<1> QED  BY <1>4, <1>5 DEF NamesInv

LEMMA NamesStep == ASSUME RowsInv, RowsInv', NamesInv, [Next]_vars PROVE NamesInv'
<1>1. CASE RowsFewer  BY <1>1, NamesFewer
<1>2. ASSUME NEW t \in Tasks, CreateContent(t) PROVE NamesInv'
  <2>1. \A c \in DOMAIN content : content'[c] = content[c]  BY <1>2, ContentsStay
  <2>2. ref' = ref  BY <1>2 DEF CreateContent
  <2> QED  BY <2>1, <2>2, RefFacts DEF NamesInv
<1>3. ASSUME NEW t \in Tasks, CreateRefs(t) PROVE NamesInv'
  <2> DEFINE k == task[t]
  <2>1. k \in TaskStates /\ Holds(k, content, ref, next, Pending) /\ k.step = "refs"
    BY <1>3, TaskFacts DEF CreateRefs, At
  <2>2. /\ k.u \in Users /\ Announces(k, content)
        /\ k.peers \in SUBSET Users /\ k.rnd \in Randoms \cup {None} /\ k.c \in Nat
    BY <2>1 DEF Holds, TaskStates
  <2>3. UNCHANGED content  BY <1>3 DEF CreateRefs
  <2>4. CASE UNCHANGED ref  BY <2>3, <2>4 DEF NamesInv
  <2>5. CASE RandomIsNew(k.u, k.rnd) /\ Inserts(k.c, k.u, k.peers, k.rnd, {})
    <3>1. ref' = (ref \ {}) \cup NewRefs(k.c, k.u, k.peers, k.rnd)  BY <2>5 DEF Inserts, NewRefs
    <3>2. /\ content'[k.c].org = k.rnd /\ content'[k.c].author = k.u
          /\ \A x \in ref \ {} : SameRow(content'[x.c], content[x.c])
      BY <2>2, <2>3 DEF Announces, SameRow
    <3> QED  BY <2>2, <2>5, <3>1, <3>2, NamesCome
  <2> QED  BY <1>3, <2>4, <2>5 DEF CreateRefs
<1>4. ASSUME NEW x \in ref, NEW C, C = {} \/ (C = {x.c} /\ Kind(x) = "scheduled"),
             SendScheduled(x, C)
      PROVE NamesInv'
  <2>1. /\ content' = Restrict(WithRow(next.c, Clone(x.c)), (DOMAIN content \ C) \cup {next.c})
        /\ next' = [c |-> next.c + 1, r |-> next.r + 2, top |-> next.c]
        /\ ref' = (ref \ {x}) \cup NewRefs(next.c, x.peer, Audience(x.peer), None)
    BY <1>4 DEF SendScheduled, Inserts, NewRefs
  <2>2. /\ DOMAIN content' = (DOMAIN content \ C) \cup {next.c}
        /\ \A d \in DOMAIN content \ C : content'[d] = content[d]
        /\ content'[next.c].org = None
    BY <2>1, CloneAdded
  <2>3. \A y \in ref \ {x} : y.c \in DOMAIN content \ C
    <3>1. \A y \in ref \ {x} : y.c \notin C  BY <1>4 DEF RowsInv, RefsRight
    <3> QED  BY <3>1, RefFacts
  <2>4. \A y \in ref \ {x} : SameRow(content'[y.c], content[y.c])
    BY <2>2, <2>3 DEF SameRow
  <2>5. x.peer \in Users /\ Audience(x.peer) \in SUBSET Users /\ next.c \in Nat
    BY RefFacts, AudienceIsUsers, PendingRows
  <2>6. RandomIsNew(x.peer, None)  BY DEF RandomIsNew
  <2> QED  BY <2>1, <2>2, <2>4, <2>5, <2>6, NamesCome
<1> QED  BY <1>1, <1>2, <1>3, <1>4, StepKinds

LEMMA NamesHold == Spec => []NamesInv
<1>1. Init => NamesInv  BY DEF Init, NamesInv
<1>2. NamesInv /\ RowsInv /\ RowsInv' /\ [Next]_vars => NamesInv'  BY NamesStep
<1> QED  BY <1>1, <1>2, RowsHold, PTL DEF Spec

\* A retried request does not double a message (the unique index on peer,
\* random_id and random_user, which the sender's copy carries): two messages of
\* one random id have both lost the sender's copy of one of them.
THEOREM RetriesAreOne == Spec => []RetriesDoNotDouble
<1>1. RowsInv /\ NamesInv => RetriesDoNotDouble
  <2> SUFFICES ASSUME RowsInv, NamesInv, NEW x \in ref, NEW y \in ref, x.peer = y.peer, x.c # y.c,
                      content[x.c].author = content[y.c].author,
                      content[x.c].org = content[y.c].org, content[x.c].org # None
               PROVE \E d \in {x.c, y.c} : Of(Copies(ref, d), content[x.c].author) = {}
    BY DEF RetriesDoNotDouble
  <2> SUFFICES ASSUME Of(Copies(ref, x.c), content[x.c].author) # {},
                      Of(Copies(ref, y.c), content[x.c].author) # {}
               PROVE FALSE
    OBVIOUS
  <2>1. PICK v \in ref : v.c = x.c /\ v.peer = content[x.c].author  BY DEF Of, Copies
  <2>2. PICK w \in ref : w.c = y.c /\ w.peer = content[x.c].author  BY DEF Of, Copies
  <2>3. v.rnd = content[x.c].org /\ w.rnd = content[x.c].org  BY <2>1, <2>2 DEF NamesInv
  <2>4. v = w  BY <2>1, <2>2, <2>3 DEF NamesInv
  <2> QED  BY <2>1, <2>2, <2>4
<1> QED  BY <1>1, RowsHold, NamesHold, PTL

-----------------------------------------------------------------------------
(* How a step moves the tasks *)

Quiet == {"idle", "content", "refs", "plan", "save", "redate", "delete", "purge", "hide"}

\* What brings a task to a step that is not a quiet one.
Moves(s) ==
    \/ CreateRefs(s) \/ Unhide(s) \/ CountUnread(s) \/ SaveRead(s)
    \/ \E u \in Users : \E m \in Ids(Of(ref, u)) : StartRead(s, u, m)
    \/ \E u \in Users, x \in ref, on \in BOOLEAN, op \in {"pin", "silent"} : StartPin(s, u, x, on, op)
    \/ \E u \in Users : StartUnpinAll(s, u)
    \/ \E x \in ref : StartView(s, x)

SetOrKept(s) ==
    task'[s] = task[s] \/ task'[s] = Over(task[s]) \/ task'[s].step \in Quiet \/ Moves(s)

LEMMA QuietStep ==
    ASSUME task \in [Tasks -> TaskStates], NEW t \in Tasks, NEW r, r.step \in Quiet \/ Moves(t),
           Set(t, r)
    PROVE  \A s \in Tasks : SetOrKept(s)
BY SetKeepsOthers DEF SetOrKept, OthersKept

LEMMA QuietGoes ==
    ASSUME task \in [Tasks -> TaskStates], NEW t \in Tasks, NEW p \in Quiet, Goes(t, p)
    PROVE  \A s \in Tasks : SetOrKept(s)
<1>1. p \in {"idle", "content", "refs", "unhide", "plan", "unread", "own",
             "save", "redate", "delete", "purge", "hide", "rsave", "receipt", "pin", "cache"}
  BY DEF Quiet
<1>2. [task[t] EXCEPT !.step = p].step = p  BY <1>1, StepFields
<1> QED  BY <1>2, QuietStep DEF Goes

LEMMA QuietEnds ==
    ASSUME task \in [Tasks -> TaskStates], NEW t \in Tasks, Ends(t)
    PROVE  \A s \in Tasks : SetOrKept(s)
<1>1. IdleTask.step \in Quiet  BY IdleFields DEF Quiet
<1> QED  BY <1>1, QuietStep DEF Ends

LEMMA StepMoves ==
    ASSUME RowsInv, NEW t \in Tasks, Step(t) \/ Fail(t)
    PROVE  \A s \in Tasks : SetOrKept(s)
<1>1. task \in [Tasks -> TaskStates] /\ task[t] \in TaskStates  BY TaskFacts
<1>2. CASE Ends(t)  BY <1>1, <1>2, QuietEnds
<1>3. CASE CreateContent(t)
  <2>1. CASE ~Ends(t)
    <3>0. PICK rn \in task[t].todo :
              \E S : Set(t, [task[t] EXCEPT !.step = "refs", !.rnd = rn, !.todo = @ \ {rn},
                     !.c = next.c, !.text = None, !.ref = 0, !.peers = S])
      BY <1>3, <2>1 DEF CreateContent
    <3>1. PICK S :
              Set(t, [task[t] EXCEPT !.step = "refs", !.rnd = rn, !.todo = @ \ {rn},
                     !.c = next.c, !.text = None, !.ref = 0, !.peers = S])
      BY <3>0
    <3> DEFINE r == [task[t] EXCEPT !.step = "refs", !.rnd = rn, !.todo = @ \ {rn},
                     !.c = next.c, !.text = None, !.ref = 0, !.peers = S]
    <3>2. r.step \in Quiet  BY <1>1 DEF TaskStates, Quiet
    <3> QED  BY <1>1, <3>1, <3>2, QuietStep
  <2> QED  BY <1>2, <2>1
<1>4. CASE CreateRefs(t)
  <2>1. PICK r : Set(t, r)  BY <1>4 DEF CreateRefs, Ends
  <2> QED  BY <1>1, <1>4, <2>1, QuietStep DEF Moves
<1>5. CASE Unhide(t)
  <2>1. PICK r : Set(t, r)  BY <1>5 DEF Unhide, Ends, Goes
  <2> QED  BY <1>1, <1>5, <2>1, QuietStep DEF Moves
<1>6. CASE CreatePlan(t)
  <2>1. task[t].step = "plan"  BY <1>6 DEF CreatePlan, At
  <2>2. NextSend(t).step \in Quiet  BY <2>1, NextSendHolds DEF Quiet
  <2> QED  BY <1>1, <1>2, <1>6, <2>2, QuietStep DEF CreatePlan
<1>7. CASE CountUnread(t)
  <2>1. PICK r : Set(t, r)  BY <1>7 DEF CountUnread, Goes
  <2> QED  BY <1>1, <1>7, <2>1, QuietStep DEF Moves
<1>8. CASE ReadOwn(t)
  <2>1. task[t].step = "own"  BY <1>8 DEF ReadOwn, At
  <2>2. NextSend(t).step \in Quiet  BY <2>1, NextSendHolds DEF Quiet
  <2>3. OthersKept(t) /\ task'[t] = NextSend(t)  BY <1>8, ReadsKeepsOthers DEF ReadOwn
  <2> QED  BY <2>2, <2>3 DEF OthersKept, SetOrKept
<1>9. CASE Save(t)  BY <1>1, <1>2, <1>9, QuietGoes DEF Save, Quiet
<1>10. CASE Purge(t)  BY <1>1, <1>2, <1>10, QuietGoes DEF Purge, Quiet
<1>11. CASE Redate(t) \/ DeleteRefs(t) \/ HideDialog(t) \/ Receipt(t) \/ CacheContent(t) \/ Fail(t)
  BY <1>2, <1>11 DEF Redate, DeleteRefs, HideDialog, Receipt, CacheContent, Fail
<1>12. CASE SaveRead(t)
  <2>1. OthersKept(t)  BY <1>12, ReadsKeepsOthers DEF SaveRead
  <2> QED  BY <1>12, <2>1 DEF OthersKept, SetOrKept, Moves
<1>13. CASE SetPinned(t)
  <2>1. CASE ~Ends(t)
    <3> DEFINE v == task[t].u
               i == task[t].ref
               r == [IdleTask EXCEPT !.step = "content", !.op = "pin", !.u = v,
                                     !.ref = i, !.todo = {None}]
    <3>1. Set(t, r)  BY <1>13, <2>1 DEF SetPinned
    <3> HIDE DEF v, i
    <3>2. r.step \in Quiet  BY DEF IdleTask, Quiet
    <3> QED  BY <1>1, <3>1, <3>2, QuietStep
  <2> QED  BY <1>2, <2>1
<1> QED  BY <1>3, <1>4, <1>5, <1>6, <1>7, <1>8, <1>9, <1>10, <1>11, <1>12, <1>13 DEF Step

LEMMA RequestMoves ==
    ASSUME RowsInv, NEW t \in Tasks, NEW u \in Users, Request(t, u)
    PROVE  \A s \in Tasks : SetOrKept(s)
<1>0. task \in [Tasks -> TaskStates] /\ \A x \in Of(ref, u) : x \in ref  BY TaskFacts DEF Of
<1> USE <1>0 DEF Begins, BeginsMany
<1>1. CASE \E S \in SUBSET Randoms \ {{}}, op \in {"send", "schedule"} : StartSend(t, u, S, op)
  <2>1. PICK S, op : Set(t, [IdleTask EXCEPT !.step = "content", !.op = op, !.u = u, !.todo = S])
    BY <1>1 DEF StartSend
  <2>2. [IdleTask EXCEPT !.step = "content", !.op = op, !.u = u, !.todo = S].step \in Quiet
    BY DEF IdleTask, Quiet
  <2> QED  BY <2>1, <2>2, QuietStep
<1>2. CASE StartUnpinAll(t, u)
  <2>1. Moves(t)  BY <1>2 DEF Moves
  <2>2. PICK r : Set(t, r)  BY <1>2 DEF StartUnpinAll
  <2> QED  BY <2>1, <2>2, QuietStep
<1>3. CASE \E m \in Ids(Of(ref, u)) : StartRead(t, u, m)
  <2>1. Moves(t)  BY <1>3 DEF Moves
  <2>2. PICK r : Set(t, r)  BY <1>3 DEF StartRead
  <2> QED  BY <2>1, <2>2, QuietStep
<1>4. CASE \E m \in Ids(Of(ref, u)) : StartDeleteHistory(t, u, m)
  <2>1. PICK I, y : Set(t, [IdleTask EXCEPT !.step = "purge", !.op = "purge", !.u = u,
                                            !.ids = I, !.yes = y])
    BY <1>4 DEF StartDeleteHistory
  <2>2. [IdleTask EXCEPT !.step = "purge", !.op = "purge", !.u = u,
                         !.ids = I, !.yes = y].step \in Quiet
    BY DEF IdleTask, Quiet
  <2> QED  BY <2>1, <2>2, QuietStep
<1>5. CASE \E x \in Of(ref, u), rn \in Randoms : StartForward(t, u, x, rn)
  <2>1. PICK A, S, x : Set(t, [IdleTask EXCEPT !.step = "content", !.op = "forward", !.u = u,
                     !.todo = S, !.peers = A, !.text = x])
    BY <1>5 DEF StartForward
  <2>2. [IdleTask EXCEPT !.step = "content", !.op = "forward", !.u = u,
                     !.todo = S, !.peers = A, !.text = x].step \in Quiet
    BY DEF IdleTask, Quiet
  <2> QED  BY <2>1, <2>2, QuietStep
<1>6. CASE \E x \in Of(ref, u) : StartEdit(t, u, x)
  <2>1. PICK c, i, s, v, d : Set(t, [IdleTask EXCEPT !.step = "save", !.op = "edit", !.u = u,
                        !.c = c, !.ref = i, !.text = s, !.ver = v, !.yes = d])
    BY <1>6, ZenonT(60) DEF StartEdit
  <2>2. [IdleTask EXCEPT !.step = "save", !.op = "edit", !.u = u,
                        !.c = c, !.ref = i, !.text = s, !.ver = v, !.yes = d].step \in Quiet
    BY DEF IdleTask, Quiet
  <2> QED  BY <2>1, <2>2, QuietStep
<1>7. CASE \E x \in Of(ref, u), revoke \in BOOLEAN : StartDelete(t, u, x, revoke)
  <2>1. PICK I : Set(t, [IdleTask EXCEPT !.step = "delete", !.op = "delete", !.u = u, !.ids = I])
    BY <1>7 DEF StartDelete
  <2>2. [IdleTask EXCEPT !.step = "delete", !.op = "delete", !.u = u, !.ids = I].step \in Quiet
    BY DEF IdleTask, Quiet
  <2> QED  BY <2>1, <2>2, QuietStep
<1>8. CASE \E x \in Of(ref, u) : StartDeleteScheduled(t, u, x)
  <2>1. PICK I : Set(t, [IdleTask EXCEPT !.step = "purge", !.op = "purge", !.u = u, !.ids = I])
    BY <1>8 DEF StartDeleteScheduled
  <2>2. [IdleTask EXCEPT !.step = "purge", !.op = "purge", !.u = u, !.ids = I].step \in Quiet
    BY DEF IdleTask, Quiet
  <2> QED  BY <2>1, <2>2, QuietStep
<1>9. CASE \E x \in Of(ref, u), on \in BOOLEAN, op \in {"pin", "silent"} :
                StartPin(t, u, x, on, op)
  <2>1. Moves(t)  BY <1>9 DEF Moves
  <2>2. PICK r : Set(t, r)  BY <1>9 DEF StartPin
  <2> QED  BY <2>1, <2>2, QuietStep
<1>10. CASE \E x \in Of(ref, u) : StartView(t, x)
  <2>1. Moves(t)  BY <1>10 DEF Moves
  <2>2. PICK r : Set(t, r)  BY <1>10 DEF StartView
  <2> QED  BY <2>1, <2>2, QuietStep
<1> QED  BY <1>1, <1>2, <1>3, <1>4, <1>5, <1>6, <1>7, <1>8, <1>9, <1>10 DEF Request

LEMMA TasksMove ==
    ASSUME RowsInv, [Next]_vars
    PROVE  \A s \in Tasks : SetOrKept(s)
<1>1. CASE \E t \in Tasks : Step(t) \/ Fail(t)  BY <1>1, StepMoves
<1>2. CASE \E t \in Tasks, u \in Users : Request(t, u)  BY <1>2, RequestMoves
<1>3. CASE UNCHANGED task  BY <1>3 DEF SetOrKept
<1>4. CASE \E u \in Users : Block(u)  BY <1>3, <1>4 DEF Block
<1>5. CASE \E u \in Users : \E x \in Of(ref, u) : SendByHand(u, x)
  BY <1>3, <1>5 DEF SendByHand
<1>6. CASE Scheduler
  BY <1>3, <1>6, Zenon DEF Scheduler, ComesDue, Unstick, Poll, RunJob, LoseJob, Expire
<1>7. CASE UNCHANGED vars  BY <1>3, <1>7 DEF vars
<1> QED  BY <1>1, <1>2, <1>4, <1>5, <1>6, <1>7 DEF Next


-----------------------------------------------------------------------------
(* Scheduled messages *)

LEMMA NewIds ==
    ASSUME RowsInv, [Next]_vars
    PROVE  /\ next.r \in Nat /\ next'.r \in Nat /\ next.r <= next'.r
           /\ \A y \in ref' : y.id \in Ids(ref) \/ next.r <= y.id
<1>0. next.r \in Nat /\ 1 <= next.r /\ next = [c |-> next.c, r |-> next.r, top |-> next.top]
  BY DEF RowsInv, NextRight
<1>1. CASE RowsFewer  BY <1>0, <1>1 DEF RowsFewer, SameRef, Ids
<1>2. CASE \E t \in Tasks : CreateContent(t)
  <2>1. next'.r = next.r /\ ref' = ref  BY <1>0, <1>2 DEF CreateContent
  <2> QED  BY <1>0, <2>1 DEF Ids
<1>3. ASSUME NEW c \in Nat, NEW u \in Users, NEW S \in SUBSET Users, NEW rn \in Randoms \cup {None},
             NEW G, Inserts(c, u, S, rn, G), next'.r = next.r + 2
      PROVE  /\ next'.r \in Nat /\ next.r <= next'.r
             /\ \A y \in ref' : y.id \in Ids(ref) \/ next.r <= y.id
  <2>1. ref' = (ref \ G) \cup NewRefs(c, u, S, rn)  BY <1>3 DEF Inserts, NewRefs
  <2>2. \A y \in NewRefs(c, u, S, rn) : next.r <= y.id  BY <1>0, NewRefEach
  <2> QED  BY <1>0, <1>3, <2>1, <2>2 DEF Ids
<1>4. ASSUME NEW t \in Tasks, CreateRefs(t)
      PROVE  /\ next'.r \in Nat /\ next.r <= next'.r
             /\ \A y \in ref' : y.id \in Ids(ref) \/ next.r <= y.id
  <2>1. CASE UNCHANGED <<ref, next>>  BY <1>0, <2>1 DEF Ids
  <2>2. CASE ~UNCHANGED <<ref, next>>
    <3>1. /\ Inserts(task[t].c, task[t].u, task[t].peers, task[t].rnd, {})
          /\ next' = [next EXCEPT !.r = @ + 2, !.top = Max({@, task[t].c})]
          /\ task[t].step = "refs"
      BY <1>4, <2>2 DEF CreateRefs, At
    <3>2. next'.r = next.r + 2  BY <1>0, <3>1
    <3>3. /\ task[t].c \in Nat /\ task[t].u \in Users /\ task[t].peers \in SUBSET Users
          /\ task[t].rnd \in Randoms \cup {None}
      BY <3>1, TaskFacts DEF TaskStates, Holds
    <3> QED  BY <1>3, <3>1, <3>2, <3>3
  <2> QED  BY <2>1, <2>2
<1>5. ASSUME NEW x \in ref, NEW C, SendScheduled(x, C)
      PROVE  /\ next'.r \in Nat /\ next.r <= next'.r
             /\ \A y \in ref' : y.id \in Ids(ref) \/ next.r <= y.id
  <2>1. Inserts(next.c, x.peer, Audience(x.peer), None, {x}) /\ next'.r = next.r + 2
    BY <1>5 DEF SendScheduled
  <2>2. next.c \in Nat /\ x.peer \in Users /\ Audience(x.peer) \in SUBSET Users
    BY PendingRows, RefFacts, AudienceIsUsers
  <2> QED  BY <1>3, <2>1, <2>2
<1> QED  BY <1>0, <1>1, <1>2, <1>4, <1>5, StepKinds

LEMMA SentChanges ==
    ASSUME [Next]_vars
    PROVE  UNCHANGED sent \/ \E x \in ref : \E C : SendScheduled(x, C)
<1>1. CASE \E t \in Tasks : Step(t) \/ Fail(t)
  BY <1>1, ZenonT(60) DEF Step, Fail, CreateContent, CreateRefs, Unhide, CreatePlan, CountUnread, ReadOwn, Save,
              Redate, DeleteRefs, Purge, HideDialog, SaveRead, Receipt, SetPinned, CacheContent,
              sched
<1>2. CASE \E t \in Tasks, u \in Users : Request(t, u)
  BY <1>2, RequestFrame, Zenon DEF sched
<1>3. CASE \E u \in Users : Block(u)  BY <1>3, Zenon DEF Block, sched
<1>4. CASE \E u \in Users : \E x \in Of(ref, u) : SendByHand(u, x)
  BY <1>4 DEF SendByHand, Of
<1>5. CASE Scheduler
  <2>1. CASE \E a \in jobs : RunJob(a)  BY <2>1, Zenon DEF RunJob
  <2> QED  BY <1>5, <2>1, Zenon DEF Scheduler, ComesDue, Unstick, Poll, LoseJob, Expire, sched
<1>6. CASE UNCHANGED vars  BY <1>6, Zenon DEF vars, sched
<1> QED  BY <1>1, <1>2, <1>3, <1>4, <1>5, <1>6 DEF Next

LEMMA SentStep == ASSUME RowsInv, SentInv, [Next]_vars PROVE SentInv'
<1>0. /\ next.r \in Nat /\ next'.r \in Nat /\ next.r <= next'.r
      /\ \A y \in ref' : y.id \in Ids(ref) \/ next.r <= y.id
  BY NewIds
<1>1. ASSUME NEW i, Given(i, next) PROVE Given(i, next')
  BY <1>0, <1>1 DEF Given
<1>2. ASSUME NEW i, Given(i, next), i \notin Ids(ref) PROVE i \notin Ids(ref')
  BY <1>0, <1>2 DEF Given, Ids
<1>3. CASE UNCHANGED sent
  BY <1>1, <1>2, <1>3 DEF SentInv, ScheduledSentOnce
<1>4. ASSUME NEW x \in ref, NEW C, SendScheduled(x, C) PROVE SentInv'
  <2>1. /\ sent' = sent \cup {<<x.id, next.c>>}
        /\ ref' = (ref \ {x}) \cup NewRefs(next.c, x.peer, Audience(x.peer), None)
    BY <1>4 DEF SendScheduled, Inserts, NewRefs
  <2>2. Given(x.id, next) /\ x.id \in Ids(ref)  BY RefFacts DEF Ids
  <2>3. x.id \notin Ids(ref')
    <3>1. ASSUME NEW y \in ref' PROVE y.id # x.id
      <4>1. CASE y \in ref \ {x}  BY <4>1 DEF RowsInv, RefsRight
      <4>2. CASE y \in NewRefs(next.c, x.peer, Audience(x.peer), None)
        <5>1. next.c \in Nat /\ x.peer \in Users /\ Audience(x.peer) \in SUBSET Users
              /\ 1 <= next.r
          BY PendingRows, RefFacts, AudienceIsUsers
        <5>2. next.r <= y.id  BY <1>0, <4>2, <5>1, NewRefEach
        <5> QED  BY <1>0, <2>2, <5>2 DEF Given
      <4> QED  BY <2>1, <4>1, <4>2
    <3> QED  BY <3>1 DEF Ids
  <2>4. ASSUME NEW s \in sent'
        PROVE  /\ Given(s[1], next') /\ s[1] \notin Ids(ref') /\ s = <<s[1], s[2]>>
               /\ s \notin sent => s = <<x.id, next.c>>
    <3>1. CASE s \in sent  BY <1>1, <1>2, <3>1 DEF SentInv
    <3>2. CASE s = <<x.id, next.c>>  BY <1>1, <2>2, <2>3, <3>2
    <3> QED  BY <2>1, <3>1, <3>2
  <2>5. ASSUME NEW a \in sent', NEW b \in sent', a[1] = b[1] PROVE a = b
    <3>1. CASE a \in sent /\ b \in sent  BY <2>5, <3>1 DEF SentInv, ScheduledSentOnce
    <3>2. CASE a \in sent /\ b \notin sent
      <4>1. b[1] = x.id  BY <2>4, <3>2
      <4> QED  BY <2>2, <2>5, <3>2, <4>1 DEF SentInv
    <3>3. CASE a \notin sent /\ b \in sent
      <4>1. a[1] = x.id  BY <2>4, <3>3
      <4> QED  BY <2>2, <2>5, <3>3, <4>1 DEF SentInv
    <3> QED  BY <2>4, <3>1, <3>2, <3>3
  <2> QED  BY <2>4, <2>5 DEF SentInv, ScheduledSentOnce
<1> QED  BY <1>3, <1>4, SentChanges

LEMMA SentHolds == Spec => []SentInv
<1>1. Init => SentInv  BY DEF Init, SentInv, ScheduledSentOnce
<1>2. SentInv /\ RowsInv /\ [Next]_vars => SentInv'  BY SentStep
<1> QED  BY <1>1, <1>2, RowsHold, PTL DEF Spec

-----------------------------------------------------------------------------
(* The cache *)

\* Where each move leads.
LEMMA MoveSteps ==
    ASSUME RowsInv, NEW t \in Tasks
    PROVE  /\ CreateRefs(t) => task'[t].step \in {"idle", "unhide"}
           /\ Unhide(t) => task'[t].step \in {"idle", "plan", "unread"}
           /\ CountUnread(t) => task'[t].step \in {"idle", "content", "own"}
           /\ SaveRead(t) => task'[t].step = "receipt"
           /\ \A u, m : StartRead(t, u, m) => task'[t].step \in {"idle", "rsave"}
           /\ \A u, x, on, op : StartPin(t, u, x, on, op) => task'[t].step = "pin"
           /\ \A u : StartUnpinAll(t, u) => task'[t].step = "pin"
<1>1. task[t] \in TaskStates /\ task \in [Tasks -> TaskStates]  BY TaskFacts
<1>2. \A r : Set(t, r) => task'[t] = r  BY <1>1, SetKeepsOthers
<1>3. Ends(t) => task'[t].step = "idle"  BY <1>2, IdleFields DEF Ends
<1>4. \A p \in {"plan", "unread", "own"} : Goes(t, p) => task'[t].step = p
  <2> SUFFICES ASSUME NEW p \in {"plan", "unread", "own"}, Goes(t, p) PROVE task'[t].step = p
    OBVIOUS
  <2>1. task'[t] = [task[t] EXCEPT !.step = p]  BY <1>2 DEF Goes
  <2> QED  BY <1>1, <2>1, StepFields
<1>5. CreateRefs(t) => task'[t].step \in {"idle", "unhide"}
  <2> SUFFICES ASSUME CreateRefs(t), ~Ends(t) PROVE task'[t].step = "unhide"  BY <1>3
  <2>1. task'[t] = [task[t] EXCEPT !.step = "unhide", !.ref = next.r]
    BY <1>2 DEF CreateRefs
  <2> QED  BY <1>1, <2>1 DEF TaskStates
<1>6. Unhide(t) => task'[t].step \in {"idle", "plan", "unread"}
  BY <1>3, <1>4 DEF Unhide
<1>7. CountUnread(t) => task'[t].step \in {"idle", "content", "own"}
  <2> SUFFICES ASSUME CountUnread(t), ~Goes(t, "own") PROVE task'[t].step \in {"idle", "content"}
    BY <1>4
  <2>1. task'[t] = NextSend(t) /\ task[t].step = "unread"  BY <1>2 DEF CountUnread, At
  <2> QED  BY <2>1, NextSendHolds
<1>8. SaveRead(t) => task'[t].step = "receipt"
  <2> SUFFICES ASSUME SaveRead(t) PROVE task'[t].step = "receipt"  OBVIOUS
  <2>1. task'[t] = [task[t] EXCEPT !.step = "receipt", !.over = FALSE]
    BY ReadsKeepsOthers DEF SaveRead
  <2> QED  BY <1>1, <2>1 DEF TaskStates
<1>9. ASSUME NEW u, NEW m, StartRead(t, u, m)
      PROVE task'[t].step \in {"idle", "rsave"}
  <2>1. CASE Set(t, IdleTask)  BY <1>2, <2>1, IdleFields
  <2>2. CASE ~Set(t, IdleTask)
    <3>1. PICK z : Set(t, BeginsRead(u, z))
      BY <1>9, <2>2, Zenon DEF StartRead, Begins, BeginsMany
    <3>2. BeginsRead(u, z).step = "rsave"  BY DEF BeginsRead, IdleTask
    <3> QED  BY <1>2, <3>1, <3>2
  <2> QED  BY <2>1, <2>2
<1>10. ASSUME NEW u, NEW x, NEW on, NEW op, StartPin(t, u, x, on, op)
       PROVE task'[t].step = "pin"
  <2> DEFINE I == Ids({y \in Copies(ref, x.c) : y.peer \in Audience(u)})
             i == x.id
             r == [IdleTask EXCEPT !.step = "pin", !.op = op, !.u = u, !.ref = i, !.yes = on,
                                   !.ids = I]
  <2>1. Set(t, r)  BY <1>10 DEF StartPin, Begins, BeginsMany
  <2> HIDE DEF I, i
  <2>2. r.step = "pin"  BY DEF IdleTask
  <2> QED  BY <1>2, <2>1, <2>2
<1>11. ASSUME NEW u, StartUnpinAll(t, u)
       PROVE task'[t].step = "pin"
  <2> DEFINE I == Ids(AllPinned(u))
             r == [IdleTask EXCEPT !.step = "pin", !.op = "silent", !.u = u, !.ids = I]
  <2>1. Set(t, r)  BY <1>11 DEF StartUnpinAll, Begins, BeginsMany
  <2> HIDE DEF I
  <2>2. r.step = "pin"  BY DEF IdleTask
  <2> QED  BY <1>2, <2>1, <2>2
<1> QED  BY <1>5, <1>6, <1>7, <1>8, <1>9, <1>10, <1>11

LEMMA ViewStep ==
    ASSUME RowsInv, NEW s \in Tasks, NEW x \in ref, StartView(s, x)
    PROVE  task'[s].step = "cache"
<1> DEFINE d == x.c
           v == content[x.c].ver
           w == content[x.c].text
           r == [IdleTask EXCEPT !.step = "cache", !.op = "view", !.c = d, !.text = w, !.ver = v]
<1>1. Set(s, r)  BY DEF StartView, Begins, BeginsMany
<1> HIDE DEF d, v, w
<1>2. r.step = "cache"  BY DEF IdleTask
<1>3. task'[s] = r  BY <1>1, TaskFacts, SetKeepsOthers
<1> QED  BY <1>2, <1>3

\* No text changes.
TextsKept ==
    /\ UNCHANGED clash /\ next.c \in Nat /\ next'.c \in Nat /\ next.c <= next'.c
    /\ \A c \in DOMAIN content' : c < next.c => c \in DOMAIN content /\ content'[c] = content[c]

LEMMA SameTexts ==
    ASSUME RowsInv, UNCHANGED <<content, next, clash>>
    PROVE  TextsKept
BY PendingRows DEF TextsKept

LEMMA ContentsGoTexts ==
    ASSUME RowsInv, NEW C, DeletesContents(C), UNCHANGED <<next, clash>>
    PROVE  TextsKept
<1>1. content' = [c \in DOMAIN content \ C |-> content[c]]
  BY DEF DeletesContents, Restrict
<1> QED  BY <1>1, PendingRows DEF TextsKept

LEMMA SendScheduledTexts ==
    ASSUME RowsInv, NEW x \in ref, NEW C, SendScheduled(x, C), UNCHANGED clash
    PROVE  TextsKept
<1>1. /\ DOMAIN content' = (DOMAIN content \ C) \cup {next.c}
      /\ \A d \in DOMAIN content \ C : content'[d] = content[d]
  BY CloneAdded DEF SendScheduled
<1>2. next.c \in Nat /\ next'.c = next.c + 1  BY PendingRows DEF SendScheduled
<1> QED  BY <1>1, <1>2 DEF TextsKept

LEMMA TextsChange ==
    ASSUME RowsInv, [Next]_vars
    PROVE  TextsKept \/ \E t \in Tasks : Save(t)
<1>0. next = [c |-> next.c, r |-> next.r, top |-> next.top] /\ next.c \in Nat
  BY DEF RowsInv, NextRight
<1>1. ASSUME NEW t \in Tasks, CreateContent(t) PROVE TextsKept
  <2>1. UNCHANGED clash  BY <1>1 DEF CreateContent, marks
  <2>2. CASE UNCHANGED <<content, next>>  BY <2>1, <2>2, SameTexts
  <2>3. CASE ~UNCHANGED <<content, next>>
    <3>1. PICK m : content' = WithRow(next.c, m) /\ next' = [next EXCEPT !.c = @ + 1]
      BY <1>1, <2>3 DEF CreateContent
    <3>2. next'.c = next.c + 1  BY <1>0, <3>1
    <3>3. \A c \in DOMAIN content' : c # next.c => c \in DOMAIN content /\ content'[c] = content[c]
      BY <3>1 DEF WithRow
    <3> QED  BY <1>0, <2>1, <3>2, <3>3 DEF TextsKept
  <2> QED  BY <2>2, <2>3
<1>2. ASSUME NEW t \in Tasks, CreateRefs(t) PROVE TextsKept
  <2>1. UNCHANGED <<content, clash>>  BY <1>2 DEF CreateRefs
  <2>2. next'.c = next.c  BY <1>0, <1>2 DEF CreateRefs
  <2> QED  BY <1>0, <2>1, <2>2 DEF TextsKept
<1>3. ASSUME NEW t \in Tasks,
             \/ Unhide(t) \/ CreatePlan(t) \/ CountUnread(t) \/ ReadOwn(t) \/ Redate(t)
             \/ DeleteRefs(t) \/ HideDialog(t) \/ SaveRead(t) \/ Receipt(t) \/ SetPinned(t)
             \/ CacheContent(t) \/ Fail(t)
      PROVE TextsKept
  <2>1. UNCHANGED <<content, next, clash>>
    BY <1>3, Zenon DEF Unhide, CreatePlan, CountUnread, ReadOwn, Redate, DeleteRefs, HideDialog,
                SaveRead, Receipt, SetPinned, CacheContent, Fail, rows, marks
  <2> QED  BY <2>1, SameTexts
<1>4. ASSUME NEW t \in Tasks, Purge(t) PROVE TextsKept
  BY <1>4, ContentsGoTexts DEF Purge
<1>5. CASE \E t \in Tasks : Step(t) \/ Fail(t)
  BY <1>1, <1>2, <1>3, <1>4, <1>5 DEF Step
<1>6. CASE \E t \in Tasks, u \in Users : Request(t, u)
  <2>1. UNCHANGED <<content, next, clash>>  BY <1>6, RequestFrame DEF rows
  <2> QED  BY <2>1, SameTexts
<1>7. CASE \E u \in Users : Block(u)
  BY <1>7, SameTexts DEF Block, rows, marks
<1>8. CASE \E u \in Users : \E x \in Of(ref, u) : SendByHand(u, x)
  BY <1>8, SendScheduledTexts DEF SendByHand, Of
<1>9. CASE Scheduler
  <2>1. CASE \E a \in jobs : RunJob(a)
    <3>1. UNCHANGED clash  BY <2>1 DEF RunJob
    <3>2. CASE UNCHANGED rows  BY <3>1, <3>2, SameTexts DEF rows
    <3>3. CASE ~UNCHANGED rows  BY <2>1, <3>1, <3>3, SendScheduledTexts DEF RunJob
    <3> QED  BY <3>2, <3>3
  <2>2. CASE \E c \in expire : Expire(c)  BY <2>2, ContentsGoTexts DEF Expire
  <2>3. CASE \/ \E p \in plan : ComesDue(p) \/ Unstick(p)
             \/ Poll
             \/ \E a \in jobs : LoseJob(a)
    BY <2>3, SameTexts DEF ComesDue, Unstick, Poll, LoseJob, rows, marks
  <2> QED  BY <1>9, <2>1, <2>2, <2>3 DEF Scheduler
<1>10. CASE UNCHANGED vars  BY <1>10, SameTexts DEF vars, rows, marks
<1> QED  BY <1>5, <1>6, <1>7, <1>8, <1>9, <1>10 DEF Next

LEMMA AgreesOn ==
    ASSUME TextsKept, NEW c, NEW v, NEW x, Agrees(c, v, x, content, next, clash)
    PROVE  Agrees(c, v, x, content', next', clash')
BY DEF TextsKept, Agrees

\* A save puts a version above what is cached, or is a clash.
LEMMA AgreesSaved ==
    ASSUME RowsInv, NEW t \in Tasks, Save(t), NEW c, NEW v, NEW x,
           Agrees(c, v, x, content, next, clash)
    PROVE  Agrees(c, v, x, content', next', clash')
<1> DEFINE k == task[t]
<1>1. /\ k.ver \in Nat
      /\ content' = IF k.c \in DOMAIN content
                    THEN [content EXCEPT ![k.c].text = k.text, ![k.c].ver = k.ver] ELSE content
      /\ clash' = IF k.c \in DOMAIN content /\ content[k.c].ver >= k.ver
                  THEN clash \cup {k.c} ELSE clash
      /\ next' = next
  BY TaskFacts DEF Save, TaskStates
<1> HIDE DEF k
<1>2. /\ DOMAIN content' = DOMAIN content
      /\ \A d \in DOMAIN content : content[d] \in Contents
      /\ content = [d \in DOMAIN content |-> content[d]]
  BY <1>1 DEF RowsInv, ContentsRight
<1> SUFFICES ASSUME c \in DOMAIN content, c \notin clash'
             PROVE v <= content'[c].ver /\ (v = content'[c].ver => x = content'[c].text)
  BY <1>1, <1>2 DEF Agrees
<1>3. /\ v \in Nat /\ v <= content[c].ver /\ (v = content[c].ver => x = content[c].text)
      /\ content[c].ver \in Nat /\ content[c] \in Contents
  <2>1. c \notin clash  BY <1>1
  <2>2. content[c] \in Contents  BY <1>2
  <2> QED  BY <2>1, <2>2 DEF Agrees, Contents
<1>4. CASE c # k.c
  <2>1. content'[c] = content[c]  BY <1>1, <1>4
  <2> QED  BY <1>3, <2>1
<1>5. CASE c = k.c
  <2>1. content'[c] = [content[c] EXCEPT !.text = k.text, !.ver = k.ver]
    BY <1>1, <1>5
  <2>2. content'[c].ver = k.ver  BY <1>3, <2>1 DEF Contents
  <2>3. ~(content[c].ver >= k.ver)  BY <1>1, <1>5
  <2> QED  BY <1>1, <1>3, <2>2, <2>3
<1> QED  BY <1>4, <1>5

LEMMA CacheGrows ==
    ASSUME [Next]_vars
    PROVE  \/ UNCHANGED cache
           \/ \E t \in Tasks : /\ task[t].step = "cache"
                               /\ cache' \subseteq cache \cup
                                    {[c |-> task[t].c, ver |-> task[t].ver, text |-> task[t].text]}
<1>1. ASSUME NEW t \in Tasks, CacheContent(t)
      PROVE /\ task[t].step = "cache"
            /\ cache' \subseteq cache \cup
                                    {[c |-> task[t].c, ver |-> task[t].ver, text |-> task[t].text]}
  BY <1>1 DEF CacheContent, At
<1>2. CASE \E t \in Tasks : (Step(t) \/ Fail(t)) /\ ~CacheContent(t)
  BY <1>2, ZenonT(60) DEF Step, Fail, CreateContent, CreateRefs, Unhide, CreatePlan, CountUnread,
              ReadOwn, Save, Redate, DeleteRefs, Purge, HideDialog, SaveRead, Receipt, SetPinned
<1>3. CASE \E t \in Tasks, u \in Users : Request(t, u)  BY <1>3, RequestFrame
<1>4. CASE \E u \in Users : Block(u)  BY <1>4, Zenon DEF Block
<1>5. CASE \E u \in Users : \E x \in Of(ref, u) : SendByHand(u, x)
  BY <1>5, Zenon DEF SendByHand
<1>6. CASE Scheduler
  BY <1>6, Zenon DEF Scheduler, RunJob, ComesDue, Unstick, Poll, LoseJob, Expire
<1>7. CASE UNCHANGED vars  BY <1>7 DEF vars
<1> QED  BY <1>1, <1>2, <1>3, <1>4, <1>5, <1>6, <1>7 DEF Next

LEMMA CacheStep == ASSUME RowsInv, CacheInv, [Next]_vars PROVE CacheInv'
<1>1. ASSUME NEW c, NEW v, NEW x, Agrees(c, v, x, content, next, clash)
      PROVE  Agrees(c, v, x, content', next', clash')
  BY <1>1, TextsChange, AgreesOn, AgreesSaved
<1>2. \A e \in cache' : Agrees(e.c, e.ver, e.text, content, next, clash)
  <2>1. CASE UNCHANGED cache  BY <2>1 DEF CacheInv
  <2>2. ASSUME NEW t \in Tasks, task[t].step = "cache",
               cache' \subseteq cache \cup
                    {[c |-> task[t].c, ver |-> task[t].ver, text |-> task[t].text]},
               NEW e \in cache'
        PROVE Agrees(e.c, e.ver, e.text, content, next, clash)
    <3>1. CASE e \in cache  BY <3>1 DEF CacheInv
    <3>2. CASE e = [c |-> task[t].c, ver |-> task[t].ver, text |-> task[t].text]
      <4>1. e.c = task[t].c /\ e.ver = task[t].ver /\ e.text = task[t].text  BY <3>2
      <4> QED  BY <2>2, <4>1 DEF CacheInv
    <3> QED  BY <2>2, <3>1, <3>2
  <2> QED  BY <2>1, <2>2, CacheGrows
<1>3. ASSUME NEW s \in Tasks, task'[s].step = "cache"
      PROVE Agrees(task'[s].c, task'[s].ver, task'[s].text, content', next', clash')
  <2>0. SetOrKept(s) /\ task[s] \in TaskStates  BY TasksMove, TaskFacts
  <2>1. CASE task'[s] = task[s] \/ task'[s] = Over(task[s])
    <3>1. /\ task'[s].step = task[s].step /\ task'[s].c = task[s].c
          /\ task'[s].ver = task[s].ver /\ task'[s].text = task[s].text
      BY <2>0, <2>1, SameFields
    <3>2. Agrees(task[s].c, task[s].ver, task[s].text, content, next, clash)
      BY <1>3, <3>1 DEF CacheInv
    <3> QED  BY <1>1, <3>1, <3>2
  <2>2. ASSUME NEW x \in ref, StartView(s, x)
        PROVE Agrees(task'[s].c, task'[s].ver, task'[s].text, content', next', clash')
    <3> DEFINE d == x.c
               v == content[x.c].ver
               w == content[x.c].text
               r == [IdleTask EXCEPT !.step = "cache", !.op = "view", !.c = d, !.text = w,
                                     !.ver = v]
    <3>1. /\ Set(s, r) /\ UNCHANGED <<content, next, clash>>
      BY <2>2 DEF StartView, Begins, BeginsMany, rows, marks
    <3>2. /\ d \in Nat /\ d < next.c /\ v \in Nat /\ v <= content[d].ver
          /\ w = content[d].text
      BY RefFacts DEF Settled
    <3> HIDE DEF d, v, w
    <3>3. r.c = d /\ r.ver = v /\ r.text = w  BY DEF IdleTask
    <3>4. task'[s] = r  BY <3>1, TaskFacts, SetKeepsOthers
    <3> QED  BY <3>1, <3>2, <3>3, <3>4 DEF Agrees
  <2>3. CASE task'[s].step \in Quiet  BY <1>3, <2>3 DEF Quiet
  <2>4. CASE Moves(s) /\ \A x \in ref : ~StartView(s, x)
    BY <1>3, <2>4, MoveSteps DEF Moves
  <2> QED  BY <2>0, <2>1, <2>2, <2>3, <2>4 DEF SetOrKept
<1> QED  BY <1>1, <1>2, <1>3 DEF CacheInv

LEMMA CacheHolds == Spec => []CacheInv
<1>1. Init => CacheInv  BY IdleFields DEF Init, CacheInv
<1>2. CacheInv /\ RowsInv /\ [Next]_vars => CacheInv'  BY CacheStep
<1> QED  BY <1>1, <1>2, RowsHold, PTL DEF Spec

\* A message scheduled for later is sent at most once (sending takes its ref
\* away, and refs' ids are not used twice), and what the cache holds under a
\* content's version is its text unless overlapping edits saved two texts under
\* one version (StartView reads what CacheContent stores later).
THEOREM PlansKeptRight == Spec => []PlansAreKept
<1>1. SentInv => ScheduledSentOnce  BY DEF SentInv
<1>2. CacheInv => CacheIsCurrent
  BY DEF CacheInv, Agrees, CacheIsCurrent
<1>3. SentInv /\ CacheInv => PlansAreKept  BY <1>1, <1>2 DEF PlansAreKept
<1> QED  BY <1>3, SentHolds, CacheHolds, PTL

-----------------------------------------------------------------------------
(* How a step changes the refs and what follows them *)

\* Refs of the content c come in the place of those in G; none had it, and no
\* task reads up to it.
Comes(c, u, S, rn, G) ==
    /\ c \in Nat /\ u \in Users /\ S \in SUBSET Users /\ rn \in Randoms \cup {None}
    /\ Inserts(c, u, S, rn, G)
    /\ next'.r \in Nat /\ next.r + 2 = next'.r /\ next'.top \in Nat
    /\ next.top <= next'.top /\ c <= next'.top
    /\ \A x \in ref : x.c # c
    /\ \A s \in Tasks : task[s].step \in {"rsave", "receipt"} => task[s].c # c
    /\ \A x \in G : x.peer \in S

LEMMA SentComes ==
    ASSUME RowsInv, NEW x \in ref, NEW C, SendScheduled(x, C)
    PROVE  Comes(next.c, x.peer, Audience(x.peer), None, {x})
<1>1. /\ next.c \in Nat /\ next.r \in Nat /\ next.top \in Nat /\ next.top < next.c
  BY PendingRows
<1>2. x.peer \in Users /\ Audience(x.peer) \in SUBSET Users /\ x.peer \in Audience(x.peer)
  BY RefFacts, AudienceIsUsers
<1>3. /\ Inserts(next.c, x.peer, Audience(x.peer), None, {x})
      /\ next'.r = next.r + 2 /\ next'.top = next.c
  BY DEF SendScheduled
<1>4. \A y \in ref : y.c # next.c  BY <1>1, RefFacts DEF Settled
<1>5. \A s \in Tasks : task[s].step \in {"rsave", "receipt"} => task[s].c # next.c
  BY <1>1, TaskFacts DEF Holds, Settled
<1> QED  BY <1>1, <1>2, <1>3, <1>4, <1>5 DEF Comes

LEMMA CreatedComes ==
    ASSUME RowsInv, NEW t \in Tasks, CreateRefs(t), ~UNCHANGED <<ref, last, unsynced, late>>
    PROVE  /\ Comes(task[t].c, task[t].u, task[t].peers, task[t].rnd, {})
           /\ task'[t].step = "unhide" /\ task'[t].peers = task[t].peers
           /\ task'[t].ref = next.r /\ next'.c = next.c
<1> DEFINE k == task[t]
           m == Max({next.top, k.c})
<1>1. /\ Inserts(k.c, k.u, k.peers, k.rnd, {}) /\ k.step = "refs"
      /\ next' = [next EXCEPT !.r = @ + 2, !.top = m]
      /\ Set(t, [k EXCEPT !.step = "unhide", !.ref = next.r])
  BY DEF CreateRefs, At
<1>2. /\ k.c \in Nat /\ k.u \in Users /\ k.peers \in SUBSET Users
      /\ k.rnd \in Randoms \cup {None} /\ k.c \in Pending /\ k \in TaskStates
  BY <1>1, TaskFacts DEF TaskStates, Holds
<1>3. /\ next.r \in Nat /\ next.top \in Nat
      /\ next = [c |-> next.c, r |-> next.r, top |-> next.top]
  BY PendingRows DEF RowsInv, NextRight
<1>4. m \in Nat /\ next.top <= m /\ k.c <= m
  <2>1. m \in {next.top, k.c} /\ next.top <= m /\ k.c <= m  BY <1>2, <1>3, MaxOfTwo
  <2> QED  BY <1>2, <1>3, <2>1
<1> HIDE DEF m
<1>5. next'.r = next.r + 2 /\ next'.top = m /\ next'.c = next.c  BY <1>1, <1>3
<1>6. \A x \in ref : x.c # k.c  BY <1>2, RefFacts DEF Settled
<1>7. \A s \in Tasks : task[s].step \in {"rsave", "receipt"} => task[s].c # k.c
  BY <1>2, TaskFacts DEF Holds, Settled
<1>8. Comes(k.c, k.u, k.peers, k.rnd, {})
  BY <1>1, <1>2, <1>3, <1>4, <1>5, <1>6, <1>7 DEF Comes
<1>9. task'[t] = [k EXCEPT !.step = "unhide", !.ref = next.r]
  BY <1>1, TaskFacts, SetKeepsOthers
<1> HIDE DEF k
<1>10. task'[t].step = "unhide" /\ task'[t].peers = k.peers /\ task'[t].ref = next.r
  BY <1>2, <1>9 DEF TaskStates
<1> QED  BY <1>5, <1>8, <1>10 DEF k

LEMMA RefsChange ==
    ASSUME RowsInv, [Next]_vars
    PROVE  \/ UNCHANGED <<ref, last, unsynced, late>>
           \/ \E t \in Tasks : SetPinned(t)
           \/ \E C : DeletesContents(C) /\ UNCHANGED <<last, late>>
           \/ \E t \in Tasks : DeleteRefs(t)
           \/ \E c, u, S, rn, G : Comes(c, u, S, rn, G)
<1>1. ASSUME NEW t \in Tasks, CreateRefs(t)
      PROVE UNCHANGED <<ref, last, unsynced, late>> \/ \E c, u, S, rn, G : Comes(c, u, S, rn, G)
  BY <1>1, CreatedComes
<1>2. ASSUME NEW t \in Tasks,
             \/ CreateContent(t) \/ Unhide(t) \/ CreatePlan(t) \/ CountUnread(t) \/ ReadOwn(t)
             \/ Save(t) \/ Redate(t) \/ HideDialog(t) \/ SaveRead(t) \/ Receipt(t)
             \/ CacheContent(t) \/ Fail(t)
      PROVE UNCHANGED <<ref, last, unsynced, late>>
  BY <1>2, Zenon DEF CreateContent, Unhide, CreatePlan, CountUnread, ReadOwn, Save, Redate,
              HideDialog, SaveRead, Receipt, CacheContent, Fail, rows, marks
<1>3. ASSUME NEW t \in Tasks, Purge(t)
      PROVE \E C : DeletesContents(C) /\ UNCHANGED <<last, late>>
  BY <1>3 DEF Purge
<1>4. CASE \E t \in Tasks : Step(t) \/ Fail(t)
  BY <1>1, <1>2, <1>3, <1>4, Zenon DEF Step
<1>5. CASE \E t \in Tasks, u \in Users : Request(t, u)
  BY <1>5, RequestFrame DEF rows
<1>6. CASE \E u \in Users : Block(u)  BY <1>6 DEF Block, rows, marks
<1>7. CASE \E u \in Users : \E x \in Of(ref, u) : SendByHand(u, x)
  BY <1>7, SentComes DEF SendByHand, Of
<1>8. CASE Scheduler
  <2>1. ASSUME NEW a \in jobs, RunJob(a)
        PROVE UNCHANGED <<ref, last, unsynced, late>> \/ \E x \in ref : SendScheduled(x, {})
    BY <2>1, Zenon DEF RunJob, rows
  <2>2. CASE \E c \in expire : Expire(c)  BY <2>2 DEF Expire
  <2>3. CASE \/ \E p \in plan : ComesDue(p) \/ Unstick(p)
             \/ Poll
             \/ \E a \in jobs : LoseJob(a)
    BY <2>3, Zenon DEF ComesDue, Unstick, Poll, LoseJob, rows, marks
  <2> QED  BY <1>8, <2>1, <2>2, <2>3, SentComes DEF Scheduler
<1>9. CASE UNCHANGED vars  BY <1>9 DEF vars, rows, marks
<1> QED  BY <1>4, <1>5, <1>6, <1>7, <1>8, <1>9 DEF Next

LEMMA ComesRefs ==
    ASSUME RowsInv, NEW c, NEW u, NEW S, NEW rn, NEW G, Comes(c, u, S, rn, G)
    PROVE  /\ ref' = (ref \ G) \cup NewRefs(c, u, S, rn)
           /\ \A y \in NewRefs(c, u, S, rn) : /\ y.c = c /\ y.peer \in S /\ ~y.pinned
                                              /\ next.r <= y.id
<1>1. ref' = (ref \ G) \cup NewRefs(c, u, S, rn)  BY DEF Comes, Inserts, NewRefs
<1>2. next.r \in Nat /\ 1 <= next.r  BY PendingRows
<1>3. c \in Nat /\ u \in Users /\ S \in SUBSET Users /\ rn \in Randoms \cup {None}
  BY DEF Comes
<1>4. ASSUME NEW y \in NewRefs(c, u, S, rn)
      PROVE y.c = c /\ y.peer \in S /\ ~y.pinned /\ next.r <= y.id
  BY <1>2, <1>3, NewRefEach
<1> QED  BY <1>1, <1>4

\* A step moves one task, and nothing else but what it overtakes.
LEMMA StepKeepsOthers ==
    ASSUME RowsInv, NEW t \in Tasks, Step(t) \/ Fail(t)
    PROVE  OthersKept(t)
<1>1. \A r : Set(t, r) => OthersKept(t)  BY TaskFacts, SetKeepsOthers
<1>2. CASE ReadOwn(t) \/ SaveRead(t)  BY <1>2, ReadsKeepsOthers DEF ReadOwn, SaveRead
<1>3. Ends(t) => OthersKept(t)  BY <1>1 DEF Ends
<1>4. \A p : Goes(t, p) => OthersKept(t)  BY <1>1 DEF Goes
<1>5. CASE CreateContent(t)  BY <1>1, <1>3, <1>5 DEF CreateContent
<1>6. CASE CreateRefs(t)  BY <1>1, <1>3, <1>6 DEF CreateRefs
<1>7. CASE Unhide(t)  BY <1>3, <1>4, <1>7 DEF Unhide
<1>8. CASE CreatePlan(t) \/ CountUnread(t)
  BY <1>1, <1>3, <1>4, <1>8 DEF CreatePlan, CountUnread
<1>9. CASE Save(t) \/ Redate(t) \/ DeleteRefs(t) \/ Purge(t) \/ HideDialog(t)
  BY <1>3, <1>4, <1>9 DEF Save, Redate, DeleteRefs, Purge, HideDialog
<1>10. CASE Receipt(t) \/ CacheContent(t) \/ Fail(t)
  BY <1>3, <1>10 DEF Receipt, CacheContent, Fail
<1>11. CASE SetPinned(t)  BY <1>1, <1>3, <1>11 DEF SetPinned
<1> QED  BY <1>2, <1>5, <1>6, <1>7, <1>8, <1>9, <1>10, <1>11 DEF Step

LEMMA RequestKeepsOthers ==
    ASSUME RowsInv, NEW t \in Tasks, NEW u \in Users, Request(t, u)
    PROVE  OthersKept(t) /\ task[t].step = "idle"
<1>1. \A n, r : BeginsMany(t, n, r) => OthersKept(t) /\ task[t].step = "idle"
  BY TaskFacts, SetKeepsOthers DEF BeginsMany, At
<1>2. \A r : Begins(t, r) => OthersKept(t) /\ task[t].step = "idle"  BY <1>1 DEF Begins
<1>3. CASE \E S \in SUBSET Randoms \ {{}}, op \in {"send", "schedule"} : StartSend(t, u, S, op)
  BY <1>1, <1>3 DEF StartSend
<1>4. CASE StartUnpinAll(t, u)  BY <1>2, <1>4 DEF StartUnpinAll
<1>5. CASE \E m \in Ids(Of(ref, u)) : StartRead(t, u, m)
  BY <1>2, <1>5 DEF StartRead
<1>6. CASE \E m \in Ids(Of(ref, u)) : StartDeleteHistory(t, u, m)
  BY <1>2, <1>6 DEF StartDeleteHistory
<1>7. CASE \E x \in Of(ref, u), rn \in Randoms : StartForward(t, u, x, rn)
  BY <1>2, <1>7 DEF StartForward
<1>8. CASE \E x \in Of(ref, u) : StartEdit(t, u, x)  BY <1>2, <1>8 DEF StartEdit
<1>9. CASE \E x \in Of(ref, u), revoke \in BOOLEAN : StartDelete(t, u, x, revoke)
  BY <1>2, <1>9 DEF StartDelete
<1>10. CASE \E x \in Of(ref, u) : StartDeleteScheduled(t, u, x)
  BY <1>2, <1>10 DEF StartDeleteScheduled
<1>11. CASE \E x \in Of(ref, u), on \in BOOLEAN, op \in {"pin", "silent"} :
                StartPin(t, u, x, on, op)
  BY <1>2, <1>11 DEF StartPin
<1>12. CASE \E x \in Of(ref, u) : StartView(t, x)  BY <1>2, <1>12 DEF StartView
<1> QED
  BY <1>3, <1>4, <1>5, <1>6, <1>7, <1>8, <1>9, <1>10, <1>11, <1>12 DEF Request

LEMMA OneMoves ==
    ASSUME RowsInv, [Next]_vars
    PROVE  \/ UNCHANGED task
           \/ \E t \in Tasks : /\ OthersKept(t)
                               /\ \/ Step(t) \/ Fail(t)
                                  \/ task[t].step = "idle" /\ \E u \in Users : Request(t, u)
<1>1. CASE \E t \in Tasks : Step(t) \/ Fail(t)  BY <1>1, StepKeepsOthers
<1>2. CASE \E t \in Tasks, u \in Users : Request(t, u)  BY <1>2, RequestKeepsOthers
<1>3. CASE \E u \in Users : Block(u)  BY <1>3 DEF Block
<1>4. CASE \E u \in Users : \E x \in Of(ref, u) : SendByHand(u, x)  BY <1>4 DEF SendByHand
<1>5. CASE Scheduler
  BY <1>5, Zenon DEF Scheduler, ComesDue, Unstick, Poll, RunJob, LoseJob, Expire
<1>6. CASE UNCHANGED vars  BY <1>6 DEF vars
<1> QED  BY <1>1, <1>2, <1>3, <1>4, <1>5, <1>6 DEF Next

-----------------------------------------------------------------------------
(* The last message of the dialog *)

LEMMA LastStep == ASSUME RowsInv, LastMessageIsLast, [Next]_vars PROVE LastMessageIsLast'
<1>1. CASE UNCHANGED <<ref, last, unsynced, late>>  BY <1>1 DEF LastMessageIsLast
<1>2. CASE \E t \in Tasks : SetPinned(t)
  <2>1. PICK t \in Tasks : SetPinned(t)  BY <1>2
  <2> DEFINE I == task[t].ids
             b == task[t].yes
  <2>2. /\ ref' = (ref \ {x \in ref : x.id \in I})
                  \cup {[x EXCEPT !.pinned = b] : x \in {x \in ref : x.id \in I}}
        /\ UNCHANGED <<last, unsynced>>
    BY <2>1 DEF SetPinned, marks
  <2> HIDE DEF I, b
  <2>3. ASSUME NEW x \in ref
        PROVE [x EXCEPT !.pinned = b].id = x.id /\ [x EXCEPT !.pinned = b].peer = x.peer
    BY DEF RowsInv, RefsRight, Refs
  <2>4. ASSUME NEW u \in Users PROVE Ids(Of(ref', u)) = Ids(Of(ref, u))
    <3>1. ASSUME NEW x \in Of(ref, u) PROVE x.id \in Ids(Of(ref', u))
      <4>1. x \in ref /\ x.peer = u  BY DEF Of
      <4>2. x \in ref' \/ [x EXCEPT !.pinned = b] \in ref'  BY <2>2, <4>1
      <4> QED  BY <2>3, <4>1, <4>2 DEF Of, Ids
    <3>2. ASSUME NEW y \in Of(ref', u) PROVE y.id \in Ids(Of(ref, u))
      <4>1. y \in ref' /\ y.peer = u  BY DEF Of
      <4>2. y \in ref \/ \E x \in ref : y = [x EXCEPT !.pinned = b]  BY <2>2, <4>1
      <4> QED  BY <2>3, <4>1, <4>2 DEF Of, Ids
    <3> QED  BY <3>1, <3>2 DEF Ids
  <2>5. \A u \in Users : Of(ref', u) # {} => Of(ref, u) # {}
    BY <2>4 DEF Ids
  <2> QED  BY <2>2, <2>4, <2>5 DEF LastMessageIsLast
<1>3. ASSUME NEW C, DeletesContents(C), UNCHANGED last PROVE LastMessageIsLast'
  <2> DEFINE R == {x \in ref : x.c \in C}
  <2>1. ref' = ref \ R /\ unsynced' = unsynced \cup {x.peer : x \in R}
    BY <1>3 DEF DeletesContents
  <2>2. ASSUME NEW u \in Users, u \notin unsynced' PROVE Of(ref', u) = Of(ref, u)
    BY <2>1, <2>2 DEF Of
  <2> QED  BY <1>3, <2>1, <2>2 DEF LastMessageIsLast
<1>4. ASSUME NEW S, Sync(S, ref'), \A u \in Users \ S : Of(ref', u) = Of(ref, u)
      PROVE LastMessageIsLast'
  <2> SUFFICES ASSUME NEW u \in Users, Of(ref', u) # {}, u \notin unsynced'
               PROVE last'[u] = Max(Ids(Of(ref', u)))
    BY DEF LastMessageIsLast
  <2>1. last'[u] = IF u \in S /\ Of(ref', u) # {} THEN Max(Ids(Of(ref', u))) ELSE last[u]
    BY <1>4 DEF Sync
  <2>2. u \in S \/ u \notin unsynced  BY <1>4 DEF Sync
  <2> QED  BY <1>4, <2>1, <2>2 DEF LastMessageIsLast
<1>5. ASSUME NEW t \in Tasks, DeleteRefs(t) PROVE LastMessageIsLast'
  <2> DEFINE R == {x \in ref : x.id \in task[t].ids}
             S == {x.peer : x \in R}
  <2>1. ref' = ref \ R /\ Sync(S, ref')  BY <1>5 DEF DeleteRefs
  <2>2. \A u \in Users \ S : Of(ref', u) = Of(ref, u)  BY <2>1 DEF Of
  <2> QED  BY <1>4, <2>1, <2>2
<1>6. ASSUME NEW c, NEW u, NEW S, NEW rn, NEW G, Comes(c, u, S, rn, G) PROVE LastMessageIsLast'
  <2>1. /\ ref' = (ref \ G) \cup NewRefs(c, u, S, rn)
        /\ \A y \in NewRefs(c, u, S, rn) : y.peer \in S
    BY <1>6, ComesRefs
  <2>2. Sync(S, ref') /\ \A x \in G : x.peer \in S  BY <1>6 DEF Comes, Inserts
  <2>3. \A v \in Users \ S : Of(ref', v) = Of(ref, v)  BY <2>1, <2>2 DEF Of
  <2> QED  BY <1>4, <2>2, <2>3
<1> QED  BY <1>1, <1>2, <1>3, <1>5, <1>6, RefsChange

-----------------------------------------------------------------------------
(* The dialog is shown *)

LEMMA VisibleChange ==
    ASSUME RowsInv, [Next]_vars
    PROVE  \/ visible \subseteq visible' /\ hidden \subseteq hidden'
           \/ \E S : Unhides(S)
           \/ \E t \in Tasks : HideDialog(t)
<1>1. ASSUME NEW t \in Tasks,
             \/ CreateContent(t) \/ CreateRefs(t) \/ CreatePlan(t) \/ CountUnread(t) \/ ReadOwn(t)
             \/ Save(t) \/ Redate(t) \/ DeleteRefs(t) \/ Purge(t) \/ SaveRead(t) \/ Receipt(t)
             \/ SetPinned(t) \/ CacheContent(t)
      PROVE UNCHANGED <<visible, hidden>>
  BY <1>1, Zenon DEF CreateContent, CreateRefs, CreatePlan, CountUnread, ReadOwn, Save, Redate,
              DeleteRefs, Purge, SaveRead, Receipt, SetPinned, CacheContent, marks
<1>2. ASSUME NEW t \in Tasks, Fail(t) PROVE visible \subseteq visible' /\ hidden \subseteq hidden'
  BY <1>2 DEF Fail
<1>3. CASE \E t \in Tasks : Step(t) \/ Fail(t)
  BY <1>1, <1>2, <1>3 DEF Step, Unhide
<1>4. CASE \E t \in Tasks, u \in Users : Request(t, u)  BY <1>4, RequestFrame
<1>5. CASE \E u \in Users : Block(u)  BY <1>5 DEF Block, marks
<1>6. CASE \E u \in Users : \E x \in Of(ref, u) : SendByHand(u, x)
  BY <1>6, Zenon DEF SendByHand, SendScheduled
<1>7. CASE Scheduler
  <2>1. CASE \E a \in jobs : RunJob(a)  BY <2>1 DEF RunJob, SendScheduled
  <2>2. CASE ~\E a \in jobs : RunJob(a)
    <3>1. UNCHANGED <<visible, hidden>>
      BY <1>7, <2>2, Zenon DEF Scheduler, ComesDue, Unstick, Poll, LoseJob, Expire, marks
    <3> QED  BY <3>1
  <2> QED  BY <2>1, <2>2
<1>8. CASE UNCHANGED vars  BY <1>8 DEF vars, marks
<1> QED  BY <1>3, <1>4, <1>5, <1>6, <1>7, <1>8 DEF Next

\* A task leaves the unhide step only by showing the dialog or failing.
LEMMA UnhideLeft ==
    ASSUME RowsInv, [Next]_vars, NEW s \in Tasks, task[s].step = "unhide"
    PROVE  \/ task'[s].step = "unhide" /\ task'[s].peers = task[s].peers
           \/ Unhide(s) \/ Fail(s)
<1>1. task[s] \in TaskStates  BY TaskFacts
<1>2. CASE UNCHANGED task  BY <1>2
<1>3. ASSUME NEW t \in Tasks, OthersKept(t), s # t
      PROVE task'[s].step = "unhide" /\ task'[s].peers = task[s].peers
  <2>1. task'[s] = task[s] \/ task'[s] = Over(task[s])  BY <1>3 DEF OthersKept
  <2> QED  BY <1>1, <2>1, SameFields
<1>4. CASE Step(s)
  BY <1>4 DEF Step, CreateContent, CreateRefs, CreatePlan, CountUnread, ReadOwn, Save, Redate,
              DeleteRefs, Purge, HideDialog, SaveRead, Receipt, SetPinned, CacheContent, At
<1> QED  BY <1>2, <1>3, <1>4, OneMoves

LEMMA ShownStep == ASSUME RowsInv, MessagesAreShown, [Next]_vars PROVE MessagesAreShown'
<1> SUFFICES ASSUME NEW u \in Users, Of(ref', u) # {}, u \notin visible', u \notin hidden'
             PROVE \E t \in Tasks : task'[t].step = "unhide" /\ u \in task'[t].peers
  BY DEF MessagesAreShown, At
<1>1. u \notin visible /\ u \notin hidden
  <2>1. CASE visible \subseteq visible' /\ hidden \subseteq hidden'  BY <2>1
  <2>2. CASE \E S : Unhides(S)  BY <2>2 DEF Unhides
  <2>3. CASE \E t \in Tasks : HideDialog(t)
    <3>1. PICK t \in Tasks : HideDialog(t)  BY <2>3
    <3>2. /\ visible' = visible \ {task[t].u} /\ ref' = ref
          /\ hidden' = IF Of(ref, task[t].u) # {} THEN hidden \cup {task[t].u} ELSE hidden
      BY <3>1 DEF HideDialog, rows
    <3> QED  BY <3>2
  <2> QED  BY <2>1, <2>2, <2>3, VisibleChange
<1>2. CASE Of(ref, u) # {}
  <2>1. PICK t \in Tasks : task[t].step = "unhide" /\ u \in task[t].peers
    BY <1>1, <1>2 DEF MessagesAreShown, At
  <2>2. ~Unhide(t)  BY <2>1 DEF Unhide, Unhides
  <2>3. ~Fail(t)  BY <1>1, <2>1 DEF Fail, At
  <2> QED  BY <2>1, <2>2, <2>3, UnhideLeft
<1>3. CASE Of(ref, u) = {}
  <2>1. PICK y \in ref' : y.peer = u  BY DEF Of
  <2>2. CASE RowsFewer  BY <1>3, <2>1, <2>2 DEF RowsFewer, SameRef, Of
  <2>3. CASE \E t \in Tasks : CreateContent(t)  BY <1>3, <2>1, <2>3 DEF CreateContent, Of
  <2>4. ASSUME NEW t \in Tasks, CreateRefs(t)
        PROVE \E s \in Tasks : task'[s].step = "unhide" /\ u \in task'[s].peers
    <3>1. CASE UNCHANGED <<ref, last, unsynced, late>>  BY <1>3, <2>1, <3>1 DEF Of
    <3>2. CASE ~UNCHANGED <<ref, last, unsynced, late>>
      <4>1. /\ Comes(task[t].c, task[t].u, task[t].peers, task[t].rnd, {})
            /\ task'[t].step = "unhide" /\ task'[t].peers = task[t].peers
        BY <2>4, <3>2, CreatedComes
      <4>2. y \notin ref  BY <1>3, <2>1 DEF Of
      <4>3. y.peer \in task[t].peers  BY <2>1, <4>1, <4>2, ComesRefs
      <4> QED  BY <2>1, <4>1, <4>3
    <3> QED  BY <3>1, <3>2
  <2>5. ASSUME NEW x \in ref, NEW C, SendScheduled(x, C) PROVE FALSE
    <3>1. Comes(next.c, x.peer, Audience(x.peer), None, {x})  BY <2>5, SentComes
    <3>2. y \notin ref  BY <1>3, <2>1 DEF Of
    <3>3. y.peer \in Audience(x.peer)  BY <2>1, <3>1, <3>2, ComesRefs
    <3> QED  BY <2>1, <2>5, <3>3 DEF SendScheduled, Unhides
  <2> QED  BY <2>2, <2>3, <2>4, <2>5, StepKinds
<1> QED  BY <1>2, <1>3

-----------------------------------------------------------------------------
(* Pinned messages *)

LEMMA PartedGrows == ASSUME [Next]_vars PROVE parted \subseteq parted'
<1>1. CASE \E t \in Tasks : Step(t) \/ Fail(t)
  <2>1. UNCHANGED parted
    BY <1>1, ZenonT(60) DEF Step, Fail, CreateContent, CreateRefs, Unhide, CreatePlan, CountUnread,
                ReadOwn, Save, Redate, DeleteRefs, Purge, HideDialog, SaveRead, Receipt,
                SetPinned, CacheContent, marks
  <2> QED  BY <2>1
<1>2. ASSUME NEW t \in Tasks, NEW u \in Users, Request(t, u) PROVE parted \subseteq parted'
  <2>1. ASSUME NEW x, NEW on, NEW op, StartPin(t, u, x, on, op) PROVE parted \subseteq parted'
    BY <2>1 DEF StartPin
  <2>2. CASE ~\E x \in Of(ref, u), on \in BOOLEAN, op \in {"pin", "silent"} :
                   StartPin(t, u, x, on, op)
    <3>1. UNCHANGED parted
      BY <1>2, <2>2, Zenon DEF Request, StartSend, StartUnpinAll, StartRead, StartDeleteHistory,
                StartForward, StartEdit, StartDelete, StartDeleteScheduled, StartView, marks
    <3> QED  BY <3>1
  <2> QED  BY <2>1, <2>2
<1>3. CASE ~(\E t \in Tasks : Step(t) \/ Fail(t)) /\ ~(\E t \in Tasks, u \in Users : Request(t, u))
  <2>1. CASE Scheduler
    <3>1. UNCHANGED parted
      BY <2>1, Zenon DEF Scheduler, ComesDue, Unstick, Poll, RunJob, LoseJob, Expire, marks
    <3> QED  BY <3>1
  <2>2. CASE ~Scheduler
    <3>1. UNCHANGED parted
      BY <1>3, <2>2, Zenon DEF Next, Block, SendByHand, vars, marks
    <3> QED  BY <3>1
  <2> QED  BY <2>1, <2>2
<1> QED  BY <1>1, <1>2, <1>3

\* Refs that were there, and with SetPinned those of the task's ids changed.
LEMMA RefsAfter ==
    ASSUME RowsInv, [Next]_vars
    PROVE  \/ \A y \in ref' : y \in ref
           \/ \E t \in Tasks :
                 /\ task[t].step = "pin"
                 /\ \A y \in ref' : \E x \in ref :
                       /\ SameRef(y, x)
                       /\ y.pinned = IF x.id \in task[t].ids THEN task[t].yes ELSE x.pinned
           \/ \E c, u, S, rn, G : Comes(c, u, S, rn, G)
<1>1. CASE UNCHANGED <<ref, last, unsynced, late>>  BY <1>1
<1>2. ASSUME NEW t \in Tasks, SetPinned(t)
      PROVE /\ task[t].step = "pin"
            /\ \A y \in ref' : \E x \in ref :
                  /\ SameRef(y, x)
                  /\ y.pinned = IF x.id \in task[t].ids THEN task[t].yes ELSE x.pinned
  <2> DEFINE I == task[t].ids
             b == task[t].yes
  <2>1. /\ ref' = (ref \ {x \in ref : x.id \in I})
                  \cup {[x EXCEPT !.pinned = b] : x \in {x \in ref : x.id \in I}}
        /\ UNCHANGED <<content, next, plan>> /\ b \in BOOLEAN /\ task[t].step = "pin"
    BY <1>2, TaskFacts DEF SetPinned, At, TaskStates
  <2> HIDE DEF I, b
  <2>2. \A y \in ref' : \E x \in ref :
            SameRef(y, x) /\ y.pinned = IF x.id \in I THEN b ELSE x.pinned
    BY <2>1, PinsInPlace, ZenonT(60)
  <2> QED  BY <2>1, <2>2 DEF I, b
<1>3. ASSUME NEW C, DeletesContents(C) PROVE \A y \in ref' : y \in ref
  BY <1>3 DEF DeletesContents
<1>4. ASSUME NEW t \in Tasks, DeleteRefs(t) PROVE \A y \in ref' : y \in ref
  BY <1>4 DEF DeleteRefs
<1> QED  BY <1>1, <1>2, <1>3, <1>4, RefsChange

\* What a task sets or clears are both copies of a message.
LEMMA TogetherStays ==
    ASSUME RowsInv, [Next]_vars, NEW k \in TaskStates, PinsTogether(k),
           k.step = "pin" => \A i \in k.ids : Given(i, next)
    PROVE  k.step = "pin" => \A x, y \in ref' : x.c = y.c /\ x.c \notin parted'
                                  => (x.id \in k.ids <=> y.id \in k.ids)
<1> SUFFICES ASSUME k.step = "pin", NEW x \in ref', NEW y \in ref', x.c = y.c, x.c \notin parted'
             PROVE x.id \in k.ids <=> y.id \in k.ids
  OBVIOUS
<1>1. x.c \notin parted  BY PartedGrows
<1>2. ASSUME NEW v \in ref, NEW w \in ref, x.id = v.id, x.c = v.c, y.id = w.id, y.c = w.c
      PROVE x.id \in k.ids <=> y.id \in k.ids
  BY <1>1, <1>2 DEF PinsTogether
<1>3. CASE \A z \in ref' : z \in ref  BY <1>2, <1>3
<1>4. CASE \A z \in ref' : \E v \in ref : SameRef(z, v)  BY <1>2, <1>4 DEF SameRef
<1>5. ASSUME NEW c, NEW u, NEW S, NEW rn, NEW G, Comes(c, u, S, rn, G)
      PROVE x.id \in k.ids <=> y.id \in k.ids
  <2>1. /\ ref' = (ref \ G) \cup NewRefs(c, u, S, rn)
        /\ \A z \in NewRefs(c, u, S, rn) : z.c = c /\ next.r <= z.id
    BY <1>5, ComesRefs
  <2>2. \A z \in ref : z.c # c  BY <1>5 DEF Comes
  <2>3. CASE x \in ref /\ y \in ref  BY <1>2, <2>3
  <2>4. CASE x \notin ref \/ y \notin ref
    <3>1. x \notin ref /\ y \notin ref  BY <2>1, <2>2, <2>4
    <3>2. next.r <= x.id /\ next.r <= y.id  BY <2>1, <3>1
    <3>3. next.r \in Nat /\ \A i \in k.ids : i \in Nat /\ i < next.r
      BY PendingRows DEF Given
    <3> QED  BY <3>2, <3>3
  <2> QED  BY <2>3, <2>4
<1> QED  BY <1>3, <1>4, <1>5, RefsAfter

\* New refs are not pinned.
LEMMA NewPins ==
    ASSUME NEW c, NEW u, NEW S, NEW rn, NEW y \in NewRefs(c, u, S, rn),
           NEW z \in NewRefs(c, u, S, rn)
    PROVE  y.pinned = z.pinned
<1> DEFINE not == FALSE
           Ref(p, i, n) == [id |-> i, peer |-> p, c |-> c, rnd |-> n, pinned |-> not]
<1>1. \A w \in NewRefs(c, u, S, rn) : \E p, i, n : w = Ref(p, i, n)
  BY DEF NewRefs
<1> HIDE DEF not
<1>2. \A w \in NewRefs(c, u, S, rn) : w.pinned = not  BY <1>1
<1> QED  BY <1>2

LEMMA PinsStep == ASSUME RowsInv, PinsInv, [Next]_vars PROVE PinsInv'
<1>0. parted \subseteq parted'  BY PartedGrows
<1>1. ASSUME NEW x \in ref', NEW y \in ref', x.c = y.c, x.c \notin parted'
      PROVE x.pinned = y.pinned
  <2>1. CASE \A z \in ref' : z \in ref  BY <1>0, <1>1, <2>1 DEF PinsInv
  <2>2. ASSUME NEW t \in Tasks, task[t].step = "pin",
               \A z \in ref' : \E v \in ref :
                     /\ SameRef(z, v)
                     /\ z.pinned = IF v.id \in task[t].ids THEN task[t].yes ELSE v.pinned
        PROVE x.pinned = y.pinned
    <3>1. PICK v \in ref : SameRef(x, v)
               /\ x.pinned = IF v.id \in task[t].ids THEN task[t].yes ELSE v.pinned
      BY <2>2
    <3>2. PICK w \in ref : SameRef(y, w)
               /\ y.pinned = IF w.id \in task[t].ids THEN task[t].yes ELSE w.pinned
      BY <2>2
    <3>3. v.c = w.c /\ v.c \notin parted  BY <1>0, <1>1, <3>1, <3>2 DEF SameRef
    <3>4. v.pinned = w.pinned  BY <3>3 DEF PinsInv
    <3>5. v.id \in task[t].ids <=> w.id \in task[t].ids
      BY <2>2, <3>3 DEF PinsInv, PinsTogether
    <3> QED  BY <3>1, <3>2, <3>4, <3>5
  <2>3. ASSUME NEW c, NEW u, NEW S, NEW rn, NEW G, Comes(c, u, S, rn, G)
        PROVE x.pinned = y.pinned
    <3>1. /\ ref' = (ref \ G) \cup NewRefs(c, u, S, rn)
          /\ \A z \in NewRefs(c, u, S, rn) : z.c = c
      BY <2>3, ComesRefs
    <3>2. \A z \in ref : z.c # c  BY <2>3 DEF Comes
    <3>3. CASE x \in ref /\ y \in ref  BY <1>0, <1>1, <3>3 DEF PinsInv
    <3>4. CASE x \notin ref \/ y \notin ref
      <4>1. x \in NewRefs(c, u, S, rn) /\ y \in NewRefs(c, u, S, rn)
        BY <1>1, <3>1, <3>2, <3>4
      <4> QED  BY <4>1, NewPins
    <3> QED  BY <3>3, <3>4
  <2> QED  BY <2>1, <2>2, <2>3, RefsAfter
<1>2. ASSUME NEW s \in Tasks, task'[s].step = "pin"
      PROVE \A x, y \in ref' : x.c = y.c /\ x.c \notin parted'
                 => (x.id \in task'[s].ids <=> y.id \in task'[s].ids)
  <2>0. SetOrKept(s) /\ task[s] \in TaskStates /\ Holds(task[s], content, ref, next, Pending)
    BY TasksMove, TaskFacts
  <2>1. CASE task'[s] = task[s] \/ task'[s] = Over(task[s])
    <3>1. task'[s].step = task[s].step /\ task'[s].ids = task[s].ids  BY <2>0, <2>1, SameFields
    <3>2. task[s].step = "pin" => \A i \in task[s].ids : Given(i, next)  BY <2>0 DEF Holds
    <3>3. PinsTogether(task[s])  BY DEF PinsInv
    <3> QED  BY <1>2, <2>0, <3>1, <3>2, <3>3, TogetherStays
  <2>2. ASSUME NEW u \in Users, NEW x \in ref, NEW on \in BOOLEAN, NEW op \in {"pin", "silent"},
               StartPin(s, u, x, on, op)
        PROVE \A y, z \in ref' : y.c = z.c /\ y.c \notin parted'
                 => (y.id \in task'[s].ids <=> z.id \in task'[s].ids)
    <3> DEFINE I == Ids({y \in Copies(ref, x.c) : y.peer \in Audience(u)})
               i == x.id
               r == [IdleTask EXCEPT !.step = "pin", !.op = op, !.u = u, !.ref = i, !.yes = on,
                                     !.ids = I]
    <3>1. /\ Set(s, r) /\ ref' = ref
          /\ parted' = IF \E y \in Copies(ref, x.c) : y.peer \notin Audience(u)
                       THEN parted \cup {x.c} ELSE parted
      BY <2>2 DEF StartPin, Begins, BeginsMany, rows
    <3>2. \A y \in ref : y.id \in I <=> y.c = x.c /\ y.peer \in Audience(u)
      BY DEF Ids, Copies, RowsInv, RefsRight
    <3> HIDE DEF I, i
    <3>3. r.ids = I  BY DEF IdleTask
    <3>4. task'[s] = r  BY <3>1, TaskFacts, SetKeepsOthers
    <3> HIDE DEF r
    <3>5. ASSUME NEW y \in ref, x.c \notin parted', y.c = x.c PROVE y.peer \in Audience(u)
      BY <3>1, <3>5 DEF Copies
    <3> QED  BY <3>1, <3>2, <3>3, <3>4, <3>5
  <2>3. ASSUME NEW u \in Users, StartUnpinAll(s, u)
        PROVE \A y, z \in ref' : y.c = z.c /\ y.c \notin parted'
                 => (y.id \in task'[s].ids <=> z.id \in task'[s].ids)
    <3> DEFINE I == Ids(AllPinned(u))
               r == [IdleTask EXCEPT !.step = "pin", !.op = "silent", !.u = u, !.ids = I]
    <3>1. Set(s, r) /\ ref' = ref  BY <2>3 DEF StartUnpinAll, Begins, BeginsMany, rows
    <3>2. \A y \in ref : y.id \in I <=> y \in AllPinned(u)
      BY DEF Ids, AllPinned, RowsInv, RefsRight
    <3> HIDE DEF I
    <3>3. r.ids = I  BY DEF IdleTask
    <3>4. task'[s] = r  BY <3>1, TaskFacts, SetKeepsOthers
    <3> HIDE DEF r
    <3>5. ASSUME NEW y \in ref, NEW z \in ref, y.c = z.c, y.c \notin parted
          PROVE y \in AllPinned(u) <=> z \in AllPinned(u)
      <4>1. y.pinned = z.pinned  BY <3>5 DEF PinsInv
      <4> QED  BY <3>5, <4>1 DEF AllPinned, Kind
    <3> QED  BY <1>0, <3>1, <3>2, <3>3, <3>4, <3>5
  <2>4. CASE task'[s].step \in Quiet  BY <1>2, <2>4 DEF Quiet
  <2>5. CASE \/ CreateRefs(s) \/ Unhide(s) \/ CountUnread(s) \/ SaveRead(s)
             \/ \E u \in Users : \E m \in Ids(Of(ref, u)) : StartRead(s, u, m)
    BY <1>2, <2>5, MoveSteps
  <2>6. ASSUME NEW x \in ref, StartView(s, x) PROVE FALSE  BY <1>2, <2>6, ViewStep
  <2> QED  BY <2>0, <2>1, <2>2, <2>3, <2>4, <2>5, <2>6 DEF SetOrKept, Moves
<1> QED  BY <1>1, <1>2 DEF PinsInv, PinsTogether

LEMMA DialogHolds == Spec => [](LastMessageIsLast /\ MessagesAreShown /\ PinsInv)
<1> DEFINE DialogInv == LastMessageIsLast /\ MessagesAreShown /\ PinsInv
<1>1. Init => DialogInv
  <2> SUFFICES ASSUME Init PROVE DialogInv  OBVIOUS
  <2>1. ref = {} /\ \A t \in Tasks : task[t].step = "idle"  BY IdleFields DEF Init
  <2> QED
    BY <2>1 DEF LastMessageIsLast, MessagesAreShown, PinsInv, PinsTogether, Of
<1>2. DialogInv /\ RowsInv /\ [Next]_vars => DialogInv'  BY LastStep, ShownStep, PinsStep
<1> QED  BY <1>1, <1>2, RowsHold, PTL DEF Spec

\* The dialog agrees with its messages (sync_last_message_bulk,
\* create_or_unhide_bulk, update_pinned_message): its last message is the last
\* one, a dialog with messages is shown or about to be, and both copies of a
\* message are pinned or neither, but for what the marks of Messages except.
THEOREM DialogsRight == Spec => []DialogsAreCurrent
<1>1. LastMessageIsLast /\ MessagesAreShown /\ PinsInv => DialogsAreCurrent
  BY DEF DialogsAreCurrent, PinsInv, PinsAgree
<1> QED  BY <1>1, DialogHolds, PTL

-----------------------------------------------------------------------------
(* What has been read *)

LEMMA IsOver == ASSUME NEW k \in TaskStates PROVE Over(k).over
BY OverFields, Zenon

LEMMA ReadsChange ==
    ASSUME RowsInv, [Next]_vars
    PROVE  \/ UNCHANGED reads
           \/ \E t \in Tasks : CountUnread(t) \/ ReadOwn(t) \/ SaveRead(t) \/ Receipt(t)
           \/ \E t \in Tasks, u \in Users : \E m : StartRead(t, u, m)
<1>1. ASSUME NEW t \in Tasks,
             \/ CreateContent(t) \/ CreateRefs(t) \/ Unhide(t) \/ CreatePlan(t) \/ Save(t)
             \/ Redate(t) \/ DeleteRefs(t) \/ Purge(t) \/ HideDialog(t) \/ SetPinned(t)
             \/ CacheContent(t) \/ Fail(t)
      PROVE UNCHANGED reads
  BY <1>1, Zenon DEF CreateContent, CreateRefs, Unhide, CreatePlan, Save, Redate, DeleteRefs, Purge,
              HideDialog, SetPinned, CacheContent, Fail
<1>2. CASE \E t \in Tasks : Step(t) \/ Fail(t)  BY <1>1, <1>2, Zenon DEF Step
<1>3. ASSUME NEW t \in Tasks, NEW u \in Users, Request(t, u), ~\E m : StartRead(t, u, m)
      PROVE UNCHANGED reads
  BY <1>3, Zenon DEF Request, StartSend, StartUnpinAll, StartPin, StartDeleteHistory,
              StartForward, StartEdit, StartDelete, StartDeleteScheduled, StartView
<1>4. CASE Scheduler
  BY <1>4, Zenon DEF Scheduler, ComesDue, Unstick, Poll, RunJob, LoseJob, Expire
<1>5. CASE \/ \E u \in Users : Block(u)
           \/ \E u \in Users : \E x \in Of(ref, u) : SendByHand(u, x)
           \/ UNCHANGED vars
  BY <1>5, Zenon DEF Block, SendByHand, vars
<1> QED  BY <1>2, <1>3, <1>4, <1>5, Zenon DEF Next

\* The marks that are only raised to 0.
LEMMA MarkStarts ==
    ASSUME RowsInv, NEW u \in Users, readIn' = [readIn EXCEPT ![u] = Max({@, 0})]
    PROVE  \A v \in Users : /\ readIn' [v] \in {readIn[v], 0} /\ readIn[v] <= readIn'[v]
                            /\ readIn'[v] \in Int
<1>1. readIn \in [Users -> Int]  BY DEF RowsInv, StateRight
<1>2. readIn[u] \in Int /\ 0 \in Int  BY <1>1
<1>3. /\ Max({readIn[u], 0}) \in {readIn[u], 0} /\ readIn[u] <= Max({readIn[u], 0})
  BY <1>2, MaxOfTwo
<1> QED  BY <1>1, <1>3

LEMMA SeenGrows ==
    ASSUME RowsInv, [Next]_vars
    PROVE  \A u \in Users : seen[u] \in Nat /\ seen'[u] \in Nat /\ seen[u] <= seen'[u]
<1>0. seen \in [Users -> Nat]  BY DEF RowsInv, StateRight
<1>1. CASE UNCHANGED seen  BY <1>0, <1>1
<1>2. ASSUME NEW t \in Tasks, SaveRead(t)
      PROVE \A u \in Users : seen[u] \in Nat /\ seen'[u] \in Nat /\ seen[u] <= seen'[u]
  <2> DEFINE v == task[t].u
             i == task[t].ref
  <2>1. /\ v \in Users /\ i \in Nat /\ seen' = [seen EXCEPT ![v] = Max({@, i})]
    BY <1>2, TaskFacts DEF SaveRead, At, Holds, Given
  <2> HIDE DEF v, i
  <2>2. seen[v] \in Nat /\ seen[v] \in Int /\ i \in Int  BY <1>0, <2>1
  <2>3. Max({seen[v], i}) \in {seen[v], i} /\ seen[v] <= Max({seen[v], i})
    BY <2>2, MaxOfTwo
  <2> QED  BY <1>0, <2>1, <2>2, <2>3
<1> QED
  BY <1>1, <1>2, ReadsChange, Zenon DEF reads, CountUnread, ReadOwn, Receipt, StartRead

\* A ref was there, or its id is new.
LEMMA AuthorsStay ==
    ASSUME RowsInv, RowsInv', [Next]_vars, NEW y \in ref', NEW x \in ref, y.c = x.c
    PROVE  content'[y.c].author = content[x.c].author
<1>1. y.c \in DOMAIN content' /\ x.c \in DOMAIN content  BY DEF RowsInv, RefsRight
<1>2. CASE RowsFewer  BY <1>1, <1>2 DEF RowsFewer, SameRow
<1>3. CASE \E t \in Tasks : CreateContent(t)  BY <1>1, <1>3, ContentsStay
<1>4. CASE \E t \in Tasks : CreateRefs(t)  BY <1>4 DEF CreateRefs
<1>5. ASSUME NEW v \in ref, NEW C, SendScheduled(v, C)
      PROVE content'[y.c].author = content[x.c].author
  <2>1. /\ DOMAIN content' = (DOMAIN content \ C) \cup {next.c} /\ next.c \notin DOMAIN content
        /\ \A d \in DOMAIN content \ C : content'[d] = content[d]
    BY <1>5, CloneAdded DEF SendScheduled
  <2> QED  BY <1>1, <2>1
<1> QED  BY <1>2, <1>3, <1>4, <1>5, StepKinds

LEMMA RefsBefore ==
    ASSUME RowsInv, RowsInv', [Next]_vars, NEW y \in ref'
    PROVE  \/ next.r <= y.id
           \/ \E x \in ref : SameRef(y, x) /\ content'[y.c].author = content[x.c].author
<1>1. CASE \A z \in ref' : z \in ref  BY <1>1, AuthorsStay DEF SameRef
<1>2. CASE \A z \in ref' : \E x \in ref : SameRef(z, x)  BY <1>2, AuthorsStay DEF SameRef
<1>3. ASSUME NEW c, NEW u, NEW S, NEW rn, NEW G, Comes(c, u, S, rn, G)
      PROVE next.r <= y.id \/ y \in ref
  BY <1>3, ComesRefs
<1> QED  BY <1>1, <1>2, <1>3, RefsAfter, AuthorsStay DEF SameRef

\* Contents turn late, and the newest moves, only when refs come.
LEMMA LateChange ==
    ASSUME RowsInv, RowsInv', [Next]_vars
    PROVE  /\ next.top \in Nat /\ next'.top \in Nat /\ next.top <= next'.top
           /\ \/ UNCHANGED late
              \/ \E c, u, S, rn, G : Comes(c, u, S, rn, G)
<1>1. next.top \in Nat /\ next'.top \in Nat  BY DEF RowsInv, NextRight
<1>2. UNCHANGED late \/ \E c, u, S, rn, G : Comes(c, u, S, rn, G)
  BY RefsChange, Zenon DEF SetPinned, DeleteRefs, marks
<1>3. next.top <= next'.top
  <2>1. CASE RowsFewer  BY <1>1, <2>1 DEF RowsFewer
  <2>2. CASE \E t \in Tasks : CreateContent(t)
    <3>1. next = [c |-> next.c, r |-> next.r, top |-> next.top]  BY DEF RowsInv, NextRight
    <3>2. next'.top = next.top  BY <2>2, <3>1 DEF CreateContent
    <3> QED  BY <1>1, <3>2
  <2>3. ASSUME NEW t \in Tasks, CreateRefs(t) PROVE next.top <= next'.top
    <3>1. next.top \in Nat /\ task[t].c \in Nat /\ next = [c |-> next.c, r |-> next.r, top |-> next.top]
      BY <1>1, TaskFacts DEF TaskStates, RowsInv, NextRight
    <3>2. CASE UNCHANGED next  BY <1>1, <3>2
    <3>3. CASE ~UNCHANGED next
      <4>1. next' = [next EXCEPT !.r = @ + 2, !.top = Max({@, task[t].c})]
        BY <2>3, <3>3 DEF CreateRefs
      <4>2. next'.top = Max({next.top, task[t].c})  BY <3>1, <4>1
      <4> QED  BY <3>1, <4>2, MaxOfTwo
    <3> QED  BY <3>2, <3>3
  <2>4. ASSUME NEW x \in ref, NEW C, SendScheduled(x, C) PROVE next.top <= next'.top
    BY <2>4, SentComes DEF Comes
  <2> QED  BY <2>1, <2>2, <2>3, <2>4, StepKinds
<1> QED  BY <1>1, <1>2, <1>3

LEMMA OrderStep == ASSUME RowsInv, RowsInv', ReadsInv, [Next]_vars PROVE InOrder'
<1> SUFFICES ASSUME NEW x \in ref', NEW y \in ref', x.c < y.c, x.c \notin late'
             PROVE x.id < y.id
  BY DEF InOrder
<1>1. ASSUME NEW v \in ref, NEW w \in ref, SameRef(x, v), SameRef(y, w), UNCHANGED late
      PROVE x.id < y.id
  BY <1>1 DEF SameRef, ReadsInv, InOrder
<1>2. ASSUME NEW c, NEW u, NEW S, NEW rn, NEW G, Comes(c, u, S, rn, G)
      PROVE x.id < y.id
  <2>1. /\ ref' = (ref \ G) \cup NewRefs(c, u, S, rn)
        /\ \A z \in NewRefs(c, u, S, rn) : z.c = c /\ next.r <= z.id
    BY <1>2, ComesRefs
  <2>2. c \in Nat /\ late' = IF c < next.top THEN late \cup {c} ELSE late
    BY <1>2 DEF Comes, Inserts
  <2>3. \A z \in ref : z.id \in Nat /\ z.id < next.r /\ z.c \in Nat /\ z.c <= next.top
    BY RefFacts DEF RowsInv, RefsRight, Given
  <2>4. next.r \in Nat /\ next.top \in Nat  BY PendingRows
  <2>5. y.id \in Nat  BY DEF RowsInv, RefsRight, Given
  <2>6. CASE x \in ref /\ y \in ref  BY <2>2, <2>6 DEF ReadsInv, InOrder
  <2>7. CASE x \in ref /\ y \notin ref  BY <2>1, <2>3, <2>4, <2>5, <2>7
  <2>8. CASE x \notin ref
    <3>1. x.c = c  BY <2>1, <2>8
    <3>2. y \in ref  BY <2>1, <2>2, <3>1
    <3>3. c < next.top  BY <2>2, <2>3, <2>4, <3>1, <3>2
    <3> QED  BY <2>2, <3>1, <3>3
  <2> QED  BY <2>6, <2>7, <2>8
<1>3. CASE UNCHANGED late /\ ~\E c, u, S, rn, G : Comes(c, u, S, rn, G)
  <2>1. \A z \in ref' : \E v \in ref : SameRef(z, v)  BY <1>3, RefsAfter DEF SameRef
  <2> QED  BY <1>1, <1>3, <2>1
<1> QED  BY <1>2, <1>3, LateChange

\* What no step raises above the new ids, and what is no late content.
LEMMA MarksStep ==
    ASSUME RowsInv, RowsInv', ReadsInv, [Next]_vars
    PROVE  /\ \A u \in Users : readIn'[u] < next'.r /\ outMax'[u] < next'.r
           /\ late' \subseteq Nat
<1>0. /\ readIn \in [Users -> Int] /\ outMax \in [Users -> Nat] /\ outMax' \in [Users -> Nat]
      /\ readIn' \in [Users -> Int]
      /\ next.r \in Nat /\ next'.r \in Nat /\ next.r <= next'.r /\ 1 <= next.r
  BY NewIds, PendingRows DEF RowsInv, StateRight
<1>1. late' \subseteq Nat
  <2>1. ASSUME NEW c, NEW u, NEW S, NEW rn, NEW G, Comes(c, u, S, rn, G) PROVE late' \subseteq Nat
    BY <2>1 DEF Comes, Inserts, ReadsInv
  <2> QED  BY <2>1, LateChange DEF ReadsInv
<1>2. \A u \in Users : readIn[u] < next.r /\ outMax[u] < next.r  BY DEF ReadsInv
<1>3. CASE UNCHANGED reads
  <2>1. readIn' = readIn /\ outMax' = outMax  BY <1>3 DEF reads
  <2> QED  BY <1>0, <1>1, <1>2, <2>1
<1>4. ASSUME NEW v \in Users, readIn' = [readIn EXCEPT ![v] = Max({@, 0})], UNCHANGED outMax
      PROVE \A u \in Users : readIn'[u] < next'.r /\ outMax'[u] < next'.r
  <2>1. \A u \in Users : readIn'[u] \in {readIn[u], 0}  BY <1>4, MarkStarts
  <2>2. ASSUME NEW u \in Users PROVE readIn'[u] < next'.r
    <3>1. readIn[u] \in Int /\ readIn[u] < next.r  BY <1>0, <1>2
    <3>2. readIn'[u] = readIn[u] \/ readIn'[u] = 0  BY <2>1
    <3> QED  BY <1>0, <3>1, <3>2
  <2> QED  BY <1>0, <1>2, <1>4, <2>2
<1>5. CASE \E t \in Tasks, u \in Users : \E m : StartRead(t, u, m)
  BY <1>1, <1>4, <1>5 DEF StartRead
<1>6. ASSUME NEW t \in Tasks, CountUnread(t)
      PROVE \A u \in Users : readIn'[u] < next'.r /\ outMax'[u] < next'.r
  <2>1. task[t].u \in Users  BY <1>6, TaskFacts DEF CountUnread, At, Holds
  <2> QED  BY <1>4, <1>6, <2>1 DEF CountUnread
<1>7. ASSUME NEW t \in Tasks, ReadOwn(t) \/ SaveRead(t)
      PROVE \A u \in Users : readIn'[u] < next'.r /\ outMax'[u] < next'.r
  <2>1. /\ readIn' = [readIn EXCEPT ![task[t].u] = task[t].ref] /\ outMax' = outMax
        /\ Given(task[t].ref, next)
    BY <1>7, TaskFacts DEF ReadOwn, SaveRead, Reads, At, Holds
  <2>2. task[t].ref \in Nat /\ task[t].ref < next.r  BY <2>1 DEF Given
  <2>3. ASSUME NEW u \in Users PROVE readIn'[u] < next'.r
    <3>1. readIn'[u] = task[t].ref \/ readIn'[u] = readIn[u]  BY <1>0, <2>1
    <3> QED  BY <1>0, <1>2, <2>2, <3>1
  <2> QED  BY <1>0, <1>2, <2>1, <2>3
<1>8. ASSUME NEW t \in Tasks, Receipt(t)
      PROVE \A u \in Users : readIn'[u] < next'.r /\ outMax'[u] < next'.r
  <2> DEFINE v == Other(task[t].u)
             I == Ids(ReadCopies(v, task[t].c))
  <2>1. /\ \/ outMax' = [outMax EXCEPT ![v] = @]
           \/ I # {} /\ outMax' = [outMax EXCEPT ![v] = Max(I)]
        /\ readIn' = readIn
    BY <1>8 DEF Receipt, Ids
  <2>2. \A i \in I : i \in Nat /\ i < next.r
    BY RefFacts DEF Ids, ReadCopies, Of, Given
  <2> HIDE DEF I, v
  <2>3. I # {} => Max(I) \in I  BY <1>0, <2>2, LargestId
  <2>4. ASSUME NEW u \in Users PROVE outMax'[u] < next'.r
    <3>1. outMax'[u] = outMax[u] \/ (outMax'[u] \in I /\ outMax'[u] \in Nat)
      BY <1>0, <2>1, <2>2, <2>3
    <3> QED  BY <1>0, <1>2, <2>2, <3>1
  <2> QED  BY <1>0, <1>2, <2>1, <2>4
<1> QED  BY <1>1, <1>3, <1>5, <1>6, <1>7, <1>8, ReadsChange

LEMMA SeenStep == ASSUME RowsInv, RowsInv', ReadsInv, [Next]_vars PROVE OnlySeenIsRead'
<1> SUFFICES ASSUME NEW y \in ref', content'[y.c].author # y.peer, y.id <= readIn'[y.peer]
             PROVE y.id <= seen'[y.peer]
  BY DEF OnlySeenIsRead
<1>0. /\ readIn \in [Users -> Int] /\ readIn' \in [Users -> Int]
      /\ y.peer \in Users /\ y.id \in Nat /\ 1 <= y.id /\ next.r \in Nat
  BY NewIds DEF RowsInv, StateRight, RefsRight, Refs, Given
<1>1. ASSUME readIn'[y.peer] <= readIn[y.peer] PROVE y.id <= seen'[y.peer]
  <2>1. readIn[y.peer] < next.r  BY <1>0 DEF ReadsInv
  <2>2. ~(next.r <= y.id)  BY <1>0, <1>1, <2>1
  <2>3. PICK x \in ref : SameRef(y, x) /\ content'[y.c].author = content[x.c].author
    BY <2>2, RefsBefore
  <2>4. x.id <= readIn[x.peer]  BY <1>0, <1>1, <2>3 DEF SameRef
  <2>5. x.id <= seen[x.peer]  BY <2>3, <2>4 DEF SameRef, ReadsInv, OnlySeenIsRead
  <2> QED  BY <1>0, <2>3, <2>5, SeenGrows DEF SameRef
<1>2. CASE UNCHANGED reads
  <2>1. readIn' = readIn  BY <1>2 DEF reads
  <2> QED  BY <1>0, <1>1, <2>1
<1>3. ASSUME NEW v \in Users, readIn' = [readIn EXCEPT ![v] = Max({@, 0})]
      PROVE y.id <= seen'[y.peer]
  <2>1. readIn'[y.peer] \in {readIn[y.peer], 0}  BY <1>0, <1>3, MarkStarts
  <2>2. readIn'[y.peer] = readIn[y.peer]  BY <1>0, <2>1
  <2> QED  BY <1>0, <1>1, <2>2
<1>4. CASE \E t \in Tasks, u \in Users : \E m : StartRead(t, u, m)
  BY <1>3, <1>4 DEF StartRead
<1>5. ASSUME NEW t \in Tasks, CountUnread(t) PROVE y.id <= seen'[y.peer]
  <2>1. task[t].u \in Users  BY <1>5, TaskFacts DEF CountUnread, At, Holds
  <2> QED  BY <1>3, <1>5, <2>1 DEF CountUnread
<1>6. ASSUME NEW t \in Tasks, ReadOwn(t) PROVE y.id <= seen'[y.peer]
  <2>1. /\ readIn' = [readIn EXCEPT ![task[t].u] = task[t].ref] /\ task[t].step = "own"
        /\ UNCHANGED <<content, ref, seen>>
    BY <1>6 DEF ReadOwn, Reads, At, rows
  <2>2. CASE y.peer # task[t].u
    <3>1. readIn'[y.peer] = readIn[y.peer]  BY <1>0, <2>1, <2>2
    <3> QED  BY <1>0, <1>1, <3>1
  <2>3. CASE y.peer = task[t].u
    <3>1. readIn'[y.peer] = task[t].ref  BY <1>0, <2>1, <2>3
    <3>2. OwnRight(task[t], ref, content, seen)  BY DEF ReadsInv
    <3> QED  BY <2>1, <2>3, <3>1, <3>2 DEF OwnRight
  <2> QED  BY <2>2, <2>3
<1>7. ASSUME NEW t \in Tasks, SaveRead(t) PROVE y.id <= seen'[y.peer]
  <2> DEFINE u == task[t].u
             i == task[t].ref
  <2>1. /\ readIn' = [readIn EXCEPT ![u] = i] /\ u \in Users /\ i \in Nat
        /\ seen' = [seen EXCEPT ![u] = Max({@, i})] /\ seen \in [Users -> Nat]
    BY <1>7, TaskFacts DEF SaveRead, Reads, At, Holds, Given, RowsInv, StateRight
  <2> HIDE DEF u, i
  <2>2. CASE y.peer # u
    <3>1. readIn'[y.peer] = readIn[y.peer]  BY <1>0, <2>1, <2>2
    <3> QED  BY <1>0, <1>1, <3>1
  <2>3. CASE y.peer = u
    <3>1. readIn'[y.peer] = i /\ seen'[y.peer] = Max({seen[u], i})  BY <1>0, <2>1, <2>3
    <3>2. seen[u] \in Int /\ i \in Int /\ seen[u] \in Nat  BY <2>1
    <3>3. i <= Max({seen[u], i}) /\ Max({seen[u], i}) \in {seen[u], i}  BY <3>2, MaxOfTwo
    <3> QED  BY <1>0, <2>1, <3>1, <3>2, <3>3
  <2> QED  BY <2>2, <2>3
<1>8. ASSUME NEW t \in Tasks, Receipt(t) PROVE y.id <= seen'[y.peer]
  <2>1. readIn' = readIn  BY <1>8 DEF Receipt
  <2> QED  BY <1>0, <1>1, <2>1
<1> QED  BY <1>2, <1>4, <1>5, <1>6, <1>7, <1>8, ReadsChange

\* What a reader has marked covers the author's copies that are reported.
LEMMA ReceiptCovers ==
    ASSUME RowsInv, ReadsInv, NEW t \in Tasks, task[t].step = "receipt",
           NEW x \in ref, NEW y \in ref, x.c = y.c, x.peer = Other(task[t].u),
           y.peer # x.peer, \A d \in late : d > x.c,
           NEW z \in ref, z.peer = x.peer, z.c <= task[t].c, x.id <= z.id
    PROVE  y.id <= seen[y.peer]
<1> DEFINE k == task[t]
<1>1. /\ x.c \in Nat /\ z.c \in Nat /\ x.id \in Nat /\ z.id \in Nat /\ y.id \in Nat
      /\ y.peer \in Users /\ x.peer \in Users
  BY RefFacts
<1>2. k.u \in Users /\ k.c \in Nat /\ k.ref \in Nat
  BY TaskFacts DEF Holds, Given, TaskStates
<1>3. /\ k.ref <= seen[k.u]
      /\ \A v \in ref : v.peer = k.u /\ v.c <= k.c /\ v.c \notin late => v.id <= k.ref
  BY DEF ReadsInv, MarkRight
<1>4. x.c <= z.c
  <2> SUFFICES ASSUME z.c < x.c PROVE FALSE  BY <1>1
  <2>1. z.c \notin late  BY <1>1
  <2>2. z.id < x.id  BY <2>1 DEF ReadsInv, InOrder
  <2> QED  BY <1>1, <2>2
<1>5. y.c <= k.c /\ y.c \notin late  BY <1>1, <1>2, <1>4
<1>6. y.peer = k.u
  <2>1. x.peer # k.u /\ \A v \in Users : v # k.u => v = x.peer  BY <1>2, OtherUser
  <2> QED  BY <1>1, <2>1
<1>7. y.id <= k.ref  BY <1>3, <1>5, <1>6
<1>8. seen[k.u] \in Nat  BY <1>2 DEF RowsInv, StateRight
<1> QED  BY <1>1, <1>2, <1>3, <1>6, <1>7, <1>8

LEMMA ReceiptsStep == ASSUME RowsInv, RowsInv', ReadsInv, [Next]_vars PROVE ReceiptsAreTrue'
<1> SUFFICES ASSUME NEW x \in ref', NEW y \in ref', x.c = y.c, x.peer = content'[x.c].author,
                    y.peer # x.peer, x.id <= outMax'[x.peer], \A d \in late' : d > x.c
             PROVE y.id <= seen'[y.peer]
  BY DEF ReceiptsAreTrue
<1>0. /\ outMax \in [Users -> Nat] /\ outMax' \in [Users -> Nat] /\ next.r \in Nat
      /\ x.peer \in Users /\ y.peer \in Users /\ x.id \in Nat /\ y.id \in Nat
  BY NewIds DEF RowsInv, StateRight, RefsRight, Refs
<1>1. late \subseteq late'
  <2>1. ASSUME NEW c, NEW u, NEW S, NEW rn, NEW G, Comes(c, u, S, rn, G) PROVE late \subseteq late'
    BY <2>1 DEF Comes, Inserts
  <2> QED  BY <2>1, LateChange
<1>2. ASSUME outMax'[x.peer] = outMax[x.peer] PROVE y.id <= seen'[y.peer]
  <2>1. ~(next.r <= x.id)  BY <1>0, <1>2 DEF ReadsInv
  <2>2. PICK v \in ref : SameRef(x, v) /\ content'[x.c].author = content[v.c].author
    BY <2>1, RefsBefore
  <2>3. \E w \in ref : SameRef(y, w)
    <3>1. CASE \A z \in ref' : z \in ref  BY <3>1 DEF SameRef
    <3>2. ASSUME NEW c, NEW u, NEW S, NEW rn, NEW G, Comes(c, u, S, rn, G) PROVE y \in ref
      <4>1. x.c # c  BY <2>2, <3>2 DEF SameRef, Comes
      <4> QED  BY <3>2, <4>1, ComesRefs
    <3> QED  BY <3>1, <3>2, RefsAfter DEF SameRef
  <2>4. PICK w \in ref : SameRef(y, w)  BY <2>3
  <2>5. w.id <= seen[w.peer]
    <3>1. /\ v.c = w.c /\ v.peer = content[v.c].author /\ w.peer # v.peer
          /\ v.id <= outMax[v.peer] /\ \A d \in late : d > v.c
      BY <1>1, <1>2, <2>2, <2>4 DEF SameRef
    <3> QED  BY <3>1 DEF ReadsInv, ReceiptsAreTrue
  <2> QED  BY <1>0, <2>4, <2>5, SeenGrows DEF SameRef
<1>3. CASE UNCHANGED outMax  BY <1>2, <1>3
<1>4. ASSUME NEW t \in Tasks, Receipt(t) PROVE y.id <= seen'[y.peer]
  <2> DEFINE v == Other(task[t].u)
             I == Ids(ReadCopies(v, task[t].c))
  <2>1. /\ \/ outMax' = [outMax EXCEPT ![v] = @]
           \/ I # {} /\ outMax' = [outMax EXCEPT ![v] = Max(I)]
        /\ UNCHANGED <<ref, content, seen, late>> /\ task[t].step = "receipt"
    BY <1>4 DEF Receipt, Ids, At, rows, marks
  <2>2. CASE outMax'[x.peer] = outMax[x.peer]  BY <1>2, <2>2
  <2>3. CASE outMax'[x.peer] # outMax[x.peer]
    <3>1. \A i \in I : i \in Nat /\ i < next.r
      BY RefFacts DEF Ids, ReadCopies, Of, Given
    <3>2. \A i \in I : \E z \in ref : z.id = i /\ z.peer = v /\ z.c <= task[t].c
      BY DEF Ids, ReadCopies, Of
    <3> HIDE DEF I, v
    <3>3. x.peer = v /\ I # {} /\ outMax'[x.peer] = Max(I)  BY <1>0, <2>1, <2>3
    <3>4. Max(I) \in I  BY <1>0, <3>1, <3>3, LargestId
    <3>5. PICK z \in ref : z.id = outMax'[x.peer] /\ z.peer = v /\ z.c <= task[t].c
      BY <3>2, <3>3, <3>4
    <3>6. x \in ref /\ y \in ref /\ \A d \in late : d > x.c  BY <2>1
    <3>7. x.peer = Other(task[t].u)  BY <3>3 DEF v
    <3>8. y.id <= seen[y.peer]  BY <2>1, <3>3, <3>5, <3>6, <3>7, ReceiptCovers
    <3> QED  BY <2>1, <3>8
  <2> QED  BY <2>2, <2>3
<1>5. CASE \/ UNCHANGED reads
           \/ \E t \in Tasks : CountUnread(t) \/ ReadOwn(t) \/ SaveRead(t)
           \/ \E t \in Tasks, u \in Users : \E m : StartRead(t, u, m)
  <2>1. UNCHANGED outMax  BY <1>5, Zenon DEF reads, CountUnread, ReadOwn, SaveRead, StartRead
  <2> QED  BY <1>3, <2>1
<1> QED  BY <1>4, <1>5, ReadsChange

\* The message that a sender marks: nothing unseen is before it.
LEMMA OwnStep ==
    ASSUME RowsInv, RowsInv', ReadsInv, [Next]_vars, NEW s \in Tasks
    PROVE  OwnRight(task'[s], ref', content', seen')
<1>0. /\ SetOrKept(s) /\ task[s] \in TaskStates /\ next.r \in Nat
      /\ Holds(task[s], content, ref, next, Pending)
      /\ \A y \in ref' : y.id \in Nat /\ y.peer \in Users
  BY TasksMove, TaskFacts, NewIds DEF RowsInv, RefsRight, Refs
<1>1. CASE task'[s] = task[s] \/ task'[s] = Over(task[s])
  <2>1. task'[s].step = task[s].step /\ task'[s].u = task[s].u /\ task'[s].ref = task[s].ref
    BY <1>0, <1>1, SameFields
  <2> SUFFICES ASSUME task[s].step = "own", NEW y \in ref', y.peer = task[s].u,
                      content'[y.c].author # task[s].u, y.id <= task[s].ref
               PROVE y.id <= seen'[task[s].u]
    BY <2>1 DEF OwnRight
  <2>2. task[s].ref \in Nat /\ task[s].ref < next.r  BY <1>0 DEF Holds, Given
  <2>3. ~(next.r <= y.id)  BY <1>0, <2>2
  <2>4. PICK x \in ref : SameRef(y, x) /\ content'[y.c].author = content[x.c].author
    BY <2>3, RefsBefore
  <2>5. x.id <= seen[task[s].u]  BY <2>4 DEF SameRef, ReadsInv, OwnRight
  <2> QED  BY <1>0, <2>4, <2>5, SeenGrows DEF SameRef
<1>2. CASE CountUnread(s)
  <2>1. CASE Goes(s, "own") /\ ~HasUnread(task[s].u)
    <3>1. task'[s] = [task[s] EXCEPT !.step = "own"]  BY <2>1, TaskFacts, SetKeepsOthers DEF Goes
    <3>2. task'[s].u = task[s].u  BY <1>0, <3>1, StepFields
    <3>3. UNCHANGED <<ref, content, seen>>  BY <1>2 DEF CountUnread, rows
    <3> SUFFICES ASSUME NEW y \in ref, y.peer = task[s].u, content[y.c].author # task[s].u
                 PROVE y.id <= seen[task[s].u]
      BY <3>2, <3>3 DEF OwnRight
    <3>4. readIn \in [Users -> Int] /\ y.id \in Nat /\ y.peer \in Users
      BY RefFacts DEF RowsInv, StateRight
    <3>5. ~(y.id > readIn[y.peer])  BY <2>1 DEF HasUnread, Of
    <3>6. readIn[y.peer] \in Int  BY <3>4
    <3>7. y.id <= readIn[y.peer]  BY <3>4, <3>5, <3>6
    <3> QED  BY <3>7 DEF ReadsInv, OnlySeenIsRead
  <2>2. CASE Set(s, NextSend(s))
    <3>1. task'[s] = NextSend(s) /\ task[s].step = "unread"
      BY <1>2, <2>2, TaskFacts, SetKeepsOthers DEF CountUnread, At
    <3>2. task'[s].step # "own"  BY <3>1, NextSendHolds
    <3> QED  BY <3>2 DEF OwnRight
  <2> QED  BY <1>2, <2>1, <2>2 DEF CountUnread
<1>3. CASE task'[s].step \in Quiet  BY <1>3 DEF Quiet, OwnRight
<1>4. CASE Moves(s) /\ ~CountUnread(s)
  <2>1. task'[s].step # "own"
    <3>1. ASSUME NEW x \in ref, StartView(s, x) PROVE task'[s].step # "own"  BY <3>1, ViewStep
    <3> QED  BY <1>4, <3>1, MoveSteps DEF Moves
  <2> QED  BY <2>1 DEF OwnRight
<1> QED  BY <1>0, <1>1, <1>2, <1>3, <1>4 DEF SetOrKept

\* The message that read_history looks up.
LEMMA ReadLookup ==
    ASSUME RowsInv, NEW t \in Tasks, NEW u \in Users, NEW max, StartRead(t, u, max)
    PROVE  \/ task'[t].step = "idle"
           \/ \E m \in ref : /\ task'[t] = BeginsRead(u, m)
                             /\ m.peer = u /\ m.id > readIn[u]
<1> DEFINE R == {x \in Of(ref, u) : x.id <= max}
           m == CHOOSE x \in R : \A y \in R : y.id <= x.id
<1>1. CASE Begins(t, IdleTask)
  <2>1. task'[t] = IdleTask  BY <1>1, TaskFacts, SetKeepsOthers DEF Begins, BeginsMany
  <2> QED  BY <2>1, IdleFields
<1>2. CASE ~Begins(t, IdleTask)
  <2>1. R # {} /\ m.id > readIn[u] /\ Set(t, BeginsRead(u, m))
    BY <1>2 DEF StartRead, Begins, BeginsMany
  <2>2. \A x \in R : x \in ref /\ x.peer = u  BY DEF Of
  <2>3. \A i \in Ids(R) : i \in Nat /\ i < next.r  BY <2>2, RefFacts DEF Ids, Given
  <2>4. Ids(R) # {} /\ next.r \in Nat  BY <2>1, PendingRows DEF Ids
  <2>5. \E x \in R : \A y \in R : y.id <= x.id
    <3>1. PICK n \in Ids(R) : \A i \in Ids(R) : i <= n  BY <2>3, <2>4, LargestId
    <3> QED  BY <3>1 DEF Ids
  <2>6. m \in R  BY <2>5
  <2>7. task'[t] = BeginsRead(u, m)  BY <2>1, TaskFacts, SetKeepsOthers
  <2> QED  BY <2>1, <2>2, <2>6, <2>7
<1> QED  BY <1>1, <1>2

LEMMA BeginsReadFields ==
    ASSUME NEW u, NEW m
    PROVE  /\ BeginsRead(u, m).step = "rsave" /\ BeginsRead(u, m).u = u
           /\ BeginsRead(u, m).ref = m.id /\ BeginsRead(u, m).c = m.c
<1> DEFINE i == m.id
           c == m.c
           r == [IdleTask EXCEPT !.step = "rsave", !.op = "read", !.u = u, !.ref = i, !.c = c]
<1>1. BeginsRead(u, m) = r  BY DEF BeginsRead
<1> HIDE DEF i, c
<1>2. r.step = "rsave" /\ r.u = u /\ r.ref = i /\ r.c = c  BY DEF IdleTask
<1> QED  BY <1>1, <1>2 DEF i, c

\* What a reader is about to mark, or has marked, covers what came before it.
LEMMA MarkStep ==
    ASSUME RowsInv, RowsInv', ReadsInv, [Next]_vars, NEW s \in Tasks
    PROVE  MarkRight(task'[s], ref', next', late', seen')
<1>0. /\ SetOrKept(s) /\ task[s] \in TaskStates /\ Holds(task[s], content, ref, next, Pending)
      /\ next.top \in Nat /\ next'.top \in Nat /\ next.top <= next'.top
      /\ MarkRight(task[s], ref, next, late, seen)
  BY TasksMove, TaskFacts, LateChange DEF ReadsInv
\* A task that keeps its message and content.
<1>1. ASSUME NEW k, k.u = task[s].u, k.c = task[s].c, k.ref = task[s].ref,
             task[s].step \in {"rsave", "receipt"}
      PROVE  /\ k.c <= next'.top
             /\ \A y \in ref' : y.peer = k.u /\ y.c <= k.c /\ y.c \notin late' => y.id <= k.ref
  <2>1. k.c \in Nat /\ k.c <= next.top  BY <1>0, <1>1 DEF TaskStates, MarkRight
  <2>2. ASSUME NEW y \in ref', y.peer = k.u, y.c <= k.c, y.c \notin late'
        PROVE  y.id <= k.ref
    <3>1. ASSUME NEW c, NEW u, NEW S, NEW rn, NEW G, Comes(c, u, S, rn, G) PROVE y.id <= k.ref
      <4>1. /\ late' = IF c < next.top THEN late \cup {c} ELSE late
            /\ c \in Nat /\ k.c # c
        BY <1>1, <3>1 DEF Comes, Inserts
      <4>2. y.c = c \/ y \in ref  BY <3>1, ComesRefs
      <4>3. y.c # c
        <5> SUFFICES ASSUME y.c = c PROVE FALSE  OBVIOUS
        <5>1. c < next.top  BY <1>0, <2>1, <2>2, <4>1
        <5> QED  BY <2>2, <4>1, <5>1
      <4> QED  BY <1>0, <1>1, <2>2, <4>1, <4>2, <4>3 DEF MarkRight
    <3>2. CASE UNCHANGED late /\ ~\E c, u, S, rn, G : Comes(c, u, S, rn, G)
      <4>1. PICK x \in ref : SameRef(y, x)  BY <3>2, RefsAfter DEF SameRef
      <4> QED  BY <1>0, <1>1, <2>2, <3>2, <4>1 DEF SameRef, MarkRight
    <3> QED  BY <3>1, <3>2, LateChange
  <2> QED  BY <1>0, <2>1, <2>2
<1>2. CASE task'[s] = task[s] \/ task'[s] = Over(task[s])
  <2>1. /\ task'[s].step = task[s].step /\ task'[s].u = task[s].u /\ task'[s].ref = task[s].ref
        /\ task'[s].c = task[s].c
    BY <1>0, <1>2, SameFields
  <2>2. task[s].step = "receipt" => task[s].ref <= seen'[task[s].u]
    <3> SUFFICES ASSUME task[s].step = "receipt" PROVE task[s].ref <= seen'[task[s].u]  OBVIOUS
    <3>1. task[s].u \in Users /\ task[s].ref \in Nat /\ task[s].ref <= seen[task[s].u]
      BY <1>0 DEF Holds, Given, MarkRight
    <3> QED  BY <3>1, SeenGrows
  <2> QED  BY <1>1, <2>1, <2>2 DEF MarkRight
<1>3. CASE SaveRead(s)
  <2> DEFINE k == task[s]
             u == task[s].u
             i == task[s].ref
  <2>1. /\ k.step = "rsave" /\ u \in Users /\ i \in Nat /\ seen \in [Users -> Nat]
        /\ seen' = [seen EXCEPT ![u] = Max({@, i})]
    BY <1>0, <1>3 DEF SaveRead, At, Holds, Given, RowsInv, StateRight
  <2>2. task'[s] = [k EXCEPT !.step = "receipt", !.over = FALSE]
    BY <1>3, ReadsKeepsOthers DEF SaveRead
  <2>3. /\ task'[s].step = "receipt" /\ task'[s].u = u /\ task'[s].ref = i /\ task'[s].c = k.c
    BY <1>0, <2>2 DEF TaskStates
  <2>4. i <= seen'[u]
    <3> HIDE DEF u, i, k
    <3>1. seen[u] \in Int /\ i \in Int /\ seen'[u] = Max({seen[u], i})  BY <2>1
    <3> QED  BY <3>1, MaxOfTwo
  <2> QED  BY <1>1, <2>1, <2>3, <2>4 DEF MarkRight
<1>4. ASSUME NEW u \in Users, NEW max, StartRead(s, u, max)
      PROVE MarkRight(task'[s], ref', next', late', seen')
  <2>1. CASE task'[s].step = "idle"  BY <2>1 DEF MarkRight
  <2>2. ASSUME NEW m \in ref, task'[s] = BeginsRead(u, m), m.peer = u
        PROVE MarkRight(task'[s], ref', next', late', seen')
    <3>1. task'[s].step = "rsave" /\ task'[s].u = u /\ task'[s].ref = m.id /\ task'[s].c = m.c
      BY <2>2, BeginsReadFields
    <3>2. UNCHANGED <<ref, next, late>>  BY <1>4 DEF StartRead, rows, marks
    <3>3. m.c <= next.top /\ m.c \in Nat /\ m.id \in Nat  BY RefFacts DEF RowsInv, RefsRight
    <3>4. ASSUME NEW x \in ref, x.peer = u, x.c <= m.c, x.c \notin late PROVE x.id <= m.id
      <4>1. x.id \in Nat /\ x.c \in Nat  BY RefFacts
      <4>2. CASE x.c = m.c
        <5>1. x = m  BY <2>2, <3>4, <4>2 DEF RowsInv, RefsRight
        <5> QED  BY <3>3, <5>1
      <4>3. CASE x.c < m.c  BY <3>3, <3>4, <4>1, <4>3 DEF ReadsInv, InOrder
      <4> QED  BY <3>3, <3>4, <4>1, <4>2, <4>3
    <3> QED  BY <3>1, <3>2, <3>3, <3>4 DEF MarkRight
  <2> QED  BY <1>4, <2>1, <2>2, ReadLookup
<1>5. CASE task'[s].step \in Quiet  BY <1>5 DEF Quiet, MarkRight
<1>6. CASE Moves(s) /\ ~SaveRead(s) /\ ~\E u \in Users : \E m : StartRead(s, u, m)
  <2>1. task'[s].step \notin {"rsave", "receipt"}
    <3>1. ASSUME NEW x \in ref, StartView(s, x) PROVE task'[s].step = "cache"  BY <3>1, ViewStep
    <3> QED  BY <1>6, <3>1, MoveSteps DEF Moves
  <2> QED  BY <2>1 DEF MarkRight
<1> QED  BY <1>0, <1>2, <1>3, <1>4, <1>5, <1>6 DEF SetOrKept

\* Of the tasks that a write of the read state does not overtake, each marks no
\* less than is marked.
LEMMA AheadKept ==
    ASSUME RowsInv, ReadsInv, [Next]_vars, NEW s \in Tasks, task'[s] = task[s],
           task[s].step \in {"unhide", "unread", "own", "rsave"}, ~task[s].over
    PROVE  readIn'[task[s].u] <= task[s].ref
<1> DEFINE u == task[s].u
           i == task[s].ref
<1>1. /\ task[s] \in TaskStates /\ u \in Users /\ i \in Nat /\ 1 <= i
      /\ readIn \in [Users -> Int] /\ readIn[u] <= i
  BY TaskFacts DEF Holds, Given, RowsInv, StateRight, ReadsInv, Ahead
<1>2. CASE UNCHANGED reads
  <2>1. readIn' = readIn  BY <1>2 DEF reads
  <2> QED  BY <1>1, <2>1
<1>3. ASSUME NEW v \in Users, readIn' = [readIn EXCEPT ![v] = Max({@, 0})]
      PROVE readIn'[u] <= i
  <2>1. readIn'[u] \in {readIn[u], 0}  BY <1>1, <1>3, MarkStarts
  <2> HIDE DEF u, i
  <2> QED  BY <1>1, <2>1
<1>4. CASE \E t \in Tasks, v \in Users : \E m : StartRead(t, v, m)  BY <1>3, <1>4 DEF StartRead
<1>5. ASSUME NEW t \in Tasks, CountUnread(t) PROVE readIn'[u] <= i
  <2>1. task[t].u \in Users  BY <1>5, TaskFacts DEF CountUnread, At, Holds
  <2> QED  BY <1>3, <1>5, <2>1 DEF CountUnread
<1>6. ASSUME NEW t \in Tasks, NEW j, NEW r, Reads(t, j, r), r.step # task[t].step
      PROVE readIn'[u] <= i
  <2>1. s # t  BY <1>6, ReadsKeepsOthers
  <2>2. task[t].u # u
    <3> SUFFICES ASSUME task[t].u = u PROVE FALSE  OBVIOUS
    <3>1. task'[s] = Over(task[s])  BY <1>6, <2>1 DEF Reads, Over
    <3> QED  BY <1>1, <3>1, IsOver
  <2>3. readIn'[u] = readIn[u]  BY <1>1, <1>6, <2>2 DEF Reads
  <2> QED  BY <1>1, <2>3
<1>7. ASSUME NEW t \in Tasks, ReadOwn(t) PROVE readIn'[u] <= i
  <2>1. Reads(t, task[t].ref, NextSend(t)) /\ task[t].step = "own"  BY <1>7 DEF ReadOwn, At
  <2>2. NextSend(t).step # "own"  BY <2>1, NextSendHolds
  <2> QED  BY <1>6, <2>1, <2>2
<1>8. ASSUME NEW t \in Tasks, SaveRead(t) PROVE readIn'[u] <= i
  <2> DEFINE r == [task[t] EXCEPT !.step = "receipt", !.over = FALSE]
  <2>1. Reads(t, task[t].ref, r) /\ task[t].step = "rsave"  BY <1>8 DEF SaveRead, At
  <2>2. r.step = "receipt"  BY TaskFacts DEF TaskStates
  <2> HIDE DEF r
  <2> QED  BY <1>6, <2>1, <2>2
<1>9. CASE \E t \in Tasks : Receipt(t)
  <2>1. readIn' = readIn  BY <1>9 DEF Receipt
  <2> QED  BY <1>1, <2>1
<1> QED  BY <1>2, <1>4, <1>5, <1>7, <1>8, <1>9, ReadsChange

LEMMA AheadStep ==
    ASSUME RowsInv, RowsInv', ReadsInv, [Next]_vars, NEW s \in Tasks
    PROVE  Ahead(task'[s], readIn')
<1> SUFFICES ASSUME task'[s].step \in {"unhide", "unread", "own", "rsave"}, ~task'[s].over
             PROVE readIn'[task'[s].u] <= task'[s].ref
  BY DEF Ahead
<1>0. /\ SetOrKept(s) /\ task[s] \in TaskStates /\ Holds(task[s], content, ref, next, Pending)
      /\ Ahead(task[s], readIn) /\ readIn \in [Users -> Int] /\ next.r \in Nat
  BY TasksMove, TaskFacts, PendingRows DEF ReadsInv, RowsInv, StateRight
<1>1. CASE task'[s] = task[s]  BY <1>1, AheadKept
<1>2. CASE task'[s] = Over(task[s])  BY <1>0, <1>2, IsOver
<1>3. CASE task'[s].step \in Quiet  BY <1>3 DEF Quiet
<1>4. CASE CreateRefs(s)
  <2>1. Set(s, [task[s] EXCEPT !.step = "unhide", !.ref = next.r]) \/ Ends(s)
    BY <1>4 DEF CreateRefs
  <2>2. ~Ends(s)
    <3>1. Ends(s) => task'[s] = IdleTask  BY TaskFacts, SetKeepsOthers DEF Ends
    <3> QED  BY <3>1, IdleFields
  <2>3. task'[s] = [task[s] EXCEPT !.step = "unhide", !.ref = next.r]
    BY <2>1, <2>2, TaskFacts, SetKeepsOthers
  <2>4. task'[s].u = task[s].u /\ task'[s].ref = next.r  BY <1>0, <2>3 DEF TaskStates
  <2>5. task[s].u \in Users  BY <1>0, <1>4 DEF CreateRefs, At, Holds
  <2>6. readIn' = readIn  BY <1>4 DEF CreateRefs, reads
  <2>7. readIn[task[s].u] < next.r /\ readIn[task[s].u] \in Int  BY <1>0, <2>5 DEF ReadsInv
  <2> QED  BY <1>0, <2>4, <2>6, <2>7
<1>5. ASSUME NEW p \in {"plan", "unread", "own"}, Goes(s, p)
      PROVE task'[s].u = task[s].u /\ task'[s].ref = task[s].ref /\ ~task[s].over
  <2>1. task'[s] = [task[s] EXCEPT !.step = p]  BY <1>5, TaskFacts, SetKeepsOthers DEF Goes
  <2>2. task'[s].over = task[s].over  BY <1>0, <2>1, StepFields
  <2> QED  BY <1>0, <2>1, <2>2, StepFields
<1>6. CASE Unhide(s)
  <2>1. \E p \in {"plan", "unread", "own"} : Goes(s, p)
    <3>1. Ends(s) => task'[s] = IdleTask  BY TaskFacts, SetKeepsOthers DEF Ends
    <3> QED  BY <1>6, <3>1, IdleFields DEF Unhide
  <2>2. readIn' = readIn /\ task[s].step = "unhide"  BY <1>6 DEF Unhide, At, reads
  <2> QED  BY <1>0, <1>5, <2>1, <2>2 DEF Ahead
<1>7. CASE CountUnread(s)
  <2>1. task[s].step = "unread"  BY <1>7 DEF CountUnread, At
  <2>2. Goes(s, "own")
    <3>1. Set(s, NextSend(s)) => task'[s] = NextSend(s)  BY TaskFacts, SetKeepsOthers
    <3> QED  BY <1>7, <2>1, <3>1, NextSendHolds DEF CountUnread
  <2>3. task'[s].u = task[s].u /\ task'[s].ref = task[s].ref /\ ~task[s].over
    BY <1>5, <2>2
  <2> DEFINE u == task[s].u
             i == task[s].ref
  <2>4. u \in Users /\ i \in Nat /\ 1 <= i /\ readIn[u] <= i
    BY <1>0, <2>1, <2>3 DEF Holds, Given, Ahead
  <2>5. readIn' = [readIn EXCEPT ![u] = Max({@, 0})]  BY <1>7 DEF CountUnread
  <2> HIDE DEF u, i
  <2>6. readIn'[u] \in {readIn[u], 0}  BY <2>4, <2>5, MarkStarts
  <2>7. readIn'[u] <= i  BY <1>0, <2>4, <2>6
  <2> QED  BY <2>3, <2>7 DEF u, i
<1>8. ASSUME NEW u \in Users, NEW max, StartRead(s, u, max)
      PROVE readIn'[task'[s].u] <= task'[s].ref
  <2>1. PICK m \in ref : task'[s] = BeginsRead(u, m) /\ m.peer = u /\ m.id > readIn[u]
    BY <1>8, ReadLookup
  <2>2. task'[s].u = u /\ task'[s].ref = m.id  BY <2>1, BeginsReadFields
  <2>3. readIn' = [readIn EXCEPT ![u] = Max({@, 0})]  BY <1>8 DEF StartRead
  <2>4. readIn'[u] \in {readIn[u], 0}  BY <2>3, MarkStarts
  <2>5. m.id \in Nat /\ readIn[u] \in Int  BY <1>0, RefFacts
  <2> QED  BY <2>1, <2>2, <2>4, <2>5
<1>9. CASE Moves(s) /\ ~CreateRefs(s) /\ ~Unhide(s) /\ ~CountUnread(s)
           /\ ~\E u \in Users : \E m : StartRead(s, u, m)
  <2>1. ASSUME NEW x \in ref, StartView(s, x) PROVE task'[s].step = "cache"  BY <2>1, ViewStep
  <2> QED  BY <1>9, <2>1, MoveSteps DEF Moves
<1> QED  BY <1>0, <1>1, <1>2, <1>3, <1>4, <1>6, <1>7, <1>8, <1>9 DEF SetOrKept

LEMMA ReadsHold == Spec => []ReadsInv
<1>1. ASSUME Init PROVE ReadsInv
  <2>1. /\ ref = {} /\ late = {} /\ next.r = 1 /\ \A t \in Tasks : task[t].step = "idle"
        /\ readIn = [u \in Users |-> -1] /\ outMax = [u \in Users |-> 0]
    BY <1>1, IdleFields DEF Init
  <2>2. \A u \in Users : readIn[u] < next.r /\ outMax[u] < next.r  BY <2>1
  <2> QED
    BY <2>1, <2>2 DEF ReadsInv, InOrder, OnlySeenIsRead, ReceiptsAreTrue, OwnRight, MarkRight,
                      Ahead
<1>2. RowsInv /\ RowsInv' /\ ReadsInv /\ [Next]_vars => ReadsInv'
  BY MarksStep, OrderStep, SeenStep, ReceiptsStep, OwnStep, MarkStep, AheadStep DEF ReadsInv
<1> QED  BY <1>1, <1>2, RowsHold, PTL DEF Spec

\* What counts as read (send_message_internal, read_history): no message of the
\* other user that the reader has not marked, and no receipt for one, unless a
\* content got its refs after those of a later one.
THEOREM ReadsRight == Spec => []ReadsAreTrue
<1>1. ReadsInv => ReadsAreTrue  BY DEF ReadsInv, ReadsAreTrue
<1> QED  BY <1>1, ReadsHold, PTL

LEMMA WentBack ==
    ASSUME RowsInv, ReadsInv, [Next]_vars, NEW u \in Users, readIn'[u] < readIn[u]
    PROVE  \E t \in Tasks : task[t].u = u /\ task[t].over /\ task'[t] # task[t]
<1>1. readIn \in [Users -> Int]  BY DEF RowsInv, StateRight
<1>2. readIn' # readIn  BY <1>1
<1>3. ASSUME NEW v \in Users, readIn' = [readIn EXCEPT ![v] = Max({@, 0})] PROVE FALSE
  <2>1. readIn[u] <= readIn'[u] /\ readIn'[u] \in Int  BY <1>3, MarkStarts
  <2>2. readIn[u] \in Int  BY <1>1
  <2> QED  BY <2>1, <2>2
<1>4. ASSUME NEW t \in Tasks, CountUnread(t) PROVE FALSE
  <2>1. task[t].u \in Users  BY <1>4, TaskFacts DEF CountUnread, At, Holds
  <2> QED  BY <1>3, <1>4, <2>1 DEF CountUnread
<1>5. ASSUME NEW t \in Tasks, NEW r, Reads(t, task[t].ref, r), r.step # task[t].step,
             task[t].step \in {"own", "rsave"}
      PROVE task[t].u = u /\ task[t].over /\ task'[t] # task[t]
  <2>1. task'[t] # task[t]  BY <1>5, ReadsKeepsOthers
  <2>2. readIn' = [readIn EXCEPT ![task[t].u] = task[t].ref]  BY <1>5 DEF Reads
  <2>3. task[t].u = u /\ readIn'[u] = task[t].ref  BY <1>1, <2>2
  <2>4. Ahead(task[t], readIn) /\ task[t].ref \in Nat
    BY <1>5, TaskFacts DEF ReadsInv, Holds, Given
  <2>5. ~(readIn[u] <= task[t].ref)  BY <1>1, <2>3, <2>4
  <2> QED  BY <1>5, <2>1, <2>3, <2>4, <2>5 DEF Ahead
<1>6. ASSUME NEW t \in Tasks, ReadOwn(t) PROVE task[t].u = u /\ task[t].over /\ task'[t] # task[t]
  <2>1. Reads(t, task[t].ref, NextSend(t)) /\ task[t].step = "own"  BY <1>6 DEF ReadOwn, At
  <2>2. NextSend(t).step # "own"  BY <2>1, NextSendHolds
  <2> QED  BY <1>5, <2>1, <2>2
<1>7. ASSUME NEW t \in Tasks, SaveRead(t) PROVE task[t].u = u /\ task[t].over /\ task'[t] # task[t]
  <2> DEFINE r == [task[t] EXCEPT !.step = "receipt", !.over = FALSE]
  <2>1. Reads(t, task[t].ref, r) /\ task[t].step = "rsave"  BY <1>7 DEF SaveRead, At
  <2>2. r.step = "receipt"  BY TaskFacts DEF TaskStates
  <2> HIDE DEF r
  <2> QED  BY <1>5, <2>1, <2>2
<1>8. CASE \E t \in Tasks, v \in Users : \E m : StartRead(t, v, m)  BY <1>3, <1>8 DEF StartRead
<1>9. CASE UNCHANGED reads \/ \E t \in Tasks : Receipt(t)  BY <1>2, <1>9 DEF reads, Receipt
<1> QED  BY <1>4, <1>6, <1>7, <1>8, <1>9, ReadsChange

\* A user's read state goes back only by a request that another one has
\* overtaken since it looked up its message.
THEOREM OnlyOvertakenGoBack == Spec => ReadsOnlyGoBackOvertaken
<1> DEFINE Back == \A u \in Users : readIn'[u] < readIn[u] =>
                       \E t \in Tasks : task[t].u = u /\ task[t].over /\ task'[t] # task[t]
<1>1. RowsInv /\ ReadsInv /\ [Next]_vars => [Back]_vars  BY WentBack
<1> QED  BY <1>1, RowsHold, ReadsHold, PTL DEF Spec, ReadsOnlyGoBackOvertaken
==============================================================================
