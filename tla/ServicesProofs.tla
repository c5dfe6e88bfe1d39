--------------------------- MODULE ServicesProofs ---------------------------
(***************************************************************************)
(* What is proved of the members of a channel, for any users, requests at  *)
(* once, limits, and number of requests and of invite links; and of salts  *)
(* and of the auth keys of a device, for any connections, keys and times.  *)
(* The variables of a component have the places v1, v2, ... that           *)
(* MCServices gives them.  Of members, v1 is the rows of the participants, *)
(* v2 the creator, v6 the count of admins, v8 the join requests, v9 the    *)
(* tasks, v12 the strays, v13 who was disturbed, v14 the crowd, and v15    *)
(* the app's limits.                                                       *)
(***************************************************************************)
EXTENDS MCServices, FiniteSetTheorems, TLAPS

-----------------------------------------------------------------------------
(* Members: a step of one request, seen by the others *)

\* What a step of task t leaves to the others.
Spares(t) ==
    /\ \A s \in Tasks \ {t} : v9'[s] = v9[s]
    /\ \A u \in Users \ Members!Subjects(v9[t]) : v1'[u] = v1[u]
    /\ \A u \in Users : v1[u].there => v1'[u].there
    /\ v2' # v2 => v2' \in Members!Subjects(v9[t])
    /\ v13 \subseteq v13'
    /\ v15' = v15

LEMMA OtherConsistent ==
    ASSUME Members!TypeOK, NEW t \in Tasks, NEW s \in Tasks \ {t}, Members!Consistent(s), Spares(t)
    PROVE  Members!Consistent(s)'
<1>1. v9'[s] = v9[s]
  BY DEF Spares
<1>2. v9[s].target \in Users => (v1[v9[s].target].there => v1'[v9[s].target].there)
  BY DEF Spares
<1>3. v9[s].who \in Users => (v1[v9[s].who].there => v1'[v9[s].who].there)
  BY DEF Spares
<1> QED BY <1>1, <1>2, <1>3 DEF Members!Consistent, Spares, Members!AdminLimit, Members!InviteIds

LEMMA OtherUndisturbed ==
    ASSUME Members!TypeOK, Members!Apart, NEW t \in Tasks, NEW s \in Tasks \ {t},
           Members!Consistent(t), Members!Consistent(s), Members!Undisturbed(s), Spares(t)
    PROVE  Members!Undisturbed(s)'
<1>1. v9'[s] = v9[s]
  BY DEF Spares
<1>2. SUFFICES ASSUME v9[s].op # "idle", v9[s].target \notin v13'
               PROVE  Members!Undisturbed(s)'
  BY <1>1 DEF Members!Undisturbed
<1>3. v9[s].target \in Users /\ v9[s].target \notin v13 /\ s \in Members!Busy
  BY <1>2 DEF Members!Consistent, Spares, Members!Busy
<1>4. v9[s].target \notin Members!Subjects(v9[t])
  <2>1. CASE v9[t].op = "idle"
    <3>1. v9[t].op = "idle" /\ v9[t].target = NoUser
      BY <2>1 DEF Members!Consistent, Members!TypeOK, Members!IdleTask
    <3> QED BY <1>3, <3>1, SetsAssumption DEF Members!Subjects
  <2>2. CASE v9[t].op # "idle"
    <3>1. t \in Members!Busy
      BY <2>2 DEF Members!Consistent, Members!Busy
    <3>2. v9[s].target \in Members!Subjects(v9[s])
      BY DEF Members!Subjects
    <3> QED BY <1>3, <3>1, <3>2 DEF Members!Apart
  <2> QED BY <2>1, <2>2
<1>5. v1'[v9[s].target] = v1[v9[s].target] /\ (v2' = v9[s].target => v2 = v9[s].target)
  BY <1>3, <1>4 DEF Spares
<1> QED BY <1>1, <1>2, <1>3, <1>5 DEF Members!Undisturbed

\* The counts of admins
Counted == Members!CountLags /\ Members!GainsBounded /\ Members!AdminsCountSettled

LEMMA Composed ==
    ASSUME Members!MembersInv, NEW t \in Tasks, Spares(t), Members!TypeOK', Members!Consistent(t)',
           Members!Undisturbed(t)', Members!Apart', Counted', Members!MembersBounded',
           Members!CreatorSafe', Members!RequestersAreOutside'
    PROVE  Members!MembersInv'
<1>1. v15' \in Apps
  BY DEF Members!MembersInv, Spares
<1>2. ASSUME NEW s \in Tasks PROVE Members!Consistent(s)' /\ Members!Undisturbed(s)'
  <2>1. CASE s = t
    BY <2>1
  <2>2. CASE s # t
    BY <2>2, OtherConsistent, OtherUndisturbed DEF Members!MembersInv
  <2> QED BY <2>1, <2>2
<1> QED BY <1>1, <1>2 DEF Members!MembersInv, Counted

\* A request that ends, or goes on with its users, disturbs nobody new.
LEMMA StaysApart ==
    ASSUME Members!Apart, NEW t \in Tasks, Spares(t),
           \/ v9'[t].step = "idle"
           \/ v9[t].step # "idle" /\ Members!Subjects(v9'[t]) = Members!Subjects(v9[t])
    PROVE  Members!Apart'
<1> SUFFICES ASSUME NEW r \in Members!Busy', NEW s \in Members!Busy',
                    NEW u \in Members!Subjects(v9'[r]) \cap Members!Subjects(v9'[s])
             PROVE  u \in v13' \/ r = s
  BY DEF Members!Apart, Members!Subjects
<1>1. \A q \in Members!Busy' :
         q \in Members!Busy /\ Members!Subjects(v9'[q]) = Members!Subjects(v9[q])
  BY DEF Members!Busy, Spares
<1>2. u \in v13 \/ r = s
  BY <1>1 DEF Members!Apart
<1> QED BY <1>2 DEF Spares

\* ChannelMembers has its own Cardinality, which is that of the theorems.
LEMMA SameCount == \A S : Members!Cardinality(S) = Cardinality(S)
BY DEF Members!Cardinality, Cardinality

LEMMA FiniteSets ==
    ASSUME NEW S, S \subseteq Users \/ S \subseteq Tasks
    PROVE  IsFiniteSet(S) /\ Cardinality(S) \in Nat
BY SetsAssumption, FS_Subset, FS_CardinalityType

LEMMA Smaller ==
    ASSUME NEW S, NEW T, S \subseteq T, T \subseteq Users \/ T \subseteq Tasks
    PROVE  Cardinality(S) <= Cardinality(T) /\ Cardinality(S) \in Nat /\ Cardinality(T) \in Nat
BY FiniteSets, FS_Subset

LEMMA CountTypes ==
    ASSUME Members!TypeOK, v15 \in Apps
    PROVE  /\ Members!Admins \subseteq Users /\ Cardinality(Members!Admins) \in Nat
           /\ Members!Syncing \subseteq Tasks /\ Cardinality(Members!Syncing) \in Nat
           /\ Members!MayGain \subseteq Tasks /\ Cardinality(Members!MayGain) \in Nat
           /\ Members!Members \cup Members!Entering \subseteq Users \cup {NoUser}
           /\ v6 \in Nat /\ v12 \in Nat /\ v14 \in Nat
           /\ Members!AdminLimit \in Nat /\ Members!MemberLimit \in Nat
           /\ Cardinality(Tasks) \in Nat
<1>1. Members!Admins \subseteq Users /\ Members!Syncing \subseteq Tasks /\ Members!MayGain \subseteq Tasks
  BY DEF Members!Admins, Members!Syncing, Members!MayGain
<1>2. Members!Members \cup Members!Entering \subseteq Users \cup {NoUser}
  BY DEF Members!Members, Members!Entering, Members!TypeOK, Members!TaskStates
<1>3. /\ Cardinality(Members!Admins) \in Nat /\ Cardinality(Members!Syncing) \in Nat
      /\ Cardinality(Members!MayGain) \in Nat /\ Cardinality(Tasks) \in Nat
  BY <1>1, FiniteSets
<1>4. v6 \in Nat /\ v12 \in Nat /\ v14 \in Nat
  BY DEF Members!TypeOK
<1>5. Members!AdminLimit \in Nat /\ Members!MemberLimit \in Nat
  BY AppsAssumption DEF Members!AdminLimit, Members!MemberLimit
<1> QED BY <1>1, <1>2, <1>3, <1>4, <1>5

\* Steps that make nobody an admin and take nobody's rights
LEMMA AdminsAsBefore ==
    ASSUME Members!MembersInv, UNCHANGED <<v6, v11, v12, v15>>,
           \A u \in Users : v1'[u].admin = v1[u].admin,
           Members!Syncing' = Members!Syncing, Members!MayGain' \subseteq Members!MayGain
    PROVE  Counted'
<1>1. Members!Admins' = Members!Admins
  BY DEF Members!Admins
<1>2. Cardinality(Members!MayGain') <= Cardinality(Members!MayGain) /\ Cardinality(Members!MayGain') \in Nat
  BY Smaller DEF Members!MayGain
<1>3. (\A t \in Tasks : v9'[t].step # "sync") <=> (\A t \in Tasks : v9[t].step # "sync")
  <2>1. (\A t \in Tasks : v9'[t].step # "sync") <=> Members!Syncing' = {}
    BY DEF Members!Syncing
  <2>2. (\A t \in Tasks : v9[t].step # "sync") <=> Members!Syncing = {}
    BY DEF Members!Syncing
  <2> QED BY <2>1, <2>2
<1>4. Members!AdminLimit' = Members!AdminLimit
  BY DEF Members!AdminLimit
<1>5. Members!CountLags' /\ Members!AdminsCountSettled'
  BY <1>1, <1>3 DEF Members!CountLags, Members!AdminsCountSettled, Members!MembersInv
<1>6. Members!GainsBounded'
  <2>1. /\ Cardinality(Members!Admins) + Cardinality(Members!MayGain)
             <= Members!AdminLimit + Cardinality(Tasks) - 1 + v12
        /\ Members!AdminLimit \in Nat /\ v12 \in Nat /\ v12' = v12
        /\ Cardinality(Members!Admins) \in Nat /\ Cardinality(Members!MayGain) \in Nat
        /\ Cardinality(Tasks) \in Nat
    BY CountTypes, SameCount DEF Members!GainsBounded, Members!MembersInv
  <2>2. Cardinality(Members!Admins') + Cardinality(Members!MayGain')
             <= Members!AdminLimit' + Cardinality(Tasks) - 1 + v12'
    BY <1>1, <1>2, <1>4, <2>1
  <2> QED BY <2>2, SameCount DEF Members!GainsBounded
<1> QED BY <1>5, <1>6 DEF Counted

\* Steps after which nobody is a member, or about to be, who was not before
LEMMA NoMoreMembers ==
    ASSUME Members!MembersInv, Members!TypeOK', v15' = v15, v14' >= v14,
           Members!Members' \cup Members!Entering' \subseteq Members!Members \cup Members!Entering
    PROVE  Members!MembersBounded'
<1>1. IsFiniteSet(Users \cup {NoUser})
  BY SetsAssumption, FS_AddElement
<1>2. /\ Cardinality(Members!Members' \cup Members!Entering') <= Cardinality(Members!Members \cup Members!Entering)
      /\ Cardinality(Members!Members' \cup Members!Entering') \in Nat
      /\ Cardinality(Members!Members \cup Members!Entering) \in Nat
  BY <1>1, CountTypes, FS_Subset, FS_CardinalityType DEF Members!MembersInv
<1>3. v14' \in Nat /\ Members!MemberLimit' = Members!MemberLimit
  BY DEF Members!TypeOK, Members!MemberLimit
<1>4. Cardinality(Members!Members \cup Members!Entering) <= Members!MemberLimit + v14
  BY SameCount DEF Members!MembersBounded, Members!MembersInv
<1> QED BY <1>2, <1>3, <1>4, SameCount, CountTypes DEF Members!MembersBounded, Members!MembersInv

\* The creator, where the step leaves him alone
LEMMA CreatorAsBefore ==
    ASSUME Members!MembersInv, v13 \subseteq v13', v2' = v2, v1'[v2] = v1[v2] \/ v2 \in v13'
    PROVE  Members!CreatorSafe'
BY DEF Members!MembersInv, Members!CreatorSafe, Members!Member

\* Whoever asks, where the step leaves him outside
LEMMA RequestersAsBefore ==
    ASSUME Members!MembersInv, NEW t \in Tasks, Spares(t), v8' \subseteq v8,
           \A u \in Users \ v13' : (v1[u].left => v1'[u].left) /\ v1'[u].banned = v1[u].banned,
           v9[t].step = "drop" => v9'[t] = v9[t] \/ \A q \in v8' : q[1] \in v13' \/ q[1] # v9[t].target
    PROVE  Members!RequestersAreOutside'
<1> SUFFICES ASSUME NEW q \in v8', q[1] \notin v13'
             PROVE  \/ ~Members!Member(q[1])' /\ "view_messages" \notin v1'[q[1]].banned
                    \/ \E s \in Tasks : v9'[s].target = q[1] /\ v9'[s].step = "drop"
  BY DEF Members!RequestersAreOutside
<1>1. q[1] \in Users /\ q \in v8 /\ q[1] \notin v13
  BY DEF Spares, Members!MembersInv, Members!TypeOK
<1>2. CASE \E s \in Tasks : v9[s].target = q[1] /\ v9[s].step = "drop"
  BY <1>2 DEF Spares
<1>3. CASE ~Members!Member(q[1]) /\ "view_messages" \notin v1[q[1]].banned
  BY <1>1, <1>3 DEF Members!Member
<1> QED BY <1>1, <1>2, <1>3 DEF Members!MembersInv, Members!RequestersAreOutside

\* Whoever is entering is counted.
LEMMA TasksMoved ==
    ASSUME Members!MembersInv, NEW t \in Tasks, NEW r \in Members!TaskStates,
           r.step = "idle" => r = Members!IdleTask, v9' = [v9 EXCEPT ![t] = r], Members!Crowd
    PROVE  /\ v9' \in [Tasks -> Members!TaskStates] /\ v9'[t] = r
           /\ \A s \in Tasks \ {t} : v9'[s] = v9[s]
           /\ \A s \in Tasks : v9'[s].step = "idle" => v9'[s] = Members!IdleTask
           /\ v14' \in Nat /\ v14' >= v14 /\ v14' >= Cardinality(Members!Entering')
           /\ Cardinality(Members!Entering') \in Nat
           /\ Members!Entering' \subseteq Users \cup {NoUser}
<1>1. /\ v9' \in [Tasks -> Members!TaskStates] /\ v9'[t] = r
      /\ \A s \in Tasks \ {t} : v9'[s] = v9[s]
  BY DEF Members!MembersInv, Members!TypeOK
<1>2. \A s \in Tasks : v9'[s].step = "idle" => v9'[s] = Members!IdleTask
  BY <1>1 DEF Members!MembersInv, Members!TypeOK
<1>3. Members!Entering' \subseteq Users \cup {NoUser}
  BY <1>1 DEF Members!Entering, Members!TaskStates
<1>4. Cardinality(Members!Entering') \in Nat
  BY <1>3, SetsAssumption, FS_AddElement, FS_Subset, FS_CardinalityType
<1>5. v14 \in Nat
  BY DEF Members!MembersInv, Members!TypeOK
<1>6. v14' = IF Cardinality(Members!Entering') > v14 THEN Cardinality(Members!Entering') ELSE v14
  BY SameCount DEF Members!Crowd
<1> QED BY <1>1, <1>2, <1>3, <1>4, <1>5, <1>6

\* An idle task promises nothing.
LEMMA IdleHolds ==
    ASSUME NEW t \in Tasks, v9'[t] = Members!IdleTask
    PROVE  Members!Consistent(t)' /\ Members!Undisturbed(t)'
BY DEF Members!Consistent, Members!Undisturbed, Members!IdleTask, Members!NoRow

-----------------------------------------------------------------------------
(* Members: a request begins *)

LEMMA BeginKeeps ==
    ASSUME Members!MembersInv, NEW t \in Tasks, NEW r \in Members!TaskStates,
           v9[t].step = "idle", v10 < MaxRequests, Members!Begins(t, r),
           UNCHANGED <<v1, v2, v3, v4, v5, v6, v7, v8, v11, v12, v15>>,
           Members!Subjects(r) \subseteq Users,
           (r.op = "leave" /\ r.step = "write") \/ r.step \in {"target", "limit"},
           r.op = "admin" => r.count = v6,
           Members!Consistent(t)', Members!Undisturbed(t)'
    PROVE  Members!MembersInv'
<1>1. /\ v9' \in [Tasks -> Members!TaskStates] /\ v9'[t] = r
      /\ \A s \in Tasks \ {t} : v9'[s] = v9[s]
      /\ \A s \in Tasks : v9'[s].step = "idle" => v9'[s] = Members!IdleTask
      /\ v14' \in Nat /\ v14' >= v14
  BY TasksMoved DEF Members!Begins
<1>2. /\ v10' = v10 + 1
      /\ v13' = v13 \cup (Members!Subjects(r) \cap UNION {Members!Subjects(v9[s]) : s \in Members!Busy})
  BY DEF Members!Begins
<1>3. v9[t] = Members!IdleTask
  BY DEF Members!MembersInv, Members!TypeOK
<1>4. Spares(t)
  BY <1>1, <1>2 DEF Spares
<1>5. Members!TypeOK'
  <2>1. v10' \in 0 .. MaxRequests
    BY <1>2, BoundsAssumption DEF Members!MembersInv, Members!TypeOK
  <2>2. v13' \subseteq Users
    BY <1>2 DEF Members!MembersInv, Members!TypeOK
  <2> QED BY <1>1, <2>1, <2>2 DEF Members!MembersInv, Members!TypeOK
<1>6. Members!Apart'
  <2> SUFFICES ASSUME NEW p \in Members!Busy', NEW q \in Members!Busy', p # q,
                      NEW u \in Members!Subjects(v9'[p]) \cap Members!Subjects(v9'[q])
               PROVE  u \in v13'
    BY DEF Members!Apart, Members!Subjects
  <2>1. CASE p # t /\ q # t
    <3>1. p \in Members!Busy /\ q \in Members!Busy /\ v9'[p] = v9[p] /\ v9'[q] = v9[q]
      BY <1>1, <2>1 DEF Members!Busy
    <3>2. u \in Members!Subjects(v9[p]) \cap Members!Subjects(v9[q])
      BY <3>1
    <3> QED BY <1>2, <3>1, <3>2 DEF Members!Apart, Members!MembersInv
  <2>2. ASSUME NEW s \in Members!Busy', s # t, u \in Members!Subjects(v9'[s]) \cap Members!Subjects(v9'[t])
        PROVE  u \in v13'
    <3>1. s \in Members!Busy /\ v9'[s] = v9[s]
      BY <1>1, <2>2 DEF Members!Busy
    <3> QED BY <1>1, <1>2, <2>2, <3>1
  <2> QED BY <2>1, <2>2
<1>7. Members!Syncing' = Members!Syncing /\ Members!Entering' \subseteq Members!Entering
  <2>1. ASSUME NEW s \in Tasks
        PROVE  v9'[s].step = "sync" <=> v9[s].step = "sync"
    BY <1>1 DEF Members!IdleTask
  <2>2. Members!Entering' \subseteq Members!Entering
    BY <1>1 DEF Members!Entering, Members!LeftAfterBan
  <2> QED BY <2>1, <2>2 DEF Members!Syncing
<1>8. Counted'
  <2>1. CASE t \notin Members!MayGain'
    <3>1. Members!MayGain' \subseteq Members!MayGain
      BY <1>1, <2>1 DEF Members!MayGain, Members!AdminLimit
    <3> QED BY <1>5, <1>7, <3>1, AdminsAsBefore
  <2>2. CASE t \in Members!MayGain'
    <3>1. v6 < Members!AdminLimit
      BY <1>1, <2>2 DEF Members!MayGain, Members!AdminLimit
    <3>2. Members!Syncing \cap Members!MayGain' = {}
      BY <1>7 DEF Members!Syncing, Members!MayGain
    <3>3. Cardinality(Members!Syncing) + Cardinality(Members!MayGain') <= Cardinality(Tasks)
      <4>1. /\ IsFiniteSet(Members!Syncing) /\ IsFiniteSet(Members!MayGain')
            /\ Members!Syncing \cup Members!MayGain' \subseteq Tasks
        BY SetsAssumption, FS_Subset DEF Members!Syncing, Members!MayGain
      <4>2. Cardinality(Members!Syncing \cup Members!MayGain')
              = Cardinality(Members!Syncing) + Cardinality(Members!MayGain') - Cardinality({})
        BY <3>2, <4>1, FS_Union
      <4>3. Cardinality(Members!Syncing \cup Members!MayGain') <= Cardinality(Tasks)
        BY <4>1, Smaller
      <4> QED BY <4>1, <4>2, <4>3, FS_EmptySet, FS_CardinalityType
    <3>4. Cardinality(Members!Admins) <= v6 + Cardinality(Members!Syncing) + v12
      BY SameCount DEF Members!MembersInv, Members!CountLags
    <3>5. Cardinality(Members!MayGain') \in Nat
      BY FiniteSets DEF Members!MayGain
    <3>6. Cardinality(Members!Admins) + Cardinality(Members!MayGain')
             <= Members!AdminLimit + Cardinality(Tasks) - 1 + v12
      BY <3>1, <3>3, <3>4, <3>5, CountTypes DEF Members!MembersInv
    <3>7. Members!Admins' = Members!Admins /\ Members!AdminLimit' = Members!AdminLimit
      BY DEF Members!Admins, Members!AdminLimit
    <3>8. Members!GainsBounded'
      BY <3>6, <3>7, SameCount DEF Members!GainsBounded
    <3>9. Members!CountLags' /\ Members!AdminsCountSettled'
      <4>1. (\A s \in Tasks : v9'[s].step # "sync") => (\A s \in Tasks : v9[s].step # "sync")
        BY <1>7 DEF Members!Syncing
      <4> QED BY <1>7, <3>7, <4>1
              DEF Members!CountLags, Members!AdminsCountSettled, Members!MembersInv
    <3> QED BY <3>8, <3>9 DEF Counted
  <2> QED BY <2>1, <2>2
<1>9. Members!MembersBounded'
  <2>1. Members!Members' = Members!Members
    BY DEF Members!Members, Members!Member
  <2> QED BY <1>1, <1>5, <1>7, <2>1, NoMoreMembers
<1>10. Members!CreatorSafe' /\ Members!RequestersAreOutside'
  BY <1>3, <1>4, CreatorAsBefore, RequestersAsBefore DEF Members!IdleTask, Spares
<1> QED BY <1>4, <1>5, <1>6, <1>8, <1>9, <1>10, Composed

\* A member has a row.
LEMMA RowOfMember ==
    ASSUME Members!MembersInv, NEW u \in Users
    PROVE  /\ v1[u] \in Members!Rows
           /\ ~v1[u].there => v1[u] = Members!NoRow
           /\ Members!Member(u) => v1[u].there
BY DEF Members!MembersInv, Members!TypeOK, Members!Member, Members!NoRow

LEMMA RequestKeeps ==
    ASSUME Members!MembersInv, NEW t \in Tasks, Members!Request(t), v15' = v15
    PROVE  Members!MembersInv'
<1>1. v9[t].step = "idle" /\ v10 < MaxRequests
  BY DEF Members!Request
<1>2. \A u \in Users : v1[u] \in Members!Rows /\ (Members!Member(u) => v1[u].there)
  BY RowOfMember
<1>3. v2 \in Users /\ v6 \in Nat /\ v15 \in Apps
  BY DEF Members!MembersInv, Members!TypeOK
<1>4. ASSUME NEW r \in Members!TaskStates, Members!Begins(t, r)
      PROVE  v9'[t] = r
  BY <1>4 DEF Members!Begins, Members!MembersInv, Members!TypeOK
<1>5. ASSUME NEW u \in Users, NEW v \in Users, NEW b \in Members!Bans, Members!EditBanned(t, u, v, b)
      PROVE  Members!MembersInv'
  <2> DEFINE r == [Members!IdleTask EXCEPT !.op = "ban", !.step = "target",
                      !.target = v, !.rights = b, !.boss = (u = v2)]
  <2>1. b \subseteq Members!BannedRights
    BY <1>3, AppsAssumption DEF Members!Bans
  <2>2. r \in Members!TaskStates
    BY <2>1 DEF Members!TaskStates, Members!IdleTask, Members!Ops, Members!Rows, Members!NoRow
  <2>3. Members!Begins(t, r) /\ u # v
    BY <1>5 DEF Members!EditBanned
  <2>4. v9'[t] = r
    BY <1>4, <2>2, <2>3
  <2>5. UNCHANGED <<v1, v2, v3, v4, v5, v6, v7, v8, v11, v12>>
    BY <1>5 DEF Members!EditBanned, Members!channel, Members!admins
  <2>6. Members!Consistent(t)'
    BY <2>1, <2>4 DEF Members!Consistent, Members!IdleTask, Members!NoRow
  <2>7. Members!Undisturbed(t)'
    <3>1. r.op = "ban" /\ r.step = "target" /\ r.target = v
      BY DEF Members!IdleTask
    <3>2. v = v2 => ~r.boss
      BY <2>3 DEF Members!IdleTask
    <3> HIDE DEF r
    <3> QED BY <2>4, <2>5, <3>1, <3>2 DEF Members!Undisturbed
  <2>8. Members!Subjects(r) \subseteq Users /\ r.step = "target" /\ r.op = "ban"
    BY DEF Members!Subjects, Members!IdleTask
  <2> HIDE DEF r
  <2> QED BY <1>1, <2>2, <2>3, <2>5, <2>6, <2>7, <2>8, BeginKeeps
<1>6. ASSUME NEW u \in Users, NEW v \in Users, NEW g \in Members!Grants, Members!EditAdmin(t, u, v, g)
      PROVE  Members!MembersInv'
  <2> DEFINE r == [Members!IdleTask EXCEPT !.op = "admin", !.step = "target", !.who = u,
                      !.target = v, !.rights = g, !.boss = (u = v2), !.own = v1[u].admin, !.count = v6]
  <2>1. g \subseteq Members!AllRights
    BY <1>3, AppsAssumption DEF Members!Grants
  <2>2. r \in Members!TaskStates
    BY ZenonT(60), <1>2, <1>3, <2>1 DEF Members!TaskStates, Members!IdleTask, Members!Ops, Members!Rows, Members!NoRow
  <2>3. Members!Begins(t, r) /\ (v = v2 => u = v)
    BY <1>6 DEF Members!EditAdmin
  <2>4. v9'[t] = r
    BY <1>4, <2>2, <2>3
  <2>5. UNCHANGED <<v1, v2, v3, v4, v5, v6, v7, v8, v11, v12>>
    BY <1>6 DEF Members!EditAdmin, Members!channel, Members!admins
  <2>6. Members!Consistent(t)'
    BY <2>1, <2>4 DEF Members!Consistent, Members!IdleTask, Members!NoRow
  <2>7. Members!Undisturbed(t)'
    <3>1. r.op = "admin" /\ r.step = "target" /\ r.who = u /\ r.target = v
      BY DEF Members!IdleTask
    <3>2. v = v2 => r.boss /\ u = v
      BY <2>3 DEF Members!IdleTask
    <3> HIDE DEF r
    <3> QED BY <2>4, <2>5, <3>1, <3>2 DEF Members!Undisturbed
  <2>8. Members!Subjects(r) \subseteq Users /\ r.step = "target" /\ r.op = "admin" /\ r.count = v6
    BY DEF Members!Subjects, Members!IdleTask
  <2> HIDE DEF r
  <2> QED BY <1>1, <2>2, <2>3, <2>5, <2>6, <2>7, <2>8, BeginKeeps
<1>7. ASSUME NEW u \in Users, NEW v \in Users, Members!EditCreator(t, u, v)
      PROVE  Members!MembersInv'
  <2> DEFINE r == [Members!IdleTask EXCEPT !.op = "transfer", !.step = "target", !.who = u, !.target = v]
  <2>1. r \in Members!TaskStates
    BY DEF Members!TaskStates, Members!IdleTask, Members!Ops, Members!Rows, Members!NoRow
  <2>2. Members!Begins(t, r) /\ u # v /\ Members!Member(u)
    BY <1>7 DEF Members!EditCreator
  <2>3. v9'[t] = r
    BY <1>4, <2>1, <2>2
  <2>4. UNCHANGED <<v1, v2, v3, v4, v5, v6, v7, v8, v11, v12>>
    BY <1>7 DEF Members!EditCreator, Members!channel, Members!admins
  <2>5. Members!Consistent(t)'
    BY <1>2, <2>2, <2>3, <2>4 DEF Members!Consistent, Members!IdleTask, Members!NoRow
  <2>6. Members!Undisturbed(t)'
    BY <2>3 DEF Members!Undisturbed, Members!IdleTask
  <2>7. Members!Subjects(r) \subseteq Users /\ r.step = "target" /\ r.op = "transfer"
    BY DEF Members!Subjects, Members!IdleTask
  <2> HIDE DEF r
  <2> QED BY <1>1, <2>1, <2>2, <2>4, <2>5, <2>6, <2>7, BeginKeeps
<1>8. ASSUME NEW u \in Users, NEW v \in Users, NEW op \in {"add", "approve", "dismiss"},
             Members!Begins(t, [Members!IdleTask EXCEPT !.op = op, !.step = "target", !.target = v]),
             UNCHANGED <<v1, v2, v3, v4, v5, v6, v7, v8, v11, v12>>
      PROVE  Members!MembersInv'
  <2> DEFINE r == [Members!IdleTask EXCEPT !.op = op, !.step = "target", !.target = v]
  <2>1. r \in Members!TaskStates
    BY DEF Members!TaskStates, Members!IdleTask, Members!Ops, Members!Rows, Members!NoRow
  <2>2. v9'[t] = r
    BY <1>4, <1>8, <2>1
  <2>3. Members!Consistent(t)'
    BY <2>2 DEF Members!Consistent, Members!IdleTask, Members!NoRow
  <2>4. Members!Undisturbed(t)'
    BY <2>2 DEF Members!Undisturbed, Members!IdleTask
  <2>5. Members!Subjects(r) \subseteq Users /\ r.step = "target" /\ r.op # "admin"
    BY DEF Members!Subjects, Members!IdleTask
  <2>6. Members!Begins(t, r)
    BY <1>8
  <2> HIDE DEF r
  <2> QED BY <1>1, <1>8, <2>1, <2>3, <2>4, <2>5, <2>6, BeginKeeps
<1>9. ASSUME NEW u \in Users, Members!JoinChannel(t, u)
      PROVE  Members!MembersInv'
  <2> DEFINE r == [Members!IdleTask EXCEPT !.op = "join", !.step = "limit", !.target = u]
  <2>1. r \in Members!TaskStates
    BY DEF Members!TaskStates, Members!IdleTask, Members!Ops, Members!Rows, Members!NoRow
  <2>2. Members!Begins(t, r)
    BY <1>9 DEF Members!JoinChannel
  <2>3. v9'[t] = r
    BY <1>4, <2>1, <2>2
  <2>4. UNCHANGED <<v1, v2, v3, v4, v5, v6, v7, v8, v11, v12>>
    BY <1>9 DEF Members!JoinChannel, Members!channel, Members!admins
  <2>5. Members!Consistent(t)' /\ Members!Undisturbed(t)'
    BY <2>3 DEF Members!Consistent, Members!Undisturbed, Members!IdleTask, Members!NoRow
  <2>6. Members!Subjects(r) \subseteq Users /\ r.step = "limit" /\ r.op = "join"
    BY DEF Members!Subjects, Members!IdleTask
  <2> HIDE DEF r
  <2> QED BY <1>1, <2>1, <2>2, <2>4, <2>5, <2>6, BeginKeeps
<1>10. ASSUME NEW u \in Users, NEW i \in Members!InviteIds, Members!ImportInvite(t, u, i)
       PROVE  Members!MembersInv'
  <2> DEFINE r == [Members!IdleTask EXCEPT !.op = "import", !.step = "target", !.target = u,
                      !.inv = i, !.flag = (v7[i].ask \/ v5)]
  <2>1. i \in Nat /\ (v7[i].ask \/ v5) \in BOOLEAN
    BY BoundsAssumption DEF Members!InviteIds
  <2>2. r \in Members!TaskStates
    BY <2>1 DEF Members!TaskStates, Members!IdleTask, Members!Ops, Members!Rows, Members!NoRow
  <2>3. Members!Begins(t, r)
    BY <1>10 DEF Members!ImportInvite
  <2>4. v9'[t] = r
    BY <1>4, <2>2, <2>3
  <2>5. UNCHANGED <<v1, v2, v3, v4, v5, v6, v7, v8, v11, v12>>
    BY <1>10 DEF Members!ImportInvite, Members!channel, Members!admins
  <2>6. Members!Consistent(t)' /\ Members!Undisturbed(t)'
    BY <2>4 DEF Members!Consistent, Members!Undisturbed, Members!IdleTask, Members!NoRow, Members!InviteIds
  <2>7. Members!Subjects(r) \subseteq Users /\ r.step = "target" /\ r.op = "import"
    BY DEF Members!Subjects, Members!IdleTask
  <2> HIDE DEF r
  <2> QED BY <1>1, <2>2, <2>3, <2>5, <2>6, <2>7, BeginKeeps
<1>11. ASSUME NEW u \in Users, Members!LeaveChannel(t, u)
       PROVE  Members!MembersInv'
  <2> DEFINE r == [Members!IdleTask EXCEPT !.op = "leave", !.step = "write", !.target = u]
  <2>1. r \in Members!TaskStates
    BY DEF Members!TaskStates, Members!IdleTask, Members!Ops, Members!Rows, Members!NoRow
  <2>2. Members!Begins(t, r) /\ Members!Member(u) /\ u # v2
    BY <1>11 DEF Members!LeaveChannel, Members!CanLeave
  <2>3. v9'[t] = r
    BY <1>4, <2>1, <2>2
  <2>4. UNCHANGED <<v1, v2, v3, v4, v5, v6, v7, v8, v11, v12>>
    BY <1>11 DEF Members!LeaveChannel, Members!channel, Members!admins
  <2>5. Members!Consistent(t)'
    BY <1>2, <2>2, <2>3, <2>4 DEF Members!Consistent, Members!IdleTask, Members!NoRow
  <2>6. Members!Undisturbed(t)'
    BY <2>2, <2>3, <2>4 DEF Members!Undisturbed, Members!IdleTask
  <2>7. Members!Subjects(r) \subseteq Users /\ r.step = "write" /\ r.op = "leave"
    BY DEF Members!Subjects, Members!IdleTask
  <2> HIDE DEF r
  <2> QED BY <1>1, <2>1, <2>2, <2>4, <2>5, <2>6, <2>7, BeginKeeps
<1>12. ASSUME NEW u \in Users, NEW v \in Users,
              Members!InviteToChannel(t, u, v) \/ \E op \in {"approve", "dismiss"} :
                                                    Members!HideJoinRequest(t, u, v, op)
       PROVE  Members!MembersInv'
  BY <1>8, <1>12 DEF Members!InviteToChannel, Members!HideJoinRequest, Members!channel, Members!admins
<1> QED BY <1>5, <1>6, <1>7, <1>9, <1>10, <1>11, <1>12 DEF Members!Request

-----------------------------------------------------------------------------
(* Members: a request reads, or ends with an error *)

\* Whoever is entering now was before, or there is room for one more.
Fits == \/ Members!Entering' \subseteq Members!Members \cup Members!Entering
        \/ Cardinality(Members!Members) <= Members!MemberLimit

LEMMA BoundedMembers ==
    ASSUME Members!MembersInv, Members!TypeOK', UNCHANGED <<v1, v15>>, Fits,
           v14' >= v14, v14' >= Cardinality(Members!Entering'),
           Cardinality(Members!Entering') \in Nat, Members!Entering' \subseteq Users \cup {NoUser}
    PROVE  Members!MembersBounded'
<1>1. Members!Members' = Members!Members
  BY DEF Members!Members, Members!Member
<1>2. CASE Members!Entering' \subseteq Members!Members \cup Members!Entering
  BY <1>1, <1>2, NoMoreMembers
<1>3. CASE Cardinality(Members!Members) <= Members!MemberLimit
  <2>1. IsFiniteSet(Members!Members) /\ IsFiniteSet(Members!Entering')
    BY SetsAssumption, FS_AddElement, FS_Subset DEF Members!Members
  <2>2. Cardinality(Members!Members \cup Members!Entering')
          = Cardinality(Members!Members) + Cardinality(Members!Entering')
              - Cardinality(Members!Members \cap Members!Entering')
    BY <2>1, FS_Union
  <2>3. /\ Cardinality(Members!Members) \in Nat
        /\ Cardinality(Members!Members \cap Members!Entering') \in Nat
        /\ v14' \in Nat /\ Members!MemberLimit \in Nat /\ Members!MemberLimit' = Members!MemberLimit
    BY <2>1, FS_Intersection, FS_CardinalityType, CountTypes
       DEF Members!MembersInv, Members!TypeOK, Members!MemberLimit
  <2>4. Cardinality(Members!Members \cup Members!Entering') <= Members!MemberLimit + v14'
    BY <1>3, <2>2, <2>3
  <2> QED BY <1>1, <2>3, <2>4, SameCount DEF Members!MembersBounded
<1> QED BY <1>2, <1>3 DEF Fits

LEMMA MoveKeeps ==
    ASSUME Members!MembersInv, NEW t \in Tasks, NEW r \in Members!TaskStates,
           v9[t].step \notin {"idle", "sync", "drop"}, Members!Moves(t, r),
           UNCHANGED <<v1, v2, v3, v4, v5, v6, v7, v8, v11, v12, v15>>,
           r = Members!IdleTask \/ (r.step \notin {"idle", "sync"} /\ Members!Subjects(r) = Members!Subjects(v9[t])),
           Members!Consistent(t)', Members!Undisturbed(t)',
           t \in Members!MayGain' => t \in Members!MayGain,
           Fits
    PROVE  Members!MembersInv'
<1>1. /\ v9' \in [Tasks -> Members!TaskStates] /\ v9'[t] = r
      /\ \A s \in Tasks \ {t} : v9'[s] = v9[s]
      /\ \A s \in Tasks : v9'[s].step = "idle" => v9'[s] = Members!IdleTask
      /\ v14' \in Nat /\ v14' >= v14 /\ v14' >= Cardinality(Members!Entering')
      /\ Cardinality(Members!Entering') \in Nat
      /\ Members!Entering' \subseteq Users \cup {NoUser}
  BY TasksMoved DEF Members!Moves, Members!IdleTask
<1>2. v10' = v10 /\ v13' = v13
  BY DEF Members!Moves
<1>3. Spares(t)
  BY <1>1, <1>2 DEF Spares
<1>4. Members!TypeOK'
  BY <1>1, <1>2 DEF Members!MembersInv, Members!TypeOK
<1>5. Members!Apart'
  BY <1>1, <1>3, StaysApart DEF Members!MembersInv, Members!IdleTask
<1>6. Counted'
  <2>1. Members!Syncing' = Members!Syncing
    BY <1>1 DEF Members!Syncing, Members!IdleTask
  <2>2. Members!MayGain' \subseteq Members!MayGain
    <3>1. ASSUME NEW s \in Members!MayGain', s # t
          PROVE  s \in Members!MayGain
      BY <1>1, <3>1 DEF Members!MayGain, Members!AdminLimit
    <3> QED BY <3>1 DEF Members!MayGain
  <2> QED BY <1>4, <2>1, <2>2, AdminsAsBefore
<1>7. Members!MembersBounded'
  BY <1>1, <1>4, BoundedMembers
<1>8. Members!CreatorSafe' /\ Members!RequestersAreOutside'
  BY <1>2, <1>3, CreatorAsBefore, RequestersAsBefore
<1> QED BY <1>3, <1>4, <1>5, <1>6, <1>7, <1>8, Composed

LEMMA IdleTyped == Members!IdleTask \in Members!TaskStates
BY DEF Members!TaskStates, Members!IdleTask, Members!Ops, Members!Rows, Members!NoRow

LEMMA RefusedKeeps ==
    ASSUME Members!MembersInv, NEW t \in Tasks, v9[t].step \notin {"idle", "sync", "drop"},
           Members!Refused(t), v15' = v15
    PROVE  Members!MembersInv'
<1>1. /\ Members!Moves(t, Members!IdleTask)
      /\ UNCHANGED <<v1, v2, v3, v4, v5, v6, v7, v8, v11, v12>>
  BY DEF Members!Refused, Members!Ends, Members!channel, Members!admins
<1>2. /\ v9'[t] = Members!IdleTask
      /\ \A s \in Tasks \ {t} : v9'[s] = v9[s]
  BY <1>1 DEF Members!Moves, Members!MembersInv, Members!TypeOK
<1>3. t \notin Members!MayGain'
  BY <1>2 DEF Members!MayGain, Members!IdleTask
<1>4. Members!Entering' \subseteq Members!Entering
  BY <1>2 DEF Members!Entering, Members!LeftAfterBan, Members!IdleTask
<1> QED BY <1>1, <1>2, <1>3, <1>4, IdleTyped, IdleHolds, MoveKeeps DEF Fits

\* The steps that only read
LEMMA ReadKeeps ==
    ASSUME Members!MembersInv, NEW t \in Tasks, v15' = v15,
           \/ Members!ReadBanned(t) \/ Members!ReadAdmin(t) \/ Members!ReadNewCreator(t)
           \/ Members!ReadInvitee(t) \/ Members!ReadImporter(t) \/ Members!CountMembers(t)
           \/ Members!ReadRequest(t)
    PROVE  Members!MembersInv'
<1>1. v9[t] \in Members!TaskStates /\ Members!Consistent(t) /\ Members!Undisturbed(t)
  BY DEF Members!MembersInv, Members!TypeOK
<1>2. v9[t].step \in {"target", "limit"}
  BY DEF Members!ReadBanned, Members!ReadAdmin, Members!ReadNewCreator, Members!ReadInvitee,
         Members!ReadImporter, Members!CountMembers, Members!ReadRequest, Members!At
<1>3. v9[t].target \in Users /\ v9[t].op # "idle"
  BY <1>1, <1>2 DEF Members!Consistent
<1>4. /\ v1[v9[t].target] \in Members!Rows
      /\ ~v1[v9[t].target].there => v1[v9[t].target] = Members!NoRow
      /\ Members!Member(v9[t].target) => v1[v9[t].target].there
  BY <1>3, RowOfMember
<1>5. CASE Members!Refused(t)
  BY <1>2, <1>5, RefusedKeeps
<1>6. ASSUME NEW r \in Members!TaskStates, Members!Moves(t, r),
             UNCHANGED <<v1, v2, v3, v4, v5, v6, v7, v8, v11, v12>>
      PROVE  /\ v9'[t] = r /\ \A s \in Tasks \ {t} : v9'[s] = v9[s]
             /\ v13' = v13
  BY <1>6 DEF Members!Moves, Members!MembersInv, Members!TypeOK
<1> USE DEF Members!channel, Members!admins
<1>7. ASSUME Members!ReadBanned(t), ~Members!Refused(t)
      PROVE  Members!MembersInv'
  <2> DEFINE r == [v9[t] EXCEPT !.step = "write", !.seen = v1[v9[t].target]]
  <2>1. /\ v9[t].op = "ban" /\ Members!Moves(t, r)
        /\ UNCHANGED <<v1, v2, v3, v4, v5, v6, v7, v8, v11, v12>>
        /\ ~(v1[v9[t].target].admin # {} /\ ~v9[t].boss)
    BY <1>7 DEF Members!ReadBanned, Members!At
  <2>2. /\ r \in Members!TaskStates /\ r.op = "ban" /\ r.step = "write" /\ r.target = v9[t].target
        /\ r.rights = v9[t].rights /\ r.seen = v1[v9[t].target]
    BY <1>1, <1>4, <2>1 DEF Members!TaskStates
  <2> HIDE DEF r
  <2>3. /\ v9'[t] = r /\ \A s \in Tasks \ {t} : v9'[s] = v9[s]
        /\ v13' = v13
    BY <1>6, <2>1, <2>2
  <2>4. Members!Consistent(t)'
    BY <1>1, <1>3, <2>1, <2>2, <2>3 DEF Members!Consistent
  <2>5. v2 \in v13 \/ v9[t].target # v2
    BY <1>1, <1>2, <1>3, <2>1 DEF Members!Undisturbed, Members!MembersInv, Members!CreatorSafe, Members!AllRights
  <2>6. Members!Undisturbed(t)'
    BY <2>1, <2>2, <2>3, <2>5 DEF Members!Undisturbed
  <2>7. t \notin Members!MayGain'
    BY <2>2, <2>3 DEF Members!MayGain
  <2>8. Fits
    <3>1. ~v9'[t].seen.left => v9'[t].target \in Members!Members
      BY <1>3, <2>2, <2>3 DEF Members!Members, Members!Member
    <3>2. ASSUME NEW u \in Members!Entering' PROVE u \in Members!Members \cup Members!Entering
      <4>1. PICK s \in Tasks :
               /\ v9'[s].target = u /\ v9'[s].step = "write"
               /\ \/ v9'[s].op \in {"join", "import", "add", "approve"}
                  \/ v9'[s].op = "ban" /\ ~Members!LeftAfterBan(s)'
        BY DEF Members!Entering
      <4>2. CASE s = t
        BY <2>2, <2>3, <3>1, <4>1, <4>2 DEF Members!LeftAfterBan
      <4>3. CASE s # t
        BY <2>3, <4>1, <4>3 DEF Members!Entering, Members!LeftAfterBan
      <4> QED BY <4>2, <4>3
    <3> QED BY <3>2 DEF Fits
  <2>9. Members!Subjects(r) = Members!Subjects(v9[t])
    BY <2>1, <2>2 DEF Members!Subjects
  <2> QED BY <1>2, <2>1, <2>2, <2>4, <2>6, <2>7, <2>8, <2>9, MoveKeeps
<1>8. ASSUME Members!ReadAdmin(t), ~Members!Refused(t)
      PROVE  Members!MembersInv'
  <2> DEFINE new == IF v9[t].boss /\ v9[t].who = v9[t].target
                    THEN v9[t].rights \cup Members!AllRights ELSE v9[t].rights
             r == [v9[t] EXCEPT !.step = "write", !.rights = new,
                      !.flag = (v1[v9[t].target].admin # {} \/ v9[t].rights = {})]
  <2>1. /\ v9[t].op = "admin" /\ Members!Moves(t, r) /\ v9[t].step = "target"
        /\ UNCHANGED <<v1, v2, v3, v4, v5, v6, v7, v8, v11, v12>>
        /\ ~v1[v9[t].target].left /\ ~Members!TooManyAdmins(t)
    BY <1>8 DEF Members!ReadAdmin, Members!At
  <2>2. v9[t].rights \subseteq Members!AllRights /\ new \subseteq Members!AllRights
    BY <1>1, <2>1 DEF Members!Consistent
  <2>3. /\ r \in Members!TaskStates /\ r.op = "admin" /\ r.step = "write" /\ r.target = v9[t].target
        /\ r.rights = new /\ r.count = v9[t].count /\ r.who = v9[t].who /\ r.seen = v9[t].seen
        /\ r.boss = v9[t].boss
    BY <1>1, <2>1, <2>2 DEF Members!TaskStates
  <2>4. ~r.flag => v1[v9[t].target].admin = {} /\ v9[t].rights # {}
    BY <1>1 DEF Members!TaskStates
  <2>5. ~r.flag => v9[t].count < Members!AdminLimit
    <3>1. v9[t].count \in Nat /\ Members!AdminLimit \in Nat
      BY <1>1, CountTypes DEF Members!TaskStates, Members!MembersInv
    <3> HIDE DEF r
    <3> QED BY <2>1, <2>4, <3>1 DEF Members!TooManyAdmins
  <2>6. v9[t].target = v2 => v2 \in v13 \/ (v9[t].boss /\ v9[t].who = v9[t].target)
    BY <1>1, <2>1 DEF Members!Undisturbed
  <2>7. v9[t].boss /\ v9[t].who = v9[t].target => new = Members!AllRights
    BY <2>2
  <2> HIDE DEF r, new
  <2>8. /\ v9'[t] = r /\ \A s \in Tasks \ {t} : v9'[s] = v9[s]
        /\ v13' = v13
    BY <1>6, <2>1, <2>3
  <2>9. v1[v9[t].target].there
    BY <1>4, <2>1 DEF Members!Member
  <2>10. Members!Consistent(t)'
    BY <1>1, <1>3, <2>1, <2>2, <2>3, <2>5, <2>8, <2>9 DEF Members!Consistent, Members!AdminLimit
  <2>11. Members!Undisturbed(t)'
    BY <2>1, <2>3, <2>6, <2>7, <2>8 DEF Members!Undisturbed
  <2>12. t \in Members!MayGain' => t \in Members!MayGain
    BY <2>1, <2>3, <2>8 DEF Members!MayGain, Members!AdminLimit
  <2>13. Fits
    BY <2>3, <2>8 DEF Fits, Members!Entering, Members!LeftAfterBan
  <2>14. Members!Subjects(r) = Members!Subjects(v9[t])
    BY <2>1, <2>3 DEF Members!Subjects
  <2> QED BY <1>2, <2>1, <2>3, <2>10, <2>11, <2>12, <2>13, <2>14, MoveKeeps
<1>9. ASSUME Members!ReadNewCreator(t), ~Members!Refused(t)
      PROVE  Members!MembersInv'
  <2> DEFINE r == [v9[t] EXCEPT !.step = "write"]
  <2>1. /\ v9[t].op = "transfer" /\ Members!Moves(t, r)
        /\ UNCHANGED <<v1, v2, v3, v4, v5, v6, v7, v8, v11, v12>>
        /\ Members!Member(v9[t].target)
    BY <1>9 DEF Members!ReadNewCreator, Members!At, Members!Goto
  <2>2. /\ r \in Members!TaskStates /\ r.op = "transfer" /\ r.step = "write" /\ r.target = v9[t].target
        /\ r.who = v9[t].who /\ r.seen = v9[t].seen
    BY <1>1, <2>1 DEF Members!TaskStates
  <2> HIDE DEF r
  <2>3. /\ v9'[t] = r /\ \A s \in Tasks \ {t} : v9'[s] = v9[s]
        /\ v13' = v13
    BY <1>6, <2>1, <2>2
  <2>4. Members!Consistent(t)'
    BY <1>1, <1>3, <1>4, <2>1, <2>2, <2>3 DEF Members!Consistent
  <2>5. Members!Undisturbed(t)'
    BY <2>1, <2>2, <2>3 DEF Members!Undisturbed, Members!Member
  <2>6. t \notin Members!MayGain'
    BY <2>2, <2>3 DEF Members!MayGain
  <2>7. Fits
    BY <2>2, <2>3 DEF Fits, Members!Entering, Members!LeftAfterBan
  <2>8. Members!Subjects(r) = Members!Subjects(v9[t])
    BY <2>1, <2>2 DEF Members!Subjects
  <2> QED BY <1>2, <2>1, <2>2, <2>4, <2>5, <2>6, <2>7, <2>8, MoveKeeps
<1>10. ASSUME Members!ReadInvitee(t), ~Members!Refused(t)
       PROVE  Members!MembersInv'
  <2> DEFINE r == [v9[t] EXCEPT !.step = "write", !.seen = v1[v9[t].target]]
  <2>1. /\ v9[t].op = "add" /\ Members!Moves(t, r)
        /\ UNCHANGED <<v1, v2, v3, v4, v5, v6, v7, v8, v11, v12>>
        /\ ~(Cardinality(Members!Members) >= Members!MemberLimit)
    BY <1>10, SameCount DEF Members!ReadInvitee, Members!At
  <2>2. /\ r \in Members!TaskStates /\ r.op = "add" /\ r.step = "write" /\ r.target = v9[t].target
        /\ r.seen = v1[v9[t].target]
    BY <1>1, <1>4, <2>1 DEF Members!TaskStates
  <2> HIDE DEF r
  <2>3. /\ v9'[t] = r /\ v13' = v13
    BY <1>6, <2>1, <2>2
  <2>4. Members!Consistent(t)'
    BY <1>1, <1>3, <2>1, <2>2, <2>3 DEF Members!Consistent
  <2>5. Members!Undisturbed(t)'
    BY <2>1, <2>2, <2>3 DEF Members!Undisturbed
  <2>6. t \notin Members!MayGain'
    BY <2>2, <2>3 DEF Members!MayGain
  <2>7. Fits
    <3>1. Cardinality(Members!Members) \in Nat /\ Members!MemberLimit \in Nat
      BY CountTypes, FiniteSets DEF Members!MembersInv, Members!Members
    <3> QED BY <2>1, <3>1 DEF Fits
  <2>8. Members!Subjects(r) = Members!Subjects(v9[t])
    BY <2>1, <2>2 DEF Members!Subjects
  <2> QED BY <1>2, <2>1, <2>2, <2>4, <2>5, <2>6, <2>7, <2>8, MoveKeeps
<1>11. ASSUME Members!ReadImporter(t), ~Members!Refused(t)
       PROVE  Members!MembersInv'
  <2> DEFINE r == [v9[t] EXCEPT !.step = IF v9[t].flag THEN "create" ELSE "limit"]
  <2>1. /\ v9[t].op = "import" /\ Members!Moves(t, r)
        /\ UNCHANGED <<v1, v2, v3, v4, v5, v6, v7, v8, v11, v12>>
        /\ ~Members!Member(v9[t].target) /\ "view_messages" \notin v1[v9[t].target].banned
    BY <1>11 DEF Members!ReadImporter, Members!At, Members!Goto
  <2>2. /\ r \in Members!TaskStates /\ r.op = "import" /\ r.step \in {"create", "limit"}
        /\ r.target = v9[t].target /\ r.seen = v9[t].seen /\ r.inv = v9[t].inv
    BY <1>1, <2>1 DEF Members!TaskStates
  <2> HIDE DEF r
  <2>3. /\ v9'[t] = r /\ \A s \in Tasks \ {t} : v9'[s] = v9[s]
        /\ v13' = v13
    BY <1>6, <2>1, <2>2
  <2>4. Members!Consistent(t)'
    BY <1>1, <1>3, <2>1, <2>2, <2>3 DEF Members!Consistent, Members!InviteIds
  <2>5. Members!Undisturbed(t)'
    BY <1>4, <2>1, <2>2, <2>3 DEF Members!Undisturbed, Members!Member, Members!Rows
  <2>6. t \notin Members!MayGain'
    BY <2>2, <2>3 DEF Members!MayGain
  <2>7. Fits
    BY <2>2, <2>3 DEF Fits, Members!Entering, Members!LeftAfterBan
  <2>8. Members!Subjects(r) = Members!Subjects(v9[t])
    BY <2>1, <2>2 DEF Members!Subjects
  <2> QED BY <1>2, <2>1, <2>2, <2>4, <2>5, <2>6, <2>7, <2>8, MoveKeeps
<1>12. ASSUME Members!CountMembers(t), ~Members!Refused(t)
       PROVE  Members!MembersInv'
  <2> DEFINE r == [v9[t] EXCEPT !.step = "write"]
  <2>1. /\ v9[t].op \in {"join", "import"} /\ Members!Moves(t, r)
        /\ UNCHANGED <<v1, v2, v3, v4, v5, v6, v7, v8, v11, v12>>
        /\ Cardinality(Members!Members) <= Members!MemberLimit
    BY <1>12, SameCount DEF Members!CountMembers, Members!RoomForMember, Members!Goto
  <2>2. /\ r \in Members!TaskStates /\ r.op = v9[t].op /\ r.step = "write"
        /\ r.target = v9[t].target /\ r.seen = v9[t].seen /\ r.inv = v9[t].inv
    BY <1>1, <2>1 DEF Members!TaskStates
  <2> HIDE DEF r
  <2>3. v9'[t] = r /\ v13' = v13
    BY <1>6, <2>1, <2>2
  <2>4. Members!Consistent(t)'
    BY <1>1, <1>3, <2>1, <2>2, <2>3 DEF Members!Consistent, Members!InviteIds
  <2>5. Members!Undisturbed(t)'
    BY <2>1, <2>2, <2>3 DEF Members!Undisturbed
  <2>6. t \notin Members!MayGain'
    BY <2>1, <2>2, <2>3 DEF Members!MayGain
  <2>7. Members!Subjects(r) = Members!Subjects(v9[t])
    BY <2>1, <2>2 DEF Members!Subjects
  <2> QED BY <1>2, <2>1, <2>2, <2>4, <2>5, <2>6, <2>7, MoveKeeps DEF Fits
<1>13. ASSUME Members!ReadRequest(t), ~Members!Refused(t)
       PROVE  Members!MembersInv'
  <2>1. \/ /\ v9[t].op = "dismiss" /\ Members!Moves(t, [v9[t] EXCEPT !.step = "drop"])
        \/ /\ v9[t].op = "approve"
           /\ ~(Cardinality({u \in Users : v1[u].there}) + 1 > Members!MemberLimit)
           /\ \E q \in v8 : Members!Moves(t, [v9[t] EXCEPT !.step = "write", !.inv = q[2]])
    BY <1>13, SameCount DEF Members!ReadRequest, Members!Goto
  <2>2. UNCHANGED <<v1, v2, v3, v4, v5, v6, v7, v8, v11, v12>>
    BY <1>13 DEF Members!ReadRequest
  <2>3. PICK r \in Members!TaskStates :
           /\ Members!Moves(t, r)
           /\ r.op = v9[t].op /\ r.target = v9[t].target /\ r.seen = v9[t].seen
           /\ (r.op = "dismiss" /\ r.step = "drop") \/ (r.op = "approve" /\ r.step = "write")
    <3>1. CASE v9[t].op = "dismiss" /\ Members!Moves(t, [v9[t] EXCEPT !.step = "drop"])
      <4> DEFINE next == [v9[t] EXCEPT !.step = "drop"]
      <4>1. /\ next \in Members!TaskStates /\ next.op = v9[t].op /\ next.target = v9[t].target
            /\ next.seen = v9[t].seen /\ next.step = "drop"
        BY <1>1 DEF Members!TaskStates
      <4>2. Members!Moves(t, next)
        BY <3>1
      <4>3. next.op = "dismiss"
        BY <3>1, <4>1
      <4> HIDE DEF next
      <4> QED BY <4>1, <4>2, <4>3
    <3>2. CASE \E q \in v8 : v9[t].op = "approve"
                  /\ Members!Moves(t, [v9[t] EXCEPT !.step = "write", !.inv = q[2]])
      <4>1. PICK q \in v8 : v9[t].op = "approve"
                  /\ Members!Moves(t, [v9[t] EXCEPT !.step = "write", !.inv = q[2]])
        BY <3>2
      <4> DEFINE next == [v9[t] EXCEPT !.step = "write", !.inv = q[2]]
      <4>2. q[2] \in Nat
        BY BoundsAssumption DEF Members!MembersInv, Members!TypeOK, Members!InviteIds
      <4>3. /\ next \in Members!TaskStates /\ next.op = v9[t].op /\ next.target = v9[t].target
            /\ next.seen = v9[t].seen /\ next.step = "write"
        BY <1>1, <4>2 DEF Members!TaskStates
      <4>4. Members!Moves(t, next)
        BY <4>1
      <4> HIDE DEF next
      <4> QED BY <4>1, <4>3, <4>4
    <3> QED BY <2>1, <3>1, <3>2
  <2>4. v9'[t] = r /\ v13' = v13 /\ \A s \in Tasks \ {t} : v9'[s] = v9[s]
    BY <1>6, <2>2, <2>3
  <2>5. Members!Consistent(t)'
    BY <1>1, <1>3, <2>2, <2>3, <2>4 DEF Members!Consistent
  <2>6. Members!Undisturbed(t)'
    BY <2>3, <2>4 DEF Members!Undisturbed
  <2>7. t \notin Members!MayGain'
    BY <2>3, <2>4 DEF Members!MayGain
  <2>8. Fits
    <3>1. CASE r.op = "dismiss"
      BY <2>3, <2>4, <3>1 DEF Fits, Members!Entering, Members!LeftAfterBan
    <3>2. CASE r.op = "approve"
      <4>1. Members!Members \subseteq {u \in Users : v1[u].there}
        BY RowOfMember DEF Members!Members
      <4>2. /\ Cardinality(Members!Members) <= Cardinality({u \in Users : v1[u].there})
            /\ Cardinality({u \in Users : v1[u].there}) \in Nat /\ Cardinality(Members!Members) \in Nat
        BY <4>1, Smaller
      <4>3. ~(Cardinality({u \in Users : v1[u].there}) + 1 > Members!MemberLimit)
        BY <2>1, <2>3, <3>2
      <4>4. Members!MemberLimit \in Nat
        BY CountTypes DEF Members!MembersInv
      <4> QED BY <4>2, <4>3, <4>4 DEF Fits
    <3> QED BY <2>3, <3>1, <3>2
  <2>9. Members!Subjects(r) = Members!Subjects(v9[t])
    BY <2>3 DEF Members!Subjects
  <2> QED BY <1>2, <2>2, <2>3, <2>5, <2>6, <2>7, <2>8, <2>9, MoveKeeps
<1> QED BY <1>5, <1>7, <1>8, <1>9, <1>10, <1>11, <1>12, <1>13

-----------------------------------------------------------------------------
(* Members: a request writes *)

LEMMA WriteKeeps ==
    ASSUME Members!MembersInv, NEW t \in Tasks, NEW r \in Members!TaskStates,
           v9[t].step # "idle", Members!Moves(t, r), v15' = v15,
           r = Members!IdleTask \/ (r.step # "idle" /\ Members!Subjects(r) = Members!Subjects(v9[t])),
           v1' \in [Users -> Members!Rows], \A u \in Users : ~v1'[u].there => v1'[u] = Members!NoRow,
           \A u \in Users \ Members!Subjects(v9[t]) : v1'[u] = v1[u],
           \A u \in Users : v1[u].there => v1'[u].there,
           v2' \in Users, v2' # v2 => v2' \in Members!Subjects(v9[t]), UNCHANGED <<v3, v4, v5>>,
           v7' \in [Members!InviteIds -> Members!Invites], v8' \subseteq Users \X Members!InviteIds,
           v6' \in Nat, v11' \in BOOLEAN, v12' \in Nat,
           Members!Consistent(t)', Members!Undisturbed(t)', Counted',
           Members!Members' \cup Members!Entering' \subseteq Members!Members \cup Members!Entering,
           Members!CreatorSafe', Members!RequestersAreOutside'
    PROVE  Members!MembersInv'
<1>1. /\ v9' \in [Tasks -> Members!TaskStates] /\ v9'[t] = r
      /\ \A s \in Tasks \ {t} : v9'[s] = v9[s]
      /\ \A s \in Tasks : v9'[s].step = "idle" => v9'[s] = Members!IdleTask
      /\ v14' \in Nat /\ v14' >= v14
  BY TasksMoved DEF Members!Moves, Members!IdleTask
<1>2. v10' = v10 /\ v13' = v13
  BY DEF Members!Moves
<1>3. Spares(t)
  BY <1>1, <1>2 DEF Spares
<1>4. Members!TypeOK'
  BY <1>1, <1>2 DEF Members!MembersInv, Members!TypeOK
<1>5. Members!Apart'
  BY <1>1, <1>3, StaysApart DEF Members!MembersInv, Members!IdleTask
<1>6. Members!MembersBounded'
  BY <1>1, <1>4, NoMoreMembers
<1> QED BY <1>3, <1>4, <1>5, <1>6, Composed

\* A request that has written enters no more, and makes no admin.
LEMMA HasWritten ==
    ASSUME Members!MembersInv, NEW t \in Tasks, NEW r \in Members!TaskStates,
           r.step \in {"idle", "drop", "sync"}, Members!Moves(t, r), v15' = v15
    PROVE  /\ v9'[t] = r /\ \A s \in Tasks \ {t} : v9'[s] = v9[s]
           /\ v13' = v13
           /\ Members!Entering' \subseteq Members!Entering
           /\ Members!MayGain' \subseteq Members!MayGain \ {t}
<1>1. v9'[t] = r /\ \A s \in Tasks \ {t} : v9'[s] = v9[s]
  BY DEF Members!Moves, Members!MembersInv, Members!TypeOK
<1>2. v13' = v13
  BY DEF Members!Moves
<1>3. Members!Entering' \subseteq Members!Entering
  BY <1>1 DEF Members!Entering, Members!LeftAfterBan
<1>4. ASSUME NEW s \in Members!MayGain' PROVE s \in Members!MayGain \ {t}
  <2>1. s # t
    BY <1>1 DEF Members!MayGain
  <2> QED BY <1>1, <1>4, <2>1 DEF Members!MayGain, Members!AdminLimit
<1> QED BY <1>1, <1>2, <1>3, <1>4

\* What is known of a request that writes, by its target
LEMMA WriterKnows ==
    ASSUME Members!MembersInv, NEW t \in Tasks, v9[t].step \in {"write", "create", "drop", "sync"}
    PROVE  /\ v9[t] \in Members!TaskStates /\ Members!Consistent(t) /\ Members!Undisturbed(t)
           /\ v9[t].target \in Users /\ v9[t].op # "idle"
           /\ v9[t].target \in Members!Subjects(v9[t])
           /\ v1 \in [Users -> Members!Rows] /\ v1[v9[t].target] \in Members!Rows
           /\ \A u \in Users : ~v1[u].there => v1[u] = Members!NoRow
           /\ v2 \in Users /\ v6 \in Nat /\ v11 \in BOOLEAN /\ v12 \in Nat
           /\ v7 \in [Members!InviteIds -> Members!Invites] /\ v8 \subseteq Users \X Members!InviteIds
           /\ v2 \notin v13 => ~v1[v2].left /\ v1[v2].admin = Members!AllRights /\ v1[v2].there
<1>1. /\ v9[t] \in Members!TaskStates /\ Members!Consistent(t) /\ Members!Undisturbed(t)
      /\ v1 \in [Users -> Members!Rows]
      /\ \A u \in Users : ~v1[u].there => v1[u] = Members!NoRow
      /\ v2 \in Users /\ v6 \in Nat /\ v11 \in BOOLEAN /\ v12 \in Nat
      /\ v7 \in [Members!InviteIds -> Members!Invites] /\ v8 \subseteq Users \X Members!InviteIds
  BY DEF Members!MembersInv, Members!TypeOK
<1>2. v9[t].target \in Users /\ v9[t].op # "idle"
  BY <1>1 DEF Members!Consistent
<1>3. v2 \notin v13 => ~v1[v2].left /\ v1[v2].admin = Members!AllRights
  BY DEF Members!MembersInv, Members!CreatorSafe, Members!Member
<1> QED BY <1>1, <1>2, <1>3 DEF Members!Subjects, Members!NoRow, Members!AllRights

LEMMA WriteBannedKeeps ==
    ASSUME Members!MembersInv, NEW t \in Tasks, Members!WriteBanned(t), v15' = v15
    PROVE  Members!MembersInv'
<1> DEFINE v == v9[t].target
<1>1. v9[t].op = "ban" /\ v9[t].step = "write"
  BY DEF Members!WriteBanned, Members!At
<1>2. CASE Members!Refused(t)
  BY <1>1, <1>2, RefusedKeeps
<1>3. CASE ~Members!Refused(t)
  <2>1. /\ v1' = [v1 EXCEPT ![v].there = TRUE, ![v].left = Members!LeftAfterBan(t), ![v].banned = v9[t].rights]
        /\ UNCHANGED <<v2, v3, v4, v5, v6, v7, v8, v11, v12>>
        /\ IF "view_messages" \in v9[t].rights THEN Members!Goto(t, "drop") ELSE Members!Ends(t)
    BY <1>3 DEF Members!WriteBanned, Members!channel, Members!admins
  <2>2. PICK r \in Members!TaskStates :
           /\ Members!Moves(t, r)
           /\ "view_messages" \in v9[t].rights => r = [v9[t] EXCEPT !.step = "drop"]
           /\ "view_messages" \notin v9[t].rights => r = Members!IdleTask
    <3>1. [v9[t] EXCEPT !.step = "drop"] \in Members!TaskStates
      BY <1>1, WriterKnows DEF Members!TaskStates
    <3> QED BY <2>1, <3>1, IdleTyped DEF Members!Goto, Members!Ends
  <2>3. r = Members!IdleTask \/ /\ r.step = "drop" /\ r.op = "ban" /\ r.target = v /\ r.rights = v9[t].rights
                                /\ r.seen = v9[t].seen
    BY <1>1, <2>2, WriterKnows DEF Members!TaskStates
  <2>4. r.step \in {"idle", "drop"} /\ (r.step = "idle" <=> "view_messages" \notin v9[t].rights)
    BY <1>1, <2>2, WriterKnows DEF Members!TaskStates, Members!IdleTask
  <2>5. /\ v9'[t] = r /\ \A s \in Tasks \ {t} : v9'[s] = v9[s]
        /\ v13' = v13
        /\ Members!Entering' \subseteq Members!Entering
        /\ Members!MayGain' \subseteq Members!MayGain
    BY <2>2, <2>4, HasWritten
  <2>6. v9[t].rights \subseteq Members!BannedRights
    BY <1>1, WriterKnows DEF Members!Consistent
  <2>7. Members!LeftAfterBan(t) \in BOOLEAN
    BY <1>1, WriterKnows DEF Members!LeftAfterBan, Members!TaskStates, Members!Rows
  <2>8. /\ v1' \in [Users -> Members!Rows] /\ v1'[v].there /\ v1'[v].banned = v9[t].rights
        /\ v1'[v].left = Members!LeftAfterBan(t)
        /\ \A u \in Users \ {v} : v1'[u] = v1[u]
        /\ \A u \in Users : v1'[u].admin = v1[u].admin
    BY ZenonT(60), <1>1, <2>1, <2>6, <2>7, WriterKnows DEF Members!Rows
  <2>9. \A u \in Users : (v1[u].there => v1'[u].there) /\ (~v1'[u].there => v1'[u] = Members!NoRow)
    BY <1>1, <2>8, WriterKnows
  <2>10. v \notin v13 => v # v2 /\ v9[t].seen.left = v1[v].left
    BY <1>1, WriterKnows DEF Members!Undisturbed
  <2>11. Members!Consistent(t)' /\ Members!Undisturbed(t)'
    <3>1. CASE r = Members!IdleTask
      BY <2>5, <3>1, IdleHolds
    <3>2. CASE r # Members!IdleTask
      BY <1>1, <2>1, <2>3, <2>5, <2>6, <2>8, <2>10, <3>2, WriterKnows DEF Members!Consistent, Members!Undisturbed
    <3> QED BY <3>1, <3>2
  <2>12. Counted'
    <3>1. Members!Syncing' = Members!Syncing
      BY <1>1, <2>4, <2>5 DEF Members!Syncing
    <3> QED BY <2>1, <2>5, <2>8, <3>1, AdminsAsBefore
  <2>13. Members!Members' \subseteq Members!Members \cup Members!Entering
    <3>1. ~Members!LeftAfterBan(t) => v \in Members!Entering
      BY <1>1, WriterKnows DEF Members!Entering
    <3> QED BY <1>1, <2>8, <3>1, WriterKnows DEF Members!Members, Members!Member
  <2>14. Members!CreatorSafe'
    BY ZenonT(60), <1>1, <2>1, <2>5, <2>8, <2>10, CreatorAsBefore, WriterKnows
  <2>15. Members!RequestersAreOutside'
    <3> SUFFICES ASSUME NEW q \in v8', q[1] \notin v13'
                 PROVE  \/ ~Members!Member(q[1])' /\ "view_messages" \notin v1'[q[1]].banned
                        \/ \E s \in Tasks : v9'[s].target = q[1] /\ v9'[s].step = "drop"
      BY DEF Members!RequestersAreOutside
    <3>1. q \in v8 /\ q[1] \in Users /\ q[1] \notin v13
      BY <1>1, <2>1, <2>5, WriterKnows
    <3>2. CASE \E s \in Tasks : v9[s].target = q[1] /\ v9[s].step = "drop"
      BY <1>1, <2>5, <3>2
    <3>3. CASE v1[q[1]].left /\ "view_messages" \notin v1[q[1]].banned
      <4>1. CASE q[1] # v
        BY <2>8, <3>1, <3>3, <4>1 DEF Members!Member
      <4>2. CASE q[1] = v /\ "view_messages" \notin v9[t].rights
        BY <2>7, <2>8, <2>10, <3>1, <3>3, <4>2 DEF Members!Member, Members!LeftAfterBan
      <4>3. CASE q[1] = v /\ "view_messages" \in v9[t].rights
        BY <2>3, <2>4, <2>5, <4>3 DEF Members!IdleTask
      <4> QED BY <4>1, <4>2, <4>3
    <3> QED BY <3>1, <3>2, <3>3 DEF Members!RequestersAreOutside, Members!MembersInv, Members!Member
  <2>16. r = Members!IdleTask \/ (r.step # "idle" /\ Members!Subjects(r) = Members!Subjects(v9[t]))
    BY <1>1, <2>3 DEF Members!Subjects
  <2>17. UNCHANGED <<v2, v3, v4, v5, v6, v7, v8, v11, v12>> /\ v \in Members!Subjects(v9[t])
    BY <1>1, <2>1, WriterKnows
  <2> HIDE DEF v
  <2> QED BY <1>1, <2>2, <2>5, <2>8, <2>9, <2>11, <2>12, <2>13, <2>14, <2>15, <2>16, <2>17, WriterKnows, WriteKeeps
<1> QED BY <1>2, <1>3

LEMMA DropRequestsKeeps ==
    ASSUME Members!MembersInv, NEW t \in Tasks, Members!DropRequests(t), v15' = v15
    PROVE  Members!MembersInv'
<1>1. /\ v9[t].op \in {"ban", "approve", "dismiss"} /\ v9[t].step = "drop"
      /\ v8' = {q \in v8 : q[1] # v9[t].target} /\ Members!Moves(t, Members!IdleTask)
      /\ UNCHANGED <<v1, v2, v3, v4, v5, v6, v7, v11, v12>>
  BY DEF Members!DropRequests, Members!Without, Members!Ends, Members!channel, Members!admins
<1>2. /\ v9'[t] = Members!IdleTask /\ \A s \in Tasks \ {t} : v9'[s] = v9[s]
      /\ v13' = v13
      /\ Members!Entering' \subseteq Members!Entering
      /\ Members!MayGain' \subseteq Members!MayGain
  BY <1>1, HasWritten, IdleTyped DEF Members!IdleTask
<1>3. Counted'
  <2>1. Members!Syncing' = Members!Syncing
    BY <1>1, <1>2 DEF Members!Syncing, Members!IdleTask
  <2> QED BY <1>1, <1>2, <2>1, AdminsAsBefore
<1>4. Spares(t)
  BY <1>1, <1>2 DEF Spares
<1>5. Members!CreatorSafe' /\ Members!RequestersAreOutside'
  BY <1>1, <1>2, <1>4, CreatorAsBefore, RequestersAsBefore
<1>6. Members!Members' = Members!Members
  BY <1>1 DEF Members!Members, Members!Member
<1> QED BY <1>1, <1>2, <1>3, <1>5, <1>6, IdleTyped, IdleHolds, WriterKnows, WriteKeeps

-----------------------------------------------------------------------------
(* Members: admins *)

LEMMA OneMore ==
    ASSUME NEW S \in SUBSET Users, NEW T \in SUBSET Users, NEW u \in Users, T \subseteq S \cup {u}
    PROVE  Cardinality(T) <= Cardinality(S) + 1
<1>1. IsFiniteSet(S) /\ IsFiniteSet(S \cup {u})
  BY SetsAssumption, FS_Subset, FS_AddElement
<1>2. Cardinality(T) <= Cardinality(S \cup {u}) /\ Cardinality(T) \in Nat
  BY <1>1, Smaller
<1>3. Cardinality(S \cup {u}) <= Cardinality(S) + 1 /\ Cardinality(S) \in Nat
  BY <1>1, FS_AddElement, FS_CardinalityType
<1>4. Cardinality(S \cup {u}) \in Nat
  BY <1>1, FS_CardinalityType
<1> QED BY <1>2, <1>3, <1>4

\* A task that starts, or stops, to synchronise or to be able to gain an admin
LEMMA OneTask ==
    ASSUME NEW S \in SUBSET Tasks, NEW t \in Tasks
    PROVE  /\ t \notin S => Cardinality(S \cup {t}) = Cardinality(S) + 1
           /\ t \in S => Cardinality(S \ {t}) = Cardinality(S) - 1
           /\ Cardinality(S) \in Nat
<1>1. IsFiniteSet(S)
  BY SetsAssumption, FS_Subset
<1> QED BY <1>1, FS_AddElement, FS_RemoveElement, FS_CardinalityType

LEMMA WriteAdminKeeps ==
    ASSUME Members!MembersInv, NEW t \in Tasks, Members!WriteAdmin(t), v15' = v15
    PROVE  Members!MembersInv'
<1> DEFINE v == v9[t].target
           r == [v9[t] EXCEPT !.step = "sync"]
<1>1. /\ v9[t].op = "admin" /\ v9[t].step = "write"
      /\ v1' = [v1 EXCEPT ![v].admin = v9[t].rights]
      /\ v12' = IF v9[t].flag /\ v1[v].admin = {} THEN v12 + 1 ELSE v12
      /\ Members!Moves(t, r)
      /\ UNCHANGED <<v2, v3, v4, v5, v6, v7, v8, v11>>
  BY DEF Members!WriteAdmin, Members!At, Members!Goto, Members!channel
<1>2. /\ r \in Members!TaskStates /\ r.step = "sync" /\ r.op = "admin" /\ r.target = v /\ r.rights = v9[t].rights
      /\ r.seen = v9[t].seen /\ r.boss = v9[t].boss /\ r.who = v9[t].who
  BY <1>1, WriterKnows DEF Members!TaskStates
<1> HIDE DEF r
<1>3. /\ v9'[t] = r /\ \A s \in Tasks \ {t} : v9'[s] = v9[s]
      /\ v13' = v13
      /\ Members!Entering' \subseteq Members!Entering
      /\ Members!MayGain' \subseteq Members!MayGain \ {t}
  BY <1>1, <1>2, HasWritten
<1>4. /\ v9[t].rights \subseteq Members!AllRights /\ v1[v].there
      /\ ~v9[t].flag => v9[t].count < Members!AdminLimit
  BY <1>1, WriterKnows DEF Members!Consistent
<1>5. /\ v1' \in [Users -> Members!Rows] /\ v1'[v].admin = v9[t].rights
      /\ \A u \in Users \ {v} : v1'[u] = v1[u]
      /\ \A u \in Users : v1'[u].there = v1[u].there /\ v1'[u].left = v1[u].left /\ v1'[u].banned = v1[u].banned
  BY <1>1, <1>4, WriterKnows DEF Members!Rows
<1>6. \A u \in Users : (v1[u].there => v1'[u].there) /\ (~v1'[u].there => v1'[u] = Members!NoRow)
  BY <1>1, <1>4, <1>5, WriterKnows
<1>7. v = v2 /\ v \notin v13 => v9[t].boss /\ v9[t].who = v /\ v9[t].rights = Members!AllRights
  BY <1>1, WriterKnows DEF Members!Undisturbed
<1>8. Members!Consistent(t)' /\ Members!Undisturbed(t)'
  <2>1. Members!Consistent(t)
    BY <1>1, WriterKnows
  <2>2. Members!Consistent(t)'
    BY <1>1, <1>2, <1>3, <1>4, <1>5, <2>1 DEF Members!Consistent
  <2>3. r.target = v2' /\ v \notin v13' => r.boss /\ r.who = r.target /\ r.rights = Members!AllRights
    BY <1>1, <1>2, <1>3, <1>7
  <2>4. Members!Undisturbed(t)'
    BY <1>2, <1>3, <2>3 DEF Members!Undisturbed
  <2> QED BY <2>2, <2>4
<1>9. Members!Admins' \subseteq Members!Admins \cup {v} /\ (v1[v].admin # {} => Members!Admins' \subseteq Members!Admins)
  BY <1>5 DEF Members!Admins
<1>10. Cardinality(Members!Admins') <= Cardinality(Members!Admins) + 1 /\ Cardinality(Members!Admins') \in Nat
  BY <1>1, <1>9, OneMore, FiniteSets, WriterKnows DEF Members!Admins
<1>11. v1[v].admin # {} => Cardinality(Members!Admins') <= Cardinality(Members!Admins)
  BY <1>9, Smaller DEF Members!Admins
<1>12. /\ v12 \in Nat /\ v6 \in Nat /\ Cardinality(Members!Admins) \in Nat
       /\ Cardinality(Members!MayGain) \in Nat /\ Cardinality(Members!Syncing) \in Nat
       /\ Members!AdminLimit \in Nat /\ Cardinality(Tasks) \in Nat
       /\ Members!AdminLimit' = Members!AdminLimit
       /\ v9[t].flag \in BOOLEAN
  BY <1>1, CountTypes, WriterKnows DEF Members!MembersInv, Members!AdminLimit, Members!TaskStates
<1>13. Members!CountLags'
  <2>1. Members!Syncing' = Members!Syncing \cup {t} /\ t \notin Members!Syncing
    BY <1>1, <1>2, <1>3 DEF Members!Syncing
  <2>2. Cardinality(Members!Syncing') = Cardinality(Members!Syncing) + 1
    BY <2>1, OneTask DEF Members!Syncing
  <2>3. Cardinality(Members!Admins) <= v6 + Cardinality(Members!Syncing) + v12
    BY SameCount DEF Members!MembersInv, Members!CountLags
  <2>4. v12' >= v12 /\ v12' \in Nat /\ v6' = v6
    BY <1>1, <1>12
  <2>5. Cardinality(Members!Admins') <= v6' + Cardinality(Members!Syncing') + v12'
    BY <1>10, <1>12, <2>2, <2>3, <2>4
  <2> QED BY <2>5, SameCount DEF Members!CountLags
<1>14. Members!GainsBounded'
  <2>1. Cardinality(Members!Admins) + Cardinality(Members!MayGain)
           <= Members!AdminLimit + Cardinality(Tasks) - 1 + v12
    BY SameCount DEF Members!MembersInv, Members!GainsBounded
  <2>2. /\ Cardinality(Members!MayGain') <= Cardinality(Members!MayGain \ {t})
        /\ Cardinality(Members!MayGain') <= Cardinality(Members!MayGain)
        /\ Cardinality(Members!MayGain') \in Nat /\ Cardinality(Members!MayGain \ {t}) \in Nat
    BY <1>3, Smaller DEF Members!MayGain
  <2>3. CASE v9[t].flag
    BY <1>1, <1>10, <1>11, <1>12, <2>1, <2>2, <2>3, SameCount DEF Members!GainsBounded
  <2>4. CASE ~v9[t].flag
    <3>1. t \in Members!MayGain
      BY <1>1, <1>4, <2>4 DEF Members!MayGain
    <3>2. Cardinality(Members!MayGain \ {t}) = Cardinality(Members!MayGain) - 1
      BY <3>1, OneTask DEF Members!MayGain
    <3>3. v12' = v12
      BY <1>1, <2>4
    <3> QED BY <1>10, <1>12, <2>1, <2>2, <3>2, <3>3, SameCount DEF Members!GainsBounded
  <2> QED BY <2>3, <2>4
<1>15. Members!AdminsCountSettled'
  BY <1>2, <1>3 DEF Members!AdminsCountSettled
<1>16. Members!Members' = Members!Members
  BY <1>5 DEF Members!Members, Members!Member
<1>17. Spares(t)
  <2>1. v \in Members!Subjects(v9[t])
    BY DEF Members!Subjects
  <2>2. v2' = v2
    BY <1>1
  <2> QED BY <1>3, <1>5, <1>6, <2>1, <2>2 DEF Spares
<1>18. Members!CreatorSafe'
  BY <1>1, <1>3, <1>5, <1>7, WriterKnows DEF Members!CreatorSafe, Members!Member
<1>19. Members!RequestersAreOutside'
  BY <1>1, <1>3, <1>5, <1>17, RequestersAsBefore
<1>20. Members!Subjects(r) = Members!Subjects(v9[t]) /\ v \in Members!Subjects(v9[t]) /\ v12' \in Nat
  BY <1>1, <1>2, <1>12 DEF Members!Subjects
<1>21. UNCHANGED <<v2, v3, v4, v5, v6, v7, v8, v11>> /\ Members!Moves(t, r)
  BY <1>1
<1> HIDE DEF v
<1> QED BY <1>1, <1>2, <1>3, <1>5, <1>6, <1>8, <1>13, <1>14, <1>15, <1>16, <1>18, <1>19, <1>20, <1>21,
           WriterKnows, WriteKeeps DEF Counted

LEMMA SyncAdminsKeeps ==
    ASSUME Members!MembersInv, NEW t \in Tasks, Members!SyncAdmins(t), v15' = v15
    PROVE  Members!MembersInv'
<1>1. /\ v9[t].op = "admin" /\ v9[t].step = "sync"
      /\ v6' = Cardinality({u \in Users : v1'[u].admin # {}}) /\ v11' = FALSE
      /\ Members!Moves(t, Members!IdleTask)
      /\ UNCHANGED <<v1, v2, v3, v4, v5, v7, v8, v12>>
  BY SameCount DEF Members!SyncAdmins, Members!SyncAdminsCount, Members!At, Members!Ends, Members!channel
<1>2. /\ v9'[t] = Members!IdleTask /\ \A s \in Tasks \ {t} : v9'[s] = v9[s]
      /\ v13' = v13
      /\ Members!Entering' \subseteq Members!Entering
      /\ Members!MayGain' \subseteq Members!MayGain
  BY <1>1, HasWritten, IdleTyped DEF Members!IdleTask
<1>3. Members!Admins' = Members!Admins /\ v6' = Cardinality(Members!Admins')
  BY <1>1 DEF Members!Admins
<1>4. v6' \in Nat
  BY <1>3, FiniteSets DEF Members!Admins
<1>5. Counted'
  <2>1. Members!CountLags'
    <3>1. Cardinality(Members!Syncing') \in Nat
      BY FiniteSets DEF Members!Syncing
    <3>2. v12' \in Nat
      BY <1>1, WriterKnows
    <3>3. Cardinality(Members!Admins') <= v6' + Cardinality(Members!Syncing') + v12'
      BY <1>3, <1>4, <3>1, <3>2
    <3> QED BY <3>3, SameCount DEF Members!CountLags
  <2>2. Members!GainsBounded'
    <3>1. Cardinality(Members!Admins) + Cardinality(Members!MayGain)
             <= Members!AdminLimit + Cardinality(Tasks) - 1 + v12
      BY SameCount DEF Members!MembersInv, Members!GainsBounded
    <3>2. Cardinality(Members!MayGain') <= Cardinality(Members!MayGain) /\ Cardinality(Members!MayGain') \in Nat
      BY <1>2, Smaller DEF Members!MayGain
    <3>3. Members!AdminLimit' = Members!AdminLimit
      BY DEF Members!AdminLimit
    <3>4. Cardinality(Members!Admins') + Cardinality(Members!MayGain')
             <= Members!AdminLimit' + Cardinality(Tasks) - 1 + v12'
      BY <1>1, <1>3, <3>1, <3>2, <3>3, CountTypes DEF Members!MembersInv
    <3> QED BY <3>4, SameCount DEF Members!GainsBounded
  <2>3. Members!AdminsCountSettled'
    BY <1>3, SameCount DEF Members!AdminsCountSettled
  <2> QED BY <2>1, <2>2, <2>3 DEF Counted
<1>6. Spares(t)
  BY <1>1, <1>2 DEF Spares
<1>7. Members!CreatorSafe' /\ Members!RequestersAreOutside'
  BY <1>1, <1>2, <1>6, CreatorAsBefore, RequestersAsBefore
<1>8. Members!Members' = Members!Members
  BY <1>1 DEF Members!Members, Members!Member
<1> QED BY <1>1, <1>2, <1>4, <1>5, <1>7, <1>8, IdleTyped, IdleHolds, WriterKnows, WriteKeeps

LEMMA WriteCreatorKeeps ==
    ASSUME Members!MembersInv, NEW t \in Tasks, Members!WriteCreator(t), v15' = v15
    PROVE  Members!MembersInv'
<1> DEFINE u == v9[t].who
           v == v9[t].target
<1>1. /\ v9[t].op = "transfer" /\ v9[t].step = "write"
      /\ v2' = v /\ v1' = [v1 EXCEPT ![u].admin = {}, ![v].admin = Members!AllRights]
      /\ v12' = IF v1[u].admin = {} THEN v12 + 1 ELSE v12
      /\ v6' = Cardinality({w \in Users : v1'[w].admin # {}}) /\ v11' = FALSE
      /\ Members!Moves(t, Members!IdleTask)
      /\ UNCHANGED <<v3, v4, v5, v7, v8>>
  BY SameCount DEF Members!WriteCreator, Members!SyncAdminsCount, Members!At, Members!Ends
<1>2. /\ v9'[t] = Members!IdleTask /\ \A s \in Tasks \ {t} : v9'[s] = v9[s]
      /\ v13' = v13
      /\ Members!Entering' \subseteq Members!Entering
      /\ Members!MayGain' \subseteq Members!MayGain
  BY <1>1, HasWritten, IdleTyped DEF Members!IdleTask
<1>3. u \in Users /\ v \in Users /\ u # v /\ v1[u].there /\ v1[v].there
  BY <1>1, WriterKnows DEF Members!Consistent
<1>4. /\ v1' \in [Users -> Members!Rows] /\ v1'[v].admin = Members!AllRights /\ v1'[u].admin = {}
      /\ \A w \in Users \ {u, v} : v1'[w] = v1[w]
      /\ \A w \in Users : v1'[w].there = v1[w].there /\ v1'[w].left = v1[w].left /\ v1'[w].banned = v1[w].banned
  <2>1. /\ v1' = [w \in Users |-> IF w = v THEN [v1[v] EXCEPT !.admin = Members!AllRights]
                                 ELSE IF w = u THEN [v1[u] EXCEPT !.admin = {}] ELSE v1[w]]
        /\ \A w \in Users : v1[w] \in Members!Rows
    BY <1>1, <1>3, WriterKnows
  <2>2. \A w \in Users : [v1[w] EXCEPT !.admin = {}] \in Members!Rows
    BY <2>1 DEF Members!Rows
  <2>3. \A w \in Users : [v1[w] EXCEPT !.admin = Members!AllRights] \in Members!Rows
    BY <2>1 DEF Members!Rows
  <2>4. v1' \in [Users -> Members!Rows]
    BY <2>1, <2>2, <2>3
  <2>5. v1'[v] = [v1[v] EXCEPT !.admin = Members!AllRights] /\ v1'[u] = [v1[u] EXCEPT !.admin = {}]
    BY <1>3, <2>1
  <2>6. \A w \in Users \ {u, v} : v1'[w] = v1[w]
    BY <2>1
  <2> QED BY ZenonT(60), <1>3, <2>1, <2>4, <2>5, <2>6 DEF Members!Rows
<1>5. \A w \in Users : (v1[w].there => v1'[w].there) /\ (~v1'[w].there => v1'[w] = Members!NoRow)
  <2>1. \A w \in Users : ~v1[w].there => v1[w] = Members!NoRow
    BY <1>1, WriterKnows
  <2> QED BY <1>3, <1>4, <2>1
<1>6. v \notin v13 => ~v1[v].left
  BY <1>1, WriterKnows DEF Members!Undisturbed
<1>7. Members!Subjects(v9[t]) = {u, v}
  BY <1>1 DEF Members!Subjects
<1>8. v6' = Cardinality(Members!Admins') /\ v6' \in Nat
  BY <1>1, FiniteSets DEF Members!Admins
<1>9. v12 \in Nat /\ v12' \in Nat
  <2>1. v12' = v12 \/ v12' = v12 + 1
    BY Zenon, <1>1
  <2>2. v12 \in Nat
    BY DEF Members!MembersInv, Members!TypeOK
  <2> QED BY <2>1, <2>2
<1>10. Counted'
  <2>1. Members!CountLags'
    <3>1. Cardinality(Members!Syncing') \in Nat
      BY FiniteSets DEF Members!Syncing
    <3>2. Cardinality(Members!Admins') <= v6' + Cardinality(Members!Syncing') + v12'
      BY <1>8, <1>9, <3>1
    <3> QED BY <3>2, SameCount DEF Members!CountLags
  <2>2. Members!GainsBounded'
    <3>1. Cardinality(Members!Admins) + Cardinality(Members!MayGain)
             <= Members!AdminLimit + Cardinality(Tasks) - 1 + v12
      BY SameCount DEF Members!MembersInv, Members!GainsBounded
    <3>2. Cardinality(Members!MayGain') <= Cardinality(Members!MayGain) /\ Cardinality(Members!MayGain') \in Nat
      BY <1>2, Smaller DEF Members!MayGain
    <3>3. Members!AdminLimit' = Members!AdminLimit
      BY DEF Members!AdminLimit
    <3>4. Cardinality(Members!Admins') + v12 <= Cardinality(Members!Admins) + v12'
      <4>1. CASE v1[u].admin = {}
        <5>1. Members!Admins' \subseteq Members!Admins \cup {v}
          BY <1>3, <1>4 DEF Members!Admins
        <5>2. Cardinality(Members!Admins') <= Cardinality(Members!Admins) + 1
          BY <1>3, <5>1, OneMore DEF Members!Admins
        <5>3. v12' = v12 + 1
          BY Zenon, <1>1, <4>1
        <5>4. Cardinality(Members!Admins) \in Nat /\ Cardinality(Members!Admins') \in Nat
          BY FiniteSets DEF Members!Admins
        <5> QED BY <1>9, <5>2, <5>3, <5>4
      <4>2. CASE v1[u].admin # {}
        <5>1. u \in Members!Admins /\ Members!Admins' \subseteq (Members!Admins \ {u}) \cup {v}
          BY <1>3, <1>4, <4>2 DEF Members!Admins
        <5>2. Cardinality(Members!Admins') <= Cardinality(Members!Admins \ {u}) + 1
          BY <1>3, <5>1, OneMore DEF Members!Admins
        <5>3. Cardinality(Members!Admins \ {u}) = Cardinality(Members!Admins) - 1
          <6>1. IsFiniteSet(Members!Admins)
            BY FiniteSets DEF Members!Admins
          <6> QED BY <5>1, <6>1, FS_RemoveElement
        <5>4. v12' = v12
          BY Zenon, <1>1, <4>2
        <5>5. Cardinality(Members!Admins) \in Nat /\ Cardinality(Members!Admins') \in Nat
          BY FiniteSets DEF Members!Admins
        <5> QED BY <1>9, <5>2, <5>3, <5>4, <5>5
      <4> QED BY <4>1, <4>2
    <3>5. Cardinality(Members!Admins') + Cardinality(Members!MayGain')
             <= Members!AdminLimit' + Cardinality(Tasks) - 1 + v12'
      BY <1>8, <1>9, <3>1, <3>2, <3>3, <3>4, CountTypes DEF Members!MembersInv
    <3> QED BY <3>5, SameCount DEF Members!GainsBounded
  <2>3. Members!AdminsCountSettled'
    BY <1>8, SameCount DEF Members!AdminsCountSettled
  <2> QED BY <2>1, <2>2, <2>3 DEF Counted
<1>11. Spares(t)
  BY <1>1, <1>2, <1>4, <1>5, <1>7 DEF Spares
<1>12. Members!CreatorSafe'
  BY <1>1, <1>2, <1>3, <1>4, <1>6 DEF Members!CreatorSafe, Members!Member
<1>13. Members!RequestersAreOutside'
  BY ZenonT(60), <1>1, <1>2, <1>4, <1>11, RequestersAsBefore
<1>14. Members!Members' = Members!Members
  BY <1>4 DEF Members!Members, Members!Member
<1>15. /\ v9[t].step # "idle" /\ v2' \in Users /\ v11' \in BOOLEAN /\ v2' \in Members!Subjects(v9[t])
       /\ v7' \in [Members!InviteIds -> Members!Invites] /\ v8' \subseteq Users \X Members!InviteIds
       /\ UNCHANGED <<v3, v4, v5>> /\ Members!Moves(t, Members!IdleTask)
  BY <1>1, <1>3, <1>7, WriterKnows
<1>16. Members!Consistent(t)' /\ Members!Undisturbed(t)'
  BY <1>2, IdleHolds
<1> HIDE DEF u, v
<1> QED BY <1>2, <1>4, <1>5, <1>7, <1>8, <1>9, <1>10, <1>12, <1>13, <1>14, <1>15, <1>16, IdleTyped, WriteKeeps

-----------------------------------------------------------------------------
(* Members: ways in and out *)

\* Steps that change whether one user, whom the request is about, is a member
LEMMA EntryKeeps ==
    ASSUME Members!MembersInv, NEW t \in Tasks, NEW r \in Members!TaskStates,
           v9[t].step \in {"write", "create"}, v15' = v15, Members!Moves(t, r),
           r = Members!IdleTask \/ (r.step = "drop" /\ Members!Subjects(r) = Members!Subjects(v9[t])),
           UNCHANGED <<v2, v3, v4, v5, v6, v11, v12>>,
           v1' \in [Users -> Members!Rows], \A u \in Users : ~v1'[u].there => v1'[u] = Members!NoRow,
           \A u \in Users \ {v9[t].target} : v1'[u] = v1[u],
           v1[v9[t].target].there => v1'[v9[t].target].there,
           v1'[v9[t].target].admin = v1[v9[t].target].admin,
           ~v1'[v9[t].target].left => ~v1[v9[t].target].left \/ v9[t].target \in Members!Entering,
           v9[t].target = v2 /\ v2 \notin v13 => ~v1'[v2].left,
           v7' \in [Members!InviteIds -> Members!Invites], v8' \subseteq Users \X Members!InviteIds,
           Members!Consistent(t)', Members!Undisturbed(t)', Members!RequestersAreOutside'
    PROVE  Members!MembersInv'
<1>1. /\ v9'[t] = r /\ \A s \in Tasks \ {t} : v9'[s] = v9[s]
      /\ v13' = v13
      /\ Members!Entering' \subseteq Members!Entering
      /\ Members!MayGain' \subseteq Members!MayGain
  BY HasWritten DEF Members!IdleTask
<1>2. Members!Syncing' = Members!Syncing
  BY <1>1 DEF Members!Syncing, Members!IdleTask
<1>3. \A u \in Users : (v1[u].there => v1'[u].there) /\ v1'[u].admin = v1[u].admin
  BY WriterKnows
<1>4. Counted'
  BY <1>1, <1>2, <1>3, AdminsAsBefore
<1>5. Members!Members' \subseteq Members!Members \cup Members!Entering
  BY DEF Members!Members, Members!Member
<1>6. Members!CreatorSafe'
  <2> SUFFICES ASSUME v2 \notin v13
               PROVE  ~v1'[v2].left /\ v1'[v2].admin = Members!AllRights
    BY <1>1 DEF Members!CreatorSafe, Members!Member
  <2>1. CASE v2 = v9[t].target
    BY <1>3, <2>1, WriterKnows
  <2>2. CASE v2 # v9[t].target
    BY <2>2, WriterKnows
  <2> QED BY <2>1, <2>2
<1>7. v9[t].target \in Members!Subjects(v9[t]) /\ v9[t].step # "idle"
  BY WriterKnows
<1>8. v6' \in Nat /\ v11' \in BOOLEAN /\ v12' \in Nat /\ v2' \in Users
  BY WriterKnows
<1>9. r = Members!IdleTask \/ (r.step # "idle" /\ Members!Subjects(r) = Members!Subjects(v9[t]))
  OBVIOUS
<1> QED BY <1>1, <1>3, <1>4, <1>5, <1>6, <1>7, <1>8, <1>9, WriteKeeps

\* The requests of others are as they were.
LEMMA OthersWait ==
    ASSUME Members!MembersInv, NEW t \in Tasks, v9[t].step \in {"write", "create"},
           v13' = v13, \A s \in Tasks \ {t} : v9'[s] = v9[s],
           \A u \in Users \ {v9[t].target} : v1'[u] = v1[u],
           \A q \in v8' : \/ q \in v8 /\ q[1] # v9[t].target
                          \/ q[1] = v9[t].target /\ v9'[t].step = "drop" /\ v9'[t].target = v9[t].target
                          \/ q[1] \in v13
                          \/ q[1] \in Users /\ v1'[q[1]].left /\ "view_messages" \notin v1'[q[1]].banned
    PROVE  Members!RequestersAreOutside'
<1> SUFFICES ASSUME NEW q \in v8', q[1] \notin v13'
             PROVE  \/ ~Members!Member(q[1])' /\ "view_messages" \notin v1'[q[1]].banned
                    \/ \E s \in Tasks : v9'[s].target = q[1] /\ v9'[s].step = "drop"
  BY DEF Members!RequestersAreOutside
<1>1. CASE q \in v8 /\ q[1] # v9[t].target
  <2>1. q[1] \in Users
    BY <1>1 DEF Members!MembersInv, Members!TypeOK
  <2>2. CASE \E s \in Tasks : v9[s].target = q[1] /\ v9[s].step = "drop"
    BY <2>2
  <2>3. CASE ~Members!Member(q[1]) /\ "view_messages" \notin v1[q[1]].banned
    BY <1>1, <2>1, <2>3 DEF Members!Member
  <2> QED BY <1>1, <2>2, <2>3 DEF Members!MembersInv, Members!RequestersAreOutside
<1> QED BY <1>1 DEF Members!Member

LEMMA WriteInviteeKeeps ==
    ASSUME Members!MembersInv, NEW t \in Tasks, Members!WriteInvitee(t), v15' = v15
    PROVE  Members!MembersInv'
<1> DEFINE v == v9[t].target
           new == IF v9[t].seen.there THEN [v1[v] EXCEPT !.left = FALSE]
                  ELSE IF v1[v].there THEN v1[v] ELSE Members!NewMember
<1>1. /\ v9[t].op = "add" /\ v9[t].step = "write"
      /\ v1' = [v1 EXCEPT ![v] = new]
      /\ v8' = {q \in v8 : q[1] # v} /\ Members!Moves(t, Members!IdleTask)
      /\ UNCHANGED <<v2, v3, v4, v5, v6, v7, v11, v12>>
  BY DEF Members!WriteInvitee, Members!At, Members!Ends, Members!Without, Members!channel, Members!admins
<1>2. /\ v9'[t] = Members!IdleTask /\ \A s \in Tasks \ {t} : v9'[s] = v9[s]
      /\ v13' = v13
  BY <1>1, HasWritten, IdleTyped DEF Members!IdleTask
<1>3. v9[t].seen.there => v1[v].there
  BY <1>1, WriterKnows DEF Members!Consistent
<1>4. new \in Members!Rows /\ new.there /\ new.admin = v1[v].admin
  BY <1>1, <1>3, WriterKnows DEF Members!Rows, Members!NewMember, Members!NoRow
<1>5. v1[v].there /\ ~v1[v].left => ~new.left
  BY <1>1, WriterKnows DEF Members!Rows
<1> HIDE DEF new
<1>6. /\ v1' \in [Users -> Members!Rows] /\ v1'[v] = new
      /\ \A u \in Users \ {v} : v1'[u] = v1[u]
  BY <1>1, <1>4, WriterKnows
<1>7. \A u \in Users : ~v1'[u].there => v1'[u] = Members!NoRow
  BY <1>1, <1>4, <1>6, WriterKnows
<1>8. v \in Members!Entering
  BY <1>1 DEF Members!Entering
<1>9. v = v2 /\ v2 \notin v13 => ~v1'[v2].left
  BY <1>1, <1>5, <1>6, WriterKnows
<1>10. Members!RequestersAreOutside'
  BY <1>1, <1>2, <1>6, OthersWait
<1>11. v7' \in [Members!InviteIds -> Members!Invites] /\ v8' \subseteq Users \X Members!InviteIds
  BY <1>1, WriterKnows
<1> QED BY <1>1, <1>2, <1>4, <1>6, <1>7, <1>8, <1>9, <1>10, <1>11, IdleTyped, IdleHolds, EntryKeeps

LEMMA WriteJoinKeeps ==
    ASSUME Members!MembersInv, NEW t \in Tasks, Members!WriteJoin(t), v15' = v15
    PROVE  Members!MembersInv'
<1> DEFINE v == v9[t].target
<1>1. v9[t].op \in {"join", "import"} /\ v9[t].step = "write"
  BY DEF Members!WriteJoin
<1>2. CASE Members!Refused(t)
  BY <1>1, <1>2, RefusedKeeps
<1>3. CASE ~Members!Refused(t)
  <2>1. /\ v1' = [v1 EXCEPT ![v].there = TRUE, ![v].left = FALSE]
        /\ v8' = {q \in v8 : q[1] # v} /\ Members!Moves(t, Members!IdleTask)
        /\ UNCHANGED <<v2, v3, v4, v5, v6, v7, v11, v12>>
    BY <1>3 DEF Members!WriteJoin, Members!Ends, Members!RequestsAfterJoin, Members!Without,
                Members!channel, Members!admins
  <2>2. /\ v9'[t] = Members!IdleTask /\ \A s \in Tasks \ {t} : v9'[s] = v9[s]
        /\ v13' = v13
    BY <2>1, HasWritten, IdleTyped DEF Members!IdleTask
  <2>3. /\ v1' \in [Users -> Members!Rows] /\ v1'[v].there /\ ~v1'[v].left /\ v1'[v].admin = v1[v].admin
        /\ \A u \in Users \ {v} : v1'[u] = v1[u]
    BY ZenonT(60), <1>1, <2>1, WriterKnows DEF Members!Rows
  <2>4. \A u \in Users : ~v1'[u].there => v1'[u] = Members!NoRow
    BY <1>1, <2>3, WriterKnows
  <2>5. v \in Members!Entering
    BY <1>1 DEF Members!Entering
  <2>6. Members!RequestersAreOutside'
    BY <1>1, <2>1, <2>2, <2>3, OthersWait
  <2>7. v7' \in [Members!InviteIds -> Members!Invites] /\ v8' \subseteq Users \X Members!InviteIds
    BY <1>1, <2>1, WriterKnows
  <2> QED BY <1>1, <2>1, <2>2, <2>3, <2>4, <2>5, <2>6, <2>7, IdleTyped, IdleHolds, EntryKeeps
<1> QED BY <1>2, <1>3

LEMMA WriteLeaveKeeps ==
    ASSUME Members!MembersInv, NEW t \in Tasks, Members!WriteLeave(t), v15' = v15
    PROVE  Members!MembersInv'
<1> DEFINE v == v9[t].target
<1>1. /\ v9[t].op = "leave" /\ v9[t].step = "write"
      /\ v1' = [v1 EXCEPT ![v].left = TRUE]
      /\ v7' = [i \in Members!InviteIds |->
                  IF v7[i].owner = v /\ v7[i].state = "live"
                  THEN [v7[i] EXCEPT !.state = "revoked"] ELSE v7[i]]
      /\ Members!Moves(t, Members!IdleTask)
      /\ UNCHANGED <<v2, v3, v4, v5, v6, v8, v11, v12>>
  BY DEF Members!WriteLeave, Members!At, Members!Ends, Members!channel, Members!admins
<1>2. /\ v9'[t] = Members!IdleTask /\ \A s \in Tasks \ {t} : v9'[s] = v9[s]
      /\ v13' = v13
  BY <1>1, HasWritten, IdleTyped DEF Members!IdleTask
<1>3. v1[v].there /\ (v = v2 => v2 \in v13)
  BY <1>1, WriterKnows DEF Members!Consistent, Members!Undisturbed
<1>4. /\ v1' \in [Users -> Members!Rows] /\ v1'[v].there /\ v1'[v].left /\ v1'[v].admin = v1[v].admin
      /\ v1'[v].banned = v1[v].banned
      /\ \A u \in Users \ {v} : v1'[u] = v1[u]
  BY <1>1, <1>3, WriterKnows DEF Members!Rows
<1>5. \A u \in Users : ~v1'[u].there => v1'[u] = Members!NoRow
  BY <1>1, <1>4, WriterKnows
<1>6. v7' \in [Members!InviteIds -> Members!Invites]
  <2>1. \A i \in Members!InviteIds : v7[i] \in Members!Invites
    BY <1>1, WriterKnows
  <2>2. \A i \in Members!InviteIds : [v7[i] EXCEPT !.state = "revoked"] \in Members!Invites
    BY <2>1 DEF Members!Invites
  <2> QED BY <1>1, <2>1, <2>2
<1>7. Spares(t)
  BY <1>1, <1>2, <1>3, <1>4, WriterKnows DEF Spares
<1>8. Members!RequestersAreOutside'
  BY <1>1, <1>2, <1>4, <1>7, RequestersAsBefore
<1>9. v8' \subseteq Users \X Members!InviteIds
  BY <1>1, WriterKnows
<1> QED BY <1>1, <1>2, <1>3, <1>4, <1>5, <1>6, <1>8, <1>9, IdleTyped, IdleHolds, EntryKeeps

LEMMA CreateRequestKeeps ==
    ASSUME Members!MembersInv, NEW t \in Tasks, Members!CreateRequest(t), v15' = v15
    PROVE  Members!MembersInv'
<1> DEFINE v == v9[t].target
<1>1. /\ v9[t].op = "import" /\ v9[t].step = "create"
      /\ v8' \subseteq v8 \cup {<<v, v9[t].inv>>}
      /\ Members!Moves(t, Members!IdleTask)
      /\ UNCHANGED <<v1, v2, v3, v4, v5, v6, v7, v11, v12>>
  BY DEF Members!CreateRequest, Members!At, Members!Ends, Members!channel, Members!admins
<1>2. /\ v9'[t] = Members!IdleTask /\ \A s \in Tasks \ {t} : v9'[s] = v9[s]
      /\ v13' = v13
  BY <1>1, HasWritten, IdleTyped DEF Members!IdleTask
<1>3. v \notin v13 => v1[v].left /\ "view_messages" \notin v1[v].banned
  BY <1>1, WriterKnows DEF Members!Undisturbed
<1>4. v8' \subseteq Users \X Members!InviteIds
  BY <1>1, WriterKnows DEF Members!Consistent
<1>5. Members!RequestersAreOutside'
  <2>1. \A q \in v8' : q[1] = v \/ (q \in v8 /\ q[1] # v)
    BY <1>1
  <2> QED BY <1>1, <1>2, <1>3, <2>1, OthersWait, WriterKnows
<1>6. v = v2 /\ v2 \notin v13 => ~v1'[v2].left
  BY <1>1, WriterKnows
<1> QED BY <1>1, <1>2, <1>4, <1>5, <1>6, IdleTyped, IdleHolds, WriterKnows, EntryKeeps

LEMMA WriteApprovedKeeps ==
    ASSUME Members!MembersInv, NEW t \in Tasks, Members!WriteApproved(t), v15' = v15
    PROVE  Members!MembersInv'
<1> DEFINE v == v9[t].target
           r == [v9[t] EXCEPT !.step = "drop"]
           new == IF v1[v].there THEN v1[v] ELSE Members!NewMember
<1>1. v9[t].op = "approve" /\ v9[t].step = "write"
  BY DEF Members!WriteApproved, Members!At
<1>2. CASE Members!Refused(t)
  BY <1>1, <1>2, RefusedKeeps
<1>3. CASE ~Members!Refused(t)
  <2>1. /\ v1' = [v1 EXCEPT ![v] = new]
        /\ Members!Moves(t, r)
        /\ UNCHANGED <<v2, v3, v4, v5, v6, v7, v8, v11, v12>>
    BY <1>3 DEF Members!WriteApproved, Members!Goto, Members!channel, Members!admins
  <2>2. new \in Members!Rows /\ new.there /\ new.admin = v1[v].admin /\ (v1[v].there => new = v1[v])
    BY <1>1, WriterKnows DEF Members!Rows, Members!NewMember, Members!NoRow
  <2>3. /\ r \in Members!TaskStates /\ r.step = "drop" /\ r.op = "approve" /\ r.target = v /\ r.seen = v9[t].seen
    BY <1>1, WriterKnows DEF Members!TaskStates
  <2> HIDE DEF r, new
  <2>4. /\ v9'[t] = r /\ \A s \in Tasks \ {t} : v9'[s] = v9[s]
        /\ v13' = v13
    BY <2>1, <2>3, HasWritten
  <2>5. /\ v1' \in [Users -> Members!Rows] /\ v1'[v] = new
        /\ \A u \in Users \ {v} : v1'[u] = v1[u]
    BY <1>1, <2>1, <2>2, WriterKnows
  <2>6. \A u \in Users : ~v1'[u].there => v1'[u] = Members!NoRow
    BY <1>1, <2>2, <2>5, WriterKnows
  <2>7. v \in Members!Entering
    BY <1>1 DEF Members!Entering
  <2>8. Members!Consistent(t)'
    BY <1>1, <2>2, <2>3, <2>4, <2>5, WriterKnows DEF Members!Consistent
  <2>9. Members!Undisturbed(t)'
    BY <2>3, <2>4 DEF Members!Undisturbed
  <2>10. Members!RequestersAreOutside'
    BY <1>1, <2>1, <2>3, <2>4, <2>5, OthersWait
  <2>11. v = v2 /\ v2 \notin v13 => ~v1'[v2].left
    BY <1>1, <2>2, <2>5, WriterKnows
  <2>12. Members!Subjects(r) = Members!Subjects(v9[t])
    BY <1>1, <2>3 DEF Members!Subjects
  <2>13. v7' \in [Members!InviteIds -> Members!Invites] /\ v8' \subseteq Users \X Members!InviteIds
    BY <1>1, <2>1, WriterKnows
  <2>14. v1'[v].there /\ v1'[v].admin = v1[v].admin
    BY <2>2, <2>5
  <2> QED BY <1>1, <2>1, <2>3, <2>5, <2>6, <2>7, <2>8, <2>9, <2>10, <2>11, <2>12, <2>13, <2>14, EntryKeeps
<1> QED BY <1>2, <1>3

-----------------------------------------------------------------------------
(* Members: failures, and requests that one step stands for *)

LEMMA FailsKeeps ==
    ASSUME Members!MembersInv, NEW t \in Tasks, Members!Fails(t), v15' = v15
    PROVE  Members!MembersInv'
<1>1. /\ t \in Members!Busy /\ v9[t].step # "idle"
      /\ v9' = [v9 EXCEPT ![t] = Members!IdleTask]
      /\ v13' = IF v9[t].step = "drop" THEN v13 \cup Members!Subjects(v9[t]) ELSE v13
      /\ v11' = (v11 \/ v9[t].step = "sync")
      /\ v12' = IF v9[t].step = "sync" THEN v12 + 1 ELSE v12
      /\ UNCHANGED <<v1, v2, v3, v4, v5, v6, v7, v8, v10, v14>>
  BY DEF Members!Fails, Members!Busy, Members!channel
<1>2. /\ v9' \in [Tasks -> Members!TaskStates] /\ v9'[t] = Members!IdleTask
      /\ \A s \in Tasks \ {t} : v9'[s] = v9[s]
      /\ \A s \in Tasks : v9'[s].step = "idle" => v9'[s] = Members!IdleTask
  BY <1>1, IdleTyped DEF Members!MembersInv, Members!TypeOK
<1>3. v13' \subseteq Users /\ v13 \subseteq v13' /\ (v9[t].step = "drop" => v9[t].target \in v13')
  <2>1. v9[t].step = "drop" => v9[t].op # "idle" /\ v9[t].target \in Users
    BY DEF Members!MembersInv, Members!Consistent
  <2>2. v9[t].op = "transfer" => v9[t].who \in Users
    BY DEF Members!MembersInv, Members!Consistent
  <2> QED BY <1>1, <2>1, <2>2 DEF Members!Subjects, Members!MembersInv, Members!TypeOK
<1>4. Spares(t)
  BY <1>1, <1>2, <1>3 DEF Spares
<1>5. v12 \in Nat /\ v12' \in Nat /\ v11' \in BOOLEAN
  BY <1>1 DEF Members!MembersInv, Members!TypeOK
<1>6. Members!TypeOK'
  BY <1>1, <1>2, <1>3, <1>5 DEF Members!MembersInv, Members!TypeOK
<1>7. Members!Apart'
  BY <1>2, <1>4, StaysApart DEF Members!MembersInv, Members!IdleTask
<1>8. Members!MayGain' \subseteq Members!MayGain
  <2> SUFFICES ASSUME NEW s \in Members!MayGain' PROVE s \in Members!MayGain
    OBVIOUS
  <2>1. s # t
    BY <1>2 DEF Members!MayGain, Members!IdleTask
  <2> QED BY <1>2, <2>1 DEF Members!MayGain, Members!AdminLimit
<1>9. Counted'
  <2>1. CASE v9[t].step # "sync"
    <3>1. Members!Syncing' = Members!Syncing
      BY <1>2, <2>1 DEF Members!Syncing, Members!IdleTask
    <3>2. v12' = v12 /\ v11' = v11
      BY <1>1, <2>1 DEF Members!MembersInv, Members!TypeOK
    <3> QED BY <1>1, <1>8, <3>1, <3>2, AdminsAsBefore
  <2>2. CASE v9[t].step = "sync"
    <3>1. Members!Syncing' = Members!Syncing \ {t} /\ t \in Members!Syncing
      BY <1>2, <2>2 DEF Members!Syncing, Members!IdleTask
    <3>2. Cardinality(Members!Syncing') = Cardinality(Members!Syncing) - 1
      BY <3>1, OneTask DEF Members!Syncing
    <3>3. v12' = v12 + 1 /\ v11' = TRUE
      BY <1>1, <2>2
    <3>4. Members!Admins' = Members!Admins /\ Members!AdminLimit' = Members!AdminLimit
      BY <1>1 DEF Members!Admins, Members!AdminLimit
    <3>5. Members!CountLags'
      <4>1. Cardinality(Members!Admins) <= v6 + Cardinality(Members!Syncing) + v12
        BY SameCount DEF Members!MembersInv, Members!CountLags
      <4>2. Cardinality(Members!Admins') <= v6' + Cardinality(Members!Syncing') + v12'
        BY <1>1, <1>5, <3>2, <3>3, <3>4, <4>1, CountTypes DEF Members!MembersInv
      <4> QED BY <4>2, SameCount DEF Members!CountLags
    <3>6. Members!GainsBounded'
      <4>1. Cardinality(Members!Admins) + Cardinality(Members!MayGain)
               <= Members!AdminLimit + Cardinality(Tasks) - 1 + v12
        BY SameCount DEF Members!MembersInv, Members!GainsBounded
      <4>2. Cardinality(Members!MayGain') <= Cardinality(Members!MayGain) /\ Cardinality(Members!MayGain') \in Nat
        BY <1>8, Smaller DEF Members!MayGain
      <4>3. Cardinality(Members!Admins') + Cardinality(Members!MayGain')
               <= Members!AdminLimit' + Cardinality(Tasks) - 1 + v12'
        BY <1>5, <3>3, <3>4, <4>1, <4>2, CountTypes DEF Members!MembersInv
      <4> QED BY <4>3, SameCount DEF Members!GainsBounded
    <3>7. Members!AdminsCountSettled'
      BY <3>3 DEF Members!AdminsCountSettled
    <3> QED BY <3>5, <3>6, <3>7 DEF Counted
  <2> QED BY <2>1, <2>2
<1>10. Members!MembersBounded'
  <2>1. Members!Members' = Members!Members
    BY <1>1 DEF Members!Members, Members!Member
  <2>2. Members!Entering' \subseteq Members!Entering
    BY <1>2 DEF Members!Entering, Members!LeftAfterBan, Members!IdleTask
  <2>3. v14' >= v14
    BY <1>1 DEF Members!MembersInv, Members!TypeOK
  <2> QED BY <1>6, <2>1, <2>2, <2>3, NoMoreMembers
<1>11. Members!CreatorSafe'
  BY <1>1, <1>3, CreatorAsBefore
<1>12. Members!RequestersAreOutside'
  BY <1>1, <1>3, <1>4, RequestersAsBefore
<1> QED BY <1>2, <1>4, <1>6, <1>7, <1>9, <1>10, <1>11, <1>12, IdleHolds, Composed

LEMMA AtOnceKeeps ==
    ASSUME Members!MembersInv, v10 < MaxRequests, Members!Immediate, v15' = v15,
           UNCHANGED <<v1, v2, v6, v11, v12>>, v8' \subseteq v8,
           v3' \in BOOLEAN, v4' \in BOOLEAN, v5' \in BOOLEAN, v7' \in [Members!InviteIds -> Members!Invites]
    PROVE  Members!MembersInv'
<1>1. v10' = v10 + 1 /\ UNCHANGED <<v9, v13, v14>>
  BY DEF Members!Immediate
<1>2. PICK t \in Tasks : TRUE
  BY SetsAssumption
<1>3. Spares(t)
  BY <1>1 DEF Spares
<1>4. Members!TypeOK'
  <2>1. v10' \in 0 .. MaxRequests
    BY <1>1, BoundsAssumption DEF Members!MembersInv, Members!TypeOK
  <2>2. v8' \subseteq Users \X Members!InviteIds
    BY DEF Members!MembersInv, Members!TypeOK
  <2> QED BY <1>1, <2>1, <2>2 DEF Members!MembersInv, Members!TypeOK
<1>5. Members!Consistent(t)' /\ Members!Undisturbed(t)'
  <2>1. Members!Consistent(t) /\ Members!Undisturbed(t)
    BY DEF Members!MembersInv
  <2> QED BY <1>1, <2>1 DEF Members!Consistent, Members!Undisturbed, Members!AdminLimit, Members!InviteIds
<1>6. Members!Apart'
  BY <1>1 DEF Members!MembersInv, Members!Apart, Members!Busy, Members!Subjects
<1>7. Counted'
  <2>1. Members!Syncing' = Members!Syncing /\ Members!MayGain' \subseteq Members!MayGain
    BY <1>1 DEF Members!Syncing, Members!MayGain, Members!AdminLimit
  <2> QED BY <2>1, AdminsAsBefore
<1>8. Members!MembersBounded'
  <2>1. Members!Members' = Members!Members /\ Members!Entering' = Members!Entering
    BY <1>1 DEF Members!Members, Members!Member, Members!Entering, Members!LeftAfterBan
  <2>2. v14' >= v14
    BY <1>1 DEF Members!MembersInv, Members!TypeOK
  <2> QED BY <1>4, <2>1, <2>2, NoMoreMembers
<1>9. Members!CreatorSafe' /\ Members!RequestersAreOutside'
  BY <1>1, <1>3, CreatorAsBefore, RequestersAsBefore
<1> QED BY <1>3, <1>4, <1>5, <1>6, <1>7, <1>8, <1>9, Composed

LEMMA LinksKeep ==
    ASSUME Members!MembersInv, v10 < MaxRequests, v15' = v15, NEW u \in Users,
           \/ \E ask \in BOOLEAN : Members!ExportInvite(u, ask)
           \/ Members!GetOrCreatePermanent(u)
           \/ \E i \in Members!InviteIds : Members!RevokeInvite(u, i)
           \/ \E links \in SUBSET Members!InviteIds :
                 Members!HideAllRequests(u, links) \/ Members!DeleteInvites(u, links)
    PROVE  Members!MembersInv'
<1>1. /\ v7 \in [Members!InviteIds -> Members!Invites]
      /\ v3 \in BOOLEAN /\ v4 \in BOOLEAN /\ v5 \in BOOLEAN
  BY DEF Members!MembersInv, Members!TypeOK
<1>2. Members!Immediate /\ UNCHANGED <<v1, v2, v3, v4, v5, v6, v11, v12>> /\ v8' \subseteq v8
  BY DEF Members!ExportInvite, Members!GetOrCreatePermanent, Members!RevokeInvite,
         Members!HideAllRequests, Members!DeleteInvites, Members!channel, Members!admins
<1>3. ASSUME NEW ask \in BOOLEAN, Members!NewInvite(u, ask)
      PROVE  v7' \in [Members!InviteIds -> Members!Invites]
  <2>1. Members!Link(u, ask) \in Members!Invites
    BY DEF Members!Link, Members!Invites
  <2> QED BY <1>1, <1>3, <2>1 DEF Members!NewInvite
<1>4. \A i \in Members!InviteIds, state \in {"revoked", "deleted"} :
         [v7[i] EXCEPT !.state = state] \in Members!Invites
  <2>1. \A i \in Members!InviteIds : v7[i] \in Members!Invites
    BY <1>1
  <2> QED BY <2>1 DEF Members!Invites
<1>5. v7' \in [Members!InviteIds -> Members!Invites]
  <2>1. CASE \E ask \in BOOLEAN : Members!ExportInvite(u, ask)
    BY <1>3, <2>1 DEF Members!ExportInvite
  <2>2. CASE Members!GetOrCreatePermanent(u)
    BY <1>3, <2>2 DEF Members!GetOrCreatePermanent
  <2>3. CASE \E i \in Members!InviteIds : Members!RevokeInvite(u, i)
    BY <1>1, <1>4, <2>3 DEF Members!RevokeInvite
  <2>4. CASE \E links \in SUBSET Members!InviteIds : Members!HideAllRequests(u, links)
    BY <1>1, <2>4 DEF Members!HideAllRequests
  <2>5. CASE \E links \in SUBSET Members!InviteIds : Members!DeleteInvites(u, links)
    <3>1. PICK links \in SUBSET Members!InviteIds : Members!DeleteInvites(u, links)
      BY <2>5
    <3>2. v7' = [i \in Members!InviteIds |->
                    IF i \in links THEN [v7[i] EXCEPT !.state = "deleted"] ELSE v7[i]]
      BY <3>1 DEF Members!DeleteInvites
    <3>3. \A i \in Members!InviteIds : v7[i] \in Members!Invites /\ [v7[i] EXCEPT !.state = "deleted"] \in Members!Invites
      BY <1>1, <1>4
    <3> QED BY <3>2, <3>3
  <2> QED BY <2>1, <2>2, <2>3, <2>4, <2>5
<1> QED BY <1>1, <1>2, <1>5, AtOnceKeeps

LEMMA MembersStep == Members!MembersInv /\ Members!Next => Members!MembersInv'
<1> SUFFICES ASSUME Members!MembersInv, Members!Next PROVE Members!MembersInv'
  OBVIOUS
<1>1. v15' = v15
  BY DEF Members!Next
<1>2. ASSUME NEW t \in Tasks, Members!Continue(t) PROVE Members!MembersInv'
  BY <1>1, <1>2, ReadKeeps, WriteBannedKeeps, DropRequestsKeeps, WriteAdminKeeps, SyncAdminsKeeps,
     WriteCreatorKeeps, WriteInviteeKeeps, CreateRequestKeeps, WriteJoinKeeps, WriteLeaveKeeps,
     WriteApprovedKeeps, FailsKeeps DEF Members!Continue
<1>3. ASSUME Members!AtOnce PROVE Members!MembersInv'
  <2>1. v10 < MaxRequests
    BY <1>3 DEF Members!AtOnce
  <2>2. PICK u \in Users :
           \/ \E links \in SUBSET Members!InviteIds :
                 Members!HideAllRequests(u, links) \/ Members!DeleteInvites(u, links)
           \/ \E ask \in BOOLEAN : Members!ExportInvite(u, ask)
           \/ Members!GetOrCreatePermanent(u)
           \/ \E i \in Members!InviteIds : Members!RevokeInvite(u, i)
           \/ Members!UpdateUsername(u) \/ Members!ToggleJoinRequest(u) \/ Members!DeleteChannel(u)
    BY <1>3 DEF Members!AtOnce
  <2>3. CASE Members!UpdateUsername(u) \/ Members!ToggleJoinRequest(u) \/ Members!DeleteChannel(u)
    <3>1. /\ v3 \in BOOLEAN /\ v4 \in BOOLEAN /\ v5 \in BOOLEAN
          /\ v7 \in [Members!InviteIds -> Members!Invites]
      BY DEF Members!MembersInv, Members!TypeOK
    <3>2. /\ Members!Immediate /\ UNCHANGED <<v1, v2, v6, v7, v8, v11, v12>>
          /\ v3' \in BOOLEAN /\ v4' \in BOOLEAN /\ v5' \in BOOLEAN
      BY <2>3, <3>1 DEF Members!UpdateUsername, Members!ToggleJoinRequest, Members!DeleteChannel,
                        Members!admins
    <3> QED BY <1>1, <2>1, <3>1, <3>2, AtOnceKeeps
  <2> QED BY <1>1, <2>1, <2>2, <2>3, LinksKeep
<1> QED BY <1>1, <1>2, <1>3, RequestKeeps DEF Members!Next

LEMMA MembersInit == Members!Init => Members!MembersInv
<1> SUFFICES ASSUME Members!Init PROVE Members!MembersInv
  OBVIOUS
<1>1. /\ v15 \in Apps /\ v2 \in Users /\ v3 = FALSE /\ v4 \in BOOLEAN /\ v5 = FALSE
      /\ v10 = 0 /\ v11 = FALSE /\ v12 = 0 /\ v13 = {} /\ v14 = 0
      /\ v9 = [t \in Tasks |-> Members!IdleTask]
      /\ v6 = Cardinality(Members!Admins)
      /\ Cardinality(Members!Members) <= Members!MemberLimit
      /\ Cardinality(Members!Admins) <= Members!AdminLimit
  BY SameCount DEF Members!Init
<1>2. /\ v1 \in [Users -> Members!Rows] /\ v1[v2].admin = Members!AllRights /\ ~v1[v2].left
      /\ \A u \in Users : v1[u].banned = {} /\ (~v1[u].there => v1[u] = Members!NoRow)
  <2>1. PICK r \in [Users -> {Members!NoRow, Members!NewMember,
                              [Members!NewMember EXCEPT !.admin = Members!AllRights, !.left = TRUE]}] :
           v1 = [r EXCEPT ![v2] = [Members!NewMember EXCEPT !.admin = Members!AllRights]]
    BY DEF Members!Init
  <2> DEFINE first == [Members!NewMember EXCEPT !.admin = Members!AllRights]
             kinds == {Members!NoRow, Members!NewMember,
                       [Members!NewMember EXCEPT !.admin = Members!AllRights, !.left = TRUE], first}
  <2>2. \A k \in kinds : k \in Members!Rows /\ k.banned = {} /\ (~k.there => k = Members!NoRow)
    <3> DEFINE gone == [Members!NewMember EXCEPT !.admin = Members!AllRights, !.left = TRUE]
    <3>1. Members!NoRow \in Members!Rows /\ Members!NoRow.banned = {}
      BY DEF Members!Rows, Members!NoRow
    <3>2. Members!NewMember \in Members!Rows /\ Members!NewMember.banned = {} /\ Members!NewMember.there
      BY DEF Members!Rows, Members!NoRow, Members!NewMember
    <3>3. gone \in Members!Rows /\ gone.banned = {} /\ gone.there
      BY DEF Members!Rows, Members!NoRow, Members!NewMember
    <3>4. first \in Members!Rows /\ first.banned = {} /\ first.there
      BY DEF Members!Rows, Members!NoRow, Members!NewMember
    <3>5. kinds = {Members!NoRow, Members!NewMember, gone, first}
      OBVIOUS
    <3> HIDE DEF kinds, gone, first
    <3> QED BY <3>1, <3>2, <3>3, <3>4, <3>5
  <2>3. first.admin = Members!AllRights /\ ~first.left
    BY DEF Members!NoRow, Members!NewMember
  <2>4. v1 \in [Users -> kinds] /\ v1[v2] = first
    BY <1>1, <2>1
  <2> HIDE DEF first, kinds
  <2>5. \A u \in Users : v1[u] \in kinds
    BY <2>4
  <2> QED BY <2>2, <2>3, <2>4, <2>5
<1>3. /\ v7 \in [Members!InviteIds -> Members!Invites]
      /\ v8 \subseteq (Users \ Members!Members) \X Members!InviteIds
  <2>1. Members!NoInvite \in Members!Invites /\ Members!Link(v2, TRUE) \in Members!Invites
    BY <1>1 DEF Members!NoInvite, Members!Link, Members!Invites
  <2>2. CASE v7 = [i \in Members!InviteIds |-> Members!NoInvite] /\ v8 = {}
    BY <2>1, <2>2
  <2>3. CASE /\ 1 \in Members!InviteIds
             /\ v7 = [i \in Members!InviteIds |->
                        IF i = 1 THEN Members!Link(v2, TRUE) ELSE Members!NoInvite]
             /\ v8 \in {{}} \cup {{<<u, 1>>} : u \in Users \ Members!Members}
    <3>1. v7 \in [Members!InviteIds -> Members!Invites]
      BY <2>1, <2>3
    <3>2. ASSUME NEW q \in v8 PROVE q \in (Users \ Members!Members) \X Members!InviteIds
      <4>1. PICK u \in Users \ Members!Members : q = <<u, 1>>
        BY <2>3
      <4> QED BY <2>3, <4>1
    <3>3. v8 \subseteq (Users \ Members!Members) \X Members!InviteIds
      BY <3>2
    <3> QED BY <3>1, <3>3
  <2> QED BY <2>2, <2>3 DEF Members!Init
<1>4. Members!TypeOK
  <2>1. Cardinality(Members!Admins) \in Nat
    BY FiniteSets DEF Members!Admins
  <2>2. 0 \in 0 .. MaxRequests
    BY BoundsAssumption
  <2>3. v9 \in [Tasks -> Members!TaskStates] /\ \A t \in Tasks : v9[t] = Members!IdleTask
    BY <1>1, IdleTyped
  <2> QED BY <1>1, <1>2, <1>3, <2>1, <2>2, <2>3 DEF Members!TypeOK
<1>5. \A t \in Tasks : v9[t] = Members!IdleTask /\ v9[t].step = "idle" /\ v9[t].op = "idle"
  BY <1>1 DEF Members!IdleTask
<1>6. \A t \in Tasks : Members!Consistent(t) /\ Members!Undisturbed(t)
  <2> TAKE t \in Tasks
  <2>1. v9[t] = Members!IdleTask
    BY <1>5
  <2> QED BY <2>1 DEF Members!Consistent, Members!Undisturbed, Members!IdleTask, Members!NoRow
<1>7. Members!Busy = {} /\ Members!Entering = {} /\ Members!MayGain = {} /\ Members!Syncing = {}
  BY <1>5 DEF Members!Busy, Members!Entering, Members!MayGain, Members!Syncing
<1>8. Members!Apart
  BY <1>7 DEF Members!Apart
<1>9. Cardinality({}) = 0 /\ Cardinality(Tasks) >= 1
  <2>1. PICK t \in Tasks : TRUE
    BY SetsAssumption
  <2>2. Cardinality({t}) <= Cardinality(Tasks) /\ Cardinality({t}) = 1
    BY <2>1, Smaller, FS_Singleton
  <2>3. Cardinality(Tasks) \in Nat
    BY FiniteSets
  <2> QED BY <2>2, <2>3, FS_EmptySet
<1>10. Counted
  <2>1. Members!CountLags
    <3>1. Cardinality(Members!Admins) <= v6 + Cardinality(Members!Syncing) + v12
      BY <1>1, <1>4, <1>7, <1>9, CountTypes
    <3> QED BY <3>1, SameCount DEF Members!CountLags
  <2>2. Members!GainsBounded
    <3>1. Cardinality(Members!Admins) + Cardinality(Members!MayGain)
             <= Members!AdminLimit + Cardinality(Tasks) - 1 + v12
      BY <1>1, <1>4, <1>7, <1>9, CountTypes
    <3> QED BY <3>1, SameCount DEF Members!GainsBounded
  <2>3. Members!AdminsCountSettled
    BY <1>1, SameCount DEF Members!AdminsCountSettled
  <2> QED BY <2>1, <2>2, <2>3 DEF Counted
<1>11. Members!MembersBounded
  <2>1. Members!Members \cup Members!Entering = Members!Members
    BY <1>7
  <2>2. Members!MemberLimit \in Nat
    BY <1>1, <1>4, CountTypes
  <2>3. Cardinality(Members!Members \cup Members!Entering) <= Members!MemberLimit + v14
    BY <1>1, <2>1, <2>2
  <2> QED BY <2>3, SameCount DEF Members!MembersBounded
<1>12. Members!CreatorSafe
  BY <1>2 DEF Members!CreatorSafe, Members!Member
<1>13. Members!RequestersAreOutside
  BY <1>2, <1>3 DEF Members!RequestersAreOutside, Members!Members
<1> QED BY <1>1, <1>4, <1>6, <1>8, <1>10, <1>11, <1>12, <1>13 DEF Members!MembersInv, Counted

\* Bounds on what may still be gained bound what there is.
LEMMA MembersOrdered ==
    ASSUME Members!MembersInv
    PROVE  Members!LimitsBounded /\ Members!AdminsCountSettled
           /\ Members!CreatorSafe /\ Members!RequestersAreOutside
<1>1. Cardinality(Members!Admins) + Cardinality(Members!MayGain)
         <= Members!AdminLimit + Cardinality(Tasks) - 1 + v12
  BY SameCount DEF Members!MembersInv, Members!GainsBounded
<1>2. Cardinality(Members!Admins) <= Members!AdminLimit + Cardinality(Tasks) - 1 + v12
  BY <1>1, CountTypes DEF Members!MembersInv
<1>3. Members!AdminsBounded
  BY <1>2, SameCount DEF Members!AdminsBounded
<1> QED BY <1>3 DEF Members!LimitsBounded, Members!MembersInv

\* Who was outside enters, or the request about him overlapped another.
LEMMA EntryOnly ==
    ASSUME Members!MembersInv, Members!Next
    PROVE  Members!OnlyEntryStep
<1> SUFFICES ASSUME NEW u \in Users, v1[u].left, ~v1'[u].left, u \notin v13
             PROVE  \E t \in Tasks : /\ v9[t].target = u /\ v9[t].step = "write"
                                     /\ v9[t].op \in {"join", "import", "add", "approve"}
  BY DEF Members!OnlyEntryStep, Members!Member
<1>1. v1' # v1
  OBVIOUS
<1> USE DEF Members!channel, Members!admins, Members!Refused
<1>2. ~Members!AtOnce
  BY <1>1 DEF Members!AtOnce, Members!HideAllRequests, Members!DeleteInvites, Members!ExportInvite,
         Members!GetOrCreatePermanent, Members!RevokeInvite, Members!UpdateUsername,
         Members!ToggleJoinRequest, Members!DeleteChannel
<1>3. \A t \in Tasks : ~Members!Request(t)
  <2> SUFFICES ASSUME NEW t \in Tasks, Members!Request(t) PROVE FALSE
    OBVIOUS
  <2>1. PICK w \in Users :
          \/ \E v \in Users :
                \/ \E b \in Members!Bans : Members!EditBanned(t, w, v, b)
                \/ \E g \in Members!Grants : Members!EditAdmin(t, w, v, g)
                \/ Members!EditCreator(t, w, v)
                \/ Members!InviteToChannel(t, w, v)
                \/ \E op \in {"approve", "dismiss"} : Members!HideJoinRequest(t, w, v, op)
          \/ Members!JoinChannel(t, w)
          \/ \E i \in Members!InviteIds : Members!ImportInvite(t, w, i)
          \/ Members!LeaveChannel(t, w)
    BY DEF Members!Request
  <2>2. ASSUME NEW v \in Users,
               \/ \E b \in Members!Bans : Members!EditBanned(t, w, v, b)
               \/ \E g \in Members!Grants : Members!EditAdmin(t, w, v, g)
               \/ Members!EditCreator(t, w, v)
        PROVE  FALSE
    BY <1>1, <2>2 DEF Members!EditBanned, Members!EditAdmin, Members!EditCreator
  <2>3. ASSUME NEW v \in Users,
               \/ Members!InviteToChannel(t, w, v)
               \/ \E op \in {"approve", "dismiss"} : Members!HideJoinRequest(t, w, v, op)
        PROVE  FALSE
    BY <1>1, <2>3 DEF Members!InviteToChannel, Members!HideJoinRequest
  <2>4. ~Members!JoinChannel(t, w) /\ ~Members!LeaveChannel(t, w)
    BY <1>1 DEF Members!JoinChannel, Members!LeaveChannel
  <2>5. \A i \in Members!InviteIds : ~Members!ImportInvite(t, w, i)
    BY <1>1 DEF Members!ImportInvite
  <2> QED BY <2>1, <2>2, <2>3, <2>4, <2>5
<1>4. PICK t \in Tasks : Members!Continue(t)
  BY <1>2, <1>3 DEF Members!Next
<1>5. \/ Members!WriteBanned(t) \/ Members!WriteAdmin(t) \/ Members!WriteCreator(t)
      \/ Members!WriteInvitee(t) \/ Members!WriteJoin(t) \/ Members!WriteLeave(t) \/ Members!WriteApproved(t)
  BY <1>1, <1>4
     DEF Members!Continue, Members!ReadBanned, Members!DropRequests, Members!ReadAdmin,
         Members!SyncAdmins, Members!ReadNewCreator, Members!ReadInvitee, Members!ReadImporter,
         Members!CreateRequest, Members!CountMembers, Members!ReadRequest, Members!Fails
<1>6. v9[t].step = "write"
  BY <1>5 DEF Members!WriteBanned, Members!WriteAdmin, Members!WriteCreator, Members!WriteInvitee,
              Members!WriteJoin, Members!WriteLeave, Members!WriteApproved, Members!At
<1>7. v1 \in [Users -> Members!Rows] /\ Members!Undisturbed(t) /\ v9[t].op # "idle"
  BY <1>6, WriterKnows
<1>8. ASSUME Members!WriteBanned(t) PROVE FALSE
  <2>1. /\ v9[t].op = "ban"
        /\ v1' = [v1 EXCEPT ![v9[t].target].there = TRUE, ![v9[t].target].left = Members!LeftAfterBan(t),
                            ![v9[t].target].banned = v9[t].rights]
    BY <1>1, <1>8 DEF Members!WriteBanned, Members!At
  <2>2. u = v9[t].target
    BY <1>7, <2>1
  <2>3. v1'[u].left = Members!LeftAfterBan(t)
    BY <1>7, <2>1, <2>2 DEF Members!Rows
  <2>4. v9[t].seen.left = v1[u].left
    BY <1>6, <1>7, <2>1, <2>2 DEF Members!Undisturbed
  <2> QED BY <2>3, <2>4 DEF Members!LeftAfterBan
<1>9. ~Members!WriteAdmin(t)
  BY <1>7 DEF Members!WriteAdmin, Members!Rows
<1>10. ASSUME Members!WriteCreator(t) PROVE FALSE
  <2>1. \A w \in Users : v1'[w].left = v1[w].left
    BY <1>7, <1>10 DEF Members!WriteCreator, Members!Rows
  <2> QED BY <2>1
<1>11. ~Members!WriteLeave(t)
  BY <1>7 DEF Members!WriteLeave, Members!Rows
<1>12. CASE Members!WriteInvitee(t)
  BY <1>6, <1>7, <1>12 DEF Members!WriteInvitee, Members!At
<1>13. CASE Members!WriteJoin(t)
  BY <1>1, <1>6, <1>7, <1>13 DEF Members!WriteJoin
<1>14. CASE Members!WriteApproved(t)
  BY <1>1, <1>6, <1>7, <1>14 DEF Members!WriteApproved, Members!At
<1> QED BY <1>5, <1>8, <1>9, <1>10, <1>11, <1>12, <1>13, <1>14

LEMMA MembersInOrderStep ==
    (which = "members" => Members!MembersInv) /\ [ServicesNext]_<<which, vars, from1>>
        => (which = "members" => Members!MembersInv)'
<1>1. ASSUME UNCHANGED from1, Members!MembersInv PROVE Members!MembersInv'
  <2>1. UNCHANGED <<v1, v2, v3, v4, v5, v6, v7, v8, v9, v10, v11, v12, v13, v14, v15>>
    BY <1>1 DEF from1, from8, from10, from11, from13
  <2>2. Members!TypeOK' /\ v15' \in Apps
    BY <1>1, <2>1 DEF Members!MembersInv, Members!TypeOK
  <2>3. ASSUME NEW t \in Tasks PROVE Members!Consistent(t)' /\ Members!Undisturbed(t)'
    BY <1>1, <2>1 DEF Members!MembersInv, Members!Consistent, Members!Undisturbed, Members!AdminLimit
  <2>4. Members!Apart'
    BY <1>1, <2>1 DEF Members!MembersInv, Members!Apart, Members!Busy, Members!Subjects
  <2>5. Members!CountLags' /\ Members!GainsBounded' /\ Members!AdminsCountSettled'
    BY <1>1, <2>1
       DEF Members!MembersInv, Members!CountLags, Members!GainsBounded, Members!AdminsCountSettled,
           Members!Admins, Members!Syncing, Members!MayGain, Members!AdminLimit
  <2>6. Members!MembersBounded'
    BY <1>1, <2>1
       DEF Members!MembersInv, Members!MembersBounded, Members!Members, Members!Member,
           Members!Entering, Members!LeftAfterBan, Members!MemberLimit
  <2>7. Members!CreatorSafe' /\ Members!RequestersAreOutside'
    BY <1>1, <2>1
       DEF Members!MembersInv, Members!CreatorSafe, Members!RequestersAreOutside, Members!Member
  <2> QED BY <2>2, <2>3, <2>4, <2>5, <2>6, <2>7 DEF Members!MembersInv
<1> QED BY <1>1, MembersStep DEF ServicesNext

-----------------------------------------------------------------------------
(* Salts: v1 is now, v2 at, v3 the client, v4 what is sent, v5 the answer, and *)
(* v6 the refusals.                                                            *)

\* One refusal more.
LEMMA OneMoreRefusal ==
    ASSUME NEW r \in [salt : 0..2, id : 0..1]
    PROVE  /\ r.salt \in 0..2 /\ r.id \in 0..1
           /\ r.id # 1 => LET more == [r EXCEPT !.id = @ + 1]
                         IN  more \in [salt : 0..2, id : 0..1] /\ more.id = 1 /\ more.salt = r.salt
           /\ r.salt # 2 => LET more == [r EXCEPT !.salt = @ + 1]
                           IN  /\ more \in [salt : 0..2, id : 0..1] /\ more.id = r.id
                               /\ more.salt = 2 => r.salt # 0
OBVIOUS

LEMMA ListIsOfSalts == ASSUME NEW salt \in Int PROVE (salt .. salt + Ahead - 1) \subseteq Int
BY BoundsAssumption

\* A message or an answer, from what it says.
LEMMA SaltsIs ==
    ASSUME NEW do, NEW salt \in Int
    PROVE  /\ Salts!Is(do, salt).do = do /\ Salts!Is(do, salt).salt = salt
           /\ do \in {"none", "right", "late", "early"} =>
                  Salts!Is(do, salt) \in [do : {"none", "right", "late", "early"}, salt : Int]
           /\ do \in {"none", "bad_id", "bad_salt", "list", "done"} =>
                  Salts!Is(do, salt) \in [do : {"none", "bad_id", "bad_salt", "list", "done"}, salt : Int]
           /\ do # "none" => Salts!Is(do, salt) # Salts!Nothing
           /\ Salts!Nothing = Salts!Is("none", 0)
BY DEF Salts!Is, Salts!Nothing

LEMMA SaltsBegin == Salts!Init => Salts!SaltsInv
BY DEF Salts!Init, Salts!SaltsInv, Salts!TypeOK, Salts!Nothing, Salts!Never, Salts!BadId

LEMMA SaltsStep == Salts!SaltsInv /\ [Salts!Next]_Salts!vars => Salts!SaltsInv'
<1> SUFFICES ASSUME Salts!SaltsInv, [Salts!Next]_Salts!vars PROVE Salts!SaltsInv'
  OBVIOUS
<1>1. v1 \in Int /\ v2 \in Int /\ v6 \in [salt : 0..2, id : 0..1]
  BY DEF Salts!SaltsInv, Salts!TypeOK
<1>2. /\ v3.salt \in Int /\ v3.future \subseteq Int /\ v3.clock \in {"right", "late", "early"}
      /\ v4.do \in {"none", "right", "late", "early"} /\ v4.salt \in Int
      /\ v5.do \in {"none", "bad_id", "bad_salt", "list", "done"} /\ v5.salt \in Int
  BY DEF Salts!SaltsInv, Salts!TypeOK
<1>3. /\ Salts!Never \in [salt : 0..2, id : 0..1] /\ Salts!Never.salt = 0 /\ Salts!Never.id = 0
      /\ Salts!Nothing.do = "none"
  BY DEF Salts!Never, Salts!Nothing
<1>4. CASE Salts!TimePasses
  <2>1. v1' \in Int /\ v6' = Salts!Never /\ UNCHANGED <<v2, v3, v4, v5>>
    BY <1>1, <1>4, BoundsAssumption DEF Salts!TimePasses
  <2> QED BY <1>3, <2>1 DEF Salts!SaltsInv, Salts!TypeOK, Salts!Nothing
<1>5. CASE Salts!ClockIsWrong
  <2>1. /\ v3' \in [salt : Int, future : SUBSET Int, clock : {"right", "late", "early"}]
        /\ v6' = Salts!Never /\ UNCHANGED <<v1, v2, v4, v5>>
    BY <1>5 DEF Salts!ClockIsWrong, Salts!SaltsInv, Salts!TypeOK
  <2> QED BY <1>3, <2>1 DEF Salts!SaltsInv, Salts!TypeOK, Salts!Nothing
<1>6. CASE Salts!Sends
  <2>1. /\ v4.do = "none" /\ v5.do = "none" /\ v4' = Salts!Is(v3.clock, Salts!HasSalt)
        /\ UNCHANGED <<v1, v2, v3, v5, v6>>
    BY <1>3, <1>6 DEF Salts!Sends
  <2>2. Salts!HasSalt \in Int /\ (v3.future = {} => Salts!HasSalt = v3.salt)
    BY <1>2 DEF Salts!HasSalt
  <2>3. /\ v4' \in [do : {"none", "right", "late", "early"}, salt : Int] /\ v4'.do = v3.clock
        /\ v4'.salt = Salts!HasSalt /\ v4'.do # "none" /\ v4' # Salts!Nothing
    BY <1>2, <2>1, <2>2, SaltsIs
  <2>4. Salts!TypeOK'
    BY <2>1, <2>3 DEF Salts!SaltsInv, Salts!TypeOK, Salts!Nothing
  <2> QED BY <1>2, <2>1, <2>2, <2>3, <2>4 DEF Salts!SaltsInv, Salts!BadId
<1>7. CASE Salts!Refuses
  <2>1. /\ v4.do # "none" /\ v5.do = "none" /\ v4' = Salts!Nothing /\ UNCHANGED <<v1, v2, v3>>
    BY <1>2, <1>3, <1>7 DEF Salts!Refuses, Salts!SaltsInv, Salts!TypeOK
  <2>2. Salts!Nothing \in [do : {"none", "right", "late", "early"}, salt : Int]
    BY DEF Salts!Nothing
  <2>3. CASE Salts!BadId(v4)
    <3>1. v5' = Salts!Is("bad_id", 0) /\ v6' = [v6 EXCEPT !.id = @ + 1] /\ v6.id # 1
      BY <1>7, <2>3 DEF Salts!Refuses, Salts!SaltsInv
    <3>2. v6' \in [salt : 0..2, id : 0..1] /\ v6'.salt = v6.salt /\ v6'.id = 1
      BY <1>1, <3>1, OneMoreRefusal
    <3>3. /\ v5' \in [do : {"none", "bad_id", "bad_salt", "list", "done"}, salt : Int]
          /\ v5'.do = "bad_id" /\ v5' # Salts!Nothing
      BY <3>1, SaltsIs
    <3>4. Salts!TypeOK'
      BY <1>3, <2>1, <2>2, <3>2, <3>3 DEF Salts!SaltsInv, Salts!TypeOK, Salts!Nothing
    <3> QED BY <1>2, <1>3, <2>1, <3>2, <3>3, <3>4 DEF Salts!SaltsInv, Salts!BadId
  <2>4. CASE ~Salts!BadId(v4)
    <3>1. /\ v5' = Salts!Is("bad_salt", v2) /\ v6' = [v6 EXCEPT !.salt = @ + 1]
          /\ v4.salt # v2
      BY <1>7, <2>4 DEF Salts!Refuses, Salts!Accepted, Salts!NewServerSalt
    <3>2. v6.salt # 2 /\ (v6.salt # 0 => v1 = v2)
      BY <2>1, <3>1 DEF Salts!SaltsInv
    <3>3. v6' \in [salt : 0..2, id : 0..1] /\ (v6'.salt = 2 => v6.salt # 0) /\ v6'.id = v6.id
      BY <1>1, <3>1, <3>2, OneMoreRefusal
    <3>4. /\ v5' \in [do : {"none", "bad_id", "bad_salt", "list", "done"}, salt : Int]
          /\ v5'.do = "bad_salt" /\ v5'.salt = v2 /\ v5' # Salts!Nothing
      BY <1>1, <3>1, SaltsIs
    <3>5. Salts!TypeOK'
      BY <1>3, <2>1, <2>2, <3>3, <3>4 DEF Salts!SaltsInv, Salts!TypeOK, Salts!Nothing
    <3> QED BY <1>2, <1>3, <2>1, <3>2, <3>3, <3>4, <3>5 DEF Salts!SaltsInv, Salts!BadId
  <2> QED BY <2>3, <2>4
<1>8. CASE Salts!Accepts
  <2>1. v4' = Salts!Nothing /\ v6' = Salts!Never /\ UNCHANGED <<v1, v2, v3>>
    BY <1>8 DEF Salts!Accepts
  <2>2. v5' = Salts!Is("done", 0) \/ v5' = Salts!Is("list", v1)
    BY <1>8 DEF Salts!Accepts
  <2>3. /\ v5' \in [do : {"none", "bad_id", "bad_salt", "list", "done"}, salt : Int]
        /\ v5'.do # "none" /\ v5' # Salts!Nothing
    BY <1>1, <2>2, SaltsIs
  <2>4. Salts!Nothing \in [do : {"none", "right", "late", "early"}, salt : Int]
    BY DEF Salts!Nothing
  <2>5. Salts!TypeOK'
    BY <1>3, <2>1, <2>3, <2>4 DEF Salts!SaltsInv, Salts!TypeOK, Salts!Nothing
  <2> QED BY <1>3, <2>1, <2>5 DEF Salts!SaltsInv
<1>9. CASE Salts!Writes
  <2>1. /\ v5.do # "none" /\ v4.do = "none" /\ v2' = v1 /\ v5' = Salts!Nothing
        /\ UNCHANGED <<v1, v4, v6>>
    BY <1>3, <1>9 DEF Salts!Writes, Salts!UpToDate, Salts!SaltsInv, Salts!TypeOK
  <2>2. /\ v5.do = "bad_id"   => v3' = [v3 EXCEPT !.clock = "right"]
        /\ v5.do = "bad_salt" => v3' = [v3 EXCEPT !.salt = v5.salt, !.future = {}]
        /\ v5.do = "list"     => v3' = [v3 EXCEPT !.future = v5.salt .. v5.salt + Ahead - 1]
        /\ v5.do = "done"     => v3' = v3
    BY <1>9 DEF Salts!Writes
  <2>3. /\ v3' \in [salt : Int, future : SUBSET Int, clock : {"right", "late", "early"}]
        /\ v5.do = "bad_id" => v3'.clock = "right" /\ v3'.salt = v3.salt /\ v3'.future = v3.future
        /\ v5.do = "bad_salt" => v3'.clock = v3.clock /\ v3'.salt = v5.salt /\ v3'.future = {}
        /\ v5.do = "done" => v3' = v3
        /\ v5.do = "list" => v3'.clock = v3.clock
    <3>1. (v5.salt .. v5.salt + Ahead - 1) \subseteq Int
      BY <1>2, ListIsOfSalts
    <3> QED BY <1>2, <2>1, <2>2, <3>1 DEF Salts!SaltsInv, Salts!TypeOK
  <2>4. Salts!Nothing \in [do : {"none", "bad_id", "bad_salt", "list", "done"}, salt : Int]
    BY DEF Salts!Nothing
  <2>5. Salts!TypeOK'
    BY <1>2, <1>3, <2>1, <2>3, <2>4 DEF Salts!SaltsInv, Salts!TypeOK, Salts!Nothing
  <2>6. v6.id = 1 => ~Salts!BadId(v4) /\ v3'.clock = "right"
    BY <1>2, <2>1, <2>3 DEF Salts!SaltsInv
  <2>7. v6.salt = 2 => v2' = v1 /\ v3'.salt = v1 /\ v3'.future = {}
    BY <1>2, <2>1, <2>3 DEF Salts!SaltsInv
  <2>8. v4'.do = "none" /\ v5'.do = "none"
    BY <1>3, <2>1
  <2> QED BY <2>1, <2>5, <2>6, <2>7, <2>8 DEF Salts!SaltsInv, Salts!BadId
<1>10. CASE Salts!Reconnects
  <2>1. v2' = v1 /\ v4' = Salts!Nothing /\ v5' = Salts!Nothing /\ v6' = Salts!Never /\ UNCHANGED <<v1, v3>>
    BY <1>10 DEF Salts!Reconnects, Salts!UpToDate
  <2>2. /\ Salts!Nothing \in [do : {"none", "bad_id", "bad_salt", "list", "done"}, salt : Int]
        /\ Salts!Nothing \in [do : {"none", "right", "late", "early"}, salt : Int]
    BY DEF Salts!Nothing
  <2>3. Salts!TypeOK'
    BY <1>3, <2>1, <2>2 DEF Salts!SaltsInv, Salts!TypeOK, Salts!Nothing
  <2> QED BY <1>3, <2>1, <2>3 DEF Salts!SaltsInv
<1>11. CASE UNCHANGED Salts!vars
  BY <1>11 DEF Salts!vars, Salts!SaltsInv, Salts!TypeOK, Salts!Nothing, Salts!BadId
<1> QED BY <1>4, <1>5, <1>6, <1>7, <1>8, <1>9, <1>10, <1>11 DEF Salts!Next

-----------------------------------------------------------------------------
(* Auth keys: v1 is the rows, v2 the unknown keys, v4 how many were made, v5   *)
(* the connections, v6 what they have received, v7 the clients, v8 what was    *)
(* asked, v9 what was told, v10 the binds, and v11 the causes.                 *)

LEMMA KeysBegin == AuthKeys!Init => AuthKeys!KeysInv
<1> SUFFICES ASSUME AuthKeys!Init PROVE AuthKeys!KeysInv
  OBVIOUS
<1>1. /\ v1 = [k \in AuthKeys!Keys |-> "none"] /\ v2 = {} /\ v4 = 0 /\ v10 = {}
      /\ v5 = [c \in Tasks |-> AuthKeys!NewConn] /\ v6 = [c \in Tasks |-> <<>>]
      /\ v7 = [c \in Tasks |-> AuthKeys!Rested(0)]
      /\ v8 = [k \in AuthKeys!Keys |-> "none"] /\ v9 = [k \in AuthKeys!Keys |-> "none"]
      /\ v11 = [last |-> AuthKeys!NoKey, overlapped |-> FALSE, lapsed |-> {}, again |-> {}]
  BY DEF AuthKeys!Init
<1>2. MaxKeys \in Nat
  BY BoundsAssumption
<1>3. AuthKeys!TypeOK
  BY <1>1, <1>2 DEF AuthKeys!TypeOK, AuthKeys!NewConn, AuthKeys!Rested, AuthKeys!NoGen, AuthKeys!NoPacket,
                    AuthKeys!Packet, AuthKeys!Packets, AuthKeys!Kinds, AuthKeys!NoKey
<1>4. AuthKeys!BoundKeys = {}
  BY <1>1 DEF AuthKeys!BoundKeys
<1>5. AuthKeys!PacketsFit
  <2>1. ASSUME NEW c \in Tasks PROVE AuthKeys!ConnFits(c)
    <3>1. v5[c] = AuthKeys!NewConn
      BY <1>1
    <3> QED BY <3>1 DEF AuthKeys!ConnFits, AuthKeys!PacketFits, AuthKeys!At, AuthKeys!NewConn,
                        AuthKeys!NoPacket, AuthKeys!Packet, AuthKeys!NoGen
  <2>2. ASSUME NEW c \in Tasks PROVE 1..Len(v6[c]) = {}
    <3>1. v6[c] = << >> /\ Len(<< >>) = 0
      BY <1>1
    <3> QED BY <3>1
  <2> QED BY <2>1, <2>2 DEF AuthKeys!PacketsFit
<1>6. AuthKeys!AskedOnce
  BY <1>1 DEF AuthKeys!AskedOnce, AuthKeys!Rested
<1>7. \A k \in AuthKeys!Keys : ~AuthKeys!Lost(k)
  BY <1>1 DEF AuthKeys!Lost, AuthKeys!At, AuthKeys!NewConn
<1>8. AuthKeys!BindsFit /\ AuthKeys!RowsAsAsked /\ AuthKeys!OneBound /\ AuthKeys!OneBinds /\ AuthKeys!UnknownAreLost
  BY <1>1, <1>4 DEF AuthKeys!BindsFit, AuthKeys!RowsAsAsked, AuthKeys!OneBound, AuthKeys!OneBinds,
                    AuthKeys!UnknownAreLost
<1> QED BY <1>3, <1>5, <1>6, <1>7, <1>8 DEF AuthKeys!KeysInv, AuthKeys!LostForAnother

\* What was asked stays so, and who was told something was.
KeysGrow ==
    /\ \A k \in AuthKeys!Keys : v8[k] # "none" => v8'[k] = v8[k]
    /\ \A k \in AuthKeys!Keys : v9[k] # "none" => v9'[k] # "none"
\* Of connections, only c has moved.
OneConn(c) == \A d \in Tasks \ {c} : v5'[d] = v5[d] /\ v6'[d] = v6[d] /\ v7'[d] = v7[d]
InboxFits(c) == \A i \in 1..Len(v6[c]) : AuthKeys!PacketFits(v6[c][i])

LEMMA PacketGrows ==
    ASSUME KeysGrow PROVE \A p : AuthKeys!PacketFits(p) => AuthKeys!PacketFits(p)'
<1> SUFFICES ASSUME NEW p, AuthKeys!PacketFits(p) PROVE AuthKeys!PacketFits(p)'
  OBVIOUS
<1> QED BY DEF AuthKeys!PacketFits, KeysGrow, AuthKeys!Keys

\* What is said of a connection stays true when it does not move.
LEMMA ConnGrows ==
    ASSUME KeysGrow, NEW c \in Tasks, AuthKeys!ConnFits(c), v5'[c] = v5[c]
    PROVE  AuthKeys!ConnFits(c)'
<1>1. AuthKeys!PacketFits(v5[c].packet)'
  BY PacketGrows DEF AuthKeys!ConnFits
<1> QED BY <1>1 DEF AuthKeys!ConnFits, AuthKeys!At, KeysGrow, AuthKeys!Keys, AuthKeys!PacketFits

LEMMA InboxGrows ==
    ASSUME KeysGrow, NEW c \in Tasks, InboxFits(c), v6'[c] = v6[c]
    PROVE  InboxFits(c)'
BY PacketGrows DEF InboxFits

LEMMA PacketsStay ==
    ASSUME AuthKeys!PacketsFit, KeysGrow, NEW c \in Tasks, OneConn(c), AuthKeys!ConnFits(c)', InboxFits(c)'
    PROVE  AuthKeys!PacketsFit'
<1>1. ASSUME NEW d \in Tasks PROVE AuthKeys!ConnFits(d)' /\ InboxFits(d)'
  <2>1. CASE d = c
    BY <2>1
  <2>2. CASE d # c
    <3>1. AuthKeys!ConnFits(d) /\ InboxFits(d)
      BY DEF AuthKeys!PacketsFit, InboxFits
    <3> QED BY <2>2, <3>1, ConnGrows, InboxGrows DEF OneConn
  <2> QED BY <2>1, <2>2
<1> QED BY <1>1 DEF AuthKeys!PacketsFit, InboxFits

\* A packet more, or some packets less.
LEMMA SentFits ==
    ASSUME AuthKeys!TypeOK, KeysGrow, NEW c \in Tasks, InboxFits(c), NEW p \in AuthKeys!Packets,
           v6' = [v6 EXCEPT ![c] = Append(@, p)], AuthKeys!PacketFits(p)'
    PROVE  v6' \in [Tasks -> Seq(AuthKeys!Packets)] /\ InboxFits(c)'
<1>1. v6[c] \in Seq(AuthKeys!Packets) /\ v6'[c] = Append(v6[c], p)
  BY DEF AuthKeys!TypeOK
<1>2. \A i \in 1..Len(v6'[c]) : v6'[c][i] = p \/ (i \in 1..Len(v6[c]) /\ v6'[c][i] = v6[c][i])
  BY <1>1
<1>3. InboxFits(c)'
  BY <1>2, PacketGrows DEF InboxFits
<1> QED BY <1>1, <1>3 DEF AuthKeys!TypeOK

LEMMA DroppedFits ==
    ASSUME AuthKeys!TypeOK, KeysGrow, NEW c \in Tasks, InboxFits(c), NEW i \in 1..Len(v6[c]), AuthKeys!Dropped(c, i)
    PROVE  v6' \in [Tasks -> Seq(AuthKeys!Packets)] /\ InboxFits(c)'
<1>1. v6[c] \in Seq(AuthKeys!Packets) /\ v6'[c] = SubSeq(v6[c], i + 1, Len(v6[c]))
  BY DEF AuthKeys!TypeOK, AuthKeys!Dropped
<1>2. /\ v6'[c] \in Seq(AuthKeys!Packets)
      /\ \A j \in 1..Len(v6'[c]) : i + j \in 1..Len(v6[c]) /\ v6'[c][j] = v6[c][i + j]
  BY <1>1
<1>3. InboxFits(c)'
  BY <1>2, PacketGrows DEF InboxFits
<1> QED BY <1>2, <1>3 DEF AuthKeys!TypeOK, AuthKeys!Dropped

\* A step that neither writes rows nor begins or ends binds.
LEMMA RowsOn ==
    ASSUME AuthKeys!KeysInv, KeysGrow, UNCHANGED <<v1, v10, v11>>, AuthKeys!TypeOK', AuthKeys!PacketsFit',
           AuthKeys!AskedOnce', AuthKeys!UnknownAreLost', \A k \in AuthKeys!Keys : AuthKeys!Lost(k)' => AuthKeys!Lost(k)
    PROVE  AuthKeys!KeysInv'
<1>1. /\ AuthKeys!TypeOK /\ AuthKeys!BindsFit /\ AuthKeys!RowsAsAsked /\ AuthKeys!LostForAnother
      /\ AuthKeys!OneBound /\ AuthKeys!OneBinds
  BY DEF AuthKeys!KeysInv
<1>2. AuthKeys!BoundKeys' = AuthKeys!BoundKeys /\ AuthKeys!Keys' = AuthKeys!Keys
  BY DEF AuthKeys!BoundKeys, AuthKeys!Keys
<1>3. AuthKeys!BindsFit'
  BY <1>1, <1>2 DEF KeysGrow, AuthKeys!BindsFit, AuthKeys!TypeOK
<1>4. AuthKeys!RowsAsAsked'
  BY <1>1, <1>2 DEF KeysGrow, AuthKeys!RowsAsAsked
<1>5. AuthKeys!LostForAnother'
  BY <1>1, <1>2 DEF KeysGrow, AuthKeys!LostForAnother, AuthKeys!Updating
<1>6. AuthKeys!OneBound' /\ AuthKeys!OneBinds'
  BY <1>1, <1>2 DEF AuthKeys!OneBound, AuthKeys!OneBinds, AuthKeys!Updating
<1> QED BY <1>3, <1>4, <1>5, <1>6 DEF AuthKeys!KeysInv

LEMMA KeysOn ==
    ASSUME AuthKeys!KeysInv, KeysGrow, UNCHANGED <<v1, v2, v10, v11>>, AuthKeys!TypeOK', AuthKeys!PacketsFit',
           AuthKeys!AskedOnce', \A k \in AuthKeys!Keys : AuthKeys!Lost(k)' => AuthKeys!Lost(k)
    PROVE  AuthKeys!KeysInv'
<1>1. AuthKeys!UnknownAreLost'
  BY DEF KeysGrow, AuthKeys!KeysInv, AuthKeys!UnknownAreLost, AuthKeys!TypeOK
<1> QED BY <1>1, RowsOn

\* A client that goes on.
LEMMA MovedClient ==
    ASSUME NEW S, NEW N, NEW K, NEW A, NEW f \in [S -> [n : N, key : K, at : A]], NEW c \in S, NEW at \in A
    PROVE  [f EXCEPT ![c].at = at] \in [S -> [n : N, key : K, at : A]]
OBVIOUS

\* The clients send.
LEMMA AsksPqKeeps ==
    ASSUME AuthKeys!KeysInv, NEW c \in Tasks, AuthKeys!AsksPq(c) PROVE AuthKeys!KeysInv'
<1>1. /\ v7' = [v7 EXCEPT ![c] = [n |-> @.n + 1, at |-> "pq", key |-> AuthKeys!NoKey]]
      /\ v6' = [v6 EXCEPT ![c] = Append(@, AuthKeys!Packet("req_pq", v7[c].n + 1, AuthKeys!NoKey, "none"))]
      /\ UNCHANGED <<v1, v2, v3, v4, v5, v8, v9, v10, v11>>
  BY DEF AuthKeys!AsksPq, AuthKeys!Sends, AuthKeys!Unsent
<1>2. AuthKeys!TypeOK /\ AuthKeys!PacketsFit /\ AuthKeys!AskedOnce
  BY DEF AuthKeys!KeysInv
<1>3. PICK p \in AuthKeys!Packets : p = AuthKeys!Packet("req_pq", v7[c].n + 1, AuthKeys!NoKey, "none")
  <2>1. v7[c].n + 1 \in Nat
    BY <1>2 DEF AuthKeys!TypeOK
  <2> QED BY <2>1 DEF AuthKeys!Packet, AuthKeys!Packets, AuthKeys!Kinds
<1>4. AuthKeys!PacketFits(p)'
  BY <1>1, <1>2, <1>3 DEF AuthKeys!Packet, AuthKeys!PacketFits, AuthKeys!Keys
<1>5. KeysGrow
  BY <1>1 DEF KeysGrow
<1>6. v6' \in [Tasks -> Seq(AuthKeys!Packets)] /\ InboxFits(c)'
  <2>1. InboxFits(c)
    BY <1>2 DEF AuthKeys!PacketsFit, InboxFits
  <2> QED BY <1>1, <1>2, <1>3, <1>4, <1>5, <2>1, SentFits
<1>7. v7' \in [Tasks -> [n : Nat, key : AuthKeys!Keys \cup {AuthKeys!NoKey},
                         at : {"rest", "pq", "has_pq", "dh", "has_dh", "made", "bind"}]]
  BY <1>1, <1>2 DEF AuthKeys!TypeOK, AuthKeys!NoKey
<1>8. AuthKeys!TypeOK'
  BY <1>1, <1>2, <1>6, <1>7 DEF AuthKeys!TypeOK
<1>9. AuthKeys!PacketsFit'
  BY <1>1, <1>2, <1>5, <1>6, ConnGrows, PacketsStay DEF AuthKeys!PacketsFit, OneConn, AuthKeys!TypeOK
<1>10. AuthKeys!AskedOnce'
  BY <1>1, <1>2 DEF AuthKeys!AskedOnce, AuthKeys!TypeOK
<1>11. \A k \in AuthKeys!Keys : AuthKeys!Lost(k)' => AuthKeys!Lost(k)
  BY <1>1 DEF AuthKeys!Lost, AuthKeys!At
<1> QED BY <1>1, <1>5, <1>8, <1>9, <1>10, <1>11, KeysOn

LEMMA AsksDhKeeps ==
    ASSUME AuthKeys!KeysInv, NEW c \in Tasks, NEW kind \in {"perm", "temp"}, AuthKeys!AsksDh(c, kind)
    PROVE  AuthKeys!KeysInv'
<1> DEFINE k == v7[c].key
<1>1. /\ v7[c].at = "has_pq" /\ v7' = [v7 EXCEPT ![c].at = "dh"] /\ v8' = [v8 EXCEPT ![k] = kind]
      /\ v6' = [v6 EXCEPT ![c] = Append(@, AuthKeys!Packet("req_dh", v7[c].n, k, kind))]
      /\ UNCHANGED <<v1, v2, v3, v4, v5, v9, v10, v11>>
  BY DEF AuthKeys!AsksDh, AuthKeys!Sends, AuthKeys!Unsent
<1>2. AuthKeys!TypeOK /\ AuthKeys!PacketsFit /\ AuthKeys!AskedOnce
  BY DEF AuthKeys!KeysInv
<1>3. k \in 1..v4 /\ k \in AuthKeys!Keys /\ v8[k] = "none" /\ v8'[k] = kind
  BY <1>1, <1>2, BoundsAssumption DEF AuthKeys!AskedOnce, AuthKeys!TypeOK, AuthKeys!Keys
<1>4. PICK p \in AuthKeys!Packets : p = AuthKeys!Packet("req_dh", v7[c].n, k, kind)
  BY <1>3, <1>2 DEF AuthKeys!TypeOK, AuthKeys!Packet, AuthKeys!Packets, AuthKeys!Kinds, AuthKeys!NoKey
<1>5. AuthKeys!PacketFits(p)'
  BY <1>1, <1>2, <1>3, <1>4 DEF AuthKeys!Packet, AuthKeys!PacketFits, AuthKeys!Keys
<1>6. KeysGrow
  BY <1>1, <1>2, <1>3 DEF KeysGrow, AuthKeys!TypeOK
<1>7. v6' \in [Tasks -> Seq(AuthKeys!Packets)] /\ InboxFits(c)'
  <2>1. InboxFits(c)
    BY <1>2 DEF AuthKeys!PacketsFit, InboxFits
  <2> QED BY <1>1, <1>2, <1>4, <1>5, <1>6, <2>1, SentFits
<1>8. /\ v7' \in [Tasks -> [n : Nat, key : AuthKeys!Keys \cup {AuthKeys!NoKey},
                            at : {"rest", "pq", "has_pq", "dh", "has_dh", "made", "bind"}]]
      /\ v8' \in [AuthKeys!Keys -> AuthKeys!Kinds]
  BY <1>1, <1>2, <1>3, MovedClient DEF AuthKeys!TypeOK, AuthKeys!Kinds
<1>9. AuthKeys!TypeOK'
  BY <1>1, <1>2, <1>7, <1>8 DEF AuthKeys!TypeOK
<1>10. AuthKeys!PacketsFit'
  BY <1>1, <1>2, <1>6, <1>7, ConnGrows, PacketsStay DEF AuthKeys!PacketsFit, OneConn, AuthKeys!TypeOK
<1>11. AuthKeys!AskedOnce'
  <2>1. /\ \A d \in Tasks : v7'[d].at = "has_pq" => d # c /\ v7'[d] = v7[d] /\ v7[d].key # k
        /\ \A i \in AuthKeys!Keys : i # k => v8'[i] = v8[i]
    BY <1>1, <1>2, <1>3 DEF AuthKeys!AskedOnce, AuthKeys!TypeOK
  <2>2. \A d \in Tasks : v7'[d].at = "has_pq" => v7'[d].key \in 1..v4' /\ v8'[v7'[d].key] = "none"
    BY <1>1, <1>2, <2>1, BoundsAssumption DEF AuthKeys!AskedOnce, AuthKeys!TypeOK, AuthKeys!Keys
  <2>3. \A i \in AuthKeys!Keys : i > v4' => v8'[i] = "none"
    BY <1>1, <1>2, <1>3, <2>1 DEF AuthKeys!AskedOnce, AuthKeys!TypeOK
  <2> QED BY <1>2, <2>1, <2>2, <2>3 DEF AuthKeys!AskedOnce, AuthKeys!Keys
<1>12. \A i \in AuthKeys!Keys : AuthKeys!Lost(i)' => AuthKeys!Lost(i)
  BY <1>1 DEF AuthKeys!Lost, AuthKeys!At
<1> QED BY <1>1, <1>6, <1>9, <1>10, <1>11, <1>12, KeysOn

LEMMA SendsDhKeeps ==
    ASSUME AuthKeys!KeysInv, NEW c \in Tasks, AuthKeys!SendsDh(c) PROVE AuthKeys!KeysInv'
<1>1. /\ v7' = [v7 EXCEPT ![c].at = "made"]
      /\ v6' = [v6 EXCEPT ![c] = Append(@, AuthKeys!Packet("set_dh", v7[c].n, v7[c].key, "none"))]
      /\ UNCHANGED <<v1, v2, v3, v4, v5, v8, v9, v10, v11>>
  BY DEF AuthKeys!SendsDh, AuthKeys!Sends, AuthKeys!Unsent
<1>2. AuthKeys!TypeOK /\ AuthKeys!PacketsFit /\ AuthKeys!AskedOnce
  BY DEF AuthKeys!KeysInv
<1>3. PICK p \in AuthKeys!Packets : p = AuthKeys!Packet("set_dh", v7[c].n, v7[c].key, "none")
  BY <1>2 DEF AuthKeys!TypeOK, AuthKeys!Packet, AuthKeys!Packets, AuthKeys!Kinds, AuthKeys!NoKey
<1>4. AuthKeys!PacketFits(p)'
  BY <1>1, <1>2, <1>3 DEF AuthKeys!Packet, AuthKeys!PacketFits, AuthKeys!Keys
<1>5. KeysGrow
  BY <1>1 DEF KeysGrow
<1>6. v6' \in [Tasks -> Seq(AuthKeys!Packets)] /\ InboxFits(c)'
  <2>1. InboxFits(c)
    BY <1>2 DEF AuthKeys!PacketsFit, InboxFits
  <2> QED BY <1>1, <1>2, <1>3, <1>4, <1>5, <2>1, SentFits
<1>7. v7' \in [Tasks -> [n : Nat, key : AuthKeys!Keys \cup {AuthKeys!NoKey},
                         at : {"rest", "pq", "has_pq", "dh", "has_dh", "made", "bind"}]]
  BY <1>1, <1>2, MovedClient DEF AuthKeys!TypeOK
<1>8. AuthKeys!TypeOK'
  BY <1>1, <1>2, <1>6, <1>7 DEF AuthKeys!TypeOK
<1>9. AuthKeys!PacketsFit'
  BY <1>1, <1>2, <1>5, <1>6, ConnGrows, PacketsStay DEF AuthKeys!PacketsFit, OneConn, AuthKeys!TypeOK
<1>10. AuthKeys!AskedOnce'
  BY <1>1, <1>2 DEF AuthKeys!AskedOnce, AuthKeys!TypeOK
<1>11. \A k \in AuthKeys!Keys : AuthKeys!Lost(k)' => AuthKeys!Lost(k)
  BY <1>1 DEF AuthKeys!Lost, AuthKeys!At
<1> QED BY <1>1, <1>5, <1>8, <1>9, <1>10, <1>11, KeysOn

LEMMA AsksBindKeeps ==
    ASSUME AuthKeys!KeysInv, NEW c \in Tasks, NEW k \in AuthKeys!Keys, AuthKeys!AsksBind(c, k)
    PROVE  AuthKeys!KeysInv'
<1>1. /\ v9[k] # "none" /\ v8[k] = "temp" /\ v7' = [v7 EXCEPT ![c] = [n |-> @.n, at |-> "bind", key |-> k]]
      /\ v6' = [v6 EXCEPT ![c] = Append(@, AuthKeys!Packet("bind", v7[c].n, k, "temp"))]
      /\ UNCHANGED <<v1, v2, v3, v4, v5, v8, v9, v10, v11>>
  BY DEF AuthKeys!AsksBind, AuthKeys!Sends, AuthKeys!Unsent
<1>2. AuthKeys!TypeOK /\ AuthKeys!PacketsFit /\ AuthKeys!AskedOnce
  BY DEF AuthKeys!KeysInv
<1>3. PICK p \in AuthKeys!Packets : p = AuthKeys!Packet("bind", v7[c].n, k, "temp")
  BY <1>1, <1>2 DEF AuthKeys!TypeOK, AuthKeys!Packet, AuthKeys!Packets, AuthKeys!Kinds, AuthKeys!NoKey
<1>4. AuthKeys!PacketFits(p)'
  BY <1>1, <1>2, <1>3 DEF AuthKeys!Packet, AuthKeys!PacketFits, AuthKeys!Keys
<1>5. KeysGrow
  BY <1>1 DEF KeysGrow
<1>6. v6' \in [Tasks -> Seq(AuthKeys!Packets)] /\ InboxFits(c)'
  <2>1. InboxFits(c)
    BY <1>2 DEF AuthKeys!PacketsFit, InboxFits
  <2> QED BY <1>1, <1>2, <1>3, <1>4, <1>5, <2>1, SentFits
<1>7. v7' \in [Tasks -> [n : Nat, key : AuthKeys!Keys \cup {AuthKeys!NoKey},
                         at : {"rest", "pq", "has_pq", "dh", "has_dh", "made", "bind"}]]
  BY <1>1, <1>2 DEF AuthKeys!TypeOK
<1>8. AuthKeys!TypeOK'
  BY <1>1, <1>2, <1>6, <1>7 DEF AuthKeys!TypeOK
<1>9. AuthKeys!PacketsFit'
  BY <1>1, <1>2, <1>5, <1>6, ConnGrows, PacketsStay DEF AuthKeys!PacketsFit, OneConn, AuthKeys!TypeOK
<1>10. AuthKeys!AskedOnce'
  BY <1>1, <1>2 DEF AuthKeys!AskedOnce, AuthKeys!TypeOK
<1>11. \A i \in AuthKeys!Keys : AuthKeys!Lost(i)' => AuthKeys!Lost(i)
  BY <1>1 DEF AuthKeys!Lost, AuthKeys!At
<1> QED BY <1>1, <1>5, <1>8, <1>9, <1>10, <1>11, KeysOn

\* The receive loop goes on.
Gens == [key : AuthKeys!Keys \cup {AuthKeys!NoKey}, ready : BOOLEAN, kind : AuthKeys!Kinds]
LoopSteps == {"read", "pq", "req_dh", "set_dh", "stored", "bind", "gate", "wait"}
Loops == [at : LoopSteps, packet : AuthKeys!Packets, known : SUBSET AuthKeys!Keys, gen : Gens]
ClientSteps == {"rest", "pq", "has_pq", "dh", "has_dh", "made", "bind"}
ClientStates == [n : Nat, key : AuthKeys!Keys \cup {AuthKeys!NoKey}, at : ClientSteps]

LEMMA NothingRead == AuthKeys!NoPacket \in AuthKeys!Packets /\ AuthKeys!NoPacket.do = "none" /\ AuthKeys!NoGen \in Gens
BY DEF AuthKeys!NoPacket, AuthKeys!Packet, AuthKeys!Packets, AuthKeys!Kinds, AuthKeys!NoGen, Gens, AuthKeys!NoKey

LEMMA GoesOn ==
    ASSUME v5 \in [Tasks -> Loops], NEW c \in Tasks, NEW at \in LoopSteps, NEW p \in AuthKeys!Packets,
           AuthKeys!Goes(c, at, p)
    PROVE  /\ v5' \in [Tasks -> Loops] /\ \A d \in Tasks \ {c} : v5'[d] = v5[d]
           /\ v5'[c].at = at /\ v5'[c].packet = p /\ v5'[c].gen = v5[c].gen
BY DEF Loops, AuthKeys!Goes

LEMMA ReadsOn ==
    ASSUME v5 \in [Tasks -> Loops], NEW c \in Tasks, NEW gen \in Gens, AuthKeys!Reads(c, gen)
    PROVE  /\ v5' \in [Tasks -> Loops] /\ \A d \in Tasks \ {c} : v5'[d] = v5[d]
           /\ v5'[c].at = "read" /\ v5'[c].packet = AuthKeys!NoPacket /\ v5'[c].gen = gen
BY NothingRead DEF Loops, LoopSteps, AuthKeys!Reads

LEMMA TypesOfKeys ==
    ASSUME AuthKeys!TypeOK PROVE v5 \in [Tasks -> Loops] /\ v7 \in [Tasks -> ClientStates]
BY DEF AuthKeys!TypeOK, Loops, LoopSteps, Gens, ClientStates, ClientSteps

\* What the client makes of an answer.
LEMMA AnsweredOn ==
    ASSUME v7 \in [Tasks -> ClientStates], NEW c \in Tasks, NEW p \in AuthKeys!Packets, NEW from, NEW to \in ClientSteps,
           NEW k \in AuthKeys!Keys \cup {AuthKeys!NoKey}, AuthKeys!Answered(c, p, <<from, to>>, k)
    PROVE  /\ v7' \in [Tasks -> ClientStates] /\ \A d \in Tasks \ {c} : v7'[d] = v7[d]
           /\ v7'[c] = v7[c] \/ (v7'[c].at = to /\ v7'[c].key = k)
<1>1. v7' = v7 \/ v7' = [v7 EXCEPT ![c] = [n |-> p.n, at |-> to, key |-> k]]
  BY DEF AuthKeys!Answered
<1>2. [n |-> p.n, at |-> to, key |-> k] \in ClientStates
  BY DEF AuthKeys!Packets, ClientStates
<1> QED BY <1>1, <1>2

\* A connection that is not about to confirm a key loses none.
LEMMA NoneLost ==
    ASSUME NEW c \in Tasks, v1' = v1, \A d \in Tasks \ {c} : v5'[d] = v5[d], v5'[c].at # "stored",
           \A k \in AuthKeys!Keys : v9'[k] # "none" => v9[k] # "none" \/ (v5[c].at = "stored" /\ v5[c].packet.key = k)
    PROVE  \A k \in AuthKeys!Keys : AuthKeys!Lost(k)' => AuthKeys!Lost(k)
<1> SUFFICES ASSUME NEW k \in AuthKeys!Keys, AuthKeys!Lost(k)' PROVE AuthKeys!Lost(k)
  OBVIOUS
<1>1. v1[k] = "none" /\ (v9'[k] # "none" \/ \E d \in Tasks : v5'[d].at = "stored" /\ v5'[d].packet.key = k)
  BY DEF AuthKeys!Lost, AuthKeys!At
<1>2. v9[k] # "none" \/ \E d \in Tasks : v5[d].at = "stored" /\ v5[d].packet.key = k
  BY <1>1
<1> QED BY <1>1, <1>2 DEF AuthKeys!Lost, AuthKeys!At

\* A step of the receive loop of c that neither writes rows nor begins a bind.
LEMMA LoopKeeps ==
    ASSUME AuthKeys!KeysInv, KeysGrow, NEW c \in Tasks, UNCHANGED <<v1, v2, v8, v10, v11>>,
           v5' \in [Tasks -> Loops], v6' \in [Tasks -> Seq(AuthKeys!Packets)], v7' \in [Tasks -> ClientStates],
           v9' \in [AuthKeys!Keys -> {"none", "made", "bound", "refused"}], v4' \in 0..MaxKeys,
           OneConn(c), AuthKeys!ConnFits(c)', InboxFits(c)', AuthKeys!AskedOnce', v5'[c].at # "stored",
           \A k \in AuthKeys!Keys : v9'[k] # "none" => v9[k] # "none" \/ (v5[c].at = "stored" /\ v5[c].packet.key = k)
    PROVE  AuthKeys!KeysInv'
<1>1. AuthKeys!TypeOK /\ AuthKeys!PacketsFit
  BY DEF AuthKeys!KeysInv
<1>2. AuthKeys!TypeOK'
  BY <1>1 DEF AuthKeys!TypeOK, Loops, LoopSteps, Gens, ClientStates, ClientSteps
<1>3. AuthKeys!PacketsFit'
  BY <1>1, PacketsStay
<1>4. \A k \in AuthKeys!Keys : AuthKeys!Lost(k)' => AuthKeys!Lost(k)
  BY NoneLost DEF OneConn
<1> QED BY <1>2, <1>3, <1>4, KeysOn

\* The client of c stays, or has not been told of a new key.
LEMMA AskedStays ==
    ASSUME AuthKeys!AskedOnce, NEW c \in Tasks, UNCHANGED <<v4, v8>>,
           \A d \in Tasks \ {c} : v7'[d] = v7[d], v7'[c] = v7[c] \/ v7'[c].at # "has_pq"
    PROVE  AuthKeys!AskedOnce'
<1>1. \A d \in Tasks : v7'[d].at = "has_pq" => v7'[d] = v7[d]
  OBVIOUS
<1> QED BY <1>1 DEF AuthKeys!AskedOnce, AuthKeys!Keys

LEMMA TakesPqKeeps ==
    ASSUME AuthKeys!KeysInv, NEW c \in Tasks, AuthKeys!TakesPq(c) PROVE AuthKeys!KeysInv'
<1>1. AuthKeys!TypeOK /\ AuthKeys!PacketsFit /\ AuthKeys!AskedOnce
  BY DEF AuthKeys!KeysInv
<1>2. /\ UNCHANGED <<v1, v2, v3, v4, v7, v8, v9, v10, v11>>
      /\ \E i \in AuthKeys!SkippedPq(c) : AuthKeys!Goes(c, "pq", v6[c][i]) /\ AuthKeys!Dropped(c, i)
  BY DEF AuthKeys!TakesPq
<1>3. PICK i \in AuthKeys!SkippedPq(c) : AuthKeys!Goes(c, "pq", v6[c][i]) /\ AuthKeys!Dropped(c, i)
  BY <1>2
<1>4. i \in 1..Len(v6[c])
  BY <1>3 DEF AuthKeys!SkippedPq
<1>5. v6[c] \in Seq(AuthKeys!Packets) /\ v6[c][i] \in AuthKeys!Packets
  BY <1>1, <1>4 DEF AuthKeys!TypeOK
<1>6. PICK p \in AuthKeys!Packets : p = v6[c][i] /\ AuthKeys!PacketFits(p)
  BY <1>1, <1>4, <1>5 DEF AuthKeys!PacketsFit
<1>7. /\ v5' \in [Tasks -> Loops] /\ \A d \in Tasks \ {c} : v5'[d] = v5[d]
      /\ v5'[c].at = "pq" /\ v5'[c].packet = p /\ v5'[c].gen = v5[c].gen
  BY <1>1, <1>3, <1>6, TypesOfKeys, GoesOn DEF LoopSteps
<1>8. KeysGrow
  BY <1>2 DEF KeysGrow
<1>9. v6' \in [Tasks -> Seq(AuthKeys!Packets)] /\ InboxFits(c)'
  <2>1. InboxFits(c)
    BY <1>1 DEF AuthKeys!PacketsFit, InboxFits
  <2> QED BY <1>1, <1>3, <1>4, <1>8, <2>1, DroppedFits
<1>10. AuthKeys!ConnFits(c)'
  <2>1. AuthKeys!ConnFits(c)
    BY <1>1 DEF AuthKeys!PacketsFit
  <2>2. AuthKeys!PacketFits(p)'
    BY <1>6, <1>8, PacketGrows
  <2> QED BY <1>2, <1>7, <2>1, <2>2 DEF AuthKeys!ConnFits, AuthKeys!At, AuthKeys!PacketFits
<1>11. OneConn(c)
  BY <1>1, <1>2, <1>3, <1>7 DEF OneConn, AuthKeys!Dropped, AuthKeys!TypeOK
<1>12. AuthKeys!AskedOnce'
  BY <1>1, <1>2, AskedStays
<1> QED BY <1>1, <1>2, <1>7, <1>8, <1>9, <1>10, <1>11, <1>12, TypesOfKeys, LoopKeeps DEF AuthKeys!TypeOK

LEMMA TakesKeeps ==
    ASSUME AuthKeys!KeysInv, NEW c \in Tasks, NEW do \in {"req_dh", "set_dh", "bind"}, AuthKeys!Takes(c, do)
    PROVE  AuthKeys!KeysInv'
<1>1. AuthKeys!TypeOK /\ AuthKeys!PacketsFit /\ AuthKeys!AskedOnce
  BY DEF AuthKeys!KeysInv
<1>2. /\ UNCHANGED <<v1, v2, v3, v4, v7, v8, v9, v10, v11>> /\ v6[c] # <<>> /\ v6[c][1].do = do
      /\ AuthKeys!Goes(c, do, v6[c][1]) /\ AuthKeys!Dropped(c, 1)
  BY DEF AuthKeys!Takes
<1>3. v6[c] \in Seq(AuthKeys!Packets) /\ 1 \in 1..Len(v6[c]) /\ v6[c][1] \in AuthKeys!Packets
  BY <1>1, <1>2 DEF AuthKeys!TypeOK
<1>4. PICK p \in AuthKeys!Packets : p = v6[c][1] /\ AuthKeys!PacketFits(p)
  BY <1>1, <1>3 DEF AuthKeys!PacketsFit
<1>5. /\ v5' \in [Tasks -> Loops] /\ \A d \in Tasks \ {c} : v5'[d] = v5[d]
      /\ v5'[c].at = do /\ v5'[c].packet = p /\ v5'[c].gen = v5[c].gen
  BY <1>1, <1>2, <1>4, TypesOfKeys, GoesOn DEF LoopSteps
<1>6. KeysGrow
  BY <1>2 DEF KeysGrow
<1>7. v6' \in [Tasks -> Seq(AuthKeys!Packets)] /\ InboxFits(c)'
  <2>1. InboxFits(c)
    BY <1>1 DEF AuthKeys!PacketsFit, InboxFits
  <2> QED BY <1>1, <1>2, <1>3, <1>6, <2>1, DroppedFits
<1>8. AuthKeys!ConnFits(c)'
  <2>1. AuthKeys!ConnFits(c)
    BY <1>1 DEF AuthKeys!PacketsFit
  <2>2. AuthKeys!PacketFits(p)'
    BY <1>4, <1>6, PacketGrows
  <2> QED BY <1>2, <1>4, <1>5, <2>1, <2>2 DEF AuthKeys!ConnFits, AuthKeys!At, AuthKeys!PacketFits
<1>9. OneConn(c)
  BY <1>1, <1>2, <1>5 DEF OneConn, AuthKeys!Dropped, AuthKeys!TypeOK
<1>10. AuthKeys!AskedOnce'
  BY <1>1, <1>2, AskedStays
<1> QED BY <1>1, <1>2, <1>5, <1>6, <1>7, <1>8, <1>9, <1>10, TypesOfKeys, LoopKeeps DEF AuthKeys!TypeOK

LEMMA NothingTaken ==
    ASSUME AuthKeys!TypeOK, AuthKeys!PacketsFit, KeysGrow, NEW c \in Tasks, v6' = v6
    PROVE  v6' \in [Tasks -> Seq(AuthKeys!Packets)] /\ InboxFits(c)'
<1>1. InboxFits(c)
  BY DEF AuthKeys!PacketsFit, InboxFits
<1> QED BY <1>1, InboxGrows DEF AuthKeys!TypeOK

LEMMA ReqPqKeeps ==
    ASSUME AuthKeys!KeysInv, NEW c \in Tasks, AuthKeys!req_pq(c) PROVE AuthKeys!KeysInv'
<1>1. AuthKeys!TypeOK /\ AuthKeys!PacketsFit /\ AuthKeys!AskedOnce
  BY DEF AuthKeys!KeysInv
<1>2. /\ UNCHANGED <<v1, v2, v3, v6, v8, v9, v10, v11>> /\ v5[c].at = "pq" /\ v4 < MaxKeys /\ v4' = v4 + 1
      /\ AuthKeys!Reads(c, [AuthKeys!NoGen EXCEPT !.key = v4']) /\ AuthKeys!Answered(c, v5[c].packet, <<"pq", "has_pq">>, v4')
  BY DEF AuthKeys!req_pq, AuthKeys!At
<1>3. PICK k \in AuthKeys!Keys : k = v4' /\ k = v4 + 1 /\ v4 \in Nat /\ k \in 0..MaxKeys
  <2>1. MaxKeys \in Nat /\ v4 \in 0..MaxKeys
    BY <1>1, BoundsAssumption DEF AuthKeys!TypeOK
  <2>2. v4 + 1 \in 1..MaxKeys /\ v4 + 1 \in 0..MaxKeys /\ v4 \in Nat
    BY <1>2, <2>1
  <2> QED BY <1>2, <2>2 DEF AuthKeys!Keys
<1>4. v8[k] = "none" /\ k > v4
  <2>1. k > v4
    BY <1>3
  <2> QED BY <1>1, <1>3, <2>1 DEF AuthKeys!AskedOnce
<1>5. PICK g \in Gens : g = [AuthKeys!NoGen EXCEPT !.key = v4'] /\ ~g.ready
  <2>1. PICK h \in Gens : h = AuthKeys!NoGen /\ ~h.ready
    BY NothingRead DEF AuthKeys!NoGen
  <2>2. [h EXCEPT !.key = k] \in Gens /\ ~[h EXCEPT !.key = k].ready
    BY <2>1 DEF Gens
  <2> QED BY <1>3, <2>1, <2>2
<1>6. /\ v5' \in [Tasks -> Loops] /\ \A d \in Tasks \ {c} : v5'[d] = v5[d]
      /\ v5'[c].at = "read" /\ v5'[c].packet = AuthKeys!NoPacket /\ v5'[c].gen = g
  BY <1>1, <1>2, <1>5, TypesOfKeys, ReadsOn
<1>7. PICK p \in AuthKeys!Packets : p = v5[c].packet
  BY <1>1 DEF AuthKeys!TypeOK
<1>8. /\ v7' \in [Tasks -> ClientStates] /\ \A d \in Tasks \ {c} : v7'[d] = v7[d]
      /\ v7'[c] = v7[c] \/ (v7'[c].at = "has_pq" /\ v7'[c].key = k)
  <2>1. AuthKeys!Answered(c, p, <<"pq", "has_pq">>, k)
    BY <1>2, <1>3, <1>7
  <2> QED BY <1>1, <1>3, <2>1, TypesOfKeys, AnsweredOn DEF ClientSteps
<1>9. KeysGrow
  BY <1>2 DEF KeysGrow
<1>10. AuthKeys!ConnFits(c)'
  BY <1>5, <1>6, NothingRead DEF AuthKeys!ConnFits, AuthKeys!At, AuthKeys!PacketFits
<1>11. OneConn(c)
  BY <1>2, <1>6, <1>8 DEF OneConn
<1>12. AuthKeys!AskedOnce'
  <2>1. \A d \in Tasks : v7'[d].at = "has_pq" => v7'[d] = v7[d] \/ (d = c /\ v7'[d].key = k)
    BY <1>8
  <2>2. \A d \in Tasks : v7[d].at = "has_pq" => v7[d].key \in 1..v4 /\ v8[v7[d].key] = "none"
    BY <1>1 DEF AuthKeys!AskedOnce
  <2>3. \A d \in Tasks : v7'[d].at = "has_pq" => v7'[d].key \in 1..v4' /\ v8'[v7'[d].key] = "none"
    BY <1>2, <1>3, <1>4, <2>1, <2>2
  <2>4. \A d, e \in Tasks : v7'[d].at = "has_pq" /\ v7'[e].at = "has_pq" /\ v7'[d].key = v7'[e].key => d = e
    BY <1>1, <1>3, <2>1, <2>2 DEF AuthKeys!AskedOnce
  <2>5. \A i \in AuthKeys!Keys : i > v4' => v8'[i] = "none"
    BY <1>1, <1>2, <1>3 DEF AuthKeys!AskedOnce, AuthKeys!Keys
  <2> QED BY <2>3, <2>4, <2>5 DEF AuthKeys!AskedOnce, AuthKeys!Keys
<1> QED BY <1>1, <1>2, <1>3, <1>6, <1>8, <1>9, <1>10, <1>11, <1>12, NothingTaken, LoopKeeps DEF AuthKeys!TypeOK

LEMMA ReqDhKeeps ==
    ASSUME AuthKeys!KeysInv, NEW c \in Tasks, AuthKeys!req_dh_params(c) PROVE AuthKeys!KeysInv'
<1>1. AuthKeys!TypeOK /\ AuthKeys!PacketsFit /\ AuthKeys!AskedOnce
  BY DEF AuthKeys!KeysInv
<1>2. /\ UNCHANGED <<v1, v2, v3, v4, v6, v8, v9, v10, v11>> /\ v5[c].at = "req_dh" /\ v5[c].gen.key = v5[c].packet.key
      /\ AuthKeys!Reads(c, AuthKeys!Agreed(c, v5[c].packet))
      /\ AuthKeys!Answered(c, v5[c].packet, <<"dh", "has_dh">>, v5[c].packet.key)
  BY DEF AuthKeys!req_dh_params, AuthKeys!At, AuthKeys!OfThisGen
<1>3. PICK p \in AuthKeys!Packets : p = v5[c].packet
  BY <1>1 DEF AuthKeys!TypeOK
<1>4. p.key \in AuthKeys!Keys /\ p.kind \in AuthKeys!Kinds /\ p.kind # "none" /\ v8[p.key] = p.kind /\ v5[c].gen \in Gens
  BY <1>1, <1>2, <1>3
     DEF AuthKeys!PacketsFit, AuthKeys!ConnFits, AuthKeys!At, AuthKeys!PacketFits, AuthKeys!Packets, AuthKeys!TypeOK, Gens
<1>5. PICK g \in Gens : g = AuthKeys!Agreed(c, v5[c].packet) /\ g.key = p.key /\ g.kind = p.kind
  <2>1. PICK h \in Gens : h = v5[c].gen
    BY <1>4
  <2>2. [h EXCEPT !.ready = TRUE, !.kind = p.kind] \in Gens
    BY <1>4 DEF Gens
  <2>3. AuthKeys!Agreed(c, v5[c].packet) = [h EXCEPT !.ready = TRUE, !.kind = p.kind] /\ h.key = p.key
    BY <1>2, <1>3, <2>1 DEF AuthKeys!Agreed
  <2> QED BY <2>2, <2>3 DEF Gens
<1>6. /\ v5' \in [Tasks -> Loops] /\ \A d \in Tasks \ {c} : v5'[d] = v5[d]
      /\ v5'[c].at = "read" /\ v5'[c].packet = AuthKeys!NoPacket /\ v5'[c].gen = g
  BY <1>1, <1>2, <1>5, TypesOfKeys, ReadsOn
<1>7. /\ v7' \in [Tasks -> ClientStates] /\ \A d \in Tasks \ {c} : v7'[d] = v7[d]
      /\ v7'[c] = v7[c] \/ v7'[c].at # "has_pq"
  BY <1>1, <1>2, <1>3, <1>4, TypesOfKeys, AnsweredOn DEF ClientSteps
<1>8. KeysGrow
  BY <1>2 DEF KeysGrow
<1>9. AuthKeys!ConnFits(c)'
  BY <1>2, <1>4, <1>5, <1>6, NothingRead DEF AuthKeys!ConnFits, AuthKeys!At, AuthKeys!PacketFits, AuthKeys!Keys
<1>10. OneConn(c)
  BY <1>2, <1>6, <1>7 DEF OneConn
<1>11. AuthKeys!AskedOnce'
  BY <1>1, <1>2, <1>7, AskedStays
<1> QED BY <1>1, <1>2, <1>6, <1>7, <1>8, <1>9, <1>10, <1>11, NothingTaken, LoopKeeps DEF AuthKeys!TypeOK

LEMMA ConfirmsKeeps ==
    ASSUME AuthKeys!KeysInv, NEW c \in Tasks, AuthKeys!set_client_dh_params(c) PROVE AuthKeys!KeysInv'
<1>1. AuthKeys!TypeOK /\ AuthKeys!PacketsFit /\ AuthKeys!AskedOnce
  BY DEF AuthKeys!KeysInv
<1>2. PICK p \in AuthKeys!Packets : p = v5[c].packet
  BY <1>1 DEF AuthKeys!TypeOK
<1>3. /\ UNCHANGED <<v1, v2, v3, v4, v6, v8, v10, v11>> /\ v5[c].at = "stored"
      /\ AuthKeys!Reads(c, v5[c].gen) /\ AuthKeys!Answered(c, p, <<"made", "rest">>, AuthKeys!NoKey)
      /\ v9' = v9 \/ v9' = [v9 EXCEPT ![p.key] = "made"]
  BY <1>2 DEF AuthKeys!set_client_dh_params, AuthKeys!At, AuthKeys!Confirms
<1>4. p.key \in AuthKeys!Keys /\ v5[c].gen \in Gens
  BY <1>1, <1>2, <1>3 DEF AuthKeys!PacketsFit, AuthKeys!ConnFits, AuthKeys!At, AuthKeys!TypeOK, Gens
<1>5. /\ v5' \in [Tasks -> Loops] /\ \A d \in Tasks \ {c} : v5'[d] = v5[d]
      /\ v5'[c].at = "read" /\ v5'[c].packet = AuthKeys!NoPacket /\ v5'[c].gen = v5[c].gen
  BY <1>1, <1>3, <1>4, TypesOfKeys, ReadsOn
<1>6. /\ v7' \in [Tasks -> ClientStates] /\ \A d \in Tasks \ {c} : v7'[d] = v7[d]
      /\ v7'[c] = v7[c] \/ v7'[c].at # "has_pq"
  BY <1>1, <1>3, TypesOfKeys, AnsweredOn DEF ClientSteps
<1>7. /\ v9' \in [AuthKeys!Keys -> {"none", "made", "bound", "refused"}]
      /\ \A k \in AuthKeys!Keys : (v9[k] # "none" => v9'[k] # "none") /\ (v9'[k] # "none" => v9[k] # "none" \/ p.key = k)
  <2>1. PICK i \in AuthKeys!Keys : i = p.key
    BY <1>4
  <2>2. v9' = v9 \/ v9' = [v9 EXCEPT ![i] = "made"]
    BY <1>3, <2>1
  <2>3. v9 \in [AuthKeys!Keys -> {"none", "made", "bound", "refused"}]
    BY <1>1 DEF AuthKeys!TypeOK
  <2> QED BY <2>1, <2>2, <2>3
<1>8. KeysGrow
  BY <1>3, <1>7 DEF KeysGrow
<1>9. AuthKeys!ConnFits(c)'
  <2>1. AuthKeys!ConnFits(c)
    BY <1>1 DEF AuthKeys!PacketsFit
  <2> QED BY <1>3, <1>5, <2>1, NothingRead DEF AuthKeys!ConnFits, AuthKeys!At, AuthKeys!PacketFits
<1>10. OneConn(c)
  BY <1>3, <1>5, <1>6 DEF OneConn
<1>11. AuthKeys!AskedOnce'
  BY <1>1, <1>3, <1>6, AskedStays
<1> QED BY <1>1, <1>2, <1>3, <1>5, <1>6, <1>7, <1>8, <1>9, <1>10, <1>11, NothingTaken, LoopKeeps DEF AuthKeys!TypeOK

\* The key is looked up.
LEMMA FindsKeyKeeps ==
    ASSUME AuthKeys!KeysInv, NEW c \in Tasks, AuthKeys!FindsKey(c) PROVE AuthKeys!KeysInv'
<1>1. AuthKeys!TypeOK /\ AuthKeys!PacketsFit /\ AuthKeys!AskedOnce
  BY DEF AuthKeys!KeysInv
<1>2. /\ UNCHANGED <<v1, v2, v4, v6, v7, v8, v9, v10, v11>> /\ v5[c].at = "bind"
      /\ AuthKeys!Goes(c, "gate", v5[c].packet) /\ v5[c].packet \in AuthKeys!Packets
  BY <1>1 DEF AuthKeys!FindsKey, AuthKeys!At, AuthKeys!TypeOK
<1>3. /\ v5' \in [Tasks -> Loops] /\ \A d \in Tasks \ {c} : v5'[d] = v5[d]
      /\ v5'[c].at = "gate" /\ v5'[c].packet = v5[c].packet /\ v5'[c].gen = v5[c].gen
  BY <1>1, <1>2, TypesOfKeys, GoesOn DEF LoopSteps
<1>4. KeysGrow
  BY <1>2 DEF KeysGrow
<1>5. AuthKeys!ConnFits(c)'
  <2>1. AuthKeys!ConnFits(c)
    BY <1>1 DEF AuthKeys!PacketsFit
  <2> QED BY <1>2, <1>3, <2>1 DEF AuthKeys!ConnFits, AuthKeys!At, AuthKeys!PacketFits
<1>6. OneConn(c)
  BY <1>2, <1>3 DEF OneConn
<1>7. AuthKeys!AskedOnce'
  BY <1>1, <1>2, AskedStays
<1> QED BY <1>1, <1>2, <1>3, <1>4, <1>5, <1>6, <1>7, NothingTaken, TypesOfKeys, LoopKeeps DEF AuthKeys!TypeOK

LEMMA GetsAuthDataKeeps ==
    ASSUME AuthKeys!KeysInv, NEW c \in Tasks, AuthKeys!GetsAuthData(c) PROVE AuthKeys!KeysInv'
<1>1. AuthKeys!TypeOK /\ AuthKeys!PacketsFit /\ AuthKeys!AskedOnce
  BY DEF AuthKeys!KeysInv
<1>2. /\ UNCHANGED <<v1, v2, v4, v6, v7, v8, v9, v10, v11>> /\ v5[c].at = "bind" /\ v5[c].packet.key \in AuthKeys!Keys
      /\ v5' = [v5 EXCEPT ![c].at = "gate", ![c].known = @ \cup {v5[c].packet.key}]
  BY DEF AuthKeys!GetsAuthData, AuthKeys!At, AuthKeys!Found, AuthKeys!Stored
<1>3. /\ v5' \in [Tasks -> Loops] /\ \A d \in Tasks \ {c} : v5'[d] = v5[d]
      /\ v5'[c].at = "gate" /\ v5'[c].packet = v5[c].packet /\ v5'[c].gen = v5[c].gen
  <2>1. v5 \in [Tasks -> Loops]
    BY <1>1, TypesOfKeys
  <2> QED BY <1>2, <2>1 DEF Loops, LoopSteps
<1>4. KeysGrow
  BY <1>2 DEF KeysGrow
<1>5. AuthKeys!ConnFits(c)'
  <2>1. AuthKeys!ConnFits(c)
    BY <1>1 DEF AuthKeys!PacketsFit
  <2> QED BY <1>2, <1>3, <2>1 DEF AuthKeys!ConnFits, AuthKeys!At, AuthKeys!PacketFits
<1>6. OneConn(c)
  BY <1>2, <1>3 DEF OneConn
<1>7. AuthKeys!AskedOnce'
  BY <1>1, <1>2, AskedStays
<1> QED BY <1>1, <1>2, <1>3, <1>4, <1>5, <1>6, <1>7, NothingTaken, TypesOfKeys, LoopKeeps DEF AuthKeys!TypeOK

\* The connection is closed.
LEMMA ClosedFits ==
    ASSUME AuthKeys!KeysInv, KeysGrow, NEW c \in Tasks, AuthKeys!Disconnects(c), UNCHANGED <<v1, v4, v8>>,
           v2' \subseteq AuthKeys!Keys, v10' = v10, v11' = v11,
           v9' \in [AuthKeys!Keys -> {"none", "made", "bound", "refused"}],
           \A k \in AuthKeys!Keys : v9'[k] # "none" => v9[k] # "none"
    PROVE  /\ AuthKeys!TypeOK' /\ AuthKeys!PacketsFit' /\ AuthKeys!AskedOnce'
           /\ \A k \in AuthKeys!Keys : AuthKeys!Lost(k)' => AuthKeys!Lost(k)
<1>1. AuthKeys!TypeOK /\ AuthKeys!PacketsFit /\ AuthKeys!AskedOnce
  BY DEF AuthKeys!KeysInv
<1>2. v5 \in [Tasks -> Loops] /\ v7 \in [Tasks -> ClientStates]
  BY <1>1, TypesOfKeys
<1>3. AuthKeys!NewConn \in Loops
  BY NothingRead DEF AuthKeys!NewConn, Loops, LoopSteps
<1>4. AuthKeys!Rested(v7[c].n + 1) \in ClientStates
  BY <1>2 DEF AuthKeys!Rested, ClientStates, ClientSteps
<1>5. v5' \in [Tasks -> Loops] /\ v5'[c] = AuthKeys!NewConn /\ \A d \in Tasks \ {c} : v5'[d] = v5[d]
  BY <1>2, <1>3 DEF AuthKeys!Disconnects
<1>6. v7' \in [Tasks -> ClientStates] /\ v7'[c].at # "has_pq" /\ \A d \in Tasks \ {c} : v7'[d] = v7[d]
  BY <1>2, <1>4 DEF AuthKeys!Disconnects, AuthKeys!Rested
<1>7. v6' \in [Tasks -> Seq(AuthKeys!Packets)] /\ v6'[c] = <<>> /\ \A d \in Tasks \ {c} : v6'[d] = v6[d]
  <2>1. v6 \in [Tasks -> Seq(AuthKeys!Packets)] /\ <<>> \in Seq(AuthKeys!Packets)
    BY <1>1 DEF AuthKeys!TypeOK
  <2> QED BY <2>1 DEF AuthKeys!Disconnects
<1>8. AuthKeys!TypeOK'
  BY <1>1, <1>5, <1>6, <1>7 DEF AuthKeys!TypeOK, Loops, LoopSteps, Gens, ClientStates, ClientSteps
<1>9. AuthKeys!PacketsFit'
  <2>1. AuthKeys!ConnFits(c)'
    BY <1>5 DEF AuthKeys!NewConn, AuthKeys!ConnFits, AuthKeys!At, AuthKeys!PacketFits, AuthKeys!NoPacket,
                AuthKeys!Packet, AuthKeys!NoGen
  <2>2. InboxFits(c)'
    BY <1>7 DEF InboxFits
  <2>3. OneConn(c)
    BY <1>5, <1>6, <1>7 DEF OneConn
  <2> QED BY <1>1, <2>1, <2>2, <2>3, PacketsStay
<1>10. AuthKeys!AskedOnce'
  BY <1>1, <1>6, AskedStays
<1>11. \A k \in AuthKeys!Keys : AuthKeys!Lost(k)' => AuthKeys!Lost(k)
  BY <1>5, NoneLost DEF AuthKeys!NewConn
<1> QED BY <1>8, <1>9, <1>10, <1>11

LEMMA LostConnKeeps ==
    ASSUME AuthKeys!KeysInv, NEW c \in Tasks, AuthKeys!KeyIsNotStored(c) \/ AuthKeys!ConnectionIsLost(c)
    PROVE  AuthKeys!KeysInv'
<1>1. AuthKeys!Disconnects(c) /\ UNCHANGED <<v1, v2, v3, v4, v8, v9, v10, v11>>
  BY DEF AuthKeys!KeyIsNotStored, AuthKeys!ConnectionIsLost
<1>2. v2 \subseteq AuthKeys!Keys /\ v9 \in [AuthKeys!Keys -> {"none", "made", "bound", "refused"}]
  BY DEF AuthKeys!KeysInv, AuthKeys!TypeOK
<1>3. KeysGrow
  BY <1>1 DEF KeysGrow
<1>4. /\ AuthKeys!TypeOK' /\ AuthKeys!PacketsFit' /\ AuthKeys!AskedOnce'
      /\ \A k \in AuthKeys!Keys : AuthKeys!Lost(k)' => AuthKeys!Lost(k)
  BY <1>1, <1>2, <1>3, ClosedFits
<1> QED BY <1>1, <1>3, <1>4, KeysOn

\* The client gives up a key that it was told of.
LEMMA RefusedFits ==
    ASSUME AuthKeys!KeysInv, NEW c \in Tasks, v5[c].at \in {"bind", "gate"}, AuthKeys!Refuses(c, v5[c].packet.key),
           UNCHANGED <<v1, v4, v8, v10, v11>>, v2' \subseteq AuthKeys!Keys
    PROVE  /\ AuthKeys!TypeOK' /\ AuthKeys!PacketsFit' /\ AuthKeys!AskedOnce' /\ KeysGrow
           /\ v5[c].packet.key \in AuthKeys!Keys /\ v9[v5[c].packet.key] # "none"
           /\ \A k \in AuthKeys!Keys : AuthKeys!Lost(k)' => AuthKeys!Lost(k)
<1>1. AuthKeys!TypeOK /\ AuthKeys!PacketsFit /\ AuthKeys!AskedOnce
  BY DEF AuthKeys!KeysInv
<1>2. PICK p \in AuthKeys!Packets : p = v5[c].packet
  BY <1>1 DEF AuthKeys!TypeOK
<1>3. p.key \in AuthKeys!Keys /\ v9[p.key] # "none"
  BY <1>1, <1>2 DEF AuthKeys!PacketsFit, AuthKeys!ConnFits, AuthKeys!PacketFits
<1>4. AuthKeys!Disconnects(c) /\ v9' = [v9 EXCEPT ![p.key] = "refused"]
  BY <1>2 DEF AuthKeys!Refuses
<1>5. /\ v9' \in [AuthKeys!Keys -> {"none", "made", "bound", "refused"}]
      /\ \A k \in AuthKeys!Keys : v9'[k] # "none" <=> v9[k] # "none"
  <2>1. PICK i \in AuthKeys!Keys : i = p.key
    BY <1>3
  <2>2. v9 \in [AuthKeys!Keys -> {"none", "made", "bound", "refused"}]
    BY <1>1 DEF AuthKeys!TypeOK
  <2> QED BY <1>3, <1>4, <2>1, <2>2
<1>6. KeysGrow
  BY <1>5 DEF KeysGrow
<1>7. /\ AuthKeys!TypeOK' /\ AuthKeys!PacketsFit' /\ AuthKeys!AskedOnce'
      /\ \A k \in AuthKeys!Keys : AuthKeys!Lost(k)' => AuthKeys!Lost(k)
  BY <1>4, <1>5, <1>6, ClosedFits
<1> QED BY <1>2, <1>3, <1>6, <1>7

LEMMA GateRefusesKeeps ==
    ASSUME AuthKeys!KeysInv, NEW c \in Tasks, AuthKeys!GateRefuses(c) PROVE AuthKeys!KeysInv'
<1>1. /\ v5[c].at = "gate" /\ AuthKeys!Refuses(c, v5[c].packet.key)
      /\ UNCHANGED <<v1, v2, v4, v8, v10, v11>> /\ v2' \subseteq AuthKeys!Keys
  BY DEF AuthKeys!GateRefuses, AuthKeys!At, AuthKeys!KeysInv, AuthKeys!TypeOK
<1> QED BY <1>1, RefusedFits, KeysOn

LEMMA KeyIsUnknownKeeps ==
    ASSUME AuthKeys!KeysInv, NEW c \in Tasks, AuthKeys!KeyIsUnknown(c) PROVE AuthKeys!KeysInv'
<1>1. AuthKeys!TypeOK /\ AuthKeys!PacketsFit /\ AuthKeys!UnknownAreLost
  BY DEF AuthKeys!KeysInv
<1>2. /\ v5[c].at = "bind" /\ AuthKeys!Refuses(c, v5[c].packet.key) /\ v2' = v2 \cup {v5[c].packet.key}
      /\ v5[c].packet.key \in v2 \/ v5[c].packet.key \notin AuthKeys!Stored
      /\ UNCHANGED <<v1, v4, v8, v10, v11>>
  BY DEF AuthKeys!KeyIsUnknown, AuthKeys!At, AuthKeys!Found
<1>3. v5[c].packet.key \in AuthKeys!Keys
  BY <1>1, <1>2 DEF AuthKeys!PacketsFit, AuthKeys!ConnFits, AuthKeys!PacketFits
<1>4. v2' \subseteq AuthKeys!Keys
  BY <1>1, <1>2, <1>3 DEF AuthKeys!TypeOK
<1>5. /\ AuthKeys!TypeOK' /\ AuthKeys!PacketsFit' /\ AuthKeys!AskedOnce' /\ KeysGrow
      /\ v9[v5[c].packet.key] # "none" /\ \A k \in AuthKeys!Keys : AuthKeys!Lost(k)' => AuthKeys!Lost(k)
  BY <1>2, <1>4, RefusedFits
<1>6. AuthKeys!UnknownAreLost'
  <2>1. ASSUME NEW k \in v2' PROVE v9'[k] # "none" /\ (v1[k] = "none" \/ k \in v11.again)
    <3>1. k \in AuthKeys!Keys
      BY <1>4
    <3>2. k \in v2 \/ (k = v5[c].packet.key /\ k \notin AuthKeys!Stored)
      BY <1>2
    <3>3. v9[k] # "none" /\ (v1[k] = "none" \/ k \in v11.again)
      BY <1>1, <1>5, <3>1, <3>2 DEF AuthKeys!UnknownAreLost, AuthKeys!Stored
    <3> QED BY <1>5, <3>1, <3>3 DEF KeysGrow
  <2> QED BY <1>2, <2>1 DEF AuthKeys!UnknownAreLost
<1> QED BY <1>2, <1>5, <1>6, RowsOn

\* The row of the key is made, or is there.
LEMMA KeyIsStoredKeeps ==
    ASSUME AuthKeys!KeysInv, NEW c \in Tasks, AuthKeys!KeyIsStored(c) PROVE AuthKeys!KeysInv'
<1>1. /\ AuthKeys!TypeOK /\ AuthKeys!PacketsFit /\ AuthKeys!BindsFit /\ AuthKeys!AskedOnce /\ AuthKeys!RowsAsAsked
      /\ AuthKeys!LostForAnother /\ AuthKeys!OneBound /\ AuthKeys!OneBinds /\ AuthKeys!UnknownAreLost
  BY DEF AuthKeys!KeysInv
<1>2. PICK p \in AuthKeys!Packets : p = v5[c].packet
  BY <1>1 DEF AuthKeys!TypeOK
<1>3. PICK kind \in AuthKeys!Kinds : kind = v5[c].gen.kind
  BY <1>1 DEF AuthKeys!TypeOK
<1>4. /\ UNCHANGED <<v2, v3, v4, v6, v7, v8, v9, v10>> /\ v5[c].gen.ready /\ v5[c].gen.key = p.key
      /\ AuthKeys!create_key(p.key, kind) /\ AuthKeys!Goes(c, "stored", p)
  BY <1>2, <1>3 DEF AuthKeys!KeyIsStored, AuthKeys!OfThisGen
<1>5. PICK k \in AuthKeys!Keys : k = p.key /\ v8[k] = kind /\ kind \in {"perm", "temp"}
  <2>1. AuthKeys!ConnFits(c)
    BY <1>1 DEF AuthKeys!PacketsFit
  <2> QED BY <1>3, <1>4, <2>1 DEF AuthKeys!ConnFits, AuthKeys!Kinds
<1>6. /\ v1' = IF v1[k] = "none" THEN [v1 EXCEPT ![k] = IF kind = "temp" THEN "free" ELSE kind] ELSE v1
      /\ v11' = IF v1[k] = "none" /\ v9[k] # "none" THEN [v11 EXCEPT !.again = @ \cup {k}] ELSE v11
  BY <1>4, <1>5 DEF AuthKeys!create_key
<1>7. /\ v1' \in [AuthKeys!Keys -> {"none", "perm", "free", "bound", "expired"}] /\ v1'[k] # "none"
      /\ \A i \in AuthKeys!Keys : v1'[i] = v1[i] \/ (i = k /\ v1[k] = "none" /\ v1'[k] = IF kind = "temp" THEN "free" ELSE "perm")
  <2>1. v1 \in [AuthKeys!Keys -> {"none", "perm", "free", "bound", "expired"}]
    BY <1>1 DEF AuthKeys!TypeOK
  <2> QED BY <1>5, <1>6, <2>1
<1>8. /\ v11' \in [last : AuthKeys!Keys \cup {AuthKeys!NoKey}, overlapped : BOOLEAN, lapsed : SUBSET AuthKeys!Keys,
                   again : SUBSET AuthKeys!Keys]
      /\ v11'.last = v11.last /\ v11'.overlapped = v11.overlapped /\ v11'.lapsed = v11.lapsed
      /\ v11.again \subseteq v11'.again /\ (v1[k] = "none" /\ v9[k] # "none" => k \in v11'.again)
  BY <1>1, <1>6 DEF AuthKeys!TypeOK
<1>9. /\ v5' \in [Tasks -> Loops] /\ \A d \in Tasks \ {c} : v5'[d] = v5[d]
      /\ v5'[c].at = "stored" /\ v5'[c].packet = p /\ v5'[c].gen = v5[c].gen
  BY <1>1, <1>4, TypesOfKeys, GoesOn DEF LoopSteps
<1>10. KeysGrow
  BY <1>4 DEF KeysGrow
<1>11. AuthKeys!TypeOK'
  BY <1>1, <1>4, <1>7, <1>8, <1>9 DEF AuthKeys!TypeOK, Loops, LoopSteps, Gens
<1>12. AuthKeys!PacketsFit'
  <2>1. AuthKeys!ConnFits(c)
    BY <1>1 DEF AuthKeys!PacketsFit
  <2>2. AuthKeys!ConnFits(c)'
    BY <1>2, <1>4, <1>5, <1>9, <2>1 DEF AuthKeys!ConnFits, AuthKeys!At, AuthKeys!PacketFits
  <2>3. OneConn(c)
    BY <1>4, <1>9 DEF OneConn
  <2> QED BY <1>1, <1>4, <1>10, <2>2, <2>3, NothingTaken, PacketsStay
<1>13. AuthKeys!AskedOnce' /\ AuthKeys!BindsFit'
  BY <1>1, <1>4, AskedStays DEF AuthKeys!BindsFit
<1>14. AuthKeys!RowsAsAsked'
  BY <1>1, <1>4, <1>5, <1>7 DEF AuthKeys!RowsAsAsked, AuthKeys!Keys
<1>15. AuthKeys!BoundKeys' = AuthKeys!BoundKeys
  <2>1. \A i \in AuthKeys!Keys : (v1'[i] = "bound" <=> v1[i] = "bound") /\ (v1'[i] = "expired" <=> v1[i] = "expired")
    BY <1>7
  <2>2. v11.lapsed \subseteq AuthKeys!Keys
    BY <1>1 DEF AuthKeys!TypeOK
  <2> QED BY <1>8, <2>1, <2>2 DEF AuthKeys!BoundKeys, AuthKeys!Keys
<1>16. AuthKeys!LostForAnother'
  <2>1. ASSUME NEW i \in AuthKeys!Keys, AuthKeys!Lost(i)' PROVE AuthKeys!Lost(i)
    <3>1. v1'[i] = "none" /\ (v9'[i] # "none" \/ \E d \in Tasks : v5'[d].at = "stored" /\ v5'[d].packet.key = i)
      BY <2>1 DEF AuthKeys!Lost, AuthKeys!At
    <3>2. v1[i] = "none" /\ i # k
      BY <1>7, <3>1
    <3> QED BY <1>4, <1>5, <1>9, <3>1, <3>2 DEF AuthKeys!Lost, AuthKeys!At
  <2>2. \A b \in v10 : v1[b.key] # "none" => v1'[b.key] # "none"
    BY <1>1, <1>7 DEF AuthKeys!TypeOK
  <2> QED BY <1>1, <1>4, <1>15, <2>1, <2>2 DEF AuthKeys!LostForAnother, AuthKeys!Updating, AuthKeys!Keys
<1>17. AuthKeys!OneBound' /\ AuthKeys!OneBinds'
  <2>1. AuthKeys!OneBound'
    <3>1. \A i \in v11.lapsed : v1'[i] = "expired"
      BY <1>1, <1>7 DEF AuthKeys!OneBound, AuthKeys!TypeOK
    <3> QED BY <1>1, <1>8, <1>15, <3>1 DEF AuthKeys!OneBound
  <2>2. \A b \in v10 : v1[b.key] \in {"free", "bound", "expired"} => v1'[b.key] = v1[b.key]
    BY <1>1, <1>7 DEF AuthKeys!TypeOK
  <2>3. AuthKeys!OneBinds'
    BY <1>1, <1>4, <1>8, <1>15, <2>2 DEF AuthKeys!OneBinds, AuthKeys!Updating, AuthKeys!NoKey
  <2> QED BY <2>1, <2>3
<1>18. AuthKeys!UnknownAreLost'
  <2>1. ASSUME NEW i \in v2 PROVE v9[i] # "none" /\ (v1'[i] = "none" \/ i \in v11'.again)
    <3>1. i \in AuthKeys!Keys /\ v9[i] # "none" /\ (v1[i] = "none" \/ i \in v11.again)
      BY <1>1 DEF AuthKeys!UnknownAreLost, AuthKeys!TypeOK
    <3> QED BY <1>7, <1>8, <3>1
  <2> QED BY <1>4, <2>1 DEF AuthKeys!UnknownAreLost
<1> QED BY <1>11, <1>12, <1>13, <1>14, <1>16, <1>17, <1>18 DEF AuthKeys!KeysInv

\* A bind begins.
LEMMA GateOpensKeeps ==
    ASSUME AuthKeys!KeysInv, NEW c \in Tasks, AuthKeys!GateOpens(c) PROVE AuthKeys!KeysInv'
<1>1. /\ AuthKeys!TypeOK /\ AuthKeys!PacketsFit /\ AuthKeys!BindsFit /\ AuthKeys!AskedOnce /\ AuthKeys!RowsAsAsked
      /\ AuthKeys!LostForAnother /\ AuthKeys!OneBound /\ AuthKeys!OneBinds /\ AuthKeys!UnknownAreLost
  BY DEF AuthKeys!KeysInv
<1>2. PICK p \in AuthKeys!Packets : p = v5[c].packet
  BY <1>1 DEF AuthKeys!TypeOK
<1>3. PICK k \in AuthKeys!Keys : k = p.key /\ v8[k] = "temp" /\ v9[k] # "none"
  BY <1>1, <1>2 DEF AuthKeys!GateOpens, AuthKeys!PacketsFit, AuthKeys!ConnFits, AuthKeys!At, AuthKeys!PacketFits
<1>4. PICK knew \in BOOLEAN : knew <=> v3[k] = "bound"
  OBVIOUS
<1>5. PICK b \in [c : Tasks, n : Nat, key : AuthKeys!Keys, at : {"check", "update"}, knew : BOOLEAN] :
         b = [c |-> c, n |-> p.n, key |-> k, at |-> "check", knew |-> v3[k] = "bound"]
  BY <1>2, <1>3, <1>4 DEF AuthKeys!Packets
<1>6. /\ UNCHANGED <<v1, v2, v3, v4, v6, v7, v8, v9>> /\ v5[c].at = "gate" /\ AuthKeys!Goes(c, "wait", p)
      /\ v10' = v10 \cup {b} /\ v11' = [v11 EXCEPT !.overlapped = @ \/ v10 # {}]
  BY <1>2, <1>3, <1>5 DEF AuthKeys!GateOpens, AuthKeys!At
<1>7. /\ v11' \in [last : AuthKeys!Keys \cup {AuthKeys!NoKey}, overlapped : BOOLEAN, lapsed : SUBSET AuthKeys!Keys,
                   again : SUBSET AuthKeys!Keys]
      /\ v11'.last = v11.last /\ v11'.lapsed = v11.lapsed /\ v11'.again = v11.again
      /\ ~v11'.overlapped => ~v11.overlapped /\ v10 = {}
  BY <1>1, <1>6 DEF AuthKeys!TypeOK
<1>8. /\ v5' \in [Tasks -> Loops] /\ \A d \in Tasks \ {c} : v5'[d] = v5[d]
      /\ v5'[c].at = "wait" /\ v5'[c].packet = p /\ v5'[c].gen = v5[c].gen
  BY <1>1, <1>6, TypesOfKeys, GoesOn DEF LoopSteps
<1>9. KeysGrow
  BY <1>6 DEF KeysGrow
<1>10. AuthKeys!TypeOK'
  BY <1>1, <1>5, <1>6, <1>7, <1>8 DEF AuthKeys!TypeOK, Loops, LoopSteps, Gens
<1>11. AuthKeys!PacketsFit'
  <2>1. AuthKeys!ConnFits(c)
    BY <1>1 DEF AuthKeys!PacketsFit
  <2>2. AuthKeys!ConnFits(c)'
    BY <1>2, <1>6, <1>8, <2>1 DEF AuthKeys!ConnFits, AuthKeys!At, AuthKeys!PacketFits
  <2>3. OneConn(c)
    BY <1>6, <1>8 DEF OneConn
  <2> QED BY <1>1, <1>6, <1>9, <2>2, <2>3, NothingTaken, PacketsStay
<1>12. AuthKeys!AskedOnce' /\ AuthKeys!RowsAsAsked' /\ AuthKeys!UnknownAreLost'
  BY <1>1, <1>6, <1>7, AskedStays DEF AuthKeys!RowsAsAsked, AuthKeys!UnknownAreLost
<1>13. AuthKeys!BindsFit'
  BY <1>1, <1>3, <1>5, <1>6 DEF AuthKeys!BindsFit
<1>14. AuthKeys!BoundKeys' = AuthKeys!BoundKeys
  BY <1>6, <1>7 DEF AuthKeys!BoundKeys
<1>15. AuthKeys!LostForAnother'
  <2>1. \A i \in AuthKeys!Keys : AuthKeys!Lost(i)' => AuthKeys!Lost(i)
    BY <1>6, <1>8, NoneLost
  <2> QED BY <1>1, <1>6, <1>14, <2>1 DEF AuthKeys!LostForAnother, AuthKeys!Updating, AuthKeys!Keys
<1>16. AuthKeys!OneBound'
  BY <1>1, <1>6, <1>7, <1>14 DEF AuthKeys!OneBound
<1>17. AuthKeys!OneBinds'
  <2>1. ASSUME ~v11'.overlapped
        PROVE  v10' = {b} /\ ~AuthKeys!Updating(b) /\ (v11.last # AuthKeys!NoKey => AuthKeys!BoundKeys = {v11.last})
    BY <1>1, <1>5, <1>6, <1>7, <2>1 DEF AuthKeys!OneBinds, AuthKeys!Updating
  <2> QED BY <1>6, <1>7, <1>14, <2>1 DEF AuthKeys!OneBinds, AuthKeys!Updating
<1> QED BY <1>10, <1>11, <1>12, <1>13, <1>15, <1>16, <1>17 DEF AuthKeys!KeysInv

CauseStates == [last : AuthKeys!Keys \cup {AuthKeys!NoKey}, overlapped : BOOLEAN, lapsed : SUBSET AuthKeys!Keys,
                again : SUBSET AuthKeys!Keys]
RowStates == {"none", "perm", "free", "bound", "expired"}
ToldStates == {"none", "made", "bound", "refused"}
BindStates == [c : Tasks, n : Nat, key : AuthKeys!Keys, at : {"check", "update"}, knew : BOOLEAN]

LEMMA KeysStay ==
    ASSUME AuthKeys!KeysInv, UNCHANGED <<v1, v2, v4, v5, v6, v7, v8, v9, v10, v11>> PROVE AuthKeys!KeysInv'
<1>1. /\ AuthKeys!TypeOK /\ AuthKeys!PacketsFit /\ AuthKeys!AskedOnce
  BY DEF AuthKeys!KeysInv
<1>2. KeysGrow
  BY DEF KeysGrow
<1>3. AuthKeys!TypeOK' /\ AuthKeys!AskedOnce'
  BY <1>1 DEF AuthKeys!TypeOK, AuthKeys!AskedOnce
<1>4. AuthKeys!PacketsFit'
  BY <1>1, <1>2, ConnGrows, InboxGrows DEF AuthKeys!PacketsFit, InboxFits
<1>5. \A k \in AuthKeys!Keys : AuthKeys!Lost(k)' => AuthKeys!Lost(k)
  BY DEF AuthKeys!Lost, AuthKeys!At
<1> QED BY <1>2, <1>3, <1>4, <1>5, KeysOn

LEMMA ExpiresKeeps ==
    ASSUME AuthKeys!KeysInv, NEW k \in AuthKeys!Keys, AuthKeys!Expires(k) PROVE AuthKeys!KeysInv'
<1>1. /\ AuthKeys!TypeOK /\ AuthKeys!PacketsFit /\ AuthKeys!BindsFit /\ AuthKeys!AskedOnce /\ AuthKeys!RowsAsAsked
      /\ AuthKeys!LostForAnother /\ AuthKeys!OneBound /\ AuthKeys!OneBinds /\ AuthKeys!UnknownAreLost
  BY DEF AuthKeys!KeysInv
<1>2. /\ v1[k] \in {"free", "bound"} /\ v1' = [v1 EXCEPT ![k] = "expired"]
      /\ v11' = [v11 EXCEPT !.lapsed = IF v1[k] = "bound" THEN @ \cup {k} ELSE @]
      /\ UNCHANGED <<v2, v3, v4, v5, v6, v7, v8, v9, v10>>
  BY DEF AuthKeys!Expires
<1>3. /\ v1 \in [AuthKeys!Keys -> RowStates] /\ v1' \in [AuthKeys!Keys -> RowStates] /\ v1'[k] = "expired"
      /\ \A i \in AuthKeys!Keys \ {k} : v1'[i] = v1[i]
  BY <1>1, <1>2 DEF AuthKeys!TypeOK, RowStates
<1>4. /\ v11' \in CauseStates /\ v11'.last = v11.last /\ v11'.overlapped = v11.overlapped /\ v11'.again = v11.again
      /\ v11'.lapsed = IF v1[k] = "bound" THEN v11.lapsed \cup {k} ELSE v11.lapsed
  BY <1>1, <1>2 DEF AuthKeys!TypeOK, CauseStates
<1>5. KeysGrow
  BY <1>2 DEF KeysGrow
<1>6. AuthKeys!TypeOK'
  BY <1>1, <1>2, <1>3, <1>4 DEF AuthKeys!TypeOK, RowStates, CauseStates
<1>7. AuthKeys!PacketsFit'
  BY <1>1, <1>2, <1>5, ConnGrows, InboxGrows DEF AuthKeys!PacketsFit, InboxFits
<1>8. AuthKeys!AskedOnce' /\ AuthKeys!BindsFit'
  BY <1>1, <1>2 DEF AuthKeys!AskedOnce, AuthKeys!BindsFit
<1>9. AuthKeys!RowsAsAsked'
  BY <1>1, <1>2, <1>3 DEF AuthKeys!RowsAsAsked, AuthKeys!Keys
<1>10. v11.lapsed \subseteq AuthKeys!Keys /\ \A i \in v11.lapsed : v1[i] = "expired" /\ i # k
  BY <1>1, <1>2 DEF AuthKeys!OneBound, AuthKeys!TypeOK
<1>11. AuthKeys!BoundKeys' = AuthKeys!BoundKeys
  <2>1. ASSUME NEW i \in AuthKeys!Keys
        PROVE  (v1'[i] = "bound" \/ (i \in v11'.lapsed /\ v1'[i] = "expired"))
                   <=> (v1[i] = "bound" \/ (i \in v11.lapsed /\ v1[i] = "expired"))
    BY <1>2, <1>3, <1>4, <1>10
  <2>2. v11'.lapsed \subseteq AuthKeys!Keys
    BY <1>4, <1>10
  <2> QED BY <1>10, <2>1, <2>2 DEF AuthKeys!BoundKeys, AuthKeys!Keys
<1>12. AuthKeys!LostForAnother'
  <2>1. \A i \in AuthKeys!Keys : AuthKeys!Lost(i)' => AuthKeys!Lost(i)
    BY <1>2, <1>3 DEF AuthKeys!Lost, AuthKeys!At
  <2>2. \A b \in v10 : v1[b.key] # "none" => v1'[b.key] # "none"
    BY <1>1, <1>3 DEF AuthKeys!TypeOK
  <2> QED BY <1>1, <1>2, <1>11, <2>1, <2>2 DEF AuthKeys!LostForAnother, AuthKeys!Updating, AuthKeys!Keys
<1>13. AuthKeys!OneBound'
  BY <1>1, <1>3, <1>4, <1>10, <1>11 DEF AuthKeys!OneBound
<1>14. AuthKeys!OneBinds'
  <2>1. \A b \in v10 : v1[b.key] \in {"free", "bound", "expired"} => v1'[b.key] \in {"free", "bound", "expired"}
    BY <1>1, <1>3 DEF AuthKeys!TypeOK
  <2> QED BY <1>1, <1>2, <1>4, <1>11, <2>1 DEF AuthKeys!OneBinds, AuthKeys!Updating, AuthKeys!NoKey
<1>15. AuthKeys!UnknownAreLost'
  BY <1>1, <1>2, <1>3, <1>4 DEF AuthKeys!UnknownAreLost, AuthKeys!TypeOK
<1> QED BY <1>6, <1>7, <1>8, <1>9, <1>12, <1>13, <1>14, <1>15 DEF AuthKeys!KeysInv

\* A bind ends, and is answered if its connection waits for it.
LEMMA AnswersFit ==
    ASSUME AuthKeys!KeysInv, NEW b \in v10, NEW ok \in BOOLEAN, AuthKeys!BindAnswers(b, ok), UNCHANGED <<v4, v6, v8>>
    PROVE  /\ KeysGrow /\ v10' = v10 \ {b} /\ v9' \in [AuthKeys!Keys -> ToldStates]
           /\ v5' \in [Tasks -> Loops] /\ v7' \in [Tasks -> ClientStates]
           /\ AuthKeys!PacketsFit' /\ AuthKeys!AskedOnce' /\ AuthKeys!BindsFit'
           /\ \A k \in AuthKeys!Keys : v1[k] = "none" /\ AuthKeys!Lost(k)' => AuthKeys!Lost(k)
<1>1. AuthKeys!TypeOK /\ AuthKeys!PacketsFit /\ AuthKeys!BindsFit /\ AuthKeys!AskedOnce
  BY DEF AuthKeys!KeysInv
<1>2. PICK c \in Tasks : c = b.c
  BY <1>1 DEF AuthKeys!TypeOK
<1>3. PICK k \in AuthKeys!Keys : k = b.key /\ v9[k] # "none"
  BY <1>1 DEF AuthKeys!TypeOK, AuthKeys!BindsFit
<1>4. /\ v10' = v10 \ {b} /\ (v9' = v9 \/ v9' = [v9 EXCEPT ![k] = "bound"])
      /\ \/ v5' = v5 /\ v7' = v7
         \/ /\ v5' = [v5 EXCEPT ![c].at = "read", ![c].packet = AuthKeys!NoPacket]
            /\ v7' = [v7 EXCEPT ![c] = AuthKeys!Rested(@.n)]
  BY <1>2, <1>3 DEF AuthKeys!BindAnswers
<1>5. v5 \in [Tasks -> Loops] /\ v7 \in [Tasks -> ClientStates] /\ v9 \in [AuthKeys!Keys -> ToldStates]
  BY <1>1, TypesOfKeys DEF AuthKeys!TypeOK, ToldStates
<1>6. v9' \in [AuthKeys!Keys -> ToldStates] /\ \A i \in AuthKeys!Keys : v9'[i] # "none" <=> v9[i] # "none"
  BY <1>3, <1>4, <1>5 DEF ToldStates
<1>7. KeysGrow
  BY <1>6 DEF KeysGrow
<1>8. /\ v5' \in [Tasks -> Loops] /\ \A d \in Tasks \ {c} : v5'[d] = v5[d]
      /\ \/ v5'[c] = v5[c]
         \/ v5'[c].at = "read" /\ v5'[c].packet = AuthKeys!NoPacket /\ v5'[c].gen = v5[c].gen
  BY <1>4, <1>5, NothingRead DEF Loops, LoopSteps
<1>9. /\ v7' \in [Tasks -> ClientStates] /\ \A d \in Tasks \ {c} : v7'[d] = v7[d]
      /\ v7'[c] = v7[c] \/ v7'[c].at # "has_pq"
  <2>1. AuthKeys!Rested(v7[c].n) \in ClientStates /\ AuthKeys!Rested(v7[c].n).at = "rest"
    BY <1>5 DEF AuthKeys!Rested, ClientStates, ClientSteps
  <2> QED BY <1>4, <1>5, <2>1
<1>10. AuthKeys!PacketsFit'
  <2>1. AuthKeys!ConnFits(c)
    BY <1>1 DEF AuthKeys!PacketsFit
  <2>2. AuthKeys!ConnFits(c)'
    <3>1. CASE v5'[c] = v5[c]
      BY <1>7, <2>1, <3>1, ConnGrows
    <3>2. CASE v5'[c].at = "read" /\ v5'[c].packet = AuthKeys!NoPacket /\ v5'[c].gen = v5[c].gen
      BY <2>1, <3>2, NothingRead DEF AuthKeys!ConnFits, AuthKeys!At, AuthKeys!PacketFits
    <3> QED BY <1>8, <3>1, <3>2
  <2>3. OneConn(c)
    BY <1>8, <1>9 DEF OneConn
  <2> QED BY <1>1, <1>7, <2>2, <2>3, NothingTaken, PacketsStay
<1>11. AuthKeys!AskedOnce'
  BY <1>1, <1>9, AskedStays
<1>12. AuthKeys!BindsFit'
  BY <1>1, <1>4, <1>6 DEF AuthKeys!BindsFit, AuthKeys!TypeOK
<1>13. ASSUME NEW i \in AuthKeys!Keys, v1[i] = "none", AuthKeys!Lost(i)' PROVE AuthKeys!Lost(i)
  <2>1. v9'[i] # "none" \/ \E d \in Tasks : v5'[d].at = "stored" /\ v5'[d].packet.key = i
    BY <1>13 DEF AuthKeys!Lost, AuthKeys!At
  <2>2. v9[i] # "none" \/ \E d \in Tasks : v5[d].at = "stored" /\ v5[d].packet.key = i
    BY <1>6, <1>8, <2>1
  <2> QED BY <1>13, <2>2 DEF AuthKeys!Lost, AuthKeys!At
<1> QED BY <1>4, <1>6, <1>7, <1>8, <1>9, <1>10, <1>11, <1>12, <1>13

\* A bind that does nothing: it is of no use any more, or another key is bound.
LEMMA BindEndsKeeps ==
    ASSUME AuthKeys!KeysInv, NEW b \in v10, AuthKeys!BindFails(b) \/ AuthKeys!BindClashes(b) PROVE AuthKeys!KeysInv'
<1>1. /\ AuthKeys!TypeOK /\ AuthKeys!PacketsFit /\ AuthKeys!BindsFit /\ AuthKeys!AskedOnce /\ AuthKeys!RowsAsAsked
      /\ AuthKeys!LostForAnother /\ AuthKeys!OneBound /\ AuthKeys!OneBinds /\ AuthKeys!UnknownAreLost
  BY DEF AuthKeys!KeysInv
<1>2. /\ AuthKeys!BindAnswers(b, FALSE) /\ UNCHANGED <<v1, v2, v4, v6, v8, v11>>
      /\ ~AuthKeys!Updating(b) \/ ~(AuthKeys!BoundKeys \subseteq {b.key})
  BY DEF AuthKeys!BindFails, AuthKeys!BindClashes, AuthKeys!Updating
<1>3. /\ KeysGrow /\ v10' = v10 \ {b} /\ v9' \in [AuthKeys!Keys -> ToldStates]
      /\ v5' \in [Tasks -> Loops] /\ v7' \in [Tasks -> ClientStates]
      /\ AuthKeys!PacketsFit' /\ AuthKeys!AskedOnce' /\ AuthKeys!BindsFit'
      /\ \A k \in AuthKeys!Keys : v1[k] = "none" /\ AuthKeys!Lost(k)' => AuthKeys!Lost(k)
  BY <1>2, AnswersFit
<1>4. AuthKeys!TypeOK'
  BY <1>1, <1>2, <1>3 DEF AuthKeys!TypeOK, ToldStates, Loops, LoopSteps, Gens, ClientStates, ClientSteps
<1>5. AuthKeys!BoundKeys' = AuthKeys!BoundKeys
  BY <1>2 DEF AuthKeys!BoundKeys
<1>6. AuthKeys!RowsAsAsked' /\ AuthKeys!OneBound'
  BY <1>1, <1>2, <1>5 DEF AuthKeys!RowsAsAsked, AuthKeys!OneBound
<1>7. AuthKeys!UnknownAreLost'
  BY <1>1, <1>2, <1>3 DEF AuthKeys!UnknownAreLost, AuthKeys!TypeOK, KeysGrow
<1>8. AuthKeys!LostForAnother'
  <2>1. \A i \in AuthKeys!Keys : AuthKeys!Lost(i)' => AuthKeys!Lost(i)
    BY <1>2, <1>3 DEF AuthKeys!Lost
  <2>2. AuthKeys!BoundKeys = {} => ~AuthKeys!Updating(b)
    BY <1>2
  <2> QED BY <1>1, <1>2, <1>3, <1>5, <2>1, <2>2 DEF AuthKeys!LostForAnother, AuthKeys!Updating, AuthKeys!Keys
<1>9. AuthKeys!OneBinds'
  <2>1. ASSUME ~v11.overlapped
        PROVE  v10' = {} /\ (v11.last # AuthKeys!NoKey => AuthKeys!BoundKeys = {v11.last})
    <3>1. v10 = {b} /\ v10' = {}
      BY <1>1, <1>3, <2>1 DEF AuthKeys!OneBinds
    <3>2. ~AuthKeys!Updating(b)
      BY <1>1, <1>2, <2>1 DEF AuthKeys!OneBinds
    <3> QED BY <1>1, <2>1, <3>1, <3>2 DEF AuthKeys!OneBinds
  <2> QED BY <1>2, <1>5, <2>1 DEF AuthKeys!OneBinds, AuthKeys!Updating, AuthKeys!NoKey
<1> QED BY <1>3, <1>4, <1>6, <1>7, <1>8, <1>9 DEF AuthKeys!KeysInv

\* The rows of the others are deleted, and the bind goes on.
LEMMA BindDeletesKeeps ==
    ASSUME AuthKeys!KeysInv, NEW b \in v10, AuthKeys!BindDeletes(b) PROVE AuthKeys!KeysInv'
<1>1. /\ AuthKeys!TypeOK /\ AuthKeys!PacketsFit /\ AuthKeys!BindsFit /\ AuthKeys!AskedOnce /\ AuthKeys!RowsAsAsked
      /\ AuthKeys!LostForAnother /\ AuthKeys!OneBound /\ AuthKeys!OneBinds /\ AuthKeys!UnknownAreLost
  BY DEF AuthKeys!KeysInv
<1>2. PICK k \in AuthKeys!Keys : k = b.key /\ v8[k] = "temp" /\ v9[k] # "none"
  BY <1>1 DEF AuthKeys!TypeOK, AuthKeys!BindsFit
<1>3. v1 \in [AuthKeys!Keys -> RowStates] /\ v11 \in CauseStates
  BY <1>1 DEF AuthKeys!TypeOK, RowStates, CauseStates
<1>4. v1[k] \in {"free", "bound"} /\ b.at = "check"
  BY <1>1, <1>2, <1>3 DEF AuthKeys!BindDeletes, AuthKeys!Registered, AuthKeys!RowsAsAsked, RowStates
<1>5. PICK d \in BindStates : d = [b EXCEPT !.at = "update"] /\ d.key = k /\ AuthKeys!Updating(d)
  <2>1. PICK e \in BindStates : e = b
    BY <1>1 DEF AuthKeys!TypeOK, BindStates
  <2>2. [e EXCEPT !.at = "update"] \in BindStates
    BY DEF BindStates
  <2>3. [e EXCEPT !.at = "update"].key = k /\ [e EXCEPT !.at = "update"].at = "update"
    BY <1>2, <2>1 DEF BindStates
  <2> QED BY <2>1, <2>2, <2>3 DEF AuthKeys!Updating
<1>6. PICK others \in SUBSET AuthKeys!Keys : others = AuthKeys!BoundKeys \ {k}
  BY <1>3 DEF AuthKeys!BoundKeys, CauseStates
<1>7. /\ v1' = [i \in AuthKeys!Keys |-> IF i \in others THEN "none" ELSE v1[i]]
      /\ v11' = [v11 EXCEPT !.lapsed = @ \ others] /\ v10' = (v10 \ {b}) \cup {d}
      /\ UNCHANGED <<v2, v3, v4, v5, v6, v7, v8, v9>>
  BY <1>2, <1>5, <1>6 DEF AuthKeys!BindDeletes, AuthKeys!OthersBound
<1>8. /\ v1' \in [AuthKeys!Keys -> RowStates] /\ v1'[k] = v1[k]
      /\ \A i \in AuthKeys!Keys : v1'[i] = IF i \in others THEN "none" ELSE v1[i]
  BY <1>3, <1>6, <1>7 DEF RowStates
<1>9. /\ v11' \in CauseStates /\ v11'.last = v11.last /\ v11'.overlapped = v11.overlapped /\ v11'.again = v11.again
      /\ v11'.lapsed = v11.lapsed \ others
  BY <1>3, <1>7 DEF CauseStates
<1>10. KeysGrow
  BY <1>7 DEF KeysGrow
<1>11. AuthKeys!TypeOK'
  BY <1>1, <1>5, <1>7, <1>8, <1>9 DEF AuthKeys!TypeOK, RowStates, CauseStates, BindStates
<1>12. AuthKeys!PacketsFit'
  BY <1>1, <1>7, <1>10, ConnGrows, InboxGrows DEF AuthKeys!PacketsFit, InboxFits
<1>13. AuthKeys!AskedOnce' /\ AuthKeys!BindsFit'
  BY <1>1, <1>2, <1>5, <1>7 DEF AuthKeys!AskedOnce, AuthKeys!BindsFit
<1>14. AuthKeys!RowsAsAsked'
  BY <1>1, <1>7, <1>8 DEF AuthKeys!RowsAsAsked, AuthKeys!Keys
<1>15. AuthKeys!BoundKeys' \subseteq AuthKeys!BoundKeys \cap {k}
  <2>1. ASSUME NEW i \in AuthKeys!BoundKeys' PROVE i \in AuthKeys!BoundKeys /\ i = k
    <3>1. i \in AuthKeys!Keys /\ (v1'[i] = "bound" \/ (i \in v11'.lapsed /\ v1'[i] = "expired"))
      BY <1>9 DEF AuthKeys!BoundKeys, AuthKeys!Keys, CauseStates
    <3>2. i \notin others /\ v1'[i] = v1[i]
      BY <1>8, <3>1
    <3>3. i \in AuthKeys!BoundKeys
      BY <1>9, <3>1, <3>2 DEF AuthKeys!BoundKeys
    <3> QED BY <1>6, <3>2, <3>3
  <2> QED BY <2>1
<1>16. AuthKeys!LostForAnother'
  <2>1. ASSUME NEW i \in AuthKeys!Keys, AuthKeys!Lost(i)' PROVE v8[i] = "temp"
    <3>1. v1'[i] = "none" /\ (v9[i] # "none" \/ \E c \in Tasks : v5[c].at = "stored" /\ v5[c].packet.key = i)
      BY <1>7, <2>1 DEF AuthKeys!Lost, AuthKeys!At
    <3>2. CASE v1[i] = "none"
      BY <1>1, <3>1, <3>2 DEF AuthKeys!Lost, AuthKeys!At, AuthKeys!LostForAnother
    <3>3. CASE v1[i] # "none"
      <4>1. i \in AuthKeys!BoundKeys
        BY <1>6, <1>8, <3>1, <3>3
      <4>2. v1[i] = "bound" \/ v1[i] = "expired"
        BY <4>1 DEF AuthKeys!BoundKeys
      <4> QED BY <1>1, <4>2 DEF AuthKeys!RowsAsAsked
    <3> QED BY <3>2, <3>3
  <2>2. \E e \in v10' : AuthKeys!Updating(e) /\ v1'[e.key] # "none"
    BY <1>4, <1>5, <1>7, <1>8
  <2> QED BY <1>7, <2>1, <2>2 DEF AuthKeys!LostForAnother, AuthKeys!Updating, AuthKeys!Keys
<1>17. AuthKeys!OneBound'
  <2>1. \A i \in v11'.lapsed : v1'[i] = "expired"
    BY <1>1, <1>3, <1>8, <1>9 DEF AuthKeys!OneBound, CauseStates
  <2> QED BY <1>1, <1>9, <1>15, <2>1 DEF AuthKeys!OneBound
<1>18. AuthKeys!OneBinds'
  <2>1. ASSUME ~v11.overlapped PROVE v10' = {d}
    BY <1>1, <1>7, <2>1 DEF AuthKeys!OneBinds
  <2>2. v1'[d.key] \in {"free", "bound", "expired"} /\ AuthKeys!BoundKeys' \subseteq {d.key}
    BY <1>4, <1>5, <1>8, <1>15
  <2> QED BY <1>5, <1>9, <2>1, <2>2 DEF AuthKeys!OneBinds, AuthKeys!Updating
<1>19. AuthKeys!UnknownAreLost'
  BY <1>1, <1>7, <1>8, <1>9 DEF AuthKeys!UnknownAreLost, AuthKeys!TypeOK
<1> QED BY <1>11, <1>12, <1>13, <1>14, <1>16, <1>17, <1>18, <1>19 DEF AuthKeys!KeysInv

\* The key is bound, if its row is still there.
LEMMA BindUpdatesKeeps ==
    ASSUME AuthKeys!KeysInv, NEW b \in v10, AuthKeys!BindUpdates(b) PROVE AuthKeys!KeysInv'
<1>1. /\ AuthKeys!TypeOK /\ AuthKeys!PacketsFit /\ AuthKeys!BindsFit /\ AuthKeys!AskedOnce /\ AuthKeys!RowsAsAsked
      /\ AuthKeys!LostForAnother /\ AuthKeys!OneBound /\ AuthKeys!OneBinds /\ AuthKeys!UnknownAreLost
  BY DEF AuthKeys!KeysInv
<1>2. PICK k \in AuthKeys!Keys : k = b.key /\ v8[k] = "temp"
  BY <1>1 DEF AuthKeys!TypeOK, AuthKeys!BindsFit
<1>3. v1 \in [AuthKeys!Keys -> RowStates] /\ v11 \in CauseStates /\ v1[k] # "perm"
  BY <1>1, <1>2 DEF AuthKeys!TypeOK, RowStates, CauseStates, AuthKeys!RowsAsAsked
<1>4. /\ AuthKeys!Updating(b) /\ AuthKeys!BoundKeys \subseteq {k} /\ AuthKeys!BindAnswers(b, TRUE)
      /\ v1' = IF v1[k] = "free" THEN [v1 EXCEPT ![k] = "bound"] ELSE v1
      /\ v11' = [v11 EXCEPT !.last = k, !.lapsed = IF v1[k] = "expired" THEN @ \cup {k} ELSE @]
      /\ UNCHANGED <<v2, v4, v6, v8>>
  BY <1>2 DEF AuthKeys!BindUpdates, AuthKeys!Updating
<1>5. /\ KeysGrow /\ v10' = v10 \ {b} /\ v9' \in [AuthKeys!Keys -> ToldStates]
      /\ v5' \in [Tasks -> Loops] /\ v7' \in [Tasks -> ClientStates]
      /\ AuthKeys!PacketsFit' /\ AuthKeys!AskedOnce' /\ AuthKeys!BindsFit'
      /\ \A i \in AuthKeys!Keys : v1[i] = "none" /\ AuthKeys!Lost(i)' => AuthKeys!Lost(i)
  BY <1>4, AnswersFit
<1>6. /\ v1' \in [AuthKeys!Keys -> RowStates] /\ \A i \in AuthKeys!Keys \ {k} : v1'[i] = v1[i]
      /\ v1'[k] = IF v1[k] = "free" THEN "bound" ELSE v1[k]
  BY <1>3, <1>4 DEF RowStates
<1>7. /\ v11' \in CauseStates /\ v11'.last = k /\ v11'.overlapped = v11.overlapped /\ v11'.again = v11.again
      /\ v11'.lapsed = IF v1[k] = "expired" THEN v11.lapsed \cup {k} ELSE v11.lapsed
  BY <1>3, <1>4 DEF CauseStates
<1>8. AuthKeys!TypeOK'
  BY <1>1, <1>4, <1>5, <1>6, <1>7
     DEF AuthKeys!TypeOK, RowStates, CauseStates, ToldStates, Loops, LoopSteps, Gens, ClientStates, ClientSteps
<1>9. AuthKeys!RowsAsAsked'
  BY <1>1, <1>2, <1>4, <1>6 DEF AuthKeys!RowsAsAsked, AuthKeys!Keys
<1>10. v11.lapsed \subseteq AuthKeys!Keys /\ \A i \in v11.lapsed : v1[i] = "expired"
  BY <1>1, <1>3 DEF AuthKeys!OneBound, CauseStates
<1>11. AuthKeys!BoundKeys' \subseteq {k} /\ (v1[k] # "none" => AuthKeys!BoundKeys' = {k})
  <2>1. ASSUME NEW i \in AuthKeys!BoundKeys' PROVE i = k
    <3>1. i \in AuthKeys!Keys /\ (v1'[i] = "bound" \/ (i \in v11'.lapsed /\ v1'[i] = "expired"))
      BY <1>7 DEF AuthKeys!BoundKeys, AuthKeys!Keys, CauseStates
    <3>2. ASSUME i # k PROVE FALSE
      <4>1. v1[i] = "bound" \/ (i \in v11.lapsed /\ v1[i] = "expired")
        BY <1>6, <1>7, <3>1, <3>2
      <4> QED BY <1>4, <3>1, <3>2, <4>1 DEF AuthKeys!BoundKeys
    <3> QED BY <3>2
  <2>2. ASSUME v1[k] # "none" PROVE k \in AuthKeys!BoundKeys'
    <3>1. v1[k] \in {"free", "bound", "expired"}
      BY <1>3, <2>2 DEF RowStates
    <3>2. v1'[k] = "bound" \/ (k \in v11'.lapsed /\ v1'[k] = "expired")
      BY <1>6, <1>7, <3>1
    <3> QED BY <3>2 DEF AuthKeys!BoundKeys, AuthKeys!Keys
  <2> QED BY <2>1, <2>2
<1>12. AuthKeys!LostForAnother'
  <2>1. ASSUME NEW i \in AuthKeys!Keys, AuthKeys!Lost(i)' PROVE AuthKeys!Lost(i)
    <3>1. v1'[i] = "none"
      BY <2>1 DEF AuthKeys!Lost
    <3>2. v1[i] = "none"
      BY <1>6, <3>1
    <3> QED BY <1>5, <2>1, <3>2
  <2>2. ASSUME NEW i \in AuthKeys!Keys, AuthKeys!Lost(i)', v1[k] = "none"
        PROVE  \E d \in v10' : AuthKeys!Updating(d) /\ v1'[d.key] # "none"
    <3>1. AuthKeys!Lost(i)
      BY <2>1, <2>2
    <3>2. k \notin AuthKeys!BoundKeys
      BY <1>10, <2>2 DEF AuthKeys!BoundKeys
    <3>3. PICK d \in v10 : AuthKeys!Updating(d) /\ v1[d.key] # "none"
      BY <1>1, <1>4, <3>1, <3>2 DEF AuthKeys!LostForAnother
    <3>4. d \in v10' /\ d.key \in AuthKeys!Keys /\ d.key # k
      BY <1>1, <1>2, <1>5, <2>2, <3>3 DEF AuthKeys!TypeOK
    <3> QED BY <1>6, <3>3, <3>4
  <2>3. \A i \in AuthKeys!Keys : AuthKeys!Lost(i)' => v8'[i] = "temp"
    BY <1>1, <1>4, <2>1 DEF AuthKeys!LostForAnother
  <2>4. (\E i \in AuthKeys!Keys : AuthKeys!Lost(i)')
            => AuthKeys!BoundKeys' # {} \/ \E d \in v10' : AuthKeys!Updating(d) /\ v1'[d.key] # "none"
    BY <1>11, <2>2
  <2> QED BY <2>3, <2>4 DEF AuthKeys!LostForAnother, AuthKeys!Updating, AuthKeys!Keys
<1>13. AuthKeys!OneBound'
  <2>1. \A i \in v11'.lapsed : v1'[i] = "expired"
    BY <1>6, <1>7, <1>10
  <2> QED BY <1>7, <1>11, <2>1 DEF AuthKeys!OneBound
<1>14. AuthKeys!OneBinds'
  <2>1. ASSUME ~v11.overlapped PROVE v10' = {} /\ AuthKeys!BoundKeys' = {k}
    <3>1. v10' = {}
      BY <1>1, <1>5, <2>1 DEF AuthKeys!OneBinds
    <3>2. v1[k] # "none"
      BY <1>1, <1>2, <1>4, <2>1 DEF AuthKeys!OneBinds
    <3> QED BY <1>11, <3>1, <3>2
  <2> QED BY <1>7, <2>1 DEF AuthKeys!OneBinds
<1>15. AuthKeys!UnknownAreLost'
  <2>1. ASSUME NEW i \in v2 PROVE v9'[i] # "none" /\ (v1'[i] = "none" \/ i \in v11'.again)
    <3>1. i \in AuthKeys!Keys /\ v9[i] # "none" /\ (v1[i] = "none" \/ i \in v11.again)
      BY <1>1 DEF AuthKeys!UnknownAreLost, AuthKeys!TypeOK
    <3>2. v9'[i] # "none"
      BY <1>5, <3>1 DEF KeysGrow
    <3> QED BY <1>6, <1>7, <3>1, <3>2
  <2> QED BY <1>4, <2>1 DEF AuthKeys!UnknownAreLost
<1> QED BY <1>5, <1>8, <1>9, <1>12, <1>13, <1>14, <1>15 DEF AuthKeys!KeysInv

LEMMA KeysStep == AuthKeys!KeysInv /\ [AuthKeys!Next]_AuthKeys!vars => AuthKeys!KeysInv'
<1> SUFFICES ASSUME AuthKeys!KeysInv, [AuthKeys!Next]_AuthKeys!vars PROVE AuthKeys!KeysInv'
  OBVIOUS
<1>1. ASSUME NEW c \in Tasks,
             \/ AuthKeys!AsksPq(c) \/ AuthKeys!SendsDh(c) \/ \E kind \in {"perm", "temp"} : AuthKeys!AsksDh(c, kind)
             \/ \E k \in AuthKeys!Keys : AuthKeys!AsksBind(c, k)
             \/ AuthKeys!TakesPq(c) \/ \E do \in {"req_dh", "set_dh", "bind"} : AuthKeys!Takes(c, do)
      PROVE  AuthKeys!KeysInv'
  BY <1>1, AsksPqKeeps, SendsDhKeeps, AsksDhKeeps, AsksBindKeeps, TakesPqKeeps, TakesKeeps
<1>2. ASSUME NEW c \in Tasks,
             \/ AuthKeys!req_pq(c) \/ AuthKeys!req_dh_params(c) \/ AuthKeys!KeyIsStored(c) \/ AuthKeys!KeyIsNotStored(c)
             \/ AuthKeys!set_client_dh_params(c) \/ AuthKeys!FindsKey(c) \/ AuthKeys!GetsAuthData(c)
             \/ AuthKeys!KeyIsUnknown(c) \/ AuthKeys!GateRefuses(c) \/ AuthKeys!GateOpens(c)
             \/ AuthKeys!ConnectionIsLost(c)
      PROVE  AuthKeys!KeysInv'
  BY <1>2, ReqPqKeeps, ReqDhKeeps, KeyIsStoredKeeps, LostConnKeeps, ConfirmsKeeps, FindsKeyKeeps, GetsAuthDataKeeps,
     KeyIsUnknownKeeps, GateRefusesKeeps, GateOpensKeeps
<1>3. ASSUME NEW b \in v10,
             \/ AuthKeys!BindFails(b) \/ AuthKeys!BindDeletes(b) \/ AuthKeys!BindUpdates(b) \/ AuthKeys!BindClashes(b)
      PROVE  AuthKeys!KeysInv'
  BY <1>3, BindEndsKeeps, BindDeletesKeeps, BindUpdatesKeeps
<1>4. ASSUME NEW k \in AuthKeys!Keys, AuthKeys!Expires(k) \/ AuthKeys!SessionEnds(k) PROVE AuthKeys!KeysInv'
  BY <1>4, ExpiresKeeps, KeysStay DEF AuthKeys!SessionEnds
<1>5. CASE UNCHANGED AuthKeys!vars
  BY <1>5, KeysStay DEF AuthKeys!vars
<1> QED BY <1>1, <1>2, <1>3, <1>4, <1>5 DEF AuthKeys!Next

\* What the invariant says of the keys.
LEMMA KeysRight ==
    ASSUME AuthKeys!KeysInv PROVE AuthKeys!KeysAreAgreed /\ AuthKeys!StoredIsNotUnknown /\ AuthKeys!LastBindHolds
<1>1. /\ AuthKeys!TypeOK /\ AuthKeys!RowsAsAsked /\ AuthKeys!LostForAnother
      /\ AuthKeys!OneBound /\ AuthKeys!OneBinds /\ AuthKeys!UnknownAreLost
  BY DEF AuthKeys!KeysInv
<1>2. AuthKeys!KeysAreAgreed
  <2> SUFFICES ASSUME NEW k \in AuthKeys!Keys, v9[k] = "made"
               PROVE  \/ v1[k] = "perm" /\ v8[k] = "perm"
                      \/ v1[k] \in {"free", "bound", "expired"} /\ v8[k] = "temp"
                      \/ v1[k] = "none" /\ v8[k] = "temp" /\ AuthKeys!AnotherIsBound(k)
    BY DEF AuthKeys!KeysAreAgreed
  <2>1. v1[k] \in {"none", "perm", "free", "bound", "expired"}
    BY <1>1 DEF AuthKeys!TypeOK
  <2>2. CASE v1[k] = "none"
    <3>1. AuthKeys!Lost(k)
      BY <2>2 DEF AuthKeys!Lost
    <3>2. v8[k] = "temp"
      BY <1>1, <3>1 DEF AuthKeys!LostForAnother
    <3>3. CASE AuthKeys!BoundKeys # {}
      <4>1. v11.last \in AuthKeys!BoundKeys
        BY <1>1, <3>3 DEF AuthKeys!OneBound
      <4>2. v1[v11.last] # "none" /\ v11.last \in AuthKeys!Keys
        BY <1>1, <4>1 DEF AuthKeys!BoundKeys, AuthKeys!TypeOK
      <4>3. v11.last # AuthKeys!NoKey
        BY <4>2 DEF AuthKeys!Keys, AuthKeys!NoKey
      <4> QED BY <2>2, <3>2, <4>2, <4>3 DEF AuthKeys!AnotherIsBound
    <3>4. CASE \E b \in v10 : AuthKeys!Updating(b) /\ v1[b.key] # "none"
      BY <2>2, <3>2, <3>4 DEF AuthKeys!AnotherIsBound, AuthKeys!Updating
    <3> QED BY <1>1, <3>1, <3>3, <3>4 DEF AuthKeys!LostForAnother
  <2> QED BY <1>1, <2>1, <2>2 DEF AuthKeys!RowsAsAsked
<1>3. AuthKeys!StoredIsNotUnknown
  BY <1>1 DEF AuthKeys!UnknownAreLost, AuthKeys!StoredIsNotUnknown, AuthKeys!Stored
<1>4. AuthKeys!LastBindHolds
  BY <1>1 DEF AuthKeys!OneBinds, AuthKeys!LastBindHolds, AuthKeys!Updating
<1> QED BY <1>2, <1>3, <1>4

LEMMA KeysAndSaltsStep ==
    LET Inv == (which = "keys" => AuthKeys!KeysInv) /\ (which = "salts" => Salts!SaltsInv)
    IN  Inv /\ [ServicesNext]_<<which, vars, from1>> => Inv'
<1> SUFFICES ASSUME (which = "keys" => AuthKeys!KeysInv) /\ (which = "salts" => Salts!SaltsInv),
                    [ServicesNext]_<<which, vars, from1>>
             PROVE  (which' = "keys" => AuthKeys!KeysInv') /\ (which' = "salts" => Salts!SaltsInv')
  OBVIOUS
<1>1. CASE UNCHANGED <<which, from1>>
  <2>1. UNCHANGED <<v1, v2, v3, v4, v5, v6, v7, v8, v9, v10, v11, v12, v13, v14, v15>>
    BY <1>1 DEF from1, from8, from10, from11, from13
  <2>2. UNCHANGED AuthKeys!vars /\ UNCHANGED Salts!vars
    BY <2>1 DEF AuthKeys!vars, Salts!vars
  <2> QED BY <1>1, <2>2, KeysStep, SaltsStep
<1>2. CASE which = "keys" /\ AuthKeys!Next /\ which' = which
  BY <1>2, KeysStep
<1>3. CASE which = "salts" /\ Salts!Next /\ which' = which
  BY <1>3, SaltsStep
<1>4. CASE which \notin {"keys", "salts"} /\ which' = which
  BY <1>4
<1> QED BY <1>1, <1>2, <1>3, <1>4 DEF ServicesNext

-----------------------------------------------------------------------------
(* The theorems *)

\* However requests overlap, a channel has no more members than allowed and
\* those who were entering at once, and no more admins than allowed and requests
\* at once (but those who were not compared with the limit); the count of its
\* admins is right once one has been counted since; its creator is an admin whom
\* nobody bans; and whoever asks to join is outside (join_channel, edit_admin,
\* sync_admins_count, edit_banned): for any users, requests at once, and limits.
THEOREM MembersInOrder == ServicesSpec => []MembersAreInOrder
<1> DEFINE Inv == which = "members" => Members!MembersInv
<1>1. ServicesInit => Inv
  BY MembersInit DEF ServicesInit
<1>2. Inv /\ [ServicesNext]_<<which, vars, from1>> => Inv'
  BY MembersInOrderStep
<1>3. Inv => MembersAreInOrder
  BY MembersOrdered DEF MembersAreInOrder
<1> QED BY <1>1, <1>2, <1>3, PTL DEF ServicesSpec

\* Who is outside becomes a member only by entering (edit_banned,
\* import_chat_invite), unless requests about him overlapped.
THEOREM OnlyEntry == ServicesSpec => OnlyEntryReadmits
<1> DEFINE Inv == which = "members" => Members!MembersInv
<1>1. ServicesInit => Inv
  BY MembersInit DEF ServicesInit
<1>2. Inv /\ [ServicesNext]_<<which, vars, from1>> => Inv'
  BY MembersInOrderStep
<1>3. Inv /\ [ServicesNext]_<<which, vars, from1>> => [which = "members" => Members!OnlyEntryStep]_v1
  BY EntryOnly DEF ServicesNext, from1
<1> QED BY <1>1, <1>2, <1>3, PTL DEF ServicesSpec, OnlyEntryReadmits

\* A key that the client was told is made is stored as such until another is
\* bound, is not one that the gateway takes for unknown unless its row was made
\* again, and stays bound when no other bind overlaps; and a client that does as
\* it is told of its salt is refused twice at most (set_client_dh_params,
\* _get_auth_data, bind_temp_auth_key, is_message_bad): for any connections,
\* keys, binds, mishaps, and times that salts are valid for.
THEOREM KeysAndSaltsRight == ServicesSpec => []KeysAndSaltsHold
<1> DEFINE Inv == (which = "keys" => AuthKeys!KeysInv) /\ (which = "salts" => Salts!SaltsInv)
<1>1. ServicesInit => Inv
  BY KeysBegin, SaltsBegin DEF ServicesInit
<1>2. Inv /\ [ServicesNext]_<<which, vars, from1>> => Inv'
  BY KeysAndSaltsStep
<1>3. Inv => KeysAndSaltsHold
  <2>1. Salts!SaltsInv => Salts!RefusedTwiceAtMost
    BY DEF Salts!SaltsInv, Salts!TypeOK, Salts!RefusedTwiceAtMost
  <2> QED BY <2>1, KeysRight DEF KeysAndSaltsHold
<1> QED BY <1>1, <1>2, <1>3, PTL DEF ServicesSpec
=============================================================================
