------------------------- MODULE RpcDispatchProofs -------------------------
(***************************************************************************)
(* The requests of a session are served in order, for every set of         *)
(* connections, requests and packets: nothing that waits is forgotten, and *)
(* every message is answered or given up exactly as often as it came.      *)
(***************************************************************************)
EXTENDS RpcDispatch, FiniteSetTheorems, WellFoundedInduction, TLAPS

-----------------------------------------------------------------------------
(* Sequences, and how often a message is in one *)

LEMMA TailFacts ==
    ASSUME NEW S, NEW q \in Seq(S), q # <<>>
    PROVE  /\ Head(q) \in S /\ Head(q) = q[1]
           /\ Len(q) \in Nat /\ Len(q) >= 1
           /\ Tail(q) \in Seq(S)
           /\ Len(Tail(q)) = Len(q) - 1
           /\ \A i \in 1 .. Len(Tail(q)) : Tail(q)[i] = q[i + 1]
OBVIOUS

LEMMA PlacesFinite ==
    ASSUME NEW q \in Seq(Ids), NEW m
    PROVE  /\ IsFiniteSet(Places(q, m))
           /\ Times(q, m) \in Nat
<1>1. IsFiniteSet(1 .. Len(q))
  BY FS_Interval
<1>2. IsFiniteSet(Places(q, m))
  BY <1>1, FS_Subset DEF Places
<1> QED BY <1>2, FS_CardinalityType DEF Times

\* The places of a message in the rest of a packet, moved by one.
LEMMA TimesTail ==
    ASSUME NEW q \in Seq(Ids), q # <<>>, NEW m
    PROVE  Times(q, m) = Times(Tail(q), m) + (IF Head(q) = m THEN 1 ELSE 0)
<1> DEFINE P == Places(Tail(q), m)
           M == {i + 1 : i \in P}
           f == [i \in P |-> i + 1]
<1>0. Tail(q) \in Seq(Ids)
  OBVIOUS
<1>1. P \subseteq Nat \ {0} /\ IsFiniteSet(P)
  <2>1. P \subseteq Nat \ {0}
    BY <1>0 DEF Places
  <2>2. IsFiniteSet(P)
    BY <1>0, PlacesFinite
  <2> QED BY <2>1, <2>2
<1>2. f \in Bijection(P, M)
  BY <1>1, Zenon, SMT DEF Bijection, Injection, Surjection, IsInjective
<1>3. IsFiniteSet(M) /\ Cardinality(M) = Times(Tail(q), m)
  BY <1>1, <1>2, FS_Bijection DEF ExistsBijection, Times
<1>4. 1 \notin M
  BY <1>1
<1>5. Places(q, m) = IF Head(q) = m THEN M \cup {1} ELSE M
  <2>1. ASSUME NEW i PROVE i \in Places(q, m) <=> i \in (IF Head(q) = m THEN M \cup {1} ELSE M)
    <3>1. CASE i = 1
      BY <1>4, <3>1, TailFacts DEF Places
    <3>2. CASE i # 1
      <4>1. i \in Places(q, m) => i - 1 \in P /\ i = (i - 1) + 1
        BY <3>2, TailFacts DEF Places
      <4>2. i \in M => i \in Places(q, m)
        BY TailFacts DEF Places
      <4> QED BY <3>2, <4>1, <4>2
    <3> QED BY <3>1, <3>2
  <2> QED BY <2>1
<1>6. Cardinality(M \cup {1}) = Cardinality(M) + 1
  BY <1>3, <1>4, FS_AddElement
<1>7. Times(Tail(q), m) \in Nat
  BY <1>0, PlacesFinite
<1> QED BY <1>3, <1>5, <1>6, <1>7 DEF Times

\* The messages that connection c holds if q is what is left of its packet.
Own(c, q, m) == {<<c, i>> : i \in Places(q, m)}

LEMMA OwnFacts ==
    ASSUME NEW c, NEW q \in Seq(Ids), NEW m
    PROVE  IsFiniteSet(Own(c, q, m)) /\ Cardinality(Own(c, q, m)) = Times(q, m)
<1> DEFINE f == [i \in Places(q, m) |-> <<c, i>>]
<1>1. f \in Bijection(Places(q, m), Own(c, q, m))
  BY Zenon, SMT DEF Bijection, Injection, Surjection, IsInjective, Own
<1> QED BY <1>1, PlacesFinite, FS_Bijection DEF ExistsBijection, Times

\* A step that changes the packet of one connection only.
LEMMA HeldMoves ==
    ASSUME NEW c \in Conns, NEW m, loop \in [Conns -> Loops], loop' \in [Conns -> Loops],
           \A d \in Conns \ {c} : loop'[d].todo = loop[d].todo,
           IsFiniteSet(Held(m))
    PROVE  /\ IsFiniteSet(Held(m)')
           /\ Cardinality(Held(m)) \in Nat /\ Cardinality(Held(m)') \in Nat
           /\ Times(loop[c].todo, m) \in Nat /\ Times(loop'[c].todo, m) \in Nat
           /\ Cardinality(Held(m)') + Times(loop[c].todo, m)
                = Cardinality(Held(m)) + Times(loop'[c].todo, m)
<1> DEFINE Rest == UNION {Own(d, loop[d].todo, m) : d \in Conns \ {c}}
           Was  == Own(c, loop[c].todo, m)
           Is   == Own(c, loop'[c].todo, m)
<1>1. loop[c].todo \in Seq(Ids) /\ loop'[c].todo \in Seq(Ids)
  BY DEF Loops
<1>2. Held(m) = Rest \cup Was
  BY DEF Held, Own
<1>3. Held(m)' = Rest \cup Is
  BY DEF Held, Own
<1>4. /\ IsFiniteSet(Was) /\ Cardinality(Was) = Times(loop[c].todo, m)
      /\ IsFiniteSet(Is) /\ Cardinality(Is) = Times(loop'[c].todo, m)
  BY <1>1, OwnFacts
<1>5. Rest \cap Was = {} /\ Rest \cap Is = {}
  BY DEF Own
<1>6. IsFiniteSet(Rest)
  BY <1>2, FS_Subset
<1>7. Cardinality(Rest) \in Nat /\ Cardinality(Was) \in Nat /\ Cardinality(Is) \in Nat
  BY <1>4, <1>6, FS_CardinalityType
<1> HIDE DEF Rest, Was, Is
<1>8. /\ IsFiniteSet(Held(m)')
      /\ Cardinality(Held(m)) = Cardinality(Rest) + Cardinality(Was)
      /\ Cardinality(Held(m)') = Cardinality(Rest) + Cardinality(Is)
  <2>1. Cardinality({}) = 0
    BY FS_EmptySet
  <2>2. /\ IsFiniteSet(Rest \cup Is)
        /\ Cardinality(Rest \cup Was)
             = Cardinality(Rest) + Cardinality(Was) - Cardinality(Rest \cap Was)
        /\ Cardinality(Rest \cup Is)
             = Cardinality(Rest) + Cardinality(Is) - Cardinality(Rest \cap Is)
    BY <1>4, <1>6, FS_Union
  <2>3. Cardinality(Rest \cap Was) = 0 /\ Cardinality(Rest \cap Is) = 0
    BY <1>5, <2>1
  <2>4. /\ Cardinality(Rest \cup Was) = Cardinality(Rest) + Cardinality(Was)
        /\ Cardinality(Rest \cup Is) = Cardinality(Rest) + Cardinality(Is)
    BY <1>7, <2>2, <2>3
  <2> QED BY <1>2, <1>3, <2>2, <2>4
<1> QED BY <1>4, <1>7, <1>8

LEMMA HeldStays ==
    ASSUME NEW m, \A d \in Conns : loop'[d].todo = loop[d].todo
    PROVE  Held(m)' = Held(m)
BY DEF Held

-----------------------------------------------------------------------------
(* What is true of one receive loop l, with the tasks jb, the settled ids st, *)
(* the completed ids done and the events ev                                   *)

\* A loop that is busy has a message and a connection; what it waits for is one it was sent
\* after; its task is its message's.
Whole(l, jb) ==
    /\ l \in Loops
    /\ l.step = "idle" <=> l.todo = <<>>
    /\ ~l.up => l.step = "idle"
    /\ l.step = "wait" => l.pos \in 1 .. Len(after[Head(l.todo)])
    /\ l.step \in {"run", "slow"} =>
          l.job \in 1 .. Len(jb) /\ jb[l.job].id = Head(l.todo)

\* What a message has waited for is settled.
InOrder(l, st) ==
    /\ l.step = "wait" =>
          /\ \A i \in 1 .. (l.pos - 1) : after[Head(l.todo)][i] \in st
          /\ l.woken => after[Head(l.todo)][l.pos] \in st
    /\ l.step = "answer" => Head(l.todo) \in st
    /\ l.step \in {"gate", "run", "slow"} =>
          \A i \in 1 .. Len(after[Head(l.todo)]) : after[Head(l.todo)][i] \in st

\* What is waited for will be noticed.
Linked(l, done, ev) ==
    l.step = "wait" /\ ~l.woken =>
        l.linked /\ after[Head(l.todo)][l.pos] \in ev \ done

Fine(l, jb, st, done, ev) == Whole(l, jb) /\ InOrder(l, st) /\ Linked(l, done, ev)

LEMMA LeastExists ==
    ASSUME NEW S \in SUBSET Nat, S # {}
    PROVE  \E j \in S : \A k \in S : j <= k
<1>1. PICK m \in S : \A k \in S : ~(<<k, m>> \in OpToRel(<, Nat))
  BY WFMin, NatLessThanWellFounded
<1>2. ASSUME NEW k \in S, k < m PROVE FALSE
  <2>1. <<k, m>> \in OpToRel(<, Nat)
    BY <1>2 DEF OpToRel
  <2> QED BY <1>1, <2>1
<1> QED BY <1>2

LEMMA IdleFine ==
    ASSUME NEW jb, NEW st, NEW done, NEW ev
    PROVE  /\ Fine(IdleLoop, jb, st, done, ev)
           /\ Fine([IdleLoop EXCEPT !.up = FALSE], jb, st, done, ev)
<1>1. <<>> \in Seq(Ids)
  OBVIOUS
<1> QED BY <1>1 DEF Fine, Whole, InOrder, Linked, IdleLoop, Loops

\* The next message, with what it was sent after looked at.
LEMMA ProceedFine ==
    ASSUME after \in [Ids -> Afters], NEW q \in Seq(Ids), NEW i \in Nat \ {0},
           NEW jb, NEW st, NEW done \in SUBSET st, NEW ev,
           q # <<>> => \A j \in 1 .. (i - 1) :
                          j <= Len(after[Head(q)]) => after[Head(q)][j] \in st,
           WaitKey(Proceed(q, i, done)) \subseteq ev
    PROVE  Fine(Proceed(q, i, done), jb, st, done, ev) /\ Proceed(q, i, done).todo = q
<1>1. CASE q = <<>>
  <2>1. Proceed(q, i, done) = IdleLoop /\ IdleLoop.todo = q
    BY <1>1 DEF Proceed, IdleLoop
  <2> QED BY <2>1, IdleFine
<1>2. CASE q # <<>>
  <2> DEFINE a == after[Head(q)]
             F == FirstMissing(q, i, done)
             l == Proceed(q, i, done)
  <2>1. Head(q) \in Ids /\ a \in Seq(Ids) /\ Len(a) \in Nat
    <3>1. Head(q) \in Ids
      BY <1>2, TailFacts
    <3> QED BY <3>1, SequencesAssumption
  <2>2. CASE Missing(q, i, done) = {}
    <3>1. l = [step |-> "gate", todo |-> q, pos |-> 0, linked |-> FALSE,
               woken |-> FALSE, job |-> 0, up |-> TRUE]
      BY <1>2, <2>2 DEF Proceed, IdleLoop
    <3>2. ASSUME NEW j \in 1 .. Len(a) PROVE a[j] \in st
      <4>1. CASE j < i
        BY <1>2, <2>1, <4>1
      <4>2. CASE j >= i
        BY <2>1, <2>2, <4>2 DEF Missing
      <4> QED BY <2>1, <4>1, <4>2
    <3> HIDE DEF l, a
    <3>3. l \in Loops
      BY <3>1 DEF Loops
    <3> QED BY <1>2, <3>1, <3>2, <3>3 DEF Fine, Whole, InOrder, Linked, a, l
  <2>3. CASE Missing(q, i, done) # {}
    <3>1. l = [step |-> "wait", todo |-> q, pos |-> F, linked |-> TRUE,
               woken |-> FALSE, job |-> 0, up |-> TRUE]
      BY <1>2, <2>3 DEF Proceed, IdleLoop
    <3>2. Missing(q, i, done) \subseteq Nat
      BY <2>1 DEF Missing
    <3>3. F \in Missing(q, i, done) /\ \A k \in Missing(q, i, done) : F <= k
      BY <2>3, <3>2, LeastExists DEF FirstMissing
    <3>4. F \in 1 .. Len(a) /\ a[F] \notin done
      BY <2>1, <3>3 DEF Missing
    <3>5. ASSUME NEW j \in 1 .. (F - 1) PROVE a[j] \in st
      <4>1. CASE j < i
        BY <1>2, <2>1, <3>4, <4>1
      <4>2. CASE j >= i
        <5>1. j \notin Missing(q, i, done)
          BY <2>1, <3>3, <3>4
        <5> QED BY <2>1, <3>4, <4>2, <5>1 DEF Missing
      <4> QED BY <2>1, <3>4, <4>1, <4>2
    <3>6. a[F] \in ev
      BY <1>2, <3>1 DEF WaitKey
    <3> HIDE DEF l, a, F
    <3>7. l \in Loops
      <4>1. F \in Nat
        BY <2>1, <3>4
      <4> QED BY <3>1, <4>1 DEF Loops
    <3> QED BY <1>2, <3>1, <3>4, <3>5, <3>6, <3>7
            DEF Fine, Whole, InOrder, Linked, a, l, F
  <2> QED BY <2>2, <2>3
<1> QED BY <1>1, <1>2

\* What a loop waits for is an id.
LEMMA WaitKeyFine ==
    ASSUME after \in [Ids -> Afters], NEW l, NEW jb, Whole(l, jb)
    PROVE  WaitKey(l) \subseteq Ids
<1>1. CASE l.step = "wait"
  <2>1. l.todo \in Seq(Ids) /\ l.todo # <<>>
    BY <1>1 DEF Whole, Loops
  <2>2. after[Head(l.todo)] \in Seq(Ids)
    BY <2>1, TailFacts, SequencesAssumption
  <2>3. after[Head(l.todo)][l.pos] \in Ids
    BY <1>1, <2>2 DEF Whole
  <2> QED BY <2>3 DEF WaitKey
<1> QED BY <1>1 DEF WaitKey

-----------------------------------------------------------------------------
(* The inductive invariant *)

LoopsFine == \A c \in Conns : Fine(loop[c], jobs, settled, completed, events)

DoneIsSettled ==
    \A j \in 1 .. Len(jobs) : jobs[j].state = "done" => jobs[j].id \in settled

\* Held(m) is finite because packets are; Conns need not be.
CountsAgree == AnsweredOnce /\ \A m \in Ids : IsFiniteSet(Held(m))

DispatchInv ==
    /\ TypeOK
    /\ completed \subseteq settled
    /\ LoopsFine
    /\ DoneIsSettled
    /\ CountsAgree

\* What was not counted before is counted now, for the loop of c.
LEMMA CountMoves ==
    ASSUME NEW c \in Conns, loop \in [Conns -> Loops], loop' \in [Conns -> Loops],
           \A d \in Conns \ {c} : loop'[d].todo = loop[d].todo,
           received \in [Ids -> Nat], answered \in [Ids -> Nat], unanswered \in [Ids -> Nat],
           received' \in [Ids -> Nat], answered' \in [Ids -> Nat], unanswered' \in [Ids -> Nat],
           CountsAgree,
           \A m \in Ids :
               received'[m] + answered[m] + unanswered[m] + Times(loop[c].todo, m)
                   = received[m] + answered'[m] + unanswered'[m] + Times(loop'[c].todo, m)
    PROVE  CountsAgree'
<1> SUFFICES ASSUME NEW m \in Ids
             PROVE  /\ received'[m] = answered'[m] + unanswered'[m] + Cardinality(Held(m)')
                    /\ IsFiniteSet(Held(m)')
  BY DEF CountsAgree, AnsweredOnce
<1>1. /\ received[m] = answered[m] + unanswered[m] + Cardinality(Held(m))
      /\ IsFiniteSet(Held(m))
  BY DEF CountsAgree, AnsweredOnce
<1>2. /\ IsFiniteSet(Held(m)')
      /\ Cardinality(Held(m)) \in Nat /\ Cardinality(Held(m)') \in Nat
      /\ Times(loop[c].todo, m) \in Nat /\ Times(loop'[c].todo, m) \in Nat
      /\ Cardinality(Held(m)') + Times(loop[c].todo, m)
           = Cardinality(Held(m)) + Times(loop'[c].todo, m)
  BY <1>1, HeldMoves
<1>3. /\ received[m] \in Nat /\ answered[m] \in Nat /\ unanswered[m] \in Nat
      /\ received'[m] \in Nat /\ answered'[m] \in Nat /\ unanswered'[m] \in Nat
  OBVIOUS
<1>4. received'[m] + answered[m] + unanswered[m] + Times(loop[c].todo, m)
        = received[m] + answered'[m] + unanswered'[m] + Times(loop'[c].todo, m)
  OBVIOUS
<1> DEFINE r  == received[m]    a  == answered[m]    u  == unanswered[m]
           r2 == received'[m]   a2 == answered'[m]   u2 == unanswered'[m]
           h  == Cardinality(Held(m))    t  == Times(loop[c].todo, m)
           h2 == Cardinality(Held(m)')   t2 == Times(loop'[c].todo, m)
<1>5. /\ r \in Nat /\ a \in Nat /\ u \in Nat /\ r2 \in Nat /\ a2 \in Nat /\ u2 \in Nat
      /\ h \in Nat /\ t \in Nat /\ h2 \in Nat /\ t2 \in Nat
  BY <1>2, <1>3
<1>6. r = a + u + h /\ h2 + t = h + t2 /\ r2 + a + u + t = r + a2 + u2 + t2
  BY <1>1, <1>2, <1>4
<1>7. r2 = a2 + u2 + h2
  <2> HIDE DEF r, a, u, r2, a2, u2, h, t, h2, t2
  <2> QED BY <1>5, <1>6
<1> QED BY <1>2, <1>7

LEMMA CountStays ==
    ASSUME CountsAgree, \A d \in Conns : loop'[d].todo = loop[d].todo,
           UNCHANGED <<received, answered, unanswered>>
    PROVE  CountsAgree'
<1>1. \A m : Held(m)' = Held(m)
  BY HeldStays
<1> QED BY <1>1 DEF CountsAgree, AnsweredOnce

LEMMA NoTimes == \A m : Times(<<>>, m) = 0
<1>1. \A m : Places(<<>>, m) = {}
  BY DEF Places
<1> QED BY <1>1, FS_EmptySet DEF Times

\* Later tasks, settled ids and events only help a loop.
LEMMA StaysFine ==
    ASSUME NEW l, NEW jb, NEW jb2, NEW st, NEW st2, NEW done, NEW ev, NEW ev2,
           Fine(l, jb, st, done, ev), st \subseteq st2, ev \subseteq ev2,
           Len(jb) \in Nat, Len(jb2) \in Nat, Len(jb) <= Len(jb2),
           \A j \in 1 .. Len(jb) : jb2[j].id = jb[j].id
    PROVE  Fine(l, jb2, st2, done, ev2)
<1>1. Whole(l, jb2)
  <2>1. l.step \in {"run", "slow"} => l.job \in 1 .. Len(jb2) /\ jb2[l.job].id = jb[l.job].id
    BY DEF Fine, Whole
  <2> QED BY <2>1 DEF Fine, Whole
<1>2. InOrder(l, st2)
  BY DEF Fine, InOrder
<1>3. Linked(l, done, ev2)
  BY DEF Fine, Linked
<1> QED BY <1>1, <1>2, <1>3 DEF Fine

\* What comes in, goes out or is left in the packet of c, now q, adds up.
Balanced(c, q) ==
    \A m \in Ids :
        received'[m] + answered[m] + unanswered[m] + Times(loop[c].todo, m)
            = received[m] + answered'[m] + unanswered'[m] + Times(q, m)

\* Tasks are only added, and keep their requests.
TasksStay ==
    /\ jobs' \in Seq(Jobs) /\ Len(jobs) <= Len(jobs')
    /\ \A j \in 1 .. Len(jobs) : jobs'[j].id = jobs[j].id

\* A step that changes one loop and completes nothing.
LEMMA OneLoopKeeps ==
    ASSUME DispatchInv, NEW c \in Conns, NEW l,
           loop' = [loop EXCEPT ![c] = l], UNCHANGED <<after, completed, order>>,
           settled \subseteq settled', settled' \subseteq Ids,
           events \subseteq events', events' \subseteq Ids, packets' \in Nat,
           TasksStay,
           DoneIsSettled', Fine(l, jobs', settled', completed, events'),
           received' \in [Ids -> Nat], answered' \in [Ids -> Nat], unanswered' \in [Ids -> Nat],
           Balanced(c, l.todo)
    PROVE  DispatchInv'
<1>1. /\ loop \in [Conns -> Loops] /\ l \in Loops /\ jobs \in Seq(Jobs)
      /\ received \in [Ids -> Nat] /\ answered \in [Ids -> Nat] /\ unanswered \in [Ids -> Nat]
  BY DEF DispatchInv, TypeOK, Fine, Whole
<1>2. loop' \in [Conns -> Loops] /\ loop'[c] = l /\ \A d \in Conns \ {c} : loop'[d] = loop[d]
  BY <1>1
<1>3. TypeOK'
  BY <1>2, ZenonT(60) DEF DispatchInv, TypeOK, TasksStay
<1>4. completed' \subseteq settled'
  BY DEF DispatchInv
<1>5. LoopsFine'
  <2>1. /\ Len(jobs) \in Nat /\ Len(jobs') \in Nat /\ Len(jobs) <= Len(jobs')
        /\ \A j \in 1 .. Len(jobs) : jobs'[j].id = jobs[j].id
    BY <1>1 DEF TasksStay
  <2>2. ASSUME NEW d \in Conns, d # c
        PROVE  Fine(loop[d], jobs', settled', completed, events')
    <3>1. Fine(loop[d], jobs, settled, completed, events)
      BY DEF DispatchInv, LoopsFine
    <3> QED BY <2>1, <3>1, StaysFine
  <2>3. ASSUME NEW d \in Conns PROVE Fine(loop'[d], jobs', settled', completed, events')
    BY <1>2, <2>2
  <2>4. ASSUME NEW d \in Conns PROVE Fine(loop[d], jobs, settled, completed, events)'
    BY <2>3 DEF Fine, Whole, InOrder, Linked
  <2> QED BY <2>4 DEF LoopsFine
<1>6. CountsAgree'
  BY <1>1, <1>2, CountMoves DEF DispatchInv, Balanced
<1> QED BY <1>3, <1>4, <1>5, <1>6 DEF DispatchInv

-----------------------------------------------------------------------------
(* mark_rpc_completed *)

\* What is forgotten was completed, and what is left is what the order holds.
LEMMA OrderKept ==
    ASSUME TypeOK, NEW m \in Ids
    PROVE  /\ OrderAfter(m) \in Seq(Ids)
           /\ CompletedAfter(m) = {OrderAfter(m)[i] : i \in 1 .. Len(OrderAfter(m))}
           /\ \A i, j \in 1 .. Len(OrderAfter(m)) :
                 OrderAfter(m)[i] = OrderAfter(m)[j] => i = j
           /\ Len(OrderAfter(m)) <= TrackLimit
           /\ CompletedAfter(m) \subseteq Ids
           /\ Pruned(m) \subseteq completed
<1>1. /\ order \in Seq(Ids) /\ Len(order) \in Nat /\ Len(order) <= TrackLimit
      /\ completed = {order[i] : i \in 1 .. Len(order)} /\ completed \subseteq Ids
      /\ \A i, j \in 1 .. Len(order) : order[i] = order[j] => i = j
  <2>1. order \in Seq(Ids) /\ Len(order) <= TrackLimit /\ completed \subseteq Ids
    BY DEF TypeOK
  <2>2. completed = {order[i] : i \in 1 .. Len(order)}
    BY Zenon DEF TypeOK
  <2>3. \A i, j \in 1 .. Len(order) : order[i] = order[j] => i = j
    BY Zenon DEF TypeOK
  <2> QED BY <2>1, <2>2, <2>3
<1>2. TrackLimit \in Nat /\ TrackLimit >= 1
  BY BoundsAssumption
<1>3. CASE m \in completed
  <2>1. OrderAfter(m) = order /\ Pruned(m) = {} /\ CompletedAfter(m) = completed
    BY <1>1, <1>2, <1>3 DEF OrderAfter, Pruned, CompletedAfter
  <2> QED BY <1>1, <2>1
<1>4. CASE m \notin completed
  <2> DEFINE longer == Append(order, m)
  <2>1. /\ longer \in Seq(Ids) /\ Len(longer) = Len(order) + 1
        /\ longer[Len(order) + 1] = m
        /\ \A i \in 1 .. Len(order) : longer[i] = order[i]
    BY <1>1
  <2>2. {longer[i] : i \in 1 .. Len(longer)} = completed \cup {m}
    BY <1>1, <2>1
  <2>3. \A i, j \in 1 .. Len(longer) : longer[i] = longer[j] => i = j
    BY <1>1, <1>4, <2>1
  <2>4. CASE Len(order) < TrackLimit
    <3>1. OrderAfter(m) = longer /\ Pruned(m) = {} /\ CompletedAfter(m) = completed \cup {m}
      BY <1>1, <1>2, <1>4, <2>1, <2>4 DEF OrderAfter, Pruned, CompletedAfter
    <3> HIDE DEF longer
    <3> QED BY <1>1, <1>2, <2>1, <2>2, <2>3, <2>4, <3>1
  <2>5. CASE Len(order) >= TrackLimit
    <3> DEFINE o == Tail(longer)
    <3>1. /\ o \in Seq(Ids) /\ Len(o) = Len(order)
          /\ \A i \in 1 .. Len(o) : o[i] = longer[i + 1]
          /\ Head(longer) = longer[1]
      BY <1>1, <2>1, TailFacts
    <3>2. Head(longer) = order[1] /\ order[1] \in completed
      BY <1>1, <1>2, <2>1, <2>5, <3>1
    <3>3. OrderAfter(m) = o /\ Pruned(m) = {longer[1]}
      BY <1>1, <1>2, <1>4, <2>1, <2>5, <3>1 DEF OrderAfter, Pruned
    <3> HIDE DEF o, longer
    <3>4. CompletedAfter(m) = {longer[i] : i \in 1 .. Len(longer)} \ {longer[1]}
      BY <2>2, <3>3 DEF CompletedAfter
    <3>5. CompletedAfter(m) = {o[i] : i \in 1 .. Len(o)}
      <4>1. ASSUME NEW i \in 1 .. Len(longer), longer[i] # longer[1]
            PROVE  longer[i] \in {o[k] : k \in 1 .. Len(o)}
        <5>1. i - 1 \in 1 .. Len(o) /\ o[i - 1] = longer[i]
          BY <1>1, <2>1, <3>1, <4>1, SMTT(40)
        <5> QED BY <5>1
      <4>2. ASSUME NEW k \in 1 .. Len(o)
            PROVE  /\ k + 1 \in 1 .. Len(longer) /\ o[k] = longer[k + 1]
                   /\ longer[k + 1] # longer[1]
        BY <1>1, <2>1, <2>3, <3>1
      <4> QED BY <3>4, <4>1, <4>2
    <3>6. \A i, j \in 1 .. Len(o) : o[i] = o[j] => i = j
      <4> SUFFICES ASSUME NEW i \in 1 .. Len(o), NEW j \in 1 .. Len(o), o[i] = o[j] PROVE i = j
        OBVIOUS
      <4>1. longer[i + 1] = longer[j + 1] /\ i + 1 \in 1 .. Len(longer) /\ j + 1 \in 1 .. Len(longer)
        BY <1>1, <2>1, <3>1
      <4>2. i + 1 = j + 1
        BY <2>3, <4>1
      <4> QED BY <4>2
    <3>7. CompletedAfter(m) \subseteq Ids /\ Pruned(m) \subseteq completed
      BY <1>1, <3>1, <3>2, <3>3 DEF CompletedAfter
    <3> QED BY <1>1, <3>1, <3>3, <3>5, <3>6, <3>7
  <2> QED BY <1>1, <1>2, <2>4, <2>5
<1> QED BY <1>3, <1>4

\* The loop of another connection when m is marked completed.
LEMMA NotifiedFine ==
    ASSUME NEW d \in Conns, NEW m \in Ids, NEW st, NEW ev, m \in st, settled \subseteq st,
           events \ Pruned(m) \subseteq ev, Pruned(m) \subseteq completed,
           Fine(loop[d], jobs, settled, completed, events)
    PROVE  /\ Fine(Notified(d, m), jobs, st, CompletedAfter(m), ev)
           /\ Notified(d, m).todo = loop[d].todo
<1>1. loop[d] \in Loops
  BY DEF Fine, Whole
<1>2. CompletedAfter(m) \subseteq completed \cup {m}
  BY DEF CompletedAfter
<1>3. CASE \E o \in Pruned(m) : Waits(d, o)
  <2>1. Notified(d, m) = [loop[d] EXCEPT !.linked = FALSE]
    BY <1>3 DEF Notified
  <2>2. loop[d].step = "wait" /\ loop[d].woken
    BY <1>1, <1>3 DEF Fine, Linked, Waits, Current, Loops
  <2>3. [loop[d] EXCEPT !.linked = FALSE] \in Loops
    BY <1>1 DEF Loops
  <2> QED BY <1>1, <2>1, <2>2, <2>3 DEF Fine, Whole, InOrder, Linked, Loops
<1>4. CASE ~(\E o \in Pruned(m) : Waits(d, o)) /\ Waits(d, m) /\ loop[d].linked
  <2>1. Notified(d, m) = [loop[d] EXCEPT !.woken = TRUE]
    BY <1>4, Zenon DEF Notified
  <2>2. loop[d].step = "wait" /\ after[Head(loop[d].todo)][loop[d].pos] = m
    BY <1>4 DEF Waits, Current
  <2>3. [loop[d] EXCEPT !.woken = TRUE] \in Loops
    BY <1>1 DEF Loops
  <2> QED BY <1>1, <2>1, <2>2, <2>3, SMTT(40) DEF Fine, Whole, InOrder, Linked, Loops
<1>5. CASE ~(\E o \in Pruned(m) : Waits(d, o)) /\ ~(Waits(d, m) /\ loop[d].linked)
  <2>1. Notified(d, m) = loop[d]
    BY <1>5, Zenon DEF Notified
  <2>2. Linked(loop[d], CompletedAfter(m), ev)
    BY <1>2, <1>5 DEF Fine, Linked, Waits, Current
  <2> QED BY <2>1, <2>2 DEF Fine, Whole, InOrder
<1> QED BY <1>3, <1>4, <1>5

\* The messages of c but for those in q were answered or given up.
LeaveBalanced(c, q) ==
    \A m \in Ids :
        answered[m] + unanswered[m] + Times(loop[c].todo, m)
            = answered'[m] + unanswered'[m] + Times(q, m)

\* A loop leaves its message, whether its connection lives or not.
LEMMA LeaveKeeps ==
    ASSUME DispatchInv, NEW c \in Conns, NEW alive \in BOOLEAN, loop[c].todo # <<>>,
           Leave(c, alive), UNCHANGED jobs,
           settled \subseteq settled', settled' \subseteq Ids, Current(c) \in settled',
           answered' \in [Ids -> Nat], unanswered' \in [Ids -> Nat],
           LeaveBalanced(c, IF alive THEN Tail(loop[c].todo) ELSE <<>>)
    PROVE  DispatchInv'
<1> DEFINE m    == Current(c)
           rest == IF alive THEN Tail(loop[c].todo) ELSE <<>>
           next == IF alive THEN Proceed(Tail(loop[c].todo), 1, CompletedAfter(m))
                   ELSE [IdleLoop EXCEPT !.up = FALSE]
<1>1. /\ TypeOK /\ LoopsFine /\ DoneIsSettled /\ CountsAgree /\ completed \subseteq settled
      /\ loop \in [Conns -> Loops] /\ after \in [Ids -> Afters] /\ jobs \in Seq(Jobs)
      /\ packets \in Nat /\ received \in [Ids -> Nat]
      /\ answered \in [Ids -> Nat] /\ unanswered \in [Ids -> Nat] /\ events \subseteq Ids
  BY DEF DispatchInv, TypeOK
<1>2. loop[c].todo \in Seq(Ids)
  BY <1>1 DEF Loops
<1>3. m \in Ids /\ Tail(loop[c].todo) \in Seq(Ids) /\ rest \in Seq(Ids)
  BY <1>2, TailFacts DEF Current
<1>4. /\ completed' = CompletedAfter(m) /\ order' = OrderAfter(m)
      /\ events' = (events \ Pruned(m)) \cup WaitKey(next)
      /\ loop' = [d \in Conns |-> IF d = c THEN next ELSE Notified(d, m)]
      /\ after' = after /\ packets' = packets /\ received' = received
  BY DEF Leave
<1>5. CompletedAfter(m) \subseteq settled'
  BY <1>1 DEF CompletedAfter
<1>6. /\ Fine(next, jobs, settled', CompletedAfter(m), events') /\ next.todo = rest
      /\ WaitKey(next) \subseteq Ids
  <2>1. CASE alive
    <3>1. next = Proceed(rest, 1, CompletedAfter(m)) /\ rest = Tail(loop[c].todo)
      BY <2>1
    <3>2. /\ Fine(Proceed(rest, 1, CompletedAfter(m)), jobs, settled', CompletedAfter(m), events')
          /\ Proceed(rest, 1, CompletedAfter(m)).todo = rest
      <4> HIDE DEF rest, m
      <4>1. WaitKey(Proceed(rest, 1, CompletedAfter(m))) \subseteq events'
        BY <1>4, <3>1
      <4>2. CompletedAfter(m) \in SUBSET settled' /\ 1 \in Nat \ {0}
        BY <1>5
      <4>3. rest # <<>> =>
              \A j \in 1 .. (1 - 1) : j <= Len(after[Head(rest)]) => after[Head(rest)][j] \in settled'
        OBVIOUS
      <4> QED BY <1>1, <1>3, <4>1, <4>2, <4>3, ProceedFine
    <3>3. Whole(Proceed(rest, 1, CompletedAfter(m)), jobs)
      BY <3>2 DEF Fine
    <3> QED BY <1>1, <3>1, <3>2, <3>3, WaitKeyFine
  <2>2. CASE ~alive
    <3>1. next = [IdleLoop EXCEPT !.up = FALSE] /\ rest = <<>>
      BY <2>2
    <3>2. next.todo = rest /\ WaitKey(next) = {}
      BY <3>1 DEF IdleLoop, WaitKey
    <3>3. Fine([IdleLoop EXCEPT !.up = FALSE], jobs, settled', CompletedAfter(m), events')
      BY IdleFine
    <3> QED BY <3>1, <3>2, <3>3
  <2> QED BY <2>1, <2>2
<1> HIDE DEF next, rest, m
<1>7. /\ OrderAfter(m) \in Seq(Ids)
      /\ CompletedAfter(m) = {OrderAfter(m)[i] : i \in 1 .. Len(OrderAfter(m))}
      /\ \A i, j \in 1 .. Len(OrderAfter(m)) : OrderAfter(m)[i] = OrderAfter(m)[j] => i = j
      /\ Len(OrderAfter(m)) <= TrackLimit
      /\ CompletedAfter(m) \subseteq Ids /\ Pruned(m) \subseteq completed
  BY <1>1, <1>3, OrderKept
<1>8. ASSUME NEW d \in Conns, d # c
      PROVE  /\ Fine(Notified(d, m), jobs, settled', CompletedAfter(m), events')
             /\ Notified(d, m).todo = loop[d].todo
  <2>1. Fine(loop[d], jobs, settled, completed, events)
    BY <1>1 DEF LoopsFine
  <2>2. m \in settled' /\ events \ Pruned(m) \subseteq events'
    BY <1>4 DEF m
  <2> QED BY <1>3, <1>7, <2>1, <2>2, NotifiedFine
<1>9. ASSUME NEW d \in Conns PROVE Fine(loop'[d], jobs, settled', CompletedAfter(m), events')
  BY <1>4, <1>6, <1>8
<1>10. loop' \in [Conns -> Loops]
  <2>1. \A d \in Conns : loop'[d] \in Loops
    BY <1>9 DEF Fine, Whole
  <2> QED BY <1>4, <2>1
<1>11. TypeOK'
  <2>1. events' \subseteq Ids
    BY <1>1, <1>4, <1>6
  <2>2. /\ order' \in Seq(Ids) /\ Len(order') <= TrackLimit /\ completed' \subseteq Ids
        /\ completed' = {order'[i] : i \in 1 .. Len(order')}
        /\ \A i, j \in 1 .. Len(order') : order'[i] = order'[j] => i = j
    BY <1>4, <1>7
  <2>3. /\ after' \in [Ids -> Afters] /\ packets' \in Nat /\ received' \in [Ids -> Nat]
        /\ jobs' \in Seq(Jobs)
    BY <1>1, <1>4
  <2> QED BY <1>10, <2>1, <2>2, <2>3, Zenon DEF TypeOK
<1>12. LoopsFine'
  <2>1. ASSUME NEW d \in Conns PROVE Fine(loop[d], jobs, settled, completed, events)'
    BY <1>4, <1>9, ZenonT(60) DEF Fine, Whole, InOrder, Linked
  <2> QED BY <2>1 DEF LoopsFine
<1>13. DoneIsSettled'
  BY <1>1 DEF DoneIsSettled
<1>14. CountsAgree'
  <2>1. loop'[c].todo = rest /\ \A d \in Conns \ {c} : loop'[d].todo = loop[d].todo
    BY <1>4, <1>6, <1>8
  <2>2. rest = IF alive THEN Tail(loop[c].todo) ELSE <<>>
    BY DEF rest
  <2>3. ASSUME NEW k \in Ids
        PROVE  received'[k] + answered[k] + unanswered[k] + Times(loop[c].todo, k)
                 = received[k] + answered'[k] + unanswered'[k] + Times(loop'[c].todo, k)
    <3>1. Times(loop[c].todo, k) \in Nat /\ Times(rest, k) \in Nat
      BY <1>2, <1>3, PlacesFinite
    <3>2. answered[k] + unanswered[k] + Times(loop[c].todo, k)
            = answered'[k] + unanswered'[k] + Times(rest, k)
      BY <2>2 DEF LeaveBalanced
    <3>3. /\ received[k] \in Nat /\ answered[k] \in Nat /\ unanswered[k] \in Nat
          /\ answered'[k] \in Nat /\ unanswered'[k] \in Nat
      BY <1>1
    <3> DEFINE b  == received[k]    a  == answered[k]    u  == unanswered[k]
               a2 == answered'[k]   u2 == unanswered'[k]
               t  == Times(loop[c].todo, k)   t2 == Times(rest, k)
    <3>4. /\ b \in Nat /\ a \in Nat /\ u \in Nat /\ a2 \in Nat /\ u2 \in Nat
          /\ t \in Nat /\ t2 \in Nat
      BY <3>1, <3>3
    <3>5. a + u + t = a2 + u2 + t2
      BY <3>2
    <3>6. b + a + u + t = b + a2 + u2 + t2
      <4> HIDE DEF b, a, u, a2, u2, t, t2
      <4>1. b + a + u + t = b + (a + u + t)
        BY <3>4
      <4>2. b + a2 + u2 + t2 = b + (a2 + u2 + t2)
        BY <3>4
      <4> QED BY <3>5, <4>1, <4>2
    <3> QED BY <1>4, <2>1, <3>6
  <2>4. /\ received' \in [Ids -> Nat] /\ answered' \in [Ids -> Nat]
        /\ unanswered' \in [Ids -> Nat]
    BY <1>1, <1>4
  <2> QED BY <1>1, <1>10, <2>1, <2>3, <2>4, CountMoves
<1>15. completed' \subseteq settled'
  BY <1>4, <1>5
<1> QED BY <1>11, <1>12, <1>13, <1>14, <1>15 DEF DispatchInv

-----------------------------------------------------------------------------
(* Every step of the receive loops and of the workers *)

LEMMA InitDispatch == Init => DispatchInv
<1> SUFFICES ASSUME Init PROVE DispatchInv
  OBVIOUS
<1>1. IdleLoop \in Loops /\ IdleLoop.todo = <<>>
  <2>1. Fine(IdleLoop, jobs, settled, completed, events)
    BY IdleFine
  <2> QED BY <2>1 DEF Fine, Whole, IdleLoop
<1>2. TypeOK
  <2>1. order = <<>> /\ completed = {} /\ Len(order) = 0
    BY DEF Init
  <2>2. /\ completed = {order[i] : i \in 1 .. Len(order)}
        /\ \A i, j \in 1 .. Len(order) : order[i] = order[j] => i = j
        /\ Len(order) <= TrackLimit
    BY <2>1, BoundsAssumption
  <2>3. /\ after \in [Ids -> Afters] /\ loop \in [Conns -> Loops] /\ completed \subseteq Ids
        /\ order \in Seq(Ids) /\ events \subseteq Ids /\ jobs \in Seq(Jobs) /\ packets \in Nat
        /\ received \in [Ids -> Nat] /\ answered \in [Ids -> Nat]
        /\ unanswered \in [Ids -> Nat] /\ settled \subseteq Ids
    BY <1>1 DEF Init
  <2> QED BY <2>2, <2>3, Zenon DEF TypeOK
<1>3. LoopsFine
  BY IdleFine DEF Init, LoopsFine
<1>4. DoneIsSettled
  BY DEF Init, DoneIsSettled
<1>5. CountsAgree
  <2> SUFFICES ASSUME NEW m \in Ids
               PROVE  /\ received[m] = answered[m] + unanswered[m] + Cardinality(Held(m))
                      /\ IsFiniteSet(Held(m))
    BY DEF CountsAgree, AnsweredOnce
  <2>1. Held(m) = {}
    BY <1>1 DEF Init, Held, Places
  <2>2. received[m] = 0 /\ answered[m] = 0 /\ unanswered[m] = 0
    BY DEF Init
  <2> QED BY <2>1, <2>2, FS_EmptySet
<1> QED BY <1>2, <1>3, <1>4, <1>5 DEF DispatchInv, Init

\* The facts about the loop of c that its steps use.
LEMMA LoopFacts ==
    ASSUME DispatchInv, NEW c \in Conns
    PROVE  /\ loop \in [Conns -> Loops] /\ loop[c] \in Loops
           /\ after \in [Ids -> Afters] /\ completed \subseteq settled
           /\ jobs \in Seq(Jobs) /\ Len(jobs) \in Nat /\ packets \in Nat
           /\ events \subseteq Ids /\ settled \subseteq Ids
           /\ loop[c].todo \in Seq(Ids) /\ loop[c].pos \in Nat
           /\ Fine(loop[c], jobs, settled, completed, events)
           /\ loop[c].step # "idle" =>
                 /\ loop[c].todo # <<>> /\ Current(c) \in Ids /\ loop[c].up
                 /\ after[Current(c)] \in Seq(Ids)
<1>1. /\ loop \in [Conns -> Loops] /\ after \in [Ids -> Afters] /\ completed \subseteq settled
      /\ jobs \in Seq(Jobs) /\ packets \in Nat /\ events \subseteq Ids /\ settled \subseteq Ids
      /\ Fine(loop[c], jobs, settled, completed, events)
  BY DEF DispatchInv, TypeOK, LoopsFine
<1>2. loop[c] \in Loops /\ loop[c].todo \in Seq(Ids) /\ loop[c].pos \in Nat
  BY <1>1 DEF Loops
<1>3. ASSUME loop[c].step # "idle"
      PROVE  /\ loop[c].todo # <<>> /\ Current(c) \in Ids /\ loop[c].up
             /\ after[Current(c)] \in Seq(Ids)
  <2>1. loop[c].todo # <<>> /\ loop[c].up
    BY <1>1, <1>2, <1>3 DEF Fine, Whole, Loops
  <2>2. Current(c) \in Ids
    BY <1>2, <2>1, TailFacts DEF Current
  <2> QED BY <1>1, <2>1, <2>2, SequencesAssumption
<1>4. Len(jobs) \in Nat
  BY <1>1
<1> QED BY <1>1, <1>2, <1>3, <1>4

\* A step of the loop of c that keeps its packet, the tasks and the counts.
LEMMA QuietStepKeeps ==
    ASSUME DispatchInv, NEW c \in Conns, NEW l, l.todo = loop[c].todo,
           loop' = [loop EXCEPT ![c] = l],
           UNCHANGED <<after, completed, order, jobs, packets, received, answered, unanswered>>,
           settled \subseteq settled', settled' \subseteq Ids,
           events \subseteq events', events' \subseteq Ids,
           Fine(l, jobs, settled', completed, events')
    PROVE  DispatchInv'
<1>1. /\ jobs \in Seq(Jobs) /\ packets \in Nat /\ received \in [Ids -> Nat]
      /\ answered \in [Ids -> Nat] /\ unanswered \in [Ids -> Nat] /\ DoneIsSettled
  BY DEF DispatchInv, TypeOK
<1>2. DoneIsSettled'
  BY <1>1 DEF DoneIsSettled
<1>3. TasksStay
  <2>1. Len(jobs) <= Len(jobs)
    BY <1>1
  <2> QED BY <1>1, <2>1 DEF TasksStay
<1>4. Balanced(c, l.todo)
  BY DEF Balanced
<1> QED BY <1>1, <1>2, <1>3, <1>4, OneLoopKeeps

\* The loop goes on with the next message it is sent after, or with the gate.
LEMMA ProceedKeeps ==
    ASSUME DispatchInv, NEW c \in Conns, NEW i \in Nat \ {0}, loop[c].step # "idle",
           loop' = [loop EXCEPT ![c] = Proceed(loop[c].todo, i, completed)],
           events' = events \cup WaitKey(Proceed(loop[c].todo, i, completed)),
           UNCHANGED <<after, completed, order, jobs, packets, received, answered, unanswered,
                       settled>>,
           \A j \in 1 .. (i - 1) :
               j <= Len(after[Current(c)]) => after[Current(c)][j] \in settled
    PROVE  DispatchInv'
<1> DEFINE l == Proceed(loop[c].todo, i, completed)
<1>1. WaitKey(l) \subseteq events'
  OBVIOUS
<1>2. completed \in SUBSET settled /\ after \in [Ids -> Afters] /\ loop[c].todo \in Seq(Ids)
  BY LoopFacts
<1>3. Fine(l, jobs, settled, completed, events') /\ l.todo = loop[c].todo
  BY <1>1, <1>2, ProceedFine DEF Current
<1>4. WaitKey(l) \subseteq Ids
  <2>1. Whole(l, jobs)
    BY <1>3 DEF Fine
  <2> HIDE DEF l
  <2> QED BY <1>2, <2>1, WaitKeyFine
<1>5. events' \subseteq Ids /\ events \subseteq events' /\ settled \subseteq Ids
  BY <1>4, LoopFacts
<1> HIDE DEF l
<1>6. loop' = [loop EXCEPT ![c] = l]
  BY DEF l
<1> QED BY <1>3, <1>5, <1>6, QuietStepKeeps

LEMMA ReceiveKeeps ==
    ASSUME DispatchInv, NEW c \in Conns, NEW q \in Packets, Receive(c, q)
    PROVE  DispatchInv'
<1> DEFINE l == [loop[c] EXCEPT !.step = "refresh", !.todo = q]
<1>1. /\ loop[c].up /\ loop[c].step = "idle" /\ packets' = packets + 1
      /\ loop' = [loop EXCEPT ![c] = l]
      /\ received' = [m \in Ids |-> received[m] + Times(q, m)]
      /\ UNCHANGED <<after, completed, order, events, jobs, answered, unanswered, settled>>
  BY DEF Receive
<1>2. /\ loop[c] \in Loops /\ jobs \in Seq(Jobs) /\ packets \in Nat /\ settled \subseteq Ids
      /\ events \subseteq Ids /\ Fine(loop[c], jobs, settled, completed, events)
  BY LoopFacts
<1>3. /\ received \in [Ids -> Nat] /\ answered \in [Ids -> Nat] /\ unanswered \in [Ids -> Nat]
      /\ DoneIsSettled
  BY DEF DispatchInv, TypeOK
<1>4. q \in Seq(Ids) /\ q # <<>>
  BY SequencesAssumption
<1>5. l \in Loops /\ l.todo = q /\ l.step = "refresh" /\ l.up
  BY <1>1, <1>2, <1>4 DEF Loops
<1> HIDE DEF l
<1>6. Fine(l, jobs, settled, completed, events)
  BY <1>4, <1>5 DEF Fine, Whole, InOrder, Linked
<1>7. ASSUME NEW m \in Ids
      PROVE  /\ received'[m] \in Nat
             /\ received'[m] + answered[m] + unanswered[m] + Times(loop[c].todo, m)
                  = received[m] + answered[m] + unanswered[m] + Times(l.todo, m)
  <2>1. Times(loop[c].todo, m) = 0
    <3>1. loop[c].todo = <<>>
      BY <1>1, <1>2 DEF Fine, Whole
    <3> QED BY <3>1, NoTimes
  <2>2. Times(q, m) \in Nat
    BY <1>4, PlacesFinite
  <2> QED BY <1>1, <1>3, <1>5, <2>1, <2>2
<1>8. received' \in [Ids -> Nat]
  BY <1>1, <1>7
<1>9. DoneIsSettled' /\ Len(jobs) <= Len(jobs) /\ packets' \in Nat
  BY <1>1, <1>2, <1>3 DEF DoneIsSettled
<1>10. Balanced(c, l.todo)
  BY <1>1, <1>7 DEF Balanced
<1>11. /\ settled \subseteq settled' /\ settled' \subseteq Ids /\ TasksStay
       /\ events \subseteq events' /\ events' \subseteq Ids
       /\ Fine(l, jobs', settled', completed, events')
       /\ answered' \in [Ids -> Nat] /\ unanswered' \in [Ids -> Nat]
  BY <1>1, <1>2, <1>3, <1>6, <1>9 DEF TasksStay
<1>12. loop' = [loop EXCEPT ![c] = l] /\ UNCHANGED <<after, completed, order>>
  BY <1>1
<1> QED BY <1>8, <1>9, <1>10, <1>11, <1>12, OneLoopKeeps

LEMMA BeginKeeps ==
    ASSUME DispatchInv, NEW c \in Conns, Begin(c)
    PROVE  DispatchInv'
<1>1. /\ loop[c].step # "idle" /\ 1 \in Nat \ {0}
      /\ loop' = [loop EXCEPT ![c] = Proceed(loop[c].todo, 1, completed)]
      /\ events' = events \cup WaitKey(Proceed(loop[c].todo, 1, completed))
      /\ UNCHANGED <<after, completed, order, jobs, packets, received, answered, unanswered,
                     settled>>
  BY DEF Begin
<1>2. \A j \in 1 .. (1 - 1) :
          j <= Len(after[Current(c)]) => after[Current(c)][j] \in settled
  OBVIOUS
<1> QED BY <1>1, <1>2, ProceedKeeps

LEMMA WaitEndsKeeps ==
    ASSUME DispatchInv, NEW c \in Conns, WaitEnds(c)
    PROVE  DispatchInv'
<1> DEFINE i == loop[c].pos + 1
<1>1. /\ loop[c].step = "wait" /\ loop[c].woken
      /\ loop' = [loop EXCEPT ![c] = Proceed(loop[c].todo, i, completed)]
      /\ events' = events \cup WaitKey(Proceed(loop[c].todo, i, completed))
      /\ UNCHANGED <<after, completed, order, jobs, packets, received, answered, unanswered,
                     settled>>
  BY DEF WaitEnds
<1>2. /\ loop[c].pos \in Nat /\ Fine(loop[c], jobs, settled, completed, events)
  BY LoopFacts
<1>3. i \in Nat \ {0} /\ i - 1 = loop[c].pos
  BY <1>2
<1>4. ASSUME NEW j \in 1 .. (i - 1) PROVE after[Current(c)][j] \in settled
  <2>1. CASE j = loop[c].pos
    BY <1>1, <1>2, <2>1 DEF Fine, InOrder, Current
  <2>2. CASE j # loop[c].pos
    <3>1. j \in 1 .. (loop[c].pos - 1)
      BY <1>2, <1>3, <2>2
    <3> QED BY <1>1, <1>2, <3>1 DEF Fine, InOrder, Current
  <2> QED BY <2>1, <2>2
<1> HIDE DEF i
<1> QED BY <1>1, <1>3, <1>4, ProceedKeeps

\* The loop has an answer: its message is settled.
LEMMA ToAnswerKeeps ==
    ASSUME DispatchInv, NEW c \in Conns, loop[c].step # "idle",
           loop' = [loop EXCEPT ![c].step = "answer"],
           UNCHANGED <<after, completed, order, events, jobs, packets, received, answered,
                       unanswered>>,
           settled \subseteq settled', settled' \subseteq settled \cup {Current(c)},
           Current(c) \in settled'
    PROVE  DispatchInv'
<1> DEFINE l == [loop[c] EXCEPT !.step = "answer"]
<1>1. /\ loop[c] \in Loops /\ loop[c].todo # <<>> /\ Current(c) \in Ids /\ loop[c].up
      /\ settled \subseteq Ids /\ events \subseteq Ids
  BY LoopFacts
<1>2. l \in Loops /\ l.todo = loop[c].todo /\ l.step = "answer" /\ l.up
  BY <1>1 DEF Loops
<1>3. loop' = [loop EXCEPT ![c] = l]
  OBVIOUS
<1> HIDE DEF l
<1>4. Fine(l, jobs, settled', completed, events')
  BY <1>1, <1>2 DEF Fine, Whole, InOrder, Linked, Current
<1> QED BY <1>1, <1>2, <1>3, <1>4, QuietStepKeeps

LEMMA WaitTimesOutKeeps ==
    ASSUME DispatchInv, NEW c \in Conns, WaitTimesOut(c)
    PROVE  DispatchInv'
BY ToAnswerKeeps DEF WaitTimesOut

LEMMA ResultTimeoutKeeps ==
    ASSUME DispatchInv, NEW c \in Conns, ResultTimeout(c)
    PROVE  DispatchInv'
BY ToAnswerKeeps DEF ResultTimeout

LEMMA ResultArrivesKeeps ==
    ASSUME DispatchInv, NEW c \in Conns, ResultArrives(c)
    PROVE  DispatchInv'
<1>1. Fine(loop[c], jobs, settled, completed, events)
  BY LoopFacts
<1>2. loop[c].job \in 1 .. Len(jobs) /\ jobs[loop[c].job].id = Current(c)
  BY <1>1 DEF ResultArrives, Fine, Whole, Current
<1>3. Current(c) \in settled
  BY <1>2 DEF ResultArrives, DispatchInv, DoneIsSettled
<1> QED BY <1>3, ToAnswerKeeps DEF ResultArrives

LEMMA AckTimeoutKeeps ==
    ASSUME DispatchInv, NEW c \in Conns, AckTimeout(c)
    PROVE  DispatchInv'
<1> DEFINE l == [loop[c] EXCEPT !.step = "slow"]
<1>1. /\ loop[c] \in Loops /\ Fine(loop[c], jobs, settled, completed, events)
      /\ settled \subseteq Ids /\ events \subseteq Ids /\ loop[c].step = "run"
  BY LoopFacts DEF AckTimeout
<1>2. /\ l \in Loops /\ l.todo = loop[c].todo /\ l.step = "slow" /\ l.up = loop[c].up
      /\ l.job = loop[c].job
  BY <1>1 DEF Loops
<1>3. loop' = [loop EXCEPT ![c] = l]
  BY DEF AckTimeout
<1> HIDE DEF l
<1>4. Fine(l, jobs, settled, completed, events)
  BY <1>1, <1>2 DEF Fine, Whole, InOrder, Linked
<1> QED BY <1>1, <1>2, <1>3, <1>4, QuietStepKeeps DEF AckTimeout

LEMMA GateOpensKeeps ==
    ASSUME DispatchInv, NEW c \in Conns, GateOpens(c)
    PROVE  DispatchInv'
<1> DEFINE l == [loop[c] EXCEPT !.step = "run", !.job = Len(jobs) + 1]
           j == [id |-> Current(c), state |-> "queued"]
<1>1. /\ loop[c].step = "gate" /\ jobs' = Append(jobs, j) /\ loop' = [loop EXCEPT ![c] = l]
      /\ UNCHANGED <<after, completed, order, events, packets, received, answered, unanswered,
                     settled>>
  BY DEF GateOpens
<1>2. /\ loop[c] \in Loops /\ jobs \in Seq(Jobs) /\ Len(jobs) \in Nat
      /\ Fine(loop[c], jobs, settled, completed, events)
      /\ settled \subseteq Ids /\ events \subseteq Ids /\ packets \in Nat
      /\ loop[c].todo # <<>> /\ Current(c) \in Ids /\ loop[c].up
  BY <1>1, LoopFacts
<1>3. /\ received \in [Ids -> Nat] /\ answered \in [Ids -> Nat] /\ unanswered \in [Ids -> Nat]
      /\ DoneIsSettled /\ loop[c].todo \in Seq(Ids)
  BY <1>2 DEF DispatchInv, TypeOK, Loops
<1>4. j \in Jobs /\ j.id = Current(c) /\ j.state = "queued"
  BY <1>2 DEF Jobs
<1>5. /\ l \in Loops /\ l.todo = loop[c].todo /\ l.step = "run" /\ l.up
      /\ l.job = Len(jobs) + 1
  <2>1. \A k \in Loops, n \in Nat :
            LET r == [k EXCEPT !.step = "run", !.job = n]
            IN  /\ r \in Loops /\ r.todo = k.todo /\ r.step = "run" /\ r.up = k.up
                /\ r.job = n
    BY DEF Loops
  <2>2. Len(jobs) + 1 \in Nat
    BY <1>2
  <2> QED BY <1>2, <2>1, <2>2, ZenonT(60)
<1> HIDE DEF j, l
<1>6. /\ jobs' \in Seq(Jobs) /\ Len(jobs') = Len(jobs) + 1
      /\ \A k \in 1 .. Len(jobs) : jobs'[k] = jobs[k]
      /\ jobs'[Len(jobs) + 1] = j
  BY <1>1, <1>2, <1>4
<1>7. Fine(l, jobs', settled, completed, events)
  <2>1. l.job \in 1 .. Len(jobs') /\ jobs'[l.job].id = Head(l.todo)
    BY <1>2, <1>4, <1>5, <1>6 DEF Current
  <2> QED BY <1>1, <1>2, <1>5, <2>1 DEF Fine, Whole, InOrder, Linked
<1>8. DoneIsSettled'
  <2> SUFFICES ASSUME NEW k \in 1 .. Len(jobs'), jobs'[k].state = "done"
               PROVE  jobs'[k].id \in settled
    BY <1>1 DEF DoneIsSettled
  <2>1. k \in 1 .. Len(jobs) /\ jobs'[k] = jobs[k]
    BY <1>2, <1>4, <1>6
  <2> QED BY <1>3, <2>1 DEF DoneIsSettled
<1>9. /\ \A k \in 1 .. Len(jobs) : jobs'[k].id = jobs[k].id
      /\ Len(jobs) <= Len(jobs')
  BY <1>2, <1>6
<1>10. Balanced(c, l.todo)
  BY <1>1, <1>5 DEF Balanced
<1>11. /\ received' \in [Ids -> Nat] /\ answered' \in [Ids -> Nat]
       /\ unanswered' \in [Ids -> Nat] /\ packets' \in Nat
  BY <1>1, <1>2, <1>3
<1>12. /\ settled \subseteq settled' /\ settled' \subseteq Ids
       /\ events \subseteq events' /\ events' \subseteq Ids
       /\ Fine(l, jobs', settled', completed, events')
  BY <1>1, <1>2, <1>7
<1>13. loop' = [loop EXCEPT ![c] = l] /\ UNCHANGED <<after, completed, order>>
  BY <1>1
<1>14. TasksStay
  BY <1>6, <1>9 DEF TasksStay
<1> QED BY <1>8, <1>9, <1>10, <1>11, <1>12, <1>13, <1>14, OneLoopKeeps

\* One answer more for the message that is left.
LEMMA OneAnswered ==
    ASSUME DispatchInv, NEW c \in Conns, loop[c].step # "idle", NEW q,
           answered' = [answered EXCEPT ![Current(c)] = @ + 1],
           \/ unanswered' = unanswered /\ q = Tail(loop[c].todo)
           \/ /\ unanswered' = [m \in Ids |-> unanswered[m] + Times(Tail(loop[c].todo), m)]
              /\ q = <<>>
    PROVE  /\ answered' \in [Ids -> Nat] /\ unanswered' \in [Ids -> Nat]
           /\ LeaveBalanced(c, q)
<1>1. /\ answered \in [Ids -> Nat] /\ unanswered \in [Ids -> Nat]
      /\ loop[c].todo \in Seq(Ids) /\ loop[c].todo # <<>> /\ Current(c) \in Ids
      /\ Current(c) = Head(loop[c].todo)
  BY LoopFacts DEF DispatchInv, TypeOK, Current
<1>2. Tail(loop[c].todo) \in Seq(Ids)
  BY <1>1
<1>3. ASSUME NEW m \in Ids
      PROVE  /\ answered'[m] \in Nat /\ unanswered'[m] \in Nat
             /\ answered[m] + unanswered[m] + Times(loop[c].todo, m)
                  = answered'[m] + unanswered'[m] + Times(q, m)
  <2> DEFINE one == IF Current(c) = m THEN 1 ELSE 0
             rest == Times(Tail(loop[c].todo), m)
  <2>1. Times(loop[c].todo, m) = rest + one
    BY <1>1, TimesTail
  <2>2. rest \in Nat /\ one \in Nat
    BY <1>2, PlacesFinite
  <2>3. answered'[m] = answered[m] + one
    BY <1>1, SMTT(40)
  <2> HIDE DEF one, rest
  <2>4. answered[m] \in Nat /\ unanswered[m] \in Nat
    BY <1>1
  <2>5. \/ unanswered'[m] = unanswered[m] /\ Times(q, m) = rest
        \/ unanswered'[m] = unanswered[m] + rest /\ Times(q, m) = 0
    BY NoTimes DEF rest
  <2> QED BY <2>1, <2>2, <2>3, <2>4, <2>5, SMTT(40)
<1>4. answered' \in [Ids -> Nat] /\ unanswered' \in [Ids -> Nat]
  BY <1>1, <1>3
<1>5. LeaveBalanced(c, q)
  BY <1>3 DEF LeaveBalanced
<1> QED BY <1>4, <1>5

LEMMA AnswerKeeps ==
    ASSUME DispatchInv, NEW c \in Conns, Answer(c)
    PROVE  DispatchInv'
<1>1. /\ loop[c].step = "answer" /\ Leave(c, TRUE)
      /\ answered' = [answered EXCEPT ![Current(c)] = @ + 1]
      /\ UNCHANGED <<jobs, unanswered, settled>>
  BY DEF Answer
<1>2. /\ loop[c].todo # <<>> /\ Current(c) \in settled /\ settled \subseteq Ids
  BY <1>1, LoopFacts DEF Fine, InOrder, Current
<1>3. /\ answered' \in [Ids -> Nat] /\ unanswered' \in [Ids -> Nat]
      /\ LeaveBalanced(c, IF TRUE THEN Tail(loop[c].todo) ELSE <<>>)
  BY <1>1, OneAnswered
<1>4. /\ settled \subseteq settled' /\ settled' \subseteq Ids /\ Current(c) \in settled'
      /\ UNCHANGED jobs
  BY <1>1, <1>2
<1> QED BY <1>1, <1>2, <1>3, <1>4, LeaveKeeps

LEMMA GateRefusesKeeps ==
    ASSUME DispatchInv, NEW c \in Conns, GateRefuses(c)
    PROVE  DispatchInv'
<1>1. /\ loop[c].step = "gate" /\ Leave(c, FALSE)
      /\ answered' = [answered EXCEPT ![Current(c)] = @ + 1]
      /\ unanswered' = [m \in Ids |-> unanswered[m] + Times(Tail(loop[c].todo), m)]
      /\ settled' = settled \cup {Current(c)} /\ UNCHANGED jobs
  BY DEF GateRefuses
<1>2. /\ loop[c].todo # <<>> /\ Current(c) \in Ids /\ settled \subseteq Ids
  BY <1>1, LoopFacts
<1>3. /\ answered' \in [Ids -> Nat] /\ unanswered' \in [Ids -> Nat]
      /\ LeaveBalanced(c, IF FALSE THEN Tail(loop[c].todo) ELSE <<>>)
  BY <1>1, OneAnswered
<1>4. settled \subseteq settled' /\ settled' \subseteq Ids /\ Current(c) \in settled'
  BY <1>1, <1>2
<1> QED BY <1>1, <1>2, <1>3, <1>4, LeaveKeeps

LEMMA TeardownKeeps ==
    ASSUME DispatchInv, NEW c \in Conns, Teardown(c)
    PROVE  DispatchInv'
<1>1. /\ unanswered' = [m \in Ids |-> unanswered[m] + Times(loop[c].todo, m)]
      /\ UNCHANGED <<jobs, answered>>
  BY DEF Teardown
<1>2. /\ answered \in [Ids -> Nat] /\ unanswered \in [Ids -> Nat] /\ received \in [Ids -> Nat]
      /\ DoneIsSettled
  BY DEF DispatchInv, TypeOK
<1>3. /\ loop[c].todo \in Seq(Ids) /\ settled \subseteq Ids /\ events \subseteq Ids
      /\ packets \in Nat /\ jobs \in Seq(Jobs) /\ Len(jobs) \in Nat
  BY LoopFacts
<1>4. ASSUME NEW m \in Ids
      PROVE  /\ unanswered'[m] \in Nat
             /\ answered[m] + unanswered[m] + Times(loop[c].todo, m)
                  = answered'[m] + unanswered'[m] + Times(<<>>, m)
  <2>1. Times(loop[c].todo, m) \in Nat
    BY <1>3, PlacesFinite
  <2>2. Times(<<>>, m) = 0
    BY NoTimes
  <2>3. answered[m] \in Nat /\ unanswered[m] \in Nat
    BY <1>2
  <2> QED BY <1>1, <2>1, <2>2, <2>3
<1>5. answered' \in [Ids -> Nat] /\ unanswered' \in [Ids -> Nat] /\ LeaveBalanced(c, <<>>)
  BY <1>1, <1>2, <1>4 DEF LeaveBalanced
<1>6. CASE loop[c].step \in {"idle", "refresh"}
  <2> DEFINE l == [IdleLoop EXCEPT !.up = FALSE]
  <2>1. /\ loop' = [loop EXCEPT ![c] = l]
        /\ UNCHANGED <<after, completed, order, events, packets, received, settled>>
    BY <1>6 DEF Teardown
  <2>2. Fine(l, jobs, settled, completed, events) /\ l.todo = <<>>
    BY IdleFine DEF IdleLoop
  <2> HIDE DEF l
  <2>3. Balanced(c, l.todo)
    <3> SUFFICES ASSUME NEW m \in Ids
                 PROVE  received'[m] + answered[m] + unanswered[m] + Times(loop[c].todo, m)
                          = received[m] + answered'[m] + unanswered'[m] + Times(<<>>, m)
      BY <2>2 DEF Balanced
    <3>1. /\ received'[m] = received[m] /\ received[m] \in Nat /\ answered[m] \in Nat
          /\ answered'[m] = answered[m] /\ unanswered[m] \in Nat
      BY <1>1, <1>2, <2>1
    <3>2. Times(<<>>, m) = 0 /\ Times(loop[c].todo, m) \in Nat
      BY <1>3, NoTimes, PlacesFinite
    <3>3. unanswered'[m] = unanswered[m] + Times(loop[c].todo, m)
      BY <1>1
    <3> QED BY <3>1, <3>2, <3>3
  <2>4. TasksStay
    <3>1. Len(jobs) <= Len(jobs)
      BY <1>3
    <3> QED BY <1>1, <1>3, <3>1 DEF TasksStay
  <2>5. /\ settled \subseteq settled' /\ settled' \subseteq Ids
        /\ events \subseteq events' /\ events' \subseteq Ids /\ packets' \in Nat
        /\ Fine(l, jobs', settled', completed, events') /\ received' \in [Ids -> Nat]
    BY <1>1, <1>2, <1>3, <2>1, <2>2
  <2>6. DoneIsSettled'
    BY <1>1, <1>2, <2>1 DEF DoneIsSettled
  <2>7. loop' = [loop EXCEPT ![c] = l] /\ UNCHANGED <<after, completed, order>>
    BY <2>1
  <2> QED BY <1>5, <2>3, <2>4, <2>5, <2>6, <2>7, OneLoopKeeps
<1>7. CASE loop[c].step \notin {"idle", "refresh"}
  <2>1. settled' = settled \cup {Current(c)} /\ Leave(c, FALSE)
    BY <1>7 DEF Teardown
  <2>2. loop[c].todo # <<>> /\ Current(c) \in Ids
    BY <1>7, LoopFacts
  <2>3. /\ settled \subseteq settled' /\ settled' \subseteq Ids /\ Current(c) \in settled'
        /\ UNCHANGED jobs /\ LeaveBalanced(c, IF FALSE THEN Tail(loop[c].todo) ELSE <<>>)
    BY <1>1, <1>3, <1>5, <2>1, <2>2
  <2> QED BY <1>5, <2>1, <2>2, <2>3, LeaveKeeps
<1> QED BY <1>6, <1>7

LEMMA ReconnectKeeps ==
    ASSUME DispatchInv, NEW c \in Conns, Reconnect(c)
    PROVE  DispatchInv'
<1>1. /\ ~loop[c].up /\ loop' = [loop EXCEPT ![c] = IdleLoop]
      /\ UNCHANGED <<after, completed, order, events, jobs, packets, received, answered,
                     unanswered, settled>>
  BY DEF Reconnect
<1>2. /\ Fine(loop[c], jobs, settled, completed, events)
      /\ settled \subseteq Ids /\ events \subseteq Ids
  BY LoopFacts
<1>3. loop[c].todo = <<>> /\ IdleLoop.todo = <<>>
  BY <1>1, <1>2 DEF Fine, Whole, IdleLoop
<1>4. Fine(IdleLoop, jobs, settled', completed, events')
  BY IdleFine
<1> QED BY <1>1, <1>2, <1>3, <1>4, QuietStepKeeps

\* A step of a worker.
LEMMA TaskKeeps ==
    ASSUME DispatchInv, NEW j \in 1 .. Len(jobs), NEW s \in {"running", "done"},
           jobs' = [jobs EXCEPT ![j].state = s],
           settled' = IF s = "done" THEN settled \cup {jobs[j].id} ELSE settled,
           UNCHANGED <<after, loop, completed, order, events, packets, received, answered,
                       unanswered>>
    PROVE  DispatchInv'
<1>1. /\ TypeOK /\ LoopsFine /\ DoneIsSettled /\ CountsAgree /\ completed \subseteq settled
      /\ jobs \in Seq(Jobs) /\ Len(jobs) \in Nat /\ settled \subseteq Ids
  <2>1. /\ TypeOK /\ LoopsFine /\ DoneIsSettled /\ CountsAgree /\ completed \subseteq settled
    BY DEF DispatchInv
  <2>2. jobs \in Seq(Jobs) /\ settled \subseteq Ids
    BY <2>1, Zenon DEF TypeOK
  <2>3. Len(jobs) \in Nat
    BY <2>2
  <2> QED BY <2>1, <2>2, <2>3
<1>2. jobs[j] \in Jobs
  BY <1>1
<1>3. [jobs[j] EXCEPT !.state = s] \in Jobs /\ [jobs[j] EXCEPT !.state = s].id = jobs[j].id
      /\ [jobs[j] EXCEPT !.state = s].state = s /\ jobs[j].id \in Ids
  BY <1>2 DEF Jobs
<1>4. /\ jobs' \in Seq(Jobs) /\ Len(jobs') = Len(jobs)
      /\ \A k \in 1 .. Len(jobs) : jobs'[k] = IF k = j THEN [jobs[j] EXCEPT !.state = s] ELSE jobs[k]
  BY <1>1, <1>3
<1>5. \A k \in 1 .. Len(jobs) : jobs'[k].id = jobs[k].id
  BY <1>3, <1>4
<1>6. settled \subseteq settled' /\ settled' \subseteq Ids
  BY <1>1, <1>3
<1>7. TypeOK'
  <2>1. /\ after' = after /\ loop' = loop /\ completed' = completed /\ order' = order
        /\ events' = events /\ packets' = packets /\ received' = received
        /\ answered' = answered /\ unanswered' = unanswered
    OBVIOUS
  <2>2. jobs' \in Seq(Jobs) /\ settled' \subseteq Ids
    BY <1>4, <1>6
  <2> QED BY <1>1, <2>1, <2>2, Zenon DEF TypeOK
<1>8. LoopsFine'
  <2>1. ASSUME NEW c \in Conns PROVE Fine(loop[c], jobs', settled', completed, events)
    <3>1. Fine(loop[c], jobs, settled, completed, events)
      BY <1>1 DEF LoopsFine
    <3>2. Len(jobs) <= Len(jobs') /\ Len(jobs') \in Nat
      BY <1>1, <1>4
    <3> QED BY <1>1, <1>5, <1>6, <3>1, <3>2, StaysFine, ZenonT(60)
  <2>2. ASSUME NEW c \in Conns PROVE Fine(loop[c], jobs, settled, completed, events)'
    BY <2>1 DEF Fine, Whole, InOrder, Linked
  <2> QED BY <2>2 DEF LoopsFine
<1>9. DoneIsSettled'
  <2> SUFFICES ASSUME NEW k \in 1 .. Len(jobs'), jobs'[k].state = "done"
               PROVE  jobs'[k].id \in settled'
    BY DEF DoneIsSettled
  <2>1. CASE k = j
    BY <1>3, <1>4, <2>1
  <2>2. CASE k # j
    BY <1>1, <1>4, <1>6, <2>2 DEF DoneIsSettled
  <2> QED BY <2>1, <2>2
<1>10. CountsAgree'
  BY <1>1, CountStays
<1> QED BY <1>1, <1>6, <1>7, <1>8, <1>9, <1>10 DEF DispatchInv

\* A step that changes nothing.
LEMMA StutterKeeps ==
    ASSUME DispatchInv, UNCHANGED vars
    PROVE  DispatchInv'
<1>1. /\ after' = after /\ loop' = loop /\ completed' = completed /\ order' = order
      /\ events' = events /\ jobs' = jobs /\ packets' = packets /\ received' = received
      /\ answered' = answered /\ unanswered' = unanswered /\ settled' = settled
  BY DEF vars
<1>2. TypeOK'
  BY <1>1 DEF DispatchInv, TypeOK
<1>3. LoopsFine'
  BY <1>1 DEF DispatchInv, LoopsFine, Fine, Whole, InOrder, Linked
<1>4. DoneIsSettled' /\ (completed \subseteq settled)'
  BY <1>1 DEF DispatchInv, DoneIsSettled
<1>5. CountsAgree'
  BY <1>1, CountStays DEF DispatchInv
<1> QED BY <1>2, <1>3, <1>4, <1>5 DEF DispatchInv

LEMMA NextDispatch == DispatchInv /\ [Next]_vars => DispatchInv'
<1> SUFFICES ASSUME DispatchInv, [Next]_vars PROVE DispatchInv'
  OBVIOUS
<1>1. ASSUME NEW c \in Conns, LoopStep(c) PROVE DispatchInv'
  BY <1>1, BeginKeeps, WaitEndsKeeps, WaitTimesOutKeeps, GateOpensKeeps, GateRefusesKeeps,
     AckTimeoutKeeps, ResultArrivesKeeps, ResultTimeoutKeeps, AnswerKeeps DEF LoopStep
<1>2. ASSUME NEW j \in 1 .. Len(jobs), TaskStarts(j) PROVE DispatchInv'
  <2>1. "running" \in {"running", "done"} /\ "running" # "done"
    OBVIOUS
  <2> QED BY <1>2, <2>1, TaskKeeps DEF TaskStarts
<1>3. ASSUME NEW j \in 1 .. Len(jobs), TaskEnds(j) PROVE DispatchInv'
  <2>1. "done" \in {"running", "done"}
    OBVIOUS
  <2> QED BY <1>3, <2>1, TaskKeeps DEF TaskEnds
<1> QED BY <1>1, <1>2, <1>3, TeardownKeeps, ReconnectKeeps, ReceiveKeeps, StutterKeeps DEF Next

-----------------------------------------------------------------------------
(* The theorems *)

\* The inductive invariant implies what the run checks.
LEMMA DispatchInvImplies == DispatchInv => RequestsInOrder
<1> SUFFICES ASSUME DispatchInv PROVE RequestsInOrder
  OBVIOUS
<1>1. NoLostCompletion
  BY LoopFacts DEF NoLostCompletion, Fine, Linked, Current
<1>2. AfterOrder
  BY LoopFacts DEF AfterOrder, Fine, InOrder, Current
<1>3. TypeOK /\ AnsweredOnce
  BY DEF DispatchInv, CountsAgree
<1> QED BY <1>1, <1>2, <1>3 DEF RequestsInOrder

\* For every set of connections, every set of requests with whatever they are
\* sent after, and packets of any length: a request that waits for another can
\* still be woken, none is handed to a worker before those it was sent after are
\* settled, every message is answered or given up exactly as often as it came,
\* and no more ids are remembered than allowed (RequestsInOrder, of Client and
\* Session in piltover/gateway/client.py and session/session.py).
THEOREM RequestsServed == Spec => []RequestsInOrder
<1>1. Init => DispatchInv
  BY InitDispatch
<1>2. DispatchInv /\ [Next]_vars => DispatchInv'
  BY NextDispatch
<1>3. DispatchInv => RequestsInOrder
  BY DispatchInvImplies
<1> QED BY <1>1, <1>2, <1>3, PTL DEF Spec
=============================================================================
