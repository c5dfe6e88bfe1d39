----------------------- MODULE SessionOutboundProofs -----------------------
(***************************************************************************)
(* The invariants of SessionOutbound hold for every set of connections and *)
(* every number of messages.                                               *)
(***************************************************************************)
EXTENDS SessionOutbound, WellFoundedInduction, TLAPS

LEMMA PopFacts ==
    ASSUME NEW q \in Seq(Nat), q # <<>>
    PROVE  /\ Head(q) \in Nat
           /\ Tail(q) \in Seq(Nat)
           /\ Ids(q) = {Head(q)} \cup Ids(Tail(q))
           /\ Sorted(q) => Sorted(Tail(q))
           /\ Sorted(q) => \A m \in Ids(Tail(q)) : Head(q) < m
<1>1. /\ Len(q) \in Nat /\ Len(q) >= 1
      /\ Head(q) = q[1]
      /\ Tail(q) \in Seq(Nat)
      /\ Len(Tail(q)) = Len(q) - 1
      /\ \A i \in 1 .. Len(Tail(q)) : Tail(q)[i] = q[i + 1]
  OBVIOUS
<1>2. Head(q) \in Nat /\ Tail(q) \in Seq(Nat)
  OBVIOUS
<1>3. Ids(q) = {Head(q)} \cup Ids(Tail(q))
  <2>1. ASSUME NEW m \in Ids(q) PROVE m \in {Head(q)} \cup Ids(Tail(q))
    <3>1. PICK i \in 1 .. Len(q) : m = q[i]
      BY DEF Ids
    <3>2. CASE i = 1
      BY <1>1, <3>1, <3>2
    <3>3. CASE i # 1
      <4>1. i - 1 \in 1 .. Len(Tail(q)) /\ Tail(q)[i - 1] = q[i]
        BY <1>1, <3>3
      <4> QED BY <4>1, <3>1 DEF Ids
    <3> QED BY <3>2, <3>3
  <2>2. ASSUME NEW m \in Ids(Tail(q)) PROVE m \in Ids(q)
    <3>1. PICK i \in 1 .. Len(Tail(q)) : m = Tail(q)[i]
      BY DEF Ids
    <3>2. i + 1 \in 1 .. Len(q) /\ m = q[i + 1]
      BY <1>1, <3>1
    <3> QED BY <3>2 DEF Ids
  <2>3. Head(q) \in Ids(q)
    BY <1>1 DEF Ids
  <2> QED BY <2>1, <2>2, <2>3
<1>4. Sorted(q) => Sorted(Tail(q))
  BY <1>1 DEF Sorted
<1>5. Sorted(q) => \A m \in Ids(Tail(q)) : Head(q) < m
  <2> SUFFICES ASSUME Sorted(q), NEW m \in Ids(Tail(q)) PROVE Head(q) < m
    OBVIOUS
  <2>1. PICK i \in 1 .. Len(Tail(q)) : m = Tail(q)[i]
    BY DEF Ids
  <2> QED BY <1>1, <2>1 DEF Sorted
<1> QED BY <1>2, <1>3, <1>4, <1>5

LEMMA AppendFacts ==
    ASSUME NEW q \in Seq(Nat), NEW n \in Nat
    PROVE  /\ Append(q, n) \in Seq(Nat)
           /\ Append(q, n) # <<>>
           /\ Ids(Append(q, n)) = Ids(q) \cup {n}
           /\ Ids(q) \subseteq Nat
           /\ (Sorted(q) /\ \A m \in Ids(q) : m < n) => Sorted(Append(q, n))
<1> DEFINE r == Append(q, n)
<1>1. /\ r \in Seq(Nat) /\ Len(r) = Len(q) + 1 /\ Len(q) \in Nat
      /\ \A i \in 1 .. Len(q) : r[i] = q[i]
      /\ r[Len(q) + 1] = n
  OBVIOUS
<1>2. r # <<>>
  BY <1>1
<1>3. Ids(r) = Ids(q) \cup {n}
  <2>1. ASSUME NEW m \in Ids(r) PROVE m \in Ids(q) \cup {n}
    <3>1. PICK i \in 1 .. Len(r) : m = r[i]
      BY DEF Ids
    <3>2. i \in 1 .. Len(q) \/ i = Len(q) + 1
      BY <1>1
    <3> QED BY <1>1, <3>1, <3>2 DEF Ids
  <2>2. ASSUME NEW m \in Ids(q) \cup {n} PROVE m \in Ids(r)
    <3>1. CASE m = n
      <4>1. Len(q) + 1 \in 1 .. Len(r)
        BY <1>1
      <4> QED BY <1>1, <3>1, <4>1 DEF Ids
    <3>2. CASE m \in Ids(q)
      <4>1. PICK i \in 1 .. Len(q) : m = q[i]
        BY <3>2 DEF Ids
      <4>2. i \in 1 .. Len(r) /\ m = r[i]
        BY <1>1, <4>1
      <4> QED BY <4>2 DEF Ids
    <3> QED BY <3>1, <3>2
  <2> QED BY <2>1, <2>2
<1>4. (Sorted(q) /\ \A m \in Ids(q) : m < n) => Sorted(r)
  <2> SUFFICES ASSUME Sorted(q), \A m \in Ids(q) : m < n,
                      NEW i \in 1 .. Len(r), NEW j \in 1 .. Len(r), i < j
               PROVE  r[i] < r[j]
    BY DEF Sorted
  <2>1. i \in 1 .. Len(q) /\ r[i] = q[i] /\ q[i] \in Ids(q)
    BY <1>1 DEF Ids
  <2>2. CASE j \in 1 .. Len(q)
    BY <1>1, <2>1, <2>2 DEF Sorted
  <2>3. CASE j = Len(q) + 1
    BY <1>1, <2>1, <2>3
  <2> QED BY <1>1, <2>2, <2>3
<1>5. Ids(q) \subseteq Nat
  BY DEF Ids
<1> QED BY <1>1, <1>2, <1>3, <1>4, <1>5

LEMMA LeastFacts ==
    ASSUME NEW S \in SUBSET Nat, S # {}
    PROVE  Least(S) \in S
<1>1. \E m \in S : \A k \in S : ~(<<k, m>> \in OpToRel(<, Nat))
  BY WFMin, NatLessThanWellFounded
<1>2. PICK m \in S : \A k \in S : ~(<<k, m>> \in OpToRel(<, Nat))
  BY <1>1
<1>3. \A k \in S : m <= k
  <2> SUFFICES ASSUME NEW k \in S, k < m PROVE FALSE
    OBVIOUS
  <2>1. <<k, m>> \in OpToRel(<, Nat)
    BY DEF OpToRel
  <2> QED BY <1>2, <2>1
<1> QED BY <1>2, <1>3 DEF Least

-----------------------------------------------------------------------------
(* The flush: popping a message and entering the lock keep the ids in order *)

LEMMA ServeQueueKeeps ==
    ASSUME NEW f \in Flushers, NEW v \in Conns, NEW q \in Seq(Nat), Sorted(q),
           pending' \in SUBSET Nat, nextId' \in Nat,
           \A m \in Ids(q) : m < nextId',
           \A p \in pending' : p < nextId' /\ \A k \in Ids(q) : p < k,
           ServeQueue(f, v, q)
    PROVE  /\ queue' \in Seq(Nat) /\ wr' \in Writes
           /\ WriteInProgress' /\ InIdOrder'
           /\ Ids(q) = QueuedIds' \cup Popped'
           /\ q = <<>> => queue' = <<>>
<1>1. CASE q = <<>>
  <2>1. queue' = q /\ wr' = Idle /\ Popped' = {}
    BY <1>1 DEF ServeQueue, Popped, Idle
  <2>2. WriteInProgress' /\ wr' \in Writes
    BY <2>1 DEF WriteInProgress, Idle, Writes, NoFlusher
  <2>3. InIdOrder'
    BY <2>1 DEF InIdOrder, QueuedIds
  <2> QED BY <1>1, <2>1, <2>2, <2>3 DEF QueuedIds
<1>2. CASE q # <<>>
  <2>1. /\ queue' = Tail(q) /\ wr' = Writing(f, v, Head(q))
        /\ Popped' = {Head(q)}
    BY <1>2 DEF ServeQueue, Popped, Writing
  <2>2. /\ Head(q) \in Nat /\ Tail(q) \in Seq(Nat) /\ Sorted(Tail(q))
        /\ Ids(q) = {Head(q)} \cup Ids(Tail(q))
        /\ \A m \in Ids(Tail(q)) : Head(q) < m
    BY <1>2, PopFacts
  <2>3. WriteInProgress' /\ wr' \in Writes
    BY <2>1, <2>2, ConnsAssumption
    DEF WriteInProgress, Writing, Writes, NoFlusher, Flushers
  <2>4. InIdOrder'
    BY <2>1, <2>2 DEF InIdOrder, QueuedIds
  <2> QED BY <1>2, <2>1, <2>2, <2>3, <2>4 DEF QueuedIds
<1> QED BY <1>1, <1>2

LEMMA ResendingKeeps ==
    ASSUME NEW f \in Flushers, NEW v \in Conns, NEW m \in pending,
           TypeOK, InIdOrder, wr.stage # "queue",
           wr' = Resending(f, v, m), queue' = queue, pending' = pending,
           nextId' = nextId
    PROVE  wr' \in Writes /\ WriteInProgress' /\ InIdOrder' /\ Popped' = Popped
<1>1. m \in Nat /\ pending \subseteq Nat
  BY DEF TypeOK
<1>2. wr' \in Writes
  BY <1>1 DEF Resending, Writes
<1>3. Popped' = {} /\ Popped = {}
  BY DEF Popped, Resending
<1>4. WriteInProgress'
  <2>1. wr'.last \/ \E k \in pending' : k > wr'.msg
    BY <1>1 DEF Resending
  <2> QED BY <2>1, ConnsAssumption
          DEF WriteInProgress, Resending, NoFlusher, Flushers
<1>5. InIdOrder'
  BY <1>3 DEF InIdOrder, QueuedIds
<1> QED BY <1>2, <1>3, <1>4, <1>5

LEMMA EnterFlushKeeps ==
    ASSUME NEW f \in Flushers, NEW q \in Seq(Nat), Sorted(q), TypeOK,
           wr = Idle, pending' = pending, nextId' \in Nat,
           \A m \in Ids(q) : m < nextId',
           \A p \in pending : p < nextId' /\ \A k \in Ids(q) : p < k,
           EnterFlush(f, q)
    PROVE  /\ queue' \in Seq(Nat) /\ wr' \in Writes /\ resend' \in BOOLEAN
           /\ WriteInProgress' /\ InIdOrder'
           /\ Ids(q) = QueuedIds' \cup Popped'
           /\ q = <<>> => queue' = <<>>
<1>1. CASE client = NoConn
  <2>1. wr' = Idle /\ queue' = q /\ resend' = resend
    BY <1>1 DEF EnterFlush
  <2>2. Popped' = {} /\ wr' \in Writes /\ WriteInProgress'
    BY <2>1 DEF Popped, Idle, Writes, WriteInProgress, NoFlusher
  <2>3. InIdOrder'
    BY <2>1, <2>2 DEF InIdOrder, QueuedIds
  <2> QED BY <2>1, <2>2, <2>3 DEF QueuedIds, TypeOK
<1>2. CASE client # NoConn /\ resend /\ pending # {}
  <2> DEFINE m == Least(pending)
  <2>1. /\ wr' = Resending(f, client, m) /\ queue' = q /\ resend' = FALSE
    BY <1>2 DEF EnterFlush
  <2>2. m \in pending /\ m \in Nat /\ client \in Conns /\ pending \subseteq Nat
    BY <1>2, LeastFacts DEF TypeOK
  <2>3. wr' \in Writes /\ Popped' = {}
    BY <2>1, <2>2 DEF Resending, Writes, Popped
  <2>4. WriteInProgress'
    <3>1. wr'.last \/ \E k \in pending' : k > wr'.msg
      BY <2>1, <2>2 DEF Resending
    <3> QED BY <2>1, <2>2, <3>1, ConnsAssumption
            DEF WriteInProgress, Resending, NoFlusher, Flushers
  <2>5. InIdOrder'
    BY <2>1, <2>3 DEF InIdOrder, QueuedIds
  <2> QED BY <2>1, <2>3, <2>4, <2>5 DEF QueuedIds
<1>3. CASE client # NoConn /\ ~(resend /\ pending # {})
  <2>1. ServeQueue(f, client, q) /\ resend' = resend
    BY <1>3 DEF EnterFlush
  <2>2. client \in Conns /\ pending' \in SUBSET Nat /\ resend \in BOOLEAN
    BY <1>3 DEF TypeOK
  <2> QED BY <2>1, <2>2, ServeQueueKeeps
<1> QED BY <1>1, <1>2, <1>3

LEMMA CallFlushKeeps ==
    ASSUME NEW f \in Flushers, IndInv, pending' = pending, nextId' = nextId,
           CallFlush(f, queue)
    PROVE  /\ queue' \in Seq(Nat) /\ wr' \in Writes /\ resend' \in BOOLEAN
           /\ waiters' \subseteq Flushers
           /\ WriteInProgress' /\ InIdOrder'
           /\ QueuedIds \cup Popped = QueuedIds' \cup Popped'
           /\ queue = <<>> => queue' = <<>>
<1>1. CASE LockFree
  <2>1. wr = Idle /\ EnterFlush(f, queue) /\ waiters' = waiters
    BY <1>1 DEF CallFlush, LockFree
  <2>2. Popped = {}
    BY <2>1 DEF Popped, Idle
  <2>3. /\ queue \in Seq(Nat) /\ Sorted(queue) /\ TypeOK /\ nextId' \in Nat
        /\ \A m \in Ids(queue) : m < nextId'
        /\ \A p \in pending : p < nextId' /\ \A k \in Ids(queue) : p < k
    BY DEF IndInv, TypeOK, InIdOrder, QueuedIds
  <2>4. /\ queue' \in Seq(Nat) /\ wr' \in Writes /\ resend' \in BOOLEAN
        /\ WriteInProgress' /\ InIdOrder'
        /\ Ids(queue) = QueuedIds' \cup Popped'
        /\ queue = <<>> => queue' = <<>>
    BY <2>1, <2>3, EnterFlushKeeps
  <2> QED BY <2>1, <2>2, <2>3, <2>4 DEF QueuedIds, TypeOK
<1>2. CASE ~LockFree
  <2>1. /\ waiters' = waiters \cup {f} /\ queue' = queue /\ wr' = wr
        /\ resend' = resend
    BY <1>2 DEF CallFlush
  <2> QED BY <2>1 DEF IndInv, TypeOK, WriteInProgress, InIdOrder, QueuedIds,
                      Popped
<1> QED BY <1>1, <1>2

-----------------------------------------------------------------------------
(* Every action keeps IndInv *)

\* What all flushers' steps have in common: they take messages from the queue
\* and leave connections and session alone.
LEMMA FlushStepKeeps ==
    ASSUME IndInv,
           queue' \in Seq(Nat), wr' \in Writes, resend' \in BOOLEAN,
           task' \in BOOLEAN, push' \in {"idle", "checked", "flush", "skipped"},
           waiters' \subseteq Flushers, pending' \in SUBSET Nat,
           WriteInProgress', InIdOrder',
           pending \subseteq pending',
           QueuedIds \cup Popped \subseteq QueuedIds' \cup Popped' \cup pending',
           queue = <<>> => queue' = <<>>,
           UNCHANGED <<connVars, client, phase, timer, history, frozen>>
    PROVE  IndInv'
<1> USE DEF IndInv
<1>1. TypeOK'
  BY DEF TypeOK, connVars, history
<1>2. NothingVanishes'
  BY DEF NothingVanishes, history
<1>3. OnlyStoredIsServed' /\ CleanupScheduled'
  BY DEF OnlyStoredIsServed, CleanupScheduled
<1>4. ClientHoldsSession'
  BY DEF ClientHoldsSession, connVars
<1>5. NoLostWakeup'
  BY DEF NoLostWakeup, connVars
<1> QED BY <1>1, <1>2, <1>3, <1>4, <1>5

LEMMA AfterFlushStepType ==
    ASSUME TypeOK, NEW f, AfterFlushStep(f)
    PROVE  task' \in BOOLEAN /\ push' \in {"idle", "checked", "flush", "skipped"}
BY DEF TypeOK, AfterFlushStep, Busy

LEMMA AcquireKeeps ==
    ASSUME IndInv, NEW f \in Flushers, Acquire(f)
    PROVE  IndInv'
<1>1. wr = Idle /\ EnterFlush(f, queue) /\ pending' = pending /\ nextId' = nextId
  BY DEF Acquire, history
<1>2. Popped = {}
  BY <1>1 DEF Popped, Idle
<1>3. /\ queue \in Seq(Nat) /\ Sorted(queue) /\ TypeOK /\ nextId' \in Nat
      /\ \A m \in Ids(queue) : m < nextId'
      /\ \A p \in pending : p < nextId' /\ \A k \in Ids(queue) : p < k
  BY <1>1 DEF IndInv, TypeOK, InIdOrder, QueuedIds
<1>4. /\ queue' \in Seq(Nat) /\ wr' \in Writes /\ resend' \in BOOLEAN
      /\ WriteInProgress' /\ InIdOrder'
      /\ QueuedIds = QueuedIds' \cup Popped'
      /\ queue = <<>> => queue' = <<>>
  BY <1>1, <1>3, EnterFlushKeeps DEF QueuedIds
<1>5. waiters' \subseteq Flushers /\ pending' \in SUBSET Nat
  BY <1>1, <1>3 DEF Acquire, TypeOK
<1>6. task' \in BOOLEAN /\ push' \in {"idle", "checked", "flush", "skipped"}
  BY <1>3, AfterFlushStepType DEF Acquire
<1> QED BY <1>1, <1>2, <1>4, <1>5, <1>6, FlushStepKeeps DEF Acquire

LEMMA TaskStartsKeeps ==
    ASSUME IndInv, TaskStarts
    PROVE  IndInv'
<1>1. CallFlush(Task, queue) /\ pending' = pending /\ nextId' = nextId
  BY DEF TaskStarts, history
<1>2. TypeOK /\ Task \in Flushers /\ pending' \in SUBSET Nat
  BY <1>1 DEF IndInv, TypeOK, Flushers
<1>3. task' \in BOOLEAN /\ push' \in {"idle", "checked", "flush", "skipped"}
  BY <1>2, AfterFlushStepType DEF TaskStarts
<1> QED BY <1>1, <1>2, <1>3, CallFlushKeeps, FlushStepKeeps DEF TaskStarts

LEMMA LoopFlushesKeeps ==
    ASSUME IndInv, NEW c \in Conns, LoopFlushes(c)
    PROVE  IndInv'
<1>1. CallFlush(c, queue) /\ pending' = pending /\ nextId' = nextId
  BY DEF LoopFlushes, history
<1>2. c \in Flushers /\ pending' \in SUBSET Nat
  BY <1>1 DEF IndInv, TypeOK, Flushers
<1>3. task' \in BOOLEAN /\ push' \in {"idle", "checked", "flush", "skipped"}
  BY DEF LoopFlushes, IndInv, TypeOK
<1> QED BY <1>1, <1>2, <1>3, CallFlushKeeps, FlushStepKeeps DEF LoopFlushes

LEMMA WriteSucceedsKeeps ==
    ASSUME IndInv, WriteSucceeds
    PROVE  IndInv'
<1>1. /\ TypeOK /\ InIdOrder /\ nextId' = nextId /\ nextId \in Nat
      /\ wr \in Writes /\ waiters' \subseteq Flushers /\ resend' \in BOOLEAN
      /\ queue \in Seq(Nat) /\ pending \in SUBSET Nat /\ wr.msg \in Nat
  BY DEF IndInv, TypeOK, WriteSucceeds, history, Writes
<1>2. task' \in BOOLEAN /\ push' \in {"idle", "checked", "flush", "skipped"}
  BY <1>1, AfterFlushStepType DEF WriteSucceeds
<1>3. wr.stage # "none" => wr.by \in Flushers /\ wr.via \in Conns
  BY <1>1 DEF IndInv, WriteInProgress, Writes, Flushers, NoFlusher
<1>4. CASE wr.stage = "resend" /\ ~wr.last
  <2> DEFINE S == {k \in pending : k > wr.msg}
  <2>1. /\ wr' = Resending(wr.by, wr.via, Least(S)) /\ queue' = queue
        /\ pending' = pending /\ ~wr.mutated
    BY <1>4 DEF WriteSucceeds, TrackPendingOutbound
  <2>2. S # {} /\ S \in SUBSET Nat
    BY <1>1, <1>4, <2>1 DEF IndInv, WriteInProgress
  <2>3. Least(S) \in pending
    BY <2>2, LeastFacts
  <2>4. wr' \in Writes /\ WriteInProgress' /\ InIdOrder' /\ Popped' = Popped
    BY <1>1, <1>3, <1>4, <2>1, <2>3, ResendingKeeps
  <2> QED BY <1>1, <1>2, <2>1, <2>4, FlushStepKeeps DEF WriteSucceeds, QueuedIds
<1>5. CASE wr.stage = "resend" /\ wr.last
  <2>1. ServeQueue(wr.by, wr.via, queue) /\ pending' = pending /\ Popped = {}
    BY <1>5 DEF WriteSucceeds, TrackPendingOutbound, Popped
  <2>2. /\ Sorted(queue) /\ \A m \in Ids(queue) : m < nextId'
        /\ \A p \in pending' : p < nextId' /\ \A k \in Ids(queue) : p < k
    BY <1>1, <2>1 DEF InIdOrder, QueuedIds
  <2>3. /\ queue' \in Seq(Nat) /\ wr' \in Writes
        /\ WriteInProgress' /\ InIdOrder'
        /\ QueuedIds = QueuedIds' \cup Popped'
        /\ queue = <<>> => queue' = <<>>
    BY <1>1, <1>3, <1>5, <2>1, <2>2, ServeQueueKeeps DEF QueuedIds
  <2> QED BY <1>1, <1>2, <2>1, <2>3, FlushStepKeeps DEF WriteSucceeds
<1>6. CASE wr.stage = "queue"
  <2>1. /\ ServeQueue(wr.by, wr.via, queue) /\ pending' = pending \cup {wr.msg}
        /\ Popped = {wr.msg}
    BY <1>6 DEF WriteSucceeds, TrackPendingOutbound, Popped
  <2>2. /\ Sorted(queue) /\ \A m \in Ids(queue) : m < nextId'
        /\ \A p \in pending' : p < nextId' /\ \A k \in Ids(queue) : p < k
    BY <1>1, <2>1 DEF InIdOrder, QueuedIds
  <2>3. /\ queue' \in Seq(Nat) /\ wr' \in Writes
        /\ WriteInProgress' /\ InIdOrder'
        /\ QueuedIds = QueuedIds' \cup Popped'
        /\ queue = <<>> => queue' = <<>>
    BY <1>1, <1>3, <1>6, <2>1, <2>2, ServeQueueKeeps DEF QueuedIds
  <2> QED BY <1>1, <1>2, <2>1, <2>3, FlushStepKeeps DEF WriteSucceeds
<1> QED BY <1>4, <1>5, <1>6 DEF WriteSucceeds

\* enqueue: the new id is greater than every id in the session.
LEMMA ReplyKeeps ==
    ASSUME IndInv, NEW c \in Conns, Reply(c)
    PROVE  IndInv'
<1>1. /\ queue' = Append(queue, nextId) /\ nextId' = nextId + 1
      /\ pending' = pending /\ wr' = wr /\ Popped' = Popped
      /\ nextId <= MaxMsgs
  BY DEF Reply, Announce, flushVars, Popped
<1>2. /\ queue \in Seq(Nat) /\ nextId \in Nat /\ pending \subseteq Nat
      /\ Popped \subseteq Nat
  BY DEF IndInv, TypeOK, Popped, Writes
<1>3. /\ queue' \in Seq(Nat) /\ QueuedIds' = QueuedIds \cup {nextId}
      /\ QueuedIds \subseteq Nat
      /\ Sorted(queue) /\ (\A m \in QueuedIds : m < nextId) => Sorted(queue')
  BY <1>1, <1>2, AppendFacts DEF IndInv, InIdOrder, QueuedIds
<1>4. InIdOrder'
  BY <1>1, <1>2, <1>3 DEF IndInv, InIdOrder
<1>5. NothingVanishes'
  BY <1>1, <1>2, <1>3 DEF IndInv, NothingVanishes, Reply
<1>6. TypeOK'
  BY <1>1, <1>2, <1>3, BoundsAssumption
  DEF IndInv, TypeOK, Reply, Announce, ScheduleOutboundFlush, flushVars
<1>7. WriteInProgress'
  BY <1>1 DEF IndInv, WriteInProgress
<1>8. OnlyStoredIsServed' /\ CleanupScheduled' /\ ClientHoldsSession'
  BY DEF IndInv, OnlyStoredIsServed, CleanupScheduled, ClientHoldsSession, Reply
<1>9. NoLostWakeup'
  BY DEF IndInv, NoLostWakeup, Reply, Announce
<1> QED BY <1>4, <1>5, <1>6, <1>7, <1>8, <1>9 DEF IndInv

\* A push puts one message more on the way.
LEMMA PushEnqueuesAdds ==
    ASSUME IndInv, PushEnqueues
    PROVE  /\ queue' \in Seq(Nat) /\ wr' \in Writes /\ resend' \in BOOLEAN
           /\ waiters' \subseteq Flushers /\ WriteInProgress' /\ InIdOrder'
           /\ QueuedIds' \cup Popped' = QueuedIds \cup Popped \cup {nextId}
           /\ nextId' = nextId + 1 /\ nextId <= MaxMsgs /\ pending' = pending
<1> DEFINE q == Append(queue, nextId)
<1>1. /\ nextId' = nextId + 1 /\ nextId <= MaxMsgs /\ pending' = pending
      /\ CallFlush(Push, q) \/ (queue' = q /\ waiters' = waiters /\ wr' = wr
                                /\ resend' = resend)
  BY DEF PushEnqueues, Announce
<1>2. /\ TypeOK /\ queue \in Seq(Nat) /\ nextId \in Nat /\ pending \in SUBSET Nat
      /\ Popped \subseteq Nat /\ Push \in Flushers /\ nextId' \in Nat
  BY <1>1 DEF IndInv, TypeOK, Popped, Writes, Flushers
<1>3. /\ q \in Seq(Nat) /\ Ids(q) = QueuedIds \cup {nextId} /\ Sorted(q)
      /\ QueuedIds \subseteq Nat
  BY <1>2, AppendFacts DEF IndInv, InIdOrder, QueuedIds
<1>4. /\ \A m \in Ids(q) : m < nextId'
      /\ \A p \in pending : p < nextId' /\ \A k \in Ids(q) : p < k
      /\ \A m \in Popped : m < nextId' /\ \A k \in Ids(q) : m < k
  <2>1. nextId' = nextId + 1 /\ nextId \in Nat
    BY <1>1, <1>2
  <2>2. \A m \in QueuedIds \cup pending \cup Popped : m \in Nat /\ m < nextId
    BY <1>2, <1>3 DEF IndInv, InIdOrder
  <2>3. \A p \in pending \cup Popped : \A k \in QueuedIds : p < k
    BY DEF IndInv, InIdOrder
  <2>4. \A k \in Ids(q) : k \in QueuedIds \/ k = nextId
    BY <1>3
  <2>5. ASSUME NEW m \in Ids(q) PROVE m < nextId'
    BY <2>1, <2>2, <2>4
  <2>6. ASSUME NEW p \in pending \cup Popped
        PROVE  p < nextId' /\ \A k \in Ids(q) : p < k
    BY <2>1, <2>2, <2>3, <2>4
  <2> QED BY <2>5, <2>6
<1>5. /\ queue' \in Seq(Nat) /\ wr' \in Writes /\ resend' \in BOOLEAN
      /\ waiters' \subseteq Flushers /\ WriteInProgress' /\ InIdOrder'
      /\ Ids(q) \cup Popped = QueuedIds' \cup Popped'
  <2>1. CASE LockFree /\ CallFlush(Push, q)
    <3>1. wr = Idle /\ EnterFlush(Push, q) /\ waiters' = waiters /\ Popped = {}
      BY <2>1 DEF CallFlush, LockFree, Popped, Idle
    <3>2. /\ queue' \in Seq(Nat) /\ wr' \in Writes /\ resend' \in BOOLEAN
          /\ WriteInProgress' /\ InIdOrder'
          /\ Ids(q) = QueuedIds' \cup Popped'
      BY <1>1, <1>2, <1>3, <1>4, <3>1, EnterFlushKeeps
    <3> QED BY <1>2, <3>1, <3>2 DEF TypeOK
  <2>2. CASE ~(LockFree /\ CallFlush(Push, q))
    <3>1. /\ queue' = q /\ wr' = wr /\ resend' = resend /\ Popped' = Popped
          /\ waiters' \subseteq Flushers
      BY <1>1, <1>2, <2>2 DEF CallFlush, Popped, TypeOK
    <3>2. InIdOrder'
      BY <1>1, <1>3, <1>4, <3>1 DEF IndInv, InIdOrder, QueuedIds
    <3>3. WriteInProgress'
      BY <1>1, <3>1 DEF IndInv, WriteInProgress
    <3> QED BY <1>2, <1>3, <3>1, <3>2, <3>3 DEF QueuedIds, TypeOK
  <2> QED BY <2>1, <2>2
<1> QED BY <1>1, <1>3, <1>5

LEMMA PushEnqueuesKeeps ==
    ASSUME IndInv, PushEnqueues
    PROVE  IndInv'
<1>1. nextId' = nextId + 1 /\ nextId <= MaxMsgs /\ pending' = pending
  BY PushEnqueuesAdds
<1>2. /\ TypeOK /\ nextId \in Nat /\ pending \in SUBSET Nat /\ nextId' \in Nat
  BY <1>1 DEF IndInv, TypeOK
<1>3. /\ queue' \in Seq(Nat) /\ wr' \in Writes /\ resend' \in BOOLEAN
      /\ waiters' \subseteq Flushers /\ WriteInProgress' /\ InIdOrder'
      /\ QueuedIds' \cup Popped' = QueuedIds \cup Popped \cup {nextId}
  BY PushEnqueuesAdds
<1>4. TypeOK'
  BY <1>1, <1>2, <1>3, BoundsAssumption
  DEF TypeOK, PushEnqueues, Announce, ScheduleOutboundFlush, Busy
<1>5. NothingVanishes'
  BY <1>1, <1>2, <1>3 DEF IndInv, NothingVanishes, PushEnqueues
<1>6. OnlyStoredIsServed' /\ CleanupScheduled' /\ ClientHoldsSession'
  BY DEF IndInv, OnlyStoredIsServed, CleanupScheduled, ClientHoldsSession,
         PushEnqueues
<1>7. NoLostWakeup'
  BY DEF IndInv, NoLostWakeup, PushEnqueues, Announce
<1> QED BY <1>3, <1>4, <1>5, <1>6, <1>7 DEF IndInv

LEMMA ConnectKeeps ==
    ASSUME IndInv, NEW c \in Conns, Connect(c)
    PROVE  IndInv'
<1>0. TypeOK
  BY DEF IndInv
<1>1. TypeOK'
  <2>1. /\ client' = c /\ active' = active \cup {c} /\ phase' = "registered"
        /\ wake' \subseteq wake \cup {c}
    BY DEF Connect
  <2>2. /\ client' \in Conns \cup {NoConn} /\ active' \subseteq Conns
        /\ wake' \subseteq Conns /\ phase' \in {"absent", "registered"} \cup Finalized
    BY <1>0, <2>1 DEF TypeOK
  <2>3. timer' \in BOOLEAN /\ resend' \in BOOLEAN /\ task' \in BOOLEAN
    BY <1>0 DEF TypeOK, Connect, CancelCleanup, RequestResend, ScheduleOutboundFlush
  <2>4. UNCHANGED <<conn, queue, pending, flushVars, history, frozen>>
    BY DEF Connect
  <2> QED BY <1>0, <2>2, <2>3, <2>4 DEF TypeOK, Writes, Flushers, flushVars, history
<1>2. WriteInProgress'
  BY DEF IndInv, WriteInProgress, NoFlusher, Idle, TypeOK, Connect,
         CancelCleanup, RequestResend, ScheduleOutboundFlush, flushVars,
         history
<1>3. InIdOrder'
  BY DEF IndInv, InIdOrder, QueuedIds, Popped, Idle, TypeOK, Connect,
         CancelCleanup, RequestResend, ScheduleOutboundFlush, flushVars,
         history
<1>4. NothingVanishes'
  BY DEF IndInv, NothingVanishes, QueuedIds, Popped, Idle, TypeOK, Finalized,
         OnlyStoredIsServed, Connect, CancelCleanup, RequestResend,
         ScheduleOutboundFlush, flushVars, history
<1>5. OnlyStoredIsServed' /\ CleanupScheduled'
  BY ConnsAssumption
  DEF IndInv, OnlyStoredIsServed, CleanupScheduled, Connect, CancelCleanup,
      RequestResend, ScheduleOutboundFlush, flushVars, history
<1>6. ClientHoldsSession' /\ NoLostWakeup'
  BY ConnsAssumption
  DEF IndInv, ClientHoldsSession, NoLostWakeup, Serving, Connect,
      CancelCleanup, RequestResend, ScheduleOutboundFlush, flushVars, history
<1> QED BY <1>1, <1>2, <1>3, <1>4, <1>5, <1>6 DEF IndInv

LEMMA EvictKeeps ==
    ASSUME IndInv, NEW c \in Conns, Evict(c)
    PROVE  IndInv'
<1>1. TypeOK'
  BY DEF IndInv, TypeOK, Finalized, Writes, Popped, Idle, Flushers, NoFlusher,
         Evict, StopFlushers, Disconnect
<1>2. WriteInProgress'
  BY DEF IndInv, WriteInProgress, NoFlusher, Idle, TypeOK, Evict,
         StopFlushers, Disconnect
<1>3. InIdOrder'
  BY DEF IndInv, InIdOrder, QueuedIds, Popped, Idle, TypeOK, Evict,
         StopFlushers, Disconnect
<1>4. NothingVanishes'
  BY DEF IndInv, NothingVanishes, QueuedIds, Popped, Idle, TypeOK, Finalized,
         OnlyStoredIsServed, Evict, StopFlushers, Disconnect
<1>5. OnlyStoredIsServed' /\ CleanupScheduled'
  BY DEF IndInv, OnlyStoredIsServed, CleanupScheduled, Evict, StopFlushers,
         Disconnect
<1>6. ClientHoldsSession'
  BY DEF IndInv, ClientHoldsSession, TypeOK, Serving, Evict, StopFlushers,
         Disconnect
<1>7. NoLostWakeup'
  BY DEF IndInv, NoLostWakeup, TypeOK, Serving, ClientHoldsSession, Evict,
         StopFlushers, Disconnect
<1> QED BY <1>1, <1>2, <1>3, <1>4, <1>5, <1>6, <1>7 DEF IndInv

LEMMA TeardownBeginsKeeps ==
    ASSUME IndInv, NEW c \in Conns, TeardownBegins(c)
    PROVE  IndInv'
<1>1. TypeOK'
  BY ZenonT(60) DEF IndInv, TypeOK, Finalized, Writes, Popped, Idle, Flushers, NoFlusher,
         TeardownBegins, StopFlushers, sessionVars
<1>2. WriteInProgress'
  BY DEF IndInv, WriteInProgress, NoFlusher, Idle, TypeOK, TeardownBegins,
         StopFlushers, sessionVars
<1>3. InIdOrder'
  BY DEF IndInv, InIdOrder, QueuedIds, Popped, Idle, TypeOK, TeardownBegins,
         StopFlushers, sessionVars
<1>4. NothingVanishes'
  BY DEF IndInv, NothingVanishes, QueuedIds, Popped, Idle, TypeOK, Finalized,
         OnlyStoredIsServed, TeardownBegins, StopFlushers, sessionVars
<1>5. OnlyStoredIsServed' /\ CleanupScheduled'
  BY DEF IndInv, OnlyStoredIsServed, CleanupScheduled, TeardownBegins,
         StopFlushers, sessionVars
<1>6. ClientHoldsSession'
  BY DEF IndInv, ClientHoldsSession, TypeOK, Serving, TeardownBegins,
         StopFlushers, sessionVars
<1>7. NoLostWakeup'
  BY DEF IndInv, NoLostWakeup, TypeOK, Serving, ClientHoldsSession,
         TeardownBegins, StopFlushers, sessionVars
<1> QED BY <1>1, <1>2, <1>3, <1>4, <1>5, <1>6, <1>7 DEF IndInv

LEMMA TeardownEndsKeeps ==
    ASSUME IndInv, NEW c \in Conns, TeardownEnds(c)
    PROVE  IndInv'
<1>1. TypeOK'
  <2>1. CASE c \in active
    <3>1. conn' \in [Conns -> {"open", "lost", "closing", "closed"}]
      BY DEF IndInv, TypeOK, TeardownEnds
    <3>2. wr' \in Writes /\ waiters' \subseteq Flushers
      <4>1. wr \in Writes /\ Idle \in Writes
        BY DEF IndInv, TypeOK, Writes, Idle, NoFlusher
      <4> QED BY <2>1, <4>1 DEF IndInv, TypeOK, TeardownEnds, StopFlushers
    <3>3. dropped' \in SUBSET Nat
      BY <2>1 DEF IndInv, TypeOK, Writes, Popped, TeardownEnds, StopFlushers
    <3> QED BY <2>1, <3>1, <3>2, <3>3 DEF IndInv, TypeOK, TeardownEnds, Disconnect
  <2>2. CASE c \notin active
    BY <2>2 DEF IndInv, TypeOK, TeardownEnds
  <2> QED BY <2>1, <2>2
<1>2. WriteInProgress'
  BY DEF IndInv, WriteInProgress, NoFlusher, Idle, TypeOK, TeardownEnds,
         StopFlushers, Disconnect
<1>3. InIdOrder'
  BY DEF IndInv, InIdOrder, QueuedIds, Popped, Idle, TypeOK, TeardownEnds,
         StopFlushers, Disconnect
<1>4. NothingVanishes'
  BY DEF IndInv, NothingVanishes, QueuedIds, Popped, Idle, TypeOK, Finalized,
         OnlyStoredIsServed, TeardownEnds, StopFlushers, Disconnect
<1>5. OnlyStoredIsServed' /\ CleanupScheduled'
  BY DEF IndInv, OnlyStoredIsServed, CleanupScheduled, TeardownEnds,
         StopFlushers, Disconnect
<1>6. ClientHoldsSession'
  BY DEF IndInv, ClientHoldsSession, TypeOK, Serving, TeardownEnds,
         StopFlushers, Disconnect
<1>7. NoLostWakeup'
  BY DEF IndInv, NoLostWakeup, TypeOK, Serving, ClientHoldsSession,
         TeardownEnds, StopFlushers, Disconnect
<1> QED BY <1>1, <1>2, <1>3, <1>4, <1>5, <1>6, <1>7 DEF IndInv

LEMMA WriteFailsKeeps ==
    ASSUME IndInv, WriteFails
    PROVE  IndInv'
<1>1. TypeOK'
  BY DEF IndInv, TypeOK, Finalized, Writes, Popped, Idle, Flushers, NoFlusher,
         WriteFails, StopFlushers, Disconnect, connVars
<1>2. WriteInProgress'
  BY DEF IndInv, WriteInProgress, NoFlusher, Idle, TypeOK, WriteFails,
         StopFlushers, Disconnect, connVars
<1>3. InIdOrder'
  BY DEF IndInv, InIdOrder, QueuedIds, Popped, Idle, TypeOK, WriteFails,
         StopFlushers, Disconnect, connVars
<1>4. NothingVanishes'
  BY DEF IndInv, NothingVanishes, QueuedIds, Popped, Idle, TypeOK, Finalized,
         OnlyStoredIsServed, WriteFails, StopFlushers, Disconnect, connVars
<1>5. OnlyStoredIsServed' /\ CleanupScheduled'
  BY DEF IndInv, OnlyStoredIsServed, CleanupScheduled, WriteFails,
         StopFlushers, Disconnect, connVars
<1>6. ClientHoldsSession'
  BY DEF IndInv, ClientHoldsSession, TypeOK, Serving, WriteFails,
         StopFlushers, Disconnect, connVars
<1>7. NoLostWakeup'
  BY DEF IndInv, NoLostWakeup, TypeOK, Serving, ClientHoldsSession,
         WriteFails, StopFlushers, Disconnect, connVars
<1> QED BY <1>1, <1>2, <1>3, <1>4, <1>5, <1>6, <1>7 DEF IndInv

LEMMA ResendAbortsKeeps ==
    ASSUME IndInv, ResendAborts
    PROVE  IndInv'
<1>1. TypeOK'
  BY DEF IndInv, TypeOK, Finalized, Writes, Popped, Idle, Flushers, NoFlusher,
         ResendAborts, AfterFlushStep, Busy, history
<1>2. WriteInProgress'
  BY DEF IndInv, WriteInProgress, NoFlusher, Idle, TypeOK, ResendAborts,
         AfterFlushStep, Busy, history
<1>3. InIdOrder'
  BY DEF IndInv, InIdOrder, QueuedIds, Popped, Idle, TypeOK, ResendAborts,
         AfterFlushStep, Busy, history
<1>4. NothingVanishes'
  BY DEF IndInv, NothingVanishes, QueuedIds, Popped, Idle, TypeOK, Finalized,
         OnlyStoredIsServed, ResendAborts, AfterFlushStep, Busy, history
<1>5. OnlyStoredIsServed' /\ CleanupScheduled'
  BY DEF IndInv, OnlyStoredIsServed, CleanupScheduled, ResendAborts,
         AfterFlushStep, Busy, history
<1>6. ClientHoldsSession'
  BY DEF IndInv, ClientHoldsSession, TypeOK, Serving, ResendAborts,
         AfterFlushStep, Busy, history
<1>7. NoLostWakeup'
  BY DEF IndInv, NoLostWakeup, TypeOK, Serving, ClientHoldsSession,
         ResendAborts, AfterFlushStep, Busy, history
<1> QED BY <1>1, <1>2, <1>3, <1>4, <1>5, <1>6, <1>7 DEF IndInv

LEMMA FinalizeKeeps ==
    ASSUME IndInv, NEW how \in Finalized, Finalize(how)
    PROVE  IndInv'
<1>1. /\ queue' = <<>> /\ pending' = {} /\ client' = NoConn /\ ~timer'
      /\ nextId' = nextId /\ phase' = how
  BY DEF Finalize
<1>2. wr' = Idle \/ wr' = wr \/ wr' = [wr EXCEPT !.mutated = TRUE]
  BY DEF Finalize, IndInv, TypeOK, Writes
<1>3. wr' \in Writes /\ Popped' \subseteq Popped /\ Popped \subseteq Nat
  <2>1. wr \in Writes /\ Popped \subseteq Nat
    BY DEF IndInv, TypeOK, Writes, Popped
  <2>2. Idle \in Writes /\ Idle.stage # "queue"
    BY DEF Idle, Writes, NoFlusher
  <2>3. [wr EXCEPT !.mutated = TRUE] \in Writes
    BY <2>1 DEF Writes
  <2>4. Popped' \subseteq Popped
    BY <1>2, <2>1, <2>2 DEF Popped, Writes
  <2> QED BY <1>2, <2>1, <2>2, <2>3, <2>4
<1>4. TypeOK'
  <2>1. waiters' \subseteq Flushers /\ dropped' \in SUBSET Nat
    BY <1>3 DEF IndInv, TypeOK, Finalize
  <2>2. queue' \in Seq(Nat)
    BY <1>1
  <2> QED BY <1>1, <1>3, <2>1, <2>2 DEF IndInv, TypeOK, Finalize, connVars
<1>5. WriteInProgress'
  BY DEF IndInv, WriteInProgress, TypeOK, Writes, Idle, NoFlusher, Finalize
<1>6. InIdOrder'
  <2>1. QueuedIds' = {} /\ Sorted(queue')
    BY <1>1 DEF QueuedIds, Ids, Sorted
  <2> QED BY <1>1, <1>3, <2>1 DEF IndInv, InIdOrder
<1>7. NothingVanishes' /\ OnlyStoredIsServed' /\ CleanupScheduled'
  BY <1>1 DEF NothingVanishes, OnlyStoredIsServed, CleanupScheduled, Finalized
<1>8. ClientHoldsSession' /\ NoLostWakeup'
  BY <1>1 DEF ClientHoldsSession, NoLostWakeup
<1> QED BY <1>4, <1>5, <1>6, <1>7, <1>8 DEF IndInv

LEMMA CleanupKeeps ==
    ASSUME IndInv, CleanupFires \/ DestroySession
    PROVE  IndInv'
<1>1. timer /\ ~DestroySession => client = NoConn
  BY DEF IndInv, CleanupScheduled, OnlyStoredIsServed
<1>2. Finalize("expired") \/ Finalize("destroyed")
  BY <1>1 DEF CleanupFires, DestroySession
<1> QED BY <1>2, FinalizeKeeps DEF Finalized

LEMMA AckKeeps ==
    ASSUME IndInv, NEW c \in Conns, NEW m \in got, Ack(c, m)
    PROVE  IndInv'
<1>0. TypeOK
  BY DEF IndInv
<1>1. TypeOK'
  <2>1. acked' \in SUBSET Nat /\ pending' \in SUBSET Nat
    BY <1>0 DEF TypeOK, Ack, AckOutbound
  <2>2. wr' \in Writes
    BY <1>0 DEF TypeOK, Writes, Ack
  <2>3. UNCHANGED <<connVars, client, phase, timer, queue, resend, task, push, waiters, nextId,
                    got, dropped, frozen>>
    BY DEF Ack
  <2> QED BY <1>0, <2>1, <2>2, <2>3 DEF TypeOK, connVars
<1>2. WriteInProgress'
  BY DEF IndInv, WriteInProgress, NoFlusher, Idle, TypeOK, Writes, Ack,
         AckOutbound, connVars
<1>3. InIdOrder'
  BY DEF IndInv, InIdOrder, QueuedIds, Popped, Idle, TypeOK, Ack, AckOutbound,
         connVars
<1>4. NothingVanishes'
  BY DEF IndInv, NothingVanishes, QueuedIds, Popped, Idle, TypeOK, Finalized,
         OnlyStoredIsServed, Ack, AckOutbound, connVars
<1>5. OnlyStoredIsServed' /\ CleanupScheduled' /\ ClientHoldsSession' /\ NoLostWakeup'
  BY DEF IndInv, OnlyStoredIsServed, CleanupScheduled, ClientHoldsSession,
         NoLostWakeup, Ack, AckOutbound, connVars
<1> QED BY <1>1, <1>2, <1>3, <1>4, <1>5 DEF IndInv

LEMMA TransmitKeeps ==
    ASSUME IndInv, Transmit
    PROVE  IndInv'
<1>0. TypeOK
  BY DEF IndInv
<1>1. TypeOK'
  <2>1. wr' = [wr EXCEPT !.wired = TRUE] /\ got' \in {got, got \cup {wr.msg}}
    BY DEF Transmit
  <2>2. wr' \in Writes /\ got' \in SUBSET Nat
    BY <1>0, <2>1 DEF TypeOK, Writes
  <2>3. UNCHANGED <<connVars, sessionVars, waiters, push, nextId, acked, dropped, frozen>>
    BY DEF Transmit
  <2> QED BY <1>0, <2>2, <2>3 DEF TypeOK, connVars, sessionVars
<1>2. WriteInProgress'
  BY DEF IndInv, WriteInProgress, NoFlusher, Idle, TypeOK, Transmit, connVars,
         sessionVars
<1>3. InIdOrder'
  BY DEF IndInv, InIdOrder, QueuedIds, Popped, Idle, TypeOK, Transmit,
         connVars, sessionVars
<1>4. NothingVanishes'
  BY DEF IndInv, NothingVanishes, QueuedIds, Popped, Idle, TypeOK, Finalized,
         OnlyStoredIsServed, Transmit, connVars, sessionVars
<1>5. OnlyStoredIsServed' /\ CleanupScheduled' /\ ClientHoldsSession' /\ NoLostWakeup'
  BY DEF IndInv, OnlyStoredIsServed, CleanupScheduled, ClientHoldsSession,
         NoLostWakeup, Transmit, connVars, sessionVars
<1> QED BY <1>1, <1>2, <1>3, <1>4, <1>5 DEF IndInv

\* The steps that touch neither the session nor a write.
LEMMA QuietStepKeeps ==
    ASSUME IndInv, UNCHANGED <<active, sessionVars, waiters, wr, history>>,
           \/ PushChecks \/ PushReturns
           \/ \E c \in Conns : \/ LoopSpins(c) \/ LoopSleeps(c)
                               \/ OtherSessionWakes(c) \/ PeerLost(c)
    PROVE  IndInv'
<1>1. TypeOK'
  <2>1. conn' \in [Conns -> {"open", "lost", "closing", "closed"}]
    BY DEF IndInv, TypeOK, PushChecks, PushReturns, LoopSpins, LoopSleeps,
           OtherSessionWakes, PeerLost, connVars
  <2>2. wake' \subseteq Conns /\ frozen' \in BOOLEAN
    BY DEF IndInv, TypeOK, PushChecks, PushReturns, LoopSpins, LoopSleeps,
           OtherSessionWakes, PeerLost, connVars
  <2>3. push' \in {"idle", "checked", "flush", "skipped"}
    BY DEF IndInv, TypeOK, PushChecks, PushReturns, LoopSpins, LoopSleeps,
           OtherSessionWakes, PeerLost, flushVars
  <2> QED BY <2>1, <2>2, <2>3 DEF IndInv, TypeOK, sessionVars, history
<1>2. WriteInProgress' /\ InIdOrder' /\ NothingVanishes'
  BY DEF IndInv, WriteInProgress, InIdOrder, NothingVanishes, QueuedIds,
         Popped, sessionVars, history
<1>3. OnlyStoredIsServed' /\ CleanupScheduled'
  BY DEF IndInv, OnlyStoredIsServed, CleanupScheduled, sessionVars
<1>4. ClientHoldsSession'
  BY DEF IndInv, ClientHoldsSession, TypeOK, PushChecks, PushReturns, LoopSpins,
         LoopSleeps, OtherSessionWakes, PeerLost, connVars, sessionVars
<1>5. NoLostWakeup'
  BY DEF IndInv, NoLostWakeup, ClientHoldsSession, TypeOK, Serving, PushChecks,
         PushReturns, LoopSpins, LoopSleeps, HasPendingOutbound,
         OtherSessionWakes, PeerLost, connVars, sessionVars
<1> QED BY <1>1, <1>2, <1>3, <1>4, <1>5 DEF IndInv

-----------------------------------------------------------------------------
LEMMA InitInv == Init => IndInv
<1> SUFFICES ASSUME Init PROVE IndInv
  OBVIOUS
<1>1. TypeOK
  <2>1. wr \in Writes
    BY DEF Init, Writes, Idle, NoFlusher
  <2>2. nextId \in 1 .. (MaxMsgs + 1)
    BY BoundsAssumption DEF Init
  <2>3. queue \in Seq(Nat)
    BY DEF Init
  <2>4. conn \in [Conns -> {"open", "lost", "closing", "closed"}]
    BY DEF Init
  <2> QED BY <2>1, <2>2, <2>3, <2>4 DEF Init, TypeOK
<1>2. QueuedIds = {} /\ Sorted(queue) /\ Popped = {}
  BY DEF Init, QueuedIds, Ids, Sorted, Popped, Idle
<1>3. WriteInProgress /\ InIdOrder /\ NothingVanishes
  BY <1>2 DEF Init, WriteInProgress, InIdOrder, NothingVanishes, Idle,
              NoFlusher
<1>4. OnlyStoredIsServed /\ CleanupScheduled
  BY DEF Init, OnlyStoredIsServed, CleanupScheduled
<1>5. ClientHoldsSession /\ NoLostWakeup
  BY DEF Init, ClientHoldsSession, NoLostWakeup
<1> QED BY <1>1, <1>3, <1>4, <1>5 DEF IndInv

LEMMA StepInv == IndInv /\ [Next]_vars => IndInv'
<1> SUFFICES ASSUME IndInv, [Next]_vars PROVE IndInv'
  OBVIOUS
<1>1. ASSUME NEW c \in Conns, ConnStep(c) PROVE IndInv'
  <2>1. CASE Connect(c)
    BY <2>1, ConnectKeeps
  <2>2. CASE Evict(c)
    BY <2>2, EvictKeeps
  <2>3. CASE TeardownBegins(c)
    BY <2>3, TeardownBeginsKeeps
  <2>4. CASE TeardownEnds(c)
    BY <2>4, TeardownEndsKeeps
  <2>5. CASE Reply(c)
    BY <2>5, ReplyKeeps
  <2>6. CASE \E m \in got : Ack(c, m)
    BY <2>6, AckKeeps
  <2>7. CASE LoopFlushes(c)
    BY <2>7, LoopFlushesKeeps
  <2>8. CASE LoopSpins(c) \/ LoopSleeps(c) \/ OtherSessionWakes(c) \/ PeerLost(c)
    <3>1. UNCHANGED <<active, sessionVars, waiters, wr, history>>
      BY <2>8 DEF LoopSpins, LoopSleeps, OtherSessionWakes, PeerLost,
                  connVars, flushVars
    <3> QED BY <2>8, <3>1, QuietStepKeeps
  <2> QED BY <1>1, <2>1, <2>2, <2>3, <2>4, <2>5, <2>6, <2>7, <2>8 DEF ConnStep
<1>2. ASSUME NEW f \in Flushers, Acquire(f) PROVE IndInv'
  BY <1>2, AcquireKeeps
<1>3. CASE TaskStarts \/ Transmit \/ WriteSucceeds \/ ResendAborts \/ WriteFails
  BY <1>3, TaskStartsKeeps, TransmitKeeps, WriteSucceedsKeeps,
     ResendAbortsKeeps, WriteFailsKeeps
<1>4. CASE CleanupFires \/ DestroySession
  BY <1>4, CleanupKeeps
<1>5. CASE PushChecks \/ PushReturns
  <2>1. UNCHANGED <<active, sessionVars, waiters, wr, history>>
    BY <1>5 DEF PushChecks, PushReturns, connVars
  <2> QED BY <1>5, <2>1, QuietStepKeeps
<1>6. CASE PushEnqueues
  BY <1>6, PushEnqueuesKeeps
<1>7. CASE UNCHANGED vars
  BY <1>7 DEF vars, IndInv, TypeOK, WriteInProgress, OnlyStoredIsServed,
     InIdOrder, NothingVanishes, CleanupScheduled, ClientHoldsSession,
     NoLostWakeup, QueuedIds, Popped
<1> QED BY <1>1, <1>2, <1>3, <1>4, <1>5, <1>6, <1>7 DEF Next

\* IndInv holds in every reachable state.
THEOREM Invariance == Spec => []IndInv
BY InitInv, StepInv, PTL DEF Spec

\* The variables of a Session and of its connections keep their types.
THEOREM TypeCorrect == Spec => []TypeOK
<1>1. IndInv => TypeOK
  BY DEF IndInv
<1> QED BY <1>1, Invariance, PTL

\* Messages are sent, kept and resent in the order of their ids, whatever
\* flushers, failures and reconnects interleave.
THEOREM IdOrder == Spec => []InIdOrder
<1>1. IndInv => InIdOrder
  BY DEF IndInv
<1> QED BY <1>1, Invariance, PTL

\* Only the message of an interrupted write can get lost.
THEOREM Conservation == Spec => []NothingVanishes
<1>1. IndInv => NothingVanishes
  BY DEF IndInv
<1> QED BY <1>1, Invariance, PTL

\* A stored session without connection always has its clean-up pending, and a
\* connected one never.
THEOREM NoSessionLeak == Spec => []CleanupScheduled
<1>1. IndInv => CleanupScheduled
  BY DEF IndInv
<1> QED BY <1>1, Invariance, PTL

\* The send loop of the attached connection is always going to look at a
\* queue that is not empty.
THEOREM WakeupKept == Spec => [](ClientHoldsSession /\ NoLostWakeup)
<1>1. IndInv => ClientHoldsSession /\ NoLostWakeup
  BY DEF IndInv
<1> QED BY <1>1, Invariance, PTL

\* A message enters pending_outbound only at the end of its own first write,
\* so an acknowledgement that finds it there removes it for good.
THEOREM AckForgets == Spec => AckedIsForgotten
<1>1. Next => pending' \subseteq pending \cup Popped
  <2> SUFFICES ASSUME Next PROVE pending' \subseteq pending \cup Popped
    OBVIOUS
  <2>1. ASSUME NEW c \in Conns, ConnStep(c)
        PROVE  pending' \subseteq pending \cup Popped
    <3>1. CASE \E m \in got : Ack(c, m)
      BY <3>1 DEF Ack, AckOutbound
    <3> QED BY <2>1, <3>1
            DEF ConnStep, Connect, Evict, TeardownBegins, TeardownEnds, Reply,
                LoopSpins, LoopFlushes, LoopSleeps, OtherSessionWakes, PeerLost,
                sessionVars
  <2>2. ASSUME NEW f \in Flushers, Acquire(f)
        PROVE  pending' \subseteq pending \cup Popped
    BY <2>2 DEF Acquire
  <2>3. CASE WriteSucceeds
    BY <2>3 DEF WriteSucceeds, TrackPendingOutbound, Popped
  <2>4. CASE TaskStarts \/ Transmit \/ ResendAborts \/ WriteFails
    BY <2>4 DEF TaskStarts, Transmit, ResendAborts, WriteFails, sessionVars
  <2>5. CASE CleanupFires \/ DestroySession
    BY <2>5 DEF CleanupFires, DestroySession, Finalize
  <2>6. CASE PushChecks \/ PushReturns \/ PushEnqueues
    BY <2>6 DEF PushChecks, PushReturns, PushEnqueues, sessionVars
  <2> QED BY <2>1, <2>2, <2>3, <2>4, <2>5, <2>6 DEF Next
<1>2. [Next]_vars => [\A m \in acked : m \in pending' => m \in pending \/ m \in Popped]_vars
  BY <1>1
<1> QED BY <1>2, PTL DEF Spec, AckedIsForgotten

-----------------------------------------------------------------------------
(* SessionOutbound implements Outbox: every step of a flusher, a connection *)
(* or the session is a step of the outbox, or changes nothing of it.        *)

Waiting == QueuedIds \cup Popped

\* What is needed besides IndInv: every message was enqueued, and what the
\* resend loop writes is still kept, or was acknowledged meanwhile.
Traced ==
    /\ Waiting \cup pending \cup got \subseteq 1 .. (nextId - 1)
    /\ wr.stage = "resend" =>
          /\ wr.msg \in 1 .. (nextId - 1)
          /\ wr.msg \in pending \cup acked \/ phase \in Finalized

\* What is to be shown of every step.
Maps == Traced' /\ [Outbox!Next]_(Outbox!vars)

\* The resend loop goes on with what it was writing, or takes a kept message.
Resends ==
    wr'.stage = "resend" =>
        wr'.msg \in pending \/ (wr.stage = "resend" /\ wr'.msg = wr.msg)

LEMMA NextIdType ==
    ASSUME IndInv PROVE nextId \in Nat /\ nextId >= 1
BY BoundsAssumption DEF IndInv, TypeOK

\* The first message that waits is the one that was popped.
LEMMA PoppedIsFirst ==
    ASSUME IndInv, wr.stage = "queue"
    PROVE  /\ Popped = {wr.msg} /\ wr.msg \in Waiting /\ wr.msg \notin QueuedIds
           /\ \A k \in Waiting : wr.msg <= k
<1>1. Popped = {wr.msg} /\ wr.msg \in Nat
  BY DEF Popped, IndInv, TypeOK, Writes
<1>2. QueuedIds \subseteq Nat
  BY AppendFacts DEF QueuedIds, IndInv, TypeOK
<1>3. \A k \in QueuedIds : wr.msg < k
  BY <1>1 DEF IndInv, InIdOrder
<1>4. wr.msg \notin QueuedIds
  BY <1>1, <1>3
<1>5. ASSUME NEW k \in Waiting PROVE wr.msg <= k
  <2>1. CASE k \in QueuedIds
    BY <1>1, <1>2, <1>3, <2>1
  <2>2. CASE k = wr.msg
    BY <1>1, <2>2
  <2> QED BY <1>1, <2>1, <2>2 DEF Waiting
<1> QED BY <1>1, <1>4, <1>5 DEF Waiting

LEMMA QuietStepMaps ==
    ASSUME IndInv, Traced, Waiting' = Waiting, Resends,
           UNCHANGED <<pending, nextId, got, acked, dropped>>,
           (phase' \in Finalized) = (phase \in Finalized)
    PROVE  Maps
<1>1. UNCHANGED Outbox!vars
  BY DEF Outbox!vars, Waiting
<1>2. Traced'
  BY DEF Traced, Resends
<1> QED BY <1>1, <1>2 DEF Maps

LEMMA EnqueueStepMaps ==
    ASSUME IndInv, Traced, Waiting' = Waiting \cup {nextId}, nextId' = nextId + 1,
           Resends, UNCHANGED <<pending, got, acked, dropped, phase>>
    PROVE  Maps
<1>1. nextId \in Nat /\ nextId >= 1
  BY NextIdType
<1>2. Outbox!Enqueue
  BY <1>1 DEF Outbox!Enqueue, Waiting
<1>3. Traced'
  BY <1>1 DEF Traced, Resends
<1> QED BY <1>2, <1>3 DEF Maps, Outbox!Next

\* A flusher is stopped, with or without a message it had popped.
LEMMA StopMaps ==
    ASSUME IndInv, Traced, UNCHANGED <<queue, pending, nextId, got, acked, phase>>,
           NEW F, StopFlushers(F)
    PROVE  Maps
<1>1. CASE wr.by \notin F
  BY <1>1, QuietStepMaps DEF StopFlushers, Waiting, QueuedIds, Popped, Resends
<1>2. CASE wr.by \in F /\ wr.stage # "queue"
  <2>1. wr' = Idle /\ dropped' = dropped /\ Popped = {} /\ Popped' = {}
    BY <1>2 DEF StopFlushers, Popped, Idle
  <2> QED BY <2>1, QuietStepMaps DEF Waiting, QueuedIds, Resends, Idle
<1>3. CASE wr.by \in F /\ wr.stage = "queue"
  <2>1. wr' = Idle /\ dropped' = dropped \cup {wr.msg} /\ Popped' = {}
    BY <1>3, PoppedIsFirst DEF StopFlushers, Popped, Idle
  <2>2. Waiting' = Waiting \ {wr.msg}
    BY <1>3, <2>1, PoppedIsFirst DEF Waiting, QueuedIds
  <2>3. wr.msg \in 1 .. (nextId - 1)
    BY <1>3, PoppedIsFirst DEF Traced
  <2>4. Outbox!Lose(wr.msg)
    BY <1>3, <2>1, <2>2, PoppedIsFirst DEF Outbox!Lose, Outbox!First, Waiting
  <2>5. Traced'
    BY <2>1, <2>2 DEF Traced, Idle
  <2> QED BY <2>3, <2>4, <2>5 DEF Maps, Outbox!Next
<1> QED BY <1>1, <1>2, <1>3

-----------------------------------------------------------------------------
(* The flushers *)

LEMMA EnterFlushResends ==
    ASSUME IndInv, NEW f \in Flushers, NEW q, EnterFlush(f, q)
    PROVE  wr'.stage = "resend" => wr'.msg \in pending
<1>1. pending \in SUBSET Nat
  BY DEF IndInv, TypeOK
<1>2. CASE client # NoConn /\ resend /\ pending # {}
  <2>1. wr' = Resending(f, client, Least(pending))
    BY <1>2 DEF EnterFlush
  <2>2. Least(pending) \in pending
    BY <1>1, <1>2, LeastFacts
  <2> QED BY <2>1, <2>2 DEF Resending
<1>3. CASE ~(client # NoConn /\ resend /\ pending # {})
  BY <1>3 DEF EnterFlush, ServeQueue, Writing, Idle
<1> QED BY <1>2, <1>3

LEMMA CallFlushResends ==
    ASSUME IndInv, NEW f \in Flushers, NEW q, CallFlush(f, q)
    PROVE  Resends
BY EnterFlushResends DEF CallFlush, Resends

LEMMA AcquireMaps ==
    ASSUME IndInv, Traced, NEW f \in Flushers, Acquire(f)
    PROVE  Maps
<1>1. wr = Idle /\ EnterFlush(f, queue) /\ pending' = pending /\ nextId' = nextId
  BY DEF Acquire, history
<1>2. /\ queue \in Seq(Nat) /\ Sorted(queue) /\ TypeOK /\ nextId' \in Nat
      /\ \A m \in Ids(queue) : m < nextId'
      /\ \A p \in pending : p < nextId' /\ \A k \in Ids(queue) : p < k
  BY <1>1 DEF IndInv, TypeOK, InIdOrder, QueuedIds
<1>3. Waiting' = Waiting
  <2>1. QueuedIds = QueuedIds' \cup Popped'
    BY <1>1, <1>2, EnterFlushKeeps DEF QueuedIds
  <2> QED BY <1>1, <2>1 DEF Waiting, Popped, Idle
<1>4. Resends
  BY <1>1, EnterFlushResends DEF Resends
<1> QED BY <1>3, <1>4, QuietStepMaps DEF Acquire, history

LEMMA FlushMaps ==
    ASSUME IndInv, Traced, TaskStarts \/ \E c \in Conns : LoopFlushes(c)
    PROVE  Maps
<1>1. /\ \E f \in Flushers : CallFlush(f, queue)
      /\ UNCHANGED <<pending, nextId, got, acked, dropped, phase>>
  BY DEF TaskStarts, LoopFlushes, Flushers, history
<1>2. Waiting' = Waiting
  BY <1>1, CallFlushKeeps DEF Waiting
<1>3. Resends
  BY <1>1, CallFlushResends
<1> QED BY <1>1, <1>2, <1>3, QuietStepMaps

LEMMA WriteSucceedsMaps ==
    ASSUME IndInv, Traced, WriteSucceeds
    PROVE  Maps
<1>1. /\ nextId' = nextId /\ nextId \in Nat /\ wr.msg \in Nat
      /\ queue \in Seq(Nat) /\ pending \in SUBSET Nat
      /\ UNCHANGED <<got, acked, dropped, phase>>
  BY DEF IndInv, TypeOK, WriteSucceeds, history, Writes
<1>2. wr.stage # "none" => wr.by \in Flushers /\ wr.via \in Conns
  BY DEF IndInv, TypeOK, WriteInProgress, Writes, Flushers, NoFlusher
<1>3. CASE wr.stage = "resend" /\ ~wr.last
  <2> DEFINE S == {k \in pending : k > wr.msg}
  <2>1. /\ wr' = Resending(wr.by, wr.via, Least(S)) /\ queue' = queue
        /\ pending' = pending /\ ~wr.mutated
    BY <1>3 DEF WriteSucceeds, TrackPendingOutbound
  <2>2. S # {} /\ S \in SUBSET Nat
    BY <1>1, <1>3, <2>1 DEF IndInv, WriteInProgress
  <2>3. Least(S) \in pending
    BY <2>2, LeastFacts
  <2>4. Resends /\ Waiting' = Waiting
    BY <1>3, <2>1, <2>3 DEF Resends, Resending, Waiting, QueuedIds, Popped
  <2> QED BY <1>1, <2>1, <2>4, QuietStepMaps
<1>4. CASE wr.stage = "resend" /\ wr.last
  <2>1. ServeQueue(wr.by, wr.via, queue) /\ pending' = pending /\ Popped = {}
    BY <1>4 DEF WriteSucceeds, TrackPendingOutbound, Popped
  <2>2. /\ Sorted(queue) /\ \A m \in Ids(queue) : m < nextId'
        /\ \A p \in pending' : p < nextId' /\ \A k \in Ids(queue) : p < k
    BY <1>1, <2>1 DEF IndInv, InIdOrder, QueuedIds
  <2>3. QueuedIds = QueuedIds' \cup Popped'
    BY <1>1, <1>2, <1>4, <2>1, <2>2, ServeQueueKeeps DEF QueuedIds
  <2>4. Resends
    BY <2>1 DEF Resends, ServeQueue, Writing, Idle
  <2> QED BY <1>1, <2>1, <2>3, <2>4, QuietStepMaps DEF Waiting
<1>5. CASE wr.stage = "queue"
  <2>1. ServeQueue(wr.by, wr.via, queue) /\ pending' = pending \cup {wr.msg}
    BY <1>5 DEF WriteSucceeds, TrackPendingOutbound
  <2>2. /\ Sorted(queue) /\ \A m \in Ids(queue) : m < nextId'
        /\ \A p \in pending' : p < nextId' /\ \A k \in Ids(queue) : p < k
    BY <1>1, <1>5, <2>1, PoppedIsFirst DEF IndInv, InIdOrder, QueuedIds
  <2>3. QueuedIds = QueuedIds' \cup Popped'
    BY <1>1, <1>2, <1>5, <2>1, <2>2, ServeQueueKeeps DEF QueuedIds
  <2>4. Waiting' = Waiting \ {wr.msg}
    BY <1>5, <2>3, PoppedIsFirst DEF Waiting
  <2>5. Outbox!Keep(wr.msg) /\ wr.msg \in 1 .. (nextId - 1)
    BY <1>1, <1>5, <2>1, <2>4, PoppedIsFirst DEF Outbox!Keep, Outbox!First, Waiting, Traced
  <2>6. Traced'
    BY <1>1, <2>1, <2>4, <2>5 DEF Traced, ServeQueue, Writing, Idle
  <2> QED BY <2>5, <2>6 DEF Maps, Outbox!Next
<1> QED BY <1>3, <1>4, <1>5 DEF WriteSucceeds

LEMMA TransmitMaps ==
    ASSUME IndInv, Traced, Transmit
    PROVE  Maps
<1>1. /\ wr \in Writes /\ wr.stage \in {"resend", "queue"}
      /\ wr' = [wr EXCEPT !.wired = TRUE]
      /\ UNCHANGED <<queue, pending, nextId, acked, dropped, phase>>
  BY DEF Transmit, sessionVars, IndInv, TypeOK, WriteInProgress, Writes, NoFlusher, Idle
<1>2. wr'.stage = wr.stage /\ wr'.msg = wr.msg
  BY <1>1 DEF Writes
<1>3. Waiting' = Waiting /\ Resends
  BY <1>1, <1>2 DEF Waiting, QueuedIds, Popped, Resends
<1>4. CASE got' = got
  BY <1>1, <1>3, <1>4, QuietStepMaps
<1>5. CASE got' = got \cup {wr.msg}
  <2>1. wr.msg \in 1 .. (nextId - 1)
    BY <1>1, PoppedIsFirst DEF Traced
  <2>2. Outbox!First(wr.msg) \/ wr.msg \in pending \cup acked \/ phase \in Finalized
    BY <1>1, PoppedIsFirst DEF Traced, Outbox!First, Waiting
  <2>3. Outbox!Arrive(wr.msg)
    BY <1>1, <1>3, <1>5, <2>2 DEF Outbox!Arrive, Waiting
  <2>4. Traced'
    BY <1>1, <1>2, <1>3, <1>5, <2>1 DEF Traced
  <2> QED BY <2>1, <2>3, <2>4 DEF Maps, Outbox!Next
<1> QED BY <1>4, <1>5 DEF Transmit

LEMMA PushEnqueuesMaps ==
    ASSUME IndInv, Traced, PushEnqueues
    PROVE  Maps
<1>1. /\ Waiting' = Waiting \cup {nextId} /\ nextId' = nextId + 1
      /\ UNCHANGED <<pending, got, acked, dropped, phase>>
  BY PushEnqueuesAdds DEF PushEnqueues, Waiting
<1>2. Resends
  <2>1. CASE wr' = wr
    BY <2>1 DEF Resends
  <2>2. CASE wr' # wr
    <3>1. EnterFlush(Push, Append(queue, nextId)) /\ Push \in Flushers
      BY <2>2 DEF PushEnqueues, CallFlush, Flushers
    <3> QED BY <3>1, EnterFlushResends DEF Resends
  <2> QED BY <2>1, <2>2
<1> QED BY <1>1, <1>2, EnqueueStepMaps

LEMMA ReplyMaps ==
    ASSUME IndInv, Traced, NEW c \in Conns, Reply(c)
    PROVE  Maps
<1>1. /\ queue' = Append(queue, nextId) /\ nextId' = nextId + 1 /\ wr' = wr
      /\ UNCHANGED <<pending, got, acked, dropped, phase>>
  BY DEF Reply, Announce, flushVars
<1>2. QueuedIds' = QueuedIds \cup {nextId}
  <2>1. queue \in Seq(Nat) /\ nextId \in Nat
    BY DEF IndInv, TypeOK
  <2> QED BY <1>1, <2>1, AppendFacts DEF QueuedIds
<1>3. Waiting' = Waiting \cup {nextId} /\ Resends
  BY <1>1, <1>2 DEF Waiting, Popped, Resends
<1> QED BY <1>1, <1>3, EnqueueStepMaps

-----------------------------------------------------------------------------
(* The session *)

LEMMA AckMaps ==
    ASSUME IndInv, Traced, NEW c \in Conns, NEW m \in got, Ack(c, m)
    PROVE  Maps
<1>1. /\ acked' = acked \cup {m} /\ pending' = pending \ {m}
      /\ UNCHANGED <<queue, nextId, got, dropped, phase>>
  BY DEF Ack, AckOutbound
<1>2. wr'.stage = wr.stage /\ wr'.msg = wr.msg
  BY DEF Ack, IndInv, TypeOK, Writes
<1>3. Waiting' = Waiting
  BY <1>1, <1>2 DEF Waiting, QueuedIds, Popped
<1>4. Outbox!Acknowledge(m) /\ m \in 1 .. (nextId - 1)
  BY <1>1, <1>3 DEF Outbox!Acknowledge, Waiting, Traced
<1>5. Traced'
  BY <1>1, <1>2, <1>3 DEF Traced
<1> QED BY <1>4, <1>5 DEF Maps, Outbox!Next

\* Only a write in progress outlives the session.
LEMMA FinalizeMaps ==
    ASSUME IndInv, Traced, NEW how \in Finalized, phase \notin Finalized, Finalize(how)
    PROVE  Maps
<1>1. /\ QueuedIds' = {} /\ pending' = {} /\ phase' \in Finalized
      /\ UNCHANGED <<nextId, got, acked>>
  BY DEF Finalize, QueuedIds, Ids
<1>2. \/ wr' = Idle /\ dropped' = dropped \cup Popped
      \/ wr'.stage = wr.stage /\ wr'.msg = wr.msg /\ dropped' = dropped
  BY DEF Finalize, IndInv, TypeOK, Writes
<1>3. \/ Popped = {}
      \/ Popped = {wr.msg} /\ wr.msg \in Waiting /\ \A k \in Waiting : wr.msg <= k
  BY PoppedIsFirst DEF Popped
<1>4. Waiting' = {} \/ Waiting' = Popped
  BY <1>1, <1>2 DEF Waiting, Popped, Idle
<1>5. dropped' = dropped \/ dropped' = dropped \cup Popped
  BY <1>2
<1>6. Outbox!End
  <2>1. Waiting' = {} \/ \E m \in Waiting : (\A k \in Waiting : m <= k) /\ Waiting' = {m}
    BY <1>3, <1>4
  <2>2. \/ dropped' = dropped
        \/ \E m \in Waiting : (\A k \in Waiting : m <= k) /\ dropped' = dropped \cup {m}
    BY <1>3, <1>5
  <2> QED BY <1>1, <2>1, <2>2 DEF Outbox!End, Outbox!First, Waiting
<1>7. Traced'
  <2>1. Waiting' \subseteq Waiting
    BY <1>4 DEF Waiting
  <2>2. wr'.stage = "resend" => wr.stage = "resend" /\ wr'.msg = wr.msg
    BY <1>2 DEF Idle
  <2> QED BY <1>1, <2>1, <2>2 DEF Traced
<1> QED BY <1>6, <1>7 DEF Maps, Outbox!Next

LEMMA CleanupMaps ==
    ASSUME IndInv, Traced, CleanupFires \/ DestroySession
    PROVE  Maps
<1>1. phase \notin Finalized
  BY DEF CleanupFires, DestroySession, IndInv, OnlyStoredIsServed, Finalized
<1>2. timer /\ ~DestroySession => client = NoConn
  BY DEF IndInv, CleanupScheduled, OnlyStoredIsServed
<1>3. Finalize("expired") \/ Finalize("destroyed")
  BY <1>2 DEF CleanupFires, DestroySession
<1> QED BY <1>1, <1>3, FinalizeMaps DEF Finalized

LEMMA DisconnectMaps ==
    ASSUME IndInv, Traced, NEW c \in Conns,
           \/ Evict(c) \/ TeardownBegins(c) \/ TeardownEnds(c) \/ WriteFails
    PROVE  Maps
<1>1. CASE c \notin active /\ TeardownEnds(c)
  BY <1>1, QuietStepMaps DEF TeardownEnds, Waiting, QueuedIds, Popped, Resends
<1>2. CASE ~(c \notin active /\ TeardownEnds(c))
  <2>1. /\ \E F : StopFlushers(F)
        /\ UNCHANGED <<queue, pending, nextId, got, acked, phase>>
    BY <1>2 DEF Evict, TeardownBegins, TeardownEnds, WriteFails, sessionVars
  <2> QED BY <2>1, StopMaps
<1> QED BY <1>1, <1>2

\* The steps that concern neither a message nor the session's end.
LEMMA OtherMaps ==
    ASSUME IndInv, Traced,
           \/ PushChecks \/ PushReturns \/ ResendAborts
           \/ \E c \in Conns : \/ Connect(c) \/ LoopSpins(c) \/ LoopSleeps(c)
                               \/ OtherSessionWakes(c) \/ PeerLost(c)
    PROVE  Maps
<1>1. /\ UNCHANGED <<queue, pending, nextId, got, acked, dropped>>
      /\ (phase' \in Finalized) = (phase \in Finalized)
  BY DEF PushChecks, PushReturns, ResendAborts, Connect, LoopSpins, LoopSleeps,
         OtherSessionWakes, PeerLost, sessionVars, history, Finalized
<1>2. wr' = wr \/ (wr' = Idle /\ wr.stage = "resend")
  BY DEF PushChecks, PushReturns, ResendAborts, Connect, LoopSpins, LoopSleeps,
         OtherSessionWakes, PeerLost, flushVars
<1>3. Waiting' = Waiting /\ Resends
  BY <1>1, <1>2 DEF Waiting, QueuedIds, Popped, Resends, Idle
<1> QED BY <1>1, <1>3, QuietStepMaps

-----------------------------------------------------------------------------
LEMMA InitMaps == Init => Traced /\ Outbox!Init
<1> SUFFICES ASSUME Init PROVE Traced /\ Outbox!Init
  OBVIOUS
<1>1. QueuedIds = {} /\ Popped = {}
  BY DEF Init, QueuedIds, Ids, Popped, Idle
<1> QED BY <1>1 DEF Init, Traced, Waiting, Outbox!Init, Idle, Finalized

LEMMA StepMaps == IndInv /\ Traced /\ [Next]_vars => Maps
<1> SUFFICES ASSUME IndInv, Traced, [Next]_vars PROVE Maps
  OBVIOUS
<1>1. ASSUME NEW c \in Conns, ConnStep(c) PROVE Maps
  <2>1. CASE Evict(c) \/ TeardownBegins(c) \/ TeardownEnds(c)
    BY <2>1, DisconnectMaps
  <2>2. CASE Reply(c)
    BY <2>2, ReplyMaps
  <2>3. CASE \E m \in got : Ack(c, m)
    BY <2>3, AckMaps
  <2>4. CASE LoopFlushes(c)
    BY <2>4, FlushMaps
  <2>5. CASE \/ Connect(c) \/ LoopSpins(c) \/ LoopSleeps(c)
             \/ OtherSessionWakes(c) \/ PeerLost(c)
    BY <2>5, OtherMaps
  <2> QED BY <1>1, <2>1, <2>2, <2>3, <2>4, <2>5 DEF ConnStep
<1>2. ASSUME NEW f \in Flushers, Acquire(f) PROVE Maps
  BY <1>2, AcquireMaps
<1>3. CASE TaskStarts
  BY <1>3, FlushMaps
<1>4. CASE WriteFails
  <2>1. wr.via \in Conns
    BY <1>4 DEF WriteFails, IndInv, WriteInProgress
  <2> QED BY <1>4, <2>1, DisconnectMaps
<1>5. CASE CleanupFires \/ DestroySession
  BY <1>5, CleanupMaps
<1>6. CASE Transmit \/ WriteSucceeds \/ PushEnqueues
  BY <1>6, TransmitMaps, WriteSucceedsMaps, PushEnqueuesMaps
<1>7. CASE PushChecks \/ PushReturns \/ ResendAborts
  BY <1>7, OtherMaps
<1>8. CASE UNCHANGED vars
  <2>1. UNCHANGED <<queue, wr, pending, nextId, got, acked, dropped, phase>>
    BY <1>8 DEF vars
  <2>2. Waiting' = Waiting /\ Resends
    BY <2>1 DEF Waiting, QueuedIds, Popped, Resends
  <2> QED BY <2>1, <2>2, QuietStepMaps
<1> QED BY <1>1, <1>2, <1>3, <1>4, <1>5, <1>6, <1>7, <1>8 DEF Next

\* A Session is an outbox: whatever its connections, flushers and clean-up do,
\* messages are first written in order, kept from the end of that write
\* (track_pending_outbound) to their acknowledgement (ack_outbound), and none
\* is lost but one whose first write is broken off.
THEOREM Refinement == Spec => SessionIsOutbox
<1>1. Init => Outbox!Init /\ Traced
  BY InitMaps
<1>2. IndInv /\ Traced /\ [Next]_vars => Traced' /\ [Outbox!Next]_(Outbox!vars)
  BY StepMaps DEF Maps
<1> QED BY <1>1, <1>2, Invariance, PTL DEF Spec, SessionIsOutbox, Outbox!Spec
=============================================================================
