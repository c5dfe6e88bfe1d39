-------------------------- MODULE SessionOutbound --------------------------
(***************************************************************************)
(* The outbound side of ONE Session object (piltover/session/session.py)   *)
(* and of the connections that serve it (piltover/gateway/client.py).      *)
(*                                                                         *)
(* A message put in the session's queue is popped by a flusher, written to *)
(* the socket of the connection the session is attached to, and then kept  *)
(* in pending_outbound until the peer acknowledges it; a reconnecting peer *)
(* gets the pending messages again.  Three kinds of asyncio tasks flush:   *)
(* the send loop of every connection that has the session in its           *)
(* active_sessions, the session's own _flush_task, and the broker task     *)
(* that pushes an urgent update.  They exclude each other with             *)
(* _outbound_flush_lock; everything else interleaves at the awaits, which  *)
(* are: the wait for that lock, and the write (write_lock and drain).      *)
(* Each action below is the code between two awaits.                       *)
(*                                                                         *)
(* A message is its msg_id, abstracted to 1, 2, 3, ... in the order of     *)
(* pack_message (which runs, with put_nowait, under _enqueue_lock).        *)
(***************************************************************************)
EXTENDS Integers, Sequences, FiniteSets

CONSTANTS
    Conns,          \* the connections (Client objects) of the peer
    NoConn,         \* session.client is None
    Task,           \* the flusher that is session._flush_task
    Push,           \* the flusher that is a broker push (one at a time)
    MaxMsgs,        \* bound: messages enqueued in a behaviour
    WritesMayFail,  \* may a drain() in progress raise when its socket goes?
    Overlap         \* may the peer use a new connection before the
                    \* gateway has torn the old one down?

Flushers == Conns \cup {Task, Push}
NoFlusher == NoConn

ASSUME ConnsAssumption ==
    /\ NoConn \notin Conns
    /\ Task \notin Conns \cup {NoConn}
    /\ Push \notin Conns \cup {NoConn, Task}
ASSUME BoundsAssumption ==
    /\ MaxMsgs \in Nat
    /\ WritesMayFail \in BOOLEAN
    /\ Overlap \in BOOLEAN

Msgs == 1 .. MaxMsgs

VARIABLES
    conn,      \* connection -> "open", "lost" (the peer is gone, the worker
               \* has not noticed), "closing" (wait_closed), "closed"
    active,    \* connections with the session in their active_sessions
    wake,      \* connections whose message_available event is set
    client,    \* session.client
    phase,     \* is the session in SessionManager.sessions?
    timer,     \* session._cleanup_task is sleeping
    queue,     \* session.message_queue
    pending,   \* session.pending_outbound; insertion order is id order
    resend,    \* session.resend_pending_on_connect
    task,      \* session._flush_task is set and not done
    push,      \* the broker's delivery to this session: its progress
    waiters,   \* flushers waiting for _outbound_flush_lock
    wr,        \* the holder of the lock and the write it is in
    nextId,    \* the next msg_id
    got,       \* history: ids that reached the peer
    acked,     \* history: ids the peer acknowledged
    dropped,   \* history: ids whose first write was interrupted
    frozen     \* a send loop spins without ever yielding to the event loop

sessionVars == <<client, phase, timer, queue, pending, resend, task>>
flushVars == <<waiters, wr, push>>
connVars == <<conn, active, wake>>
history == <<nextId, got, acked, dropped>>
vars == <<conn, active, wake, client, phase, timer, queue, pending, resend,
          task, push, waiters, wr, nextId, got, acked, dropped, frozen>>

Finalized == {"destroyed", "expired"}
Serving == {"open", "lost"}       \* the worker's recv and send loops run

\* by: the flusher that holds _outbound_flush_lock; via: the client it read;
\* stage, msg: what it writes; last: pending_outbound has no entry after msg;
\* wired: the bytes are out, drain() is awaited; mutated: pending_outbound
\* changed since the resend loop last advanced.
Writes == [by : Flushers \cup {NoFlusher}, via : Conns \cup {NoConn},
           stage : {"none", "resend", "queue"}, msg : Nat,
           last : BOOLEAN, wired : BOOLEAN, mutated : BOOLEAN]
Idle == [by |-> NoFlusher, via |-> NoConn, stage |-> "none", msg |-> 0,
         last |-> TRUE, wired |-> FALSE, mutated |-> FALSE]

Least(S) == CHOOSE m \in S : \A k \in S : m <= k

Ids(q) == {q[i] : i \in 1 .. Len(q)}
Sorted(q) == \A i, j \in 1 .. Len(q) : i < j => q[i] < q[j]
QueuedIds == Ids(queue)
\* The message that was popped from the queue and is not yet tracked.
Popped == IF wr.stage = "queue" THEN {wr.msg} ELSE {}

LockFree == wr = Idle /\ waiters = {}
Busy(f) == wr.by = f \/ f \in waiters

TypeOK ==
    /\ conn \in [Conns -> {"open", "lost", "closing", "closed"}]
    /\ active \subseteq Conns
    /\ wake \subseteq Conns
    /\ client \in Conns \cup {NoConn}
    /\ phase \in {"absent", "registered"} \cup Finalized
    /\ timer \in BOOLEAN
    /\ queue \in Seq(Nat)
    /\ pending \in SUBSET Nat
    /\ resend \in BOOLEAN
    /\ task \in BOOLEAN
    /\ push \in {"idle", "checked", "flush", "skipped"}
    /\ waiters \subseteq Flushers
    /\ wr \in Writes
    /\ nextId \in 1 .. (MaxMsgs + 1)
    /\ got \in SUBSET Nat
    /\ acked \in SUBSET Nat
    /\ dropped \in SUBSET Nat
    /\ frozen \in BOOLEAN

Init ==
    /\ conn = [c \in Conns |-> "open"]
    /\ active = {}
    /\ wake = {}
    /\ client = NoConn
    /\ phase = "absent"
    /\ timer = FALSE
    /\ queue = <<>>
    /\ pending = {}
    /\ resend = FALSE
    /\ task = FALSE
    /\ push = "idle"
    /\ waiters = {}
    /\ wr = Idle
    /\ nextId = 1
    /\ got = {}
    /\ acked = {}
    /\ dropped = {}
    /\ frozen = FALSE

-----------------------------------------------------------------------------
(* flush_outbound and _write_session_queues *)

Resending(f, v, m) ==
    [by |-> f, via |-> v, stage |-> "resend", msg |-> m,
     last |-> \A k \in pending : k <= m, wired |-> FALSE, mutated |-> FALSE]

Writing(f, v, m) ==
    [by |-> f, via |-> v, stage |-> "queue", msg |-> m,
     last |-> TRUE, wired |-> FALSE, mutated |-> FALSE]

\* The loop over message_queue: pop the next message, or leave the lock.
ServeQueue(f, v, q) ==
    /\ wr' = IF q = <<>> THEN Idle ELSE Writing(f, v, Head(q))
    /\ queue' = IF q = <<>> THEN q ELSE Tail(q)

\* The lock is taken: client is read once, then the writes begin.
EnterFlush(f, q) ==
    \/ /\ client = NoConn
       /\ wr' = Idle
       /\ queue' = q
       /\ UNCHANGED resend
    \/ /\ client # NoConn /\ resend /\ pending # {}
       /\ resend' = FALSE
       /\ wr' = Resending(f, client, Least(pending))
       /\ queue' = q
    \/ /\ client # NoConn /\ ~(resend /\ pending # {})
       /\ ServeQueue(f, client, q)
       /\ UNCHANGED resend

\* A flusher calls flush_outbound while the queue is q.
CallFlush(f, q) ==
    \/ /\ LockFree
       /\ EnterFlush(f, q)
       /\ UNCHANGED waiters
    \/ /\ ~LockFree
       /\ waiters' = waiters \cup {f}
       /\ queue' = q
       /\ UNCHANGED <<wr, resend>>

\* What is left of the two transient flushers after a step of flusher f.
AfterFlushStep(f) ==
    /\ task' = IF f = Task THEN Busy(Task)' ELSE task
    /\ push' = IF f = Push /\ ~Busy(Push)' THEN "idle" ELSE push

Acquire(f) ==
    /\ wr = Idle
    /\ f \in waiters
    /\ waiters' = waiters \ {f}
    /\ EnterFlush(f, queue)
    /\ UNCHANGED <<connVars, client, phase, timer, pending, history, frozen>>
    /\ AfterFlushStep(f)

TaskStarts ==
    /\ task
    /\ ~Busy(Task)
    /\ CallFlush(Task, queue)
    /\ UNCHANGED <<connVars, client, phase, timer, pending, history, frozen>>
    /\ AfterFlushStep(Task)

\* write_lock is held and the bytes go out: they arrive iff the socket is up.
Transmit ==
    /\ wr.by # NoFlusher
    /\ ~wr.wired
    /\ conn[wr.via] # "closed"
    /\ wr' = [wr EXCEPT !.wired = TRUE]
    /\ got' = IF conn[wr.via] = "open" THEN got \cup {wr.msg} ELSE got
    /\ UNCHANGED <<connVars, sessionVars, waiters, push, nextId, acked,
                   dropped, frozen>>

\* Mutant: a resent message is tracked again after its write.
TracksResentMessages == pending' = pending \cup {wr.msg}
TrackPendingOutbound ==
    pending' = IF wr.stage = "queue" THEN pending \cup {wr.msg} ELSE pending

\* drain() returns: track a new message, go on with the next one.
WriteSucceeds ==
    /\ wr.wired
    /\ ~(wr.stage = "resend" /\ ~wr.last /\ wr.mutated)
    /\ \/ /\ wr.stage = "resend" /\ ~wr.last
          /\ wr' = Resending(wr.by, wr.via,
                             Least({m \in pending : m > wr.msg}))
          /\ UNCHANGED queue
       \/ /\ wr.stage = "queue" \/ (wr.stage = "resend" /\ wr.last)
          /\ ServeQueue(wr.by, wr.via, queue)
    /\ TrackPendingOutbound
    /\ UNCHANGED <<connVars, client, phase, timer, resend, waiters, history,
                   frozen>>
    /\ AfterFlushStep(wr.by)

\* pending_outbound lost an entry under the resend loop: RuntimeError.  The
\* send loop ends its connection; the task and the push only log it.
ResendAborts ==
    /\ wr.wired
    /\ wr.stage = "resend" /\ ~wr.last /\ wr.mutated
    /\ wr' = Idle
    /\ conn' = [c \in Conns |-> IF c = wr.by THEN "closing" ELSE conn[c]]
    /\ wake' = wake \ {wr.by}
    /\ UNCHANGED <<active, client, phase, timer, queue, pending, resend,
                   waiters, history, frozen>>
    /\ AfterFlushStep(wr.by)

-----------------------------------------------------------------------------
(* connect, disconnect, finalize *)

\* The flushers in F are cancelled (or fail): a message one of them had
\* popped is in neither the queue nor pending_outbound.
StopFlushers(F) ==
    /\ waiters' = waiters \ F
    /\ wr' = IF wr.by \in F THEN Idle ELSE wr
    /\ dropped' = IF wr.by \in F THEN dropped \cup Popped ELSE dropped

\* Mutant: disconnect does not call schedule_cleanup.
DisconnectWithoutCleanup ==
    /\ client' = NoConn
    /\ task' = FALSE
    /\ timer' = timer

\* Session.disconnect(), whichever connection calls it.
Disconnect ==
    /\ client' = NoConn
    /\ task' = FALSE
    /\ timer' = (timer \/ client # NoConn)

\* Mutant: the message whose write failed goes back to the queue.
WriteFailsRequeues ==
    /\ WritesMayFail /\ wr.wired /\ conn[wr.via] # "open"
    /\ waiters' = waiters \ {Task}
    /\ wr' = Idle
    /\ queue' = IF wr.stage = "queue" THEN Append(queue, wr.msg) ELSE queue
    /\ Disconnect
    /\ push' = IF wr.by = Push THEN "idle" ELSE push
    /\ UNCHANGED <<connVars, phase, pending, resend, history, frozen>>

\* drain() raises: flush_outbound turns Disconnection into disconnect(), also
\* when session.client is by now another connection than the one it wrote to.
WriteFails ==
    /\ wr.by # NoFlusher
    /\ \/ WritesMayFail /\ wr.wired /\ conn[wr.via] # "open"
       \/ ~wr.wired /\ conn[wr.via] = "closed"
    /\ StopFlushers({wr.by, Task})
    /\ Disconnect
    /\ push' = IF wr.by = Push THEN "idle" ELSE push
    /\ UNCHANGED <<connVars, phase, queue, pending, resend, nextId, got,
                   acked, frozen>>

\* Mutant: connect leaves the clean-up task running.
KeepCleanup == timer' = timer
CancelCleanup == timer' = FALSE

RequestResend == resend' = (resend \/ pending # {})

\* Mutant: _schedule_outbound_flush never creates a task.
NoFlushTask(cl) == task' = task
ScheduleOutboundFlush(cl) == task' = (task \/ cl # NoConn)

\* A packet for the session arrives on connection c, which does not have it
\* in active_sessions: get_or_create, then Session.connect.
Connect(c) ==
    /\ conn[c] \in Serving
    /\ c \notin active
    /\ phase \notin Finalized
    /\ Overlap \/ (client = NoConn /\ active = {})
    /\ client' = c
    /\ active' = active \cup {c}
    /\ phase' = "registered"
    /\ CancelCleanup
    /\ RequestResend
    /\ wake' = IF queue # <<>> \/ resend \/ pending # {}
               THEN wake \cup {c} ELSE wake
    /\ ScheduleOutboundFlush(c)
    /\ UNCHANGED <<conn, queue, pending, flushVars, history, frozen>>

\* The LRU of connection c evicts the session, or _drop_auth_key removes it.
Evict(c) ==
    /\ conn[c] \in Serving
    /\ c \in active
    /\ active' = active \ {c}
    /\ StopFlushers({Task})
    /\ Disconnect
    /\ UNCHANGED <<conn, wake, phase, queue, pending, resend, push, nextId,
                   got, acked, frozen>>

\* One of the loops of worker() ended: the others are cancelled, the socket
\* is closed ...
TeardownBegins(c) ==
    /\ conn[c] \in Serving
    /\ conn' = [conn EXCEPT ![c] = "closing"]
    /\ wake' = wake \ {c}
    /\ StopFlushers({c})
    /\ UNCHANGED <<active, sessionVars, push, nextId, got, acked,
                   frozen>>

\* ... and after wait_closed every session in active_sessions is disconnected.
TeardownEnds(c) ==
    /\ conn[c] = "closing"
    /\ conn' = [conn EXCEPT ![c] = "closed"]
    /\ active' = active \ {c}
    /\ IF c \in active
       THEN StopFlushers({Task}) /\ Disconnect
       ELSE UNCHANGED <<waiters, wr, dropped, client, task, timer>>
    /\ UNCHANGED <<wake, phase, queue, pending, resend, push, nextId, got,
                   acked, frozen>>

\* SessionManager.finalize and Session.finalize.
Finalize(how) ==
    /\ phase' = how
    /\ client' = NoConn
    /\ timer' = FALSE
    /\ task' = FALSE
    /\ queue' = <<>>
    /\ pending' = {}
    /\ resend' = FALSE
    /\ waiters' = waiters \ {Task}
    /\ wr' = IF wr.by = Task THEN Idle
             ELSE [wr EXCEPT !.mutated = @ \/ (wr.stage = "resend" /\ pending # {})]
    /\ dropped' = IF wr.by = Task THEN dropped \cup Popped ELSE dropped
    /\ UNCHANGED <<connVars, push, nextId, got, acked, frozen>>

\* _delayed_cleanup wakes up after DISCONNECTED_SESSION_TTL.
CleanupFires ==
    /\ timer
    /\ IF client = NoConn
       THEN Finalize("expired")
       ELSE /\ timer' = FALSE
            /\ UNCHANGED <<connVars, client, phase, queue, pending, resend,
                           task, flushVars, history, frozen>>

\* destroy_session, sent on this or on another session of the auth key.
DestroySession ==
    /\ phase = "registered"
    /\ Finalize("destroyed")

-----------------------------------------------------------------------------
(* enqueue, the broker push, msgs_ack *)

\* Mutant: enqueue neither sets the event nor schedules a flush.
AnnounceToNobody ==
    /\ nextId <= MaxMsgs
    /\ nextId' = nextId + 1
    /\ UNCHANGED <<wake, task>>

\* What enqueue does besides put_nowait: set the event, schedule a flush.
Announce ==
    /\ nextId <= MaxMsgs
    /\ nextId' = nextId + 1
    /\ wake' = IF client # NoConn THEN wake \cup {client} ELSE wake
    /\ ScheduleOutboundFlush(client)

\* The recv loop of connection c enqueues the answer to a request.
Reply(c) ==
    /\ conn[c] \in Serving
    /\ c \in active
    /\ Announce
    /\ queue' = Append(queue, nextId)
    /\ UNCHANGED <<conn, active, client, phase, timer, pending, resend,
                   flushVars, got, acked, dropped, frozen>>

\* _deliver looks at session.client before it calls enqueue ...
PushChecks ==
    /\ push = "idle"
    /\ phase = "registered"
    /\ push' = IF client = NoConn THEN "skipped" ELSE "checked"
    /\ UNCHANGED <<connVars, sessionVars, waiters, wr, history, frozen>>

PushReturns ==
    /\ push = "skipped"
    /\ push' = "idle"
    /\ UNCHANGED <<connVars, sessionVars, waiters, wr, history, frozen>>

\* ... which may wait for context values; an urgent update is flushed here.
PushEnqueues ==
    /\ push = "checked"
    /\ Announce
    /\ \/ /\ CallFlush(Push, Append(queue, nextId))
          /\ push' = IF Busy(Push)' THEN "flush" ELSE "idle"
       \/ /\ queue' = Append(queue, nextId)
          /\ push' = "idle"
          /\ UNCHANGED <<waiters, wr, resend>>
    /\ UNCHANGED <<conn, active, client, phase, timer, pending, got, acked,
                   dropped, frozen>>

\* Mutant: an acknowledgement covers every earlier message.
AckUpTo(m) == pending' = {k \in pending : k > m}
AckOutbound(m) == pending' = pending \ {m}

\* msgs_ack for message m arrives on connection c.
Ack(c, m) ==
    /\ conn[c] \in Serving
    /\ c \in active
    /\ m \in got
    /\ acked' = acked \cup {m}
    /\ AckOutbound(m)
    /\ wr' = IF wr.stage = "resend" /\ m \in pending
             THEN [wr EXCEPT !.mutated = TRUE] ELSE wr
    /\ UNCHANGED <<connVars, client, phase, timer, queue, resend, task, push,
                   waiters, nextId, got, dropped, frozen>>

-----------------------------------------------------------------------------
(* _worker_loop_send, and the network *)

HasPendingOutbound(c) == c \in active /\ queue # <<>>

\* flush_outbound returns at once, without an await, and the queue is still
\* not empty: the loop never yields again.
LoopSpins(c) ==
    /\ conn[c] \in Serving
    /\ c \in wake /\ ~Busy(c)
    /\ HasPendingOutbound(c)
    /\ client = NoConn /\ LockFree
    /\ frozen' = TRUE
    /\ UNCHANGED <<connVars, sessionVars, flushVars, history>>

\* The loop flushes every active session while any of them has something.
LoopFlushes(c) ==
    /\ conn[c] \in Serving
    /\ c \in wake /\ ~Busy(c)
    /\ c \in active
    /\ ~(client = NoConn /\ LockFree)
    /\ CallFlush(c, queue)
    /\ UNCHANGED <<connVars, client, phase, timer, pending, task, push,
                   history, frozen>>

\* Mutant: the event is cleared without looking at the queues again.
LoopSleepsUnchecked(c) ==
    /\ conn[c] \in Serving
    /\ c \in wake /\ ~Busy(c)
    /\ wake' = wake \ {c}
    /\ UNCHANGED <<conn, active, sessionVars, flushVars, history, frozen>>

LoopSleeps(c) ==
    /\ conn[c] \in Serving
    /\ c \in wake /\ ~Busy(c)
    /\ ~HasPendingOutbound(c)
    /\ wake' = wake \ {c}
    /\ UNCHANGED <<conn, active, sessionVars, flushVars, history, frozen>>

\* Another session of the connection has something to send.
OtherSessionWakes(c) ==
    /\ conn[c] \in Serving
    /\ c \notin wake
    /\ wake' = wake \cup {c}
    /\ UNCHANGED <<conn, active, sessionVars, flushVars, history, frozen>>

PeerLost(c) ==
    /\ conn[c] = "open"
    /\ conn' = [conn EXCEPT ![c] = "lost"]
    /\ UNCHANGED <<active, wake, sessionVars, flushVars, history, frozen>>

-----------------------------------------------------------------------------
ConnStep(c) ==
    \/ Connect(c) \/ Evict(c) \/ TeardownBegins(c) \/ TeardownEnds(c)
    \/ Reply(c) \/ (\E m \in got : Ack(c, m))
    \/ LoopSpins(c) \/ LoopFlushes(c) \/ LoopSleeps(c)
    \/ OtherSessionWakes(c) \/ PeerLost(c)

Next ==
    /\ ~frozen
    /\ \/ \E c \in Conns : ConnStep(c)
       \/ \E f \in Flushers : Acquire(f)
       \/ TaskStarts \/ Transmit \/ WriteSucceeds \/ ResendAborts
       \/ WriteFails \/ CleanupFires \/ DestroySession
       \/ PushChecks \/ PushReturns \/ PushEnqueues

Spec == Init /\ [][Next]_vars

-----------------------------------------------------------------------------
(* Safety *)

\* Ids only grow along the path pending_outbound, write in progress, queue:
\* no interleaving of flushers, reconnects and failures makes a message
\* overtake an earlier one, and iterating pending_outbound resends in id order.
InIdOrder ==
    /\ Sorted(queue)
    /\ \A m \in QueuedIds : m < nextId
    /\ \A m \in Popped : m < nextId /\ \A k \in QueuedIds : m < k
    /\ \A p \in pending : p < nextId /\ \A k \in QueuedIds \cup Popped : p < k

\* While the session is stored, a message that was enqueued is queued, being
\* written for the first time, kept for resending, acknowledged, or was in the
\* hands of a flusher that failed or was cancelled (track_pending_outbound
\* comes only after the write).
NothingVanishes ==
    phase \notin Finalized =>
        \A m \in 1 .. (nextId - 1) :
            \/ m \in QueuedIds \cup Popped
            \/ m \in pending \cup acked \cup dropped

\* A stored session without a connection has its clean-up scheduled, so it
\* cannot be leaked; a session with a connection has not, so clean-up cannot
\* take a live session away.
CleanupScheduled == phase = "registered" => (timer <=> client = NoConn)

\* session.client is always a connection that has the session in its
\* active_sessions and whose worker has not finished.
ClientHoldsSession ==
    client # NoConn => client \in active /\ conn[client] # "closed"

\* No wake-up is lost: as long as the queue of an attached session is not
\* empty, the event of its connection's send loop is set, whichever flusher
\* failed, was cancelled or is at work.
NoLostWakeup ==
    (client # NoConn /\ queue # <<>> /\ conn[client] \in Serving)
        => client \in wake

\* An acknowledged message comes back to pending_outbound only when its
\* acknowledgement overtook the end of its own first write.
AckedIsForgotten ==
    [][\A m \in acked : m \in pending' => m \in pending \/ m \in Popped]_vars

\* All of this together: the session is an outbox.  A message waits from
\* enqueue to the end of its first write (_enqueue_and_maybe_flush_locked,
\* _write_session_queues), is kept by track_pending_outbound, and forgotten
\* by ack_outbound or finalize.
Outbox == INSTANCE Outbox WITH
    last <- nextId - 1, waiting <- QueuedIds \cup Popped, kept <- pending,
    lost <- dropped, over <- phase \in Finalized
SessionIsOutbox == Outbox!Spec

\* What the inductive proof of the invariants above needs besides them: the
\* fields of wr belong together, and the resend loop has a next message unless
\* the dictionary changed under it.
WriteInProgress ==
    /\ wr.stage = "none" <=> wr.by = NoFlusher
    /\ wr.by = NoFlusher => wr = Idle
    /\ wr.by # NoFlusher => wr.via \in Conns
    /\ (wr.stage = "resend" /\ ~wr.last /\ ~wr.mutated)
          => \E m \in pending : m > wr.msg

\* ... and a session that is not stored has neither connection nor clean-up.
OnlyStoredIsServed == phase # "registered" => client = NoConn /\ ~timer

IndInv ==
    /\ TypeOK
    /\ WriteInProgress
    /\ OnlyStoredIsServed
    /\ InIdOrder
    /\ NothingVanishes
    /\ CleanupScheduled
    /\ ClientHoldsSession
    /\ NoLostWakeup

(* Liveness.  The event loop runs every ready task; a write ends; the lock is *)
(* handed over in FIFO order; timers fire; a dead peer is noticed.            *)
Fairness ==
    /\ \A f \in Flushers : SF_vars(~frozen /\ Acquire(f))
    /\ WF_vars(~frozen /\ TaskStarts)
    /\ WF_vars(~frozen /\ Transmit)
    /\ WF_vars(~frozen /\ (WriteSucceeds \/ ResendAborts \/ WriteFails))
    /\ WF_vars(~frozen /\ CleanupFires)
    /\ \A c \in Conns :
          /\ WF_vars(~frozen /\ LoopSpins(c))
          /\ WF_vars(~frozen /\ c \in active /\ queue # <<>> /\ LoopFlushes(c))
          /\ WF_vars(~frozen /\ TeardownEnds(c))
          /\ WF_vars(~frozen /\ conn[c] = "lost" /\ TeardownBegins(c))

FairSpec == Spec /\ Fairness

\* The queue of an attached session is written out, unless the session loses
\* its connection.
QueueDrains == (client # NoConn /\ queue # <<>>) ~> (queue = <<>> \/ client = NoConn)

\* A session that lost its connection is taken up again or removed, as long
\* as the event loop runs.
DisconnectedSessionEnds ==
    (phase = "registered" /\ client = NoConn)
        ~> (client # NoConn \/ phase \in Finalized \/ frozen)

\* The resend that Session.connect asks for takes place: _flush_task may be
\* busy with the previous connection, or cancelled by it.
ResendTakesPlace ==
    \A m \in Msgs :
        (client # NoConn /\ resend /\ m \in pending \ got)
            ~> (~resend \/ m \notin pending \/ client = NoConn)

\* So the queue of an attached session is sent, and what is to be sent again too
\* (_worker_loop_send, _schedule_outbound_flush).
AllIsSent == QueueDrains /\ ResendTakesPlace

=============================================================================
