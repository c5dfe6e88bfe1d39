---------------------------- MODULE RpcDispatch ----------------------------
(***************************************************************************)
(* How the requests of ONE session are served (piltover/gateway/client.py, *)
(* gateway/_system_handlers.py, session/session.py, worker.py).            *)
(*                                                                         *)
(* Every connection has one receive loop, which propagates the messages of *)
(* a packet one after the other: it waits for the messages a request was   *)
(* sent "after" (invokeAfterMsg, invokeAfterMsgs), passes the auth gate,   *)
(* hands the query to a worker, waits for the result - twice, with a       *)
(* MsgsAck in between - and enqueues the answer.  Whatever happens, it     *)
(* marks the message id completed in the session when it leaves it, which  *)
(* is what the waiters of other connections (and later requests) look at.  *)
(*                                                                         *)
(* Each action is the code between two awaits.  _rpc_completion_lock is    *)
(* never held across an await, so its critical sections are atomic.        *)
(***************************************************************************)
EXTENDS Integers, Sequences, FiniteSets

CONSTANTS
    Conns,        \* the connections of the peer
    Ids,          \* the message ids of its requests
    Afters,       \* what a request may be sent after: sequences of ids
    Packets,      \* the containers a peer may send: sequences of ids
    TrackLimit,   \* _RPC_COMPLETION_TRACK_LIMIT
    MaxJobs,      \* bound: tasks handed to the workers in a behaviour
    MaxPackets    \* bound: packets received in a behaviour

ASSUME BoundsAssumption ==
    /\ TrackLimit \in Nat \ {0}
    /\ MaxJobs \in Nat
    /\ MaxPackets \in Nat
ASSUME SequencesAssumption ==
    /\ Afters \subseteq Seq(Ids)
    /\ Packets \subseteq Seq(Ids) \ {<<>>}

VARIABLES
    after,      \* request -> the ids it is sent after
    loop,       \* connection -> its receive loop
    completed,  \* session._rpc_completed_ids
    order,      \* session._rpc_completed_order
    events,     \* the keys of session._rpc_completions
    jobs,       \* the tasks handed to the workers, in order
    packets,    \* packets received so far
    received,   \* history: request -> how often it was received
    answered,   \* history: request -> how often it was answered
    unanswered, \* history: request -> how often it was given up silently
    settled     \* history: requests a worker has finished with, or that were
                \* refused, timed out or cut off by the end of the connection

vars == <<after, loop, completed, order, events, jobs, packets, received,
          answered, unanswered, settled>>

\* todo: the messages of the packet that are left, the current one first;
\* pos: index in after of the id waited for; linked: the Event awaited is the
\* one in _rpc_completions; woken: it is set; job: index in jobs.
Loops == [step : {"idle", "refresh", "wait", "gate", "run", "slow", "answer"},
          todo : Seq(Ids), pos : Nat, linked : BOOLEAN, woken : BOOLEAN,
          job : Nat, up : BOOLEAN]
IdleLoop == [step |-> "idle", todo |-> <<>>, pos |-> 0, linked |-> FALSE,
             woken |-> FALSE, job |-> 0, up |-> TRUE]

Jobs == [id : Ids, state : {"queued", "running", "done"}]

\* Types; and _rpc_completed_ids and _rpc_completed_order stay in step: the same
\* ids, each once, never more than _RPC_COMPLETION_TRACK_LIMIT of them.
TypeOK ==
    /\ after \in [Ids -> Afters]
    /\ loop \in [Conns -> Loops]
    /\ completed \subseteq Ids
    /\ order \in Seq(Ids)
    /\ events \subseteq Ids
    /\ jobs \in Seq(Jobs)
    /\ packets \in Nat
    /\ received \in [Ids -> Nat]
    /\ answered \in [Ids -> Nat]
    /\ unanswered \in [Ids -> Nat]
    /\ settled \subseteq Ids
    /\ completed = {order[i] : i \in 1 .. Len(order)}
    /\ \A i, j \in 1 .. Len(order) : order[i] = order[j] => i = j
    /\ Len(order) <= TrackLimit

Init ==
    /\ after \in [Ids -> Afters]
    /\ loop = [c \in Conns |-> IdleLoop]
    /\ completed = {}
    /\ order = <<>>
    /\ events = {}
    /\ jobs = <<>>
    /\ packets = 0
    /\ received = [m \in Ids |-> 0]
    /\ answered = [m \in Ids |-> 0]
    /\ unanswered = [m \in Ids |-> 0]
    /\ settled = {}

Current(c) == Head(loop[c].todo)
Waits(c, m) == loop[c].step = "wait" /\ after[Current(c)][loop[c].pos] = m

-----------------------------------------------------------------------------
(* mark_rpc_completed, wait_for_rpc *)

\* Mutant: the oldest id is pruned before the new one is added.
PruneFirst(m) ==
    IF m \in completed THEN order
    ELSE Append(IF Len(order) > TrackLimit THEN Tail(order) ELSE order, m)

\* _rpc_completed_order after mark_rpc_completed(m) and _prune.
OrderAfter(m) ==
    LET longer == IF m \in completed THEN order ELSE Append(order, m)
    IN  IF Len(longer) > TrackLimit THEN Tail(longer) ELSE longer

\* The ids _prune_rpc_completions forgets.
Pruned(m) ==
    IF m \notin completed /\ Len(order) >= TrackLimit
    THEN {Head(Append(order, m))} ELSE {}

CompletedAfter(m) == (completed \cup {m}) \ Pruned(m)

\* Mutant: mark_rpc_completed pops the event of m instead of setting it.
PopInsteadOfSet(c, m) ==
    IF Waits(c, m) THEN [loop[c] EXCEPT !.linked = FALSE] ELSE loop[c]

\* What mark_rpc_completed(m) does to the loop of connection c, if it waits:
\* its event is popped from the dictionary, or set.
Notified(c, m) ==
    IF \E o \in Pruned(m) : Waits(c, o) THEN [loop[c] EXCEPT !.linked = FALSE]
    ELSE IF Waits(c, m) /\ loop[c].linked THEN [loop[c] EXCEPT !.woken = TRUE]
    ELSE loop[c]

\* The loop of a connection that goes on with message Head(q), having waited
\* for the ids before index i, when the completed ids are done: wait_for_rpc
\* returns at once for those.
Missing(q, i, done) ==
    {j \in i .. Len(after[Head(q)]) : after[Head(q)][j] \notin done}
FirstMissing(q, i, done) ==
    CHOOSE j \in Missing(q, i, done) : \A k \in Missing(q, i, done) : j <= k

\* Mutant: an id that was completed once is never looked up again.
WaitOnlyForFirst(q, i, done) ==
    IF q = <<>> THEN IdleLoop
    ELSE IF Missing(q, i, done) = {} \/ i > 1
    THEN [IdleLoop EXCEPT !.step = "gate", !.todo = q]
    ELSE [IdleLoop EXCEPT !.step = "wait", !.todo = q,
                          !.pos = FirstMissing(q, i, done), !.linked = TRUE]

Proceed(q, i, done) ==
    IF q = <<>> THEN IdleLoop
    ELSE IF Missing(q, i, done) = {}
    THEN [IdleLoop EXCEPT !.step = "gate", !.todo = q]
    ELSE [IdleLoop EXCEPT !.step = "wait", !.todo = q,
                          !.pos = FirstMissing(q, i, done), !.linked = TRUE]

\* The key wait_for_rpc adds to _rpc_completions when a loop becomes l.
WaitKey(l) == IF l.step = "wait" THEN {after[Head(l.todo)][l.pos]} ELSE {}

\* The loop of connection c leaves its current message: mark_rpc_completed in
\* the finally of propagate, then the next message of the packet, if there is
\* one and the connection lives.
Leave(c, alive) ==
    LET m    == Current(c)
        done == CompletedAfter(m)
        next == IF alive THEN Proceed(Tail(loop[c].todo), 1, done)
                ELSE [IdleLoop EXCEPT !.up = FALSE]
    IN  /\ completed' = done
        /\ order' = OrderAfter(m)
        /\ events' = (events \ Pruned(m)) \cup WaitKey(next)
        /\ loop' = [d \in Conns |-> IF d = c THEN next ELSE Notified(d, m)]
        /\ UNCHANGED <<after, packets, received>>

-----------------------------------------------------------------------------
(* The receive loop *)

\* Where message m is in a packet, and how often.
Places(q, m) == {i \in 1 .. Len(q) : q[i] = m}
Times(q, m) == Cardinality(Places(q, m))

Receive(c, q) ==
    /\ loop[c].up /\ loop[c].step = "idle"
    /\ packets < MaxPackets
    /\ packets' = packets + 1
    /\ loop' = [loop EXCEPT ![c].step = "refresh", ![c].todo = q]
    /\ received' = [m \in Ids |-> received[m] + Times(q, m)]
    /\ UNCHANGED <<after, completed, order, events, jobs, answered,
                   unanswered, settled>>

\* refresh_auth_maybe is done: the first message.
Begin(c) ==
    /\ loop[c].step = "refresh"
    /\ LET next == Proceed(loop[c].todo, 1, completed)
       IN  /\ loop' = [loop EXCEPT ![c] = next]
           /\ events' = events \cup WaitKey(next)
    /\ UNCHANGED <<after, completed, order, jobs, packets, received,
                   answered, unanswered, settled>>

WaitEnds(c) ==
    /\ loop[c].step = "wait"
    /\ loop[c].woken
    /\ LET next == Proceed(loop[c].todo, loop[c].pos + 1, completed)
       IN  /\ loop' = [loop EXCEPT ![c] = next]
           /\ events' = events \cup WaitKey(next)
    /\ UNCHANGED <<after, completed, order, jobs, packets, received,
                   answered, unanswered, settled>>

\* Mutant: the wait for another message has no timeout.
WaitForever(c) == FALSE /\ UNCHANGED vars

\* asyncio.wait_for gives up: the answer is MSG_WAIT_TIMEOUT.
WaitTimesOut(c) ==
    /\ loop[c].step = "wait"
    /\ ~loop[c].woken
    /\ loop' = [loop EXCEPT ![c].step = "answer"]
    /\ settled' = settled \cup {Current(c)}
    /\ UNCHANGED <<after, completed, order, events, jobs, packets, received,
                   answered, unanswered>>

\* _auth_gate: "ok", and the query goes to a worker.
GateOpens(c) ==
    /\ loop[c].step = "gate"
    /\ Len(jobs) < MaxJobs
    /\ jobs' = Append(jobs, [id |-> Current(c), state |-> "queued"])
    /\ loop' = [loop EXCEPT ![c].step = "run", ![c].job = Len(jobs) + 1]
    /\ UNCHANGED <<after, completed, order, events, packets, received,
                   answered, unanswered, settled>>

\* _auth_gate: "unregistered".  _respond_auth_key_unregistered answers, the
\* session is dropped and Disconnection ends the loop ("drop" is what the gate
\* says of a key rejected before, which a loop that ended cannot ask).
GateRefuses(c) ==
    /\ loop[c].step = "gate"
    /\ answered' = [answered EXCEPT ![Current(c)] = @ + 1]
    /\ unanswered' = [m \in Ids |->
                         unanswered[m] + Times(Tail(loop[c].todo), m)]
    /\ settled' = settled \cup {Current(c)}
    /\ Leave(c, FALSE)
    /\ UNCHANGED jobs

\* TaskiqResultTimeoutError after the first wait: MsgsAck, and wait again.
AckTimeout(c) ==
    /\ loop[c].step = "run"
    /\ jobs[loop[c].job].state # "done"
    /\ loop' = [loop EXCEPT ![c].step = "slow"]
    /\ UNCHANGED <<after, completed, order, events, jobs, packets, received,
                   answered, unanswered, settled>>

ResultArrives(c) ==
    /\ loop[c].step \in {"run", "slow"}
    /\ jobs[loop[c].job].state = "done"
    /\ loop' = [loop EXCEPT ![c].step = "answer"]
    /\ UNCHANGED <<after, completed, order, events, jobs, packets, received,
                   answered, unanswered, settled>>

\* The second wait times out: INTERNAL_SERVER_ERROR_TIMEOUT, while the worker
\* goes on with the task.
ResultTimeout(c) ==
    /\ loop[c].step = "slow"
    /\ jobs[loop[c].job].state # "done"
    /\ loop' = [loop EXCEPT ![c].step = "answer"]
    /\ settled' = settled \cup {Current(c)}
    /\ UNCHANGED <<after, completed, order, events, jobs, packets, received,
                   answered, unanswered>>

\* Mutant: a request of a container that fails ends the whole container.
AnswerOnlyFirst(c) ==
    /\ loop[c].step = "answer"
    /\ answered' = [answered EXCEPT ![Current(c)] = @ + 1]
    /\ loop' = [loop EXCEPT ![c] = IdleLoop]
    /\ UNCHANGED <<after, completed, order, events, packets, received, jobs,
                   unanswered, settled>>

Answer(c) ==
    /\ loop[c].step = "answer"
    /\ answered' = [answered EXCEPT ![Current(c)] = @ + 1]
    /\ Leave(c, TRUE)
    /\ UNCHANGED <<jobs, unanswered, settled>>

\* The connection ends: the peer is gone, or another loop of worker() ended, or
\* the task could not be queued.  The current message is cut off, and the
\* rest of its packet is forgotten.
Teardown(c) ==
    /\ loop[c].up
    /\ IF loop[c].step \in {"idle", "refresh"}
       THEN /\ loop' = [loop EXCEPT ![c] = [IdleLoop EXCEPT !.up = FALSE]]
            /\ UNCHANGED <<after, completed, order, events, packets, received,
                           settled>>
       ELSE /\ settled' = settled \cup {Current(c)}
            /\ Leave(c, FALSE)
    /\ unanswered' = [m \in Ids |-> unanswered[m] + Times(loop[c].todo, m)]
    /\ UNCHANGED <<jobs, answered>>

Reconnect(c) ==
    /\ ~loop[c].up
    /\ loop' = [loop EXCEPT ![c] = IdleLoop]
    /\ UNCHANGED <<after, completed, order, events, jobs, packets, received,
                   answered, unanswered, settled>>

-----------------------------------------------------------------------------
(* The workers run tasks concurrently, whether or not a gateway still waits. *)

TaskStarts(j) ==
    /\ jobs[j].state = "queued"
    /\ jobs' = [jobs EXCEPT ![j].state = "running"]
    /\ UNCHANGED <<after, loop, completed, order, events, packets, received,
                   answered, unanswered, settled>>

\* _handle_tl_rpc returns: the handler's result or error, or a refusal before
\* the handler was called.
TaskEnds(j) ==
    /\ jobs[j].state = "running"
    /\ jobs' = [jobs EXCEPT ![j].state = "done"]
    /\ settled' = settled \cup {jobs[j].id}
    /\ UNCHANGED <<after, loop, completed, order, events, packets, received,
                   answered, unanswered>>

-----------------------------------------------------------------------------
LoopStep(c) ==
    \/ Begin(c) \/ WaitEnds(c) \/ WaitTimesOut(c)
    \/ GateOpens(c) \/ GateRefuses(c)
    \/ AckTimeout(c) \/ ResultArrives(c) \/ ResultTimeout(c) \/ Answer(c)

Next ==
    \/ \E c \in Conns :
          \/ LoopStep(c) \/ Teardown(c) \/ Reconnect(c)
          \/ \E q \in Packets : Receive(c, q)
    \/ \E j \in 1 .. Len(jobs) : TaskStarts(j) \/ TaskEnds(j)

Spec == Init /\ [][Next]_vars

-----------------------------------------------------------------------------
(* Safety *)

\* A request that waits for another message can still be woken, and need not
\* be yet: its Event is the one in _rpc_completions, and the message has not
\* been completed since (wait_for_rpc, mark_rpc_completed and the pruning of
\* old completions, in any order of the connections).
NoLostCompletion ==
    \A c \in Conns : loop[c].step = "wait" /\ ~loop[c].woken =>
        LET m == after[Current(c)][loop[c].pos]
        IN  loop[c].linked /\ m \in events /\ m \notin completed

\* invokeAfterMsg: a query is handed to a worker only when every message it
\* was sent after is settled: finished by a worker, refused, or given up by
\* its own connection (a timeout or a teardown, which complete it as well).
AfterOrder ==
    \A c \in Conns : loop[c].step \in {"gate", "run", "slow"} =>
        \A i \in 1 .. Len(after[Current(c)]) : after[Current(c)][i] \in settled

\* Every message of every packet is still in its loop, answered once, or was
\* given up with its connection: nothing is answered twice.
Held(m) == UNION {{<<c, i>> : i \in Places(loop[c].todo, m)} : c \in Conns}
AnsweredOnce ==
    \A m \in Ids : received[m] = answered[m] + unanswered[m] + Cardinality(Held(m))

\* Together: no request is forgotten, early or answered twice, and no more ids
\* are remembered than _prune_rpc_completions allows.
RequestsInOrder == TypeOK /\ NoLostCompletion /\ AfterOrder /\ AnsweredOnce

\* What is completed is settled: needed for AfterOrder.
CompletedIsSettled ==
    /\ completed \subseteq settled
    /\ \A c \in Conns :
          /\ loop[c].step = "wait" =>
                \A i \in 1 .. (loop[c].pos - 1) :
                    after[Current(c)][i] \in settled
          /\ (loop[c].step = "wait" /\ loop[c].woken) =>
                after[Current(c)][loop[c].pos] \in settled
          /\ loop[c].step = "answer" => Current(c) \in settled

(* Liveness.  The receive loops and the workers run; timers fire. *)
Fairness ==
    /\ \A c \in Conns : WF_vars(LoopStep(c))
    /\ WF_vars(\E j \in 1 .. Len(jobs) : TaskStarts(j) \/ TaskEnds(j))

FairSpec == Spec /\ Fairness

\* A receive loop gets through every packet, also when requests of different
\* connections wait for each other, for themselves, or for a later message
\* of their own packet.
PacketsEnd ==
    \A c \in Conns : loop[c].todo # <<>> ~> loop[c].todo = <<>>

=============================================================================
