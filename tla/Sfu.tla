-------------------------------- MODULE Sfu ---------------------------------
(***************************************************************************)
(* A room of the selective forwarding unit (mediasoup-server/server.js):   *)
(* peers with a transport each, the producer of a peer's audio, and the    *)
(* consumers that forward it to the others.                                *)
(*                                                                         *)
(* Node runs one handler at a time, but every await on the media worker    *)
(* lets another go on; each action here goes from one await to the next.   *)
(* A join has a number; the peer object it makes, its transport and its    *)
(* producer have the same number.  Left out: what is in RTP, ICE and DTLS  *)
(* parameters, video (consumed through the same functions), the detection  *)
(* of speech, a join that reuses its transport (it changes nothing), and   *)
(* the API of browsers (transports, produce, consume, socket.io), which    *)
(* the server in Python does not use.                                      *)
(***************************************************************************)
EXTENDS Integers, FiniteSets

CONSTANTS
    Peers,     \* peer ids
    Joins,    \* the joins that can be, a set of positive numbers
    Controls, \* requests other than joins that can be handled at once
    Budgets   \* bound: triples of whether somebody is in the room, how many join and
              \* how many other requests come

VARIABLES
    room,    \* peer id -> its object in the room, or 0
    gen,     \* how many rooms of this id there have been
    born,    \* peer object -> the room it is of
    owner,   \* join -> the peer object whose transport it made, or 0
    current, \* peer object -> streamTransports.get('audio'), or 0
    dtls,    \* transport -> "none", "new", "connected" or "closed"
    prod,    \* producer -> "none", "playing", "paused" or "closed"
    pending, \* peer object -> pendingConsumers
    cons,    \* the consumers
    flag,    \* the peers with peerAudioPaused
    task,    \* what the handlers are doing
    cause,   \* what has gone wrong that the properties make allowance for
    joins,   \* joins that can still come
    controls \* requests other than joins that can still come

vars == <<room, gen, born, owner, current, dtls, prod, pending, cons, flag, task, cause, joins, controls>>
names == <<room, gen, born, joins>>
streams == <<owner, current, dtls, prod>>

\* The handler of join j, the flush that starts when transport j connects, and others.
Handling == Joins \cup {0 - j : j \in Joins} \cup Controls
Nothing == [to |-> 0, of |-> 0, on |-> 0, paused |-> FALSE]
Idle == [op |-> "none", p |-> "none", o |-> 0, step |-> "none", todo |-> {}, more |-> {},
         item |-> Nothing, v |-> FALSE]

\* The room is not there, or has one peer, who is connected.
Init ==
    \E b \in Budgets, first \in Peers :
        LET only(is, isnt) == [j \in Joins |-> IF b[1] /\ j = 1 THEN is ELSE isnt] IN
        /\ room = [p \in Peers |-> IF b[1] /\ p = first THEN 1 ELSE 0]
        /\ gen = IF b[1] THEN 1 ELSE 0
        /\ born = only(1, 0) /\ owner = only(1, 0) /\ current = only(1, 0)
        /\ dtls = only("connected", "none") /\ prod = only("playing", "none")
        /\ pending = [j \in Joins |-> {}]
        /\ cons = {} /\ flag = {}
        /\ task = [x \in Handling |-> Idle]
        /\ cause = [crossed |-> {}, failed |-> {}, restless |-> {}]
        /\ joins = b[2] /\ controls = b[3]

-----------------------------------------------------------------------------
Live(q) == prod[q] \in {"playing", "paused"}
Usable(t) == t # 0 /\ dtls[t] = "connected"
InRoom == {room[p] : p \in Peers} \ {0}
Busy(p) == \E x \in Handling : task[x].p = p \/ task[x].op = "delete"
\* A producer of p is about to be consumed, or p's sound to be changed.
Restless(p) == Busy(p) \/ \E x \in Handling : task[x].item.of \in {q \in Joins : owner[q] = room[p]} \ {0}

Goes(x, step) == task' = [task EXCEPT ![x].step = step]
Ends(x) == task' = [task EXCEPT ![x] = Idle]

\* transport.close() of the transports in T, with the events it raises: the
\* producers and consumers on them close, and so do the consumers of those.
Close(T) ==
    /\ dtls' = [t \in Joins |-> IF t \in T /\ dtls[t] # "none" THEN "closed" ELSE dtls[t]]
    /\ prod' = [q \in Joins |-> IF q \in T /\ Live(q) THEN "closed" ELSE prod[q]]

Consuming(T, C) == {c \in C : c.on \notin T /\ c.of \notin T}

-----------------------------------------------------------------------------
(* /api/join *)

\* getOrCreateRoom, getOrCreatePeer, closePeerStreamTransport; the new
\* transport is awaited.
Join(j, p) ==
    LET o == IF room[p] = 0 THEN j ELSE room[p]
        old == {current[o]} \ {0}
    IN  /\ task[j] = Idle /\ born[j] = 0 /\ joins > 0
        /\ joins' = joins - 1
        /\ \A i \in Joins : i < j => born[i] # 0
        /\ room' = [room EXCEPT ![p] = o]
        /\ gen' = IF InRoom = {} THEN gen + 1 ELSE gen
        /\ born' = [born EXCEPT ![j] = gen']
        /\ Close(old)
        /\ cons' = Consuming(old, cons)
        /\ current' = [current EXCEPT ![o] = 0]
        /\ pending' = [pending EXCEPT ![o] = {}]
        /\ task' = [task EXCEPT ![j] = [Idle EXCEPT !.op = "join", !.p = p, !.o = o, !.step = "transport"]]
        /\ cause' = [cause EXCEPT !.crossed = IF Busy(p) THEN @ \cup {p} ELSE @,
                                  !.failed = @ \ {p},
                                  !.restless = IF Busy(p) THEN @ \cup {p} ELSE @]
        /\ UNCHANGED <<owner, flag, controls>>

\* createWebRtcTransport, addTransport
Transport(j) ==
    LET o == task[j].o IN
    /\ task[j].step = "transport"
    /\ owner' = [owner EXCEPT ![j] = o]
    /\ current' = [current EXCEPT ![o] = j]
    /\ dtls' = [dtls EXCEPT ![j] = "new"]
    /\ Goes(j, "produce")
    /\ UNCHANGED <<names, prod, pending, cons, flag, cause, controls>>

\* getAllPeers of the room the join began in
OthersOf(j) ==
    IF born[task[j].o] = gen THEN InRoom \ {room[task[j].p]} ELSE {}

\* createAudioProducer, or its failure; is the peer to be paused?
Produce(j, works) ==
    LET o == task[j].o IN
    /\ task[j].step = "produce"
    /\ IF works /\ dtls[j] # "closed"
       THEN /\ prod' = [prod EXCEPT ![j] = "playing"]
            /\ IF task[j].p \in flag THEN Goes(j, "pause")
               ELSE task' = [task EXCEPT ![j].step = "pipe", ![j].todo = OthersOf(j)]
            /\ UNCHANGED cause
       ELSE /\ Ends(j)
            /\ cause' = [cause EXCEPT !.failed = @ \cup {task[j].p}]
            /\ UNCHANGED prod
    /\ UNCHANGED <<names, owner, current, dtls, pending, cons, flag, controls>>

\* producer.pause() is done.
PauseNew(j) ==
    /\ task[j].step = "pause"
    /\ prod' = [prod EXCEPT ![j] = IF @ = "playing" THEN "paused" ELSE @]
    /\ task' = [task EXCEPT ![j].step = "pipe", ![j].todo = OthersOf(j)]
    /\ UNCHANGED <<names, owner, current, dtls, pending, cons, flag, cause, controls>>

\* The next of the others: pipeProducerToAllPeers, then pipeExistingProducersToPeer.
NextPeer(j) ==
    /\ task[j].step \in {"pipe", "fetch"} /\ task[j].more = {} /\ task[j].item = Nothing
    /\ \E o \in task[j].todo :
          task' = [task EXCEPT
                     ![j].todo = @ \ {o},
                     ![j].more = IF task[j].step = "pipe" THEN {<<o, j>>}
                                 ELSE {<<task[j].o, q>> : q \in {q \in Joins : owner[q] = o /\ Live(q)}}]
    /\ UNCHANGED <<names, streams, pending, cons, flag, cause, controls>>

\* All others have been given the new producer.
Piped(j) ==
    /\ task[j].step = "pipe" /\ task[j].todo = {} /\ task[j].more = {} /\ task[j].item = Nothing
    /\ task' = [task EXCEPT ![j].step = "fetch", ![j].todo = OthersOf(j)]
    /\ UNCHANGED <<names, streams, pending, cons, flag, cause, controls>>

\* And the new peer all producers; flushPendingConsumers if it is connected.
Fetched(j) ==
    LET o == task[j].o IN
    /\ task[j].step = "fetch" /\ task[j].todo = {} /\ task[j].more = {} /\ task[j].item = Nothing
    /\ IF Usable(j) /\ pending[o] # {}
       THEN /\ task' = [task EXCEPT ![j].step = "flush", ![j].more = {<<o, q>> : q \in pending[o]}]
            /\ pending' = [pending EXCEPT ![o] = {}]
       ELSE Ends(j) /\ UNCHANGED pending
    /\ UNCHANGED <<names, streams, cons, flag, cause, controls>>

-----------------------------------------------------------------------------
(* createConsumerForPeer *)

\* The peer of a producer, as isPeerAudioPaused is asked about it.
PausedFor(q) == \E p \in flag : room[p] # 0 /\ room[p] = owner[q]

\* Up to transport.consume: no transport, not connected yet, consumed already,
\* or the consumer is awaited.
Consume(x, o, q) ==
    LET t == current[o]
        rest == [task[x] EXCEPT !.more = @ \ {<<o, q>>}]
    IN  /\ <<o, q>> \in task[x].more /\ task[x].item = Nothing
        /\ IF t = 0 \/ dtls[t] = "closed" \/ (x \notin Joins /\ ~Live(q))
           THEN task' = [task EXCEPT ![x] = rest] /\ UNCHANGED pending
           ELSE IF dtls[t] # "connected"
           THEN /\ pending' = [pending EXCEPT ![o] = @ \cup {q}]
                /\ task' = [task EXCEPT ![x] = rest]
           ELSE /\ task' = [task EXCEPT ![x] =
                      IF \E c \in cons : c.to = o /\ c.of = q THEN rest
                      ELSE [rest EXCEPT !.item = [to |-> o, of |-> q, on |-> t, paused |-> PausedFor(q)]]]
                /\ UNCHANGED pending
        /\ UNCHANGED <<names, streams, cons, flag, cause, controls>>

\* The consumer is there, unless the transport or the producer is closed by now.
Consumed(x) ==
    LET c == task[x].item IN
    /\ c # Nothing
    /\ cons' = IF dtls[c.on] = "connected" /\ Live(c.of) THEN cons \cup {c} ELSE cons
    /\ task' = [task EXCEPT ![x].item = Nothing]
    /\ UNCHANGED <<names, streams, pending, flag, cause, controls>>

\* Mutant: what was put off is forgotten when the transport connects.
ConnectsOnly(t) ==
    LET o == owner[t] IN
    /\ dtls[t] = "new"
    /\ dtls' = [dtls EXCEPT ![t] = "connected"]
    /\ pending' = [pending EXCEPT ![o] = {}]
    /\ UNCHANGED <<names, owner, current, prod, cons, flag, task, cause, controls>>

\* The transport connects: what was put off is done (bindTransportLifecycle).
Connects(t) ==
    LET o == owner[t] IN
    /\ dtls[t] = "new"
    /\ dtls' = [dtls EXCEPT ![t] = "connected"]
    /\ pending' = [pending EXCEPT ![o] = {}]
    /\ task' = IF pending[o] = {} THEN task
               ELSE [task EXCEPT ![0 - t] = [Idle EXCEPT !.op = "flush", !.o = o, !.step = "flush",
                                                        !.more = {<<o, q>> : q \in pending[o]}]]
    /\ UNCHANGED <<names, owner, current, prod, cons, flag, cause, controls>>

Flushed(x) ==
    /\ task[x].step = "flush" /\ task[x].more = {} /\ task[x].item = Nothing
    /\ Ends(x)
    /\ UNCHANGED <<names, streams, pending, cons, flag, cause, controls>>

-----------------------------------------------------------------------------
(* /api/leave, DELETE /api/rooms/:roomId, /api/participant-state *)

Begins(x, op, p, step, v) ==
    /\ task[x] = Idle /\ controls > 0
    /\ controls' = controls - 1
    /\ task' = [task EXCEPT ![x] = [Idle EXCEPT !.op = op, !.p = p, !.step = step, !.v = v,
                                                 !.o = room[p]]]

\* The peer's consumers close at once, the rest when the worker has answered.
Leave(x, p) ==
    /\ room[p] # 0
    /\ Begins(x, "leave", p, "close", FALSE)
    /\ flag' = flag \ {p}
    /\ cons' = {c \in cons : c.to # room[p]}
    /\ cause' = IF Busy(p) THEN [cause EXCEPT !.crossed = @ \cup {p}, !.restless = @ \cup {p}] ELSE cause
    /\ UNCHANGED <<names, streams, pending>>

\* Mutant: Peer.close closes the consumers only.
LeftOpen(x) ==
    LET o == task[x].o IN
    /\ task[x].step = "close" /\ task[x].op = "leave"
    /\ current' = [current EXCEPT ![o] = 0]
    /\ room' = [room EXCEPT ![task[x].p] = 0]
    /\ flag' = IF InRoom \subseteq {room[task[x].p]} THEN {} ELSE flag
    /\ Ends(x)
    /\ UNCHANGED <<gen, born, owner, dtls, prod, pending, cons, cause, joins, controls>>

\* Peer.close, removePeer; the last to leave closes the room.
Left(x) ==
    LET o == task[x].o
        T == {t \in Joins : owner[t] = o}
    IN  /\ task[x].step = "close" /\ task[x].op = "leave"
        /\ Close(T)
        /\ cons' = Consuming(T, cons)
        /\ current' = [current EXCEPT ![o] = 0]
        /\ room' = [room EXCEPT ![task[x].p] = 0]
        /\ flag' = IF InRoom \subseteq {room[task[x].p]} THEN {} ELSE flag
        /\ Ends(x)
        /\ UNCHANGED <<gen, born, owner, pending, cause, joins, controls>>

\* Room.close closes one peer after another, and only then forgets them.
CloseRoom(x) ==
    /\ InRoom # {}
    /\ task[x] = Idle /\ controls > 0
    /\ controls' = controls - 1
    /\ task' = [task EXCEPT ![x] = [Idle EXCEPT !.op = "delete", !.step = "peers", !.todo = InRoom]]
    /\ cause' = [cause EXCEPT !.crossed = @ \cup {p \in Peers : Busy(p)},
                              !.restless = @ \cup {p \in Peers : Busy(p)}]
    /\ UNCHANGED <<names, streams, pending, cons, flag>>

ClosePeer(x) ==
    /\ task[x].step = "peers"
    /\ \E o \in task[x].todo :
          LET T == {t \in Joins : owner[t] = o} IN
          /\ Close(T)
          /\ cons' = Consuming(T, cons)
          /\ current' = [current EXCEPT ![o] = 0]
          /\ task' = [task EXCEPT ![x].todo = @ \ {o}]
    /\ UNCHANGED <<names, owner, pending, flag, cause, controls>>

ClosedRoom(x) ==
    /\ task[x].step = "peers" /\ task[x].todo = {}
    /\ room' = [p \in Peers |-> 0]
    /\ Ends(x)
    /\ UNCHANGED <<gen, born, joins, streams, pending, cons, flag, cause, controls>>

\* setPeerAudioPaused: the flag at once,
SetPeerAudioPaused(x, p, v) ==
    /\ room[p] # 0
    /\ (p \in flag) # v
    /\ Begins(x, "pause", p, "producer", v)
    /\ flag' = IF v THEN flag \cup {p} ELSE flag \ {p}
    /\ cause' = IF Restless(p) THEN [cause EXCEPT !.restless = @ \cup {p}] ELSE cause
    /\ UNCHANGED <<names, streams, pending, cons>>

\* then the producers of the peer,
PauseProducers(x) ==
    LET sound == IF task[x].v THEN "paused" ELSE "playing" IN
    /\ task[x].op = "pause" /\ task[x].step = "producer"
    /\ prod' = [q \in Joins |-> IF owner[q] = task[x].o /\ Live(q) THEN sound ELSE prod[q]]
    /\ Goes(x, "consumers")
    /\ UNCHANGED <<names, owner, current, dtls, pending, cons, flag, cause, controls>>

\* and their consumers.
PauseConsumers(x) ==
    /\ task[x].op = "pause" /\ task[x].step = "consumers"
    /\ cons' = {IF owner[c.of] = task[x].o THEN [c EXCEPT !.paused = task[x].v] ELSE c : c \in cons}
    /\ Ends(x)
    /\ UNCHANGED <<names, streams, pending, flag, cause, controls>>

-----------------------------------------------------------------------------
JoinStep(j) ==
    \/ Transport(j) \/ PauseNew(j) \/ NextPeer(j) \/ Piped(j) \/ Fetched(j)
    \/ \E works \in BOOLEAN : Produce(j, works)

ControlStep(x) ==
    Left(x) \/ ClosePeer(x) \/ ClosedRoom(x) \/ PauseProducers(x) \/ PauseConsumers(x)

Next ==
    \/ \E j \in Joins : JoinStep(j) \/ Connects(j) \/ \E p \in Peers : Join(j, p)
    \/ \E x \in Controls :
          \/ ControlStep(x) \/ CloseRoom(x)
          \/ \E p \in Peers : Leave(x, p) \/ \E v \in BOOLEAN : SetPeerAudioPaused(x, p, v)
    \/ \E x \in Handling :
          \/ Consumed(x) \/ Flushed(x)
          \/ \E pair \in task[x].more : Consume(x, pair[1], pair[2])

Spec == Init /\ [][Next]_vars

-----------------------------------------------------------------------------
(* Properties *)

Quiet == \A x \in Handling : task[x] = Idle
Heard(p, q) ==
    \E c \in cons : /\ c.to = room[p] /\ c.on = current[room[p]]
                    /\ owner[c.of] = room[q] /\ c.of = current[room[q]]
                    /\ prod[c.of] = "playing" /\ ~c.paused

\* When all is done, whoever is connected hears whoever is in the room and not
\* paused, and does not hear who is paused: in whatever order two joined and
\* connected, one of pipeProducerToAllPeers, pipeExistingProducersToPeer and
\* flushPendingConsumers has found the other.  Not so if the audio of one of
\* them could not be produced, or requests about the speaker overlapped.
EveryoneHears ==
    Quiet => \A p, q \in Peers :
        \/ p = q \/ room[p] = 0 \/ room[q] = 0
        \/ {p, q} \cap (cause.failed \cup cause.crossed) # {} \/ q \in cause.restless
        \/ ~Usable(current[room[p]])
        \/ Heard(p, q) <=> q \notin flag

\* Nobody is heard after leaving, unless a join overlapped with the leaving.
NobodyIsHeardAfterLeaving ==
    Quiet => \A c \in cons : owner[c.of] \in InRoom \/ cause.crossed # {}

=============================================================================
