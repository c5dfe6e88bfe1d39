---------------------------- MODULE SecretChats -----------------------------
(***************************************************************************)
(* A secret chat (app/handlers/messages/secret.py): the handshake between  *)
(* one device of the user who asks for it and those of the other, and the  *)
(* queue of the device that accepted: upd_qts, the SecretUpdate rows, and  *)
(* a client that catches up with getDifference and acknowledges with       *)
(* receivedQueue.  A row's id is given when it is inserted, its qts        *)
(* earlier.  Left out: keys, files, typing, and what is in messages.       *)
(***************************************************************************)
EXTENDS Integers, FiniteSets

CONSTANTS
    Devices,  \* devices of the one who is asked
    Senders,  \* requests of the other side that can be handled at once
    MaxQts    \* bound: secret updates of a behaviour

VARIABLES
    chat,    \* the EncryptedChat row
    decline, \* the DiscardEncryption that has read the row, if any
    upd_qts, \* of the device that accepted
    rows,    \* qts -> id of the SecretUpdate row, 0 if there is none
    lastId,  \* the id of the last row that was inserted
    sending, \* sender -> the qts it took, 0 if none
    client,  \* the device: its qts, and what it has got
    diff,    \* its getDifference, if any
    raced    \* the updates that were inserted before one with a lower qts, or were
             \* being sent while a difference was read

vars == <<chat, decline, upd_qts, rows, lastId, sending, client, diff, raced>>
handshake == <<chat, decline>>
queue == <<upd_qts, rows, lastId, sending>>

Nobody == "nobody"
Qts == 1 .. MaxQts
NoDiff == [step |-> "none", after |-> 0, found |-> {}, missing |-> {}]

Init ==
    /\ chat = [state |-> "none", to_sess |-> Nobody, discarded |-> FALSE]
    /\ decline = Nobody
    /\ upd_qts = 0
    /\ rows = [q \in Qts |-> 0]
    /\ lastId = 0
    /\ sending = [s \in Senders |-> 0]
    /\ client = [qts |-> 0, got |-> {}]
    /\ diff = NoDiff
    /\ raced = {}

-----------------------------------------------------------------------------
(* The handshake *)

RequestEncryption ==
    /\ chat.state = "none"
    /\ chat' = [chat EXCEPT !.state = "requested"]
    /\ UNCHANGED <<decline, queue, client, diff, raced>>

\* AcceptEncryption, under a lock of the row.
AcceptEncryption(d) ==
    /\ chat.state = "requested" /\ chat.to_sess = Nobody /\ ~chat.discarded
    /\ chat' = [chat EXCEPT !.to_sess = d]
    /\ UNCHANGED <<decline, queue, client, diff, raced>>

\* DiscardEncryption reads the row without a lock: it may be accepted meanwhile.
DiscardEncryption(by) ==
    /\ chat.state = "requested" /\ ~chat.discarded /\ decline = Nobody
    /\ by = "asker" \/ chat.to_sess \in {Nobody, by}
    /\ decline' = by
    /\ UNCHANGED <<chat, queue, client, diff, raced>>

SaveDiscard ==
    /\ decline # Nobody
    /\ chat' = [chat EXCEPT !.discarded = TRUE]
    /\ decline' = Nobody
    /\ UNCHANGED <<queue, client, diff, raced>>

-----------------------------------------------------------------------------
(* The queue *)

Underway == {sending[s] : s \in Senders} \ {0}

\* SendEncrypted and ReadEncryptedHistory: _get_secret_chat, then _inc_qts,
\* which locks the authorization.
IncQts(s) ==
    /\ chat.to_sess # Nobody /\ ~chat.discarded
    /\ sending[s] = 0 /\ upd_qts < MaxQts
    /\ upd_qts' = upd_qts + 1
    /\ sending' = [sending EXCEPT ![s] = upd_qts + 1]
    /\ UNCHANGED <<handshake, rows, lastId, client, diff, raced>>

\* The row is inserted and the update pushed; the client may be offline, and
\* takes only the update that comes next.
SendEncrypted(s, online) ==
    LET q == sending[s] IN
    /\ q # 0
    /\ rows' = [rows EXCEPT ![q] = lastId + 1]
    /\ lastId' = lastId + 1
    /\ sending' = [sending EXCEPT ![s] = 0]
    /\ client' = IF online /\ q = client.qts + 1
                 THEN [qts |-> q, got |-> client.got \cup {q}] ELSE client
    /\ raced' = IF \E u \in Underway : u < q THEN raced \cup {q} ELSE raced
    /\ UNCHANGED <<handshake, upd_qts, diff>>

\* The last row the client has, by qts, counts as the last it has by id.
LastLocal(q) ==
    LET have == {r \in Qts : r <= q /\ rows[r] # 0} IN
    IF have = {} THEN 0 ELSE rows[CHOOSE r \in have : \A x \in have : x <= r]

\* getDifference reads the id,
DifferenceBegins ==
    /\ chat.to_sess # Nobody
    /\ diff = NoDiff
    /\ diff' = [NoDiff EXCEPT !.step = "rows", !.after = LastLocal(client.qts)]
    /\ UNCHANGED <<handshake, queue, client, raced>>

\* the rows after it,
DifferenceReads ==
    /\ diff.step = "rows"
    /\ diff' = [diff EXCEPT !.step = "state",
                            !.found = {q \in Qts : rows[q] > diff.after},
                            !.missing = Underway \cup {q \in Qts : q > upd_qts}]
    /\ UNCHANGED <<handshake, queue, client, raced>>

\* and upd_qts, which the client takes for its own.
DifferenceEnds ==
    /\ diff.step = "state"
    /\ client' = IF diff.found = {} THEN client
                 ELSE [qts |-> upd_qts, got |-> client.got \cup diff.found]
    /\ raced' = raced \cup {q \in diff.missing : q <= upd_qts}
    /\ diff' = NoDiff
    /\ UNCHANGED <<handshake, queue>>

\* Mutant: receivedQueue deletes the whole queue.
ReceivedAll ==
    /\ chat.to_sess # Nobody /\ client.qts > 0 /\ diff = NoDiff
    /\ rows' = [q \in Qts |-> 0]
    /\ UNCHANGED <<handshake, upd_qts, lastId, sending, client, diff, raced>>

\* receivedQueue(max_qts), by a client that is not in a difference.
ReceivedQueue ==
    /\ chat.to_sess # Nobody /\ client.qts > 0 /\ diff = NoDiff
    /\ rows' = [q \in Qts |-> IF q <= client.qts THEN 0 ELSE rows[q]]
    /\ UNCHANGED <<handshake, upd_qts, lastId, sending, client, diff, raced>>

Next ==
    \/ RequestEncryption \/ SaveDiscard
    \/ \E d \in Devices : AcceptEncryption(d)
    \/ \E by \in {"asker"} \cup Devices : DiscardEncryption(by)
    \/ \E s \in Senders : IncQts(s) \/ \E online \in BOOLEAN : SendEncrypted(s, online)
    \/ DifferenceBegins \/ DifferenceReads \/ DifferenceEnds \/ ReceivedQueue

Spec == Init /\ [][Next]_vars

-----------------------------------------------------------------------------
(* Properties *)

\* A secret update that was sent has been got by the client, or the next
\* difference returns it: it is neither deleted nor passed over, unless it was
\* being sent while a difference was read, or it overtook one with a lower qts
\* (getDifference goes from the qts of the client to the id of a row).
SecretsAreKept ==
    diff = NoDiff =>
        \A q \in Qts : q <= upd_qts =>
            \/ q \in client.got \cup raced \cup Underway
            \/ rows[q] > LastLocal(client.qts)

=============================================================================
