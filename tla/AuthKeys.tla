------------------------------ MODULE AuthKeys ------------------------------
(***************************************************************************)
(* The auth keys of a device: how the gateway generates them with it, how  *)
(* it finds the key of a packet, and how a temporary key is bound to the   *)
(* permanent one.                                                          *)
(*                                                                         *)
(* A connection has a receive loop that handles one packet at a time, and  *)
(* what is generated over it (gen_auth_data).  Primes and powers are       *)
(* computed in an executor, rows are read and written with awaits: the     *)
(* connection may be lost at each of them.  A bind runs in a worker and    *)
(* goes on without its connection.                                         *)
(*                                                                         *)
(* A key is named by the number of the ResPQ that it comes from (its       *)
(* server_nonce): the client computes another key only after another one.  *)
(* Arithmetic, hashes and ciphers are left out: a packet that they refuse  *)
(* is not sent.  The device has a permanent key, to which it binds.        *)
(***************************************************************************)
EXTENDS Integers, Sequences

CONSTANTS
    Conns,      \* connections of the device
    MaxKeys,    \* bound: ResPQ answers
    Budgets     \* bounds: [repeats, binds, mishaps], messages sent again, binds, and
                \* connections lost, rows not written, keys that expire

VARIABLES
    row,        \* key -> its row: none, perm, free, bound or expired (free or bound)
    unknown,    \* _unknown_auth_key_ids: keys of which there was no row
    ses,        \* key -> its stored session: none, or whether it knows the permanent key
    made,       \* keys begun so far
    conn,       \* connection -> its receive loop, gen_auth_data and active_keys
    inbox,      \* connection -> packets that have arrived
    client,     \* connection -> where the client is in its handshake
    asked,      \* key -> the kind of key the client asked for
    told,       \* key -> what the client was told of it: none, made, bound or refused
    binds,      \* binds the workers run
    cause,      \* what the properties are about: the key bound last, whether two binds
                \* were under way at once, keys that expired bound, and deleted keys
                \* of which the row was made again
    left        \* the rest of the budget

vars == <<row, unknown, ses, made, conn, inbox, client, asked, told, binds, cause, left>>

Keys == 1..MaxKeys
NoKey == 0
Packet(do, n, k, kind) == [do |-> do, n |-> n, key |-> k, kind |-> kind]
NoPacket == Packet("none", 0, NoKey, "none")
NoGen == [key |-> NoKey, ready |-> FALSE, kind |-> "none"]
NewConn == [at |-> "read", packet |-> NoPacket, gen |-> NoGen, known |-> {}]
Rested(n) == [n |-> n, at |-> "rest", key |-> NoKey]

Stored == {k \in Keys : row[k] # "none"}
Registered == {k \in Keys : row[k] \notin {"none", "expired"}}
BoundKeys == {k \in Keys : row[k] = "bound"} \cup {k \in cause.lapsed : row[k] = "expired"}

Init ==
    /\ row = [k \in Keys |-> "none"] /\ unknown = {} /\ ses = [k \in Keys |-> "none"]
    /\ made = 0
    /\ conn = [c \in Conns |-> NewConn]
    /\ inbox = [c \in Conns |-> <<>>]
    /\ client = [c \in Conns |-> Rested(0)]
    /\ asked = [k \in Keys |-> "none"] /\ told = [k \in Keys |-> "none"]
    /\ binds = {}
    /\ cause = [last |-> NoKey, overlapped |-> FALSE, lapsed |-> {}, again |-> {}]
    /\ left \in Budgets

Spend(what) == left[what] > 0 /\ left' = [left EXCEPT ![what] = @ - 1]

-----------------------------------------------------------------------------
(* The client.  It knows an answer by its nonce, here the number of the      *)
(* attempt, and sends no packet with a key before it was told that it is     *)
(* made.                                                                     *)

Sends(c, p) == inbox' = [inbox EXCEPT ![c] = Append(@, p)]
Unsent == <<row, unknown, ses, made, conn, told, binds, cause>>

AsksPq(c) ==
    /\ client[c].at \in {"rest", "pq", "dh", "made"}
    /\ IF client[c].at = "rest" THEN made < MaxKeys /\ UNCHANGED left ELSE Spend("repeats")
    /\ client' = [client EXCEPT ![c] = [n |-> @.n + 1, at |-> "pq", key |-> NoKey]]
    /\ Sends(c, Packet("req_pq", client[c].n + 1, NoKey, "none"))
    /\ UNCHANGED <<Unsent, asked>>
AsksDh(c, kind) ==
    /\ client[c].at = "has_pq"
    /\ client' = [client EXCEPT ![c].at = "dh"]
    /\ asked' = [asked EXCEPT ![client[c].key] = kind]
    /\ Sends(c, Packet("req_dh", client[c].n, client[c].key, kind))
    /\ UNCHANGED <<Unsent, left>>
SendsDh(c) ==
    /\ \/ client[c].at = "has_dh" /\ UNCHANGED left
       \/ client[c].at = "made" /\ Spend("repeats")
    /\ client' = [client EXCEPT ![c].at = "made"]
    /\ Sends(c, Packet("set_dh", client[c].n, client[c].key, "none"))
    /\ UNCHANGED <<Unsent, asked>>
AsksBind(c, k) ==
    /\ client[c].at = "rest" /\ told[k] \in {"made", "bound"} /\ asked[k] = "temp"
    /\ Spend("binds")
    /\ client' = [client EXCEPT ![c] = [n |-> @.n, at |-> "bind", key |-> k]]
    /\ Sends(c, Packet("bind", client[c].n, k, "temp"))
    /\ UNCHANGED <<Unsent, asked>>

\* What the client makes of an answer to the packet p.
Answered(c, p, at, k) ==
    client' = IF client[c].n = p.n /\ client[c].at = at[1]
              THEN [client EXCEPT ![c] = [n |-> p.n, at |-> at[2], key |-> k]] ELSE client
Hears(c, p) == client[c].n = p.n /\ client[c].at = (IF p.do = "bind" THEN "bind" ELSE "made")

-----------------------------------------------------------------------------
(* The receive loop *)

At(c, at) == conn[c].at = at
Goes(c, at, p) == conn' = [conn EXCEPT ![c].at = at, ![c].packet = p]
Reads(c, gen) == conn' = [conn EXCEPT ![c].at = "read", ![c].packet = NoPacket, ![c].gen = gen]

\* The connection is closed: what was to be read over it is lost, its task is
\* cancelled, and the client begins anew.
Disconnects(c) ==
    /\ conn' = [conn EXCEPT ![c] = NewConn]
    /\ inbox' = [inbox EXCEPT ![c] = <<>>]
    /\ client' = [client EXCEPT ![c] = Rested(@.n + 1)]
\* With 404 the client gives the key of the packet up.
Refuses(c, k) ==
    /\ Disconnects(c)
    /\ told' = [told EXCEPT ![k] = "refused"]

\* reqPQ requests that wait one after the other: the last of those read is answered.
SkippedPq(c) ==
    {i \in 1..Len(inbox[c]) : \A j \in 1..i : inbox[c][j].do = "req_pq"}

Dropped(c, i) == inbox' = [inbox EXCEPT ![c] = SubSeq(@, i + 1, Len(@))]
TakesPq(c) ==
    /\ At(c, "read") /\ made < MaxKeys
    /\ \E i \in SkippedPq(c) : Goes(c, "pq", inbox[c][i]) /\ Dropped(c, i)
    /\ UNCHANGED <<row, unknown, ses, made, client, asked, told, binds, cause, left>>

\* set_client_dh_params takes gen_auth_data before it waits for the executor; the
\* loop handles nothing else meanwhile.
Takes(c, do) ==
    /\ At(c, "read") /\ inbox[c] # <<>> /\ inbox[c][1].do = do
    /\ Goes(c, do, inbox[c][1]) /\ Dropped(c, 1)
    /\ UNCHANGED <<row, unknown, ses, made, client, asked, told, binds, cause, left>>

\* req_pq: a new GenAuthData, whatever was under way.
req_pq(c) ==
    LET p == conn[c].packet IN
    /\ At(c, "pq") /\ made < MaxKeys
    /\ made' = made + 1
    /\ Reads(c, [NoGen EXCEPT !.key = made'])
    /\ Answered(c, p, <<"pq", "has_pq">>, made')
    /\ UNCHANGED <<row, unknown, ses, inbox, asked, told, binds, cause, left>>

\* The handlers' checks of nonces: a packet of another generation closes the
\* connection.  The client sends none, for its packets arrive in order.
OfThisGen(c, p) == conn[c].gen.key # NoKey /\ conn[c].gen.key = p.key
\* Mutant: the kind that was asked for is forgotten.
AlwaysPerm(c, p) == [conn[c].gen EXCEPT !.ready = TRUE, !.kind = "perm"]
Agreed(c, p) == [conn[c].gen EXCEPT !.ready = TRUE, !.kind = p.kind]
req_dh_params(c) ==
    LET p == conn[c].packet IN
    /\ At(c, "req_dh") /\ OfThisGen(c, p)
    /\ Reads(c, Agreed(c, p))
    /\ Answered(c, p, <<"dh", "has_dh">>, p.key)
    /\ UNCHANGED <<row, unknown, ses, made, inbox, asked, told, binds, cause, left>>

\* create_key.  That the row is there already, from the same packet sent before,
\* is no error; nor is it that the row was there and was deleted meanwhile.
create_key(k, kind) ==
    /\ row' = IF row[k] = "none" THEN [row EXCEPT ![k] = IF kind = "temp" THEN "free" ELSE kind] ELSE row
    /\ cause' = IF row[k] = "none" /\ told[k] # "none" THEN [cause EXCEPT !.again = @ \cup {k}] ELSE cause
KeyIsStored(c) ==
    LET p == conn[c].packet IN
    /\ At(c, "set_dh") /\ OfThisGen(c, p) /\ conn[c].gen.ready
    /\ create_key(p.key, conn[c].gen.kind)
    /\ Goes(c, "stored", p)
    /\ UNCHANGED <<unknown, ses, made, inbox, client, asked, told, binds, left>>
\* The row cannot be written: DhGenFail, and the connection is closed.
KeyIsNotStored(c) ==
    /\ At(c, "set_dh") /\ OfThisGen(c, conn[c].packet) /\ conn[c].gen.ready
    /\ Spend("mishaps")
    /\ Disconnects(c)
    /\ UNCHANGED <<row, unknown, ses, made, asked, told, binds, cause>>

\* DhGenOk
Confirms(c, k) ==
    /\ Answered(c, conn[c].packet, <<"made", "rest">>, NoKey)
    /\ told' = IF Hears(c, conn[c].packet) THEN [told EXCEPT ![k] = "made"] ELSE told
set_client_dh_params(c) ==
    /\ At(c, "stored")
    /\ Confirms(c, conn[c].packet.key)
    /\ Reads(c, conn[c].gen)
    /\ UNCHANGED <<row, unknown, ses, made, inbox, asked, binds, cause, left>>

-----------------------------------------------------------------------------
(* A packet of a key: a bind *)

\* The key is in active_keys and its session is there: nothing is read.
Known(c, k) == k \in conn[c].known /\ ses[k] # "none"
FindsKey(c) ==
    LET k == conn[c].packet.key IN
    /\ At(c, "bind") /\ Known(c, k)
    /\ Goes(c, "gate", conn[c].packet)
    /\ UNCHANGED <<row, unknown, ses, made, inbox, client, asked, told, binds, cause, left>>

\* Mutant: an expired key is not found.
FoundIfLive(k) == k \in Registered
Found(k) == k \in Stored

\* _get_auth_data: an id that was not found is not looked up again.  An expired
\* key is found.  A session that is not there gets what was read.
GetsAuthData(c) ==
    LET k == conn[c].packet.key IN
    /\ At(c, "bind") /\ ~Known(c, k) /\ k \notin unknown /\ Found(k)
    /\ conn' = [conn EXCEPT ![c].at = "gate", ![c].known = @ \cup {k}]
    /\ ses' = IF ses[k] = "none" THEN [ses EXCEPT ![k] = IF k \in BoundKeys THEN "bound" ELSE "free"]
              ELSE ses
    /\ UNCHANGED <<row, unknown, made, inbox, client, asked, told, binds, cause, left>>
KeyIsUnknown(c) ==
    LET k == conn[c].packet.key IN
    /\ At(c, "bind") /\ ~Known(c, k) /\ (k \in unknown \/ ~Found(k))
    /\ unknown' = unknown \cup {k}
    /\ Refuses(c, k)
    /\ UNCHANGED <<row, ses, made, asked, binds, cause, left>>

\* The gate, which is passed twice: what the second reads decides, for a key
\* that was refused once would be refused again.
GateRefuses(c) ==
    LET k == conn[c].packet.key IN
    /\ At(c, "gate") /\ k \notin Registered
    /\ Refuses(c, k)
    /\ UNCHANGED <<row, unknown, ses, made, asked, binds, cause, left>>
GateOpens(c) ==
    LET k == conn[c].packet.key IN
    /\ At(c, "gate") /\ k \in Registered
    /\ Goes(c, "wait", conn[c].packet)
    /\ binds' = binds \cup {[c |-> c, n |-> conn[c].packet.n, key |-> k, at |-> "check", knew |-> ses[k] = "bound"]}
    /\ cause' = [cause EXCEPT !.overlapped = @ \/ binds # {}]
    /\ UNCHANGED <<row, unknown, ses, made, inbox, client, asked, told, left>>

-----------------------------------------------------------------------------
(* bind_temp_auth_key, in a worker *)

Waits(b) == At(b.c, "wait") /\ conn[b.c].packet.n = b.n /\ conn[b.c].packet.key = b.key
\* The forced refresh after the answer reads the key.  One that is not registered
\* leaves the session without auth_data, of no use.
KnowsNow(k) == IF k \notin Registered THEN "none" ELSE IF row[k] = "bound" THEN "bound" ELSE "free"
BindAnswers(b, ok) ==
    /\ binds' = binds \ {b}
    /\ IF Waits(b)
       THEN /\ conn' = [conn EXCEPT ![b.c].at = "read", ![b.c].packet = NoPacket]
            /\ client' = [client EXCEPT ![b.c] = Rested(@.n)]
            /\ told' = IF ok THEN [told EXCEPT ![b.key] = "bound"] ELSE told
            /\ ses' = [ses EXCEPT ![b.key] = KnowsNow(b.key)']
       ELSE UNCHANGED <<conn, client, told, ses>>

\* Bound already, or expired or deleted since the gate.
BindFails(b) ==
    /\ b.at = "check" /\ (b.knew \/ b.key \notin Registered)
    /\ UNCHANGED row
    /\ BindAnswers(b, FALSE)
    /\ UNCHANGED <<unknown, made, inbox, asked, cause, left>>

\* Mutant: the key that is being bound is not left out.
AllBound(k) == BoundKeys
\* The rows the first statement deletes.
OthersBound(k) == BoundKeys \ {k}
BindDeletes(b) ==
    /\ b.at = "check" /\ ~b.knew /\ b.key \in Registered
    /\ row' = [k \in Keys |-> IF k \in OthersBound(b.key) THEN "none" ELSE row[k]]
    /\ cause' = [cause EXCEPT !.lapsed = @ \ OthersBound(b.key)]
    /\ binds' = (binds \ {b}) \cup {[b EXCEPT !.at = "update"]}
    /\ UNCHANGED <<unknown, ses, made, conn, inbox, client, asked, told, left>>

\* The update of no row is no error; that of a second row to one permanent key is.
BindUpdates(b) ==
    /\ b.at = "update" /\ BoundKeys \subseteq {b.key}
    /\ row' = IF row[b.key] = "free" THEN [row EXCEPT ![b.key] = "bound"] ELSE row
    /\ cause' = [cause EXCEPT !.last = b.key,
                              !.lapsed = IF row[b.key] = "expired" THEN @ \cup {b.key} ELSE @]
    /\ BindAnswers(b, TRUE)
    /\ UNCHANGED <<unknown, made, inbox, asked, left>>
BindClashes(b) ==
    /\ b.at = "update" /\ ~(BoundKeys \subseteq {b.key})
    /\ UNCHANGED row
    /\ BindAnswers(b, FALSE)
    /\ UNCHANGED <<unknown, made, inbox, asked, cause, left>>

-----------------------------------------------------------------------------
(* What happens to connections, keys and sessions *)

ConnectionIsLost(c) ==
    /\ conn[c] # NewConn \/ inbox[c] # <<>> \/ client[c].at # "rest"
    /\ Spend("mishaps")
    /\ Disconnects(c)
    /\ UNCHANGED <<row, unknown, ses, made, asked, told, binds, cause>>
Expires(k) ==
    /\ row[k] \in {"free", "bound"}
    /\ Spend("mishaps")
    /\ row' = [row EXCEPT ![k] = "expired"]
    /\ cause' = [cause EXCEPT !.lapsed = IF row[k] = "bound" THEN @ \cup {k} ELSE @]
    /\ UNCHANGED <<unknown, ses, made, conn, inbox, client, asked, told, binds>>
\* Ten minutes without a connection.
SessionEnds(k) ==
    /\ ses[k] # "none" /\ \A c \in Conns : k \notin conn[c].known
    /\ ses' = [ses EXCEPT ![k] = "none"]
    /\ UNCHANGED <<row, unknown, made, conn, inbox, client, asked, told, binds, cause, left>>

Next ==
    \/ \E c \in Conns :
          \/ AsksPq(c) \/ SendsDh(c) \/ \E kind \in {"perm", "temp"} : AsksDh(c, kind)
          \/ \E k \in Keys : AsksBind(c, k)
          \/ TakesPq(c) \/ \E do \in {"req_dh", "set_dh", "bind"} : Takes(c, do)
          \/ req_pq(c) \/ req_dh_params(c)
          \/ KeyIsStored(c) \/ KeyIsNotStored(c) \/ set_client_dh_params(c)
          \/ FindsKey(c) \/ GetsAuthData(c) \/ KeyIsUnknown(c) \/ GateRefuses(c) \/ GateOpens(c)
          \/ ConnectionIsLost(c)
    \/ \E b \in binds : BindFails(b) \/ BindDeletes(b) \/ BindUpdates(b) \/ BindClashes(b)
    \/ \E k \in Keys : Expires(k) \/ SessionEnds(k)

Spec == Init /\ [][Next]_vars

-----------------------------------------------------------------------------
(* Properties *)

AnotherIsBound(k) ==
    cause.last \notin {k, NoKey} \/ \E b \in binds : b.key # k /\ b.at = "update"
\* A key that the client was told is made is stored, and of the kind it asked
\* for, until it is deleted for another one that is bound
\* (set_client_dh_params, create_key).
KeysAreAgreed ==
    \A k \in Keys : told[k] = "made" =>
        \/ row[k] = "perm" /\ asked[k] = "perm"
        \/ row[k] \in {"free", "bound", "expired"} /\ asked[k] = "temp"
        \/ row[k] = "none" /\ asked[k] = "temp" /\ AnotherIsBound(k)

\* An id that the gateway remembers as unknown is not the id of a stored key:
\* nobody is refused for ever with a key that is good (_get_auth_data).  Not so
\* of a key that was deleted for another one, and whose row was made again by a
\* set_client_DH_params that was sent twice.
StoredIsNotUnknown == unknown \cap Stored \subseteq cause.again

\* When no bind is under way and no two ever were at once, the key bound last is
\* bound, and it alone (bind_temp_auth_key).
LastBindHolds ==
    binds = {} /\ ~cause.overlapped /\ cause.last # NoKey => BoundKeys = {cause.last}

-----------------------------------------------------------------------------
(* What they follow from *)

Kinds == {"none", "perm", "temp"}
Packets ==
    [do : {"none", "req_pq", "req_dh", "set_dh", "bind"}, n : Nat, key : Keys \cup {NoKey}, kind : Kinds]
TypeOK ==
    /\ row \in [Keys -> {"none", "perm", "free", "bound", "expired"}] /\ unknown \subseteq Keys
    /\ made \in 0..MaxKeys
    /\ conn \in [Conns -> [at : {"read", "pq", "req_dh", "set_dh", "stored", "bind", "gate", "wait"},
                           packet : Packets, known : SUBSET Keys,
                           gen : [key : Keys \cup {NoKey}, ready : BOOLEAN, kind : Kinds]]]
    /\ inbox \in [Conns -> Seq(Packets)]
    /\ client \in [Conns -> [n : Nat, key : Keys \cup {NoKey},
                             at : {"rest", "pq", "has_pq", "dh", "has_dh", "made", "bind"}]]
    /\ asked \in [Keys -> Kinds] /\ told \in [Keys -> {"none", "made", "bound", "refused"}]
    /\ binds \subseteq [c : Conns, n : Nat, key : Keys, at : {"check", "update"}, knew : BOOLEAN]
    /\ cause \in [last : Keys \cup {NoKey}, overlapped : BOOLEAN, lapsed : SUBSET Keys, again : SUBSET Keys]

\* What is asked for and what is bound are keys the client knows.
PacketFits(p) ==
    /\ p.do = "req_dh" => p.key \in Keys /\ p.kind # "none" /\ asked[p.key] = p.kind
    /\ p.do = "bind" => p.key \in Keys /\ asked[p.key] = "temp" /\ told[p.key] # "none"
ConnFits(c) ==
    /\ PacketFits(conn[c].packet)
    /\ At(c, "req_dh") => conn[c].packet.do = "req_dh"
    /\ conn[c].at \in {"bind", "gate", "wait"} => conn[c].packet.do = "bind"
    /\ At(c, "stored") => conn[c].packet.key \in Keys
    /\ LET g == conn[c].gen IN g.ready => g.key \in Keys /\ g.kind # "none" /\ asked[g.key] = g.kind
PacketsFit == \A c \in Conns : ConnFits(c) /\ \A i \in 1..Len(inbox[c]) : PacketFits(inbox[c][i])
BindsFit == \A b \in binds : asked[b.key] = "temp" /\ told[b.key] # "none"

\* A key is asked for once, by the client it was made for.
AskedOnce ==
    /\ \A c \in Conns : client[c].at = "has_pq" => client[c].key \in 1..made /\ asked[client[c].key] = "none"
    /\ \A c, d \in Conns :
           client[c].at = "has_pq" /\ client[d].at = "has_pq" /\ client[c].key = client[d].key => c = d
    /\ \A k \in Keys : k > made => asked[k] = "none"

RowsAsAsked ==
    \A k \in Keys : /\ row[k] = "perm" => asked[k] = "perm"
                    /\ row[k] \in {"free", "bound", "expired"} => asked[k] = "temp"
\* The row was there, and was deleted: it was bound, so that somebody was or is
\* about to be bound instead.
Lost(k) ==
    /\ row[k] = "none"
    /\ told[k] # "none" \/ \E c \in Conns : At(c, "stored") /\ conn[c].packet.key = k
Updating(b) == b.at = "update"
LostForAnother ==
    /\ \A k \in Keys : Lost(k) => asked[k] = "temp"
    /\ (\E k \in Keys : Lost(k)) => BoundKeys # {} \/ \E b \in binds : Updating(b) /\ row[b.key] # "none"
OneBound == BoundKeys \subseteq {cause.last} /\ \A k \in cause.lapsed : row[k] = "expired"
\* Of binds that do not overlap.
OneBinds ==
    ~cause.overlapped =>
        /\ \A b, d \in binds : b = d
        /\ \A b \in binds : Updating(b) => row[b.key] \in {"free", "bound", "expired"} /\ BoundKeys \subseteq {b.key}
        /\ (\A b \in binds : ~Updating(b)) /\ cause.last # NoKey => BoundKeys = {cause.last}
UnknownAreLost == \A k \in unknown : told[k] # "none" /\ (row[k] = "none" \/ k \in cause.again)

KeysInv ==
    /\ TypeOK /\ PacketsFit /\ BindsFit /\ AskedOnce
    /\ RowsAsAsked /\ LostForAnother /\ OneBound /\ OneBinds /\ UnknownAreLost
=============================================================================
