------------------------------- MODULE Salts -------------------------------
(***************************************************************************)
(* The salt and the clock of the messages of a session.  A salt is good    *)
(* for half an hour, and is named here by the half-hour it was made for; a *)
(* message is accepted with the salt of the session's half-hour or of the  *)
(* one before.  The session's half-hour is brought up to date when it      *)
(* comes to a connection and before a message is written to the client,    *)
(* but not when one is read.                                               *)
(*                                                                         *)
(* The client sends one message until it is accepted, with the salt it was *)
(* told last or one it has from a list of future salts, and an id made     *)
(* with its clock.                                                         *)
(***************************************************************************)
EXTENDS Integers

CONSTANTS
    MaxTime,    \* bound: half-hours
    MaxLists,   \* bound: lists of future salts
    MaxSet,     \* bound: times the client's clock is set wrong
    Ahead       \* salts in a list (a client asks for 1 to 64)

VARIABLES
    now,        \* the half-hour
    at,         \* the session's half-hour (salt_now.valid_at)
    client,     \* what the client has: a salt, future salts, and its clock
    sent,       \* the message on its way
    answer,     \* what is queued for the client
    refusals,   \* refusals for the salt, and for the id, since the half-hour changed
    left        \* the rest of the bounds

vars == <<now, at, client, sent, answer, refusals, left>>

Nothing == [do |-> "none", salt |-> 0]
Is(do, salt) == [do |-> do, salt |-> salt]
Never == [salt |-> 0, id |-> 0]

Init ==
    /\ now = 1 /\ at = 1
    /\ client = [salt |-> -1, future |-> {}, clock |-> "right"]
    /\ sent = Nothing /\ answer = Nothing
    /\ refusals = Never
    /\ left = [lists |-> MaxLists, set |-> MaxSet]

TimePasses ==
    /\ now < MaxTime
    /\ now' \in now + 1 .. MaxTime
    /\ refusals' = Never
    /\ UNCHANGED <<at, client, sent, answer, left>>
ClockIsWrong ==
    /\ left.set > 0 /\ left' = [left EXCEPT !.set = @ - 1]
    /\ client' \in {[client EXCEPT !.clock = k] : k \in {"late", "early"}}
    /\ refusals' = Never
    /\ UNCHANGED <<now, at, sent, answer>>

\* A salt of the list, if the client has the one it takes for the present one.
HasSalt == IF now \in client.future THEN now ELSE client.salt
Sends ==
    /\ sent = Nothing /\ answer = Nothing
    /\ sent' = Is(client.clock, HasSalt)
    /\ UNCHANGED <<now, at, client, answer, refusals, left>>

\* update_salts_maybe
UpToDate == at' = now

\* is_message_bad: first the id, more than 300 s late or 30 s early, ...
BadId(m) == m.do \in {"late", "early"}
\* ... then the salt.
Accepted == {at, at - 1}
\* Mutant: the salt of the next half-hour is told.
NextSalt == at + 1
NewServerSalt == at
Refuses ==
    /\ sent # Nothing
    /\ \/ /\ BadId(sent)
          /\ answer' = Is("bad_id", 0)
          /\ refusals' = [refusals EXCEPT !.id = @ + 1]
       \/ /\ ~BadId(sent) /\ sent.salt \notin Accepted
          /\ answer' = Is("bad_salt", NewServerSalt)
          /\ refusals' = [refusals EXCEPT !.salt = @ + 1]
    /\ sent' = Nothing
    /\ UNCHANGED <<now, at, client, left>>
\* The answer may be a list of future salts, from the present one.
Accepts ==
    /\ sent # Nothing /\ ~BadId(sent) /\ sent.salt \in Accepted
    /\ refusals' = Never
    /\ \/ answer' = Is("done", 0) /\ UNCHANGED left
       \/ /\ left.lists > 0 /\ left' = [left EXCEPT !.lists = @ - 1]
          /\ answer' = Is("list", now)
    /\ sent' = Nothing
    /\ UNCHANGED <<now, at, client>>

\* _write_message.  The client does as it is told: it sets its clock by the id of
\* the answer, and gives up its list for the salt.
Writes ==
    /\ answer # Nothing
    /\ UpToDate
    /\ client' = CASE answer.do = "bad_id"   -> [client EXCEPT !.clock = "right"]
                   [] answer.do = "bad_salt" -> [client EXCEPT !.salt = answer.salt, !.future = {}]
                   [] answer.do = "list"     -> [client EXCEPT !.future = answer.salt .. answer.salt + Ahead - 1]
                   [] answer.do = "done"     -> client
    /\ answer' = Nothing
    /\ UNCHANGED <<now, sent, refusals, left>>

\* The connection is lost; with the next, the session is up to date.
Reconnects ==
    /\ sent # Nothing \/ answer # Nothing
    /\ UpToDate
    /\ sent' = Nothing /\ answer' = Nothing
    /\ refusals' = Never
    /\ UNCHANGED <<now, client, left>>

Next ==
    \/ TimePasses \/ ClockIsWrong \/ Sends \/ Refuses \/ Accepts \/ Writes \/ Reconnects

Spec == Init /\ [][Next]_vars

-----------------------------------------------------------------------------
\* A client that does as it is told is refused at most once for the id of a
\* message and twice for its salt, unless time passes meanwhile: the salt of the
\* first refusal may be an old one, that of the second is not (is_message_bad,
\* update_salts_maybe).
RefusedTwiceAtMost == refusals.id <= 1 /\ refusals.salt <= 2

TypeOK ==
    /\ now \in Int /\ at \in Int
    /\ client \in [salt : Int, future : SUBSET Int, clock : {"right", "late", "early"}]
    /\ sent \in [do : {"none", "right", "late", "early"}, salt : Int]
    /\ answer \in [do : {"none", "bad_id", "bad_salt", "list", "done"}, salt : Int]
    /\ (sent = Nothing <=> sent.do = "none") /\ (answer = Nothing <=> answer.do = "none")
    /\ refusals \in [salt : 0..2, id : 0..1]

\* It follows because the client has set its clock, or will, after the first
\* refusal of an id; and because the first refusal of a salt brings the session
\* up to date when it is written, so that the second tells the present salt.
SaltsInv ==
    /\ TypeOK
    /\ sent.do = "none" \/ answer.do = "none"
    /\ refusals.id = 1 => ~BadId(sent) /\ (answer.do = "bad_id" \/ client.clock = "right")
    /\ refusals.salt # 0 => answer.do = "bad_salt" \/ at = now
    /\ refusals.salt = 2 =>
           /\ at = now /\ answer.do # "list"
           /\ IF answer.do = "bad_salt" THEN answer.salt = now
              ELSE client.salt = now /\ client.future = {} /\ (sent.do = "none" \/ sent.salt = now)
=============================================================================
