------------------------------- MODULE Outbox -------------------------------
(***************************************************************************)
(* What a session promises about the messages it is given to send, without *)
(* its connections, locks and tasks: they are first written in the order   *)
(* they were given; a message that was written is kept, and may be written *)
(* again, until the peer acknowledges it; and as long as the session is    *)
(* stored no message is lost but one that was being written first.         *)
(***************************************************************************)
EXTENDS Integers

VARIABLES
    last,       \* messages are 1, 2, ... last
    waiting,    \* those whose first write has not ended
    kept,       \* those that are kept to be written again
    got,        \* those that have reached the peer
    acked,      \* those that the peer has acknowledged
    lost,       \* those whose first write was broken off
    over        \* the session is no longer stored

vars == <<last, waiting, kept, got, acked, lost, over>>

First(m) == m \in waiting /\ \A k \in waiting : m <= k

Init ==
    /\ last = 0
    /\ waiting = {} /\ kept = {} /\ got = {} /\ acked = {} /\ lost = {}
    /\ over = FALSE

Enqueue ==
    /\ last' = last + 1
    /\ waiting' = waiting \cup {last + 1}
    /\ UNCHANGED <<kept, got, acked, lost, over>>

\* A message arrives: the first that waits, or again one that was kept.
Arrive(m) ==
    /\ First(m) \/ m \in kept \cup acked \/ over
    /\ got' = got \cup {m}
    /\ UNCHANGED <<last, waiting, kept, acked, lost, over>>

\* Its first write ends, well or not.
Keep(m) ==
    /\ First(m)
    /\ waiting' = waiting \ {m}
    /\ kept' = kept \cup {m}
    /\ UNCHANGED <<last, got, acked, lost, over>>

Lose(m) ==
    /\ First(m)
    /\ waiting' = waiting \ {m}
    /\ lost' = lost \cup {m}
    /\ UNCHANGED <<last, kept, got, acked, over>>

\* The peer acknowledges what it has got, and it is not kept any more.
Acknowledge(m) ==
    /\ m \in got
    /\ acked' = acked \cup {m}
    /\ kept' = kept \ {m}
    /\ UNCHANGED <<last, waiting, got, lost, over>>

\* The session is removed with what it has, but for a write in progress.
End ==
    /\ ~over /\ over' = TRUE
    /\ waiting' = {} \/ \E m \in waiting : First(m) /\ waiting' = {m}
    /\ lost' = lost \/ \E m \in waiting : First(m) /\ lost' = lost \cup {m}
    /\ kept' = {}
    /\ UNCHANGED <<last, got, acked>>

Next ==
    \/ Enqueue \/ End
    \/ \E m \in 1 .. last : Arrive(m) \/ Keep(m) \/ Lose(m) \/ Acknowledge(m)

Spec == Init /\ [][Next]_vars
=============================================================================
