----------------------------- MODULE PhoneCalls -----------------------------
(***************************************************************************)
(* Calls between two users (app/handlers/phone.py): one device of the      *)
(* caller, several of the one who is called.  A handler that locks the row *)
(* is one step; one that reads the row and writes it later is two.  Left   *)
(* out: Diffie-Hellman values and protocols, privacy and spam checks, the  *)
(* duration, and the pushes, which carry the row as it is then.            *)
(***************************************************************************)
EXTENDS Integers, FiniteSets

CONSTANTS
    Devices, \* devices of the one who is called
    CallIds, \* bound: the calls of a behaviour, a set of numbers
    Handlers, \* requests that can be handled at once
    MaxHandled \* bound: requests of a behaviour

VARIABLES
    calls,  \* call -> its PhoneCall row, or one that is not there yet
    logged, \* call -> how often its service messages were sent
    doing,  \* request -> what it is doing
    allow,  \* devices with allow_call_requests
    raced,  \* what the properties make allowance for
    handled \* requests that can still come

vars == <<calls, logged, doing, allow, raced, handled>>

Nobody == "nobody"
NoCall == [state |-> "none", to_sess |-> Nobody, g_b |-> Nobody, started |-> FALSE]
Free == [op |-> "none", by |-> Nobody, c |-> 0, todo |-> {}]

Init ==
    /\ calls = [c \in CallIds |-> NoCall]
    /\ logged = [c \in CallIds |-> 0]
    /\ doing = [h \in Handlers |-> Free]
    /\ allow \in SUBSET Devices
    /\ raced = [rings |-> {}, ends |-> {}]
    /\ handled = MaxHandled

Active == {c \in CallIds : calls[c].state = "open"}
Handles(h, op, by, c, todo) ==
    /\ doing[h] = Free /\ handled > 0
    /\ handled' = handled - 1
    /\ doing' = [doing EXCEPT ![h] = [op |-> op, by |-> by, c |-> c, todo |-> todo]]
Done(h) == doing' = [doing EXCEPT ![h] = Free]
\* A request that will end call c.
Ending(c) == \E h \in Handlers : doing[h].op \in {"discard", "request"} /\ c \in doing[h].todo

\* Of ends that overlap, each finds the call active and writes it off.
Crossing(C) == raced' = [raced EXCEPT !.ends = @ \cup {c \in C : Ending(c)}]

-----------------------------------------------------------------------------
\* RequestCall reads the caller's calls that have not started,
RequestCall(h) ==
    LET stale == {c \in Active : ~calls[c].started} IN
    /\ Handles(h, "request", "caller", 0, stale)
    /\ Crossing(stale)
    /\ UNCHANGED <<calls, logged, allow>>

\* ends them one by one (_discard_stale_outgoing_calls),
DiscardStale(h) ==
    /\ doing[h].op = "request"
    /\ \E c \in doing[h].todo :
          /\ calls' = [calls EXCEPT ![c].state = "over"]
          /\ logged' = [logged EXCEPT ![c] = @ + 1]
          /\ doing' = [doing EXCEPT ![h].todo = @ \ {c}]
    /\ UNCHANGED <<allow, raced, handled>>

\* and makes the call, which is missed if no device takes calls.
CreateCall(h) ==
    LET new == {c \in CallIds : calls[c] = NoCall}
        missed == allow = {}
    IN  /\ doing[h].op = "request" /\ doing[h].todo = {}
        /\ new # {}
        /\ \E c \in new :
              /\ \A d \in new : c <= d
              /\ calls' = [calls EXCEPT ![c].state = IF missed THEN "over" ELSE "open"]
              /\ logged' = IF missed THEN [logged EXCEPT ![c] = @ + 1] ELSE logged
        /\ Done(h)
        /\ UNCHANGED <<allow, raced, handled>>

\* ReceivedCall: the device that rings first is to be the one, if no other was
\* when the row was read.
ReceivedCall(h, d, c) ==
    /\ c \in Active /\ calls[c].g_b = Nobody /\ calls[c].to_sess = Nobody
    /\ Handles(h, "ring", d, c, {})
    /\ UNCHANGED <<calls, logged, allow, raced>>

SaveRing(h) ==
    /\ doing[h].op = "ring"
    /\ calls' = [calls EXCEPT ![doing[h].c].to_sess = doing[h].by]
    /\ Done(h)
    /\ UNCHANGED <<logged, allow, raced, handled>>

\* Mutant: a device that did not ring first accepts, and is not written down.
AcceptAnyway(d, c) ==
    /\ c \in Active /\ calls[c].g_b = Nobody
    /\ handled > 0 /\ handled' = handled - 1
    /\ calls' = [calls EXCEPT ![c].to_sess = IF @ = Nobody THEN d ELSE @, ![c].g_b = d]
    /\ raced' = [raced EXCEPT !.rings = IF \E h \in Handlers : doing[h].op = "ring" /\ doing[h].c = c
                                        THEN @ \cup {c} ELSE @]
    /\ UNCHANGED <<logged, doing, allow>>

\* AcceptCall, under a lock of the row.
AcceptCall(d, c) ==
    /\ c \in Active /\ calls[c].g_b = Nobody /\ calls[c].to_sess \in {Nobody, d}
    /\ handled > 0 /\ handled' = handled - 1
    /\ calls' = [calls EXCEPT ![c].to_sess = d, ![c].g_b = d]
    /\ raced' = [raced EXCEPT !.rings = IF \E h \in Handlers : doing[h].op = "ring" /\ doing[h].c = c
                                        THEN @ \cup {c} ELSE @]
    /\ UNCHANGED <<logged, doing, allow>>

\* ConfirmCall checks again under a lock; a second one changes nothing.
ConfirmCall(c) ==
    /\ c \in Active /\ calls[c].g_b # Nobody /\ ~calls[c].started
    /\ handled > 0 /\ handled' = handled - 1
    /\ calls' = [calls EXCEPT ![c].started = TRUE]
    /\ UNCHANGED <<logged, doing, allow, raced>>

\* Mutant: the call is written off again and again.
DiscardAgain(h, by, c) ==
    /\ calls[c].state # "none"
    /\ Handles(h, "discard", by, c, {c})
    /\ Crossing({c})
    /\ UNCHANGED <<calls, logged, allow>>

\* DiscardCall reads the row; a call that is over stays as it is.
DiscardCall(h, by, c) ==
    /\ c \in Active
    /\ Handles(h, "discard", by, c, {c})
    /\ Crossing({c})
    /\ UNCHANGED <<calls, logged, allow>>

\* _finalize_discard: discard_reason and the service messages.
FinalizeDiscard(h) ==
    LET c == doing[h].c IN
    /\ doing[h].op = "discard"
    /\ calls' = [calls EXCEPT ![c].state = "over"]
    /\ logged' = [logged EXCEPT ![c] = @ + 1]
    /\ Done(h)
    /\ UNCHANGED <<allow, raced, handled>>

Next ==
    \/ \E h \in Handlers :
          \/ RequestCall(h) \/ DiscardStale(h) \/ CreateCall(h) \/ SaveRing(h) \/ FinalizeDiscard(h)
          \/ \E c \in CallIds :
                \/ \E d \in allow : ReceivedCall(h, d, c)
                \/ \E by \in {"caller"} \cup Devices : DiscardCall(h, by, c)
    \/ \E c \in CallIds : ConfirmCall(c) \/ \E d \in allow : AcceptCall(d, c)

Spec == Init /\ [][Next]_vars

-----------------------------------------------------------------------------
(* Properties *)

\* The device that accepted a call is the one the server goes on to talk to
\* (ConfirmCall, SendSignalingData and _finalize_discard address to_sess),
\* unless a ReceivedCall of another device read the row before.
AcceptedDeviceTalks ==
    \A c \in CallIds : calls[c].g_b # Nobody => calls[c].to_sess = calls[c].g_b \/ c \in raced.rings

\* A call that is over is in the history of both once, and one that is not
\* over is not, unless requests that end it overlapped (_finalize_discard,
\* _discard_stale_outgoing_calls).
CallLoggedOnce ==
    \A c \in CallIds : c \in raced.ends \/ logged[c] = IF calls[c].state = "over" THEN 1 ELSE 0

=============================================================================
