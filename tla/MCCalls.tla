------------------------------ MODULE MCCalls -------------------------------
(***************************************************************************)
(* Group calls, the SFU, calls between two users and secret chats, model-  *)
(* checked in one run: they share no state, so a behaviour is one of one   *)
(* of them, and the variables of the others keep the value None.           *)
(***************************************************************************)
EXTENDS Integers, FiniteSets, TLC

CONSTANTS
    Users, Managers, Requests, Timers, Peers, Controls, Devices, Handlers, Senders,
    GroupCallIds, CallBudgets, SfuJoins, SfuBudgets, CallIds, MaxHandled, MaxQts

\* A request and a timer are different tasks; 0 and "none" stand for no call and
\* no timer.
ASSUME TasksAssumption ==
    Requests \cap Timers = {} /\ GroupCallIds \subseteq Nat \ {0} /\ "none" \notin Timers

\* Joins are numbers, and no other requests; the first may be over from the start.
ASSUME RoomAssumption ==
    /\ SfuJoins \subseteq Nat \ {0} /\ SfuBudgets \subseteq BOOLEAN \X Nat \X Nat
    /\ \A b \in SfuBudgets : b[1] => 1 \in SfuJoins
    /\ \A j \in SfuJoins : j \notin Controls /\ 0 - j \notin Controls
    /\ "none" \notin Peers

\* The updates of a secret chat are counted from 1 on.
ASSUME QtsAssumption == MaxQts \in Nat

VARIABLES
    which,
    call, part, task, sfu, last, posts, online, reg, cause, made, breaks,
    room, gen, born, owner, current, dtls, prod, pending, cons, flag, work, fault, joins, controls,
    calls, logged, doing, allow, raced, handled,
    chat, decline, upd_qts, rows, lastId, sending, client, diff, crossed

GroupCalls == INSTANCE GroupCalls WITH Calls <- GroupCallIds, Budgets <- CallBudgets
\* Three requests, or two and one failure, or one and two.
GroupBudgets == {<<3, 0>>, <<2, 1>>, <<1, 2>>}
Sfu == INSTANCE Sfu WITH
    Joins <- SfuJoins, Budgets <- SfuBudgets, task <- work, cause <- fault
\* Two joins and a request, or, with somebody in the room, two joins, or one and two requests.
RoomBudgets == {<<FALSE, 2, 1>>, <<TRUE, 2, 0>>, <<TRUE, 1, 2>>}
PhoneCalls == INSTANCE PhoneCalls
SecretChats == INSTANCE SecretChats WITH raced <- crossed

None == "none"
group == <<call, part, task, sfu, last, posts, online, reg, cause, made, breaks>>
media == <<room, gen, born, owner, current, dtls, prod, pending, cons, flag, work, fault, joins, controls>>
phone == <<calls, logged, doing, allow, raced, handled>>
secret == <<chat, decline, upd_qts, rows, lastId, sending, client, diff, crossed>>

NoGroupCalls ==
    call = None /\ part = None /\ task = None /\ sfu = None /\ last = None /\ posts =
    None /\ online = None /\ reg = None /\ cause = None /\ made = None /\ breaks = None
NoSfu ==
    room = None /\ gen = None /\ born = None /\ owner = None /\ current = None /\ dtls =
    None /\ prod = None /\ pending = None /\ cons = None /\ flag = None /\ work = None
    /\ fault = None /\ joins = None /\ controls = None
NoPhoneCalls ==
    calls = None /\ logged = None /\ doing = None /\ allow = None /\ raced = None /\
    handled = None
NoSecretChats ==
    chat = None /\ decline = None /\ upd_qts = None /\ rows = None /\ lastId = None /\
    sending = None /\ client = None /\ diff = None /\ crossed = None

Init ==
    \/ which = "group" /\ GroupCalls!Init /\ NoSfu /\ NoPhoneCalls /\ NoSecretChats
    \/ which = "media" /\ Sfu!Init /\ NoGroupCalls /\ NoPhoneCalls /\ NoSecretChats
    \/ which = "phone" /\ PhoneCalls!Init /\ NoGroupCalls /\ NoSfu /\ NoSecretChats
    \/ which = "secret" /\ SecretChats!Init /\ NoGroupCalls /\ NoSfu /\ NoPhoneCalls

Next ==
    \/ which = "group" /\ GroupCalls!Next /\ UNCHANGED <<which, media, phone, secret>>
    \/ which = "media" /\ Sfu!Next /\ UNCHANGED <<which, group, phone, secret>>
    \/ which = "phone" /\ PhoneCalls!Next /\ UNCHANGED <<which, group, media, secret>>
    \/ which = "secret" /\ SecretChats!Next /\ UNCHANGED <<which, group, media, phone>>

Spec == Init /\ [][Next]_<<which, group, media, phone, secret>>

\* The cfg gives the sets of different components the same members.
Symmetry == Permutations(Requests) \cup Permutations(Timers)

-----------------------------------------------------------------------------
(* The properties of the components *)

\* A chat has one open call, unless two requests to create one overlapped; a
\* discarded call has neither participants nor a room on the SFU, and a call
\* that everyone has left is discarded, unless a request or a timer was at work
\* on it, or the SFU could not be reached; and when all is done, the SFU's room
\* has the participants of the call, heard or not as their rows say, unless
\* requests raced (discard_active_call, discard_group_call_if_empty,
\* sync_sfu_participant).
CallsAreInOrder ==
    which = "group" => GroupCalls!CallsAreTidy /\ GroupCalls!EmptyCallEnds /\ GroupCalls!SfuAgrees

\* Whom an admin muted stays muted until an admin unmutes: no leaving and
\* joining, nor an edit of one's own helps, unless it read the row before; and
\* the timer takes out of a call only users without a connection, unless they
\* came back with a session that did not know them, or the timer of an earlier
\* disconnection removed its registration (can_self_unmute_participant,
\* _delayed_leave).
CallStepsAreRight ==
    [][which = "group" => GroupCalls!AdminMuteSticksStep /\ GroupCalls!EvictedOnlyOfflineStep]_<<which, group>>

\* When all is done, whoever is connected hears whoever is in the room and not
\* paused, and does not hear who is paused: in whatever order two joined and
\* connected, one of pipeProducerToAllPeers, pipeExistingProducersToPeer and
\* flushPendingConsumers has found the other.  Not so if the audio of one of
\* them could not be produced, or requests about the speaker overlapped.
\* Nobody is heard after leaving, unless a join overlapped with the leaving.
RoomIsHeard == which = "media" => Sfu!EveryoneHears /\ Sfu!NobodyIsHeardAfterLeaving

\* The device that accepted a call is the one the server goes on to talk to
\* (ConfirmCall, SendSignalingData and _finalize_discard address to_sess),
\* unless a ReceivedCall of another device read the row before; and a call that
\* is over is in the history of both once, unless requests that end it
\* overlapped (_discard_stale_outgoing_calls).
PhoneCallsAreInOrder == which = "phone" => PhoneCalls!AcceptedDeviceTalks /\ PhoneCalls!CallLoggedOnce

\* A secret update that was sent has been got by the client, or the next
\* difference returns it: it is neither deleted nor passed over, unless it was
\* being sent while a difference was read, or it overtook one with a lower qts
\* (getDifference goes from the qts of the client to the id of a row).
SecretsAreKept == which = "secret" => SecretChats!SecretsAreKept

=============================================================================
