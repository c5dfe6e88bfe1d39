---------------------------- MODULE CallsProofs -----------------------------
(***************************************************************************)
(* What is proved of calls between two users, of secret chats, of group    *)
(* calls and of the media server's room, for every set of users, peers,    *)
(* devices, timers and requests handled at once, and for any number of     *)
(* calls, of joins and of secret updates.                                  *)
(***************************************************************************)
EXTENDS MCCalls, FiniteSetTheorems, WellFoundedInduction, TLAPS

-----------------------------------------------------------------------------
(* Calls between two users *)

\* A request that is at work on call c: to end it, or to let a device ring.
EndsCall(h, c) == doing[h].op \in {"discard", "request"} /\ c \in doing[h].todo
Rings(h, c) == doing[h].op = "ring" /\ doing[h].c = c

IsCall(c) ==
    /\ c = [state |-> c.state, to_sess |-> c.to_sess, g_b |-> c.g_b, started |-> c.started]
    /\ c.state \in {"none", "open", "over"}
IsRequest(r) == r = [op |-> r.op, by |-> r.by, c |-> r.c, todo |-> r.todo]

PhoneTypes ==
    /\ DOMAIN calls = CallIds /\ \A c \in CallIds : IsCall(calls[c])
    /\ logged \in [CallIds -> Nat]
    /\ DOMAIN doing = Handlers /\ \A h \in Handlers : IsRequest(doing[h])
    /\ raced = [rings |-> raced.rings, ends |-> raced.ends]

\* A device that rings does so because nobody had accepted the call.
RingsAreMarked ==
    \A h \in Handlers, c \in CallIds :
        Rings(h, c) => calls[c].g_b = "nobody" \/ c \in raced.rings

\* But for the calls with overlapping ends, one request at most ends a call,
\* and the call is not over yet.
EndsAreMarked ==
    \A c \in CallIds \ raced.ends :
        /\ \A h \in Handlers : EndsCall(h, c) => calls[c].state = "open"
        /\ \A h, k \in Handlers : EndsCall(h, c) /\ EndsCall(k, c) => h = k

\* What a request that ends a call knows of it.
DiscardsOne ==
    \A h \in Handlers : doing[h].op = "discard" => doing[h].todo = {doing[h].c}

PhoneInv ==
    /\ PhoneTypes
    /\ RingsAreMarked /\ EndsAreMarked /\ DiscardsOne
    /\ PhoneCalls!AcceptedDeviceTalks /\ PhoneCalls!CallLoggedOnce

LEMMA PhoneInit == PhoneCalls!Init => PhoneInv
<1> SUFFICES ASSUME PhoneCalls!Init PROVE PhoneInv
  OBVIOUS
<1>1. PhoneTypes
  BY DEF PhoneCalls!Init, PhoneTypes, IsCall, IsRequest, PhoneCalls!NoCall,
         PhoneCalls!Free
<1>2. RingsAreMarked /\ EndsAreMarked /\ DiscardsOne
  BY DEF PhoneCalls!Init, PhoneCalls!Free, RingsAreMarked, EndsAreMarked, DiscardsOne, Rings,
         EndsCall
<1>3. PhoneCalls!AcceptedDeviceTalks /\ PhoneCalls!CallLoggedOnce
  BY DEF PhoneCalls!Init, PhoneCalls!NoCall, PhoneCalls!Nobody, PhoneCalls!AcceptedDeviceTalks,
         PhoneCalls!CallLoggedOnce
<1> QED BY <1>1, <1>2, <1>3 DEF PhoneInv

\* A request begins, or ends.
LEMMA HandlesStep ==
    ASSUME PhoneTypes, NEW h \in Handlers, NEW op, NEW by, NEW c, NEW todo,
           PhoneCalls!Handles(h, op, by, c, todo)
    PROVE  /\ doing[h].op = "none"
           /\ \A k \in Handlers : k # h => doing'[k] = doing[k]
           /\ doing'[h].op = op /\ doing'[h].c = c /\ doing'[h].todo = todo
           /\ DOMAIN doing' = Handlers /\ \A k \in Handlers : IsRequest(doing'[k])
<1> DEFINE r == [op |-> op, by |-> by, c |-> c, todo |-> todo]
<1>1. doing[h].op = "none" /\ doing' = [doing EXCEPT ![h] = r]
  BY DEF PhoneCalls!Handles, PhoneCalls!Free
<1>2. IsRequest(r) /\ r.op = op /\ r.c = c /\ r.todo = todo
  BY DEF IsRequest
<1> HIDE DEF r
<1> QED BY <1>1, <1>2 DEF PhoneTypes

LEMMA DoneStep ==
    ASSUME PhoneTypes, NEW h \in Handlers, PhoneCalls!Done(h)
    PROVE  /\ \A k \in Handlers : k # h => doing'[k] = doing[k]
           /\ doing'[h].op = "none"
           /\ DOMAIN doing' = Handlers /\ \A k \in Handlers : IsRequest(doing'[k])
<1> DEFINE r == PhoneCalls!Free
<1>1. doing' = [doing EXCEPT ![h] = r]
  BY DEF PhoneCalls!Done
<1>2. IsRequest(r) /\ r.op = "none"
  BY DEF IsRequest, PhoneCalls!Free
<1> HIDE DEF r
<1> QED BY <1>1, <1>2 DEF PhoneTypes

\* Ending requests begin: those that overlap are marked.
LEMMA EndBegins ==
    ASSUME PhoneInv, NEW h \in Handlers, NEW op \in {"discard", "request"}, NEW by, NEW c,
           NEW todo, todo \subseteq PhoneCalls!Active, op = "discard" => todo = {c},
           PhoneCalls!Handles(h, op, by, c, todo), PhoneCalls!Crossing(todo),
           UNCHANGED <<calls, logged>>
    PROVE  PhoneInv'
<1>1. /\ doing[h].op = "none"
      /\ \A k \in Handlers : k # h => doing'[k] = doing[k]
      /\ DOMAIN doing' = Handlers /\ \A k \in Handlers : IsRequest(doing'[k])
  BY HandlesStep DEF PhoneInv
<1>2. doing'[h].op = op /\ doing'[h].c = c /\ doing'[h].todo = todo
  BY HandlesStep DEF PhoneInv
<1>3. /\ raced'.rings = raced.rings
      /\ raced'.ends = raced.ends \cup {d \in todo : \E k \in Handlers : EndsCall(k, d)}
      /\ raced' = [rings |-> raced'.rings, ends |-> raced'.ends]
  BY DEF PhoneCalls!Crossing, PhoneCalls!Ending, EndsCall, PhoneInv, PhoneTypes
<1>4. PhoneTypes'
  BY <1>1, <1>3 DEF PhoneInv, PhoneTypes
<1>5. RingsAreMarked'
  BY <1>1, <1>2, <1>3 DEF PhoneInv, RingsAreMarked, Rings
<1>6. EndsAreMarked'
  <2> SUFFICES ASSUME NEW d \in CallIds \ raced'.ends
               PROVE  /\ \A k \in Handlers : EndsCall(k, d)' => calls[d].state = "open"
                      /\ \A k, l \in Handlers : EndsCall(k, d)' /\ EndsCall(l, d)' => k = l
    BY DEF EndsAreMarked
  <2>1. d \in CallIds \ raced.ends
    BY <1>3
  <2>2. \A k \in Handlers \ {h} : EndsCall(k, d)' <=> EndsCall(k, d)
    BY <1>1 DEF EndsCall
  <2>3. EndsCall(h, d)' <=> d \in todo
    BY <1>2 DEF EndsCall
  <2>4. d \in todo => calls[d].state = "open" /\ \A k \in Handlers : ~EndsCall(k, d)
    BY <1>3 DEF PhoneCalls!Active
  <2> QED BY <2>1, <2>2, <2>3, <2>4 DEF PhoneInv, EndsAreMarked
<1>7. DiscardsOne'
  BY <1>1, <1>2 DEF PhoneInv, DiscardsOne
<1>8. PhoneCalls!AcceptedDeviceTalks' /\ PhoneCalls!CallLoggedOnce'
  BY <1>3 DEF PhoneInv, PhoneCalls!AcceptedDeviceTalks, PhoneCalls!CallLoggedOnce
<1> QED BY <1>4, <1>5, <1>6, <1>7, <1>8 DEF PhoneInv

LEMMA CallIs ==
    ASSUME NEW s \in {"none", "open", "over"}, NEW t, NEW g, NEW b, NEW c,
           c = [state |-> s, to_sess |-> t, g_b |-> g, started |-> b]
    PROVE  IsCall(c) /\ c.state = s /\ c.to_sess = t /\ c.g_b = g
<1>1. c.state = s /\ c.to_sess = t /\ c.g_b = g /\ c.started = b
  OBVIOUS
<1> QED BY <1>1 DEF IsCall

LEMMA OverIs ==
    ASSUME NEW c, NEW a, IsCall(c), a = [c EXCEPT !.state = "over"]
    PROVE  IsCall(a) /\ a.state = "over" /\ a.g_b = c.g_b /\ a.to_sess = c.to_sess
<1> DEFINE s == c.state
           t == c.to_sess
           g == c.g_b
           b == c.started
<1>1. /\ c = [state |-> s, to_sess |-> t, g_b |-> g, started |-> b]
      /\ s \in {"none", "open", "over"}
  BY DEF IsCall
<1>2. a = [c EXCEPT !.state = "over"]
  OBVIOUS
<1> HIDE DEF s, t, g, b
<1>3. a = [state |-> "over", to_sess |-> t, g_b |-> g, started |-> b]
  BY <1>1, <1>2
<1>4. IsCall(a) /\ a.state = "over" /\ a.to_sess = t /\ a.g_b = g
  BY <1>1, <1>3, CallIs
<1> QED BY <1>4 DEF s, t, g

LEMMA AcceptedIs ==
    ASSUME NEW c, NEW d, IsCall(c)
    PROVE  [c EXCEPT !.to_sess = d, !.g_b = d]
               = [state |-> c.state, to_sess |-> d, g_b |-> d, started |-> c.started]
<1> DEFINE s == c.state
           t == c.to_sess
           g == c.g_b
           b == c.started
<1>1. c = [state |-> s, to_sess |-> t, g_b |-> g, started |-> b]
  BY DEF IsCall
<1> DEFINE a == [c EXCEPT !.to_sess = d, !.g_b = d]
<1>2. a = [c EXCEPT !.to_sess = d, !.g_b = d]
  OBVIOUS
<1> HIDE DEF s, t, g, b, a
<1>3. a = [state |-> s, to_sess |-> d, g_b |-> d, started |-> b]
  BY <1>1, <1>2
<1> QED BY <1>3 DEF s, b, a

LEMMA StartedIs ==
    ASSUME NEW c, NEW a, IsCall(c), a = [c EXCEPT !.started = TRUE]
    PROVE  IsCall(a) /\ a.state = c.state /\ a.g_b = c.g_b /\ a.to_sess = c.to_sess
<1> DEFINE s == c.state
           t == c.to_sess
           g == c.g_b
           b == c.started
           v == TRUE
<1>1. /\ c = [state |-> s, to_sess |-> t, g_b |-> g, started |-> b]
      /\ s \in {"none", "open", "over"}
  BY DEF IsCall
<1>2. a = [c EXCEPT !.started = v]
  OBVIOUS
<1> HIDE DEF s, t, g, b, v
<1>3. a = [state |-> s, to_sess |-> t, g_b |-> g, started |-> v]
  BY <1>1, <1>2
<1>4. IsCall(a) /\ a.state = s /\ a.to_sess = t /\ a.g_b = g
  BY <1>1, <1>3, CallIs
<1> QED BY <1>4 DEF s, t, g

LEMMA NewCallIs ==
    ASSUME NEW s \in {"open", "over"}, NEW c, c = [PhoneCalls!NoCall EXCEPT !.state = s]
    PROVE  IsCall(c) /\ c.state = s /\ c.g_b = "nobody"
<1> DEFINE n == "nobody"
           v == FALSE
<1>1. c = [[state |-> "none", to_sess |-> n, g_b |-> n, started |-> v] EXCEPT !.state = s]
  BY DEF PhoneCalls!NoCall, PhoneCalls!Nobody
<1> HIDE DEF n, v
<1>2. c = [state |-> s, to_sess |-> n, g_b |-> n, started |-> v]
  BY <1>1
<1>3. c.state = s /\ c.to_sess = n /\ c.g_b = n /\ c.started = v
  BY <1>2
<1>4. IsCall(c)
  BY <1>2, <1>3 DEF IsCall
<1> QED BY <1>3, <1>4 DEF n

\* The request h ends the call c and writes it off.
LEMMA CallEnds ==
    ASSUME PhoneInv, NEW h \in Handlers, NEW c, EndsCall(h, c),
           calls' = [calls EXCEPT ![c].state = "over"], logged' = [logged EXCEPT ![c] = @ + 1],
           UNCHANGED raced,
           \A k \in Handlers : k # h => doing'[k] = doing[k],
           DOMAIN doing' = Handlers, \A k \in Handlers : IsRequest(doing'[k]),
           \A d : EndsCall(h, d)' => EndsCall(h, d) /\ d # c,
           doing'[h].op \notin {"ring", "discard"}
    PROVE  PhoneInv'
<1>1. PhoneTypes
  BY DEF PhoneInv
<1>2. /\ \A d \in CallIds : d # c => calls'[d] = calls[d] /\ logged'[d] = logged[d]
      /\ \A d \in CallIds : /\ IsCall(calls'[d])
                            /\ calls'[d].g_b = calls[d].g_b
                            /\ calls'[d].to_sess = calls[d].to_sess
      /\ c \in CallIds => calls'[c].state = "over" /\ logged'[c] = logged[c] + 1
      /\ DOMAIN calls' = CallIds /\ logged' \in [CallIds -> Nat]
  <2>1. /\ DOMAIN calls' = CallIds /\ \A d \in CallIds : d # c => calls'[d] = calls[d]
        /\ c \in CallIds => calls'[c] = [calls[c] EXCEPT !.state = "over"]
    BY <1>1 DEF PhoneTypes
  <2>2. /\ \A d \in CallIds : d # c => logged'[d] = logged[d]
        /\ c \in CallIds => logged'[c] = logged[c] + 1
        /\ logged' \in [CallIds -> Nat]
    <3> DEFINE n == logged[c] + 1
    <3>1. logged \in [CallIds -> Nat] /\ (c \in CallIds => n \in Nat)
      BY <1>1 DEF PhoneTypes
    <3>2. logged' = [logged EXCEPT ![c] = n]
      OBVIOUS
    <3> HIDE DEF n
    <3>3. /\ \A d \in CallIds : d # c => logged'[d] = logged[d]
          /\ c \in CallIds => logged'[c] = n
          /\ logged' \in [CallIds -> Nat]
      BY <3>1, <3>2
    <3> QED BY <3>3 DEF n
  <2>3. \A d \in CallIds : IsCall(calls[d])
    BY <1>1 DEF PhoneTypes
  <2>4. c \in CallIds => /\ IsCall(calls'[c]) /\ calls'[c].state = "over"
                         /\ calls'[c].g_b = calls[c].g_b
                         /\ calls'[c].to_sess = calls[c].to_sess
    BY <2>1, <2>3, OverIs
  <2> QED BY <2>1, <2>2, <2>3, <2>4
<1>3. PhoneTypes'
  BY <1>1, <1>2 DEF PhoneTypes
<1>4. RingsAreMarked'
  BY <1>2 DEF PhoneInv, RingsAreMarked, Rings
<1>5. EndsAreMarked'
  <2> SUFFICES ASSUME NEW d \in CallIds \ raced.ends
               PROVE  /\ \A k \in Handlers : EndsCall(k, d)' => calls'[d].state = "open"
                      /\ \A k, l \in Handlers : EndsCall(k, d)' /\ EndsCall(l, d)' => k = l
    BY DEF EndsAreMarked
  <2>1. \A k \in Handlers : EndsCall(k, d)' => EndsCall(k, d)
    BY DEF EndsCall
  <2>2. \A k \in Handlers : EndsCall(k, d) => calls[d].state = "open"
    BY DEF PhoneInv, EndsAreMarked
  <2>3. \A k, l \in Handlers : EndsCall(k, d) /\ EndsCall(l, d) => k = l
    BY DEF PhoneInv, EndsAreMarked
  <2>4. d = c => \A k \in Handlers : ~EndsCall(k, d)'
    BY <2>1, <2>3
  <2> QED BY <1>2, <2>1, <2>2, <2>3, <2>4
<1>6. DiscardsOne'
  BY DEF PhoneInv, DiscardsOne
<1>7. PhoneCalls!AcceptedDeviceTalks'
  BY <1>2 DEF PhoneInv, PhoneCalls!AcceptedDeviceTalks
<1>8. PhoneCalls!CallLoggedOnce'
  <2> SUFFICES ASSUME NEW d \in CallIds \ raced.ends
               PROVE  logged'[d] = IF calls'[d].state = "over" THEN 1 ELSE 0
    BY DEF PhoneCalls!CallLoggedOnce
  <2>1. logged[d] = IF calls[d].state = "over" THEN 1 ELSE 0
    BY DEF PhoneInv, PhoneCalls!CallLoggedOnce
  <2>2. d = c => calls[d].state = "open"
    BY DEF PhoneInv, EndsAreMarked
  <2> QED BY <1>2, <2>1, <2>2
<1> QED BY <1>3, <1>4, <1>5, <1>6, <1>7, <1>8 DEF PhoneInv

\* A call changes hands; which requests are at work on calls stays as it is, or
\* h has done its work.
LEMMA CallMoves ==
    ASSUME PhoneInv, NEW c,
           \A d \in CallIds : d # c => calls'[d] = calls[d] /\ logged'[d] = logged[d],
           \A d \in CallIds : IsCall(calls'[d]), DOMAIN calls' = CallIds,
           logged' \in [CallIds -> Nat], UNCHANGED raced.ends,
           raced' = [rings |-> raced'.rings, ends |-> raced'.ends],
           raced.rings \subseteq raced'.rings,
           DOMAIN doing' = Handlers, \A k \in Handlers : IsRequest(doing'[k]),
           \A k \in Handlers : doing'[k] = doing[k] \/ doing'[k].op = "none",
           c \in CallIds =>
             /\ \A k \in Handlers : EndsCall(k, c) =>
                    (calls[c].state = "open" => calls'[c].state = "open")
             /\ \A k \in Handlers : Rings(k, c)' => calls'[c].g_b = "nobody" \/ c \in raced'.rings
             /\ c \in raced.ends
                  \/ logged'[c] = IF calls'[c].state = "over" THEN 1 ELSE 0
             /\ calls'[c].g_b # "nobody" =>
                    calls'[c].to_sess = calls'[c].g_b \/ c \in raced'.rings
    PROVE  PhoneInv'
<1>1. PhoneTypes'
  BY DEF PhoneTypes
<1>2. RingsAreMarked'
  <2> SUFFICES ASSUME NEW k \in Handlers, NEW d \in CallIds, Rings(k, d)'
               PROVE  calls'[d].g_b = "nobody" \/ d \in raced'.rings
    BY DEF RingsAreMarked
  <2>1. Rings(k, d)
    BY DEF Rings
  <2>2. calls[d].g_b = "nobody" \/ d \in raced.rings
    BY <2>1 DEF PhoneInv, RingsAreMarked
  <2> QED BY <2>2
<1>3. EndsAreMarked'
  <2> SUFFICES ASSUME NEW d \in CallIds \ raced.ends
               PROVE  /\ \A k \in Handlers : EndsCall(k, d)' => calls'[d].state = "open"
                      /\ \A k, l \in Handlers : EndsCall(k, d)' /\ EndsCall(l, d)' => k = l
    BY DEF EndsAreMarked
  <2>1. \A k \in Handlers : EndsCall(k, d)' => EndsCall(k, d)
    BY DEF EndsCall
  <2>2. /\ \A k \in Handlers : EndsCall(k, d) => calls[d].state = "open"
        /\ \A k, l \in Handlers : EndsCall(k, d) /\ EndsCall(l, d) => k = l
    BY DEF PhoneInv, EndsAreMarked
  <2> QED BY <2>1, <2>2
<1>4. DiscardsOne'
  BY DEF PhoneInv, DiscardsOne
<1>5. PhoneCalls!AcceptedDeviceTalks'
  BY DEF PhoneInv, PhoneCalls!AcceptedDeviceTalks, PhoneCalls!Nobody
<1>6. PhoneCalls!CallLoggedOnce'
  BY DEF PhoneInv, PhoneCalls!CallLoggedOnce
<1> QED BY <1>1, <1>2, <1>3, <1>4, <1>5, <1>6 DEF PhoneInv

LEMMA PhoneStep == PhoneInv /\ PhoneCalls!Next => PhoneInv'
<1> SUFFICES ASSUME PhoneInv, PhoneCalls!Next PROVE PhoneInv'
  OBVIOUS
<1>0. PhoneTypes
  BY DEF PhoneInv
<1>1. ASSUME NEW h \in Handlers, PhoneCalls!RequestCall(h) PROVE PhoneInv'
  <2> DEFINE stale == {c \in PhoneCalls!Active : ~calls[c].started}
  <2>1. /\ PhoneCalls!Handles(h, "request", "caller", 0, stale)
        /\ PhoneCalls!Crossing(stale) /\ UNCHANGED <<calls, logged>>
    BY <1>1 DEF PhoneCalls!RequestCall
  <2>2. stale \subseteq PhoneCalls!Active
    OBVIOUS
  <2> HIDE DEF stale
  <2> QED BY <2>1, <2>2, EndBegins
<1>2. ASSUME NEW h \in Handlers, NEW c \in CallIds, NEW by, PhoneCalls!DiscardCall(h, by, c)
      PROVE  PhoneInv'
  <2>1. /\ PhoneCalls!Handles(h, "discard", by, c, {c}) /\ PhoneCalls!Crossing({c})
        /\ UNCHANGED <<calls, logged>> /\ {c} \subseteq PhoneCalls!Active
    BY <1>2 DEF PhoneCalls!DiscardCall
  <2> QED BY <2>1, EndBegins
<1>3. ASSUME NEW h \in Handlers, PhoneCalls!DiscardStale(h) PROVE PhoneInv'
  <2>1. PICK c \in doing[h].todo :
          /\ calls' = [calls EXCEPT ![c].state = "over"]
          /\ logged' = [logged EXCEPT ![c] = @ + 1]
          /\ doing' = [doing EXCEPT ![h].todo = @ \ {c}]
    BY <1>3 DEF PhoneCalls!DiscardStale
  <2>2. doing[h].op = "request" /\ UNCHANGED raced
    BY <1>3 DEF PhoneCalls!DiscardStale
  <2>3. EndsCall(h, c)
    BY <2>1, <2>2 DEF EndsCall
  <2>4. /\ \A k \in Handlers : k # h => doing'[k] = doing[k]
        /\ doing'[h].op = doing[h].op /\ doing'[h].todo = doing[h].todo \ {c}
        /\ DOMAIN doing' = Handlers /\ \A k \in Handlers : IsRequest(doing'[k])
    BY <1>0, <2>1, SMTT(40) DEF PhoneTypes, IsRequest
  <2>5. /\ \A d : EndsCall(h, d)' => EndsCall(h, d) /\ d # c
        /\ doing'[h].op \notin {"ring", "discard"}
    BY <2>2, <2>4 DEF EndsCall
  <2> QED BY <2>1, <2>2, <2>3, <2>4, <2>5, CallEnds
<1>4. ASSUME NEW h \in Handlers, PhoneCalls!FinalizeDiscard(h) PROVE PhoneInv'
  <2> DEFINE c == doing[h].c
  <2>1. /\ doing[h].op = "discard" /\ UNCHANGED raced
        /\ calls' = [calls EXCEPT ![c].state = "over"]
        /\ logged' = [logged EXCEPT ![c] = @ + 1]
        /\ PhoneCalls!Done(h)
    BY <1>4 DEF PhoneCalls!FinalizeDiscard
  <2>2. EndsCall(h, c)
    BY <2>1 DEF EndsCall, PhoneInv, DiscardsOne
  <2>3. /\ \A k \in Handlers : k # h => doing'[k] = doing[k]
        /\ doing'[h].op = "none"
        /\ DOMAIN doing' = Handlers /\ \A k \in Handlers : IsRequest(doing'[k])
    BY <1>0, <2>1, DoneStep
  <2>4. /\ \A d : EndsCall(h, d)' => EndsCall(h, d) /\ d # c
        /\ doing'[h].op \notin {"ring", "discard"}
    BY <2>3 DEF EndsCall
  <2> HIDE DEF c
  <2> QED BY <2>1, <2>2, <2>3, <2>4, CallEnds
<1>5. ASSUME NEW h \in Handlers, PhoneCalls!CreateCall(h) PROVE PhoneInv'
  <2>1. PICK c \in CallIds :
          /\ calls[c] = PhoneCalls!NoCall
          /\ calls' = [calls EXCEPT ![c].state = IF allow = {} THEN "over" ELSE "open"]
          /\ logged' = IF allow = {} THEN [logged EXCEPT ![c] = @ + 1] ELSE logged
    BY <1>5 DEF PhoneCalls!CreateCall
  <2>2. /\ \A k \in Handlers : k # h => doing'[k] = doing[k]
        /\ doing'[h].op = "none"
        /\ DOMAIN doing' = Handlers /\ \A k \in Handlers : IsRequest(doing'[k])
        /\ UNCHANGED raced
    BY <1>0, <1>5, DoneStep DEF PhoneCalls!CreateCall
  <2> DEFINE state == IF allow = {} THEN "over" ELSE "open"
  <2>3. /\ DOMAIN calls' = CallIds /\ \A d \in CallIds : d # c => calls'[d] = calls[d]
        /\ calls'[c] = [calls[c] EXCEPT !.state = state]
    BY <1>0, <2>1 DEF PhoneTypes
  <2>4. /\ calls[c].state = "none" /\ calls[c].g_b = "nobody" /\ IsCall(calls'[c])
        /\ calls'[c].state = state /\ calls'[c].g_b = "nobody"
    <3>1. state \in {"open", "over"}
      OBVIOUS
    <3>2. calls[c].state = "none" /\ calls[c].g_b = "nobody"
      BY <2>1 DEF PhoneCalls!NoCall, PhoneCalls!Nobody
    <3> HIDE DEF state
    <3>3. calls'[c] = [PhoneCalls!NoCall EXCEPT !.state = state]
      BY <2>1, <2>3
    <3> QED BY <3>1, <3>2, <3>3, NewCallIs
  <2>5. /\ logged' \in [CallIds -> Nat] /\ \A d \in CallIds : d # c => logged'[d] = logged[d]
        /\ logged'[c] = IF state = "over" THEN logged[c] + 1 ELSE logged[c]
    BY <1>0, <2>1 DEF PhoneTypes
  <2>6. c \in raced.ends \/ logged'[c] = IF state = "over" THEN 1 ELSE 0
    <3>1. c \in raced.ends \/ logged[c] = 0
      BY <2>4 DEF PhoneInv, PhoneCalls!CallLoggedOnce
    <3> QED BY <2>5, <3>1
  <2> HIDE DEF state
  <2> QED BY <1>0, <2>2, <2>3, <2>4, <2>5, <2>6, CallMoves, ZenonT(60) DEF PhoneTypes
<1>6. ASSUME NEW h \in Handlers, NEW d, NEW c \in CallIds, PhoneCalls!ReceivedCall(h, d, c)
      PROVE  PhoneInv'
  <2>1. /\ calls[c].g_b = "nobody" /\ PhoneCalls!Handles(h, "ring", d, c, {})
        /\ UNCHANGED <<calls, logged, raced>>
    BY <1>6 DEF PhoneCalls!ReceivedCall, PhoneCalls!Nobody
  <2>2. /\ \A k \in Handlers : k # h => doing'[k] = doing[k]
        /\ doing'[h].op = "ring" /\ doing'[h].c = c /\ doing'[h].todo = {}
        /\ DOMAIN doing' = Handlers /\ \A k \in Handlers : IsRequest(doing'[k])
    BY <1>0, <2>1, HandlesStep
  <2>3. PhoneTypes'
    BY <1>0, <2>1, <2>2 DEF PhoneTypes
  <2>4. RingsAreMarked'
    BY <2>1, <2>2 DEF PhoneInv, RingsAreMarked, Rings
  <2>5. \A k \in Handlers : \A b : EndsCall(k, b)' => EndsCall(k, b)
    BY <2>2 DEF EndsCall
  <2>6. EndsAreMarked'
    BY <2>1, <2>5 DEF PhoneInv, EndsAreMarked
  <2>7. DiscardsOne'
    BY <2>2 DEF PhoneInv, DiscardsOne
  <2> QED BY <2>1, <2>3, <2>4, <2>6, <2>7
          DEF PhoneInv, PhoneCalls!AcceptedDeviceTalks, PhoneCalls!CallLoggedOnce
<1>7. ASSUME NEW h \in Handlers, PhoneCalls!SaveRing(h) PROVE PhoneInv'
  <2> DEFINE c == doing[h].c
             d == doing[h].by
  <2>1. /\ doing[h].op = "ring" /\ UNCHANGED <<logged, raced>>
        /\ calls' = [calls EXCEPT ![c].to_sess = d]
        /\ PhoneCalls!Done(h)
    BY <1>7 DEF PhoneCalls!SaveRing
  <2>2. /\ \A k \in Handlers : k # h => doing'[k] = doing[k]
        /\ doing'[h].op = "none"
        /\ DOMAIN doing' = Handlers /\ \A k \in Handlers : IsRequest(doing'[k])
    BY <1>0, <2>1, DoneStep
  <2>3. Rings(h, c)
    BY <2>1 DEF Rings
  <2> HIDE DEF c, d
  <2>4. /\ DOMAIN calls' = CallIds /\ \A b \in CallIds : b # c => calls'[b] = calls[b]
        /\ c \in CallIds => calls'[c] = [calls[c] EXCEPT !.to_sess = d]
    BY <1>0, <2>1 DEF PhoneTypes
  <2>5. c \in CallIds => /\ IsCall(calls'[c]) /\ calls'[c].state = calls[c].state
                         /\ calls'[c].g_b = calls[c].g_b
    BY <1>0, <2>4 DEF PhoneTypes, IsCall
  <2>6. c \in CallIds => calls[c].g_b = "nobody" \/ c \in raced.rings
    BY <2>3 DEF PhoneInv, RingsAreMarked
  <2>7. c \in CallIds => c \in raced.ends \/ logged[c] = IF calls[c].state = "over" THEN 1 ELSE 0
    BY DEF PhoneInv, PhoneCalls!CallLoggedOnce
  <2> QED BY <1>0, <2>1, <2>2, <2>4, <2>5, <2>6, <2>7, CallMoves DEF PhoneTypes
<1>8. ASSUME NEW d, NEW c \in CallIds, PhoneCalls!AcceptCall(d, c) PROVE PhoneInv'
  <2>1. /\ calls' = [calls EXCEPT ![c].to_sess = d, ![c].g_b = d]
        /\ UNCHANGED <<logged, doing>>
        /\ raced' = [raced EXCEPT !.rings =
                        IF \E h \in Handlers : Rings(h, c) THEN @ \cup {c} ELSE @]
    BY <1>8 DEF PhoneCalls!AcceptCall, Rings
  <2>2. /\ raced'.ends = raced.ends /\ raced.rings \subseteq raced'.rings
        /\ (\E h \in Handlers : Rings(h, c)) => c \in raced'.rings
        /\ raced' = [rings |-> raced'.rings, ends |-> raced'.ends]
    BY <1>0, <2>1 DEF PhoneTypes
  <2>3. /\ DOMAIN calls' = CallIds /\ \A b \in CallIds : b # c => calls'[b] = calls[b]
        /\ IsCall(calls'[c]) /\ calls'[c].state = calls[c].state
        /\ calls'[c].g_b = d /\ calls'[c].to_sess = d
    <3>1. /\ DOMAIN calls' = CallIds /\ \A b \in CallIds : b # c => calls'[b] = calls[b]
          /\ calls'[c] = [calls[c] EXCEPT !.to_sess = d, !.g_b = d]
      BY <1>0, <2>1 DEF PhoneTypes
    <3>2. IsCall(calls[c])
      BY <1>0 DEF PhoneTypes
    <3> DEFINE state == calls[c].state
               started == calls[c].started
    <3>3. calls'[c] = [state |-> state, to_sess |-> d, g_b |-> d, started |-> started]
      BY <3>1, <3>2, AcceptedIs, ZenonT(60)
    <3>4. state \in {"none", "open", "over"}
      BY <3>2 DEF IsCall
    <3> HIDE DEF state, started
    <3>5. calls'[c].state = state /\ calls'[c].g_b = d /\ calls'[c].to_sess = d
      BY <3>3
    <3>6. IsCall(calls'[c])
      BY <3>3, <3>4 DEF IsCall
    <3> QED BY <3>1, <3>5, <3>6 DEF state
  <2>4. \A k \in Handlers : Rings(k, c)' => c \in raced'.rings
    BY <2>1, <2>2 DEF Rings
  <2>5. c \in raced.ends \/ logged[c] = IF calls[c].state = "over" THEN 1 ELSE 0
    BY DEF PhoneInv, PhoneCalls!CallLoggedOnce
  <2> QED BY <1>0, <2>1, <2>2, <2>3, <2>4, <2>5, CallMoves DEF PhoneTypes
<1>9. ASSUME NEW c \in CallIds, PhoneCalls!ConfirmCall(c) PROVE PhoneInv'
  <2>1. /\ calls' = [calls EXCEPT ![c].started = TRUE] /\ UNCHANGED <<logged, doing, raced>>
    BY <1>9 DEF PhoneCalls!ConfirmCall
  <2>2. /\ DOMAIN calls' = CallIds /\ \A b \in CallIds : b # c => calls'[b] = calls[b]
        /\ IsCall(calls'[c]) /\ calls'[c].state = calls[c].state
        /\ calls'[c].g_b = calls[c].g_b /\ calls'[c].to_sess = calls[c].to_sess
    <3>1. /\ DOMAIN calls' = CallIds /\ \A b \in CallIds : b # c => calls'[b] = calls[b]
          /\ calls'[c] = [calls[c] EXCEPT !.started = TRUE]
      BY <1>0, <2>1 DEF PhoneTypes
    <3> QED BY <1>0, <3>1, StartedIs DEF PhoneTypes
  <2>3. /\ c \in raced.ends \/ logged[c] = IF calls[c].state = "over" THEN 1 ELSE 0
        /\ calls[c].g_b # "nobody" => calls[c].to_sess = calls[c].g_b \/ c \in raced.rings
    BY DEF PhoneInv, PhoneCalls!CallLoggedOnce, PhoneCalls!AcceptedDeviceTalks, PhoneCalls!Nobody
  <2>4. \A k \in Handlers : Rings(k, c)' => calls[c].g_b = "nobody" \/ c \in raced.rings
    BY <2>1 DEF Rings, PhoneInv, RingsAreMarked
  <2> QED BY <1>0, <2>1, <2>2, <2>3, <2>4, CallMoves, ZenonT(60) DEF PhoneTypes
<1> QED BY <1>1, <1>2, <1>3, <1>4, <1>5, <1>6, <1>7, <1>8, <1>9 DEF PhoneCalls!Next

-----------------------------------------------------------------------------
(* Secret chats *)

Qts == SecretChats!Qts
Underway == SecretChats!Underway

SecretTypes ==
    /\ upd_qts \in Nat /\ upd_qts <= MaxQts /\ lastId \in Nat
    /\ rows \in [Qts -> Nat] /\ \A q \in Qts : rows[q] <= lastId
    /\ sending \in [Senders -> Nat]
    /\ client.qts \in Nat /\ client.qts <= upd_qts
    /\ diff = [step |-> diff.step, after |-> diff.after, found |-> diff.found,
               missing |-> diff.missing]

\* Each request sends an update of its own, which has no row yet.
SendersApart ==
    /\ \A s \in Senders : sending[s] # 0 => sending[s] <= upd_qts /\ rows[sending[s]] = 0
    /\ \A s, t \in Senders : s # t /\ sending[s] # 0 => sending[s] # sending[t]

\* Each row has an id of its own, and only updates that were numbered have one.
IdsApart ==
    /\ \A q \in Qts : rows[q] # 0 => q <= upd_qts
    /\ \A q, r \in Qts : q # r /\ rows[q] # 0 => rows[q] # rows[r]

\* An update is stored before one with a lower qts only if it is marked.
OvertakesMarked ==
    \A q, r \in Qts : q < r /\ rows[r] # 0 =>
        /\ rows[q] > rows[r] => r \in crossed
        /\ q \in Underway => r \in crossed

\* A row that is not there, though its update is not on its way, was taken out by
\* a client that had it; and what the client counts as its own it has got.
TakenOutIsGot ==
    /\ \A q \in Qts : q <= upd_qts /\ q \notin Underway /\ rows[q] = 0 => q <= client.qts
    /\ \A q \in Qts : q <= client.qts => q \in client.got \cup crossed

\* A difference that has read the id will read all the client has not got; one
\* that has read the rows has them all but those it counts as missing.
DifferenceCovers ==
    /\ diff.step = "rows" =>
         /\ diff.after \in Nat /\ diff.after <= lastId
         /\ \A q \in Qts : q <= upd_qts =>
                q \in client.got \cup crossed \cup Underway \/ rows[q] > diff.after
    /\ diff.step = "state" =>
         \A q \in Qts : q \in client.got \cup crossed \cup diff.missing \cup diff.found

SecretInv ==
    /\ SecretTypes /\ SendersApart /\ IdsApart /\ OvertakesMarked /\ TakenOutIsGot
    /\ DifferenceCovers

LEMMA GreatestExists ==
    ASSUME NEW n \in Nat, NEW S \in SUBSET (1 .. n), S # {}
    PROVE  \E j \in S : \A k \in S : k <= j
<1> DEFINE T == {n - j : j \in S}
<1>1. T \subseteq Nat /\ T # {}
  <2>1. \A j \in S : n - j \in Nat
    OBVIOUS
  <2>2. PICK j \in S : TRUE
    OBVIOUS
  <2>3. n - j \in T
    OBVIOUS
  <2> QED BY <2>1, <2>3
<1>2. PICK m \in T : \A k \in T : ~(<<k, m>> \in OpToRel(<, Nat))
  BY <1>1, WFMin, NatLessThanWellFounded
<1>3. PICK j \in S : m = n - j
  OBVIOUS
<1>4. ASSUME NEW k \in S, ~(k <= j) PROVE FALSE
  <2>1. n - k \in T /\ n - k \in Nat /\ m \in Nat /\ n - k < m
    BY <1>3, <1>4
  <2>2. <<n - k, m>> \in OpToRel(<, Nat)
    BY <2>1 DEF OpToRel
  <2> QED BY <1>2, <2>1, <2>2
<1> QED BY <1>4

\* The last id that counts as the client's is that of a row it has, or there is
\* none.
LEMMA LastLocalIs ==
    \/ SecretChats!LastLocal(client.qts) = 0
    \/ \E r \in Qts : /\ r <= client.qts /\ rows[r] # 0
                      /\ SecretChats!LastLocal(client.qts) = rows[r]
<1> DEFINE have == {r \in Qts : r <= client.qts /\ rows[r] # 0}
<1>1. CASE have = {}
  BY <1>1 DEF SecretChats!LastLocal, Qts
<1>2. CASE have # {}
  <2>1. have \in SUBSET (1 .. MaxQts)
    BY DEF Qts, SecretChats!Qts
  <2>2. \E r \in have : \A x \in have : x <= r
    BY <1>2, <2>1, GreatestExists, QtsAssumption
  <2> DEFINE top == CHOOSE r \in have : \A x \in have : x <= r
  <2>3. top \in have
    BY <2>2
  <2>4. SecretChats!LastLocal(client.qts) = rows[top]
    BY <1>2 DEF SecretChats!LastLocal, Qts
  <2> HIDE DEF top
  <2> QED BY <2>3, <2>4
<1> QED BY <1>1, <1>2

\* What a client that has no difference under way can still miss is marked.
LEMMA AllBehindIsGot ==
    ASSUME SecretInv, NEW q \in Qts, q <= upd_qts
    PROVE  \/ q \in client.got \cup crossed \cup Underway
           \/ rows[q] > SecretChats!LastLocal(client.qts)
<1>1. /\ rows \in [Qts -> Nat] /\ q \in Nat /\ client.qts \in Nat
  BY DEF SecretInv, SecretTypes, Qts, SecretChats!Qts
<1>2. CASE q <= client.qts
  BY <1>2 DEF SecretInv, TakenOutIsGot
<1>3. CASE q \notin Underway /\ ~(q <= client.qts)
  <2>1. rows[q] # 0
    BY <1>3 DEF SecretInv, TakenOutIsGot
  <2>2. CASE SecretChats!LastLocal(client.qts) = 0
    BY <1>1, <2>1, <2>2
  <2>3. ASSUME NEW r \in Qts, r <= client.qts, rows[r] # 0,
               SecretChats!LastLocal(client.qts) = rows[r]
        PROVE  q \in crossed \/ rows[q] > SecretChats!LastLocal(client.qts)
    <3>1. r \in Nat /\ r < q
      BY <1>1, <1>3, <2>3 DEF Qts, SecretChats!Qts
    <3>2. rows[r] > rows[q] => q \in crossed
      BY <2>1, <3>1 DEF SecretInv, OvertakesMarked
    <3>3. rows[r] # rows[q]
      BY <2>1, <2>3, <3>1 DEF SecretInv, IdsApart
    <3> QED BY <1>1, <2>3, <3>2, <3>3
  <2> QED BY <2>2, <2>3, LastLocalIs
<1> QED BY <1>2, <1>3

LEMMA SecretInit == SecretChats!Init => SecretInv
<1> SUFFICES ASSUME SecretChats!Init PROVE SecretInv
  OBVIOUS
<1>1. /\ upd_qts = 0 /\ lastId = 0 /\ rows = [q \in Qts |-> 0]
      /\ sending = [s \in Senders |-> 0] /\ client = [qts |-> 0, got |-> {}]
      /\ diff = [step |-> "none", after |-> 0, found |-> {}, missing |-> {}]
  BY DEF SecretChats!Init, SecretChats!NoDiff, Qts
<1>2. SecretTypes
  BY <1>1, QtsAssumption DEF SecretTypes
<1>3. SendersApart /\ IdsApart /\ OvertakesMarked
  BY <1>1 DEF SendersApart, IdsApart, OvertakesMarked
<1>4. \A q \in Qts : ~(q <= 0)
  BY DEF Qts, SecretChats!Qts
<1>5. TakenOutIsGot /\ DifferenceCovers
  BY <1>1, <1>4 DEF TakenOutIsGot, DifferenceCovers
<1> QED BY <1>2, <1>3, <1>5 DEF SecretInv

\* A row and an update that is on its way.
LEMMA UnderwayIs == \A q : q \in Underway <=> q # 0 /\ \E s \in Senders : q = sending[s]
BY DEF Underway, SecretChats!Underway

LEMMA IncKeeps ==
    ASSUME SecretInv, NEW s \in Senders, SecretChats!IncQts(s)
    PROVE  SecretInv'
<1> DEFINE n == upd_qts + 1
<1>1. /\ upd_qts' = n /\ sending' = [sending EXCEPT ![s] = n] /\ sending[s] = 0
      /\ upd_qts < MaxQts /\ UNCHANGED <<rows, lastId, client, diff, crossed>>
  BY DEF SecretChats!IncQts, SecretChats!handshake
<1>2. SecretTypes
  BY DEF SecretInv
<1>3. n \in Nat /\ n \in Qts /\ n # 0 /\ n <= MaxQts /\ \A q \in Nat : q <= n <=> q <= upd_qts \/ q = n
  BY <1>1, <1>2, QtsAssumption DEF SecretTypes, Qts, SecretChats!Qts
<1>4. \A q \in Qts : q \in Nat
  BY DEF Qts, SecretChats!Qts
<1>5. ~(n <= upd_qts) /\ upd_qts <= n /\ client.qts <= n
  BY <1>2 DEF SecretTypes
<1> HIDE DEF n
<1>6. /\ sending' \in [Senders -> Nat] /\ sending'[s] = n
      /\ \A t \in Senders : t # s => sending'[t] = sending[t]
  BY <1>1, <1>2, <1>3 DEF SecretTypes
<1>7. Underway' = Underway \cup {n}
  <2>1. \A q : q \in Underway' <=> q # 0 /\ \E t \in Senders : q = sending'[t]
    BY DEF Underway, SecretChats!Underway
  <2> QED BY <1>1, <1>3, <1>6, <2>1, UnderwayIs
<1>8. SecretTypes'
  BY <1>1, <1>2, <1>3, <1>5, <1>6 DEF SecretTypes
<1>9. rows[n] = 0
  BY <1>3, <1>5 DEF SecretInv, IdsApart
<1>10. SendersApart'
  <2>1. \A t \in Senders : sending[t] \in Nat /\ (sending[t] # 0 => sending[t] <= upd_qts /\ rows[sending[t]] = 0)
    BY <1>2 DEF SecretInv, SendersApart, SecretTypes
  <2>2. \A t \in Senders : sending[t] # n
    BY <1>3, <1>5, <2>1
  <2>3. \A t \in Senders : sending'[t] # 0 => sending'[t] <= n /\ rows[sending'[t]] = 0
    BY <1>3, <1>6, <1>9, <2>1
  <2>4. \A t, u \in Senders : t # u /\ sending'[t] # 0 => sending'[t] # sending'[u]
    BY <1>6, <2>2 DEF SecretInv, SendersApart
  <2> QED BY <1>1, <2>3, <2>4 DEF SendersApart
<1>11. IdsApart'
  BY <1>1, <1>3, <1>4 DEF SecretInv, IdsApart
<1>12. OvertakesMarked'
  <2> SUFFICES ASSUME NEW q \in Qts, NEW r \in Qts, q < r, rows[r] # 0
               PROVE  /\ rows[q] > rows[r] => r \in crossed
                      /\ q \in Underway' => r \in crossed
    BY <1>1 DEF OvertakesMarked
  <2>1. q # n
    BY <1>2, <1>4, <1>5 DEF SecretInv, IdsApart, SecretTypes, n
  <2> QED BY <1>7, <2>1 DEF SecretInv, OvertakesMarked
<1>13. TakenOutIsGot'
  BY <1>1, <1>3, <1>4, <1>7 DEF SecretInv, TakenOutIsGot
<1>14. DifferenceCovers'
  BY <1>1, <1>3, <1>4, <1>7 DEF SecretInv, DifferenceCovers
<1> QED BY <1>8, <1>10, <1>11, <1>12, <1>13, <1>14 DEF SecretInv

\* A row is inserted; the client may get its update at once.
LEMMA SendKeeps ==
    ASSUME SecretInv, NEW s \in Senders, NEW reached \in BOOLEAN,
           SecretChats!SendEncrypted(s, reached)
    PROVE  SecretInv'
<1> DEFINE n == sending[s]
           id == lastId + 1
<1>1. /\ n # 0 /\ rows' = [rows EXCEPT ![n] = id] /\ lastId' = id
      /\ sending' = [sending EXCEPT ![s] = 0]
      /\ client' = IF reached /\ n = client.qts + 1
                   THEN [qts |-> n, got |-> client.got \cup {n}] ELSE client
      /\ crossed' = IF \E u \in Underway : u < n THEN crossed \cup {n} ELSE crossed
      /\ UNCHANGED <<upd_qts, diff>>
  BY DEF SecretChats!SendEncrypted, Underway
<1>2. SecretTypes
  BY DEF SecretInv
<1>3. \A q \in Qts : q \in Nat
  BY DEF Qts, SecretChats!Qts
<1>4. n \in Qts /\ n \in Nat /\ n <= upd_qts /\ rows[n] = 0 /\ n \in Underway
  <2>1. n \in Nat /\ n <= upd_qts /\ rows[n] = 0 /\ upd_qts <= MaxQts
    BY <1>1, <1>2 DEF SecretInv, SendersApart, SecretTypes
  <2>2. n \in Qts
    BY <1>1, <1>2, <2>1, QtsAssumption DEF Qts, SecretChats!Qts, SecretTypes
  <2> QED BY <1>1, <2>1, <2>2, UnderwayIs
<1>5. id \in Nat /\ id # 0 /\ lastId < id /\ \A q \in Qts : rows[q] < id
  BY <1>2, <1>3 DEF SecretTypes
<1> HIDE DEF n, id
<1>6. /\ rows' \in [Qts -> Nat] /\ rows'[n] = id
      /\ \A q \in Qts : q # n => rows'[q] = rows[q]
  BY <1>1, <1>2, <1>4, <1>5 DEF SecretTypes
<1>7. /\ sending' \in [Senders -> Nat] /\ sending'[s] = 0 /\ sending[s] = n
      /\ \A t \in Senders : t # s => sending'[t] = sending[t] /\ sending[t] # n
  BY <1>1, <1>2 DEF SecretTypes, SecretInv, SendersApart, n
<1>8. Underway' = Underway \ {n}
  <2>1. \A q : q \in Underway' <=> q # 0 /\ \E t \in Senders : q = sending'[t]
    BY DEF Underway, SecretChats!Underway
  <2> QED BY <1>7, <2>1, UnderwayIs
<1>9. /\ client.got \subseteq client'.got /\ crossed \subseteq crossed'
      /\ client'.qts \in Nat /\ client'.qts <= upd_qts /\ client.qts <= client'.qts
      /\ \A q \in Qts : q <= client'.qts => q <= client.qts \/ q \in client'.got
  BY <1>1, <1>2, <1>3, <1>4 DEF SecretTypes
<1>10. SecretTypes'
  <2>1. \A q \in Qts : rows'[q] <= id
    BY <1>2, <1>5, <1>6 DEF SecretTypes
  <2> QED BY <1>1, <1>2, <1>5, <1>6, <1>7, <1>9, <2>1 DEF SecretTypes
<1>11. SendersApart'
  BY <1>1, <1>2, <1>6, <1>7 DEF SecretInv, SendersApart, Underway, SecretTypes, Qts,
                              SecretChats!Qts
<1>12. IdsApart'
  BY <1>1, <1>2, <1>4, <1>5, <1>6 DEF SecretInv, IdsApart, SecretTypes
<1>13. OvertakesMarked'
  <2> SUFFICES ASSUME NEW q \in Qts, NEW r \in Qts, q < r, rows'[r] # 0
               PROVE  /\ rows'[q] > rows'[r] => r \in crossed'
                      /\ q \in Underway' => r \in crossed'
    BY DEF OvertakesMarked
  <2>1. CASE r = n
    <3>1. q # n /\ rows'[q] = rows[q] /\ rows[q] < id /\ rows'[r] = id
      BY <1>3, <1>5, <1>6, <2>1
    <3>2. ~(rows'[q] > rows'[r])
      BY <1>2, <1>5, <3>1 DEF SecretTypes
    <3>3. q \in Underway' => r \in crossed'
      BY <1>1, <1>8, <2>1
    <3> QED BY <3>2, <3>3
  <2>2. CASE r # n
    <3>1. rows'[r] = rows[r] /\ rows[r] # 0
      BY <1>6, <2>2
    <3>2. (rows[q] > rows[r] => r \in crossed) /\ (q \in Underway => r \in crossed)
      BY <3>1 DEF SecretInv, OvertakesMarked
    <3>3. q = n => r \in crossed
      BY <1>4, <3>2
    <3>4. q # n => rows'[q] = rows[q]
      BY <1>6
    <3> QED BY <1>8, <1>9, <3>1, <3>2, <3>3, <3>4
  <2> QED BY <2>1, <2>2
<1>14. TakenOutIsGot'
  <2>1. \A q \in Qts : q <= upd_qts /\ q \notin Underway' /\ rows'[q] = 0 => q <= client'.qts
    <3> SUFFICES ASSUME NEW q \in Qts, q <= upd_qts, q \notin Underway', rows'[q] = 0
                 PROVE  q <= client'.qts
      OBVIOUS
    <3>1. q # n /\ q \notin Underway /\ rows[q] = 0
      BY <1>5, <1>6, <1>8
    <3>2. q <= client.qts
      BY <3>1 DEF SecretInv, TakenOutIsGot
    <3> QED BY <1>2, <1>3, <1>9, <3>2 DEF SecretTypes
  <2>2. \A q \in Qts : q <= client'.qts => q \in client'.got \cup crossed'
    BY <1>9 DEF SecretInv, TakenOutIsGot
  <2> QED BY <1>1, <2>1, <2>2 DEF TakenOutIsGot
<1>15. DifferenceCovers'
  <2>1. ASSUME diff.step = "rows", NEW q \in Qts, q <= upd_qts
        PROVE  q \in client'.got \cup crossed' \cup Underway' \/ rows'[q] > diff.after
    <3>1. /\ diff.after \in Nat /\ diff.after <= lastId
          /\ q \in client.got \cup crossed \cup Underway \/ rows[q] > diff.after
      BY <2>1 DEF SecretInv, DifferenceCovers
    <3>2. q = n => rows'[q] > diff.after
      BY <1>2, <1>5, <1>6, <3>1 DEF SecretTypes
    <3> QED BY <1>6, <1>8, <1>9, <3>1, <3>2
  <2>2. diff.step = "rows" => diff.after \in Nat /\ diff.after <= id
    BY <1>2, <1>5 DEF SecretInv, DifferenceCovers, SecretTypes
  <2>3. diff.step = "state" =>
            \A q \in Qts : q \in client'.got \cup crossed' \cup diff.missing \cup diff.found
    BY <1>9 DEF SecretInv, DifferenceCovers
  <2> QED BY <1>1, <2>1, <2>2, <2>3 DEF DifferenceCovers
<1> QED BY <1>10, <1>11, <1>12, <1>13, <1>14, <1>15 DEF SecretInv

LEMMA BeginsKeeps ==
    ASSUME SecretInv, SecretChats!DifferenceBegins
    PROVE  SecretInv'
<1> DEFINE after == SecretChats!LastLocal(client.qts)
<1>1. /\ diff'.step = "rows" /\ diff'.after = after
      /\ diff' = [step |-> diff'.step, after |-> diff'.after, found |-> diff'.found,
                  missing |-> diff'.missing]
      /\ UNCHANGED <<upd_qts, rows, lastId, sending, client, crossed>>
  BY DEF SecretChats!DifferenceBegins, SecretChats!queue, SecretChats!NoDiff
<1>2. after \in Nat /\ after <= lastId
  BY LastLocalIs DEF SecretInv, SecretTypes
<1>3. \A q \in Qts : q <= upd_qts =>
          q \in client.got \cup crossed \cup Underway \/ rows[q] > after
  BY AllBehindIsGot
<1> HIDE DEF after
<1>4. Underway' = Underway
  BY <1>1 DEF Underway, SecretChats!Underway
<1>5. SecretTypes' /\ SendersApart' /\ IdsApart' /\ OvertakesMarked' /\ TakenOutIsGot'
  BY <1>1, <1>4 DEF SecretInv, SecretTypes, SendersApart, IdsApart, OvertakesMarked,
                    TakenOutIsGot
<1>6. DifferenceCovers'
  BY <1>1, <1>2, <1>3, <1>4 DEF DifferenceCovers
<1> QED BY <1>5, <1>6 DEF SecretInv

LEMMA ReadsKeeps ==
    ASSUME SecretInv, SecretChats!DifferenceReads
    PROVE  SecretInv'
<1> DEFINE found == {q \in Qts : rows[q] > diff.after}
           missing == Underway \cup {q \in Qts : q > upd_qts}
<1>1. /\ diff.step = "rows"
      /\ diff' = [diff EXCEPT !.step = "state", !.found = found, !.missing = missing]
      /\ UNCHANGED <<upd_qts, rows, lastId, sending, client, crossed>>
  BY DEF SecretChats!DifferenceReads, SecretChats!queue, Qts, Underway
<1>2. \A q \in Qts : q \in client.got \cup crossed \cup missing \cup found
  BY <1>1 DEF SecretInv, SecretTypes, DifferenceCovers, Qts, SecretChats!Qts
<1> HIDE DEF found, missing
<1>3. /\ diff'.step = "state" /\ diff'.found = found /\ diff'.missing = missing
      /\ diff' = [step |-> diff'.step, after |-> diff'.after, found |-> diff'.found,
                  missing |-> diff'.missing]
  BY <1>1 DEF SecretInv, SecretTypes
<1>4. Underway' = Underway
  BY <1>1 DEF Underway, SecretChats!Underway
<1>5. SecretTypes' /\ SendersApart' /\ IdsApart' /\ OvertakesMarked' /\ TakenOutIsGot'
  BY <1>1, <1>3, <1>4 DEF SecretInv, SecretTypes, SendersApart, IdsApart, OvertakesMarked,
                          TakenOutIsGot
<1>6. DifferenceCovers'
  BY <1>1, <1>2, <1>3 DEF DifferenceCovers
<1> QED BY <1>5, <1>6 DEF SecretInv

LEMMA EndsKeeps ==
    ASSUME SecretInv, SecretChats!DifferenceEnds
    PROVE  SecretInv'
<1>1. /\ diff.step = "state" /\ diff' = SecretChats!NoDiff
      /\ client' = IF diff.found = {} THEN client
                   ELSE [qts |-> upd_qts, got |-> client.got \cup diff.found]
      /\ crossed' = crossed \cup {q \in diff.missing : q <= upd_qts}
      /\ UNCHANGED <<upd_qts, rows, lastId, sending>>
  BY DEF SecretChats!DifferenceEnds, SecretChats!queue
<1>2. diff'.step = "none" /\ diff' = [step |-> diff'.step, after |-> diff'.after,
                                      found |-> diff'.found, missing |-> diff'.missing]
  BY <1>1 DEF SecretChats!NoDiff
<1>3. SecretTypes /\ Underway' = Underway
  BY <1>1 DEF SecretInv, Underway, SecretChats!Underway
<1>4. /\ client'.qts \in Nat /\ client'.qts <= upd_qts /\ client.qts <= client'.qts
      /\ crossed \subseteq crossed'
  BY <1>1, <1>3 DEF SecretTypes
<1>5. \A q \in Qts : q <= upd_qts => q \in client'.got \cup crossed'
  BY <1>1 DEF SecretInv, DifferenceCovers
<1>6. SecretTypes'
  BY <1>1, <1>2, <1>3, <1>4 DEF SecretTypes
<1>7. SendersApart' /\ IdsApart'
  BY <1>1 DEF SecretInv, SendersApart, IdsApart
<1>8. OvertakesMarked'
  BY <1>1, <1>3, <1>4 DEF SecretInv, OvertakesMarked
<1>9. TakenOutIsGot'
  <2>1. \A q \in Qts : q <= upd_qts /\ q \notin Underway /\ rows[q] = 0 => q <= client'.qts
    BY <1>3, <1>4 DEF SecretInv, TakenOutIsGot, SecretTypes, Qts, SecretChats!Qts
  <2>2. \A q \in Qts : q <= client'.qts => q <= upd_qts
    BY <1>3, <1>4 DEF SecretTypes, Qts, SecretChats!Qts
  <2> QED BY <1>1, <1>3, <1>5, <2>1, <2>2 DEF TakenOutIsGot
<1>10. DifferenceCovers'
  BY <1>2 DEF DifferenceCovers
<1> QED BY <1>6, <1>7, <1>8, <1>9, <1>10 DEF SecretInv

LEMMA ReceivedKeeps ==
    ASSUME SecretInv, SecretChats!ReceivedQueue
    PROVE  SecretInv'
<1>1. /\ diff = SecretChats!NoDiff
      /\ rows' = [q \in Qts |-> IF q <= client.qts THEN 0 ELSE rows[q]]
      /\ UNCHANGED <<upd_qts, lastId, sending, client, diff, crossed>>
  BY DEF SecretChats!ReceivedQueue, Qts
<1>2. diff.step = "none"
  BY <1>1 DEF SecretChats!NoDiff
<1>3. SecretTypes /\ Underway' = Underway
  BY <1>1 DEF SecretInv, Underway, SecretChats!Underway
<1>4. \A q \in Qts : (rows'[q] = 0 /\ q <= client.qts) \/ rows'[q] = rows[q]
  BY <1>1
<1>5. SecretTypes'
  BY <1>1, <1>3 DEF SecretTypes
<1>6. SendersApart'
  <2>1. \A s \in Senders : sending[s] # 0 => sending[s] \in Qts
    BY <1>3, QtsAssumption DEF SecretInv, SendersApart, SecretTypes, Qts, SecretChats!Qts
  <2> QED BY <1>1, <1>4, <2>1 DEF SecretInv, SendersApart
<1>7. IdsApart'
  BY <1>1, <1>4 DEF SecretInv, IdsApart
<1>8. OvertakesMarked'
  <2> SUFFICES ASSUME NEW q \in Qts, NEW r \in Qts, q < r, rows'[r] # 0
               PROVE  /\ rows'[q] > rows'[r] => r \in crossed
                      /\ q \in Underway => r \in crossed
    BY <1>1, <1>3 DEF OvertakesMarked
  <2>1. rows'[r] = rows[r] /\ rows[r] # 0
    BY <1>4
  <2>2. (rows[q] > rows[r] => r \in crossed) /\ (q \in Underway => r \in crossed)
    BY <2>1 DEF SecretInv, OvertakesMarked
  <2>3. rows'[q] > rows'[r] => rows[q] > rows[r]
    BY <1>3, <1>4, <2>1 DEF SecretTypes
  <2> QED BY <2>2, <2>3
<1>9. TakenOutIsGot'
  BY <1>1, <1>3, <1>4 DEF SecretInv, TakenOutIsGot
<1>10. DifferenceCovers'
  BY <1>1, <1>2 DEF DifferenceCovers
<1> QED BY <1>5, <1>6, <1>7, <1>8, <1>9, <1>10 DEF SecretInv

\* The handshake, and what the chat does not do, leave the queue alone.
LEMMA OtherKeeps ==
    ASSUME SecretInv, UNCHANGED <<upd_qts, rows, lastId, sending, client, diff, crossed>>
    PROVE  SecretInv'
<1>1. Underway' = Underway
  BY DEF Underway, SecretChats!Underway
<1> QED BY <1>1 DEF SecretInv, SecretTypes, SendersApart, IdsApart, OvertakesMarked,
                    TakenOutIsGot, DifferenceCovers

LEMMA SecretStep == SecretInv /\ SecretChats!Next => SecretInv'
<1> SUFFICES ASSUME SecretInv, SecretChats!Next PROVE SecretInv'
  OBVIOUS
<1>1. CASE \/ SecretChats!RequestEncryption \/ SecretChats!SaveDiscard
           \/ \E d \in Devices : SecretChats!AcceptEncryption(d)
           \/ \E by \in {"asker"} \cup Devices : SecretChats!DiscardEncryption(by)
  BY <1>1, OtherKeeps
     DEF SecretChats!RequestEncryption, SecretChats!SaveDiscard, SecretChats!AcceptEncryption,
         SecretChats!DiscardEncryption, SecretChats!queue
<1> QED BY <1>1, IncKeeps, SendKeeps, BeginsKeeps, ReadsKeeps, EndsKeeps, ReceivedKeeps
        DEF SecretChats!Next

LEMMA SecretKept == SecretInv => SecretChats!SecretsAreKept
BY AllBehindIsGot DEF SecretChats!SecretsAreKept, Qts, Underway

-----------------------------------------------------------------------------
(* Group calls *)

Tasks == Requests \cup Timers

IsRow(r) == DOMAIN r = {"in", "muted", "admin"} /\ r.in \in {"never", "yes", "left"}
IsTask(k) == DOMAIN k = {"op", "u", "t", "c", "step", "row", "arg", "todo", "lost"}
IsGroupCall(c) ==
    DOMAIN c = {"state", "join_muted"} /\ c.state \in {"none", "scheduled", "live", "over"}
IsPost(p) ==
    /\ p = [do |-> p.do, c |-> p.c, u |-> p.u]
    /\ p.do \in {"playing", "paused", "leave"} /\ p.c \in GroupCallIds /\ p.u \in Users
Heeds(f) == f \in [GroupCallIds -> [Users -> {"none", "playing", "paused"}]]

GroupTypes ==
    /\ DOMAIN call = GroupCallIds /\ \A c \in GroupCallIds : IsGroupCall(call[c])
    /\ DOMAIN part = GroupCallIds /\ \A c \in GroupCallIds : DOMAIN part[c] = Users
    /\ \A c \in GroupCallIds, u \in Users : IsRow(part[c][u])
    /\ Heeds(sfu) /\ Heeds(last)
    /\ DOMAIN task = Tasks /\ \A x \in Tasks : IsTask(task[x])
    /\ \A p \in posts : IsPost(p)
    /\ DOMAIN reg = Users
    /\ DOMAIN cause = {"cut", "twice", "late", "astray"}

\* A call in which somebody may have taken part, and one that nobody could join yet.
Begun(c) == call[c].state \in {"live", "over"}
CallsAreFresh ==
    /\ \A c \in GroupCallIds, u \in Users : ~Begun(c) =>
           part[c][u].in = "never" /\ sfu[c][u] = "none" /\ last[c][u] = "none"
    /\ \A p \in posts : Begun(p.c)

\* What a task does, step after step, and what it knows.
Steps ==
    [none    |-> {"none"},
     create  |-> {"make"},
     join    |-> {"row", "save", "media"},
     video   |-> {"row", "media"},
     leave   |-> {"row", "save", "count", "over", "empty"},
     edit    |-> {"row", "save"},
     discard |-> {"over", "empty"},
     grace   |-> {"sleep", "next", "row", "save", "count", "over", "empty", "cancelled"}]
OfRequests == {"create", "join", "video", "leave", "edit", "discard"}
Shaped(x) ==
    LET k == task[x] IN
    /\ k.op \in {"none"} \cup (IF x \in Timers THEN {"grace"} ELSE OfRequests)
    /\ k.step \in Steps[k.op]
    /\ k.c \in GroupCallIds \cup {0}
    /\ k.c = 0 => k.op \in {"none", "create"} \/ k.step \in {"sleep", "next", "cancelled"}
    /\ k.op \in {"none", "create"} \/ k.step = "sleep" => k.c = 0
    /\ k.todo \subseteq GroupCallIds /\ k.c \notin k.todo
    /\ k.todo # {} => k.op \in {"create", "grace"} /\ k.step # "sleep"
    /\ \A c \in k.todo : call[c].state # "none"
    /\ k.op # "none" => k.u \in Users /\ k.t \in Users
    /\ k.op # "edit" => k.t = k.u
    /\ k.op = "edit" => k.arg \in GroupCalls!Allowed(k.u, k.t)
    /\ k.op = "join" \/ k.step \in {"save", "media", "count", "empty"} => Begun(k.c)
    /\ k.step = "over" /\ k.op # "discard" => Begun(k.c)
    /\ k.step = "empty" => call[k.c].state = "over"
    /\ k.step = "save" /\ k.op # "join" => k.row.in = "yes"
TasksAreShaped == \A x \in Tasks : Shaped(x)

\* As long as creations have not overlapped, one at most is under way, it has
\* found the call that is open, and there is one at most.
OneCreates ==
    cause.twice \/
        /\ \A x, y \in Tasks : task[x].op = "create" /\ task[y].op = "create" => x = y
        /\ \A x \in Tasks : task[x].op = "create" => GroupCalls!Open \subseteq task[x].todo
        /\ \A c, d \in GroupCalls!Open : c = d

\* A call that was discarded with nobody else at work on it has lost its
\* participants and its room, or is about to.
Dismissed(c) == call[c].state = "over" /\ c \notin cause.late /\ ~cause.cut
Emptied(c) == \A u \in Users : part[c][u].in # "yes" /\ sfu[c][u] = "none"
Empties(x, c) ==
    /\ task[x].c = c /\ task[x].step = "empty"
    /\ task[x].op \in {"leave", "grace"} => \A u \in Users : part[c][u].in # "yes"
Unworked(c) ==
    \A x \in Tasks :
        c \notin task[x].todo /\ (task[x].c = c => task[x].step = "next" \/ Empties(x, c))
OversAreTidy ==
    \A c \in GroupCallIds : Dismissed(c) =>
        Unworked(c) /\ (Emptied(c) \/ \E x \in Tasks : Empties(x, c))

\* Of a call that everyone has left, somebody is about to count the participants,
\* or to discard it.
Deserted(c) ==
    /\ call[c].state = "live" /\ ~cause.cut
    /\ \A u \in Users : part[c][u].in # "yes"
    /\ \E u \in Users : part[c][u].in = "left"
Counts(x, c) == task[x].c = c /\ task[x].step \in {"count", "over"}
SomebodyCounts == \A c \in GroupCallIds : Deserted(c) => \E x \in Tasks : Counts(x, c)

\* What the SFU was last told of a participant is what his row says; the SFU has
\* it, or gets it with the one request that is on its way, which finds the peer
\* there or before it comes, or else two are on their way and will race.
Due(r) == IF r.in = "yes" THEN GroupCalls!Sound(r) ELSE "none"
About(p, c, u) == p.c = c /\ p.u = u
TwoGo(c, u) == \E p, q \in posts : p # q /\ About(p, c, u) /\ About(q, c, u)
Comes(c, u) == \E x \in Tasks : task[x].step = "media" /\ task[x].c = c /\ task[x].u = u
Followed(c, u) ==
    /\ last[c][u] = Due(part[c][u])
    /\ TwoGo(c, u) \/
        /\ \A p \in posts : About(p, c, u) =>
               IF p.do = "leave" THEN last[c][u] = "none"
               ELSE last[c][u] = p.do /\ (sfu[c][u] # "none" \/ Comes(c, u))
        /\ (\A p \in posts : ~About(p, c, u)) =>
               \/ sfu[c][u] = last[c][u]
               \/ Comes(c, u) /\ sfu[c][u] = "none" /\ last[c][u] = "playing"
SfuFollows ==
    \A c \in GroupCallIds, u \in Users :
        call[c].state = "live" /\ <<c, u>> \notin cause.astray => Followed(c, u)

\* A timer that runs is registered, and its user has no connection, unless it
\* was lost.
TimersAreKnown ==
    /\ \A g \in Timers : task[g].op = "grace" /\ task[g].step # "cancelled" =>
           task[g].lost \/ (reg[task[g].u] = g /\ task[g].u \notin online)
    /\ \A u \in Users : reg[u] # "none" =>
           /\ reg[u] \in Timers
           /\ task[reg[u]].op = "grace" /\ task[reg[u]].u = u /\ task[reg[u]].step # "cancelled"

GroupInv ==
    /\ GroupTypes /\ CallsAreFresh /\ TasksAreShaped
    /\ OneCreates /\ OversAreTidy /\ SomebodyCounts /\ SfuFollows /\ TimersAreKnown

\* Of the tasks, only x may have changed.
Only(x) ==
    /\ DOMAIN task' = Tasks /\ \A y \in Tasks : IsTask(task'[y])
    /\ \A y \in Tasks : y # x => task'[y] = task[y]

LEMMA GoesIs ==
    ASSUME GroupTypes, NEW x \in Tasks, NEW step, GroupCalls!Goes(x, step)
    PROVE  LET k == task[x]
               n == task'[x]
           IN  /\ Only(x) /\ n.op = k.op /\ n.u = k.u /\ n.t = k.t /\ n.c = k.c
               /\ n.step = step /\ n.todo = k.todo /\ n.lost = k.lost
BY DEF GroupTypes, GroupCalls!Goes, Only, IsTask

LEMMA EndsIs ==
    ASSUME GroupTypes, NEW x \in Tasks, GroupCalls!Ends(x)
    PROVE  /\ Only(x)
           /\ task'[x].op = "none" /\ task'[x].step = "none" /\ task'[x].c = 0
           /\ task'[x].todo = {} /\ Shaped(x)'
BY DEF GroupTypes, GroupCalls!Ends, GroupCalls!Idle, GroupCalls!None, Only, IsTask, Shaped, Steps

\* One value of a function of two arguments changes.
LEMMA OneChanges ==
    ASSUME NEW f, NEW g, NEW c \in GroupCallIds, NEW u \in Users, NEW e, g = [f EXCEPT ![c][u] = e],
           DOMAIN f = GroupCallIds, \A d \in GroupCallIds : DOMAIN f[d] = Users
    PROVE  /\ DOMAIN g = GroupCallIds /\ \A d \in GroupCallIds : DOMAIN g[d] = Users
           /\ g[c][u] = e
           /\ \A d \in GroupCallIds, v \in Users : d # c \/ v # u => g[d][v] = f[d][v]
OBVIOUS

\* Calls only go on: from none to scheduled or live, to over.
Onward ==
    /\ DOMAIN call' = GroupCallIds
    /\ \A c \in GroupCallIds :
          /\ IsGroupCall(call'[c])
          /\ call[c].state = "over" => call'[c].state = "over"
          /\ Begun(c) => Begun(c)'
          /\ call[c].state # "none" => call'[c].state # "none"

LEMMA CallsStay ==
    ASSUME GroupTypes, UNCHANGED call
    PROVE  Onward
BY DEF Onward, GroupTypes, Begun

LEMMA ShapeStays ==
    ASSUME Onward, NEW x \in Tasks, Shaped(x), task'[x] = task[x]
    PROVE  Shaped(x)'
<1> DEFINE m == task[x]
<1>1. /\ m.c \in GroupCallIds \cup {0} /\ m.todo \subseteq GroupCallIds
      /\ \A c \in m.todo : call[c].state # "none"
      /\ m.op = "join" \/ m.step \in {"save", "media", "count", "empty"} => Begun(m.c)
      /\ m.step = "over" /\ m.op # "discard" => Begun(m.c)
      /\ m.step = "empty" => call[m.c].state = "over"
      /\ m.c = 0 => m.op \in {"none", "create"} \/ m.step \in {"sleep", "next", "cancelled"}
      /\ m.step \in Steps[m.op]
  BY DEF Shaped
<1>2. m.c = 0 => m.op # "join" /\ m.step \notin {"save", "media", "count", "empty", "over"}
  BY <1>1 DEF Steps
<1>3. \A k : k = task[x] =>
          /\ \A c \in k.todo : call'[c].state # "none"
          /\ k.op = "join" \/ k.step \in {"save", "media", "count", "empty"} =>
                 call'[k.c].state \in {"live", "over"}
          /\ k.step = "over" /\ k.op # "discard" => call'[k.c].state \in {"live", "over"}
          /\ k.step = "empty" => call'[k.c].state = "over"
  BY <1>1, <1>2 DEF Onward, Begun
<1> QED BY <1>3 DEF Shaped, GroupCalls!Allowed, GroupCalls!Edits, Begun

LEMMA OneStays ==
    ASSUME OneCreates, cause.twice => cause'.twice, GroupCalls!Open' \subseteq GroupCalls!Open,
           \A x \in Tasks : task'[x].op = "create" =>
               task[x].op = "create" /\ task'[x].todo = task[x].todo
    PROVE  OneCreates'
BY DEF OneCreates

LEMMA TidyStays ==
    ASSUME OversAreTidy, cause.cut => cause'.cut, cause.late \subseteq cause'.late,
           \A c \in GroupCallIds : Dismissed(c)' => call[c].state = "over",
           \A c \in GroupCallIds : Dismissed(c) /\ Unworked(c) =>
               /\ Unworked(c)'
               /\ \A u \in Users : /\ part[c][u].in # "yes" => part'[c][u].in # "yes"
                                   /\ sfu[c][u] = "none" => sfu'[c][u] = "none"
               /\ \A x \in Tasks : Empties(x, c) => Empties(x, c)' \/ Emptied(c)'
    PROVE  OversAreTidy'
<1> SUFFICES ASSUME NEW c \in GroupCallIds, Dismissed(c)'
             PROVE  Unworked(c)' /\ (Emptied(c)' \/ \E x \in Tasks : Empties(x, c)')
  BY DEF OversAreTidy
<1>1. Dismissed(c)
  BY DEF Dismissed
<1>2. Unworked(c) /\ (Emptied(c) \/ \E x \in Tasks : Empties(x, c))
  BY <1>1 DEF OversAreTidy
<1>3. Emptied(c) => Emptied(c)'
  BY <1>1, <1>2 DEF Emptied
<1> QED BY <1>1, <1>2, <1>3

LEMMA CountStays ==
    ASSUME SomebodyCounts,
           \A c \in GroupCallIds : Deserted(c)' =>
               \/ Deserted(c) /\ \A x \in Tasks : Counts(x, c) => Counts(x, c)'
               \/ \E x \in Tasks : Counts(x, c)'
    PROVE  SomebodyCounts'
BY DEF SomebodyCounts

LEMMA FollowStays ==
    ASSUME NEW c, NEW u, Followed(c, u),
           last'[c][u] = last[c][u], part'[c][u] = part[c][u], sfu'[c][u] = sfu[c][u],
           \A p : About(p, c, u) => (p \in posts' <=> p \in posts), Comes(c, u) => Comes(c, u)'
    PROVE  Followed(c, u)'
BY DEF Followed, TwoGo, Due, GroupCalls!Sound

\* A task goes on, or begins, and changes nothing else.
LEMMA TaskMoves ==
    ASSUME GroupInv, NEW x \in Tasks, Only(x), Shaped(x)',
           UNCHANGED <<call, part, sfu, last, posts, online, reg, cause>>,
           task[x].step \notin {"media", "empty"}, task'[x].op # "create",
           task[x].step \in {"count", "over"} =>
               \/ task'[x].c = task[x].c /\ task'[x].step \in {"count", "over"}
               \/ \E u \in Users : part[task[x].c][u].in = "yes",
           \/ task'[x].c = 0 \/ call[task'[x].c].state # "over" \/ task'[x].c \in task[x].todo
           \/ task'[x].c = task[x].c /\ task[x].step # "next",
           \A c \in task'[x].todo : c \in task[x].todo \/ call[c].state # "over",
           x \in Timers => /\ task[x].op = "grace" /\ task'[x].op = "grace"
                           /\ task'[x].u = task[x].u /\ task'[x].lost = task[x].lost
                           /\ task[x].step # "cancelled" /\ task'[x].step # "cancelled"
    PROVE  GroupInv'
<1>1. Onward
  BY CallsStay DEF GroupInv
<1>2. GroupTypes'
  BY DEF GroupInv, GroupTypes, Only, Heeds
<1>3. CallsAreFresh'
  BY DEF GroupInv, CallsAreFresh, Begun
<1>4. TasksAreShaped'
  BY <1>1, ShapeStays DEF GroupInv, TasksAreShaped, Only
<1>5. OneCreates'
  <2>1. GroupCalls!Open' = GroupCalls!Open
    BY DEF GroupCalls!Open
  <2> QED BY <2>1, OneStays DEF GroupInv, Only
<1>6. OversAreTidy'
  <2> SUFFICES ASSUME NEW c \in GroupCallIds, Dismissed(c), Unworked(c)
               PROVE  Unworked(c)' /\ \A y \in Tasks : Empties(y, c) => Empties(y, c)'
    BY TidyStays DEF GroupInv, Dismissed
  <2>1. Unworked(c)'
    BY TasksAssumption DEF Unworked, Only, Dismissed, Empties
  <2>2. \A y \in Tasks : Empties(y, c) => Empties(y, c)'
    BY DEF Empties, Only
  <2> QED BY <2>1, <2>2
<1>7. SomebodyCounts'
  <2> SUFFICES ASSUME NEW c \in GroupCallIds, Deserted(c), NEW y \in Tasks, Counts(y, c)
               PROVE  Counts(y, c)'
    BY CountStays DEF GroupInv, Deserted
  <2> QED BY DEF Counts, Deserted, Only
<1>8. SfuFollows'
  <2>1. \A c, u : Comes(c, u) => Comes(c, u)'
    BY DEF Comes, Only
  <2> QED BY <2>1, FollowStays DEF GroupInv, SfuFollows
<1>9. TimersAreKnown'
  BY DEF GroupInv, TimersAreKnown, Only, Tasks
<1> QED BY <1>2, <1>3, <1>4, <1>5, <1>6, <1>7, <1>8, <1>9 DEF GroupInv

\* A request begins to be handled.
LEMMA BeginsKeepsGroup ==
    ASSUME GroupInv, NEW x \in Requests, NEW u \in Users, NEW c \in GroupCalls!Open,
           task[x] = GroupCalls!Idle, NEW op, NEW t \in Users, NEW arg, NEW step,
           GroupCalls!Begins(x, u, c, op, t, arg, step),
           op \in {"join", "video", "leave", "edit", "discard"},
           step = IF op = "discard" THEN "over" ELSE "row",
           op # "edit" => t = u, op = "edit" => arg \in GroupCalls!Allowed(u, t),
           op = "join" => call[c].state = "live"
    PROVE  GroupInv'
<1>1. x \in Tasks /\ x \notin Timers /\ c \in GroupCallIds
      /\ call[c].state \in {"scheduled", "live"}
  BY TasksAssumption DEF Tasks, GroupCalls!Open
<1>2. task[x].op = "none" /\ task[x].step = "none"
  BY DEF GroupCalls!Idle, GroupCalls!None
<1>3. /\ Only(x)
      /\ task'[x].op = op /\ task'[x].u = u /\ task'[x].t = t /\ task'[x].c = c
      /\ task'[x].step = step /\ task'[x].todo = {} /\ task'[x].arg = arg
  BY <1>1 DEF GroupCalls!Begins, GroupCalls!Idle, GroupInv, GroupTypes, Only, IsTask
<1>4. UNCHANGED <<call, part, sfu, last, posts, online, reg, cause>>
  BY DEF GroupCalls!Begins, GroupCalls!db, GroupCalls!media, GroupCalls!grace
<1>5. Shaped(x)'
  <2>1. step \in Steps[op] /\ op \in OfRequests
    BY DEF Steps, OfRequests
  <2>2. /\ op = "edit" => task'[x].arg \in GroupCalls!Allowed(task'[x].u, task'[x].t)
        /\ c # 0 /\ step \in {"row", "over"} /\ call'[c].state \in {"scheduled", "live"}
    BY <1>1, <1>3, <1>4, TasksAssumption
  <2> QED BY <1>1, <1>3, <1>4, <2>1, <2>2 DEF Shaped, Begun, GroupCalls!Allowed, GroupCalls!Edits
<1> QED BY <1>1, <1>2, <1>3, <1>4, <1>5, TaskMoves

LEMMA RequestBegins ==
    ASSUME GroupInv, NEW u \in Users, NEW x \in Requests, task[x] = GroupCalls!Idle,
           NEW c \in GroupCalls!Open,
           \/ \E muted \in {"muted", "unmuted"} : GroupCalls!JoinGroupCall(x, u, c, muted)
           \/ GroupCalls!JoinGroupCallVideo(x, u, c)
           \/ GroupCalls!LeaveGroupCall(x, u, c)
           \/ \E t \in Users, arg \in GroupCalls!Edits :
                  GroupCalls!EditGroupCallParticipant(x, u, c, t, arg)
           \/ GroupCalls!DiscardGroupCall(x, u, c)
    PROVE  GroupInv'
<1>1. CASE \E muted \in {"muted", "unmuted"} : GroupCalls!JoinGroupCall(x, u, c, muted)
  BY <1>1, BeginsKeepsGroup DEF GroupCalls!JoinGroupCall
<1>2. CASE GroupCalls!JoinGroupCallVideo(x, u, c)
  BY <1>2, BeginsKeepsGroup DEF GroupCalls!JoinGroupCallVideo
<1>3. CASE GroupCalls!LeaveGroupCall(x, u, c)
  BY <1>3, BeginsKeepsGroup DEF GroupCalls!LeaveGroupCall
<1>4. CASE \E t \in Users, arg \in GroupCalls!Edits :
               GroupCalls!EditGroupCallParticipant(x, u, c, t, arg)
  BY <1>4, BeginsKeepsGroup DEF GroupCalls!EditGroupCallParticipant
<1>5. CASE GroupCalls!DiscardGroupCall(x, u, c)
  BY <1>5, BeginsKeepsGroup DEF GroupCalls!DiscardGroupCall
<1> QED BY <1>1, <1>2, <1>3, <1>4, <1>5

LEMMA ReadRowKeeps ==
    ASSUME GroupInv, NEW x \in Tasks, GroupCalls!ReadRow(x)
    PROVE  GroupInv'
<1> DEFINE k == task[x]
           r == part[k.c][k.t]
<1>1. /\ Shaped(x) /\ k.step = "row" /\ k.op \in {"join", "video", "leave", "edit", "grace"}
      /\ k.c \in GroupCallIds /\ k.u \in Users /\ k.t \in Users
  <2>1. Shaped(x)
    BY DEF GroupInv, TasksAreShaped
  <2>2. k.step = "row" /\ k.op \in {"join", "video", "leave", "edit", "grace"}
    BY <2>1 DEF GroupCalls!ReadRow, Shaped, Steps, OfRequests
  <2>3. k.c \in GroupCallIds /\ k.u \in Users /\ k.t \in Users
    BY <2>1, <2>2 DEF Shaped
  <2> QED BY <2>1, <2>2, <2>3
<1>2. UNCHANGED <<call, part, sfu, last, posts, online, reg, cause>>
  BY DEF GroupCalls!ReadRow, GroupCalls!db, GroupCalls!media, GroupCalls!grace
<1>3. r.in = "yes" => Begun(k.c)
  BY <1>1 DEF GroupInv, CallsAreFresh
<1>4. CASE k.op = "video" /\ r.in = "yes" /\ GroupCalls!Goes(x, "media")
  <2>1. /\ Only(x) /\ task'[x].op = k.op /\ task'[x].u = k.u /\ task'[x].t = k.t
        /\ task'[x].c = k.c /\ task'[x].step = "media" /\ task'[x].todo = k.todo
    BY <1>4, GoesIs DEF GroupInv
  <2>2. Shaped(x)'
    BY <1>1, <1>2, <1>3, <1>4, <2>1 DEF Shaped, Steps, OfRequests, Begun
  <2>3. x \notin Timers
    BY <1>1, <1>4 DEF Shaped, OfRequests
  <2> QED BY <1>1, <1>2, <1>4, <2>1, <2>2, <2>3, TaskMoves
<1>5. CASE /\ k.op = "join" \/ (k.op # "video" /\ r.in = "yes")
           /\ task' = [task EXCEPT ![x].row = r, ![x].step = "save"]
  <2>1. /\ Only(x) /\ task'[x].op = k.op /\ task'[x].u = k.u /\ task'[x].t = k.t
        /\ task'[x].c = k.c /\ task'[x].step = "save" /\ task'[x].todo = k.todo
        /\ task'[x].arg = k.arg /\ task'[x].lost = k.lost /\ task'[x].row = r
    BY <1>5 DEF GroupInv, GroupTypes, Only, IsTask
  <2>2. Shaped(x)'
    <3>1. /\ k.c # 0 /\ k.op \in {"join", "leave", "edit", "grace"} /\ "save" \in Steps[k.op]
          /\ k.op = "edit" => k.arg \in GroupCalls!Allowed(k.u, k.t)
          /\ k.op # "edit" => k.t = k.u
          /\ k.op \in {"none"} \cup (IF x \in Timers THEN {"grace"} ELSE OfRequests)
          /\ k.todo \subseteq GroupCallIds /\ k.c \notin k.todo
          /\ k.todo # {} => k.op \in {"create", "grace"}
          /\ \A c \in k.todo : call[c].state # "none"
      BY <1>1, <1>5, TasksAssumption DEF Shaped, Steps
    <3>2. /\ call'[k.c].state \in {"live", "over"}
          /\ k.op # "join" => r.in = "yes"
      BY <1>1, <1>2, <1>3, <1>5 DEF Shaped, Begun
    <3> HIDE DEF k, r
    <3> QED BY <1>1, <1>2, <2>1, <3>1, <3>2
            DEF Shaped, Begun, GroupCalls!Allowed, GroupCalls!Edits
  <2>3. x \in Timers => k.op = "grace"
    BY <1>1 DEF Shaped
  <2> QED BY <1>1, <1>2, <2>1, <2>2, <2>3, TaskMoves
<1>6. CASE k.op # "join" /\ r.in # "yes" /\ GroupCalls!Leaves(x)
  <2>1. CASE k.op = "grace"
    <3>1. /\ Only(x) /\ task'[x].op = k.op /\ task'[x].u = k.u /\ task'[x].t = k.t
          /\ task'[x].c = k.c /\ task'[x].step = "next" /\ task'[x].todo = k.todo
          /\ task'[x].lost = k.lost
      BY <1>6, <2>1, GoesIs DEF GroupInv, GroupCalls!Leaves
    <3>2. Shaped(x)'
      BY <1>1, <1>2, <2>1, <3>1 DEF Shaped, Steps, OfRequests
    <3> QED BY <1>1, <1>2, <2>1, <3>1, <3>2, TaskMoves
  <2>2. CASE k.op # "grace"
    <3>1. Only(x) /\ task'[x].op = "none" /\ task'[x].c = 0 /\ task'[x].todo = {} /\ Shaped(x)'
      BY <1>6, <2>2, EndsIs DEF GroupInv, GroupCalls!Leaves
    <3>2. x \notin Timers
      BY <1>1, <2>2 DEF Shaped
    <3> QED BY <1>1, <1>2, <3>1, <3>2, TaskMoves
  <2> QED BY <2>1, <2>2
<1> QED BY <1>4, <1>5, <1>6 DEF GroupCalls!ReadRow

\* A request ends, or a timer goes on to the next call.
LEMMA LeavesIs ==
    ASSUME GroupInv, NEW x \in Tasks, GroupCalls!Leaves(x), task[x].op \notin {"none", "create"}
    PROVE  /\ Only(x) /\ task'[x].op \in {"none", "grace"} /\ task'[x].step \in {"none", "next"}
           /\ task'[x].c = 0 \/ (task'[x].c = task[x].c /\ task'[x].step = "next")
           /\ task'[x].todo = {} \/ task'[x].todo = task[x].todo
           /\ Onward => Shaped(x)'
           /\ x \in Timers => /\ task[x].op = "grace" /\ task'[x].op = "grace"
                              /\ task'[x].u = task[x].u /\ task'[x].lost = task[x].lost
<1> DEFINE k == task[x]
<1>1. Shaped(x) /\ k.todo \subseteq GroupCallIds
  BY DEF GroupInv, TasksAreShaped, Shaped
<1>2. CASE k.op = "grace"
  <2>1. /\ Only(x) /\ task'[x].op = k.op /\ task'[x].u = k.u /\ task'[x].t = k.t
        /\ task'[x].c = k.c /\ task'[x].step = "next" /\ task'[x].todo = k.todo
        /\ task'[x].lost = k.lost
    BY <1>2, GoesIs DEF GroupInv, GroupCalls!Leaves
  <2>2. Onward => \A c \in k.todo : call'[c].state # "none"
    BY <1>1 DEF Shaped, Onward
  <2>3. Onward => Shaped(x)'
    BY <1>1, <1>2, <2>1, <2>2 DEF Shaped, Steps, OfRequests
  <2> QED BY <1>2, <2>1, <2>3
<1>3. CASE k.op # "grace"
  <2>1. /\ Only(x) /\ task'[x].op = "none" /\ task'[x].step = "none" /\ task'[x].c = 0
        /\ task'[x].todo = {} /\ Shaped(x)'
    BY <1>3, EndsIs DEF GroupInv, GroupCalls!Leaves
  <2>2. x \notin Timers
    BY <1>1, <1>3 DEF Shaped
  <2> QED BY <2>1, <2>2
<1> QED BY <1>2, <1>3

LEMMA CountKeeps ==
    ASSUME GroupInv, NEW x \in Tasks, GroupCalls!Count(x)
    PROVE  GroupInv'
<1> DEFINE k == task[x]
<1>1. /\ Shaped(x) /\ k.step = "count" /\ k.op \in {"leave", "grace"} /\ k.c \in GroupCallIds
      /\ Begun(k.c) /\ k.u \in Users /\ k.t = k.u /\ k.c # 0
  BY TasksAssumption DEF GroupCalls!Count, GroupInv, TasksAreShaped, Shaped, Steps, OfRequests
<1>2. UNCHANGED <<call, part, sfu, last, posts, online, reg, cause>>
  BY DEF GroupCalls!Count, GroupCalls!db, GroupCalls!media, GroupCalls!grace
<1>3. Onward
  BY <1>2, CallsStay DEF GroupInv
<1>4. x \in Timers => k.op = "grace"
  BY <1>1 DEF Shaped
<1>5. CASE GroupCalls!In(k.c) = {} /\ GroupCalls!Goes(x, "over")
  <2>1. /\ Only(x) /\ task'[x].op = k.op /\ task'[x].u = k.u /\ task'[x].t = k.t
        /\ task'[x].c = k.c /\ task'[x].step = "over" /\ task'[x].todo = k.todo
        /\ task'[x].lost = k.lost
    BY <1>5, GoesIs DEF GroupInv
  <2>2. Shaped(x)'
    BY <1>1, <1>2, <2>1 DEF Shaped, Steps, OfRequests, Begun
  <2> QED BY <1>1, <1>2, <1>4, <2>1, <2>2, TaskMoves
<1>6. CASE GroupCalls!In(k.c) # {} /\ GroupCalls!Leaves(x)
  <2>1. \E u \in Users : part[k.c][u].in = "yes"
    BY <1>6 DEF GroupCalls!In
  <2> QED BY <1>1, <1>2, <1>3, <1>6, <2>1, LeavesIs, TaskMoves
<1> QED BY <1>5, <1>6 DEF GroupCalls!Count

LEMMA ExpireKeeps ==
    ASSUME GroupInv, NEW g \in Timers, GroupCalls!Expire(g)
    PROVE  GroupInv'
<1> DEFINE k == task[g]
<1>1. /\ g \in Tasks /\ Shaped(g) /\ k.step = "sleep" /\ k.op = "grace" /\ k.c = 0 /\ k.todo = {}
      /\ k.u \in Users /\ k.t = k.u
  BY DEF Tasks, GroupCalls!Expire, GroupInv, TasksAreShaped, Shaped, Steps, OfRequests
<1>2. UNCHANGED <<call, part, sfu, last, posts, online, reg, cause>>
  BY DEF GroupCalls!Expire, GroupCalls!db, GroupCalls!media, GroupCalls!grace
<1>3. /\ Only(g) /\ task'[g].op = k.op /\ task'[g].u = k.u /\ task'[g].t = k.t
      /\ task'[g].c = k.c /\ task'[g].step = "next" /\ task'[g].lost = k.lost
      /\ \A c \in task'[g].todo : c \in GroupCallIds /\ call[c].state = "live"
  BY <1>1 DEF GroupCalls!Expire, GroupInv, GroupTypes, Only, IsTask
<1>4. Shaped(g)'
  BY <1>1, <1>2, <1>3, TasksAssumption DEF Shaped, Steps, OfRequests
<1> QED BY <1>1, <1>2, <1>3, <1>4, TaskMoves

LEMMA LeaveNextKeeps ==
    ASSUME GroupInv, NEW g \in Timers, GroupCalls!LeaveNext(g)
    PROVE  GroupInv'
<1> DEFINE k == task[g]
<1>1. /\ g \in Tasks /\ Shaped(g) /\ k.step = "next" /\ k.op = "grace"
      /\ k.u \in Users /\ k.t = k.u
  BY DEF Tasks, GroupCalls!LeaveNext, GroupInv, TasksAreShaped, Shaped, Steps, OfRequests
<1>2. UNCHANGED <<call, part, sfu, last, posts, online, reg, cause>>
  BY DEF GroupCalls!LeaveNext, GroupCalls!db, GroupCalls!media, GroupCalls!grace
<1>3. PICK c \in k.todo :
          task' = [task EXCEPT ![g].c = c, ![g].todo = @ \ {c}, ![g].step = "row"]
  BY DEF GroupCalls!LeaveNext
<1>4. /\ Only(g) /\ task'[g].op = k.op /\ task'[g].u = k.u /\ task'[g].t = k.t
      /\ task'[g].c = c /\ task'[g].step = "row" /\ task'[g].lost = k.lost
      /\ task'[g].todo = k.todo \ {c}
  BY <1>1, <1>3 DEF GroupInv, GroupTypes, Only, IsTask
<1>5. c \in GroupCallIds /\ c # 0 /\ \A d \in k.todo : d \in GroupCallIds /\ call'[d].state # "none"
  BY <1>1, <1>2, TasksAssumption DEF Shaped
<1>6. Shaped(g)'
  BY <1>1, <1>4, <1>5 DEF Shaped, Steps, OfRequests
<1> QED BY <1>1, <1>2, <1>4, <1>6, TaskMoves

LEMMA TimersStay ==
    ASSUME TimersAreKnown, NEW x \in Tasks, Only(x), UNCHANGED <<online, reg>>,
           x \in Timers => /\ task[x].op = "grace" /\ task'[x].op = "grace"
                           /\ task'[x].u = task[x].u /\ task'[x].lost = task[x].lost
                           /\ task[x].step # "cancelled" /\ task'[x].step # "cancelled"
    PROVE  TimersAreKnown'
BY DEF TimersAreKnown, Only, Tasks

\* A step that is about one participant.
LEMMA OthersFollow ==
    ASSUME SfuFollows, NEW c, NEW u, cause.astray \subseteq cause'.astray,
           \A d \in GroupCallIds : call'[d].state = "live" => call[d].state = "live",
           \A d \in GroupCallIds, v \in Users : d # c \/ v # u =>
               /\ last'[d][v] = last[d][v] /\ part'[d][v] = part[d][v] /\ sfu'[d][v] = sfu[d][v]
               /\ Comes(d, v) => Comes(d, v)',
           \A p : ~About(p, c, u) => (p \in posts' <=> p \in posts),
           (c \in GroupCallIds /\ u \in Users /\ call[c].state = "live"
                /\ <<c, u>> \notin cause'.astray /\ Followed(c, u)) => Followed(c, u)'
    PROVE  SfuFollows'
<1> SUFFICES ASSUME NEW d \in GroupCallIds, NEW v \in Users, call'[d].state = "live",
                    <<d, v>> \notin cause'.astray
             PROVE  Followed(d, v)'
  BY DEF SfuFollows
<1>1. Followed(d, v) /\ call[d].state = "live"
  BY DEF SfuFollows
<1>2. CASE d = c /\ v = u
  BY <1>1, <1>2
<1>3. CASE d # c \/ v # u
  <2>1. \A p : About(p, d, v) => (p \in posts' <=> p \in posts)
    BY <1>3 DEF About
  <2> QED BY <1>1, <1>3, <2>1, FollowStays
<1> QED BY <1>2, <1>3

\* The SFU is told of a participant, if it was not told the same before.
LEMMA SyncIs ==
    ASSUME GroupTypes, NEW c \in GroupCallIds, NEW u \in Users, NEW s \in {"playing", "paused"},
           GroupCalls!Sync(c, u, s)
    PROVE  /\ Heeds(last)' /\ last'[c][u] = s
           /\ \A d \in GroupCallIds, v \in Users : d # c \/ v # u => last'[d][v] = last[d][v]
           /\ \A p \in posts' : p \in posts \/ (p = [do |-> s, c |-> c, u |-> u] /\ last[c][u] # s)
           /\ posts \subseteq posts'
           /\ last[c][u] # s => [do |-> s, c |-> c, u |-> u] \in posts'
           /\ \A p \in posts' : IsPost(p)
<1>1. CASE last[c][u] = s
  BY <1>1 DEF GroupCalls!Sync, GroupTypes
<1>2. CASE last[c][u] # s
  <2>1. /\ last' = [last EXCEPT ![c][u] = s]
        /\ posts' = posts \cup {[do |-> s, c |-> c, u |-> u]}
    BY <1>2 DEF GroupCalls!Sync
  <2>2. /\ Heeds(last)' /\ last'[c][u] = s
        /\ \A d \in GroupCallIds, v \in Users : d # c \/ v # u => last'[d][v] = last[d][v]
    BY <2>1 DEF GroupTypes, Heeds
  <2>3. IsPost([do |-> s, c |-> c, u |-> u])
    BY DEF IsPost
  <2> QED BY <1>2, <2>1, <2>2, <2>3 DEF GroupTypes
<1> QED BY <1>1, <1>2

LEMMA SyncFollows ==
    ASSUME GroupTypes, NEW c \in GroupCallIds, NEW u \in Users, NEW s \in {"playing", "paused"},
           GroupCalls!Sync(c, u, s), Followed(c, u), Due(part'[c][u]) = s, UNCHANGED sfu,
           Comes(c, u) => Comes(c, u)', last[c][u] # "none" \/ Comes(c, u)'
    PROVE  Followed(c, u)'
<1> DEFINE new == [do |-> s, c |-> c, u |-> u]
<1>1. /\ last'[c][u] = s /\ posts \subseteq posts'
      /\ \A p \in posts' : p \in posts \/ (p = new /\ last[c][u] # s)
      /\ last[c][u] # s => new \in posts'
  BY ZenonT(60), SyncIs
<1>2. new.do = s /\ About(new, c, u)
  BY DEF About
<1>3. Due(part[c][u])' = s
  OBVIOUS
<1> HIDE DEF new
<1>4. CASE TwoGo(c, u)
  BY <1>1, <1>4 DEF TwoGo, Followed
<1>5. CASE ~TwoGo(c, u) /\ \E q \in posts : About(q, c, u)
  <2>1. PICK q \in posts : About(q, c, u)
    BY <1>5
  <2>2. IF q.do = "leave" THEN last[c][u] = "none"
        ELSE last[c][u] = q.do /\ (sfu[c][u] # "none" \/ Comes(c, u))
    BY <1>5, <2>1 DEF Followed
  <2>3. CASE last[c][u] = s
    <3>1. posts' = posts /\ last'[c][u] = last[c][u]
      BY <1>1, <2>3
    <3>2. /\ \A p \in posts : About(p, c, u) =>
                 IF p.do = "leave" THEN last[c][u] = "none"
                 ELSE last[c][u] = p.do /\ (sfu[c][u] # "none" \/ Comes(c, u)')
          /\ ~ \A p \in posts : ~About(p, c, u)
      BY <1>5, <2>1 DEF Followed
    <3> QED BY <1>1, <1>3, <3>1, <3>2 DEF Followed, About
  <2>4. CASE last[c][u] # s
    <3>1. q # new /\ q \in posts' /\ new \in posts'
      BY <1>1, <1>2, <2>1, <2>2, <2>4
    <3>2. TwoGo(c, u)'
      BY <1>2, <2>1, <3>1 DEF TwoGo, About
    <3> QED BY <1>1, <3>2 DEF Followed
  <2> QED BY <2>3, <2>4
<1>6. CASE \A q \in posts : ~About(q, c, u)
  <2>1. sfu[c][u] = last[c][u] \/ (Comes(c, u) /\ sfu[c][u] = "none" /\ last[c][u] = "playing")
    BY <1>6 DEF Followed, TwoGo
  <2>2. CASE last[c][u] = s
    <3>1. \A p \in posts' : p \in posts
      BY <1>1, <2>2
    <3> QED BY <1>1, <1>6, <2>1, <2>2, <3>1 DEF Followed, About
  <2>3. CASE last[c][u] # s
    <3>1. \A p \in posts' : About(p, c, u) => p = new
      BY <1>1, <1>6
    <3> QED BY <1>1, <1>2, <2>1, <2>3, <3>1 DEF Followed, About
  <2> QED BY <2>2, <2>3
<1> QED BY <1>4, <1>5, <1>6

\* A task writes something about one participant of its call.
ActsOn(x, c, u) ==
    /\ Only(x) /\ Shaped(x)' /\ c = task[x].c /\ task[x].step \in {"save", "media"}
    /\ task'[x].op # "create" /\ task'[x].c \in {0, c} /\ task'[x].todo \subseteq task[x].todo
    /\ task[x].step = "media" => task[x].u = u
    /\ UNCHANGED <<call, online, reg>>
    /\ DOMAIN cause' = {"cut", "twice", "late", "astray"} /\ cause'.cut = cause.cut
    /\ cause'.twice = cause.twice /\ cause'.late = cause.late
    /\ cause.astray \subseteq cause'.astray
    /\ DOMAIN part' = GroupCallIds /\ \A d \in GroupCallIds : DOMAIN part'[d] = Users
    /\ IsRow(part'[c][u]) /\ Heeds(sfu)' /\ Heeds(last)'
    /\ \A d \in GroupCallIds, v \in Users : d # c \/ v # u =>
           part'[d][v] = part[d][v] /\ sfu'[d][v] = sfu[d][v] /\ last'[d][v] = last[d][v]
    /\ \A p \in posts' : IsPost(p)
    /\ \A p : ~About(p, c, u) => (p \in posts' <=> p \in posts)
    /\ \/ part'[c][u].in \in {part[c][u].in, "yes"}
       \/ task'[x].c = c /\ task'[x].step = "count"
    /\ x \in Timers => /\ task[x].op = "grace" /\ task'[x].op = "grace"
                       /\ task'[x].u = task[x].u /\ task'[x].lost = task[x].lost
                       /\ task'[x].step # "cancelled"
    /\ (call[c].state = "live" /\ <<c, u>> \notin cause'.astray /\ Followed(c, u))
           => Followed(c, u)'

LEMMA OneActs ==
    ASSUME GroupInv, NEW x \in Tasks, NEW c, NEW u \in Users, ActsOn(x, c, u)
    PROVE  GroupInv'
<1> DEFINE k == task[x]
           n == task'[x]
<1>1. /\ Only(x) /\ Shaped(x)' /\ c = k.c /\ k.step \in {"save", "media"}
      /\ n.op # "create" /\ n.c \in {0, c} /\ n.todo \subseteq k.todo
      /\ k.step = "media" => k.u = u
  BY DEF ActsOn
<1>2. /\ UNCHANGED <<call, online, reg>>
      /\ DOMAIN cause' = {"cut", "twice", "late", "astray"} /\ cause'.cut = cause.cut
      /\ cause'.twice = cause.twice /\ cause'.late = cause.late
      /\ cause.astray \subseteq cause'.astray
  BY DEF ActsOn
<1>3. /\ DOMAIN part' = GroupCallIds /\ \A d \in GroupCallIds : DOMAIN part'[d] = Users
      /\ IsRow(part'[c][u]) /\ Heeds(sfu)' /\ Heeds(last)' /\ \A p \in posts' : IsPost(p)
  BY DEF ActsOn
<1>4. \A d \in GroupCallIds, v \in Users : d # c \/ v # u =>
          part'[d][v] = part[d][v] /\ sfu'[d][v] = sfu[d][v] /\ last'[d][v] = last[d][v]
  BY DEF ActsOn
<1>5. /\ \A p : ~About(p, c, u) => (p \in posts' <=> p \in posts)
      /\ (call[c].state = "live" /\ <<c, u>> \notin cause'.astray /\ Followed(c, u))
             => Followed(c, u)'
  BY DEF ActsOn
<1>6. part'[c][u].in \in {part[c][u].in, "yes"} \/ (n.c = c /\ n.step = "count")
  BY DEF ActsOn
<1>7. Shaped(x) /\ Onward
  BY <1>2, CallsStay DEF GroupInv, TasksAreShaped
<1>8. c \in GroupCallIds /\ c # 0 /\ Begun(c)
  <2>1. c # 0
    BY <1>1, <1>7 DEF Shaped, Steps
  <2> QED BY <1>1, <1>7, <2>1 DEF Shaped
<1>9. GroupTypes'
  BY <1>1, <1>2, <1>3, <1>4, <1>7 DEF GroupInv, GroupTypes, Only
<1>10. CallsAreFresh'
  <2>1. ASSUME NEW p \in posts'
        PROVE  Begun(p.c)'
    <3>1. CASE About(p, c, u)
      BY <1>2, <1>8, <3>1 DEF Begun, About
    <3>2. CASE ~About(p, c, u)
      BY <1>2, <1>5, <3>2 DEF GroupInv, CallsAreFresh, Begun
    <3> QED BY <3>1, <3>2
  <2>2. ASSUME NEW d \in GroupCallIds, NEW v \in Users, ~Begun(d)'
        PROVE  part'[d][v].in = "never" /\ sfu'[d][v] = "none" /\ last'[d][v] = "none"
    <3>1. d # c /\ ~Begun(d)
      BY <1>2, <1>8, <2>2 DEF Begun
    <3> QED BY <1>4, <3>1 DEF GroupInv, CallsAreFresh
  <2> QED BY <2>1, <2>2 DEF CallsAreFresh
<1>11. TasksAreShaped'
  BY <1>1, <1>7, ShapeStays DEF GroupInv, TasksAreShaped, Only
<1>12. OneCreates'
  <2>1. GroupCalls!Open' = GroupCalls!Open
    BY <1>2 DEF GroupCalls!Open
  <2> QED BY <1>1, <1>2, <2>1, OneStays DEF GroupInv, Only
<1>13. OversAreTidy'
  <2>1. \A d \in GroupCallIds : Dismissed(d)' => call[d].state = "over"
    BY <1>2 DEF Dismissed
  <2>2. ASSUME NEW d \in GroupCallIds, Dismissed(d), Unworked(d)
        PROVE  /\ Unworked(d)'
               /\ \A v \in Users : /\ part[d][v].in # "yes" => part'[d][v].in # "yes"
                                   /\ sfu[d][v] = "none" => sfu'[d][v] = "none"
               /\ \A y \in Tasks : Empties(y, d) => Empties(y, d)' \/ Emptied(d)'
    <3>1. d # c /\ d # 0
      BY <1>1, <2>2, TasksAssumption DEF Unworked, Empties
    <3>2. \A v \in Users : part'[d][v] = part[d][v] /\ sfu'[d][v] = sfu[d][v]
      BY <1>4, <3>1
    <3>3. \A y \in Tasks : task[y].c = d => y # x /\ task'[y] = task[y]
      BY <1>1, <3>1 DEF Only
    <3>4. \A y \in Tasks : Empties(y, d) => Empties(y, d)'
      BY <3>2, <3>3 DEF Empties
    <3>5. \A y \in Tasks : d \notin task'[y].todo /\ (task'[y].c = d => task[y].c = d)
      BY <1>1, <2>2, <3>1 DEF Unworked, Only
    <3>6. Unworked(d)'
      BY <2>2, <3>3, <3>4, <3>5 DEF Unworked
    <3> QED BY <3>2, <3>4, <3>6
  <2> QED BY <1>2, <2>1, <2>2, TidyStays DEF GroupInv
<1>14. SomebodyCounts'
  <2> SUFFICES ASSUME NEW d \in GroupCallIds, Deserted(d)'
               PROVE  \/ Deserted(d) /\ \A y \in Tasks : Counts(y, d) => Counts(y, d)'
                      \/ \E y \in Tasks : Counts(y, d)'
    BY CountStays DEF GroupInv
  <2>1. CASE n.c = c /\ n.step = "count" /\ d = c
    BY <2>1 DEF Counts
  <2>2. CASE d # c \/ part'[c][u].in \in {part[c][u].in, "yes"}
    <3>1. part'[d][u].in # "yes"
      BY DEF Deserted
    <3>2. \A v \in Users : part'[d][v].in = part[d][v].in
      BY <1>4, <2>2, <3>1
    <3>3. Deserted(d)
      BY <1>2, <3>2 DEF Deserted
    <3>4. \A y \in Tasks : Counts(y, d) => Counts(y, d)'
      BY <1>1 DEF Counts, Only
    <3> QED BY <3>3, <3>4
  <2> QED BY <1>6, <2>1, <2>2
<1>15. SfuFollows'
  <2>1. \A d, v : d # c \/ v # u => (Comes(d, v) => Comes(d, v)')
    BY <1>1 DEF Comes, Only
  <2>2. \A d \in GroupCallIds, v \in Users : d # c \/ v # u =>
            /\ last'[d][v] = last[d][v] /\ part'[d][v] = part[d][v] /\ sfu'[d][v] = sfu[d][v]
            /\ Comes(d, v) => Comes(d, v)'
    BY <1>4, <2>1
  <2> QED BY <1>2, <1>5, <2>2, OthersFollow DEF GroupInv
<1>16. TimersAreKnown'
  <2>1. x \in Timers => /\ task[x].op = "grace" /\ task'[x].op = "grace"
                        /\ task'[x].u = task[x].u /\ task'[x].lost = task[x].lost
                        /\ task'[x].step # "cancelled"
    BY DEF ActsOn
  <2> QED BY <1>1, <1>2, <2>1, TimersStay DEF GroupInv
<1> QED BY <1>9, <1>10, <1>11, <1>12, <1>13, <1>14, <1>15, <1>16 DEF GroupInv

\* The rows of the participants are functions of two arguments, and one changes.
LEMMA PartChanges ==
    ASSUME GroupTypes, NEW c \in GroupCallIds, NEW u \in Users, NEW r,
           part' = [part EXCEPT ![c][u] = r]
    PROVE  /\ DOMAIN part' = GroupCallIds /\ \A d \in GroupCallIds : DOMAIN part'[d] = Users
           /\ part'[c][u] = r
           /\ \A d \in GroupCallIds, v \in Users : d # c \/ v # u => part'[d][v] = part[d][v]
BY OneChanges DEF GroupTypes

LEMMA LeftIs ==
    ASSUME NEW r, IsRow(r)
    PROVE  IsRow(GroupCalls!Left(r)) /\ GroupCalls!Left(r).in = "left"
BY DEF IsRow, GroupCalls!Left

LEMMA JoinedIs ==
    ASSUME NEW r, IsRow(r), NEW s, NEW muted
    PROVE  IsRow(GroupCalls!Joined(r, s, muted)) /\ GroupCalls!Joined(r, s, muted).in = "yes"
BY DEF IsRow, GroupCalls!Joined

LEMMA EditedIs ==
    ASSUME NEW r, IsRow(r), NEW k, k.arg \in GroupCalls!Edits
    PROVE  IsRow(GroupCalls!Edited(r, k)) /\ GroupCalls!Edited(r, k).in = r.in
<1>1. CASE k.arg = "mute"
  <2>1. GroupCalls!Edited(r, k) = [r EXCEPT !.muted = TRUE, !.admin = @ \/ k.u # k.t]
    BY <1>1, Zenon DEF GroupCalls!Edited
  <2> QED BY <2>1 DEF IsRow
<1>2. CASE k.arg = "unmute"
  <2>1. GroupCalls!Edited(r, k) = [r EXCEPT !.muted = FALSE, !.admin = FALSE]
    BY <1>2, Zenon DEF GroupCalls!Edited
  <2> QED BY <2>1 DEF IsRow
<1>3. CASE k.arg = "quiet"
  <2>1. GroupCalls!Edited(r, k) = [r EXCEPT !.muted = TRUE, !.admin = TRUE]
    BY <1>3, Zenon DEF GroupCalls!Edited
  <2> QED BY <2>1 DEF IsRow
<1>4. CASE k.arg = "loud"
  <2>1. GroupCalls!Edited(r, k) =
            IF k.row.admin THEN [r EXCEPT !.muted = FALSE, !.admin = FALSE] ELSE r
    BY <1>4, Zenon DEF GroupCalls!Edited
  <2> QED BY <2>1 DEF IsRow
<1> QED BY <1>1, <1>2, <1>3, <1>4 DEF GroupCalls!Edits

LEMMA SaveLeaveKeeps ==
    ASSUME GroupInv, NEW x \in Tasks, GroupCalls!SaveLeave(x)
    PROVE  GroupInv'
<1> DEFINE k == task[x]
<1>1. PICK c \in GroupCallIds, u \in Users :
          /\ c = k.c /\ u = k.u /\ k.t = u /\ c # 0 /\ Begun(c)
          /\ Shaped(x) /\ k.step = "save" /\ k.op \in {"leave", "grace"}
          /\ k.todo \subseteq GroupCallIds /\ (x \in Timers => k.op = "grace")
  <2>1. Shaped(x) /\ k.step = "save" /\ k.op \in {"leave", "grace"}
    BY DEF GroupCalls!SaveLeave, GroupInv, TasksAreShaped
  <2>2. k.c \in GroupCallIds /\ k.u \in Users /\ k.t = k.u /\ k.c # 0
    BY <2>1, TasksAssumption DEF Shaped
  <2> QED BY <2>1, <2>2 DEF Shaped
<1> DEFINE new == [do |-> "leave", c |-> c, u |-> u]
<1>2. /\ part' = [part EXCEPT ![c][u] = GroupCalls!Left(part[c][u])]
      /\ last' = [last EXCEPT ![c][u] = "none"]
      /\ posts' = posts \cup {new}
      /\ GroupCalls!Goes(x, "count")
      /\ UNCHANGED <<call, sfu, online, reg, cause>>
  BY <1>1 DEF GroupCalls!SaveLeave, GroupCalls!grace
<1>3. /\ Only(x) /\ task'[x].op = k.op /\ task'[x].u = k.u /\ task'[x].t = k.t
      /\ task'[x].c = k.c /\ task'[x].step = "count" /\ task'[x].todo = k.todo
      /\ task'[x].lost = k.lost
  BY <1>2, GoesIs DEF GroupInv
<1>4. Shaped(x)'
  BY <1>1, <1>2, <1>3 DEF Shaped, Steps, OfRequests, Begun
<1>5. /\ DOMAIN part' = GroupCallIds /\ \A d \in GroupCallIds : DOMAIN part'[d] = Users
      /\ part'[c][u] = GroupCalls!Left(part[c][u])
      /\ \A d \in GroupCallIds, v \in Users : d # c \/ v # u => part'[d][v] = part[d][v]
  BY <1>2, OneChanges DEF GroupInv, GroupTypes
<1>6. IsRow(part'[c][u]) /\ part'[c][u].in = "left"
  BY <1>1, <1>5, LeftIs DEF GroupInv, GroupTypes
<1>7. /\ Heeds(last)' /\ last'[c][u] = "none"
      /\ \A d \in GroupCallIds, v \in Users : d # c \/ v # u => last'[d][v] = last[d][v]
  BY <1>2 DEF GroupInv, GroupTypes, Heeds
<1>8. new.do = "leave" /\ About(new, c, u) /\ IsPost(new)
  BY DEF About, IsPost
<1>9. ASSUME Followed(c, u)
      PROVE  Followed(c, u)'
  <2>1. last'[c][u] = Due(part[c][u])'
    BY <1>6, <1>7 DEF Due
  <2>2. CASE TwoGo(c, u)
    BY <1>2, <2>1, <2>2 DEF Followed, TwoGo
  <2>3. CASE \E q \in posts : About(q, c, u) /\ q.do # "leave"
    <3>1. PICK q \in posts : About(q, c, u) /\ q # new
      BY <1>8, <2>3
    <3>2. q \in posts' /\ new \in posts'
      BY <1>2
    <3>3. TwoGo(c, u)'
      BY <1>8, <3>1, <3>2 DEF TwoGo, About
    <3> QED BY <2>1, <3>3 DEF Followed
  <2>4. CASE \A q \in posts : About(q, c, u) => q.do = "leave"
    <3>1. \A q \in posts' : About(q, c, u) => q.do = "leave"
      BY <1>2, <1>8, <2>4
    <3>2. new \in posts'
      BY <1>2
    <3> HIDE DEF new
    <3> QED BY <1>7, <1>8, <2>1, <3>1, <3>2 DEF Followed, About
  <2> QED BY <2>2, <2>3, <2>4
<1>10. \A p : ~About(p, c, u) => (p \in posts' <=> p \in posts)
  BY <1>2, <1>8
<1>11. \A p \in posts' : IsPost(p)
  BY <1>2, <1>8 DEF GroupInv, GroupTypes
<1>12. Heeds(sfu)' /\ DOMAIN cause' = {"cut", "twice", "late", "astray"}
  BY <1>2 DEF GroupInv, GroupTypes, Heeds
<1>13. /\ c = task[x].c /\ task[x].step \in {"save", "media"} /\ task'[x].op # "create"
       /\ task'[x].c \in {0, c} /\ task'[x].todo \subseteq task[x].todo
       /\ task[x].step = "media" => task[x].u = u
       /\ part'[c][u].in \in {part[c][u].in, "yes"} \/ (task'[x].c = c /\ task'[x].step = "count")
       /\ x \in Timers => /\ task[x].op = "grace" /\ task'[x].op = "grace"
                          /\ task'[x].u = task[x].u /\ task'[x].lost = task[x].lost
                          /\ task'[x].step # "cancelled"
  BY <1>1, <1>3
<1>14. UNCHANGED <<call, online, reg>> /\ cause' = cause
       /\ \A d \in GroupCallIds, v \in Users : sfu'[d][v] = sfu[d][v]
  BY <1>2
<1> HIDE DEF k, new
<1>15. \A d \in GroupCallIds, v \in Users : d # c \/ v # u =>
               part'[d][v] = part[d][v] /\ sfu'[d][v] = sfu[d][v] /\ last'[d][v] = last[d][v]
  BY <1>5, <1>7, <1>14
<1>16. ActsOn(x, c, u)
  BY <1>3, <1>4, <1>5, <1>6, <1>7, <1>9, <1>10, <1>11, <1>12, <1>13, <1>14, <1>15 DEF ActsOn
<1> QED BY <1>16, OneActs

LEMMA SaveEditKeeps ==
    ASSUME GroupInv, NEW x \in Tasks, GroupCalls!SaveEdit(x)
    PROVE  GroupInv'
<1> DEFINE k == task[x]
<1>1. PICK c \in GroupCallIds, u \in Users :
          /\ c = k.c /\ u = k.t /\ c # 0 /\ Begun(c)
          /\ Shaped(x) /\ k.step = "save" /\ k.op = "edit" /\ k.row.in = "yes" /\ x \notin Timers
          /\ k.arg \in GroupCalls!Edits
  <2>1. Shaped(x) /\ k.step = "save" /\ k.op = "edit"
    BY DEF GroupCalls!SaveEdit, GroupInv, TasksAreShaped
  <2>2. k.c \in GroupCallIds /\ k.t \in Users /\ k.c # 0 /\ x \notin Timers
    BY <2>1, TasksAssumption DEF Shaped
  <2>3. k.arg \in GroupCalls!Edits
    BY <2>1 DEF Shaped, GroupCalls!Allowed
  <2> QED BY <2>1, <2>2, <2>3 DEF Shaped
<1>2. /\ IF GroupCalls!Ignored(k) THEN UNCHANGED part
         ELSE part' = [part EXCEPT ![c][u] = GroupCalls!Edited(part[c][u], k)]
      /\ GroupCalls!Ends(x)
      /\ UNCHANGED <<call, sfu, online, reg>>
  BY <1>1 DEF GroupCalls!SaveEdit, GroupCalls!grace
<1>3. PICK s \in {"playing", "paused"} :
          /\ s = GroupCalls!Sound(IF GroupCalls!Ignored(k) THEN k.row ELSE GroupCalls!Edited(k.row, k))
          /\ GroupCalls!Sync(c, u, s)
  BY <1>1 DEF GroupCalls!SaveEdit, GroupCalls!Sound
<1>4. GroupCalls!AstrayIf(part[c][u] # k.row, c, u)
  BY <1>1 DEF GroupCalls!SaveEdit
<1>5. /\ Only(x) /\ Shaped(x)' /\ task'[x].op = "none" /\ task'[x].step = "none"
      /\ task'[x].c = 0 /\ task'[x].todo = {}
  BY <1>2, EndsIs DEF GroupInv
<1>6. /\ DOMAIN cause' = {"cut", "twice", "late", "astray"} /\ cause'.cut = cause.cut
      /\ cause'.twice = cause.twice /\ cause'.late = cause.late
      /\ cause.astray \subseteq cause'.astray /\ (part[c][u] # k.row => <<c, u>> \in cause'.astray)
  BY <1>4 DEF GroupCalls!AstrayIf, GroupInv, GroupTypes
<1>7. IsRow(part[c][u])
  BY DEF GroupInv, GroupTypes
<1>8. /\ DOMAIN part' = GroupCallIds /\ (\A d \in GroupCallIds : DOMAIN part'[d] = Users)
      /\ IsRow(part'[c][u]) /\ part'[c][u].in = part[c][u].in
      /\ \A d \in GroupCallIds, v \in Users : d # c \/ v # u => part'[d][v] = part[d][v]
  <2>1. CASE GroupCalls!Ignored(k)
    BY <1>2, <1>7, <2>1 DEF GroupInv, GroupTypes
  <2>2. CASE ~GroupCalls!Ignored(k)
    <3>1. part' = [part EXCEPT ![c][u] = GroupCalls!Edited(part[c][u], k)]
      BY <1>2, <2>2
    <3>2. /\ DOMAIN part' = GroupCallIds /\ (\A d \in GroupCallIds : DOMAIN part'[d] = Users)
          /\ part'[c][u] = GroupCalls!Edited(part[c][u], k)
          /\ \A d \in GroupCallIds, v \in Users : d # c \/ v # u => part'[d][v] = part[d][v]
      BY <3>1, OneChanges DEF GroupInv, GroupTypes
    <3>3. IsRow(GroupCalls!Edited(part[c][u], k)) /\ GroupCalls!Edited(part[c][u], k).in = part[c][u].in
      BY <1>1, <1>7, EditedIs
    <3> QED BY <3>2, <3>3
  <2> QED BY <2>1, <2>2
<1>9. /\ Heeds(last)' /\ last'[c][u] = s
      /\ \A d \in GroupCallIds, v \in Users : d # c \/ v # u => last'[d][v] = last[d][v]
      /\ \A p \in posts' : p \in posts \/ (p = [do |-> s, c |-> c, u |-> u] /\ last[c][u] # s)
      /\ posts \subseteq posts'
      /\ last[c][u] # s => [do |-> s, c |-> c, u |-> u] \in posts'
      /\ \A p \in posts' : IsPost(p)
  <2>1. GroupTypes /\ GroupCalls!Sync(c, u, s) /\ c \in GroupCallIds /\ u \in Users
        /\ s \in {"playing", "paused"}
    BY <1>3 DEF GroupInv
  <2> QED BY <2>1, SyncIs, ZenonT(60)
<1>10. \A p : ~About(p, c, u) => (p \in posts' <=> p \in posts)
  BY <1>9 DEF About
<1>11. ASSUME <<c, u>> \notin cause'.astray, Followed(c, u)
       PROVE  Followed(c, u)'
  <2>1. part[c][u] = k.row
    BY <1>6, <1>11
  <2>2. part'[c][u] = IF GroupCalls!Ignored(k) THEN k.row ELSE GroupCalls!Edited(k.row, k)
    <3>1. CASE GroupCalls!Ignored(k)
      BY <1>2, <2>1, <3>1
    <3>2. CASE ~GroupCalls!Ignored(k)
      BY <1>2, <2>1, <3>2 DEF GroupInv, GroupTypes
    <3> QED BY <3>1, <3>2
  <2>3. part'[c][u].in = "yes"
    BY <1>1, <1>8, <2>1
  <2>4. Due(part'[c][u]) = s
    BY <1>3, <2>2, <2>3 DEF Due
  <2>5. last[c][u] # "none"
    BY <1>1, <1>11, <2>1 DEF Followed, Due, GroupCalls!Sound
  <2>6. Comes(c, u) => Comes(c, u)'
    BY <1>1, <1>5 DEF Comes, Only
  <2> QED BY <1>2, <1>3, <1>11, <2>4, <2>5, <2>6, SyncFollows DEF GroupInv
<1>12. ActsOn(x, c, u)
  <2>1. c = task[x].c /\ task[x].step = "save"
    BY <1>1
  <2> HIDE DEF k
  <2>2. Heeds(sfu)'
    BY <1>2 DEF GroupInv, GroupTypes, Heeds
  <2> QED BY ZenonT(60), <1>1, <1>2, <1>5, <1>6, <1>8, <1>9, <1>10, <1>11, <2>1, <2>2 DEF ActsOn
<1> QED BY <1>12, OneActs

LEMMA SaveJoinKeeps ==
    ASSUME GroupInv, NEW x \in Tasks, GroupCalls!SaveJoin(x)
    PROVE  GroupInv'
<1> DEFINE k == task[x]
           m == k.arg = "muted"
<1>1. PICK c \in GroupCallIds, u \in Users :
          /\ c = k.c /\ u = k.u /\ k.t = u /\ c # 0 /\ Begun(c)
          /\ Shaped(x) /\ k.step = "save" /\ k.op = "join" /\ x \notin Timers /\ k.todo = {}
  <2>1. Shaped(x) /\ k.step = "save" /\ k.op = "join"
    BY DEF GroupCalls!SaveJoin, GroupInv, TasksAreShaped
  <2>2. k.c \in GroupCallIds /\ k.u \in Users /\ k.t = k.u /\ k.c # 0 /\ x \notin Timers
    BY <2>1, TasksAssumption DEF Shaped
  <2> QED BY <2>1, <2>2 DEF Shaped
<1>2. UNCHANGED <<call, sfu, online, reg>>
  BY DEF GroupCalls!SaveJoin, GroupCalls!grace
<1>3. CASE GroupCalls!Ends(x) /\ UNCHANGED <<part, last, posts, cause>>
  <2>1. /\ Only(x) /\ Shaped(x)' /\ task'[x].op = "none" /\ task'[x].step = "none"
        /\ task'[x].c = 0 /\ task'[x].todo = {}
    BY <1>3, EndsIs DEF GroupInv
  <2> QED BY <1>1, <1>2, <1>3, <2>1, TaskMoves
<1>4. CASE /\ part' = [part EXCEPT ![c][u] = GroupCalls!Joined(part[c][u], k.row, m)]
           /\ GroupCalls!Sync(c, u, GroupCalls!Sound(GroupCalls!Joined(k.row, k.row, m)))
           /\ GroupCalls!Goes(x, "media")
           /\ GroupCalls!AstrayIf(part[c][u] # k.row, c, u)
  <2>1. PICK s \in {"playing", "paused"} :
            /\ s = GroupCalls!Sound(GroupCalls!Joined(k.row, k.row, m))
            /\ GroupCalls!Sync(c, u, s)
    BY <1>4 DEF GroupCalls!Sound
  <2>2. /\ Only(x) /\ task'[x].op = "join" /\ task'[x].u = u /\ task'[x].t = u
        /\ task'[x].c = c /\ task'[x].step = "media" /\ task'[x].todo = {}
    BY <1>1, <1>4, GoesIs DEF GroupInv
  <2>3. Shaped(x)'
    BY <1>1, <1>2, <2>2 DEF Shaped, Steps, OfRequests, Begun
  <2>4. /\ DOMAIN cause' = {"cut", "twice", "late", "astray"} /\ cause'.cut = cause.cut
        /\ cause'.twice = cause.twice /\ cause'.late = cause.late
        /\ cause.astray \subseteq cause'.astray /\ (part[c][u] # k.row => <<c, u>> \in cause'.astray)
    BY <1>4 DEF GroupCalls!AstrayIf, GroupInv, GroupTypes
  <2>5. /\ DOMAIN part' = GroupCallIds /\ (\A d \in GroupCallIds : DOMAIN part'[d] = Users)
        /\ part'[c][u] = GroupCalls!Joined(part[c][u], k.row, m)
        /\ \A d \in GroupCallIds, v \in Users : d # c \/ v # u => part'[d][v] = part[d][v]
    BY <1>4, OneChanges DEF GroupInv, GroupTypes
  <2>6. IsRow(part'[c][u]) /\ part'[c][u].in = "yes"
    BY <2>5, JoinedIs DEF GroupInv, GroupTypes
  <2>7. /\ Heeds(last)' /\ last'[c][u] = s
        /\ \A d \in GroupCallIds, v \in Users : d # c \/ v # u => last'[d][v] = last[d][v]
        /\ \A p \in posts' : p \in posts \/ (p = [do |-> s, c |-> c, u |-> u] /\ last[c][u] # s)
        /\ posts \subseteq posts'
        /\ last[c][u] # s => [do |-> s, c |-> c, u |-> u] \in posts'
        /\ \A p \in posts' : IsPost(p)
    <3>1. GroupTypes /\ GroupCalls!Sync(c, u, s) /\ c \in GroupCallIds /\ u \in Users
        /\ s \in {"playing", "paused"}
      BY <2>1 DEF GroupInv
    <3> QED BY <3>1, SyncIs, ZenonT(60)
  <2>8. \A p : ~About(p, c, u) => (p \in posts' <=> p \in posts)
    BY <2>7 DEF About
  <2>9. ASSUME <<c, u>> \notin cause'.astray, Followed(c, u)
        PROVE  Followed(c, u)'
    <3>1. Due(part'[c][u]) = s
      BY <2>1, <2>4, <2>5, <2>6, <2>9 DEF Due
    <3>2. Comes(c, u)'
      BY <2>2 DEF Comes
    <3> QED BY <1>2, <2>1, <2>9, <3>1, <3>2, SyncFollows DEF GroupInv
  <2>10. ActsOn(x, c, u)
    <3>1. c = task[x].c /\ task[x].step = "save"
      BY <1>1
    <3> HIDE DEF k
    <3>2. Heeds(sfu)'
      BY <1>2 DEF GroupInv, GroupTypes, Heeds
    <3> QED BY ZenonT(60), <1>1, <1>2, <2>2, <2>3, <2>4, <2>5, <2>6, <2>7, <2>8, <2>9, <3>1, <3>2 DEF ActsOn
  <2> QED BY <2>10, OneActs
<1> QED BY <1>1, <1>3, <1>4 DEF GroupCalls!SaveJoin

LEMMA MediaKeeps ==
    ASSUME GroupInv, NEW x \in Tasks, NEW works \in BOOLEAN, GroupCalls!Media(x, works)
    PROVE  GroupInv'
<1> DEFINE k == task[x]
<1>1. PICK c \in GroupCallIds, u \in Users :
          /\ c = k.c /\ u = k.u /\ c # 0 /\ Begun(c)
          /\ Shaped(x) /\ k.step = "media" /\ k.op \in {"join", "video"} /\ x \notin Timers
  <2>1. Shaped(x) /\ k.step = "media" /\ k.op \in {"join", "video"}
    BY DEF GroupCalls!Media, GroupInv, TasksAreShaped, Shaped, Steps, OfRequests
  <2>2. k.c \in GroupCallIds /\ k.u \in Users /\ k.c # 0 /\ x \notin Timers
    BY <2>1, TasksAssumption DEF Shaped
  <2> QED BY <2>1, <2>2 DEF Shaped
<1>2. UNCHANGED <<call, part, last, posts, online, reg>> /\ GroupCalls!Ends(x)
  BY DEF GroupCalls!Media, GroupCalls!db
<1>3. IF works THEN sfu' = [sfu EXCEPT ![c][u] = IF sfu[c][u] = "none" THEN "playing" ELSE sfu[c][u]]
      ELSE UNCHANGED sfu
  BY <1>1 DEF GroupCalls!Media, GroupCalls!MediaJoin
<1>4. PICK P \in BOOLEAN : /\ P = (~works \/ u \notin GroupCalls!In(c) \/ GroupCalls!Leaving(c, u))
                           /\ GroupCalls!AstrayIf(P, c, u)
  BY <1>1 DEF GroupCalls!Media
<1>5. /\ Only(x) /\ Shaped(x)' /\ task'[x].op = "none" /\ task'[x].step = "none"
      /\ task'[x].c = 0 /\ task'[x].todo = {}
  BY <1>2, EndsIs DEF GroupInv
<1>6. /\ DOMAIN cause' = {"cut", "twice", "late", "astray"} /\ cause'.cut = cause.cut
      /\ cause'.twice = cause.twice /\ cause'.late = cause.late
      /\ cause.astray \subseteq cause'.astray /\ (P => <<c, u>> \in cause'.astray)
  BY <1>4 DEF GroupCalls!AstrayIf, GroupInv, GroupTypes
<1>7. /\ Heeds(sfu)'
      /\ sfu'[c][u] = IF works /\ sfu[c][u] = "none" THEN "playing" ELSE sfu[c][u]
      /\ \A d \in GroupCallIds, v \in Users : d # c \/ v # u => sfu'[d][v] = sfu[d][v]
  <2>1. CASE works
    <3>1. PICK e : e = IF sfu[c][u] = "none" THEN "playing" ELSE sfu[c][u]
      OBVIOUS
    <3>2. e \in {"none", "playing", "paused"} /\ sfu' = [sfu EXCEPT ![c][u] = e]
      BY <1>3, <2>1, <3>1 DEF GroupInv, GroupTypes, Heeds
    <3>3. /\ Heeds(sfu)' /\ sfu'[c][u] = e
          /\ \A d \in GroupCallIds, v \in Users : d # c \/ v # u => sfu'[d][v] = sfu[d][v]
      BY <3>2 DEF GroupInv, GroupTypes, Heeds
    <3> QED BY <2>1, <3>1, <3>3
  <2>2. CASE ~works
    BY <1>3, <2>2 DEF GroupInv, GroupTypes, Heeds
  <2> QED BY <2>1, <2>2
<1>8. ASSUME <<c, u>> \notin cause'.astray, Followed(c, u)
      PROVE  Followed(c, u)'
  <2>1. works /\ part[c][u].in = "yes" /\ [do |-> "leave", c |-> c, u |-> u] \notin posts
    BY <1>4, <1>6, <1>8 DEF GroupCalls!In, GroupCalls!Leaving
  <2>2. \A p \in posts : About(p, c, u) => p.do # "leave"
    BY <2>1 DEF About, GroupInv, GroupTypes, IsPost
  <2>3. last[c][u] # "none" /\ last[c][u] = Due(part[c][u]) /\ sfu'[c][u] # "none"
    BY <1>7, <1>8, <2>1 DEF Followed, Due, GroupCalls!Sound
  <2>4. (\A p \in posts : ~About(p, c, u)) => TwoGo(c, u) \/ sfu'[c][u] = last[c][u]
    BY <1>7, <1>8, <2>1, <2>3 DEF Followed
  <2>5. TwoGo(c, u) => TwoGo(c, u)'
    BY <1>2 DEF TwoGo
  <2> QED BY <1>2, <1>8, <2>2, <2>3, <2>4, <2>5 DEF Followed
<1>9. ActsOn(x, c, u)
  <2>1. c = task[x].c /\ u = task[x].u /\ task[x].step = "media" /\ part'[c][u].in = part[c][u].in
    BY <1>1, <1>2
  <2> HIDE DEF k
  <2>2. /\ Heeds(last)' /\ IsRow(part'[c][u]) /\ DOMAIN part' = GroupCallIds
        /\ \A d \in GroupCallIds : DOMAIN part'[d] = Users
        /\ \A p \in posts' : IsPost(p)
    BY <1>2 DEF GroupInv, GroupTypes, Heeds
  <2> QED BY <1>1, <1>2, <1>5, <1>6, <1>7, <1>8, <2>1, <2>2 DEF ActsOn
<1> QED BY <1>9, OneActs

LEMMA OverKeeps ==
    ASSUME GroupInv, NEW x \in Tasks, GroupCalls!Over(x)
    PROVE  GroupInv'
<1> DEFINE k == task[x]
<1>1. PICK c \in GroupCallIds :
          /\ c = k.c /\ c # 0 /\ c \notin k.todo /\ k.todo \subseteq GroupCallIds
          /\ Shaped(x) /\ k.step = "over" /\ k.op \in {"leave", "grace", "discard"}
          /\ (x \in Timers => k.op = "grace")
  <2>1. Shaped(x) /\ k.step = "over" /\ k.op \in {"leave", "grace", "discard"}
    BY DEF GroupCalls!Over, GroupInv, TasksAreShaped, Shaped, Steps, OfRequests
  <2>2. k.c \in GroupCallIds /\ k.c # 0
    BY <2>1, TasksAssumption DEF Shaped
  <2> QED BY <2>1, <2>2 DEF Shaped
<1>2. /\ call' = [call EXCEPT ![c].state = "over"]
      /\ GroupCalls!Goes(x, "empty")
      /\ UNCHANGED <<part, sfu, last, posts, online, reg>>
  BY <1>1 DEF GroupCalls!Over, GroupCalls!media, GroupCalls!grace
<1>3. /\ DOMAIN cause' = {"cut", "twice", "late", "astray"} /\ cause'.cut = cause.cut
      /\ cause'.twice = cause.twice /\ cause'.astray = cause.astray
      /\ cause.late \subseteq cause'.late /\ (GroupCalls!Under(x, c) => c \in cause'.late)
  BY <1>1 DEF GroupCalls!Over, GroupCalls!Discarded, GroupInv, GroupTypes
<1>4. /\ Only(x) /\ task'[x].op = k.op /\ task'[x].u = k.u /\ task'[x].t = k.t
      /\ task'[x].c = c /\ task'[x].step = "empty" /\ task'[x].todo = k.todo
      /\ task'[x].lost = k.lost
  BY <1>1, <1>2, GoesIs DEF GroupInv
<1>5. /\ Onward /\ call'[c].state = "over"
      /\ \A d \in GroupCallIds : d # c => call'[d] = call[d]
  BY <1>2 DEF Onward, GroupInv, GroupTypes, IsGroupCall, Begun
<1>6. GroupTypes'
  BY <1>2, <1>3, <1>4, <1>5 DEF GroupInv, GroupTypes, Only, Heeds, Onward
<1>7. CallsAreFresh'
  BY <1>2, <1>5 DEF GroupInv, CallsAreFresh, Onward, GroupTypes, IsPost
<1>8. Shaped(x)'
  <2>1. \A d \in k.todo : call'[d].state # "none"
    BY <1>1, <1>5 DEF Shaped, Onward
  <2> QED BY <1>1, <1>4, <1>5, <2>1 DEF Shaped, Steps, OfRequests, Begun
<1>9. TasksAreShaped'
  BY <1>4, <1>5, <1>8, ShapeStays DEF GroupInv, TasksAreShaped, Only
<1>10. OneCreates'
  <2>1. GroupCalls!Open' \subseteq GroupCalls!Open
    BY <1>5 DEF GroupCalls!Open
  <2> QED BY <1>1, <1>3, <1>4, <2>1, OneStays DEF GroupInv, Only
<1>11. OversAreTidy'
  <2> SUFFICES ASSUME NEW d \in GroupCallIds, Dismissed(d)'
               PROVE  Unworked(d)' /\ (Emptied(d)' \/ \E y \in Tasks : Empties(y, d)')
    BY DEF OversAreTidy
  <2>1. CASE d # c
    <3>1. Dismissed(d)
      BY <1>3, <1>5, <2>1 DEF Dismissed
    <3>2. Unworked(d) /\ (Emptied(d) \/ \E y \in Tasks : Empties(y, d))
      BY <3>1 DEF GroupInv, OversAreTidy
    <3>3. \A y \in Tasks : Empties(y, d) => Empties(y, d)'
      BY <1>1, <1>2, <1>4, <2>1 DEF Empties, Only
    <3>4. Emptied(d) => Emptied(d)'
      BY <1>2 DEF Emptied
    <3>5. Unworked(d)'
      BY <1>1, <1>4, <2>1, <3>2, <3>3 DEF Unworked, Only
    <3> QED BY <3>2, <3>3, <3>4, <3>5
  <2>2. CASE d = c
    <3>1. ~GroupCalls!Under(x, c)
      BY <1>3, <2>2 DEF Dismissed
    <3>2. \A y \in Tasks \ {x} : task[y].c # c /\ c \notin task[y].todo
      BY <3>1 DEF GroupCalls!Under, GroupInv, GroupTypes
    <3>3. k.op \in {"leave", "grace"} => \A u \in Users : part[c][u].in # "yes"
      BY <3>1 DEF GroupCalls!Under, GroupCalls!In
    <3>4. Empties(x, c)'
      BY <1>2, <1>4, <3>3 DEF Empties
    <3>5. Unworked(c)'
      BY <1>1, <1>4, <3>2, <3>4 DEF Unworked, Only
    <3> QED BY <2>2, <3>4, <3>5
  <2> QED BY <2>1, <2>2
<1>12. SomebodyCounts'
  <2> SUFFICES ASSUME NEW d \in GroupCallIds, Deserted(d)'
               PROVE  Deserted(d) /\ \A y \in Tasks : Counts(y, d) => Counts(y, d)'
    BY CountStays DEF GroupInv
  <2>1. d # c
    BY <1>5 DEF Deserted
  <2> QED BY <1>1, <1>2, <1>3, <1>4, <1>5, <2>1 DEF Deserted, Counts, Only
<1>13. SfuFollows'
  <2>1. \A d, u : Comes(d, u) => Comes(d, u)'
    BY <1>1, <1>4 DEF Comes, Only
  <2>2. \A d \in GroupCallIds : call'[d].state = "live" => call[d].state = "live"
    BY <1>5
  <2> QED BY <1>2, <1>3, <2>1, <2>2, FollowStays DEF GroupInv, SfuFollows
<1>14. TimersAreKnown'
  BY <1>1, <1>2, <1>4, TimersStay DEF GroupInv
<1> QED BY <1>6, <1>7, <1>9, <1>10, <1>11, <1>12, <1>13, <1>14 DEF GroupInv

\* Nobody takes part in a call any more.
LEMMA AllOutIs ==
    ASSUME GroupTypes, NEW c \in GroupCallIds
    PROVE  /\ DOMAIN GroupCalls!AllOut(c) = Users
           /\ \A u \in Users : /\ IsRow(GroupCalls!AllOut(c)[u])
                               /\ GroupCalls!AllOut(c)[u].in # "yes"
BY DEF GroupTypes, GroupCalls!AllOut, GroupCalls!In, IsRow

LEMMA EmptyKeeps ==
    ASSUME GroupInv, NEW x \in Tasks, NEW works \in BOOLEAN, GroupCalls!Empty(x, works)
    PROVE  GroupInv'
<1> DEFINE k == task[x]
<1>1. PICK c \in GroupCallIds :
          /\ c = k.c /\ c # 0 /\ c \notin k.todo /\ call[c].state = "over"
          /\ Shaped(x) /\ k.step = "empty" /\ k.op \in {"leave", "grace", "discard"}
  <2>1. Shaped(x) /\ k.step = "empty" /\ k.op \in {"leave", "grace", "discard"}
    BY DEF GroupCalls!Empty, GroupInv, TasksAreShaped, Shaped, Steps, OfRequests
  <2>2. k.c \in GroupCallIds /\ k.c # 0
    BY <2>1, TasksAssumption DEF Shaped
  <2> QED BY <2>1, <2>2 DEF Shaped
<1>2. /\ IF k.op = "discard" THEN part' = [part EXCEPT ![c] = GroupCalls!AllOut(c)] ELSE UNCHANGED part
      /\ IF works THEN sfu' = [sfu EXCEPT ![c] = GroupCalls!Closed] /\ UNCHANGED cause
         ELSE cause' = [cause EXCEPT !.late = @ \cup {c}] /\ UNCHANGED sfu
      /\ GroupCalls!Leaves(x)
      /\ UNCHANGED <<call, last, posts, online, reg>>
  BY <1>1 DEF GroupCalls!Empty
<1>3. /\ DOMAIN cause' = {"cut", "twice", "late", "astray"} /\ cause'.cut = cause.cut
      /\ cause'.twice = cause.twice /\ cause'.astray = cause.astray
      /\ cause.late \subseteq cause'.late /\ (~works => c \in cause'.late)
  BY <1>2 DEF GroupInv, GroupTypes
<1>4. Onward
  BY <1>2, CallsStay DEF GroupInv
<1>5. /\ Only(x) /\ task'[x].op \in {"none", "grace"} /\ task'[x].step \in {"none", "next"}
      /\ task'[x].c = 0 \/ (task'[x].c = c /\ task'[x].step = "next")
      /\ task'[x].todo = {} \/ task'[x].todo = k.todo
      /\ Shaped(x)'
      /\ x \in Timers => /\ task[x].op = "grace" /\ task'[x].op = "grace"
                         /\ task'[x].u = task[x].u /\ task'[x].lost = task[x].lost
  BY <1>1, <1>2, <1>4, LeavesIs
<1>6. /\ DOMAIN part' = GroupCallIds /\ \A d \in GroupCallIds : DOMAIN part'[d] = Users
      /\ \A d \in GroupCallIds, u \in Users : IsRow(part'[d][u])
      /\ \A d \in GroupCallIds : d # c => part'[d] = part[d]
      /\ \A u \in Users : part[c][u].in # "yes" => part'[c][u].in # "yes"
      /\ k.op = "discard" => \A u \in Users : part'[c][u].in # "yes"
  <2>1. CASE k.op = "discard"
    <3>1. part' = [part EXCEPT ![c] = GroupCalls!AllOut(c)]
      BY <1>2, <2>1
    <3>2. part'[c] = GroupCalls!AllOut(c) /\ DOMAIN part' = GroupCallIds
          /\ \A d \in GroupCallIds : d # c => part'[d] = part[d]
      BY <3>1 DEF GroupInv, GroupTypes
    <3>3. \A d \in GroupCallIds : DOMAIN part[d] = Users /\ \A u \in Users : IsRow(part[d][u])
      BY DEF GroupInv, GroupTypes
    <3>4. /\ DOMAIN part'[c] = Users
          /\ \A u \in Users : IsRow(part'[c][u]) /\ part'[c][u].in # "yes"
      BY <3>2, AllOutIs DEF GroupInv, GroupTypes
    <3> QED BY <3>2, <3>3, <3>4
  <2>2. CASE k.op # "discard"
    BY <1>2, <2>2 DEF GroupInv, GroupTypes
  <2> QED BY <2>1, <2>2
<1>7. /\ Heeds(sfu)' /\ \A d \in GroupCallIds : d # c => sfu'[d] = sfu[d]
      /\ \A u \in Users : sfu'[c][u] = IF works THEN "none" ELSE sfu[c][u]
  <2>1. CASE works
    <3>1. sfu' = [sfu EXCEPT ![c] = GroupCalls!Closed]
      BY <1>2, <2>1
    <3> QED BY <2>1, <3>1 DEF GroupInv, GroupTypes, Heeds, GroupCalls!Closed
  <2>2. CASE ~works
    BY <1>2, <2>2 DEF GroupInv, GroupTypes, Heeds
  <2> QED BY <2>1, <2>2
<1>8. GroupTypes'
  BY <1>2, <1>3, <1>5, <1>6, <1>7 DEF GroupInv, GroupTypes, Only, Heeds
<1>9. CallsAreFresh'
  <2>1. ~(~Begun(c)')
    BY <1>1, <1>2 DEF Begun
  <2>2. \A d \in GroupCallIds, u \in Users : ~Begun(d)' =>
            part'[d][u].in = "never" /\ sfu'[d][u] = "none" /\ last'[d][u] = "none"
    BY <1>2, <1>6, <1>7, <2>1 DEF GroupInv, CallsAreFresh, Begun
  <2>3. \A p \in posts' : Begun(p.c)'
    BY <1>2 DEF GroupInv, CallsAreFresh, Begun
  <2> QED BY <2>2, <2>3 DEF CallsAreFresh
<1>10. TasksAreShaped'
  BY <1>4, <1>5, ShapeStays DEF GroupInv, TasksAreShaped, Only
<1>11. OneCreates'
  <2>1. GroupCalls!Open' = GroupCalls!Open
    BY <1>2 DEF GroupCalls!Open
  <2> QED BY <1>3, <1>5, <2>1, OneStays DEF GroupInv, Only
<1>12. OversAreTidy'
  <2> SUFFICES ASSUME NEW d \in GroupCallIds, Dismissed(d)'
               PROVE  Unworked(d)' /\ (Emptied(d)' \/ \E y \in Tasks : Empties(y, d)')
    BY DEF OversAreTidy
  <2>1. Dismissed(d)
    BY <1>2, <1>3 DEF Dismissed
  <2>2. Unworked(d) /\ (Emptied(d) \/ \E y \in Tasks : Empties(y, d))
    BY <2>1 DEF GroupInv, OversAreTidy
  <2>3. \A u \in Users : part[d][u].in # "yes" => part'[d][u].in # "yes"
    BY <1>6
  <2>4. \A y \in Tasks : y # x /\ Empties(y, d) => Empties(y, d)'
    BY <1>5, <2>3 DEF Empties, Only
  <2>5. Unworked(d)'
    BY <1>1, <1>5, <2>2, <2>4, TasksAssumption DEF Unworked, Only
  <2>6. CASE d # c
    <3>1. ~Empties(x, d)
      BY <1>1, <2>6 DEF Empties
    <3>2. Emptied(d) => Emptied(d)'
      BY <1>6, <1>7, <2>6 DEF Emptied
    <3> QED BY <2>2, <2>4, <2>5, <3>1, <3>2
  <2>7. CASE d = c
    <3>1. works
      BY <1>3, <2>7 DEF Dismissed
    <3>2. k.op # "discard" => \A u \in Users : part[c][u].in # "yes"
      BY <1>1, <2>2, <2>7 DEF Unworked, Empties
    <3>3. Emptied(c)'
      BY <1>6, <1>7, <2>3, <2>7, <3>1, <3>2 DEF Emptied
    <3> QED BY <2>5, <2>7, <3>3
  <2> QED BY <2>6, <2>7
<1>13. SomebodyCounts'
  <2> SUFFICES ASSUME NEW d \in GroupCallIds, Deserted(d)'
               PROVE  Deserted(d) /\ \A y \in Tasks : Counts(y, d) => Counts(y, d)'
    BY CountStays DEF GroupInv
  <2>1. d # c
    BY <1>1, <1>2 DEF Deserted
  <2> QED BY <1>1, <1>2, <1>3, <1>5, <1>6, <2>1 DEF Deserted, Counts, Only
<1>14. SfuFollows'
  <2>1. \A d, u : Comes(d, u) => Comes(d, u)'
    BY <1>1, <1>5 DEF Comes, Only
  <2>2. \A d \in GroupCallIds : call'[d].state = "live" => call[d].state = "live" /\ d # c
    BY <1>1, <1>2
  <2> QED BY <1>2, <1>3, <1>6, <1>7, <2>1, <2>2, FollowStays DEF GroupInv, SfuFollows
<1>15. TimersAreKnown'
  BY <1>1, <1>2, <1>5, TimersStay DEF GroupInv
<1> QED BY <1>8, <1>9, <1>10, <1>11, <1>12, <1>13, <1>14, <1>15 DEF GroupInv

LEMMA MakeKeeps ==
    ASSUME GroupInv, NEW x \in Tasks, NEW state \in {"scheduled", "live"}, NEW muted,
           GroupCalls!Make(x, state, muted)
    PROVE  GroupInv'
<1>1. PICK new \in GroupCalls!Unmade :
          call' = [c \in GroupCallIds |->
                      IF c = new THEN [state |-> state, join_muted |-> muted]
                      ELSE IF c \in task[x].todo THEN [call[c] EXCEPT !.state = "over"] ELSE call[c]]
  BY DEF GroupCalls!Make
<1>2. PICK old : old = task[x].todo
  OBVIOUS
<1>3. /\ Shaped(x) /\ task[x].step = "make" /\ task[x].op = "create" /\ task[x].c = 0
      /\ x \notin Timers /\ old \subseteq GroupCallIds
      /\ \A c \in old : call[c].state # "none"
  BY <1>2 DEF GroupCalls!Make, GroupInv, TasksAreShaped, Shaped, Steps, OfRequests
<1>4. new \in GroupCallIds /\ call[new].state = "none" /\ new \notin old /\ new # 0
  BY <1>3, TasksAssumption DEF GroupCalls!Unmade
<1>5. /\ part' = [c \in GroupCallIds |-> IF c \in old THEN GroupCalls!AllOut(c) ELSE part[c]]
      /\ sfu' = [c \in GroupCallIds |-> IF c \in old THEN GroupCalls!Closed ELSE sfu[c]]
      /\ GroupCalls!Ends(x)
      /\ UNCHANGED <<last, posts, online, reg>>
  BY <1>2 DEF GroupCalls!Make, GroupCalls!grace
<1>6. /\ DOMAIN cause' = {"cut", "twice", "late", "astray"} /\ cause'.cut = cause.cut
      /\ cause'.twice = cause.twice /\ cause'.astray = cause.astray
      /\ cause.late \subseteq cause'.late
      /\ \A c \in old : GroupCalls!Under(x, c) => c \in cause'.late
  BY <1>2 DEF GroupCalls!Make, GroupCalls!Discarded, GroupInv, GroupTypes
<1>7. /\ Only(x) /\ Shaped(x)' /\ task'[x].op = "none" /\ task'[x].step = "none"
      /\ task'[x].c = 0 /\ task'[x].todo = {}
  BY <1>5, EndsIs DEF GroupInv
<1>8. /\ DOMAIN call' = GroupCallIds /\ call'[new] = [state |-> state, join_muted |-> muted]
      /\ \A c \in old : call'[c] = [call[c] EXCEPT !.state = "over"]
      /\ \A c \in GroupCallIds : c # new /\ c \notin old => call'[c] = call[c]
  BY <1>1, <1>2, <1>3, <1>4
<1>9. /\ \A c \in old : IsGroupCall(call'[c]) /\ call'[c].state = "over"
      /\ IsGroupCall(call'[new]) /\ call'[new].state = state
  <2>1. ASSUME NEW c \in old
        PROVE  IsGroupCall(call'[c]) /\ call'[c].state = "over"
    <3>1. IsGroupCall(call[c]) /\ call'[c] = [call[c] EXCEPT !.state = "over"]
      BY <1>3, <1>8 DEF GroupInv, GroupTypes
    <3> QED BY <3>1 DEF IsGroupCall
  <2>2. IsGroupCall(call'[new]) /\ call'[new].state = state
    BY <1>8 DEF IsGroupCall
  <2> QED BY <2>1, <2>2
<1>10. \A c \in GroupCallIds : IsGroupCall(call'[c])
  BY <1>8, <1>9 DEF GroupInv, GroupTypes
<1>11. Onward
  BY <1>4, <1>8, <1>9, <1>10 DEF Onward, Begun
<1>12. /\ DOMAIN part' = GroupCallIds /\ \A c \in GroupCallIds : DOMAIN part'[c] = Users
       /\ \A c \in GroupCallIds, u \in Users : IsRow(part'[c][u])
       /\ \A c \in GroupCallIds : c \notin old => part'[c] = part[c]
       /\ \A c \in old, u \in Users : part'[c][u].in # "yes"
  BY <1>3, <1>5, AllOutIs DEF GroupInv, GroupTypes
<1>13. /\ Heeds(sfu)'
       /\ \A c \in GroupCallIds : c \notin old => sfu'[c] = sfu[c]
       /\ \A c \in old, u \in Users : sfu'[c][u] = "none"
  BY <1>3, <1>5 DEF GroupInv, GroupTypes, Heeds, GroupCalls!Closed
<1>14. GroupTypes'
  BY <1>5, <1>6, <1>7, <1>8, <1>10, <1>12, <1>13 DEF GroupInv, GroupTypes, Only, Heeds
<1>15. CallsAreFresh'
  <2>1. \A c \in old : Begun(c)'
    BY <1>9 DEF Begun
  <2>2. \A c \in GroupCallIds, u \in Users : ~Begun(c)' =>
            part'[c][u].in = "never" /\ sfu'[c][u] = "none" /\ last'[c][u] = "none"
    BY <1>5, <1>11, <1>12, <1>13, <2>1 DEF GroupInv, CallsAreFresh, Onward
  <2>3. \A p \in posts' : Begun(p.c)'
    BY <1>5, <1>11 DEF GroupInv, CallsAreFresh, Onward, GroupTypes, IsPost
  <2> QED BY <2>2, <2>3 DEF CallsAreFresh
<1>16. TasksAreShaped'
  BY <1>7, <1>11, ShapeStays DEF GroupInv, TasksAreShaped, Only
<1>17. OneCreates'
  <2> SUFFICES ASSUME ~cause.twice
               PROVE  /\ \A y \in Tasks : task'[y].op # "create"
                      /\ \A c, d \in GroupCalls!Open' : c = d
    BY <1>6 DEF OneCreates
  <2>1. \A y \in Tasks : task'[y].op # "create"
    BY <1>3, <1>7 DEF GroupInv, OneCreates, Only
  <2>2. GroupCalls!Open \subseteq old
    BY <1>2, <1>3 DEF GroupInv, OneCreates
  <2>3. \A c \in GroupCalls!Open' : c = new
    BY <1>8, <1>9, <2>2 DEF GroupCalls!Open
  <2> QED BY <2>1, <2>3
<1>18. OversAreTidy'
  <2> SUFFICES ASSUME NEW c \in GroupCallIds, Dismissed(c)'
               PROVE  Unworked(c)' /\ (Emptied(c)' \/ \E y \in Tasks : Empties(y, c)')
    BY DEF OversAreTidy
  <2>1. CASE c \in old
    <3>1. ~GroupCalls!Under(x, c)
      BY <1>6, <2>1 DEF Dismissed
    <3>2. \A y \in Tasks \ {x} : task[y].c # c /\ c \notin task[y].todo
      BY <3>1 DEF GroupCalls!Under, GroupInv, GroupTypes
    <3>3. Emptied(c)'
      BY <1>12, <1>13, <2>1 DEF Emptied
    <3>4. Unworked(c)'
      BY <1>7, <3>2, TasksAssumption DEF Unworked, Only
    <3> QED BY <3>3, <3>4
  <2>2. CASE c \notin old
    <3>1. c # new
      BY <1>9 DEF Dismissed
    <3>2. Dismissed(c)
      BY <1>6, <1>8, <2>2, <3>1 DEF Dismissed
    <3>3. Unworked(c) /\ (Emptied(c) \/ \E y \in Tasks : Empties(y, c))
      BY <3>2 DEF GroupInv, OversAreTidy
    <3>4. \A y \in Tasks : Empties(y, c) => Empties(y, c)'
      BY <1>3, <1>7, <1>12, <2>2 DEF Empties, Only
    <3>5. Emptied(c) => Emptied(c)'
      BY <1>12, <1>13, <2>2 DEF Emptied
    <3>6. Unworked(c)'
      BY <1>7, <3>3, <3>4, TasksAssumption DEF Unworked, Only
    <3> QED BY <3>3, <3>4, <3>5, <3>6
  <2> QED BY <2>1, <2>2
<1>19. SomebodyCounts'
  <2> SUFFICES ASSUME NEW c \in GroupCallIds, Deserted(c)'
               PROVE  Deserted(c) /\ \A y \in Tasks : Counts(y, c) => Counts(y, c)'
    BY CountStays DEF GroupInv
  <2>1. c \notin old
    BY <1>9 DEF Deserted
  <2>2. c # new
    BY <1>4, <1>12, <2>1 DEF Deserted, GroupInv, CallsAreFresh, Begun
  <2> QED BY <1>3, <1>6, <1>7, <1>8, <1>12, <2>1, <2>2 DEF Deserted, Counts, Only
<1>20. SfuFollows'
  <2> SUFFICES ASSUME NEW c \in GroupCallIds, NEW u \in Users, call'[c].state = "live",
                      <<c, u>> \notin cause'.astray
               PROVE  Followed(c, u)'
    BY DEF SfuFollows
  <2>1. c \notin old
    BY <1>9
  <2>2. part'[c] = part[c] /\ sfu'[c] = sfu[c] /\ last'[c] = last[c]
    BY <1>5, <1>12, <1>13, <2>1
  <2>3. CASE c = new
    <3>1. /\ part'[c][u].in = "never" /\ sfu'[c][u] = "none" /\ last'[c][u] = "none"
          /\ \A p \in posts' : ~About(p, c, u)
      BY <1>4, <1>5, <2>2, <2>3 DEF GroupInv, CallsAreFresh, Begun, About
    <3> QED BY <3>1 DEF Followed, Due
  <2>4. CASE c # new
    <3>1. Comes(c, u) => Comes(c, u)'
      BY <1>3, <1>7 DEF Comes, Only
    <3>2. Followed(c, u)
      BY <1>6, <1>8, <2>1, <2>4 DEF GroupInv, SfuFollows
    <3> QED BY <1>5, <2>2, <3>1, <3>2, FollowStays
  <2> QED BY <2>3, <2>4
<1>21. TimersAreKnown'
  BY <1>3, <1>5, <1>7, TimersStay DEF GroupInv
<1> QED BY <1>14, <1>15, <1>16, <1>17, <1>18, <1>19, <1>20, <1>21 DEF GroupInv

\* A call is started, or its settings change; no task does anything.
LEMMA CallKeeps ==
    ASSUME GroupInv, NEW c \in GroupCallIds, call[c].state \in {"scheduled", "live"},
           call' = [call EXCEPT ![c] = call'[c]], IsGroupCall(call'[c]),
           call'[c].state \in {call[c].state, "live"},
           UNCHANGED <<part, task, sfu, last, posts, online, reg, cause>>
    PROVE  GroupInv'
<1>1. /\ DOMAIN call' = GroupCallIds /\ \A d \in GroupCallIds : d # c => call'[d] = call[d]
  BY DEF GroupInv, GroupTypes
<1>2. Onward
  BY <1>1 DEF Onward, GroupInv, GroupTypes, Begun
<1>3. GroupTypes'
  BY <1>2 DEF Onward, GroupInv, GroupTypes, Heeds
<1>4. CallsAreFresh'
  BY <1>2 DEF GroupInv, CallsAreFresh, Onward, GroupTypes, IsPost
<1>5. TasksAreShaped'
  BY <1>2, ShapeStays DEF GroupInv, TasksAreShaped
<1>6. OneCreates'
  <2>1. GroupCalls!Open' \subseteq GroupCalls!Open
    BY <1>1 DEF GroupCalls!Open
  <2> QED BY <2>1, OneStays DEF GroupInv
<1>7. OversAreTidy'
  <2>1. \A d \in GroupCallIds : Dismissed(d)' => Dismissed(d)
    BY <1>1 DEF Dismissed
  <2> QED BY <2>1 DEF GroupInv, OversAreTidy, Unworked, Emptied, Empties
<1>8. SomebodyCounts'
  <2>1. \A d \in GroupCallIds : Deserted(d)' => Deserted(d)
    BY <1>1 DEF Deserted, GroupInv, CallsAreFresh, Begun
  <2> QED BY <2>1 DEF GroupInv, SomebodyCounts, Counts
<1>9. SfuFollows'
  <2> SUFFICES ASSUME NEW d \in GroupCallIds, NEW u \in Users, call'[d].state = "live",
                      <<d, u>> \notin cause.astray
               PROVE  Followed(d, u)'
    BY DEF SfuFollows
  <2>1. Followed(d, u) => Followed(d, u)'
    BY DEF Followed, TwoGo, Due, Comes
  <2>2. CASE call[d].state = "live"
    BY <2>1, <2>2 DEF GroupInv, SfuFollows
  <2>3. CASE call[d].state # "live"
    <3>1. ~Begun(d)
      BY <1>1, <2>3 DEF Begun
    <3>2. /\ part[d][u].in = "never" /\ sfu[d][u] = "none" /\ last[d][u] = "none"
          /\ \A p \in posts : ~About(p, d, u)
      BY <3>1 DEF GroupInv, CallsAreFresh, About
    <3> QED BY <2>1, <3>2 DEF Followed, Due
  <2> QED BY <2>2, <2>3
<1>10. TimersAreKnown'
  BY DEF GroupInv, TimersAreKnown
<1> QED BY <1>3, <1>4, <1>5, <1>6, <1>7, <1>8, <1>9, <1>10 DEF GroupInv

LEMMA StartKeeps ==
    ASSUME GroupInv, NEW u, NEW c \in GroupCallIds,
           \/ GroupCalls!StartScheduledGroupCall(u, c)
           \/ GroupCalls!ToggleGroupCallSettings(u, c)
    PROVE  GroupInv'
<1>1. /\ UNCHANGED <<part, task, sfu, last, posts, online, reg, cause>>
      /\ call[c].state \in {"scheduled", "live"}
  BY DEF GroupCalls!StartScheduledGroupCall, GroupCalls!ToggleGroupCallSettings,
         GroupCalls!media, GroupCalls!grace, GroupCalls!Open
<1>2. /\ call' = [call EXCEPT ![c] = call'[c]] /\ IsGroupCall(call'[c])
      /\ call'[c].state \in {call[c].state, "live"}
  <2>1. CASE GroupCalls!StartScheduledGroupCall(u, c)
    BY <2>1 DEF GroupCalls!StartScheduledGroupCall, GroupInv, GroupTypes, IsGroupCall
  <2>2. CASE GroupCalls!ToggleGroupCallSettings(u, c)
    BY <2>2 DEF GroupCalls!ToggleGroupCallSettings, GroupInv, GroupTypes, IsGroupCall
  <2> QED BY <2>1, <2>2
<1> QED BY <1>1, <1>2, CallKeeps

LEMMA CreateKeeps ==
    ASSUME GroupInv, NEW x \in Requests, NEW u \in Users, GroupCalls!CreateGroupCall(x, u)
    PROVE  GroupInv'
<1>1. /\ x \in Tasks /\ x \notin Timers /\ task[x] = GroupCalls!Idle
      /\ task' = [task EXCEPT ![x] = [GroupCalls!Idle EXCEPT
                     !.op = "create", !.u = u, !.t = u, !.step = "make", !.todo = GroupCalls!Open]]
      /\ UNCHANGED <<call, part, sfu, last, posts, online, reg>>
  BY TasksAssumption DEF Tasks, GroupCalls!CreateGroupCall, GroupCalls!db, GroupCalls!media,
                         GroupCalls!grace
<1>2. /\ DOMAIN cause' = {"cut", "twice", "late", "astray"} /\ cause'.cut = cause.cut
      /\ cause'.late = cause.late /\ cause'.astray = cause.astray
      /\ cause'.twice = (cause.twice \/ \E y \in Requests : task[y].op = "create")
  BY DEF GroupCalls!CreateGroupCall, GroupInv, GroupTypes
<1>3. task[x].op = "none" /\ task[x].step = "none" /\ task[x].c = 0 /\ task[x].todo = {}
  BY <1>1 DEF GroupCalls!Idle, GroupCalls!None
<1>4. /\ Only(x) /\ task'[x].op = "create" /\ task'[x].u = u /\ task'[x].t = u
      /\ task'[x].c = 0 /\ task'[x].step = "make" /\ task'[x].todo = GroupCalls!Open
  BY <1>1 DEF GroupInv, GroupTypes, Only, IsTask, GroupCalls!Idle
<1>5. Onward /\ GroupCalls!Open' = GroupCalls!Open
  BY <1>1, CallsStay DEF GroupInv, GroupCalls!Open
<1>6. Shaped(x)'
  <2>1. /\ \A c \in GroupCalls!Open : call'[c].state # "none" /\ c \in GroupCallIds /\ c # 0
    BY <1>1, TasksAssumption DEF GroupCalls!Open
  <2> QED BY <1>1, <1>4, <2>1 DEF Shaped, Steps, OfRequests
<1>7. GroupTypes'
  BY <1>1, <1>2, <1>4 DEF GroupInv, GroupTypes, Only, Heeds
<1>8. CallsAreFresh'
  BY <1>1 DEF GroupInv, CallsAreFresh, Begun
<1>9. TasksAreShaped'
  BY <1>4, <1>5, <1>6, ShapeStays DEF GroupInv, TasksAreShaped, Only
<1>10. OneCreates'
  <2>1. \A y \in Tasks : task[y].op = "create" => y \in Requests
    BY DEF GroupInv, TasksAreShaped, Shaped, Tasks
  <2>2. CASE cause'.twice
    BY <2>2 DEF OneCreates
  <2>3. CASE ~cause'.twice
    <3>1. \A y \in Tasks : task'[y].op = "create" => y = x
      BY <1>2, <1>4, <2>1, <2>3 DEF Only
    <3> QED BY <1>2, <1>4, <1>5, <2>3, <3>1 DEF GroupInv, OneCreates
  <2> QED BY <2>2, <2>3
<1>11. OversAreTidy'
  <2>1. ASSUME NEW d \in GroupCallIds, Dismissed(d), Unworked(d)
        PROVE  Unworked(d)' /\ \A y \in Tasks : Empties(y, d) => Empties(y, d)'
    <3>1. \A y \in Tasks : Empties(y, d) => Empties(y, d)'
      BY <1>1, <1>3, <1>4 DEF Empties, Only
    <3>2. d \notin GroupCalls!Open /\ d # 0
      BY <2>1, TasksAssumption DEF Dismissed, GroupCalls!Open
    <3> QED BY <1>4, <2>1, <3>1, <3>2 DEF Unworked, Only
  <2>2. \A d \in GroupCallIds : Dismissed(d)' => call[d].state = "over"
    BY <1>1 DEF Dismissed
  <2> QED BY <1>1, <1>2, <2>1, <2>2, TidyStays DEF GroupInv
<1>12. SomebodyCounts'
  <2>1. \A d \in GroupCallIds : Deserted(d)' => Deserted(d)
    BY <1>1, <1>2 DEF Deserted
  <2>2. \A d \in GroupCallIds, y \in Tasks : Counts(y, d) => Counts(y, d)'
    BY <1>3, <1>4 DEF Counts, Only
  <2> QED BY <2>1, <2>2, CountStays DEF GroupInv
<1>13. SfuFollows'
  <2>1. \A c, v : Comes(c, v) => Comes(c, v)'
    BY <1>3, <1>4 DEF Comes, Only
  <2> QED BY <1>1, <1>2, <2>1, FollowStays DEF GroupInv, SfuFollows
<1>14. TimersAreKnown'
  BY <1>1, <1>4, TimersStay DEF GroupInv
<1> QED BY <1>7, <1>8, <1>9, <1>10, <1>11, <1>12, <1>13, <1>14 DEF GroupInv

\* A request to the SFU, about c's participant u, arrives or fails.
EndsPost(p, c, u) ==
    /\ c = p.c /\ u = p.u /\ posts' = posts \ {p}
    /\ UNCHANGED <<call, part, task, last, online, reg>>
    /\ DOMAIN cause' = {"cut", "twice", "late", "astray"} /\ cause'.cut = cause.cut
    /\ cause'.twice = cause.twice /\ cause'.late = cause.late
    /\ cause.astray \subseteq cause'.astray
    /\ Heeds(sfu)' /\ (sfu[c][u] = "none" => sfu'[c][u] = "none")
    /\ \A d \in GroupCallIds, v \in Users : d # c \/ v # u => sfu'[d][v] = sfu[d][v]
    /\ (<<c, u>> \notin cause'.astray /\ Followed(c, u)) => Followed(c, u)'

LEMMA PostKeeps ==
    ASSUME GroupInv, NEW p \in posts, NEW c, NEW u, EndsPost(p, c, u)
    PROVE  GroupInv'
<1> USE DEF EndsPost
<1>1. c \in GroupCallIds /\ u \in Users /\ Begun(c)
  BY DEF GroupInv, GroupTypes, IsPost, CallsAreFresh
<1>2. Onward
  BY CallsStay DEF GroupInv
<1>3. \A d \in GroupCallIds, v \in Users : sfu[d][v] = "none" => sfu'[d][v] = "none"
  OBVIOUS
<1>4. GroupTypes'
  BY DEF GroupInv, GroupTypes, Heeds
<1>5. CallsAreFresh'
  BY <1>1 DEF GroupInv, CallsAreFresh, Begun
<1>6. TasksAreShaped'
  BY <1>2, ShapeStays DEF GroupInv, TasksAreShaped
<1>7. OneCreates'
  <2>1. GroupCalls!Open' = GroupCalls!Open
    BY DEF GroupCalls!Open
  <2> QED BY <2>1, OneStays DEF GroupInv
<1>8. OversAreTidy'
  <2>1. \A d \in GroupCallIds : Dismissed(d)' => Dismissed(d)
    BY DEF Dismissed
  <2> QED BY <1>3, <2>1 DEF GroupInv, OversAreTidy, Unworked, Emptied, Empties
<1>9. SomebodyCounts'
  BY DEF GroupInv, SomebodyCounts, Deserted, Counts
<1>10. SfuFollows'
  <2>1. \A q : ~About(q, c, u) => (q \in posts' <=> q \in posts)
    BY DEF About
  <2>2. \A d, v : Comes(d, v) => Comes(d, v)'
    BY DEF Comes
  <2> QED BY <2>1, <2>2, OthersFollow DEF GroupInv
<1>11. TimersAreKnown'
  BY DEF GroupInv, TimersAreKnown
<1> QED BY <1>4, <1>5, <1>6, <1>7, <1>8, <1>9, <1>10, <1>11 DEF GroupInv

\* No other request about the participant is on its way, then.
LEMMA Alone ==
    ASSUME NEW p \in posts, ~GroupCalls!Races(p)
    PROVE  ~TwoGo(p.c, p.u) /\ \A q \in posts : About(q, p.c, p.u) => q = p
BY DEF GroupCalls!Races, TwoGo, About

LEMMA StateArrivesKeeps ==
    ASSUME GroupInv, NEW p \in posts, GroupCalls!StateArrives(p)
    PROVE  GroupInv'
<1>1. PICK c \in GroupCallIds, u \in Users : c = p.c /\ u = p.u
  BY DEF GroupInv, GroupTypes, IsPost
<1>2. /\ p.do \in {"playing", "paused"} /\ posts' = posts \ {p}
      /\ IF sfu[c][u] # "none" THEN sfu' = [sfu EXCEPT ![c][u] = p.do] ELSE UNCHANGED sfu
      /\ UNCHANGED <<call, part, task, last, online, reg>>
  BY <1>1 DEF GroupCalls!StateArrives, GroupCalls!Arrives, GroupCalls!db, GroupCalls!grace
<1>3. /\ DOMAIN cause' = {"cut", "twice", "late", "astray"} /\ cause'.cut = cause.cut
      /\ cause'.twice = cause.twice /\ cause'.late = cause.late
      /\ cause.astray \subseteq cause'.astray
      /\ GroupCalls!Races(p) \/ (sfu[c][u] = "none" /\ p.do = "paused") => <<c, u>> \in cause'.astray
  BY <1>1 DEF GroupCalls!StateArrives, GroupCalls!AstrayIf, GroupInv, GroupTypes
<1>4. /\ Heeds(sfu)' /\ sfu'[c][u] = IF sfu[c][u] = "none" THEN "none" ELSE p.do
      /\ \A d \in GroupCallIds, v \in Users : d # c \/ v # u => sfu'[d][v] = sfu[d][v]
  <2>1. CASE sfu[c][u] # "none"
    <3>1. p.do \in {"none", "playing", "paused"} /\ sfu' = [sfu EXCEPT ![c][u] = p.do]
      BY <1>2, <2>1
    <3> QED BY <2>1, <3>1 DEF GroupInv, GroupTypes, Heeds
  <2>2. CASE sfu[c][u] = "none"
    BY <1>2, <2>2 DEF GroupInv, GroupTypes, Heeds
  <2> QED BY <2>1, <2>2
<1>5. ASSUME <<c, u>> \notin cause'.astray, Followed(c, u)
      PROVE  Followed(c, u)'
  <2>1. /\ ~GroupCalls!Races(p) /\ About(p, c, u)
        /\ sfu[c][u] = "none" => p.do = "playing"
    BY <1>1, <1>2, <1>3, <1>5 DEF About
  <2>2. ~TwoGo(c, u) /\ \A q \in posts : About(q, c, u) => q = p
    BY <1>1, <2>1, Alone
  <2>3. last[c][u] = p.do /\ (sfu[c][u] # "none" \/ Comes(c, u))
    BY <1>2, <1>5, <2>1, <2>2 DEF Followed
  <2>4. \A q \in posts' : ~About(q, c, u)
    BY <1>2, <2>2
  <2>5. Comes(c, u) => Comes(c, u)'
    BY <1>2 DEF Comes
  <2>6. /\ last'[c][u] = Due(part[c][u])'
        /\ \/ sfu'[c][u] = last'[c][u]
           \/ Comes(c, u)' /\ sfu'[c][u] = "none" /\ last'[c][u] = "playing"
    BY <1>2, <1>4, <1>5, <2>1, <2>3, <2>5 DEF Followed
  <2> QED BY <2>4, <2>6 DEF Followed
<1>6. EndsPost(p, c, u)
  BY <1>1, <1>2, <1>3, <1>4, <1>5 DEF EndsPost
<1> QED BY <1>6, PostKeeps

LEMMA LeaveArrivesKeeps ==
    ASSUME GroupInv, NEW p \in posts, GroupCalls!LeaveArrives(p)
    PROVE  GroupInv'
<1>1. PICK c \in GroupCallIds, u \in Users : c = p.c /\ u = p.u
  BY DEF GroupInv, GroupTypes, IsPost
<1>2. /\ p.do = "leave" /\ posts' = posts \ {p}
      /\ sfu' = [sfu EXCEPT ![c][u] = "none"]
      /\ UNCHANGED <<call, part, task, last, online, reg>>
  BY <1>1 DEF GroupCalls!LeaveArrives, GroupCalls!Arrives, GroupCalls!db, GroupCalls!grace
<1>3. /\ DOMAIN cause' = {"cut", "twice", "late", "astray"} /\ cause'.cut = cause.cut
      /\ cause'.twice = cause.twice /\ cause'.late = cause.late
      /\ cause.astray \subseteq cause'.astray
      /\ GroupCalls!Races(p) => <<c, u>> \in cause'.astray
  BY <1>1 DEF GroupCalls!LeaveArrives, GroupCalls!AstrayIf, GroupInv, GroupTypes
<1>4. /\ Heeds(sfu)' /\ sfu'[c][u] = "none"
      /\ \A d \in GroupCallIds, v \in Users : d # c \/ v # u => sfu'[d][v] = sfu[d][v]
  BY <1>2 DEF GroupInv, GroupTypes, Heeds
<1>5. ASSUME <<c, u>> \notin cause'.astray, Followed(c, u)
      PROVE  Followed(c, u)'
  <2>1. ~GroupCalls!Races(p) /\ About(p, c, u)
    BY <1>1, <1>3, <1>5 DEF About
  <2>2. ~TwoGo(c, u) /\ \A q \in posts : About(q, c, u) => q = p
    BY <1>1, <2>1, Alone
  <2>3. last[c][u] = "none"
    BY <1>2, <1>5, <2>1, <2>2 DEF Followed
  <2>4. \A q \in posts' : ~About(q, c, u)
    BY <1>2, <2>2
  <2>5. last'[c][u] = Due(part[c][u])' /\ sfu'[c][u] = last'[c][u]
    BY <1>2, <1>4, <1>5, <2>3 DEF Followed
  <2> QED BY <2>4, <2>5 DEF Followed
<1>6. EndsPost(p, c, u)
  BY <1>1, <1>2, <1>3, <1>4, <1>5 DEF EndsPost
<1> QED BY <1>6, PostKeeps

LEMMA PostFailsKeeps ==
    ASSUME GroupInv, NEW p \in posts, GroupCalls!PostFails(p)
    PROVE  GroupInv'
<1>1. PICK c \in GroupCallIds, u \in Users : c = p.c /\ u = p.u
  BY DEF GroupInv, GroupTypes, IsPost
<1>2. posts' = posts \ {p} /\ UNCHANGED <<call, part, task, sfu, last, online, reg>>
  BY DEF GroupCalls!PostFails, GroupCalls!Arrives, GroupCalls!db
<1>3. /\ DOMAIN cause' = {"cut", "twice", "late", "astray"} /\ cause'.cut = cause.cut
      /\ cause'.twice = cause.twice /\ cause'.late = cause.late
      /\ cause.astray \subseteq cause'.astray /\ <<c, u>> \in cause'.astray
  BY <1>1 DEF GroupCalls!PostFails, GroupCalls!AstrayIf, GroupInv, GroupTypes
<1>4. Heeds(sfu)'
  BY <1>2 DEF GroupInv, GroupTypes, Heeds
<1>5. EndsPost(p, c, u)
  BY <1>1, <1>2, <1>3, <1>4 DEF EndsPost
<1> QED BY <1>5, PostKeeps

\* A task is the same but for being lost; a timer is at no call.
Same(x) ==
    /\ task'[x].op = task[x].op /\ task'[x].u = task[x].u /\ task'[x].t = task[x].t
    /\ task'[x].c = task[x].c /\ task'[x].step = task[x].step /\ task'[x].row = task[x].row
    /\ task'[x].arg = task[x].arg /\ task'[x].todo = task[x].todo
Rests(x) ==
    /\ task[x].step \in {"none", "sleep", "next", "cancelled"}
    /\ task'[x].c = 0 /\ task'[x].todo = {}
TimersMove ==
    /\ UNCHANGED <<call, part, sfu, last, posts>>
    /\ DOMAIN task' = Tasks /\ (\A x \in Tasks : IsTask(task'[x])) /\ DOMAIN reg' = Users
    /\ DOMAIN cause' = {"cut", "twice", "late", "astray"}
    /\ cause'.twice = cause.twice /\ cause'.late = cause.late /\ cause'.astray = cause.astray
    /\ cause.cut => cause'.cut
    /\ \A x \in Tasks : Same(x) \/
           (x \in Timers /\ task'[x].op \in {"none", "grace"} /\ Shaped(x)' /\ (cause'.cut \/ Rests(x)))

LEMMA SameShape ==
    ASSUME NEW x \in Tasks, Shaped(x), Same(x), UNCHANGED call
    PROVE  Shaped(x)'
BY DEF Shaped, Same, Begun, GroupCalls!Allowed, GroupCalls!Edits

LEMMA TimersKeep ==
    ASSUME GroupInv, TimersMove, TimersAreKnown'
    PROVE  GroupInv'
<1> USE DEF TimersMove
<1>1. \A x \in Timers : task[x].op # "create" /\ task[x].step # "media"
  BY DEF GroupInv, TasksAreShaped, Shaped, Tasks, Steps, OfRequests
<1>2. GroupTypes'
  BY DEF GroupInv, GroupTypes, Heeds
<1>3. CallsAreFresh'
  BY DEF GroupInv, CallsAreFresh, Begun
<1>4. TasksAreShaped'
  BY SameShape DEF GroupInv, TasksAreShaped
<1>5. OneCreates'
  <2>1. GroupCalls!Open' = GroupCalls!Open
    BY DEF GroupCalls!Open
  <2>2. \A x \in Tasks : task'[x].op = "create" =>
            task[x].op = "create" /\ task'[x].todo = task[x].todo
    BY DEF Same
  <2> QED BY <2>1, <2>2, OneStays DEF GroupInv
<1>6. OversAreTidy'
  <2> SUFFICES ASSUME NEW c \in GroupCallIds, Dismissed(c)'
               PROVE  Unworked(c)' /\ (Emptied(c)' \/ \E x \in Tasks : Empties(x, c)')
    BY DEF OversAreTidy
  <2>1. Dismissed(c) /\ ~cause'.cut /\ c # 0
    BY TasksAssumption DEF Dismissed
  <2>2. Unworked(c) /\ (Emptied(c) \/ \E x \in Tasks : Empties(x, c))
    BY <2>1 DEF GroupInv, OversAreTidy
  <2>3. \A x \in Tasks : Empties(x, c) => Empties(x, c)'
    BY <2>1 DEF Empties, Same, Rests
  <2>4. Unworked(c)'
    BY <2>1, <2>2, <2>3 DEF Unworked, Same, Rests
  <2> QED BY <2>2, <2>3, <2>4 DEF Emptied
<1>7. SomebodyCounts'
  <2> SUFFICES ASSUME NEW c \in GroupCallIds, Deserted(c)'
               PROVE  Deserted(c) /\ \A x \in Tasks : Counts(x, c) => Counts(x, c)'
    BY CountStays DEF GroupInv
  <2>1. Deserted(c) /\ ~cause'.cut
    BY DEF Deserted
  <2>2. \A x \in Tasks : Counts(x, c) => Counts(x, c)'
    BY <2>1 DEF Counts, Same, Rests
  <2> QED BY <2>1, <2>2
<1>8. SfuFollows'
  <2>1. \A c, u : Comes(c, u) => Comes(c, u)'
    BY <1>1 DEF Comes, Same
  <2> QED BY <2>1, FollowStays DEF GroupInv, SfuFollows
<1> QED BY <1>2, <1>3, <1>4, <1>5, <1>6, <1>7, <1>8 DEF GroupInv

\* The timer that is registered for the user is cancelled.
LEMMA CancelledIs ==
    ASSUME GroupInv, NEW u \in Users
    PROVE  /\ DOMAIN GroupCalls!Cancelled(u) = Tasks
           /\ \A x \in Tasks : x # reg[u] => GroupCalls!Cancelled(u)[x] = task[x]
           /\ reg[u] # "none" =>
                  LET r == reg[u]
                      k == task[r]
                      n == GroupCalls!Cancelled(u)[r]
                  IN  /\ r \in Timers /\ r \in Tasks /\ IsTask(n) /\ n.step = "cancelled"
                      /\ k.op = "grace" /\ k.u = u /\ k.step # "cancelled"
                      /\ n.op = k.op /\ n.u = k.u /\ n.t = k.t /\ n.c = k.c /\ n.todo = k.todo
                      /\ n.lost = k.lost
<1>1. DOMAIN task = Tasks /\ \A x \in Tasks : IsTask(task[x])
  BY DEF GroupInv, GroupTypes
<1>2. CASE reg[u] = "none"
  BY <1>1, <1>2, TasksAssumption DEF GroupCalls!Cancelled, GroupCalls!None
<1>3. CASE reg[u] # "none"
  <2>1. /\ reg[u] \in Timers /\ task[reg[u]].op = "grace" /\ task[reg[u]].u = u
        /\ task[reg[u]].step # "cancelled"
    BY <1>3 DEF GroupInv, TimersAreKnown
  <2>2. GroupCalls!Cancelled(u) = [task EXCEPT ![reg[u]].step = "cancelled"]
    BY <1>3 DEF GroupCalls!Cancelled, GroupCalls!None
  <2>3. reg[u] \in Tasks
    BY <2>1 DEF Tasks
  <2> QED BY <1>1, <1>3, <2>1, <2>2, <2>3 DEF IsTask
<1> QED BY <1>2, <1>3

\* The cancelled timer is at no call, or has been cut short.
LEMMA CancelledShape ==
    ASSUME GroupInv, UNCHANGED call, NEW x \in Timers, Shaped(x), task[x].op = "grace",
           LET k == task[x]
               n == task'[x]
           IN  n.step = "cancelled" /\ n.op = k.op /\ n.u = k.u /\ n.t = k.t /\ n.c = k.c
               /\ n.todo = k.todo
    PROVE  Shaped(x)' /\ (task[x].step = "sleep" => Rests(x))
<1> DEFINE k == task[x]
<1>1. /\ k.c \in GroupCallIds \cup {0} /\ k.todo \subseteq GroupCallIds /\ k.c \notin k.todo
      /\ \A c \in k.todo : call'[c].state # "none"
      /\ k.u \in Users /\ k.t = k.u
      /\ k.step = "sleep" => k.c = 0 /\ k.todo = {}
  BY DEF Shaped
<1> QED BY <1>1 DEF Shaped, Steps, OfRequests, Rests

LEMMA ScheduleKeeps ==
    ASSUME GroupInv, NEW u \in Users, GroupCalls!Schedule(u),
           UNCHANGED <<call, part, sfu, last, posts>>,
           u \notin online', online' \subseteq online
    PROVE  GroupInv'
<1> DEFINE C == GroupCalls!Cancelled(u)
<1>0. PICK r : r = reg[u]
  OBVIOUS
<1>1. PICK g \in Timers :
          /\ task[g] = GroupCalls!Idle
          /\ task' = [C EXCEPT ![g] = [GroupCalls!Idle EXCEPT
                                           !.op = "grace", !.u = u, !.t = u, !.step = "sleep"]]
          /\ reg' = [reg EXCEPT ![u] = g]
  BY DEF GroupCalls!Schedule
<1>2. /\ DOMAIN cause' = {"cut", "twice", "late", "astray"}
      /\ cause'.twice = cause.twice /\ cause'.late = cause.late /\ cause'.astray = cause.astray
      /\ cause'.cut = (cause.cut \/ GroupCalls!CutShort(u))
  BY DEF GroupCalls!Schedule, GroupInv, GroupTypes
<1>3. /\ g \in Tasks /\ task[g].op = "none" /\ task[g].step = "none"
  BY <1>1 DEF Tasks, GroupCalls!Idle, GroupCalls!None
<1>4. /\ DOMAIN C = Tasks
      /\ \A x \in Tasks : x # r => C[x] = task[x]
      /\ r # "none" =>
             /\ r \in Timers /\ r \in Tasks /\ IsTask(C[r]) /\ C[r].step = "cancelled"
             /\ task[r].op = "grace" /\ task[r].u = u /\ task[r].step # "cancelled"
             /\ C[r].op = task[r].op /\ C[r].u = task[r].u /\ C[r].t = task[r].t
             /\ C[r].c = task[r].c /\ C[r].todo = task[r].todo /\ C[r].lost = task[r].lost
  BY <1>0, CancelledIs
<1>5. r # g
  BY <1>3, <1>4, TasksAssumption
<1>6. /\ DOMAIN task' = Tasks /\ \A x \in Tasks : x # g => task'[x] = C[x]
      /\ task'[g].op = "grace" /\ task'[g].u = u /\ task'[g].t = u /\ task'[g].c = 0
      /\ task'[g].step = "sleep" /\ task'[g].todo = {} /\ IsTask(task'[g])
  <2> HIDE DEF C
  <2> QED BY <1>1, <1>3, <1>4 DEF GroupCalls!Idle, IsTask
<1>7. /\ DOMAIN reg' = Users /\ reg'[u] = g
      /\ \A v \in Users : v # u => reg'[v] = reg[v]
  BY <1>1 DEF GroupInv, GroupTypes
<1>8. \A x \in Tasks : x # g /\ (x # r \/ r = "none") => task'[x] = task[x]
  <2>1. r = "none" => C = task
    BY <1>0 DEF GroupCalls!Cancelled, GroupCalls!None
  <2> HIDE DEF C
  <2> QED BY <1>4, <1>6, <2>1
<1>9. r # "none" =>
          /\ r \in Timers /\ r \in Tasks /\ task'[r].step = "cancelled" /\ IsTask(task'[r])
          /\ Shaped(r)' /\ (cause'.cut \/ Rests(r)) /\ task'[r].op = "grace"
          /\ task[r].u = u
  <2> SUFFICES ASSUME r # "none"
               PROVE  /\ r \in Timers /\ r \in Tasks /\ task'[r].step = "cancelled"
                      /\ IsTask(task'[r])
                      /\ Shaped(r)' /\ (cause'.cut \/ Rests(r)) /\ task'[r].op = "grace"
                      /\ task[r].u = u
    OBVIOUS
  <2>1. /\ r \in Timers /\ r \in Tasks /\ IsTask(task'[r]) /\ task'[r].step = "cancelled"
        /\ task[r].op = "grace" /\ task[r].u = u
        /\ task'[r].op = task[r].op /\ task'[r].u = task[r].u /\ task'[r].t = task[r].t
        /\ task'[r].c = task[r].c /\ task'[r].todo = task[r].todo
    BY <1>4, <1>5, <1>6
  <2>2. Shaped(r)
    BY <2>1 DEF GroupInv, TasksAreShaped
  <2>3. Shaped(r)' /\ (task[r].step = "sleep" => Rests(r))
    BY <2>1, <2>2, CancelledShape
  <2>4. task[r].step # "sleep" => cause'.cut
    BY <1>0, <1>2 DEF GroupCalls!CutShort, GroupCalls!None
  <2> HIDE DEF C
  <2> QED BY <2>1, <2>3, <2>4
<1>10. Shaped(g)' /\ Rests(g)
  BY <1>3, <1>6 DEF Shaped, Rests, Steps, OfRequests
<1>11. TimersMove
  <2>1. \A x \in Tasks : IsTask(task'[x])
    BY <1>6, <1>8, <1>9, TasksAssumption DEF GroupInv, GroupTypes
  <2>2. ASSUME NEW x \in Tasks
        PROVE  Same(x) \/ (x \in Timers /\ task'[x].op \in {"none", "grace"} /\ Shaped(x)'
                              /\ (cause'.cut \/ Rests(x)))
    <3>1. CASE x = g
      BY <1>6, <1>10, <3>1
    <3>2. CASE x # g /\ x = r /\ r # "none"
      BY <1>9, <3>2
    <3>3. CASE x # g /\ (x # r \/ r = "none")
      BY <1>8, <3>3 DEF Same
    <3> QED BY <3>1, <3>2, <3>3
  <2> HIDE DEF C
  <2> QED BY <1>2, <1>6, <1>7, <2>1, <2>2 DEF TimersMove
<1>12. TimersAreKnown'
  <2>1. ASSUME NEW h \in Timers, task'[h].op = "grace", task'[h].step # "cancelled"
        PROVE  task'[h].lost \/ (reg'[task'[h].u] = h /\ task'[h].u \notin online')
    <3>1. CASE h = g
      BY <1>6, <1>7, <3>1
    <3>2. CASE h # g
      <4>1. h \in Tasks /\ h # r
        BY <1>9, <2>1, TasksAssumption DEF Tasks
      <4>2. task'[h] = task[h]
        BY <1>8, <3>2, <4>1
      <4>3. task[h].lost \/ (reg[task[h].u] = h /\ task[h].u \notin online)
        BY <2>1, <4>2 DEF GroupInv, TimersAreKnown
      <4>4. task[h].u \in Users
        BY <2>1, <4>1, <4>2 DEF GroupInv, TasksAreShaped, Shaped
      <4>5. task[h].u = u => task[h].lost
        BY <1>0, <4>1, <4>3
      <4> QED BY <1>7, <4>2, <4>3, <4>4, <4>5
    <3> QED BY <3>1, <3>2
  <2>2. ASSUME NEW v \in Users, reg'[v] # "none"
        PROVE  /\ reg'[v] \in Timers /\ task'[reg'[v]].op = "grace" /\ task'[reg'[v]].u = v
               /\ task'[reg'[v]].step # "cancelled"
    <3>1. CASE v = u
      BY <1>6, <1>7, <3>1
    <3>2. CASE v # u
      <4>1. /\ reg'[v] = reg[v] /\ reg[v] \in Timers /\ task[reg[v]].op = "grace"
            /\ task[reg[v]].u = v /\ task[reg[v]].step # "cancelled"
        BY <1>7, <2>2, <3>2 DEF GroupInv, TimersAreKnown
      <4>2. reg[v] # g /\ reg[v] # r /\ reg[v] \in Tasks
        BY <1>3, <1>9, <3>2, <4>1, TasksAssumption DEF Tasks
      <4> QED BY <1>8, <4>1, <4>2
    <3> QED BY <3>1, <3>2
  <2> QED BY <2>1, <2>2 DEF TimersAreKnown
<1> QED BY <1>11, <1>12, TimersKeep

LEMMA DisconnectKeeps ==
    ASSUME GroupInv, NEW u \in Users, GroupCalls!Disconnect(u) \/ GroupCalls!Finalize(u)
    PROVE  GroupInv'
<1>1. CASE GroupCalls!Disconnect(u)
  BY <1>1, ScheduleKeeps DEF GroupCalls!Disconnect, GroupCalls!db, GroupCalls!media
<1>2. CASE GroupCalls!Finalize(u)
  BY <1>2, ScheduleKeeps DEF GroupCalls!Finalize, GroupCalls!db, GroupCalls!media
<1> QED BY <1>1, <1>2

LEMMA ConnectKeeps ==
    ASSUME GroupInv, NEW u \in Users, NEW known \in BOOLEAN, GroupCalls!Connect(u, known)
    PROVE  GroupInv'
<1>1. /\ UNCHANGED <<call, part, sfu, last, posts>> /\ online' = online \cup {u}
  BY DEF GroupCalls!Connect, GroupCalls!db, GroupCalls!media
<1>2. CASE known
  <2>1. /\ task' = GroupCalls!Cancelled(u) /\ reg' = [reg EXCEPT ![u] = "none"]
        /\ cause' = [cause EXCEPT !.cut = @ \/ GroupCalls!CutShort(u)]
    BY <1>2 DEF GroupCalls!Connect, GroupCalls!None
  <2>2. PICK r : r = reg[u]
    OBVIOUS
  <2>3. /\ DOMAIN task' = Tasks
        /\ \A x \in Tasks : x # r \/ r = "none" => task'[x] = task[x]
        /\ r # "none" =>
             /\ r \in Timers /\ r \in Tasks /\ IsTask(task'[r]) /\ task'[r].step = "cancelled"
             /\ task[r].op = "grace" /\ task[r].u = u /\ task[r].step # "cancelled"
             /\ task'[r].op = task[r].op /\ task'[r].u = task[r].u /\ task'[r].t = task[r].t
             /\ task'[r].c = task[r].c /\ task'[r].todo = task[r].todo
    <3>1. r = "none" => task' = task
      BY <2>1, <2>2 DEF GroupCalls!Cancelled, GroupCalls!None
    <3> QED BY <2>1, <2>2, <3>1, CancelledIs
  <2>4. /\ DOMAIN reg' = Users /\ reg'[u] = "none"
        /\ \A v \in Users : v # u => reg'[v] = reg[v]
    BY <2>1 DEF GroupInv, GroupTypes
  <2>5. /\ DOMAIN cause' = {"cut", "twice", "late", "astray"}
        /\ cause'.twice = cause.twice /\ cause'.late = cause.late /\ cause'.astray = cause.astray
        /\ cause'.cut = (cause.cut \/ GroupCalls!CutShort(u))
    BY <2>1 DEF GroupInv, GroupTypes
  <2>6. r # "none" => Shaped(r)' /\ (cause'.cut \/ Rests(r))
    <3> SUFFICES ASSUME r # "none"
                 PROVE  Shaped(r)' /\ (cause'.cut \/ Rests(r))
      OBVIOUS
    <3>1. Shaped(r)
      BY <2>3 DEF GroupInv, TasksAreShaped
    <3>2. Shaped(r)' /\ (task[r].step = "sleep" => Rests(r))
      BY <1>1, <2>3, <3>1, CancelledShape
    <3>3. task[r].step # "sleep" => cause'.cut
      BY <2>2, <2>5 DEF GroupCalls!CutShort, GroupCalls!None
    <3> QED BY <3>2, <3>3
  <2>7. TimersMove
    <3>1. \A x \in Tasks : IsTask(task'[x])
      BY <2>3 DEF GroupInv, GroupTypes
    <3>2. ASSUME NEW x \in Tasks
          PROVE  Same(x) \/ (x \in Timers /\ task'[x].op \in {"none", "grace"} /\ Shaped(x)'
                                /\ (cause'.cut \/ Rests(x)))
      <4>1. CASE x = r /\ r # "none"
        BY <2>3, <2>6, <4>1
      <4>2. CASE x # r \/ r = "none"
        BY <2>3, <4>2 DEF Same
      <4> QED BY <4>1, <4>2
    <3> QED BY <1>1, <2>3, <2>4, <2>5, <3>1, <3>2 DEF TimersMove
  <2>8. TimersAreKnown'
    <3>1. ASSUME NEW h \in Timers, task'[h].op = "grace", task'[h].step # "cancelled"
          PROVE  task'[h].lost \/ (reg'[task'[h].u] = h /\ task'[h].u \notin online')
      <4>1. h \in Tasks /\ h # r
        BY <2>3, <3>1, TasksAssumption DEF Tasks
      <4>2. task'[h] = task[h]
        BY <2>3, <4>1
      <4>3. task[h].lost \/ (reg[task[h].u] = h /\ task[h].u \notin online)
        BY <3>1, <4>2 DEF GroupInv, TimersAreKnown
      <4>4. task[h].u \in Users
        BY <3>1, <4>1, <4>2 DEF GroupInv, TasksAreShaped, Shaped
      <4>5. task[h].u = u => task[h].lost
        BY <2>2, <4>1, <4>3
      <4> QED BY <1>1, <2>4, <4>2, <4>3, <4>4, <4>5
    <3>2. ASSUME NEW v \in Users, reg'[v] # "none"
          PROVE  /\ reg'[v] \in Timers /\ task'[reg'[v]].op = "grace" /\ task'[reg'[v]].u = v
                 /\ task'[reg'[v]].step # "cancelled"
      <4>1. v # u
        BY <2>4, <3>2
      <4>2. /\ reg'[v] = reg[v] /\ reg[v] \in Timers /\ task[reg[v]].op = "grace"
            /\ task[reg[v]].u = v /\ task[reg[v]].step # "cancelled"
        BY <2>4, <3>2, <4>1 DEF GroupInv, TimersAreKnown
      <4>3. (reg[v] # r \/ r = "none") /\ reg[v] \in Tasks
        BY <2>3, <4>1, <4>2 DEF Tasks
      <4> QED BY <2>3, <4>2, <4>3
    <3> QED BY <3>1, <3>2 DEF TimersAreKnown
  <2> QED BY <2>7, <2>8, TimersKeep
<1>3. CASE ~known
  <2>1. /\ task' = [x \in DOMAIN task |->
                       [task[x] EXCEPT !.lost = @ \/ (x \in Timers /\ task[x].u = u)]]
        /\ reg' = reg /\ cause' = cause
    BY <1>3 DEF GroupCalls!Connect
  <2>2. /\ DOMAIN task' = Tasks /\ \A x \in Tasks : IsTask(task'[x])
        /\ \A x \in Tasks : Same(x)
        /\ \A x \in Tasks : task[x].lost \/ (x \in Timers /\ task[x].u = u) => task'[x].lost
    BY <2>1 DEF GroupInv, GroupTypes, IsTask, Same
  <2>3. TimersMove
    BY <1>1, <2>1, <2>2 DEF TimersMove, GroupInv, GroupTypes
  <2>4. TimersAreKnown'
    <3>1. \A x \in Timers : x \in Tasks
      BY DEF Tasks
    <3>2. ASSUME NEW h \in Timers, task'[h].op = "grace", task'[h].step # "cancelled"
          PROVE  task'[h].lost \/ (reg'[task'[h].u] = h /\ task'[h].u \notin online')
      <4>1. task[h].lost \/ (reg[task[h].u] = h /\ task[h].u \notin online)
        BY <2>2, <3>1, <3>2 DEF GroupInv, TimersAreKnown, Same
      <4> QED BY <1>1, <2>1, <2>2, <3>1, <4>1 DEF Same
    <3>3. \A v \in Users : reg'[v] # "none" =>
              /\ reg'[v] \in Timers /\ task'[reg'[v]].op = "grace" /\ task'[reg'[v]].u = v
              /\ task'[reg'[v]].step # "cancelled"
      BY <2>1, <2>2, <3>1 DEF GroupInv, TimersAreKnown, Same
    <3> QED BY <3>2, <3>3 DEF TimersAreKnown
  <2> QED BY <2>3, <2>4, TimersKeep
<1> QED BY <1>2, <1>3

LEMMA FinishesKeeps ==
    ASSUME GroupInv, NEW g \in Timers, GroupCalls!Finishes(g)
    PROVE  GroupInv'
<1>1. PICK u, r : u = task[g].u /\ r = reg[u]
  OBVIOUS
<1>2. /\ g \in Tasks /\ task[g].step \in {"cancelled", "next"}
      /\ task' = [x \in DOMAIN task |->
                     IF x = g THEN GroupCalls!Idle
                     ELSE IF x = r THEN [task[x] EXCEPT !.lost = TRUE] ELSE task[x]]
      /\ reg' = [reg EXCEPT ![u] = "none"]
      /\ UNCHANGED <<call, part, sfu, last, posts, online, cause>>
  BY <1>1 DEF Tasks, GroupCalls!Finishes, GroupCalls!db, GroupCalls!media, GroupCalls!None
<1>3. u \in Users /\ task[g].op = "grace"
  BY <1>1, <1>2 DEF GroupInv, TasksAreShaped, Shaped, Steps, OfRequests
<1>4. /\ DOMAIN task' = Tasks /\ (\A x \in Tasks : IsTask(task'[x]))
      /\ task'[g] = GroupCalls!Idle
      /\ \A x \in Tasks : x # g => Same(x) /\ (task[x].lost => task'[x].lost)
      /\ \A x \in Tasks : x # g /\ x = r => task'[x].lost
      /\ \A x \in Tasks : x # g /\ x # r => task'[x] = task[x]
  BY <1>2 DEF GroupInv, GroupTypes, IsTask, Same, GroupCalls!Idle
<1>5. task'[g].op = "none" /\ task'[g].step = "none" /\ Rests(g) /\ Shaped(g)'
  BY <1>2, <1>4 DEF GroupCalls!Idle, GroupCalls!None, Rests, Shaped, Steps
<1>6. /\ DOMAIN reg' = Users /\ reg'[u] = "none"
      /\ \A v \in Users : v # u => reg'[v] = reg[v]
  BY <1>2, <1>3 DEF GroupInv, GroupTypes
<1>7. TimersMove
  <2>1. \A x \in Tasks : Same(x) \/
           (x \in Timers /\ task'[x].op \in {"none", "grace"} /\ Shaped(x)' /\ (cause'.cut \/ Rests(x)))
    BY <1>4, <1>5
  <2> QED BY <1>2, <1>4, <1>6, <2>1 DEF TimersMove, GroupInv, GroupTypes
<1>8. TimersAreKnown'
  <2>1. ASSUME NEW h \in Timers, task'[h].op = "grace", task'[h].step # "cancelled"
        PROVE  task'[h].lost \/ (reg'[task'[h].u] = h /\ task'[h].u \notin online')
    <3>1. h \in Tasks /\ h # g
      BY <1>5, <2>1 DEF Tasks
    <3>2. /\ task[h].op = "grace" /\ task[h].step # "cancelled" /\ task'[h].u = task[h].u
          /\ task[h].u \in Users
      BY <1>4, <2>1, <3>1 DEF Same, GroupInv, TasksAreShaped, Shaped
    <3>3. task[h].lost \/ (reg[task[h].u] = h /\ task[h].u \notin online)
      BY <3>2 DEF GroupInv, TimersAreKnown
    <3> QED BY <1>1, <1>2, <1>4, <1>6, <3>1, <3>2, <3>3
  <2>2. ASSUME NEW v \in Users, reg'[v] # "none"
        PROVE  /\ reg'[v] \in Timers /\ task'[reg'[v]].op = "grace" /\ task'[reg'[v]].u = v
               /\ task'[reg'[v]].step # "cancelled"
    <3>1. v # u
      BY <1>6, <2>2
    <3>2. /\ reg'[v] = reg[v] /\ reg[v] \in Timers /\ task[reg[v]].op = "grace"
          /\ task[reg[v]].u = v /\ task[reg[v]].step # "cancelled"
      BY <1>6, <2>2, <3>1 DEF GroupInv, TimersAreKnown
    <3>3. reg[v] # g /\ reg[v] \in Tasks
      BY <1>1, <3>1, <3>2 DEF Tasks
    <3> QED BY <1>4, <3>2, <3>3 DEF Same
  <2> QED BY <2>1, <2>2 DEF TimersAreKnown
<1> QED BY <1>7, <1>8, TimersKeep

LEMMA GroupStarts ==
    ASSUME GroupCalls!Init
    PROVE  GroupInv
<1> DEFINE there(state, in, c, u) == state = "live" /\ c = 1 /\ u \in in
<1>1. PICK state \in {"none", "live"}, in \in {{}, Users} :
          /\ state = "none" => in = {}
          /\ call = [c \in GroupCallIds |->
                        [state |-> IF c = 1 THEN state ELSE "none", join_muted |-> FALSE]]
          /\ part = [c \in GroupCallIds |-> [u \in Users |->
                        IF there(state, in, c, u) THEN [GroupCalls!NoRow EXCEPT !.in = "yes"]
                        ELSE GroupCalls!NoRow]]
          /\ sfu = [c \in GroupCallIds |-> [u \in Users |->
                        IF there(state, in, c, u) THEN "playing" ELSE "none"]]
          /\ last = sfu
  BY DEF GroupCalls!Init
<1>2. /\ task = [x \in Tasks |-> GroupCalls!Idle] /\ posts = {}
      /\ reg = [u \in Users |-> "none"] /\ cause = GroupCalls!NoCause
  BY DEF GroupCalls!Init, GroupCalls!None, Tasks
<1>3. /\ DOMAIN call = GroupCallIds
      /\ \A c \in GroupCallIds : /\ IsGroupCall(call[c]) /\ call[c].state \in {"none", "live"}
                                 /\ call[c].state = "live" => c = 1 /\ state = "live"
                                 /\ ~Begun(c) => c # 1 \/ state # "live"
  BY <1>1 DEF IsGroupCall, Begun
<1>4. /\ DOMAIN part = GroupCallIds /\ DOMAIN sfu = GroupCallIds
      /\ \A c \in GroupCallIds : DOMAIN part[c] = Users /\ DOMAIN sfu[c] = Users
  BY <1>1
<1>5. ASSUME NEW c \in GroupCallIds, NEW u \in Users
      PROVE  /\ IsRow(part[c][u]) /\ part[c][u].in \in {"never", "yes"}
             /\ sfu[c][u] = IF there(state, in, c, u) THEN "playing" ELSE "none"
             /\ sfu[c][u] = Due(part[c][u])
             /\ ~there(state, in, c, u) => part[c][u].in = "never"
  <2>1. part[c][u] = IF there(state, in, c, u) THEN [GroupCalls!NoRow EXCEPT !.in = "yes"]
                     ELSE GroupCalls!NoRow
    BY <1>1
  <2>2. sfu[c][u] = IF there(state, in, c, u) THEN "playing" ELSE "none"
    BY <1>1
  <2> HIDE DEF there
  <2> QED BY <2>1, <2>2 DEF GroupCalls!NoRow, IsRow, Due, GroupCalls!Sound
<1>6. /\ DOMAIN task = Tasks
      /\ \A x \in Tasks : /\ IsTask(task[x]) /\ task[x].op = "none" /\ task[x].step = "none"
                          /\ task[x].c = 0 /\ task[x].todo = {} /\ Shaped(x)
  BY <1>2 DEF GroupCalls!Idle, GroupCalls!None, IsTask, Shaped, Steps
<1>7. /\ cause.cut = FALSE /\ cause.twice = FALSE /\ cause.late = {} /\ cause.astray = {}
      /\ DOMAIN cause = {"cut", "twice", "late", "astray"}
  BY <1>2 DEF GroupCalls!NoCause
<1>8. GroupTypes
  <2>1. Heeds(sfu) /\ Heeds(last)
    BY <1>1, <1>4, <1>5 DEF Heeds
  <2> QED BY <1>2, <1>3, <1>4, <1>5, <1>6, <1>7, <2>1 DEF GroupTypes
<1>9. CallsAreFresh
  BY <1>1, <1>2, <1>3, <1>5 DEF CallsAreFresh
<1>10. TasksAreShaped
  BY <1>6 DEF TasksAreShaped
<1>11. OneCreates
  BY <1>3, <1>6 DEF OneCreates, GroupCalls!Open
<1>12. OversAreTidy
  BY <1>3 DEF OversAreTidy, Dismissed
<1>13. SomebodyCounts
  BY <1>5 DEF SomebodyCounts, Deserted
<1>14. SfuFollows
  <2>1. \A c \in GroupCallIds, u \in Users : last[c][u] = sfu[c][u]
    BY <1>1
  <2> QED BY <1>2, <1>5, <2>1 DEF SfuFollows, Followed
<1>15. TimersAreKnown
  BY <1>2, <1>6 DEF TimersAreKnown, Tasks
<1> QED BY <1>8, <1>9, <1>10, <1>11, <1>12, <1>13, <1>14, <1>15 DEF GroupInv

LEMMA GroupStep ==
    ASSUME GroupInv, GroupCalls!Next
    PROVE  GroupInv'
<1>1. ASSUME NEW u \in Users, GroupCalls!UserStep(u)
      PROVE  GroupInv'
  <2>1. CASE \E x \in Requests : GroupCalls!CreateGroupCall(x, u)
    BY <2>1, CreateKeeps
  <2>2. CASE \E x \in {y \in Requests : u \in online /\ task[y] = GroupCalls!Idle /\ made > 0},
                c \in GroupCalls!Open :
           \/ \E muted \in {"muted", "unmuted"} : GroupCalls!JoinGroupCall(x, u, c, muted)
           \/ GroupCalls!JoinGroupCallVideo(x, u, c)
           \/ GroupCalls!LeaveGroupCall(x, u, c)
           \/ \E t \in Users, arg \in GroupCalls!Edits :
                  GroupCalls!EditGroupCallParticipant(x, u, c, t, arg)
           \/ GroupCalls!DiscardGroupCall(x, u, c)
    <3>1. PICK x \in Requests, c \in GroupCalls!Open :
             /\ task[x] = GroupCalls!Idle
             /\ \/ \E muted \in {"muted", "unmuted"} : GroupCalls!JoinGroupCall(x, u, c, muted)
                \/ GroupCalls!JoinGroupCallVideo(x, u, c)
                \/ GroupCalls!LeaveGroupCall(x, u, c)
                \/ \E t \in Users, arg \in GroupCalls!Edits :
                       GroupCalls!EditGroupCallParticipant(x, u, c, t, arg)
                \/ GroupCalls!DiscardGroupCall(x, u, c)
      BY <2>2, Zenon
    <3> QED BY <3>1, RequestBegins
  <2>3. CASE \E c \in GroupCallIds : \/ GroupCalls!StartScheduledGroupCall(u, c)
                                     \/ GroupCalls!ToggleGroupCallSettings(u, c)
    BY <2>3, StartKeeps
  <2>4. CASE GroupCalls!Disconnect(u) \/ GroupCalls!Finalize(u)
    BY <2>4, DisconnectKeeps
  <2>5. CASE \E known \in BOOLEAN : GroupCalls!Connect(u, known)
    BY <2>5, ConnectKeeps
  <2> QED BY <1>1, <2>1, <2>2, <2>3, <2>4, <2>5, Zenon DEF GroupCalls!UserStep
<1>2. ASSUME NEW x \in Tasks, GroupCalls!RequestStep(x)
      PROVE  GroupInv'
  <2>1. CASE \E works \in BOOLEAN : GroupCalls!Media(x, works) \/ GroupCalls!Empty(x, works)
    BY <2>1, MediaKeeps, EmptyKeeps
  <2>2. CASE \E state \in {"scheduled", "live"}, muted \in BOOLEAN : GroupCalls!Make(x, state, muted)
    BY <2>2, MakeKeeps
  <2> QED BY <1>2, <2>1, <2>2, ReadRowKeeps, SaveJoinKeeps, SaveEditKeeps, SaveLeaveKeeps,
             CountKeeps, OverKeeps DEF GroupCalls!RequestStep
<1>3. ASSUME NEW g \in Timers, GroupCalls!TimerStep(g)
      PROVE  GroupInv'
  BY <1>3, ExpireKeeps, LeaveNextKeeps, FinishesKeeps DEF GroupCalls!TimerStep
<1>4. ASSUME NEW p \in posts, \/ GroupCalls!StateArrives(p) \/ GroupCalls!LeaveArrives(p)
                              \/ GroupCalls!PostFails(p)
      PROVE  GroupInv'
  BY <1>4, StateArrivesKeeps, LeaveArrivesKeeps, PostFailsKeeps
<1> QED BY <1>1, <1>2, <1>3, <1>4 DEF GroupCalls!Next, Tasks

LEMMA GroupStays ==
    ASSUME GroupInv, UNCHANGED group
    PROVE  GroupInv'
<1>1. UNCHANGED <<call, part, task, sfu, last, posts, online, reg, cause>>
  BY DEF group
<1>2. GroupTypes'
  BY <1>1 DEF GroupInv, GroupTypes, Heeds
<1>3. CallsAreFresh'
  BY <1>1 DEF GroupInv, CallsAreFresh, Begun
<1>4. TasksAreShaped'
  BY <1>1 DEF GroupInv, TasksAreShaped, Shaped, Begun, GroupCalls!Allowed, GroupCalls!Edits
<1>5. OneCreates'
  BY <1>1 DEF GroupInv, OneCreates, GroupCalls!Open
<1>6. OversAreTidy'
  BY <1>1 DEF GroupInv, OversAreTidy, Dismissed, Unworked, Emptied, Empties
<1>7. SomebodyCounts'
  BY <1>1 DEF GroupInv, SomebodyCounts, Deserted, Counts
<1>8. SfuFollows'
  BY <1>1 DEF GroupInv, SfuFollows, Followed, Due, GroupCalls!Sound, TwoGo, Comes
<1>9. TimersAreKnown'
  BY <1>1 DEF GroupInv, TimersAreKnown
<1> QED BY <1>2, <1>3, <1>4, <1>5, <1>6, <1>7, <1>8, <1>9 DEF GroupInv

\* The group calls' part of the theorem: each conjunct of the invariant has one
\* conjunct of the property.
LEMMA GroupInOrder ==
    ASSUME GroupInv
    PROVE  GroupCalls!CallsAreTidy /\ GroupCalls!EmptyCallEnds /\ GroupCalls!SfuAgrees
<1>1. DOMAIN task = Tasks
  BY DEF GroupInv, GroupTypes
<1>2. cause.twice \/ GroupCalls!Cardinality(GroupCalls!Open) <= 1
  <2> SUFFICES ASSUME ~cause.twice
               PROVE  GroupCalls!Cardinality(GroupCalls!Open) <= 1
    OBVIOUS
  <2>1. \A c, d \in GroupCalls!Open : c = d
    BY DEF GroupInv, OneCreates
  <2>2. GroupCalls!Cardinality(GroupCalls!Open) = Cardinality(GroupCalls!Open)
    BY DEF GroupCalls!Cardinality, Cardinality
  <2>3. CASE GroupCalls!Open = {}
    BY <2>2, <2>3, FS_EmptySet
  <2>4. CASE GroupCalls!Open # {}
    <3>1. PICK c : c \in GroupCalls!Open
      BY <2>4
    <3>2. GroupCalls!Open = {c}
      BY <2>1, <3>1
    <3>3. Cardinality(GroupCalls!Open) = 1
      BY <3>2, FS_Singleton
    <3> QED BY <2>2, <3>3
  <2> QED BY <2>3, <2>4
<1>3. ASSUME NEW c \in GroupCallIds, call[c].state = "over", ~GroupCalls!AtWork(c),
             c \notin cause.late, ~cause.cut
      PROVE  GroupCalls!In(c) = {} /\ sfu[c] = GroupCalls!Closed
  <2>1. \A x \in Tasks : task[x].c # c
    BY <1>1, <1>3 DEF GroupCalls!AtWork
  <2>2. Emptied(c)
    BY <1>3, <2>1 DEF GroupInv, OversAreTidy, Dismissed, Empties
  <2>3. sfu[c] \in [Users -> {"none", "playing", "paused"}]
    BY DEF GroupInv, GroupTypes, Heeds
  <2>4. sfu[c] = GroupCalls!Closed
    BY <2>2, <2>3 DEF Emptied, GroupCalls!Closed
  <2> QED BY <2>2, <2>4 DEF Emptied, GroupCalls!In
<1>4. GroupCalls!EmptyCallEnds
  <2> SUFFICES ASSUME NEW c \in GroupCallIds, call[c].state = "live", GroupCalls!In(c) = {},
                      ~GroupCalls!AtWork(c), \E u \in Users : part[c][u].in = "left", ~cause.cut
               PROVE  FALSE
    BY DEF GroupCalls!EmptyCallEnds
  <2>1. Deserted(c)
    BY DEF Deserted, GroupCalls!In
  <2>2. \E x \in Tasks : Counts(x, c)
    BY <2>1 DEF GroupInv, SomebodyCounts
  <2> QED BY <1>1, <2>2 DEF Counts, GroupCalls!AtWork
<1>5. GroupCalls!SfuAgrees
  <2> SUFFICES ASSUME NEW c \in GroupCallIds, call[c].state = "live", ~GroupCalls!AtWork(c),
                      NEW u \in Users, <<c, u>> \notin cause.astray,
                      \A p \in posts : ~(p.c = c /\ p.u = u)
               PROVE  sfu[c][u] = IF u \in GroupCalls!In(c) THEN GroupCalls!Sound(part[c][u])
                                  ELSE "none"
    BY DEF GroupCalls!SfuAgrees
  <2>1. Followed(c, u)
    BY DEF GroupInv, SfuFollows
  <2>2. ~Comes(c, u)
    BY <1>1 DEF Comes, GroupCalls!AtWork
  <2>3. sfu[c][u] = Due(part[c][u])
    BY <2>1, <2>2 DEF Followed, TwoGo, About
  <2> QED BY <2>3 DEF Due, GroupCalls!In
<1> QED BY <1>2, <1>3, <1>4, <1>5 DEF GroupCalls!CallsAreTidy

\* Of the rows, only an edit can clear an admin's mute.
LEMMA MuteKept ==
    ASSUME GroupInv, NEW x \in Tasks, GroupCalls!RequestStep(x), ~GroupCalls!SaveEdit(x),
           NEW c \in GroupCallIds, NEW u \in Users, part[c][u].admin
    PROVE  part'[c][u].admin
<1>1. /\ DOMAIN part = GroupCallIds /\ DOMAIN part[c] = Users /\ IsRow(part[c][u])
      /\ \A d \in GroupCallIds : DOMAIN part[d] = Users
  BY DEF GroupInv, GroupTypes
<1>2. GroupCalls!AllOut(c)[u].admin
  BY <1>1 DEF GroupCalls!AllOut, IsRow
<1>3. ASSUME NEW d, NEW v, NEW row, NEW m,
             part' = [part EXCEPT ![d][v] = GroupCalls!Joined(part[d][v], row, m)]
      PROVE  part'[c][u].admin
  BY <1>1, <1>3 DEF GroupCalls!Joined, IsRow
<1>4. ASSUME NEW d, NEW v, part' = [part EXCEPT ![d][v] = GroupCalls!Left(part[d][v])]
      PROVE  part'[c][u].admin
  BY <1>1, <1>4 DEF GroupCalls!Left, IsRow
<1>5. ASSUME NEW d, part' = [part EXCEPT ![d] = GroupCalls!AllOut(d)]
      PROVE  part'[c][u].admin
  BY <1>1, <1>2, <1>5
<1>6. ASSUME NEW C,
             part' = [d \in GroupCallIds |-> IF d \in C THEN GroupCalls!AllOut(d) ELSE part[d]]
      PROVE  part'[c][u].admin
  BY <1>2, <1>6
<1>7. CASE GroupCalls!SaveJoin(x)
  <2>1. PICK d, v, row, m : d = task[x].c /\ v = task[x].u /\ row = task[x].row
                            /\ m = (task[x].arg = "muted")
    OBVIOUS
  <2>2. \/ UNCHANGED part
        \/ part' = [part EXCEPT ![d][v] = GroupCalls!Joined(part[d][v], row, m)]
    BY <1>7, <2>1 DEF GroupCalls!SaveJoin
  <2> QED BY <1>3, <2>2
<1>8. CASE GroupCalls!SaveLeave(x)
  BY <1>4, <1>8 DEF GroupCalls!SaveLeave
<1>9. CASE \E works \in BOOLEAN : GroupCalls!Empty(x, works)
  BY <1>5, <1>9 DEF GroupCalls!Empty
<1>10. CASE \E state \in {"scheduled", "live"}, muted \in BOOLEAN : GroupCalls!Make(x, state, muted)
  BY <1>6, <1>10 DEF GroupCalls!Make
<1>11. (\/ GroupCalls!ReadRow(x) \/ GroupCalls!Count(x) \/ GroupCalls!Over(x)
        \/ \E works \in BOOLEAN : GroupCalls!Media(x, works))
       => UNCHANGED part
  BY DEF GroupCalls!ReadRow, GroupCalls!Count, GroupCalls!Over, GroupCalls!Media, GroupCalls!db
<1> QED BY <1>7, <1>8, <1>9, <1>10, <1>11 DEF GroupCalls!RequestStep

LEMMA MuteSticks ==
    ASSUME GroupInv, GroupCalls!Next
    PROVE  GroupCalls!AdminMuteSticksStep
<1> SUFFICES ASSUME NEW c \in GroupCallIds, NEW u \in Users, part[c][u].admin, ~part'[c][u].admin
             PROVE  \E x \in Requests :
                        /\ task[x].op = "edit" /\ task[x].step = "save" /\ task[x].t = u
                        /\ task[x].u \in Managers \ {u} \/ ~task[x].row.admin
  BY DEF GroupCalls!AdminMuteSticksStep
<1>1. ASSUME NEW v \in Users, GroupCalls!UserStep(v)
      PROVE  UNCHANGED part
  BY <1>1 DEF GroupCalls!UserStep, GroupCalls!CreateGroupCall, GroupCalls!JoinGroupCall,
     GroupCalls!JoinGroupCallVideo, GroupCalls!LeaveGroupCall, GroupCalls!EditGroupCallParticipant,
     GroupCalls!DiscardGroupCall, GroupCalls!Begins, GroupCalls!StartScheduledGroupCall,
     GroupCalls!ToggleGroupCallSettings, GroupCalls!Disconnect, GroupCalls!Finalize,
     GroupCalls!Connect, GroupCalls!db
<1>2. ASSUME NEW g \in Timers, GroupCalls!TimerStep(g)
      PROVE  UNCHANGED part
  BY <1>2 DEF GroupCalls!TimerStep, GroupCalls!Expire, GroupCalls!LeaveNext, GroupCalls!Finishes,
     GroupCalls!db
<1>3. ASSUME NEW p, GroupCalls!StateArrives(p) \/ GroupCalls!LeaveArrives(p) \/ GroupCalls!PostFails(p)
      PROVE  UNCHANGED part
  BY <1>3 DEF GroupCalls!StateArrives, GroupCalls!LeaveArrives, GroupCalls!PostFails, GroupCalls!db
<1>4. PICK x \in Tasks : GroupCalls!RequestStep(x)
  BY <1>1, <1>2, <1>3 DEF GroupCalls!Next, Tasks
<1>5. GroupCalls!SaveEdit(x)
  BY <1>4, MuteKept
<1> DEFINE k == task[x]
<1>6. /\ Shaped(x) /\ k.step = "save" /\ k.op = "edit" /\ k.arg \in GroupCalls!Allowed(k.u, k.t)
      /\ x \in Requests
  BY <1>5 DEF GroupCalls!SaveEdit, GroupInv, TasksAreShaped, Shaped, Tasks
<1>7. /\ DOMAIN part = GroupCallIds /\ (\A d \in GroupCallIds : DOMAIN part[d] = Users)
      /\ IsRow(part[c][u])
  BY DEF GroupInv, GroupTypes
<1>8. /\ ~GroupCalls!Ignored(k)
      /\ part' = [part EXCEPT ![k.c][k.t] = GroupCalls!Edited(part[k.c][k.t], k)]
  BY <1>5 DEF GroupCalls!SaveEdit
<1>9. k.c = c /\ k.t = u /\ ~GroupCalls!Edited(part[c][u], k).admin
  <2>1. PICK d, v, e : d = k.c /\ v = k.t /\ e = GroupCalls!Edited(part[d][v], k)
    OBVIOUS
  <2>2. part' = [part EXCEPT ![d][v] = e]
    BY <1>8, <2>1
  <2> HIDE DEF k
  <2> QED BY <1>7, <2>1, <2>2
<1>10. k.arg \in {"unmute", "loud"}
  <2>1. CASE k.arg = "mute"
    <3>1. GroupCalls!Edited(part[c][u], k) =
              [part[c][u] EXCEPT !.muted = TRUE, !.admin = part[c][u].admin \/ k.u # k.t]
      BY <2>1, Zenon DEF GroupCalls!Edited
    <3> HIDE DEF k
    <3> QED BY <1>7, <1>9, <3>1 DEF IsRow
  <2>2. CASE k.arg = "quiet"
    <3>1. GroupCalls!Edited(part[c][u], k) =
              [part[c][u] EXCEPT !.muted = TRUE, !.admin = TRUE]
      BY <2>2, Zenon DEF GroupCalls!Edited
    <3> HIDE DEF k
    <3> QED BY <1>7, <1>9, <3>1 DEF IsRow
  <2> QED BY <1>6, <2>1, <2>2 DEF GroupCalls!Allowed, GroupCalls!Edits
<1>11. k.u \in Managers \ {u} \/ ~k.row.admin
  BY <1>6, <1>8, <1>9, <1>10 DEF GroupCalls!Allowed, GroupCalls!Ignored
<1> QED BY <1>6, <1>9, <1>11

LEMMA EvictedOffline ==
    ASSUME GroupInv
    PROVE  GroupCalls!EvictedOnlyOfflineStep
<1> SUFFICES ASSUME NEW g \in Timers, task[g].step = "save"
             PROVE  task[g].u \notin online \/ task[g].lost
  BY DEF GroupCalls!EvictedOnlyOfflineStep
<1>1. task[g].op = "grace"
  BY DEF GroupInv, TasksAreShaped, Shaped, Tasks, Steps
<1> QED BY <1>1 DEF GroupInv, TimersAreKnown

-----------------------------------------------------------------------------
(* The media server's room *)

Idle == Sfu!Idle
Nothing == Sfu!Nothing
AtWork == Sfu!Handling

IsWork(w) == DOMAIN w = {"op", "p", "o", "step", "todo", "more", "item", "v"}
IsItem(c) == DOMAIN c = {"to", "of", "on", "paused"}
Opened(t) == dtls[t] \in {"new", "connected"}

\* What the variables hold.
RoomTypes ==
    /\ DOMAIN room = Peers /\ \A p \in Peers : room[p] \in SfuJoins \cup {0}
    /\ gen \in Nat
    /\ DOMAIN born = SfuJoins /\ \A j \in SfuJoins : born[j] \in Nat
    /\ DOMAIN owner = SfuJoins /\ \A t \in SfuJoins : owner[t] \in SfuJoins \cup {0}
    /\ DOMAIN current = SfuJoins /\ \A o \in SfuJoins : current[o] \in SfuJoins \cup {0}
    /\ DOMAIN dtls = SfuJoins /\ DOMAIN prod = SfuJoins
    /\ DOMAIN pending = SfuJoins /\ flag \subseteq Peers
    /\ DOMAIN work = AtWork /\ \A x \in AtWork : IsWork(work[x])
    /\ DOMAIN fault = {"crossed", "failed", "restless"}

\* A pair of a peer object and a producer that was made.
IsPair(pair) ==
    /\ pair = <<pair[1], pair[2]>>
    /\ pair[1] \in SfuJoins /\ pair[2] \in SfuJoins /\ owner[pair[2]] # 0

\* What a consumer that is made, or was, goes between.
IsBetween(c) ==
    /\ IsItem(c) /\ c.to \in SfuJoins /\ c.of \in SfuJoins /\ c.on \in SfuJoins
    /\ owner[c.of] # 0 /\ owner[c.on] = c.to /\ dtls[c.on] \in {"connected", "closed"}

\* What a handler holds at each of its steps.
StepFits(x, op, step) ==
    \/ op = "none" /\ step = "none"
    \/ op = "join" /\ x \in SfuJoins
         /\ step \in {"transport", "produce", "pause", "pipe", "fetch", "flush"}
    \/ op = "flush" /\ step = "flush" /\ x \notin SfuJoins \cup Controls
    \/ op = "leave" /\ step = "close" /\ x \in Controls
    \/ op = "delete" /\ step = "peers" /\ x \in Controls
    \/ op = "pause" /\ step \in {"producer", "consumers"} /\ x \in Controls

\* The steps that give producers to peers.
Carrying == {"pipe", "fetch", "flush"}
WorkFits(x) ==
    LET w == work[x] IN
    /\ StepFits(x, w.op, w.step)
    /\ IF w.op \in {"join", "leave", "pause"} THEN w.p \in Peers /\ w.o \in SfuJoins
       ELSE w.p = "none"
    /\ w.op = "join" => /\ w.todo \subseteq SfuJoins /\ born[x] # 0
                        /\ owner[x] = IF w.step = "transport" THEN 0 ELSE w.o
    /\ w.o # 0 => w.o \in SfuJoins /\ born[w.o] # 0
    /\ w.step \notin Carrying => w.more = {} /\ w.item = Nothing
    /\ \A pair \in w.more : IsPair(pair)
    /\ w.item = Nothing \/ IsBetween(w.item)

AllFit == \A x \in AtWork : WorkFits(x)

\* Peer objects belong to one peer, and are new when they are made.
ObjectsApart ==
    /\ \A p, q \in Peers : room[p] # 0 /\ room[p] = room[q] => p = q
    /\ \A p \in Peers : room[p] # 0 => born[room[p]] = gen /\ gen # 0
    /\ \A x \in AtWork, p \in Peers :
           work[x].p \in Peers /\ room[p] # 0 /\ work[x].o = room[p] => work[x].p = p

\* Transports and producers belong to peer objects.
StreamsOwned ==
    /\ \A t \in SfuJoins : owner[t] # 0 => born[owner[t]] # 0 /\ born[t] # 0
    /\ \A o \in SfuJoins : current[o] # 0 => owner[current[o]] = o
    /\ \A t \in SfuJoins : /\ owner[t] = 0 <=> dtls[t] = "none"
                           /\ dtls[t] \in {"none", "new", "connected", "closed"}
                           /\ Sfu!Live(t) => Opened(t)
    /\ \A o \in SfuJoins : \A q \in pending[o] : q \in SfuJoins /\ owner[q] # 0
    /\ \A t \in SfuJoins : dtls[t] \in {"none", "new"} => work[0 - t] = Idle
    /\ \A c \in cons : IsBetween(c) /\ dtls[c.on] = "connected" /\ Sfu!Live(c.of)

\* What handler x does, and what is being done about p.
Joining(x, p) == work[x].op = "join" /\ work[x].p = p
Leaving(x, p) == work[x].op = "leave" /\ work[x].p = p
Deleting(x) == work[x].op = "delete"
Pausing(x, p) == work[x].op = "pause" /\ work[x].p = p
Calm == Peers \ fault.crossed
Gone(p) == \E x \in AtWork : Leaving(x, p) \/ Deleting(x)

\* Of the requests about a peer that did not cross, one at a time joins, leaves or
\* deletes; it works on the peer's object, and the transport in use is the only open one.
OneFor(p) ==
    /\ \A x, y \in AtWork :
           /\ Joining(x, p) \/ Leaving(x, p) \/ Deleting(x)
           /\ Joining(y, p) \/ Leaving(y, p) \/ Deleting(y)
           => x = y
    /\ \A x \in AtWork : Joining(x, p) \/ Leaving(x, p) => work[x].o = room[p]
    /\ \A x \in AtWork : Joining(x, p) =>
           current[room[p]] = IF work[x].step = "transport" THEN 0 ELSE x
    /\ room[p] # 0 => \A t \in SfuJoins :
           owner[t] = room[p] /\ Opened(t) => t = current[room[p]]
OneAtATime == \A p \in Calm : OneFor(p)

\* Peers that nothing has happened to, and what they have.
Stays(p) == p \in Calm /\ p \notin fault.failed /\ room[p] # 0 /\ ~Gone(p)
Has(p) ==
    /\ \/ \E x \in AtWork : Joining(x, p) /\ work[x].step = "transport"
       \/ current[room[p]] # 0 /\ Opened(current[room[p]])
    /\ \/ \E x \in AtWork : Joining(x, p) /\ work[x].step \in {"transport", "produce"}
       \/ current[room[p]] # 0 /\ Sfu!Live(current[room[p]])
Equipped == \A p \in Peers : Stays(p) => Has(p)

\* A join of p has yet to come to the producers of object w; one of q to object o.
Fetches(x, p, w) ==
    Joining(x, p) /\ \/ work[x].step \in {"transport", "produce", "pause", "pipe"}
                     \/ work[x].step = "fetch" /\ w \in work[x].todo
Pipes(x, q, o) ==
    Joining(x, q) /\ \/ work[x].step \in {"transport", "produce", "pause"}
                     \/ work[x].step = "pipe" /\ o \in work[x].todo
\* Producer s is on its way to object o and its transport t, or there.
Brings(x, o, s, t) ==
    \/ <<o, s>> \in work[x].more
    \/ work[x].item.to = o /\ work[x].item.of = s /\ work[x].item.on = t
Joined(c, o, s, t) == c.to = o /\ c.of = s /\ c.on = t
Reaches(o, s, t) ==
    /\ s # 0 /\ t # 0
    /\ \/ \E x \in AtWork : Brings(x, o, s, t)
       \/ s \in pending[o] /\ dtls[t] = "new"
       \/ \E c \in cons : Joined(c, o, s, t)
\* Peer p has, or will get, what q produces.
Meets(p, q) ==
    \/ \E x \in AtWork : Fetches(x, p, room[q]) \/ Pipes(x, q, room[p])
    \/ Reaches(room[p], current[room[q]], current[room[p]])
AllMeet == \A p, q \in Peers : p # q /\ Stays(p) /\ Stays(q) => Meets(p, q)

\* A peer about whom no two requests overlapped sounds as its flag says.
Even(p) == p \in Peers \ fault.restless
Sound(p) == IF p \in flag THEN "paused" ELSE "playing"
Plays(p) ==
    \A t \in SfuJoins : owner[t] = room[p] /\ Sfu!Live(t) =>
        \/ prod[t] = Sound(p)
        \/ \E x \in AtWork : Pausing(x, p) /\ work[x].step = "producer"
        \/ \E x \in AtWork : Joining(x, p) /\ work[x].step = "pause"
Passes(p) ==
    \A c \in cons : owner[c.of] = room[p] =>
        (c.paused <=> p \in flag) \/ \E x \in AtWork : Pausing(x, p)
\* So do the consumers of it that are being made.
Carried(p) ==
    \A x \in AtWork : work[x].item # Nothing /\ owner[work[x].item.of] = room[p]
        => (work[x].item.paused <=> p \in flag)
SoundFor(p) ==
    /\ \A x, y \in AtWork :
           (work[x].p = p \/ Deleting(x)) /\ (work[y].p = p \/ Deleting(y)) => x = y
    /\ \A x \in AtWork : Pausing(x, p) => work[x].o = room[p] /\ (work[x].v <=> p \in flag)
    /\ \A x \in AtWork : Joining(x, p) /\ work[x].step = "pause" => p \in flag
    /\ room[p] # 0 /\ (\A x \in AtWork : ~Leaving(x, p)) => Plays(p) /\ Passes(p) /\ Carried(p)
SoundsRight ==
    /\ fault.crossed \subseteq fault.restless
    /\ \A p \in Peers : Even(p) => SoundFor(p)

\* What is produced is of somebody who is in the room, and is being closed with it.
NobodyLeft ==
    fault.crossed = {} =>
        /\ \A q \in SfuJoins : Sfu!Live(q) => owner[q] \in Sfu!InRoom
        /\ \A x \in AtWork, q \in SfuJoins :
               Deleting(x) /\ Sfu!Live(q) => owner[q] \in work[x].todo

RoomInv ==
    /\ RoomTypes /\ AllFit /\ ObjectsApart /\ StreamsOwned
    /\ OneAtATime /\ Equipped /\ AllMeet /\ SoundsRight /\ NobodyLeft

\* The handlers of joins, of connecting transports and of other requests are apart.
LEMMA WhoWorks ==
    /\ \A j \in SfuJoins : /\ j \in AtWork /\ 0 - j \in AtWork /\ j # 0 /\ j \in Nat
                           /\ 0 - j \notin SfuJoins \cup Controls /\ j \notin Controls
    /\ \A i, j \in SfuJoins : 0 - i = 0 - j => i = j
    /\ \A x \in Controls : x \in AtWork /\ x \notin SfuJoins
<1>1. /\ SfuJoins \subseteq Nat \ {0}
      /\ \A j \in SfuJoins : j \notin Controls /\ 0 - j \notin Controls
  BY RoomAssumption
<1>2. AtWork = SfuJoins \cup {0 - j : j \in SfuJoins} \cup Controls
  BY DEF AtWork, Sfu!Handling
<1>3. \A i, j \in SfuJoins : i # 0 /\ i \in Nat /\ 0 - i # j /\ (0 - i = 0 - j => i = j)
  BY <1>1
<1> QED BY <1>1, <1>2, <1>3

\* Of the handlers, only x may have moved.
OneWorks(x) ==
    /\ DOMAIN work' = AtWork /\ \A y \in AtWork : IsWork(work'[y])
    /\ \A y \in AtWork : y # x => work'[y] = work[y]

IdleIs(w) ==
    /\ w.op = "none" /\ w.p = "none" /\ w.o = 0 /\ w.step = "none"
    /\ w.todo = {} /\ w.more = {} /\ w.item = Nothing

\* A handler goes to its next step, or ends.
LEMMA RoomGoes ==
    ASSUME RoomTypes, NEW x \in AtWork, NEW step, Sfu!Goes(x, step)
    PROVE  /\ OneWorks(x) /\ work'[x].step = step
           /\ work'[x].op = work[x].op /\ work'[x].p = work[x].p /\ work'[x].o = work[x].o
           /\ work'[x].todo = work[x].todo /\ work'[x].more = work[x].more
           /\ work'[x].item = work[x].item /\ work'[x].v = work[x].v
BY DEF RoomTypes, Sfu!Goes, OneWorks, IsWork

LEMMA IdleHolds ==
    IsWork(Idle) /\ IdleIs(Idle) /\ IsItem(Nothing) /\ Nothing.to = 0 /\ Nothing.of = 0 /\ Nothing.on = 0
BY DEF Idle, Sfu!Idle, IsWork, IdleIs, Nothing, Sfu!Nothing, IsItem

LEMMA RoomEnds ==
    ASSUME RoomTypes, NEW x \in AtWork, Sfu!Ends(x)
    PROVE  OneWorks(x) /\ work'[x] = Idle /\ IdleIs(work'[x]) /\ WorkFits(x)'
<1>1. OneWorks(x) /\ work'[x] = Idle
  BY IdleHolds DEF RoomTypes, Sfu!Ends, OneWorks, IsWork, Idle
<1>2. WorkFits(x)'
  BY <1>1, IdleHolds DEF WorkFits, IdleIs, StepFits
<1> QED BY <1>1, <1>2, IdleHolds

\* What does not move keeps to what is said of its step.
LEMMA FitStays ==
    ASSUME NEW x \in AtWork, WorkFits(x), work'[x] = work[x],
           \A o \in SfuJoins : born[o] # 0 => born'[o] # 0,
           \A t \in SfuJoins : owner[t] # 0 => owner'[t] = owner[t],
           work[x].op = "join" => owner'[x] = owner[x] /\ x \in SfuJoins,
           \A t \in SfuJoins : dtls[t] \in {"connected", "closed"} => dtls'[t] \in {"connected", "closed"}
    PROVE  WorkFits(x)'
<1>1. \A pair : IsPair(pair) => IsPair(pair)'
  BY DEF IsPair
<1>2. \A c : IsBetween(c) => IsBetween(c)'
  BY RoomAssumption DEF IsBetween
<1> QED BY <1>1, <1>2 DEF WorkFits, StepFits

\* A handler carries producers to peers: nothing else moves, and who was met is.
WorksOn(x) ==
    /\ OneWorks(x) /\ WorkFits(x)' /\ work[x].step \in Carrying
    /\ UNCHANGED <<room, gen, born, owner, current, dtls, prod, flag, fault>>
    /\ \/ IdleIs(work'[x])
       \/ /\ work'[x].op = work[x].op /\ work'[x].p = work[x].p /\ work'[x].o = work[x].o
          /\ work'[x].step \in Carrying
    /\ \/ work'[x].item = Nothing \/ work'[x].item = work[x].item
       \/ work'[x].item.paused = Sfu!PausedFor(work'[x].item.of)
    /\ DOMAIN pending' = SfuJoins
    /\ \A o \in SfuJoins : \A q \in pending'[o] : q \in SfuJoins /\ owner[q] # 0
    /\ \A c \in cons' : \/ c \in cons
                        \/ c # Nothing /\ c = work[x].item /\ dtls[c.on] = "connected" /\ Sfu!Live(c.of)
    /\ \A p, q \in Peers : p # q /\ Stays(p) /\ Stays(q) /\ Meets(p, q) => Meets(p, q)'

\* What isPeerAudioPaused answers about a producer is the flag of its peer.
LEMMA PausedIsFlag ==
    ASSUME RoomInv, NEW t \in SfuJoins, NEW p \in Peers, room[p] # 0, owner[t] = room[p]
    PROVE  Sfu!PausedFor(t) <=> p \in flag
<1>1. flag \subseteq Peers /\ \A q \in Peers : room[q] = room[p] => q = p
  BY DEF RoomInv, RoomTypes, ObjectsApart
<1>2. Sfu!PausedFor(t) <=> \E q \in flag : room[q] # 0 /\ room[q] = owner[t]
  BY DEF Sfu!PausedFor
<1> QED BY <1>1, <1>2

\* A step that only carries keeps the invariant.
LEMMA OnWorks ==
    ASSUME RoomInv, NEW x \in AtWork, WorksOn(x)
    PROVE  RoomInv'
<1> DEFINE k == work[x]
           n == work'[x]
<1>1. /\ OneWorks(x) /\ WorkFits(x)' /\ k.step \in Carrying /\ WorkFits(x)
      /\ \/ n.op = "none" /\ n.step = "none" /\ n.p = "none" /\ n.o = 0
         \/ n.op = k.op /\ n.p = k.p /\ n.o = k.o /\ n.step \in Carrying
  BY DEF WorksOn, IdleIs, RoomInv, AllFit
<1>2. UNCHANGED <<room, gen, born, owner, current, dtls, prod, flag, fault>>
  BY DEF WorksOn
<1>3. k.op \in {"join", "flush"} /\ k.step \notin {"transport", "produce", "pause", "none"}
  BY <1>1 DEF WorkFits, StepFits, Carrying
<1>4. /\ \A p : Joining(x, p)' => Joining(x, p)
      /\ \A p : ~Leaving(x, p)' /\ ~Pausing(x, p)' /\ ~Leaving(x, p) /\ ~Pausing(x, p)
      /\ ~Deleting(x)' /\ ~Deleting(x)
      /\ \A p : n.p = p => k.p = p \/ p = "none"
      /\ n.step \in Carrying \cup {"none"}
  BY <1>1, <1>3 DEF Joining, Leaving, Pausing, Deleting
<1>5. \A y \in AtWork : y # x => work'[y] = work[y]
  BY <1>1 DEF OneWorks
<1>6. \A p : Gone(p)' <=> Gone(p)
  BY <1>4, <1>5 DEF Gone, Leaving, Deleting
<1>7. \A p \in Peers : Stays(p)' <=> Stays(p)
  BY <1>2, <1>6 DEF Stays, Calm
<1>8. RoomTypes'
  BY <1>1, <1>2 DEF RoomInv, RoomTypes, OneWorks, WorksOn
<1>9. AllFit'
  <2>1. ASSUME NEW y \in AtWork, y # x
        PROVE  WorkFits(y)'
    <3>1. work[y].op = "join" => y \in SfuJoins
      BY DEF RoomInv, AllFit, WorkFits, StepFits
    <3> QED BY <1>2, <1>5, <2>1, <3>1, FitStays DEF RoomInv, AllFit
  <2> QED BY <1>1, <2>1 DEF AllFit
<1>10. ObjectsApart'
  <2>1. \A p \in Peers : n.p \in Peers /\ room[p] # 0 /\ n.o = room[p] => n.p = p
    BY <1>1 DEF RoomInv, ObjectsApart
  <2> QED BY <1>2, <1>5, <2>1 DEF RoomInv, ObjectsApart
<1>11. StreamsOwned'
  <2>1. ASSUME NEW c \in cons'
        PROVE  IsBetween(c)' /\ dtls'[c.on] = "connected" /\ Sfu!Live(c.of)'
    <3>1. IsBetween(c) /\ dtls[c.on] = "connected" /\ Sfu!Live(c.of)
      BY <1>1 DEF WorksOn, RoomInv, StreamsOwned, WorkFits
    <3> QED BY <1>2, <3>1 DEF IsBetween, Sfu!Live
  <2>2. ASSUME NEW t \in SfuJoins, dtls'[t] \in {"none", "new"}
        PROVE  work'[0 - t] = Idle
    <3>1. work[0 - t] = Idle /\ 0 - t \in AtWork
      BY <1>2, <2>2, WhoWorks DEF RoomInv, StreamsOwned
    <3>2. 0 - t # x
      BY <1>3, <3>1, IdleHolds DEF IdleIs
    <3> QED BY <1>5, <3>1, <3>2
  <2>3. \A o \in SfuJoins : \A q \in pending'[o] : q \in SfuJoins /\ owner[q] # 0
    BY DEF WorksOn
  <2> QED BY <1>2, <2>1, <2>2, <2>3 DEF RoomInv, StreamsOwned, Sfu!Live, Opened
<1>12. OneAtATime'
  <2>1. \A y \in AtWork : \A p : /\ (Joining(y, p) \/ Leaving(y, p) \/ Deleting(y))'
                                    => Joining(y, p) \/ Leaving(y, p) \/ Deleting(y)
                                 /\ (Joining(y, p) \/ Leaving(y, p))' =>
                                       (Joining(y, p) \/ Leaving(y, p)) /\ work'[y].o = work[y].o
                                 /\ Joining(y, p)' => Joining(y, p) /\ (work'[y].step = "transport" <=> work[y].step = "transport")
    BY <1>1, <1>3, <1>4, <1>5 DEF Joining, Leaving, Deleting, Carrying
  <2> QED BY <1>2, <2>1 DEF RoomInv, OneAtATime, OneFor, Calm, Opened
<1>13. Equipped'
  <2>1. \A y \in AtWork : \A p : Joining(y, p) /\ work[y].step \in {"transport", "produce"}
                             => Joining(y, p)' /\ work'[y].step = work[y].step
    BY <1>3, <1>5 DEF Joining
  <2> QED BY <1>2, <1>7, <2>1 DEF RoomInv, Equipped, Has, Opened, Sfu!Live
<1>14. AllMeet'
  BY <1>7 DEF RoomInv, AllMeet, WorksOn
<1>15. SoundsRight'
  <2>1. \A y \in AtWork, p \in Peers : (work[y].p = p \/ Deleting(y))' => work[y].p = p \/ Deleting(y)
    BY <1>4, <1>5, RoomAssumption DEF Deleting
  <2>2. \A y \in AtWork : \A p : /\ Pausing(y, p)' <=> Pausing(y, p)
                                 /\ Pausing(y, p) => work'[y] = work[y]
                                 /\ Leaving(y, p)' <=> Leaving(y, p)
                                 /\ Joining(y, p)' /\ work'[y].step = "pause" => Joining(y, p) /\ work[y].step = "pause"
                                 /\ Joining(y, p) /\ work[y].step = "pause" => Joining(y, p)' /\ work'[y].step = "pause"
    BY <1>3, <1>4, <1>5 DEF Pausing, Leaving, Joining, Carrying
  <2>3. ASSUME NEW p \in Peers, Even(p), room[p] # 0, \A y \in AtWork : ~Leaving(y, p)
        PROVE  /\ \A y \in AtWork : work'[y].item # Nothing /\ owner[work'[y].item.of] = room[p]
                   => (work'[y].item.paused <=> p \in flag)
               /\ \A c \in cons' : owner[c.of] = room[p] =>
                   \/ (c.paused <=> p \in flag)
                   \/ \E y \in AtWork : Pausing(y, p)
    <3>1. \A y \in AtWork : work[y].item # Nothing /\ owner[work[y].item.of] = room[p]
                   => (work[y].item.paused <=> p \in flag)
      BY <2>3 DEF RoomInv, SoundsRight, SoundFor, Carried
    <3>2. n.item # Nothing /\ owner[n.item.of] = room[p] => (n.item.paused <=> p \in flag)
      <4>1. CASE n.item.paused = Sfu!PausedFor(n.item.of)
        <5>1. n.item # Nothing => n.item.of \in SfuJoins
          BY <1>1 DEF WorkFits, IsBetween
        <5> QED BY <2>3, <4>1, <5>1, PausedIsFlag
      <4> QED BY <3>1, <4>1 DEF WorksOn
    <3>3. \A c \in cons : owner[c.of] = room[p] => (c.paused <=> p \in flag) \/ \E y \in AtWork : Pausing(y, p)
      BY <2>3 DEF RoomInv, SoundsRight, SoundFor, Carried, Passes
    <3>4. \A c \in cons' : c \in cons \/ (c # Nothing /\ c = k.item)
      BY DEF WorksOn
    <3> QED BY <1>5, <3>1, <3>2, <3>3, <3>4
  <2>4. ASSUME NEW p \in Peers, Even(p), room[p] # 0, \A y \in AtWork : ~Leaving(y, p),
               NEW t \in SfuJoins, owner[t] = room[p], Sfu!Live(t)
        PROVE  \/ prod[t] = Sound(p)
               \/ \E y \in AtWork : Pausing(y, p)' /\ work'[y].step = "producer"
               \/ \E y \in AtWork : Joining(y, p)' /\ work'[y].step = "pause"
    BY <2>2, <2>4 DEF RoomInv, SoundsRight, SoundFor, Carried, Plays
  <2>5. ASSUME NEW p \in Peers, Even(p)
        PROVE  /\ \A y, z \in AtWork :
                       (work'[y].p = p \/ Deleting(y)') /\ (work'[z].p = p \/ Deleting(z)') => y = z
               /\ \A y \in AtWork : Pausing(y, p)' => work'[y].o = room[p] /\ (work'[y].v <=> p \in flag)
               /\ \A y \in AtWork : Joining(y, p)' /\ work'[y].step = "pause" => p \in flag
    BY <2>1, <2>2, <2>5 DEF RoomInv, SoundsRight, SoundFor, Carried
  <2>6. \A p \in Peers : Even(p)' <=> Even(p)
    BY <1>2 DEF Even
  <2>7. fault'.crossed \subseteq fault'.restless
    BY <1>2 DEF RoomInv, SoundsRight, SoundFor, Carried
  <2> QED BY <1>2, <2>2, <2>3, <2>4, <2>5, <2>6, <2>7 DEF SoundsRight, SoundFor, Carried, Plays, Passes, Sound, Sfu!Live
<1>16. NobodyLeft'
  <2>1. \A y \in AtWork : Deleting(y)' => Deleting(y) /\ work'[y] = work[y]
    BY <1>4, <1>5 DEF Deleting
  <2> QED BY <1>2, <2>1 DEF RoomInv, NobodyLeft, Sfu!Live, Sfu!InRoom
<1> QED BY <1>8, <1>9, <1>10, <1>11, <1>12, <1>13, <1>14, <1>15, <1>16 DEF RoomInv

\* Whoever stays in the room has a transport and a producer, or will soon.
LEMMA Supplied ==
    ASSUME RoomInv, NEW p \in Peers, Stays(p)
    PROVE  /\ room[p] \in SfuJoins /\ room[p] # 0
           /\ \/ \E x \in AtWork : Joining(x, p) /\ work[x].step = "transport"
              \/ current[room[p]] \in SfuJoins /\ current[room[p]] # 0 /\ Opened(current[room[p]])
           /\ \/ \E x \in AtWork : Joining(x, p) /\ work[x].step \in {"transport", "produce"}
              \/ /\ current[room[p]] \in SfuJoins /\ current[room[p]] # 0
                 /\ Sfu!Live(current[room[p]]) /\ owner[current[room[p]]] = room[p]
           /\ \A x \in AtWork : Joining(x, p) => work[x].o = room[p]
           /\ \A x \in AtWork : Joining(x, p) /\ work[x].step # "transport" => current[room[p]] = x
           /\ \A t \in SfuJoins : owner[t] = room[p] /\ Opened(t) => t = current[room[p]]
<1>1. p \in Calm /\ room[p] # 0
  BY DEF Stays
<1>2. room[p] \in SfuJoins /\ current[room[p]] \in SfuJoins \cup {0}
  BY <1>1 DEF RoomInv, RoomTypes
<1>3. current[room[p]] # 0 => owner[current[room[p]]] = room[p]
  BY <1>2 DEF RoomInv, StreamsOwned
<1>4. /\ \/ \E x \in AtWork : Joining(x, p) /\ work[x].step = "transport"
         \/ current[room[p]] # 0 /\ Opened(current[room[p]])
      /\ \/ \E x \in AtWork : Joining(x, p) /\ work[x].step \in {"transport", "produce"}
         \/ current[room[p]] # 0 /\ Sfu!Live(current[room[p]])
  BY DEF RoomInv, Equipped, Has
<1>5. /\ \A x \in AtWork : Joining(x, p) => work[x].o = room[p]
      /\ \A x \in AtWork : Joining(x, p) /\ work[x].step # "transport" => current[room[p]] = x
      /\ \A t \in SfuJoins : owner[t] = room[p] /\ Opened(t) => t = current[room[p]]
  BY <1>1 DEF RoomInv, OneAtATime, OneFor
<1> QED BY <1>1, <1>2, <1>3, <1>4, <1>5

\* The meeting of two peers goes on when what x did for it is still done.
LEMMA MeetsOn ==
    ASSUME NEW x \in AtWork, OneWorks(x), UNCHANGED <<room, current, dtls>>,
           NEW p \in Peers, NEW q \in Peers, Meets(p, q),
           NEW o, o = room[p], NEW s, s = current[room[q]], NEW t, t = current[o],
           Fetches(x, p, room[q]) => Meets(p, q)',
           Pipes(x, q, o) => Meets(p, q)',
           s # 0 /\ t # 0 /\ Brings(x, o, s, t) => Meets(p, q)',
           s # 0 /\ t # 0 /\ dtls[t] = "new" /\ s \in pending[o] => Meets(p, q)',
           s # 0 /\ t # 0 /\ (\E c \in cons : Joined(c, o, s, t)) => Meets(p, q)'
    PROVE  Meets(p, q)'
<1>1. ASSUME NEW y \in AtWork, y # x
      PROVE  /\ Fetches(y, p, room[q]) => Fetches(y, p, room[q])'
             /\ Pipes(y, q, room[p]) => Pipes(y, q, room[p])'
             /\ Brings(y, o, s, t) => Brings(y, o, s, t)'
  BY <1>1 DEF OneWorks, Fetches, Pipes, Brings, Joining
<1>2. ASSUME NEW y \in AtWork, y # x, Fetches(y, p, room[q]) \/ Pipes(y, q, room[p])
      PROVE  Meets(p, q)'
  BY <1>1, <1>2 DEF Meets
<1>3. ASSUME NEW y \in AtWork, y # x, Brings(y, o, s, t), s # 0, t # 0
      PROVE  Meets(p, q)'
  <2>1. Brings(y, o, s, t)'
    BY <1>1, <1>3
  <2> QED BY <1>3, <2>1 DEF Meets, Reaches
<1>4. CASE \E y \in AtWork : Fetches(y, p, room[q]) \/ Pipes(y, q, room[p])
  BY <1>2, <1>4
<1>5. CASE Reaches(o, s, t)
  BY <1>3, <1>5 DEF Reaches
<1> QED BY <1>4, <1>5 DEF Meets

\* Two ways to meet that a step which only carries does not touch.
LEMMA MeetAnyway ==
    ASSUME NEW x \in AtWork, OneWorks(x), work[x].step \in Carrying, UNCHANGED room,
           NEW p \in Peers, NEW q \in Peers,
           \/ \E y \in AtWork : Joining(y, p) /\ work[y].step = "transport"
           \/ \E y \in AtWork : Joining(y, q) /\ work[y].step \in {"transport", "produce"}
    PROVE  Meets(p, q)'
<1>1. ASSUME NEW y \in AtWork, work[y].step \in {"transport", "produce"}
      PROVE  y # x /\ work'[y] = work[y]
  BY <1>1 DEF OneWorks, Carrying
<1> QED BY <1>1 DEF Meets, Fetches, Pipes, Joining

\* It goes on to the next of the others: whoever was to come is on the way now.
LEMMA NextPeerKeeps ==
    ASSUME RoomInv, NEW j \in SfuJoins, Sfu!NextPeer(j)
    PROVE  RoomInv'
<1> DEFINE k == work[j]
           n == work'[j]
<1>1. j \in AtWork /\ WorkFits(j) /\ RoomTypes
  BY WhoWorks DEF RoomInv, AllFit
<1>2. k.step \in {"pipe", "fetch"} /\ k.more = {} /\ k.item = Nothing
  BY DEF Sfu!NextPeer, Nothing
<1>3. k.op = "join" /\ k.o \in SfuJoins /\ k.todo \subseteq SfuJoins /\ owner[j] = k.o
  BY <1>1, <1>2 DEF WorkFits, StepFits
<1>4. PICK w \in k.todo :
          work' = [work EXCEPT ![j].todo = @ \ {w},
                               ![j].more = IF k.step = "pipe" THEN {<<w, j>>}
                                           ELSE {<<k.o, q>> : q \in {q \in SfuJoins : owner[q] = w /\ Sfu!Live(q)}}]
  BY DEF Sfu!NextPeer
<1>5. /\ OneWorks(j) /\ n.op = k.op /\ n.p = k.p /\ n.o = k.o /\ n.step = k.step /\ n.item = k.item
      /\ n.todo = k.todo \ {w}
      /\ n.more = IF k.step = "pipe" THEN {<<w, j>>}
                  ELSE {<<k.o, q>> : q \in {q \in SfuJoins : owner[q] = w /\ Sfu!Live(q)}}
  BY <1>1, <1>4 DEF RoomTypes, OneWorks, IsWork
<1>6. UNCHANGED <<room, gen, born, owner, current, dtls, prod, pending, cons, flag, fault>>
  BY DEF Sfu!NextPeer, Sfu!names, Sfu!streams
<1>7. WorkFits(j)'
  <2>1. w \in SfuJoins /\ w # 0 /\ k.o # 0
    BY <1>3, WhoWorks
  <2>2. \A pair \in n.more : IsPair(pair)'
    <3>1. CASE k.step = "pipe"
      BY <1>3, <1>5, <1>6, <2>1, <3>1 DEF IsPair
    <3>2. CASE k.step # "pipe"
      BY <1>3, <1>5, <1>6, <2>1, <3>2 DEF IsPair
    <3> QED BY <3>1, <3>2
  <2> QED BY <1>1, <1>2, <1>3, <1>5, <1>6, <2>2 DEF WorkFits, StepFits, Carrying
<1>8. ASSUME NEW p \in Peers, NEW q \in Peers, p # q, Stays(p), Stays(q), Meets(p, q)
      PROVE  Meets(p, q)'
  <2>1. PICK o, s, t : o = room[p] /\ s = current[room[q]] /\ t = current[o]
    OBVIOUS
  <2>2. CASE \/ \E y \in AtWork : Joining(y, p) /\ work[y].step = "transport"
             \/ \E y \in AtWork : Joining(y, q) /\ work[y].step \in {"transport", "produce"}
    BY <1>1, <1>2, <1>5, <1>6, <2>2, MeetAnyway DEF Carrying
  <2>3. CASE ~ \/ \E y \in AtWork : Joining(y, p) /\ work[y].step = "transport"
               \/ \E y \in AtWork : Joining(y, q) /\ work[y].step \in {"transport", "produce"}
    <3>1. s \in SfuJoins /\ s # 0 /\ Sfu!Live(s) /\ owner[s] = room[q] /\ t \in SfuJoins /\ t # 0
      BY <2>1, <2>3, <1>8, Supplied
    <3>2. ASSUME <<o, s>> \in n.more
          PROVE  Meets(p, q)'
      BY <1>1, <1>6, <2>1, <3>1, <3>2 DEF Meets, Reaches, Brings
    <3>3. Fetches(j, p, room[q]) => Meets(p, q)'
      <4>1. SUFFICES ASSUME Fetches(j, p, room[q])
                     PROVE  Meets(p, q)'
        OBVIOUS
      <4>2. CASE k.step = "fetch" /\ w = room[q]
        <5>1. k.o = o
          BY <1>1, <2>1, <4>1, <1>8, Supplied DEF Fetches
        <5> QED BY <1>5, <3>1, <3>2, <4>2, <5>1
      <4>3. CASE k.step = "pipe" \/ w # room[q]
        <5>1. Fetches(j, p, room[q])'
          BY <1>2, <1>5, <1>6, <4>1, <4>3 DEF Fetches, Joining
        <5> QED BY <1>1, <5>1 DEF Meets
      <4> QED BY <1>2, <4>2, <4>3
    <3>4. Pipes(j, q, o) => Meets(p, q)'
      <4>1. SUFFICES ASSUME Pipes(j, q, o)
                     PROVE  Meets(p, q)'
        OBVIOUS
      <4>2. k.step = "pipe" /\ s = j
        BY <1>1, <1>2, <2>1, <4>1, <1>8, Supplied DEF Pipes
      <4>3. CASE w = o
        BY <1>5, <3>2, <4>2, <4>3
      <4>4. CASE w # o
        <5>1. Pipes(j, q, room[p])'
          BY <1>2, <1>5, <1>6, <2>1, <4>1, <4>4 DEF Pipes, Joining
        <5> QED BY <1>1, <5>1 DEF Meets
      <4> QED BY <4>3, <4>4
    <3>5. ~Brings(j, o, s, t)
      BY <1>2, <3>1, IdleHolds, WhoWorks DEF Brings
    <3>6. s \in pending[o] /\ dtls[t] = "new" => Meets(p, q)'
      BY <1>6, <2>1, <3>1 DEF Meets, Reaches
    <3>7. (\E c \in cons : Joined(c, o, s, t)) => Meets(p, q)'
      BY <1>6, <2>1, <3>1 DEF Meets, Reaches, Joined
    <3> QED BY <1>1, <1>5, <1>6, <1>8, <2>1, <3>3, <3>4, <3>5, <3>6, <3>7, MeetsOn
  <2> QED BY <2>2, <2>3
<1>9. WorksOn(j)
  BY <1>1, <1>2, <1>5, <1>6, <1>7, <1>8 DEF WorksOn, Carrying, RoomInv, RoomTypes, StreamsOwned
<1> QED BY <1>1, <1>9, OnWorks

\* All others are done: none of them was left to pipe to.
LEMMA PipedKeeps ==
    ASSUME RoomInv, NEW j \in SfuJoins, Sfu!Piped(j)
    PROVE  RoomInv'
<1> DEFINE k == work[j]
           n == work'[j]
<1>1. j \in AtWork /\ WorkFits(j) /\ RoomTypes
  BY WhoWorks DEF RoomInv, AllFit
<1>2. k.step = "pipe" /\ k.todo = {} /\ k.more = {} /\ k.item = Nothing
  BY DEF Sfu!Piped, Nothing
<1>3. k.op = "join" /\ k.p \in Peers /\ k.o \in SfuJoins /\ owner[j] = k.o
  BY <1>1, <1>2 DEF WorkFits, StepFits
<1>4. /\ OneWorks(j) /\ n.op = k.op /\ n.p = k.p /\ n.o = k.o /\ n.step = "fetch" /\ n.item = k.item
      /\ n.todo = Sfu!OthersOf(j) /\ n.more = k.more
  BY <1>1 DEF Sfu!Piped, RoomTypes, OneWorks, IsWork
<1>5. UNCHANGED <<room, gen, born, owner, current, dtls, prod, pending, cons, flag, fault>>
  BY DEF Sfu!Piped, Sfu!names, Sfu!streams
<1>6. Sfu!OthersOf(j) \subseteq SfuJoins
  BY DEF Sfu!OthersOf, Sfu!InRoom, RoomInv, RoomTypes
<1>7. WorkFits(j)'
  BY <1>1, <1>2, <1>3, <1>4, <1>5, <1>6 DEF WorkFits, StepFits, Carrying
<1>8. ASSUME NEW p \in Peers, NEW q \in Peers, p # q, Stays(p), Stays(q), Meets(p, q)
      PROVE  Meets(p, q)'
  <2>1. PICK o, s, t : o = room[p] /\ s = current[room[q]] /\ t = current[o]
    OBVIOUS
  <2>2. Fetches(j, p, room[q]) => Meets(p, q)'
    <3>1. SUFFICES ASSUME Joining(j, p)
                   PROVE  Meets(p, q)'
      BY DEF Fetches
    <3>2. k.o = room[p] /\ k.p = p
      BY <1>1, <1>8, <3>1, Supplied DEF Joining
    <3>3. room[q] \in Sfu!OthersOf(j)
      BY <1>8, <3>2 DEF Sfu!OthersOf, Sfu!InRoom, RoomInv, ObjectsApart, Stays
    <3>4. Fetches(j, p, room[q])'
      BY <1>4, <1>5, <3>1, <3>3 DEF Fetches, Joining
    <3> QED BY <1>1, <3>4 DEF Meets
  <2>3. ~Pipes(j, q, o)
    BY <1>2 DEF Pipes
  <2>4. o # 0
    BY <2>1, <1>8 DEF Stays
  <2>5. ~Brings(j, o, s, t)
    BY <1>2, <2>4, IdleHolds DEF Brings
  <2>6. s # 0 /\ t # 0 /\ dtls[t] = "new" /\ s \in pending[o] => Meets(p, q)'
    BY <1>5, <2>1 DEF Meets, Reaches
  <2>7. s # 0 /\ t # 0 /\ (\E c \in cons : Joined(c, o, s, t)) => Meets(p, q)'
    BY <1>5, <2>1 DEF Meets, Reaches, Joined
  <2> QED BY <1>1, <1>4, <1>5, <1>8, <2>1, <2>2, <2>3, <2>5, <2>6, <2>7, MeetsOn
<1>9. WorksOn(j)
  BY <1>1, <1>2, <1>4, <1>5, <1>7, <1>8 DEF WorksOn, Carrying, RoomInv, RoomTypes, StreamsOwned
<1> QED BY <1>1, <1>9, OnWorks

LEMMA FlushedKeeps ==
    ASSUME RoomInv, NEW x \in AtWork, Sfu!Flushed(x)
    PROVE  RoomInv'
<1> DEFINE k == work[x]
<1>1. WorkFits(x) /\ RoomTypes
  BY DEF RoomInv, AllFit
<1>2. k.step = "flush" /\ k.more = {} /\ k.item = Nothing
  BY DEF Sfu!Flushed, Nothing
<1>3. OneWorks(x) /\ IdleIs(work'[x]) /\ WorkFits(x)'
  BY <1>1, RoomEnds DEF Sfu!Flushed
<1>4. UNCHANGED <<room, gen, born, owner, current, dtls, prod, pending, cons, flag, fault>>
  BY DEF Sfu!Flushed, Sfu!names, Sfu!streams
<1>5. ASSUME NEW p \in Peers, NEW q \in Peers, p # q, Stays(p), Stays(q), Meets(p, q)
      PROVE  Meets(p, q)'
  <2>1. PICK o, s, t : o = room[p] /\ s = current[room[q]] /\ t = current[o]
    OBVIOUS
  <2>2. o # 0
    BY <2>1, <1>5 DEF Stays
  <2>3. ~Fetches(x, p, room[q]) /\ ~Pipes(x, q, o) /\ ~Brings(x, o, s, t)
    BY <1>2, <2>2, IdleHolds DEF Fetches, Pipes, Brings
  <2>4. s # 0 /\ t # 0 /\ dtls[t] = "new" /\ s \in pending[o] => Meets(p, q)'
    BY <1>4, <2>1 DEF Meets, Reaches
  <2>5. s # 0 /\ t # 0 /\ (\E c \in cons : Joined(c, o, s, t)) => Meets(p, q)'
    BY <1>4, <2>1 DEF Meets, Reaches, Joined
  <2> QED BY <1>3, <1>4, <1>5, <2>1, <2>3, <2>4, <2>5, MeetsOn
<1>6. WorksOn(x)
  BY <1>1, <1>2, <1>3, <1>4, <1>5 DEF WorksOn, IdleIs, Carrying, RoomInv, RoomTypes, StreamsOwned
<1> QED BY <1>6, OnWorks

\* A join ends when nothing of anybody is left to fetch, or has put all in the flush.
LEMMA FetchedKeeps ==
    ASSUME RoomInv, NEW j \in SfuJoins, Sfu!Fetched(j)
    PROVE  RoomInv'
<1> DEFINE k == work[j]
           n == work'[j]
<1>1. j \in AtWork /\ WorkFits(j) /\ RoomTypes
  BY WhoWorks DEF RoomInv, AllFit
<1>2. k.step = "fetch" /\ k.todo = {} /\ k.more = {} /\ k.item = Nothing
  BY DEF Sfu!Fetched, Nothing
<1>3. k.op = "join" /\ k.p \in Peers /\ k.o \in SfuJoins /\ owner[j] = k.o
  BY <1>1, <1>2 DEF WorkFits, StepFits
<1>4. \/ /\ OneWorks(j) /\ n.op = k.op /\ n.p = k.p /\ n.o = k.o /\ n.step = "flush" /\ n.item = k.item
         /\ n.todo = k.todo /\ n.more = {<<k.o, q>> : q \in pending[k.o]}
         /\ pending' = [pending EXCEPT ![k.o] = {}]
      \/ /\ OneWorks(j) /\ IdleIs(n) /\ WorkFits(j)' /\ UNCHANGED pending
  <2>1. CASE Sfu!Ends(j) /\ UNCHANGED pending
    BY <1>1, <2>1, RoomEnds
  <2>2. CASE /\ work' = [work EXCEPT ![j].step = "flush", ![j].more = {<<k.o, q>> : q \in pending[k.o]}]
             /\ pending' = [pending EXCEPT ![k.o] = {}]
    BY <1>1, <2>2 DEF RoomTypes, OneWorks, IsWork
  <2> QED BY <2>1, <2>2 DEF Sfu!Fetched
<1>5. UNCHANGED <<room, gen, born, owner, current, dtls, prod, cons, flag, fault>>
  BY DEF Sfu!Fetched, Sfu!names, Sfu!streams
<1>6. OneWorks(j) /\ DOMAIN pending' = SfuJoins
  BY <1>1, <1>4 DEF RoomTypes
<1>7. WorkFits(j)'
  <2>1. CASE n.more = {<<k.o, q>> : q \in pending[k.o]} /\ n.step = "flush"
    <3>1. \A pair \in n.more : IsPair(pair)'
      BY <1>3, <1>5, <2>1 DEF IsPair, RoomInv, StreamsOwned
    <3> QED BY <1>1, <1>2, <1>3, <1>4, <1>5, <2>1, <3>1 DEF WorkFits, StepFits, Carrying
  <2> QED BY <1>4, <2>1
<1>8. ASSUME NEW p \in Peers, NEW q \in Peers, p # q, Stays(p), Stays(q), Meets(p, q)
      PROVE  Meets(p, q)'
  <2>1. PICK o, s, t : o = room[p] /\ s = current[room[q]] /\ t = current[o]
    OBVIOUS
  <2>2. o # 0 /\ o \in SfuJoins
    BY <2>1, <1>8, Supplied
  <2>3. ~Fetches(j, p, room[q]) /\ ~Pipes(j, q, o) /\ ~Brings(j, o, s, t)
    BY <1>2, <2>2, IdleHolds DEF Fetches, Pipes, Brings
  <2>4. s # 0 /\ t # 0 /\ dtls[t] = "new" /\ s \in pending[o] => Meets(p, q)'
    <3>1. SUFFICES ASSUME s # 0, t # 0, dtls[t] = "new", s \in pending[o]
                   PROVE  Brings(j, o, s, t)' \/ s \in pending'[o]
      BY <1>1, <1>5, <2>1 DEF Meets, Reaches
    <3> QED BY <1>1, <1>3, <1>4, <2>2, <3>1 DEF Brings, RoomTypes
  <2>5. s # 0 /\ t # 0 /\ (\E c \in cons : Joined(c, o, s, t)) => Meets(p, q)'
    BY <1>5, <2>1 DEF Meets, Reaches, Joined
  <2> QED BY <1>1, <1>5, <1>6, <1>8, <2>1, <2>3, <2>4, <2>5, MeetsOn
<1>9. \A o \in SfuJoins : \A q \in pending'[o] : q \in SfuJoins /\ owner[q] # 0
  BY <1>1, <1>3, <1>4 DEF RoomTypes, RoomInv, StreamsOwned
<1>10. WorksOn(j)
  BY <1>1, <1>2, <1>4, <1>5, <1>6, <1>7, <1>8, <1>9 DEF WorksOn, Carrying, RoomInv, StreamsOwned, IdleIs
<1> QED BY <1>1, <1>10, OnWorks

\* A consumer is made: what it was on the way for is there, or closed.
LEMMA ConsumedKeeps ==
    ASSUME RoomInv, NEW x \in AtWork, Sfu!Consumed(x)
    PROVE  RoomInv'
<1> DEFINE k == work[x]
           n == work'[x]
<1>1. WorkFits(x) /\ RoomTypes
  BY DEF RoomInv, AllFit
<1>2. k.item # Nothing /\ k.step \in Carrying /\ IsBetween(k.item)
  BY <1>1 DEF Sfu!Consumed, Nothing, WorkFits
<1>3. /\ OneWorks(x) /\ n.op = k.op /\ n.p = k.p /\ n.o = k.o /\ n.step = k.step /\ n.item = Nothing
      /\ n.todo = k.todo /\ n.more = k.more
  BY <1>1 DEF Sfu!Consumed, RoomTypes, OneWorks, IsWork, Nothing
<1>4. UNCHANGED <<room, gen, born, owner, current, dtls, prod, pending, flag, fault>>
  BY DEF Sfu!Consumed, Sfu!names, Sfu!streams
<1>5. cons' = IF dtls[k.item.on] = "connected" /\ Sfu!Live(k.item.of) THEN cons \cup {k.item} ELSE cons
  BY DEF Sfu!Consumed
<1>6. WorkFits(x)'
  BY <1>1, <1>2, <1>3, <1>4 DEF WorkFits, StepFits, IsPair
<1>7. ASSUME NEW p \in Peers, NEW q \in Peers, p # q, Stays(p), Stays(q), Meets(p, q)
      PROVE  Meets(p, q)'
  <2>1. PICK o, s, t : o = room[p] /\ s = current[room[q]] /\ t = current[o]
    OBVIOUS
  <2>2. CASE \/ \E y \in AtWork : Joining(y, p) /\ work[y].step = "transport"
             \/ \E y \in AtWork : Joining(y, q) /\ work[y].step \in {"transport", "produce"}
    BY <1>2, <1>3, <1>4, <2>2, MeetAnyway
  <2>3. CASE ~ \/ \E y \in AtWork : Joining(y, p) /\ work[y].step = "transport"
               \/ \E y \in AtWork : Joining(y, q) /\ work[y].step \in {"transport", "produce"}
    <3>1. s # 0 /\ Sfu!Live(s) /\ t # 0 /\ Opened(t)
      BY <2>1, <2>3, <1>7, Supplied
    <3>2. Fetches(x, p, room[q]) => Meets(p, q)'
      BY <1>3, <1>4 DEF Meets, Fetches, Joining
    <3>3. Pipes(x, q, o) => Meets(p, q)'
      BY <1>3, <1>4, <2>1 DEF Meets, Pipes, Joining
    <3>4. Brings(x, o, s, t) => Meets(p, q)'
      <4>1. CASE <<o, s>> \in k.more
        BY <1>3, <1>4, <2>1, <3>1, <4>1 DEF Meets, Reaches, Brings
      <4>2. CASE k.item.to = o /\ k.item.of = s /\ k.item.on = t
        <5>1. k.item \in cons'
          BY <1>2, <1>5, <3>1, <4>2 DEF IsBetween, Opened
        <5> QED BY <1>4, <2>1, <3>1, <4>2, <5>1 DEF Meets, Reaches, Joined
      <4> QED BY <4>1, <4>2 DEF Brings
    <3>5. s \in pending[o] /\ dtls[t] = "new" => Meets(p, q)'
      BY <1>4, <2>1, <3>1 DEF Meets, Reaches
    <3>6. (\E c \in cons : Joined(c, o, s, t)) => Meets(p, q)'
      BY <1>4, <1>5, <2>1, <3>1 DEF Meets, Reaches, Joined
    <3> QED BY <1>3, <1>4, <1>7, <2>1, <3>2, <3>3, <3>4, <3>5, <3>6, MeetsOn
  <2> QED BY <2>2, <2>3
<1>8. WorksOn(x)
  BY <1>1, <1>2, <1>3, <1>4, <1>5, <1>6, <1>7 DEF WorksOn, RoomInv, RoomTypes, StreamsOwned
<1> QED BY <1>8, OnWorks

\* A producer that was on its way is put off, has a consumer, or gets one.
LEMMA ConsumeKeeps ==
    ASSUME RoomInv, NEW x \in AtWork, NEW o, NEW q, Sfu!Consume(x, o, q)
    PROVE  RoomInv'
<1> DEFINE k == work[x]
           n == work'[x]
<1>1. WorkFits(x) /\ RoomTypes
  BY DEF RoomInv, AllFit
<1>2. <<o, q>> \in k.more /\ k.item = Nothing
  BY DEF Sfu!Consume, Nothing
<1>3. k.step \in Carrying /\ IsPair(<<o, q>>)
  BY <1>1, <1>2 DEF WorkFits
<1>4. o \in SfuJoins /\ q \in SfuJoins /\ owner[q] # 0
  BY <1>3 DEF IsPair
<1>5. PICK on : on = current[o]
  OBVIOUS
<1>6. UNCHANGED <<room, gen, born, owner, current, dtls, prod, cons, flag, fault>>
  BY DEF Sfu!Consume, Sfu!names, Sfu!streams
<1>7. \/ /\ on = 0 \/ dtls[on] = "closed" \/ ~Sfu!Live(q)
         /\ work' = [work EXCEPT ![x] = [k EXCEPT !.more = @ \ {<<o, q>>}]] /\ UNCHANGED pending
      \/ /\ dtls[on] # "connected"
         /\ work' = [work EXCEPT ![x] = [k EXCEPT !.more = @ \ {<<o, q>>}]]
         /\ pending' = [pending EXCEPT ![o] = @ \cup {q}]
      \/ /\ \E c \in cons : c.to = o /\ c.of = q
         /\ work' = [work EXCEPT ![x] = [k EXCEPT !.more = @ \ {<<o, q>>}]] /\ UNCHANGED pending
      \/ /\ on # 0 /\ dtls[on] = "connected"
         /\ work' = [work EXCEPT ![x] = [k EXCEPT !.more = @ \ {<<o, q>>},
                        !.item = [to |-> o, of |-> q, on |-> on, paused |-> Sfu!PausedFor(q)]]]
         /\ UNCHANGED pending
  BY <1>5 DEF Sfu!Consume
<1>8. /\ OneWorks(x) /\ n.op = k.op /\ n.p = k.p /\ n.o = k.o /\ n.step = k.step
      /\ n.todo = k.todo /\ n.more = k.more \ {<<o, q>>}
  <2>1. PICK w : work' = [work EXCEPT ![x] = w] /\ w \in {[k EXCEPT !.more = k.more \ {<<o, q>>}],
                     [k EXCEPT !.more = k.more \ {<<o, q>>},
                        !.item = [to |-> o, of |-> q, on |-> on, paused |-> Sfu!PausedFor(q)]]}
    BY <1>7
  <2>2. IsWork(w) /\ w.op = k.op /\ w.p = k.p /\ w.o = k.o /\ w.step = k.step
        /\ w.todo = k.todo /\ w.more = k.more \ {<<o, q>>}
    BY <1>1, <2>1 DEF RoomTypes, IsWork
  <2> QED BY <1>1, <2>1, <2>2 DEF RoomTypes, OneWorks
<1>9. \/ n.item = k.item
      \/ /\ on # 0 /\ dtls[on] = "connected"
         /\ n.item = [to |-> o, of |-> q, on |-> on, paused |-> Sfu!PausedFor(q)]
  BY ZenonT(60), <1>1, <1>7 DEF RoomTypes, IsWork
<1>10. /\ DOMAIN pending' = SfuJoins
       /\ \A r \in SfuJoins : pending[r] \subseteq pending'[r]
       /\ \A r \in SfuJoins : \A d \in pending'[r] : d \in pending[r] \/ d = q
  BY <1>1, <1>4, <1>7 DEF RoomTypes
<1>11. n.item = Nothing \/ IsBetween(n.item)
  <2>1. CASE on # 0 /\ dtls[on] = "connected"
             /\ n.item = [to |-> o, of |-> q, on |-> on, paused |-> Sfu!PausedFor(q)]
    <3>1. on \in SfuJoins /\ owner[on] = o
      BY <1>1, <1>4, <1>5, <2>1 DEF RoomTypes, RoomInv, StreamsOwned
    <3> QED BY <1>4, <2>1, <3>1 DEF IsBetween, IsItem
  <2> QED BY <1>2, <1>9, <2>1
<1>12. WorkFits(x)'
  <2>1. \A c : IsBetween(c) => IsBetween(c)'
    BY <1>6 DEF IsBetween
  <2> QED BY <1>1, <1>3, <1>6, <1>8, <1>11, <2>1 DEF WorkFits, StepFits, IsPair
<1>13. ASSUME NEW p \in Peers, NEW r \in Peers, p # r, Stays(p), Stays(r), Meets(p, r)
       PROVE  Meets(p, r)'
  <2>1. PICK d, s, t : d = room[p] /\ s = current[room[r]] /\ t = current[d]
    OBVIOUS
  <2>2. CASE \/ \E y \in AtWork : Joining(y, p) /\ work[y].step = "transport"
             \/ \E y \in AtWork : Joining(y, r) /\ work[y].step \in {"transport", "produce"}
    BY <1>3, <1>6, <1>8, <2>2, MeetAnyway
  <2>3. CASE ~ \/ \E y \in AtWork : Joining(y, p) /\ work[y].step = "transport"
               \/ \E y \in AtWork : Joining(y, r) /\ work[y].step \in {"transport", "produce"}
    <3>1. /\ s # 0 /\ Sfu!Live(s) /\ t # 0 /\ Opened(t) /\ d \in SfuJoins /\ d # 0
          /\ \A i \in SfuJoins : owner[i] = d /\ Opened(i) => i = t
      BY <2>1, <2>3, <1>13, Supplied
    <3>2. Fetches(x, p, room[r]) => Meets(p, r)'
      BY <1>6, <1>8 DEF Meets, Fetches, Joining
    <3>3. Pipes(x, r, d) => Meets(p, r)'
      BY <1>6, <1>8, <2>1 DEF Meets, Pipes, Joining
    <3>4. s \in pending'[d] /\ dtls[t] = "new" => Meets(p, r)'
      BY <1>6, <2>1, <3>1 DEF Meets, Reaches
    <3>5. s \in pending[d] /\ dtls[t] = "new" => Meets(p, r)'
      BY <1>10, <3>1, <3>4
    <3>6. (\E c \in cons : Joined(c, d, s, t)) => Meets(p, r)'
      BY <1>6, <2>1, <3>1 DEF Meets, Reaches, Joined
    <3>7. Brings(x, d, s, t)' => Meets(p, r)'
      BY <1>6, <2>1, <3>1 DEF Meets, Reaches
    <3>8. Brings(x, d, s, t) => Meets(p, r)'
      <4>1. SUFFICES ASSUME Brings(x, d, s, t)
                     PROVE  Meets(p, r)'
        OBVIOUS
      <4>2. <<d, s>> \in k.more
        BY <1>2, <3>1, <4>1, IdleHolds DEF Brings
      <4>3. CASE <<d, s>> # <<o, q>>
        BY <1>8, <3>7, <4>2, <4>3 DEF Brings
      <4>4. CASE d = o /\ s = q
        <5>1. on = t
          BY <1>5, <2>1, <4>4
        <5>2. CASE /\ dtls[on] # "connected"
                   /\ pending' = [pending EXCEPT ![o] = @ \cup {q}]
          BY <1>1, <1>4, <3>1, <3>4, <4>4, <5>1, <5>2 DEF Opened, RoomTypes
        <5>3. CASE \E c \in cons : c.to = o /\ c.of = q
          <6>1. PICK c \in cons : c.to = o /\ c.of = q
            BY <5>3
          <6>2. IsBetween(c) /\ dtls[c.on] = "connected"
            BY DEF RoomInv, StreamsOwned
          <6>3. c.on = t
            BY <3>1, <4>4, <6>1, <6>2 DEF IsBetween, Opened
          <6> QED BY <3>6, <4>4, <6>1, <6>3 DEF Joined
        <5>4. CASE /\ on # 0 /\ dtls[on] = "connected"
                   /\ work' = [work EXCEPT ![x] = [k EXCEPT !.more = @ \ {<<o, q>>},
                        !.item = [to |-> o, of |-> q, on |-> on, paused |-> Sfu!PausedFor(q)]]]
          <6>1. n.item = [to |-> o, of |-> q, on |-> on, paused |-> Sfu!PausedFor(q)]
            BY <1>1, <5>4 DEF RoomTypes, IsWork
          <6> QED BY <3>7, <4>4, <5>1, <6>1 DEF Brings
        <5> QED BY <1>7, <3>1, <4>4, <5>1, <5>2, <5>3, <5>4 DEF Opened
      <4> QED BY <4>3, <4>4
    <3> QED BY <1>6, <1>8, <1>13, <2>1, <3>2, <3>3, <3>5, <3>6, <3>8, MeetsOn
  <2> QED BY <2>2, <2>3
<1>14. \A r \in SfuJoins : \A d \in pending'[r] : d \in SfuJoins /\ owner[d] # 0
  BY <1>4, <1>10 DEF RoomInv, StreamsOwned
<1>15. n.item = Nothing \/ n.item = k.item \/ n.item.paused = Sfu!PausedFor(n.item.of)
  BY <1>9
<1>16. WorksOn(x)
  BY <1>3, <1>6, <1>8, <1>10, <1>12, <1>13, <1>14, <1>15 DEF WorksOn
<1> QED BY <1>16, OnWorks

-----------------------------------------------------------------------------
(* The room: a step of a join, and of a pause *)

\* What one handler leaves of the invariant when it keeps to its request.
LEMMA ApartStays ==
    ASSUME RoomInv, NEW x \in AtWork, OneWorks(x), UNCHANGED <<room, gen, born>>,
           work'[x].p \in Peers => work'[x].p = work[x].p /\ work'[x].o = work[x].o
    PROVE  ObjectsApart'
<1>1. \A p \in Peers : work'[x].p \in Peers /\ room[p] # 0 /\ work'[x].o = room[p] => work'[x].p = p
  BY DEF RoomInv, ObjectsApart
<1> QED BY <1>1 DEF RoomInv, ObjectsApart, OneWorks

\* Handler x goes on, or ends.
KeepsOn(x) ==
    /\ OneWorks(x)
    /\ fault'.crossed = fault.crossed /\ fault.failed \subseteq fault'.failed
    /\ UNCHANGED room
    /\ work'[x].op \in {"join", "leave", "delete", "pause"} =>
           work'[x].op = work[x].op /\ work'[x].p = work[x].p /\ work'[x].o = work[x].o
    /\ work[x].op \in {"leave", "delete"} => work'[x].op = work[x].op /\ work'[x].p = work[x].p
    /\ work[x].op = "join" => work[x].step # "transport"
    /\ work'[x].op = "join" => work'[x].step # "transport"

LEMMA StaysOn ==
    ASSUME RoomInv, NEW x \in AtWork, KeepsOn(x), NEW p \in Peers, Stays(p)'
    PROVE  Stays(p)
<1>1. \A y \in AtWork : Leaving(y, p) \/ Deleting(y) => (Leaving(y, p) \/ Deleting(y))'
  BY DEF KeepsOn, OneWorks, Leaving, Deleting
<1> QED BY <1>1 DEF Stays, Gone, Calm, KeepsOn

LEMMA OneGoesOn ==
    ASSUME RoomInv, NEW x \in AtWork, KeepsOn(x), UNCHANGED <<current, owner>>,
           \A t \in SfuJoins : Opened(t)' => Opened(t)
    PROVE  OneAtATime'
<1>1. ASSUME NEW y \in AtWork, NEW p
      PROVE  /\ (Joining(y, p) \/ Leaving(y, p) \/ Deleting(y))'
                    => Joining(y, p) \/ Leaving(y, p) \/ Deleting(y)
             /\ (Joining(y, p) \/ Leaving(y, p))' =>
                    (Joining(y, p) \/ Leaving(y, p)) /\ work'[y].o = work[y].o
             /\ Joining(y, p)' => Joining(y, p) /\ (work'[y].step = "transport" <=> work[y].step = "transport")
  BY DEF KeepsOn, OneWorks, Joining, Leaving, Deleting
<1>2. UNCHANGED room /\ fault'.crossed = fault.crossed
  BY DEF KeepsOn
<1> QED BY <1>1, <1>2 DEF RoomInv, OneAtATime, OneFor, Calm

LEMMA EquippedOn ==
    ASSUME RoomInv, NEW x \in AtWork, KeepsOn(x), UNCHANGED current,
           \A t \in SfuJoins : Opened(t) => Opened(t)',
           \A t \in SfuJoins : Sfu!Live(t) => Sfu!Live(t)',
           \A p \in Peers : Joining(x, p) /\ work[x].step = "produce" /\ Stays(p)' =>
               \/ Joining(x, p)' /\ work'[x].step = "produce"
               \/ current[room[p]] # 0 /\ Sfu!Live(current[room[p]])'
    PROVE  Equipped'
<1> SUFFICES ASSUME NEW p \in Peers, Stays(p)'
             PROVE  /\ \/ \E y \in AtWork : Joining(y, p)' /\ work'[y].step = "transport"
                       \/ current[room[p]] # 0 /\ Opened(current[room[p]])'
                    /\ \/ \E y \in AtWork : Joining(y, p)' /\ work'[y].step \in {"transport", "produce"}
                       \/ current[room[p]] # 0 /\ Sfu!Live(current[room[p]])'
  BY DEF Equipped, Has, KeepsOn
<1>1. Stays(p)
  BY StaysOn
<1>2. ASSUME NEW y \in AtWork, Joining(y, p), work[y].step = "transport" \/ y # x
      PROVE  Joining(y, p)' /\ work'[y].step = work[y].step
  BY <1>2 DEF KeepsOn, OneWorks, Joining
<1>0. UNCHANGED room
  BY DEF KeepsOn
<1>3. \/ \E y \in AtWork : Joining(y, p)' /\ work'[y].step = "transport"
      \/ current[room[p]] # 0 /\ Opened(current[room[p]])'
  BY <1>0, <1>1, <1>2, Supplied
<1>4. \/ \E y \in AtWork : Joining(y, p)' /\ work'[y].step \in {"transport", "produce"}
      \/ current[room[p]] # 0 /\ Sfu!Live(current[room[p]])'
  <2>1. CASE \E y \in AtWork : Joining(y, p) /\ work[y].step \in {"transport", "produce"}
    <3>1. PICK y \in AtWork : Joining(y, p) /\ work[y].step \in {"transport", "produce"}
      BY <2>1
    <3>2. CASE work[y].step = "transport" \/ y # x
      BY <1>2, <3>1, <3>2
    <3>3. CASE work[y].step = "produce" /\ y = x
      BY <3>1, <3>3
    <3> QED BY <3>1, <3>2, <3>3
  <2>2. CASE /\ current[room[p]] \in SfuJoins /\ current[room[p]] # 0
             /\ Sfu!Live(current[room[p]])
    BY <1>0, <2>2
  <2> QED BY <1>1, <2>1, <2>2, Supplied
<1> QED BY <1>3, <1>4

LEMMA NobodyIsLeft ==
    ASSUME RoomInv, NEW x \in AtWork, KeepsOn(x), UNCHANGED owner,
           work'[x].op = "delete" => work'[x].todo = work[x].todo,
           \A t \in SfuJoins : Sfu!Live(t)' => Sfu!Live(t)
    PROVE  NobodyLeft'
<1>1. \A y \in AtWork : Deleting(y)' => Deleting(y) /\ work'[y].todo = work[y].todo
  BY DEF KeepsOn, OneWorks, Deleting
<1> QED BY <1>1 DEF RoomInv, NobodyLeft, KeepsOn, Sfu!InRoom

LEMMA SoundsOn ==
    ASSUME RoomInv, NEW x \in AtWork, KeepsOn(x), UNCHANGED <<owner, flag>>,
           fault'.restless = fault.restless,
           work'[x].op # "none" => work'[x].p = work[x].p,
           work'[x].op = "none" => work'[x].p = "none",
           work'[x].op = "pause" => work'[x].v = work[x].v,
           \A p \in Peers : Joining(x, p) /\ work'[x].step = "pause" => p \in flag,
           work'[x].item \in {work[x].item, Nothing},
           \A p \in Peers : Even(p) /\ room[p] # 0 /\ (\A y \in AtWork : ~Leaving(y, p)) =>
               (Plays(p) => Plays(p)') /\ (Passes(p) => Passes(p)')
    PROVE  SoundsRight'
<1>1. UNCHANGED <<room, owner, flag>> /\ fault'.restless = fault.restless /\ fault'.crossed = fault.crossed
  BY DEF KeepsOn
<1>2. ASSUME NEW y \in AtWork, NEW p \in Peers
      PROVE  /\ work'[y].p = p \/ Deleting(y)' => work[y].p = p \/ Deleting(y)
             /\ Pausing(y, p)' => Pausing(y, p) /\ work'[y].o = work[y].o /\ work'[y].v = work[y].v
             /\ Leaving(y, p) => Leaving(y, p)'
             /\ Joining(y, p)' /\ work'[y].step = "pause" => Joining(y, p)
             /\ work'[y].item \in {work[y].item, Nothing}
             /\ y # x => work'[y].step = work[y].step
  BY RoomAssumption DEF KeepsOn, OneWorks, Deleting, Pausing, Leaving, Joining
<1>3. ASSUME NEW p \in Peers, Even(p)
      PROVE  /\ \A y, z \in AtWork :
                    (work'[y].p = p \/ Deleting(y)') /\ (work'[z].p = p \/ Deleting(z)') => y = z
             /\ \A y \in AtWork : Pausing(y, p)' => work'[y].o = room[p] /\ (work'[y].v <=> p \in flag)
             /\ \A y \in AtWork : Joining(y, p)' /\ work'[y].step = "pause" => p \in flag
  BY <1>2, <1>3 DEF RoomInv, SoundsRight, SoundFor, Carried
<1>4. ASSUME NEW p \in Peers, Even(p), room[p] # 0, \A y \in AtWork : ~Leaving(y, p)'
      PROVE  /\ Plays(p)' /\ Passes(p)'
             /\ \A y \in AtWork : work'[y].item # Nothing /\ owner[work'[y].item.of] = room[p]
                   => (work'[y].item.paused <=> p \in flag)
  <2>1. \A y \in AtWork : ~Leaving(y, p)
    BY <1>2, <1>4
  <2>2. /\ Plays(p) /\ Passes(p)
        /\ \A y \in AtWork : work[y].item # Nothing /\ owner[work[y].item.of] = room[p]
                   => (work[y].item.paused <=> p \in flag)
    BY <1>4, <2>1 DEF RoomInv, SoundsRight, SoundFor, Carried
  <2>3. Plays(p)' /\ Passes(p)'
    BY <1>4, <2>1, <2>2
  <2> QED BY <1>2, <2>2, <2>3
<1>5. fault'.crossed \subseteq fault'.restless
  BY <1>1 DEF RoomInv, SoundsRight, SoundFor, Carried
<1>6. \A p : Even(p)' <=> Even(p)
  BY <1>1 DEF Even
<1> QED BY <1>1, <1>3, <1>4, <1>5, <1>6 DEF SoundsRight, SoundFor, Carried

LEMMA PlaysOn ==
    ASSUME NEW x \in AtWork, OneWorks(x), UNCHANGED <<owner, room, flag, prod>>, NEW p \in Peers, Plays(p),
           Pausing(x, p) /\ work[x].step = "producer" => Pausing(x, p)' /\ work'[x].step = "producer",
           Joining(x, p) /\ work[x].step = "pause" => Joining(x, p)' /\ work'[x].step = "pause"
    PROVE  Plays(p)'
BY DEF Plays, OneWorks, Pausing, Joining, Sound, Sfu!Live

LEMMA PassesOn ==
    ASSUME NEW x \in AtWork, OneWorks(x), UNCHANGED <<owner, room, flag, cons>>, NEW p \in Peers, Passes(p),
           Pausing(x, p) => Pausing(x, p)'
    PROVE  Passes(p)'
BY DEF Passes, OneWorks, Pausing

\* The streams of others stay as they are.
LEMMA OwnedStays ==
    ASSUME RoomInv, NEW x \in AtWork, work[x].op # "none", OneWorks(x),
           UNCHANGED <<born, owner, current, dtls, pending, cons>>,
           \A t \in SfuJoins : Sfu!Live(t)' => Sfu!Live(t) \/ Opened(t),
           \A t \in SfuJoins : Sfu!Live(t) => Sfu!Live(t)'
    PROVE  StreamsOwned'
<1>1. \A c : IsBetween(c) => IsBetween(c)'
  BY DEF IsBetween
<1>2. \A c \in cons : IsBetween(c) /\ dtls[c.on] = "connected" /\ Sfu!Live(c.of) /\ c.of \in SfuJoins
  BY DEF RoomInv, StreamsOwned, IsBetween
<1>3. \A t \in SfuJoins : work[0 - t] = Idle /\ 0 - t \in AtWork => work'[0 - t] = Idle
  BY IdleHolds DEF OneWorks, IdleIs
<1>4. \A t \in SfuJoins : Sfu!Live(t) => Opened(t)
  BY DEF RoomInv, StreamsOwned
<1>5. \A t \in SfuJoins : Sfu!Live(t)' => Opened(t)'
  BY <1>4 DEF Opened
<1>6. \A c \in cons' : IsBetween(c)' /\ dtls'[c.on] = "connected" /\ Sfu!Live(c.of)'
  BY <1>1, <1>2
<1>7. \A t \in SfuJoins : dtls'[t] \in {"none", "new"} => work'[0 - t] = Idle
  BY <1>3, WhoWorks DEF RoomInv, StreamsOwned
<1> QED BY <1>5, <1>6, <1>7 DEF RoomInv, StreamsOwned

\* The others in the room are those that a calm join is to meet.
LEMMA OthersAre ==
    ASSUME RoomInv, NEW j \in AtWork, NEW p \in Peers, NEW q \in Peers,
           p # q, Stays(p), Stays(q), Joining(j, p)
    PROVE  room[q] \in Sfu!OthersOf(j)
<1>1. work[j].o = room[p] /\ work[j].p = p
  BY Supplied DEF Joining
<1> QED BY <1>1 DEF Sfu!OthersOf, Sfu!InRoom, RoomInv, ObjectsApart, Stays

\* A join that produces, or pauses what it has produced, goes on to the others.
LEMMA ProducingMeets ==
    ASSUME RoomInv, NEW j \in AtWork, KeepsOn(j), UNCHANGED <<current, dtls, pending, cons>>,
           work[j].step \in {"produce", "pause"},
           \/ work'[j].op = "join" /\ work'[j].p = work[j].p /\ work'[j].step = "pause"
           \/ /\ work'[j].op = "join" /\ work'[j].p = work[j].p
              /\ work'[j].step = "pipe" /\ work'[j].todo = Sfu!OthersOf(j)
           \/ work[j].p \in fault'.failed
    PROVE  AllMeet'
<1> SUFFICES ASSUME NEW p \in Peers, NEW q \in Peers, p # q, Stays(p)', Stays(q)'
             PROVE  Meets(p, q)'
  BY DEF AllMeet
<1>1. OneWorks(j) /\ UNCHANGED room /\ WorkFits(j)
  BY DEF KeepsOn, RoomInv, AllFit
<1>2. Stays(p) /\ Stays(q) /\ p \notin fault'.failed /\ q \notin fault'.failed
  BY StaysOn DEF Stays
<1>3. Meets(p, q)
  BY <1>2 DEF RoomInv, AllMeet
<1>4. PICK o, s, t : o = room[p] /\ s = current[room[q]] /\ t = current[o]
  OBVIOUS
<1>5. Fetches(j, p, room[q]) => Meets(p, q)'
  <2>1. SUFFICES ASSUME Joining(j, p)
                 PROVE  Fetches(j, p, room[q])'
    BY DEF Fetches, Meets
  <2> QED BY <1>1, <1>2, <2>1 DEF Fetches, Joining
<1>6. Pipes(j, q, o) => Meets(p, q)'
  <2>1. SUFFICES ASSUME Joining(j, q)
                 PROVE  Pipes(j, q, room[p])'
    BY <1>4 DEF Pipes, Meets
  <2>2. room[p] \in Sfu!OthersOf(j)
    BY <1>2, <2>1, OthersAre
  <2> QED BY <1>1, <1>2, <2>1, <2>2 DEF Pipes, Joining
<1>7. o # 0 /\ work[j].more = {} /\ work[j].item = Nothing
  BY <1>1, <1>2, <1>4 DEF Stays, WorkFits, Carrying
<1>8. ~Brings(j, o, s, t)
  BY <1>7, IdleHolds DEF Brings
<1>9. s # 0 /\ t # 0 /\ dtls[t] = "new" /\ s \in pending[o] => Meets(p, q)'
  BY <1>1, <1>4 DEF Meets, Reaches
<1>10. s # 0 /\ t # 0 /\ (\E c \in cons : Joined(c, o, s, t)) => Meets(p, q)'
  BY <1>1, <1>4 DEF Meets, Reaches, Joined
<1> QED BY <1>1, <1>3, <1>4, <1>5, <1>6, <1>8, <1>9, <1>10, MeetsOn

LEMMA OthersFit ==
    ASSUME RoomInv, NEW x \in AtWork, OneWorks(x), WorkFits(x)', UNCHANGED <<born, owner, dtls>>
    PROVE  AllFit'
<1>1. ASSUME NEW y \in AtWork, y # x
      PROVE  WorkFits(y)'
  <2>1. work[y].op = "join" => y \in SfuJoins
    BY DEF RoomInv, AllFit, WorkFits, StepFits
  <2>2. work'[y] = work[y] /\ WorkFits(y)
    BY <1>1 DEF OneWorks, RoomInv, AllFit
  <2> QED BY <2>1, <2>2, FitStays
<1> QED BY <1>1 DEF AllFit

\* createAudioProducer: the join has what whoever stays has to have, or has failed.
LEMMA ProduceKeeps ==
    ASSUME RoomInv, NEW j \in SfuJoins, NEW works \in BOOLEAN, Sfu!Produce(j, works)
    PROVE  RoomInv'
<1> DEFINE k == work[j]
           n == work'[j]
<1>1. j \in AtWork /\ WorkFits(j) /\ RoomTypes /\ k.step = "produce"
  BY WhoWorks DEF RoomInv, AllFit, Sfu!Produce
<1>2. /\ k.op = "join" /\ k.p \in Peers /\ k.o \in SfuJoins /\ owner[j] = k.o /\ born[j] # 0 /\ k.o # 0
      /\ k.more = {} /\ k.item = Nothing
  BY <1>1, WhoWorks DEF WorkFits, StepFits, Carrying
<1>3. UNCHANGED <<room, gen, born, owner, current, dtls, pending, cons, flag>>
  BY DEF Sfu!Produce, Sfu!names
<1>4. dtls[j] \in {"new", "connected", "closed"}
  BY <1>2 DEF RoomInv, StreamsOwned
<1>5. Sfu!OthersOf(j) \subseteq SfuJoins
  BY DEF Sfu!OthersOf, Sfu!InRoom, RoomInv, RoomTypes
<1>6. CASE works /\ dtls[j] # "closed"
  <2>1. prod' = [prod EXCEPT ![j] = "playing"] /\ UNCHANGED fault
    BY <1>6 DEF Sfu!Produce
  <2>2. /\ OneWorks(j) /\ n.op = "join" /\ n.p = k.p /\ n.o = k.o /\ n.more = {} /\ n.item = Nothing
        /\ \/ k.p \in flag /\ n.step = "pause" /\ n.todo = k.todo
           \/ k.p \notin flag /\ n.step = "pipe" /\ n.todo = Sfu!OthersOf(j)
    <3>1. CASE k.p \in flag
      BY <1>1, <1>2, <1>6, <3>1, RoomGoes DEF Sfu!Produce
    <3>2. CASE k.p \notin flag
      <4>1. work' = [work EXCEPT ![j].step = "pipe", ![j].todo = Sfu!OthersOf(j)]
        BY <1>6, <3>2 DEF Sfu!Produce
      <4> QED BY <1>1, <1>2, <3>2, <4>1 DEF RoomTypes, OneWorks, IsWork
    <3> QED BY <3>1, <3>2
  <2>3. KeepsOn(j)
    BY <1>1, <1>2, <1>3, <2>1, <2>2 DEF KeepsOn
  <2>4. WorkFits(j)'
    BY <1>1, <1>2, <1>3, <1>5, <2>2 DEF WorkFits, StepFits, Carrying
  <2>5. /\ \A t \in SfuJoins : t # j => (Sfu!Live(t)' <=> Sfu!Live(t)) /\ prod'[t] = prod[t]
        /\ Sfu!Live(j)' /\ prod'[j] = "playing" /\ Opened(j)
    BY <1>1, <1>4, <1>6, <2>1 DEF RoomTypes, Sfu!Live, Opened
  <2>6. RoomTypes'
    BY <1>1, <1>3, <2>1, <2>2 DEF RoomTypes, OneWorks
  <2>7. StreamsOwned'
    BY <1>1, <1>2, <1>3, <2>2, <2>5, OwnedStays
  <2>8. Equipped'
    <3>1. ASSUME NEW p \in Peers, Joining(j, p), Stays(p)'
          PROVE  current[room[p]] # 0 /\ Sfu!Live(current[room[p]])'
      <4>1. current[room[p]] = j
        BY <1>1, <2>3, <3>1, StaysOn, Supplied
      <4> QED BY <1>3, <2>5, <4>1, WhoWorks
    <3> QED BY <1>1, <1>3, <2>3, <2>5, <3>1, EquippedOn DEF Opened
  <2>9. AllMeet'
    BY <1>1, <1>2, <1>3, <2>2, <2>3, ProducingMeets
  <2>10. OneAtATime'
    BY <1>1, <1>3, <2>3, OneGoesOn DEF Opened
  <2>11. SoundsRight'
    <3>1. ASSUME NEW p \in Peers, room[p] # 0, Plays(p)
          PROVE  Plays(p)'
      <4>1. owner[j] = room[p] => k.p = p
        BY <1>1, <1>2, <3>1 DEF RoomInv, ObjectsApart
      <4>2. ASSUME NEW t \in SfuJoins, t # j, owner[t] = room[p], Sfu!Live(t)
            PROVE  \/ prod[t] = Sound(p)
                   \/ \E x \in AtWork : Pausing(x, p)' /\ work'[x].step = "producer"
                   \/ \E x \in AtWork : Joining(x, p)' /\ work'[x].step = "pause"
        BY <1>1, <2>2, <3>1, <4>2 DEF Plays, OneWorks, Pausing, Joining
      <4>3. owner[j] = room[p] => \/ "playing" = Sound(p)
                                  \/ \E x \in AtWork : Joining(x, p)' /\ work'[x].step = "pause"
        BY <1>1, <2>2, <4>1 DEF Sound, Joining
      <4> QED BY <1>3, <2>5, <4>2, <4>3 DEF Plays, Sound
    <3>2. \A p \in Peers : Passes(p) => Passes(p)'
      BY <1>1, <1>2, <1>3, <2>2, PassesOn DEF Pausing
    <3> QED BY <1>1, <1>2, <1>3, <2>1, <2>2, <2>3, <3>1, <3>2, SoundsOn DEF Joining
  <2>12. NobodyLeft'
    <3>1. SUFFICES ASSUME fault.crossed = {}
                   PROVE  /\ \A q \in SfuJoins : Sfu!Live(q)' => owner[q] \in Sfu!InRoom
                          /\ \A x \in AtWork, q \in SfuJoins :
                                Deleting(x)' /\ Sfu!Live(q)' => owner[q] \in work'[x].todo
      BY <1>3, <2>1 DEF NobodyLeft, Sfu!InRoom
    <3>2. k.p \in Calm /\ Joining(j, k.p)
      BY <1>2, <3>1 DEF Calm, Joining
    <3>3. owner[j] \in Sfu!InRoom
      BY <1>1, <1>2, <3>2 DEF RoomInv, OneAtATime, OneFor, Sfu!InRoom
    <3>4. \A x \in AtWork : ~Deleting(x)'
      <4>1. \A x \in AtWork : Deleting(x) => x = j
        BY <1>1, <3>2 DEF RoomInv, OneAtATime, OneFor
      <4> QED BY <1>2, <2>2, <4>1 DEF Deleting, OneWorks
    <3> QED BY <2>5, <3>1, <3>3, <3>4 DEF RoomInv, NobodyLeft
  <2>13. ObjectsApart'
    BY <1>1, <1>3, <2>2, ApartStays
  <2>14. AllFit'
    BY <1>1, <1>3, <2>2, <2>4, OthersFit
  <2> QED BY <2>6, <2>7, <2>8, <2>9, <2>10, <2>11, <2>12, <2>13, <2>14 DEF RoomInv
<1>7. CASE ~(works /\ dtls[j] # "closed")
  <2>1. /\ Sfu!Ends(j) /\ UNCHANGED prod
        /\ fault' = [fault EXCEPT !.failed = @ \cup {k.p}]
    BY <1>7 DEF Sfu!Produce
  <2>2. OneWorks(j) /\ IdleIs(n) /\ WorkFits(j)'
    BY <1>1, <2>1, RoomEnds
  <2>3. /\ DOMAIN fault' = {"crossed", "failed", "restless"} /\ fault'.crossed = fault.crossed
        /\ fault'.restless = fault.restless /\ fault.failed \subseteq fault'.failed /\ k.p \in fault'.failed
    BY <1>1, <2>1 DEF RoomTypes
  <2>4. KeepsOn(j)
    BY <1>1, <1>2, <1>3, <2>2, <2>3 DEF KeepsOn, IdleIs
  <2>5. RoomTypes'
    BY <1>1, <1>3, <2>1, <2>2, <2>3 DEF RoomTypes, OneWorks
  <2>6. StreamsOwned'
    BY <1>1, <1>2, <1>3, <2>1, <2>2, OwnedStays DEF Sfu!Live
  <2>7. Equipped'
    <3>1. \A p \in Peers : Joining(j, p) => ~Stays(p)'
      BY <2>3 DEF Joining, Stays
    <3> QED BY <1>1, <1>3, <2>1, <2>4, <3>1, EquippedOn DEF Opened, Sfu!Live
  <2>8. AllMeet'
    BY <1>1, <1>3, <2>3, <2>4, ProducingMeets
  <2>9. OneAtATime'
    BY <1>1, <1>3, <2>4, OneGoesOn DEF Opened
  <2>10. SoundsRight'
    <3>1. \A p \in Peers : Plays(p) => Plays(p)'
      BY <1>1, <1>2, <1>3, <2>1, <2>2, PlaysOn DEF Pausing
    <3>2. \A p \in Peers : Passes(p) => Passes(p)'
      BY <1>1, <1>2, <1>3, <2>2, PassesOn DEF Pausing
    <3> QED BY <1>1, <1>2, <1>3, <2>2, <2>3, <2>4, <3>1, <3>2, SoundsOn DEF IdleIs
  <2>11. NobodyLeft'
    BY <1>1, <1>3, <2>1, <2>2, <2>4, NobodyIsLeft DEF IdleIs, Sfu!Live
  <2>12. ObjectsApart'
    BY <1>1, <1>3, <2>2, RoomAssumption, ApartStays DEF IdleIs
  <2>13. AllFit'
    BY <1>1, <1>3, <2>2, OthersFit
  <2> QED BY <2>5, <2>6, <2>7, <2>8, <2>9, <2>10, <2>11, <2>12, <2>13 DEF RoomInv
<1> QED BY <1>6, <1>7

\* The new producer of a paused peer is paused; it is the peer's only one.
LEMMA PauseNewKeeps ==
    ASSUME RoomInv, NEW j \in SfuJoins, Sfu!PauseNew(j)
    PROVE  RoomInv'
<1> DEFINE k == work[j]
           n == work'[j]
<1>1. j \in AtWork /\ WorkFits(j) /\ RoomTypes /\ k.step = "pause"
  BY WhoWorks DEF RoomInv, AllFit, Sfu!PauseNew
<1>2. /\ k.op = "join" /\ k.p \in Peers /\ k.o \in SfuJoins /\ owner[j] = k.o /\ born[j] # 0 /\ k.o # 0
      /\ k.more = {} /\ k.item = Nothing
  BY <1>1, WhoWorks DEF WorkFits, StepFits, Carrying
<1>3. UNCHANGED <<room, gen, born, owner, current, dtls, pending, cons, flag, fault>>
  BY DEF Sfu!PauseNew, Sfu!names
<1>4. Sfu!OthersOf(j) \subseteq SfuJoins
  BY DEF Sfu!OthersOf, Sfu!InRoom, RoomInv, RoomTypes
<1>5. /\ OneWorks(j) /\ n.op = "join" /\ n.p = k.p /\ n.o = k.o /\ n.more = {} /\ n.item = Nothing
      /\ n.step = "pipe" /\ n.todo = Sfu!OthersOf(j)
  <2>1. work' = [work EXCEPT ![j].step = "pipe", ![j].todo = Sfu!OthersOf(j)]
    BY DEF Sfu!PauseNew
  <2> QED BY <1>1, <1>2, <2>1 DEF RoomTypes, OneWorks, IsWork
<1>6. prod' = [prod EXCEPT ![j] = IF prod[j] = "playing" THEN "paused" ELSE prod[j]]
  BY DEF Sfu!PauseNew
<1>7. /\ \A t \in SfuJoins : Sfu!Live(t)' <=> Sfu!Live(t)
      /\ \A t \in SfuJoins : t # j => prod'[t] = prod[t]
      /\ Sfu!Live(j) => prod'[j] = "paused"
  BY <1>1, <1>6 DEF RoomTypes, Sfu!Live
<1>8. KeepsOn(j)
  BY <1>1, <1>2, <1>3, <1>5 DEF KeepsOn
<1>9. WorkFits(j)'
  BY <1>1, <1>2, <1>3, <1>4, <1>5 DEF WorkFits, StepFits, Carrying
<1>10. RoomTypes'
  BY <1>1, <1>3, <1>5, <1>6 DEF RoomTypes, OneWorks
<1>11. StreamsOwned'
  BY <1>1, <1>2, <1>3, <1>5, <1>7, OwnedStays
<1>12. Equipped'
  BY <1>1, <1>3, <1>7, <1>8, EquippedOn DEF Opened
<1>13. AllMeet'
  BY <1>1, <1>2, <1>3, <1>5, <1>8, ProducingMeets
<1>14. OneAtATime'
  BY <1>1, <1>3, <1>8, OneGoesOn DEF Opened
<1>15. SoundsRight'
  <2>1. ASSUME NEW p \in Peers, Even(p), room[p] # 0, Plays(p)
        PROVE  Plays(p)'
    <3>1. CASE k.p = p
      <4>1. Joining(j, p) /\ p \in flag
        BY <1>1, <1>2, <2>1, <3>1 DEF Joining, RoomInv, SoundsRight, SoundFor, Carried
      <4>2. p \in Calm
        BY <2>1 DEF Even, Calm, RoomInv, SoundsRight, SoundFor, Carried
      <4>3. k.o = room[p] /\ current[room[p]] = j
        BY <1>1, <4>1, <4>2 DEF RoomInv, OneAtATime, OneFor
      <4>4. \A t \in SfuJoins : owner[t] = room[p] /\ Sfu!Live(t) => t = j
        BY <2>1, <4>2, <4>3 DEF RoomInv, OneAtATime, OneFor, StreamsOwned
      <4> QED BY <1>3, <1>7, <4>1, <4>4 DEF Plays, Sound
    <3>2. CASE k.p # p
      <4>1. owner[j] # room[p]
        BY <1>1, <1>2, <2>1, <3>2 DEF RoomInv, ObjectsApart
      <4>2. \A x \in AtWork : /\ Pausing(x, p) => x # j /\ work'[x] = work[x]
                              /\ Joining(x, p) => x # j /\ work'[x] = work[x]
        BY <1>2, <1>5, <3>2 DEF Pausing, Joining, OneWorks
      <4>3. ASSUME NEW t \in SfuJoins, owner[t] = room[p], Sfu!Live(t)
            PROVE  \/ prod'[t] = Sound(p)
                   \/ \E x \in AtWork : Pausing(x, p)' /\ work'[x].step = "producer"
                   \/ \E x \in AtWork : Joining(x, p)' /\ work'[x].step = "pause"
        BY <1>7, <2>1, <4>1, <4>2, <4>3 DEF Plays, Pausing, Joining
      <4> QED BY <1>3, <1>7, <4>3 DEF Plays, Sound
    <3> QED BY <3>1, <3>2
  <2>2. \A p \in Peers : Passes(p) => Passes(p)'
    BY <1>1, <1>2, <1>3, <1>5, PassesOn DEF Pausing
  <2> QED BY <1>1, <1>2, <1>3, <1>5, <1>8, <2>1, <2>2, SoundsOn DEF Joining
<1>16. NobodyLeft'
  BY <1>1, <1>3, <1>5, <1>7, <1>8, NobodyIsLeft
<1>17. ObjectsApart'
  BY <1>1, <1>3, <1>5, ApartStays
<1>18. AllFit'
  BY <1>1, <1>3, <1>5, <1>9, OthersFit
<1> QED BY <1>3, <1>10, <1>11, <1>12, <1>13, <1>14, <1>15, <1>16, <1>17, <1>18 DEF RoomInv

\* A handler that is neither joining nor carrying meets nobody.
LEMMA OthersMeet ==
    ASSUME RoomInv, NEW x \in AtWork, KeepsOn(x), UNCHANGED <<current, dtls, pending>>,
           work[x].op # "join", work[x].more = {}, work[x].item = Nothing,
           \A o, s, t : (\E c \in cons : Joined(c, o, s, t)) => \E c \in cons' : Joined(c, o, s, t)
    PROVE  AllMeet'
<1> SUFFICES ASSUME NEW p \in Peers, NEW q \in Peers, p # q, Stays(p)', Stays(q)'
             PROVE  Meets(p, q)'
  BY DEF AllMeet
<1>1. OneWorks(x) /\ UNCHANGED room
  BY DEF KeepsOn
<1>2. Stays(p) /\ Stays(q)
  BY StaysOn
<1>3. Meets(p, q) /\ room[p] # 0
  BY <1>2 DEF RoomInv, AllMeet, Stays
<1>4. PICK o, s, t : o = room[p] /\ s = current[room[q]] /\ t = current[o]
  OBVIOUS
<1>5. ~Fetches(x, p, room[q]) /\ ~Pipes(x, q, o) /\ ~Brings(x, o, s, t)
  BY <1>3, <1>4, IdleHolds DEF Fetches, Pipes, Joining, Brings
<1>6. s # 0 /\ t # 0 /\ dtls[t] = "new" /\ s \in pending[o] => Meets(p, q)'
  BY <1>1, <1>4 DEF Meets, Reaches
<1>7. s # 0 /\ t # 0 /\ (\E c \in cons : Joined(c, o, s, t)) => Meets(p, q)'
  <2>1. SUFFICES ASSUME s # 0, t # 0, \E c \in cons : Joined(c, o, s, t)
                 PROVE  Meets(p, q)'
    OBVIOUS
  <2>2. \E c \in cons' : Joined(c, o, s, t)
    BY <2>1
  <2> QED BY <1>1, <1>4, <2>1, <2>2 DEF Meets, Reaches, Joined
<1> QED BY <1>1, <1>3, <1>4, <1>5, <1>6, <1>7, MeetsOn

\* The producers sound as the flag says from here on,
LEMMA PauseProducersKeeps ==
    ASSUME RoomInv, NEW x \in Controls, Sfu!PauseProducers(x)
    PROVE  RoomInv'
<1> DEFINE k == work[x]
           n == work'[x]
<1>1. x \in AtWork /\ WorkFits(x) /\ RoomTypes /\ k.op = "pause" /\ k.step = "producer"
  BY WhoWorks DEF RoomInv, AllFit, Sfu!PauseProducers
<1>2. k.p \in Peers /\ k.o \in SfuJoins /\ k.o # 0 /\ k.more = {} /\ k.item = Nothing
  BY <1>1, WhoWorks DEF WorkFits, Carrying
<1>3. UNCHANGED <<room, gen, born, owner, current, dtls, pending, cons, flag, fault>>
  BY DEF Sfu!PauseProducers, Sfu!names
<1>4. /\ OneWorks(x) /\ n.op = k.op /\ n.p = k.p /\ n.o = k.o /\ n.more = {} /\ n.item = Nothing
      /\ n.step = "consumers" /\ n.todo = k.todo /\ n.v = k.v
  BY <1>1, <1>2, RoomGoes DEF Sfu!PauseProducers
<1>5. PICK sound \in {"playing", "paused"} :
          /\ sound = IF k.v THEN "paused" ELSE "playing"
          /\ prod' = [q \in SfuJoins |-> IF owner[q] = k.o /\ Sfu!Live(q) THEN sound ELSE prod[q]]
  BY DEF Sfu!PauseProducers
<1>6. /\ \A t \in SfuJoins : Sfu!Live(t)' <=> Sfu!Live(t)
      /\ \A t \in SfuJoins : owner[t] # k.o => prod'[t] = prod[t]
      /\ \A t \in SfuJoins : owner[t] = k.o /\ Sfu!Live(t) => prod'[t] = sound
  BY <1>5 DEF Sfu!Live
<1>7. KeepsOn(x)
  BY <1>1, <1>2, <1>3, <1>4 DEF KeepsOn
<1>8. WorkFits(x)'
  BY <1>1, <1>2, <1>3, <1>4 DEF WorkFits, StepFits, Carrying
<1>9. RoomTypes'
  BY <1>1, <1>3, <1>4, <1>5 DEF RoomTypes, OneWorks
<1>10. StreamsOwned'
  BY <1>1, <1>3, <1>4, <1>6, OwnedStays
<1>11. Equipped'
  BY <1>1, <1>3, <1>6, <1>7, EquippedOn DEF Opened, Joining
<1>12. AllMeet'
  BY <1>1, <1>2, <1>3, <1>7, OthersMeet
<1>13. OneAtATime'
  BY <1>1, <1>3, <1>7, OneGoesOn DEF Opened
<1>14. SoundsRight'
  <2>1. ASSUME NEW p \in Peers, Even(p), room[p] # 0, Plays(p)
        PROVE  Plays(p)'
    <3>1. CASE k.p = p
      <4>1. Pausing(x, p)
        BY <1>1, <3>1 DEF Pausing
      <4>2. k.o = room[p] /\ (k.v <=> p \in flag)
        BY <1>1, <2>1, <4>1 DEF RoomInv, SoundsRight, SoundFor, Carried
      <4> QED BY <1>3, <1>5, <1>6, <4>2 DEF Plays, Sound
    <3>2. CASE k.p # p
      <4>1. k.o # room[p]
        BY <1>1, <1>2, <2>1, <3>2 DEF RoomInv, ObjectsApart
      <4>2. \A y \in AtWork : /\ Pausing(y, p) => y # x /\ work'[y] = work[y]
                              /\ Joining(y, p) => y # x /\ work'[y] = work[y]
        BY <1>2, <1>4, <3>2 DEF Pausing, Joining, OneWorks
      <4>3. ASSUME NEW t \in SfuJoins, owner[t] = room[p], Sfu!Live(t)
            PROVE  \/ prod'[t] = Sound(p)
                   \/ \E y \in AtWork : Pausing(y, p)' /\ work'[y].step = "producer"
                   \/ \E y \in AtWork : Joining(y, p)' /\ work'[y].step = "pause"
        BY <1>6, <2>1, <4>1, <4>2, <4>3 DEF Plays, Pausing, Joining
      <4> QED BY <1>3, <1>6, <4>3 DEF Plays, Sound
    <3> QED BY <3>1, <3>2
  <2>2. \A p \in Peers : Passes(p) => Passes(p)'
    BY <1>1, <1>3, <1>4, PassesOn DEF Pausing
  <2> QED BY <1>1, <1>2, <1>3, <1>4, <1>7, <2>1, <2>2, SoundsOn DEF Joining
<1>15. NobodyLeft'
  BY <1>1, <1>3, <1>4, <1>6, <1>7, NobodyIsLeft
<1>16. ObjectsApart'
  BY <1>1, <1>3, <1>4, ApartStays
<1>17. AllFit'
  BY <1>1, <1>3, <1>4, <1>8, OthersFit
<1> QED BY <1>9, <1>10, <1>11, <1>12, <1>13, <1>14, <1>15, <1>16, <1>17 DEF RoomInv

\* and the consumers from here on.
LEMMA PauseConsumersKeeps ==
    ASSUME RoomInv, NEW x \in Controls, Sfu!PauseConsumers(x)
    PROVE  RoomInv'
<1> DEFINE k == work[x]
           n == work'[x]
           Changed(c) == IF owner[c.of] = k.o THEN [c EXCEPT !.paused = k.v] ELSE c
<1>1. x \in AtWork /\ WorkFits(x) /\ RoomTypes /\ k.op = "pause" /\ k.step = "consumers"
  BY WhoWorks DEF RoomInv, AllFit, Sfu!PauseConsumers
<1>2. k.p \in Peers /\ k.o \in SfuJoins /\ k.o # 0 /\ k.more = {} /\ k.item = Nothing
  BY <1>1, WhoWorks DEF WorkFits, Carrying
<1>3. UNCHANGED <<room, gen, born, owner, current, dtls, prod, pending, flag, fault>>
  BY DEF Sfu!PauseConsumers, Sfu!names, Sfu!streams
<1>4. OneWorks(x) /\ IdleIs(n) /\ WorkFits(x)' /\ n = Idle
  BY <1>1, RoomEnds DEF Sfu!PauseConsumers
<1>5. cons' = {Changed(c) : c \in cons}
  BY DEF Sfu!PauseConsumers
<1>6. \A c \in cons : /\ IsItem(Changed(c)) /\ Changed(c).to = c.to /\ Changed(c).of = c.of
                      /\ Changed(c).on = c.on
                      /\ Changed(c).paused = IF owner[c.of] = k.o THEN k.v ELSE c.paused
  BY DEF RoomInv, StreamsOwned, IsBetween, IsItem
<1>7. \A d \in cons' : \E c \in cons : /\ IsItem(d) /\ d.to = c.to /\ d.of = c.of /\ d.on = c.on
                                       /\ d.paused = IF owner[c.of] = k.o THEN k.v ELSE c.paused
  BY ZenonT(60), <1>5, <1>6
<1>8. KeepsOn(x)
  BY <1>1, <1>3, <1>4 DEF KeepsOn, IdleIs
<1>9. RoomTypes'
  BY <1>1, <1>3, <1>4 DEF RoomTypes, OneWorks
<1>10. StreamsOwned'
  <2>1. ASSUME NEW d \in cons'
        PROVE  IsBetween(d)' /\ dtls'[d.on] = "connected" /\ Sfu!Live(d.of)'
    <3>1. PICK c \in cons : IsItem(d) /\ d.to = c.to /\ d.of = c.of /\ d.on = c.on
      BY <1>7
    <3>2. IsBetween(c) /\ dtls[c.on] = "connected" /\ Sfu!Live(c.of)
      BY DEF RoomInv, StreamsOwned
    <3> QED BY <1>3, <3>1, <3>2 DEF IsBetween, Sfu!Live
  <2>2. \A t \in SfuJoins : dtls'[t] \in {"none", "new"} => work'[0 - t] = Idle
    BY <1>3, <1>4, WhoWorks DEF RoomInv, StreamsOwned, OneWorks
  <2> QED BY <1>3, <2>1, <2>2 DEF RoomInv, StreamsOwned, Opened, Sfu!Live
<1>11. Equipped'
  BY <1>1, <1>3, <1>8, EquippedOn DEF Opened, Sfu!Live, Joining
<1>12. AllMeet'
  <2>1. \A o, s, t : (\E c \in cons : Joined(c, o, s, t)) => \E c \in cons' : Joined(c, o, s, t)
    BY ZenonT(60), <1>5, <1>6 DEF Joined
  <2> QED BY <1>1, <1>2, <1>3, <1>8, <2>1, OthersMeet
<1>13. OneAtATime'
  BY <1>1, <1>3, <1>8, OneGoesOn DEF Opened
<1>14. SoundsRight'
  <2>1. \A p \in Peers : Plays(p) => Plays(p)'
    BY <1>1, <1>3, <1>4, PlaysOn DEF Joining
  <2>2. ASSUME NEW p \in Peers, Even(p), room[p] # 0, Passes(p)
        PROVE  Passes(p)'
    <3>1. CASE k.p = p
      <4>1. k.o = room[p] /\ (k.v <=> p \in flag)
        BY <1>1, <2>2, <3>1 DEF RoomInv, SoundsRight, SoundFor, Carried, Pausing
      <4>2. \A d \in cons' : owner[d.of] = room[p] => (d.paused <=> p \in flag)
        BY <1>7, <4>1
      <4> QED BY <1>3, <4>2 DEF Passes
    <3>2. CASE k.p # p
      <4>1. k.o # room[p]
        BY <1>1, <1>2, <2>2, <3>2 DEF RoomInv, ObjectsApart
      <4>2. \A y \in AtWork : Pausing(y, p) => Pausing(y, p)'
        BY <1>4, <3>2 DEF Pausing, OneWorks
      <4>3. \A d \in cons' : owner[d.of] = room[p] => \E c \in cons : owner[c.of] = room[p] /\ d.paused = c.paused
        BY <1>7, <4>1
      <4> QED BY <1>3, <2>2, <4>2, <4>3 DEF Passes
    <3> QED BY <3>1, <3>2
  <2> QED BY <1>1, <1>2, <1>3, <1>4, <1>8, <2>1, <2>2, SoundsOn DEF IdleIs, Joining
<1>15. NobodyLeft'
  BY <1>1, <1>3, <1>4, <1>8, NobodyIsLeft DEF IdleIs, Sfu!Live
<1>16. ObjectsApart'
  BY <1>1, <1>3, <1>4, RoomAssumption, ApartStays DEF IdleIs
<1>17. AllFit'
  BY <1>1, <1>3, <1>4, OthersFit
<1> QED BY <1>9, <1>10, <1>11, <1>12, <1>13, <1>14, <1>15, <1>16, <1>17 DEF RoomInv

\* What waited for the transport is on its way with the flush that starts.
LEMMA ConnectsKeeps ==
    ASSUME RoomInv, NEW t \in SfuJoins, Sfu!Connects(t)
    PROVE  RoomInv'
<1>1. PICK x \in AtWork : x = 0 - t /\ x \notin SfuJoins \cup Controls
  BY WhoWorks
<1> DEFINE n == work'[x]
<1>2. dtls[t] = "new" /\ dtls' = [dtls EXCEPT ![t] = "connected"] /\ RoomTypes
  BY DEF Sfu!Connects, RoomInv
<1>3. PICK o \in SfuJoins : o = owner[t] /\ o # 0 /\ born[o] # 0
  BY <1>2 DEF RoomInv, StreamsOwned, RoomTypes
<1>4. UNCHANGED <<room, gen, born, owner, current, prod, cons, flag, fault>>
  BY DEF Sfu!Connects, Sfu!names
<1>5. work[x] = Idle /\ IdleIs(work[x])
  BY <1>1, <1>2, IdleHolds DEF RoomInv, StreamsOwned
<1>6. pending' = [pending EXCEPT ![o] = {}]
  BY <1>3 DEF Sfu!Connects
<1>7. /\ OneWorks(x) /\ n.p = "none" /\ n.item = Nothing
      /\ n.more = {<<o, q>> : q \in pending[o]}
      /\ \/ n.op = "none" /\ n.step = "none" /\ n.o = 0 /\ n.more = {}
         \/ n.op = "flush" /\ n.step = "flush" /\ n.o = o
  <2>1. CASE pending[o] = {} /\ work' = work
    BY <1>2, <1>5, <2>1 DEF IdleIs, OneWorks, RoomTypes
  <2>2. CASE work' = [work EXCEPT ![x] = [Sfu!Idle EXCEPT !.op = "flush", !.o = o, !.step = "flush",
                                                        !.more = {<<o, q>> : q \in pending[o]}]]
    <3>1. PICK w : w = [Sfu!Idle EXCEPT !.op = "flush", !.o = o, !.step = "flush",
                                                        !.more = {<<o, q>> : q \in pending[o]}]
      OBVIOUS
    <3>2. /\ IsWork(w) /\ w.p = "none" /\ w.item = Nothing /\ w.more = {<<o, q>> : q \in pending[o]}
          /\ w.op = "flush" /\ w.step = "flush" /\ w.o = o
      BY <3>1 DEF Sfu!Idle, IsWork, Nothing
    <3> QED BY <1>2, <2>2, <3>1, <3>2 DEF RoomTypes, OneWorks
  <2> QED BY <1>1, <1>3, <2>1, <2>2 DEF Sfu!Connects
<1>8. /\ \A d \in SfuJoins : Opened(d)' <=> Opened(d)
      /\ \A d \in SfuJoins : Sfu!Live(d)' <=> Sfu!Live(d)
      /\ \A d \in SfuJoins : d # t => dtls'[d] = dtls[d]
      /\ dtls'[t] = "connected"
  BY <1>2, <1>4 DEF RoomTypes, Opened, Sfu!Live
<1>9. KeepsOn(x)
  BY <1>4, <1>5, <1>7 DEF KeepsOn, IdleIs
<1>10. RoomTypes'
  BY <1>2, <1>3, <1>4, <1>6, <1>7 DEF RoomTypes, OneWorks
<1>11. AllFit'
  <2>1. \A pair \in n.more : IsPair(pair)'
    BY <1>3, <1>4, <1>7 DEF IsPair, RoomInv, StreamsOwned
  <2>2. WorkFits(x)'
    BY <1>1, <1>3, <1>4, <1>7, <2>1 DEF WorkFits, StepFits, Carrying
  <2>3. ASSUME NEW y \in AtWork, y # x
        PROVE  WorkFits(y)'
    <3>1. work[y].op = "join" => y \in SfuJoins
      BY DEF RoomInv, AllFit, WorkFits, StepFits
    <3>2. work'[y] = work[y] /\ WorkFits(y)
      BY <1>7, <2>3 DEF OneWorks, RoomInv, AllFit
    <3> QED BY <1>2, <1>4, <1>8, <3>1, <3>2, FitStays
  <2> QED BY <2>2, <2>3 DEF AllFit
<1>12. ObjectsApart'
  BY <1>4, <1>7, RoomAssumption, ApartStays
<1>13. StreamsOwned'
  <2>1. \A c : IsBetween(c) => IsBetween(c)'
    BY <1>4, <1>8 DEF IsBetween
  <2>2. \A c \in cons : IsBetween(c) /\ dtls[c.on] = "connected" /\ Sfu!Live(c.of)
    BY DEF RoomInv, StreamsOwned
  <2>3. \A c \in cons' : IsBetween(c)' /\ dtls'[c.on] = "connected" /\ Sfu!Live(c.of)'
    BY <1>4, <1>8, <2>1, <2>2 DEF IsBetween
  <2>4. \A d \in SfuJoins : dtls'[d] \in {"none", "new"} => work'[0 - d] = Idle
    <3>1. SUFFICES ASSUME NEW d \in SfuJoins, dtls'[d] \in {"none", "new"}
                   PROVE  work'[0 - d] = Idle
      OBVIOUS
    <3>2. d # t /\ 0 - d # x /\ 0 - d \in AtWork
      BY <1>1, <1>8, <3>1, WhoWorks
    <3> QED BY <1>7, <1>8, <3>1, <3>2 DEF RoomInv, StreamsOwned, OneWorks
  <2>5. \A r \in SfuJoins : \A q \in pending'[r] : q \in SfuJoins /\ owner[q] # 0
    BY <1>2, <1>6 DEF RoomTypes, RoomInv, StreamsOwned
  <2>6. \A d \in SfuJoins : /\ owner'[d] = 0 <=> dtls'[d] = "none"
                            /\ dtls'[d] \in {"none", "new", "connected", "closed"}
    BY <1>3, <1>4, <1>8 DEF RoomInv, StreamsOwned
  <2> QED BY <1>4, <1>8, <2>3, <2>4, <2>5, <2>6 DEF RoomInv, StreamsOwned
<1>14. OneAtATime'
  BY <1>4, <1>8, <1>9, OneGoesOn
<1>15. Equipped'
  BY <1>4, <1>5, <1>8, <1>9, EquippedOn DEF IdleIs, Joining
<1>16. AllMeet'
  <2> SUFFICES ASSUME NEW p \in Peers, NEW q \in Peers, p # q, Stays(p)', Stays(q)'
               PROVE  Meets(p, q)'
    BY DEF AllMeet
  <2>1. Stays(p) /\ Stays(q)
    BY <1>9, StaysOn
  <2>2. Meets(p, q) /\ room[p] # 0
    BY <2>1 DEF RoomInv, AllMeet, Stays
  <2>3. PICK d, s, i : d = room[p] /\ s = current[room[q]] /\ i = current[d]
    OBVIOUS
  <2>4. \A y \in AtWork : work[y].step # "none" \/ Brings(y, d, s, i) => y # x /\ work'[y] = work[y]
    BY <1>5, <1>7, <2>2, <2>3, IdleHolds DEF IdleIs, OneWorks, Brings
  <2>5. CASE \E y \in AtWork : Fetches(y, p, room[q]) \/ Pipes(y, q, room[p])
    BY <1>4, <2>4, <2>5 DEF Meets, Fetches, Pipes, Joining
  <2>6. CASE Reaches(d, s, i)
    <3>1. s # 0 /\ i # 0 /\ d \in SfuJoins
      BY <2>2, <2>3, <2>6 DEF Reaches, RoomInv, RoomTypes
    <3>2. SUFFICES \/ \E y \in AtWork : Brings(y, d, s, i)'
                   \/ s \in pending'[d] /\ dtls'[i] = "new"
                   \/ \E c \in cons : Joined(c, d, s, i)
      BY <1>4, <2>3, <3>1 DEF Meets, Reaches, Joined
    <3>3. CASE \E y \in AtWork : Brings(y, d, s, i)
      BY <2>4, <3>3 DEF Brings
    <3>4. CASE s \in pending[d] /\ dtls[i] = "new"
      <4>1. CASE d = o
        BY <1>7, <3>4, <4>1 DEF Brings
      <4>2. CASE d # o
        <5>1. i \in SfuJoins /\ owner[i] = d
          BY <1>2, <2>3, <3>1 DEF RoomTypes, RoomInv, StreamsOwned
        <5>2. i # t
          BY <1>3, <4>2, <5>1
        <5> QED BY <1>2, <1>6, <1>8, <3>1, <3>4, <4>2, <5>1, <5>2 DEF RoomTypes
      <4> QED BY <4>1, <4>2
    <3> QED BY <2>6, <3>3, <3>4 DEF Reaches
  <2> QED BY <2>2, <2>3, <2>5, <2>6 DEF Meets
<1>17. SoundsRight'
  <2>1. \A p \in Peers : Plays(p) => Plays(p)'
    BY <1>4, <1>5, <1>7, PlaysOn DEF IdleIs, Pausing, Joining
  <2>2. \A p \in Peers : Passes(p) => Passes(p)'
    BY <1>4, <1>5, <1>7, PassesOn DEF IdleIs, Pausing
  <2> QED BY <1>4, <1>5, <1>7, <1>9, <2>1, <2>2, SoundsOn DEF IdleIs, Joining
<1>18. NobodyLeft'
  BY <1>4, <1>7, <1>8, <1>9, NobodyIsLeft
<1> QED BY <1>10, <1>11, <1>12, <1>13, <1>14, <1>15, <1>16, <1>17, <1>18 DEF RoomInv

\* addTransport: the only open transport of its peer, who has yet to fetch all.
LEMMA TransportKeeps ==
    ASSUME RoomInv, NEW j \in SfuJoins, Sfu!Transport(j)
    PROVE  RoomInv'
<1> DEFINE k == work[j]
           n == work'[j]
<1>1. j \in AtWork /\ j # 0 /\ WorkFits(j) /\ RoomTypes /\ k.step = "transport"
  BY WhoWorks DEF RoomInv, AllFit, Sfu!Transport
<1>2. /\ k.op = "join" /\ k.p \in Peers /\ k.o \in SfuJoins /\ owner[j] = 0 /\ born[j] # 0
      /\ k.o # 0 /\ born[k.o] # 0 /\ k.more = {} /\ k.item = Nothing
  BY <1>1, WhoWorks DEF WorkFits, StepFits, Carrying
<1>3. UNCHANGED <<room, gen, born, prod, pending, cons, flag, fault>>
  BY DEF Sfu!Transport, Sfu!names
<1>4. /\ OneWorks(j) /\ n.op = "join" /\ n.p = k.p /\ n.o = k.o /\ n.more = {} /\ n.item = Nothing
      /\ n.step = "produce" /\ n.todo = k.todo
  BY <1>1, <1>2, RoomGoes DEF Sfu!Transport
<1>5. PICK o \in SfuJoins : o = k.o /\ o # 0 /\ born[o] # 0
  BY <1>2
<1>6. /\ owner' = [owner EXCEPT ![j] = o] /\ current' = [current EXCEPT ![o] = j]
      /\ dtls' = [dtls EXCEPT ![j] = "new"]
  BY <1>5 DEF Sfu!Transport
<1>7. /\ \A t \in SfuJoins : t # j => owner'[t] = owner[t] /\ dtls'[t] = dtls[t] /\ (Opened(t)' <=> Opened(t))
      /\ owner'[j] = o /\ dtls'[j] = "new" /\ Opened(j)' /\ current'[o] = j
      /\ \A d \in SfuJoins : d # o => current'[d] = current[d]
      /\ \A t \in SfuJoins : Sfu!Live(t)' <=> Sfu!Live(t)
  BY <1>1, <1>3, <1>6 DEF RoomTypes, Opened, Sfu!Live
<1>8. dtls[j] = "none" /\ ~Sfu!Live(j)
  BY <1>2 DEF RoomInv, StreamsOwned, Opened
<1>9. /\ \A c : IsBetween(c) => IsBetween(c)' /\ c.of # j /\ owner'[c.of] = owner[c.of]
      /\ \A pair : IsPair(pair) => IsPair(pair)'
  BY <1>2, <1>3, <1>7, <1>8 DEF IsBetween, IsPair
<1>10. /\ \A y \in AtWork : y # j => work'[y] = work[y]
       /\ \A y \in AtWork : \A p : /\ Joining(y, p)' <=> Joining(y, p)
                                   /\ Leaving(y, p)' <=> Leaving(y, p)
                                   /\ Pausing(y, p)' <=> Pausing(y, p)
       /\ \A y \in AtWork : (Deleting(y)' <=> Deleting(y)) /\ work'[y].p = work[y].p /\ work'[y].o = work[y].o
       /\ \A y \in AtWork : work'[y].todo = work[y].todo /\ work'[y].item = work[y].item
  BY <1>2, <1>4 DEF OneWorks, Joining, Leaving, Pausing, Deleting
<1>11. \A p \in Peers : /\ Stays(p)' <=> Stays(p)
                        /\ room[p] = o => k.p = p
  BY <1>1, <1>2, <1>3, <1>5, <1>10 DEF Stays, Gone, Calm, RoomInv, ObjectsApart
<1>12. \A p \in Calm : k.p = p => room[p] = o /\ current[o] = 0
  BY <1>1, <1>2, <1>5 DEF RoomInv, OneAtATime, OneFor, Joining
<1>13. RoomTypes'
  BY <1>1, <1>3, <1>4, <1>5, <1>6 DEF RoomTypes, OneWorks
<1>14. AllFit'
  <2>1. WorkFits(j)'
    BY <1>1, <1>2, <1>3, <1>4, <1>5, <1>7 DEF WorkFits, StepFits, Carrying
  <2>2. ASSUME NEW y \in AtWork, y # j
        PROVE  WorkFits(y)'
    <3>1. work[y].op = "join" => y \in SfuJoins
      BY DEF RoomInv, AllFit, WorkFits, StepFits
    <3>2. work'[y] = work[y] /\ WorkFits(y)
      BY <1>10, <2>2 DEF RoomInv, AllFit
    <3> QED BY <1>2, <1>3, <1>7, <1>8, <2>2, <3>1, <3>2, FitStays
  <2> QED BY <2>1, <2>2 DEF AllFit
<1>15. ObjectsApart'
  BY <1>1, <1>3, <1>4, ApartStays
<1>16. StreamsOwned'
  <2>1. \A t \in SfuJoins : owner'[t] # 0 => born[owner'[t]] # 0 /\ born[t] # 0
    BY <1>2, <1>5, <1>7 DEF RoomInv, StreamsOwned
  <2>2. \A d \in SfuJoins : current'[d] # 0 => owner'[current'[d]] = d
    BY <1>1, <1>2, <1>5, <1>7, WhoWorks DEF RoomInv, RoomTypes, StreamsOwned
  <2>3. \A t \in SfuJoins : /\ owner'[t] = 0 <=> dtls'[t] = "none"
                            /\ dtls'[t] \in {"none", "new", "connected", "closed"}
                            /\ Sfu!Live(t)' => Opened(t)'
    BY <1>5, <1>7 DEF RoomInv, StreamsOwned
  <2>4. \A d \in SfuJoins : \A q \in pending[d] : q \in SfuJoins /\ owner'[q] # 0
    BY <1>5, <1>7 DEF RoomInv, StreamsOwned
  <2>5. \A t \in SfuJoins : dtls'[t] \in {"none", "new"} => work'[0 - t] = Idle
    BY <1>7, <1>8, <1>10, WhoWorks DEF RoomInv, StreamsOwned
  <2>6. \A c \in cons : IsBetween(c)' /\ dtls'[c.on] = "connected" /\ Sfu!Live(c.of)'
    <3>1. SUFFICES ASSUME NEW c \in cons
                   PROVE  IsBetween(c)' /\ dtls'[c.on] = "connected" /\ Sfu!Live(c.of)'
      OBVIOUS
    <3>2. IsBetween(c) /\ dtls[c.on] = "connected" /\ Sfu!Live(c.of) /\ c.on \in SfuJoins /\ c.of \in SfuJoins
      BY DEF RoomInv, StreamsOwned, IsBetween
    <3> QED BY <1>7, <1>8, <1>9, <3>2
  <2> QED BY <1>3, <2>1, <2>2, <2>3, <2>4, <2>5, <2>6 DEF StreamsOwned
<1>17. OneAtATime'
  <2> SUFFICES ASSUME NEW p \in Calm
               PROVE  /\ \A x, y \in AtWork :
                             /\ (Joining(x, p) \/ Leaving(x, p) \/ Deleting(x))'
                             /\ (Joining(y, p) \/ Leaving(y, p) \/ Deleting(y))'
                             => x = y
                      /\ \A x \in AtWork : (Joining(x, p) \/ Leaving(x, p))' => work'[x].o = room[p]
                      /\ \A x \in AtWork : Joining(x, p)' =>
                             current'[room[p]] = IF work'[x].step = "transport" THEN 0 ELSE x
                      /\ room[p] # 0 => \A t \in SfuJoins :
                             owner'[t] = room[p] /\ Opened(t)' => t = current'[room[p]]
    BY <1>3 DEF OneAtATime, OneFor, Calm
  <2>1. p \in Peers
    BY DEF Calm
  <2>2. /\ \A x, y \in AtWork :
               /\ Joining(x, p) \/ Leaving(x, p) \/ Deleting(x)
               /\ Joining(y, p) \/ Leaving(y, p) \/ Deleting(y)
               => x = y
        /\ \A x \in AtWork : Joining(x, p) \/ Leaving(x, p) => work[x].o = room[p]
        /\ \A x \in AtWork : Joining(x, p) =>
               current[room[p]] = IF work[x].step = "transport" THEN 0 ELSE x
        /\ room[p] # 0 => \A t \in SfuJoins :
               owner[t] = room[p] /\ Opened(t) => t = current[room[p]]
    BY DEF RoomInv, OneAtATime, OneFor
  <2>3. ASSUME NEW x \in AtWork, Joining(x, p)'
        PROVE  current'[room[p]] = IF work'[x].step = "transport" THEN 0 ELSE x
    <3>1. CASE x = j
      <4>1. k.p = p
        BY <1>10, <2>3, <3>1 DEF Joining
      <4> QED BY <1>4, <1>7, <1>12, <3>1, <4>1
    <3>2. CASE x # j
      <4>1. Joining(x, p) /\ work'[x] = work[x]
        BY <1>10, <2>3, <3>2
      <4>2. k.p # p
        BY <1>1, <1>2, <2>2, <3>2, <4>1 DEF Joining
      <4>3. room[p] \in SfuJoins
        BY <2>1, <2>2, <4>1 DEF RoomInv, AllFit, WorkFits, Joining
      <4>4. room[p] # o
        BY <1>11, <2>1, <4>2
      <4> QED BY <1>7, <2>2, <4>1, <4>3, <4>4
    <3> QED BY <3>1, <3>2
  <2>4. ASSUME room[p] # 0, NEW t \in SfuJoins, owner'[t] = room[p], Opened(t)'
        PROVE  t = current'[room[p]]
    <3>1. room[p] \in SfuJoins
      BY <1>1, <2>1, <2>4 DEF RoomTypes
    <3>2. CASE t = j
      BY <1>7, <2>4, <3>2
    <3>3. CASE t # j
      <4>1. t = current[room[p]] /\ t # 0
        BY <1>7, <2>2, <2>4, <3>3, WhoWorks
      <4>2. room[p] # o
        BY <1>11, <1>12, <2>1, <4>1
      <4> QED BY <1>7, <3>1, <4>1, <4>2
    <3> QED BY <3>2, <3>3
  <2> QED BY <1>10, <2>2, <2>3, <2>4
<1>18. ASSUME NEW p \in Peers, Stays(p)
       PROVE  /\ k.p = p => room[p] = o /\ Joining(j, p)'
              /\ k.p # p => room[p] # o /\ current'[room[p]] = current[room[p]] /\ current[room[p]] # j
  <2>1. p \in Calm /\ room[p] \in SfuJoins
    BY <1>1, <1>18 DEF Stays, RoomTypes
  <2>2. current[room[p]] # 0 => owner[current[room[p]]] = room[p]
    BY <2>1 DEF RoomInv, StreamsOwned
  <2>3. current[room[p]] # j
    BY <1>1, <1>2, <1>18, <2>2 DEF Stays
  <2> QED BY <1>1, <1>2, <1>7, <1>10, <1>11, <1>12, <2>1, <2>3 DEF Joining
<1>19. Equipped'
  <2> SUFFICES ASSUME NEW p \in Peers, Stays(p)
               PROVE  /\ \/ \E y \in AtWork : Joining(y, p)' /\ work'[y].step = "transport"
                         \/ current'[room[p]] # 0 /\ Opened(current[room[p]])'
                      /\ \/ \E y \in AtWork : Joining(y, p)' /\ work'[y].step \in {"transport", "produce"}
                         \/ current'[room[p]] # 0 /\ Sfu!Live(current[room[p]])'
    BY <1>3, <1>11 DEF Equipped, Has, Opened, Sfu!Live
  <2>1. CASE k.p = p
    BY <1>1, <1>3, <1>4, <1>7, <1>18, <2>1
  <2>2. CASE k.p # p
    <3>1. \A y \in AtWork : Joining(y, p) => Joining(y, p)' /\ work'[y].step = work[y].step
      BY <1>10, <2>2 DEF Joining
    <3>2. current'[room[p]] = current[room[p]] /\ current[room[p]] # j
      BY <1>18, <2>2
    <3> QED BY <1>3, <1>7, <3>1, <3>2, Supplied
  <2> QED BY <2>1, <2>2
<1>20. AllMeet'
  <2> SUFFICES ASSUME NEW p \in Peers, NEW q \in Peers, p # q, Stays(p), Stays(q)
               PROVE  Meets(p, q)'
    BY <1>11 DEF AllMeet
  <2>1. CASE k.p = p
    BY <1>1, <1>4, <1>18, <2>1 DEF Meets, Fetches, Joining
  <2>2. CASE k.p = q
    BY <1>1, <1>4, <1>18, <2>2 DEF Meets, Pipes, Joining
  <2>3. CASE k.p # p /\ k.p # q
    <3>1. Meets(p, q) /\ room[p] # 0 /\ room[p] \in SfuJoins
      BY <1>1 DEF RoomInv, RoomTypes, AllMeet, Stays
    <3>2. PICK d, s, t : d = room[p] /\ s = current[room[q]] /\ t = current[d] /\ t # j /\ t \in SfuJoins \cup {0}
      BY <1>1, <1>18, <2>3, <3>1 DEF RoomTypes
    <3>3. current'[d] = t /\ current'[room[q]] = s
      BY <1>18, <2>3, <3>2
    <3>4. \A y \in AtWork : Joining(y, p) \/ Joining(y, q) \/ Brings(y, d, s, t) => y # j /\ work'[y] = work[y]
      BY <1>2, <1>10, <2>3, <3>1, <3>2, IdleHolds DEF Joining, Brings
    <3>5. CASE \E y \in AtWork : Fetches(y, p, room[q]) \/ Pipes(y, q, room[p])
      BY <1>3, <3>4, <3>5 DEF Meets, Fetches, Pipes, Joining
    <3>6. CASE Reaches(d, s, t)
      <4>1. s # 0 /\ t # 0 /\ t \in SfuJoins
        BY <3>2, <3>6 DEF Reaches
      <4>2. \/ \E y \in AtWork : Brings(y, d, s, t)'
            \/ s \in pending[d] /\ dtls'[t] = "new"
            \/ \E c \in cons : Joined(c, d, s, t)
        BY <1>7, <3>2, <3>4, <3>6, <4>1 DEF Reaches, Brings
      <4> QED BY <1>3, <3>2, <3>3, <4>1, <4>2 DEF Meets, Reaches, Joined
    <3> QED BY <3>1, <3>2, <3>5, <3>6 DEF Meets
  <2> QED BY <2>1, <2>2, <2>3
<1>21. SoundsRight'
  <2>1. \A y \in AtWork : \A p : /\ Pausing(y, p) => work'[y] = work[y]
                                 /\ Joining(y, p)' /\ work'[y].step = "pause" => work'[y] = work[y]
                                 /\ Joining(y, p) /\ work[y].step = "pause" => work'[y] = work[y]
    BY <1>1, <1>2, <1>4, <1>10 DEF Pausing, Joining
  <2>2. ASSUME NEW p \in Peers, Even(p)
        PROVE  /\ \A x, y \in AtWork :
                    (work'[x].p = p \/ Deleting(x)') /\ (work'[y].p = p \/ Deleting(y)') => x = y
               /\ \A x \in AtWork : Pausing(x, p)' => work'[x].o = room[p] /\ (work'[x].v <=> p \in flag)
               /\ \A x \in AtWork : Joining(x, p)' /\ work'[x].step = "pause" => p \in flag
    BY <1>10, <2>1, <2>2 DEF RoomInv, SoundsRight, SoundFor, Carried
  <2>3. ASSUME NEW p \in Peers, Even(p), room[p] # 0, \A x \in AtWork : ~Leaving(x, p)'
        PROVE  /\ Plays(p)' /\ Passes(p)'
               /\ \A x \in AtWork : work'[x].item # Nothing /\ owner'[work'[x].item.of] = room[p]
                   => (work'[x].item.paused <=> p \in flag)
    <3>1. /\ Plays(p) /\ Passes(p)
          /\ \A x \in AtWork : work[x].item # Nothing /\ owner[work[x].item.of] = room[p]
                   => (work[x].item.paused <=> p \in flag)
      BY <1>10, <2>3 DEF RoomInv, SoundsRight, SoundFor, Carried
    <3>2. ASSUME NEW t \in SfuJoins, owner'[t] = room[p], Sfu!Live(t)
          PROVE  \/ prod[t] = Sound(p)
                 \/ \E x \in AtWork : Pausing(x, p)' /\ work'[x].step = "producer"
                 \/ \E x \in AtWork : Joining(x, p)' /\ work'[x].step = "pause"
      <4>1. t # j /\ owner[t] = room[p]
        BY <1>7, <1>8, <3>2
      <4> QED BY <1>10, <2>1, <3>1, <3>2, <4>1 DEF Plays
    <3>3. Plays(p)'
      BY <1>3, <1>7, <3>2 DEF Plays, Sound
    <3>4. \A c \in cons : owner'[c.of] = owner[c.of]
      BY <1>9 DEF RoomInv, StreamsOwned
    <3>5. Passes(p)'
      BY <1>3, <1>10, <3>1, <3>4 DEF Passes
    <3>6. \A x \in AtWork : work[x].item # Nothing => owner'[work[x].item.of] = owner[work[x].item.of]
      BY <1>9 DEF RoomInv, AllFit, WorkFits
    <3> QED BY <1>10, <3>1, <3>3, <3>5, <3>6
  <2> QED BY <1>3, <2>2, <2>3 DEF SoundsRight, SoundFor, Carried, Even, RoomInv
<1>22. NobodyLeft'
  <2>1. \A q \in SfuJoins : Sfu!Live(q)' => Sfu!Live(q) /\ owner'[q] = owner[q]
    BY <1>7, <1>8
  <2> QED BY <1>3, <1>10, <2>1 DEF RoomInv, NobodyLeft, Sfu!InRoom
<1> QED BY <1>13, <1>14, <1>15, <1>16, <1>17, <1>19, <1>20, <1>21, <1>22 DEF RoomInv

-----------------------------------------------------------------------------
(* The room: requests that begin, peers that leave, a room that is closed *)

\* A handler starts on a request.
LEMMA StartsWork ==
    ASSUME RoomTypes, NEW x \in AtWork, work[x] = Idle, NEW w, IsWork(w), work' = [work EXCEPT ![x] = w]
    PROVE  OneWorks(x) /\ work'[x] = w /\ IdleIs(work[x])
BY IdleHolds DEF RoomTypes, OneWorks

\* Whom no other request is about.
LEMMA NotBusy ==
    ASSUME NEW p, ~Sfu!Busy(p)
    PROVE  \A y \in AtWork : work[y].p # p /\ ~Deleting(y)
BY DEF Sfu!Busy, AtWork, Deleting

\* Nothing opens, and what is in T closes.
Closes(T) ==
    /\ \A t \in SfuJoins : t \notin T => dtls'[t] = dtls[t] /\ prod'[t] = prod[t]
    /\ \A t \in SfuJoins : t \in T =>
           ~Sfu!Live(t)' /\ dtls'[t] = IF dtls[t] = "none" THEN "none" ELSE "closed"
    /\ \A c \in cons' : c \in cons /\ c.on \notin T /\ c.of \notin T

LEMMA RoomCloses ==
    ASSUME NEW T, Sfu!Close(T), cons' = Sfu!Consuming(T, cons)
    PROVE  /\ Closes(T) /\ DOMAIN dtls' = SfuJoins /\ DOMAIN prod' = SfuJoins
           /\ \A c \in cons : c.on \notin T /\ c.of \notin T => c \in cons'
BY DEF Sfu!Close, Sfu!Consuming, Closes, Sfu!Live

LEMMA StaysClosed ==
    ASSUME NEW T, Closes(T)
    PROVE  /\ \A t \in SfuJoins : Opened(t)' => Opened(t) /\ t \notin T
           /\ \A t \in SfuJoins : Sfu!Live(t)' => Sfu!Live(t) /\ t \notin T /\ prod'[t] = prod[t]
           /\ \A t \in SfuJoins : t \notin T => (Opened(t)' <=> Opened(t)) /\ (Sfu!Live(t)' <=> Sfu!Live(t))
           /\ \A t \in SfuJoins : dtls'[t] = "none" <=> dtls[t] = "none"
           /\ \A t \in SfuJoins : dtls'[t] = "new" => dtls[t] = "new"
           /\ \A t \in SfuJoins : dtls[t] \in {"connected", "closed"} => dtls'[t] \in {"connected", "closed"}
           /\ \A t \in SfuJoins : dtls[t] \in {"none", "new", "connected", "closed"}
                                  => dtls'[t] \in {"none", "new", "connected", "closed"}
BY DEF Closes, Opened, Sfu!Live

LEMMA StreamsClose ==
    ASSUME RoomInv, NEW x \in AtWork, \A t \in SfuJoins : x # 0 - t, OneWorks(x), NEW T, Closes(T),
           UNCHANGED owner,
           \A o \in SfuJoins : born[o] # 0 => born'[o] # 0,
           \A o \in SfuJoins : current'[o] \in {0, current[o]},
           \A o \in SfuJoins : pending'[o] \subseteq pending[o]
    PROVE  /\ StreamsOwned'
           /\ \A y \in AtWork : y # x => WorkFits(y)'
           /\ WorkFits(x)' => AllFit'
<1>1. \A c : IsBetween(c) => IsBetween(c)'
  BY StaysClosed DEF IsBetween
<1>2. ASSUME NEW c \in cons'
      PROVE  IsBetween(c)' /\ dtls'[c.on] = "connected" /\ Sfu!Live(c.of)'
  <2>1. c \in cons /\ c.on \notin T /\ c.of \notin T
    BY DEF Closes
  <2>2. /\ IsBetween(c) /\ dtls[c.on] = "connected" /\ Sfu!Live(c.of)
        /\ c.on \in SfuJoins /\ c.of \in SfuJoins
    BY <2>1 DEF RoomInv, StreamsOwned, IsBetween
  <2> QED BY <1>1, <2>1, <2>2, StaysClosed DEF Closes
<1>3. ASSUME NEW t \in SfuJoins, dtls'[t] \in {"none", "new"}
      PROVE  work'[0 - t] = Idle
  BY <1>3, StaysClosed, WhoWorks DEF RoomInv, StreamsOwned, OneWorks
<1>4. \A t \in SfuJoins : /\ owner[t] = 0 <=> dtls'[t] = "none"
                          /\ dtls'[t] \in {"none", "new", "connected", "closed"}
                          /\ Sfu!Live(t)' => Opened(t)'
  BY StaysClosed DEF RoomInv, StreamsOwned
<1>5. \A t \in SfuJoins : owner[t] # 0 => born'[owner[t]] # 0 /\ born'[t] # 0
  BY DEF RoomInv, StreamsOwned, RoomTypes
<1>6. \A o \in SfuJoins : current'[o] # 0 => owner[current'[o]] = o
  BY DEF RoomInv, StreamsOwned
<1>7. \A o \in SfuJoins : \A q \in pending'[o] : q \in SfuJoins /\ owner[q] # 0
  BY DEF RoomInv, StreamsOwned
<1>8. StreamsOwned'
  BY <1>2, <1>3, <1>4, <1>5, <1>6, <1>7 DEF StreamsOwned
<1>9. ASSUME NEW y \in AtWork, y # x
      PROVE  WorkFits(y)'
  <2>1. work[y].op = "join" => y \in SfuJoins
    BY DEF RoomInv, AllFit, WorkFits, StepFits
  <2>2. work'[y] = work[y] /\ WorkFits(y)
    BY <1>9 DEF OneWorks, RoomInv, AllFit
  <2> QED BY <2>1, <2>2, FitStays, StaysClosed
<1> QED BY <1>8, <1>9 DEF AllFit

\* Peer p is one of two whom a request is not about.
StandsBy(p) ==
    /\ room[p] # 0 /\ room'[p] = room[p]
    /\ current'[room[p]] = current[room[p]]
    /\ current[room[p]] # 0 => dtls'[current[room[p]]] = dtls[current[room[p]]]
    /\ current[room[p]] # 0 => prod'[current[room[p]]] = prod[current[room[p]]]

\* What goes on for a peer whom a request is not about: its requests,
LEMMA StillOne ==
    ASSUME RoomInv, NEW x \in AtWork, OneWorks(x), NEW p \in Peers, OneFor(p),
           UNCHANGED owner, room'[p] = room[p], room[p] # 0 => current'[room[p]] = current[room[p]],
           \A t \in SfuJoins : Opened(t)' => Opened(t),
           ~Joining(x, p)', ~Leaving(x, p)', Deleting(x)' => Deleting(x)
    PROVE  OneFor(p)'
<1>1. ASSUME NEW y \in AtWork
      PROVE  /\ (Joining(y, p) \/ Leaving(y, p) \/ Deleting(y))'
                    => Joining(y, p) \/ Leaving(y, p) \/ Deleting(y)
             /\ (Joining(y, p) \/ Leaving(y, p))' =>
                    (Joining(y, p) \/ Leaving(y, p)) /\ work'[y].o = work[y].o
             /\ Joining(y, p)' => Joining(y, p) /\ (work'[y].step = "transport" <=> work[y].step = "transport")
  BY DEF OneWorks, Joining, Leaving, Deleting
<1>2. \A y \in AtWork : Joining(y, p) => room[p] # 0
  BY WhoWorks DEF OneFor, RoomInv, AllFit, WorkFits, Joining
<1> QED BY <1>1, <1>2 DEF OneFor

\* what it has,
LEMMA StillHas ==
    ASSUME NEW x \in AtWork, OneWorks(x), NEW p \in Peers, Has(p), StandsBy(p), ~Joining(x, p)
    PROVE  Has(p)'
<1>1. \A y \in AtWork : Joining(y, p) => Joining(y, p)' /\ work'[y].step = work[y].step
  BY DEF OneWorks, Joining
<1> QED BY <1>1 DEF Has, StandsBy, Opened, Sfu!Live

\* and whom it meets.
LEMMA StillMeet ==
    ASSUME RoomInv, NEW x \in AtWork, OneWorks(x),
           work[x].op # "join", work[x].more = {}, work[x].item = Nothing,
           NEW p \in Peers, NEW q \in Peers, Meets(p, q), StandsBy(p), StandsBy(q),
           pending'[room[p]] = pending[room[p]],
           \A c \in cons : c.to = room[p] /\ c.on = current[room[p]] /\ c.of = current[room[q]] => c \in cons'
    PROVE  Meets(p, q)'
<1>1. PICK o, s, t : o = room[p] /\ s = current[room[q]] /\ t = current[o]
  OBVIOUS
<1>2. room'[p] = o /\ room'[q] = room[q] /\ current'[o] = t /\ current'[room[q]] = s /\ o # 0
      /\ (t # 0 => dtls'[t] = dtls[t])
  BY <1>1 DEF StandsBy
<1>3. \A y \in AtWork : Joining(y, p) \/ Joining(y, q) \/ Brings(y, o, s, t) => y # x /\ work'[y] = work[y]
  BY <1>1, <1>2, IdleHolds DEF Joining, Brings, OneWorks
<1>4. CASE \E y \in AtWork : Fetches(y, p, room[q]) \/ Pipes(y, q, room[p])
  BY <1>2, <1>1, <1>3, <1>4 DEF Meets, Fetches, Pipes, Joining
<1>5. CASE Reaches(o, s, t)
  <2>1. s # 0 /\ t # 0
    BY <1>5 DEF Reaches
  <2>2. \/ \E y \in AtWork : Brings(y, o, s, t)'
        \/ s \in pending'[o] /\ dtls'[t] = "new"
        \/ \E c \in cons' : Joined(c, o, s, t)
    BY <1>1, <1>2, <1>3, <1>5, <2>1 DEF Reaches, Brings, Joined
  <2> QED BY <1>2, <2>1, <2>2 DEF Meets, Reaches, Joined
<1> QED BY <1>1, <1>4, <1>5 DEF Meets

\* What is said of the sound of p goes for its producers and consumers that stay.
LEMMA StillSounds ==
    ASSUME NEW x \in AtWork, OneWorks(x), UNCHANGED owner, NEW p \in Peers, Plays(p), Passes(p), Carried(p),
           room'[p] = room[p], p \in flag' <=> p \in flag,
           \A t \in SfuJoins : Sfu!Live(t)' => Sfu!Live(t) /\ prod'[t] = prod[t],
           cons' \subseteq cons, work'[x].item = Nothing, ~Pausing(x, p), ~Joining(x, p)
    PROVE  (Plays(p) /\ Passes(p) /\ Carried(p))'
<1>1. \A y \in AtWork : Pausing(y, p) \/ Joining(y, p) => y # x /\ work'[y] = work[y]
  BY DEF OneWorks
<1>2. Plays(p)'
  BY <1>1 DEF Plays, Sound, Pausing, Joining
<1>3. Passes(p)'
  BY <1>1 DEF Passes, Pausing
<1>4. Carried(p)'
  BY DEF Carried, OneWorks
<1> QED BY <1>2, <1>3, <1>4

\* From the start of /api/leave on the peer does not stay.
LEMMA LeaveKeeps ==
    ASSUME RoomInv, NEW x \in Controls, NEW p \in Peers, Sfu!Leave(x, p)
    PROVE  RoomInv'
<1> DEFINE n == work'[x]
<1>1. /\ x \in AtWork /\ x \notin SfuJoins /\ \A t \in SfuJoins : x # 0 - t
      /\ RoomTypes /\ work[x] = Idle
  BY WhoWorks DEF RoomInv, Sfu!Leave, Sfu!Begins, Idle
<1>2. UNCHANGED <<room, gen, born, owner, current, dtls, prod, pending>>
  BY DEF Sfu!Leave, Sfu!names, Sfu!streams
<1>3. room[p] \in SfuJoins /\ room[p] # 0 /\ born[room[p]] # 0
  BY <1>1 DEF RoomTypes, RoomInv, ObjectsApart, Sfu!Leave
<1>4. /\ OneWorks(x) /\ IdleIs(work[x]) /\ n.op = "leave" /\ n.p = p /\ n.o = room[p] /\ n.step = "close"
      /\ n.more = {} /\ n.item = Nothing
  <2>1. PICK w : w = [Sfu!Idle EXCEPT !.op = "leave", !.p = p, !.step = "close", !.v = FALSE, !.o = room[p]]
    OBVIOUS
  <2>2. /\ IsWork(w) /\ w.op = "leave" /\ w.p = p /\ w.o = room[p] /\ w.step = "close"
        /\ w.more = {} /\ w.item = Nothing
    BY <2>1 DEF Sfu!Idle, IsWork, Nothing
  <2>3. work' = [work EXCEPT ![x] = w]
    BY <2>1 DEF Sfu!Leave, Sfu!Begins
  <2> QED BY <1>1, <2>2, <2>3, StartsWork
<1>5. /\ flag' = flag \ {p} /\ cons' = {c \in cons : c.to # room[p]}
  BY DEF Sfu!Leave
<1>6. /\ DOMAIN fault' = DOMAIN fault /\ fault'.failed = fault.failed
      /\ fault'.crossed = IF Sfu!Busy(p) THEN fault.crossed \cup {p} ELSE fault.crossed
      /\ fault'.restless = IF Sfu!Busy(p) THEN fault.restless \cup {p} ELSE fault.restless
  BY <1>1 DEF Sfu!Leave, RoomTypes
<1>7. \A y \in AtWork : /\ Deleting(y)' => y # x /\ Deleting(y) /\ work'[y] = work[y]
                        /\ Deleting(y) => Deleting(y)'
  BY <1>4 DEF Deleting, OneWorks, IdleIs
<1>8. ASSUME NEW q \in Peers, q # p
      PROVE  \A y \in AtWork : /\ Joining(y, q)' \/ Leaving(y, q)' \/ Pausing(y, q)' \/ work'[y].p = q => y # x /\ work'[y] = work[y]
                               /\ Joining(y, q) \/ Leaving(y, q) \/ Pausing(y, q) => y # x /\ work'[y] = work[y]
  BY <1>4, <1>8 DEF Joining, Leaving, Pausing, OneWorks, IdleIs
<1>9. Closes({})
  BY <1>2, <1>5 DEF Closes
<1>10. /\ \A q \in Peers : q \in Calm' => q \in Calm /\ (q = p => ~Sfu!Busy(p))
       /\ \A q \in Peers : Even(q)' => Even(q) /\ (q = p => ~Sfu!Busy(p))
  BY <1>6 DEF Calm, Even
<1>11. \A y \in AtWork : ~Sfu!Busy(p) => work[y].p # p /\ ~Deleting(y)
  BY NotBusy
<1>12. ASSUME NEW q \in Peers, Stays(q)'
       PROVE  q # p /\ Stays(q)
  <2>1. Leaving(x, p)'
    BY <1>4 DEF Leaving
  <2>2. q # p
    BY <1>1, <1>12, <2>1 DEF Stays, Gone
  <2>3. \A y \in AtWork : Leaving(y, q) \/ Deleting(y) => (Leaving(y, q) \/ Deleting(y))'
    BY <1>7, <1>8, <2>2 DEF Leaving
  <2> QED BY <1>2, <1>6, <1>10, <1>12, <2>2, <2>3 DEF Stays, Gone
<1>13. \A q \in Peers : room[q] # 0 => StandsBy(q)
  BY <1>2 DEF StandsBy
<1>14. RoomTypes'
  BY <1>1, <1>2, <1>4, <1>5, <1>6 DEF RoomTypes, OneWorks
<1>15. AllFit' /\ StreamsOwned'
  <2>1. WorkFits(x)'
    BY <1>2, <1>3, <1>4 DEF WorkFits, StepFits, Carrying
  <2> QED BY <1>1, <1>2, <1>4, <1>9, <2>1, StreamsClose
<1>16. ObjectsApart'
  BY <1>2, <1>4 DEF RoomInv, ObjectsApart, OneWorks
<1>17. OneAtATime'
  <2> SUFFICES ASSUME NEW q \in Peers, q \in Calm'
               PROVE  OneFor(q)'
    BY DEF OneAtATime, Calm
  <2>1. OneFor(q) /\ (q = p => ~Sfu!Busy(p))
    BY <1>10 DEF RoomInv, OneAtATime
  <2>2. CASE q = p
    <3>1. \A y \in AtWork : /\ (Joining(y, p) \/ Leaving(y, p) \/ Deleting(y))' => y = x
                            /\ ~Joining(y, p)'
      BY <1>4, <1>11, <2>1, <2>2 DEF OneWorks, Joining, Leaving, Deleting
    <3> QED BY <1>2, <1>4, <2>1, <2>2, <3>1 DEF OneFor, Opened
  <2>3. CASE q # p
    BY <1>1, <1>2, <1>4, <1>7, <1>8, <2>1, <2>3, StillOne DEF Opened
  <2> QED BY <2>2, <2>3
<1>18. Equipped'
  <2> SUFFICES ASSUME NEW q \in Peers, Stays(q)'
               PROVE  Has(q)'
    BY DEF Equipped
  <2>1. q # p /\ Stays(q) /\ Has(q)
    BY <1>12 DEF RoomInv, Equipped
  <2> QED BY <1>1, <1>4, <1>8, <1>13, <2>1, StillHas DEF Stays
<1>19. AllMeet'
  <2> SUFFICES ASSUME NEW q \in Peers, NEW r \in Peers, q # r, Stays(q)', Stays(r)'
               PROVE  Meets(q, r)'
    BY DEF AllMeet
  <2>1. q # p /\ Stays(q) /\ Stays(r) /\ Meets(q, r) /\ room[q] # 0 /\ room[r] # 0
    BY <1>12 DEF RoomInv, AllMeet, Stays
  <2>2. room[q] # room[p]
    BY <1>3, <2>1 DEF RoomInv, ObjectsApart
  <2> QED BY <1>1, <1>2, <1>4, <1>5, <1>13, <2>1, <2>2, StillMeet DEF IdleIs
<1>20. SoundsRight'
  <2> SUFFICES ASSUME NEW q \in Peers, Even(q)'
               PROVE  SoundFor(q)'
    BY <1>6 DEF SoundsRight, RoomInv
  <2>1. SoundFor(q) /\ (q = p => ~Sfu!Busy(p))
    BY <1>10 DEF RoomInv, SoundsRight
  <2>2. CASE q = p
    <3>1. \A y \in AtWork : /\ work'[y].p = p \/ Deleting(y)' => y = x
                            /\ ~Pausing(y, p)' /\ ~Joining(y, p)'
      BY <1>4, <1>11, <2>1, <2>2 DEF OneWorks, Joining, Pausing, Deleting
    <3>2. Leaving(x, p)'
      BY <1>4 DEF Leaving
    <3> QED BY <1>1, <2>2, <3>1, <3>2 DEF SoundFor
  <2>3. CASE q # p
    <3>1. q \in flag' <=> q \in flag
      BY <1>5, <2>3
    <3>2. /\ \A y, z \in AtWork :
                 (work'[y].p = q \/ Deleting(y)') /\ (work'[z].p = q \/ Deleting(z)') => y = z
          /\ \A y \in AtWork : Pausing(y, q)' => work'[y].o = room[q] /\ (work'[y].v <=> q \in flag)
          /\ \A y \in AtWork : Joining(y, q)' /\ work'[y].step = "pause" => q \in flag
      BY <1>7, <1>8, <2>1, <2>3 DEF SoundFor, Pausing, Joining
    <3>3. ASSUME room[q] # 0, \A y \in AtWork : ~Leaving(y, q)'
          PROVE  (Plays(q) /\ Passes(q) /\ Carried(q))'
      <4>1. Plays(q) /\ Passes(q) /\ Carried(q)
        BY <1>8, <2>1, <2>3, <3>3 DEF SoundFor, Leaving
      <4> QED BY <1>1, <1>2, <1>4, <1>5, <1>8, <2>3, <3>1, <4>1, StillSounds DEF Sfu!Live
    <3> QED BY <1>2, <3>1, <3>2, <3>3 DEF SoundFor
  <2> QED BY <2>2, <2>3
<1>21. NobodyLeft'
  BY <1>2, <1>6, <1>7 DEF RoomInv, NobodyLeft, Sfu!Live, Sfu!InRoom
<1> QED BY <1>14, <1>15, <1>16, <1>17, <1>18, <1>19, <1>20, <1>21 DEF RoomInv

\* From the start of the deletion on nobody stays, and all in the room are to be closed.
LEMMA CloseRoomKeeps ==
    ASSUME RoomInv, NEW x \in Controls, Sfu!CloseRoom(x)
    PROVE  RoomInv'
<1> DEFINE n == work'[x]
<1>1. /\ x \in AtWork /\ x \notin SfuJoins /\ \A t \in SfuJoins : x # 0 - t
      /\ RoomTypes /\ work[x] = Idle
  BY WhoWorks DEF RoomInv, Sfu!CloseRoom, Idle
<1>2. UNCHANGED <<room, gen, born, owner, current, dtls, prod, pending, cons, flag>>
  BY DEF Sfu!CloseRoom, Sfu!names, Sfu!streams
<1>3. /\ OneWorks(x) /\ IdleIs(work[x]) /\ n.op = "delete" /\ n.p = "none" /\ n.o = 0 /\ n.step = "peers"
      /\ n.todo = Sfu!InRoom /\ n.more = {} /\ n.item = Nothing
  <2>1. PICK w : w = [Sfu!Idle EXCEPT !.op = "delete", !.step = "peers", !.todo = Sfu!InRoom]
    OBVIOUS
  <2>2. /\ IsWork(w) /\ w.op = "delete" /\ w.p = "none" /\ w.o = 0 /\ w.step = "peers"
        /\ w.todo = Sfu!InRoom /\ w.more = {} /\ w.item = Nothing
    BY <2>1 DEF Sfu!Idle, IsWork, Nothing
  <2>3. work' = [work EXCEPT ![x] = w]
    BY <2>1 DEF Sfu!CloseRoom
  <2> QED BY <1>1, <2>2, <2>3, StartsWork
<1>4. PICK busy : busy = {p \in Peers : Sfu!Busy(p)}
  OBVIOUS
<1>5. /\ DOMAIN fault' = DOMAIN fault /\ fault'.crossed = fault.crossed \cup busy
      /\ fault'.restless = fault.restless \cup busy
  BY <1>1, <1>4 DEF Sfu!CloseRoom, RoomTypes
<1>6. /\ \A p \in Peers : p \in Calm' => p \in Calm /\ ~Sfu!Busy(p)
      /\ \A p \in Peers : Even(p)' => Even(p) /\ ~Sfu!Busy(p)
  BY <1>4, <1>5 DEF Calm, Even
<1>7. Deleting(x)'
  BY <1>3 DEF Deleting
<1>8. Closes({})
  BY <1>2 DEF Closes
<1>9. \A p \in Peers : ~Stays(p)'
  BY <1>1, <1>7 DEF Stays, Gone
<1>10. ASSUME NEW p \in Peers, ~Sfu!Busy(p)
       PROVE  \A y \in AtWork : /\ work'[y].p # p
                                /\ ~Joining(y, p)' /\ ~Leaving(y, p)' /\ ~Pausing(y, p)'
                                /\ ~Joining(y, p) /\ ~Leaving(y, p) /\ ~Pausing(y, p)
                                /\ Deleting(y)' => y = x
  <2>1. \A y \in AtWork : work[y].p # p /\ ~Deleting(y)
    BY <1>10, NotBusy
  <2> QED BY <1>3, <2>1, RoomAssumption DEF OneWorks, Joining, Leaving, Pausing, Deleting
<1>11. RoomTypes'
  BY <1>1, <1>2, <1>3, <1>5 DEF RoomTypes, OneWorks
<1>12. AllFit' /\ StreamsOwned'
  <2>1. WorkFits(x)'
    BY <1>3 DEF WorkFits, StepFits, Carrying
  <2> QED BY <1>1, <1>2, <1>3, <1>8, <2>1, StreamsClose
<1>13. ObjectsApart'
  BY <1>2, <1>3, RoomAssumption DEF RoomInv, ObjectsApart, OneWorks
<1>14. OneAtATime'
  <2> SUFFICES ASSUME NEW p \in Peers, p \in Calm'
               PROVE  OneFor(p)'
    BY DEF OneAtATime, Calm
  <2>1. OneFor(p) /\ ~Sfu!Busy(p)
    BY <1>6 DEF RoomInv, OneAtATime
  <2> QED BY <1>2, <1>10, <2>1 DEF OneFor, Opened
<1>15. Equipped' /\ AllMeet'
  BY <1>9 DEF Equipped, AllMeet
<1>16. SoundsRight'
  <2> SUFFICES ASSUME NEW p \in Peers, Even(p)'
               PROVE  SoundFor(p)'
    BY <1>5 DEF SoundsRight, RoomInv
  <2>1. SoundFor(p) /\ ~Sfu!Busy(p)
    BY <1>6 DEF RoomInv, SoundsRight
  <2>2. ASSUME room[p] # 0
        PROVE  (Plays(p) /\ Passes(p) /\ Carried(p))'
    <3>1. Plays(p) /\ Passes(p) /\ Carried(p)
      BY <1>10, <2>1, <2>2 DEF SoundFor
    <3> QED BY <1>1, <1>2, <1>3, <1>10, <2>1, <3>1, StillSounds DEF Sfu!Live
  <2>3. \A y, z \in AtWork : (work'[y].p = p \/ Deleting(y)') /\ (work'[z].p = p \/ Deleting(z)') => y = z
    BY <1>10, <2>1
  <2> QED BY <1>2, <1>10, <2>1, <2>2, <2>3 DEF SoundFor
<1>17. NobodyLeft'
  <2>1. \A y \in AtWork : Deleting(y)' => y = x \/ (Deleting(y) /\ work'[y].todo = work[y].todo)
    BY <1>3 DEF OneWorks, Deleting
  <2> QED BY <1>2, <1>3, <1>5, <2>1 DEF RoomInv, NobodyLeft, Sfu!Live, Sfu!InRoom
<1> QED BY <1>11, <1>12, <1>13, <1>14, <1>15, <1>16, <1>17 DEF RoomInv

\* setPeerAudioPaused: the producers and consumers are to follow the flag.
LEMMA AudioPausedKeeps ==
    ASSUME RoomInv, NEW x \in Controls, NEW p \in Peers, NEW v \in BOOLEAN, Sfu!SetPeerAudioPaused(x, p, v)
    PROVE  RoomInv'
<1> DEFINE n == work'[x]
<1>1. /\ x \in AtWork /\ x \notin SfuJoins /\ \A t \in SfuJoins : x # 0 - t
      /\ RoomTypes /\ work[x] = Idle
  BY WhoWorks DEF RoomInv, Sfu!SetPeerAudioPaused, Sfu!Begins, Idle
<1>2. UNCHANGED <<room, gen, born, owner, current, dtls, prod, pending, cons>>
  BY DEF Sfu!SetPeerAudioPaused, Sfu!names, Sfu!streams
<1>3. room[p] \in SfuJoins /\ room[p] # 0 /\ born[room[p]] # 0
  BY <1>1 DEF RoomTypes, RoomInv, ObjectsApart, Sfu!SetPeerAudioPaused
<1>4. /\ OneWorks(x) /\ IdleIs(work[x]) /\ n.op = "pause" /\ n.p = p /\ n.o = room[p] /\ n.step = "producer"
      /\ n.more = {} /\ n.item = Nothing /\ n.v = v
  <2>1. PICK w : w = [Sfu!Idle EXCEPT !.op = "pause", !.p = p, !.step = "producer", !.v = v, !.o = room[p]]
    OBVIOUS
  <2>2. /\ IsWork(w) /\ w.op = "pause" /\ w.p = p /\ w.o = room[p] /\ w.step = "producer"
        /\ w.more = {} /\ w.item = Nothing /\ w.v = v
    BY <2>1 DEF Sfu!Idle, IsWork, Nothing
  <2>3. work' = [work EXCEPT ![x] = w]
    BY <2>1 DEF Sfu!SetPeerAudioPaused, Sfu!Begins
  <2> QED BY <1>1, <2>2, <2>3, StartsWork
<1>5. /\ flag' \subseteq Peers /\ (p \in flag' <=> v)
      /\ \A q \in Peers : q # p => (q \in flag' <=> q \in flag)
  BY <1>1 DEF Sfu!SetPeerAudioPaused, RoomTypes
<1>6. /\ DOMAIN fault' = DOMAIN fault /\ fault'.failed = fault.failed /\ fault'.crossed = fault.crossed
      /\ fault'.restless = IF Sfu!Restless(p) THEN fault.restless \cup {p} ELSE fault.restless
  BY <1>1 DEF Sfu!SetPeerAudioPaused, RoomTypes
<1>7. /\ \A y \in AtWork : /\ Deleting(y)' => y # x /\ Deleting(y) /\ work'[y] = work[y]
                           /\ Deleting(y) => Deleting(y)'
      /\ \A y \in AtWork : \A q : /\ Joining(y, q)' \/ Leaving(y, q)' => y # x /\ work'[y] = work[y]
                                  /\ Joining(y, q) \/ Leaving(y, q) => y # x /\ work'[y] = work[y]
                                  /\ Leaving(y, q) => Leaving(y, q)'
  BY <1>4 DEF Joining, Leaving, Deleting, OneWorks, IdleIs
<1>8. Closes({})
  BY <1>2 DEF Closes
<1>9. \A q \in Peers : Stays(q)' => Stays(q)
  BY <1>2, <1>6, <1>7 DEF Stays, Calm, Gone
<1>10. \A q \in Peers : room[q] # 0 => StandsBy(q)
  BY <1>2 DEF StandsBy
<1>11. RoomTypes'
  BY <1>1, <1>2, <1>4, <1>5, <1>6 DEF RoomTypes, OneWorks
<1>12. AllFit' /\ StreamsOwned'
  <2>1. WorkFits(x)'
    BY <1>1, <1>2, <1>3, <1>4 DEF WorkFits, StepFits, Carrying
  <2> QED BY <1>1, <1>2, <1>4, <1>8, <2>1, StreamsClose
<1>13. ObjectsApart'
  BY <1>2, <1>4 DEF RoomInv, ObjectsApart, OneWorks
<1>14. OneAtATime'
  <2> SUFFICES ASSUME NEW q \in Peers, q \in Calm
               PROVE  OneFor(q)'
    BY <1>6 DEF OneAtATime, Calm
  <2>1. OneFor(q)
    BY DEF RoomInv, OneAtATime
  <2> QED BY <1>1, <1>2, <1>4, <1>7, <2>1, StillOne DEF Opened
<1>15. Equipped'
  <2> SUFFICES ASSUME NEW q \in Peers, Stays(q)'
               PROVE  Has(q)'
    BY DEF Equipped
  <2>1. Stays(q) /\ Has(q)
    BY <1>9 DEF RoomInv, Equipped
  <2> QED BY <1>1, <1>4, <1>7, <1>10, <2>1, StillHas DEF Stays
<1>16. AllMeet'
  <2> SUFFICES ASSUME NEW q \in Peers, NEW r \in Peers, q # r, Stays(q)', Stays(r)'
               PROVE  Meets(q, r)'
    BY DEF AllMeet
  <2>1. Meets(q, r) /\ room[q] # 0 /\ room[r] # 0
    BY <1>9 DEF RoomInv, AllMeet, Stays
  <2> QED BY <1>1, <1>2, <1>4, <1>10, <2>1, StillMeet DEF IdleIs
<1>17. SoundsRight'
  <2> SUFFICES ASSUME NEW q \in Peers, Even(q)'
               PROVE  SoundFor(q)'
    BY <1>6 DEF SoundsRight, RoomInv
  <2>1. SoundFor(q) /\ (q = p => ~Sfu!Restless(p))
    BY <1>6 DEF RoomInv, SoundsRight, Even
  <2>2. CASE q = p
    <3>1. \A y \in AtWork : work[y].p # p /\ ~Deleting(y)
      BY <2>1, <2>2, NotBusy DEF Sfu!Restless
    <3>2. \A y \in AtWork : /\ work'[y].p = p \/ Deleting(y)' => y = x
                            /\ ~Joining(y, p)' /\ (Pausing(y, p)' => y = x)
      BY <1>4, <3>1 DEF OneWorks, Joining, Pausing, Deleting
    <3>3. Pausing(x, p)'
      BY <1>4 DEF Pausing
    <3>4. Carried(p)'
      <4>1. SUFFICES ASSUME NEW y \in AtWork, work'[y].item # Nothing, owner[work'[y].item.of] = room[p]
                     PROVE  FALSE
        BY <1>2 DEF Carried
      <4>2. work'[y].item = work[y].item /\ y \in AtWork
        BY <1>4, <4>1 DEF OneWorks
      <4>3. work[y].item.of \in SfuJoins /\ work[y].item.of # 0
        BY <4>1, <4>2, WhoWorks DEF RoomInv, AllFit, WorkFits, IsBetween
      <4> QED BY <2>1, <2>2, <4>1, <4>2, <4>3 DEF Sfu!Restless, AtWork
    <3> QED BY <1>1, <1>2, <1>4, <1>5, <2>2, <3>2, <3>3, <3>4 DEF SoundFor, Plays, Passes
  <2>3. CASE q # p
    <3>1. q \in flag' <=> q \in flag
      BY <1>5, <2>3
    <3>2. \A y \in AtWork : work'[y].p = q => y # x /\ work'[y] = work[y]
      BY <1>4, <2>3 DEF OneWorks
    <3>3. /\ \A y, z \in AtWork :
                 (work'[y].p = q \/ Deleting(y)') /\ (work'[z].p = q \/ Deleting(z)') => y = z
          /\ \A y \in AtWork : Pausing(y, q)' => work'[y].o = room[q] /\ (work'[y].v <=> q \in flag)
          /\ \A y \in AtWork : Joining(y, q)' /\ work'[y].step = "pause" => q \in flag
      BY <1>7, <2>1, <3>2 DEF SoundFor, Pausing, Joining
    <3>4. ASSUME room[q] # 0, \A y \in AtWork : ~Leaving(y, q)'
          PROVE  (Plays(q) /\ Passes(q) /\ Carried(q))'
      <4>1. Plays(q) /\ Passes(q) /\ Carried(q)
        BY <1>7, <2>1, <3>4 DEF SoundFor
      <4>2. ~Joining(x, q) /\ ~Pausing(x, q)
        BY <1>1, <1>4 DEF IdleIs, Joining, Pausing
      <4> QED BY <1>1, <1>2, <1>4, <3>1, <4>1, <4>2, StillSounds DEF Sfu!Live
    <3> QED BY <1>2, <3>1, <3>3, <3>4 DEF SoundFor
  <2> QED BY <2>2, <2>3
<1>18. NobodyLeft'
  BY <1>2, <1>6, <1>7 DEF RoomInv, NobodyLeft, Sfu!Live, Sfu!InRoom
<1> QED BY <1>11, <1>12, <1>13, <1>14, <1>15, <1>16, <1>17, <1>18 DEF RoomInv

\* Peer.close closes all that the peer has, and no more.
LEMMA LeftKeeps ==
    ASSUME RoomInv, NEW x \in Controls, Sfu!Left(x)
    PROVE  RoomInv'
<1> DEFINE n == work'[x]
<1>1. /\ x \in AtWork /\ x \notin SfuJoins /\ \A t \in SfuJoins : x # 0 - t
      /\ RoomTypes /\ WorkFits(x) /\ work[x].op = "leave" /\ work[x].step = "close"
  BY WhoWorks DEF RoomInv, AllFit, Sfu!Left
<1>2. PICK p \in Peers, o \in SfuJoins : work[x].p = p /\ work[x].o = o /\ o # 0
  BY <1>1, WhoWorks DEF WorkFits
<1>3. PICK T : T = {t \in SfuJoins : owner[t] = o}
  OBVIOUS
<1>4. /\ UNCHANGED <<gen, born, owner, pending, fault>>
      /\ Sfu!Close(T) /\ cons' = Sfu!Consuming(T, cons)
      /\ current' = [current EXCEPT ![o] = 0] /\ room' = [room EXCEPT ![p] = 0]
      /\ flag' = IF Sfu!InRoom \subseteq {room[p]} THEN {} ELSE flag
      /\ Sfu!Ends(x)
  BY <1>2, <1>3 DEF Sfu!Left
<1>5. /\ Closes(T) /\ DOMAIN dtls' = SfuJoins /\ DOMAIN prod' = SfuJoins
      /\ \A c \in cons : c.on \notin T /\ c.of \notin T => c \in cons'
  BY <1>4, RoomCloses
<1>6. OneWorks(x) /\ n = Idle /\ IdleIs(n) /\ WorkFits(x)'
  BY <1>1, <1>4, RoomEnds
<1>7. Leaving(x, p) /\ ~Deleting(x) /\ work[x].more = {} /\ work[x].item = Nothing
      /\ \A q : ~Joining(x, q) /\ ~Pausing(x, q)
  BY <1>1, <1>2 DEF Leaving, Deleting, Joining, Pausing, WorkFits, Carrying
<1>8. /\ \A y \in AtWork : \A q : Joining(y, q)' \/ Leaving(y, q)' \/ Pausing(y, q)' => y # x /\ work'[y] = work[y]
      /\ \A y \in AtWork : Deleting(y)' => y # x /\ work'[y] = work[y]
      /\ \A y \in AtWork, q \in Peers : work'[y].p = q => y # x /\ work'[y] = work[y]
  BY <1>6, RoomAssumption DEF Joining, Leaving, Pausing, Deleting, OneWorks, IdleIs
<1>9. /\ room'[p] = 0
      /\ \A q \in Peers : q # p => room'[q] = room[q] /\ (room[q] # 0 => room[q] # o)
      /\ \A d \in SfuJoins : d # o => current'[d] = current[d]
      /\ \A d \in SfuJoins : current'[d] \in {0, current[d]}
  BY <1>1, <1>2, <1>4 DEF RoomTypes, RoomInv, ObjectsApart
<1>10. ASSUME NEW q \in Peers, q # p, room[q] # 0
       PROVE  StandsBy(q) /\ (q \in flag' <=> q \in flag) /\ current[room[q]] \notin T
  <2>1. room[q] \in SfuJoins /\ room[q] # o /\ current'[room[q]] = current[room[q]]
    BY <1>1, <1>9, <1>10 DEF RoomTypes
  <2>2. current[room[q]] # 0 => owner[current[room[q]]] = room[q] /\ current[room[q]] \in SfuJoins
    BY <1>1, <2>1 DEF RoomInv, StreamsOwned, RoomTypes
  <2>3. current[room[q]] \notin T
    BY <1>3, <2>1, <2>2, WhoWorks
  <2>4. ~(Sfu!InRoom \subseteq {room[p]})
    BY <1>10 DEF Sfu!InRoom, RoomInv, ObjectsApart
  <2> QED BY <1>4, <1>5, <1>9, <1>10, <2>1, <2>2, <2>3, <2>4 DEF StandsBy, Closes
<1>11. ASSUME NEW q \in Peers, Stays(q)'
       PROVE  q # p /\ Stays(q) /\ room[q] # 0
  <2>1. q # p /\ room[q] # 0 /\ room'[q] = room[q]
    BY <1>9, <1>11 DEF Stays
  <2>2. \A y \in AtWork : Leaving(y, q) \/ Deleting(y) => (Leaving(y, q) \/ Deleting(y))'
    BY <1>1, <1>2, <1>6, <2>1 DEF Leaving, Deleting, OneWorks
  <2> QED BY <1>4, <1>11, <2>1, <2>2 DEF Stays, Gone, Calm
<1>12. RoomTypes'
  BY <1>1, <1>2, <1>4, <1>5, <1>6 DEF RoomTypes, OneWorks
<1>13. AllFit' /\ StreamsOwned'
  BY <1>1, <1>4, <1>5, <1>6, <1>9, StreamsClose
<1>14. ObjectsApart'
  BY <1>4, <1>6, <1>9, RoomAssumption DEF RoomInv, ObjectsApart, OneWorks, IdleIs
<1>15. OneAtATime'
  <2> SUFFICES ASSUME NEW q \in Peers, q \in Calm
               PROVE  OneFor(q)'
    BY <1>4 DEF OneAtATime, Calm
  <2>1. OneFor(q)
    BY DEF RoomInv, OneAtATime
  <2>2. \A t \in SfuJoins : Opened(t)' => Opened(t)
    BY <1>5, StaysClosed
  <2>3. CASE q = p
    <3>1. \A y \in AtWork : ~Joining(y, p)' /\ ~Leaving(y, p)' /\ ~Deleting(y)'
      BY <1>1, <1>7, <1>8, <2>1, <2>3 DEF OneFor, Joining, Leaving, Deleting
    <3> QED BY <1>9, <2>3, <3>1 DEF OneFor
  <2>4. CASE q # p
    <3>1. ~Joining(x, q)' /\ ~Leaving(x, q)' /\ ~Deleting(x)'
      BY <1>1, <1>8
    <3>2. room[q] # 0 => current'[room[q]] = current[room[q]]
      BY <1>10, <2>4 DEF StandsBy
    <3> QED BY <1>1, <1>4, <1>6, <1>9, <2>1, <2>2, <2>4, <3>1, <3>2, StillOne
  <2> QED BY <2>3, <2>4
<1>16. Equipped'
  <2> SUFFICES ASSUME NEW q \in Peers, Stays(q)'
               PROVE  Has(q)'
    BY DEF Equipped
  <2>1. StandsBy(q) /\ Has(q)
    BY <1>10, <1>11 DEF RoomInv, Equipped
  <2> QED BY <1>1, <1>6, <1>7, <2>1, StillHas
<1>17. AllMeet'
  <2> SUFFICES ASSUME NEW q \in Peers, NEW r \in Peers, q # r, Stays(q)', Stays(r)'
               PROVE  Meets(q, r)'
    BY DEF AllMeet
  <2>1. Meets(q, r) /\ StandsBy(q) /\ StandsBy(r) /\ current[room[q]] \notin T /\ current[room[r]] \notin T
    BY <1>10, <1>11 DEF RoomInv, AllMeet
  <2>2. \A c \in cons : c.to = room[q] /\ c.on = current[room[q]] /\ c.of = current[room[r]] => c \in cons'
    BY <1>5, <2>1
  <2> QED BY <1>1, <1>4, <1>6, <1>7, <2>1, <2>2, StillMeet
<1>18. SoundsRight'
  <2> SUFFICES ASSUME NEW q \in Peers, Even(q)
               PROVE  SoundFor(q)'
    BY <1>4 DEF SoundsRight, RoomInv, Even
  <2>1. SoundFor(q) /\ OneFor(q)
    BY DEF RoomInv, SoundsRight, OneAtATime, Even, Calm
  <2>2. CASE q = p
    <3>1. \A y \in AtWork : work'[y].p # p /\ ~Deleting(y)' /\ ~Joining(y, p)' /\ ~Pausing(y, p)'
      BY <1>1, <1>2, <1>8, <2>1, <2>2 DEF SoundFor, Joining, Pausing, Deleting
    <3> QED BY <1>9, <2>2, <3>1 DEF SoundFor
  <2>3. CASE q # p
    <3>1. /\ \A y, z \in AtWork :
                 (work'[y].p = q \/ Deleting(y)') /\ (work'[z].p = q \/ Deleting(z)') => y = z
          /\ \A y \in AtWork : Pausing(y, q)' => Pausing(y, q) /\ work'[y].o = room[q] /\ (work'[y].v <=> q \in flag)
          /\ \A y \in AtWork : Joining(y, q)' /\ work'[y].step = "pause" => Joining(y, q) /\ q \in flag
      BY <1>8, <2>1 DEF SoundFor, Pausing, Joining, Deleting
    <3>2. \A y \in AtWork : Pausing(y, q) \/ Joining(y, q) => room[q] # 0
      BY <2>1, WhoWorks DEF SoundFor, OneFor, RoomInv, AllFit, WorkFits, Joining, Pausing
    <3>3. ASSUME room[q] # 0, \A y \in AtWork : ~Leaving(y, q)'
          PROVE  (Plays(q) /\ Passes(q) /\ Carried(q))'
      <4>1. \A y \in AtWork : ~Leaving(y, q)
        BY <1>1, <1>2, <1>6, <2>3, <3>3 DEF Leaving, OneWorks
      <4>2. Plays(q) /\ Passes(q) /\ Carried(q)
        BY <2>1, <3>3, <4>1 DEF SoundFor
      <4>3. cons' \subseteq cons /\ \A t \in SfuJoins : Sfu!Live(t)' => Sfu!Live(t) /\ prod'[t] = prod[t]
        BY <1>5, StaysClosed DEF Closes
      <4>4. (q \in flag' <=> q \in flag) /\ room'[q] = room[q]
        BY <1>9, <1>10, <2>3, <3>3
      <4> QED BY <1>1, <1>4, <1>6, <1>7, <4>2, <4>3, <4>4, StillSounds DEF IdleIs
    <3> QED BY <1>9, <1>10, <2>3, <3>1, <3>2, <3>3 DEF SoundFor
  <2> QED BY <2>2, <2>3
<1>19. NobodyLeft'
  <2> SUFFICES ASSUME fault.crossed = {}
               PROVE  /\ \A q \in SfuJoins : Sfu!Live(q)' => owner[q] \in Sfu!InRoom'
                      /\ \A y \in AtWork, q \in SfuJoins :
                            Deleting(y)' /\ Sfu!Live(q)' => owner[q] \in work'[y].todo
    BY <1>4 DEF NobodyLeft
  <2>1. OneFor(p)
    BY DEF Calm, RoomInv, OneAtATime
  <2>2. room[p] = o /\ \A y \in AtWork : ~Deleting(y)
    BY <1>1, <1>2, <1>7, <2>1 DEF OneFor
  <2>3. ASSUME NEW q \in SfuJoins, Sfu!Live(q)'
        PROVE  owner[q] \in Sfu!InRoom'
    <3>1. Sfu!Live(q) /\ q \notin T
      BY <1>5, <2>3, StaysClosed
    <3>2. owner[q] \in Sfu!InRoom /\ owner[q] # o
      BY <1>3, <3>1 DEF RoomInv, NobodyLeft
    <3>3. PICK r \in Peers : room[r] = owner[q] /\ owner[q] # 0
      BY <3>2 DEF Sfu!InRoom
    <3> QED BY <1>9, <2>2, <3>2, <3>3 DEF Sfu!InRoom
  <2> QED BY <1>8, <2>2, <2>3 DEF Deleting
<1> QED BY <1>12, <1>13, <1>14, <1>15, <1>16, <1>17, <1>18, <1>19 DEF RoomInv

\* What the closed peer had was the last that could be heard of it.
LEMMA ClosePeerKeeps ==
    ASSUME RoomInv, NEW x \in Controls, Sfu!ClosePeer(x)
    PROVE  RoomInv'
<1> DEFINE n == work'[x]
<1>1. /\ x \in AtWork /\ x \notin SfuJoins /\ \A t \in SfuJoins : x # 0 - t
      /\ RoomTypes /\ WorkFits(x) /\ work[x].step = "peers"
  BY WhoWorks DEF RoomInv, AllFit, Sfu!ClosePeer
<1>2. work[x].op = "delete" /\ work[x].p = "none" /\ work[x].more = {} /\ work[x].item = Nothing
  BY <1>1 DEF WorkFits, StepFits, Carrying
<1>3. PICK o, T :
          /\ o \in work[x].todo /\ T = {t \in SfuJoins : owner[t] = o}
          /\ Sfu!Close(T) /\ cons' = Sfu!Consuming(T, cons)
          /\ current' = [current EXCEPT ![o] = 0]
          /\ work' = [work EXCEPT ![x].todo = work[x].todo \ {o}]
  BY DEF Sfu!ClosePeer
<1>4. UNCHANGED <<room, gen, born, owner, pending, flag, fault>>
  BY DEF Sfu!ClosePeer, Sfu!names
<1>5. /\ Closes(T) /\ DOMAIN dtls' = SfuJoins /\ DOMAIN prod' = SfuJoins
  BY <1>3, RoomCloses
<1>6. /\ OneWorks(x) /\ n.op = "delete" /\ n.p = "none" /\ n.o = work[x].o /\ n.step = "peers"
      /\ n.todo = work[x].todo \ {o} /\ n.more = {} /\ n.item = Nothing /\ n.v = work[x].v
  BY <1>1, <1>2, <1>3 DEF RoomTypes, OneWorks, IsWork
<1>7. WorkFits(x)'
  BY <1>1, <1>2, <1>4, <1>6 DEF WorkFits, StepFits, Carrying
<1>8. /\ DOMAIN current' = SfuJoins /\ \A d \in SfuJoins : current'[d] \in {0, current[d]}
      /\ \A d \in SfuJoins : d # o => current'[d] = current[d]
  BY <1>1, <1>3 DEF RoomTypes
<1>9. /\ Deleting(x) /\ Deleting(x)'
      /\ \A y \in AtWork : work'[y].p = work[y].p /\ (Deleting(y)' <=> Deleting(y))
      /\ \A y \in AtWork : \A q : /\ Joining(y, q)' => Joining(y, q)
                                  /\ Leaving(y, q)' <=> Leaving(y, q)
                                  /\ Pausing(y, q)' => Pausing(y, q)
      /\ \A y \in AtWork : y # x => work'[y] = work[y]
  BY <1>2, <1>6 DEF OneWorks, Joining, Leaving, Pausing, Deleting
<1>10. \A q \in Peers : ~Stays(q)'
  BY <1>1, <1>9 DEF Stays, Gone
<1>11. RoomTypes'
  BY <1>1, <1>4, <1>5, <1>6, <1>8 DEF RoomTypes, OneWorks
<1>12. AllFit' /\ StreamsOwned'
  BY <1>1, <1>4, <1>5, <1>6, <1>7, <1>8, StreamsClose
<1>13. ObjectsApart'
  BY <1>4, <1>6, RoomAssumption DEF RoomInv, ObjectsApart, OneWorks
<1>14. OneAtATime'
  <2> SUFFICES ASSUME NEW q \in Peers, q \in Calm
               PROVE  OneFor(q)'
    BY <1>4 DEF OneAtATime, Calm
  <2>1. OneFor(q)
    BY DEF RoomInv, OneAtATime
  <2>2. \A y \in AtWork : /\ Joining(y, q)' \/ Leaving(y, q)' \/ Deleting(y)' => y = x
                          /\ ~Joining(y, q)' /\ ~Leaving(y, q)'
    BY <1>1, <1>2, <1>9, <2>1 DEF OneFor, Joining, Leaving
  <2>3. ASSUME room[q] # 0, NEW t \in SfuJoins, owner[t] = room[q], Opened(t)'
        PROVE  t = current'[room[q]]
    <3>1. Opened(t) /\ t \notin T
      BY <1>5, <2>3, StaysClosed
    <3>2. room[q] # o /\ room[q] \in SfuJoins
      BY <1>1, <1>3, <2>3, <3>1 DEF RoomTypes
    <3> QED BY <1>8, <2>1, <2>3, <3>1, <3>2 DEF OneFor
  <2> QED BY <1>4, <2>2, <2>3 DEF OneFor
<1>15. Equipped' /\ AllMeet'
  BY <1>10 DEF Equipped, AllMeet
<1>16. SoundsRight'
  <2> SUFFICES ASSUME NEW q \in Peers, Even(q)
               PROVE  SoundFor(q)'
    BY <1>4 DEF SoundsRight, RoomInv, Even
  <2>1. SoundFor(q)
    BY DEF RoomInv, SoundsRight
  <2>2. \A y, z \in AtWork :
            (work'[y].p = q \/ Deleting(y)') /\ (work'[z].p = q \/ Deleting(z)') => y = z
    BY <1>9, <2>1 DEF SoundFor
  <2>3. \A y \in AtWork : work[y].p # q
    BY <1>1, <1>2, <1>9, <2>1, RoomAssumption DEF SoundFor
  <2>4. \A y \in AtWork : ~Pausing(y, q)' /\ ~Joining(y, q)' /\ ~Leaving(y, q)
    BY <1>9, <2>3 DEF Pausing, Joining, Leaving
  <2>5. ASSUME room[q] # 0
        PROVE  (Plays(q) /\ Passes(q) /\ Carried(q))'
    <3>1. Plays(q) /\ Passes(q) /\ Carried(q)
      BY <2>1, <2>4, <2>5 DEF SoundFor
    <3>2. cons' \subseteq cons /\ \A t \in SfuJoins : Sfu!Live(t)' => Sfu!Live(t) /\ prod'[t] = prod[t]
      BY <1>5, StaysClosed DEF Closes
    <3>3. ~Pausing(x, q) /\ ~Joining(x, q)
      BY <1>2 DEF Pausing, Joining
    <3> QED BY <1>1, <1>4, <1>6, <3>1, <3>2, <3>3, StillSounds
  <2> QED BY <1>4, <2>2, <2>4, <2>5 DEF SoundFor
<1>17. NobodyLeft'
  <2> SUFFICES ASSUME fault.crossed = {}, NEW q \in SfuJoins, Sfu!Live(q)'
               PROVE  /\ owner[q] \in Sfu!InRoom
                      /\ \A y \in AtWork : Deleting(y)' => owner[q] \in work'[y].todo
    BY <1>4 DEF NobodyLeft, Sfu!InRoom
  <2>1. Sfu!Live(q) /\ owner[q] # o
    BY <1>3, <1>5, StaysClosed
  <2>2. /\ owner[q] \in Sfu!InRoom
        /\ \A y \in AtWork : Deleting(y) => owner[q] \in work[y].todo
    BY <2>1 DEF RoomInv, NobodyLeft
  <2> QED BY <1>6, <1>9, <2>1, <2>2
<1> QED BY <1>11, <1>12, <1>13, <1>14, <1>15, <1>16, <1>17 DEF RoomInv

\* When all peers are closed nothing is left that is produced.
LEMMA ClosedRoomKeeps ==
    ASSUME RoomInv, NEW x \in Controls, Sfu!ClosedRoom(x)
    PROVE  RoomInv'
<1> DEFINE n == work'[x]
<1>1. /\ x \in AtWork /\ x \notin SfuJoins /\ \A t \in SfuJoins : x # 0 - t
      /\ RoomTypes /\ WorkFits(x) /\ work[x].step = "peers" /\ work[x].todo = {}
  BY WhoWorks DEF RoomInv, AllFit, Sfu!ClosedRoom
<1>2. work[x].op = "delete"
  BY <1>1 DEF WorkFits, StepFits
<1>3. /\ room' = [p \in Peers |-> 0] /\ Sfu!Ends(x)
      /\ UNCHANGED <<gen, born, owner, current, dtls, prod, pending, cons, flag, fault>>
  BY DEF Sfu!ClosedRoom, Sfu!streams
<1>4. OneWorks(x) /\ n = Idle /\ IdleIs(n) /\ WorkFits(x)'
  BY <1>1, <1>3, RoomEnds
<1>5. Closes({})
  BY <1>3 DEF Closes
<1>6. /\ Deleting(x)
      /\ \A y \in AtWork : \A q : Joining(y, q)' \/ Leaving(y, q)' \/ Pausing(y, q)' => y # x /\ work'[y] = work[y]
      /\ \A y \in AtWork : Deleting(y)' => y # x /\ work'[y] = work[y]
      /\ \A y \in AtWork, q \in Peers : work'[y].p = q => y # x /\ work'[y] = work[y]
  BY <1>2, <1>4, RoomAssumption DEF Joining, Leaving, Pausing, Deleting, OneWorks, IdleIs
<1>7. RoomTypes'
  BY <1>1, <1>3, <1>4 DEF RoomTypes, OneWorks
<1>8. AllFit' /\ StreamsOwned'
  BY <1>1, <1>3, <1>4, <1>5, StreamsClose
<1>9. ObjectsApart'
  BY <1>3 DEF ObjectsApart
<1>10. OneAtATime'
  <2> SUFFICES ASSUME NEW q \in Peers, q \in Calm
               PROVE  OneFor(q)'
    BY <1>3 DEF OneAtATime, Calm
  <2>1. OneFor(q)
    BY DEF RoomInv, OneAtATime
  <2>2. \A y \in AtWork : ~Joining(y, q)' /\ ~Leaving(y, q)' /\ ~Deleting(y)'
    BY <1>1, <1>6, <2>1 DEF OneFor, Joining, Leaving, Deleting
  <2> QED BY <1>3, <2>2 DEF OneFor
<1>11. Equipped' /\ AllMeet'
  BY <1>3 DEF Equipped, AllMeet, Stays
<1>12. SoundsRight'
  <2> SUFFICES ASSUME NEW q \in Peers, Even(q)
               PROVE  SoundFor(q)'
    BY <1>3 DEF SoundsRight, RoomInv, Even
  <2>1. SoundFor(q)
    BY DEF RoomInv, SoundsRight
  <2>2. \A y \in AtWork : work'[y].p # q /\ ~Deleting(y)' /\ ~Pausing(y, q)' /\ ~Joining(y, q)'
    BY <1>1, <1>6, <2>1 DEF SoundFor, Pausing, Joining, Deleting
  <2> QED BY <1>3, <2>2 DEF SoundFor
<1>13. NobodyLeft'
  <2> SUFFICES ASSUME fault.crossed = {}, NEW q \in SfuJoins, Sfu!Live(q)
               PROVE  FALSE
    BY <1>3 DEF NobodyLeft, Sfu!Live
  <2> QED BY <1>1, <1>6 DEF RoomInv, NobodyLeft
<1> QED BY <1>7, <1>8, <1>9, <1>10, <1>11, <1>12, <1>13 DEF RoomInv

\* getOrCreatePeer: an old transport is closed, and whoever joins is to meet all others.
LEMMA JoinKeeps ==
    ASSUME RoomInv, NEW j \in SfuJoins, NEW p \in Peers, Sfu!Join(j, p)
    PROVE  RoomInv'
<1> DEFINE n == work'[j]
<1>1. /\ j \in AtWork /\ j # 0 /\ \A t \in SfuJoins : j # 0 - t
      /\ RoomTypes /\ work[j] = Idle /\ born[j] = 0 /\ IdleIs(work[j])
  BY WhoWorks, IdleHolds DEF RoomInv, Sfu!Join, Idle
<1>2. PICK o : o = IF room[p] = 0 THEN j ELSE room[p]
  OBVIOUS
<1>3. PICK T : T = {current[o]} \ {0}
  OBVIOUS
<1>4. /\ room' = [room EXCEPT ![p] = o]
      /\ gen' = IF Sfu!InRoom = {} THEN gen + 1 ELSE gen
      /\ born' = [born EXCEPT ![j] = gen']
      /\ Sfu!Close(T) /\ cons' = Sfu!Consuming(T, cons)
      /\ current' = [current EXCEPT ![o] = 0] /\ pending' = [pending EXCEPT ![o] = {}]
      /\ UNCHANGED <<owner, flag>>
  BY <1>2, <1>3 DEF Sfu!Join
<1>5. /\ OneWorks(j) /\ n.op = "join" /\ n.p = p /\ n.o = o /\ n.step = "transport"
      /\ n.todo = {} /\ n.more = {} /\ n.item = Nothing
  <2>1. PICK w : w = [Sfu!Idle EXCEPT !.op = "join", !.p = p, !.o = o, !.step = "transport"]
    OBVIOUS
  <2>2. /\ IsWork(w) /\ w.op = "join" /\ w.p = p /\ w.o = o /\ w.step = "transport"
        /\ w.todo = {} /\ w.more = {} /\ w.item = Nothing
    BY <2>1 DEF Sfu!Idle, IsWork, Nothing
  <2>3. work' = [work EXCEPT ![j] = w]
    BY <1>2, <2>1 DEF Sfu!Join
  <2> QED BY <1>1, <2>2, <2>3, StartsWork
<1>6. /\ DOMAIN fault' = DOMAIN fault /\ fault'.failed = fault.failed \ {p}
      /\ fault'.crossed = IF Sfu!Busy(p) THEN fault.crossed \cup {p} ELSE fault.crossed
      /\ fault'.restless = IF Sfu!Busy(p) THEN fault.restless \cup {p} ELSE fault.restless
  BY <1>1 DEF Sfu!Join, RoomTypes
<1>7. /\ Closes(T) /\ DOMAIN dtls' = SfuJoins /\ DOMAIN prod' = SfuJoins
      /\ \A c \in cons : c.on \notin T /\ c.of \notin T => c \in cons'
  BY <1>4, RoomCloses
<1>8. \A q \in Peers : room[q] # 0 => room[q] \in SfuJoins /\ born[room[q]] # 0 /\ room[q] # j
  BY <1>1 DEF RoomTypes, RoomInv, ObjectsApart
<1>9. /\ o \in SfuJoins /\ o # 0 /\ room'[p] = o
      /\ \A q \in Peers : q # p => room'[q] = room[q] /\ (room[q] # 0 => room[q] # o)
  BY <1>1, <1>2, <1>4, <1>8 DEF RoomTypes, RoomInv, ObjectsApart
<1>10. /\ gen' \in Nat /\ gen' # 0 /\ born'[j] = gen'
       /\ \A d \in SfuJoins : d # j => born'[d] = born[d]
       /\ \A q \in Peers : q # p /\ room[q] # 0 => gen' = gen
       /\ room[p] # 0 => gen' = gen
  <2>1. \A q \in Peers : room[q] # 0 => Sfu!InRoom # {}
    BY DEF Sfu!InRoom
  <2>2. Sfu!InRoom # {} => gen # 0
    BY DEF Sfu!InRoom, RoomInv, ObjectsApart
  <2>3. gen \in Nat /\ DOMAIN born = SfuJoins
    BY <1>1 DEF RoomTypes
  <2>4. gen' \in Nat /\ gen' # 0
    BY <1>4, <2>2, <2>3
  <2> QED BY <1>4, <2>1, <2>3, <2>4
<1>11. born'[o] # 0 /\ \A d \in SfuJoins : born[d] # 0 => born'[d] # 0
  BY <1>1, <1>2, <1>8, <1>10
<1>12. /\ \A d \in SfuJoins : d # o => current'[d] = current[d] /\ pending'[d] = pending[d]
       /\ current'[o] = 0 /\ pending'[o] = {}
       /\ \A d \in SfuJoins : current'[d] \in {0, current[d]} /\ pending'[d] \subseteq pending[d]
  BY <1>1, <1>4, <1>9 DEF RoomTypes
<1>13. \A t \in SfuJoins : owner[t] # j /\ owner[j] = 0
  BY <1>1 DEF RoomInv, StreamsOwned
<1>14. /\ \A y \in AtWork : Deleting(y) <=> Deleting(y)'
       /\ ~Deleting(j) /\ ~Deleting(j)'
       /\ \A y \in AtWork : \A q : /\ Leaving(y, q) <=> Leaving(y, q)'
                                   /\ Pausing(y, q) <=> Pausing(y, q)'
                                   /\ Joining(y, q) => y # j /\ Joining(y, q)'
                                   /\ Joining(y, q)' /\ y # j => Joining(y, q)
                                   /\ y = j => ~Joining(y, q) /\ ~Leaving(y, q) /\ ~Pausing(y, q)
       /\ \A y \in AtWork : y # j => work'[y] = work[y]
  BY <1>1, <1>5 DEF OneWorks, Joining, Leaving, Pausing, Deleting, IdleIs
<1>15. Joining(j, p)' /\ \A q \in Peers : Joining(j, q)' => q = p
  BY <1>5 DEF Joining
<1>16. /\ \A q \in Peers : q \in Calm' => q \in Calm /\ (q = p => ~Sfu!Busy(p))
       /\ \A q \in Peers : Even(q)' => Even(q) /\ (q = p => ~Sfu!Busy(p))
  BY <1>6 DEF Calm, Even
<1>17. \A y \in AtWork : ~Sfu!Busy(p) => work[y].p # p /\ ~Deleting(y)
  BY NotBusy
<1>18. ASSUME NEW q \in Peers, q # p, Stays(q)'
       PROVE  Stays(q) /\ room[q] # 0
  BY <1>6, <1>9, <1>14, <1>16, <1>18 DEF Stays, Gone
<1>19. ASSUME NEW q \in Peers, q # p, room[q] # 0
       PROVE  StandsBy(q) /\ current[room[q]] \notin T /\ pending'[room[q]] = pending[room[q]]
  <2>1. /\ room[q] \in SfuJoins /\ room[q] # o /\ current'[room[q]] = current[room[q]]
        /\ pending'[room[q]] = pending[room[q]]
    BY <1>8, <1>9, <1>12, <1>19
  <2>2. current[room[q]] # 0 => owner[current[room[q]]] = room[q] /\ current[room[q]] \in SfuJoins
    BY <1>1, <2>1 DEF RoomInv, StreamsOwned, RoomTypes
  <2>3. current[o] # 0 => owner[current[o]] = o
    BY <1>9 DEF RoomInv, StreamsOwned
  <2>4. current[room[q]] \notin T
    BY <1>3, <2>1, <2>2, <2>3
  <2> QED BY <1>7, <1>9, <1>19, <2>1, <2>2, <2>4 DEF StandsBy, Closes
<1>20. RoomTypes'
  BY <1>1, <1>4, <1>5, <1>6, <1>7, <1>9, <1>10 DEF RoomTypes, OneWorks
<1>21. AllFit' /\ StreamsOwned'
  <2>1. WorkFits(j)'
    BY <1>1, <1>4, <1>5, <1>9, <1>10, <1>11, <1>13, WhoWorks DEF WorkFits, StepFits, Carrying
  <2> QED BY <1>1, <1>4, <1>5, <1>7, <1>11, <1>12, <2>1, StreamsClose
<1>22. ObjectsApart'
  <2>1. \A q, r \in Peers : room'[q] # 0 /\ room'[q] = room'[r] => q = r
    BY <1>9 DEF RoomInv, ObjectsApart
  <2>2. \A q \in Peers : room'[q] # 0 => born'[room'[q]] = gen'
    BY <1>1, <1>2, <1>8, <1>9, <1>10 DEF RoomInv, ObjectsApart
  <2>3. ASSUME NEW y \in AtWork, NEW q \in Peers, work'[y].p \in Peers, room'[q] # 0, work'[y].o = room'[q]
        PROVE  work'[y].p = q
    <3>1. CASE y = j
      BY <1>5, <1>9, <2>1, <2>3, <3>1
    <3>2. CASE y # j
      <4>1. work'[y] = work[y] /\ WorkFits(y)
        BY <1>14, <3>2 DEF RoomInv, AllFit
      <4>2. work[y].o \in SfuJoins /\ born[work[y].o] # 0 /\ work[y].o # j
        BY <1>1, <2>3, <4>1, RoomAssumption, WhoWorks DEF WorkFits
      <4>3. room'[q] = room[q]
        BY <1>2, <1>9, <2>3, <4>1, <4>2
      <4> QED BY <2>3, <4>1, <4>3 DEF RoomInv, ObjectsApart
    <3> QED BY <3>1, <3>2
  <2> QED BY <1>10, <2>1, <2>2, <2>3 DEF ObjectsApart
<1>23. OneAtATime'
  <2> SUFFICES ASSUME NEW q \in Peers, q \in Calm'
               PROVE  OneFor(q)'
    BY DEF OneAtATime, Calm
  <2>1. OneFor(q) /\ (q = p => ~Sfu!Busy(p))
    BY <1>16 DEF RoomInv, OneAtATime
  <2>2. \A t \in SfuJoins : Opened(t)' => Opened(t) /\ t \notin T
    BY <1>7, StaysClosed
  <2>3. CASE q = p
    <3>1. \A y \in AtWork : (Joining(y, p) \/ Leaving(y, p) \/ Deleting(y))' => y = j
      BY <1>14, <1>17, <2>1, <2>3 DEF Joining, Leaving
    <3>2. \A y \in AtWork : ~Leaving(y, p)' \/ y # j
      BY <1>14
    <3>3. ASSUME NEW t \in SfuJoins, owner[t] = o, Opened(t)'
          PROVE  FALSE
      <4>1. room[p] = o
        BY <1>2, <1>13, <3>3
      <4>2. t = current[o] /\ t # 0
        BY <1>9, <2>1, <2>2, <2>3, <3>3, <4>1, WhoWorks DEF OneFor
      <4> QED BY <1>3, <2>2, <3>3, <4>2
    <3> QED BY <1>4, <1>5, <1>9, <1>12, <2>3, <3>1, <3>3 DEF OneFor
  <2>4. CASE q # p
    <3>1. ~Joining(j, q)' /\ ~Leaving(j, q)' /\ ~Deleting(j)'
      BY <1>1, <1>14, <1>15, <2>4
    <3>2. room[q] # 0 => current'[room[q]] = current[room[q]]
      BY <1>19, <2>4 DEF StandsBy
    <3> QED BY <1>1, <1>4, <1>5, <1>9, <2>1, <2>2, <2>4, <3>1, <3>2, StillOne
  <2> QED BY <2>3, <2>4
<1>24. Equipped'
  <2> SUFFICES ASSUME NEW q \in Peers, Stays(q)'
               PROVE  Has(q)'
    BY DEF Equipped
  <2>1. CASE q = p
    BY <1>1, <1>5, <1>15, <2>1 DEF Has
  <2>2. CASE q # p
    <3>1. StandsBy(q) /\ Has(q)
      BY <1>18, <1>19, <2>2 DEF RoomInv, Equipped
    <3> QED BY <1>1, <1>5, <1>14, <3>1, StillHas
  <2> QED BY <2>1, <2>2
<1>25. AllMeet'
  <2> SUFFICES ASSUME NEW q \in Peers, NEW r \in Peers, q # r, Stays(q)', Stays(r)'
               PROVE  Meets(q, r)'
    BY DEF AllMeet
  <2>1. CASE q = p
    BY <1>1, <1>5, <1>15, <2>1 DEF Meets, Fetches
  <2>2. CASE r = p
    BY <1>1, <1>5, <1>15, <2>2 DEF Meets, Pipes
  <2>3. CASE q # p /\ r # p
    <3>1. /\ Meets(q, r) /\ StandsBy(q) /\ StandsBy(r)
          /\ current[room[q]] \notin T /\ current[room[r]] \notin T /\ pending'[room[q]] = pending[room[q]]
      BY <1>18, <1>19, <2>3 DEF RoomInv, AllMeet
    <3>2. \A c \in cons : c.to = room[q] /\ c.on = current[room[q]] /\ c.of = current[room[r]] => c \in cons'
      BY <1>7, <3>1
    <3> QED BY <1>1, <1>5, <3>1, <3>2, StillMeet DEF IdleIs
  <2> QED BY <2>1, <2>2, <2>3
<1>26. SoundsRight'
  <2> SUFFICES ASSUME NEW q \in Peers, Even(q)'
               PROVE  SoundFor(q)'
    BY <1>6 DEF SoundsRight, RoomInv
  <2>1. SoundFor(q) /\ (q = p => ~Sfu!Busy(p))
    BY <1>16 DEF RoomInv, SoundsRight
  <2>2. cons' \subseteq cons /\ \A t \in SfuJoins : Sfu!Live(t)' => Sfu!Live(t) /\ prod'[t] = prod[t]
    BY <1>7, StaysClosed DEF Closes
  <2>3. /\ \A y, z \in AtWork :
               (work'[y].p = q \/ Deleting(y)') /\ (work'[z].p = q \/ Deleting(z)') => y = z
        /\ \A y \in AtWork : Pausing(y, q)' => work'[y].o = room'[q] /\ (work'[y].v <=> q \in flag)
        /\ \A y \in AtWork : Joining(y, q)' /\ work'[y].step = "pause" => q \in flag
    <3>1. CASE q = p
      BY <1>5, <1>14, <1>17, <2>1, <3>1 DEF Joining, Pausing
    <3>2. CASE q # p
      <4>1. \A y \in AtWork : work'[y].p = q \/ Deleting(y)' => y # j /\ work'[y] = work[y]
        BY <1>5, <1>14, <3>2
      <4> QED BY <1>9, <1>14, <2>1, <3>2, <4>1 DEF SoundFor, Pausing, Joining, Deleting
    <3> QED BY <3>1, <3>2
  <2>4. ASSUME room'[q] # 0, \A y \in AtWork : ~Leaving(y, q)'
        PROVE  (Plays(q) /\ Passes(q) /\ Carried(q))'
    <3>1. CASE room[q] # 0
      <4>1. room'[q] = room[q]
        BY <1>2, <1>9, <3>1
      <4>2. Plays(q) /\ Passes(q) /\ Carried(q)
        BY <1>14, <2>1, <2>4, <3>1 DEF SoundFor
      <4> QED BY <1>1, <1>4, <1>5, <1>14, <2>2, <4>1, <4>2, StillSounds
    <3>2. CASE room[q] = 0
      <4>1. room'[q] = j
        BY <1>2, <1>9, <2>4, <3>2
      <4>2. \A c \in cons' : owner[c.of] # j
        BY <1>13, <2>2 DEF RoomInv, StreamsOwned, IsBetween
      <4>3. \A y \in AtWork : work'[y].item # Nothing => owner[work'[y].item.of] # j
        <5>1. \A y \in AtWork : work'[y].item # Nothing => work[y].item = work'[y].item
          BY <1>5, <1>14
        <5> QED BY <1>13, <5>1 DEF RoomInv, AllFit, WorkFits, IsBetween
      <4> QED BY <1>4, <1>13, <4>1, <4>2, <4>3 DEF Plays, Passes, Carried
    <3> QED BY <3>1, <3>2
  <2> QED BY <1>4, <2>3, <2>4 DEF SoundFor
<1>27. NobodyLeft'
  <2> SUFFICES ASSUME fault'.crossed = {}, NEW q \in SfuJoins, Sfu!Live(q)'
               PROVE  /\ owner[q] \in Sfu!InRoom'
                      /\ \A y \in AtWork : ~Deleting(y)'
    BY <1>4 DEF NobodyLeft
  <2>1. fault.crossed = {} /\ ~Sfu!Busy(p)
    BY <1>6
  <2>2. owner[q] \in Sfu!InRoom
    BY <1>7, <2>1, StaysClosed DEF RoomInv, NobodyLeft
  <2>3. \A y \in Peers : room[y] # 0 => room'[y] = room[y]
    BY <1>2, <1>9
  <2> QED BY <1>14, <1>17, <2>1, <2>2, <2>3 DEF Sfu!InRoom
<1> QED BY <1>20, <1>21, <1>22, <1>23, <1>24, <1>25, <1>26, <1>27 DEF RoomInv

-----------------------------------------------------------------------------
(* The room: all of it *)

\* At the start the room is not there, or one peer is alone in it.
LEMMA RoomStarts ==
    ASSUME Sfu!Init
    PROVE  RoomInv
<1>1. PICK b \in SfuBudgets, first \in Peers :
          /\ room = [p \in Peers |-> IF b[1] /\ p = first THEN 1 ELSE 0]
          /\ gen = IF b[1] THEN 1 ELSE 0
          /\ born = [j \in SfuJoins |-> IF b[1] /\ j = 1 THEN 1 ELSE 0]
          /\ owner = [j \in SfuJoins |-> IF b[1] /\ j = 1 THEN 1 ELSE 0]
          /\ current = [j \in SfuJoins |-> IF b[1] /\ j = 1 THEN 1 ELSE 0]
          /\ dtls = [j \in SfuJoins |-> IF b[1] /\ j = 1 THEN "connected" ELSE "none"]
          /\ prod = [j \in SfuJoins |-> IF b[1] /\ j = 1 THEN "playing" ELSE "none"]
          /\ pending = [j \in SfuJoins |-> {}] /\ cons = {} /\ flag = {}
          /\ work = [x \in Sfu!Handling |-> Sfu!Idle]
          /\ fault = [crossed |-> {}, failed |-> {}, restless |-> {}]
  BY DEF Sfu!Init
<1>2. PICK there : there \in BOOLEAN /\ (there <=> b[1]) /\ (there => 1 \in SfuJoins)
  BY RoomAssumption
<1>3. \A x \in AtWork : work[x] = Idle
  BY <1>1 DEF AtWork, Idle
<1>4. \A x \in AtWork : IsWork(work[x]) /\ IdleIs(work[x])
  BY <1>3, IdleHolds
<1>5. RoomTypes
  BY <1>1, <1>2, <1>4 DEF RoomTypes, AtWork
<1>6. AllFit
  BY <1>4 DEF AllFit, WorkFits, IdleIs, StepFits
<1>7. \A x \in AtWork : \A p : ~Joining(x, p) /\ ~Leaving(x, p) /\ ~Deleting(x) /\ ~Pausing(x, p)
  BY <1>4 DEF IdleIs, Joining, Leaving, Deleting, Pausing
<1>8. ObjectsApart
  BY <1>1, <1>2, <1>4, RoomAssumption DEF ObjectsApart, IdleIs
<1>9. \A t \in SfuJoins : Sfu!Live(t) <=> (there /\ t = 1)
  BY <1>1, <1>2 DEF Sfu!Live
<1>10. StreamsOwned
  <2>1. \A t \in SfuJoins : /\ owner[t] # 0 => born[owner[t]] # 0 /\ born[t] # 0
                            /\ current[t] # 0 => owner[current[t]] = t
                            /\ owner[t] = 0 <=> dtls[t] = "none"
                            /\ dtls[t] \in {"none", "new", "connected", "closed"}
                            /\ Sfu!Live(t) => Opened(t)
    BY <1>1, <1>2, <1>9 DEF Opened
  <2>2. \A t \in SfuJoins : pending[t] = {} /\ work[0 - t] = Idle
    BY <1>1, <1>3, WhoWorks
  <2> QED BY <1>1, <2>1, <2>2 DEF StreamsOwned
<1>11. OneAtATime
  BY <1>1, <1>2, <1>7, WhoWorks DEF OneAtATime, OneFor, Calm
<1>12. ASSUME NEW p \in Peers, Stays(p)
       PROVE  there /\ p = first /\ room[p] = 1
  BY <1>1, <1>2, <1>12 DEF Stays
<1>13. Equipped
  BY <1>1, <1>2, <1>9, <1>12 DEF Equipped, Has, Opened
<1>14. AllMeet
  BY <1>12 DEF AllMeet
<1>15. SoundsRight
  <2> SUFFICES ASSUME NEW p \in Peers
               PROVE  SoundFor(p)
    BY <1>1 DEF SoundsRight
  <2>1. \A x \in AtWork : work[x].p # p /\ work[x].item = Nothing
    BY <1>4, RoomAssumption DEF IdleIs
  <2>2. Plays(p) /\ Passes(p) /\ Carried(p)
    BY <1>1, <1>2, <1>9, <2>1 DEF Plays, Passes, Carried, Sound
  <2> QED BY <1>7, <2>1, <2>2 DEF SoundFor
<1>16. NobodyLeft
  BY <1>1, <1>2, <1>7, <1>9 DEF NobodyLeft, Sfu!InRoom
<1> QED BY <1>5, <1>6, <1>8, <1>10, <1>11, <1>13, <1>14, <1>15, <1>16 DEF RoomInv

LEMMA RoomStep ==
    ASSUME RoomInv, Sfu!Next
    PROVE  RoomInv'
<1>1. ASSUME NEW j \in SfuJoins, Sfu!JoinStep(j) \/ Sfu!Connects(j) \/ \E p \in Peers : Sfu!Join(j, p)
      PROVE  RoomInv'
  BY <1>1, TransportKeeps, PauseNewKeeps, NextPeerKeeps, PipedKeeps, FetchedKeeps, ProduceKeeps,
     ConnectsKeeps, JoinKeeps DEF Sfu!JoinStep
<1>2. ASSUME NEW x \in Controls, Sfu!ControlStep(x)
      PROVE  RoomInv'
  BY <1>2, LeftKeeps, ClosePeerKeeps, ClosedRoomKeeps, PauseProducersKeeps, PauseConsumersKeeps
     DEF Sfu!ControlStep
<1>3. ASSUME NEW x \in Controls,
             \/ Sfu!CloseRoom(x)
             \/ \E p \in Peers : Sfu!Leave(x, p) \/ \E v \in BOOLEAN : Sfu!SetPeerAudioPaused(x, p, v)
      PROVE  RoomInv'
  BY <1>3, CloseRoomKeeps, LeaveKeeps, AudioPausedKeeps
<1>4. ASSUME NEW x \in AtWork,
             \/ Sfu!Consumed(x) \/ Sfu!Flushed(x)
             \/ \E pair \in work[x].more : Sfu!Consume(x, pair[1], pair[2])
      PROVE  RoomInv'
  BY <1>4, ConsumedKeeps, FlushedKeeps, ConsumeKeeps
<1> QED BY <1>1, <1>2, <1>3, <1>4 DEF Sfu!Next, AtWork

LEMMA RoomStays ==
    ASSUME RoomInv, UNCHANGED media
    PROVE  RoomInv'
<1>1. UNCHANGED <<room, gen, born, owner, current, dtls, prod, pending, cons, flag, work, fault>>
  BY DEF media
<1>2. RoomTypes'
  BY <1>1 DEF RoomInv, RoomTypes, IsWork
<1>3. AllFit'
  BY <1>1 DEF RoomInv, AllFit, WorkFits, StepFits, IsPair, IsBetween
<1>4. ObjectsApart'
  BY <1>1 DEF RoomInv, ObjectsApart
<1>5. StreamsOwned'
  BY <1>1 DEF RoomInv, StreamsOwned, IsBetween, Opened, Sfu!Live
<1>6. OneAtATime'
  BY <1>1 DEF RoomInv, OneAtATime, OneFor, Calm, Joining, Leaving, Deleting, Opened
<1>7. \A p : Stays(p)' <=> Stays(p)
  BY <1>1 DEF Stays, Calm, Gone, Leaving, Deleting
<1>8. Equipped'
  BY <1>1, <1>7 DEF RoomInv, Equipped, Has, Joining, Opened, Sfu!Live
<1>9. AllMeet'
  <2>1. \A p, q : Meets(p, q)' <=> Meets(p, q)
    BY <1>1 DEF Meets, Fetches, Pipes, Reaches, Brings, Joined, Joining
  <2> QED BY <1>7, <2>1 DEF RoomInv, AllMeet
<1>10. SoundsRight'
  <2>1. \A p : SoundFor(p)' <=> SoundFor(p)
    BY <1>1 DEF SoundFor, Plays, Passes, Carried, Sound, Joining, Leaving, Deleting, Pausing, Sfu!Live
  <2> QED BY <1>1, <2>1 DEF RoomInv, SoundsRight, Even
<1>11. NobodyLeft'
  BY <1>1 DEF RoomInv, NobodyLeft, Deleting, Sfu!Live, Sfu!InRoom
<1> QED BY <1>2, <1>3, <1>4, <1>5, <1>6, <1>8, <1>9, <1>10, <1>11 DEF RoomInv

\* When nothing goes on, whoever meets has met.
LEMMA QuietIsHeard ==
    ASSUME RoomInv, Sfu!Quiet, NEW p \in Peers, NEW q \in Peers, p # q, room[p] # 0, room[q] # 0,
           {p, q} \cap (fault.failed \cup fault.crossed) = {}, q \notin fault.restless,
           Sfu!Usable(current[room[p]])
    PROVE  Sfu!Heard(p, q) <=> q \notin flag
<1>1. \A x \in AtWork : work[x] = Idle /\ IdleIs(work[x])
  BY IdleHolds DEF Sfu!Quiet, AtWork, Idle
<1>2. \A x \in AtWork : \A r : ~Joining(x, r) /\ ~Leaving(x, r) /\ ~Deleting(x) /\ ~Pausing(x, r)
  BY <1>1 DEF IdleIs, Joining, Leaving, Deleting, Pausing
<1>3. Stays(p) /\ Stays(q)
  BY <1>2 DEF Stays, Calm, Gone
<1>4. PICK o, s, t : o = room[p] /\ s = current[room[q]] /\ t = current[o]
  OBVIOUS
<1>5. PICK c \in cons : Joined(c, o, s, t) /\ s # 0 /\ t # 0
  <2>1. Reaches(o, s, t)
    BY <1>2, <1>3, <1>4 DEF RoomInv, AllMeet, Meets, Fetches, Pipes
  <2>2. \A x \in AtWork : ~Brings(x, o, s, t)
    BY <1>1, <1>4, IdleHolds DEF Brings, IdleIs
  <2>3. dtls[t] # "new"
    BY <1>4 DEF Sfu!Usable
  <2> QED BY <2>1, <2>2, <2>3 DEF Reaches
<1>6. s \in SfuJoins /\ owner[s] = room[q] /\ Sfu!Live(s)
  BY <1>4, <1>5 DEF RoomInv, RoomTypes, StreamsOwned, IsBetween, Joined
<1>7. Plays(q) /\ Passes(q)
  <2>1. Even(q)
    BY DEF Even
  <2> QED BY <1>2, <2>1 DEF RoomInv, SoundsRight, SoundFor
<1>8. /\ prod[s] = Sound(q)
      /\ \A d \in cons : owner[d.of] = room[q] => (d.paused <=> q \in flag)
  BY <1>2, <1>6, <1>7 DEF Plays, Passes
<1>9. c.to = room[p] /\ c.on = current[room[p]] /\ c.of = s
  BY <1>4, <1>5 DEF Joined
<1> QED BY <1>4, <1>6, <1>8, <1>9 DEF Sfu!Heard, Sound

LEMMA HeardInRoom ==
    ASSUME RoomInv
    PROVE  Sfu!EveryoneHears /\ Sfu!NobodyIsHeardAfterLeaving
<1>1. Sfu!EveryoneHears
  BY QuietIsHeard DEF Sfu!EveryoneHears
<1>2. Sfu!NobodyIsHeardAfterLeaving
  BY DEF Sfu!NobodyIsHeardAfterLeaving, RoomInv, NobodyLeft, StreamsOwned, IsBetween
<1> QED BY <1>1, <1>2

-----------------------------------------------------------------------------
(* The theorems *)

\* The device that accepted a call is the one the server goes on to talk to
\* (ConfirmCall, SendSignalingData and _finalize_discard address to_sess), unless
\* a ReceivedCall of another device read the row before; and a call that is over
\* is in the history of both once, unless requests that end it overlapped
\* (_discard_stale_outgoing_calls): for any devices, calls and requests at once.
THEOREM PhoneCallsInOrder == Spec => []PhoneCallsAreInOrder
<1> DEFINE Inv == which = "phone" => PhoneInv
<1>1. Init => Inv
  BY PhoneInit DEF Init
<1>2. Inv /\ [Next]_<<which, group, media, phone, secret>> => Inv'
  <2>1. UNCHANGED phone => (PhoneInv => PhoneInv')
    BY DEF phone, PhoneInv, PhoneTypes, RingsAreMarked, EndsAreMarked, DiscardsOne, Rings,
           EndsCall, PhoneCalls!AcceptedDeviceTalks, PhoneCalls!CallLoggedOnce
  <2> QED BY <2>1, PhoneStep DEF Next
<1>3. Inv => PhoneCallsAreInOrder
  BY DEF PhoneInv, PhoneCallsAreInOrder
<1> QED BY <1>1, <1>2, <1>3, PTL DEF Spec

\* A secret update that was sent has been got by the client, or the next
\* difference returns it, unless it was being sent while a difference was read or
\* it overtook one with a lower qts (IncQts and SendEncrypted are two queries,
\* getDifference is three): for any number of senders and of updates.
THEOREM SecretsKept == Spec => []SecretsAreKept
<1> DEFINE Inv == which = "secret" => SecretInv
<1>1. Init => Inv
  BY SecretInit DEF Init
<1>2. Inv /\ [Next]_<<which, group, media, phone, secret>> => Inv'
  <2>1. UNCHANGED secret => (SecretInv => SecretInv')
    BY OtherKeeps DEF secret
  <2> QED BY <2>1, SecretStep DEF Next
<1>3. Inv => SecretsAreKept
  BY SecretKept DEF SecretsAreKept
<1> QED BY <1>1, <1>2, <1>3, PTL DEF Spec

\* A chat has one open call, unless two requests to create one overlapped; a
\* discarded call has neither participants nor a room on the SFU, and a call that
\* everyone has left is discarded, unless a request or a timer was at work on it,
\* or the SFU could not be reached; and when all is done, the SFU's room has the
\* participants of the call, heard or not as their rows say, unless requests
\* raced (discard_active_call, discard_group_call_if_empty,
\* sync_sfu_participant): for any users, calls, and requests and timers at once.
THEOREM GroupCallsInOrder == Spec => []CallsAreInOrder
<1> DEFINE Inv == which = "group" => GroupInv
<1>1. Init => Inv
  BY GroupStarts DEF Init
<1>2. Inv /\ [Next]_<<which, group, media, phone, secret>> => Inv'
  BY GroupStep, GroupStays DEF Next
<1>3. Inv => CallsAreInOrder
  BY GroupInOrder DEF CallsAreInOrder
<1> QED BY <1>1, <1>2, <1>3, PTL DEF Spec

\* Whom an admin muted stays muted until an admin unmutes, unless an edit of his
\* own read the row before; and the timer takes out of a call only users without
\* a connection, but for those who came back with a session that did not know
\* them, or whose registration an earlier timer removed
\* (can_self_unmute_participant, _delayed_leave).
THEOREM CallStepsRight == Spec => CallStepsAreRight
<1> DEFINE Inv == which = "group" => GroupInv
           Right == which = "group" =>
                        GroupCalls!AdminMuteSticksStep /\ GroupCalls!EvictedOnlyOfflineStep
<1>1. Init => Inv
  BY GroupStarts DEF Init
<1>2. Inv /\ [Next]_<<which, group, media, phone, secret>> => Inv'
  BY GroupStep, GroupStays DEF Next
<1>3. Inv /\ [Next]_<<which, group, media, phone, secret>> => [Right]_<<which, group>>
  BY MuteSticks, EvictedOffline DEF Next
<1> QED BY <1>1, <1>2, <1>3, PTL DEF Spec, CallStepsAreRight

\* When all is done, whoever is connected hears whoever is in the room and not
\* paused, and does not hear who is paused, unless audio could not be produced or
\* requests overlapped; and nobody is heard after leaving
\* (pipeProducerToAllPeers, pipeExistingProducersToPeer, flushPendingConsumers,
\* setPeerAudioPaused, Peer.close): for any peers, joins and other requests at once.
THEOREM RoomHeard == Spec => []RoomIsHeard
<1> DEFINE Inv == which = "media" => RoomInv
<1>1. Init => Inv
  BY RoomStarts DEF Init
<1>2. Inv /\ [Next]_<<which, group, media, phone, secret>> => Inv'
  BY RoomStep, RoomStays DEF Next
<1>3. Inv => RoomIsHeard
  BY HeardInRoom DEF RoomIsHeard
<1> QED BY <1>1, <1>2, <1>3, PTL DEF Spec

=============================================================================
