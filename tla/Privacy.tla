------------------------------ MODULE Privacy ------------------------------
(***************************************************************************)
(* Who may see what of a user: privacy rules, contacts, and the answers    *)
(* that are cached under the version of a rule.                            *)
(*                                                                         *)
(* A user's rule for a key lets in all users, or contacts, apart from the  *)
(* users it excepts.  To change it is one transaction that counts its      *)
(* version up.  A check reads the version, looks the answer up, and else   *)
(* reads the rule and then its exceptions, and caches the answer.  It may  *)
(* be one check, or a bulk of several keys.  Contacts have no version.     *)
(* Handlers are tasks that take a step per statement.                      *)
(*                                                                         *)
(* Of a bulk one target is followed, and of the keys the phone number's,   *)
(* whose rule is by default for contacts, and another, whose rule is for   *)
(* all.  Left out: bots and the user himself, who are let in before any    *)
(* row is read.                                                            *)
(***************************************************************************)
EXTENDS Integers, FiniteSets

CONSTANTS
    Users,          \* users
    Tasks,          \* handlers that can run at once
    MaxVersion,     \* bound: versions of a rule
    Budgets         \* bounds, one of which a behaviour has: checks and writes

VARIABLES
    rule,       \* owner -> key -> the row of PrivacyRule, with the exception for the other user
    contact,    \* owner -> target -> id of the row of Contact, or 0
    nextId,     \* id of the next such row
    cache,      \* owner -> viewer -> key -> version -> the cached answer
    task,       \* task -> the handler it runs, and how far it is
    left        \* the rest of the budget

vars == <<rule, contact, nextId, cache, task, left>>

Keys == {"phone", "open"}
None == "none"
NoAnswers == [k \in Keys |-> None]
Row == [there |-> TRUE, all |-> FALSE, contacts |-> FALSE, except |-> None, version |-> 0]
Missing == [Row EXCEPT !.there = FALSE]
default_allow_all(k) == k # "phone"
Default(k) == [Row EXCEPT !.all = default_allow_all(k), !.contacts = ~default_allow_all(k)]
Yes(b) == IF b THEN "yes" ELSE "no"

Pairs == {<<u, v>> \in Users \X Users : u # v}
Idle == [at |-> "idle", does |-> None, who |-> <<>>, keys |-> {}, id |-> 0,
         rows |-> [k \in Keys |-> Missing], contact |-> FALSE, known |-> FALSE,
         fresh |-> {}, answer |-> NoAnswers, could |-> [k \in Keys |-> {}], doubt |-> {}]

\* What a rule's row and exception say of a viewer who is a contact or is not
Says(row, except, isContact) ==
    IF except # None THEN except
    ELSE Yes(row.all \/ (row.contacts /\ isContact))
ByDefault(k, isContact) == Yes(default_allow_all(k) \/ isContact)

\* What the tables say of a viewer now
Allowed(p, k) ==
    LET row == rule[p[1]][k]
        isContact == contact[p[1]][p[2]] # 0
    IN  IF row.there THEN Says(row, row.except, isContact) ELSE ByDefault(k, isContact)

Init ==
    /\ left \in Budgets
    /\ rule \in {[u \in Users |-> [k \in Keys |-> Missing]], [u \in Users |-> [k \in Keys |-> Default(k)]]}
    /\ contact \in {c \in [Users -> [Users -> {0, 1}]] : \A u \in Users : c[u][u] = 0}
    /\ nextId = 2
    /\ cache = [u \in Users |-> [v \in Users |-> [k \in Keys |-> [n \in 0..MaxVersion |->
                    [is |-> None, doubt |-> FALSE]]]]]
    /\ task = [t \in Tasks |-> Idle]

-----------------------------------------------------------------------------
(* Checks *)

Begin(t, does, p, keys) ==
    /\ left.checks > 0
    /\ left' = [left EXCEPT !.checks = @ - 1]
    /\ task' = [task EXCEPT ![t] =
        [Idle EXCEPT !.at = IF does \in {"context", "import"} THEN "contacts" ELSE "versions",
                     !.does = does, !.who = p, !.keys = keys,
                     !.could = [k \in Keys |-> {Allowed(p, k)}]]]
    /\ UNCHANGED <<rule, contact, nextId, cache>>

\* contacts.ResolvePhone and other checks of one key: has_access_to
ResolvePhone(t, p) == Begin(t, "single", p, {"open"})

\* users.GetFullUser and other bulks that are not given contacts
GetFullUser(t, p) == Begin(t, "bulk", p, {"open"})

\* contacts.GetBirthdays: of the viewer's contacts
GetBirthdays(t, p) == contact[p[2]][p[1]] # 0 /\ Begin(t, "bulk", p, {"open"})

\* _resolve_context_values of a session, to fill in users
ResolveContextValues(t, p) == Begin(t, "context", p, Keys)

\* contacts.ImportContacts
ImportContacts(t, p) == Begin(t, "import", p, {"open"})

Write(t, r) == task' = [task EXCEPT ![t] = r] /\ UNCHANGED <<rule, contact, nextId, cache, left>>
Uncached(t) == {k \in task[t].keys : task[t].answer[k] = None /\ task[t].rows[k].there}

\* The contacts that a context is resolved with, and those that an import
\* finds, are read first: of the owner, and of the viewer.
FirstContacts(t) ==
    /\ task[t].at = "contacts"
    /\ LET p == task[t].who
       IN  IF task[t].does = "import"
           THEN Write(t, [task[t] EXCEPT !.at = "versions", !.id = contact[p[2]][p[1]]])
           ELSE Write(t, [task[t] EXCEPT !.at = "versions", !.contact = contact[p[1]][p[2]] # 0, !.known = TRUE])

Versions(t) ==
    /\ task[t].at = "versions"
    /\ LET p == task[t].who
           rows == [k \in Keys |-> IF k \in task[t].keys THEN rule[p[1]][k] ELSE Missing]
       IN  Write(t, [task[t] EXCEPT !.at = IF \E k \in Keys : rows[k].there THEN "cached" ELSE "default",
                                    !.rows = rows])

\* Answers for keys without a rule
WithDefaults(r) ==
    [r EXCEPT !.answer = [k \in Keys |->
        IF k \in r.keys /\ ~r.rows[k].there THEN ByDefault(k, r.contact) ELSE r.answer[k]]]

\* A single check reads the contacts for it, a bulk takes those it has.
NoRule(t) ==
    /\ task[t].at = "default"
    /\ LET p == task[t].who
           isContact == IF task[t].does = "single" THEN contact[p[1]][p[2]] # 0 ELSE task[t].contact
       IN  Write(t, [WithDefaults([task[t] EXCEPT !.contact = isContact]) EXCEPT !.at = "answered"])

Cached(t) ==
    /\ task[t].at = "cached"
    /\ LET p == task[t].who
           entry(k) == cache[p[1]][p[2]][k][task[t].rows[k].version]
           asked == {k \in task[t].keys : task[t].rows[k].there}
           r == [task[t] EXCEPT !.answer = [k \in Keys |-> IF k \in asked THEN entry(k).is ELSE None],
                                !.doubt = @ \cup {k \in asked : entry(k).doubt}]
           miss == \E k \in asked : entry(k).is = None
       IN  Write(t, IF ~miss THEN [WithDefaults(r) EXCEPT !.at = "answered"]
                    ELSE [r EXCEPT !.at = IF task[t].does # "single" /\ ~task[t].known THEN "bulk contacts" ELSE "rules"])

BulkContacts(t) ==
    /\ task[t].at = "bulk contacts"
    /\ Write(t, [task[t] EXCEPT !.at = "rules", !.contact = contact[task[t].who[1]][task[t].who[2]] # 0])

\* A single check reads with the rule whether the viewer is a contact, and
\* keeps the version it has; a bulk takes the version of the rows it reads.
Rules(t) ==
    /\ task[t].at = "rules"
    /\ LET p == task[t].who
           single == task[t].does = "single"
           version(k) == IF single THEN task[t].rows[k].version ELSE rule[p[1]][k].version
       IN  Write(t, [task[t] EXCEPT !.at = "exceptions",
                !.contact = IF single THEN contact[p[1]][p[2]] # 0 ELSE @,
                !.rows = [k \in Keys |-> IF k \in Uncached(t) THEN [rule[p[1]][k] EXCEPT !.version = version(k)]
                                         ELSE task[t].rows[k]]])

Exceptions(t) ==
    /\ task[t].at = "exceptions"
    /\ LET p == task[t].who
           those == Uncached(t)
       IN  Write(t, [task[t] EXCEPT !.at = "save", !.fresh = those,
                !.answer = [k \in Keys |->
                    IF k \in those THEN Says(task[t].rows[k], rule[p[1]][k].except, task[t].contact)
                    ELSE task[t].answer[k]]])

\* The answers are cached, for good.
Save(t) ==
    /\ task[t].at = "save"
    /\ LET p == task[t].who
           r == task[t]
       IN  cache' = [cache EXCEPT ![p[1]][p[2]] = [k \in Keys |-> [n \in 0..MaxVersion |->
                IF k \in r.fresh /\ n = r.rows[k].version
                THEN [is |-> r.answer[k], doubt |-> k \in r.doubt]
                ELSE @[k][n]]]]
    /\ task' = [task EXCEPT ![t] = [WithDefaults(@) EXCEPT !.at = "answered"]]
    /\ UNCHANGED <<rule, contact, nextId, left>>

-----------------------------------------------------------------------------
(* What changes the tables.  A check that is under way may answer by what  *)
(* was so before or after; `doubt' has what it may answer otherwise.       *)

Running(t) == task[t].at \notin {"idle", "answered", "exception", "delete"}

\* After a write of p's contact: who has looked at it, or will by the cache
Contacted(p, tasks) ==
    /\ cache' = [cache EXCEPT ![p[1]][p[2]] = [k \in Keys |-> [n \in 0..MaxVersion |->
            [@[k][n] EXCEPT !.doubt = @ \/ cache[p[1]][p[2]][k][n].is # None]]]]
    /\ task' = [t \in Tasks |-> IF task[t].who = p /\ Running(t) THEN [tasks[t] EXCEPT !.doubt = Keys] ELSE tasks[t]]

\* After a write of rules, in a step of the tasks `tasks'
Ruled(u, keys, tasks) ==
    task' = [t \in Tasks |->
        IF Running(t) /\ task[t].who[1] = u
        THEN [tasks[t] EXCEPT
            !.could = [k \in Keys |-> @[k] \cup
                {LET row == rule'[u][k]
                     isContact == contact[u][task[t].who[2]] # 0
                 IN  IF row.there THEN Says(row, row.except, isContact) ELSE ByDefault(k, isContact)}],
            !.doubt = IF task[t].at = "exceptions" THEN @ \cup keys ELSE @]
        ELSE tasks[t]]

\* Mutant: the version stays when there is a rule.
UpdateInPlace(row, all, contacts, except) ==
    [there |-> TRUE, all |-> all, contacts |-> contacts, except |-> except,
     version |-> IF row.there THEN row.version ELSE 1]

update_from_tl(row, all, contacts, except) ==
    [there |-> TRUE, all |-> all, contacts |-> contacts, except |-> except, version |-> row.version + 1]

\* account.SetPrivacy
SetPrivacy(u) ==
    /\ left.writes > 0
    /\ left' = [left EXCEPT !.writes = @ - 1]
    /\ \E k \in Keys, all \in BOOLEAN, contacts \in BOOLEAN, except \in {None, "yes", "no"} :
        /\ ~(all /\ contacts)                    \* the same as all
        /\ except # None => ~(all \/ contacts)    \* which says nothing of the only viewer
        /\ rule[u][k].version < MaxVersion
        /\ rule' = [rule EXCEPT ![u][k] = update_from_tl(@, all, contacts, except)]
        /\ Ruled(u, {k}, task)
    /\ UNCHANGED <<contact, nextId, cache>>

\* contacts.AddContact, with add_phone_privacy_exception or without
AddContact(t, p) ==
    /\ left.writes > 0
    /\ left' = [left EXCEPT !.writes = @ - 1]
    /\ \E exception \in BOOLEAN :
        LET tasks == [task EXCEPT ![t] = IF exception THEN [Idle EXCEPT !.at = "exception", !.who = p] ELSE Idle]
        IN  IF contact[p[1]][p[2]] # 0 THEN task' = tasks /\ UNCHANGED <<contact, nextId, cache>>
            ELSE /\ contact' = [contact EXCEPT ![p[1]][p[2]] = nextId]
                 /\ nextId' = nextId + 1
                 /\ Contacted(p, tasks)
    /\ UNCHANGED rule

\* A rule is made for the phone number, that lets nobody in, if there is none.
\* The exception is refused, as it is given the answer of get_or_create, a pair,
\* in place of the rule.
AddException(t) ==
    /\ task[t].at = "exception"
    /\ LET u == task[t].who[1]
       IN  /\ rule' = [rule EXCEPT ![u]["phone"] = IF @.there THEN @ ELSE Row]
           /\ Ruled(u, {}, [task EXCEPT ![t] = Idle])
    /\ UNCHANGED <<contact, nextId, cache, left>>

\* contacts.DeleteContacts: finds the row, and deletes that row.
DeleteContacts(t, p) ==
    /\ left.writes > 0 /\ contact[p[1]][p[2]] # 0
    /\ left' = [left EXCEPT !.writes = @ - 1]
    /\ task' = [task EXCEPT ![t] = [Idle EXCEPT !.at = "delete", !.who = p, !.id = contact[p[1]][p[2]]]]
    /\ UNCHANGED <<rule, contact, nextId, cache>>

DeleteRow(t) ==
    /\ task[t].at = "delete"
    /\ LET p == task[t].who
           tasks == [task EXCEPT ![t] = Idle]
       IN  IF contact[p[1]][p[2]] # task[t].id THEN task' = tasks /\ UNCHANGED <<contact, cache>>
           ELSE contact' = [contact EXCEPT ![p[1]][p[2]] = 0] /\ Contacted(p, tasks)
    /\ UNCHANGED <<rule, nextId, left>>

\* An import makes the user it may add a contact, if the viewer had none: a
\* row that came meanwhile makes it fail.
End(t) ==
    /\ task[t].at = "answered"
    /\ LET p == <<task[t].who[2], task[t].who[1]>>
           tasks == [task EXCEPT ![t] = Idle]
       IN  IF task[t].does = "import" /\ task[t].answer["open"] = "yes" /\ task[t].id = 0 /\ contact[p[1]][p[2]] = 0
           THEN /\ contact' = [contact EXCEPT ![p[1]][p[2]] = nextId]
                /\ nextId' = nextId + 1
                /\ Contacted(p, tasks)
           ELSE task' = tasks /\ UNCHANGED <<contact, nextId, cache>>
    /\ UNCHANGED <<rule, left>>

Done == (\A t \in Tasks : task[t].at = "idle") /\ UNCHANGED vars     \* nobody need ask

Next ==
    \/ \E u \in Users : SetPrivacy(u)
    \/ \E t \in Tasks :
        \/ /\ task[t].at = "idle"
           /\ \E p \in Pairs :
            \/ ResolvePhone(t, p) \/ GetFullUser(t, p) \/ GetBirthdays(t, p)
            \/ ResolveContextValues(t, p) \/ ImportContacts(t, p)
            \/ AddContact(t, p) \/ DeleteContacts(t, p)
        \/ FirstContacts(t) \/ Versions(t) \/ NoRule(t) \/ Cached(t) \/ BulkContacts(t)
        \/ Rules(t) \/ Exceptions(t) \/ Save(t)
        \/ AddException(t) \/ DeleteRow(t) \/ End(t)
    \/ Done

Spec == Init /\ [][Next]_vars

-----------------------------------------------------------------------------
(* Properties *)

\* What a check answers, from the cache or not, is what the owner's rule and
\* contacts said of the viewer at some moment of the check, and never what a
\* rule said before it was changed.  It may be otherwise if the viewer became a
\* contact or ceased to be one since the answer was cached (the version of the
\* rule stays the same, and the answer for ever) or during the check, or if the
\* rule was changed between the statements that read it and its exceptions.
AccessAsRule ==
    \A t \in Tasks : task[t].at = "answered" =>
        \A k \in task[t].keys \ task[t].doubt : task[t].answer[k] \in task[t].could[k]
=============================================================================
