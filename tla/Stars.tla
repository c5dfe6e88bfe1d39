------------------------------- MODULE Stars -------------------------------
(***************************************************************************)
(* Telegram Stars: wallets (UserStarsBalance), the transactions recorded   *)
(* for them (StarsTransaction), payment forms and their submission, and    *)
(* the invoices of bots, with the bot's answer to the pre-checkout query   *)
(* (app/utils/stars_manager.py, app/handlers/payments.py,                  *)
(* app/handlers/messages/bot_payments.py, pubsub/in_memory_pubsub.py).     *)
(*                                                                         *)
(* A task is one request in progress.  An action is one query, or one      *)
(* statement of a transaction: select_for_update locks the wallet's row,   *)
(* if there is one, until the transaction ends.  The recorded transactions *)
(* are abstracted to the sums of the inbound and outbound ones.            *)
(***************************************************************************)
EXTENDS Integers, FiniteSets, FiniteSetsExt

CONSTANTS
    Accounts,   \* users and bots: everyone who may have a wallet
    Users,      \* the accounts that are no bots
    Kinds,      \* the forms that may be asked for
    Builtin,    \* bots that approve without being asked (bot.system, or a
                \* PRECHECKOUT_QUERY_HANDLERS entry)
    Tasks,      \* requests in progress
    NoAccount, NoKind, NoTask,
    Amounts,    \* the amounts that bots grant or set
    MaxForms,   \* bound: forms created in a behaviour
    MaxGrants   \* bound: grants and settings in a behaviour

Purposes == {"topup", "gift", "invoice", "grant", "set"}
\* A form: to is the wallet that receives, xtr says that it is paid with stars
\* (currency XTR).  An invoice is the form it leads to.  Bots ask for no forms
\* (BOT_NOT_ALLOWED).
ASSUME KindsAssumption ==
    /\ Kinds \subseteq [purpose : {"topup", "gift", "invoice"}, user : Accounts,
                        to : Accounts, stars : Nat \ {0}, xtr : BOOLEAN]
    /\ \A k \in Kinds : k.purpose = "invoice" => k.xtr /\ k.to \notin Users
    /\ \A k \in Kinds : k.purpose = "topup" => k.user = k.to
    /\ \A k \in Kinds : k.user \in Users
ASSUME NamesAssumption ==
    /\ NoAccount \notin Accounts
    /\ NoTask \notin Tasks
    /\ NoKind \notin Kinds
    /\ Users \subseteq Accounts
    /\ Builtin \subseteq Accounts \ Users
ASSUME StarsBoundsAssumption ==
    MaxForms \in Nat /\ MaxGrants \in Nat /\ Amounts \subseteq Nat
ASSUME FiniteAssumption == IsFiniteSet(Accounts) /\ IsFiniteSet(Tasks)

VARIABLES
    wallet,    \* account -> UserStarsBalance.amount, 0 without a row
    rows,      \* accounts that have a row
    lock,      \* account -> the task whose transaction holds the row, or NoTask
    earned,    \* account -> sum of its inbound transactions
    spent,     \* account -> sum of its outbound transactions
    form,      \* form id -> the form, or NoKind
    nextForm,
    expired,   \* forms whose expires_at has passed
    paid,      \* invoices whose message has a receipt_msg_id
    task,      \* task -> the request it executes
    grants,    \* grants and settings begun, for MaxGrants
    payments,  \* history: invoices -> how often they were paid
    doubtful,  \* history: invoices for which two submissions overlapped, or
               \* one failed between the payment and its receipt
    consent,   \* history: tasks whose query the bot answered with success
    lost,      \* history: stars debited for gifts that were never credited
    minted     \* history: stars bought, granted and set, less the commission
               \* of invoices

vars == <<wallet, rows, lock, earned, spent, form, nextForm, expired, paid,
          task, grants, payments, doubtful, consent, lost, minted>>
money == <<wallet, rows, lock, earned, spent, minted>>
store == <<form, nextForm, expired, paid, grants>>
history == <<payments, doubtful, consent, lost>>

Invoices == {k \in Kinds : k.purpose = "invoice"}
FormIds == 1 .. MaxForms

\* "load" to "pay" are the steps of complete_payment_form; debit, credit, pay
\* and set are transactions, whose first row is locked, and read, in
\* "debit2", "credit2", "pay2" and "set2"; "pay3" has both rows of a transfer.
TaskSteps == {"idle", "load", "ask", "wait", "delete", "open", "debit", "debit2",
              "credit", "credit2", "pay", "pay2", "pay3", "set", "set2", "receipt"}
Works == [purpose : Purposes, user : Accounts, to : Accounts, stars : Nat,
          xtr : BOOLEAN]
NoWork == [purpose |-> "grant", user |-> NoAccount, to |-> NoAccount,
           stars |-> 0, xtr |-> FALSE]
\* future: the topic of the task's query is in the pub/sub's waiters.
IdleTask == [step |-> "idle", id |-> 0, work |-> NoWork, had |-> FALSE,
             read |-> 0, read2 |-> 0, future |-> FALSE]
TaskStates == [step : TaskSteps, id : Nat, work : Works \cup {NoWork},
               had : BOOLEAN, read : Int, read2 : Int, future : BOOLEAN]

TypeOK ==
    /\ wallet \in [Accounts -> Int]
    /\ rows \subseteq Accounts
    /\ lock \in [Accounts -> Tasks \cup {NoTask}]
    /\ earned \in [Accounts -> Nat]
    /\ spent \in [Accounts -> Nat]
    /\ form \in [FormIds -> Kinds \cup {NoKind}]
    /\ nextForm \in 1 .. (MaxForms + 1)
    /\ expired \subseteq FormIds
    /\ paid \subseteq Invoices
    /\ task \in [Tasks -> TaskStates]
    /\ \A t \in Tasks : task[t].step = "idle" <=> task[t].work = NoWork
    /\ payments \in [Invoices -> Nat]
    /\ doubtful \subseteq Invoices
    /\ consent \subseteq Tasks
    /\ lost \in Nat
    /\ minted \in Int
    /\ grants \in 0 .. MaxGrants

Init ==
    /\ wallet = [a \in Accounts |-> 0]
    /\ rows = {}
    /\ lock = [a \in Accounts |-> NoTask]
    /\ earned = [a \in Accounts |-> 0]
    /\ spent = [a \in Accounts |-> 0]
    /\ form = [i \in FormIds |-> NoKind]
    /\ nextForm = 1
    /\ expired = {}
    /\ paid = {}
    /\ task = [t \in Tasks |-> IdleTask]
    /\ payments = [k \in Invoices |-> 0]
    /\ doubtful = {}
    /\ consent = {}
    /\ lost = 0
    /\ minted = 0
    /\ grants = 0

\* bot_net_stars: what a bot gets of the stars a user pays.
BotNetStars(stars) == (stars * 1300) \div 1410

Goto(t, step) == task' = [task EXCEPT ![t].step = step]
\* The request ends, whatever the reason; its locks are released elsewhere.
Ends(t) ==
    /\ task' = [task EXCEPT ![t] = IdleTask]
    /\ consent' = consent \ {t}
\* The stars of a gift were debited and are not credited yet.
InTransit(t) ==
    /\ task[t].work.purpose = "gift" /\ task[t].work.xtr
    /\ task[t].step \in {"credit", "credit2"}
\* Mutant: a transaction ends without releasing its rows.
StillLocked(t) == lock

Unlocked(t) == [a \in Accounts |-> IF lock[a] = t THEN NoTask ELSE lock[a]]

-----------------------------------------------------------------------------
(* Forms *)

\* create_payment_form and _create_bot_payment_form; a paid invoice is refused.
CreatePaymentForm(k) ==
    /\ nextForm <= MaxForms
    /\ k \notin paid
    /\ form' = [form EXCEPT ![nextForm] = k]
    /\ nextForm' = nextForm + 1
    /\ UNCHANGED <<money, expired, paid, task, history, grants>>

FormExpires(i) ==
    /\ form[i] # NoKind
    /\ expired' = expired \cup {i}
    /\ UNCHANGED <<money, form, nextForm, paid, task, history, grants>>

\* complete_payment_form, _complete_bot_payment_form: the form is read, and
\* matches the invoice of the request.
Submit(t, i) ==
    /\ task[t].step = "idle"
    /\ form[i] # NoKind
    /\ task' = [task EXCEPT ![t] = [IdleTask EXCEPT !.step = "load", !.id = i,
                                                    !.work = form[i]]]
    /\ doubtful' = IF \E s \in Tasks : task[s].work = form[i]
                   THEN doubtful \cup ({form[i]} \cap Invoices) ELSE doubtful
    /\ UNCHANGED <<money, store, payments, consent, lost>>

DropForm(i) == form' = [form EXCEPT ![i] = NoKind]

\* _load_bot_invoice_message: the invoice must not be paid yet.
InvoiceIsPaid(t) ==
    /\ task[t].step = "load"
    /\ task[t].work \in paid
    /\ Ends(t)
    /\ UNCHANGED <<money, store, payments, doubtful, lost>>

\* is_expired: the form is deleted.
CheckExpired(t) ==
    /\ task[t].step = "load"
    /\ task[t].work \notin paid
    /\ task[t].id \in expired
    /\ DropForm(task[t].id)
    /\ Ends(t)
    /\ UNCHANGED <<money, nextForm, expired, paid, payments, doubtful, lost, grants>>

\* An invoice needs the bot's consent, unless the bot is built in; the query
\* is created and its topic is listened to before the bot is told.
CheckForm(t) ==
    /\ task[t].step = "load"
    /\ task[t].work \notin paid
    /\ task[t].id \notin expired
    /\ IF task[t].work.purpose = "invoice" /\ task[t].work.to \notin Builtin
       THEN task' = [task EXCEPT ![t].step = "ask", ![t].future = TRUE]
       ELSE Goto(t, "delete")
    /\ UNCHANGED <<money, store, history>>

-----------------------------------------------------------------------------
(* The pre-checkout query *)

\* set_bot_precheckout_results: notify takes the topic out of the waiters.
\* While the handler is still busy telling the bot, nobody awaits the result.
BotAnswers(t, success) ==
    /\ task[t].step \in {"ask", "wait"}
    /\ task[t].future
    /\ IF task[t].step = "ask"
       THEN task' = [task EXCEPT ![t].future = FALSE] /\ UNCHANGED consent
       ELSE IF success
       THEN /\ task' = [task EXCEPT ![t].step = "delete", ![t].future = FALSE]
            /\ consent' = consent \cup {t}
       ELSE Ends(t)
    /\ UNCHANGED <<money, store, payments, doubtful, lost>>

\* pubsub.listen(topic, 10) makes a new entry when the first one is gone.
AwaitAnswer(t) ==
    /\ task[t].step = "ask"
    /\ task' = [task EXCEPT ![t].step = "wait", ![t].future = TRUE]
    /\ UNCHANGED <<money, store, history>>

\* Mutant: a query without an answer is approved.
TimeoutApproves(t) ==
    /\ task[t].step = "wait"
    /\ task' = [task EXCEPT ![t].step = "delete", ![t].future = FALSE]
    /\ UNCHANGED <<money, store, history>>

\* BOT_PRECHECKOUT_TIMEOUT.
PrecheckoutTimeout(t) ==
    /\ task[t].step = "wait"
    /\ Ends(t)
    /\ UNCHANGED <<money, store, payments, doubtful, lost>>

\* Mutant: every gift is credited without a debit.
AfterFormGiftsAreFree(w) == CASE w.purpose = "topup" -> "credit"
                              [] w.purpose = "gift" -> "open"
                              [] OTHER -> "pay"

\* The step that the purpose calls for.  A top-up cannot be paid with stars,
\* and a bot must get something.
AfterForm(w) ==
    CASE w.purpose = "topup" -> IF w.xtr THEN "idle" ELSE "credit"
      [] w.purpose = "gift" -> IF w.xtr THEN "debit" ELSE "open"
      [] OTHER -> IF BotNetStars(w.stars) > 0 THEN "pay" ELSE "idle"

\* form.delete(), which does not say whether there was a row to delete.
DeleteForm(t) ==
    /\ task[t].step = "delete"
    /\ DropForm(task[t].id)
    /\ IF AfterForm(task[t].work) = "idle" THEN Ends(t)
       ELSE Goto(t, AfterForm(task[t].work)) /\ UNCHANGED consent
    /\ UNCHANGED <<money, nextForm, expired, paid, payments, doubtful, lost, grants>>

-----------------------------------------------------------------------------
(* Transactions *)

\* Mutant: the row is read without a lock.
SelectWithoutLock(t, a, step) ==
    /\ task' = [task EXCEPT ![t].step = step, ![t].had = a \in rows,
                            ![t].read = wallet[a]]
    /\ UNCHANGED lock

\* filter(user_id=a).select_for_update().first()
SelectForUpdate(t, a, step) ==
    /\ lock[a] = NoTask
    /\ task' = [task EXCEPT ![t].step = step, ![t].had = a \in rows,
                            ![t].read = wallet[a]]
    /\ lock' = IF a \in rows THEN [lock EXCEPT ![a] = t] ELSE lock

\* A wallet without a row is created; the row is unique, so the transaction
\* fails if another one created it meanwhile.
RowIsMine(t, a) == task[t].had \/ a \notin rows

\* get_or_create_for, when a balance is shown, and for the payer of a gift that
\* is not paid with stars.
OpenWallet(a) ==
    /\ rows' = rows \cup {a}
    /\ UNCHANGED <<wallet, lock, earned, spent, minted, store, task, history>>

OpenPayerWallet(t) ==
    /\ task[t].step = "open"
    /\ rows' = rows \cup {task[t].work.user}
    /\ Goto(t, "credit")
    /\ UNCHANGED <<wallet, lock, earned, spent, minted, store, history>>

\* _debit_stars for a gift: BALANCE_TOO_LOW ends the request.
DebitBegins(t) ==
    /\ task[t].step = "debit"
    /\ SelectForUpdate(t, task[t].work.user, "debit2")
    /\ UNCHANGED <<wallet, rows, earned, spent, minted, store, history>>

TooLow(t) == ~task[t].had \/ task[t].read < task[t].work.stars

DebitCommits(t) ==
    /\ task[t].step = "debit2"
    /\ LET w == task[t].work IN
       IF TooLow(t)
       THEN /\ Ends(t)
            /\ UNCHANGED <<wallet, spent>>
       ELSE /\ wallet' = [wallet EXCEPT ![w.user] = task[t].read - w.stars]
            /\ spent' = [spent EXCEPT ![w.user] = @ + w.stars]
            /\ task' = [task EXCEPT ![t].step = "credit", ![t].read = 0, ![t].had = FALSE]
            /\ UNCHANGED consent
    /\ lock' = Unlocked(t)
    /\ UNCHANGED <<rows, earned, minted, store, payments, doubtful, lost>>

\* _credit_stars.
CreditBegins(t) ==
    /\ task[t].step = "credit"
    /\ SelectForUpdate(t, task[t].work.to, "credit2")
    /\ UNCHANGED <<wallet, rows, earned, spent, minted, store, history>>

CreditCommits(t) ==
    /\ task[t].step = "credit2"
    /\ RowIsMine(t, task[t].work.to)
    /\ LET w == task[t].work IN
       /\ wallet' = [wallet EXCEPT ![w.to] = task[t].read + w.stars]
       /\ earned' = [earned EXCEPT ![w.to] = @ + w.stars]
       /\ rows' = rows \cup {w.to}
       /\ IF w.purpose = "gift" /\ w.xtr
          THEN UNCHANGED minted
          ELSE minted' = minted + w.stars
    /\ lock' = Unlocked(t)
    /\ Ends(t)
    /\ UNCHANGED <<spent, store, payments, doubtful, lost>>

\* _transfer_stars locks the payer's row, then the recipient's.
PayBegins(t) ==
    /\ task[t].step = "pay"
    /\ SelectForUpdate(t, task[t].work.user, "pay2")
    /\ UNCHANGED <<wallet, rows, earned, spent, minted, store, history>>

PayTooLow(t) ==
    /\ task[t].step = "pay2"
    /\ TooLow(t)
    /\ lock' = Unlocked(t)
    /\ Ends(t)
    /\ UNCHANGED <<wallet, rows, earned, spent, minted, store, payments, doubtful, lost>>

PaySelects(t) ==
    /\ task[t].step = "pay2"
    /\ ~TooLow(t)
    /\ LET payee == task[t].work.to IN
       /\ lock[payee] = NoTask
       /\ lock' = IF payee \in rows THEN [lock EXCEPT ![payee] = t] ELSE lock
       /\ task' = [task EXCEPT ![t].step = "pay3", ![t].had = payee \in rows,
                               ![t].read2 = wallet[payee]]
    /\ UNCHANGED <<wallet, rows, earned, spent, minted, store, history>>

PayCommits(t) ==
    /\ task[t].step = "pay3"
    /\ RowIsMine(t, task[t].work.to)
    /\ LET w   == task[t].work
           net == BotNetStars(w.stars)
       IN  /\ wallet' = [wallet EXCEPT ![w.user] = task[t].read - w.stars,
                                       ![w.to] = task[t].read2 + net]
           /\ spent' = [spent EXCEPT ![w.user] = @ + w.stars]
           /\ earned' = [earned EXCEPT ![w.to] = @ + net]
           /\ rows' = rows \cup {w.to}
           /\ payments' = [payments EXCEPT ![w] = @ + 1]
           /\ minted' = minted - (w.stars - net)
    /\ lock' = Unlocked(t)
    /\ task' = [task EXCEPT ![t].step = "receipt", ![t].read = 0, ![t].read2 = 0,
                            ![t].had = FALSE]
    /\ UNCHANGED <<store, doubtful, consent, lost>>

\* Mutant: the receipt is not written into the invoice.
MarkNothing(t) ==
    /\ task[t].step = "receipt"
    /\ Ends(t)
    /\ UNCHANGED <<money, store, payments, doubtful, lost>>

\* _send_bot_payment_messages and _update_invoice_receipt.
MarkPaid(t) ==
    /\ task[t].step = "receipt"
    /\ paid' = paid \cup {task[t].work}
    /\ Ends(t)
    /\ UNCHANGED <<money, form, nextForm, expired, payments, doubtful, lost, grants>>

-----------------------------------------------------------------------------
(* The stars bot and the admin bot *)

\* grant_stars(a, n)
GrantStars(t, a, n) ==
    /\ task[t].step = "idle"
    /\ grants < MaxGrants
    /\ task' = [task EXCEPT ![t] = [IdleTask EXCEPT !.step = "credit",
                    !.work = [NoWork EXCEPT !.user = a, !.to = a, !.stars = n]]]
    /\ grants' = grants + 1
    /\ UNCHANGED <<money, form, nextForm, expired, paid, history>>

\* set_stars_balance(a, n)
SetStarsBalance(t, a, n) ==
    /\ task[t].step = "idle"
    /\ grants < MaxGrants
    /\ task' = [task EXCEPT ![t] = [IdleTask EXCEPT !.step = "set",
                    !.work = [NoWork EXCEPT !.purpose = "set", !.user = a,
                                            !.to = a, !.stars = n]]]
    /\ grants' = grants + 1
    /\ UNCHANGED <<money, form, nextForm, expired, paid, history>>

SetBegins(t) ==
    /\ task[t].step = "set"
    /\ SelectForUpdate(t, task[t].work.to, "set2")
    /\ UNCHANGED <<wallet, rows, earned, spent, minted, store, history>>

SetCommits(t) ==
    /\ task[t].step = "set2"
    /\ RowIsMine(t, task[t].work.to)
    /\ LET w == task[t].work
           d == w.stars - task[t].read
       IN  /\ wallet' = [wallet EXCEPT ![w.to] = w.stars]
           /\ earned' = [earned EXCEPT ![w.to] = @ + IF d > 0 THEN d ELSE 0]
           /\ spent' = [spent EXCEPT ![w.to] = @ + IF d < 0 THEN -d ELSE 0]
           /\ rows' = rows \cup {w.to}
           /\ minted' = minted + d
    /\ lock' = Unlocked(t)
    /\ Ends(t)
    /\ UNCHANGED <<store, payments, doubtful, lost>>

\* The transaction is rolled back and the request ends; what was committed
\* stays.
Rollback(t) ==
    /\ lock' = Unlocked(t)
    /\ Ends(t)
    /\ LET w == task[t].work IN
       /\ lost' = IF InTransit(t) THEN lost + w.stars ELSE lost
       /\ doubtful' = IF task[t].step = "receipt" THEN doubtful \cup {w} ELSE doubtful
    /\ UNCHANGED <<wallet, rows, earned, spent, minted, store, payments>>

\* The row to create exists: IntegrityError.
RowConflict(t) ==
    /\ task[t].step \in {"credit2", "pay3", "set2"}
    /\ ~RowIsMine(t, task[t].work.to)
    /\ Rollback(t)

\* A query fails, or the worker stops.
Fail(t) ==
    /\ task[t].step # "idle"
    /\ Rollback(t)

-----------------------------------------------------------------------------
TaskStep(t) ==
    \/ InvoiceIsPaid(t) \/ CheckExpired(t) \/ CheckForm(t) \/ AwaitAnswer(t)
    \/ PrecheckoutTimeout(t) \/ DeleteForm(t) \/ OpenPayerWallet(t)
    \/ DebitBegins(t) \/ DebitCommits(t) \/ CreditBegins(t) \/ CreditCommits(t)
    \/ PayBegins(t) \/ PayTooLow(t) \/ PaySelects(t) \/ PayCommits(t) \/ MarkPaid(t)
    \/ SetBegins(t) \/ SetCommits(t) \/ RowConflict(t)

Next ==
    \/ \E k \in Kinds : CreatePaymentForm(k)
    \/ \E i \in FormIds : FormExpires(i)
    \/ \E a \in Users : OpenWallet(a)
    \/ \E t \in Tasks :
          \/ TaskStep(t)
          \/ Fail(t)
          \/ \E i \in FormIds : Submit(t, i)
          \/ \E success \in BOOLEAN : BotAnswers(t, success)
          \/ \E a \in Users, n \in Amounts : GrantStars(t, a, n) \/ SetStarsBalance(t, a, n)

Spec == Init /\ [][Next]_vars

\* A request in progress goes on, and a query waits for ten seconds at most.
\* Nothing is assumed of the bot, of the users or of the expiry of forms.
Fairness == \A t \in Tasks : WF_vars(TaskStep(t))
FairSpec == Spec /\ Fairness

-----------------------------------------------------------------------------
(* Properties *)

\* Every wallet is what its transactions add up to, and none is overdrawn,
\* whatever transactions run at the same time and wherever they fail
\* (_credit_stars, _debit_stars, _transfer_stars, set_stars_balance).
LedgerBalanced ==
    \A a \in Accounts : wallet[a] = earned[a] - spent[a] /\ wallet[a] >= 0

SumOf(f, S) == MapThenSumSet(LAMBDA x : f[x], S)
\* What each request took from a wallet and brings to another.
Transit == [t \in Tasks |-> IF InTransit(t) THEN task[t].work.stars ELSE 0]

\* Stars are conserved across wallets: what the wallets hold, with the gifts on
\* their way from debit to credit and those that a failure lost between the two
\* transactions, is what was bought, granted or set, less the commission.
StarsConserved ==
    SumOf(wallet, Accounts) + lost + SumOf(Transit, Tasks) = minted

\* Once the form of an invoice is about to be used for a payment, its bot
\* agreed to this very submission, unless it is a bot that is not asked
\* (_await_bot_precheckout).
PaidOnlyIfApproved ==
    \A t \in Tasks :
        /\ task[t].work \in Invoices
        /\ task[t].work.to \notin Builtin
        /\ task[t].step \in {"delete", "pay", "pay2", "pay3", "receipt"}
        => t \in consent

\* An invoice is paid twice only if two submissions for it overlapped, or one
\* failed after the payment and before the receipt was written into the
\* invoice; a paid invoice was paid for (_load_bot_invoice_message).
PaidTwiceOnlyIfDoubtful ==
    \A k \in Invoices :
        /\ payments[k] > 1 => k \in doubtful
        /\ k \in paid => payments[k] > 0

\* Together: no star is lost or made, and none is paid against a bot's will or
\* twice without reason (send_stars_form).
PaymentsAreRight == StarsConserved /\ PaidOnlyIfApproved /\ PaidTwiceOnlyIfDoubtful

\* A request ends: transactions do not wait for each other for ever, and an
\* unanswered query is given up.
SubmitsEnd == \A t \in Tasks : task[t].step # "idle" ~> task[t].step = "idle"

=============================================================================
